------------------------------ MODULE MCAccounts ------------------------------
(* The account services of the auth server and Convex, for TLC: sign-in and links   *)
(* (Identity), billing, and the admin's limits.  The three share no variable, so    *)
(* a behaviour of the run is one of a single part.                                   *)
EXTENDS Identity, Sequences

CONSTANTS u1, u2, Subscriptions, Prices, BatchSize, MaxCheckouts, MaxChanges,
          Replicas, Players, MaxNonce, MaxFailures

VARIABLES part,  \* the part that moves
          customer, created, checkouts, begun, sessions, subscriptions, webhooks, changes,
          events, entitlements, cursor, jobs, failures,
          chainNonce, limit, pool, nextNonce, local, task, adminFailures

billingVars == <<customer, created, checkouts, begun, sessions, subscriptions, webhooks,
                 changes, events, entitlements, cursor, jobs, failures>>
adminVars == <<chainNonce, limit, pool, nextNonce, local, task, adminFailures>>

B == INSTANCE Billing WITH Users <- <<u1, u2>>, Buyers <- {u2}
A == INSTANCE AdminLimits WITH Desired <- [p \in Players |-> 1], failures <- adminFailures

MCInit ==
  /\ Init /\ B!Init /\ A!Init
  /\ part \in {"identity", "billing", "admin"}
  /\ part # "identity" => \A k \in Keys : publicKey[k] = None

MCNext ==
  /\ \/ part = "identity" /\ Next /\ UNCHANGED <<billingVars, adminVars>>
     \/ part = "billing" /\ B!Next /\ UNCHANGED <<vars, adminVars>>
     \/ part = "admin" /\ A!Next /\ UNCHANGED <<vars, billingVars>>
  /\ UNCHANGED part

\* Billing!Fairness and AdminLimits!Fairness, each in the behaviours of its part.
MCFairness ==
  /\ WF_billingVars(part = "billing" /\ B!BeginCron)
  /\ WF_billingVars(part = "billing" /\ B!FinishCron)
  /\ \A j \in {"cron", "user"} : WF_billingVars(part = "billing" /\ B!Reconcile(j))
  /\ \A i \in 0 .. MaxChanges - 1 :
       WF_billingVars(part = "billing" /\ \E w \in webhooks : w.id = i /\ B!GiveUp(w))
  /\ \A s \in Subscriptions, status \in {"active", "canceled"} :
       WF_billingVars(part = "billing" /\ B!PruneStripeEvent(<<"reconcile", s, status>>))
  /\ \A r \in Replicas : WF_adminVars(part = "admin" /\ A!Step(r))
  /\ WF_adminVars(part = "admin" /\ \E tx \in pool : A!Execute(tx))

MCSpec == MCInit /\ [][MCNext]_<<part, vars, billingVars, adminVars>> /\ MCFairness

\* See Billing.EntitlementsConverge, about applyStripeEvent and the reconcile actions.
EntitlementsConverge == part = "billing" => B!EntitlementsConverge

\* See AdminLimits.LimitsAreSet, about reserveNonce and resetNonceStore.
LimitsAreSet == part = "admin" => A!LimitsAreSet
=============================================================================
