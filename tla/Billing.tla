------------------------------- MODULE Billing -------------------------------
(* Membership billing: Stripe's subscriptions, the webhooks it sends about them,  *)
(* and the entitlements that website/convex keeps of them.  Stripe itself is       *)
(* external: it delivers a webhook late, out of order, more than once or never.    *)
(* A Convex mutation is one step; an action (checkout, reconcile) is one step per  *)
(* call that it awaits.                                                            *)
EXTENDS Naturals, Sequences, FiniteSets

CONSTANTS Users,         \* the sequence of users, in the order of their creation
          Subscriptions, Prices, None,
          BatchSize,     \* STRIPE_RECONCILE_BATCH_SIZE
          Buyers,        \* bound: the users who check out
          MaxCheckouts,  \* bound: their checkouts
          MaxChanges,    \* bound: changes of the subscriptions
          MaxFailures    \* bound: reconcile actions that fail half-way

VARIABLES
  customer,      \* users.stripeCustomerId
  created,       \* the number of customers at Stripe, which are 1, 2, ...
  checkouts,     \* running createCheckoutSession actions that found no customer
  begun,         \* the checkouts begun
  sessions,      \* customers with a checkout session
  subscriptions, \* Stripe's subscriptions: customer, status and prices
  webhooks,      \* webhooks that Stripe still delivers
  changes,       \* the number of changes, which numbers the webhooks
  events,        \* ids in the stripe_events table
  entitlements,  \* the status of a subscription's price
  cursor,        \* stripe_reconcile_state.cursor: users already covered by this round
  jobs,          \* the running reconcile actions: of the cron and of a user
  failures

vars == <<customer, created, checkouts, begun, sessions, subscriptions, webhooks,
          changes, events, entitlements, cursor, jobs, failures>>
stripeVars == <<created, sessions, subscriptions, webhooks, changes>>
storeVars == <<events, entitlements>>
userVars == <<customer, checkouts, begun>>

UserSet == {Users[i] : i \in 1 .. Len(Users)}
NoSubscription == [customer |-> None]
NoJob == [users |-> <<>>, listed |-> {}, last |-> 0]

Init ==
  /\ customer = [u \in UserSet |-> None]
  /\ created = 0
  /\ checkouts = {}
  /\ begun = 0
  /\ sessions = {}
  /\ subscriptions = [s \in Subscriptions |-> NoSubscription]
  /\ webhooks = {}
  /\ changes = 0
  /\ events = {}
  /\ entitlements = [k \in Subscriptions \X Prices |-> None]
  /\ cursor = 0
  /\ jobs = [j \in {"cron", "user"} |-> NoJob]
  /\ failures = 0

-----------------------------------------------------------------------------
(* Checkout.  Two of one user may both find that it has no customer. *)

BeginCheckout(u) ==
  /\ begun < MaxCheckouts
  /\ begun' = begun + 1
  /\ IF customer[u] = None
       THEN checkouts' = checkouts \cup {<<u, begun>>} /\ UNCHANGED sessions
       ELSE sessions' = sessions \cup {customer[u]} /\ UNCHANGED checkouts
  /\ UNCHANGED <<customer, created, subscriptions, webhooks, changes, storeVars, cursor,
                 jobs, failures>>

\* Stripe creates the customer, and setStripeCustomerId overwrites what is there.
CreateCustomer(checkout) ==
  /\ checkout \in checkouts
  /\ created' = created + 1
  /\ customer' = [customer EXCEPT ![checkout[1]] = created']
  /\ checkouts' = checkouts \ {checkout}
  /\ sessions' = sessions \cup {created'}
  /\ UNCHANGED <<begun, subscriptions, webhooks, changes, storeVars, cursor, jobs, failures>>

-----------------------------------------------------------------------------
(* Stripe: every change of a subscription sends a webhook with its new state. *)

Change(s, type, new) ==
  /\ changes < MaxChanges
  /\ changes' = changes + 1
  /\ subscriptions' = [subscriptions EXCEPT ![s] = new]
  /\ webhooks' = webhooks \cup {[id |-> changes, type |-> type, sub |-> s, new |-> new]}
  /\ UNCHANGED <<userVars, created, sessions, storeVars, cursor, jobs, failures>>

Subscribe(s, c, p) ==
  /\ subscriptions[s] = NoSubscription
  /\ Change(s, "created",
            [customer |-> c, status |-> "active", prices |-> {p}])

\* A change of plan within the billing period.
Update(s, prices) ==
  /\ subscriptions[s] # NoSubscription
  /\ subscriptions[s].status = "active"
  /\ subscriptions[s].prices # prices
  /\ Change(s, "updated", [subscriptions[s] EXCEPT !.prices = prices])

Cancel(s) ==
  /\ subscriptions[s] # NoSubscription
  /\ subscriptions[s].status = "active"
  /\ Change(s, "deleted", [subscriptions[s] EXCEPT !.status = "canceled"])

\* Stripe stops delivering a webhook, delivered or not.  Its id is of no more use, and
\* leaves the table with it: pruning it later would change nothing.
GiveUp(w) ==
  /\ w \in webhooks
  /\ webhooks' = webhooks \ {w}
  /\ events' = events \ {<<"webhook", w.id>>}
  /\ UNCHANGED <<userVars, created, sessions, subscriptions, changes, entitlements, cursor,
                 jobs, failures>>

-----------------------------------------------------------------------------
(* The store. *)

Known(s) == \E u \in UserSet : customer[u] = subscriptions[s].customer

\* Mutant: a reconciled subscription keeps the entitlements of the prices it has left.
KeepsAsCreated(type) == type # "deleted" /\ type # "updated"

\* Only the first event of a subscription leaves its other prices alone.
Keeps(type) == type = "created"

\* Every item gets the subscription's status; then the prices that are no longer
\* among the items end.
Entitled(sub, type, new) ==
  [k \in Subscriptions \X Prices |->
     IF k[1] # sub THEN entitlements[k]
     ELSE IF k[2] \in new.prices /\ type # "deleted" THEN new.status
     ELSE IF Keeps(type) \/ (entitlements[k] = None /\ k[2] \notin new.prices)
       THEN entitlements[k]
     ELSE "canceled"]

\* applyStripeEvent: an event that was seen changes nothing; one whose customer
\* belongs to no user is recorded all the same.
ApplyStripeEvent(id, sub, type, new) ==
  /\ events' = events \cup {id}
  /\ entitlements' = IF id \notin events /\ Known(sub) THEN Entitled(sub, type, new)
                     ELSE entitlements

\* handleStripeWebhook.  Stripe may deliver the same webhook again.
HandleWebhook(w) ==
  /\ w \in webhooks
  /\ ApplyStripeEvent(<<"webhook", w.id>>, w.sub, w.type, w.new)
  /\ UNCHANGED <<userVars, stripeVars, cursor, jobs, failures>>

\* pruneStripeEvents drops an event after thirty days, ten times as long as Stripe
\* delivers a webhook.
PruneStripeEvent(id) ==
  /\ id \in events
  /\ id[1] = "reconcile"
  /\ events' = events \ {id}
  /\ UNCHANGED <<userVars, stripeVars, entitlements, cursor, jobs, failures>>

-----------------------------------------------------------------------------
(* Reconciliation: the cron walks the users page by page; a user may ask for it. *)

Least(a, b) == IF a < b THEN a ELSE b

\* reconcileStripeCustomers reads its cursor and the next page of users, with the
\* customers they have now.
BeginCron ==
  /\ jobs["cron"] = NoJob
  /\ LET last == Least(cursor + BatchSize, Len(Users))
     IN  jobs' = [jobs EXCEPT !["cron"] =
                    [users |-> [i \in 1 .. last - cursor |-> customer[Users[cursor + i]]],
                     listed |-> {}, last |-> last]]
  /\ UNCHANGED <<userVars, stripeVars, storeVars, cursor, failures>>

\* reconcileCustomerSubscriptions throws for a user without a customer.
BeginUserReconcile(u) ==
  /\ jobs["user"] = NoJob
  /\ customer[u] # None
  /\ jobs' = [jobs EXCEPT !["user"] = [NoJob EXCEPT !.users = <<customer[u]>>]]
  /\ UNCHANGED <<userVars, stripeVars, storeVars, cursor, failures>>

\* stripe.subscriptions.list, with status "all": a snapshot of the subscriptions.
List(j) ==
  /\ jobs[j].users # <<>>
  /\ jobs[j].listed = {}
  /\ LET c == Head(jobs[j].users)
         owned == {s \in Subscriptions : c # None /\ subscriptions[s].customer = c}
     IN  jobs' = [jobs EXCEPT ![j].users = Tail(@),
                              ![j].listed = {<<s, subscriptions[s]>> : s \in owned}]
  /\ UNCHANGED <<userVars, stripeVars, storeVars, cursor, failures>>

\* The id names the subscription's status and the end of its period, which a change
\* of plan keeps, and not its prices.
ReconcileId(sub, new) == <<"reconcile", sub, new.status>>

ApplyListed(j, l) ==
  /\ l \in jobs[j].listed
  /\ ApplyStripeEvent(ReconcileId(l[1], l[2]), l[1], "reconcile", l[2])
  /\ jobs' = [jobs EXCEPT ![j].listed = @ \ {l}]
  /\ UNCHANGED <<userVars, stripeVars, cursor, failures>>

\* After the last page the next round begins: the cursor is null again.
NextCursor(last) == IF last = Len(Users) THEN 0 ELSE last

FinishCron ==
  /\ jobs["cron"].last > 0
  /\ jobs["cron"].users = <<>> /\ jobs["cron"].listed = {}
  /\ cursor' = NextCursor(jobs["cron"].last)
  /\ jobs' = [jobs EXCEPT !["cron"] = NoJob]
  /\ UNCHANGED <<userVars, stripeVars, storeVars, failures>>

\* A call to Stripe or to the store throws: the page is done again from its start.
FailJob(j) ==
  /\ jobs[j] # NoJob
  /\ failures < MaxFailures
  /\ failures' = failures + 1
  /\ jobs' = [jobs EXCEPT ![j] = NoJob]
  /\ UNCHANGED <<userVars, stripeVars, storeVars, cursor>>

-----------------------------------------------------------------------------

Reconcile(j) == List(j) \/ \E l \in jobs[j].listed : ApplyListed(j, l)

Stripe ==
  \E s \in Subscriptions :
    \/ \E c \in sessions, p \in Prices : Subscribe(s, c, p)
    \/ \E prices \in SUBSET Prices \ {{}} : Update(s, prices)
    \/ Cancel(s)

Next ==
  \/ \E u \in Buyers : BeginCheckout(u) \/ BeginUserReconcile(u)
  \/ \E checkout \in checkouts : CreateCustomer(checkout)
  \/ Stripe
  \/ \E w \in webhooks : HandleWebhook(w) \/ GiveUp(w)
  \/ \E id \in events : PruneStripeEvent(id)
  \/ BeginCron \/ FinishCron
  \/ \E j \in DOMAIN jobs : Reconcile(j) \/ FailJob(j)

\* Stripe gives up on every webhook; the crons run and prune; an action ends.
Fairness ==
  /\ WF_vars(BeginCron) /\ WF_vars(FinishCron)
  /\ \A j \in {"cron", "user"} : WF_vars(Reconcile(j))
  /\ \A i \in 0 .. MaxChanges - 1 : WF_vars(\E w \in webhooks : w.id = i /\ GiveUp(w))
  /\ \A s \in Subscriptions, status \in {"active", "canceled"} :
       WF_vars(PruneStripeEvent(<<"reconcile", s, status>>))

Spec == Init /\ [][Next]_vars /\ Fairness

-----------------------------------------------------------------------------
(* Properties. *)

Matches(s) ==
  \A p \in Prices :
    LET status == entitlements[<<s, p>>]
    IN  IF p \in subscriptions[s].prices THEN status = subscriptions[s].status
        ELSE status # "active"

\* Webhooks may be lost, repeated and reordered, and a reconcile action may apply a
\* list that is out of date, or be skipped as already seen: when the subscriptions no
\* longer change, the entitlements of every user's customer end up as Stripe has them.
EntitlementsConverge ==
  \A s \in Subscriptions :
    <>[](subscriptions[s] # NoSubscription /\ Known(s) => Matches(s))
=============================================================================
