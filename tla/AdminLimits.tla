----------------------------- MODULE AdminLimits -----------------------------
(* The auth service sets a player's daily tournament limit on chain, from the      *)
(* player's entitlements (services/auth/src/casinoAdmin.ts), signing with the one   *)
(* admin key that all its replicas share.  The key's next nonce is kept in Convex    *)
(* (website/convex/admin.ts).  enqueueAdmin runs one task of a replica at a time;    *)
(* tasks of two replicas interleave at every await.  The chain is external.          *)
EXTENDS Naturals

CONSTANTS Replicas, Players, None,
          Desired,     \* the limit that a player's entitlements call for
          MaxNonce,    \* bound: nonces reserved, more than the runs come to
          MaxFailures  \* bound: calls that fail, restarts and transactions lost

VARIABLES
  chainNonce, limit,  \* the admin account's nonce and the players' limits on chain
  pool,               \* submitted transactions: nonce, player and limit
  nextNonce,          \* admin_nonces.nextNonce, or None before the first reservation
  local,              \* a replica's own nextNonce, for when the store fails
  task,               \* a replica's running task
  failures

vars == <<chainNonce, limit, pool, nextNonce, local, task, failures>>

Idle == [pc |-> "idle", player |-> None, nonce |-> None, fallback |-> None]

Init ==
  /\ chainNonce = 0
  /\ limit = [p \in Players |-> 0]
  /\ pool = {}
  /\ nextNonce = None
  /\ local = [r \in Replicas |-> None]
  /\ task = [r \in Replicas |-> Idle]
  /\ failures = 0

-----------------------------------------------------------------------------
(* syncFreerollLimit. *)

\* A player whose limit is as desired needs no transaction.
Begin(r, p) ==
  /\ task[r] = Idle
  /\ limit[p] # Desired[p]
  /\ task' = [task EXCEPT ![r] = [Idle EXCEPT !.pc = "read", !.player = p]]
  /\ UNCHANGED <<chainNonce, limit, pool, nextNonce, local, failures>>

\* reserveNonce first asks the chain for the nonce to fall back on.
ReadNonce(r) ==
  /\ task[r].pc = "read"
  /\ task' = [task EXCEPT ![r].pc = "reserve", ![r].fallback = chainNonce]
  /\ UNCHANGED <<chainNonce, limit, pool, nextNonce, local, failures>>

\* reserveAdminNonce: the fallback serves the first reservation only.
Reserved(r) == IF nextNonce = None THEN task[r].fallback ELSE nextNonce

Reserve(r) ==
  /\ task[r].pc = "reserve"
  /\ Reserved(r) < MaxNonce
  /\ nextNonce' = Reserved(r) + 1
  /\ task' = [task EXCEPT ![r].pc = "submit", ![r].nonce = Reserved(r)]
  /\ UNCHANGED <<chainNonce, limit, pool, local, failures>>

\* The store, or its answer, is not reached: the replica counts for itself, from the
\* chain's nonce.
ReserveLocally(r) ==
  /\ task[r].pc = "reserve"
  /\ failures < MaxFailures
  /\ failures' = failures + 1
  /\ LET reserved == IF local[r] = None THEN chainNonce ELSE local[r]
     IN  /\ reserved < MaxNonce /\ Reserved(r) < MaxNonce
         /\ nextNonce' \in {nextNonce, Reserved(r) + 1}
         /\ local' = [local EXCEPT ![r] = reserved + 1]
         /\ task' = [task EXCEPT ![r].pc = "submit", ![r].nonce = reserved]
  /\ UNCHANGED <<chainNonce, limit, pool>>

\* apply_submission: the nonce is compared with the account's.
Accepts(r) == task[r].nonce = chainNonce

Pooled(r) ==
  IF Accepts(r) THEN pool \cup {[nonce |-> task[r].nonce, player |-> task[r].player]} ELSE pool

Submit(r) ==
  /\ task[r].pc = "submit"
  /\ pool' = Pooled(r)
  /\ task' = [task EXCEPT ![r] = IF Accepts(r) THEN Idle ELSE [@ EXCEPT !.pc = "recover"]]
  /\ UNCHANGED <<chainNonce, limit, nextNonce, local, failures>>

\* resetNonceStore, called when any of the above has thrown, forgets the replica's own
\* nonce and reads the chain's ...
ReadForReset(r) ==
  /\ task[r].pc = "recover"
  /\ local' = [local EXCEPT ![r] = None]
  /\ task' = [task EXCEPT ![r].pc = "reset", ![r].fallback = chainNonce]
  /\ UNCHANGED <<chainNonce, limit, pool, nextNonce, failures>>

\* Mutant: the store goes on after the nonce that failed.
ResetToNext(r) ==
  /\ task[r].pc = "reset"
  /\ nextNonce' = (IF task[r].nonce = None THEN 0 ELSE task[r].nonce + 1)
  /\ task' = [task EXCEPT ![r] = Idle]
  /\ UNCHANGED <<chainNonce, limit, pool, local, failures>>

\* ... and stores that, whatever the other replicas have reserved since.
Reset(r) ==
  /\ task[r].pc = "reset"
  /\ nextNonce' = task[r].fallback
  /\ task' = [task EXCEPT ![r] = Idle]
  /\ UNCHANGED <<chainNonce, limit, pool, local, failures>>

\* The chain cannot be read, the request or its answer is lost, or the store cannot be
\* set back: the last ends the task, the others reset the store first.
Throws(r) ==
  /\ task[r].pc \in {"read", "submit", "reset"}
  /\ failures < MaxFailures
  /\ failures' = failures + 1
  /\ pool' \in (IF task[r].pc = "submit" THEN {pool, Pooled(r)} ELSE {pool})
  /\ nextNonce' \in (IF task[r].pc = "reset" THEN {nextNonce, task[r].fallback} ELSE {nextNonce})
  /\ task' = [task EXCEPT ![r] = IF @.pc = "reset" THEN Idle ELSE [@ EXCEPT !.pc = "recover"]]
  /\ UNCHANGED <<chainNonce, limit, local>>

\* A replica restarts.
Restart(r) ==
  /\ failures < MaxFailures
  /\ failures' = failures + 1
  /\ task' = [task EXCEPT ![r] = Idle]
  /\ local' = [local EXCEPT ![r] = None]
  /\ UNCHANGED <<chainNonce, limit, pool, nextNonce>>

-----------------------------------------------------------------------------
(* The chain. *)

\* A transaction is executed; the others with its nonce are of no use from then on.
Execute(tx) ==
  /\ tx \in pool
  /\ tx.nonce = chainNonce
  /\ chainNonce' = chainNonce + 1
  /\ limit' = [limit EXCEPT ![tx.player] = Desired[tx.player]]
  /\ pool' = {t \in pool : t.nonce > chainNonce}
  /\ UNCHANGED <<nextNonce, local, task, failures>>

\* A node loses a transaction that it has accepted.
Lose(tx) ==
  /\ tx \in pool
  /\ failures < MaxFailures
  /\ failures' = failures + 1
  /\ pool' = pool \ {tx}
  /\ UNCHANGED <<chainNonce, limit, nextNonce, local, task>>

-----------------------------------------------------------------------------

Step(r) ==
  \/ \E p \in Players : Begin(r, p)
  \/ ReadNonce(r) \/ Reserve(r) \/ Submit(r)
  \/ ReadForReset(r) \/ Reset(r)

Fail(r) == ReserveLocally(r) \/ Throws(r) \/ Restart(r)

Next ==
  \/ \E r \in Replicas : Step(r) \/ Fail(r)
  \/ \E tx \in pool : Execute(tx) \/ Lose(tx)

\* Requests and mutations end; the freeroll page asks again for a player whose limit is
\* not set (POST /profile/sync-freeroll); the validators execute what they hold.
Fairness ==
  /\ \A r \in Replicas : WF_vars(Step(r))
  /\ WF_vars(\E tx \in pool : Execute(tx))

Spec == Init /\ [][Next]_vars /\ Fairness

-----------------------------------------------------------------------------
(* Properties. *)

\* reserveNonce and resetNonceStore: a replica that resets the store while another one
\* has a nonce reserved, one that stops between its reservation and its submission, and
\* a reservation made without the store do not keep the shared nonce away from the
\* chain's for ever: every limit is set in the end.
LimitsAreSet == <>(\A p \in Players : limit[p] = Desired[p])
=============================================================================
