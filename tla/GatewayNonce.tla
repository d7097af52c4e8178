---------------------------- MODULE GatewayNonce -----------------------------
(***************************************************************************)
(* How the gateway gives nonces to the transactions of one session         *)
(* (gateway/src/session/nonce.ts): the messages of a client are handled    *)
(* concurrently, each takes the lock of the session's key, reads the       *)
(* nonce, submits over HTTP and waits for the chain's event.               *)
(*                                                                         *)
(* A handler runs from one await to the next without interruption.  What   *)
(* is waiting for a promise resumes before any I/O is looked at, so every  *)
(* step that follows I/O is taken in a Quiet state.                        *)
(***************************************************************************)
EXTENDS Integers

CONSTANTS
  Handlers,               \* the messages that can be in progress at once
  NoHandler,              \* none of them
  CHAIN_RESET_THRESHOLD,  \* the drift at which the chain is taken to be reset
  MaxNonce                \* bound: the backend answers nonces below this one

ASSUME GatewayAssumption ==
  /\ NoHandler \notin Handlers
  /\ CHAIN_RESET_THRESHOLD \in Nat /\ CHAIN_RESET_THRESHOLD > 1
  /\ MaxNonce \in Nat

VARIABLES
  nonce,  \* nonces.get(key) ?? 0
  lock,   \* locks.get(key), known by the handler whose promise it is
  call,   \* what each handler is doing, see Calls
  chain,  \* the account's nonce at the backend
  pool,   \* the transactions the backend has accepted and not executed, each with
          \* the handler that is or was told so
  late    \* the nonces of requests whose handler has given up on them

vars == <<nonce, lock, call, chain, pool, late>>

NoNonce == -1

Txs == [nonce : Nat, by : Handlers \cup {NoHandler}]

Stages == {"idle",        \* no message
           "waiting",     \* awaits the promise in locks
           "ready",       \* that promise has been resolved
           "syncing",     \* fetches the account, in maybeSync
           "submitting",  \* the first submission
           "resyncing",   \* fetches the account after a rejection
           "retrying",    \* the second submission
           "event"}       \* accepted; waits for the chain's event

Calls == [stage : Stages,
          awaits : Handlers \cup {NoHandler},         \* whose promise it awaits
          nonce : Nat \cup {NoNonce},                 \* fetched, or submitted
          answer : {"none", "accepted", "rejected"}]  \* to the submission

Call(s, n) == [stage |-> s, awaits |-> NoHandler, nonce |-> n, answer |-> "none"]

Idle == Call("idle", NoNonce)

Syncing(h) == call[h].stage \in {"syncing", "resyncing"}

Submitting(h) == call[h].stage \in {"submitting", "retrying"}

\* Inside the function that withLock runs.
Inside(h) == Syncing(h) \/ Submitting(h) \/ call[h].stage = "event"

Quiet == \A h \in Handlers : call[h].stage # "ready"

-----------------------------------------------------------------------------
(* The steps that handlers share. *)

\* withLock after its await: the lock is taken over, whoever holds it; then
\* maybeSync fetches the account unless the last fetch is recent.
Enter(h) ==
  /\ lock' = h
  /\ \E c \in {Call("syncing", NoNonce), Call("submitting", nonce)} : call' = [call EXCEPT ![h] = c]

\* Mutant: the promise is removed and never resolved.
ReleaseKeepingWaiters(h) ==
  /\ lock' = NoHandler
  /\ call' = [call EXCEPT ![h] = Idle]

\* The finally block of withLock: whatever lock there is is removed, and
\* all that await this handler's promise may go on.
Release(h) ==
  /\ lock' = NoHandler
  /\ call' = [x \in Handlers |->
                CASE x = h -> Idle
                  [] x # h /\ call[x].awaits = h -> Call("ready", NoNonce)
                  [] OTHER -> call[x]]

-----------------------------------------------------------------------------
(* The gateway. *)

\* A message arrives and its handler calls withLock.
Arrive(h) ==
  /\ Quiet /\ call[h] = Idle
  /\ \/ lock = NoHandler /\ Enter(h)
     \/ /\ lock # NoHandler
        /\ call' = [call EXCEPT ![h].stage = "waiting", ![h].awaits = lock]
        /\ UNCHANGED lock
  /\ UNCHANGED <<nonce, chain, pool, late>>

\* The lock is not looked at again after the await.
Resume(h) ==
  /\ call[h].stage = "ready"
  /\ Enter(h)
  /\ UNCHANGED <<nonce, chain, pool, late>>

\* Mutant: the backend's nonce is always believed.
SyncedNonceOfBackend(onChain) == onChain

\* syncFromBackend: a small drift is taken for the indexer's lag.
SyncedNonce(onChain) ==
  IF nonce > onChain /\ nonce - onChain < CHAIN_RESET_THRESHOLD THEN nonce ELSE onChain

\* The submission that follows a fetch.
NextTry(h) == IF call[h].stage = "syncing" THEN "submitting" ELSE "retrying"

\* The account arrives; the submission follows.
Synced(h) ==
  /\ Quiet /\ Syncing(h) /\ call[h].nonce # NoNonce
  /\ nonce' = SyncedNonce(call[h].nonce)
  /\ call' = [call EXCEPT ![h] = Call(NextTry(h), nonce')]
  /\ UNCHANGED <<lock, chain, pool, late>>

\* The fetch fails: maybeSync's result is ignored, after a rejection the
\* handler gives up.
SyncFails(h) ==
  /\ Quiet
  /\ \/ /\ call[h].stage = "syncing"
        /\ call' = [call EXCEPT ![h] = Call("submitting", nonce)]
        /\ UNCHANGED lock
     \/ call[h].stage = "resyncing" /\ Release(h)
  /\ UNCHANGED <<nonce, chain, pool, late>>

\* Mutant: the nonce is not moved.
NonceAfterSame(n) == n

\* The argument of setCurrentNonce.
NonceAfter(n) == n + 1

\* result.accepted: setCurrentNonce, and the wait for the event begins.
Accepted(h) ==
  /\ Quiet /\ Submitting(h) /\ call[h].answer = "accepted"
  /\ nonce' = NonceAfter(call[h].nonce)
  /\ call' = [call EXCEPT ![h] = Call("event", NoNonce)]
  /\ UNCHANGED <<lock, chain, pool, late>>

\* The answer names the nonce: handleRejection asks for a second try, once.
Rejected(h) ==
  /\ Quiet /\ call[h].answer = "rejected"
  /\ \/ /\ call[h].stage = "submitting"
        /\ call' = [call EXCEPT ![h] = Call("resyncing", NoNonce)]
        /\ UNCHANGED lock
     \/ call[h].stage = "retrying" /\ Release(h)
  /\ UNCHANGED <<nonce, chain, pool, late>>

\* The request is refused before the backend looks at the nonce, by its
\* rate limit or because it cannot be reached: the error names no nonce.
Refused(h) ==
  /\ Quiet /\ Submitting(h) /\ call[h].answer = "none"
  /\ Release(h)
  /\ UNCHANGED <<nonce, chain, pool, late>>

\* The request times out: it may still arrive, or its answer is lost.
TimesOut(h) ==
  /\ Quiet /\ Submitting(h)
  /\ Release(h)
  /\ late' = IF call[h].answer = "none" THEN late \cup {call[h].nonce} ELSE late
  /\ pool' = {IF t = [nonce |-> call[h].nonce, by |-> h] /\ call[h].answer = "accepted"
                THEN [nonce |-> t.nonce, by |-> NoHandler] ELSE t : t \in pool}
  /\ UNCHANGED <<nonce, chain>>

\* The event arrives, or the wait for it ends, or there is none (register,
\* deposit): the handler returns.
Finish(h) ==
  /\ Quiet /\ call[h].stage = "event"
  /\ Release(h)
  /\ UNCHANGED <<nonce, chain, pool, late>>

-----------------------------------------------------------------------------
(* The backend. *)

\* GET /account.
Account(h) ==
  /\ Syncing(h) /\ call[h].nonce = NoNonce
  /\ call' = [call EXCEPT ![h].nonce = chain]
  /\ UNCHANGED <<nonce, lock, chain, pool, late>>

\* Mutant: a nonce above the expected one is let through.
AcceptsFuture(n) == n >= chain

\* apply_submission: the nonce is compared with the account's.
Accepts(n) == n = chain

\* POST /submit.
Deliver(h) ==
  /\ Submitting(h) /\ call[h].answer = "none" /\ call[h].nonce < MaxNonce
  /\ \/ /\ Accepts(call[h].nonce)
        /\ call' = [call EXCEPT ![h].answer = "accepted"]
        /\ pool' = pool \cup {[nonce |-> call[h].nonce, by |-> h]}
     \/ /\ ~Accepts(call[h].nonce)
        /\ call' = [call EXCEPT ![h].answer = "rejected"]
        /\ UNCHANGED pool
  /\ UNCHANGED <<nonce, lock, chain, late>>

\* A request that its handler has given up on arrives, or never does.
DeliverLate(n) ==
  /\ n \in late
  /\ late' = late \ {n}
  /\ \/ UNCHANGED pool
     \/ /\ Accepts(n) /\ n < MaxNonce
        /\ pool' = pool \cup {[nonce |-> n, by |-> NoHandler]}
  /\ UNCHANGED <<nonce, lock, call, chain>>

\* A transaction with the account's nonce is executed; the others with that
\* nonce are of no use from then on.
Execute(t) ==
  /\ t \in pool /\ t.nonce = chain
  /\ chain' = chain + 1
  /\ pool' = {u \in pool : u.nonce > chain}
  /\ UNCHANGED <<nonce, lock, call, late>>

\* A transaction is lost after it was accepted: no validator listens, or
\* the one that has it restarts or evicts it.
Lose(t) ==
  /\ t \in pool
  /\ pool' = pool \ {t}
  /\ UNCHANGED <<nonce, lock, call, chain, late>>

-----------------------------------------------------------------------------
Init ==
  /\ nonce = 0 /\ lock = NoHandler /\ call = [h \in Handlers |-> Idle]
  /\ chain = 0 /\ pool = {} /\ late = {}

\* What the handler of a message does by itself once it has begun.
Handle(h) ==
  Resume(h) \/ Synced(h) \/ SyncFails(h) \/ Accepted(h) \/ Rejected(h) \/ Refused(h) \/ Finish(h)

Next ==
  \/ \E h \in Handlers : Arrive(h) \/ Handle(h) \/ TimesOut(h) \/ Account(h) \/ Deliver(h)
  \/ \E n \in late : DeliverLate(n)
  \/ \E t \in pool : Execute(t) \/ Lose(t)

Spec == Init /\ [][Next]_vars

\* Every fetch ends and every event wait has a timeout, so a handler that has
\* begun goes on; the validators execute what they hold.
FairSpec ==
  /\ Spec
  /\ \A h \in Handlers : WF_vars(Handle(h))
  /\ WF_vars(\E t \in pool : Execute(t))

-----------------------------------------------------------------------------
\* The variables have their types.
TypeOK ==
  /\ nonce \in Nat /\ chain \in Nat
  /\ lock \in Handlers \cup {NoHandler}
  /\ call \in [Handlers -> Calls]
  /\ pool \subseteq Txs
  /\ late \subseteq Nat

\* withLock: the nonces of a key are used by one handler at a time.
Serialized == \A g, h \in Handlers : Inside(g) /\ Inside(h) => g = h

\* setCurrentNonce and syncFromBackend: the gateway's nonce is at most one
\* ahead of the account's, so that a drift that reaches the threshold can
\* only come from a chain that was reset.
NonceAtMostOneAhead == nonce <= chain + 1

\* setCurrentNonce after an accepted submission: no two transactions that the
\* backend accepted, and whose handlers learned it, carry the same nonce, for only
\* one of them would be executed.  (After a timeout the nonce is used again.)
OneTransactionPerNonce ==
  \A t, u \in pool : t.nonce = u.nonce /\ NoHandler \notin {t.by, u.by} => t = u

\* A nonce that was given to an accepted transaction is never given out again:
\* the gateway's nonce does not go back.
NonceOnlyRises == [][nonce' >= nonce]_nonce

\* withLock: every message that has begun is answered; no waiter is left behind
\* when the lock changes hands.
MessagesAreAnswered == \A h \in Handlers : call[h] # Idle ~> call[h] = Idle

\* syncFromBackend after a rejection: a nonce that the backend does not accept
\* yet is one it accepts later, or the gateway takes the backend's.
NonceIsAcceptedAgain == nonce > chain ~> nonce <= chain
=============================================================================
