------------------------- MODULE GatewayNonceProofs --------------------------
(***************************************************************************)
(* For every number of messages in progress, the gateway's nonce is at     *)
(* most one ahead of the account's.  With at most two of them the lock of  *)
(* withLock is exclusive, the nonce never goes back and no two accepted    *)
(* transactions share one.                                                 *)
(***************************************************************************)
EXTENDS GatewayNonce, TLAPS

\* What a handler holds is not ahead of the account: the nonce it fetched, and
\* the nonce of a submission that was accepted.
HeldNonce(h) ==
  /\ Submitting(h) => call[h].nonce \in Nat
  /\ Syncing(h) => call[h].nonce <= chain
  /\ call[h].answer = "accepted" => Submitting(h) /\ call[h].nonce <= chain

\* The inductive invariant behind NonceAtMostOneAhead.
NonceInv ==
  /\ TypeOK
  /\ NonceAtMostOneAhead
  /\ \A h \in Handlers : HeldNonce(h)

\* No three messages are in progress at once.
AtMostTwo == \A f, g, h \in Handlers : f = g \/ g = h \/ f = h

\* How the handlers relate to the lock.
LockedBy(h) ==
  /\ Inside(h) => lock = h
  /\ call[h].stage # "waiting" => call[h].awaits = NoHandler
  /\ call[h].stage = "waiting" =>
       call[h].awaits \in Handlers \ {h} /\ Inside(call[h].awaits)
  /\ call[h].stage = "ready" =>
       lock = NoHandler /\ \A g \in Handlers \ {h} : call[g] = Idle

\* The inductive invariant behind Serialized: the lock is held exactly while a
\* handler is inside, and whoever is ready to take it is alone.
LockInv ==
  /\ TypeOK
  /\ lock # NoHandler => lock \in Handlers /\ Inside(lock)
  /\ \A h \in Handlers : LockedBy(h)

-----------------------------------------------------------------------------
\* The calls that the steps build have the type of a call.
LEMMA CallType ==
  ASSUME NEW s \in Stages, NEW n \in Nat \cup {NoNonce}
  PROVE  /\ Call(s, n) \in Calls
         /\ Call(s, n).stage = s /\ Call(s, n).nonce = n
         /\ Call(s, n).answer = "none" /\ Call(s, n).awaits = NoHandler
BY DEF Call, Calls

\* Release changes the calls of h and of those that await it, and each becomes
\* one that holds no nonce.
LEMMA ReleaseCalls ==
  ASSUME TypeOK, NEW h \in Handlers, Release(h)
  PROVE  /\ call' \in [Handlers -> Calls]
         /\ lock' = NoHandler
         /\ call'[h] = Idle
         /\ \A x \in Handlers \ {h} :
              call'[x] = IF call[x].awaits = h THEN Call("ready", NoNonce) ELSE call[x]
<1>1. /\ Idle \in Calls /\ Call("ready", NoNonce) \in Calls
  BY CallType DEF Idle, Stages
<1>2. \A x \in Handlers : call[x] \in Calls
  BY DEF TypeOK
<1> QED
  BY <1>1, <1>2 DEF Release

\* Enter changes the call of h only, to one that fetches or that submits the
\* gateway's nonce.
LEMMA EnterCalls ==
  ASSUME TypeOK, NEW h \in Handlers, Enter(h)
  PROVE  /\ call' \in [Handlers -> Calls]
         /\ lock' = h
         /\ call'[h] = Call("syncing", NoNonce) \/ call'[h] = Call("submitting", nonce)
         /\ \A x \in Handlers \ {h} : call'[x] = call[x]
<1>1. PICK c \in {Call("syncing", NoNonce), Call("submitting", nonce)} : call' = [call EXCEPT ![h] = c]
  BY DEF Enter
<1>2. c \in Calls
  <2>1. Call("syncing", NoNonce) \in Calls
    BY CallType DEF Stages
  <2>2. Call("submitting", nonce) \in Calls
    BY CallType DEF TypeOK, Stages
  <2> QED
    BY <1>1, <2>1, <2>2
<1> QED
  BY <1>1, <1>2 DEF Enter, TypeOK

-----------------------------------------------------------------------------
\* SyncedNonce does not go above both the gateway's nonce and the account's.
LEMMA SyncedNonceBound ==
  ASSUME nonce \in Nat, NEW n \in Nat
  PROVE  /\ SyncedNonce(n) \in Nat
         /\ SyncedNonce(n) = nonce \/ SyncedNonce(n) = n
BY DEF SyncedNonce

\* Every step keeps NonceInv.
LEMMA NonceStep ==
  ASSUME NonceInv, [Next]_vars
  PROVE  NonceInv'
<1> USE DEF NonceInv, NonceAtMostOneAhead
<1>0. /\ nonce \in Nat /\ chain \in Nat
      /\ \A h \in Handlers : call[h] \in Calls /\ call[h].nonce \in Nat \cup {NoNonce}
  BY DEF TypeOK, Calls
<1>1. ASSUME NEW h \in Handlers, Release(h), UNCHANGED <<nonce, chain>>,
             pool' \subseteq Txs, late' \subseteq Nat
      PROVE  NonceInv'
  <2>1. TypeOK'
    BY <1>1, ReleaseCalls DEF TypeOK
  <2>2. ASSUME NEW x \in Handlers PROVE HeldNonce(x)'
    <3>1. CASE call'[x] = call[x]
      BY <3>1, <1>1 DEF HeldNonce, Submitting, Syncing
    <3>2. CASE call'[x] = Idle \/ call'[x] = Call("ready", NoNonce)
      BY <3>2 DEF HeldNonce, Submitting, Syncing, Idle, Call
    <3> QED
      BY <3>1, <3>2, <1>1, ReleaseCalls
  <2> QED
    BY <1>1, <2>1, <2>2
<1>2. ASSUME NEW h \in Handlers, Enter(h), UNCHANGED <<nonce, chain, pool, late>>
      PROVE  NonceInv'
  <2>1. TypeOK'
    BY <1>2, EnterCalls DEF TypeOK
  <2>2. ASSUME NEW x \in Handlers PROVE HeldNonce(x)'
    <3>1. CASE x # h
      BY <3>1, <1>2, EnterCalls DEF HeldNonce, Submitting, Syncing
    <3>2. CASE x = h
      BY <3>2, <1>0, <1>2, EnterCalls DEF HeldNonce, Submitting, Syncing, Call, NoNonce
    <3> QED
      BY <3>1, <3>2
  <2> QED
    BY <1>2, <2>1, <2>2
<1>3. ASSUME NEW h \in Handlers, NEW c \in Calls, call' = [call EXCEPT ![h] = c],
             UNCHANGED <<lock, chain, late>>, pool' \subseteq Txs,
             nonce' \in Nat, nonce' <= chain + 1, HeldNonce(h)'
      PROVE  NonceInv'
  <2>1. TypeOK'
    BY <1>3 DEF TypeOK
  <2>2. ASSUME NEW x \in Handlers PROVE HeldNonce(x)'
    BY <1>3 DEF HeldNonce, Submitting, Syncing, TypeOK
  <2> QED
    BY <1>3, <2>1, <2>2
<1>4. ASSUME NEW h \in Handlers, Arrive(h) PROVE NonceInv'
  <2>1. CASE Enter(h)
    BY <2>1, <1>2, <1>4 DEF Arrive
  <2>2. CASE call' = [call EXCEPT ![h].stage = "waiting", ![h].awaits = lock] /\ UNCHANGED lock
    <3>1. /\ [call[h] EXCEPT !.stage = "waiting", !.awaits = lock] \in Calls
          /\ call' = [call EXCEPT ![h] = [call[h] EXCEPT !.stage = "waiting", !.awaits = lock]]
      BY <2>2, <1>0 DEF TypeOK, Calls, Stages
    <3>2. call[h].answer = "none"
      BY <1>4 DEF Arrive, Idle, Call
    <3>3. HeldNonce(h)'
      BY <3>1, <3>2, <1>0 DEF HeldNonce, Submitting, Syncing, TypeOK
    <3> QED
      BY <1>3, <1>4, <3>1, <3>3, <2>2 DEF Arrive, TypeOK
  <2> QED
    BY <1>4, <2>1, <2>2 DEF Arrive
<1>5. ASSUME NEW h \in Handlers, Synced(h) PROVE NonceInv'
  <2>1. nonce' \in Nat /\ nonce' <= chain + 1
    BY <1>0, <1>5, SyncedNonceBound DEF Synced, HeldNonce
  <2>2. NextTry(h) \in {"submitting", "retrying"}
    BY DEF NextTry
  <2>3. Call(NextTry(h), nonce') \in Calls
    BY <2>1, <2>2, CallType DEF Stages
  <2>4. HeldNonce(h)'
    BY <1>5, <2>1, <2>2 DEF Synced, HeldNonce, Submitting, Syncing, Call, TypeOK
  <2> QED
    BY <1>3, <1>5, <2>1, <2>3, <2>4 DEF Synced, TypeOK
<1>6. ASSUME NEW h \in Handlers, SyncFails(h) PROVE NonceInv'
  <2>1. CASE Release(h)
    BY <1>1, <1>6, <2>1 DEF SyncFails, TypeOK
  <2>2. CASE call' = [call EXCEPT ![h] = Call("submitting", nonce)] /\ UNCHANGED lock
    <3>1. Call("submitting", nonce) \in Calls
      BY <1>0, CallType DEF Stages
    <3>2. HeldNonce(h)'
      BY <1>0, <2>2 DEF HeldNonce, Submitting, Syncing, Call, TypeOK
    <3> QED
      BY <1>3, <1>6, <2>2, <3>1, <3>2 DEF SyncFails, TypeOK
  <2> QED
    BY <1>6, <2>1, <2>2 DEF SyncFails
<1>7. ASSUME NEW h \in Handlers, Accepted(h) PROVE NonceInv'
  <2>1. Call("event", NoNonce) \in Calls
    BY CallType DEF Stages
  <2>2. nonce' \in Nat /\ nonce' <= chain + 1
    BY <1>0, <1>7 DEF Accepted, NonceAfter, HeldNonce
  <2>3. HeldNonce(h)'
    BY <1>7 DEF Accepted, HeldNonce, Submitting, Syncing, Call, TypeOK
  <2> QED
    BY <1>3, <1>7, <2>1, <2>2, <2>3 DEF Accepted, TypeOK
<1>8. ASSUME NEW h \in Handlers, Rejected(h) PROVE NonceInv'
  <2>1. CASE Release(h)
    BY <1>1, <1>8, <2>1 DEF Rejected, TypeOK
  <2>2. CASE call' = [call EXCEPT ![h] = Call("resyncing", NoNonce)] /\ UNCHANGED lock
    <3>1. Call("resyncing", NoNonce) \in Calls
      BY CallType DEF Stages
    <3>2. HeldNonce(h)'
      BY <1>0, <1>8, <2>2 DEF Rejected, HeldNonce, Submitting, Syncing, Call, TypeOK, NoNonce
    <3> QED
      BY <1>3, <1>8, <2>2, <3>1, <3>2 DEF Rejected, TypeOK
  <2> QED
    BY <1>8, <2>1, <2>2 DEF Rejected
<1>9. ASSUME NEW h \in Handlers, Refused(h) \/ Finish(h) PROVE NonceInv'
  BY <1>1, <1>9 DEF Refused, Finish, TypeOK
<1>10. ASSUME NEW h \in Handlers, TimesOut(h) PROVE NonceInv'
  <2>1. late' \subseteq Nat
    BY <1>10 DEF TimesOut, HeldNonce, TypeOK
  <2>2. pool' \subseteq Txs
    <3>1. \A t \in pool : t \in Txs /\ [nonce |-> t.nonce, by |-> NoHandler] \in Txs
      BY DEF TypeOK, Txs
    <3> QED
      BY <1>10, <3>1 DEF TimesOut
  <2> QED
    BY <1>1, <1>10, <2>1, <2>2 DEF TimesOut
<1>11. ASSUME NEW h \in Handlers, Account(h) PROVE NonceInv'
  <2>1. /\ [call[h] EXCEPT !.nonce = chain] \in Calls
        /\ call' = [call EXCEPT ![h] = [call[h] EXCEPT !.nonce = chain]]
    BY <1>0, <1>11 DEF Account, Calls
  <2>2. HeldNonce(h)'
    BY <1>0, <1>11, <2>1 DEF Account, HeldNonce, Submitting, Syncing, TypeOK
  <2> QED
    BY <1>3, <1>11, <2>1, <2>2, <1>0 DEF Account, TypeOK
<1>12. ASSUME NEW h \in Handlers, Deliver(h) PROVE NonceInv'
  <2>1. PICK a \in {"accepted", "rejected"} :
          /\ call' = [call EXCEPT ![h].answer = a]
          /\ a = "accepted" => Accepts(call[h].nonce)
          /\ pool' \subseteq pool \cup {[nonce |-> call[h].nonce, by |-> h]}
    <3>1. CASE Accepts(call[h].nonce)
      BY <1>12, <3>1 DEF Deliver
    <3>2. CASE ~Accepts(call[h].nonce)
      BY <1>12, <3>2 DEF Deliver
    <3> QED
      BY <3>1, <3>2
  <2>2. /\ [call[h] EXCEPT !.answer = a] \in Calls
        /\ call' = [call EXCEPT ![h] = [call[h] EXCEPT !.answer = a]]
    BY <1>0, <2>1 DEF Calls
  <2>3. pool' \subseteq Txs
    BY <1>12, <2>1 DEF Deliver, HeldNonce, TypeOK, Txs
  <2>4. HeldNonce(h)'
    BY <1>0, <1>12, <2>1, <2>2 DEF Deliver, HeldNonce, Submitting, Syncing, TypeOK, Accepts
  <2> QED
    BY <1>3, <1>12, <2>2, <2>3, <2>4, <1>0 DEF Deliver
<1>13. ASSUME NEW n \in late, DeliverLate(n) PROVE NonceInv'
  <2>1. TypeOK'
    BY <1>13 DEF DeliverLate, TypeOK, Txs
  <2> QED
    BY <1>13, <2>1 DEF DeliverLate, HeldNonce, Submitting, Syncing
<1>14. ASSUME NEW t \in pool, Execute(t) PROVE NonceInv'
  <2>1. TypeOK'
    BY <1>14 DEF Execute, TypeOK
  <2>2. ASSUME NEW x \in Handlers PROVE HeldNonce(x)'
    BY <1>0, <1>14 DEF Execute, HeldNonce, Submitting, Syncing, NoNonce
  <2> QED
    BY <1>0, <1>14, <2>1, <2>2 DEF Execute
<1>15. ASSUME NEW t \in pool, Lose(t) PROVE NonceInv'
  BY <1>15 DEF Lose, TypeOK, HeldNonce, Submitting, Syncing
<1>17. CASE UNCHANGED vars
  BY <1>17 DEF vars, TypeOK, HeldNonce, Submitting, Syncing
<1>16. ASSUME NEW h \in Handlers, Resume(h) PROVE NonceInv'
  BY <1>2, <1>16 DEF Resume
<1> QED
  BY <1>4, <1>5, <1>6, <1>7, <1>8, <1>9, <1>10, <1>11, <1>12, <1>13, <1>14, <1>15, <1>16,
     <1>17
     DEF Next, Handle

\* setCurrentNonce and syncFromBackend never put the gateway's nonce more than
\* one ahead of the account's, however many messages are in progress and
\* whatever is timed out.
THEOREM NonceIsAtMostOneAhead == Spec => []NonceAtMostOneAhead
<1>1. Init => NonceInv
  BY CallType DEF Init, NonceInv, TypeOK, NonceAtMostOneAhead, HeldNonce, Submitting, Syncing,
                  Idle, Call, Stages, Calls
<1>2. NonceInv /\ [Next]_vars => NonceInv'
  BY NonceStep
<1>3. NonceInv => NonceAtMostOneAhead
  BY DEF NonceInv
<1> QED
  BY <1>1, <1>2, <1>3, PTL DEF Spec

-----------------------------------------------------------------------------
\* With at most two messages in progress every step keeps LockInv.
LEMMA LockStep ==
  ASSUME AtMostTwo, NonceInv, TypeOK', LockInv, [Next]_vars
  PROVE  LockInv'
<1> USE GatewayAssumption DEF LockInv
<1>0. \A h \in Handlers : /\ call[h] \in Calls
                          /\ Inside(h) \/ call[h].stage \in {"idle", "waiting", "ready"}
  BY DEF TypeOK, Calls, Stages, Inside, Syncing, Submitting
<1>1. ASSUME NEW h \in Handlers, Inside(h), Release(h)
      PROVE  LockInv'
  <2>1. /\ lock = h /\ lock' = NoHandler /\ call'[h] = Idle
        /\ \A x \in Handlers \ {h} :
              call'[x] = IF call[x].awaits = h THEN Call("ready", NoNonce) ELSE call[x]
    BY <1>1, ReleaseCalls DEF LockedBy
  <2>2. ASSUME NEW x \in Handlers \ {h} PROVE call[x].stage = "idle" \/ call[x].awaits = h
    <3>1. CASE call[x].stage = "waiting"
      BY <3>1, AtMostTwo DEF LockedBy, AtMostTwo
    <3>2. CASE Inside(x) \/ call[x].stage = "ready"
      BY <3>2, <2>1 DEF LockedBy
    <3> QED
      BY <1>0, <3>1, <3>2
  <2>3. ASSUME NEW x \in Handlers PROVE call'[x].stage \in {"idle", "ready"} /\ call'[x].awaits = NoHandler
    BY <2>1, <2>2 DEF Idle, Call, LockedBy
  <2>4. ASSUME NEW x \in Handlers, call'[x].stage = "ready", NEW g \in Handlers \ {x} PROVE call'[g] = Idle
    BY <2>1, <2>4, AtMostTwo DEF AtMostTwo, Idle, Call
  <2>5. ASSUME NEW x \in Handlers PROVE LockedBy(x)'
    BY <2>1, <2>3, <2>4 DEF LockedBy, Inside, Syncing, Submitting
  <2> QED
    BY <2>1, <2>5
<1>2. ASSUME NEW h \in Handlers, Enter(h), lock = NoHandler,
             \A g \in Handlers \ {h} : call[g].stage \in {"idle", "waiting"}
      PROVE  LockInv'
  <2>1. /\ lock' = h /\ Inside(h)' /\ call'[h].awaits = NoHandler
        /\ call'[h].stage \notin {"idle", "waiting", "ready"}
        /\ \A x \in Handlers \ {h} : call'[x] = call[x]
    BY <1>2, EnterCalls DEF Inside, Syncing, Submitting, Call
  <2>2. ASSUME NEW x \in Handlers \ {h} PROVE call[x].stage # "waiting"
    BY <1>0, <1>2 DEF LockedBy
  <2>3. ASSUME NEW x \in Handlers PROVE LockedBy(x)'
    BY <1>2, <2>1, <2>2 DEF LockedBy, Inside, Syncing, Submitting
  <2> QED
    BY <2>1, <2>3
<1>3. ASSUME NEW h \in Handlers, Inside(h), Inside(h)', UNCHANGED lock,
             call'[h].awaits = NoHandler, \A x \in Handlers \ {h} : call'[x] = call[x]
      PROVE  LockInv'
  <2>1. lock = h
    BY <1>3 DEF LockedBy
  <2>2. \A x \in Handlers : call[x].stage # "ready"
    BY <1>3, <2>1 DEF LockedBy
  <2>3. \A x \in Handlers : Inside(x)' <=> Inside(x)
    BY <1>3 DEF Inside, Syncing, Submitting
  <2>4. call'[h].stage \notin {"waiting", "ready"}
    BY <1>3 DEF Inside, Syncing, Submitting
  <2>5. ASSUME NEW x \in Handlers PROVE LockedBy(x)'
    BY <1>3, <2>1, <2>2, <2>3, <2>4 DEF LockedBy
  <2> QED
    BY <1>3, <2>1, <2>5
<1>4. ASSUME UNCHANGED <<lock, call>> PROVE LockInv'
  BY <1>4 DEF LockedBy, Inside, Syncing, Submitting
<1>5. ASSUME NEW h \in Handlers, Arrive(h) PROVE LockInv'
  <2>1. CASE lock = NoHandler /\ Enter(h)
    <3>1. \A g \in Handlers \ {h} : call[g].stage \in {"idle", "waiting"}
      BY <1>0, <1>5, <2>1 DEF Arrive, Quiet, LockedBy
    <3> QED
      BY <1>2, <2>1, <3>1
  <2>2. CASE /\ lock # NoHandler
             /\ call' = [call EXCEPT ![h].stage = "waiting", ![h].awaits = lock]
             /\ UNCHANGED lock
    <3>1. /\ call'[h].stage = "waiting" /\ call'[h].awaits = lock /\ call[h].stage = "idle"
          /\ \A x \in Handlers \ {h} : call'[x] = call[x]
      BY <1>0, <1>5, <2>2 DEF Arrive, Idle, Call, TypeOK, Calls
    <3>2. \A x \in Handlers : call[x].stage # "ready" /\ (Inside(x)' <=> Inside(x))
      BY <1>5, <3>1 DEF Arrive, Quiet, Inside, Syncing, Submitting
    <3>3. lock # h
      BY <2>2, <3>1 DEF Inside, Syncing, Submitting
    <3>4. LockedBy(h)'
      BY <2>2, <3>1, <3>2, <3>3 DEF LockedBy
    <3>5. ASSUME NEW x \in Handlers \ {h} PROVE LockedBy(x)'
      <4>1. /\ call'[x] = call[x] /\ call[x].stage # "ready"
            /\ Inside(x)' => lock' = x
        BY <2>2, <3>1, <3>2 DEF LockedBy
      <4>2. ASSUME call[x].stage = "waiting"
            PROVE  call[x].awaits \in Handlers \ {x} /\ Inside(call[x].awaits)'
        <5>1. PICK y \in Handlers \ {x} : y = call[x].awaits /\ Inside(y)
          BY <4>2 DEF LockedBy
        <5> QED
          BY <3>2, <4>1, <5>1
      <4> QED
        BY <4>1, <4>2 DEF LockedBy
    <3> QED
      BY <2>2, <3>2, <3>4, <3>5
  <2> QED
    BY <1>5, <2>1, <2>2 DEF Arrive
<1>6. ASSUME NEW h \in Handlers, Resume(h) PROVE LockInv'
  BY <1>2, <1>6 DEF Resume, LockedBy, Idle, Call
<1>7. ASSUME NEW h \in Handlers, NEW s \in {"syncing", "submitting", "resyncing", "retrying", "event"}, NEW n,
             Inside(h), call' = [call EXCEPT ![h] = Call(s, n)], UNCHANGED lock
      PROVE  LockInv'
  <2>1. /\ call'[h].stage = s /\ call'[h].awaits = NoHandler
        /\ \A x \in Handlers \ {h} : call'[x] = call[x]
    BY <1>7 DEF Call, TypeOK
  <2> QED
    BY <1>3, <1>7, <2>1 DEF Inside, Syncing, Submitting
<1>8. ASSUME NEW h \in Handlers, Synced(h) \/ SyncFails(h) PROVE LockInv'
  <2>1. Inside(h)
    BY <1>8 DEF Synced, SyncFails, Inside, Syncing
  <2>2. NextTry(h) \in {"submitting", "retrying"}
    BY DEF NextTry
  <2> QED
    BY <1>1, <1>7, <1>8, <2>1, <2>2 DEF Synced, SyncFails
<1>9. ASSUME NEW h \in Handlers, Accepted(h) \/ Rejected(h) PROVE LockInv'
  <2>1. Inside(h)
    BY <1>9 DEF Accepted, Rejected, Inside, Submitting
  <2> QED
    BY <1>1, <1>7, <1>9, <2>1 DEF Accepted, Rejected
<1>10. ASSUME NEW h \in Handlers, Refused(h) \/ TimesOut(h) \/ Finish(h) PROVE LockInv'
  BY <1>1, <1>10 DEF Refused, TimesOut, Finish, Inside, Submitting
<1>11. ASSUME NEW h \in Handlers, Account(h) \/ Deliver(h) PROVE LockInv'
  <2>1. Inside(h)
    BY <1>11 DEF Account, Deliver, Inside
  <2>2. /\ call'[h].stage = call[h].stage /\ call'[h].awaits = call[h].awaits /\ UNCHANGED lock
        /\ \A x \in Handlers \ {h} : call'[x] = call[x]
    BY <1>0, <1>11 DEF Account, Deliver, TypeOK, Calls
  <2> QED
    BY <1>0, <1>3, <2>1, <2>2 DEF Inside, Syncing, Submitting, LockedBy
<1>12. ASSUME NEW n, DeliverLate(n) \/ Execute(n) \/ Lose(n) PROVE LockInv'
  BY <1>4, <1>12 DEF DeliverLate, Execute, Lose
<1>13. CASE UNCHANGED vars
  BY <1>4, <1>13 DEF vars
<1> QED
  BY <1>5, <1>6, <1>8, <1>9, <1>10, <1>11, <1>12, <1>13 DEF Next, Handle

\* withLock serializes the use of a key's nonces as long as at most two messages
\* are in progress; with three, two waiters resume on the same promise.
THEOREM TwoAreSerialized ==
  ASSUME AtMostTwo
  PROVE  Spec => []Serialized
<1>1. Init => NonceInv /\ LockInv
  BY GatewayAssumption, CallType DEF Init, NonceInv, LockInv, TypeOK, NonceAtMostOneAhead, HeldNonce,
     LockedBy, Inside, Submitting, Syncing, Idle, Call, Stages, Calls
<1>2. NonceInv /\ LockInv /\ [Next]_vars => (NonceInv /\ LockInv)'
  BY NonceStep, LockStep DEF NonceInv
<1>3. LockInv => Serialized
  BY DEF LockInv, LockedBy, Serialized
<1> QED
  BY <1>1, <1>2, <1>3, PTL DEF Spec

-----------------------------------------------------------------------------
\* What the handler inside the lock holds agrees with the gateway's nonce: what
\* it submits is that nonce, and the account it fetched is at most one behind.
Current(h) ==
  /\ Submitting(h) => call[h].nonce = nonce
  /\ Syncing(h) /\ call[h].nonce # NoNonce => nonce <= call[h].nonce + 1

\* The submission of h was accepted as t, and h has not looked at the answer.
Answered(h, t) ==
  Submitting(h) /\ call[h].answer = "accepted" /\ call[h].nonce = t.nonce

\* The inductive invariant behind NonceOnlyRises and OneTransactionPerNonce: the
\* nonce of a transaction whose handler learns of it has been counted, or will be
\* by the handler that is inside the lock.
UseInv ==
  /\ \A h \in Handlers : Current(h)
  /\ \A t \in pool : t.by # NoHandler => t.nonce < nonce \/ Answered(t.by, t)
  /\ OneTransactionPerNonce

Outside(h) == ~Submitting(h) /\ ~Syncing(h)

\* A step that changes no call of a handler inside the lock, does not change the
\* gateway's nonce, and adds no transaction of a handler, keeps UseInv.
LEMMA UseSame ==
  ASSUME NonceInv, UseInv, nonce' = nonce,
         \A x \in Handlers : call'[x] = call[x] \/ (Outside(x) /\ Outside(x)'),
         \A t \in pool' : t \in pool \/ t.by = NoHandler
  PROVE  UseInv'
<1>1. ASSUME NEW x \in Handlers PROVE Current(x)'
  BY DEF UseInv, Current, Outside, Submitting, Syncing
<1>2. ASSUME NEW t \in pool', t.by # NoHandler PROVE t.nonce < nonce' \/ Answered(t.by, t)'
  <2>1. t \in pool /\ t.by \in Handlers
    BY <1>2 DEF NonceInv, TypeOK, Txs
  <2> QED
    BY <1>2, <2>1 DEF UseInv, Answered, Outside, Submitting
<1>3. OneTransactionPerNonce'
  BY DEF UseInv, OneTransactionPerNonce
<1> QED
  BY <1>1, <1>2, <1>3 DEF UseInv

\* A step of the only handler inside the lock keeps UseInv, if the gateway's nonce
\* does not go back, what h holds stays current, and h's transactions stay counted.
LEMMA UseFrame ==
  ASSUME NonceInv, NonceInv', UseInv, NEW h \in Handlers, nonce' >= nonce,
         \A x \in Handlers \ {h} : Outside(x) /\ Outside(x)',
         Current(h)',
         \A t \in pool' : t \in pool \/ t.by = NoHandler,
         \A t \in pool' : t.by = h => t.nonce < nonce' \/ Answered(h, t)'
  PROVE  UseInv'
<1>1. ASSUME NEW x \in Handlers PROVE Current(x)'
  BY DEF Current, Outside
<1>2. ASSUME NEW t \in pool', t.by # NoHandler PROVE t.nonce < nonce' \/ Answered(t.by, t)'
  <2>1. t \in pool /\ t.by \in Handlers /\ t.nonce \in Nat /\ nonce \in Nat /\ nonce' \in Nat
    BY <1>2 DEF NonceInv, TypeOK, Txs
  <2>2. CASE t.by = h
    BY <2>2
  <2>3. CASE t.by # h
    <3>1. t.nonce < nonce
      BY <1>2, <2>1, <2>3 DEF UseInv, Answered, Outside
    <3> QED
      BY <2>1, <3>1
  <2> QED
    BY <2>2, <2>3
<1>3. OneTransactionPerNonce'
  BY DEF UseInv, OneTransactionPerNonce
<1> QED
  BY <1>1, <1>2, <1>3 DEF UseInv

\* With at most two messages in progress every step keeps UseInv, and the
\* gateway's nonce does not go back.
LEMMA UseStep ==
  ASSUME AtMostTwo, NonceInv, NonceInv', LockInv, LockInv', UseInv, [Next]_vars
  PROVE  UseInv' /\ nonce' >= nonce
<1> USE GatewayAssumption
<1>0. /\ nonce \in Nat /\ chain \in Nat /\ nonce <= chain + 1
      /\ \A t \in pool : t.nonce \in Nat
      /\ \A h \in Handlers : call[h] \in Calls /\ call[h].nonce \in Nat \cup {NoNonce}
  BY DEF NonceInv, TypeOK, Calls, Txs, NonceAtMostOneAhead
\* Whoever is inside the lock is alone there.
<1>1. ASSUME NEW h \in Handlers, Inside(h), NEW x \in Handlers \ {h}
      PROVE  Outside(x)
  BY <1>1 DEF LockInv, LockedBy, Outside, Inside
<1>2. ASSUME NEW h \in Handlers, lock' \in {h, NoHandler}, NEW x \in Handlers \ {h}
      PROVE  Outside(x)'
  BY <1>2 DEF LockInv, LockedBy, Outside, Inside
<1>3. ASSUME NEW h \in Handlers, Inside(h), Release(h), UNCHANGED <<nonce, pool>>,
             Submitting(h) => call[h].answer # "accepted"
      PROVE  UseInv'
  <2>1. call'[h] = Idle /\ lock' = NoHandler
    BY <1>3, ReleaseCalls DEF LockInv
  <2>2. Current(h)'
    BY <2>1 DEF Current, Submitting, Syncing, Idle, Call
  <2>3. \A t \in pool' : t.by = h => t.nonce < nonce'
    BY <1>3 DEF UseInv, Answered
  <2> QED
    BY <1>0, <1>1, <1>2, <1>3, <2>1, <2>2, <2>3, UseFrame
<1>4. ASSUME NEW h \in Handlers, Enter(h), lock = NoHandler, UNCHANGED <<nonce, pool>>
      PROVE  UseInv'
  <2>1. \A x \in Handlers : Outside(x)
    BY <1>4 DEF LockInv, LockedBy, Outside, Inside
  <2>2. /\ lock' = h
        /\ call'[h] = Call("syncing", NoNonce) \/ call'[h] = Call("submitting", nonce)
    BY <1>4, EnterCalls DEF LockInv
  <2>3. Current(h)'
    BY <1>4, <2>2 DEF Current, Submitting, Syncing, Call
  <2>4. \A t \in pool' : t.by = h => t.nonce < nonce'
    BY <1>4, <2>1 DEF UseInv, Answered, Outside
  <2> QED
    BY <1>0, <1>2, <1>4, <2>1, <2>2, <2>3, <2>4, UseFrame
<1>5. ASSUME NEW h \in Handlers, Arrive(h) PROVE UseInv' /\ nonce' >= nonce
  <2>1. CASE lock = NoHandler /\ Enter(h)
    BY <1>0, <1>4, <1>5, <2>1 DEF Arrive
  <2>2. CASE call' = [call EXCEPT ![h].stage = "waiting", ![h].awaits = lock]
    <3>1. Outside(h) /\ Outside(h)'
      BY <1>0, <1>5, <2>2 DEF Arrive, Idle, Call, Outside, Submitting, Syncing, LockInv, TypeOK,
                              Calls
    <3>2. \A x \in Handlers \ {h} : call'[x] = call[x]
      BY <2>2 DEF LockInv, TypeOK
    <3> QED
      BY <1>0, <1>5, <3>1, <3>2, UseSame DEF Arrive
  <2> QED
    BY <1>5, <2>1, <2>2 DEF Arrive
<1>6. ASSUME NEW h \in Handlers, Resume(h) PROVE UseInv' /\ nonce' >= nonce
  BY <1>0, <1>4, <1>6 DEF Resume, LockInv, LockedBy
\* A step that only changes the call of the handler inside the lock.
<1>7. ASSUME NEW h \in Handlers, Inside(h), NEW c, call' = [call EXCEPT ![h] = c],
             UNCHANGED <<lock, pool>>, nonce' >= nonce, Current(h)',
             \A t \in pool : t.by = h => t.nonce < nonce' \/ Answered(h, t)'
      PROVE  UseInv'
  <2>1. \A x \in Handlers \ {h} : Outside(x) /\ Outside(x)'
    BY <1>1, <1>7 DEF Outside, Submitting, Syncing
  <2> QED
    BY <1>7, <2>1, UseFrame
<1>8. ASSUME NEW h \in Handlers, ~Submitting(h) \/ call[h].answer # "accepted",
             NEW t \in pool, t.by = h
      PROVE  t.nonce < nonce
  BY <1>8 DEF UseInv, Answered
<1>9. ASSUME NEW h \in Handlers, Synced(h) PROVE UseInv' /\ nonce' >= nonce
  <2>1. call[h].nonce \in Nat /\ nonce <= call[h].nonce + 1
    BY <1>0, <1>9 DEF Synced, UseInv, Current
  <2>2. nonce' \in Nat /\ nonce' >= nonce
    BY <1>0, <1>9, <2>1, GatewayAssumption DEF Synced, SyncedNonce, GatewayAssumption
  <2>3. call'[h] = Call(NextTry(h), nonce')
    BY <1>0, <1>9 DEF Synced, LockInv, TypeOK
  <2>4. Current(h)'
    BY <2>3 DEF Current, Submitting, Syncing, Call, NextTry
  <2>5. ~Submitting(h) /\ Inside(h)
    BY <1>9 DEF Synced, Submitting, Syncing, Inside
  <2>6. \A t \in pool : t.by = h => t.nonce < nonce'
    BY <1>0, <1>8, <2>2, <2>5
  <2> QED
    BY <1>7, <1>9, <2>2, <2>4, <2>5, <2>6 DEF Synced
<1>10. ASSUME NEW h \in Handlers, SyncFails(h) PROVE UseInv' /\ nonce' >= nonce
  <2>1. ~Submitting(h) /\ Inside(h) /\ nonce' = nonce
    BY <1>10 DEF SyncFails, Submitting, Syncing, Inside
  <2>2. CASE Release(h)
    BY <1>0, <1>3, <1>10, <2>1, <2>2 DEF SyncFails
  <2>3. CASE call' = [call EXCEPT ![h] = Call("submitting", nonce)] /\ UNCHANGED lock
    <3>1. Current(h)'
      BY <2>1, <2>3 DEF Current, Submitting, Syncing, Call, LockInv, TypeOK
    <3>2. /\ nonce' >= nonce /\ UNCHANGED <<lock, pool>>
          /\ \A t \in pool : t.by = h => t.nonce < nonce'
      BY <1>0, <1>8, <1>10, <2>1, <2>3 DEF SyncFails
    <3> QED
      BY <1>7, <2>1, <2>3, <3>1, <3>2
  <2> QED
    BY <1>10, <2>2, <2>3 DEF SyncFails
<1>11. ASSUME NEW h \in Handlers, Accepted(h) PROVE UseInv' /\ nonce' >= nonce
  <2>1. Inside(h) /\ call[h].nonce = nonce
    BY <1>11 DEF Accepted, Inside, UseInv, Current
  <2>2. nonce' = nonce + 1
    BY <1>11, <2>1 DEF Accepted, NonceAfter
  <2>3. Current(h)'
    BY <1>11 DEF Accepted, Current, Submitting, Syncing, Call, LockInv, TypeOK
  <2>4. \A t \in pool : t.by = h => t.nonce < nonce'
    BY <1>0, <2>1, <2>2 DEF UseInv, Answered
  <2>5. nonce' >= nonce /\ UNCHANGED <<lock, pool>>
    BY <1>0, <1>11, <2>2 DEF Accepted
  <2> QED
    BY <1>7, <1>11, <2>1, <2>3, <2>4, <2>5 DEF Accepted
<1>12. ASSUME NEW h \in Handlers, Rejected(h) PROVE UseInv' /\ nonce' >= nonce
  <2>1. Inside(h) /\ call[h].answer # "accepted" /\ nonce' = nonce
    BY <1>12 DEF Rejected, Submitting, Inside
  <2>2. CASE Release(h)
    BY <1>0, <1>3, <1>12, <2>1, <2>2 DEF Rejected
  <2>3. CASE call' = [call EXCEPT ![h] = Call("resyncing", NoNonce)] /\ UNCHANGED lock
    <3>1. Current(h)'
      BY <2>3 DEF Current, Submitting, Syncing, Call, LockInv, TypeOK
    <3>2. /\ nonce' >= nonce /\ UNCHANGED <<lock, pool>>
          /\ \A t \in pool : t.by = h => t.nonce < nonce'
      BY <1>0, <1>8, <1>12, <2>1, <2>3 DEF Rejected
    <3> QED
      BY <1>7, <2>1, <2>3, <3>1, <3>2
  <2> QED
    BY <1>12, <2>2, <2>3 DEF Rejected
<1>13. ASSUME NEW h \in Handlers, Refused(h) \/ Finish(h) PROVE UseInv' /\ nonce' >= nonce
  <2>1. Inside(h) /\ (Submitting(h) => call[h].answer # "accepted") /\ nonce' = nonce
    BY <1>13 DEF Refused, Finish, Submitting, Inside
  <2> QED
    BY <1>0, <1>3, <1>13, <2>1 DEF Refused, Finish
<1>14. ASSUME NEW h \in Handlers, TimesOut(h) PROVE UseInv' /\ nonce' >= nonce
  <2>1. Inside(h) /\ nonce' = nonce /\ Submitting(h) /\ call'[h] = Idle /\ lock' = NoHandler
    BY <1>14, ReleaseCalls DEF TimesOut, Inside, LockInv
  <2>2. Current(h)'
    BY <2>1 DEF Current, Submitting, Syncing, Idle, Call
  <2>3. ASSUME NEW t \in pool' PROVE t \in pool \/ t.by = NoHandler
    BY <1>14 DEF TimesOut
  <2>4. ASSUME NEW t \in pool', t.by = h PROVE t.nonce < nonce'
    <3>1. /\ t \in pool
          /\ t # [nonce |-> call[h].nonce, by |-> h] \/ call[h].answer # "accepted"
      BY <1>14, <2>4 DEF TimesOut
    <3>2. t = [nonce |-> t.nonce, by |-> h]
      BY <2>4, <3>1 DEF LockInv, TypeOK, Txs
    <3> QED
      BY <2>1, <2>4, <3>1, <3>2 DEF UseInv, Answered
  <2> QED
    BY <1>0, <1>1, <1>2, <2>1, <2>2, <2>3, <2>4, UseFrame
<1>15. ASSUME NEW h \in Handlers, Account(h) PROVE UseInv' /\ nonce' >= nonce
  <2>1. /\ Inside(h) /\ ~Submitting(h) /\ nonce' = nonce
        /\ call' = [call EXCEPT ![h] = [call[h] EXCEPT !.nonce = chain]]
    BY <1>15 DEF Account, Inside, Submitting, Syncing
  <2>2. Current(h)'
    BY <1>0, <1>15, <2>1 DEF Current, Submitting, Syncing, LockInv, TypeOK, Calls
  <2>3. /\ nonce' >= nonce /\ UNCHANGED <<lock, pool>>
        /\ \A t \in pool : t.by = h => t.nonce < nonce'
    BY <1>0, <1>8, <1>15, <2>1 DEF Account
  <2> QED
    BY <1>7, <2>1, <2>2, <2>3
<1>16. ASSUME NEW h \in Handlers, Deliver(h) PROVE UseInv' /\ nonce' >= nonce
  <2>1. /\ Inside(h) /\ Submitting(h) /\ call[h].answer = "none" /\ nonce' = nonce
        /\ call[h].nonce = nonce
    BY <1>16 DEF Deliver, Inside, UseInv, Current
  <2>2. CASE call' = [call EXCEPT ![h].answer = "rejected"] /\ UNCHANGED pool
    <3>1. call' = [call EXCEPT ![h] = [call[h] EXCEPT !.answer = "rejected"]]
      BY <2>2
    <3>2. Current(h)'
      BY <1>0, <2>1, <3>1 DEF Current, Submitting, Syncing, LockInv, TypeOK, Calls
    <3>3. /\ nonce' >= nonce /\ UNCHANGED <<lock, pool>>
          /\ \A t \in pool : t.by = h => t.nonce < nonce'
      BY <1>0, <1>8, <1>16, <2>1, <2>2 DEF Deliver
    <3> QED
      BY <1>7, <2>1, <3>1, <3>2, <3>3
  <2>3. CASE /\ call' = [call EXCEPT ![h].answer = "accepted"]
             /\ pool' = pool \cup {[nonce |-> call[h].nonce, by |-> h]}
    <3> DEFINE new == [nonce |-> nonce, by |-> h]
    <3>1. /\ call'[h].stage = call[h].stage /\ call'[h].nonce = nonce /\ call'[h].answer = "accepted"
          /\ \A x \in Handlers \ {h} : call'[x] = call[x]
      BY <1>0, <2>1, <2>3 DEF LockInv, TypeOK, Calls
    <3>2. \A x \in Handlers : Current(x)'
      BY <2>1, <3>1 DEF UseInv, Current, Submitting, Syncing
    \* A transaction of a handler that was in the pool already has a smaller nonce.
    <3>3. ASSUME NEW t \in pool, t.by # NoHandler PROVE t.nonce < nonce
      <4>1. t.by \in Handlers
        BY <3>3 DEF LockInv, TypeOK, Txs
      <4>2. ~Answered(t.by, t)
        BY <1>1, <2>1, <4>1 DEF Answered, Outside
      <4> QED
        BY <3>3, <4>2 DEF UseInv
    <3>4. ASSUME NEW t \in pool', t.by # NoHandler PROVE t.nonce < nonce' \/ Answered(t.by, t)'
      <4>1. CASE t \in pool
        BY <2>1, <3>3, <3>4, <4>1
      <4>2. CASE t = new
        BY <2>1, <3>1, <4>2 DEF Answered, Submitting
      <4> QED
        BY <2>1, <2>3, <4>1, <4>2
    <3>5. OneTransactionPerNonce'
      <4> SUFFICES ASSUME NEW t \in pool', NEW u \in pool', t.nonce = u.nonce,
                          t.by # NoHandler, u.by # NoHandler
                   PROVE  t = u
        BY DEF OneTransactionPerNonce
      <4>1. CASE t \in pool /\ u \in pool
        BY <4>1 DEF UseInv, OneTransactionPerNonce
      <4>2. CASE t = new \/ u = new
        BY <1>0, <2>1, <2>3, <3>3, <4>2
      <4> QED
        BY <2>1, <2>3, <4>1, <4>2
    <3> QED
      BY <1>0, <2>1, <3>2, <3>4, <3>5 DEF UseInv
  <2> QED
    BY <1>16, <2>2, <2>3 DEF Deliver
<1>17. ASSUME NEW t, DeliverLate(t) \/ Execute(t) \/ Lose(t) PROVE UseInv' /\ nonce' >= nonce
  BY <1>0, <1>17, UseSame DEF DeliverLate, Execute, Lose
<1>18. CASE UNCHANGED vars
  BY <1>0, <1>18, UseSame DEF vars
<1> QED
  BY <1>5, <1>6, <1>9, <1>10, <1>11, <1>12, <1>13, <1>14, <1>15, <1>16, <1>17, <1>18
     DEF Next, Handle

\* What the two theorems below share: with at most two messages in progress, all
\* three invariants hold at the beginning and are kept.
LEMMA UseIsInductive ==
  ASSUME AtMostTwo
  PROVE  /\ Init => NonceInv /\ LockInv /\ UseInv
         /\ NonceInv /\ LockInv /\ UseInv /\ [Next]_vars => (NonceInv /\ LockInv /\ UseInv)'
<1>1. Init => NonceInv /\ LockInv
  BY GatewayAssumption, CallType DEF Init, NonceInv, LockInv, TypeOK, NonceAtMostOneAhead, HeldNonce,
     LockedBy, Inside, Submitting, Syncing, Idle, Call, Stages, Calls
<1>2. Init => UseInv
  BY DEF Init, UseInv, Current, OneTransactionPerNonce, Submitting, Syncing, Idle, Call
<1>3. NonceInv /\ LockInv /\ [Next]_vars => (NonceInv /\ LockInv)'
  BY NonceStep, LockStep DEF NonceInv
<1> QED
  BY <1>1, <1>2, <1>3, UseStep

\* setCurrentNonce and syncFromBackend: with at most two messages in progress the
\* gateway's nonce never goes back, for the account that a sync fetched under the
\* lock is at most one behind it, which the threshold takes for lag.
THEOREM TwoNeverLowerTheNonce ==
  ASSUME AtMostTwo
  PROVE  Spec => NonceOnlyRises
<1>1. NonceInv /\ LockInv /\ UseInv /\ [Next]_vars => [nonce' >= nonce]_nonce
  BY NonceStep, UseIsInductive, UseStep
<1> QED
  BY <1>1, UseIsInductive, PTL DEF Spec, NonceOnlyRises

\* With at most two messages in progress, no two accepted transactions whose
\* handlers learned of it carry the same nonce.
THEOREM TwoShareNoNonce ==
  ASSUME AtMostTwo
  PROVE  Spec => []OneTransactionPerNonce
<1>1. UseInv => OneTransactionPerNonce
  BY DEF UseInv
<1> QED
  BY <1>1, UseIsInductive, PTL DEF Spec
=============================================================================
