-------------------------- MODULE BrowserNonceProofs --------------------------
(* The website's nonce is at most one ahead of the account's, for any number of     *)
(* calls and failures.  Everything the backend says names a nonce that it has        *)
(* reached, so only incrementNonce can take the nonce past the account's; it runs    *)
(* when the nonce is still that of the accepted transaction, or is behind.           *)
EXTENDS BrowserNonce, TLAPS

Answers == [kind : {"nothing", "account", "accepted", "refused"}, nonce : Nat]

\* The parts of the state that the argument is about, and their shapes.
TypeInv ==
  /\ nonce \in Nat /\ chain \in Nat
  /\ call = [pc |-> call.pc, id |-> call.id, nonce |-> call.nonce, attempt |-> call.attempt,
             answer |-> call.answer]
  /\ call.nonce \in Nat /\ call.answer \in Answers
  /\ job = [pc |-> job.pc, todo |-> job.todo, answer |-> job.answer]
  /\ job.answer \in Answers

\* What the backend has said is not ahead of it.
SaidInv ==
  /\ call.answer.nonce <= chain /\ job.answer.nonce <= chain
  /\ \A n \in events : n \in Nat /\ n < chain

\* While a transaction is being sent the nonce is its own unless something that the
\* backend said has moved it, and a transaction that was accepted is not ahead.
SendInv ==
  call.pc = "send" =>
    /\ nonce = call.nonce \/ nonce <= chain
    /\ call.answer.kind = "accepted" => call.nonce <= chain

\* The inductive invariant.
IInv == TypeInv /\ SaidInv /\ SendInv /\ BrowserNonceAtMostOneAhead

\* An answer that says nothing.
LEMMA NothingIsAnAnswer ==
  Nothing \in Answers /\ Nothing.nonce = 0 /\ Nothing.kind = "nothing"
BY DEF Nothing, Answers

\* Neither a call nor a job that has not begun has heard anything.
LEMMA Beginnings ==
  /\ NoCall = [pc |-> "idle", id |-> None, nonce |-> 0, attempt |-> 0, answer |-> Nothing]
  /\ NoJob = [pc |-> "idle", todo |-> {}, answer |-> Nothing]
BY DEF NoCall, NoJob

\* The initial state satisfies the invariant.
LEMMA InitInv == Init => IInv
<1> SUFFICES ASSUME Init PROVE IInv
  OBVIOUS
<1>1. TypeInv
  BY NothingIsAnAnswer, Beginnings DEF Init, TypeInv
<1>2. SaidInv
  BY NothingIsAnAnswer, Beginnings DEF Init, SaidInv
<1>3. SendInv /\ BrowserNonceAtMostOneAhead
  BY NothingIsAnAnswer, Beginnings DEF Init, SendInv, BrowserNonceAtMostOneAhead
<1> QED BY <1>1, <1>2, <1>3 DEF IInv

\* Sending with a nonce that is at most one ahead.
LEMMA SendKeeps ==
  ASSUME IInv, NEW txs, NEW n \in Nat, NEW attempt, Send(txs, n, attempt), n <= chain + 1
  PROVE  IInv'
<1>1. /\ nonce' = n /\ UNCHANGED <<job, chain, events>>
      /\ call' = [call EXCEPT !.pc = "send", !.nonce = n, !.attempt = attempt,
                              !.answer = Nothing]
  BY DEF Send
<1>2. call' = [pc |-> "send", id |-> call.id, nonce |-> n, attempt |-> attempt,
               answer |-> Nothing]
  BY <1>1 DEF IInv, TypeInv
<1>3. TypeInv'
  BY <1>1, <1>2, NothingIsAnAnswer DEF IInv, TypeInv
<1>4. SaidInv'
  BY <1>1, <1>2, NothingIsAnAnswer DEF IInv, TypeInv, SaidInv
<1>5. SendInv' /\ BrowserNonceAtMostOneAhead'
  BY <1>1, <1>2, NothingIsAnAnswer DEF IInv, SendInv, BrowserNonceAtMostOneAhead
<1> QED BY <1>3, <1>4, <1>5 DEF IInv

\* A step that keeps the call, unless it ends it, and moves the nonce to one that the
\* backend has reached, if at all.
LEMMA MoveKeeps ==
  ASSUME IInv, UNCHANGED chain, call' = call \/ call' = NoCall,
         nonce' = nonce \/ (nonce' \in Nat /\ nonce' <= chain),
         job' = [pc |-> job'.pc, todo |-> job'.todo, answer |-> job'.answer],
         job'.answer \in Answers, job'.answer.nonce <= chain, events' \subseteq events
  PROVE  IInv'
BY NothingIsAnAnswer, Beginnings
DEF IInv, TypeInv, SaidInv, SendInv, BrowserNonceAtMostOneAhead, Answers

\* The job's steps, of which Resubmit is the one that may set the nonce back.
LEMMA JobKeeps ==
  ASSUME IInv, BeginJob \/ Job
  PROVE  IInv'
<1> USE NothingIsAnAnswer, Beginnings
<1>1. CASE BeginJob
  BY <1>1, MoveKeeps DEF BeginJob, backend, IInv, TypeInv, SaidInv
<1>2. ASSUME NEW txs, NEW n, n = nonce \/ (n \in Nat /\ n <= chain), NEW reset \in Nat,
             reset <= chain, NEW todo, Resubmit(txs, n, reset, todo)
      PROVE  IInv'
  <2>1. /\ UNCHANGED <<call, chain, events>>
        /\ nonce' = nonce \/ (nonce' \in Nat /\ nonce' <= chain)
        /\ job' = NoJob \/ job' = [NoJob EXCEPT !.pc = "send", !.todo = todo]
    BY <1>2 DEF Resubmit
  <2>2. job' = NoJob \/ job' = [pc |-> "send", todo |-> todo, answer |-> Nothing]
    BY <2>1
  <2> QED BY <2>1, <2>2, MoveKeeps DEF IInv, TypeInv
<1>3. CASE JobSynced
  BY <1>2, <1>3 DEF JobSynced, IInv, TypeInv, SaidInv, Answers
<1>4. CASE JobSyncFails
  BY <1>2, <1>4 DEF JobSyncFails, IInv, TypeInv
<1>5. Rest = NoJob \/ Rest = [pc |-> job.pc, todo |-> job.todo \ {First}, answer |-> Nothing]
  BY DEF Rest, IInv, TypeInv
<1>6. CASE JobAccepted
  BY <1>5, <1>6, MoveKeeps DEF JobAccepted, backend, IInv, TypeInv
<1>7. CASE JobRefused
  BY <1>5, <1>7, MoveKeeps DEF JobRefused, backend, IInv, TypeInv, SaidInv, Answers
<1>8. CASE JobFails
  BY <1>8, MoveKeeps DEF JobFails, IInv, TypeInv
<1> QED BY <1>1, <1>3, <1>4, <1>6, <1>7, <1>8 DEF Job

\* The steps of a call; incrementNonce is in Accepted.
LEMMA CallKeeps ==
  ASSUME IInv, Call
  PROVE  IInv'
<1> USE NothingIsAnAnswer, Beginnings
<1>1. CASE PreSubmit
  BY <1>1, SendKeeps DEF PreSubmit, IInv, TypeInv, SaidInv, Answers, BrowserNonceAtMostOneAhead
<1>2. CASE PreSubmitFails
  BY <1>2, SendKeeps DEF PreSubmitFails, IInv, TypeInv, BrowserNonceAtMostOneAhead
<1>3. CASE Accepted
  <2>1. nonce <= chain /\ nonce' = nonce + 1 /\ UNCHANGED <<job, chain, events>>
    BY <1>3 DEF Accepted, backend, IInv, TypeInv, SendInv
  <2>2. call' = NoCall \/ \E c : call' = Run(c)
    BY <1>3 DEF Accepted
  <2>3. call' = NoCall \/ \E c : call' = [pc |-> "sync", id |-> c, nonce |-> 0, attempt |-> 0,
                                         answer |-> Nothing]
    BY <2>2 DEF Run
  <2>4. TypeInv'
    BY <2>1, <2>3 DEF IInv, TypeInv
  <2>5. SaidInv'
    BY <2>1, <2>3 DEF IInv, TypeInv, SaidInv
  <2>6. SendInv' /\ BrowserNonceAtMostOneAhead'
    BY <2>1, <2>3 DEF IInv, TypeInv, SendInv, BrowserNonceAtMostOneAhead
  <2> QED BY <2>4, <2>5, <2>6 DEF IInv
<1>4. CASE Retry
  BY <1>4, SendKeeps DEF Retry, IInv, TypeInv, SaidInv, Answers
<1>5. CASE Fail
  BY <1>5, MoveKeeps DEF Fail, IInv, TypeInv, SaidInv
<1> QED BY <1>1, <1>2, <1>3, <1>4, <1>5 DEF Call

\* The calls made, the time, the stream and a new page.
LEMMA InputKeeps ==
  ASSUME IInv,
         \/ \E c \in Calls : Issue(c)
         \/ \E t \in pending \cup job.todo : Age(t)
         \/ \E n \in events : ExecutedEvent(n)
         \/ Reload
  PROVE  IInv'
<1> USE NothingIsAnAnswer, Beginnings
<1>1. ASSUME NEW c \in Calls, Issue(c) PROVE IInv'
  <2>1. UNCHANGED <<nonce, job, chain, events>> /\ (call' = call \/ call' = Run(c))
    BY <1>1 DEF Issue, backend
  <2>2. CASE call' = call
    BY <2>1, <2>2, MoveKeeps DEF IInv, TypeInv, SaidInv
  <2>3. CASE call' = Run(c)
    <3>1. call' = [pc |-> "sync", id |-> c, nonce |-> 0, attempt |-> 0, answer |-> Nothing]
      BY <2>3 DEF Run
    <3> QED
      BY <2>1, <3>1 DEF IInv, TypeInv, SaidInv, SendInv, BrowserNonceAtMostOneAhead
  <2> QED BY <2>1, <2>2, <2>3
<1>2. ASSUME NEW t, Age(t) PROVE IInv'
  <2>1. PICK todo : job' = [job EXCEPT !.todo = todo]
    BY <1>2 DEF Age
  <2>2. job' = [pc |-> job.pc, todo |-> todo, answer |-> job.answer]
    BY <2>1 DEF IInv, TypeInv
  <2> QED BY <1>2, <2>2, MoveKeeps DEF Age, backend, IInv, TypeInv, SaidInv
<1>3. ASSUME NEW n \in events, ExecutedEvent(n) PROVE IInv'
  BY <1>3, MoveKeeps DEF ExecutedEvent, NextExpected, IInv, TypeInv, SaidInv
<1>4. CASE Reload
  <2>1. nonce' = nonce \/ nonce' = chain \/ nonce' = 0
    BY <1>4 DEF Reload, Loaded, LoadedWithoutAccount
  <2> QED BY <1>4, <2>1, MoveKeeps DEF Reload, IInv, TypeInv
<1> QED BY <1>1, <1>2, <1>3, <1>4
\* The backend: answers name the nonce it has, which only rises.
LEMMA BackendKeeps ==
  ASSUME IInv,
         \/ AccountOfCall \/ AccountOfJob \/ DeliverCall \/ DeliverJob
         \/ \E t \in late : DeliverLate(t)
         \/ \E t \in pool : Execute(t) \/ Lose(t)
  PROVE  IInv'
<1> USE NothingIsAnAnswer
<1>1. \A kind \in {"account", "accepted", "refused"} :
        Answer(kind, chain) \in Answers /\ Answer(kind, chain).nonce = chain
          /\ Answer(kind, chain).kind = kind
  BY DEF Answer, Answers, IInv, TypeInv
<1>2. ASSUME NEW a \in Answers, a.nonce = chain, UNCHANGED <<nonce, call, chain, events>>,
             job' = [job EXCEPT !.answer = a]
      PROVE  IInv'
  <2>1. job' = [pc |-> job.pc, todo |-> job.todo, answer |-> a]
    BY <1>2 DEF IInv, TypeInv
  <2> QED BY <1>2, <2>1, MoveKeeps DEF IInv, TypeInv
<1>3. ASSUME NEW a \in Answers, a.nonce = chain, UNCHANGED <<nonce, job, chain, events>>,
             call' = [call EXCEPT !.answer = a],
             call.pc = "send" /\ a.kind = "accepted" => call.nonce = chain
      PROVE  IInv'
  <2>1. call' = [pc |-> call.pc, id |-> call.id, nonce |-> call.nonce,
                 attempt |-> call.attempt, answer |-> a]
    BY <1>3 DEF IInv, TypeInv
  <2>2. TypeInv'
    BY <1>3, <2>1 DEF IInv, TypeInv
  <2>3. SaidInv'
    BY <1>3, <2>1 DEF IInv, TypeInv, SaidInv
  <2>4. SendInv' /\ BrowserNonceAtMostOneAhead'
    BY <1>3, <2>1 DEF IInv, TypeInv, SendInv, BrowserNonceAtMostOneAhead
  <2> QED BY <2>2, <2>3, <2>4 DEF IInv
<1>4. CASE AccountOfCall
  BY <1>1, <1>3, <1>4 DEF AccountOfCall, backend
<1>5. CASE AccountOfJob
  BY <1>1, <1>2, <1>5 DEF AccountOfJob, backend
<1>6. CASE DeliverCall
  <2>1. \/ Tx.nonce = chain /\ Verdict(Tx) = Answer("accepted", chain)
        \/ Verdict(Tx) = Answer("refused", chain)
    BY DEF Verdict
  <2>2. Tx.nonce = call.nonce
    BY DEF Tx
  <2> QED BY <1>1, <1>3, <1>6, <2>1, <2>2 DEF DeliverCall
<1>7. CASE DeliverJob
  <2>1. Verdict(FirstTx) \in {Answer("accepted", chain), Answer("refused", chain)}
    BY DEF Verdict
  <2> QED BY <1>1, <1>2, <1>7, <2>1 DEF DeliverJob
<1>8. ASSUME NEW t, DeliverLate(t) \/ Lose(t) PROVE IInv'
  BY <1>8, MoveKeeps DEF DeliverLate, Lose, IInv, TypeInv, SaidInv
<1>9. ASSUME NEW t, Execute(t) PROVE IInv'
  <2>1. /\ chain' = chain + 1 /\ UNCHANGED <<nonce, call, job>>
        /\ events' \subseteq events \cup {chain}
    BY <1>9 DEF Execute
  <2> QED
    BY <2>1 DEF IInv, TypeInv, SaidInv, SendInv, BrowserNonceAtMostOneAhead, Answers
<1> QED BY <1>4, <1>5, <1>6, <1>7, <1>8, <1>9

\* Every step preserves the invariant.
LEMMA NextInv == IInv /\ [Next]_vars => IInv'
<1> SUFFICES ASSUME IInv, [Next]_vars PROVE IInv'
  OBVIOUS
<1>1. CASE UNCHANGED vars
  BY <1>1, MoveKeeps DEF vars, IInv, TypeInv, SaidInv
<1> QED BY <1>1, JobKeeps, CallKeeps, InputKeeps, BackendKeeps DEF Next

\* incrementNonce and updateNonceFromTransaction both count an accepted transaction, and
\* the nonce is still at most one ahead of the account's, whatever fails and for any
\* number of calls.
THEOREM NonceStaysClose == Spec => []BrowserNonceAtMostOneAhead
<1>1. IInv => BrowserNonceAtMostOneAhead
  BY DEF IInv
<1> QED BY <1>1, InitInv, NextInv, PTL DEF Spec
=============================================================================
