----------------------------- MODULE BrowserNonce -----------------------------
(* How the website numbers the transactions of a player                            *)
(* (website/src/api/nonceManager.js over client.js): the next nonce and the         *)
(* transactions not yet known to be executed are kept in localStorage.  Calls go    *)
(* through a queue of promises; a timer resubmits what is pending beside them; the  *)
(* stream of executed transactions moves the nonce too.  Code runs from one await   *)
(* to the next.  The backend is external: it takes only the account's next nonce.   *)
EXTENDS Naturals, Sequences

CONSTANTS None,
          MaxCalls,    \* bound: the transactions that the player asks for
          MaxFailures  \* bound: requests, transactions, events and pages that are lost

VARIABLES
  nonce,    \* casino_nonce of the key
  pending,  \* stored transactions, at most one for each nonce; old ones are older than
            \* PENDING_TX_STALE_MS
  outcome,  \* of each call
  queue,    \* calls behind the one that runs
  call,     \* the call that runs
  job,      \* resubmitPendingTransactions
  chain,    \* the account's nonce at the backend
  pool,     \* transactions accepted and not executed
  late,     \* requests that were given up before they arrived
  events,   \* executed nonces that the stream has still to report
  failures

vars == <<nonce, pending, outcome, queue, call, job, chain, pool, late, events, failures>>
backend == <<chain, pool, late, events, failures>>

Calls == 1 .. MaxCalls  \* in the order they are made

\* What has come back: nothing, the account or an acceptance, or a refusal that
\* says which nonce is expected.
Nothing == [kind |-> "nothing", nonce |-> 0]
Answer(kind, n) == [kind |-> kind, nonce |-> n]

NoCall == [pc |-> "idle", id |-> None, nonce |-> 0, attempt |-> 0, answer |-> Nothing]
NoJob == [pc |-> "idle", todo |-> {}, answer |-> Nothing]

Init ==
  /\ nonce = 0
  /\ pending = {}
  /\ outcome = [c \in Calls |-> "new"]
  /\ queue = <<>>
  /\ call = NoCall
  /\ job = NoJob
  /\ chain = 0
  /\ pool = {}
  /\ late = {}
  /\ events = {}
  /\ failures = 0

Failure == failures < MaxFailures /\ failures' = failures + 1

-----------------------------------------------------------------------------
(* localStorage. *)

From(n) == {t \in pending : t.nonce >= n}
Without(n) == {t \in pending : t.nonce # n}
Stored(txs, t) == {u \in txs : u.nonce # t.nonce} \cup {t}

\* isPendingStale: the oldest is too old.
Stale(txs) == \E t \in txs : t.old

\* Two minutes pass for a transaction.
Age(t) ==
  /\ ~t.old
  /\ LET Aged(txs) == {IF u = t THEN [u EXCEPT !.old = TRUE] ELSE u : u \in txs}
     IN  pending' = Aged(pending) /\ job' = [job EXCEPT !.todo = Aged(@)]
  /\ UNCHANGED <<nonce, outcome, queue, call, backend>>

-----------------------------------------------------------------------------
(* submitTransaction. *)

Run(c) == [NoCall EXCEPT !.pc = "sync", !.id = c]

Issue(c) ==
  /\ outcome[c] = "new" /\ \A d \in 1 .. c - 1 : outcome[d] # "new"
  /\ outcome' = [outcome EXCEPT ![c] = "begun"]
  /\ IF call.pc = "idle" THEN call' = Run(c) /\ UNCHANGED queue
     ELSE queue' = Append(queue, c) /\ UNCHANGED call
  /\ UNCHANGED <<nonce, pending, job, backend>>

Tx == [nonce |-> call.nonce, call |-> call.id]

\* A transaction is signed with nonce n, stored and sent.
Send(txs, n, attempt) ==
  /\ nonce' = n
  /\ call' = [call EXCEPT !.pc = "send", !.nonce = n, !.attempt = attempt, !.answer = Nothing]
  /\ pending' = Stored(txs, [nonce |-> n, call |-> call.id, old |-> FALSE])
  /\ UNCHANGED <<outcome, queue, job, chain, pool, late, events>>

\* The account has arrived: the server's nonce is taken if it is ahead, if nothing is
\* pending, or if what is pending is stale.
PreSubmit ==
  /\ call.pc = "sync" /\ call.answer.kind = "account"
  /\ LET server == call.answer.nonce
     IN  Send(IF Stale(pending) THEN {} ELSE pending,
              IF Stale(pending) \/ server > nonce \/ pending = {} THEN server ELSE nonce, 0)
  /\ UNCHANGED failures

\* The account is not found, or cannot be fetched: the local nonce is used.
PreSubmitFails ==
  /\ call.pc = "sync" /\ call.answer = Nothing
  /\ IF chain = 0 THEN UNCHANGED failures ELSE Failure
  /\ Send(pending, nonce, 0)

\* incrementNonce reads the nonce again, which an event may have moved meanwhile.
Accepted ==
  /\ call.pc = "send" /\ call.answer.kind = "accepted"
  /\ nonce' = nonce + 1
  /\ outcome' = [outcome EXCEPT ![call.id] = "accepted"]
  /\ IF queue = <<>> THEN call' = NoCall /\ UNCHANGED queue
     ELSE call' = Run(Head(queue)) /\ queue' = Tail(queue)
  /\ UNCHANGED <<pending, job, backend>>

TooLow == call.answer.kind = "refused" /\ call.answer.nonce > call.nonce

\* The first nonce was too low: everything pending is forgotten, and the instruction is
\* signed again with the nonce that the server expects.
Retry ==
  /\ call.pc = "send" /\ call.attempt = 0 /\ TooLow
  /\ Send({}, call.answer.nonce, 1)
  /\ UNCHANGED failures

\* Mutant: the calls behind the one that failed are not rejected.
RejectedAlone == {call.id}

\* A promise that rejects also rejects the ones chained to it.
Rejected == {call.id} \cup {queue[i] : i \in DOMAIN queue}

\* Any other error: the stored transaction is removed.  A nonce that is too high is no
\* nonce error to nonceErrorPattern; a request that is aborted may have been accepted,
\* or arrive later.
Fail ==
  /\ call.pc = "send" /\ ~(call.attempt = 0 /\ TooLow)
  /\ pending' = Without(call.nonce)
  /\ outcome' = [c \in Calls |-> IF c \in Rejected THEN "failed" ELSE outcome[c]]
  /\ queue' = <<>>
  /\ call' = NoCall
  /\ late' = IF call.answer = Nothing THEN late \cup {Tx} ELSE late
  /\ IF call.answer.kind = "refused" THEN UNCHANGED failures ELSE Failure
  /\ UNCHANGED <<nonce, job, chain, pool, events>>

-----------------------------------------------------------------------------
(* resubmitPendingTransactions, on a timer. *)

BeginJob ==
  /\ job.pc = "idle"
  /\ job' = [job EXCEPT !.pc = "sync"]
  /\ UNCHANGED <<nonce, pending, outcome, queue, call, backend>>

\* What is left after the sync, txs with the nonce n, is sent in the order of the nonces,
\* unless it is empty or stale, when all is forgotten and the nonce is set to reset.
Resubmit(txs, n, reset, todo) ==
  /\ IF Stale(txs)
       THEN nonce' = reset /\ pending' = {} /\ job' = NoJob
       ELSE /\ nonce' = n /\ pending' = txs
            /\ job' = IF todo = {} THEN NoJob ELSE [NoJob EXCEPT !.pc = "send", !.todo = todo]
  /\ UNCHANGED <<outcome, queue, call, chain, pool, late, events>>

JobSynced ==
  /\ job.pc = "sync" /\ job.answer.kind = "account"
  /\ LET server == job.answer.nonce
     IN  Resubmit(From(server), IF server > nonce THEN server ELSE nonce, server, From(server))
  /\ UNCHANGED failures

JobSyncFails ==
  /\ job.pc = "sync" /\ job.answer = Nothing
  /\ IF chain = 0 THEN UNCHANGED failures ELSE Failure
  /\ Resubmit(pending, nonce, 0, From(nonce))

First == CHOOSE t \in job.todo : \A u \in job.todo : t.nonce <= u.nonce

FirstTx == [nonce |-> First.nonce, call |-> First.call]

Rest == IF job.todo = {First} THEN NoJob
        ELSE [job EXCEPT !.todo = @ \ {First}, !.answer = Nothing]

\* Mutant: the transaction is stored as a new one.
RestoredAnew == [First EXCEPT !.old = FALSE]

\* It is stored again, with its first timestamp, even if it was removed meanwhile.
Restored == First

JobAccepted ==
  /\ job.pc = "send" /\ job.answer.kind = "accepted"
  /\ pending' = Stored(pending, Restored)
  /\ job' = Rest
  /\ UNCHANGED <<nonce, outcome, queue, call, backend>>

\* Both nonce errors count here.
JobRefused ==
  /\ job.pc = "send" /\ job.answer.kind = "refused"
  /\ LET expected == job.answer.nonce
     IN  /\ pending' = Without(First.nonce) \cap From(expected)
         /\ nonce' = IF expected > nonce THEN expected ELSE nonce
  /\ job' = Rest
  /\ UNCHANGED <<outcome, queue, call, backend>>

\* Another error ends the job.
JobFails ==
  /\ job.pc = "send" /\ job.answer.kind # "refused"
  /\ Failure
  /\ job' = NoJob
  /\ late' = IF job.answer = Nothing THEN late \cup {FirstTx} ELSE late
  /\ UNCHANGED <<nonce, pending, outcome, queue, call, chain, pool, events>>

-----------------------------------------------------------------------------
(* The other inputs. *)

\* Mutant: the event is counted twice.
NextExpectedTwice(n) == n + 2

\* The nonce after that of an executed transaction.
NextExpected(n) == n + 1

\* updateNonceFromTransaction.
ExecutedEvent(n) ==
  /\ n \in events
  /\ events' = events \ {n}
  /\ pending' = From(NextExpected(n))
  /\ nonce' = IF NextExpected(n) > nonce THEN NextExpected(n) ELSE nonce
  /\ UNCHANGED <<outcome, queue, call, job, chain, pool, late, failures>>

\* syncWithAccountState, from init.
Loaded(server) ==
  LET gap == \E t \in pending : \A u \in pending : t.nonce <= u.nonce /\ t.nonce > server
  IN  IF gap \/ Stale(pending) THEN nonce' = server /\ pending' = {}
      ELSE /\ pending' = From(server)
           /\ nonce' = IF server > nonce \/ pending' = {} THEN server ELSE nonce

LoadedWithoutAccount ==
  IF Stale(pending) \/ pending = {} THEN nonce' = 0 /\ pending' = {}
  ELSE UNCHANGED <<nonce, pending>>

\* The page is loaded again: calls and job are gone, localStorage is not.
Reload ==
  /\ Failure
  /\ IF chain > 0 THEN Loaded(chain) ELSE LoadedWithoutAccount
  /\ outcome' = [c \in Calls |-> IF outcome[c] = "begun" THEN "failed" ELSE outcome[c]]
  /\ queue' = <<>> /\ call' = NoCall /\ job' = NoJob
  /\ events' = {}
  /\ UNCHANGED <<chain, pool, late>>

-----------------------------------------------------------------------------
(* The backend. *)

\* GET /account; a new account has none.
AccountOfCall ==
  /\ chain > 0
  /\ call.pc = "sync" /\ call.answer = Nothing
  /\ call' = [call EXCEPT !.answer = Answer("account", chain)]
  /\ UNCHANGED <<nonce, pending, outcome, queue, job, backend>>

AccountOfJob ==
  /\ chain > 0
  /\ job.pc = "sync" /\ job.answer = Nothing
  /\ job' = [job EXCEPT !.answer = Answer("account", chain)]
  /\ UNCHANGED <<nonce, pending, outcome, queue, call, backend>>

\* apply_submission.
Verdict(t) == IF t.nonce = chain THEN Answer("accepted", chain) ELSE Answer("refused", chain)
Taken(t) == IF t.nonce = chain THEN pool \cup {t} ELSE pool

DeliverCall ==
  /\ call.pc = "send" /\ call.answer = Nothing
  /\ call' = [call EXCEPT !.answer = Verdict(Tx)]
  /\ pool' = Taken(Tx)
  /\ UNCHANGED <<nonce, pending, outcome, queue, job, chain, late, events, failures>>

DeliverJob ==
  /\ job.pc = "send" /\ job.answer = Nothing
  /\ job' = [job EXCEPT !.answer = Verdict(FirstTx)]
  /\ pool' = Taken(FirstTx)
  /\ UNCHANGED <<nonce, pending, outcome, queue, call, chain, late, events, failures>>

DeliverLate(t) ==
  /\ t \in late
  /\ late' = late \ {t}
  /\ pool' = Taken(t)
  /\ UNCHANGED <<nonce, pending, outcome, queue, call, job, chain, events, failures>>

\* The stream reports what is executed, unless it is disconnected.
Execute(t) ==
  /\ t \in pool
  /\ chain' = chain + 1
  /\ pool' = {}
  /\ \/ events' = events \cup {chain} /\ UNCHANGED failures
     \/ UNCHANGED events /\ Failure
  /\ UNCHANGED <<nonce, pending, outcome, queue, call, job, late>>

Lose(t) ==
  /\ t \in pool
  /\ Failure
  /\ pool' = pool \ {t}
  /\ UNCHANGED <<nonce, pending, outcome, queue, call, job, chain, late, events>>

-----------------------------------------------------------------------------

Call == PreSubmit \/ PreSubmitFails \/ Accepted \/ Retry \/ Fail

Job == JobSynced \/ JobSyncFails \/ JobAccepted \/ JobRefused \/ JobFails

Next ==
  \/ \E c \in Calls : Issue(c)
  \/ Call \/ BeginJob \/ Job
  \/ \E t \in pending \cup job.todo : Age(t)
  \/ \E n \in events : ExecutedEvent(n)
  \/ Reload
  \/ AccountOfCall \/ AccountOfJob \/ DeliverCall \/ DeliverJob
  \/ \E t \in late : DeliverLate(t)
  \/ \E t \in pool : Execute(t) \/ Lose(t)

\* Every request ends, by an answer or an abort; the timer goes on; time passes.
Fairness ==
  /\ WF_vars(Call \/ AccountOfCall \/ DeliverCall)
  /\ WF_vars(BeginJob \/ Job \/ AccountOfJob \/ DeliverJob)
  /\ WF_vars(\E t \in pending : Age(t))

Spec == Init /\ [][Next]_vars /\ Fairness

-----------------------------------------------------------------------------
(* Properties. *)

\* incrementNonce and updateNonceFromTransaction both move the nonce for the same
\* transaction, in either order, and the job's answers move it too: it is never more than
\* one ahead of the account's, where the next sync brings it back.
BrowserNonceAtMostOneAhead == nonce <= chain + 1

\* transactionQueue: every call is answered, also when the one before it fails.
CallsAreAnswered == \A c \in Calls : outcome[c] = "begun" ~> outcome[c] # "begun"

\* resubmitPendingTransactions: no stored transaction stays, and is sent for ever,
\* whether it was executed, lost, refused, or put back after it was removed.
PendingDrains == []<>(pending = {})
=============================================================================
