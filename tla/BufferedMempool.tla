--------------------------- MODULE BufferedMempool ----------------------------
(***************************************************************************)
(* The transactions on their way from the simulator's API to the           *)
(* validators (simulator/src/mempool.rs).  Each submission runs in a task  *)
(* of its own: it takes a sequence number, waits for the buffer's lock,    *)
(* stores its entry, trims the buffer, and wakes the subscribers.  A       *)
(* subscriber, one per connected validator, is given what the buffer holds *)
(* when it subscribes and then whatever has a higher number than the last  *)
(* entry it was given.                                                     *)
(***************************************************************************)
EXTENDS Integers, Sequences, SequencesExt

CONSTANTS Submissions,      \* the batches of transactions submitted
          Subscribers,      \* the connections of validators
          max_replay_size   \* the entries the buffer keeps

VARIABLES sequence,    \* the last sequence number given out
          seq,         \* of each submission, its number, 0 before it has one
          stage,       \* of each submission: "new", "numbered", "stored" or "done"
          overlapped,  \* history: submissions that were under way beside another one
          buffer,      \* the submissions stored, in the order of the lock
          expired,     \* the submissions older than replay_window_duration
          pc,          \* of each subscriber: "off", "recv", "scanned", "waiting" or "closed"
          replay,      \* of each subscriber, what it is still to be given of the replay
          last_seen,   \* of each subscriber, last_seen_seq
          given        \* history: of each subscriber, what recv returned to it

submitVars == <<sequence, seq, stage, overlapped, buffer>>
vars == <<sequence, seq, stage, overlapped, buffer, expired, pc, replay, last_seen, given>>

Init ==
  /\ sequence = 0
  /\ seq = [e \in Submissions |-> 0]
  /\ stage = [e \in Submissions |-> "new"]
  /\ overlapped = {}
  /\ buffer = <<>>
  /\ expired = {}
  /\ pc = [s \in Subscribers |-> "off"]
  /\ replay = [s \in Subscribers |-> <<>>]
  /\ last_seen = [s \in Subscribers |-> 0]
  /\ given = [s \in Subscribers |-> <<>>]

-----------------------------------------------------------------------------
(* submit *)

UnderWay == {e \in Submissions : stage[e] = "numbered"}

\* The number and the time of entry e are taken before the lock is awaited.
Number(e) ==
  /\ stage[e] = "new"
  /\ sequence' = sequence + 1
  /\ seq' = [seq EXCEPT ![e] = sequence + 1]
  /\ stage' = [stage EXCEPT ![e] = "numbered"]
  /\ overlapped' = IF UnderWay = {} THEN overlapped ELSE overlapped \cup UnderWay \cup {e}
  /\ UNCHANGED <<buffer, expired, pc, replay, last_seen, given>>

\* The buffer without the expired entries at its front and, after that, with at most
\* max_replay_size entries, the last ones.
TrimmedByTime(entries) ==
  LET fresh == {i \in 1 .. Len(entries) : entries[i] \notin expired}
  IN  IF fresh = {} THEN <<>>
      ELSE SubSeq(entries, CHOOSE i \in fresh : \A j \in fresh : i <= j, Len(entries))

TrimmedBySize(entries) ==
  IF Len(entries) <= max_replay_size THEN entries
  ELSE SubSeq(entries, Len(entries) - max_replay_size + 1, Len(entries))

Store(e) ==
  /\ stage[e] = "numbered"
  /\ buffer' = TrimmedBySize(TrimmedByTime(Append(buffer, e)))
  /\ stage' = [stage EXCEPT ![e] = "stored"]
  /\ UNCHANGED <<sequence, seq, overlapped, expired, pc, replay, last_seen, given>>

\* notify_waiters wakes the subscribers that wait now and is not remembered.
Notify(e) ==
  /\ stage[e] = "stored"
  /\ stage' = [stage EXCEPT ![e] = "done"]
  /\ pc' = [s \in Subscribers |-> IF pc[s] = "waiting" THEN "recv" ELSE pc[s]]
  /\ UNCHANGED <<sequence, seq, overlapped, buffer, expired, replay, last_seen, given>>

\* The replay window passes over entry e, and has passed over every earlier one.
Expire(e) ==
  /\ stage[e] # "new" /\ e \notin expired
  /\ \A f \in Submissions : 0 < seq[f] /\ seq[f] < seq[e] => f \in expired
  /\ expired' = expired \cup {e}
  /\ UNCHANGED <<submitVars, pc, replay, last_seen, given>>

-----------------------------------------------------------------------------
(* A subscriber, which one connection of the API polls. *)

\* The number of the last entry, which need not be the highest one.
LastSeq == IF buffer = <<>> THEN 0 ELSE seq[Last(buffer)]

\* The replay may hold expired entries: only a submission trims the buffer.
Subscribe(s) ==
  /\ pc[s] = "off"
  /\ pc' = [pc EXCEPT ![s] = "recv"]
  /\ replay' = [replay EXCEPT ![s] = buffer]
  /\ last_seen' = [last_seen EXCEPT ![s] = LastSeq]
  /\ UNCHANGED <<submitVars, expired, given>>

Replay(s) ==
  /\ pc[s] = "recv" /\ replay[s] # <<>>
  /\ given' = [given EXCEPT ![s] = Append(@, Head(replay[s]))]
  /\ replay' = [replay EXCEPT ![s] = Tail(@)]
  /\ UNCHANGED <<submitVars, expired, pc, last_seen>>

\* The positions of the entries that a scan of the buffer may return.
Unseen(s) ==
  {i \in 1 .. Len(buffer) : buffer[i] \notin expired /\ seq[buffer[i]] > last_seen[s]}

\* Mutant: the scan goes backward.
NextPositionFromEnd(s) == CHOOSE i \in Unseen(s) : \A j \in Unseen(s) : i >= j

\* The scan goes forward and returns the first of them.
NextPosition(s) == CHOOSE i \in Unseen(s) : \A j \in Unseen(s) : i <= j

Deliver(s) ==
  /\ pc[s] = "recv" /\ replay[s] = <<>> /\ Unseen(s) # {}
  /\ LET e == buffer[NextPosition(s)]
     IN  /\ given' = [given EXCEPT ![s] = Append(@, e)]
         /\ last_seen' = [last_seen EXCEPT ![s] = seq[e]]
  /\ UNCHANGED <<submitVars, expired, pc, replay>>

\* Nothing found, the lock is released; a submission may come before notified().
FindNothing(s) ==
  /\ pc[s] = "recv" /\ replay[s] = <<>> /\ Unseen(s) = {}
  /\ pc' = [pc EXCEPT ![s] = "scanned"]
  /\ UNCHANGED <<submitVars, expired, replay, last_seen, given>>

Await(s) ==
  /\ pc[s] = "scanned"
  /\ pc' = [pc EXCEPT ![s] = "waiting"]
  /\ UNCHANGED <<submitVars, expired, replay, last_seen, given>>

\* A message on the socket ends the select; the next turn of the loop calls recv anew.
SocketMessage(s) ==
  /\ pc[s] = "waiting"
  /\ pc' = [pc EXCEPT ![s] = "recv"]
  /\ UNCHANGED <<submitVars, expired, replay, last_seen, given>>

\* The connection closes and the subscriber is dropped with its replay.
Close(s) ==
  /\ pc[s] \in {"recv", "waiting"}
  /\ pc' = [pc EXCEPT ![s] = "closed"]
  /\ replay' = [replay EXCEPT ![s] = <<>>]
  /\ UNCHANGED <<submitVars, expired, last_seen, given>>

Next ==
  \/ \E e \in Submissions : Number(e) \/ Store(e) \/ Notify(e) \/ Expire(e)
  \/ \E s \in Subscribers : \/ Subscribe(s) \/ Replay(s) \/ Deliver(s) \/ FindNothing(s)
                            \/ Await(s) \/ SocketMessage(s) \/ Close(s)

Spec == Init /\ [][Next]_vars

-----------------------------------------------------------------------------
(* Properties. *)

TypeOK ==
  /\ sequence \in Nat
  /\ seq \in [Submissions -> Nat]
  /\ stage \in [Submissions -> {"new", "numbered", "stored", "done"}]
  /\ overlapped \subseteq Submissions /\ expired \subseteq Submissions
  /\ buffer \in Seq(Submissions)
  /\ pc \in [Subscribers -> {"off", "recv", "scanned", "waiting", "closed"}]
  /\ replay \in [Subscribers -> Seq(Submissions)]
  /\ last_seen \in [Subscribers -> Nat]
  /\ given \in [Subscribers -> Seq(Submissions)]

\* How often subscriber s was given entry e or is still to be given it by its replay.
TimesGiven(s, e) ==
  LET all == given[s] \o replay[s] IN Len(SelectSeq(all, LAMBDA x : x = e))

\* The comment on recv, "Each transaction is delivered exactly once in order", for
\* the entries whose submission overlapped no other one: what the buffer still holds
\* and the subscriber's number has passed was given to it exactly once, whatever was
\* trimmed, expired or submitted at the same time as anything else, and nothing is
\* ever given twice.
SerialEntriesGivenOnce ==
  \A s \in Subscribers, e \in Submissions \ overlapped :
    /\ TimesGiven(s, e) <= 1
    /\ (/\ pc[s] \notin {"off", "closed"} /\ last_seen[s] >= seq[e]
        /\ Contains(buffer, e) /\ e \notin expired) => TimesGiven(s, e) = 1
=============================================================================
