------------------------------- MODULE Seeder --------------------------------
(***************************************************************************)
(* The seeder actor of a validator (node/src/seeder/actor.rs): it stores   *)
(* the seed of every view, fetches the missing ones from peers, answers    *)
(* the application's requests for seeds, and uploads them to the indexer.  *)
(*                                                                         *)
(* Seeds are known by their view.  The actor handles one message at a      *)
(* time; the upload tasks it spawns and the resolver run beside it.        *)
(***************************************************************************)
EXTENDS Integers, FiniteSets, FiniteSetsExt

CONSTANTS
  MaxView,       \* bound: views are 1 .. MaxView
  MaxUploads,    \* max_uploads_outstanding
  MaxListeners,  \* max_pending_seed_listeners
  Batch,         \* BATCH_ENQUEUE
  MaxCrashes     \* bound: how often the process stops

Views == 1 .. MaxView

VARIABLES
  stored,     \* on disk: the views whose seeds are stored
  marker,     \* on disk: the entry under LAST_UPLOADED_KEY, 0 when there is none
  actor,      \* the actor's memory, described at Fresh
  inflight,   \* the views that upload tasks are submitting
  completed,  \* Uploaded messages in the mailbox
  indexer,    \* external: the views whose seeds the indexer has accepted
  crashes     \* how often the process has stopped

vars == <<stored, marker, actor, inflight, completed, indexer, crashes>>

-----------------------------------------------------------------------------
(* The gaps of a set of views (RMap and Ordinal of the storage library). *)

\* Mutant: the end of the last range.
RangeEndOfLast(S, start) == IF S = {} THEN 0 ELSE Max(S)

\* next_gap(start).0: the end of the range that holds start; 0 for None.
RangeEnd(S, start) ==
  IF start \notin S
    THEN 0
    ELSE Max({v \in S : start <= v /\ start .. v \subseteq S})

\* The n lowest elements of S.
Lowest(S, n) == {v \in S : Cardinality({u \in S : u < v}) < n}

\* missing_items(1, BATCH_ENQUEUE): the first views that are missing before the last range.
Missing(S) == Lowest({v \in Views : v \notin S /\ \E u \in S : v < u}, Batch)

-----------------------------------------------------------------------------
(* The steps that handlers share. *)

NoListeners == [live |-> 0, gone |-> 0]

\* The state in which run enters its message loop.
Fresh(S, m) ==
  LET cursor == IF m = 0 THEN 1 ELSE m
  IN  [up |-> TRUE,
       waiting |-> Missing(S),               \* the views asked of the resolver
       fetching |-> Missing(S),              \* external: what the resolver looks for
       listeners |-> [v \in Views |-> NoListeners],  \* receivers waiting, or canceled
       total |-> 0,                          \* listeners_total
       cursor |-> cursor, boundary |-> cursor,
       tracked |-> {},                       \* tracked_uploads
       outstanding |-> 0]                    \* uploads_outstanding

Down == [Fresh({}, 0) EXCEPT !.up = FALSE]

Pending(l) == l.live + l.gone

\* Mutants: the listeners of a stored seed are not told; requests for views above the
\* first gap are canceled as well.
LearnKeepingListeners(a, v, S) ==
  [a EXCEPT !.waiting = (@ \ {v}) \cup Missing(S),
            !.fetching = {x \in @ : x > RangeEnd(S, 1)} \cup (Missing(S) \ (a.waiting \ {v}))]

LearnCancelingAll(a, v, S) ==
  [a EXCEPT !.waiting = (@ \ {v}) \cup Missing(S),
            !.total = @ - Pending(a.listeners[v]),
            !.listeners[v] = NoListeners,
            !.fetching = Missing(S) \ (a.waiting \ {v})]

\* A seed for v is stored, S being the views stored now: listeners get it, requests
\* below the first gap are canceled, and the views now known to be missing are asked for.
Learn(a, v, S) ==
  [a EXCEPT !.waiting = (@ \ {v}) \cup Missing(S),
            !.total = @ - Pending(a.listeners[v]),
            !.listeners[v] = NoListeners,
            !.fetching = {x \in @ : x > RangeEnd(S, 1)} \cup (Missing(S) \ (a.waiting \ {v}))]

\* The upload loop at the end of a turn: it starts the next stored views at or above
\* the cursor, skipping the missing ones, as long as there are slots.
Started(a, S) == Lowest({v \in S : v >= a.cursor}, MaxUploads - a.outstanding)

AdvanceCursor(a, S) ==
  IF Started(a, S) = {} THEN a.cursor ELSE Max(Started(a, S)) + 1

UploadLoop(a, S) ==
  /\ actor' = [a EXCEPT !.outstanding = @ + Cardinality(Started(a, S)),
                        !.cursor = AdvanceCursor(a, S)]
  /\ inflight' = inflight \cup Started(a, S)

-----------------------------------------------------------------------------
(* The message handlers. *)

Init ==
  /\ stored = {}
  /\ marker = 0
  /\ actor = Fresh({}, 0)
  /\ inflight = {}
  /\ completed = {}
  /\ indexer = {}
  /\ crashes = 0

\* Consensus reports a notarization or finalization.  With nothing missing the handler
\* ends before the upload loop.
Put(v) ==
  LET S == stored \cup {v}
      a == Learn(actor, v, S)
  IN  /\ actor.up
      /\ stored' = S
      /\ IF Missing(S) = {}
           THEN actor' = a /\ UNCHANGED inflight
           ELSE UploadLoop(a, S)
      /\ UNCHANGED <<marker, completed, indexer, crashes>>

\* The resolver delivers a seed whose signature verifies (another is refused, and the
\* resolver goes on looking).
Deliver(v) ==
  LET S == stored \cup {v}
      a == Learn([actor EXCEPT !.fetching = @ \ {v}], v, S)
  IN  /\ actor.up
      /\ v \in actor.fetching
      /\ stored' = S
      /\ UploadLoop(a, S)
      /\ UNCHANGED <<marker, completed, indexer, crashes>>

\* Get from the application, or Produce for a peer, of a seed that is stored.  (A
\* Produce of another changes nothing.)
Serve(v) ==
  /\ actor.up
  /\ v \in stored
  /\ UploadLoop(actor, stored)
  /\ UNCHANGED <<stored, marker, completed, indexer, crashes>>

\* The total before the new listener, without the canceled ones of the same view.
TotalBefore(v) == actor.total - actor.listeners[v].gone

GetMissing(v) ==
  /\ actor.up
  /\ v \notin stored
  /\ TotalBefore(v) + 1 <= MaxListeners
  /\ actor' = [actor EXCEPT !.waiting = @ \cup {v},
                            !.fetching = IF v \in actor.waiting THEN @ ELSE @ \cup {v},
                            !.listeners[v] = [live |-> @.live + 1, gone |-> 0],
                            !.total = TotalBefore(v) + 1]
  /\ UNCHANGED <<stored, marker, inflight, completed, indexer, crashes>>

Released(a) == IF a.outstanding = 0 THEN 0 ELSE a.outstanding - 1

Uploaded(v) ==
  LET tracked == actor.tracked \cup {v}
      end     == RangeEnd(tracked, actor.boundary)
      a       == [actor EXCEPT !.outstanding = Released(actor), !.tracked = tracked]
  IN  /\ actor.up
      /\ v \in completed
      /\ completed' = completed \ {v}
      /\ \/ /\ end = 0              \* continue: the loop below is not reached
            /\ actor' = a
            /\ UNCHANGED <<marker, inflight>>
         \/ /\ end # 0
            /\ marker' = IF end > actor.boundary THEN end ELSE marker
            /\ UploadLoop([a EXCEPT !.boundary = end], stored)
      /\ UNCHANGED <<stored, indexer, crashes>>

-----------------------------------------------------------------------------
(* What runs beside the actor. *)

\* An upload task gets through to the indexer, after any number of retries.
Submit(v) ==
  /\ v \in inflight
  /\ indexer' = indexer \cup {v}
  /\ inflight' = inflight \ {v}
  /\ completed' = completed \cup {v}
  /\ UNCHANGED <<stored, marker, actor, crashes>>

\* A requester gives up.
Cancel(v) ==
  /\ actor.listeners[v].live > 0
  /\ actor' = [actor EXCEPT !.listeners[v] = [live |-> @.live - 1, gone |-> @.gone + 1]]
  /\ UNCHANGED <<stored, marker, inflight, completed, indexer, crashes>>

Stop ==
  /\ crashes < MaxCrashes
  /\ crashes' = crashes + 1
  /\ actor' = Down
  /\ inflight' = {}
  /\ completed' = {}
  /\ UNCHANGED <<stored, marker, indexer>>

Crash == actor.up /\ Stop

\* "too many pending seed listeners; shutting down"
GetOverLimit(v) ==
  /\ actor.up
  /\ v \notin stored
  /\ TotalBefore(v) + 1 > MaxListeners
  /\ Stop

Restart ==
  /\ ~actor.up
  /\ actor' = Fresh(stored, marker)
  /\ UNCHANGED <<stored, marker, inflight, completed, indexer, crashes>>

-----------------------------------------------------------------------------

Next ==
  \/ \E v \in Views :
       \/ Put(v) \/ Deliver(v) \/ Serve(v) \/ GetMissing(v)
       \/ GetOverLimit(v) \/ Uploaded(v) \/ Submit(v) \/ Cancel(v)
  \/ Crash
  \/ Restart

SafeSpec == Init /\ [][Next]_vars

\* Peers have every seed that is looked for, the indexer is reachable, messages are
\* handled, a stopped process is restarted, and the application asks for seeds that
\* are stored (it does for every finalized block).
Spec ==
  /\ SafeSpec
  /\ WF_vars(Restart)
  /\ WF_vars(\E v \in Views : Serve(v))
  /\ \A v \in Views : WF_vars(Deliver(v)) /\ WF_vars(Submit(v)) /\ WF_vars(Uploaded(v))

-----------------------------------------------------------------------------
(* Properties. *)

\* Types, with uploads_outstanding and listeners_total within their limits.
TypeOK ==
  /\ stored \subseteq Views
  /\ marker \in 0 .. MaxView
  /\ actor \in [up : BOOLEAN, waiting : SUBSET Views, fetching : SUBSET Views,
                listeners : [Views -> [live : 0 .. MaxListeners, gone : 0 .. MaxListeners]],
                total : 0 .. MaxListeners,
                cursor : 1 .. MaxView + 1, boundary : Views, tracked : SUBSET Views,
                outstanding : 0 .. MaxUploads]
  /\ inflight \subseteq Views
  /\ completed \subseteq Views
  /\ indexer \subseteq Views
  /\ crashes \in 0 .. MaxCrashes

\* The marker that survives a crash promises that every seed up to it is with the
\* indexer, although uploads complete in any order and restarts forget what was
\* uploaded beyond it.
MarkerIsUploaded == 1 .. marker \subseteq indexer

\* Whoever waits for a seed waits for one that is not stored and that the resolver is
\* looking for: no request is lost between Get, Put, Deliver and the cancellations.
WaitersAreServed ==
  \A v \in Views :
    actor.listeners[v].live > 0 => v \notin stored /\ v \in actor.fetching

\* A request for a seed is answered, unless the process stops or the requester gives up.
GetIsAnswered ==
  \A v \in Views : actor.listeners[v].live > 0 ~> actor.listeners[v].live = 0

\* A seed that is due, and one that is with the indexer unless the process stopped.
Due(v) == actor.up /\ v \in stored /\ v >= actor.cursor
Arrived(v) == v \in indexer \/ ~actor.up

\* A seed stored at or above the cursor reaches the indexer, or the process stops.
StoredSeedsAreUploaded == \A v \in Views : Due(v) ~> Arrived(v)
=============================================================================
