----------------------------- MODULE Aggregator ------------------------------
(***************************************************************************)
(* The aggregator actor of a validator (node/src/aggregator/actor.rs): it  *)
(* keeps the proofs and the result of every executed block, answers the    *)
(* aggregation engine, collects certificates, and uploads the summary of a *)
(* height (result, certificate and proofs) to the indexer, in order.       *)
(*                                                                         *)
(* Proofs, results and certificates are known by their height.  A digest   *)
(* comparison of Verify decides only the answer, not what happens next,    *)
(* and is left out.  Every error return of run ends the process: a crash.  *)
(***************************************************************************)
EXTENDS Integers, FiniteSets, FiniteSetsExt

CONSTANTS
  MaxHeight,       \* bound: heights are 1 .. MaxHeight
  MaxUploads,      \* max_uploads_outstanding
  Batch,           \* BATCH_ENQUEUE
  CacheSection,    \* prunable_items_per_blob
  ResultSection,   \* persistent_items_per_blob
  AllowUnsigned,   \* allow_unsigned_summaries
  Asked,           \* bound: the heights the aggregation engine asks about
  MaxCrashes       \* bound: how often the process stops

ASSUME AggregatorAssumption ==
  /\ {MaxHeight, MaxUploads, Batch, CacheSection, ResultSection} \subseteq Nat \ {0}
  /\ AllowUnsigned \in BOOLEAN
  /\ Asked \subseteq 1 .. MaxHeight
  /\ MaxCrashes \in Nat

Heights == 1 .. MaxHeight

VARIABLES
  cache,         \* on disk: the heights whose proofs are kept
  results,       \* on disk: the heights whose results are kept
  certificates,  \* on disk: the heights whose certificates are kept
  actor,         \* the actor's memory, described at Fresh
  inflight,      \* the heights that upload tasks are submitting
  completed,     \* Uploaded messages in the mailbox
  indexer,       \* external: the heights whose summaries the indexer has accepted
  next,          \* external: the height of the application's next Executed message
  crashes        \* how often the process has stopped

disk == <<cache, results, certificates>>
vars == <<disk, actor, inflight, completed, indexer, next, crashes>>

-----------------------------------------------------------------------------
(* The storage library. *)

\* next_gap(start).0: the end of the range that holds start; 0 for None.
RangeEnd(S, start) ==
  IF start \notin S
    THEN 0
    ELSE Max({h \in S : start <= h /\ start .. h \subseteq S})

\* next_gap(h).1: the start of the next range above a missing h; 0 for None.
NextStart(S, h) == IF \E x \in S : x > h THEN Min({x \in S : x > h}) ELSE 0

\* prune(h): whole sections below the one that holds h go.
Prune(S, h, section) == {x \in S : x \div section >= h \div section}

\* first()
First(S) == IF S = {} THEN 0 ELSE Min(S)

Lowest(S, n) == {h \in S : Cardinality({x \in S : x < h}) < n}

\* missing_items(1, BATCH_ENQUEUE): the first heights missing before the last range.
Missing(S) == Lowest({h \in Heights : h \notin S /\ \E x \in S : h < x}, Batch)

-----------------------------------------------------------------------------
(* Uploading. *)

\* Where uploading resumes: the first height that may have both proofs and result.
FirstCursor(c, r) == IF c = {} /\ r = {} THEN 1 ELSE Max({First(c), First(r)})

\* The state in which run enters its message loop, given the pruned disk.
Fresh(cursor, certs) ==
  [up |-> TRUE,
   waiting |-> Missing(certs),    \* the certificates asked of the resolver
   fetching |-> Missing(certs),   \* external: what the resolver looks for
   cursor |-> cursor, boundary |-> cursor,
   tracked |-> {},                \* tracked_uploads
   outstanding |-> 0,             \* uploads_outstanding
   proposals |-> {},              \* proposal_requests, by height
   verifies |-> {}]               \* verify_requests, by height

Down == [Fresh(1, {}) EXCEPT !.up = FALSE]

\* What the upload loop works on.
Work(a, c, r, S) ==
  [a |-> a, cache |-> c, results |-> r, certificates |-> S, started |-> {}]

\* "gap detected; fast-forwarding cursor"; h = 0 is the break that finds no next height.
FastForward(w, h) ==
  IF h = 0 THEN w
  ELSE [w EXCEPT !.a.cursor = h, !.a.boundary = h, !.a.tracked = {},
                 !.cache = Prune(@, h, CacheSection), !.results = Prune(@, h, ResultSection)]

\* Mutants: the cursor passes over a height, or stays on the one it started.
StartUploadSkipping(w) ==
  [w EXCEPT !.a.outstanding = @ + 1, !.a.cursor = @ + 2, !.started = @ \cup {w.a.cursor}]

StartUploadAgain(w) ==
  [w EXCEPT !.a.outstanding = @ + 1, !.started = @ \cup {w.a.cursor}]

StartUpload(w) ==
  [w EXCEPT !.a.outstanding = @ + 1, !.a.cursor = @ + 1, !.started = @ \cup {w.a.cursor}]

\* Mutant: gaps are not skipped.
TurnStuckAtGap(w) ==
  LET h == w.a.cursor IN
    IF w.a.outstanding >= MaxUploads \/ h \notin w.cache \cap w.results
         \/ (h \notin w.certificates /\ ~AllowUnsigned)
      THEN w ELSE StartUpload(w)

\* One turn of the loop; a turn that breaks changes nothing.
LoopTurn(w) ==
  LET h == w.a.cursor IN
    CASE w.a.outstanding >= MaxUploads -> w
      [] h \notin w.cache -> FastForward(w, NextStart(w.cache, h))
      [] h \notin w.results -> FastForward(w, NextStart(w.results, h))
      [] h \notin w.certificates /\ ~AllowUnsigned -> w
      [] OTHER -> StartUpload(w)

\* The upload loop that ends a message's turn.  Every turn but a break moves the cursor
\* up, so MaxHeight + 1 turns are all there are.  (loop[n] is the singleton of the work
\* after n turns: TLC evaluates an element of a set once.)
UploadLoop(a, c, r, S) ==
  LET loop[n \in 0 .. MaxHeight + 1] ==
        IF n = 0 THEN {Work(a, c, r, S)} ELSE {LoopTurn(w) : w \in loop[n - 1]}
  IN  \E w \in loop[MaxHeight + 1] :
        /\ actor' = w.a
        /\ cache' = w.cache
        /\ results' = w.results
        /\ inflight' = inflight \cup w.started

-----------------------------------------------------------------------------
(* The message handlers. *)

Init ==
  /\ cache = {}
  /\ results = {}
  /\ certificates = {}
  /\ actor = Fresh(1, {})
  /\ inflight = {}
  /\ completed = {}
  /\ indexer = {}
  /\ next = 1
  /\ crashes = 0

Released(a) == IF a.outstanding = 0 THEN 0 ELSE a.outstanding - 1

Uploaded(h) ==
  LET tracked == actor.tracked \cup {h}
      end     == RangeEnd(tracked, actor.boundary)   \* 0: boundary not uploaded
      a       == [actor EXCEPT !.outstanding = Released(actor), !.tracked = tracked]
  IN  /\ actor.up
      /\ h \in completed
      /\ completed' = completed \ {h}
      /\ UNCHANGED <<certificates, indexer, next, crashes>>
      /\ \/ /\ end = 0              \* continue: the loop is not reached
            /\ actor' = a
            /\ UNCHANGED <<cache, results, inflight>>
         \/ /\ end # 0
            /\ LET kept == IF end > actor.boundary THEN Prune(cache, end, CacheSection)
                                                   ELSE cache
               IN  UploadLoop([a EXCEPT !.boundary = end], kept, results, certificates)

\* The requests that are still parked once h has a result: h is answered, lower ones dropped.
Unanswered(requests, h) == {i \in requests : i > h}

\* The application reports the next executed block; both stores are written and synced.
Executed ==
  /\ actor.up
  /\ next \in Heights
  /\ next' = next + 1
  /\ UNCHANGED <<certificates, completed, indexer, crashes>>
  /\ UploadLoop([actor EXCEPT !.proposals = Unanswered(@, next),
                              !.verifies = Unanswered(@, next)],
                cache \cup {next}, results \cup {next}, certificates)

\* Propose and Verify of a height without a result; the others are answered at once.
Propose(h) ==
  /\ actor.up
  /\ h \notin results
  /\ UNCHANGED <<certificates, completed, indexer, next, crashes>>
  /\ UploadLoop([actor EXCEPT !.proposals = @ \cup {h}], cache, results, certificates)

Verify(h) ==
  /\ actor.up
  /\ h \notin results
  /\ UNCHANGED <<certificates, completed, indexer, next, crashes>>
  /\ UploadLoop([actor EXCEPT !.verifies = @ \cup {h}], cache, results, certificates)

\* Mutant: the requests above the first gap are canceled as well.
AskCancelingAll(a, S) ==
  [a EXCEPT !.waiting = @ \cup Missing(S), !.fetching = Missing(S) \ a.waiting]

\* Requests below the first gap are canceled, and missing certificates asked for.
Ask(a, S) ==
  [a EXCEPT !.waiting = @ \cup Missing(S),
            !.fetching = {x \in @ : x > RangeEnd(S, 1)} \cup (Missing(S) \ a.waiting)]

\* The aggregation engine reports a certificate.
Certified(h) ==
  LET a == [actor EXCEPT !.waiting = @ \ {h}] IN
  /\ actor.up
  /\ certificates' = certificates \cup {h}
  /\ \/ /\ h \in certificates       \* continue
        /\ actor' = a
        /\ UNCHANGED <<cache, results, inflight>>
     \/ /\ h \notin certificates
        /\ UploadLoop(Ask(a, certificates \cup {h}), cache, results, certificates \cup {h})
  /\ UNCHANGED <<completed, indexer, next, crashes>>

\* The resolver delivers a certificate that decodes and verifies (another is refused).
Deliver(h) ==
  LET S == certificates \cup {h}
      w == actor.waiting \ {h}
  IN  /\ actor.up
      /\ h \in actor.fetching
      /\ certificates' = S
      /\ UNCHANGED <<completed, indexer, next, crashes>>
      /\ UploadLoop([actor EXCEPT !.waiting = w \cup Missing(S),
                                  !.fetching = (@ \ {h}) \cup (Missing(S) \ w)],
                    cache, results, S)

\* Tip, Genesis and Produce change nothing themselves.
Answer ==
  /\ actor.up
  /\ UNCHANGED <<certificates, completed, indexer, next, crashes>>
  /\ UploadLoop(actor, cache, results, certificates)

-----------------------------------------------------------------------------
(* What runs beside the actor. *)

\* An upload task gets through to the indexer, after any number of retries.
Submit(h) ==
  /\ h \in inflight
  /\ indexer' = indexer \cup {h}
  /\ inflight' = inflight \ {h}
  /\ completed' = completed \cup {h}
  /\ UNCHANGED <<disk, actor, next, crashes>>

\* The process stops.  Executed blocks whose proofs the application had not handed over
\* are lost for good: it does not execute them again.  One of them may be half stored.
Stop ==
  /\ actor.up
  /\ crashes < MaxCrashes
  /\ crashes' = crashes + 1
  /\ actor' = Down
  /\ inflight' = {}
  /\ completed' = {}
  /\ UNCHANGED <<certificates, indexer>>

\* The application executes a block and cannot sync it: it makes no proofs.
NoProofs ==
  /\ actor.up
  /\ next \in Heights
  /\ next' = next + 1
  /\ UNCHANGED <<disk, actor, inflight, completed, indexer, crashes>>

Crash ==
  /\ Stop
  /\ next' \in next .. MaxHeight + 1
  /\ UNCHANGED <<cache, results>>

CrashInExecuted ==
  /\ Stop
  /\ next \in Heights
  /\ next' \in next + 1 .. MaxHeight + 1
  /\ \/ cache' = cache \cup {next} /\ UNCHANGED results
     \/ results' = results \cup {next} /\ UNCHANGED cache

Restart ==
  LET cursor == FirstCursor(cache, results) IN
  /\ ~actor.up
  /\ actor' = Fresh(cursor, certificates)
  /\ cache' = Prune(cache, cursor, CacheSection)
  /\ results' = Prune(results, cursor, ResultSection)
  /\ UNCHANGED <<certificates, inflight, completed, indexer, next, crashes>>

-----------------------------------------------------------------------------

Next ==
  \/ \E h \in Heights :
       Uploaded(h) \/ Certified(h) \/ Deliver(h) \/ Submit(h)
  \/ \E h \in Asked : Propose(h) \/ Verify(h)
  \/ Executed \/ NoProofs \/ Answer
  \/ Crash \/ CrashInExecuted \/ Restart

SafeSpec == Init /\ [][Next]_vars

\* The indexer is reachable, peers have the certificates that are looked for, messages
\* are handled, a stopped process is restarted, and the aggregation engine goes on
\* reporting its tip (a restarted actor does nothing before its first message).
Spec ==
  /\ SafeSpec
  /\ WF_vars(Restart) /\ WF_vars(Answer)
  /\ \A h \in Heights : WF_vars(Deliver(h)) /\ WF_vars(Submit(h)) /\ WF_vars(Uploaded(h))

-----------------------------------------------------------------------------
(* Properties. *)

\* Types, with uploads_outstanding within its limit.
TypeOK ==
  /\ cache \subseteq Heights /\ results \subseteq Heights /\ certificates \subseteq Heights
  /\ actor \in [up : BOOLEAN, waiting : SUBSET Heights, fetching : SUBSET Heights,
                cursor : 1 .. MaxHeight + 1, boundary : 1 .. MaxHeight + 1,
                tracked : SUBSET Heights, outstanding : 0 .. MaxUploads,
                proposals : SUBSET Asked, verifies : SUBSET Asked]
  /\ inflight \subseteq Heights /\ completed \subseteq Heights /\ indexer \subseteq Heights
  /\ next \in 1 .. MaxHeight + 1
  /\ crashes \in 0 .. MaxCrashes

\* The cursor leaves no summary behind: a height below it that still has proofs and a
\* result is with the indexer or being uploaded, whatever gaps and restarts moved it.
CursorSkipsNothing ==
  actor.up => \A h \in cache \cap results : h < actor.cursor => h \in indexer \cup inflight

\* Every upload of a life of the process is accounted for once, also across the gaps
\* that make it forget which heights were uploaded: no height is uploaded twice, and
\* uploads_outstanding is the number of uploads whose completion has not been handled,
\* so no slot leaks and the "unexpected summary upload completion" branch is dead.
UploadsAreAccounted ==
  /\ actor.outstanding = Cardinality(inflight) + Cardinality(completed)
  /\ inflight \cap (completed \cup actor.tracked) = {}
  /\ \A h \in inflight \cup completed \cup actor.tracked : h < actor.cursor

\* Nothing waits for what will not come: the first missing certificates are being
\* fetched, none canceled or forgotten between Certified, Deliver and the cancellations,
\* and no request of the aggregation engine is parked once its result is stored.
NothingWaitsInVain ==
  /\ actor.up => Missing(certificates) \subseteq actor.fetching
  /\ (actor.proposals \cup actor.verifies) \cap results = {}

\* A summary that is due, and one that is with the indexer unless the process stopped.
Due(h) == actor.up /\ h \in cache \cap results \cap certificates /\ h >= actor.cursor
Arrived(h) == h \in indexer \/ ~actor.up

\* A height with proofs, result and certificate at or above the cursor reaches the
\* indexer, or the process stops.
SummariesAreUploaded == \A h \in Heights : Due(h) ~> Arrived(h)
=============================================================================
