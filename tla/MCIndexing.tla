------------------------------ MODULE MCIndexing ------------------------------
(* What a validator uploads to the indexer, for TLC: block summaries (Aggregator) and   *)
(* seeds (Seeder).  The two share no variable, so a behaviour of the run is one of a    *)
(* single part.                                                                         *)
EXTENDS Aggregator

CONSTANTS MaxView, MaxListeners, MaxStops

VARIABLES part,  \* the part that moves
          stored, marker, seeder, seedsInflight, seedsCompleted, seedsIndexed, stops

seederVars == <<stored, marker, seeder, seedsInflight, seedsCompleted, seedsIndexed, stops>>

S == INSTANCE Seeder WITH
       actor <- seeder, inflight <- seedsInflight, completed <- seedsCompleted,
       indexer <- seedsIndexed, crashes <- stops, MaxCrashes <- MaxStops

MCInit == Init /\ S!Init /\ part \in {"aggregator", "seeder"}

MCNext ==
  /\ \/ part = "aggregator" /\ Next /\ UNCHANGED seederVars
     \/ part = "seeder" /\ S!Next /\ UNCHANGED vars
  /\ UNCHANGED part

\* The fairness of each module, in the behaviours of its part.
MCFairness ==
  /\ WF_vars(part = "aggregator" /\ Restart) /\ WF_vars(part = "aggregator" /\ Answer)
  /\ \A h \in Heights :
       /\ WF_vars(part = "aggregator" /\ Deliver(h))
       /\ WF_vars(part = "aggregator" /\ Submit(h))
       /\ WF_vars(part = "aggregator" /\ Uploaded(h))
  /\ WF_seederVars(part = "seeder" /\ S!Restart)
  /\ WF_seederVars(part = "seeder" /\ \E v \in S!Views : S!Serve(v))
  /\ \A v \in S!Views :
       /\ WF_seederVars(part = "seeder" /\ S!Deliver(v))
       /\ WF_seederVars(part = "seeder" /\ S!Submit(v))
       /\ WF_seederVars(part = "seeder" /\ S!Uploaded(v))

MCSpec == MCInit /\ [][MCNext]_<<part, vars, seederVars>> /\ MCFairness

\* See Seeder.MarkerIsUploaded, about LAST_UPLOADED_KEY.
MarkerIsUploaded == S!MarkerIsUploaded

\* See Seeder.WaitersAreServed, about the seeder's listeners and the resolver.
WaitersAreServed == S!WaitersAreServed

\* See Seeder.GetIsAnswered, about the seeder's listeners.
GetIsAnswered == part = "seeder" => S!GetIsAnswered

\* Aggregator.SummariesAreUploaded and Seeder.StoredSeedsAreUploaded: what the upload cursor
\* of either has not passed is uploaded, with every slot, gap and restart on the way.
WhatIsStoredIsUploaded ==
  \A h \in Heights :
    \/ part = "aggregator" /\ Due(h)
    \/ part = "seeder" /\ h \in S!Views /\ S!Due(h)
    ~> IF part = "aggregator" THEN Arrived(h) ELSE S!Arrived(h)
=============================================================================
