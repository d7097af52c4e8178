---------------------------- MODULE SeederProofs -----------------------------
(***************************************************************************)
(* Proofs of the invariants of Seeder, for any number of views, uploads,   *)
(* listeners and stops, and any batch.  SeederInv says of the memory and   *)
(* the disk what the two properties need: the boundary is the marker, what *)
(* is tracked is uploaded, and what is waited for and not stored is looked *)
(* for.                                                                    *)
(***************************************************************************)
EXTENDS Seeder, NaturalSets, TLAPS

Listeners == [Views -> [live : Int, gone : Int]]

\* A record with the fields of the actor's memory.
IsMemory(a) ==
  a = [up |-> a.up, waiting |-> a.waiting, fetching |-> a.fetching,
       listeners |-> a.listeners, total |-> a.total, cursor |-> a.cursor,
       boundary |-> a.boundary, tracked |-> a.tracked, outstanding |-> a.outstanding]

\* The part of the type that the properties depend on.
TypeInv ==
  /\ stored \in SUBSET Views /\ indexer \in SUBSET Views
  /\ inflight \in SUBSET Views /\ completed \in SUBSET Views
  /\ marker \in Nat
  /\ IsMemory(actor)
  /\ actor.tracked \in SUBSET Views
  /\ actor.waiting \in SUBSET Views
  /\ actor.listeners \in Listeners

\* Every completion is of a seed that the indexer has, and the boundary is the marker.
UploadInv ==
  /\ completed \subseteq indexer
  /\ actor.tracked \subseteq indexer
  /\ 1 .. marker \subseteq indexer
  /\ actor.up => actor.boundary = IF marker = 0 THEN 1 ELSE marker

\* A view that is waited for has its seed, or the resolver looks for it.
WaitInv ==
  /\ actor.waiting \ stored \subseteq actor.fetching
  /\ \A v \in Views : actor.listeners[v].live > 0 => v \in actor.waiting \ stored

SeederInv == TypeInv /\ UploadInv /\ WaitInv

-----------------------------------------------------------------------------

\* next_gap finds the end of a range: everything from start to it is in the set.
LEMMA RangeEndHolds ==
  ASSUME MaxView \in Nat, NEW S \in SUBSET Views, NEW start \in Nat, start \in S
  PROVE  /\ RangeEnd(S, start) \in S /\ start <= RangeEnd(S, start)
         /\ start .. RangeEnd(S, start) \subseteq S
<1> DEFINE M == {v \in S : start <= v /\ start .. v \subseteq S}
<1>1. M \in SUBSET (0 .. MaxView)
  <2>1. ASSUME NEW v \in M PROVE v \in 0 .. MaxView
    <3>1. v \in 1 .. MaxView
      BY DEF Views
    <3> QED BY <3>1
  <2> QED BY <2>1
<1>2. start \in M
  <2>1. start .. start = {start}
    OBVIOUS
  <2> QED BY <2>1
<1>3. Max(M) \in M
  <2> HIDE DEF M
  <2> QED BY <1>1, <1>2, MaxExists
<1>4. RangeEnd(S, start) = Max(M)
  BY DEF RangeEnd
<1> QED BY <1>3, <1>4

\* Nothing at or below the end of the first range is missing.
LEMMA AboveFirstRange ==
  ASSUME MaxView \in Nat, NEW S \in SUBSET Views, NEW x \in Views, x \notin S
  PROVE  x > RangeEnd(S, 1)
<1>1. CASE 1 \notin S
  <2>1. RangeEnd(S, 1) = 0
    BY <1>1 DEF RangeEnd
  <2> QED BY <2>1 DEF Views
<1>2. CASE 1 \in S
  <2>1. /\ RangeEnd(S, 1) \in S
        /\ 1 .. RangeEnd(S, 1) \subseteq S
    BY <1>2, RangeEndHolds
  <2>2. RangeEnd(S, 1) \in 1 .. MaxView /\ x \in 1 .. MaxView
    BY <2>1 DEF Views
  <2> QED BY <2>1, <2>2
<1> QED BY <1>1, <1>2

-----------------------------------------------------------------------------
(* What handlers share. *)

\* What Learn starts from: the memory, less v in what is looked for.
LearnsFrom(a, v) ==
  /\ IsMemory(a) /\ a.waiting = actor.waiting /\ a.listeners = actor.listeners
  /\ actor.fetching \ {v} \subseteq a.fetching

\* What it makes of it, S being the views stored.
Learned(a, b, S) ==
  /\ IsMemory(b)
  /\ b.up = a.up /\ b.boundary = a.boundary /\ b.tracked = a.tracked
  /\ b.waiting \in SUBSET Views /\ b.listeners \in Listeners
  /\ b.waiting \ S \subseteq b.fetching
  /\ \A x \in Views : b.listeners[x].live > 0 => x \in b.waiting \ S

\* Storing a seed forgets no request: the cancellations reach only views below the
\* first gap.
LEMMA LearnKeeps ==
  ASSUME MaxView \in Nat, TypeInv, WaitInv, NEW v \in Views, NEW a, LearnsFrom(a, v)
  PROVE  Learned(a, Learn(a, v, stored \cup {v}), stored \cup {v})
<1> DEFINE S == stored \cup {v}
           b == Learn(a, v, S)
<1> DEFINE W == (a.waiting \ {v}) \cup Missing(S)
           F == {x \in a.fetching : x > RangeEnd(S, 1)} \cup (Missing(S) \ (a.waiting \ {v}))
           L == [a.listeners EXCEPT ![v] = NoListeners]
           T == a.total - Pending(a.listeners[v])
<1>0. b = [up |-> a.up, waiting |-> W, fetching |-> F, listeners |-> L, total |-> T,
           cursor |-> a.cursor, boundary |-> a.boundary, tracked |-> a.tracked,
           outstanding |-> a.outstanding]
  <2>1. IsMemory(a)
    BY DEF LearnsFrom
  <2> HIDE DEF S
  <2>2. ASSUME NEW c, c = Learn(a, v, S)
        PROVE  c = [up |-> a.up, waiting |-> W, fetching |-> F, listeners |-> L,
                    total |-> T, cursor |-> a.cursor, boundary |-> a.boundary,
                    tracked |-> a.tracked, outstanding |-> a.outstanding]
    BY <2>1, <2>2 DEF Learn, IsMemory
  <2> QED BY <2>2
<1>1. /\ b.waiting = W /\ b.fetching = F /\ b.listeners = L
      /\ b.up = a.up /\ b.boundary = a.boundary /\ b.tracked = a.tracked /\ IsMemory(b)
  <2> HIDE DEF W, F, L, T, b
  <2> QED BY <1>0 DEF IsMemory
<1> HIDE DEF b
<1>2. S \in SUBSET Views
  BY DEF TypeInv
<1>3. b.waiting \ S \subseteq b.fetching
  <2> SUFFICES ASSUME NEW x \in b.waiting, x \notin S PROVE x \in b.fetching
    OBVIOUS
  <2>1. CASE x \in Missing(S) \ (a.waiting \ {v})
    BY <2>1, <1>1
  <2>2. CASE x \in a.waiting \ {v}
    <3>1. x \in actor.fetching /\ x # v
      BY <2>2 DEF WaitInv, LearnsFrom
    <3>2. x \in Views
      BY <2>2 DEF TypeInv, LearnsFrom
    <3>3. x > RangeEnd(S, 1)
      BY <1>2, <3>2, AboveFirstRange
    <3> QED BY <1>1, <3>1, <3>3 DEF LearnsFrom
  <2> QED BY <2>1, <2>2, <1>1
<1>4. b.listeners \in Listeners
  <2>1. NoListeners \in [live : Int, gone : Int]
    BY DEF NoListeners
  <2>2. a.listeners \in [Views -> [live : Int, gone : Int]]
    BY DEF TypeInv, LearnsFrom, Listeners
  <2> QED BY <1>1, <2>1, <2>2 DEF Listeners
<1>5. ASSUME NEW x \in Views, b.listeners[x].live > 0 PROVE x \in b.waiting \ S
  <2>1. b.listeners = [actor.listeners EXCEPT ![v] = NoListeners]
    BY <1>1 DEF LearnsFrom
  <2>2. x # v
    BY <2>1, <1>5 DEF TypeInv, Listeners, NoListeners
  <2>3. actor.listeners[x].live > 0
    BY <2>1, <2>2, <1>5 DEF TypeInv, Listeners
  <2> QED BY <2>2, <2>3, <1>1 DEF WaitInv, LearnsFrom
<1>6. b.waiting \in SUBSET Views
  BY <1>1 DEF LearnsFrom, TypeInv, Missing, Lowest
<1>7. Learned(a, b, S)
  BY <1>1, <1>3, <1>4, <1>5, <1>6 DEF Learned
<1> QED BY <1>7 DEF b

\* The upload loop only starts uploads of stored seeds and moves the cursor.
LEMMA UploadLoopKeeps ==
  ASSUME NEW a, IsMemory(a), NEW S \in SUBSET Views, inflight \in SUBSET Views,
         UploadLoop(a, S)
  PROVE  /\ IsMemory(actor') /\ inflight' \in SUBSET Views
         /\ actor'.up = a.up /\ actor'.waiting = a.waiting /\ actor'.fetching = a.fetching
         /\ actor'.listeners = a.listeners
         /\ actor'.boundary = a.boundary /\ actor'.tracked = a.tracked
<1>1. Started(a, S) \subseteq S
  BY DEF Started, Lowest
<1>2. actor' = [up |-> a.up, waiting |-> a.waiting, fetching |-> a.fetching,
                listeners |-> a.listeners, total |-> a.total,
                cursor |-> AdvanceCursor(a, S), boundary |-> a.boundary,
                tracked |-> a.tracked,
                outstanding |-> a.outstanding + Cardinality(Started(a, S))]
  BY DEF UploadLoop, IsMemory
<1>3. inflight' \in SUBSET Views
  BY <1>1 DEF UploadLoop
<1> QED BY <1>2, <1>3 DEF IsMemory

-----------------------------------------------------------------------------
(* One lemma for every group of actions. *)

\* The memory of a process that starts (Fresh), or is down (Down).
Empty(S, m, u) ==
  [up |-> u, waiting |-> Missing(S), fetching |-> Missing(S),
   listeners |-> [v \in Views |-> NoListeners], total |-> 0,
   cursor |-> IF m = 0 THEN 1 ELSE m, boundary |-> IF m = 0 THEN 1 ELSE m,
   tracked |-> {}, outstanding |-> 0]

IsEmpty(a, m, u) ==
  /\ IsMemory(a) /\ a.up = u /\ a.tracked = {} /\ a.waiting \in SUBSET Views
  /\ a.boundary = (IF m = 0 THEN 1 ELSE m)
  /\ a.fetching = a.waiting
  /\ a.listeners \in Listeners /\ \A v \in Views : a.listeners[v].live = 0

\* It waits only for what is looked for.
LEMMA EmptyHolds ==
  ASSUME NEW S \in SUBSET Views, NEW m \in Nat, NEW u
  PROVE  IsEmpty(Empty(S, m, u), m, u)
<1> DEFINE c == IF m = 0 THEN 1 ELSE m
           L == [v \in Views |-> NoListeners]
           a == Empty(S, m, u)
<1>1. a = [up |-> u, waiting |-> Missing(S), fetching |-> Missing(S), listeners |-> L,
           total |-> 0, cursor |-> c, boundary |-> c, tracked |-> {}, outstanding |-> 0]
  BY DEF Empty
<1>2. L \in Listeners /\ \A v \in Views : L[v].live = 0
  BY DEF Listeners, NoListeners
<1>3. Missing(S) \in SUBSET Views
  BY DEF Missing, Lowest
<1> HIDE DEF c, L, a
<1>4. /\ a.up = u /\ a.waiting = Missing(S) /\ a.fetching = Missing(S) /\ a.listeners = L
      /\ a.boundary = c /\ a.tracked = {} /\ IsMemory(a)
  BY <1>1 DEF IsMemory
<1>5. IsEmpty(a, m, u)
  BY <1>2, <1>3, <1>4 DEF c, IsEmpty
<1> QED BY <1>5 DEF a

\* A process starts with nothing stored.
LEMMA InitInv ==
  Init => SeederInv
<1> SUFFICES ASSUME Init PROVE SeederInv
  OBVIOUS
<1>1. actor = Empty({}, 0, TRUE)
  BY DEF Init, Fresh, Empty
<1>2. IsEmpty(actor, 0, TRUE)
  BY <1>1, EmptyHolds, {} \in SUBSET Views, 0 \in Nat
<1>3. TypeInv
  BY <1>2 DEF Init, TypeInv, IsEmpty
<1>4. UploadInv
  <2>1. 1 .. 0 = {}
    OBVIOUS
  <2> QED BY <1>2, <2>1 DEF Init, UploadInv, IsEmpty
<1>5. WaitInv
  BY <1>2 DEF WaitInv, IsEmpty
<1> QED BY <1>3, <1>4, <1>5 DEF SeederInv

\* Put and Deliver store a seed and learn from it.
LEMMA StoreKeeps ==
  ASSUME MaxView \in Nat, SeederInv, NEW v \in Views, Put(v) \/ Deliver(v)
  PROVE  SeederInv'
<1> DEFINE S == stored \cup {v}
<1>1. PICK a : /\ LearnsFrom(a, v)
               /\ a.up = actor.up /\ a.boundary = actor.boundary /\ a.tracked = actor.tracked
               /\ \/ actor' = Learn(a, v, S) /\ UNCHANGED inflight
                  \/ UploadLoop(Learn(a, v, S), S)
  <2>1. CASE Put(v)
    <3>1. LearnsFrom(actor, v)
      BY DEF SeederInv, TypeInv, LearnsFrom
    <3> QED BY <2>1, <3>1 DEF Put
  <2>2. CASE Deliver(v)
    <3> DEFINE a == [actor EXCEPT !.fetching = @ \ {v}]
    <3>1. a = [up |-> actor.up, waiting |-> actor.waiting, fetching |-> actor.fetching \ {v},
               listeners |-> actor.listeners, total |-> actor.total, cursor |-> actor.cursor,
               boundary |-> actor.boundary, tracked |-> actor.tracked,
               outstanding |-> actor.outstanding]
      BY DEF SeederInv, TypeInv, IsMemory
    <3>2. UploadLoop(Learn(a, v, S), S)
      BY <2>2 DEF Deliver
    <3> HIDE DEF a
    <3>3. /\ LearnsFrom(a, v)
          /\ a.up = actor.up /\ a.boundary = actor.boundary /\ a.tracked = actor.tracked
      BY <3>1 DEF IsMemory, LearnsFrom
    <3> QED BY <3>2, <3>3
  <2> QED BY <2>1, <2>2
<1>2. /\ stored' = S /\ UNCHANGED <<marker, completed, indexer>>
      /\ S \in SUBSET Views /\ inflight \in SUBSET Views
  BY DEF Put, Deliver, SeederInv, TypeInv
<1> DEFINE b == Learn(a, v, S)
<1>3. Learned(a, b, S)
  BY <1>1, LearnKeeps DEF SeederInv
<1> HIDE DEF b
<1>4. /\ IsMemory(actor') /\ inflight' \in SUBSET Views
      /\ actor'.up = b.up /\ actor'.waiting = b.waiting /\ actor'.fetching = b.fetching
      /\ actor'.listeners = b.listeners
      /\ actor'.boundary = b.boundary /\ actor'.tracked = b.tracked
  <2>1. CASE actor' = b /\ UNCHANGED inflight
    BY <2>1, <1>2, <1>3 DEF Learned
  <2>2. CASE UploadLoop(b, S)
    BY <2>2, <1>2, <1>3, UploadLoopKeeps DEF Learned
  <2> QED BY <1>1, <2>1, <2>2 DEF b
<1>5. TypeInv'
  BY <1>1, <1>2, <1>3, <1>4 DEF SeederInv, TypeInv, Learned
<1>6. UploadInv'
  BY <1>1, <1>2, <1>3, <1>4 DEF SeederInv, UploadInv, Learned
<1>7. WaitInv'
  BY <1>2, <1>3, <1>4 DEF WaitInv, Learned
<1> QED BY <1>5, <1>6, <1>7 DEF SeederInv

\* A completion is of a seed that the indexer has, and the marker follows the end of the
\* range of completions that begins at the boundary.
LEMMA UploadedKeeps ==
  ASSUME MaxView \in Nat, SeederInv, NEW v \in Views, Uploaded(v)
  PROVE  SeederInv'
<1> DEFINE tracked == actor.tracked \cup {v}
           end == RangeEnd(tracked, actor.boundary)
           a == [actor EXCEPT !.outstanding = Released(actor), !.tracked = tracked]
           b == [a EXCEPT !.boundary = end]
<1>0. a = [up |-> actor.up, waiting |-> actor.waiting, fetching |-> actor.fetching,
           listeners |-> actor.listeners, total |-> actor.total, cursor |-> actor.cursor,
           boundary |-> actor.boundary, tracked |-> tracked, outstanding |-> Released(actor)]
  <2>1. IsMemory(actor)
    BY DEF SeederInv, TypeInv
  <2> HIDE DEF tracked
  <2>2. ASSUME NEW c, c = [actor EXCEPT !.outstanding = Released(actor), !.tracked = tracked]
        PROVE  c = [up |-> actor.up, waiting |-> actor.waiting, fetching |-> actor.fetching,
                    listeners |-> actor.listeners, total |-> actor.total,
                    cursor |-> actor.cursor, boundary |-> actor.boundary,
                    tracked |-> tracked, outstanding |-> Released(actor)]
    BY <2>1, <2>2 DEF IsMemory
  <2> QED BY <2>2
<1>1. b = [up |-> actor.up, waiting |-> actor.waiting, fetching |-> actor.fetching,
           listeners |-> actor.listeners, total |-> actor.total, cursor |-> actor.cursor,
           boundary |-> end, tracked |-> tracked, outstanding |-> Released(actor)]
  <2> HIDE DEF tracked, end, a
  <2> QED BY <1>0
<1>2. /\ actor.up /\ v \in completed /\ completed' = completed \ {v}
      /\ UNCHANGED <<stored, indexer>>
      /\ \/ end = 0 /\ actor' = a /\ UNCHANGED <<marker, inflight>>
         \/ /\ end # 0 /\ UploadLoop(b, stored)
            /\ marker' = IF end > actor.boundary THEN end ELSE marker
  BY DEF Uploaded
<1>3. tracked \in SUBSET Views /\ tracked \subseteq indexer
  BY <1>2 DEF SeederInv, TypeInv, UploadInv
<1>4. actor.boundary \in Nat /\ actor.boundary = IF marker = 0 THEN 1 ELSE marker
  BY <1>2 DEF SeederInv, TypeInv, UploadInv
<1>5. end # 0 => /\ end \in Nat /\ actor.boundary <= end
                 /\ actor.boundary .. end \subseteq indexer
  <2> SUFFICES ASSUME end # 0
               PROVE  /\ end \in Nat /\ actor.boundary <= end
                      /\ actor.boundary .. end \subseteq indexer
    OBVIOUS
  <2>1. actor.boundary \in tracked
    BY DEF RangeEnd
  <2>2. /\ end \in tracked /\ actor.boundary <= end
        /\ actor.boundary .. end \subseteq tracked
    BY <2>1, <1>3, <1>4, RangeEndHolds
  <2> QED BY <2>2, <1>3 DEF Views
<1> HIDE DEF end, tracked, a, b
<1>6. /\ IsMemory(actor') /\ inflight' \in SUBSET Views
      /\ actor'.up = actor.up /\ actor'.waiting = actor.waiting
      /\ actor'.fetching = actor.fetching /\ actor'.listeners = actor.listeners
      /\ actor'.tracked = tracked
      /\ actor'.boundary = IF end = 0 THEN actor.boundary ELSE end
  <2>0. inflight \in SUBSET Views /\ stored \in SUBSET Views
    BY DEF SeederInv, TypeInv
  <2>1. CASE end = 0
    <3>1. actor' = a /\ UNCHANGED inflight
      BY <2>1, <1>2
    <3> QED BY <2>0, <2>1, <3>1, <1>0 DEF IsMemory
  <2>2. CASE end # 0
    <3>1. IsMemory(b) /\ UploadLoop(b, stored)
      BY <2>2, <1>1, <1>2 DEF IsMemory
    <3>2. /\ IsMemory(actor') /\ inflight' \in SUBSET Views
          /\ actor'.up = b.up /\ actor'.waiting = b.waiting /\ actor'.fetching = b.fetching
          /\ actor'.listeners = b.listeners
          /\ actor'.boundary = b.boundary /\ actor'.tracked = b.tracked
      BY <2>0, <3>1, UploadLoopKeeps
    <3> QED BY <2>2, <3>2, <1>1
  <2> QED BY <2>1, <2>2
<1>7. TypeInv'
  BY <1>2, <1>3, <1>5, <1>6 DEF SeederInv, TypeInv
<1>8. 1 .. marker' \subseteq indexer
  <2>1. CASE end # 0 /\ end > actor.boundary
    <3> SUFFICES ASSUME NEW x \in 1 .. end PROVE x \in indexer
      BY <2>1, <1>2
    <3>1. CASE x < actor.boundary
      <4>1. x \in 1 .. marker
        BY <3>1, <1>4, <1>5, <2>1 DEF SeederInv, TypeInv
      <4> QED BY <4>1 DEF SeederInv, UploadInv
    <3>2. CASE x >= actor.boundary
      BY <3>2, <1>4, <1>5, <2>1
    <3> QED BY <3>1, <3>2, <1>4, <1>5, <2>1
  <2>2. CASE ~(end # 0 /\ end > actor.boundary)
    <3>1. marker' = marker
      BY <2>2, <1>2
    <3> QED BY <3>1 DEF SeederInv, UploadInv
  <2> QED BY <2>1, <2>2
<1>9. UploadInv'
  <2>1. actor'.boundary = IF marker' = 0 THEN 1 ELSE marker'
    <3>1. CASE end = 0
      BY <3>1, <1>2, <1>4, <1>6
    <3>2. CASE end # 0
      BY <3>2, <1>2, <1>4, <1>5, <1>6
    <3> QED BY <3>1, <3>2
  <2> QED BY <2>1, <1>2, <1>3, <1>6, <1>8 DEF SeederInv, UploadInv
<1>10. WaitInv'
  BY <1>2, <1>6 DEF SeederInv, WaitInv
<1> QED BY <1>7, <1>9, <1>10 DEF SeederInv

\* Requests wait in waiting; serving, canceling and submitting move nothing else.
LEMMA RequestKeeps ==
  ASSUME SeederInv, NEW v \in Views, Serve(v) \/ GetMissing(v) \/ Cancel(v) \/ Submit(v)
  PROVE  SeederInv'
<1> USE DEF SeederInv
<1>0. IsMemory(actor)
  BY DEF TypeInv
<1>1. CASE Serve(v)
  <2>1. /\ IsMemory(actor') /\ inflight' \in SUBSET Views
        /\ actor'.up = actor.up /\ actor'.waiting = actor.waiting
        /\ actor'.fetching = actor.fetching /\ actor'.listeners = actor.listeners
        /\ actor'.boundary = actor.boundary /\ actor'.tracked = actor.tracked
    BY <1>0, <1>1, UploadLoopKeeps DEF Serve, TypeInv
  <2>2. UNCHANGED <<stored, marker, completed, indexer>>
    BY <1>1 DEF Serve
  <2>3. TypeInv'
    BY <2>1, <2>2 DEF TypeInv
  <2>4. UploadInv'
    BY <2>1, <2>2 DEF UploadInv
  <2>5. WaitInv'
    BY <2>1, <2>2 DEF WaitInv
  <2> QED BY <2>3, <2>4, <2>5
<1>2. CASE GetMissing(v)
  <2> DEFINE L == [actor.listeners EXCEPT ![v] = [live |-> @.live + 1, gone |-> 0]]
             F == IF v \in actor.waiting THEN actor.fetching ELSE actor.fetching \cup {v}
             T == TotalBefore(v) + 1
  <2>1. actor' = [up |-> actor.up, waiting |-> actor.waiting \cup {v}, fetching |-> F,
                  listeners |-> L, total |-> T, cursor |-> actor.cursor,
                  boundary |-> actor.boundary, tracked |-> actor.tracked,
                  outstanding |-> actor.outstanding]
    BY <1>0, <1>2 DEF GetMissing, IsMemory
  <2>2. /\ v \notin stored
        /\ UNCHANGED <<stored, marker, inflight, completed, indexer>>
    BY <1>2 DEF GetMissing
  <2>3. L \in Listeners
    BY DEF TypeInv, Listeners
  <2>4. ASSUME NEW x \in Views, L[x].live > 0 PROVE x \in (actor.waiting \cup {v}) \ stored
    <3>1. CASE x = v
      BY <3>1, <2>2
    <3>2. CASE x # v
      <4>1. actor.listeners[x].live > 0
        BY <3>2, <2>4 DEF TypeInv, Listeners
      <4> QED BY <4>1 DEF WaitInv
    <3> QED BY <3>1, <3>2
  <2>5. (actor.waiting \cup {v}) \ stored \subseteq F
    BY DEF WaitInv
  <2> HIDE DEF L, F, T
  <2>6. /\ IsMemory(actor') /\ actor'.waiting = actor.waiting \cup {v} /\ actor'.fetching = F
        /\ actor'.listeners = L /\ actor'.up = actor.up
        /\ actor'.boundary = actor.boundary /\ actor'.tracked = actor.tracked
    BY <2>1 DEF IsMemory
  <2>7. TypeInv'
    BY <2>2, <2>3, <2>6 DEF TypeInv
  <2>8. UploadInv'
    BY <2>2, <2>6 DEF UploadInv
  <2>9. WaitInv'
    BY <2>2, <2>4, <2>5, <2>6 DEF WaitInv
  <2> QED BY <2>7, <2>8, <2>9
<1>3. CASE Cancel(v)
  <2> DEFINE L == [actor.listeners EXCEPT ![v] = [live |-> @.live - 1, gone |-> @.gone + 1]]
  <2>1. actor' = [up |-> actor.up, waiting |-> actor.waiting, fetching |-> actor.fetching,
                  listeners |-> L, total |-> actor.total, cursor |-> actor.cursor,
                  boundary |-> actor.boundary, tracked |-> actor.tracked,
                  outstanding |-> actor.outstanding]
    BY <1>0, <1>3 DEF Cancel, IsMemory
  <2>2. UNCHANGED <<stored, marker, inflight, completed, indexer>>
    BY <1>3 DEF Cancel
  <2>3. L \in Listeners
    BY DEF TypeInv, Listeners
  <2>4. ASSUME NEW x \in Views, L[x].live > 0 PROVE actor.listeners[x].live > 0
    BY <2>4 DEF TypeInv, Listeners
  <2> HIDE DEF L
  <2>6. /\ IsMemory(actor') /\ actor'.waiting = actor.waiting
        /\ actor'.fetching = actor.fetching
        /\ actor'.listeners = L /\ actor'.up = actor.up
        /\ actor'.boundary = actor.boundary /\ actor'.tracked = actor.tracked
    BY <2>1 DEF IsMemory
  <2>7. TypeInv'
    BY <2>2, <2>3, <2>6 DEF TypeInv
  <2>8. UploadInv'
    BY <2>2, <2>6 DEF UploadInv
  <2>9. WaitInv'
    BY <2>2, <2>4, <2>6 DEF WaitInv
  <2> QED BY <2>7, <2>8, <2>9
<1>4. CASE Submit(v)
  <2>1. TypeInv'
    BY <1>4 DEF Submit, TypeInv
  <2>2. UploadInv'
    BY <1>4 DEF Submit, UploadInv
  <2>3. WaitInv'
    BY <1>4 DEF Submit, WaitInv
  <2> QED BY <2>1, <2>2, <2>3
<1> QED BY <1>1, <1>2, <1>3, <1>4

\* A stop forgets the memory and the tasks, a restart reads the marker back.
LEMMA LifeKeeps ==
  ASSUME SeederInv, Stop \/ Restart
  PROVE  SeederInv'
<1> USE DEF SeederInv
<1>1. CASE Stop
  <2>1. Down = Empty({}, 0, FALSE)
    <3>1. Fresh({}, 0) = Empty({}, 0, TRUE)
      BY DEF Fresh, Empty
    <3>2. Down = [Empty({}, 0, TRUE) EXCEPT !.up = FALSE]
      BY <3>1 DEF Down
    <3> QED BY <3>2 DEF Empty
  <2>2. IsEmpty(actor', 0, FALSE)
    BY <1>1, <2>1, EmptyHolds, {} \in SUBSET Views, 0 \in Nat DEF Stop
  <2>3. TypeInv'
    BY <1>1, <2>2 DEF Stop, TypeInv, IsEmpty
  <2>4. UploadInv'
    BY <1>1, <2>2 DEF Stop, UploadInv, IsEmpty
  <2>5. WaitInv'
    BY <2>2 DEF WaitInv, IsEmpty
  <2> QED BY <2>3, <2>4, <2>5
<1>2. CASE Restart
  <2>1. actor' = Empty(stored, marker, TRUE)
    BY <1>2 DEF Restart, Fresh, Empty
  <2>2. IsEmpty(actor', marker, TRUE)
    BY <2>1, EmptyHolds DEF TypeInv
  <2>3. TypeInv'
    BY <1>2, <2>2 DEF Restart, TypeInv, IsEmpty
  <2>4. UploadInv'
    BY <1>2, <2>2 DEF Restart, UploadInv, IsEmpty
  <2>5. WaitInv'
    BY <2>2 DEF WaitInv, IsEmpty
  <2> QED BY <2>3, <2>4, <2>5
<1> QED BY <1>1, <1>2

\* SeederInv is inductive.
LEMMA NextInv ==
  ASSUME MaxView \in Nat, SeederInv, [Next]_vars
  PROVE  SeederInv'
<1>1. ASSUME NEW v \in Views, Put(v) \/ Deliver(v) PROVE SeederInv'
  BY <1>1, StoreKeeps
<1>2. ASSUME NEW v \in Views, Serve(v) \/ GetMissing(v) \/ Cancel(v) \/ Submit(v)
      PROVE  SeederInv'
  BY <1>2, RequestKeeps
<1>3. ASSUME NEW v \in Views, Uploaded(v) PROVE SeederInv'
  BY <1>3, UploadedKeeps
<1>4. ASSUME NEW v \in Views, GetOverLimit(v) PROVE SeederInv'
  BY <1>4, LifeKeeps DEF GetOverLimit
<1>5. CASE Crash \/ Restart
  BY <1>5, LifeKeeps DEF Crash
<1>6. CASE UNCHANGED vars
  <2>1. TypeInv' /\ UploadInv'
    BY <1>6 DEF vars, SeederInv, TypeInv, UploadInv
  <2>2. WaitInv'
    BY <1>6 DEF vars, SeederInv, WaitInv
  <2> QED BY <2>1, <2>2 DEF SeederInv
<1> QED BY <1>1, <1>2, <1>3, <1>4, <1>5, <1>6 DEF Next

\* SeederInv holds in every state, and with it the two properties.
LEMMA Invariant ==
  ASSUME MaxView \in Nat
  PROVE  SafeSpec => [](MarkerIsUploaded /\ WaitersAreServed)
<1>1. SeederInv => MarkerIsUploaded /\ WaitersAreServed
  <2>1. SeederInv => MarkerIsUploaded
    BY DEF SeederInv, UploadInv, MarkerIsUploaded
  <2>2. SeederInv => WaitersAreServed
    BY DEF SeederInv, WaitInv, WaitersAreServed
  <2> QED BY <2>1, <2>2
<1>2. SeederInv /\ [Next]_vars => SeederInv'
  BY NextInv
<1> QED BY InitInv, <1>1, <1>2, PTL DEF SafeSpec

-----------------------------------------------------------------------------

\* The marker under LAST_UPLOADED_KEY never promises a seed that the indexer lacks, for
\* any number of views, slots and stops: Uploaded stores the end of the range of
\* completions that begins at the boundary, and a restart begins at the marker.
THEOREM MarkerNeverLies ==
  ASSUME MaxView \in Nat
  PROVE  SafeSpec => []MarkerIsUploaded
BY Invariant, PTL

\* A receiver that Get parked waits for a seed that is missing and being fetched: neither
\* the cancellations of Put and Deliver nor a second Get of the view lose the fetch.
THEOREM NoWaiterIsForgotten ==
  ASSUME MaxView \in Nat
  PROVE  SafeSpec => []WaitersAreServed
BY Invariant, PTL
=============================================================================
