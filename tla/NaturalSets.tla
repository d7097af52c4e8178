----------------------------- MODULE NaturalSets -----------------------------
(* Bounded sets of naturals have the extrema that Min and Max choose; the modules of  *)
(* proofs about ordered storage rest on it.                                           *)
EXTENDS Integers, FiniteSets, FiniteSetsExt, FiniteSetTheorems, WellFoundedInduction, TLAPS

\* A non-empty set of naturals below a bound has a minimum, which Min chooses.
LEMMA MinExists ==
  ASSUME NEW N \in Nat, NEW S \in SUBSET (0 .. N), S # {}
  PROVE  Min(S) \in S /\ \A y \in S : Min(S) <= y
<1> DEFINE Below(x) == {y \in S : y <= x}
           F == {Below(x) : x \in S}
<1>0. S \subseteq Int
  OBVIOUS
<1>1. IsFiniteSet(S)
  <2>1. IsFiniteSet(0 .. N)
    BY FS_Interval, 0 \in Int, N \in Int
  <2> QED BY <2>1, FS_Subset
<1>2. F \subseteq FiniteSubsetsOf(S) /\ F # {}
  <2>1. ASSUME NEW x \in S PROVE Below(x) \in SUBSET S /\ IsFiniteSet(Below(x))
    <3>1. Below(x) \in SUBSET S
      OBVIOUS
    <3> QED BY <3>1, <1>1, FS_Subset
  <2> QED BY <2>1 DEF FiniteSubsetsOf
<1>3. PICK B \in F : \A C \in F : ~(<<C, B>> \in StrictSubsetOrdering(S))
  <2> HIDE DEF F
  <2> QED BY <1>2, WFMin, FS_StrictSubsetOrderingWellFounded
<1>4. PICK x \in S : B = Below(x)
  BY <1>3
<1>5. ASSUME NEW y \in S, y < x PROVE FALSE
  <2>0. x \in Int /\ y \in Int /\ \A z \in S : z \in Int
    BY <1>0
  <2>1. ASSUME NEW z \in Below(y) PROVE z \in Below(x)
    <3>1. z \in S /\ z <= y
      OBVIOUS
    <3>2. z <= x
      BY <2>0, <3>1, <1>5
    <3> QED BY <3>1, <3>2
  <2>2. x \notin Below(y) /\ x \in Below(x)
    BY <2>0, <1>5
  <2>3. <<Below(y), Below(x)>> \in StrictSubsetOrdering(S)
    BY <2>1, <2>2 DEF StrictSubsetOrdering
  <2> QED BY <2>3, <1>3, <1>4
<1>6. \A y \in S : x <= y
  BY <1>0, <1>5
<1> QED BY <1>6 DEF Min

\* A non-empty set of naturals below a bound has a maximum, which Max chooses.
LEMMA MaxExists ==
  ASSUME NEW N \in Nat, NEW S \in SUBSET (0 .. N), S # {}
  PROVE  Max(S) \in S /\ \A y \in S : Max(S) >= y
<1> DEFINE Above(x) == {y \in S : y >= x}
           F == {Above(x) : x \in S}
<1>0. S \subseteq Int
  OBVIOUS
<1>1. IsFiniteSet(S)
  <2>1. IsFiniteSet(0 .. N)
    BY FS_Interval, 0 \in Int, N \in Int
  <2> QED BY <2>1, FS_Subset
<1>2. F \subseteq FiniteSubsetsOf(S) /\ F # {}
  <2>1. ASSUME NEW x \in S PROVE Above(x) \in SUBSET S /\ IsFiniteSet(Above(x))
    <3>1. Above(x) \in SUBSET S
      OBVIOUS
    <3> QED BY <3>1, <1>1, FS_Subset
  <2> QED BY <2>1 DEF FiniteSubsetsOf
<1>3. PICK B \in F : \A C \in F : ~(<<C, B>> \in StrictSubsetOrdering(S))
  <2> HIDE DEF F
  <2> QED BY <1>2, WFMin, FS_StrictSubsetOrderingWellFounded
<1>4. PICK x \in S : B = Above(x)
  BY <1>3
<1>5. ASSUME NEW y \in S, y > x PROVE FALSE
  <2>0. x \in Int /\ y \in Int /\ \A z \in S : z \in Int
    BY <1>0
  <2>1. ASSUME NEW z \in Above(y) PROVE z \in Above(x)
    <3>1. z \in S /\ z >= y
      OBVIOUS
    <3>2. z >= x
      BY <2>0, <3>1, <1>5
    <3> QED BY <3>1, <3>2
  <2>2. x \notin Above(y) /\ x \in Above(x)
    BY <2>0, <1>5
  <2>3. <<Above(y), Above(x)>> \in StrictSubsetOrdering(S)
    BY <2>1, <2>2 DEF StrictSubsetOrdering
  <2> QED BY <2>3, <1>3, <1>4
<1>6. \A y \in S : x >= y
  BY <1>0, <1>5
<1> QED BY <1>6 DEF Max
=============================================================================
