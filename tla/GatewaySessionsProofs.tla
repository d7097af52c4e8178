------------------------ MODULE GatewaySessionsProofs -------------------------
(***************************************************************************)
(* Proof that the sessions of the gateway hold places within the limits,   *)
(* for any connections, addresses and limits.  PlacesInv adds to the       *)
(* property that a place belongs to a connection whose socket was made, so *)
(* a connection that is taken has no place yet.                            *)
(***************************************************************************)
EXTENDS GatewaySessions, FiniteSetTheorems, TLAPS

\* The places taken from the address of c.
PlacesOf(S, c) == {d \in S : Ip[d] = Ip[c]}

\* S is a finite set of places within the limits, n of them.
WithinLimits(S, n) ==
  /\ IsFiniteSet(S) /\ n = Cardinality(S) /\ n <= maxTotalSessions
  /\ \A c \in S : Cardinality(PlacesOf(S, c)) <= maxConnectionsPerIp

SocketStates == {"none", "open", "closing", "closed"}

PlacesInv ==
  /\ socket \in [Connections -> SocketStates]
  /\ slots \subseteq {c \in Connections : socket[c] # "none"}
  /\ sessions \subseteq slots
  /\ WithinLimits(slots, total)

Limits == maxConnectionsPerIp \in Nat /\ maxTotalSessions \in Nat

-----------------------------------------------------------------------------

\* registerConnection after canConnect: the new place is counted, and fits.
LEMMA RegisterKeeps ==
  ASSUME Limits, PlacesInv, NEW c \in Connections, socket[c] = "none", CanConnect(c), Register(c)
  PROVE  WithinLimits(slots', total')
<1>1. c \notin slots /\ slots' = slots \cup {c} /\ total' = total + 1
  BY DEF PlacesInv, Register
<1>2. IsFiniteSet(slots) /\ total = Cardinality(slots) /\ total \in Nat
  BY FS_CardinalityType DEF PlacesInv, WithinLimits
<1>3. IsFiniteSet(slots') /\ Cardinality(slots') = total + 1
  BY <1>1, <1>2, FS_AddElement
<1>4. total' <= maxTotalSessions
  BY <1>1, <1>2 DEF CanConnect, Limits
<1>5. ASSUME NEW d \in slots' PROVE Cardinality(PlacesOf(slots', d)) <= maxConnectionsPerIp
  <2>1. CASE Ip[d] = Ip[c]
    <3>1. PlacesOf(slots', d) = PlacesOf(slots, c) \cup {c} /\ c \notin PlacesOf(slots, c)
      BY <1>1, <2>1 DEF PlacesOf
    <3>2. IsFiniteSet(PlacesOf(slots, c))
      BY <1>2, FS_Subset DEF PlacesOf
    <3>3. /\ Cardinality(PlacesOf(slots', d)) = Cardinality(PlacesOf(slots, c)) + 1
          /\ Cardinality(PlacesOf(slots, c)) \in Nat
      BY <3>1, <3>2, FS_AddElement, FS_CardinalityType
    <3>4. Cardinality(PlacesOf(slots, c)) < maxConnectionsPerIp
      BY DEF CanConnect, PlacesOf
    <3> QED BY <3>3, <3>4 DEF Limits
  <2>2. CASE Ip[d] # Ip[c]
    <3>1. d \in slots /\ PlacesOf(slots', d) = PlacesOf(slots, d)
      BY <1>1, <2>2 DEF PlacesOf
    <3> QED BY <3>1 DEF PlacesInv, WithinLimits
  <2> QED BY <2>1, <2>2
<1> QED BY <1>1, <1>3, <1>4, <1>5 DEF WithinLimits

\* unregisterConnection: a place that was held is given back once.
LEMMA UnregisterKeeps ==
  ASSUME Limits, PlacesInv, NEW c \in Connections, Unregister(c)
  PROVE  WithinLimits(slots', total')
<1>1. IsFiniteSet(slots) /\ total = Cardinality(slots) /\ total \in Nat
  BY FS_CardinalityType DEF PlacesInv, WithinLimits
<1>2. CASE c \notin slots
  <2>1. slots' = slots /\ total' = total
    BY <1>2 DEF Unregister
  <2> QED BY <2>1 DEF PlacesInv
<1>3. CASE c \in slots
  <2>1. slots' = slots \ {c} /\ total' = total - 1
    BY <1>3 DEF Unregister
  <2>2. IsFiniteSet(slots') /\ Cardinality(slots') = total - 1
    BY <1>1, <1>3, <2>1, FS_RemoveElement
  <2>3. total' <= maxTotalSessions
    BY <1>1, <2>1 DEF PlacesInv, WithinLimits, Limits
  <2>4. ASSUME NEW d \in slots' PROVE Cardinality(PlacesOf(slots', d)) <= maxConnectionsPerIp
    <3>1. d \in slots /\ PlacesOf(slots', d) \subseteq PlacesOf(slots, d)
      BY <2>1 DEF PlacesOf
    <3>2. IsFiniteSet(PlacesOf(slots, d))
      BY <1>1, FS_Subset DEF PlacesOf
    <3>3. /\ Cardinality(PlacesOf(slots', d)) <= Cardinality(PlacesOf(slots, d))
          /\ IsFiniteSet(PlacesOf(slots', d))
      BY <3>1, <3>2, FS_Subset
    <3>4. /\ Cardinality(PlacesOf(slots', d)) \in Nat
          /\ Cardinality(PlacesOf(slots, d)) \in Nat
      BY <3>2, <3>3, FS_CardinalityType
    <3>5. Cardinality(PlacesOf(slots, d)) <= maxConnectionsPerIp
      BY <3>1 DEF PlacesInv, WithinLimits
    <3> QED BY <3>3, <3>4, <3>5 DEF Limits
  <2> QED BY <2>1, <2>2, <2>3, <2>4 DEF WithinLimits
<1> QED BY <1>2, <1>3

-----------------------------------------------------------------------------
(* The actions, by what they do to the places. *)

\* The connection handler takes a place with the session, or neither.
LEMMA ConnectKeeps ==
  ASSUME Limits, PlacesInv, NEW c \in Connections, Refuse(c) \/ Connect(c)
  PROVE  PlacesInv'
<1>1. socket' \in [Connections -> SocketStates] /\ socket'[c] # "none" /\ socket[c] = "none"
      /\ \A d \in Connections : d # c => socket'[d] = socket[d]
  BY DEF Refuse, Connect, PlacesInv, SocketStates
<1>2. CASE UNCHANGED <<slots, total, sessions>>
  <2>1. slots' \subseteq {d \in Connections : socket'[d] # "none"}
    BY <1>1, <1>2 DEF PlacesInv
  <2> QED BY <1>1, <1>2, <2>1 DEF PlacesInv
<1>3. CASE CanConnect(c) /\ Register(c) /\ sessions' = sessions \cup {c}
  <2>1. WithinLimits(slots', total')
    BY <1>1, <1>3, RegisterKeeps
  <2>2. slots' \subseteq {d \in Connections : socket'[d] # "none"}
    BY <1>1, <1>3 DEF PlacesInv, Register
  <2>3. sessions' \subseteq slots'
    BY <1>3 DEF PlacesInv, Register
  <2> QED BY <1>1, <2>1, <2>2, <2>3 DEF PlacesInv
<1> QED BY <1>2, <1>3 DEF Refuse, Connect

\* Sessions end before their place, or with it: createSession fails, or the socket closes.
LEMMA EndKeeps ==
  ASSUME Limits, PlacesInv, NEW c \in Connections, Fail(c) \/ Close(c)
  PROVE  PlacesInv'
<1>1. /\ socket' \in [Connections -> SocketStates]
      /\ \A d \in Connections : socket[d] # "none" => socket'[d] # "none"
  BY DEF Fail, Close, Closing, PlacesInv, SocketStates
<1>2. CASE Unregister(c) /\ sessions' = sessions \ {c}
  <2>1. WithinLimits(slots', total')
    BY <1>2, UnregisterKeeps
  <2>2. slots' \subseteq {d \in Connections : socket'[d] # "none"}
    BY <1>1, <1>2 DEF PlacesInv, Unregister
  <2>3. sessions' \subseteq slots'
    BY <1>2 DEF PlacesInv, Unregister
  <2> QED BY <1>1, <2>1, <2>2, <2>3 DEF PlacesInv
<1>3. CASE UNCHANGED <<slots, total, sessions>>
  <2>1. slots' \subseteq {d \in Connections : socket'[d] # "none"}
    BY <1>1, <1>3 DEF PlacesInv
  <2> QED BY <1>1, <1>3, <2>1 DEF PlacesInv
<1>4. Close(c) => (Unregister(c) /\ sessions' = sessions \ {c}) \/ UNCHANGED <<slots, total, sessions>>
  BY DEF Close, Destroy
<1> QED BY <1>2, <1>3, <1>4 DEF Fail

\* Everything else leaves the places alone, and ends sessions at most.
LEMMA OtherKeeps ==
  ASSUME PlacesInv,
         \/ \E c \in Connections : Subscribed(c) \/ Ready(c) \/ Message(c) \/ Age(c)
         \/ Cleanup \/ Drain \/ Shutdown
  PROVE  PlacesInv'
<1>1. sessions' \subseteq sessions /\ UNCHANGED <<slots, total>>
  BY DEF Subscribed, Ready, Message, Age, Cleanup, Drain, Shutdown, Destroy
<1>2. UNCHANGED socket \/ \E C : socket' = Closing(C)
  BY DEF Subscribed, Ready, Message, Age, Cleanup, Drain, Shutdown
<1>3. /\ socket' \in [Connections -> SocketStates]
      /\ \A d \in Connections : socket[d] # "none" => socket'[d] # "none"
  BY <1>2 DEF Closing, PlacesInv, SocketStates
<1>4. slots' \subseteq {d \in Connections : socket'[d] # "none"}
  BY <1>1, <1>3 DEF PlacesInv
<1> QED BY <1>1, <1>3, <1>4 DEF PlacesInv

\* At the start nobody has a place.
LEMMA InitInv ==
  ASSUME Limits, Init
  PROVE  PlacesInv
<1>1. IsFiniteSet({}) /\ Cardinality({}) = 0
  BY FS_EmptySet
<1>2. WithinLimits(slots, total)
  BY <1>1 DEF Init, WithinLimits, Limits
<1> QED BY <1>2 DEF Init, PlacesInv, SocketStates

-----------------------------------------------------------------------------

\* Every session of the gateway holds a place, and the places are counted exactly and
\* within maxTotalSessions and maxConnectionsPerIp, for any number of connections and
\* addresses: createSession, cleanupFailedSession, destroySession and the close handler
\* interleave as they may.
THEOREM PlacesAreHeld ==
  ASSUME Limits
  PROVE  Init /\ [][Next]_sessionVars => []SessionsHoldPlaces
<1>1. Init => PlacesInv
  BY InitInv
<1>2. PlacesInv /\ [Next]_sessionVars => PlacesInv'
  <2> SUFFICES ASSUME PlacesInv, [Next]_sessionVars PROVE PlacesInv'
    OBVIOUS
  <2>1. CASE \E c \in Connections : Refuse(c) \/ Connect(c)
    BY <2>1, ConnectKeeps
  <2>2. CASE \E c \in Connections : Fail(c) \/ Close(c)
    BY <2>2, EndKeeps
  <2>3. CASE \/ \E c \in Connections : Subscribed(c) \/ Ready(c) \/ Message(c) \/ Age(c)
             \/ Cleanup \/ Drain \/ Shutdown
    BY <2>3, OtherKeeps
  <2>4. CASE UNCHANGED sessionVars
    BY <2>4 DEF sessionVars, PlacesInv
  <2> QED BY <2>1, <2>2, <2>3, <2>4 DEF Next, Handle
<1>3. PlacesInv => SessionsHoldPlaces
  BY DEF PlacesInv, WithinLimits, PlacesOf, SessionsHoldPlaces
<1> QED BY <1>1, <1>2, <1>3, PTL
=============================================================================
