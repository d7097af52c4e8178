------------------------------ MODULE MCGateway -------------------------------
(* The gateway, for TLC: the nonces of an account (GatewayNonce), and connections and   *)
(* sessions (GatewaySessions).  The two share no variable, so a behaviour of the run    *)
(* is one of a single part.                                                             *)
EXTENDS GatewayNonce

CONSTANTS c1, c2, c3, maxConnectionsPerIp, maxTotalSessions

VARIABLES part,  \* the part that moves
          socket, stage, slots, total, sessions, updates, timers, presence, subscribers,
          playing, idle, drain

sessionVars == <<socket, stage, slots, total, sessions, updates, timers, presence,
                 subscribers, playing, idle, drain>>

Connections == {c1, c2, c3}

S == INSTANCE GatewaySessions WITH Ip <- [c \in Connections |-> c = c3]

MCInit == Init /\ S!Init /\ part \in {"nonce", "sessions"}

MCNext ==
  /\ \/ part = "nonce" /\ Next /\ UNCHANGED sessionVars
     \/ part = "sessions" /\ S!Next /\ UNCHANGED vars
  /\ UNCHANGED part

\* The fairness of each module, in the behaviours of its part.
MCFairness ==
  /\ \A h \in Handlers : WF_vars(part = "nonce" /\ Handle(h))
  /\ WF_vars(part = "nonce" /\ \E t \in pool : Execute(t))
  /\ \A c \in Connections :
       /\ WF_sessionVars(part = "sessions" /\ S!Handle(c))
       /\ WF_sessionVars(part = "sessions" /\ S!Age(c))
  /\ WF_sessionVars(part = "sessions" /\ S!Cleanup)

MCSpec == MCInit /\ [][MCNext]_<<part, vars, sessionVars>> /\ MCFairness

\* See GatewaySessions.SessionsHoldPlaces, about canConnect and createSession.
SessionsHoldPlaces == S!SessionsHoldPlaces

\* See GatewaySessions.SessionsEnd, about destroySession and cleanupIdleSessions.
SessionsEnd == part = "sessions" => S!SessionsEnd
=============================================================================
