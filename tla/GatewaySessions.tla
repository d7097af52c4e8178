--------------------------- MODULE GatewaySessions ---------------------------
(* The life of a client's connection at the gateway: the connection handler of      *)
(* gateway/src/index.ts with the connection limiter, the session manager, presence  *)
(* and broadcast, the cleanup of idle sessions and the drain.  The handler awaits    *)
(* createSession before it listens for messages and for the close of its socket.    *)
EXTENDS Naturals, FiniteSets

CONSTANTS Connections,         \* bound: the connections that clients make
          Ip,                  \* the address each of them comes from
          maxConnectionsPerIp, maxTotalSessions

VARIABLES
  socket,       \* "none", "open", "closing" and "closed"
  stage,        \* where the connection handler is
  slots,        \* connectionsByIp, as the connections that hold a place
  total,        \* totalConnections
  sessions,     \* sessions and byPublicKey
  updates,      \* whose account stream is connected
  timers,       \* whose balance refresh is running
  presence,     \* PresenceManager.sessions
  subscribers,  \* BroadcastManager.subscribers
  playing,      \* sessions with an activeGameId
  idle,         \* sessions older than SESSION_MAX_IDLE_MS
  drain         \* "no", "waiting", "exited"

sessionVars == <<socket, stage, slots, total, sessions, updates, timers, presence,
                 subscribers, playing, idle, drain>>

Init ==
  /\ socket = [c \in Connections |-> "none"]
  /\ stage = [c \in Connections |-> "none"]
  /\ slots = {} /\ total = 0
  /\ sessions = {} /\ updates = {} /\ timers = {}
  /\ presence = {} /\ subscribers = {}
  /\ playing = {} /\ idle = {}
  /\ drain = "no"

Running == drain # "exited"

-----------------------------------------------------------------------------
(* The connection limiter. *)

CanConnect(c) ==
  /\ total < maxTotalSessions
  /\ Cardinality({d \in slots : Ip[d] = Ip[c]}) < maxConnectionsPerIp

Register(c) == slots' = slots \cup {c} /\ total' = total + 1

Unregister(c) == slots' = slots \ {c} /\ total' = IF c \in slots THEN total - 1 ELSE total

-----------------------------------------------------------------------------
(* The connection handler. *)

Closing(C) == [d \in Connections |-> IF d \in C /\ socket[d] = "open" THEN "closing" ELSE socket[d]]

\* Not taken during the drain or over a limit: told so and closed.
Refuse(c) ==
  /\ Running /\ socket[c] = "none"
  /\ drain # "no" \/ ~CanConnect(c)
  /\ socket' = [socket EXCEPT ![c] = "closing"]
  /\ stage' = [stage EXCEPT ![c] = "refused"]
  /\ UNCHANGED <<slots, total, sessions, updates, timers, presence, subscribers, playing, idle, drain>>

\* A place is taken and createSession begun; or the origin is refused, or the rate limit of
\* createSession throws before there is a session and the place is given back.
Connect(c) ==
  /\ Running /\ socket[c] = "none"
  /\ drain = "no" /\ CanConnect(c)
  /\ \/ /\ socket' = [socket EXCEPT ![c] = "open"]
        /\ stage' = [stage EXCEPT ![c] = "subscribing"]
        /\ Register(c)
        /\ sessions' = sessions \cup {c}
     \/ /\ socket' = [socket EXCEPT ![c] = "closing"]
        /\ stage' = [stage EXCEPT ![c] = "refused"]
        /\ UNCHANGED <<slots, total, sessions>>
  /\ UNCHANGED <<updates, timers, presence, subscribers, playing, idle, drain>>

\* initializePlayer: the account's stream is connected, or goes without.
Subscribed(c) ==
  /\ Running /\ stage[c] = "subscribing"
  /\ stage' = [stage EXCEPT ![c] = "registering"]
  /\ updates' \in {updates, updates \cup {c}}
  /\ UNCHANGED <<socket, slots, total, sessions, timers, presence, subscribers, playing, idle, drain>>

\* The player is registered: the session is announced and the handlers attached.
Ready(c) ==
  /\ Running /\ stage[c] = "registering"
  /\ stage' = [stage EXCEPT ![c] = "ready"]
  /\ timers' = timers \cup {c}
  /\ presence' = presence \cup {c}
  /\ UNCHANGED <<socket, slots, total, sessions, updates, subscribers, playing, idle, drain>>

\* Mutant: the session that failed stays in the maps.
FailKeepingSession(c) ==
  /\ Running /\ stage[c] = "registering"
  /\ stage' = [stage EXCEPT ![c] = "refused"]
  /\ updates' = updates \ {c}
  /\ Unregister(c)
  /\ socket' = Closing({c})
  /\ UNCHANGED <<sessions, timers, presence, subscribers, playing, idle, drain>>

\* It is not: cleanupFailedSession, and the catch block of the connection handler.
Fail(c) ==
  /\ Running /\ stage[c] = "registering"
  /\ stage' = [stage EXCEPT ![c] = "refused"]
  /\ updates' = updates \ {c}
  /\ sessions' = sessions \ {c}
  /\ Unregister(c)
  /\ socket' = Closing({c})
  /\ UNCHANGED <<timers, presence, subscribers, playing, idle, drain>>

\* Messages of the client: subscribe_game, and a game that starts or ends.
Message(c) ==
  /\ Running /\ stage[c] = "ready" /\ socket[c] = "open" /\ c \in sessions
  /\ \/ subscribers' = subscribers \cup {c} /\ UNCHANGED playing
     \/ playing' \in {playing \cup {c}, playing \ {c}} /\ UNCHANGED subscribers
  /\ UNCHANGED <<socket, stage, slots, total, sessions, updates, timers, presence, idle, drain>>

\* destroySession, of the sessions of C.
Destroy(C) ==
  LET D == C \cap sessions IN
  /\ sessions' = sessions \ D
  /\ updates' = updates \ D
  /\ timers' = timers \ D
  /\ playing' = playing \ D
  /\ idle' = idle \ D

\* The socket closes, by the client or because it was told to: the close handler runs if
\* it is attached by now.
Close(c) ==
  /\ Running /\ socket[c] \in {"open", "closing"}
  /\ socket' = [socket EXCEPT ![c] = "closed"]
  /\ \/ /\ stage[c] = "ready"
        /\ Destroy({c})
        /\ presence' = presence \ {c}
        /\ subscribers' = subscribers \ {c}
        /\ Unregister(c)
     \/ /\ stage[c] # "ready"
        /\ UNCHANGED <<sessions, updates, timers, playing, idle, presence, subscribers, slots, total>>
  /\ UNCHANGED <<stage, drain>>

-----------------------------------------------------------------------------
(* The cleanup and the drain. *)

\* Half an hour after createSession: nothing moves lastActivityAt.
Age(c) ==
  /\ Running /\ stage[c] = "ready" /\ c \in sessions \ idle
  /\ idle' = idle \cup {c}
  /\ UNCHANGED <<socket, stage, slots, total, sessions, updates, timers, presence, subscribers,
                 playing, drain>>

\* Mutant: only sessions whose socket is open are looked at.
CleanupOpen ==
  /\ Running /\ \E c \in idle : socket[c] = "open"
  /\ Destroy({c \in idle : socket[c] = "open"})
  /\ socket' = Closing({c \in idle : socket[c] = "open"})
  /\ UNCHANGED <<stage, slots, total, presence, subscribers, drain>>

\* cleanupIdleSessions: marks, notifies, destroys and closes in one go.
Cleanup ==
  /\ Running /\ idle # {}
  /\ Destroy(idle)
  /\ socket' = Closing(idle)
  /\ UNCHANGED <<stage, slots, total, presence, subscribers, drain>>

Drain ==
  /\ drain = "no"
  /\ drain' = "waiting"
  /\ UNCHANGED <<socket, stage, slots, total, sessions, updates, timers, presence, subscribers,
                 playing, idle>>

\* No game is left, or the time is up: the sessions are closed and the process exits.
\* (It lives on for up to five seconds, for the sockets that are still open.)
Shutdown ==
  /\ drain = "waiting"
  /\ drain' = "exited"
  /\ Destroy(sessions)
  /\ socket' = Closing(sessions)
  /\ UNCHANGED <<stage, slots, total, presence, subscribers>>

Handle(c) == Subscribed(c) \/ Ready(c) \/ Fail(c)

Next ==
  \/ \E c \in Connections :
       Refuse(c) \/ Connect(c) \/ Handle(c) \/ Message(c) \/ Close(c) \/ Age(c)
  \/ Cleanup \/ Drain \/ Shutdown

\* The backend's answers have timeouts, time passes, and the cleanup is periodic.
Fairness ==
  /\ \A c \in Connections : WF_sessionVars(Handle(c)) /\ WF_sessionVars(Age(c))
  /\ WF_sessionVars(Cleanup)

Spec == Init /\ [][Next]_sessionVars /\ Fairness

-----------------------------------------------------------------------------

\* canConnect, registerConnection and unregisterConnection: every session has a place of
\* its own, the places are counted exactly and stay within both limits, although a
\* session begins and ends apart from its place.
SessionsHoldPlaces ==
  /\ sessions \subseteq slots
  /\ total = Cardinality(slots) /\ total <= maxTotalSessions
  /\ \A c \in slots : Cardinality({d \in slots : Ip[d] = Ip[c]}) <= maxConnectionsPerIp

\* destroySession and cleanupIdleSessions: the session of a connection that has closed is
\* destroyed with its stream and its timer, also when the socket closed while the session
\* was being created and no close handler was there to see it.
SessionsEnd ==
  \A c \in Connections :
    socket[c] = "closed" ~> c \notin sessions \cup updates \cup timers \cup subscribers
=============================================================================
