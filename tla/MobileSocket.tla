----------------------------- MODULE MobileSocket -----------------------------
(* The mobile app's connection to the gateway: useWebSocket                         *)
(* (mobile/src/services/websocket.ts), driven by useWebSocketReconnect.  A socket   *)
(* that is replaced is closed, and reports it later to the same handlers as the     *)
(* socket that replaced it.  The sockets themselves are external.                   *)
EXTENDS Naturals, Sequences, SequencesExt

CONSTANTS MAX_RECONNECT_ATTEMPTS, MAX_QUEUE_SIZE,
          MaxMessages,  \* bound: messages of the player
          MaxRequests,  \* bound: requests to connect or disconnect
          MaxFailures   \* bound: connections that close uncleanly

VARIABLES
  socket,      \* the state of each socket, in the order they were made
  state,       \* connectionState
  connecting,  \* isReconnectingRef
  attempts,    \* reconnectAttemptsRef
  timers,      \* armed reconnect timers, named by the socket whose close armed them
  timerId,     \* reconnectTimeoutId
  restore,     \* the state seen by the timer of a restored network, "none" without one
  manual,      \* isManuallyDisconnected
  queue,       \* messageQueueRef
  expired,     \* queued messages that are older than MESSAGE_TIMEOUT_MS
  sent,        \* sentMessageIdsRef
  made,        \* messages made so far, which are their ids
  settled,     \* per message, how often it was written or reported dropped (auxiliary)
  requests, failures

linkVars == <<socket, state, connecting, attempts, timers, timerId>>
queueVars == <<queue, expired, sent, made, settled>>
mobileVars == <<linkVars, restore, manual, queueVars, requests, failures>>

Messages == 1 .. MaxMessages
Sockets == DOMAIN socket
current == Len(socket)  \* ws.current is the last one made

Init ==
  /\ socket = <<"connecting">>
  /\ state = "connecting" /\ connecting = TRUE
  /\ attempts = 0
  /\ timers = {} /\ timerId = 0
  /\ restore = "none"
  /\ manual = FALSE
  /\ queue = <<>> /\ expired = {} /\ sent = {}
  /\ made = 0
  /\ settled = [m \in Messages |-> 0]
  /\ requests = 0 /\ failures = 0

-----------------------------------------------------------------------------

Closing == IF socket[current] \in {"closed", "lost"} THEN socket
           ELSE [socket EXCEPT ![current] = "closing"]

\* connect, by a caller that leaves the timers armed and has counted the attempts:
\* nothing while a connection is being made; else the timer that is known is cleared,
\* the current socket closed and another one made.
Connect(armed, counted) ==
  /\ attempts' = counted
  /\ \/ /\ connecting
        /\ timers' = armed
        /\ UNCHANGED <<socket, state, connecting, timerId>>
     \/ /\ ~connecting
        /\ connecting' = TRUE
        /\ timers' = armed \ {timerId} /\ timerId' = 0
        /\ socket' = Append(Closing, "connecting")
        /\ state' = "connecting"

\* The timer that the close of socket s armed.
ReconnectTimer(s) ==
  /\ s \in timers
  /\ Connect(timers \ {s}, attempts + 1)
  /\ UNCHANGED <<restore, manual, queueVars, requests, failures>>

Request == requests < MaxRequests /\ requests' = requests + 1

Idle(s) == s \notin {"connected", "connecting"}

\* The network is back: half a second later a reconnect, if there was no connection now.
NetworkRestored ==
  /\ Request
  /\ ~manual
  /\ restore' = state
  /\ UNCHANGED <<linkVars, manual, queueVars, failures>>

RestoreTimer ==
  /\ restore # "none"
  /\ restore' = "none"
  /\ \/ Idle(restore) /\ Connect(timers, 0)
     \/ ~Idle(restore) /\ UNCHANGED linkVars
  /\ UNCHANGED <<manual, queueVars, requests, failures>>

\* The app is in front again.
Foreground ==
  /\ Request
  /\ ~manual /\ Idle(state)
  /\ Connect(timers, 0)
  /\ UNCHANGED <<restore, manual, queueVars, failures>>

\* reconnectNow and resetAndReconnect.
ReconnectNow ==
  /\ Request
  /\ manual' = FALSE
  /\ restore' = "none"
  /\ Connect(timers, 0)
  /\ UNCHANGED <<queueVars, failures>>

Disconnect ==
  /\ Request
  /\ manual' = TRUE
  /\ restore' = "none"
  /\ timers' = timers \ {timerId} /\ timerId' = 0
  /\ queue' = <<>> /\ expired' = {}
  /\ socket' = Closing
  /\ state' = "disconnected"
  /\ UNCHANGED <<connecting, attempts, sent, made, settled, failures>>

-----------------------------------------------------------------------------
(* The handlers of a socket. *)

\* Mutant: messages that were reported as expired are sent all the same.
FlushedLate == ToSet(queue) \ sent

\* What the flush sends: not what is too old, and not what was sent before.
Flushed == ToSet(queue) \ (expired \cup sent)

\* onopen: the queue is flushed and emptied, and what is too old reported.
OnOpen ==
  /\ socket[current] = "connecting"
  /\ socket' = [socket EXCEPT ![current] = "open"]
  /\ connecting' = FALSE
  /\ state' = "connected"
  /\ attempts' = 0
  /\ settled' = [m \in Messages |-> settled[m] + (IF m \in Flushed THEN 1 ELSE 0)
                                               + (IF m \in expired THEN 1 ELSE 0)]
  /\ sent' = sent \cup Flushed
  /\ queue' = <<>> /\ expired' = {}
  /\ UNCHANGED <<timers, timerId, restore, manual, made, requests, failures>>

\* Mutant: the close of a socket that was being opened leaves the flag set.
OnCloseKeepsFlag(s, clean) ==
  /\ state' = IF ~clean /\ attempts >= MAX_RECONNECT_ATTEMPTS THEN "failed" ELSE "disconnected"
  /\ UNCHANGED connecting
  /\ IF ~clean /\ attempts < MAX_RECONNECT_ATTEMPTS
       THEN timers' = timers \cup {s} /\ timerId' = s
       ELSE UNCHANGED <<timers, timerId>>

\* onclose, of the current socket or of one that was replaced.
OnClose(s, clean) ==
  /\ state' = IF ~clean /\ attempts >= MAX_RECONNECT_ATTEMPTS THEN "failed" ELSE "disconnected"
  /\ connecting' = FALSE
  /\ IF ~clean /\ attempts < MAX_RECONNECT_ATTEMPTS
       THEN timers' = timers \cup {s} /\ timerId' = s
       ELSE UNCHANGED <<timers, timerId>>

\* send: on the open socket; else into the queue, from which the oldest is dropped.
Send ==
  /\ made < MaxMessages
  /\ made' = made + 1
  /\ \/ /\ socket[current] = "open"
        /\ sent' = sent \cup {made'}
        /\ settled' = [settled EXCEPT ![made'] = @ + 1]
        /\ UNCHANGED <<queue, expired>>
     \/ /\ socket[current] # "open" /\ state \in {"connecting", "disconnected"}
        /\ IF Len(queue) >= MAX_QUEUE_SIZE
             THEN /\ queue' = Append(Tail(queue), made')
                  /\ expired' = expired \ {Head(queue)}
                  /\ settled' = [settled EXCEPT ![Head(queue)] = @ + 1]
             ELSE queue' = Append(queue, made') /\ UNCHANGED <<expired, settled>>
        /\ UNCHANGED sent
     \/ /\ socket[current] # "open" /\ state \notin {"connecting", "disconnected"}
        /\ UNCHANGED <<queue, expired, sent, settled>>
  /\ UNCHANGED <<linkVars, restore, manual, requests, failures>>

\* The messages queued so far become too old.
Expire ==
  /\ expired # ToSet(queue)
  /\ expired' = ToSet(queue)
  /\ UNCHANGED <<linkVars, restore, manual, queue, sent, made, settled, requests, failures>>

-----------------------------------------------------------------------------
(* External: how a socket closes.  The peer may close it cleanly, it may be lost, and *)
(* one that was told to close does, cleanly or not.                                   *)

Closes(s, clean) ==
  /\ socket[s] \in {"connecting", "open", "closing"}
  /\ ~clean => failures < MaxFailures
  /\ failures' = IF clean THEN failures ELSE failures + 1
  /\ clean => socket[s] # "connecting"
  /\ socket' = [socket EXCEPT ![s] = IF clean THEN "closed" ELSE "lost"]
  /\ OnClose(s, clean)
  /\ UNCHANGED <<attempts, restore, manual, queueVars, requests>>

Next ==
  \/ \E s \in timers : ReconnectTimer(s)
  \/ NetworkRestored \/ RestoreTimer \/ Foreground \/ ReconnectNow \/ Disconnect
  \/ OnOpen \/ Send \/ Expire
  \/ \E s \in Sockets, clean \in BOOLEAN : Closes(s, clean)

\* Timers fire, and a socket that was asked to open does so or closes.
Opens == socket[current] = "connecting" /\ (OnOpen \/ Closes(current, FALSE))
Fires == \E s \in timers : ReconnectTimer(s)

Fairness == WF_mobileVars(Opens) /\ WF_mobileVars(Fires)

Spec == Init /\ [][Next]_mobileVars /\ Fairness

-----------------------------------------------------------------------------

\* A message of the player is written to one socket or reported as dropped, at most one
\* of the two and once, over queueing, overflow, expiry and any number of reconnects.
MessageSettledOnce == \A m \in Messages : settled[m] <= 1

\* A connection that is lost is made again, unless the attempts are used up, the player
\* disconnects or the new one is closed cleanly: neither a late close of a replaced
\* socket nor a reconnect that was skipped as a duplicate loses the retry.
LostConnectionIsRemade ==
  socket[current] = "lost" ~> \/ socket[current] \in {"open", "closed"}
                              \/ attempts >= MAX_RECONNECT_ATTEMPTS \/ manual
=============================================================================
