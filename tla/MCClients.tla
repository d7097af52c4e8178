------------------------------ MODULE MCClients -------------------------------
(* What runs at the player's, for TLC: the website's nonces (BrowserNonce) and the      *)
(* app's socket (MobileSocket).  The two share no variable, so a behaviour of the run   *)
(* is one of a single part.                                                             *)
EXTENDS BrowserNonce

CONSTANTS MAX_RECONNECT_ATTEMPTS, MAX_QUEUE_SIZE, MaxMessages, MaxRequests, MaxCloses

VARIABLES part,  \* the part that moves
          socket, state, connecting, attempts, timers, timerId, restore, manual,
          messageQueue, expired, sent, made, settled, requests, closes

mobileVars == <<socket, state, connecting, attempts, timers, timerId, restore, manual,
                messageQueue, expired, sent, made, settled, requests, closes>>

M == INSTANCE MobileSocket WITH
       queue <- messageQueue, failures <- closes, MaxFailures <- MaxCloses

MCInit == Init /\ M!Init /\ part \in {"browser", "mobile"}

MCNext ==
  /\ \/ part = "browser" /\ Next /\ UNCHANGED mobileVars
     \/ part = "mobile" /\ M!Next /\ UNCHANGED vars
  /\ UNCHANGED part

\* The fairness of each module, in the behaviours of its part.
MCFairness ==
  /\ WF_vars(part = "browser" /\ (Call \/ AccountOfCall \/ DeliverCall))
  /\ WF_vars(part = "browser" /\ (BeginJob \/ Job \/ AccountOfJob \/ DeliverJob))
  /\ WF_vars(part = "browser" /\ \E t \in pending : Age(t))
  /\ WF_mobileVars(part = "mobile" /\ M!Opens)
  /\ WF_mobileVars(part = "mobile" /\ M!Fires)

MCSpec == MCInit /\ [][MCNext]_<<part, vars, mobileVars>> /\ MCFairness

\* See MobileSocket.MessageSettledOnce, about the message queue.
MessageSettledOnce == M!MessageSettledOnce

\* See MobileSocket.LostConnectionIsRemade, about the reconnect timer.
LostConnectionIsRemade == part = "mobile" => M!LostConnectionIsRemade
=============================================================================
