----------------------------- MODULE GameSession -----------------------------
(* How the gateway plays a client's games (gateway/src/handlers/base.ts): a start or   *)
(* a move is submitted, and its handler waits for the chain's event on the account's   *)
(* update stream (gateway/src/backend/updates.ts), which keeps every event for those   *)
(* that ask for it later; moves are reported on a second stream, of the game.  Nonces  *)
(* and the lock that serializes the handlers are in GatewayNonce; here one message is  *)
(* handled after the other.                                                            *)
EXTENDS Naturals, Sequences, SequencesExt

CONSTANTS MaxGames,  \* bound: games started
          MaxMoves   \* bound: moves made

VARIABLES
  activeGameId,  \* 0 for null
  message,       \* the message in progress
  asked,         \* the game of the latest start; games are numbered in order
  moves,         \* moves made so far
  pendingEvents, \* the account's stream: the event types kept of each game, a Map in its order
  follows,       \* sessionUpdatesSessionId, 0 for undefined
  kept,          \* the moves kept by that game's stream
  leftover,      \* the types of waiters that lost their race and have not timed out
  accepted,      \* the transactions the chain has accepted and not executed
  live,          \* external: the games in progress on the chain
  wrong          \* a start was answered with another game (auxiliary)

vars == <<activeGameId, message, asked, moves, pendingEvents, follows, kept, leftover,
          accepted, live, wrong>>

Idle == [pc |-> "idle", kind |-> "none", game |-> 0]

Init ==
  /\ activeGameId = 0 /\ message = Idle /\ asked = 0 /\ moves = 0
  /\ pendingEvents = <<>> /\ follows = 0 /\ kept = 0 /\ leftover = {}
  /\ accepted = <<>> /\ live = {} /\ wrong = FALSE

-----------------------------------------------------------------------------
(* The messages, up to the submission. *)

\* startGame: refused while a game is in progress.
BeginStart ==
  /\ message = Idle /\ activeGameId = 0 /\ asked < MaxGames
  /\ asked' = asked + 1
  /\ message' = [pc |-> "submit", kind |-> "start", game |-> asked']
  /\ UNCHANGED <<activeGameId, moves, pendingEvents, follows, kept, leftover, accepted, live, wrong>>

\* makeMove: in the game that is active.
BeginMove ==
  /\ message = Idle /\ activeGameId # 0 /\ moves < MaxMoves
  /\ moves' = moves + 1
  /\ message' = [pc |-> "submit", kind |-> "move", game |-> activeGameId]
  /\ UNCHANGED <<activeGameId, asked, pendingEvents, follows, kept, leftover, accepted, live, wrong>>

\* The submission, or the one after a sync, is accepted: the chain may execute it before
\* the gateway has the answer.
Submit ==
  /\ message.pc = "submit"
  /\ accepted' = Append(accepted, [kind |-> message.kind, game |-> message.game])
  /\ message' = [message EXCEPT !.pc = "answer"]
  /\ UNCHANGED <<activeGameId, asked, moves, pendingEvents, follows, kept, leftover, live, wrong>>

\* Neither is: the client is told that the transaction was rejected.
Rejected ==
  /\ message.pc = "submit"
  /\ message' = Idle
  /\ UNCHANGED <<activeGameId, asked, moves, pendingEvents, follows, kept, leftover, accepted, live, wrong>>

-----------------------------------------------------------------------------
(* What is done with the event that the wait returns. *)

\* ensureSessionUpdatesClient: the stream of the game, which may fail to connect.
Follow(game) ==
  \/ follows = game /\ UNCHANGED <<follows, kept>>
  \/ follows # game /\ follows' \in {game, 0} /\ kept' = 0

\* Of startGame: an error clears the game; else the event's game is the active one.
AfterStart(type, game) ==
  \/ /\ type = "error"
     /\ activeGameId' = 0
     /\ UNCHANGED <<follows, kept, wrong>>
  \/ /\ type = "started"
     /\ activeGameId' = game
     /\ Follow(game)
     /\ wrong' = (wrong \/ game # message.game)

\* Of makeMove: a completed game is cleared, and its stream.
AfterMove(type) ==
  /\ activeGameId' = IF type = "completed" THEN 0 ELSE activeGameId
  /\ follows' = IF type = "completed" THEN 0 ELSE follows
  /\ UNCHANGED wrong

-----------------------------------------------------------------------------
(* The update streams. *)

\* checkPendingAndResolve: the first game in the Map that has an event of these types (0 for
\* none), its first one, and the Map without it.
Holder(events, T) == SelectInSeq(events, LAMBDA e : Range(e.types) \cap T # {})
First(T) == LET e == pendingEvents[Holder(pendingEvents, T)]
            IN  [game |-> e.game, type |-> SelectSeq(e.types, LAMBDA t : t \in T)[1]]
Without(events, T) ==
  IF Holder(events, T) = 0 THEN events
  ELSE [events EXCEPT ![Holder(events, T)].types = RemoveFirstMatch(@, LAMBDA t : t \in T)]

\* waitForEvent, waitForMoveOrComplete: the waiters of a message, each with its types.
Waiters == IF message.kind = "start" THEN {{"started", "error"}}
           ELSE {{"moved"}, {"completed"}, {"error"}}
Finds(T) == IF T = {"moved"} THEN follows # 0 /\ kept > 0 ELSE Holder(pendingEvents, T) # 0

\* The answer to the submission begins the wait of a start: an event that is kept from
\* before is taken.
WaitForStart ==
  /\ message.pc = "answer" /\ message.kind = "start"
  /\ LET T == {"started", "error"} IN
     \/ /\ Finds(T)
        /\ pendingEvents' = Without(pendingEvents, T)
        /\ AfterStart(First(T).type, First(T).game)
        /\ message' = Idle
     \/ /\ ~Finds(T)
        /\ activeGameId' = message.game
        /\ message' = [message EXCEPT !.pc = "wait"]
        /\ UNCHANGED <<pendingEvents, follows, kept, wrong>>
  /\ UNCHANGED <<asked, moves, leftover, accepted, live>>

\* Of a move: each of the three waiters takes what it finds, and the first one's is used.
WaitForMove ==
  /\ message.pc = "answer" /\ message.kind = "move"
  /\ pendingEvents' = Without(Without(pendingEvents, {"completed"}), {"error"})
  /\ kept' = IF Finds({"moved"}) THEN kept - 1 ELSE kept
  /\ \/ /\ ~\E T \in Waiters : Finds(T)
        /\ message' = [message EXCEPT !.pc = "wait"]
        /\ UNCHANGED <<activeGameId, follows, leftover, wrong>>
     \/ /\ \E T \in Waiters : Finds(T)
        /\ message' = Idle
        /\ AfterMove(IF Finds({"moved"}) THEN "moved"
                     ELSE IF Finds({"completed"}) THEN "completed" ELSE "error")
        /\ leftover' = leftover \cup UNION {T \in Waiters : ~Finds(T)}
  /\ UNCHANGED <<asked, moves, accepted, live>>

\* handleMessage: an event is kept, and given to the one that waits for it, which does not
\* take it out.  A move is reported on its game's stream only.
Event(type, game) ==
  LET i == SelectInSeq(pendingEvents, LAMBDA e : e.game = game)
      awaited == message.pc = "wait" /\ type \in UNION Waiters
  IN
  /\ type = "moved" => follows = game
  /\ pendingEvents' = IF type = "moved" THEN pendingEvents
                      ELSE IF i = 0 THEN Append(pendingEvents, [game |-> game, types |-> <<type>>])
                      ELSE [pendingEvents EXCEPT ![i].types = Append(@, type)]
  /\ \/ /\ awaited
        /\ message' = Idle
        /\ leftover' = (leftover \ {type}) \cup
                       (IF message.kind = "move" THEN UNION Waiters \ {type} ELSE {})
        /\ \/ message.kind = "start" /\ AfterStart(type, game)
           \/ /\ message.kind = "move" /\ AfterMove(type)
              /\ kept' = IF type = "moved" THEN kept + 1 ELSE kept
     \/ /\ ~awaited
        /\ leftover' = leftover \ {type}
        /\ kept' = IF type = "moved" THEN kept + 1 ELSE kept
        /\ UNCHANGED <<activeGameId, message, follows, wrong>>

\* The wait ends without an event: the client is told of the start or the move all the same.
WaitEnds ==
  /\ message.pc = "wait"
  /\ message' = Idle
  /\ \/ message.kind = "start" /\ Follow(activeGameId)
     \/ message.kind = "move" /\ UNCHANGED <<follows, kept>>
  /\ UNCHANGED <<activeGameId, asked, moves, pendingEvents, leftover, accepted, live, wrong>>

\* A waiter that lost its race times out, and takes an event out of its stream if there is
\* one; for a move, that may be the stream of an earlier game.
LeftoverEnds(type) ==
  /\ leftover' = leftover \ {type}
  /\ pendingEvents' = Without(pendingEvents, {type})
  /\ kept' \in IF type = "moved" /\ kept > 0 THEN {kept, kept - 1} ELSE {kept}
  /\ UNCHANGED <<activeGameId, message, asked, moves, follows, accepted, live, wrong>>

\* External: the chain executes a transaction; its event arrives, or is lost with the stream.
Execute ==
  /\ accepted # <<>>
  /\ accepted' = Tail(accepted)
  /\ LET tx == Head(accepted) IN
     \E type \in IF tx.kind = "start" THEN {"started", "error"}
                 ELSE IF tx.game \in live THEN {"moved", "completed"} ELSE {"error"} :
       /\ live' = CASE type = "started" -> live \cup {tx.game}
                    [] type = "completed" -> live \ {tx.game}
                    [] OTHER -> live
       /\ \/ Event(type, tx.game)
          \/ UNCHANGED <<activeGameId, message, pendingEvents, follows, kept, leftover, wrong>>
  /\ UNCHANGED <<asked, moves>>

Next ==
  \/ BeginStart \/ BeginMove \/ Submit \/ Rejected
  \/ WaitForStart \/ WaitForMove \/ WaitEnds \/ Execute
  \/ \E type \in leftover : LeftoverEnds(type)

Spec == Init /\ [][Next]_vars

-----------------------------------------------------------------------------

\* startGame: the game that a start is answered with, and that the following moves are
\* made in, is the one the chain started for it.
StartIsAnsweredWithItsGame == ~wrong
=============================================================================
