------------------------ MODULE GameServiceSession ------------------------
(***************************************************************************)
(* GameService implements GameSession: how the automaton's states, of      *)
(* which two remember what was before, stand for the phases of a game.     *)
(***************************************************************************)
EXTENDS GameService

\* that the game was started is known from the state it lost its master in, and from
\* resumesRunningGame once it has one again
WasStarted ==
  \/ state = "PLAYING"
  \/ state = "LOST_MASTER" /\ previous = "PLAYING"
  \/ resumesRunningGame

Phase == CASE state \in {"WAITING_FOR_MASTER", "WAITING_FOR_SETUP"} -> "none"
           [] state = "END" -> "over"
           [] isGameRunning /\ WasStarted -> "started"
           [] OTHER -> "ready"

Session == INSTANCE GameSession
  WITH Holder <- MasterConn, holder <- master, phase <- Phase,
       board <- <<questions, game, keypressLocked>>

\* Through all that devices and connections do, the server keeps the promise of GameSession: one
\* master at a time, who alone sets up, starts, scores and ends the game, and a game that stays as
\* it is while its master changes (onRegisterMasterPacket, onMasterConnectionDestroy).
ImplementsSession == Session!Spec
===========================================================================
