---------------------------- MODULE GameSession ----------------------------
(***************************************************************************)
(* What the game server promises of a game, whatever the devices and their *)
(* connections do: one seat for the master, who sets the game up, starts,  *)
(* scores and ends it; while nobody, or somebody else, has the seat the    *)
(* game stays as it is.  GameServiceSession shows that GameService keeps   *)
(* the promise.                                                            *)
(***************************************************************************)

CONSTANTS
  Holder,  \* who may have the seat
  None,    \* nobody
  Team

VARIABLES
  holder,  \* who has the seat
  phase,   \* of the game: "none", "ready", "started" or "over"
  teams,
  points,  \* of each team
  board    \* what is asked, answered and shown, and whether buzzers are locked

game == <<phase, teams, points, board>>
vars == <<holder, game>>

Emptied == phase' = "none" /\ teams' = {} /\ points' = [t \in Team |-> 0]

EnoughTeams == \E t, u \in teams' : t # u

Init ==
  /\ holder = None /\ phase = "none"
  /\ teams = {} /\ points = [t \in Team |-> 0]

----------------------------------------------------------------------------
(* The seat. *)

\* a game goes on without its master, unless it is over
GoesOn == IF phase = "over" THEN Emptied ELSE UNCHANGED game

Leave == holder # None /\ holder' = None /\ GoesOn

Join == holder = None /\ holder' \in Holder /\ UNCHANGED game

TakeOver == holder # None /\ holder' \in Holder \ {holder} /\ GoesOn

----------------------------------------------------------------------------
(* The game. *)

SetUp ==
  /\ holder # None /\ phase = "none" /\ phase' = "ready"
  /\ EnoughTeams
  /\ \A t \in Team \ teams' : points'[t] = 0
  /\ UNCHANGED holder

Start ==
  /\ holder # None /\ phase = "ready" /\ phase' = "started"
  /\ UNCHANGED <<holder, teams, points>>

\* buzzers and screens change the board only; teams that are removed lose their points
PlayOn ==
  /\ teams' # teams => holder # None /\ phase \in {"ready", "started"} /\ EnoughTeams
  /\ points' # points => holder # None /\ phase # "none"
  /\ \A t \in Team : points'[t] # points[t] => t \in teams
  /\ \A t \in teams \ teams' : points'[t] = 0
  /\ UNCHANGED <<holder, phase>>

End == holder # None /\ phase' = "over" /\ UNCHANGED <<holder, teams, points, board>>

Reset == holder # None /\ Emptied /\ UNCHANGED holder

----------------------------------------------------------------------------

Next == Leave \/ Join \/ TakeOver \/ SetUp \/ Start \/ PlayOn \/ End \/ Reset

Spec == Init /\ [][Next]_vars
=============================================================================
