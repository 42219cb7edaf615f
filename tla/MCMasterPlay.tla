---------------------------- MODULE MCMasterPlay ----------------------------
(***************************************************************************)
(* Three instances: the teams change while they are graded, two teams      *)
(* answer questions, and the user changes their points.                   *)
(***************************************************************************)
EXTENDS MasterPlay, TLC

CONSTANTS m1, u1, u2, u3, right, other, loud

VARIABLE instance

ThePhone == m1 :> "phone"
OnlyMedia == {NoMedia}
Silent == [q \in Question |-> NoMedia]
RightInBoth == [q \in Question |-> IF q = 0 THEN {right, other} ELSE {right}]

\* the teams differ in nothing
Swap == Permutations({u1, u2, u3})

\* what stays as it is in an instance
AnswersStay == pane'.sheet = None /\ copy'.game.question = 0
NoneAdded   == PointsIn(toServer') = {}
TeamsStay   == \A i \in DOMAIN toServer' : toServer'[i].type # "UPDATE_TEAMS"

\* bound: the points of an instance about them
FewPoints == \A t \in Team : {points'[t], copy'.points[t]} \subseteq -1 .. 1

MCInit == PlayInit /\ instance \in {"teams", "answers", "points"} /\ (instance # "teams" => Cardinality(teams) = 2)
MCNext ==
  /\ PlayNext
  /\ CASE instance = "teams"   -> AnswersStay /\ NoneAdded
       [] instance = "answers" -> TeamsStay /\ NoneAdded
       [] instance = "points"  -> TeamsStay /\ AnswersStay /\ FewPoints
  /\ UNCHANGED instance
MCSpec == MCInit /\ [][MCNext]_<<table, instance>>

\* where the user adds no points, nothing depends on them
WithoutPoints(q) ==
  [i \in DOMAIN q |-> CASE q[i].type = "TEAM_SET_POINTS" -> [q[i] EXCEPT !.total = 0]
                       [] q[i].type = "UPDATE_TEAMS"    -> [q[i] EXCEPT !.points = NoPoints]
                       [] OTHER                         -> q[i]]
Score == IF instance = "points" THEN <<points, copy, toMaster>>
         ELSE <<NoPoints, [copy EXCEPT !.points = NoPoints], WithoutPoints(toMaster)>>

V == <<game, teams, Score, keypressLocked, boxHeld, pane, toServer, crossed, instance>>
=============================================================================
