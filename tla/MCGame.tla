------------------------------- MODULE MCGame -------------------------------
(***************************************************************************)
(* Small instances of GameService and of GameScreens, checked in one run:  *)
(* `seat', who is the master; `buzzers', who buzzes; `answers', what is    *)
(* answered and graded; and with the page of one screen `shown', what it   *)
(* shows of a game, `changed', what it shows of a change of teams, and     *)
(* `live', that it shows a game that runs in the end.                      *)
(***************************************************************************)
EXTENDS GameScreens, GameServiceSession, TLC

CONSTANTS m1, m2, m3, s1, t1, t2, t3, u1, u2, right, other, loud

VARIABLE instance

\* m1 and m2 are two pages of one device, e.g. before and after it reconnected
Devices == m1 :> "phone" @@ m2 :> "phone" @@ m3 :> "tablet"

Playing    == [playing |-> TRUE, fullscreen |-> FALSE]
Fullscreen == [playing |-> TRUE, fullscreen |-> TRUE]
AllMedia   == {NoMedia, Playing, Fullscreen}
FirstPlays == [q \in Question |-> IF q = 0 THEN Fullscreen ELSE NoMedia]
BothAnswers == [q \in Question |-> {right, other}]

\* a game saved while a team had buzzed
Saved == {[game |-> [InitialGame(TRUE) EXCEPT !.question = LastQuestion, !.marked = {t1}],
           points |-> NoPoints]}

NoAnswerYet == game.logged = {} /\ game.activated = {}
\* what each instance leaves out
Within ==
  CASE instance = "seat" ->
         /\ open \subseteq MasterConn /\ teams \subseteq {t1, t2} /\ game.question = 0 /\ NoAnswerYet
         /\ game.media # Playing /\ points[t2] = 0 /\ points[t1] >= 0 /\ game.marked \subseteq {t1}
    [] instance = "buzzers" ->
         open \subseteq {m1} /\ t3 \notin teams \cup game.marked /\ NoAnswerYet /\ points = NoPoints
    [] instance = "answers" ->
         /\ open \subseteq {m1} /\ teams \subseteq {t1, t2} /\ game.question = 0
         /\ game.media # Playing /\ points[t2] = 0 /\ points[t1] >= 0
         /\ game.marked \subseteq {t1} /\ game.logged \subseteq {right}
    [] instance = "shown" ->
         /\ open \subseteq {m1, s1} /\ teams \subseteq {t1, t2} /\ game.question = 0
         /\ game.media # Playing /\ other \notin game.logged \cup game.activated /\ points[t2] = 0
    [] instance = "changed" ->
         /\ open \subseteq {m1, s1} /\ teams \subseteq {t1, t2, t3} /\ game.question = 0 /\ NoAnswerYet
         /\ points = NoPoints /\ game.media # Playing
    [] instance = "live" ->
         /\ open \subseteq {m1, s1} /\ teams \subseteq {u1, u2} /\ game.question = 0 /\ NoAnswerYet
         /\ points = NoPoints /\ game.media # Playing

HasScreen == instance \in {"shown", "changed", "live"}

MCInit ==
  /\ ScreensInit
  /\ instance \in {"seat", "buzzers", "answers", "shown", "changed", "live"}

MCNext ==
  /\ UNCHANGED instance
  /\ CASE ~HasScreen          -> Next /\ UNCHANGED <<inbox, view>>
       [] instance = "live"   -> \/ ServerStep /\ inbox[s1] = <<>>
                                 \/ PageReceives(s1) \/ PageConnects(s1) \/ PageRegisters(s1) \/ PageReloads(s1)
       [] OTHER               -> ScreensNext
  /\ Within'

\* Fairness of GameScreens, where liveness is asked for
allVars == <<world, instance>>
Live(step) == instance = "live" /\ UNCHANGED instance /\ step
MCSpec ==
  /\ MCInit /\ [][MCNext]_allVars
  /\ WF_allVars(Live(PageReceives(s1))) /\ WF_allVars(Live(PageConnects(s1)))
  /\ WF_allVars(Live(PageRegisters(s1))) /\ WF_allVars(Live(PageReloads(s1)))

\* A screen whose connection lasts shows the game that runs (GameScreens.ScreensShowRunningGame), in
\* the instance in which steps are fair.
RunningGameIsShown == instance = "live" => ScreensShowRunningGame

\* What the last step sent is never read again.
Server == <<automaton, seat, screens, play, autosave, boxHeld>>

\* Without what the pages do not depend on: whether the state is saved, the box, and the state
\* before, unless the master is lost.  A page's data and the packets on their way matter to
\* ScreensFollow by what they will amount to only, which a page's own step leaves as it is.
ServerAndUpcoming == <<state, IF state = "LOST_MASTER" THEN previous ELSE None, resumesRunningGame,
                       master, open, screens, play, [c \in ScreenConn |-> Upcoming(c)]>>

\* Where liveness is asked for, they matter as they are.
ServerAndPages == <<ServerAndUpcoming, inbox, view>>

Seen == <<instance, CASE ~HasScreen        -> Server
                      [] instance = "live" -> ServerAndPages
                      [] OTHER             -> ServerAndUpcoming>>
=============================================================================
