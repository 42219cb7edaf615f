----------------------------- MODULE MasterPlay -----------------------------
(***************************************************************************)
(* The game server together with the play page of its master (client/src/  *)
(* app/services/game.service.ts and shared/play-ui).  The page keeps its   *)
(* own copy of the game, which it changes at once when the user does       *)
(* something, and applies the server's packets to; its question pane keeps *)
(* what it shows of the answers, and the dialog that grades a team.        *)
(*                                                                         *)
(* The user can reach what is on top: a dialog, the sheet with what to do  *)
(* with an answer, or else the page.  Media are MediaShow's, the master's  *)
(* seat MasterPages'.                                                      *)
(***************************************************************************)
EXTENDS GameScreens

CONSTANTS
  Added,    \* what the buttons of a team add to its points
  Underway  \* bound: the packets on their way when the user does something, or a buzzer is pressed

ASSUME UnderwayAssumption == Underway \in Nat /\ Added \subseteq Int

VARIABLES
  copy,      \* what GameService (client) keeps of the game
  pane,      \* what the question pane keeps
  toServer,  \* the packets on their way from the page
  toMaster,  \* and to it
  crossed    \* history: the teams whose points were last set at one end while others were on their way from the other

desk == <<copy, pane, toServer, toMaster, crossed>>
table == <<world, desk>>

PlayPageTypeOK ==
  /\ copy \in [status : {"shown"}, teams : SUBSET Team, points : [Team -> Points], game : Game]
  /\ pane.logged \subseteq Answer /\ pane.activated \subseteq Answer
  /\ pane.dialog \in Team \cup {None} /\ pane.offered \subseteq Answer
  /\ crossed \subseteq Team

----------------------------------------------------------------------------
(* The question pane. *)

OptionsAt(g) == OptionsOf[g.question]

\* reset: every question starts with none of its answers found
CorrectOf(g) == Cardinality(OptionsAt(g) \cap CorrectAnswer)
ResetPane(p, g) == [p EXCEPT !.logged = {}, !.activated = {}, !.left = CorrectOf(g)]

\* the answers that can be picked as the one a team gave, as the dialog opens
getGradeAnswerOptions(p, g) == OptionsAt(g) \ p.activated

closeGradeDialog(p) == [p EXCEPT !.dialog = None, !.offered = {}, !.confirms = FALSE]

\* a team that buzzed is asked: `put off' is history, what became of the dialog
openGradeDialog(p, v, t) ==
  IF t \in v.teams
  THEN [p EXCEPT !.dialog = t, !.offered = getGradeAnswerOptions(p, v.game), !.confirms = FALSE, !.putOff = FALSE]
  ELSE p

TheMarked(g) == CHOOSE t \in g.marked : TRUE
OneBuzzed(g) == g.lock /\ Cardinality(g.marked) = 1

\* the answers that the game knows of are shown
restoreQuestionProgress(p, g) ==
  LET found == OptionsAt(g) \cap g.activated
  IN  [p EXCEPT !.logged = OptionsAt(g) \cap g.logged, !.activated = found,
                !.left = @ - Cardinality(found \cap CorrectAnswer)]

\* the dialog for the team that buzzed opens before that, with every answer
ngOnInit(v) ==
  LET new == [logged |-> {}, activated |-> {}, left |-> CorrectOf(v.game),
              dialog |-> None, offered |-> {}, confirms |-> FALSE, putOff |-> FALSE,
              sheet |-> None, picked |-> FALSE, asks |-> None]
  IN  restoreQuestionProgress(IF OneBuzzed(v.game) THEN openGradeDialog(new, v, TheMarked(v.game)) ELSE new, v.game)

\* activateAnswer of one answer after the other, without what it sends: it does not look whether
\* an answer is activated already
Activated(p, answers) ==
  [p EXCEPT !.logged = @ \ answers, !.activated = @ \cup answers,
            !.left = @ - Cardinality(answers \cap CorrectAnswer)]

handleAnswerSetState(p, g, m) == Activated(p, m.answers \cap OptionsAt(g))

handleMarkTeam_NotOverDialogs(p, v, m) ==
  IF m.unmarkAll THEN closeGradeDialog(p)
  ELSE IF m.mark /\ p.dialog = None /\ p.asks = None THEN openGradeDialog(p, v, m.team) ELSE p
handleMarkTeam(p, v, m) ==
  IF m.unmarkAll \/ (~m.mark /\ m.team = p.dialog) THEN closeGradeDialog(p)
  ELSE IF m.mark THEN openGradeDialog(p, v, m.team) ELSE p

\* the pane's part in what the page does with a packet, of which the copy has become v
PaneAfter(p, v, m) ==
  CASE m.type = "MARK_TEAM"        -> handleMarkTeam(p, v, m)
    [] m.type = "ANSWER_SET_STATE" -> handleAnswerSetState(p, v.game, m)
    [] OTHER                       -> p

----------------------------------------------------------------------------
(* What the user does. *)

send(packets) == toServer' = toServer \o packets

OnTop == IF pane.dialog # None THEN IF pane.confirms THEN "confirm" ELSE "dialog"
         ELSE IF pane.asks # None THEN "asks" ELSE IF pane.sheet # None THEN "sheet" ELSE "page"

Few == Len(toServer) + Len(toMaster) <= Underway

Uses(layer) == OnTop = layer /\ Few /\ UNCHANGED <<world, toMaster>>

\* the teams whose points are in some packets
PointsIn(q) == {t \in Team : \E i \in DOMAIN q : q[i].type = "TEAM_SET_POINTS" /\ q[i].team = t}
ScoresIn(q) == IF \E i \in DOMAIN q : q[i].type = "UPDATE_TEAMS" THEN Team ELSE PointsIn(q)

addPoints(t, n) ==
  /\ Uses("page")
  /\ t \in copy.teams /\ copy.points[t] + n \in Points
  /\ copy' = [copy EXCEPT !.points[t] = @ + n]
  /\ send(<<PointsPacket(t, copy.points[t] + n)>>)
  /\ crossed' = IF t \in ScoresIn(toMaster) THEN crossed \cup {t} ELSE crossed \ {t}
  /\ UNCHANGED pane

\* resetQuestionProgress
AtQuestion(g, q) == [g EXCEPT !.question = q, !.welcome = FALSE, !.marked = {}, !.logged = {}, !.activated = {}]

GoesTo_KeepsAnswers(q) ==
  /\ copy' = [copy EXCEPT !.game = AtQuestion(@, q)]
  /\ UNCHANGED pane
  /\ send(<<UnmarkAllPacket, SetQuestionPacket(q)>>)
GoesTo(q) ==
  /\ copy' = [copy EXCEPT !.game = AtQuestion(@, q)]
  /\ pane' = ResetPane(pane, copy'.game)
  /\ send(<<UnmarkAllPacket, SetQuestionPacket(q)>>)

hasNextQuestion     == copy.game.question < LastQuestion
hasPreviousQuestion == copy.game.question > 0

getNextQuestion ==
  /\ Uses("page") /\ ~copy.game.welcome /\ hasNextQuestion
  /\ GoesTo(copy.game.question + 1)
getPreviousQuestion ==
  /\ Uses("page") /\ ~copy.game.welcome /\ hasPreviousQuestion
  /\ GoesTo(copy.game.question - 1)

beginGame ==
  /\ Uses("page") /\ copy.game.welcome
  /\ copy' = [copy EXCEPT !.game = AtQuestion(@, 0)]
  /\ pane' = ResetPane(pane, copy'.game)
  /\ send(<<SetQuestionPacket(0)>>)

onClickAnswer(a) ==
  /\ Uses("page") /\ ~copy.game.welcome
  /\ a \in OptionsAt(copy.game) \ pane.activated /\ pane.left # 0
  /\ pane' = [pane EXCEPT !.sheet = a, !.picked = a \in pane.logged]
  /\ UNCHANGED <<copy, toServer>>

\* the server does not send these back, so the copy keeps track of them
sendAnswerSetStatePacket(g, s, a) ==
  /\ copy' = [copy EXCEPT !.game = ApplyAnswers(g, s, {a})]
  /\ send(<<AnswersPacket(s, {a})>>)

\* logInAnswer and logOutAnswer, or none of them
LogsAnswer ==
  /\ Uses("sheet")
  /\ LET a == pane.sheet
         s == IF pane.picked THEN "LOG_OUT" ELSE "LOG_IN"
     IN  /\ sendAnswerSetStatePacket(copy.game, s, a)
         /\ pane' = [pane EXCEPT !.sheet = None, !.picked = FALSE, !.logged = IF pane.picked THEN @ \ {a} ELSE @ \cup {a}]
LeavesAnswer == Uses("sheet") /\ pane' = [pane EXCEPT !.sheet = None, !.picked = FALSE] /\ UNCHANGED <<copy, toServer>>

\* with correct answers left, the buzzers are released for them
ActivatesAnswer_FreesAlways ==
  /\ Uses("sheet")
  /\ LET a      == pane.sheet
         after  == Activated(pane, {a})
         frees  == a \in CorrectAnswer /\ after.left # 0
         answer == <<AnswersPacket("ACTIVATE", {a})>>
     IN  /\ pane' = [after EXCEPT !.sheet = None, !.picked = FALSE]
         /\ copy' = [copy EXCEPT !.game = [ApplyAnswers(@, "ACTIVATE", {a}) EXCEPT !.lock = FALSE]]
         /\ send(IF frees THEN <<UnmarkAllPacket, BuzzerLockPacket(FALSE)>> \o answer ELSE answer)
ActivatesAnswer ==
  /\ Uses("sheet")
  /\ LET a      == pane.sheet
         after  == Activated(pane, {a})
         frees  == a \in CorrectAnswer /\ after.left # 0
         answer == <<AnswersPacket("ACTIVATE", {a})>>
     IN  /\ pane' = [after EXCEPT !.sheet = None, !.picked = FALSE]
         /\ copy' = [copy EXCEPT !.game = [ApplyAnswers(copy.game, "ACTIVATE", {a}) EXCEPT !.lock = @ /\ ~frees]]
         /\ send(IF frees THEN <<UnmarkAllPacket, BuzzerLockPacket(FALSE)>> \o answer ELSE answer)

\* a picked answer decides the grade
isAllowed(result, a) == IF a = None THEN TRUE ELSE a \in CorrectAnswer <=> result # "WRONG"

GradeRequest(t, result, a) == [type |-> "GRADE_ANSWER", team |-> t, result |-> result, answer |-> a]

gradeAnswer(result, a) ==
  /\ Uses("dialog")
  /\ a \in pane.offered \cup {None} /\ isAllowed(result, a)
  /\ result = "DOUBLE" => DoubleWorth > 0
  /\ pane' = [closeGradeDialog(pane) EXCEPT !.putOff = TRUE]
  /\ send(<<GradeRequest(pane.dialog, result, a)>>)
  /\ UNCHANGED copy

PutsOffGrading ==
  /\ Uses("dialog")
  /\ pane' = [closeGradeDialog(pane) EXCEPT !.putOff = TRUE]
  /\ UNCHANGED <<copy, toServer>>

releaseBuzzerLock == send(<<BuzzerLockPacket(FALSE)>>)

releaseWithoutGrade == Uses("dialog") /\ pane' = [pane EXCEPT !.confirms = TRUE] /\ UNCHANGED <<copy, toServer>>
ConfirmsWithoutGrade(confirmed) ==
  /\ Uses("confirm")
  /\ pane' = IF confirmed THEN [closeGradeDialog(pane) EXCEPT !.putOff = TRUE] ELSE [pane EXCEPT !.confirms = FALSE]
  /\ IF confirmed THEN releaseBuzzerLock ELSE UNCHANGED toServer
  /\ UNCHANGED copy

\* the buttons of BuzzerLockComponent
reopenGradeDialog ==
  /\ Uses("page") /\ ~copy.game.welcome /\ OneBuzzed(copy.game)
  /\ pane' = openGradeDialog(pane, copy, TheMarked(copy.game))
  /\ UNCHANGED <<copy, toServer>>

\* release asks first if the buzzers are locked, and the answer counts if nothing changed meanwhile
release ==
  /\ Uses("page") /\ ~copy.game.welcome
  /\ IF copy.game.lock THEN pane' = [pane EXCEPT !.asks = [marked |-> copy.game.marked]] /\ UNCHANGED toServer
                       ELSE releaseBuzzerLock /\ UNCHANGED pane
  /\ UNCHANGED copy
ConfirmsRelease(confirmed) ==
  /\ Uses("asks")
  /\ pane' = [pane EXCEPT !.asks = None]
  /\ IF confirmed /\ copy.game.lock /\ copy.game.marked = pane.asks.marked
     THEN releaseBuzzerLock ELSE UNCHANGED toServer
  /\ UNCHANGED copy

\* DialogTeams offers at least two teams on one kind of buzzer
updateTeams(ts) ==
  /\ Uses("page") /\ TeamsOk(ts) /\ ts # copy.teams
  /\ send(<<TeamsPacket(ts, copy.points)>>)
  /\ UNCHANGED <<copy, pane>>
----------------------------------------------------------------------------
(* Packets, the server, the buzzers, and a page that is loaded again. *)

PageReceivesPacket ==
  /\ toMaster # <<>>
  /\ copy' = OnShownPage(copy, Head(toMaster))
  /\ pane' = PaneAfter(pane, copy', Head(toMaster))
  /\ toMaster' = Tail(toMaster)
  /\ UNCHANGED <<world, toServer, crossed>>

\* the server's handler of a packet
Handles(m) ==
  CASE m.type = "TEAM_SET_POINTS"  -> TeamSetPoints(m.team, m.total)
    [] m.type = "MARK_TEAM"        -> UnmarkAllTeams
    [] m.type = "ANSWER_SET_STATE" -> \E a \in m.answers : AnswerSetState(m.answerState, a)
    [] m.type = "SET_QUESTION"     -> SetQuestion(m.set)
    [] m.type = "SET_BUZZER_LOCK"  -> SetBuzzerLock(m.setLock)
    [] m.type = "UPDATE_TEAMS"     -> UpdateTeams(m.teams)
    [] m.type = "GRADE_ANSWER" /\ m.team \in teams    -> GradeAnswer(m.team, m.result, m.answer, TRUE)
    [] m.type = "GRADE_ANSWER" /\ m.team \notin teams -> IgnorePacket

Answers == toMaster' = toMaster \o sent'[master] /\ UNCHANGED <<inbox, view>>

ServerHandles ==
  /\ toServer # <<>>
  /\ Handles(Head(toServer)) /\ Answers
  /\ toServer' = Tail(toServer)
  /\ crossed' = LET scores == ScoresIn(sent'[master])
                IN  (crossed \ scores) \cup (scores \cap PointsIn(toServer'))
  /\ UNCHANGED <<copy, pane>>

Pressed ==
  /\ Few
  /\ Buzzers /\ Answers
  /\ UNCHANGED <<copy, pane, toServer, crossed>>

\* The connection is lost, or the page loaded again: it registers, gets the game and starts it,
\* which goes on (MasterPages).
Served == setGameData(teams, points, game)
PageIsLoaded ==
  /\ copy' = Served /\ pane' = ngOnInit(Served)
  /\ toServer' = <<>> /\ toMaster' = <<>> /\ crossed' = {}
  /\ UNCHANGED world

\* a game that was just started, new or not
PlayInit ==
  /\ state = "PLAYING" /\ previous = "WAITING_FOR_START"
  /\ master \in MasterConn /\ token = master /\ lastMasterId = DeviceOf[master]
  /\ open = {master} /\ screens = {}
  /\ teams \in {ts \in SUBSET Team : TeamsOk(ts)} /\ points = NoPoints
  /\ questions = LastQuestion + 1
  /\ \E new \in BOOLEAN : game = [InitialGame(new) EXCEPT !.welcome = new]
  /\ keypressLocked = game.lock
  /\ resumesRunningGame = FALSE /\ gameFinished = FALSE /\ started = TRUE
  /\ autosave = "off" /\ boxHeld = FALSE
  /\ sent = [c \in Conn |-> <<>>] /\ inbox = [c \in ScreenConn |-> <<>>] /\ view = [c \in ScreenConn |-> BlankPage]
  /\ copy = Served /\ pane = ngOnInit(Served)
  /\ toServer = <<>> /\ toMaster = <<>> /\ crossed = {}

UserSetsNoPoints ==
  \/ getNextQuestion \/ getPreviousQuestion \/ beginGame
  \/ \E a \in Answer : onClickAnswer(a)
  \/ LogsAnswer \/ LeavesAnswer \/ ActivatesAnswer
  \/ \E r \in {"RIGHT", "DOUBLE", "WRONG"}, a \in Answer \cup {None} : gradeAnswer(r, a)
  \/ PutsOffGrading \/ releaseWithoutGrade \/ reopenGradeDialog \/ release
  \/ \E confirmed \in BOOLEAN : ConfirmsWithoutGrade(confirmed) \/ ConfirmsRelease(confirmed)
  \/ \E ts \in SUBSET Team : updateTeams(ts)

UserDoes ==
  \/ \E t \in Team, n \in Added : addPoints(t, n)
  \/ UserSetsNoPoints /\ UNCHANGED crossed

PlayNext == UserDoes \/ PageReceivesPacket \/ ServerHandles \/ Pressed \/ PageIsLoaded

PlaySpec == PlayInit /\ [][PlayNext]_table

----------------------------------------------------------------------------
(* What must hold. *)

Quiet == toServer = <<>> /\ toMaster = <<>>

\* Once nothing is on its way, the master's own copy agrees with the server's game, whatever the
\* user did while teams buzzed: it shows the same teams, question and lock, the same points of every
\* team for which the user's and the server's have not crossed (addPoints, onGradeAnswerPacket: the
\* page then keeps the server's, and the server the user's, until they are set again), and no answer
\* that the server does not log in, and it misses no mark and no answer that is revealed (what the
\* page changes by itself, and the packets the server does not send back, sendAnswerSetStatePacket).
MasterShowsTheGame ==
  Quiet =>
    /\ copy.teams = teams /\ \A t \in Team \ crossed : copy.points[t] = points[t]
    /\ copy.game.question = game.question /\ copy.game.welcome = game.welcome
    /\ copy.game.lock = game.lock
    /\ game.marked \subseteq copy.game.marked /\ game.activated \subseteq copy.game.activated
    /\ copy.game.logged \subseteq game.logged

\* A team that buzzed is asked for its answer, also after a dialog for another team, another
\* question or a reload, unless the user graded it or put that off (handleMarkTeamPacket, ngOnInit).
BuzzedTeamIsAsked ==
  Quiet /\ OneBuzzed(game) => pane.dialog \in game.marked \/ pane.putOff

\* What the pane shows of the answers is what it would show if the page was loaded again
\* (restoreQuestionProgress), through questions that change while a grade is answered.
PaneShowsCopy ==
  LET again == ngOnInit(copy)
  IN  pane.logged = again.logged /\ pane.activated = again.activated

\* `correctAnswersThatAreLeft' counts the correct answers that are left: the master is told that
\* all are revealed, and cannot reveal more, once there are none (activateAnswer, onClickAnswer).
LeftIsCounted ==
  Cardinality((OptionsAt(copy.game) \cap CorrectAnswer) \ pane.activated) = pane.left

=============================================================================
