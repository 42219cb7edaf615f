------------------------- MODULE GameServiceProofs -------------------------
(***************************************************************************)
(* What holds of the game server for any connections, devices, teams,      *)
(* questions and answers, and that it implements GameSession.              *)
(***************************************************************************)
EXTENDS GameServiceSession, TLAPS

----------------------------------------------------------------------------
(* The game's record. *)

LEMMA VolumeLemma == DefaultVolume \in Volume
  BY DataAssumption DEF DefaultVolume

LEMMA QuestionLemma == 0 \in Question /\ 0 \in Points
  BY DataAssumption DEF Question, Points

\* A new game is one (makeInitialGameState).
LEMMA InitialGameLemma ==
  ASSUME NEW b \in BOOLEAN
  PROVE  InitialGame(b) \in Game /\ InitialGame(b).lock = b
  BY VolumeLemma, QuestionLemma, DataAssumption DEF InitialGame, Game

\* Changing some of a game's fields leaves it a game.
LEMMA ReleasedLemma ==
  ASSUME NEW g \in Game
  PROVE  Released(g) \in Game /\ Released(g).lock = FALSE
  BY DEF Released, Game

LEMMA ApplyAnswersLemma ==
  ASSUME NEW g \in Game, NEW s, NEW as \in SUBSET Answer
  PROVE  ApplyAnswers(g, s, as) \in Game /\ ApplyAnswers(g, s, as).lock = g.lock
  BY DEF ApplyAnswers, Game

\* The game that is played, and that the lock everyone is told of is the one that counts.
PlayInv == PlayTypeOK /\ LockAgrees

----------------------------------------------------------------------------
(* What the parts of the handlers make of the game. *)

LEMMA ResetServerDataLemma ==
  ASSUME ResetServerData
  PROVE  PlayInv'
  BY InitialGameLemma, QuestionLemma, DataAssumption
     DEF PlayInv, PlayTypeOK, LockAgrees, ResetServerData, FreeBuzzers, NoPoints

LEMMA FreeBuzzersLemma ==
  ASSUME PlayInv, NEW g \in Game, game' = Released(g), FreeBuzzers,
         UNCHANGED <<teams, points, questions>>
  PROVE  PlayInv'
  BY ReleasedLemma DEF PlayInv, PlayTypeOK, LockAgrees, FreeBuzzers

LEMMA LockOnTeamLemma ==
  ASSUME PlayInv, NEW t \in Team, LockOnTeam(t), UNCHANGED <<teams, points, questions>>
  PROVE  PlayInv'
<1> DEFINE paused == [playing |-> game.media.playing /\ (questions = 0 \/ game.question \notin Playable),
                      fullscreen |-> FALSE]
<1>1. game.media \in Media /\ game.media.playing \in BOOLEAN
  BY DataAssumption DEF PlayInv, PlayTypeOK, Game
<1>2. paused \in Media
  BY <1>1, DataAssumption
<1>3. /\ keypressLocked' = TRUE
      /\ game' = [game EXCEPT !.lock = TRUE, !.marked = @ \cup {t}, !.media = paused]
  BY DEF LockOnTeam
<1>4. game' \in Game /\ game'.lock = TRUE
  BY <1>2, <1>3 DEF PlayInv, PlayTypeOK, Game
<1> QED
  BY <1>3, <1>4 DEF PlayInv, PlayTypeOK, LockAgrees

LEMMA FirstMediaLemma ==
  ASSUME PlayInv
  PROVE  FirstMedia \in Media
<1>1. game.media \in Media /\ game.question \in Question
  BY DEF PlayInv, PlayTypeOK, Game
<1>2. InitialMedia[game.question] \in Media /\ NoMedia \in Media
  BY <1>1, DataAssumption
<1> QED
  BY <1>1, <1>2 DEF FirstMedia

LEMMA GameToSetUpLemma ==
  ASSUME PlayInv, NEW ts \in SUBSET Team, NEW saved \in SavedGame \cup {None}, NEW isNew \in BOOLEAN
  PROVE  GameToSetUp(ts, saved, isNew) \in Game /\ GameToSetUp(ts, saved, isNew).lock = keypressLocked
<1>1. keypressLocked \in BOOLEAN
  BY DEF PlayInv, PlayTypeOK
<1>2. CASE saved = None
  BY <1>1, <1>2, InitialGameLemma DEF GameToSetUp, Game
<1>3. CASE saved # None
  <2>1. saved.game \in Game
    BY <1>3, DataAssumption
  <2> QED
    BY <1>1, <1>3, <2>1 DEF GameToSetUp, Game
<1> QED
  BY <1>2, <1>3

----------------------------------------------------------------------------
(* What each handler makes of it. *)

LEMMA SetupGamePlay ==
  ASSUME PlayInv, NEW ts \in SUBSET Team, NEW saved \in SavedGame \cup {None},
         NEW stored \in BOOLEAN, NEW isNew \in BOOLEAN, SetupGame(ts, saved, stored, isNew)
  PROVE  PlayInv'
<1>1. CASE TeamsOk(ts)
  <2>1. game' \in Game /\ game'.lock = keypressLocked'
    BY <1>1, GameToSetUpLemma DEF SetupGame
  <2>2. points' \in [Team -> Points]
    <3>1. points' = [t \in Team |-> IF saved = None \/ t \notin ts THEN 0 ELSE saved.points[t]]
      BY <1>1 DEF SetupGame
    <3>2. saved # None => saved.points \in [Team -> Points]
      BY DataAssumption
    <3> QED
      BY <3>1, <3>2, QuestionLemma
  <2> QED
    BY <1>1, <2>1, <2>2 DEF PlayInv, PlayTypeOK, LockAgrees, SetupGame
<1>2. CASE ~TeamsOk(ts)
  BY <1>2 DEF PlayInv, PlayTypeOK, LockAgrees, SetupGame
<1> QED
  BY <1>1, <1>2

LEMMA StartGamePlay ==
  ASSUME PlayInv, StartGame
  PROVE  PlayInv'
<1> DEFINE locks == game.welcome /\ ~resumesRunningGame
<1>1. /\ keypressLocked' = (locks \/ keypressLocked)
      /\ game' = [game EXCEPT !.lock = locks \/ @, !.media = FirstMedia]
      /\ UNCHANGED <<teams, points, questions>>
  BY DEF StartGame
<1>2. (locks \/ keypressLocked) \in BOOLEAN /\ game.lock = keypressLocked
  BY DEF PlayInv, PlayTypeOK, LockAgrees
<1>3. game' \in Game /\ game'.lock = keypressLocked'
  BY <1>1, <1>2, FirstMediaLemma DEF PlayInv, PlayTypeOK, Game
<1> QED
  BY <1>1, <1>2, <1>3 DEF PlayInv, PlayTypeOK, LockAgrees

LEMMA TeamSetPointsPlay ==
  ASSUME PlayInv, NEW t \in Team, NEW p \in Points, TeamSetPoints(t, p)
  PROVE  PlayInv'
  BY DEF PlayInv, PlayTypeOK, LockAgrees, TeamSetPoints

LEMMA GradeAnswerPlay ==
  ASSUME PlayInv, NEW t \in Team, NEW result, NEW a \in Answer \cup {None}, NEW reveal,
         GradeAnswer(t, result, a, reveal)
  PROVE  PlayInv'
<1> DEFINE total    == points[t] + PointsChange(result)
           shown    == CASE a \in Options -> {a}
                         [] a \notin Options /\ ~(result = "WRONG") /\ reveal -> Options \cap CorrectAnswer
                         [] OTHER -> {}
           revealed == shown \ game.activated
           graded   == ApplyAnswers(game, "ACTIVATE", revealed)
<1>1. Options \subseteq Answer
  BY DataAssumption DEF PlayInv, PlayTypeOK, Game, Options
<1>2. revealed \in SUBSET Answer
  BY <1>1
<1>3. graded \in Game /\ graded.lock = keypressLocked
  BY <1>2, ApplyAnswersLemma DEF PlayInv, PlayTypeOK, LockAgrees
<1>4. points' \in [Team -> Points] /\ UNCHANGED <<teams, questions>>
  BY DEF GradeAnswer, PlayInv, PlayTypeOK
<1>5. CASE result = "WRONG"
  <2>1. game' = Released(graded) /\ FreeBuzzers
    BY <1>5 DEF GradeAnswer
  <2>2. game' \in Game /\ game'.lock = FALSE
    BY <1>3, <2>1, ReleasedLemma
  <2> QED
    BY <1>4, <2>1, <2>2 DEF PlayInv, PlayTypeOK, LockAgrees, FreeBuzzers
<1>6. CASE result # "WRONG"
  <2>1. game' = graded /\ UNCHANGED keypressLocked
    BY <1>6 DEF GradeAnswer
  <2> QED
    BY <1>3, <1>4, <2>1 DEF PlayInv, PlayTypeOK, LockAgrees
<1> QED
  BY <1>5, <1>6

LEMMA UpdateTeamsPlay ==
  ASSUME PlayInv, NEW ts \in SUBSET Team, UpdateTeams(ts)
  PROVE  PlayInv'
<1>1. CASE TeamsOk(ts)
  <2>1. teams' = ts /\ points' = PointsOf(ts) /\ UNCHANGED questions
    BY <1>1 DEF UpdateTeams
  <2>2. points' \in [Team -> Points]
    BY <2>1, QuestionLemma DEF PointsOf, PlayInv, PlayTypeOK
  <2>3. \/ game' = Released(game) /\ FreeBuzzers
        \/ UNCHANGED <<game, keypressLocked>>
    BY <1>1 DEF UpdateTeams
  <2>4. game' \in Game /\ game'.lock = keypressLocked' /\ keypressLocked' \in BOOLEAN
    BY <2>3, ReleasedLemma DEF PlayInv, PlayTypeOK, LockAgrees, FreeBuzzers
  <2> QED
    BY <2>1, <2>2, <2>4 DEF PlayInv, PlayTypeOK, LockAgrees
<1>2. CASE ~TeamsOk(ts)
  BY <1>2 DEF PlayInv, PlayTypeOK, LockAgrees, UpdateTeams
<1> QED
  BY <1>1, <1>2

LEMMA AnswerSetStatePlay ==
  ASSUME PlayInv, NEW a \in Answer, NEW s, AnswerSetState(s, a)
  PROVE  PlayInv'
<1> DEFINE answered == ApplyAnswers(game, s, {a})
<1>1. answered \in Game /\ answered.lock = keypressLocked
  BY ApplyAnswersLemma DEF PlayInv, PlayTypeOK, LockAgrees
<1>2. \/ game' = Released(answered) /\ FreeBuzzers
      \/ game' = answered /\ UNCHANGED keypressLocked
  BY DEF AnswerSetState
<1>3. game' \in Game /\ game'.lock = keypressLocked' /\ keypressLocked' \in BOOLEAN
  BY <1>1, <1>2, ReleasedLemma DEF PlayInv, PlayTypeOK, FreeBuzzers
<1> QED
  BY <1>3 DEF PlayInv, PlayTypeOK, LockAgrees, AnswerSetState

LEMMA SetQuestionPlay ==
  ASSUME PlayInv, NEW q \in Question, SetQuestion(q)
  PROVE  PlayInv'
<1> DEFINE asked == [game EXCEPT !.welcome = FALSE, !.lock = FALSE,
                                 !.question = IF questions = 0 THEN @ ELSE q,
                                 !.marked = {}, !.logged = {}, !.activated = {}]
<1>1. asked \in Game /\ asked.lock = FALSE
  BY DEF PlayInv, PlayTypeOK, Game
<1>2. game' = asked \/ game' = [asked EXCEPT !.media = InitialMedia[q]]
  BY DEF SetQuestion
<1>3. InitialMedia[q] \in Media
  BY DataAssumption
<1>4. game' \in Game /\ game'.lock = FALSE
  <2> HIDE DEF asked
  <2> QED
    BY <1>1, <1>2, <1>3 DEF Game
<1> QED
  BY <1>4 DEF PlayInv, PlayTypeOK, LockAgrees, SetQuestion, FreeBuzzers

LEMMA MarkTeamPlay ==
  ASSUME PlayInv, NEW t \in Team, NEW mark \in BOOLEAN, MarkTeam(t, mark)
  PROVE  PlayInv'
<1>1. game' \in Game /\ game'.lock = game.lock
  BY DEF PlayInv, PlayTypeOK, Game, MarkTeam
<1> QED
  BY <1>1 DEF PlayInv, PlayTypeOK, LockAgrees, MarkTeam

LEMMA UnmarkAllTeamsPlay ==
  ASSUME PlayInv, UnmarkAllTeams
  PROVE  PlayInv'
<1>1. game' \in Game /\ game'.lock = game.lock
  BY DEF PlayInv, PlayTypeOK, Game, UnmarkAllTeams
<1> QED
  BY <1>1 DEF PlayInv, PlayTypeOK, LockAgrees, UnmarkAllTeams

LEMMA SetBuzzerLockPlay ==
  ASSUME PlayInv, NEW setLock \in BOOLEAN, SetBuzzerLock(setLock)
  PROVE  PlayInv'
<1>1. CASE setLock
  <2>1. keypressLocked' = TRUE /\ game' = [game EXCEPT !.lock = TRUE]
    BY <1>1 DEF SetBuzzerLock
  <2>2. game' \in Game /\ game'.lock = TRUE
    BY <2>1 DEF PlayInv, PlayTypeOK, Game
  <2> QED
    BY <2>1, <2>2 DEF PlayInv, PlayTypeOK, LockAgrees, SetBuzzerLock
<1>2. CASE ~setLock
  <2>1. game \in Game
    BY DEF PlayInv, PlayTypeOK
  <2>2. FreeBuzzers /\ game' = Released(game) /\ UNCHANGED <<teams, points, questions>>
    BY <1>2 DEF SetBuzzerLock
  <2> QED
    BY <2>1, <2>2, FreeBuzzersLemma
<1> QED
  BY <1>1, <1>2

LEMMA SetMediaVolumePlay ==
  ASSUME PlayInv, NEW v \in Volume, SetMediaVolume(v)
  PROVE  PlayInv'
<1>1. game' \in Game /\ game'.lock = game.lock
  BY DEF PlayInv, PlayTypeOK, Game, SetMediaVolume
<1> QED
  BY <1>1 DEF PlayInv, PlayTypeOK, LockAgrees, SetMediaVolume

LEMMA UpdateMediaStatePlay ==
  ASSUME PlayInv, NEW m \in Media, UpdateMediaState(m)
  PROVE  PlayInv'
<1>1. game' \in Game /\ game'.lock = game.lock
  BY DEF PlayInv, PlayTypeOK, Game, UpdateMediaState
<1> QED
  BY <1>1 DEF PlayInv, PlayTypeOK, LockAgrees, UpdateMediaState

LEMMA ReleasePlay ==
  ASSUME PlayInv, KeypressRelease \/ SerialRelease
  PROVE  PlayInv'
<1>1. game \in Game
  BY DEF PlayInv, PlayTypeOK
<1>2. FreeBuzzers /\ game' = Released(game) /\ UNCHANGED <<teams, points, questions>>
  BY DEF KeypressRelease, SerialRelease
<1> QED
  BY <1>1, <1>2, FreeBuzzersLemma

LEMMA PressPlay ==
  ASSUME PlayInv, NEW t \in Team, KeypressTeam(t) \/ SerialPress(t)
  PROVE  PlayInv'
<1>1. UNCHANGED <<teams, points, questions>>
  BY DEF KeypressTeam, SerialPress
<1>2. CASE LockOnTeam(t)
  BY <1>1, <1>2, LockOnTeamLemma
<1>3. CASE UNCHANGED <<game, keypressLocked>>
  BY <1>1, <1>3 DEF PlayInv, PlayTypeOK, LockAgrees
<1> QED
  BY <1>2, <1>3 DEF KeypressTeam, SerialPress

LEMMA UdpBuzzerPressPlay ==
  ASSUME PlayInv, NEW pressed, UdpBuzzerPress(pressed)
  PROVE  PlayInv'
<1>1. PICK i \in DOMAIN pressed : pressed[i] \in teams /\ LockOnTeam(pressed[i])
  BY DEF UdpBuzzerPress
<1>2. pressed[i] \in Team
  BY <1>1 DEF PlayInv, PlayTypeOK
<1>3. UNCHANGED <<teams, points, questions>>
  BY DEF UdpBuzzerPress
<1> QED
  BY <1>1, <1>2, <1>3, LockOnTeamLemma

\* The game outlives everything else, or it is reset.
LEMMA UnchangedPlay ==
  ASSUME PlayInv, UNCHANGED play
  PROVE  PlayInv'
  BY DEF PlayInv, PlayTypeOK, LockAgrees, play

LEMMA ConnectionsPlay ==
  ASSUME PlayInv, Connections
  PROVE  PlayInv'
<1>1. CASE UNCHANGED play
  BY <1>1, UnchangedPlay
<1>2. CASE ResetServerData
  BY <1>2, ResetServerDataLemma
<1> QED
  BY <1>1, <1>2 DEF Connections, Connect, CloseOther, CloseMaster, RegisterMaster, RefuseMaster,
     RegisterAgain, TakeOver, RegisterScreen

LEMMA SetupPlay ==
  ASSUME PlayInv, Setup
  PROVE  PlayInv'
<1>1. CASE \E ts \in SUBSET Team, saved \in SavedGame \cup {None}, stored, isNew \in BOOLEAN :
             SetupGame(ts, saved, stored, isNew)
  BY <1>1, SetupGamePlay
<1>2. CASE \E ts \in SUBSET Team : UpdateTeams(ts)
  BY <1>2, UpdateTeamsPlay
<1>3. CASE StartGame
  BY <1>3, StartGamePlay
<1>4. CASE StartGameRefused \/ EndGame
  BY <1>4, UnchangedPlay DEF StartGameRefused, EndGame
<1>5. CASE ResetServer
  BY <1>5, ResetServerDataLemma DEF ResetServer
<1> QED
  BY <1>1, <1>2, <1>3, <1>4, <1>5 DEF Setup

LEMMA PlayPlay ==
  ASSUME PlayInv, Play
  PROVE  PlayInv'
<1>1. CASE \E t \in Team, p \in Points : TeamSetPoints(t, p)
  BY <1>1, TeamSetPointsPlay
<1>2. CASE \E t \in Team, r \in {"RIGHT", "DOUBLE", "WRONG"}, a \in Answer \cup {None}, reveal \in BOOLEAN :
             GradeAnswer(t, r, a, reveal)
  BY <1>2, GradeAnswerPlay
<1>3. CASE \E t \in Team, mark \in BOOLEAN : MarkTeam(t, mark)
  BY <1>3, MarkTeamPlay
<1>4. CASE UnmarkAllTeams
  BY <1>4, UnmarkAllTeamsPlay
<1>5. CASE \E a \in Answer, s \in {"LOG_IN", "LOG_OUT", "ACTIVATE"} : AnswerSetState(s, a)
  BY <1>5, AnswerSetStatePlay
<1>6. CASE \E q \in Question : SetQuestion(q)
  BY <1>6, SetQuestionPlay
<1>7. CASE \E setLock \in BOOLEAN : SetBuzzerLock(setLock)
  BY <1>7, SetBuzzerLockPlay
<1>8. CASE \E v \in Volume : SetMediaVolume(v)
  BY <1>8, SetMediaVolumePlay
<1>9. CASE \E m \in Media : UpdateMediaState(m)
  BY <1>9, UpdateMediaStatePlay
<1> QED
  BY <1>1, <1>2, <1>3, <1>4, <1>5, <1>6, <1>7, <1>8, <1>9 DEF Play

LEMMA BuzzersPlay ==
  ASSUME PlayInv, Buzzers
  PROVE  PlayInv'
<1>1. CASE KeypressRelease \/ SerialRelease
  BY <1>1, ReleasePlay
<1>2. CASE \E t \in Team : KeypressTeam(t) \/ SerialPress(t)
  BY <1>2, PressPlay
<1>3. CASE \E t, u \in UdpTeam : UdpBuzzerPress(<<t>>) \/ UdpBuzzerPress(<<t, u>>)
  BY <1>3, UdpBuzzerPressPlay
<1> QED
  BY <1>1, <1>2, <1>3 DEF Buzzers

LEMMA PlayStep ==
  ASSUME PlayInv, [Next]_vars
  PROVE  PlayInv'
<1>1. CASE Connections
  BY <1>1, ConnectionsPlay
<1>2. CASE Setup
  BY <1>2, SetupPlay
<1>3. CASE Play
  BY <1>3, PlayPlay
<1>4. CASE Buzzers
  BY <1>4, BuzzersPlay
<1>5. CASE IgnorePacket \/ BuzzerColorChanged \/ StateSaved
  BY <1>5, UnchangedPlay DEF IgnorePacket, BuzzerColorChanged, StateSaved
<1>6. CASE UNCHANGED vars
  BY <1>6, UnchangedPlay DEF vars
<1> QED
  BY <1>1, <1>2, <1>3, <1>4, <1>5, <1>6 DEF Next

LEMMA PlayInvInit == Init => PlayInv
  BY InitialGameLemma, QuestionLemma, DataAssumption
     DEF Init, PlayInv, PlayTypeOK, LockAgrees, NoPoints

----------------------------------------------------------------------------
(* Who is the master, and what state the automaton is in.  Neither SeatMatchesState nor            *)
(* ResumesStartedGame says enough alone: that a lost game was started or played is what makes its  *)
(* next master rejoin it, and whether it had been started decides what is resumed then.            *)

SeatInv == ServerTypeOK /\ SeatMatchesState /\ ResumesStartedGame

LEMMA ChangedLemma ==
  ASSUME ServerTypeOK, Changed
  PROVE  autosave' \in {"off", "saved", "dirty"}
  BY DEF ServerTypeOK, Changed

\* Most handlers touch neither.
LEMMA UnchangedSeat ==
  ASSUME SeatInv, UNCHANGED <<automaton, master, lastMasterId, token, open, screens>>,
         autosave' \in {"off", "saved", "dirty"}, boxHeld' \in BOOLEAN
  PROVE  SeatInv'
  BY DEF SeatInv, ServerTypeOK, SeatMatchesState, ResumesStartedGame, isGameRunning, automaton

LEMMA CloseMasterSeat ==
  ASSUME SeatInv, CloseMaster
  PROVE  SeatInv'
<1>1. state \in {"WAITING_FOR_SETUP", "WAITING_FOR_START", "PLAYING", "END"}
  BY DEF SeatInv, ServerTypeOK, State, SeatMatchesState, CloseMaster
<1>2. autosave' \in {"off", "saved", "dirty"} /\ boxHeld' \in BOOLEAN
  BY DEF SeatInv, ServerTypeOK, CloseMaster, ResetServerData, FreeBuzzers
<1>3. ServerTypeOK'
  BY <1>1, <1>2 DEF SeatInv, ServerTypeOK, State, CloseMaster, StateWithoutMaster, PreviousWithoutMaster
<1>4. SeatMatchesState'
  BY <1>1 DEF SeatInv, SeatMatchesState, CloseMaster, StateWithoutMaster, PreviousWithoutMaster
<1>5. ResumesStartedGame'
  BY <1>1 DEF SeatInv, ResumesStartedGame, CloseMaster, StateWithoutMaster, PreviousWithoutMaster,
     isGameRunning, RunningState, ServerTypeOK
<1> QED
  BY <1>3, <1>4, <1>5 DEF SeatInv

LEMMA RegisterMasterSeat ==
  ASSUME SeatInv, NEW c \in MasterConn, NEW takeOver, RegisterMaster(c, takeOver)
  PROVE  SeatInv'
<1>1. \/ state = "WAITING_FOR_MASTER" /\ state' = "WAITING_FOR_SETUP"
      \/ /\ state = "LOST_MASTER" /\ previous \in {"WAITING_FOR_START", "PLAYING"}
         /\ state' = "WAITING_FOR_START"
  BY DEF SeatInv, SeatMatchesState, RegisterMaster, BecomeMaster, Rejoins
<1>2. c # None
  BY ConnAssumption DEF Conn
<1>3. ServerTypeOK'
  BY <1>1, ChangedLemma DEF SeatInv, ServerTypeOK, State, RegisterMaster, BecomeMaster, Resumes
<1>4. SeatMatchesState'
  BY <1>1, <1>2 DEF SeatInv, SeatMatchesState, RegisterMaster, BecomeMaster
<1>5. ResumesStartedGame'
  BY <1>1 DEF SeatInv, ServerTypeOK, ResumesStartedGame, RegisterMaster, BecomeMaster, Resumes,
     isGameRunning, RunningState
<1> QED
  BY <1>3, <1>4, <1>5 DEF SeatInv

LEMMA TakeOverSeat ==
  ASSUME SeatInv, NEW c \in MasterConn, TakeOver(c)
  PROVE  SeatInv'
<1>1. \/ state \in {"WAITING_FOR_SETUP", "END"} /\ state' = "WAITING_FOR_SETUP"
      \/ state \in {"WAITING_FOR_START", "PLAYING"} /\ state' = "WAITING_FOR_START"
  BY DEF SeatInv, ServerTypeOK, State, SeatMatchesState, TakeOver, BecomeMaster, Rejoins,
     StateWithoutMaster, PreviousWithoutMaster
<1>2. c # None
  BY ConnAssumption DEF Conn
<1>3. autosave' \in {"off", "saved", "dirty"} /\ boxHeld' \in BOOLEAN /\ started' \in BOOLEAN
  BY ChangedLemma DEF SeatInv, ServerTypeOK, TakeOver, ResetServerData, FreeBuzzers
<1>4. ServerTypeOK'
  BY <1>1, <1>3 DEF SeatInv, ServerTypeOK, State, TakeOver, BecomeMaster, Resumes,
     StateWithoutMaster, PreviousWithoutMaster
<1>5. SeatMatchesState'
  BY <1>1, <1>2 DEF SeatInv, SeatMatchesState, TakeOver, BecomeMaster
<1>6. ResumesStartedGame'
  BY <1>1 DEF SeatInv, ServerTypeOK, ResumesStartedGame, TakeOver, BecomeMaster, Resumes,
     StateWithoutMaster, PreviousWithoutMaster, isGameRunning, RunningState
<1> QED
  BY <1>4, <1>5, <1>6 DEF SeatInv

LEMMA ConnectionsSeat ==
  ASSUME SeatInv, Connections
  PROVE  SeatInv'
<1>1. ASSUME NEW c \in Conn, Connect(c) \/ CloseOther(c)
      PROVE  SeatInv'
  BY <1>1 DEF SeatInv, ServerTypeOK, SeatMatchesState, ResumesStartedGame, isGameRunning,
     automaton, Connect, CloseOther
<1>2. ASSUME NEW c \in MasterConn, NEW takeOver \in BOOLEAN, RefuseMaster(c, takeOver)
      PROVE  SeatInv'
  BY <1>2, ChangedLemma DEF SeatInv, ServerTypeOK, SeatMatchesState, ResumesStartedGame, isGameRunning,
     automaton, RefuseMaster
<1>3. ASSUME NEW c \in MasterConn, RegisterAgain(c)
      PROVE  SeatInv'
  BY <1>3, UnchangedSeat, ChangedLemma DEF SeatInv, ServerTypeOK, RegisterAgain, seat
<1>4. ASSUME NEW c \in ScreenConn, RegisterScreen(c)
      PROVE  SeatInv'
  BY <1>4, ChangedLemma DEF SeatInv, ServerTypeOK, SeatMatchesState, ResumesStartedGame, isGameRunning,
     automaton, seat, RegisterScreen
<1> QED
  BY <1>1, <1>2, <1>3, <1>4, CloseMasterSeat, RegisterMasterSeat, TakeOverSeat DEF Connections

LEMMA SetupSeat ==
  ASSUME SeatInv, Setup
  PROVE  SeatInv'
<1>1. ASSUME NEW ts, NEW saved, NEW stored, NEW isNew, SetupGame(ts, saved, stored, isNew)
      PROVE  SeatInv'
  <2>1. CASE TeamsOk(ts)
    BY <1>1, <2>1 DEF SeatInv, ServerTypeOK, State, SeatMatchesState, ResumesStartedGame, isGameRunning,
       SetupGame, seat
  <2>2. CASE ~TeamsOk(ts)
    BY <1>1, <2>2, UnchangedSeat DEF SeatInv, ServerTypeOK, SetupGame, seat
  <2> QED
    BY <2>1, <2>2
<1>2. ASSUME NEW ts, UpdateTeams(ts)
      PROVE  SeatInv'
  BY <1>2, UnchangedSeat, ChangedLemma DEF SeatInv, ServerTypeOK, UpdateTeams, FreeBuzzers, seat
<1>3. CASE StartGame
  BY <1>3, ChangedLemma DEF SeatInv, ServerTypeOK, State, SeatMatchesState, ResumesStartedGame, isGameRunning,
     RunningState, StartGame, seat
<1>4. CASE StartGameRefused
  BY <1>4, UnchangedSeat, ChangedLemma DEF SeatInv, ServerTypeOK, StartGameRefused, seat
<1>5. CASE EndGame
  BY <1>5, ChangedLemma DEF SeatInv, ServerTypeOK, State, SeatMatchesState, ResumesStartedGame, isGameRunning,
     RunningState, EndGame, seat
<1>6. CASE ResetServer
  BY <1>6 DEF SeatInv, ServerTypeOK, State, SeatMatchesState, ResumesStartedGame, isGameRunning,
     RunningState, ResetServer, ResetServerData, FreeBuzzers, seat
<1> QED
  BY <1>1, <1>2, <1>3, <1>4, <1>5, <1>6 DEF Setup

\* The rest leaves the master, the automaton and the game's teams and questions alone.
Keeps ==
  /\ UNCHANGED <<automaton, seat, screens, teams, questions>>
  /\ teams = {} => UNCHANGED points
  /\ autosave' \in {"saved", "dirty", autosave} /\ (autosave = "off" => autosave' = "off")
  /\ boxHeld' \in {TRUE, FALSE, boxHeld}

LEMMA PlayKeeps == Play => Keeps
<1>1. ASSUME NEW t, NEW p, TeamSetPoints(t, p) PROVE Keeps
  BY <1>1 DEF Keeps, Changed, TeamSetPoints
<1>2. ASSUME NEW t, NEW r, NEW a, NEW reveal, GradeAnswer(t, r, a, reveal) PROVE Keeps
  <2>1. t \in teams /\ UNCHANGED <<automaton, seat, screens, teams, questions>> /\ Changed
    BY <1>2 DEF GradeAnswer
  <2>2. boxHeld' \in {FALSE, boxHeld}
    BY <1>2 DEF GradeAnswer, FreeBuzzers
  <2> QED
    BY <2>1, <2>2 DEF Keeps, Changed
<1>3. ASSUME NEW t, NEW mark, MarkTeam(t, mark) PROVE Keeps
  BY <1>3 DEF Keeps, Changed, MarkTeam
<1>4. ASSUME UnmarkAllTeams PROVE Keeps
  BY <1>4 DEF Keeps, Changed, UnmarkAllTeams
<1>5. ASSUME NEW a, NEW s, AnswerSetState(s, a) PROVE Keeps
  BY <1>5 DEF Keeps, Changed, AnswerSetState, FreeBuzzers
<1>6. ASSUME NEW q, SetQuestion(q) PROVE Keeps
  BY <1>6 DEF Keeps, Changed, SetQuestion, FreeBuzzers
<1>7. ASSUME NEW setLock, SetBuzzerLock(setLock) PROVE Keeps
  BY <1>7 DEF Keeps, Changed, SetBuzzerLock, FreeBuzzers
<1>8. ASSUME NEW v, SetMediaVolume(v) PROVE Keeps
  BY <1>8 DEF Keeps, Changed, SetMediaVolume
<1>9. ASSUME NEW m, UpdateMediaState(m) PROVE Keeps
  BY <1>9 DEF Keeps, Changed, UpdateMediaState
<1> QED
  BY <1>1, <1>2, <1>3, <1>4, <1>5, <1>6, <1>7, <1>8, <1>9 DEF Play

LEMMA OthersKeep == Buzzers \/ IgnorePacket \/ BuzzerColorChanged \/ StateSaved => Keeps
<1>1. ASSUME KeypressRelease \/ SerialRelease PROVE Keeps
  BY <1>1 DEF Keeps, Changed, KeypressRelease, SerialRelease, FreeBuzzers
<1>2. ASSUME NEW t, KeypressTeam(t) PROVE Keeps
  BY <1>2 DEF Keeps, Changed, KeypressTeam
<1>3. ASSUME NEW t, SerialPress(t) PROVE Keeps
  BY <1>3 DEF Keeps, Changed, SerialPress
<1>4. ASSUME NEW pressed, UdpBuzzerPress(pressed) PROVE Keeps
  BY <1>4 DEF Keeps, Changed, UdpBuzzerPress
<1>5. ASSUME IgnorePacket \/ BuzzerColorChanged PROVE Keeps
  BY <1>5 DEF Keeps, Changed, IgnorePacket, BuzzerColorChanged, play
<1>6. ASSUME StateSaved PROVE Keeps
  BY <1>6 DEF Keeps, StateSaved, play
<1> QED
  BY <1>1, <1>2, <1>3, <1>4, <1>5, <1>6 DEF Buzzers

LEMMA KeepsSeat ==
  ASSUME SeatInv, Keeps
  PROVE  SeatInv'
  BY UnchangedSeat DEF Keeps, SeatInv, ServerTypeOK, seat

LEMMA SeatStep ==
  ASSUME SeatInv, [Next]_vars
  PROVE  SeatInv'
<1>1. CASE UNCHANGED vars
  BY <1>1, UnchangedSeat DEF SeatInv, ServerTypeOK, vars, seat
<1> QED
  BY <1>1, ConnectionsSeat, SetupSeat, PlayKeeps, OthersKeep, KeepsSeat DEF Next

LEMMA SeatInit == Init => SeatInv
  BY DEF Init, SeatInv, ServerTypeOK, State, SeatMatchesState, ResumesStartedGame, isGameRunning, RunningState

----------------------------------------------------------------------------
(* A game that was reset. *)

LEMMA NoGameStep ==
  ASSUME SeatInv, NoGameNoData, [Next]_vars
  PROVE  NoGameNoData'
<1> DEFINE NoGame == {"WAITING_FOR_MASTER", "WAITING_FOR_SETUP"}
           Same   == UNCHANGED <<teams, points, questions>> /\ autosave' \in {autosave, "off"}
<1>1. ASSUME state \in NoGame, Same PROVE NoGameNoData'
  BY <1>1 DEF NoGameNoData
<1>2. ASSUME state' \notin NoGame PROVE NoGameNoData'
  BY <1>2 DEF NoGameNoData
<1>3. ASSUME ResetServerData PROVE NoGameNoData'
  BY <1>3 DEF NoGameNoData, ResetServerData
<1>4. ASSUME UNCHANGED <<state, play, autosave>> PROVE NoGameNoData'
  BY <1>4 DEF NoGameNoData, play
<1>5. ASSUME Changed, state \in NoGame, UNCHANGED play PROVE NoGameNoData'
  BY <1>5, <1>1 DEF NoGameNoData, Changed, play
<1>6. ASSUME Keeps PROVE NoGameNoData'
  BY <1>6 DEF NoGameNoData, Keeps, automaton
<1>7. ASSUME Connections PROVE NoGameNoData'
  <2>1. ASSUME NEW c, Connect(c) \/ CloseOther(c) PROVE NoGameNoData'
    BY <2>1, <1>4 DEF Connect, CloseOther, automaton
  <2>2. ASSUME CloseMaster PROVE NoGameNoData'
    <3>1. CASE state \in NoGame
      BY <2>2, <3>1, <1>1 DEF CloseMaster, play
    <3>2. CASE state \in {"WAITING_FOR_START", "PLAYING", "LOST_MASTER"}
      BY <2>2, <3>2, <1>2 DEF CloseMaster, StateWithoutMaster
    <3>3. CASE state = "END"
      BY <2>2, <3>3, <1>3 DEF CloseMaster
    <3> QED
      BY <3>1, <3>2, <3>3 DEF SeatInv, ServerTypeOK, State
  <2>3. ASSUME NEW c \in MasterConn, NEW takeOver, RegisterMaster(c, takeOver) PROVE NoGameNoData'
    <3>1. CASE state = "WAITING_FOR_MASTER"
      BY <2>3, <3>1, <1>5 DEF RegisterMaster
    <3>2. CASE state = "LOST_MASTER"
      BY <2>3, <3>2, <1>2 DEF RegisterMaster, BecomeMaster, Rejoins
    <3> QED
      BY <2>3, <3>1, <3>2 DEF SeatInv, SeatMatchesState, RegisterMaster
  <2>4. ASSUME NEW c, RegisterAgain(c) PROVE NoGameNoData'
    <3>1. UNCHANGED <<state, play>> /\ Changed
      BY <2>4 DEF RegisterAgain, automaton
    <3> QED
      BY <3>1, <1>2, <1>5
  <2>5. ASSUME NEW c, NEW takeOver, RefuseMaster(c, takeOver) PROVE NoGameNoData'
    <3>1. UNCHANGED <<state, play>> /\ Changed
      BY <2>5 DEF RefuseMaster, automaton
    <3> QED
      BY <3>1, <1>2, <1>5
  <2>6. ASSUME NEW c \in MasterConn, TakeOver(c) PROVE NoGameNoData'
    <3>1. CASE state = "END"
      BY <2>6, <3>1, <1>3 DEF TakeOver
    <3>2. CASE state = "WAITING_FOR_SETUP"
      BY <2>6, <3>2, <1>5 DEF TakeOver
    <3>3. CASE state \in {"WAITING_FOR_START", "PLAYING"}
      BY <2>6, <3>3, <1>2 DEF TakeOver, BecomeMaster, Rejoins, StateWithoutMaster, PreviousWithoutMaster
    <3> QED
      BY <2>6, <3>1, <3>2, <3>3 DEF SeatInv, ServerTypeOK, State, SeatMatchesState, TakeOver
  <2>7. ASSUME NEW c, RegisterScreen(c) PROVE NoGameNoData'
    <3>1. UNCHANGED <<state, play>> /\ Changed
      BY <2>7 DEF RegisterScreen, automaton
    <3> QED
      BY <3>1, <1>2, <1>5
  <2> QED
    BY <1>7, <2>1, <2>2, <2>3, <2>4, <2>5, <2>6, <2>7 DEF Connections
<1>8. ASSUME Setup PROVE NoGameNoData'
  <2>1. ASSUME NEW ts, NEW saved, NEW stored, NEW isNew, SetupGame(ts, saved, stored, isNew) PROVE NoGameNoData'
    <3>1. CASE TeamsOk(ts)
      BY <2>1, <3>1, <1>2 DEF SetupGame
    <3>2. CASE ~TeamsOk(ts)
      BY <2>1, <3>2, <1>4 DEF SetupGame, automaton, play
    <3> QED
      BY <3>1, <3>2
  <2>2. ASSUME NEW ts, UpdateTeams(ts) PROVE NoGameNoData'
    BY <2>2, <1>2 DEF UpdateTeams, automaton
  <2>3. ASSUME StartGame PROVE NoGameNoData'
    BY <2>3, <1>2 DEF StartGame
  <2>4. ASSUME StartGameRefused PROVE NoGameNoData'
    <3>1. UNCHANGED <<state, play>> /\ Changed
      BY <2>4 DEF StartGameRefused, automaton
    <3> QED
      BY <3>1, <1>2, <1>5
  <2>5. ASSUME EndGame PROVE NoGameNoData'
    BY <2>5, <1>2 DEF EndGame
  <2>6. ASSUME ResetServer PROVE NoGameNoData'
    BY <2>6, <1>3 DEF ResetServer
  <2> QED
    BY <1>8, <2>1, <2>2, <2>3, <2>4, <2>5, <2>6 DEF Setup
<1>9. CASE UNCHANGED vars
  BY <1>9, <1>4 DEF vars, automaton
<1> QED
  BY <1>6, <1>7, <1>8, <1>9, PlayKeeps, OthersKeep DEF Next

----------------------------------------------------------------------------
(* What a step may never do. *)

LEMMA SurvivesStep ==
  ASSUME SeatInv, [Next]_vars, isGameRunning, ~isGameRunning'
  PROVE  master # None /\ master' = master
<1>1. state \in RunningState /\ state' \notin RunningState
  BY DEF isGameRunning
<1>2. CASE Connections
  <2>1. ASSUME CloseMaster PROVE FALSE
    BY <1>1, <2>1 DEF CloseMaster, StateWithoutMaster, RunningState
  <2>2. ASSUME NEW c, NEW takeOver, RegisterMaster(c, takeOver) PROVE FALSE
    BY <1>1, <2>2 DEF SeatInv, SeatMatchesState, RegisterMaster, BecomeMaster, Rejoins, RunningState
  <2>3. ASSUME NEW c, TakeOver(c) PROVE FALSE
    BY <1>1, <2>3 DEF SeatInv, SeatMatchesState, TakeOver, BecomeMaster, Rejoins,
       StateWithoutMaster, PreviousWithoutMaster, RunningState
  <2>4. state' # state
    BY <1>1
  <2> QED
    BY <1>2, <2>1, <2>2, <2>3, <2>4 DEF Connections, Connect, CloseOther, RefuseMaster, RegisterAgain,
       RegisterScreen, automaton
<1>3. CASE Setup
  BY <1>1, <1>3 DEF Setup, SetupGame, UpdateTeams, StartGame, StartGameRefused, EndGame, ResetServer,
     automaton, seat, RunningState
<1>4. CASE Keeps \/ UNCHANGED vars
  BY <1>1, <1>4 DEF Keeps, vars, automaton
<1> QED
  BY <1>2, <1>3, <1>4, PlayKeeps, OthersKeep DEF Next

LEMMA ResumeStep ==
  ASSUME SeatInv, PlayInv, [Next]_vars, isGameRunning, isGameRunning',
         master' # master \/ (started /\ state # state')
  PROVE  UNCHANGED play
<1>1. state \in RunningState /\ state' \in RunningState
  BY DEF isGameRunning
<1>2. CASE Connections
  <2>1. ASSUME CloseMaster PROVE UNCHANGED play
    BY <1>1, <2>1 DEF CloseMaster, RunningState
  <2>2. ASSUME NEW c, TakeOver(c) PROVE UNCHANGED play
    BY <1>1, <2>2 DEF TakeOver, RunningState
  <2> QED
    BY <1>2, <2>1, <2>2 DEF Connections, Connect, CloseOther, RegisterMaster, RefuseMaster, RegisterAgain,
       RegisterScreen
<1>3. CASE StartGame
  <2>1. started /\ state = "WAITING_FOR_START"
    BY <1>3 DEF StartGame, seat
  <2>2. resumesRunningGame
    BY <2>1 DEF SeatInv, ResumesStartedGame
  <2>3. FirstMedia = game.media
    BY <2>2 DEF FirstMedia
  <2>4. /\ keypressLocked' = (FALSE \/ keypressLocked)
        /\ game' = [game EXCEPT !.lock = FALSE \/ @, !.media = game.media]
        /\ UNCHANGED <<teams, points, questions>>
    BY <1>3, <2>2, <2>3 DEF StartGame
  <2>5. keypressLocked \in BOOLEAN /\ game \in Game /\ game.lock \in BOOLEAN
    BY DEF PlayInv, PlayTypeOK, Game
  <2>6. game' = game
    BY <2>4, <2>5 DEF Game
  <2> QED
    BY <2>4, <2>5, <2>6 DEF play
<1>4. CASE Setup /\ ~StartGame
  BY <1>1, <1>4 DEF Setup, SetupGame, UpdateTeams, StartGameRefused, EndGame, ResetServer,
     automaton, seat, RunningState
<1>5. CASE Keeps \/ UNCHANGED vars
  BY <1>5 DEF Keeps, vars, automaton, seat
<1> QED
  BY <1>2, <1>3, <1>4, <1>5, PlayKeeps, OthersKeep DEF Next

LEMMA UnlockStep ==
  ASSUME [Next]_vars, keypressLocked, ~keypressLocked'
  PROVE  ~boxHeld'
<1>1. CASE FreeBuzzers
  BY <1>1 DEF FreeBuzzers
<1>2. CASE UNCHANGED keypressLocked \/ keypressLocked' = TRUE
  BY <1>2
<1>3. CASE Connections
  BY <1>1, <1>2, <1>3 DEF Connections, Connect, CloseOther, CloseMaster, RegisterMaster, RefuseMaster,
     RegisterAgain, TakeOver, RegisterScreen, ResetServerData, play
<1>4. CASE Setup
  BY <1>1, <1>2, <1>4 DEF Setup, SetupGame, UpdateTeams, StartGame, StartGameRefused, EndGame, ResetServer,
     ResetServerData, play
<1>5. CASE Play
  <2>1. ASSUME NEW t, NEW r, NEW a, NEW reveal, GradeAnswer(t, r, a, reveal)
        PROVE  FreeBuzzers \/ UNCHANGED keypressLocked
    BY <2>1 DEF GradeAnswer
  <2>2. ASSUME NEW a, NEW s, AnswerSetState(s, a)
        PROVE  FreeBuzzers \/ UNCHANGED keypressLocked
    BY <2>2 DEF AnswerSetState
  <2> QED
    BY <1>1, <1>2, <1>5, <2>1, <2>2 DEF Play, TeamSetPoints, MarkTeam, UnmarkAllTeams, SetQuestion,
       SetBuzzerLock, SetMediaVolume, UpdateMediaState
<1>6. CASE Buzzers
  BY <1>1, <1>2, <1>6 DEF Buzzers, KeypressRelease, SerialRelease, KeypressTeam, SerialPress,
     UdpBuzzerPress, LockOnTeam
<1>7. CASE IgnorePacket \/ BuzzerColorChanged \/ StateSaved \/ UNCHANGED vars
  BY <1>2, <1>7 DEF IgnorePacket, BuzzerColorChanged, StateSaved, vars, play
<1> QED
  BY <1>3, <1>4, <1>5, <1>6, <1>7 DEF Next

LEMMA OneTeamStep ==
  ASSUME PlayInv, [Next]_vars, keypressLocked, ~(game'.marked \subseteq game.marked)
  PROVE  (\E t \in Team : MarkTeam(t, TRUE)) \/ state = "WAITING_FOR_SETUP"
<1>1. game \in Game
  BY DEF PlayInv, PlayTypeOK
<1>2. ASSUME UNCHANGED game PROVE FALSE
  BY <1>2
<1>3. ASSUME NEW g \in Game, g.marked = game.marked, game' \in {g, Released(g)} PROVE FALSE
  BY <1>3 DEF Released, Game
<1>4. ASSUME game'.marked = {} PROVE FALSE
  BY <1>4
<1>5. ASSUME ResetServerData PROVE FALSE
  BY <1>4, <1>5 DEF ResetServerData, InitialGame
<1>6. CASE Connections
  BY <1>2, <1>5, <1>6 DEF Connections, Connect, CloseOther, CloseMaster, RegisterMaster, RefuseMaster,
     RegisterAgain, TakeOver, RegisterScreen, play
<1>7. CASE Setup
  <2>1. ASSUME NEW ts, UpdateTeams(ts) PROVE FALSE
    BY <1>1, <1>2, <1>3, <2>1 DEF UpdateTeams
  <2>2. ASSUME StartGame PROVE FALSE
    BY <1>1, <2>2 DEF StartGame, Game
  <2> QED
    BY <1>2, <1>5, <1>7, <2>1, <2>2 DEF Setup, SetupGame, StartGameRefused, EndGame, ResetServer, play
<1>8. CASE Play
  <2>1. ASSUME NEW t, NEW r, NEW a, NEW reveal, GradeAnswer(t, r, a, reveal) PROVE FALSE
    <3> DEFINE as(shown) == ApplyAnswers(game, "ACTIVATE", shown)
    <3>1. \E shown : game' \in {as(shown), Released(as(shown))}
      BY <2>1 DEF GradeAnswer
    <3>2. \A shown : as(shown).marked = game.marked /\ Released(as(shown)).marked = {}
      BY <1>1 DEF ApplyAnswers, Released, Game
    <3> QED
      BY <3>1, <3>2
  <2>2. ASSUME NEW a, NEW s, AnswerSetState(s, a) PROVE FALSE
    <3>1. game' \in {ApplyAnswers(game, s, {a}), Released(ApplyAnswers(game, s, {a}))}
      BY <2>2 DEF AnswerSetState
    <3>2. ApplyAnswers(game, s, {a}).marked = game.marked /\ Released(ApplyAnswers(game, s, {a})).marked = {}
      BY <1>1 DEF ApplyAnswers, Released, Game
    <3> QED
      BY <3>1, <3>2
  <2>3. ASSUME NEW t \in Team, MarkTeam(t, FALSE) PROVE FALSE
    BY <1>1, <2>3 DEF MarkTeam, Game
  <2>4. ASSUME UnmarkAllTeams PROVE FALSE
    BY <1>1, <2>4 DEF UnmarkAllTeams, Game
  <2>5. ASSUME NEW q \in Question, SetQuestion(q) PROVE FALSE
    <3>1. game'.marked = {}
      BY <1>1, <2>5 DEF SetQuestion, Game
    <3> QED
      BY <3>1
  <2>6. ASSUME NEW setLock \in BOOLEAN, SetBuzzerLock(setLock) PROVE FALSE
    BY <1>1, <2>6 DEF SetBuzzerLock, Released, Game
  <2>7. ASSUME NEW v \in Volume, SetMediaVolume(v) PROVE FALSE
    BY <1>1, <2>7 DEF SetMediaVolume, Game
  <2>8. ASSUME NEW m \in Media, UpdateMediaState(m) PROVE FALSE
    BY <1>1, <2>8 DEF UpdateMediaState, Game
  <2> QED
    BY <1>2, <1>8, <2>1, <2>2, <2>3, <2>4, <2>5, <2>6, <2>7, <2>8 DEF Play, TeamSetPoints
<1>9. CASE Buzzers
  <2>1. ASSUME KeypressRelease \/ SerialRelease PROVE FALSE
    BY <1>1, <1>3, <2>1 DEF KeypressRelease, SerialRelease
  <2> QED
    BY <1>2, <1>9, <2>1 DEF Buzzers, KeypressTeam, SerialPress, UdpBuzzerPress
<1>10. CASE IgnorePacket \/ BuzzerColorChanged \/ StateSaved \/ UNCHANGED vars
  BY <1>2, <1>10 DEF IgnorePacket, BuzzerColorChanged, StateSaved, vars, play
<1> QED
  BY <1>6, <1>7, <1>8, <1>9, <1>10 DEF Next

\* A released game is solved iff it was, and a new question's is not.
LEMMA ReleasedSolved ==
  ASSUME game \in Game, game' = Released(game), UNCHANGED questions, Solved(game)'
  PROVE  Solved(game)
<1>1. game'.activated = game.activated /\ game'.question = game.question
  BY DEF Released, Game
<1> QED
  BY <1>1 DEF Solved, Options

LEMMA NothingSolved ==
  ASSUME game'.activated = {}
  PROVE  ~Solved(game)'
  BY DEF Solved

LEMMA SolvedStep ==
  ASSUME WrongCost # 0, PlayInv, [Next]_vars, keypressLocked, ~Solved(game), Solved(game)',
         \A t \in Team : points'[t] >= points[t]
  PROVE  keypressLocked'
<1>1. game \in Game /\ points \in [Team -> Points]
  BY DEF PlayInv, PlayTypeOK
<1>2. ASSUME UNCHANGED keypressLocked PROVE keypressLocked'
  BY <1>2
<1>3. ASSUME ResetServerData PROVE FALSE
  BY <1>3, NothingSolved DEF ResetServerData, InitialGame
<1>4. ASSUME game' = Released(game), UNCHANGED questions PROVE FALSE
  BY <1>1, <1>4, ReleasedSolved
<1>5. CASE Connections
  BY <1>2, <1>3, <1>5 DEF Connections, Connect, CloseOther, CloseMaster, RegisterMaster, RefuseMaster,
     RegisterAgain, TakeOver, RegisterScreen, play
<1>6. CASE Setup
  <2>1. ASSUME NEW ts, UpdateTeams(ts) PROVE keypressLocked'
    BY <1>2, <1>4, <2>1 DEF UpdateTeams
  <2>2. ASSUME StartGame PROVE keypressLocked'
    BY <2>2 DEF StartGame
  <2> QED
    BY <1>2, <1>3, <1>6, <2>1, <2>2 DEF Setup, SetupGame, StartGameRefused, EndGame, ResetServer, play
<1>7. CASE Play
  <2>1. ASSUME NEW t \in Team, NEW r, NEW a, NEW reveal, GradeAnswer(t, r, a, reveal) PROVE keypressLocked'
    <3>1. CASE r = "WRONG"
      <4>1. points'[t] = points[t] - WrongCost
        BY <1>1, <2>1, <3>1 DEF GradeAnswer, PointsChange
      <4>2. points[t] \in Int /\ WrongCost \in Nat
        BY <1>1, DataAssumption DEF Points
      <4> QED
        BY <4>1, <4>2
    <3>2. CASE r # "WRONG"
      BY <2>1, <3>2 DEF GradeAnswer
    <3> QED
      BY <3>1, <3>2
  <2>2. ASSUME NEW a, NEW s, AnswerSetState(s, a) PROVE keypressLocked'
    <3> DEFINE answered == ApplyAnswers(game, s, {a})
    <3>1. CASE FreesBuzzers(s, answered)
      <4>1. game' = Released(answered) /\ UNCHANGED questions
        BY <2>2, <3>1 DEF AnswerSetState
      <4>2. game'.activated = answered.activated /\ game'.question = game.question
        BY <1>1, <4>1 DEF ApplyAnswers, Released, Game
      <4>3. ~Solved(answered)
        BY <3>1 DEF FreesBuzzers
      <4>4. Solved(answered)
        BY <4>1, <4>2 DEF Solved, Options
      <4> QED
        BY <4>3, <4>4
    <3>2. CASE ~FreesBuzzers(s, answered)
      BY <2>2, <3>2 DEF AnswerSetState
    <3> QED
      BY <3>1, <3>2
  <2>3. ASSUME NEW q \in Question, SetQuestion(q) PROVE FALSE
    <3>1. game'.activated = {}
      BY <1>1, <2>3 DEF SetQuestion, Game
    <3> QED
      BY <3>1, NothingSolved
  <2>4. ASSUME NEW setLock \in BOOLEAN, SetBuzzerLock(setLock) PROVE keypressLocked'
    BY <1>4, <2>4 DEF SetBuzzerLock
  <2> QED
    BY <1>2, <1>7, <2>1, <2>2, <2>3, <2>4 DEF Play, TeamSetPoints, MarkTeam, UnmarkAllTeams, SetMediaVolume,
       UpdateMediaState
<1>8. CASE Buzzers
  <2>1. ASSUME KeypressRelease \/ SerialRelease PROVE FALSE
    BY <1>4, <2>1 DEF KeypressRelease, SerialRelease
  <2> QED
    BY <1>2, <1>8, <2>1 DEF Buzzers, KeypressTeam, SerialPress, UdpBuzzerPress, LockOnTeam
<1>9. CASE IgnorePacket \/ BuzzerColorChanged \/ StateSaved \/ UNCHANGED vars
  BY <1>2, <1>9 DEF IgnorePacket, BuzzerColorChanged, StateSaved, vars, play
<1> QED
  BY <1>5, <1>6, <1>7, <1>8, <1>9 DEF Next

----------------------------------------------------------------------------
(* What is saved.  A game is saved only while it is set up, which NoGameNoData says, and has its   *)
(* questions: without any, the handler of the next question ends early and saves nothing.          *)

SavedHasQuestions == autosave # "off" => questions # 0

\* The handlers that do not begin to save.
BeginsNothing == UNCHANGED questions /\ (autosave = "off" => autosave' = "off")

LEMMA SavedHasQuestionsStep ==
  ASSUME SavedHasQuestions, [Next]_vars
  PROVE  SavedHasQuestions'
<1>1. ASSUME BeginsNothing PROVE SavedHasQuestions'
  BY <1>1 DEF BeginsNothing, SavedHasQuestions
<1>2. ASSUME ResetServerData PROVE SavedHasQuestions'
  BY <1>2 DEF ResetServerData, SavedHasQuestions
<1>3. CASE Connections
  BY <1>1, <1>2, <1>3 DEF Connections, Connect, CloseOther, CloseMaster, RegisterMaster, RefuseMaster,
     RegisterAgain, TakeOver, RegisterScreen, Changed, BeginsNothing, play
<1>4. CASE Setup
  <2>1. ASSUME NEW ts, NEW saved, NEW stored, NEW isNew, SetupGame(ts, saved, stored, isNew)
        PROVE  SavedHasQuestions'
    <3>1. CASE TeamsOk(ts)
      BY <2>1, <3>1, DataAssumption DEF SetupGame, SavedHasQuestions
    <3>2. CASE ~TeamsOk(ts)
      BY <2>1, <3>2, <1>1 DEF SetupGame, BeginsNothing
    <3> QED
      BY <3>1, <3>2
  <2> QED
    BY <1>1, <1>2, <1>4, <2>1 DEF Setup, UpdateTeams, StartGame, StartGameRefused, EndGame, ResetServer,
       Changed, BeginsNothing, play
<1>5. CASE Keeps \/ UNCHANGED vars
  BY <1>1, <1>5 DEF Keeps, BeginsNothing, vars, play
<1> QED
  BY <1>3, <1>4, <1>5, PlayKeeps, OthersKeep DEF Next

LEMMA SavedStep ==
  ASSUME SeatInv, SeatInv', NoGameNoData', SavedHasQuestions, [Next]_vars,
         autosave # "off", autosave' # "off",
         <<teams, points, game, gameFinished>>' # <<teams, points, game, gameFinished>>
  PROVE  autosave' = "dirty"
<1>1. ASSUME Changed PROVE autosave' = "dirty"
  <2>1. state' \in SetUpState
    BY DEF SeatInv, ServerTypeOK, State, NoGameNoData, SetUpState, RunningState
  <2> QED
    BY <1>1, <2>1 DEF Changed
<1>2. ASSUME UNCHANGED <<gameFinished, play>> PROVE FALSE
  BY <1>2 DEF play
<1>3. ASSUME ResetServerData PROVE FALSE
  BY <1>3 DEF ResetServerData
<1>4. CASE Connections
  BY <1>1, <1>2, <1>3, <1>4 DEF Connections, Connect, CloseOther, CloseMaster, RegisterMaster, RefuseMaster,
     RegisterAgain, TakeOver, RegisterScreen, automaton
<1>5. CASE Setup
  <2>1. ASSUME NEW ts, NEW saved, NEW stored, NEW isNew, SetupGame(ts, saved, stored, isNew)
        PROVE  autosave' = "dirty"
    BY <2>1, <1>2 DEF SetupGame, automaton, play
  <2> QED
    BY <1>1, <1>2, <1>3, <1>5, <2>1 DEF Setup, UpdateTeams, StartGame, StartGameRefused, EndGame, ResetServer,
       automaton
<1>6. CASE Play
  <2>1. ASSUME NEW q, SetQuestion(q) PROVE Changed
    BY <2>1 DEF SetQuestion, SavedHasQuestions
  <2>2. ASSUME NEW t, NEW r, NEW a, NEW reveal, GradeAnswer(t, r, a, reveal) PROVE Changed
    BY <2>2 DEF GradeAnswer
  <2> QED
    BY <1>1, <1>6, <2>1, <2>2 DEF Play, TeamSetPoints, MarkTeam, UnmarkAllTeams, AnswerSetState,
       SetBuzzerLock, SetMediaVolume, UpdateMediaState
<1>7. CASE Buzzers
  BY <1>1, <1>7 DEF Buzzers, KeypressRelease, SerialRelease, KeypressTeam, SerialPress, UdpBuzzerPress
<1>8. CASE IgnorePacket \/ BuzzerColorChanged \/ StateSaved \/ UNCHANGED vars
  BY <1>2, <1>8 DEF IgnorePacket, BuzzerColorChanged, StateSaved, vars, automaton
<1> QED
  BY <1>4, <1>5, <1>6, <1>7, <1>8 DEF Next

----------------------------------------------------------------------------
(* The theorems. *)

\* The game that is played is one, and the automaton and its master are, in every state the server
\* can reach: no packet, press or lost connection leaves anything else.
THEOREM TypeCorrect == Spec => []TypeOK
<1>1. Init => SeatInv /\ PlayInv
  BY SeatInit, PlayInvInit
<1>2. SeatInv /\ PlayInv /\ [Next]_vars => SeatInv' /\ PlayInv'
  BY SeatStep, PlayStep
<1>3. SeatInv /\ PlayInv => TypeOK
  BY DEF SeatInv, PlayInv, TypeOK
<1> QED
  BY <1>1, <1>2, <1>3, PTL DEF Spec

\* What everyone is told of the buzzer lock is what decides whether a press counts.
THEOREM LockCorrect == Spec => []LockAgrees
<1>1. PlayInv => LockAgrees
  BY DEF PlayInv
<1> QED
  BY PlayInvInit, PlayStep, <1>1, PTL DEF Spec

\* The state of the automaton says whether there is a master, whose connection is open and who
\* alone has storage access.
THEOREM SeatCorrect == Spec => []SeatMatchesState
<1>1. SeatInv => SeatMatchesState
  BY DEF SeatInv
<1> QED
  BY SeatInit, SeatStep, <1>1, PTL DEF Spec

\* However often masters come and go, a game is resumed iff it was started before.
THEOREM ResumesCorrect == Spec => []ResumesStartedGame
<1>1. SeatInv => ResumesStartedGame
  BY DEF SeatInv
<1> QED
  BY SeatInit, SeatStep, <1>1, PTL DEF Spec

\* A game that was reset leaves nothing behind, and nothing writes its saved state any more.
THEOREM ResetCorrect == Spec => []NoGameNoData
<1>1. Init => NoGameNoData
  BY DEF Init, NoGameNoData
<1> QED
  BY SeatInit, SeatStep, <1>1, NoGameStep, PTL DEF Spec

\* Only its master ends or resets a running game.
THEOREM GameSurvives == Spec => RunningGameSurvives
<1>1. SeatInv /\ [Next]_vars =>
        [isGameRunning /\ ~isGameRunning' => master # None /\ master' = master]_vars
  BY SurvivesStep
<1> QED
  BY SeatInit, SeatStep, <1>1, PTL DEF Spec, RunningGameSurvives

\* A game that gets another master, or is started again, goes on exactly as it was.
THEOREM GameResumes == Spec => ResumeKeepsGame
<1>1. SeatInv /\ PlayInv /\ [Next]_vars =>
        [(isGameRunning /\ isGameRunning') /\ (master' # master \/ (started /\ state # state'))
           => UNCHANGED play]_vars
  BY ResumeStep
<1> QED
  BY SeatInit, SeatStep, PlayInvInit, PlayStep, <1>1, PTL DEF Spec, ResumeKeepsGame

\* However many buzzers are pressed, and in whatever order, one press counts until the buzzers are
\* unlocked again; only the master marks another team meanwhile.
THEOREM OnePressCounts == Spec => OneTeamPerLock
<1>1. PlayInv /\ [Next]_vars =>
        [keypressLocked /\ ~(game'.marked \subseteq game.marked) =>
           \/ \E t \in Team : MarkTeam(t, TRUE)
           \/ state = "WAITING_FOR_SETUP"]_vars
  BY OneTeamStep
<1> QED
  BY PlayInvInit, PlayStep, <1>1, PTL DEF Spec, OneTeamPerLock

\* Whatever unlocks the buzzers releases the box.
THEOREM BoxIsFreed == Spec => UnlockFreesBox
<1>1. [Next]_vars => [keypressLocked /\ ~keypressLocked' => ~boxHeld']_vars
  BY UnlockStep
<1> QED
  BY <1>1, PTL DEF Spec, UnlockFreesBox

\* As long as a wrong answer costs something, revealing the last correct answer, or grading it as
\* right, keeps the buzzers locked.
THEOREM SolvedIsLocked ==
  ASSUME WrongCost # 0
  PROVE  Spec => SolvedStaysLocked
<1>1. PlayInv /\ [Next]_vars =>
        [keypressLocked /\ ~Solved(game) /\ Solved(game)' /\ (\A t \in Team : points'[t] >= points[t])
           => keypressLocked']_vars
  BY SolvedStep
<1> QED
  BY PlayInvInit, PlayStep, <1>1, PTL DEF Spec, SolvedStaysLocked

\* Whatever of a stored game changes is to be saved after it.
THEOREM ChangeIsSaved == Spec => ChangesAreSaved
<1> DEFINE Inv == SeatInv /\ NoGameNoData /\ SavedHasQuestions
<1>1. Init => Inv
  BY SeatInit DEF Init, NoGameNoData, SavedHasQuestions
<1>2. Inv /\ [Next]_vars => Inv'
  BY SeatStep, NoGameStep, SavedHasQuestionsStep
<1>3. Inv /\ Inv' /\ [Next]_vars =>
        [autosave # "off" /\ autosave' # "off"
           /\ <<teams, points, game, gameFinished>>' # <<teams, points, game, gameFinished>>
         => autosave' = "dirty"]_vars
  BY SavedStep
<1> QED
  BY <1>1, <1>2, <1>3, PTL DEF Spec, ChangesAreSaved

----------------------------------------------------------------------------
(* Every step of the server is a step of the session, or one it does not see. *)

\* Removing teams must not take points away from anybody else.
OnlyTeamsScore == \A t \in Team \ teams : points[t] = 0

SessionInv == SeatInv /\ PlayInv /\ NoGameNoData /\ OnlyTeamsScore

\* `started' tells the phase of a game that runs.
PhaseIs ==
  /\ state \in {"WAITING_FOR_MASTER", "WAITING_FOR_SETUP"} => Phase = "none"
  /\ state = "END" => Phase = "over"
  /\ state \in RunningState => Phase = IF started THEN "started" ELSE "ready"

LEMMA PhaseLemma ==
  ASSUME SeatInv
  PROVE  PhaseIs
  BY DEF SeatInv, SeatMatchesState, ResumesStartedGame, PhaseIs, Phase, WasStarted, isGameRunning, RunningState

LEMMA NextPhaseLemma ==
  ASSUME SeatInv'
  PROVE  PhaseIs'
  BY DEF SeatInv, SeatMatchesState, ResumesStartedGame, PhaseIs, Phase, WasStarted, isGameRunning, RunningState

LEMMA SamePhase ==
  ASSUME UNCHANGED automaton
  PROVE  UNCHANGED Phase
  BY DEF Phase, WasStarted, isGameRunning, automaton

----------------------------------------------------------------------------
(* The steps that change neither the seat nor the phase. *)

SessionStep == Session!Next \/ UNCHANGED Session!vars

LEMMA BoardStep ==
  ASSUME UNCHANGED <<automaton, master, teams, points>>
  PROVE  Session!PlayOn
  BY SamePhase DEF Session!PlayOn

LEMMA ScoreStep ==
  ASSUME SessionInv, Keeps, points' # points => master # None,
         \A t \in Team : points'[t] # points[t] => t \in teams
  PROVE  Session!PlayOn
<1>1. UNCHANGED <<automaton, master, teams>>
  BY DEF Keeps, seat
<1>2. Phase = "none" => UNCHANGED points
  <2>1. Phase = "none" => teams = {}
    BY PhaseLemma DEF SessionInv, SeatInv, ServerTypeOK, State, NoGameNoData, PhaseIs, RunningState
  <2> QED
    BY <2>1 DEF Keeps
<1> QED
  BY <1>1, <1>2, SamePhase DEF Session!PlayOn

LEMMA PlaySession ==
  ASSUME SessionInv, Play
  PROVE  Session!PlayOn
<1>1. points \in [Team -> Points]
  BY DEF SessionInv, PlayInv, PlayTypeOK
<1>2. ASSUME NEW t \in Team, NEW p, TeamSetPoints(t, p)
      PROVE  Session!PlayOn
  <2>1. master # None /\ \A u \in Team : points'[u] # points[u] => u \in teams
    BY <1>1, <1>2 DEF TeamSetPoints
  <2>2. Keeps
    BY <1>2 DEF Keeps, Changed, TeamSetPoints
  <2> QED
    BY <2>1, <2>2, ScoreStep
<1>3. ASSUME NEW t \in Team, NEW r, NEW a, NEW reveal, GradeAnswer(t, r, a, reveal)
      PROVE  Session!PlayOn
  <2>1. t \in teams /\ master # None /\ \E total : points' = [points EXCEPT ![t] = total]
    BY <1>3 DEF GradeAnswer
  <2>2. \A u \in Team : points'[u] # points[u] => u \in teams
    BY <1>1, <2>1
  <2>3. UNCHANGED <<automaton, seat, screens, teams, questions>> /\ Changed
    BY <1>3 DEF GradeAnswer
  <2>4. boxHeld' \in {FALSE, boxHeld}
    BY <1>3 DEF GradeAnswer, FreeBuzzers
  <2>5. Keeps
    BY <2>1, <2>3, <2>4 DEF Keeps, Changed
  <2> QED
    BY <2>1, <2>2, <2>5, ScoreStep
<1>4. CASE UNCHANGED <<automaton, master, teams, points>>
  BY <1>4, BoardStep
<1> QED
  BY <1>2, <1>3, <1>4 DEF Play, MarkTeam, UnmarkAllTeams, AnswerSetState, SetQuestion, SetBuzzerLock,
     SetMediaVolume, UpdateMediaState, seat

LEMMA OthersSession ==
  ASSUME Buzzers \/ IgnorePacket \/ BuzzerColorChanged \/ StateSaved
  PROVE  Session!PlayOn
<1>1. UNCHANGED <<automaton, master, teams, points>>
  BY DEF Buzzers, KeypressRelease, SerialRelease, KeypressTeam, SerialPress, UdpBuzzerPress, IgnorePacket,
     BuzzerColorChanged, StateSaved, seat, play
<1> QED
  BY <1>1, BoardStep

----------------------------------------------------------------------------
(* The steps of the seat. *)

LEMMA ConnectionsSession ==
  ASSUME SessionInv, Connections, SeatInv'
  PROVE  SessionStep
<1>1. PhaseIs /\ PhaseIs'
  BY PhaseLemma, NextPhaseLemma DEF SessionInv
<1>2. state \in State /\ SeatMatchesState
  BY DEF SessionInv, SeatInv, ServerTypeOK
<1>3. \A c \in MasterConn : c # None
  BY ConnAssumption DEF Conn
<1>4. ASSUME NEW c, Connect(c) \/ CloseOther(c) PROVE SessionStep
  BY <1>4, BoardStep DEF Connect, CloseOther, play, SessionStep, Session!Next
<1>5. ASSUME NEW c, RegisterAgain(c) \/ RegisterScreen(c) PROVE SessionStep
  BY <1>5, BoardStep DEF RegisterAgain, RegisterScreen, seat, play, SessionStep, Session!Next
<1>6. ASSUME NEW c, NEW takeOver, RefuseMaster(c, takeOver) PROVE SessionStep
  BY <1>6, BoardStep DEF RefuseMaster, play, SessionStep, Session!Next
<1>7. ASSUME CloseMaster PROVE Session!Leave
  <2>1. CASE state = "END"
    <3>1. Phase = "over" /\ Phase' = "none"
      BY <1>1, <1>7, <2>1 DEF PhaseIs, CloseMaster, StateWithoutMaster
    <3> QED
      BY <1>7, <2>1, <3>1 DEF CloseMaster, ResetServerData, NoPoints, Session!Leave, Session!GoesOn, Session!Emptied
  <2>2. CASE state = "WAITING_FOR_SETUP"
    <3>1. Phase = "none" /\ Phase' = "none"
      BY <1>1, <1>7, <2>2 DEF PhaseIs, CloseMaster, StateWithoutMaster
    <3> QED
      BY <1>7, <2>2, <3>1 DEF CloseMaster, play, Session!Leave, Session!GoesOn, Session!game
  <2>3. CASE state \in {"WAITING_FOR_START", "PLAYING"}
    <3>1. Phase' = Phase /\ Phase # "over"
      BY <1>1, <1>7, <2>3 DEF PhaseIs, CloseMaster, StateWithoutMaster, RunningState
    <3> QED
      BY <1>7, <2>3, <3>1 DEF CloseMaster, play, Session!Leave, Session!GoesOn, Session!game
  <2> QED
    BY <1>2, <1>7, <2>1, <2>2, <2>3 DEF State, SeatMatchesState, CloseMaster
<1>8. ASSUME NEW c \in MasterConn, NEW takeOver, RegisterMaster(c, takeOver) PROVE Session!Join
  <2>1. \/ state = "WAITING_FOR_MASTER" /\ state' = "WAITING_FOR_SETUP"
        \/ state = "LOST_MASTER" /\ state' = "WAITING_FOR_START"
    BY <1>2, <1>8 DEF SeatMatchesState, RegisterMaster, BecomeMaster, Rejoins
  <2>2. Phase' = Phase
    BY <1>1, <1>8, <2>1 DEF PhaseIs, RegisterMaster, RunningState
  <2> QED
    BY <1>8, <2>2 DEF RegisterMaster, BecomeMaster, play, Session!Join, Session!game
<1>9. ASSUME NEW c \in MasterConn, TakeOver(c) PROVE Session!TakeOver
  <2>1. \/ state \in {"WAITING_FOR_SETUP", "END"} /\ state' = "WAITING_FOR_SETUP"
        \/ state \in {"WAITING_FOR_START", "PLAYING"} /\ state' = "WAITING_FOR_START"
    BY <1>2, <1>9 DEF State, SeatMatchesState, TakeOver, BecomeMaster, Rejoins,
       StateWithoutMaster, PreviousWithoutMaster
  <2>2. CASE state = "END"
    <3>1. Phase = "over" /\ Phase' = "none"
      BY <1>1, <2>1, <2>2 DEF PhaseIs
    <3> QED
      BY <1>9, <2>2, <3>1 DEF TakeOver, BecomeMaster, ResetServerData, NoPoints,
         Session!TakeOver, Session!GoesOn, Session!Emptied
  <2>3. CASE state # "END"
    <3>1. Phase' = Phase /\ Phase # "over"
      BY <1>1, <1>9, <2>1, <2>3 DEF PhaseIs, TakeOver, RunningState
    <3> QED
      BY <1>9, <2>3, <3>1 DEF TakeOver, BecomeMaster, play, Session!TakeOver, Session!GoesOn, Session!game
  <2> QED
    BY <2>2, <2>3
<1> QED
  BY <1>4, <1>5, <1>6, <1>7, <1>8, <1>9 DEF Connections, SessionStep, Session!Next

----------------------------------------------------------------------------
(* The steps from setup to the end. *)

LEMMA SetupSession ==
  ASSUME SessionInv, Setup, SeatInv'
  PROVE  SessionStep
<1>1. PhaseIs /\ PhaseIs'
  BY PhaseLemma, NextPhaseLemma DEF SessionInv
<1>2. points \in [Team -> Points]
  BY DEF SessionInv, PlayInv, PlayTypeOK
<1>3. ASSUME NEW ts, NEW saved, NEW stored, NEW isNew, SetupGame(ts, saved, stored, isNew)
      PROVE  SessionStep
  <2>1. CASE TeamsOk(ts)
    <3>1. Phase = "none" /\ Phase' = "ready"
      BY <1>1, <1>3, <2>1 DEF PhaseIs, SetupGame, RunningState
    <3> QED
      BY <1>3, <2>1, <3>1 DEF SetupGame, TeamsOk, SomeTwo, seat,
         SessionStep, Session!Next, Session!SetUp, Session!EnoughTeams
  <2>2. CASE ~TeamsOk(ts)
    BY <1>3, <2>2, BoardStep DEF SetupGame, seat, SessionStep, Session!Next
  <2> QED
    BY <2>1, <2>2
<1>4. ASSUME NEW ts \in SUBSET Team, UpdateTeams(ts)
      PROVE  Session!PlayOn
  <2>1. CASE TeamsOk(ts)
    <3>1. UNCHANGED Phase /\ Phase \in {"ready", "started"} /\ UNCHANGED master /\ master # None
      BY <1>1, <1>4, SamePhase DEF UpdateTeams, PhaseIs, RunningState, seat
    <3>2. teams' = ts /\ points' = PointsOf(ts)
      BY <1>4, <2>1 DEF UpdateTeams
    <3>3. \E t, u \in teams' : t # u
      BY <2>1, <3>2 DEF TeamsOk, SomeTwo
    <3>4. \A t \in Team : points'[t] = IF t \in ts THEN points[t] ELSE 0
      BY <3>2 DEF PointsOf
    <3>5. \A t \in Team \ teams : points'[t] = points[t]
      BY <3>4 DEF SessionInv, OnlyTeamsScore
    <3>6. teams \subseteq Team
      BY DEF SessionInv, PlayInv, PlayTypeOK
    <3> QED
      BY <3>1, <3>2, <3>3, <3>4, <3>5, <3>6 DEF Session!PlayOn, Session!EnoughTeams
  <2>2. CASE ~TeamsOk(ts)
    BY <1>4, <2>2, BoardStep DEF UpdateTeams, seat
  <2> QED
    BY <2>1, <2>2
<1>5. ASSUME StartGame PROVE SessionStep
  <2>1. Phase = (IF started THEN "started" ELSE "ready") /\ Phase' = "started"
    BY <1>1, <1>5 DEF PhaseIs, StartGame, RunningState
  <2>2. UNCHANGED <<master, teams, points>> /\ master # None
    BY <1>5 DEF StartGame, seat
  <2>3. CASE started
    BY <2>1, <2>2, <2>3 DEF SessionStep, Session!Next, Session!PlayOn
  <2>4. CASE ~started
    BY <2>1, <2>2, <2>4 DEF SessionStep, Session!Next, Session!Start
  <2> QED
    BY <2>3, <2>4
<1>6. ASSUME StartGameRefused PROVE Session!PlayOn
  BY <1>6, BoardStep DEF StartGameRefused, seat, play
<1>7. ASSUME EndGame PROVE Session!End
  <2>1. Phase' = "over"
    BY <1>1, <1>7 DEF PhaseIs, EndGame
  <2> QED
    BY <1>7, <2>1 DEF EndGame, seat, play, Session!End
<1>8. ASSUME ResetServer PROVE Session!Reset
  <2>1. Phase' = "none"
    BY <1>1, <1>8 DEF PhaseIs, ResetServer
  <2> QED
    BY <1>8, <2>1 DEF ResetServer, ResetServerData, NoPoints, seat, Session!Reset, Session!Emptied
<1> QED
  BY <1>3, <1>4, <1>5, <1>6, <1>7, <1>8 DEF Setup, SessionStep, Session!Next

----------------------------------------------------------------------------

LEMMA SessionRefined ==
  ASSUME SessionInv, [Next]_vars, SeatInv'
  PROVE  SessionStep
<1>1. CASE UNCHANGED vars
  BY <1>1, SamePhase DEF vars, automaton, seat, play, SessionStep, Session!vars, Session!game
<1>2. CASE Next
  BY <1>2, ConnectionsSession, SetupSession, PlaySession, OthersSession DEF Next, SessionStep, Session!Next
<1> QED
  BY <1>1, <1>2

\* The session alone sees to that only teams have points.
LEMMA OnlyTeamsScoreStep ==
  ASSUME SessionInv, SessionStep
  PROVE  OnlyTeamsScore'
<1>1. OnlyTeamsScore
  BY DEF SessionInv
<1>2. CASE UNCHANGED <<teams, points>>
  BY <1>1, <1>2 DEF OnlyTeamsScore
<1>3. CASE Session!Emptied
  BY <1>3 DEF OnlyTeamsScore, Session!Emptied
<1>4. CASE Session!PlayOn
  <2> SUFFICES ASSUME NEW t \in Team \ teams' PROVE points'[t] = 0
    BY DEF OnlyTeamsScore
  <2> QED
    BY <1>1, <1>4 DEF OnlyTeamsScore, Session!PlayOn
<1>5. CASE Session!SetUp
  BY <1>5 DEF OnlyTeamsScore, Session!SetUp
<1> QED
  BY <1>2, <1>3, <1>4, <1>5 DEF SessionStep, Session!Next, Session!vars, Session!game, Session!Leave,
     Session!Join, Session!TakeOver, Session!GoesOn, Session!Start, Session!End, Session!Reset

LEMMA SessionInvInit == Init => SessionInv /\ Session!Init
<1> SUFFICES ASSUME Init PROVE SessionInv /\ Session!Init
  OBVIOUS
<1>1. SeatInv /\ PlayInv
  BY SeatInit, PlayInvInit
<1>2. NoGameNoData /\ OnlyTeamsScore
  BY DEF Init, NoGameNoData, OnlyTeamsScore, NoPoints
<1>3. Session!Init
  <2>1. state = "WAITING_FOR_MASTER" /\ PhaseIs
    BY <1>1, PhaseLemma DEF Init
  <2>2. Phase = "none"
    BY <2>1 DEF PhaseIs
  <2> QED
    BY <2>2 DEF Init, NoPoints, Session!Init
<1> QED
  BY <1>1, <1>2, <1>3 DEF SessionInv

LEMMA SessionInvStep ==
  ASSUME SessionInv, [Next]_vars
  PROVE  SessionInv' /\ SessionStep
<1>1. SeatInv' /\ PlayInv' /\ NoGameNoData'
  BY SeatStep, PlayStep, NoGameStep DEF SessionInv
<1>2. SessionStep
  BY <1>1, SessionRefined
<1>3. OnlyTeamsScore'
  BY <1>2, OnlyTeamsScoreStep
<1> QED
  BY <1>1, <1>2, <1>3 DEF SessionInv

\* Whatever devices, screens and buzzers do, the server behaves like a session: its game belongs to
\* the one master, and outlives every change of the master unchanged.
THEOREM SessionImplemented == Spec => ImplementsSession
<1>1. Init => SessionInv /\ Session!Init
  BY SessionInvInit
<1>2. SessionInv /\ [Next]_vars => SessionInv' /\ [Session!Next]_(Session!vars)
  BY SessionInvStep DEF SessionStep
<1> QED
  BY <1>1, <1>2, PTL DEF Spec, ImplementsSession, Session!Spec
=============================================================================
