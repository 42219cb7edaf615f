---------------------------- MODULE GameService ----------------------------
(***************************************************************************)
(* The game server's automaton (server/services/game.service.ts): which    *)
(* device is the game master, the game that is set up and played, and who  *)
(* buzzed.  Node runs one handler at a time, so every packet, serial byte, *)
(* buzzer press and closed connection is one action.                       *)
(*                                                                         *)
(* `sent' is what the last step sent to each connection, in order; the     *)
(* modules that model the pages append it to their inboxes.                *)
(*                                                                         *)
(* A definition X_Fault is X with a plausible mistake.  Nothing uses it;   *)
(* the mutants in PROJECT.json put it in the place of X.                   *)
(***************************************************************************)
EXTENDS Integers, Sequences, FiniteSets

CONSTANTS
  MasterConn,    \* connections that master pages open
  ScreenConn,    \* connections that screen pages open
  None,          \* no connection, no device, no automaton state
  DeviceOf,      \* the device (masterId) of each master connection
  Team,          \* the teams there may be, one per buzzer
  UdpTeam,       \* those on wireless buzzers; the others are on the box
  LastQuestion,  \* questions are numbered from 0
  Answer,        \* answer options
  CorrectAnswer, \* those that are correct
  OptionsOf,     \* the answer options of each question
  Media,         \* media states: records [playing, fullscreen]
  InitialMedia,  \* initialConfig (or the default) of each question
  Playable,      \* the questions whose media is a video or audio
  Volume,        \* media volumes
  SavedGame,     \* the saved states a game may be continued from
  Worth,         \* the points a question is worth
  DoubleWorth,   \* what a double answer adds; 0 if the game has no double grade
  WrongCost,     \* what a wrong answer costs
  MaxPoints      \* bound: points stay within -MaxPoints .. MaxPoints

Conn     == MasterConn \cup ScreenConn
Question == 0 .. LastQuestion
Points   == -MaxPoints .. MaxPoints

NoMedia       == [playing |-> FALSE, fullscreen |-> FALSE]
DefaultVolume == CHOOSE v \in Volume : TRUE

\* IGameState, without the theme, the scoring and the name
Game == [question : Question, marked : SUBSET Team, logged : SUBSET Answer,
         activated : SUBSET Answer, lock : BOOLEAN, welcome : BOOLEAN,
         media : Media, volume : Volume]

ASSUME ConnAssumption ==
  /\ MasterConn \cap ScreenConn = {}
  /\ None \notin Conn
  /\ DOMAIN DeviceOf = MasterConn
  /\ \A c \in MasterConn : DeviceOf[c] # None

ASSUME DataAssumption ==
  /\ UdpTeam \subseteq Team
  /\ LastQuestion \in Nat /\ MaxPoints \in Nat
  /\ CorrectAnswer \subseteq Answer
  /\ OptionsOf \in [Question -> SUBSET Answer]
  /\ Media \subseteq [playing : BOOLEAN, fullscreen : BOOLEAN]
  /\ NoMedia \in Media
  /\ InitialMedia \in [Question -> Media]
  /\ \A m \in Media : \A p \in {m.playing, FALSE} : [playing |-> p, fullscreen |-> FALSE] \in Media
  /\ Volume # {}
  /\ SavedGame \subseteq [game : Game, points : [Team -> Points]]
  /\ Worth \in Nat /\ DoubleWorth \in Nat /\ WrongCost \in Nat

VARIABLES
  state,          \* currentStateInAutomaton
  previous,       \* previousStateInAutomaton
  master,         \* webSocketConnectionMaster
  lastMasterId,
  token,          \* the connection whose storage access token is valid
  open,           \* the connections that are open
  screens,        \* webSocketConnectionsScreens
  teams,
  points,         \* of each team; 0 for those that do not play
  questions,      \* how many questions the game has
  game,           \* currentGameState
  keypressLocked,
  resumesRunningGame,
  gameFinished,
  autosave,       \* "off", or whether the stored game is "saved" or "dirty"
  boxHeld,        \* the box locked itself on a press and was not released since
  sent,           \* what the last step sent to each connection
  started         \* history: the game that is set up was started already

automaton == <<state, previous, resumesRunningGame, gameFinished, started>>
seat      == <<master, lastMasterId, token, open>>
play      == <<teams, points, questions, game, keypressLocked>>
vars == <<automaton, seat, screens, play, autosave, boxHeld, sent>>

State == {"WAITING_FOR_MASTER", "WAITING_FOR_SETUP", "WAITING_FOR_START",
          "PLAYING", "LOST_MASTER", "END"}

RunningState == {"WAITING_FOR_START", "PLAYING", "LOST_MASTER"}
SetUpState   == RunningState \cup {"END"}

isGameRunning == state \in RunningState

ServerTypeOK ==
  /\ state \in State
  /\ previous \in State \cup {None}
  /\ resumesRunningGame \in BOOLEAN /\ gameFinished \in BOOLEAN /\ started \in BOOLEAN
  /\ master \in MasterConn \cup {None}
  /\ lastMasterId \in {DeviceOf[c] : c \in MasterConn} \cup {None}
  /\ token \in MasterConn \cup {None}
  /\ open \subseteq Conn
  /\ screens \subseteq ScreenConn
  /\ autosave \in {"off", "saved", "dirty"}
  /\ boxHeld \in BOOLEAN

PlayTypeOK ==
  /\ teams \subseteq Team
  /\ points \in [Team -> Points]
  /\ questions \in {0, LastQuestion + 1}
  /\ game \in Game
  /\ keypressLocked \in BOOLEAN

TypeOK == ServerTypeOK /\ PlayTypeOK

----------------------------------------------------------------------------
(* Packets and who gets them. *)

UnmarkAllPacket      == [type |-> "MARK_TEAM", unmarkAll |-> TRUE]
MarkTeamPacket(t, b) == [type |-> "MARK_TEAM", unmarkAll |-> FALSE, team |-> t, mark |-> b]
BuzzerLockPacket(b)  == [type |-> "SET_BUZZER_LOCK", setLock |-> b]
MediaStatePacket(m)  == [type |-> "UPDATE_MEDIA_STATE", media |-> m]
VolumePacket(v)      == [type |-> "SET_MEDIA_VOLUME", volume |-> v]
PointsPacket(t, p)   == [type |-> "TEAM_SET_POINTS", team |-> t, total |-> p]
\* one packet for each of the answers
AnswersPacket(s, as) == [type |-> "ANSWER_SET_STATE", answerState |-> s, answers |-> as]
SetQuestionPacket(q) == [type |-> "SET_QUESTION", set |-> q]
GradePacket(t, r)    == [type |-> "GRADE_ANSWER", team |-> t, result |-> r]
TeamsPacket(ts, ps)  == [type |-> "UPDATE_TEAMS", teams |-> ts, points |-> ps]
ResponsePacket(to, ok) == [type |-> "RESPONSE_PACKET", responseTo |-> to, wasSuccessful |-> ok]
Packet(type)         == [type |-> type]
\* makeInitDataForScreen
DataForScreen == [type |-> "DATA_FOR_SCREEN", teams |-> teams, points |-> points, game |-> game]
NewMasterAccepted == [DataForScreen EXCEPT !.type = "NEW_MASTER_ACCEPTED"]

\* sendToMaster and sendToAllScreens
Tell(toMaster, toScreens) ==
  sent' = [c \in Conn |-> CASE c = master   -> toMaster
                            [] c \in screens -> toScreens
                            [] OTHER         -> <<>>]
TellOne(c, packets) == sent' = [x \in Conn |-> IF x = c THEN packets ELSE <<>>]
TellAll(packets) == Tell(packets, packets)
TellNobody == sent' = [c \in Conn |-> <<>>]

\* AutosaveService.changed(), which onNewConnection() and onSerialDataIn() call
\* after every packet and byte if the game is set up
Changed_WhileRunning == autosave' = IF autosave # "off" /\ state' \in RunningState THEN "dirty" ELSE autosave
Changed == autosave' = IF autosave # "off" /\ state' \in SetUpState THEN "dirty" ELSE autosave

----------------------------------------------------------------------------
(* What several handlers do to the game. *)

NoPoints == [t \in Team |-> 0]

\* makeInitialGameState
InitialGame(locked) ==
  [question |-> 0, marked |-> {}, logged |-> {}, activated |-> {}, lock |-> locked,
   welcome |-> FALSE, media |-> NoMedia, volume |-> DefaultVolume]

SomeTwo(ts) == \E t, u \in ts : t # u
isMixed(ts) == ts \cap UdpTeam # {} /\ ts \ UdpTeam # {}
TeamsOk(ts) == SomeTwo(ts) /\ ~isMixed(ts)

\* unmarkAllTeams, setKeypressLocked(false) and releaseHardwareBuzzerLock
Released(g) == [g EXCEPT !.marked = {}, !.lock = FALSE]
ReleasePackets_StayMarked == <<BuzzerLockPacket(FALSE)>>
ReleasePackets == <<UnmarkAllPacket, BuzzerLockPacket(FALSE)>>
FreeBuzzers == keypressLocked' = FALSE /\ boxHeld' = FALSE

\* the answer options of the current question
Options == IF questions = 0 THEN {} ELSE OptionsOf[game.question]

\* GameStateHelper.applyAnswerState
ApplyAnswers(g, s, as) ==
  [g EXCEPT !.logged = IF s = "LOG_IN" THEN @ \cup as ELSE @ \ as,
            !.activated = IF s = "ACTIVATE" THEN @ \cup as ELSE @]

\* GameStateHelper.areAllCorrectAnswersActivated
Solved(g) ==
  LET correct == Options \cap CorrectAnswer
  IN  correct # {} /\ correct \subseteq g.activated

ResetServerData_KeepsSaving ==
  /\ UNCHANGED autosave
  /\ teams' = {} /\ points' = NoPoints /\ questions' = 0
  /\ game' = InitialGame(FALSE)
  /\ FreeBuzzers

\* resetServerData, without resumesRunningGame
ResetServerData ==
  /\ autosave' = "off"
  /\ teams' = {} /\ points' = NoPoints /\ questions' = 0
  /\ game' = InitialGame(FALSE)
  /\ FreeBuzzers

\* lockOnTeam: the first press locks all buzzers and pauses a playing video or audio
LockOnTeam(t) ==
  LET paused == [playing |-> game.media.playing /\ (questions = 0 \/ game.question \notin Playable),
                 fullscreen |-> FALSE]
      press  == <<MarkTeamPacket(t, TRUE), BuzzerLockPacket(TRUE)>>
  IN  /\ keypressLocked' = TRUE
      /\ game' = [game EXCEPT !.lock = TRUE, !.marked = @ \cup {t}, !.media = paused]
      /\ Tell(Append(press, MediaStatePacket(paused)), <<MediaStatePacket(paused)>> \o press)

Init ==
  /\ state = "WAITING_FOR_MASTER" /\ previous = None
  /\ master = None /\ lastMasterId = None /\ token = None
  /\ open = {} /\ screens = {}
  /\ teams = {} /\ points = NoPoints /\ questions = 0
  /\ game = InitialGame(FALSE) /\ keypressLocked = FALSE
  /\ resumesRunningGame = FALSE /\ gameFinished = FALSE /\ started = FALSE
  /\ autosave = "off" /\ boxHeld = FALSE
  /\ sent = [c \in Conn |-> <<>>]

----------------------------------------------------------------------------
(* Connections, and who is the master. *)

Connect(c) ==
  /\ c \notin open
  /\ open' = open \cup {c}
  /\ TellNobody
  /\ UNCHANGED <<automaton, master, lastMasterId, token, screens, play, autosave, boxHeld>>

CloseOther(c) ==
  /\ c \in open /\ c # master
  /\ open' = open \ {c} /\ screens' = screens \ {c}
  /\ TellNobody
  /\ UNCHANGED <<automaton, master, lastMasterId, token, play, autosave, boxHeld>>

\* what onMasterConnectionDestroy makes of the two automaton states
StateWithoutMaster_OnlyPlayingIsLost == IF state = "PLAYING" THEN "LOST_MASTER" ELSE "WAITING_FOR_MASTER"
StateWithoutMaster == IF state \in {"WAITING_FOR_SETUP", "END"} THEN "WAITING_FOR_MASTER"
                                                                ELSE "LOST_MASTER"
PreviousWithoutMaster == IF state = "END" THEN None ELSE state

CloseMaster ==
  /\ master # None
  /\ open' = open \ {master}
  /\ master' = None /\ token' = None
  /\ state' = StateWithoutMaster /\ previous' = PreviousWithoutMaster
  /\ \/ /\ state = "END"
        /\ ResetServerData
        /\ resumesRunningGame' = FALSE /\ started' = FALSE
        /\ Tell(<<>>, <<BuzzerLockPacket(FALSE), Packet("RESET_SERVER")>>)
     \/ /\ state # "END"
        /\ TellNobody
        /\ UNCHANGED <<resumesRunningGame, started, play, autosave, boxHeld>>
  /\ UNCHANGED <<gameFinished, lastMasterId, screens>>

\* a game that was set up goes on once its lost master, or another one, is there
Rejoins(s, p) == s = "LOST_MASTER" /\ p \in {"WAITING_FOR_START", "PLAYING"}

\* the packets a device gets that becomes the master while the automaton is in s, after p
Welcome(s, p) ==
  <<Packet("STORAGE_ACCESS")>> \o
  CASE s = "WAITING_FOR_MASTER" ->
         <<ResponsePacket("REGISTER_MASTER", TRUE), Packet("PRESETUP_AVAILABLE_INFO")>>
    [] Rejoins(s, p) -> <<NewMasterAccepted>>
    [] OTHER -> <<>>

\* a master leaving again before restarting keeps resuming the running game
Resumes_OnlyOnce(s, p) == s = "LOST_MASTER" /\ p = "PLAYING"
Resumes(s, p) == \/ s = "LOST_MASTER" /\ p = "PLAYING"
                 \/ resumesRunningGame /\ state # "END"

\* c becomes the master while the automaton is in s, after p
BecomeMaster(c, s, p) ==
  LET next == CASE s = "WAITING_FOR_MASTER" -> "WAITING_FOR_SETUP"
                [] Rejoins(s, p) -> "WAITING_FOR_START"
                [] OTHER -> s
  IN  /\ master' = c /\ token' = c /\ lastMasterId' = DeviceOf[c]
      /\ state' = next
      /\ previous' = IF next = s THEN p ELSE s
      /\ resumesRunningGame' = Resumes(s, p)

RegisterAgain(c) ==
  /\ c = master
  /\ Tell(<<ResponsePacket("REGISTER_MASTER", TRUE)>> \o
          (IF state = "WAITING_FOR_SETUP" THEN <<Packet("PRESETUP_AVAILABLE_INFO")>> ELSE <<>>), <<>>)
  /\ UNCHANGED <<automaton, seat, screens, play, boxHeld>>
  /\ Changed

mayBecomeMaster(c, takeOver) ==
  state # "LOST_MASTER" \/ takeOver \/ DeviceOf[c] = lastMasterId

RegisterMaster(c, takeOver) ==
  /\ c \in open /\ master = None
  /\ mayBecomeMaster(c, takeOver)
  /\ BecomeMaster(c, state, previous)
  /\ TellOne(c, Welcome(state, previous))
  /\ UNCHANGED <<gameFinished, started, open, screens, play, boxHeld>>
  /\ Changed

\* dropMaster, then the seat is free for c
TakeOver(c) ==
  /\ c \in open /\ master \notin {None, c}
  /\ BecomeMaster(c, StateWithoutMaster, PreviousWithoutMaster)
  /\ sent' = [x \in Conn |-> CASE x = c -> Welcome(StateWithoutMaster, PreviousWithoutMaster)
                               [] x = master -> <<Packet("MASTER_TAKEN_OVER")>>
                               [] x \in screens /\ state = "END" ->
                                    <<BuzzerLockPacket(FALSE), Packet("RESET_SERVER")>>
                               [] OTHER -> <<>>]
  /\ \/ state = "END" /\ ResetServerData /\ started' = FALSE
     \/ state # "END" /\ Changed /\ UNCHANGED <<started, play, boxHeld>>
  /\ UNCHANGED <<gameFinished, open, screens>>

RefuseMaster(c, takeOver) ==
  /\ c \in open /\ c # master
  /\ IF master = None THEN ~mayBecomeMaster(c, takeOver) ELSE ~takeOver
  /\ open' = open \ {c}
  /\ TellOne(c, <<ResponsePacket("REGISTER_MASTER", FALSE)>>)
  /\ UNCHANGED <<automaton, master, lastMasterId, token, screens, play, boxHeld>>
  /\ Changed

\* what a screen gets at once; one that joins without a game waits for its setup
ScreenGets_NotIfLost == IF isGameRunning /\ master # None THEN <<DataForScreen>> ELSE <<>>
ScreenGets == IF isGameRunning THEN <<DataForScreen>> ELSE <<>>

RegisterScreen(c) ==
  /\ c \in open
  /\ screens' = screens \cup {c}
  /\ TellOne(c, ScreenGets)
  /\ UNCHANGED <<automaton, seat, play, boxHeld>>
  /\ Changed

----------------------------------------------------------------------------
(* The packets only the master may send. *)

\* a game continues, with the marked teams that still play, or is new and may welcome first;
\* a savegame can't lock the buzzers
GameToSetUp_SavedLock(ts, saved, isNew) ==
  IF saved = None THEN [InitialGame(keypressLocked) EXCEPT !.welcome = isNew]
                  ELSE [saved.game EXCEPT !.marked = @ \cap ts]
GameToSetUp(ts, saved, isNew) ==
  IF saved = None
  THEN [InitialGame(keypressLocked) EXCEPT !.welcome = isNew]
  ELSE [saved.game EXCEPT !.lock = keypressLocked, !.marked = @ \cap ts]

SetupGame(ts, saved, stored, isNew) ==
  /\ master # None /\ state = "WAITING_FOR_SETUP"
  /\ IF TeamsOk(ts)
     THEN /\ teams' = ts
          /\ points' = [t \in Team |-> IF saved = None \/ t \notin ts THEN 0 ELSE saved.points[t]]
          /\ questions' = LastQuestion + 1
          /\ game' = GameToSetUp(ts, saved, isNew)
          /\ state' = "WAITING_FOR_START" /\ previous' = state
          /\ resumesRunningGame' = FALSE /\ gameFinished' = FALSE /\ started' = FALSE
          /\ autosave' = IF stored THEN "dirty" ELSE "off"
     ELSE UNCHANGED <<automaton, teams, points, questions, game, autosave>>
  /\ Tell(<<ResponsePacket("SETUP_GAME", TeamsOk(ts))>>, <<DataForScreen'>>)
  /\ UNCHANGED <<seat, screens, keypressLocked, boxHeld>>

\* how the first question, or the welcome screen, is shown by START_GAME
FirstMedia_Restarts == IF game.welcome THEN NoMedia ELSE InitialMedia[game.question]
FirstMedia == CASE resumesRunningGame -> game.media
                [] game.welcome /\ ~resumesRunningGame -> NoMedia
                [] OTHER -> InitialMedia[game.question]

StartGame ==
  /\ master # None /\ state = "WAITING_FOR_START"
  /\ state' = "PLAYING" /\ previous' = state /\ resumesRunningGame' = FALSE /\ started' = TRUE
  /\ LET locks == game.welcome /\ ~resumesRunningGame
         packets == (IF locks THEN <<BuzzerLockPacket(TRUE)>> ELSE <<>>) \o <<MediaStatePacket(FirstMedia)>>
     IN  /\ keypressLocked' = (locks \/ keypressLocked)
         /\ game' = [game EXCEPT !.lock = locks \/ @, !.media = FirstMedia]
         /\ Tell(<<ResponsePacket("START_GAME", TRUE)>> \o packets, packets)
  /\ UNCHANGED <<gameFinished, seat, screens, teams, points, questions, boxHeld>>
  /\ Changed

StartGameRefused ==
  /\ master # None /\ state # "WAITING_FOR_START"
  /\ Tell(<<ResponsePacket("START_GAME", FALSE)>>, <<>>)
  /\ UNCHANGED <<automaton, seat, screens, play, boxHeld>>
  /\ Changed

TeamSetPoints(t, p) ==
  /\ master # None
  /\ points' = IF t \in teams THEN [points EXCEPT ![t] = p] ELSE points
  /\ Tell(<<>>, <<PointsPacket(t, p)>>)
  /\ UNCHANGED <<automaton, seat, screens, teams, questions, game, keypressLocked, boxHeld>>
  /\ Changed

\* ScoringHelper.getPointsChange
PointsChange(result) == CASE result = "RIGHT"  -> Worth
                          [] result = "DOUBLE" -> DoubleWorth
                          [] result = "WRONG"  -> -WrongCost

\* a is the answer option the master picked, or None
GradeAnswer(t, result, a, reveal) ==
  LET wrong     == result = "WRONG"
      total     == points[t] + PointsChange(result)
      shown     == CASE a \in Options -> {a}
                     [] a \notin Options /\ ~wrong /\ reveal -> Options \cap CorrectAnswer
                     [] OTHER -> {}
      revealed  == shown \ game.activated
      graded    == ApplyAnswers(game, "ACTIVATE", revealed)
  IN  /\ master # None
      /\ t \in teams
      /\ result = "DOUBLE" => DoubleWorth > 0
      /\ total \in Points
      /\ points' = [points EXCEPT ![t] = total]
      /\ IF wrong THEN game' = Released(graded) /\ FreeBuzzers
                  ELSE game' = graded /\ UNCHANGED <<keypressLocked, boxHeld>>
      /\ TellAll(<<PointsPacket(t, total), AnswersPacket("ACTIVATE", revealed)>>
                 \o (IF wrong THEN ReleasePackets ELSE <<>>) \o <<GradePacket(t, result)>>)
      /\ UNCHANGED <<automaton, seat, screens, teams, questions>>
      /\ Changed

\* teams that stay keep their points, new ones start with none
PointsOf(ts) == [t \in Team |-> IF t \in ts THEN points[t] ELSE 0]

UpdateTeams(ts) ==
  /\ master # None /\ state \in {"WAITING_FOR_START", "PLAYING"}
  /\ IF TeamsOk(ts)
     THEN LET removesMarked == ~(game.marked \subseteq ts)
          IN  /\ teams' = ts /\ points' = PointsOf(ts)
              /\ IF removesMarked THEN game' = Released(game) /\ FreeBuzzers
                                  ELSE UNCHANGED <<game, keypressLocked, boxHeld>>
              /\ TellAll((IF removesMarked THEN ReleasePackets ELSE <<>>) \o <<TeamsPacket(ts, PointsOf(ts))>>)
     ELSE /\ Tell(<<TeamsPacket(teams, points)>>, <<>>)
          /\ UNCHANGED <<teams, points, game, keypressLocked, boxHeld>>
  /\ UNCHANGED <<automaton, seat, screens, questions>>
  /\ Changed

\* once all correct answers are revealed the question is done, so the buzzers stay locked
FreesBuzzers_Always(s, answered) == s = "ACTIVATE"
FreesBuzzers(s, answered) == s = "ACTIVATE" /\ ~Solved(answered)

AnswerSetState(s, a) ==
  LET answered == ApplyAnswers(game, s, {a})
      frees    == FreesBuzzers(s, answered)
      release  == IF frees THEN ReleasePackets ELSE <<>>
  IN  /\ master # None
      /\ IF frees THEN game' = Released(answered) /\ FreeBuzzers
                  ELSE game' = answered /\ UNCHANGED <<keypressLocked, boxHeld>>
      /\ Tell(release, Append(release, AnswersPacket(s, {a})))
      /\ UNCHANGED <<automaton, seat, screens, teams, points, questions>>
      /\ Changed

\* without questions the handler fails before it sets the media, and nothing is saved
SetQuestion(q) ==
  LET asked == [game EXCEPT !.welcome = FALSE, !.lock = FALSE,
                            !.question = IF questions = 0 THEN @ ELSE q,
                            !.marked = {}, !.logged = {}, !.activated = {}]
      lock  == BuzzerLockPacket(FALSE)
  IN  /\ master # None
      /\ FreeBuzzers
      /\ UNCHANGED <<automaton, seat, screens, teams, points, questions>>
      /\ IF questions = 0
         THEN /\ game' = asked
              /\ Tell(<<lock>>, <<lock, SetQuestionPacket(q)>>)
              /\ UNCHANGED autosave
         ELSE /\ game' = [asked EXCEPT !.media = InitialMedia[q]]
              /\ Tell(<<lock, MediaStatePacket(InitialMedia[q])>>,
                      <<lock, SetQuestionPacket(q), MediaStatePacket(InitialMedia[q])>>)
              /\ Changed

EndGame ==
  /\ master # None
  /\ state' = "END" /\ previous' = state /\ gameFinished' = TRUE
  /\ Tell(<<>>, <<Packet("END_GAME")>>)
  /\ UNCHANGED <<resumesRunningGame, started, seat, screens, play, boxHeld>>
  /\ Changed

\* whether the state is saved or discarded is up to AutosaveService
ResetServer ==
  /\ master # None
  /\ state' = "WAITING_FOR_SETUP" /\ previous' = state
  /\ ResetServerData
  /\ resumesRunningGame' = FALSE /\ started' = FALSE
  /\ Tell(<<Packet("PRESETUP_AVAILABLE_INFO"), BuzzerLockPacket(FALSE)>>,
          <<Packet("RESET_SERVER"), BuzzerLockPacket(FALSE)>>)
  /\ UNCHANGED <<gameFinished, seat, screens>>

\* the team may be gone by now: the handler marks any
MarkTeam(t, mark) ==
  /\ master # None
  /\ game' = [game EXCEPT !.marked = IF mark THEN @ \cup {t} ELSE @ \ {t}]
  /\ TellAll(<<MarkTeamPacket(t, mark)>>)
  /\ UNCHANGED <<automaton, seat, screens, teams, points, questions, keypressLocked, boxHeld>>
  /\ Changed

UnmarkAllTeams ==
  /\ master # None
  /\ game' = [game EXCEPT !.marked = {}]
  /\ TellAll(<<UnmarkAllPacket>>)
  /\ UNCHANGED <<automaton, seat, screens, teams, points, questions, keypressLocked, boxHeld>>
  /\ Changed

SetBuzzerLock(setLock) ==
  /\ master # None
  /\ IF setLock THEN /\ keypressLocked' = TRUE /\ game' = [game EXCEPT !.lock = TRUE]
                     /\ TellAll(<<BuzzerLockPacket(TRUE)>>)
                     /\ UNCHANGED boxHeld
                ELSE FreeBuzzers /\ game' = Released(game) /\ TellAll(ReleasePackets)
  /\ UNCHANGED <<automaton, seat, screens, teams, points, questions>>
  /\ Changed

SetMediaVolume(v) ==
  /\ master # None
  /\ game' = [game EXCEPT !.volume = v]
  /\ TellAll(<<VolumePacket(v)>>)
  /\ UNCHANGED <<automaton, seat, screens, teams, points, questions, keypressLocked, boxHeld>>
  /\ Changed

----------------------------------------------------------------------------
(* The packets anyone may send, the buzzers, and the other services. *)

UpdateMediaState(m) ==
  /\ open # {}
  /\ game' = [game EXCEPT !.media = m]
  /\ TellAll(<<MediaStatePacket(m)>>)
  /\ UNCHANGED <<automaton, seat, screens, teams, points, questions, keypressLocked, boxHeld>>
  /\ Changed

\* a packet that is ignored: of the master's kind from another connection, a game set up
\* or teams changed in the wrong state, a grade of no team, a key of no team, ...
IgnorePacket ==
  /\ open # {}
  /\ TellNobody
  /\ UNCHANGED <<automaton, seat, screens, play, boxHeld>>
  /\ Changed

KeypressRelease ==
  /\ open # {}
  /\ FreeBuzzers /\ game' = Released(game)
  /\ TellAll(<<BuzzerLockPacket(FALSE), UnmarkAllPacket>>)
  /\ UNCHANGED <<automaton, seat, screens, teams, points, questions>>
  /\ Changed

\* getTeamForByteOrKeyPressCode: only the box's own buzzers have a code
TeamsWithCode == teams \ UdpTeam

KeypressTeam(t) ==
  /\ open # {} /\ ~keypressLocked /\ t \in TeamsWithCode
  /\ LockOnTeam(t)
  /\ UNCHANGED <<automaton, seat, screens, teams, points, questions, boxHeld>>
  /\ Changed

\* the box was released at the box itself
SerialRelease ==
  /\ FreeBuzzers /\ game' = Released(game)
  /\ TellAll(ReleasePackets)
  /\ UNCHANGED <<automaton, seat, screens, teams, points, questions>>
  /\ Changed

\* a buzzer of the box, which locks itself, whether it has a team or not
SerialPress(t) ==
  /\ t \in Team \ UdpTeam
  /\ boxHeld' = TRUE
  /\ IF ~keypressLocked /\ t \in TeamsWithCode
     THEN LockOnTeam(t)
     ELSE TellNobody /\ UNCHANGED <<game, keypressLocked>>
  /\ UNCHANGED <<automaton, seat, screens, teams, points, questions>>
  /\ Changed

\* the wireless buzzers pressed within the collection window, the earliest first
UdpBuzzerPress_AlsoLocked(pressed) ==
  /\ \E i \in DOMAIN pressed :
       /\ pressed[i] \in teams
       /\ \A j \in 1 .. i - 1 : pressed[j] \notin teams
       /\ LockOnTeam(pressed[i])
  /\ UNCHANGED <<automaton, seat, screens, teams, points, questions, boxHeld>>
  /\ Changed
UdpBuzzerPress(pressed) ==
  /\ ~keypressLocked
  /\ \E i \in DOMAIN pressed :
       /\ pressed[i] \in teams
       /\ \A j \in 1 .. i - 1 : pressed[j] \notin teams
       /\ LockOnTeam(pressed[i])
  /\ UNCHANGED <<automaton, seat, screens, teams, points, questions, boxHeld>>
  /\ Changed

\* a buzzer got another color, which its team then has
BuzzerColorChanged ==
  /\ teams # {}
  /\ TellAll(<<TeamsPacket(teams, points)>>)
  /\ UNCHANGED <<automaton, seat, screens, play, boxHeld>>
  /\ Changed

\* AutosaveService wrote the state; see Autosave
StateSaved ==
  /\ autosave = "dirty" /\ autosave' = "saved"
  /\ TellNobody
  /\ UNCHANGED <<automaton, seat, screens, play, boxHeld>>

----------------------------------------------------------------------------
(* What may happen next: who asks for what, and the buzzers. *)

Connections ==
  \/ \E c \in Conn : Connect(c) \/ CloseOther(c)
  \/ CloseMaster
  \/ \E c \in MasterConn, takeOver \in BOOLEAN :
       RegisterMaster(c, takeOver) \/ RefuseMaster(c, takeOver)
  \/ \E c \in MasterConn : RegisterAgain(c) \/ TakeOver(c)
  \/ \E c \in ScreenConn : RegisterScreen(c)

Setup ==
  \/ \E ts \in SUBSET Team, saved \in SavedGame \cup {None}, stored, isNew \in BOOLEAN :
       SetupGame(ts, saved, stored, isNew)
  \/ \E ts \in SUBSET Team : UpdateTeams(ts)
  \/ StartGame \/ StartGameRefused \/ EndGame \/ ResetServer

Play ==
  \/ \E t \in Team :
       \/ \E p \in Points : TeamSetPoints(t, p)
       \/ \E r \in {"RIGHT", "DOUBLE", "WRONG"}, a \in Answer \cup {None}, reveal \in BOOLEAN :
            GradeAnswer(t, r, a, reveal)
       \/ \E mark \in BOOLEAN : MarkTeam(t, mark)
  \/ UnmarkAllTeams
  \/ \E a \in Answer, s \in {"LOG_IN", "LOG_OUT", "ACTIVATE"} : AnswerSetState(s, a)
  \/ \E q \in Question : SetQuestion(q)
  \/ \E setLock \in BOOLEAN : SetBuzzerLock(setLock)
  \/ \E v \in Volume : SetMediaVolume(v)
  \/ \E m \in Media : UpdateMediaState(m)

Buzzers ==
  \/ KeypressRelease \/ SerialRelease
  \/ \E t \in Team : KeypressTeam(t) \/ SerialPress(t)
  \/ \E t, u \in UdpTeam : UdpBuzzerPress(<<t>>) \/ UdpBuzzerPress(<<t, u>>)

Next ==
  \/ Connections \/ Setup \/ Play \/ Buzzers
  \/ IgnorePacket \/ BuzzerColorChanged \/ StateSaved

Spec == Init /\ [][Next]_vars

----------------------------------------------------------------------------
(* What must hold. *)

\* The automaton's state says whether there is a master (onRegisterMasterPacket,
\* onMasterConnectionDestroy): a game without its master is LOST_MASTER and remembers that it was
\* being started or played; storage access is the master's, whose connection is open.
SeatMatchesState ==
  /\ master = None <=> state \in {"WAITING_FOR_MASTER", "LOST_MASTER"}
  /\ token = master
  /\ master \in open \cup {None}
  /\ state = "LOST_MASTER" => previous \in {"WAITING_FOR_START", "PLAYING"}

\* What screens and masters are told of the buzzer lock is what decides whether presses count,
\* also after a game that was saved with another lock is continued (setKeypressLocked, onSetupGamePackage).
LockAgrees == game.lock = keypressLocked

\* Once a game was reset nothing of it is left, and nothing writes its saved state any more
\* (resetServerData, from RESET_SERVER or the end of the master's connection).
NoGameNoData ==
  state \in {"WAITING_FOR_MASTER", "WAITING_FOR_SETUP"} =>
    teams = {} /\ points = NoPoints /\ questions = 0 /\ autosave = "off"

\* resumesRunningGame is what it says through any number of masters coming and going: a game that
\* waits for its start is resumed iff it was started before; a running game's save is not a finished one.
ResumesStartedGame ==
  /\ state = "WAITING_FOR_START" => resumesRunningGame = started
  /\ state = "LOST_MASTER" => (started <=> resumesRunningGame \/ previous = "PLAYING")
  /\ state = "PLAYING" => started /\ ~resumesRunningGame
  /\ isGameRunning => ~gameFinished

\* Only its master ends or resets a running game: it outlives lost connections, takeovers and
\* devices that are refused (onMasterConnectionDestroy, dropMaster).
RunningGameSurvives ==
  [][isGameRunning /\ ~isGameRunning' => master # None /\ master' = master]_vars

\* The game a master rejoins, or takes over, goes on as it is, and so it does when it is started
\* again (onRegisterMasterPacket, onStartGamePacket).
ResumeKeepsGame ==
  [][(isGameRunning /\ isGameRunning')
       /\ (master' # master \/ (started /\ state # state'))
     => UNCHANGED play]_vars

\* A buzzer press counts once: while the buzzers are locked only the master marks a team
\* (onUdpBuzzerPress, onSerialByteIn, onKeypressOnScreenPacket).
OneTeamPerLock ==
  [][keypressLocked /\ ~(game'.marked \subseteq game.marked) =>
       \/ \E t \in Team : MarkTeam(t, TRUE)
       \/ state = "WAITING_FOR_SETUP"]_vars

\* Unlocking always releases the box, which locked itself (releaseHardwareBuzzerLock).
UnlockFreesBox == [][keypressLocked /\ ~keypressLocked' => ~boxHeld']_vars

\* Revealing the last correct answer keeps the buzzers locked (onAnswerSetStatePacket; a right
\* grade does as well, onGradeAnswerPacket).
SolvedStaysLocked ==
  [][keypressLocked /\ ~Solved(game) /\ Solved(game)' /\ (\A t \in Team : points'[t] >= points[t])
     => keypressLocked']_vars

\* Whatever is saved of a stored game is written after it changed, in whatever way, up to its
\* end and past it (onNewConnection, onSerialDataIn, onUdpBuzzerPress: AutosaveService.changed()).
ChangesAreSaved ==
  [][autosave # "off" /\ autosave' # "off" /\ <<teams, points, game, gameFinished>>' # <<teams, points, game, gameFinished>>
     => autosave' = "dirty"]_vars

=============================================================================
