----------------------------- MODULE MediaShow -----------------------------
(***************************************************************************)
(* The media of the questions: the server, which keeps what is shown       *)
(* (services/game.service.ts), the master's page with its question pane    *)
(* and its remote control, and the players on the screens' pages (client/  *)
(* src/app/shared/play-ui).  Each page applies its changes to its own copy *)
(* of the media's state and sends the whole state; a screen sends one when *)
(* its player ended.  Nothing is lost on a connection while it holds.      *)
(*                                                                         *)
(* Left out: the volume (a single value, set as a whole), the browser's    *)
(* mute fallback, and the teams, which a press stands for.                 *)
(***************************************************************************)
EXTENDS Naturals, Sequences, FiniteSets

CONSTANTS
  Screen, Master,  \* the pages
  Kind,            \* what the media of each question is
  Config,          \* initialConfig: how each question starts
  LastSlide,       \* of the slideshows
  Underway         \* bound: the packets of a page, and the pages with packets, on their way when something new happens

Page == Screen \cup {Master}
Question == DOMAIN Kind
MediaState == {"NO_MEDIA", "HIDDEN", "PLAYING", "PAUSED", "RESET", "FINISHED"}
Visibility == {"SHOWN", "HIDDEN", "WAIT_FOR_MEDIA"}
Media == [state : MediaState, question : Visibility, answers : Visibility, fullscreen : BOOLEAN, slide : 0..LastSlide]

\* the questions are counted from 0, and each starts as the game's author chose
ASSUME MediaAssumption ==
  /\ Master \notin Screen /\ LastSlide \in Nat
  /\ 0 \in Question /\ Question \subseteq Nat
  /\ Config \in [Question -> Media]

NoMedia == [state |-> "NO_MEDIA", question |-> "SHOWN", answers |-> "WAIT_FOR_MEDIA", fullscreen |-> FALSE, slide |-> 0]
isPlayable(q) == Kind[q] \in {"video", "audio"}

VARIABLES
  server,    \* connected: the pages, resumes: resumesRunningGame, alone: history, see Pressed
  copy,      \* of each page: its GameService's question and media, and whether it shows the game
  desk,      \* of the master: what its pane and its remote go by, see MasterHandles
  player,    \* of each screen: its MediaQuestionComponent
  toServer, toPage

show == <<server, copy, desk, player, toServer, toPage>>

\* `ready' once the file of the question is loaded, `at' is where it plays
Player == [visible : BOOLEAN, hidden : BOOLEAN, slide : 0..LastSlide, fullscreen : BOOLEAN,
           ready : BOOLEAN, playing : BOOLEAN, at : {"start", "on", "end"}]
NewPlayer == [visible |-> FALSE, hidden |-> FALSE, slide |-> 0, fullscreen |-> FALSE,
              ready |-> FALSE, playing |-> FALSE, at |-> "start"]
Blank == [shows |-> FALSE, question |-> 0, media |-> NoMedia]

MediaTypeOK ==
  /\ server \in [question : Question, media : Media, locked : BOOLEAN, alone : BOOLEAN,
                 resumes : BOOLEAN, connected : SUBSET Page]
  /\ copy \in [Page -> [shows : BOOLEAN, question : Question, media : Media]]
  /\ desk \in [pane : Media, remote : Media]
  /\ player \in [Screen -> Player]

----------------------------------------------------------------------------
(* The packets; `resent' is history: the server repeats what was shown.    *)

MediaPacket(m, resent) == [type |-> "UPDATE_MEDIA_STATE", media |-> m, resent |-> resent]
QuestionPacket(q) == [type |-> "SET_QUESTION", question |-> q]
GamePacket == [type |-> "GAME", question |-> server.question, media |-> server.media]

Broadcast(to, packets) == [p \in Page |-> IF p \in to THEN toPage[p] \o packets ELSE toPage[p]]
Sends(p, packet) == toServer' = [toServer EXCEPT ![p] = Append(@, packet)]

\* bound
Traffic(p) == Len(toServer[p]) + Len(toPage[p])
Few == (\A p \in Page : Traffic(p) <= Underway) /\ Cardinality({p \in Page : Traffic(p) > 0}) <= Underway

----------------------------------------------------------------------------
(* The players. *)

\* startPlayback: a player at its end starts over
playMedia(x) == [x EXCEPT !.playing = x.ready, !.at = IF x.ready /\ @ = "end" THEN "start" ELSE @]
startPlayback(x) == [playMedia(x) EXCEPT !.visible = TRUE]
pausePlayback(x) == [x EXCEPT !.playing = FALSE, !.visible = FALSE]
rewind(x) == [x EXCEPT !.at = "start"]
restartPlayback(x) == [rewind(x) EXCEPT !.playing = x.ready, !.visible = TRUE]

\* the component's handler of the media's state
Applied_KeepsPicture(x, q, m) ==
  LET y == [x EXCEPT !.fullscreen = m.fullscreen, !.slide = m.slide, !.hidden = m.state \in {"HIDDEN", "NO_MEDIA"}]
  IN  CASE m.state = "PAUSED" -> [pausePlayback(y) EXCEPT !.visible = x.visible]
        [] m.state = "NO_MEDIA" -> pausePlayback(y)
        [] m.state = "HIDDEN"  -> rewind(pausePlayback(y))
        [] m.state = "PLAYING" -> startPlayback(y)
        [] m.state = "RESET"   -> restartPlayback(y)
        [] m.state = "FINISHED" /\ Kind[q] = "slideshow" -> [y EXCEPT !.visible = TRUE]
        [] OTHER -> rewind(pausePlayback(y))
Applied(x, q, m) ==
  LET y == [x EXCEPT !.fullscreen = m.fullscreen, !.slide = m.slide, !.hidden = m.state \in {"HIDDEN", "NO_MEDIA"}]
  IN  CASE m.state \in {"NO_MEDIA", "PAUSED"} -> pausePlayback(y)
        [] m.state = "HIDDEN"  -> rewind(pausePlayback(y))
        [] m.state = "PLAYING" -> startPlayback(y)
        [] m.state = "RESET"   -> restartPlayback(y)
        [] m.state = "FINISHED" /\ Kind[q] = "slideshow" -> [y EXCEPT !.visible = TRUE]
        [] OTHER -> rewind(pausePlayback(y))

\* the template: the component stays as long as the questions have media, and its player as long as the kind stays;
\* a new file is loaded either way, which stops what is played
Mounted(q, m) == IF Kind[q] = "none" THEN NewPlayer ELSE Applied(NewPlayer, q, m)
AtQuestion(x, from, q, m) ==
  IF Kind[q] = "none" \/ Kind[from] = "none" THEN Mounted(q, m)
  ELSE [x EXCEPT !.ready = FALSE, !.playing = FALSE, !.at = "start"]

----------------------------------------------------------------------------
(* What a page does with a packet. *)

\* handleDataForScreen: the screen shows the game, with a new player; SET_QUESTION and UPDATE_MEDIA_STATE
ScreenHandles(s, packet) ==
  LET shown == copy[s] IN
  CASE packet.type = "GAME" ->
         /\ copy' = [copy EXCEPT ![s] = [shows |-> TRUE, question |-> packet.question, media |-> packet.media]]
         /\ player' = [player EXCEPT ![s] = Mounted(packet.question, packet.media)]
    [] packet.type = "SET_QUESTION" ->
         /\ copy' = [copy EXCEPT ![s].question = packet.question]
         /\ player' = [player EXCEPT ![s] = AtQuestion(@, shown.question, packet.question, shown.media)]
    [] packet.type = "UPDATE_MEDIA_STATE" ->
         /\ copy' = [copy EXCEPT ![s].media = packet.media]
         /\ player' = [player EXCEPT ![s] = IF Kind[shown.question] = "none" THEN @
                                            ELSE Applied(@, shown.question, packet.media)]

ScreenReceives(s) ==
  /\ toPage[s] # <<>>
  /\ ScreenHandles(s, Head(toPage[s]))
  /\ toPage' = [toPage EXCEPT ![s] = Tail(@)]
  /\ UNCHANGED <<server, desk, toServer>>

\* NEW_MASTER_ACCEPTED is answered with START_GAME; the play page comes with the answer to that, just ahead of the media
MasterHandles(packet) ==
  IF packet.type = "GAME"
  THEN /\ copy' = [copy EXCEPT ![Master].question = packet.question, ![Master].media = packet.media]
       /\ Sends(Master, [type |-> "START_GAME"])
       /\ UNCHANGED desk
  ELSE /\ copy' = [copy EXCEPT ![Master].media = packet.media, ![Master].shows = TRUE]
       /\ desk' = [pane |-> packet.media,
                   remote |-> [packet.media EXCEPT !.state = IF @ = "RESET" THEN "PLAYING" ELSE @]]
       /\ UNCHANGED toServer

MasterReceives ==
  /\ toPage[Master] # <<>>
  /\ MasterHandles(Head(toPage[Master]))
  /\ toPage' = [toPage EXCEPT ![Master] = Tail(@)]
  /\ UNCHANGED <<server, player>>

----------------------------------------------------------------------------
(* The changes of a page to its copy, which it sends as a whole. *)

\* {...current, ...changes}
With(changes, current) ==
  [field \in DOMAIN changes \cup DOMAIN current |-> IF field \in DOMAIN changes THEN changes[field] ELSE current[field]]

changeMediaState(p, changes) ==
  LET current == copy[p].media
      media   == IF "state" \notin DOMAIN changes /\ current.state = "RESET"
                 THEN With(changes, [current EXCEPT !.state = "PLAYING"]) ELSE With(changes, current)
  IN  /\ copy' = [copy EXCEPT ![p].media = media]
      /\ Sends(p, MediaPacket(media, FALSE))

finishMedia(p, changes) ==
  LET reveal(v) == IF v = "WAIT_FOR_MEDIA" THEN "SHOWN" ELSE v
  IN  changeMediaState(p, With(changes, [state    |-> "FINISHED",
                                         question |-> reveal(copy[p].media.question),
                                         answers  |-> reveal(copy[p].media.answers)]))

\* the master's buttons are there while its page shows the game
MasterUses(kinds) ==
  /\ copy[Master].shows /\ Few /\ Kind[copy[Master].question] \in kinds
  /\ UNCHANGED <<server, desk, player, toPage>>

play  == MasterUses({"video", "audio"}) /\ desk.remote.state # "PLAYING" /\ changeMediaState(Master, [state |-> "PLAYING"])
pause == MasterUses({"video", "audio"}) /\ desk.remote.state = "PLAYING" /\ changeMediaState(Master, [state |-> "PAUSED"])
replay == MasterUses({"video", "audio"}) /\ changeMediaState(Master, [state |-> "RESET"])
replaySlides == MasterUses({"slideshow"}) /\ changeMediaState(Master, [state |-> "PLAYING", slide |-> 0])

nextSlide ==
  /\ MasterUses({"slideshow"}) /\ desk.remote.state # "FINISHED"
  /\ CASE desk.remote.state # "PLAYING" -> changeMediaState(Master, [state |-> "PLAYING"])
       [] desk.remote.state = "PLAYING" /\ desk.remote.slide < LastSlide ->
            changeMediaState(Master, [state |-> "PLAYING", slide |-> desk.remote.slide + 1])
       [] OTHER -> finishMedia(Master, <<>>)

previousSlide ==
  /\ MasterUses({"slideshow"}) /\ desk.remote.slide > 0
  /\ changeMediaState(Master, [state |-> "PLAYING", slide |-> desk.remote.slide - 1])

toggleFullscreen ==
  /\ MasterUses({"image", "slideshow", "video"})
  /\ changeMediaState(Master, [fullscreen |-> ~desk.remote.fullscreen])

toggleQuestion ==
  /\ MasterUses({"image", "slideshow", "video", "audio"})
  /\ changeMediaState(Master, [question |-> IF desk.pane.question = "SHOWN" THEN "HIDDEN" ELSE "SHOWN"])
toggleAnswers ==
  /\ MasterUses({"image", "slideshow", "video", "audio"})
  /\ changeMediaState(Master, [answers |-> IF desk.pane.answers = "SHOWN" THEN "HIDDEN" ELSE "SHOWN"])

isMediaShown(q, m) ==
  CASE m.state \in {"PLAYING", "RESET"} -> TRUE
    [] m.state = "PAUSED"   -> Kind[q] = "video"
    [] m.state = "FINISHED" -> Kind[q] \in {"slideshow", "video"}
    [] OTHER -> FALSE

toggleMedia ==
  /\ MasterUses({"image", "slideshow", "video"})
  /\ LET video == Kind[copy[Master].question] = "video"
     IN  changeMediaState(Master, [state |-> IF isMediaShown(copy[Master].question, desk.pane)
                                            THEN IF video THEN "HIDDEN" ELSE "PAUSED"
                                            ELSE IF video THEN "PAUSED" ELSE "PLAYING"])

\* getNextQuestion, getPreviousQuestion; the pane starts with the state the server will send
goToQuestion(q) ==
  /\ copy[Master].shows /\ Few /\ q \in {copy[Master].question - 1, copy[Master].question + 1}
  /\ copy' = [copy EXCEPT ![Master].question = q]
  /\ desk' = [desk EXCEPT !.pane = Config[q]]
  /\ Sends(Master, QuestionPacket(q))
  /\ UNCHANGED <<server, player, toPage>>

release ==
  /\ copy[Master].shows /\ Few /\ server.locked
  /\ Sends(Master, [type |-> "SET_BUZZER_LOCK"])
  /\ UNCHANGED <<server, copy, desk, player, toPage>>

----------------------------------------------------------------------------
(* What the players do by themselves. *)

Plays(s) == copy[s].shows /\ isPlayable(copy[s].question)

\* onPlayerReady and loadedMetadata
Loaded_DoesNotPlay(s) ==
  /\ Plays(s) /\ ~player[s].ready
  /\ player' = [player EXCEPT ![s].ready = TRUE]
  /\ UNCHANGED <<server, copy, desk, toServer, toPage>>
Loaded(s) ==
  /\ Plays(s) /\ ~player[s].ready
  /\ player' = [player EXCEPT ![s].ready = TRUE, ![s].playing = player[s].visible]
  /\ UNCHANGED <<server, copy, desk, toServer, toPage>>

GoesOn(s) ==
  /\ Plays(s) /\ player[s].playing /\ player[s].at = "start"
  /\ player' = [player EXCEPT ![s].at = "on"]
  /\ UNCHANGED <<server, copy, desk, toServer, toPage>>

Ended(s) ==
  /\ Plays(s) /\ player[s].playing /\ player[s].at = "on"
  /\ player' = [player EXCEPT ![s].playing = FALSE, ![s].at = "end"]
  /\ finishMedia(s, [fullscreen |-> FALSE])
  /\ UNCHANGED <<server, desk, toPage>>

----------------------------------------------------------------------------
(* The server. *)

\* what is shown goes to all; `alone': nothing the master did has come since a team buzzed
onUpdateMediaState(sv, packets, resent) ==
  /\ server' = sv
  /\ toPage' = [p \in Page |->
       IF p \notin sv.connected THEN toPage[p]
       ELSE toPage[p] \o (IF p = Master THEN <<>> ELSE packets) \o <<MediaPacket(sv.media, resent)>>]

onSetQuestion(q) ==
  onUpdateMediaState([server EXCEPT !.question = q, !.locked = FALSE, !.media = Config[q]], <<QuestionPacket(q)>>, FALSE)

\* a master that rejoined the running game starts it: the media stay what they are
onStartGame == onUpdateMediaState([server EXCEPT !.resumes = FALSE], <<>>, TRUE)

Handles(p, packet) ==
  CASE packet.type = "UPDATE_MEDIA_STATE" ->
         onUpdateMediaState([server EXCEPT !.media = packet.media, !.alone = @ /\ p # Master], <<>>, FALSE)
    [] packet.type = "SET_QUESTION" -> onSetQuestion(packet.question)
    [] packet.type = "START_GAME" -> onStartGame
    [] packet.type = "SET_BUZZER_LOCK" -> server' = [server EXCEPT !.locked = FALSE] /\ UNCHANGED toPage

ServerReceives(p) ==
  /\ toServer[p] # <<>>
  /\ Handles(p, Head(toServer[p]))
  /\ toServer' = [toServer EXCEPT ![p] = Tail(@)]
  /\ UNCHANGED <<copy, desk, player>>

\* lockOnTeam: of the media, only what plays is paused, and the screens leave fullscreen
lockOnTeam_PausesPlaying ==
  onUpdateMediaState(
    [server EXCEPT !.locked = TRUE, !.alone = TRUE, !.media.fullscreen = FALSE,
       !.media.state = IF isPlayable(server.question) /\ @ = "PLAYING" THEN "PAUSED" ELSE @], <<>>, FALSE)
lockOnTeam ==
  onUpdateMediaState(
    [server EXCEPT !.locked = TRUE, !.alone = TRUE, !.media.fullscreen = FALSE,
       !.media.state = IF isPlayable(server.question) /\ @ \in {"PLAYING", "RESET"} THEN "PAUSED" ELSE @], <<>>, FALSE)

Pressed == ~server.locked /\ Few /\ lockOnTeam /\ UNCHANGED <<copy, desk, player, toServer>>

----------------------------------------------------------------------------
(* Pages that come and go, with what is on its way to and from them. *)

Leaves(p) ==
  /\ p \in server.connected /\ Few
  /\ server' = [server EXCEPT !.connected = @ \ {p}, !.resumes = @ \/ (p = Master /\ copy[p].shows)]
  /\ copy' = [copy EXCEPT ![p] = Blank]
  /\ player' = [s \in Screen |-> IF s = p THEN NewPlayer ELSE player[s]]
  /\ desk' = IF p = Master THEN [pane |-> NoMedia, remote |-> NoMedia] ELSE desk
  /\ toServer' = [toServer EXCEPT ![p] = <<>>]
  /\ toPage' = [toPage EXCEPT ![p] = <<>>]

\* onRegisterScreen, onRegisterMaster
Joins(p) ==
  /\ p \notin server.connected
  /\ server' = [server EXCEPT !.connected = @ \cup {p}]
  /\ toPage' = [toPage EXCEPT ![p] = <<GamePacket>>]
  /\ UNCHANGED <<copy, desk, player, toServer>>

----------------------------------------------------------------------------
(* The specification. *)

\* the master's page shows a question of the game, no screen is there yet
MediaInit ==
  /\ server \in {[question |-> q, media |-> Config[q], locked |-> FALSE, alone |-> FALSE, resumes |-> FALSE,
                   connected |-> {Master}] : q \in Question}
  /\ copy = [p \in Page |->
       IF p = Master THEN [shows |-> TRUE, question |-> server.question, media |-> server.media] ELSE Blank]
  /\ desk = [pane |-> server.media, remote |-> server.media]
  /\ player = [s \in Screen |-> NewPlayer]
  /\ toServer = [p \in Page |-> <<>>] /\ toPage = [p \in Page |-> <<>>]

MasterActs ==
  \/ play \/ pause \/ replay \/ replaySlides \/ nextSlide \/ previousSlide
  \/ toggleFullscreen \/ toggleQuestion \/ toggleAnswers \/ toggleMedia
  \/ \E q \in Question : goToQuestion(q)
  \/ release

MediaNext ==
  \/ MasterActs \/ MasterReceives \/ Pressed
  \/ \E s \in Screen : ScreenReceives(s) \/ Loaded(s) \/ GoesOn(s) \/ Ended(s)
  \/ \E p \in Page : ServerReceives(p) \/ Leaves(p) \/ Joins(p)

MediaSpec == MediaInit /\ [][MediaNext]_show

\* packets arrive, and a player loads its file and plays it to its end
Fairness ==
  /\ WF_show(MasterReceives)
  /\ \A p \in Page : WF_show(ServerReceives(p))
  /\ \A s \in Screen : WF_show(ScreenReceives(s)) /\ WF_show(Loaded(s)) /\ WF_show(GoesOn(s)) /\ WF_show(Ended(s))

----------------------------------------------------------------------------
(* Properties. *)

Quiet == copy[Master].shows /\ \A p \in Page : toServer[p] = <<>> /\ toPage[p] = <<>>

\* whether a screen shows the picture of its question
ShowsPicture(s) ==
  LET q == copy[s].question
  IN  IF Kind[q] = "video" THEN ~player[s].hidden ELSE player[s].visible

\* Once all is delivered, the server, the master and every screen agree on what is shown, and the master's pane says of
\* the picture what the screens do with it, whatever screens and master did at the same time and whoever came back.
MasterSeesScreens ==
  Quiet =>
    \A s \in Screen : copy[s].shows =>
      /\ copy[s].media = server.media /\ copy[Master].media = server.media /\ desk.pane = server.media
      /\ copy[s].question = copy[Master].question
      /\ Kind[copy[s].question] \in {"image", "slideshow", "video"} =>
           (ShowsPicture(s) <=> isMediaShown(copy[Master].question, desk.pane))
      /\ Kind[copy[s].question] # "none" => player[s].slide = desk.remote.slide

\* When a team buzzed and the master has done nothing since, no screen plays or fills itself with the media: whatever
\* was replayed, loaded, ended, joined or resent around the press.
BuzzStopsMedia ==
  Quiet /\ server.locked /\ server.alone =>
    \A s \in Screen : copy[s].shows => ~player[s].playing /\ ~player[s].fullscreen

Waits == server.media.state \in {"PLAYING", "RESET"} /\ server.media.answers = "WAIT_FOR_MEDIA" /\ isPlayable(server.question)

\* Answers that wait for a video that plays are shown in the end, or the video is stopped, another question begins, or no
\* screen is there to play it: unless it is replayed, a page reloads or a question is passed over again and again.
WaitingAnswersAppear ==
  \/ []<><<replay \/ (\E p \in Page : Leaves(p)) \/ (\E q \in Question : goToQuestion(q))>>_show
  \/ Waits ~> (~Waits \/ server.connected \cap Screen = {})

\* A master that comes back does not start over what the screens play: "keep the media state the screens are showing"
\* (services/game.service.ts:457), "RESET restarts the media once" (client/src/app/services/game.service.ts:1052).
RestartsOnce ==
  [][\A s \in Screen :
       /\ toPage[s] # <<>> /\ toPage'[s] = Tail(toPage[s])
       /\ player[s].playing /\ player[s].at = "on" /\ player'[s].playing /\ player'[s].at = "start"
       => ~Head(toPage[s]).resent]_show
=============================================================================
