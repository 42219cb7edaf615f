---------------------------- MODULE GameScreens ----------------------------
(***************************************************************************)
(* The game server together with the screens' pages.  A page keeps its own *)
(* copy of the teams and the game, starts it from DATA_FOR_SCREEN, applies *)
(* each packet of its connection to it, in order, and reloads when the     *)
(* server was reset (client/src/app/services/game.service.ts).             *)
(*                                                                         *)
(* A lost connection takes the packets on their way with it; the page      *)
(* reloads when it is back, so it starts again without any data.           *)
(***************************************************************************)
EXTENDS GameService

CONSTANT Backlog  \* bound: the packets a page has not handled yet when the server sends more

ASSUME BacklogAssumption == Backlog \in Nat

VARIABLES
  inbox,   \* the packets on their way to each screen
  view     \* what each page shows

world == <<vars, inbox, view>>

BlankPage == [status |-> "blank", teams |-> {}, points |-> NoPoints, game |-> InitialGame(FALSE)]

ScreensTypeOK ==
  /\ view \in [ScreenConn -> [status : {"blank", "deaf", "shown", "ended", "reloading"}, teams : SUBSET Team,
                             points : [Team -> Points], game : Game]]
  /\ \A c \in ScreenConn \ open : inbox[c] = <<>>

----------------------------------------------------------------------------
(* The packets a page handles. *)

handleTeamSetPoints(v, p) ==
  IF p.team \in v.teams THEN [v EXCEPT !.points[p.team] = p.total] ELSE v

handleUpdateTeams(v, p) ==
  [v EXCEPT !.teams = p.teams, !.points = p.points, !.game.marked = @ \cap p.teams]

applyMarkTeam(g, p) ==
  [g EXCEPT !.marked = CASE p.unmarkAll -> {}
                         [] ~p.unmarkAll /\ p.mark -> @ \cup {p.team}
                         [] OTHER -> @ \ {p.team}]

handleSetQuestion(v, p) ==
  [v EXCEPT !.game.welcome = FALSE, !.game.question = p.set,
            !.game.marked = {}, !.game.logged = {}, !.game.activated = {}]

\* a page that shows the game
OnShownPage(v, p) ==
  CASE p.type = "TEAM_SET_POINTS"    -> handleTeamSetPoints(v, p)
    [] p.type = "UPDATE_TEAMS"       -> handleUpdateTeams(v, p)
    [] p.type = "MARK_TEAM"          -> [v EXCEPT !.game = applyMarkTeam(@, p)]
    [] p.type = "ANSWER_SET_STATE"   -> [v EXCEPT !.game = ApplyAnswers(@, p.answerState, p.answers)]
    [] p.type = "SET_QUESTION"       -> handleSetQuestion(v, p)
    [] p.type = "SET_BUZZER_LOCK"    -> [v EXCEPT !.game.lock = p.setLock]
    [] p.type = "UPDATE_MEDIA_STATE" -> [v EXCEPT !.game.media = p.media]
    [] p.type = "SET_MEDIA_VOLUME"   -> [v EXCEPT !.game.volume = p.volume]
    [] p.type = "END_GAME"           -> [v EXCEPT !.status = "ended"]
    [] OTHER                         -> v

setGameData(ts, ps, g) == [status |-> "shown", teams |-> ts, points |-> ps, game |-> g]

\* the handlers that fail without a game; of no answers there is no packet
NeedsGame(p) == \/ p.type \in {"SET_QUESTION", "UPDATE_MEDIA_STATE"}
                \/ p.type = "ANSWER_SET_STATE" /\ p.answers # {}

\* A page without data waits for it.  When a handler fails its subscription ends (listen), so it
\* hears of nothing more until its connection is lost; nor does a page that reloads.
onMessage(v, p) ==
  IF v.status \in {"deaf", "reloading"} THEN v
  ELSE IF p.type = "RESET_SERVER" THEN [BlankPage EXCEPT !.status = "reloading"]
  ELSE IF p.type = "DATA_FOR_SCREEN" THEN setGameData(p.teams, p.points, p.game)
  ELSE IF v.status # "blank" THEN OnShownPage(v, p)
  ELSE IF NeedsGame(p) THEN [v EXCEPT !.status = "deaf"]
  ELSE v

----------------------------------------------------------------------------

ScreensInit ==
  /\ Init
  /\ inbox = [c \in ScreenConn |-> <<>>]
  /\ view = [c \in ScreenConn |-> BlankPage]

\* What the server's step sends gets on its way; a closed connection leaves a page to load.  The
\* master's page marks the teams it shows.
Delivered ==
  /\ game'.marked \subseteq teams'
  /\ inbox' = [c \in ScreenConn |-> IF c \in open' THEN inbox[c] \o sent'[c] ELSE <<>>]
  /\ view' = [c \in ScreenConn |-> IF c \in open' THEN view[c] ELSE BlankPage]

ServerStep ==
  /\ \A c \in ScreenConn : Len(inbox[c]) <= Backlog
  /\ Next /\ Delivered

PageReceives(c) ==
  /\ c \in open /\ inbox[c] # <<>>
  /\ view' = [view EXCEPT ![c] = onMessage(@, Head(inbox[c]))]
  /\ inbox' = [inbox EXCEPT ![c] = Tail(@)]
  /\ UNCHANGED vars

\* a page that waits to load does, and joins once it is connected
PageConnects(c)  == Connect(c) /\ Delivered
PageRegisters(c) == c \notin screens /\ RegisterScreen(c) /\ Delivered
PageReloads(c)   == view[c].status = "reloading" /\ CloseOther(c) /\ Delivered

ScreensNext ==
  \/ ServerStep
  \/ \E c \in ScreenConn :
       PageReceives(c) \/ PageConnects(c) \/ PageRegisters(c) \/ PageReloads(c)

Fairness == \A c \in ScreenConn :
  WF_world(PageReceives(c)) /\ WF_world(PageConnects(c))
  /\ WF_world(PageRegisters(c)) /\ WF_world(PageReloads(c))

ScreensSpec == ScreensInit /\ [][ScreensNext]_world

FairScreensSpec == ScreensSpec /\ Fairness

----------------------------------------------------------------------------
(* What must hold. *)

\* what a page shows once it handled some packets, in order
Handled(v, packets) ==
  LET after[n \in 0 .. Len(packets)] == IF n = 0 THEN v ELSE onMessage(after[n - 1], packets[n])
  IN  after[Len(packets)]

\* what the page will show once it handled the packets on their way
Upcoming(c) == Handled(view[c], inbox[c])

SameGame(v) == v.teams = teams /\ v.points = points /\ v.game = game

\* a page that is to load again, or waits for data, has nothing of a game that is over
FollowsGame(v) ==
  CASE isGameRunning -> v.status = "reloading" \/ (v.status = "shown" /\ SameGame(v))
    [] state = "END" /\ questions # 0
                     -> v.status \in {"blank", "reloading"} \/ (v.status = "ended" /\ SameGame(v))
    [] OTHER         -> v.status \in {"blank", "reloading"} \/ v.teams = {}

\* A page that is, or will be, deaf: something was sent to it, while no game ran, that fails without one.
Deaf(c) == Upcoming(c).status = "deaf"

\* Every handler tells the screens all that it changes: the page of a registered screen shows
\* exactly the server's game as soon as it is up to date, through setup, play, lost masters and
\* changes of teams; after a reset nothing of the old game is left (sendToAllScreens).  A page that
\* went deaf is out of reach.
ScreensFollow == \A c \in screens : FollowsGame(Upcoming(c)) \/ Deaf(c)

\* What is sent in a running game makes no page deaf: whoever registers has its data before all else
\* (onRegisterScreenPacket, onSetupGamePackage).
NoneGoesDeafInGame == [][\A c \in ScreenConn : isGameRunning' /\ Deaf(c)' => Deaf(c)]_world

\* A screen whose connection lasts, and which is not deaf, shows the game that runs, whenever its page was
\* loaded, and whichever game ended before (onRegisterScreenPacket, onReconnected, handleResetServerPacket).
ConnectionLost(c) == c \in open /\ c \notin open' /\ view[c].status # "reloading"
ScreensShowRunningGame ==
  \A c \in ScreenConn :
    \/ []<><<ConnectionLost(c)>>_world
    \/ isGameRunning /\ ~Deaf(c) ~> (view[c].status = "shown" \/ ~isGameRunning)

=============================================================================
