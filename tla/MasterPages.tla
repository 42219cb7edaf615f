---------------------------- MODULE MasterPages ----------------------------
(***************************************************************************)
(* The game server together with the master pages of several devices: how  *)
(* a page gets the master's seat and keeps it over lost connections, while *)
(* other devices try to get in or take over (client/src/app/services/      *)
(* game.service.ts and web-socket.service.ts).  What is played is          *)
(* MasterPlay's.                                                           *)
(*                                                                         *)
(* A connection that breaks takes the packets on their way with it; each   *)
(* end notices on its own, the server by a ping that is not answered.  A   *)
(* connection that one end closes delivers what was sent before.           *)
(***************************************************************************)
EXTENDS GameService, SequencesExt

CONSTANTS
  Page,        \* the master pages that are open, each in a tab of a device's browser
  ConnsOf,     \* the connections that each page may use
  MaxTrouble   \* bound: how often connections break, pages are loaded again and devices take over

ASSUME PageAssumption ==
  /\ ConnsOf \in [Page -> SUBSET MasterConn]
  \* a connection is one page's, whose device keeps one masterId
  /\ \A p, q \in Page : p # q => ConnsOf[p] \cap ConnsOf[q] = {}
  /\ \A p \in Page : \A c, d \in ConnsOf[p] : DeviceOf[c] = DeviceOf[d]
  /\ MaxTrouble \in Nat

\* Each device shows the master's pages in one tab: those of one browser share its masterId.
OneTabEach == \A p, q \in Page : \A c \in ConnsOf[p], d \in ConnsOf[q] : DeviceOf[c] = DeviceOf[d] => p = q

VARIABLES
  page,      \* what each page keeps
  waiting,   \* what each page sends once it is connected
  toServer,  \* the packets on their way from each connection's page
  toPage,    \* and to it
  broken,    \* connections that no longer carry anything
  dropped,   \* connections of masters that were taken over from, which the server closes
  trouble    \* how often that was

links == <<toServer, toPage, broken, dropped, trouble>>
world == <<vars, page, waiting, links>>

PageState == {"STARTING", "MASTER_ACCEPTED", "RECEIVED_PRESETUP_DATA", "READY_TO_START",
              "PLAYING", "END", "REJECTED"}

LoadedPage ==
  [state |-> "STARTING", conn |-> None, wasConnected |-> FALSE, takeOverRequested |-> FALSE,
   takenOver |-> FALSE, timer |-> FALSE, paused |-> FALSE, token |-> None,
   asked |-> FALSE,         \* history: SETUP_GAME or RESET_SERVER was sent and not answered
   interrupted |-> FALSE]   \* history: and then the connection was lost

RegisterPacket(pg) == [type |-> "REGISTER_MASTER", takeOver |-> pg.takeOverRequested]

PagesTypeOK ==
  /\ \A p \in Page : page[p].state \in PageState /\ page[p].conn \in ConnsOf[p] \cup {None}
  /\ broken \subseteq open /\ dropped \subseteq open
  /\ \A c \in MasterConn \ open : toServer[c] = <<>>

----------------------------------------------------------------------------
(* What a page does with a packet. *)

Registering == {"STARTING", "MASTER_ACCEPTED", "RECEIVED_PRESETUP_DATA"}

\* scheduleMasterRetry
ScheduleRetry_OnceAsked(pg) == [pg EXCEPT !.timer = pg.state = "REJECTED" /\ pg.takeOverRequested]
ScheduleRetry(pg) == [pg EXCEPT !.timer = pg.state = "REJECTED" /\ ~pg.takenOver /\ ~pg.paused]

\* while the user is asked whether to take over
pauseMasterRetry(pg, paused) ==
  LET asked == [pg EXCEPT !.paused = paused] IN IF paused THEN [asked EXCEPT !.timer = FALSE] ELSE ScheduleRetry(asked)

Refused(pg) == [pg EXCEPT !.state = "REJECTED", !.asked = FALSE, !.interrupted = FALSE]

handleMasterRegistrationResponse(pg, ok) ==
  IF ok THEN [pg EXCEPT !.takeOverRequested = FALSE,
                        !.state = IF @ = "STARTING" THEN "MASTER_ACCEPTED" ELSE @]
        ELSE [Refused(pg) EXCEPT !.takeOverRequested = FALSE, !.takenOver = FALSE]

handleResponsePackets(pg, m) ==
  CASE m.responseTo = "REGISTER_MASTER" /\ pg.state \in Registering ->
         handleMasterRegistrationResponse(pg, m.wasSuccessful)
    [] m.responseTo = "SETUP_GAME" /\ pg.state = "RECEIVED_PRESETUP_DATA" /\ m.wasSuccessful ->
         [pg EXCEPT !.state = "READY_TO_START", !.asked = FALSE]
    [] m.responseTo = "START_GAME" /\ pg.state = "READY_TO_START" /\ m.wasSuccessful ->
         [pg EXCEPT !.state = "PLAYING"]
    [] OTHER -> pg

handlePresetupAvailableInfo(pg) ==
  IF pg.state = "MASTER_ACCEPTED" THEN [pg EXCEPT !.state = "RECEIVED_PRESETUP_DATA", !.asked = FALSE] ELSE pg

handleNewMasterAccepted(pg) ==
  IF pg.state = "STARTING" THEN [pg EXCEPT !.state = "READY_TO_START", !.takeOverRequested = FALSE] ELSE pg

handleMasterTakenOver(pg) == [Refused(pg) EXCEPT !.takenOver = TRUE, !.token = None]

onMessage(pg, m) ==
  CASE m.type = "RESPONSE_PACKET"         -> handleResponsePackets(pg, m)
    [] m.type = "PRESETUP_AVAILABLE_INFO" -> handlePresetupAvailableInfo(pg)
    [] m.type = "NEW_MASTER_ACCEPTED"     -> handleNewMasterAccepted(pg)
    [] m.type = "STORAGE_ACCESS"          -> [pg EXCEPT !.token = pg.conn]
    [] m.type = "MASTER_TAKEN_OVER"       -> handleMasterTakenOver(pg)
    [] OTHER                              -> pg

\* a game that was set up, or that goes on, starts right away
Answers(before, after) ==
  IF after.state = "READY_TO_START" /\ before.state # "READY_TO_START" THEN <<Packet("START_GAME")>> ELSE <<>>

----------------------------------------------------------------------------

\* a page sends what it has to on its connection, or once it has one
Send(p, packets) ==
  LET c == page[p].conn
  IN  IF c = None
      THEN waiting' = [waiting EXCEPT ![p] = @ \o packets] /\ UNCHANGED toServer
      ELSE /\ toServer' = IF c \in open \ broken THEN [toServer EXCEPT ![c] = @ \o packets] ELSE toServer
           /\ UNCHANGED waiting

PageIsGone(c) == \A p \in Page : page[p].conn # c

\* what the server's step sends gets on its way, unless the server has closed the connection (WebSocket.send)
Delivered ==
  toPage' = [c \in MasterConn |->
    IF c \in open \ (broken \cup dropped) /\ ~PageIsGone(c) THEN toPage[c] \o sent'[c] ELSE toPage[c]]

Trouble == trouble < MaxTrouble /\ trouble' = trouble + 1

PageReceives(p) ==
  LET c == page[p].conn
  IN  /\ c # None /\ toPage[c] # <<>>
      /\ LET after == onMessage(page[p], Head(toPage[c]))
         IN  page' = [page EXCEPT ![p] = after] /\ Send(p, Answers(page[p], after))
      /\ toPage' = [toPage EXCEPT ![c] = Tail(@)]
      /\ UNCHANGED <<vars, broken, dropped, trouble>>

PageNoticesLoss(p) ==
  LET c == page[p].conn
  IN  /\ c # None /\ toPage[c] = <<>> /\ (c \in broken \/ c \notin open)
      /\ page' = [page EXCEPT ![p].conn = None, ![p].interrupted = @ \/ page[p].asked]
      /\ UNCHANGED <<vars, waiting, links>>

\* onReconnected for a game that was set up; what waited for the connection is gone with the page
Reloads(pg) == pg.wasConnected /\ pg.state \in {"READY_TO_START", "PLAYING", "END"}

\* onReconnected for one that was not, or not yet
Registers(pg) == pg.wasConnected /\ pg.state \in Registering

\* connect and onReconnected: what a page sends to be known again goes ahead of what waited
PageConnects(p) ==
  LET pg == page[p]
  IN  /\ pg.conn = None /\ ~Reloads(pg)
      /\ \E c \in ConnsOf[p] :
           /\ Connect(c)
           /\ page' = [page EXCEPT ![p] = [IF pg.wasConnected THEN ScheduleRetry(pg) ELSE pg
                                           EXCEPT !.conn = c, !.wasConnected = TRUE]]
           /\ toServer' = [toServer EXCEPT ![c] =
                (IF Registers(pg) THEN <<RegisterPacket(pg)>> ELSE <<>>) \o waiting[p]]
           /\ toPage' = [toPage EXCEPT ![c] = <<>>]
      /\ waiting' = [waiting EXCEPT ![p] = <<>>]
      /\ UNCHANGED <<broken, dropped, trouble>>

\* by onReconnected, or by the user: logout, a new tab, the browser's button
PageLoads(p) ==
  /\ page' = [page EXCEPT ![p] = LoadedPage]
  /\ waiting' = [waiting EXCEPT ![p] = <<RegisterPacket(LoadedPage)>>]
  /\ UNCHANGED <<vars, toServer, toPage, broken, dropped>>
PageReloads(p) == page[p].conn = None /\ Reloads(page[p]) /\ PageLoads(p) /\ UNCHANGED trouble

----------------------------------------------------------------------------
(* What the user of a page does: nothing while a packet of the page is on its way, nor between a  *)
(* setup and its answer, when the page has no button but the reset, which asks first.            *)

Ready(p) == waiting[p] = <<>> /\ (page[p].conn # None => toServer[page[p].conn] = <<>>)

UserReloads(p) == page[p].conn # None /\ Ready(p) /\ PageLoads(p) /\ Trouble

Does(p, pg, packets) ==
  /\ Ready(p)
  /\ page' = [page EXCEPT ![p] = pg]
  /\ Send(p, packets)
  /\ UNCHANGED <<vars, toPage, broken, dropped>>

setupGame(p) ==
  /\ page[p].state = "RECEIVED_PRESETUP_DATA" /\ ~page[p].asked
  /\ Does(p, [page[p] EXCEPT !.asked = TRUE], <<Packet("SETUP_GAME")>>)

endGame(p) == page[p].state = "PLAYING" /\ Does(p, [page[p] EXCEPT !.state = "END"], <<Packet("END_GAME")>>)

\* pausing, discarding or leaving a game, and the toolbar's reset of the server
resetServer_StaysInGame(p) ==
  /\ page[p].state \in {"RECEIVED_PRESETUP_DATA", "PLAYING", "END"} /\ ~page[p].asked
  /\ Does(p, [page[p] EXCEPT !.asked = TRUE], <<Packet("RESET_SERVER")>>)
resetServer(p) ==
  /\ page[p].state \in {"RECEIVED_PRESETUP_DATA", "PLAYING", "END"} /\ ~page[p].asked
  /\ Does(p, [page[p] EXCEPT !.state = "MASTER_ACCEPTED", !.asked = TRUE], <<Packet("RESET_SERVER")>>)

tryAgainAsMaster(p, pg, takeOver) ==
  LET trying == [pg EXCEPT !.state = "STARTING", !.timer = FALSE, !.takeOverRequested = takeOver]
  IN  page[p].state = "REJECTED" /\ Does(p, trying, <<RegisterPacket(trying)>>)

registerAgainAsMaster(p) == tryAgainAsMaster(p, page[p], FALSE)

RetryTimerFires(p) == page[p].timer /\ tryAgainAsMaster(p, page[p], FALSE) /\ UNCHANGED trouble

AsksToTakeOver(p) ==
  /\ page[p].state = "REJECTED" /\ ~page[p].paused
  /\ Does(p, pauseMasterRetry(page[p], TRUE), <<>>)

\* bound: confirmed while the page is connected
TakesOver(p) ==
  /\ page[p].paused /\ page[p].conn # None
  /\ tryAgainAsMaster(p, [page[p] EXCEPT !.paused = FALSE], TRUE) /\ Trouble

DoesNotTakeOver(p) ==
  page[p].paused /\ Does(p, pauseMasterRetry(page[p], FALSE), <<>>)

----------------------------------------------------------------------------

\* the server's handler for a packet of connection c
Handles(c, m) ==
  CASE m.type = "REGISTER_MASTER" ->
         /\ IF m.takeOver THEN RegisterAgain(c) \/ RegisterMaster(c, TRUE) \/ TakeOver(c)
                          ELSE RegisterAgain(c) \/ RegisterMaster(c, FALSE) \/ RefuseMaster(c, FALSE)
    [] m.type = "SETUP_GAME" /\ c = master /\ state = "WAITING_FOR_SETUP" -> SetupGame(Team, None, FALSE, FALSE)
    [] m.type = "START_GAME" /\ c = master   -> StartGame \/ StartGameRefused
    [] m.type = "END_GAME" /\ c = master     -> EndGame
    [] m.type = "RESET_SERVER" /\ c = master -> ResetServer
    [] OTHER -> IgnorePacket

ServerReceives(c) ==
  /\ c \in open /\ toServer[c] # <<>>
  /\ Handles(c, Head(toServer[c])) /\ Delivered
  \* a refused connection is not listened to any more
  /\ toServer' = [toServer EXCEPT ![c] = IF c \in open' THEN Tail(@) ELSE <<>>]
  /\ dropped' = (IF master' # master /\ master # None THEN dropped \cup {master} ELSE dropped) \cap open'
  /\ UNCHANGED <<page, waiting, broken, trouble>>

\* a connection breaks; the server notices it when a ping is not answered
Breaks(p) ==
  LET c == page[p].conn
  IN  /\ Trouble
      /\ c \in open \ broken
      /\ broken' = broken \cup {c}
      /\ toServer' = [toServer EXCEPT ![c] = <<>>]
      /\ toPage' = [toPage EXCEPT ![c] = <<>>]
      /\ UNCHANGED <<vars, page, waiting, dropped>>

\* checkConnectionsAlive, dropMaster, or the page closed it
ServerCloses(c) ==
  /\ c \in open
  /\ c \in broken \cup dropped \/ (PageIsGone(c) /\ toServer[c] = <<>>)
  /\ IF c = master THEN CloseMaster ELSE CloseOther(c)
  /\ Delivered
  /\ toServer' = [toServer EXCEPT ![c] = <<>>]
  /\ broken' = broken \ {c} /\ dropped' = dropped \ {c}
  /\ UNCHANGED <<page, waiting, trouble>>

----------------------------------------------------------------------------

PagesInit ==
  /\ Init
  /\ page = [p \in Page |-> LoadedPage]
  /\ waiting = [p \in Page |-> <<RegisterPacket(LoadedPage)>>]
  /\ toServer = [c \in MasterConn |-> <<>>] /\ toPage = [c \in MasterConn |-> <<>>]
  /\ broken = {} /\ dropped = {} /\ trouble = 0

UserDoes(p) ==
  \/ /\ setupGame(p) \/ endGame(p) \/ resetServer(p) \/ registerAgainAsMaster(p) \/ AsksToTakeOver(p)
        \/ DoesNotTakeOver(p)
     /\ UNCHANGED trouble
  \/ UserReloads(p) \/ TakesOver(p)

PageSteps(p) ==
  PageReceives(p) \/ PageNoticesLoss(p) \/ PageConnects(p) \/ PageReloads(p) \/ RetryTimerFires(p)

PagesNext ==
  \/ \E p \in Page : UserDoes(p) \/ PageSteps(p) \/ Breaks(p)
  \/ \E c \in MasterConn : ServerReceives(c) \/ ServerCloses(c)

\* packets arrive, losses are noticed, pages reconnect, timers fire; users need not do anything
Fairness ==
  /\ \A p \in Page :
       /\ WF_world(PageReceives(p)) /\ WF_world(PageNoticesLoss(p)) /\ WF_world(PageConnects(p))
       /\ WF_world(PageReloads(p)) /\ WF_world(RetryTimerFires(p))
  /\ \A c \in MasterConn : WF_world(ServerReceives(c)) /\ WF_world(ServerCloses(c))

PagesSpec == PagesInit /\ [][PagesNext]_world
FairPagesSpec == PagesSpec /\ Fairness

----------------------------------------------------------------------------
(* What must hold. *)

\* nothing is on its way between a page and the server, and its connection is up
Settled(p) ==
  LET c == page[p].conn
  IN  c \in open \ (broken \cup dropped) /\ toServer[c] = <<>> /\ toPage[c] = <<>>

Fits(p) ==
  /\ page[p].token = token
  /\ page[p].state = CASE state = "WAITING_FOR_SETUP" -> "RECEIVED_PRESETUP_DATA"
                       [] state = "WAITING_FOR_START" -> "READY_TO_START"
                       [] OTHER -> state

\* The page of the master is where the server is, whatever connections were lost, games ended or
\* devices took over meanwhile, and it has the valid storage token (onReconnected, onMessage), if
\* each device shows the master's pages in one tab (OneTabEach).  A page that waited for the answer
\* to its setup or reset is what AlwaysFits is about.
PageFitsServer ==
  \A p \in Page :
    Settled(p) /\ page[p].conn = master /\ ~page[p].interrupted => Fits(p) /\ state # "WAITING_FOR_START"

\* Two devices never both show the master's pages: one that is not the master is told so, or it
\* asks to be (onRegisterMasterPacket, dropMaster, handleMasterTakenOver).
OthersAreRejected == \A p \in Page : Settled(p) /\ page[p].conn # master => page[p].state = "REJECTED"

\* A page that is refused tries again, so it gets the seat when that is free (scheduleMasterRetry).
SeatIsTaken ==
  \A p \in Page :
    page[p].state = "REJECTED" /\ ~page[p].takenOver /\ state = "WAITING_FOR_MASTER"
      ~> state # "WAITING_FOR_MASTER" \/ page[p].paused \/ page[p].takenOver

\* A master that lost its connection gets back its game by itself, also while the server still
\* holds the lost connection, unless it was taken over from or its user is about to take over.
GetsBackIn ==
  \A p \in Page :
    (state = "LOST_MASTER" /\ \E c \in ConnsOf[p] : lastMasterId = DeviceOf[c])
      ~> state # "LOST_MASTER" \/ page[p].paused \/ page[p].takenOver

\* "A master that lost its connection gets back into its running game by itself"
\* (shared/interfaces/IRegisterMasterPacket.ts:12), whenever it was lost.
AlwaysFits == \A p \in Page : Settled(p) /\ page[p].conn = master => Fits(p)
=============================================================================
