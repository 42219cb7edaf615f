----------------------------- MODULE UdpBuzzers -----------------------------
(***************************************************************************)
(* The wireless buzzers (server/services/udp-buzzer.service.ts) over a     *)
(* network that loses, delays and reorders packets: who is known and       *)
(* online, and which press wins.                                           *)
(*                                                                         *)
(* Times are ages: how many ticks ago something happened.  A press claims  *)
(* to be as old as the buzzer's clock says, which may be off.              *)
(*                                                                         *)
(* Of the game there is what the service reads and changes through its     *)
(* callbacks: the lock and the marked buzzers.  GameService has the rest.  *)
(***************************************************************************)
EXTENDS Integers, Sequences, FiniteSets, SequencesExt

CONSTANTS
  Buzzer,
  TeamBuzzer,  \* those that a team plays with
  Beating,     \* those that send heartbeats in this instance
  Battery,     \* the voltages heartbeats tell: "low" is below the limit, "near" within the
               \* hysteresis above it, "ok" above that; or "untold"
  Info,        \* what else a heartbeat tells: charge, firmware and color, each of which may be None
  Window,      \* pressCollectionWindowInMS
  MaxDelay,    \* MAX_PRESS_DELAY_IN_US, and the longest a packet is on its way
  ResendFor,   \* how long a buzzer sends a press again; MAX_PRESS_DELAY_IN_US is chosen to be longer
  Timeout,     \* heartbeatTimeoutInMS
  ClockErrors, \* by how many ticks the clock of a buzzer may be ahead of the server's, or NoClock
  NoClock,     \* for a buzzer whose presses carry no time
  Overtaking,  \* whether packets of one buzzer overtake each other
  MaxPress,    \* bound: the number of a press
  Presses,     \* bound: how often each buzzer is pressed
  MaxState     \* bound: STATE packets on their way to each buzzer; older ones are lost

ASSUME UdpAssumption ==
  /\ IsFiniteSet(Buzzer)
  /\ TeamBuzzer \cup Beating \subseteq Buzzer
  /\ Battery \subseteq {"low", "near", "ok", "untold"}
  /\ \A i \in Info : i = [percent |-> i.percent, firmware |-> i.firmware, color |-> i.color]
  /\ Window \in Nat /\ MaxDelay \in Nat /\ ResendFor \in 0 .. MaxDelay /\ Timeout \in Nat
  /\ ClockErrors \subseteq Int \cup {NoClock} /\ NoClock \notin Int
  /\ Overtaking \in BOOLEAN /\ MaxPress \in Nat /\ Presses \in [Buzzer -> 0 .. MaxPress] /\ MaxState \in Nat

VARIABLES
  known,       \* the buzzers found, in the order of their buzzerIndex
  online, batteryLow, info,  \* of each
  silence,     \* how long ago its last packet came
  lastPressNumber,
  presses,     \* of the window, in the order of their arrival
  windowTimer, \* the ticks it has left, or None
  masterList,  \* the buzzers as the master was told last
  locked, marked,      \* the game's
  toServer, toBuzzer,  \* packets on their way
  button,      \* the buzzers' side: the press it sends
  shown,       \* what each shows, of the last STATE it got
  clock,       \* how far each one's clock is off
  taken        \* history: how often each press was taken into a window

service == <<known, online, batteryLow, info, silence, lastPressNumber, masterList>>
window  == <<presses, windowTimer>>
round   == <<locked, marked>>
network == <<toServer, toBuzzer>>
people  == <<button, shown, clock>>
vars == <<service, window, round, network, people, taken>>

Number  == 1 .. MaxPress
None    == -1
Untold  == [percent |-> None, firmware |-> None, color |-> None]
Silence == 0 .. Timeout + 1
NoPress == [n |-> 0, age |-> 0, sending |-> FALSE]

HeartbeatPacket(b, v, i) == [t |-> "HB", id |-> b, bat |-> v, info |-> i]
PressPacket(b, n, a)     == [t |-> "PRESS", id |-> b, n |-> n, age |-> a]
StatePacket(b, l, m, pa) == [locked |-> l, selected |-> b \in m, pa |-> pa]

ToServer == [t : {"HB"}, id : Buzzer, bat : Battery, info : Info]
              \cup [t : {"PRESS"}, id : Buzzer, n : Number, age : 0 .. MaxDelay]
ToBuzzer == [locked : BOOLEAN, selected : BOOLEAN, pa : Number \cup {0}]

\* `age' is what the press claims to be (recorded as time), `trueAge' and `n' are for the properties
Press == [id : Buzzer, age : None .. MaxDelay + Window, n : Number, trueAge : 0 .. MaxDelay + Window]

TypeOK ==
  /\ known \in Seq(Buzzer) /\ online \subseteq Buzzer
  /\ batteryLow \subseteq Buzzer /\ info \in [Buzzer -> Info \cup {Untold}]
  /\ silence \in [Buzzer -> Silence]
  /\ lastPressNumber \in [Buzzer -> Number \cup {0}]
  /\ presses \in Seq(Press) /\ \A i, j \in DOMAIN presses : presses[i].id = presses[j].id => i = j
  /\ windowTimer \in 0 .. Window \cup {None}
  /\ presses = <<>> <=> windowTimer = None
  /\ locked \in BOOLEAN /\ marked \subseteq Buzzer
  /\ toServer \subseteq ToServer /\ toBuzzer \in [Buzzer -> Seq(ToBuzzer)]
  /\ button \in [Buzzer -> [n : Number \cup {0}, age : 0 .. ResendFor, sending : BOOLEAN]]
  /\ shown \in [Buzzer -> [locked : BOOLEAN, selected : BOOLEAN]]
  /\ clock \in [Buzzer -> ClockErrors]
  /\ taken \in [Buzzer -> [Number -> 0 .. MaxPress + 1]]

----------------------------------------------------------------------------
(* The service. *)

\* What is known of the buzzers, and what the master was told of them last.  Each handler of a sign of
\* life turns one such record into the next.
Known == [known |-> known, online |-> online, batteryLow |-> batteryLow, info |-> info, told |-> masterList]
Learn(s) == /\ known' = s.known /\ online' = s.online /\ batteryLow' = s.batteryLow
            /\ info' = s.info /\ masterList' = s.told

getBuzzers(s) == [x \in DOMAIN s.known |->
  [id |-> s.known[x], online |-> s.known[x] \in s.online, batteryLow |-> s.known[x] \in s.batteryLow,
   info |-> s.info[s.known[x]]]]

\* sends the master AVAILABLE_BUZZERS
notifyBuzzersChanged(s) == [s EXCEPT !.told = getBuzzers(s)]

onSignOfLife(s, b) ==
  IF b \notin Range(s.known) THEN notifyBuzzersChanged([s EXCEPT !.known = Append(@, b), !.online = @ \cup {b}])
  ELSE IF b \notin s.online  THEN notifyBuzzersChanged([s EXCEPT !.online = @ \cup {b}])
  ELSE s

\* with its hysteresis
IsLow(s, b, v) == CASE v = "untold"       -> b \in s.batteryLow
                    [] b \in s.batteryLow -> v # "ok"
                    [] OTHER              -> v = "low"
onBattery(s, b, v) ==
  IF IsLow(s, b, v) = (b \in s.batteryLow) THEN s
  ELSE notifyBuzzersChanged([s EXCEPT !.batteryLow = IF IsLow(s, b, v) THEN @ \cup {b} ELSE @ \ {b}])

onBatteryPercent(s, b, percent) ==
  IF percent = s.info[b].percent THEN s ELSE notifyBuzzersChanged([s EXCEPT !.info[b].percent = percent])

onFirmwareVersion(s, b, version) ==
  IF version = s.info[b].firmware THEN s ELSE notifyBuzzersChanged([s EXCEPT !.info[b].firmware = version])

onColor_Quietly(s, b, color) == [s EXCEPT !.info[b].color = color]
onColor(s, b, color) ==
  IF color = s.info[b].color THEN s ELSE notifyBuzzersChanged([s EXCEPT !.info[b].color = color])

\* sendState: `told' are the packets for each buzzer
Latest(q) == SubSeq(q, Len(q) - MaxState + 1, Len(q))
Send(told) == toBuzzer' = [b \in Buzzer |-> LET q == toBuzzer[b] \o told[b]
                                            IN  IF Len(q) > MaxState THEN Latest(q) ELSE q]
StateToAll(on) == [b \in Buzzer |-> IF b \in on THEN <<StatePacket(b, locked', marked', 0)>> ELSE <<>>]
sendStateToAll == Send(StateToAll(online))

\* the answer to a heartbeat repeats the state, since a STATE may have been lost
AnswerHeartbeat_IfBack(b) == IF b \in online THEN <<>> ELSE <<StatePacket(b, locked, marked, 0)>>
AnswerHeartbeat(b) == <<StatePacket(b, locked, marked, 0)>>

\* onMessage: HEARTBEAT, each part of which may change what is known
Heard(p) ==
  LET alive    == onSignOfLife(Known, p.id)
      battery  == onBattery(alive, p.id, p.bat)
      percent  == onBatteryPercent(battery, p.id, p.info.percent)
      firmware == onFirmwareVersion(percent, p.id, p.info.firmware)
  IN  onColor(firmware, p.id, p.info.color)

OnHeartbeat(p) ==
  /\ p.t = "HB"
  /\ Learn(Heard(p))
  /\ silence' = [silence EXCEPT ![p.id] = 0]
  /\ Send([b \in Buzzer |-> IF b = p.id THEN AnswerHeartbeat(b) ELSE <<>>])
  /\ UNCHANGED <<lastPressNumber, window, round, taken>>

\* a time after the arrival, or before the press could have been sent, is no time; a press without
\* one comes after all others
ClaimedAge_NeverTooOld(b, age) ==
  CASE clock[b] = NoClock         -> None
    [] age - clock[b] > MaxDelay  -> MaxDelay
    [] age - clock[b] < 0         -> 0
    [] OTHER                      -> age - clock[b]
ClaimedAge(b, age) ==
  CASE clock[b] = NoClock                    -> None
    [] age - clock[b] \notin 0 .. MaxDelay -> 0
    [] OTHER                                 -> age - clock[b]

\* the earliest press of each buzzer, at the place of its first
Collected(p) ==
  LET new == [id |-> p.id, age |-> ClaimedAge(p.id, p.age), n |-> p.n, trueAge |-> p.age]
  IN  IF \E i \in DOMAIN presses : presses[i].id = p.id
      THEN [i \in DOMAIN presses |-> IF presses[i].id = p.id /\ new.age > presses[i].age THEN new ELSE presses[i]]
      ELSE Append(presses, new)

\* resolvePresses: the earliest first, and of those made at the same time the one that arrived first
Rank(ps, i) == 1 + Cardinality({j \in DOMAIN ps : ps[j].age > ps[i].age \/ (ps[j].age = ps[i].age /\ j < i)})
Resolved(ps) == [r \in DOMAIN ps |-> ps[CHOOSE i \in DOMAIN ps : Rank(ps, i) = r]]

\* GameService.onUdpBuzzerPress: the first that has a team, unless the game is locked
Buzz(ps) ==
  LET ranked  == Resolved(ps)
      playing == {i \in DOMAIN ranked : ranked[i].id \in TeamBuzzer}
  IN  IF locked \/ playing = {}
      THEN UNCHANGED round
      ELSE LET first == ranked[CHOOSE i \in playing : \A j \in playing : i <= j]
           IN  /\ locked' = TRUE /\ marked' = marked \cup {first.id}

isRepeated_IfSending(p) == p.n = lastPressNumber[p.id] /\ p.id \in online
isRepeated(p) == p.n = lastPressNumber[p.id]

\* onMessage: PRESS, which is acknowledged whether it was sent again or not, and onPress
OnPress(p) ==
  /\ p.t = "PRESS"
  /\ Learn(onSignOfLife(Known, p.id))
  /\ silence' = [silence EXCEPT ![p.id] = 0]
  /\ \/ /\ isRepeated(p)
        /\ UNCHANGED <<lastPressNumber, window, round, taken>>
     \/ /\ ~isRepeated(p)
        /\ lastPressNumber' = [lastPressNumber EXCEPT ![p.id] = p.n]
        /\ taken' = [taken EXCEPT ![p.id][p.n] = @ + 1]
        /\ IF Window = 0
           THEN Buzz(Collected(p)) /\ UNCHANGED window
           ELSE /\ presses' = Collected(p)
                /\ windowTimer' = IF windowTimer = None THEN Window ELSE windowTimer
                /\ UNCHANGED round
  /\ Send([b \in Buzzer |-> (IF locked' # locked THEN StateToAll(online')[b] ELSE <<>>)
                             \o (IF b = p.id THEN <<StatePacket(b, locked', marked', p.n)>> ELSE <<>>)])

\* a packet arrives; without overtaking a buzzer's presses arrive in their order
Receive(p) ==
  /\ ~Overtaking => \A q \in toServer : q.t = "PRESS" /\ p.t = "PRESS" /\ q.id = p.id => p.n <= q.n
  /\ toServer' = toServer \ {p}
  /\ OnHeartbeat(p) \/ OnPress(p)
  /\ UNCHANGED people

HeartbeatArrives(b) == \E p \in toServer : p.t = "HB" /\ p.id = b /\ Receive(p)

WindowEnds ==
  /\ windowTimer = 0
  /\ Buzz(presses)
  /\ presses' = <<>> /\ windowTimer' = None
  /\ IF locked' # locked THEN sendStateToAll ELSE UNCHANGED toBuzzer
  /\ UNCHANGED <<service, toServer, people, taken>>

TimedOut(b) == b \in online /\ silence[b] > Timeout

markTimedOutBuzzersOffline(s) ==
  LET timedOut == {b \in Buzzer : TimedOut(b)}
  IN  IF timedOut = {} THEN s ELSE notifyBuzzersChanged([s EXCEPT !.online = @ \ timedOut])

\* the check every second
CheckTimeouts ==
  /\ \E b \in Buzzer : TimedOut(b)
  /\ Learn(markTimedOutBuzzersOffline(Known))
  /\ UNCHANGED <<silence, lastPressNumber, window, round, network, people, taken>>

----------------------------------------------------------------------------
(* The game, the buzzers and the network. *)

\* the master locks, or releases and unmarks; the buzzers are told
SetLock(l) ==
  /\ locked' = l /\ marked' = IF l THEN marked ELSE {}
  /\ sendStateToAll
  /\ UNCHANGED <<service, window, toServer, people, taken>>

\* a buzzer that knows the game is locked does not send
PressButton(b) ==
  /\ button[b].n < Presses[b] /\ ~shown[b].locked
  /\ button' = [button EXCEPT ![b] = [n |-> @.n + 1, age |-> 0, sending |-> TRUE]]
  /\ toServer' = toServer \cup {PressPacket(b, button[b].n + 1, 0)}
  /\ UNCHANGED <<service, window, round, toBuzzer, shown, clock, taken>>

Resend(b) ==
  /\ button[b].sending
  /\ toServer' = toServer \cup {PressPacket(b, button[b].n, button[b].age)}
  /\ toServer' # toServer
  /\ UNCHANGED <<service, window, round, toBuzzer, people, taken>>

Heartbeat(b) ==
  /\ b \in Beating /\ \A p \in toServer : p.t = "HB" => p.id # b
  /\ \E v \in Battery, i \in Info : toServer' = toServer \cup {HeartbeatPacket(b, v, i)}
  /\ UNCHANGED <<service, window, round, toBuzzer, people, taken>>

BuzzerReceives(b) ==
  /\ \E i \in DOMAIN toBuzzer[b] :
       LET s == toBuzzer[b][i]
       IN  /\ toBuzzer' = [toBuzzer EXCEPT ![b] = RemoveAt(@, i)]
           /\ shown' = [shown EXCEPT ![b] = [locked |-> s.locked, selected |-> s.selected]]
           /\ button' = IF s.pa = button[b].n THEN [button EXCEPT ![b] = [@ EXCEPT !.sending = FALSE]] ELSE button
  /\ UNCHANGED <<service, window, round, toServer, clock, taken>>

Lose ==
  /\ \/ \E p \in toServer : toServer' = toServer \ {p} /\ UNCHANGED toBuzzer
     \/ /\ \E b \in Buzzer : \E i \in DOMAIN toBuzzer[b] : toBuzzer' = [toBuzzer EXCEPT ![b] = RemoveAt(@, i)]
        /\ UNCHANGED toServer
  /\ UNCHANGED <<service, window, round, people, taken>>

\* time passes; the window's timer, when it is due, comes first.  A press that was on its way for
\* too long is lost.
Tick ==
  /\ windowTimer # 0
  /\ windowTimer' = IF windowTimer = None THEN None ELSE windowTimer - 1
  /\ presses' = [i \in DOMAIN presses |-> [presses[i] EXCEPT !.age = IF @ = None THEN None ELSE @ + 1,
                                                                !.trueAge = @ + 1]]
  /\ silence' = [b \in Buzzer |-> IF silence[b] = Timeout + 1 THEN silence[b] ELSE silence[b] + 1]
  /\ toServer' = {p \in toServer : p.t = "HB"}
                   \cup {PressPacket(p.id, p.n, p.age + 1) : p \in {q \in toServer : q.t = "PRESS" /\ q.age < MaxDelay}}
  /\ button' = [b \in Buzzer |-> IF button[b].sending /\ button[b].age < ResendFor
                                 THEN [button[b] EXCEPT !.age = @ + 1]
                                 ELSE [button[b] EXCEPT !.sending = FALSE]]
  /\ UNCHANGED <<known, online, batteryLow, info, lastPressNumber, masterList, round, toBuzzer, shown, clock, taken>>

Init ==
  /\ known = <<>> /\ online = {} /\ batteryLow = {}
  /\ info = [b \in Buzzer |-> Untold] /\ silence = [b \in Buzzer |-> Timeout + 1]
  /\ lastPressNumber = [b \in Buzzer |-> 0]
  /\ presses = <<>> /\ windowTimer = None /\ masterList = <<>>
  /\ locked = FALSE /\ marked = {}
  /\ toServer = {} /\ toBuzzer = [b \in Buzzer |-> <<>>]
  /\ button = [b \in Buzzer |-> NoPress] /\ clock \in [Buzzer -> ClockErrors]
  /\ shown = [b \in Buzzer |-> [locked |-> FALSE, selected |-> FALSE]]
  /\ taken = [b \in Buzzer |-> [n \in Number |-> 0]]

Next ==
  \/ \E p \in toServer : Receive(p)
  \/ WindowEnds \/ CheckTimeouts \/ Tick \/ Lose
  \/ \E l \in BOOLEAN : SetLock(l)
  \/ \E b \in Buzzer : PressButton(b) \/ Resend(b) \/ Heartbeat(b) \/ BuzzerReceives(b)

Spec == Init /\ [][Next]_vars

\* timers fire; buzzers keep sending heartbeats, and of those and their answers some arrive
FairSpec ==
  /\ Spec
  /\ WF_vars(Tick) /\ WF_vars(WindowEnds) /\ WF_vars(CheckTimeouts)
  /\ \A b \in Beating :
       /\ WF_vars(Heartbeat(b))
       /\ SF_vars(HeartbeatArrives(b))
       /\ SF_vars(BuzzerReceives(b))

----------------------------------------------------------------------------
(* What must hold. *)

\* A press sent again is taken once (lastPressNumber), however many copies arrive, as long as the
\* copies of one buzzer's presses stay in order.
TakenOnce == \A b \in Buzzer, n \in Number : taken[b][n] <= 1

\* A press that took longer over the WiFi still wins, and a clock that is off wins nothing with it
\* (onPress): nobody comes before a press with a right clock that was made earlier, except for a
\* buzzer whose clock is behind by so little that it can't be told.
Trusted(b) == clock[b] = 0
CantGain(b) == clock[b] = NoClock \/ clock[b] \notin -MaxDelay .. -1
FairOrder ==
  LET ranked == Resolved(presses)
  IN  \A i, j \in DOMAIN ranked :
        i < j /\ Trusted(ranked[j].id) /\ CantGain(ranked[i].id) => ranked[i].trueAge >= ranked[j].trueAge

\* The list the master has is the service's, although each of six handlers tells it only of what it
\* finds changed itself: found, gone offline and back, with the battery and the rest as the last
\* heartbeat told (onSignOfLife, markTimedOutBuzzersOffline, onBattery, onBatteryPercent,
\* onFirmwareVersion, onColor).
MasterListIsCurrent == masterList = getBuzzers(Known)

\* A buzzer that is shown as offline sent nothing for longer than the timeout (onSignOfLife,
\* markTimedOutBuzzersOffline).
OfflineWasSilent == \A b \in Range(known) \ online : silence[b] > Timeout

\* Whatever STATE packets were lost or overtaken, a buzzer that sends heartbeats shows the game's
\* lock and marks once these stay as they are (sendStateToAll, onMessage).
BuzzersShowGame ==
  \A b \in Beating, l, sel \in BOOLEAN :
    <>[](locked = l /\ (b \in marked) = sel) => <>[](shown[b] = [locked |-> l, selected |-> sel])
=============================================================================
