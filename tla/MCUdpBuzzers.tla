---------------------------- MODULE MCUdpBuzzers ----------------------------
(***************************************************************************)
(* Small instances of UdpBuzzers, one after the other in one run: the      *)
(* first state chooses which, and only its steps are taken.  The constants *)
(* of the cfg are the largest values any of them has.                      *)
(*                                                                         *)
(*   repeats  a buzzer's presses are sent again                            *)
(*   order    two buzzers press, one by a right clock, one by any          *)
(*   online   two buzzers' heartbeats, batteries and colors                *)
(*   told     a buzzer, with every change of what else it tells            *)
(*   shows    what a buzzer shows, with two STATE packets on their way     *)
(*   plugged  none of these: two buzzers are plugged into the box in turn, *)
(*            one of which refuses the WiFi of the box                     *)
(***************************************************************************)
EXTENDS WirelessBuzzers, TLC

CONSTANTS b1, b2, full, newer, orange, p1, red, blue

VARIABLE instance

\* right, ahead by less and by more than a packet takes, behind by so little that it can't be told,
\* and by more
Clocks == {0, 1, 3, -1, -3, NoClock}

Full   == [Untold EXCEPT !.percent = full]
Newer  == [Untold EXCEPT !.firmware = newer]
Orange == [Untold EXCEPT !.color = orange]
Infos  == {Untold, Full, Newer, Orange}

Once == b1 :> 1 @@ b2 :> 0
Both == b1 :> 1 @@ b2 :> 1
Many == b1 :> 2 @@ b2 :> 0
Nobody == b1 :> 0 @@ b2 :> 0

Repeats == INSTANCE UdpBuzzers WITH Beating <- {b1}, Battery <- {"untold"}, Info <- {Untold}, Presses <- Many,
                                    MaxState <- 0, ClockErrors <- {0}, Overtaking <- FALSE
Order == INSTANCE UdpBuzzers WITH Beating <- {}, Presses <- Both
Online == INSTANCE UdpBuzzers WITH Info <- {Untold, Orange}, Presses <- Nobody, ClockErrors <- {0}
Told == INSTANCE UdpBuzzers WITH Beating <- {b1}, Battery <- {"low", "untold"}, Presses <- Nobody, ClockErrors <- {0}
Shows == INSTANCE UdpBuzzers WITH Beating <- {b1}, Battery <- {"untold"}, Info <- {Untold}, Presses <- Once,
                                  MaxState <- 2, ClockErrors <- {0}

provisioning == <<port, buzzer, usb, talks, lines, failedOpens, retryIdentify, listed, chosenColors, asked>>

MCInit ==
  /\ Plugged!ProvisioningInit
  /\ \/ instance = "repeats" /\ Repeats!Init
     \/ instance = "order"   /\ Order!Init /\ clock[b2] = 0
     \/ instance = "online"  /\ Online!Init
     \/ instance = "told"    /\ Told!Init
     \/ instance = "shows"   /\ Shows!Init
     \/ instance = "plugged" /\ Shows!Init

MCNext ==
  /\ UNCHANGED instance
  /\ \/ /\ UNCHANGED provisioning
        /\ \/ instance = "repeats" /\ Repeats!Next
           \/ instance = "order"   /\ Order!Next
           \/ instance = "online"  /\ Online!Next
           \/ instance = "told"    /\ Told!Next
           \/ instance = "shows"   /\ Shows!Next
     \/ instance = "plugged" /\ UNCHANGED vars /\ Plugged!ProvisioningNext

allVars == <<vars, provisioning, instance>>

\* The fairness of UdpBuzzers and of Provisioning, where liveness is asked for.  An instance stays what it is, so one
\* condition for a step of each instance says the same as a condition for each.
Shown(step)    == instance = "shows" /\ UNCHANGED <<instance, provisioning>> /\ step
PluggedIn(step) == instance = "plugged" /\ UNCHANGED <<instance, vars>> /\ step

MCSpec ==
  /\ MCInit /\ [][MCNext]_allVars
  /\ WF_allVars(Shown(Shows!Tick)           \/ PluggedIn(Plugged!Lists))
  /\ WF_allVars(Shown(Shows!WindowEnds)     \/ PluggedIn(Plugged!lookForBuzzers))
  /\ WF_allVars(Shown(Shows!CheckTimeouts)  \/ PluggedIn(Plugged!adopt))
  /\ WF_allVars(Shown(Shows!Heartbeat(b1))  \/ PluggedIn(Plugged!Opens(p1)))
  /\ SF_allVars(Shown(Shows!HeartbeatArrives(b1)))
  /\ SF_allVars(Shown(Shows!BuzzerReceives(b1)))
  /\ WF_allVars(PluggedIn(Plugged!TimesOut(p1)))
  /\ WF_allVars(PluggedIn(Plugged!TakesWifi(p1)))
  /\ WF_allVars(PluggedIn(Plugged!RefusesWifi(p1)))

ShownAsItIs == Plugged!ShownAsItIs
BusyEnds == Plugged!BusyEnds
LiveBuzzersShowGame == instance = "shows" => Shows!BuzzersShowGame
=============================================================================
