---------------------------- MODULE Provisioning ----------------------------
(***************************************************************************)
(* Wireless buzzers plugged into the box (services/buzzer-provisioning.    *)
(* service.ts): the service looks for serial ports every two seconds, asks *)
(* who is there, and gives a buzzer the box's WiFi and the color of its    *)
(* case when the master adopts it, on whose page the color was chosen      *)
(* (client/src/app/master/wireless-buzzers).                               *)
(*                                                                         *)
(* What the service tells its callbacks is on the page at once; what the   *)
(* page asks for arrives before the next look is over.  A port's name is   *)
(* free again only when the sessions of the buzzer before it are closed.   *)
(***************************************************************************)
EXTENDS Naturals, Sequences, FiniteSets

CONSTANTS
  Path, Buzzer, Color,
  Keeping,   \* the buzzers whose firmware keeps a color (supportsCaseColor)
  Refusing,  \* the buzzers that refuse the settings
  Sleepy,    \* the ports whose buzzer is woken by a reset (wakeUsbIds)
  MaxOpenAttempts,
  Swift,     \* whether a buzzer may be replaced between two looks
  Queued,    \* bound: the WIFI lines a buzzer has not answered
  None

VARIABLES
  port,     \* the buzzer that is plugged in at each path
  buzzer,   \* what each buzzer keeps: whether it has the box's WiFi, its color; and whether it is awake
  usb,      \* buzzers: what the service knows of each path, which is what the page shows
  talks,    \* the session at each path
  lines,    \* the WIFI lines the buzzer at each path has not answered
  failedOpens, retryIdentify,
  listed,   \* the ports SerialPort.list found, until the look goes on
  chosenColors,  \* of the page; with history: for which buzzer
  asked     \* ADOPT_USB_BUZZER on its way

provisioning == <<port, buzzer, usb, talks, lines, failedOpens, retryIdentify, listed, chosenColors, asked>>

Choice == [color : Color, for : Buzzer]
Busy(state) == state \in {"identifying", "adopting"}

ProvisioningTypeOK ==
  /\ port \in [Path -> Buzzer \cup {None}]
  /\ buzzer \in [Buzzer -> [has : BOOLEAN, color : Color \cup {None}, awake : BOOLEAN]]
  /\ \A p \in Path : usb[p] # None =>
       usb[p].state \in {"identifying", "detected", "no-answer", "adopting", "adopted", "failed"}
  /\ chosenColors \in [Path -> Choice \cup {None}]

----------------------------------------------------------------------------
(* What the service knows, and what the page makes of it. *)

NewBuzzer == [state |-> "identifying", mac |-> None, color |-> None, isAdopted |-> FALSE]

\* the page forgets what was chosen for a buzzer that is gone
notifyChanged_KeepsChoice(known) == usb' = known /\ UNCHANGED chosenColors
notifyChanged(known) ==
  /\ usb' = known
  /\ chosenColors' = [p \in Path |-> IF known[p] = None THEN None ELSE chosenColors[p]]

\* a buzzer that is still plugged in
update(p, entry) == notifyChanged(IF usb[p] = None THEN usb ELSE [usb EXCEPT ![p] = entry])

----------------------------------------------------------------------------
(* A session: talk.  `gives' is None when it only identifies the buzzer. *)

Session(gives) == [gives |-> gives, open |-> FALSE, told |-> None, wasReset |-> FALSE]
NoColor == [color |-> None, for |-> None]

Talks(p) == talks[p] # None
Listens(p) == Talks(p) /\ talks[p].open

describe(session, state, isAdopted) ==
  IF session.told = None THEN [NewBuzzer EXCEPT !.state = state, !.isAdopted = isAdopted]
  ELSE [state |-> state, mac |-> session.told.mac, color |-> session.told.color, isAdopted |-> isAdopted]

\* the file with the box's WiFi may be missing
answered(p, session, error) ==
  \E readable \in BOOLEAN :
    update(p, IF error # None THEN [usb[p] EXCEPT !.state = "no-answer"]
              ELSE describe(session, "detected", readable /\ session.told # None /\ session.told.has))

\* a port that can't be opened is tried again with the next look
identified_GivesUp(p, session, error) ==
  /\ IF error = "open-failed" THEN UNCHANGED <<usb, chosenColors>>
     ELSE answered(p, session, error)
  /\ UNCHANGED <<failedOpens, retryIdentify>>
identified(p, session, error) ==
  LET counts == error = "open-failed" /\ usb[p] # None
      again  == counts /\ failedOpens[p] + 1 < MaxOpenAttempts
  IN  /\ failedOpens' = IF counts THEN [failedOpens EXCEPT ![p] = @ + 1] ELSE failedOpens
      /\ retryIdentify' = IF again THEN retryIdentify \cup {p} ELSE retryIdentify
      /\ IF again THEN UNCHANGED <<usb, chosenColors>>
         ELSE answered(p, session, error)

\* firmware that is too old does not keep a color
adopted(p, session, error) ==
  /\ update(p, IF error # None THEN describe(session, "failed", usb[p].isAdopted)
               ELSE [describe(session, "adopted", TRUE) EXCEPT
                       !.color = IF session.gives.color # None /\ session.told # None /\ session.told.mac \in Keeping
                                 THEN session.gives.color ELSE @])
  /\ UNCHANGED <<failedOpens, retryIdentify>>

finish(p, session, error) ==
  /\ talks' = [talks EXCEPT ![p] = None]
  /\ IF session.gives = None THEN identified(p, session, error) ELSE adopted(p, session, error)

Opens(p) ==
  /\ Talks(p) /\ ~talks[p].open
  /\ \/ /\ port[p] # None
        /\ talks' = [talks EXCEPT ![p].open = TRUE]
        /\ UNCHANGED <<usb, failedOpens, retryIdentify, chosenColors>>
     \/ finish(p, talks[p], "open-failed")
  /\ UNCHANGED <<port, buzzer, lines, listed, asked>>

\* BUZZ READY answers BUZZ HELLO, each of them; a color that is not kept is not sent
Ready(p) ==
  LET b == port[p]
      session == [talks[p] EXCEPT !.told = [mac |-> b, has |-> buzzer[b].has, color |-> buzzer[b].color]]
  IN
  /\ Listens(p) /\ b # None /\ buzzer[b].awake /\ Len(lines[p]) < Queued
  /\ IF session.gives = None THEN finish(p, session, None) /\ UNCHANGED lines
     ELSE /\ talks' = [talks EXCEPT ![p] = session]
          /\ lines' = [lines EXCEPT ![p] = Append(@, IF b \in Keeping THEN session.gives ELSE NoColor)]
          /\ UNCHANGED <<usb, failedOpens, retryIdentify, chosenColors>>
  /\ UNCHANGED <<port, buzzer, listed, asked>>

\* BUZZ OK and BUZZ ERROR, of which a session that ended hears nothing
Answered(p, error) == IF Listens(p) THEN finish(p, talks[p], error)
                      ELSE UNCHANGED <<usb, talks, failedOpens, retryIdentify, chosenColors>>
TakesWifi(p) ==
  /\ lines[p] # <<>> /\ port[p] \notin Refusing /\ lines' = [lines EXCEPT ![p] = Tail(@)]
  /\ buzzer' = [buzzer EXCEPT ![port[p]] = [@ EXCEPT !.has = TRUE,
                  !.color = IF Head(lines[p]).color # None THEN Head(lines[p]).color ELSE @]]
  /\ Answered(p, None)
  /\ UNCHANGED <<port, listed, asked>>
RefusesWifi(p) ==
  /\ lines[p] # <<>> /\ port[p] \in Refusing /\ lines' = [lines EXCEPT ![p] = Tail(@)]
  /\ Answered(p, "rejected")
  /\ UNCHANGED <<port, buzzer, listed, asked>>

\* a buzzer answers a line long before
TimesOut(p) ==
  /\ Listens(p) /\ lines[p] = <<>> /\ finish(p, talks[p], "no-answer")
  /\ UNCHANGED <<port, buzzer, lines, listed, asked>>

PortCloses(p) ==
  /\ Listens(p) /\ port[p] = None /\ finish(p, talks[p], "port-error")
  /\ UNCHANGED <<port, buzzer, lines, listed, asked>>

\* wakes a buzzer that does not answer, once
reset(p) ==
  /\ Listens(p) /\ port[p] # None /\ p \in Sleepy /\ talks[p].told = None /\ ~talks[p].wasReset
  /\ talks' = [talks EXCEPT ![p].wasReset = TRUE]
  /\ buzzer' = [buzzer EXCEPT ![port[p]].awake = TRUE]
  /\ lines' = [lines EXCEPT ![p] = <<>>]
  /\ UNCHANGED <<port, usb, failedOpens, retryIdentify, listed, chosenColors, asked>>

----------------------------------------------------------------------------
(* A look for the ports, which begins when the one before is over. *)

Lists ==
  /\ listed = None
  /\ listed' = {p \in Path : port[p] # None}
  /\ UNCHANGED <<port, buzzer, usb, talks, lines, failedOpens, retryIdentify, chosenColors, asked>>

lookForBuzzers ==
  LET found == {p \in listed : usb[p] = None \/ p \in retryIdentify} IN
  /\ listed # None /\ asked = <<>>
  /\ listed' = None
  /\ notifyChanged([p \in Path |-> IF p \notin listed THEN None ELSE IF usb[p] = None THEN NewBuzzer ELSE usb[p]])
  /\ failedOpens' = [p \in Path |-> IF p \in listed THEN failedOpens[p] ELSE 0]
  /\ retryIdentify' = (retryIdentify \cap listed) \ found
  /\ talks' = [p \in Path |-> IF p \in found THEN Session(None) ELSE talks[p]]
  /\ UNCHANGED <<port, buzzer, lines, asked>>

----------------------------------------------------------------------------
(* The master's page. *)

canChooseColor(entry) == entry.state \notin {"identifying", "adopting", "no-answer"} /\ entry.mac \in Keeping

chooseColor(p, color) ==
  /\ usb[p] # None /\ canChooseColor(usb[p])
  /\ chosenColors' = [chosenColors EXCEPT ![p] = [color |-> color, for |-> usb[p].mac]]
  /\ UNCHANGED <<port, buzzer, usb, talks, lines, failedOpens, retryIdentify, listed, asked>>

hasActions(p) ==
  \/ usb[p].state \in {"detected", "no-answer", "failed"}
  \/ usb[p].state = "adopted" /\ chosenColors[p] # None /\ chosenColors[p].color # usb[p].color

\* a click comes after the buzzer handled what it got before
asksToAdopt(p) ==
  /\ usb[p] # None /\ hasActions(p) /\ asked = <<>> /\ lines[p] = <<>>
  /\ asked' = <<[path |-> p, choice |-> IF canChooseColor(usb[p]) /\ chosenColors[p] # None THEN chosenColors[p] ELSE NoColor]>>
  /\ chosenColors' = [chosenColors EXCEPT ![p] = None]
  /\ UNCHANGED <<port, buzzer, usb, talks, lines, failedOpens, retryIdentify, listed>>

\* the file with the settings may be missing
adopt ==
  LET p == Head(asked).path IN
  /\ asked # <<>> /\ asked' = <<>>
  /\ IF usb[p] = None \/ Busy(usb[p].state) THEN UNCHANGED <<usb, chosenColors, talks>>
     ELSE \/ update(p, [usb[p] EXCEPT !.state = "failed"]) /\ UNCHANGED talks
          \/ /\ update(p, [usb[p] EXCEPT !.state = "adopting"])
             /\ talks' = [talks EXCEPT ![p] = Session(Head(asked).choice)]
  /\ UNCHANGED <<port, buzzer, lines, failedOpens, retryIdentify, listed>>

----------------------------------------------------------------------------
(* The buzzers. *)

PlugsIn(p, b) ==
  /\ port[p] = None /\ ~Talks(p) /\ \A q \in Path : port[q] # b
  /\ Swift \/ usb[p] = None
  /\ port' = [port EXCEPT ![p] = b]
  /\ UNCHANGED <<buzzer, usb, talks, lines, failedOpens, retryIdentify, listed, chosenColors, asked>>

Unplugs(p) ==
  /\ port[p] # None
  /\ port' = [port EXCEPT ![p] = None]
  /\ lines' = [lines EXCEPT ![p] = <<>>]
  /\ UNCHANGED <<buzzer, usb, talks, failedOpens, retryIdentify, listed, chosenColors, asked>>

\* not before it handled what it got
FallsAsleep(p) ==
  /\ port[p] # None /\ p \in Sleepy /\ buzzer[port[p]].awake /\ lines[p] = <<>>
  /\ buzzer' = [buzzer EXCEPT ![port[p]].awake = FALSE]
  /\ UNCHANGED <<port, usb, talks, lines, failedOpens, retryIdentify, listed, chosenColors, asked>>

----------------------------------------------------------------------------
(* The specification. *)

ProvisioningInit ==
  /\ port = [p \in Path |-> None] /\ usb = [p \in Path |-> None] /\ talks = [p \in Path |-> None]
  /\ buzzer = [b \in Buzzer |-> [has |-> FALSE, color |-> None, awake |-> TRUE]]
  /\ lines = [p \in Path |-> <<>>] /\ failedOpens = [p \in Path |-> 0] /\ retryIdentify = {}
  /\ listed = None /\ chosenColors = [p \in Path |-> None] /\ asked = <<>>

ProvisioningNext ==
  \/ Lists \/ lookForBuzzers \/ adopt
  \/ \E p \in Path :
       \/ Opens(p) \/ Ready(p) \/ TakesWifi(p) \/ RefusesWifi(p) \/ TimesOut(p) \/ PortCloses(p) \/ reset(p)
       \/ asksToAdopt(p) \/ Unplugs(p) \/ FallsAsleep(p)
       \/ \E c \in Color : chooseColor(p, c)
       \/ \E b \in Buzzer : PlugsIn(p, b)

ProvisioningSpec == ProvisioningInit /\ [][ProvisioningNext]_provisioning

\* the timers of the service, ports that open or do not, and buzzers that answer what they get
FairProvisioningSpec ==
  /\ ProvisioningSpec
  /\ WF_provisioning(Lists) /\ WF_provisioning(lookForBuzzers) /\ WF_provisioning(adopt)
  /\ \A p \in Path : WF_provisioning(Opens(p)) /\ WF_provisioning(TimesOut(p))
                         /\ WF_provisioning(TakesWifi(p)) /\ WF_provisioning(RefusesWifi(p))

----------------------------------------------------------------------------
(* Properties. *)

\* What is said of a plugged-in buzzer that answered is so, once it handled what it was sent: it has the color that is
\* shown, and the box's WiFi if it is shown as adopted ("the buzzer has the box's WiFi", shared/interfaces/IUsbBuzzer.ts:
\* 7), also after answers that came twice or too late and sessions that failed halfway.
ShownAsItIs ==
  \A p \in Path :
    usb[p] # None /\ usb[p].state \in {"detected", "adopted"} /\ port[p] # None /\ lines[p] = <<>> =>
      /\ usb[p].mac = port[p] => usb[p].color = buzzer[port[p]].color
      /\ usb[p].isAdopted => buzzer[port[p]].has

\* A color is given to the buzzer that it was chosen for, unless the buzzer was replaced between two looks.
ColorForItsBuzzer ==
  \A p \in Path : lines[p] # <<>> /\ Head(lines[p]).color # None => Head(lines[p]).for = port[p]

\* No buzzer is identified or adopted for ever.
BusyEnds == \A p \in Path : []<>~(usb[p] # None /\ Busy(usb[p].state))
=============================================================================
