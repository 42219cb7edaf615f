--------------------------- MODULE UpdateService ---------------------------
(***************************************************************************)
(* How the server finds update bundles, starts buzzerbox-update and tells  *)
(* the master how it goes (update.service.ts), with the update card of the *)
(* master's page (update-card.component.ts).  The script itself is module  *)
(* Updater; here it is what the service sees of it: `start' either writes  *)
(* that an update runs or refuses, and the update ends with another status *)
(* and maybe with a restart of the server.  Bundles may be replaced or     *)
(* unplugged at any time.                                                  *)
(***************************************************************************)
EXTENDS Naturals, Sequences

CONSTANTS
  File,         \* file names of bundles
  MaxStatus,    \* bound: how often the status is written
  MaxChange,    \* bound: how often the sticks change
  MaxToCard,    \* bound: responses on their way to the master, beside one packet with the info
  Undefined     \* no status, no bundle, no answer

\* reads of the sticks and the status that may be underway at once
Reads == {1, 2}

VARIABLES
  \* the card and the sticks
  statusFile,   \* what the helper wrote last: [state, time]
  stick,        \* the bundles: [signed, stamp]
  changes,      \* how often they changed
  helper,       \* what runs of buzzerbox-update: [file, allow]
  \* UpdateService
  info,         \* infoSubject: [bundles, status]
  cache,        \* manifestCache
  pollingInterval, isRefreshing, isRefreshRequested, isStarting,
  read,         \* updateInfo underway: what it has read so far
  \* the master's page
  toCard,       \* packets on their way to it
  card,         \* [info, isStarting, statusWhenStarting]
  \* for the properties only
  asked,        \* the newest status a refresh was asked for
  asOf,         \* the newest status when the one in info was read
  installed     \* what was installed: [signed, accepted]

disk == <<statusFile, stick, changes, helper>>
refreshing == <<isRefreshing, isRefreshRequested, read, asked, asOf>>
vars == <<disk, info, cache, pollingInterval, isStarting, refreshing, toCard, card, installed>>

Statuses == [state : {"running", "failed", "succeeded"}, time : 1 .. MaxStatus] \cup {Undefined}
Signature == {"VALID", "INVALID"}
Plugged == [signed : BOOLEAN, stamp : {0, 1}]
Info == [bundles : [File -> Signature \cup {Undefined}], status : Statuses]
NoInfo == [bundles |-> [f \in File |-> Undefined], status |-> Undefined]
NoRead == [bundles |-> Undefined, status |-> Undefined, asOf |-> 0, left |-> {}]

TimeOf(s) == IF s = Undefined THEN 0 ELSE s.time
IsRunning(s) == IF s = Undefined THEN FALSE ELSE s.state = "running"

----------------------------------------------------------------------------
(* Refreshing what the master is told. *)

StartRead(r) ==
  read' = [read EXCEPT ![r] = [NoRead EXCEPT !.left = {"bundles", "status"}]]

\* a refresh that is asked for while one runs is done once that one ends
refresh_Skips ==
  /\ asked' = TimeOf(statusFile) /\ UNCHANGED asOf
  /\ IF isRefreshing THEN UNCHANGED <<isRefreshing, isRefreshRequested, read>>
                     ELSE isRefreshing' = TRUE /\ StartRead(1) /\ UNCHANGED isRefreshRequested
refresh ==
  /\ asked' = TimeOf(statusFile) /\ UNCHANGED asOf
  /\ IF isRefreshing THEN isRefreshRequested' = TRUE /\ UNCHANGED <<isRefreshing, read>>
                     ELSE isRefreshing' = TRUE /\ StartRead(1) /\ UNCHANGED isRefreshRequested

\* the game waits for setup, or does not any more
setPolling(isPolling) ==
  /\ isPolling # pollingInterval /\ pollingInterval' = isPolling
  /\ IF isPolling THEN refresh ELSE UNCHANGED refreshing
  /\ UNCHANGED <<disk, info, cache, isStarting, toCard, card, installed>>

PollingTick ==
  /\ pollingInterval /\ refresh
  /\ UNCHANGED <<disk, info, cache, pollingInterval, isStarting, toCard, card, installed>>

\* the manifest and the signature of a bundle are read again only if its size or time changed
Cached(f) == IF stick[f] = Undefined THEN Undefined
             ELSE IF cache[f] # Undefined /\ cache[f].stamp = stick[f].stamp THEN cache[f] ELSE stick[f]
checkSignature(f) == IF Cached(f) = Undefined THEN Undefined ELSE IF Cached(f).signed THEN "VALID" ELSE "INVALID"

findBundles(r) ==
  /\ "bundles" \in read[r].left
  /\ read' = [read EXCEPT ![r].left = @ \ {"bundles"}, ![r].bundles = [f \in File |-> checkSignature(f)]]
  /\ cache' = [f \in File |-> Cached(f)]
  /\ UNCHANGED <<disk, info, pollingInterval, isRefreshing, isRefreshRequested, asked, asOf, isStarting, toCard, card, installed>>

\* a status that can't be read, or is older than STATUS_MAX_AGE_IN_MS, is none
readStatus(r) ==
  /\ "status" \in read[r].left
  /\ \E s \in {statusFile, Undefined} :
       read' = [read EXCEPT ![r].left = @ \ {"status"}, ![r].status = s, ![r].asOf = TimeOf(statusFile)]
  /\ UNCHANGED <<disk, info, cache, pollingInterval, isRefreshing, isRefreshRequested, asked, asOf, isStarting, toCard, card, installed>>

\* both are read: the master is told what changed, and a refresh that was asked for follows
updateInfo(r) ==
  LET new == [bundles |-> read[r].bundles, status |-> read[r].status] IN
  /\ read[r].left = {} /\ read[r] # NoRead /\ Len(toCard) <= MaxToCard
  /\ info' = new /\ asOf' = read[r].asOf
  /\ toCard' = IF new = info THEN toCard ELSE Append(toCard, [t |-> "info", info |-> new])
  /\ isRefreshRequested' = FALSE
  /\ isRefreshing' = isRefreshRequested
  /\ read' = [read EXCEPT ![r] = IF isRefreshRequested THEN [NoRead EXCEPT !.left = {"bundles", "status"}] ELSE NoRead]
  /\ asked' = IF isRefreshRequested THEN TimeOf(statusFile) ELSE asked
  /\ UNCHANGED <<disk, cache, pollingInterval, isStarting, card, installed>>

----------------------------------------------------------------------------
(* Installing. *)

\* the master confirms a bundle on its card; one without a valid signature with its risk accepted
ConfirmInstall(f) ==
  LET isSigned == card.info.bundles[f] = "VALID" IN
  /\ ~card.isStarting /\ ~IsRunning(card.info.status)
  /\ card.info.bundles[f] # Undefined /\ card.request = Undefined
  /\ card' = [card EXCEPT !.isStarting = TRUE, !.statusWhenStarting = card.info.status,
                          !.request = [file |-> f, allow |-> ~isSigned]]
  /\ UNCHANGED <<disk, info, cache, pollingInterval, isStarting, refreshing, toCard, installed>>

\* why install() does not start the helper
Refused(f, allow) ==
  \/ isStarting \/ IsRunning(info.status)
  \/ info.bundles[f] = Undefined
  \/ info.bundles[f] # "VALID" /\ ~allow

Respond(ok) == toCard' = Append(toCard, [t |-> "response", ok |-> ok])

\* --allow-unsigned is for a bundle that was found to have no valid signature
HelperArguments_AsAsked(f, allow) == [file |-> f, allow |-> TRUE, accepted |-> allow, pc |-> "start"]
HelperArguments(f, allow) == [file |-> f, allow |-> info.bundles[f] # "VALID", accepted |-> allow, pc |-> "start"]

install ==
  LET f == card.request.file   allow == card.request.allow IN
  /\ card.request # Undefined /\ Len(toCard) < MaxToCard /\ pollingInterval
  /\ card' = [card EXCEPT !.request = Undefined]
  /\ IF Refused(f, allow) \/ helper # Undefined
     THEN Respond(FALSE) /\ UNCHANGED <<isStarting, helper>>
     ELSE isStarting' = TRUE /\ helper' = HelperArguments(f, allow) /\ UNCHANGED toCard
  /\ UNCHANGED <<statusFile, stick, changes, info, cache, pollingInterval, refreshing, installed>>

\* the packet came when a game was set up
InstallTooLate ==
  /\ card.request # Undefined /\ ~pollingInterval /\ Len(toCard) < MaxToCard
  /\ card' = [card EXCEPT !.request = Undefined] /\ Respond(FALSE)
  /\ UNCHANGED <<disk, info, cache, pollingInterval, isStarting, refreshing, installed>>

WriteStatus(state) ==
  /\ TimeOf(statusFile) < MaxStatus
  /\ statusFile' = [state |-> state, time |-> TimeOf(statusFile) + 1]

\* execFile ends: the helper was started and wrote that it runs, or it could not be
HelperStarted ==
  /\ helper # Undefined /\ helper.pc = "start" /\ Len(toCard) < MaxToCard
  /\ WriteStatus("running") /\ helper' = [helper EXCEPT !.pc = "install"]
  /\ UNCHANGED <<stick, changes, info, cache, pollingInterval, isStarting, refreshing, toCard, card, installed>>

InstallResolves ==
  /\ isStarting /\ Len(toCard) < MaxToCard
  /\ \/ helper # Undefined /\ helper.pc = "install" /\ Respond(TRUE) /\ UNCHANGED helper
     \/ helper # Undefined /\ helper.pc = "start" /\ Respond(FALSE) /\ helper' = Undefined
     \/ helper = Undefined /\ Respond(TRUE) /\ UNCHANGED helper
  /\ isStarting' = FALSE /\ refresh
  /\ UNCHANGED <<statusFile, stick, changes, info, cache, pollingInterval, card, installed>>

\* the helper looks at the bundle itself: it fails, or the server restarts with what it installed
HelperFails ==
  /\ helper # Undefined /\ helper.pc = "install"
  /\ WriteStatus("failed") /\ helper' = Undefined
  /\ UNCHANGED <<stick, changes, info, cache, pollingInterval, isStarting, refreshing, toCard, card, installed>>

HelperInstalls ==
  /\ helper # Undefined /\ helper.pc = "install"
  /\ stick[helper.file] # Undefined /\ (stick[helper.file].signed \/ helper.allow)
  /\ installed' = installed \cup {[signed |-> stick[helper.file].signed, accepted |-> helper.accepted]}
  /\ WriteStatus("succeeded") /\ helper' = Undefined
  /\ info' = NoInfo /\ cache' = [f \in File |-> Undefined] /\ isStarting' = FALSE
  /\ pollingInterval' = TRUE /\ isRefreshing' = TRUE /\ isRefreshRequested' = FALSE
  /\ read' = [r \in Reads |-> IF r = 1 THEN [NoRead EXCEPT !.left = {"bundles", "status"}] ELSE NoRead]
  /\ asked' = TimeOf(statusFile') /\ asOf' = 0
  /\ toCard' = <<[t |-> "info", info |-> NoInfo]>>
  /\ card' = [card EXCEPT !.request = Undefined]
  /\ UNCHANGED <<stick, changes>>

\* a bundle is plugged in, unplugged or replaced, maybe by one of the same size and time
StickChanges(f) ==
  /\ changes < MaxChange /\ changes' = changes + 1
  /\ \/ stick' = [stick EXCEPT ![f] = Undefined]
     \/ \E b \in Plugged : stick' = [stick EXCEPT ![f] = b]
  /\ UNCHANGED <<statusFile, helper, info, cache, pollingInterval, isStarting, refreshing, toCard, card, installed>>

----------------------------------------------------------------------------
(* The card on the master's page. *)

CardReceives ==
  LET p == Head(toCard) IN
  /\ toCard # <<>> /\ toCard' = Tail(toCard)
  /\ card' = IF p.t = "info"
             THEN [card EXCEPT !.info = p.info, !.isStarting = @ /\ p.info.status = card.statusWhenStarting]
             ELSE [card EXCEPT !.isStarting = @ /\ p.ok]
  /\ UNCHANGED <<disk, info, cache, pollingInterval, isStarting, refreshing, installed>>

----------------------------------------------------------------------------

Init ==
  /\ statusFile = Undefined /\ stick \in [File -> Plugged \cup {Undefined}] /\ changes = 0 /\ helper = Undefined
  /\ info = NoInfo /\ cache = [f \in File |-> Undefined]
  /\ pollingInterval = FALSE /\ isRefreshing = FALSE /\ isRefreshRequested = FALSE /\ isStarting = FALSE
  /\ read = [r \in Reads |-> NoRead]
  /\ toCard = <<>>
  /\ card = [info |-> NoInfo, isStarting |-> FALSE, statusWhenStarting |-> Undefined, request |-> Undefined]
  /\ asked = 0 /\ asOf = 0 /\ installed = {}

ReadStep == \E r \in Reads : findBundles(r) \/ readStatus(r) \/ updateInfo(r)

Next ==
  \/ \E on \in BOOLEAN : setPolling(on)
  \/ PollingTick \/ ReadStep
  \/ \E f \in File : ConfirmInstall(f) \/ StickChanges(f)
  \/ install \/ InstallTooLate \/ HelperStarted \/ InstallResolves \/ HelperFails \/ HelperInstalls
  \/ CardReceives

Spec == Init /\ [][Next]_vars

\* reads end, the helper ends, packets arrive; nothing makes the interval fire in time
FairSpec ==
  /\ Spec /\ WF_vars(ReadStep) /\ WF_vars(install \/ InstallTooLate) /\ WF_vars(InstallResolves) /\ WF_vars(HelperStarted)
  /\ WF_vars(CardReceives)

----------------------------------------------------------------------------
(* What must hold. *)

\* Whatever is done to the sticks between the look at a bundle's signature and its installation, and
\* also if the cached signature is that of another file: a bundle without a valid signature is
\* installed only if the master accepted that (install, checkSignature).
UnsignedOnlyIfAccepted == \A i \in installed : i.signed \/ i.accepted

\* "refreshes are run one after the other, or an older one could win": what the master is told was never
\* read before what it was told last, so it is told no status that is older than one it was told, only none at
\* all when the status can't be read or is too old, as long as the same server runs.
InfoGoesForward == [][UNCHANGED helper =>
  asOf' >= asOf /\ (info'.status = info.status \/ TimeOf(info'.status) \in {0, asOf'})]_vars

\* What the status was when a refresh was asked for, or a later one, is looked up, and the master is told what
\* became of it, also if another refresh was underway (refresh).
RefreshIsDone == \A t \in 1 .. MaxStatus : asked = t ~> asOf >= t
============================================================================
