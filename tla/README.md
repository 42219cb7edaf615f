# BuzzUI, specified

BuzzUI is the software of a quiz box: a Node server on a Raspberry Pi, a phone or laptop as the
*game master*, any number of *screens*, and buzzers that are part of the box (over a serial port) or
wireless (over UDP). This directory holds TLA+ specifications of it, the TLC configurations that
check them on small instances, and proofs, checked by TLAPS, that hold for every instance.

Paths and line numbers are those of the repository.

## The system

| part | state it keeps | operations | talks to |
|---|---|---|---|
| `GameService` (server/services/game.service.ts) | automaton state and the one before, the master's connection and device, screens, teams, questions, game state, the buzzer lock, whether a running game is resumed | about 20 packet types, serial bytes, presses of wireless buzzers, lost connections | everything below |
| `WebSocketService`, `WebSocketConnection` | open connections, whether each answered the last ping | connect, message, close, ping every 10 s | `GameService` by callback |
| `AutosaveService` | the play that is saved, dirty, two timers, the save that is underway | begin, changed, end, discard, save, retry | `StorageService`, called by `GameService` |
| `StorageService`, `StorageApiService` | files on the box and on USB sticks, access tokens, upload tickets, the active game | games, versions, states, media; import, export, copy | HTTP from the master's pages |
| `UdpBuzzerService` | known buzzers, presses of the collection window | heartbeats, presses, timeouts, states sent | `GameService` by callback |
| `BuzzerProvisioningService` | buzzers plugged in over USB and their sessions | look for buzzers, identify, adopt | serial ports |
| `UpdateService`, `buzzerbox-update.sh` | releases, the `current` link, the status file, a lock | install, undo, recover, roll back | systemd, the master's update card |
| client `GameService` as a screen | a copy of the teams and the game, the media it plays | every packet the server sends to screens; reload | server |
| client `GameService` as the master | its own automaton, a copy of the game, retries | register, take over, set up, start, grade, ... | server |
| setup pages | the editor's forms, the rows of teams | edit, save, load, name, mark, start | storage API, server |
| play pages | what the question pane shows, dialogs, the remote control | reveal, grade, change question, points, media | client `GameService` |

Node and the browser run one callback at a time, so a handler without `await` is one step. What makes
the system hard is between the steps:

- **who is the master**: devices connect, drop off the WiFi without closing, come back, take over
  from each other and are refused, in every state of the game;
- **who buzzed**: presses arrive by three ways while the master unlocks, grades and moves on;
- **copies**: screens and the master keep a copy of the game that they build from deltas, and change
  it themselves before the server answers;
- **saving**: `AutosaveService` overlaps saves of one play with the end and the beginning of others,
  over a stick that may be pulled out, and requests of the storage API have awaits between what they
  look for and what they do;
- **lossy networks and power cuts**: wireless buzzers resend, the updater may be cut off anywhere.

What has to hold of each part:

- *GameService*: one master at a time; only its master ends a running game; a game that is rejoined
  goes on as it was; a reset leaves nothing; one press counts per lock; everyone is told the lock that
  counts; every change is saved.
- *Screens*: each shows the server's game once up to date, and gets to show a game that runs; what a running
  game sends breaks no page.
- *The master's pages*: a page gets back into its game, or in once the seat is free; its copy is the server's
  once all packets are handled, but for points that were set at both ends at once; the team that buzzed is the
  one that is asked; a buzz stops the media, and the remote shows what the screens show.
- *Setup pages*: a question keeps the media config chosen for it; a continued game has its marks on
  the buzzers its teams sit on now.
- *AutosaveService*: a file never goes back, a discarded play stays gone, every change is saved in
  the end, each play has a file of its own.
- *StorageService*: a version's number means the same questions for ever; a version that is played and
  media that are shown are not deleted; a moved game is whole where it was or where it is.
- *UdpBuzzerService*: a press counts once however often it is sent, no later press comes before the
  earliest one by a right clock, the master's list is current, a buzzer shows the lock and its mark in
  the end.
- *BuzzerProvisioningService*: a buzzer gets the color chosen for it and is not identified for ever.
- *Updater*: after a power cut anywhere the release that ran before is still there, a failed update goes
  back to it, the status does not stay `running`, nothing unsigned is installed unless somebody
  agreed, and the master is told no older status
  after a newer one.

`PROJECT.json` lists every part with what is modelled of it, and under `hazards` what is hard to
test, each at its line, with the properties about it or the reason why there is none.

## The modules

| module | models | on top of |
|---|---|---|
| `GameService` | the server's automaton: master, screens, game, lock | |
| `GameSession` | what the server promises of a game, in 75 lines | |
| `GameServiceSession` | that GameService implements GameSession | GameService, GameSession |
| `GameScreens` | the server with the pages of screens | GameService |
| `MasterPages` | the server with the master pages of several devices, and connections that break | GameService |
| `MasterPlay` | the server with the play page of its master | GameScreens |
| `MediaShow` | the media of the questions: server, remote control, players | |
| `Editor`, `Prepare` | the setup pages | |
| `Autosave` | `AutosaveService` | |
| `Storage` | `StorageService` and the requests of the storage API | |
| `UdpBuzzers`, `Provisioning` | wireless buzzers over the network, and plugged in | |
| `Updater` | `buzzerbox-update.sh`, command by command | |
| `UpdateService` | how the server looks for bundles, starts the updater, and tells the master | |
| `WirelessBuzzers`, `Updates` | the two sides of each together | UdpBuzzers and Provisioning, Updater and UpdateService |
| `MC*` | constants, instances and views for TLC | |
| `*Proofs` | theorems and their proofs | |

A definition is named after the handler or helper it translates, and `PROJECT.json` gives the lines of
each. A definition `X_Fault` is `X` with a plausible mistake; nothing uses it. `PROJECT.json` pairs each
property with one that is put in the place of `X`, under which TLC finds the property violated.

### GameService, GameSession

Every variable is a field of `game.service.ts:72-96`, except

- `open`, the connections that are open (the WebSocket server's),
- `token`, whose storage access token is valid (`StorageService.issueAccessToken`/`revokeAccessToken`),
- `autosave`, what `AutosaveService` has to do (`"off"`, `"saved"`, `"dirty"`), refined in Autosave,
- `boxHeld`, that the box's controller locked itself on a press and waits for a release (external:
  the code in `MicroControllerSerialAdapter` and `onSerialByteIn` shows what it does),
- `sent`, what the last step sent to each connection, in order, for the modules of the pages,
- `started`, a history variable: the game that is set up was started before. No action reads it.

One action is one handler with everything it calls: `GradeAnswer` awards points, reveals answers,
releases the buzzers and sends all packets of `onGradeAnswerPacket`; `TakeOver` is `dropMaster` and
the registration that follows in the same handler. `IgnorePacket` stands for all early returns that
change nothing (they still mark the autosave dirty, as the code does). `Changed` is the call of
`AutosaveService.changed()` after a packet or byte.

Abstracted: teams are the buzzers they sit on (a team's id *is* its buzzer's id), an answer is a value
and not its text, a media state says whether something plays and whether it is in fullscreen (MediaShow
has the rest), themes, names, colors and notes are left out, and what a question is worth is one
number for all. `MaxPoints` is the one bound: grading and `TEAM_SET_POINTS` keep points within it.

`GameSession` is the abstract specification: a seat that is taken, left and taken over; a game that goes
`none`, `ready`, `started`, `over` by steps of whoever has the seat; and a board that changes only while
it is played. `GameServiceSession` maps the automaton to it. The phase is not a function of the state
alone: `LOST_MASTER` remembers in `previous`, and a state that is started again in
`resumesRunningGame`, whether the game was started before.

### GameScreens, MasterPages, MasterPlay

All three compose GameService with pages (client/src/app/services/game.service.ts), by a step of the server
whose `sent` goes to the pages' connections.

*GameScreens.* `inbox` holds the packets on their way to a screen, `view` what it shows. A connection that
closes takes its packets with it. A page without data waits for `DATA_FOR_SCREEN`, one that reloads handles
nothing more and comes back blank on a new connection. A handler that needs the game fails on a page without
data: `SET_QUESTION`, `UPDATE_MEDIA_STATE` and an `ANSWER_SET_STATE` with answers read the game that is not
there (client game.service.ts:790-791, 1099-1102), and the error ends the page's subscription to its packets
(web-socket.service.ts:54-57). Such a page is `deaf`: it handles no packet, also no reset and no new game, until
its connection is lost and it loads again. `Backlog` bounds how many packets a page lags behind. The steps of
the server are those in which the master marks teams that play, as its page does; `MARK_TEAM` for a team that
was removed a moment ago leaves a mark that the server keeps and screens filter (client game.service.ts:827).

*MasterPages.* A page of each device keeps its state, its connection, whether it may retry, and its
token. Connections break: packets on their way are lost, and each end notices on its own, the
server by a ping that is not answered. Meanwhile the page may be back on another connection, refused as
if it were another device's or, by its device id, taken for itself. Nothing is sent to a connection the
server closed. `asked` and `interrupted`
are history: a page that lost its connection while SETUP_GAME or RESET_SERVER was not answered.
`PageAssumption` says no more than that a connection is one page's and a page is on one device; `OneTabEach`, which the
properties need, that no device shows two of these pages, see below. No media are played here, so a page at
the setup that gets a media state of the game before and goes deaf, as a screen does, is left out.

*MasterPlay.* `copy` is what the page's GameService keeps and changes at once, `pane` what the question pane
keeps beside it: found answers, the dialog that asks a team with the answers it offers, the sheet of an answer,
a confirmation. The user reaches what is on top, and the buttons for points whenever that is the page. Packets
go both ways in order. The answers offered are those that are not revealed when the dialog opens
(question-pane.component.ts:464), as `ngOnInit` opens it before it restores what is revealed (94, 100).
`crossed` is history: the teams whose points one end set while points of theirs were on the way from the other,
until they are set again without that.

### MediaShow

The server's media state, a copy of it on each page, what the question pane and the remote go by, and a
player on each screen. Each page changes its copy and sends the whole. Players load the file after the
question's packet, end at any time, and report it. `alone` is history: since a team buzzed, the master
did nothing.

### Editor, Prepare

*Editor*: forms in order and the media configs in an array beside them, undo of a removal, drag and
drop, the open step, defaults and scoring of older versions, saving while editing goes on. The change
detection after each handler is part of it: a view kept by position gives up what the new media can't do.

*Prepare*: rows by the index of a buzzer, rebuilt as buzzers are found, go offline, or get new ids after the
server restarted; a continued game with teams on buzzers that are gone or elsewhere.

### Autosave, Storage

*Autosave*: the service down to its awaits. `plays` counts games that are set up one after the
other, `ref` is the one that is saved now. A save goes through `ready` (waits for the name), `write`
(before its content is made) and `rename`; the last save of a play that ended and the deletion of a
discarded one are a `job` of that play. A snapshot refers to the game's objects, so the content is the
game at the moment it is serialised (`writeJsonAtomically`), not when the save began. `StickPulled` and
`StickBack` are external. Bounds: `MaxPlay`, `MaxChange`, `MaxName`, `MaxPull`.

*Storage*: games on the box and on a stick, with versions, states and media; each request await by
await, what it found kept while the files may change, and `Fail` at any of them. The game that is played
changes beside the requests: `SetActiveGame`, `writeState`, `GameEnds`. `dying` and `ever` are history.
Bounds: `MaxVersion`, `MaxRequests`.

### UdpBuzzers, Provisioning

*UdpBuzzers*: time is in ticks, a press claims an age by its buzzer's clock. Packets are lost, delayed up to
`MaxDelay` and overtake each other; with `Overtaking` off, not those of one buzzer. `button` is the buzzer's own
resending, `ResendFor` long. A sign of life, a battery, its percentage, a firmware version, a color and the look
for buzzers that are silent each change what is `Known` in a handler of their own, which calls
`notifyBuzzersChanged` under its own condition (udp-buzzer.service.ts:270-272, 308, 320, 328, 341, 401); a
heartbeat runs five of them in turn. `taken` and `trueAge` are history.

*Provisioning*: ports that come and go, sessions that open, retry, reset and time out, and the page on
which a color is chosen for a port.

### Updater, UpdateService

*Updater*: each process has a place in the script and its shell variables. `PowerCut` ends all processes, leaves
each directory that was being removed or copied as it was, `Partial` or gone, and runs `recover` at the next
start. `CommandFails` ends install, and the undoInstall it calls itself, by `set -e` and the trap; `UndoFails`
is a command of undoInstall that fails when the trap or recover calls it, which goes on. Both leave what a `rm
-rf` or `cp` worked on like a power cut does. `before` and `undoFailed` are history. `Careful` says which steps
are not taken: nobody installs over, or goes back to, what a power cut or a failure left in pieces; no unit of
`start` fails to start while another process installs; and no `rm -rf` of the copy of the running release (lines
249, 272) fails halfway. That the trap or recover can't write the status is left out. `start` looks at the lock
and writes the status by two commands that are one step here: what takes the lock within these milliseconds, and
is over before them, is left out.

*UpdateService*: its fields, reads of the sticks that are underway, the helper's process as the service sees it,
and the master's update card. A status that can't be read, or is older than half an hour (update.service.ts:325,
332), counts as none; time is not modelled, so that may happen at any read. `asked`, `asOf` and `installed` are
history.

## What TLC checks

Each MC module holds several small instances: the variable `instance` is chosen in the first state and
says what may happen, so that one run asks one question of a component in the corners that make it
hard, and not in their product. What an instance leaves out is written down in the module.

| run | instances | properties | distinct states |
|---|---|---|---|
| `game` | seat, buzzers, answers; with a screen: shown, changed, live | ImplementsSession, NoGameNoData, ResumesStartedGame, ResumeKeepsGame, LockAgrees, OneTeamPerLock, SolvedStaysLocked, ChangesAreSaved, ScreensFollow, RunningGameIsShown | 172k |
| `pages` | two pages: one with two connections, one with one | PageFitsServer, SeatIsTaken, GetsBackIn | 186k |
| `play` | teams, answers, points | MasterShowsTheGame, BuzzedTeamIsAsked, PaneShowsCopy | 1.71M |
| `media` | screens, questions, pictures | MasterSeesScreens, BuzzStopsMedia, WaitingAnswersAppear | 464k |
| `autosave` | overlap, retry | DiscardedStaysGone, CleanIsSaved, SavesGoForward, FirstChangesAreSaved | 784k |
| `storage` | versions, media, games; editor; prepare | NumbersAreKept, PlayedVersionsExist, MovedGameIsKept, ShownMediaStay; EachWithItsConfig; MarksFollowTeams | 746k |
| `wireless` | repeats, order, online, told, shows; plugged | TakenOnce, FairOrder, MasterListIsCurrent, LiveBuzzersShowGame; ColorForItsBuzzer, BusyEnds | 163k |
| `updater` | cuts, again, fails, race; service, swap | NothingIsLost, FailedGoesBack, StatusSettles; UnsignedOnlyIfAccepted, RefreshIsDone | 308k |
| `autosave_next_play` | two plays | EveryChangeIsSaved, **violated** | |
| `autosave_names` | one play, the stick pulled once | EachPlayHasItsState, **violated** | |
| `master_stuck` | as `pages` | AlwaysFits, **violated** | |
| `updater_boot` | as `updater` | BootsAgain, **violated** | |

### Bounds, and why they are enough

- *game.* The code compares a connection with the master's and a device with the last master's. `seat`
  has three connections of two devices: the same again, another of the same device (before and after it
  reconnected), another device. `buzzers` has two teams of each kind, what a game needs at least, with
  mixed teams to refuse, a second press of each kind, a game saved with a mark, and two questions.
  `answers` reveals the wrong answer first, the right one first, both and neither, with points -1..1.
  Pages do not talk to each other and the server treats screens alike, so one screen is enough; `shown`
  has every packet of a game, `changed` three teams of which two or three play.
- *pages.* A connection breaks, a page is loaded again or a device takes over once (`MaxTrouble` 1), at any
  moment, while users set up, end, reset and ask freely. `MaxTrouble` 2 has 3.1 million states and its
  invariants were explored by hand.
- *play.* Three teams so that one can be removed while two play, two questions with one and with two options,
  `Underway` 1: the user does something while one packet is on its way each way, whose answers then queue up. In
  `points` the user adds points to two teams that are graded, between -1 and 1, which is enough for each end to
  overwrite what the other set; a right and a wrong answer count one. The media and the master's seat are the
  business of others, and so are questions whose answers are not shown: their dialog offers none.
- *media.* Two videos, an image and a slideshow of two slides; two screens beside each other with
  one question, one screen with questions that change; `Underway` 1.
- *autosave.* The service knows one play and the one before it; `overlap` has one that ends and one that
  begins, with a change before, during and after a save, and the stick pulled once; `retry` one play with
  three changes and the stick pulled twice.
- *storage.* Two locations, two names, two contents, a copy that is played and changed apart from its
  original; up to four requests, one at a time, each failing anywhere, beside the game that is
  played and saved. Numbers up to 3: a deleted highest version, the one that must not reuse its number,
  and one more. With two requests at a time NumbersAreKept does not hold (see below). `editor`: three
  questions, three edits after loading, three versions. `prepare`: two wireless buzzers and two of the box,
  two restarts, four changes.
- *wireless.* `Window` 1, `MaxDelay` 2, clocks that are right, ahead by less and more than a packet takes,
  behind by what can't and by what can be told, and missing. `repeats` has two presses of a buzzer with any
  number of copies, `shows` two STATE packets on their way. `online` has two buzzers that come and go with every
  level of their batteries, `told` one with all else that a heartbeat may say. `plugged`: one port, two buzzers
  in turn.
- *updater.* `cuts`: two installs and two power cuts, so that one hits the recovery from the other or from both,
  and a command that fails. `again`: three installs of one version, with and without a bundle that starts, so
  that a copy an earlier one left meets a later one. `fails`: three installs with one that fails, so that
  releases are cleaned up and a running version is reinstalled. `race`: two processes. In each of them one
  command of install may fail, or one of undoInstall whoever calls it, also halfway. `service` has two statuses,
  one change of the stick and one packet on its way to the card; in `swap` the bundle on the stick is exchanged
  for an unsigned one that looks the same.

Constraints are in the instances' next-state relations, never as CONSTRAINTs, and bound only what need not
happen: fair steps are never cut off.

*Views.* `game` leaves out what nothing reads again (`sent`, and per instance what neither the pages nor the
properties depend on), and replaces a page and its inbox by what the page will show once it handled the inbox,
which is what ScreensFollow speaks of and a page's own step leaves as it is; so it covers pages that lag behind
by any number of packets. Where liveness is asked for (`live`) inbox and view are kept. `pages` leaves out the
game and, of a packet, what pages do not go by: states that the view takes for the same have the same steps and
the same values of the properties. `play` leaves out the master's seat, which stays, and where the user adds no
points the points, on which nothing else depends. *Symmetry* is used in `play` only, of teams, where nothing
temporal is checked.

*Deadlock* is not checked where the system may stop: a play that is saved and no more changes
(`autosave`), requests, installs and edits that are used up (`storage`, `updater`), and users who do
nothing more (`play`, `media`).

### Fairness

None is assumed of people, presses, breaking connections or failures. Assumed is that

- *GameScreens*: a page handles a packet that is there, connects (client web-socket.service.ts retries until it
  is), registers (`useAsScreen`) and reloads when told to; `RunningGameIsShown` allows for a screen whose
  connection is lost again and again;
- *MasterPages*: packets arrive while a connection holds, both ends notice its loss (ping, close
  event), a page connects again and its retry timer fires;
- *MediaShow*: packets arrive, files are loaded, what plays goes on and ends;
- *Autosave*: timers fire, file operations end, and somebody puts the stick back;
- *UdpBuzzers*: timers fire and buzzers send heartbeats (weak fairness); of heartbeats and STATE packets some
  arrive (strong fairness, as the network may lose any of them);
- *Provisioning*: the look for ports repeats, ports open or fail to, a session times out, buzzers answer;
- *Updater*: a process that was started goes on, unless the power is cut; *UpdateService*: reads, the
  helper's start and its answer, and packets to the card come. The polling interval is not assumed to fire.

MCUdpBuzzers states some of these as one condition for a step of either of two instances: as an instance
stays what it is, that says the same as a condition for each.

### What the violations show

- `autosave_next_play`: `save()` returns the save that is underway, whoever it is of
  (autosave.service.ts:158-161). If that is a save of the play before, its `finally` (185-190) looks only
  after its own play; the new play's timer is spent and its change stays unsaved until the next change
  or the end. The comment at 159 promises otherwise. It needs the first seconds of a new game
  and a slow stick.
- `autosave_names`: if the stick is gone while the unique name is searched for, the error is logged
  (78) and the play goes on with the plain name; the retry then overwrites the state that has it.
- `master_stuck`: the connection is lost after the server handled SETUP_GAME and before its answer arrives. The
  page registers as if nothing were set up, the server takes it for the master that is back, and the
  page does not handle that answer in its state: the user sees the setup, the server waits for a start.
- `updater_boot`: undoInstall removes a release and moves its copy there; the power cut between the
  two, while a running version was being reinstalled, leaves `current` on nothing, and recover looks
  only for a `current` that names the copy. NothingIsLost holds, so the files can be put back by hand as
  long as nobody installs that release again before.

Met while modelling, of things no text of the repository says, or left as notes to hazards:

- Two versions saved at once get the same number, and the later one replaces the other
  (storage.service.ts:723, 1382): NumbersAreKept assumes one request at a time that changes a game.
- `correctAnswersThatAreLeft` is wrong after a right grade reveals the answer whose sheet is open
  (question-pane.component.ts:311-314): `MasterPlay!LeftIsCounted` does not hold.
- RESET is kept as a state and carried out again by who gets it again: `MediaShow!RestartsOnce` does not hold.
- TEAM_SET_POINTS is absolute and goes by the page's copy. If the user adds points while a grade, or points, of
  that team are on their way, the page ends with the server's total and the server with the page's (client
  game.service.ts:576-579, server 482-488), until points of that team are set again: `crossed`, of which
  MasterShowsTheGame claims no points.
- When a page is loaded with a team marked, the dialog opens before the revealed answers are restored
  (question-pane.component.ts:94, 100) and offers them again, against "revealed answers can't be given again"
  (dialog-grade-answer.component.ts:11).
- A screen that is loaded after the end of a game is sent nothing (server game.service.ts:693-697). If a buzzer
  is pressed then, or the master plays media, the media state makes it deaf; it misses the reset and every game
  after it, and waits for ever with its connection open. ScreensFollow and RunningGameIsShown claim nothing of
  deaf pages; what is sent in a running game makes none (NoneGoesDeafInGame).
- Each part of `Careful` is needed for NothingIsLost. After a power cut that left `current` in pieces, an
  install of the same version removes the copy it could have been restored from (CleanCopies). `rollback` takes
  the newest other directory, complete or not. And a unit that can't be started writes `failed`
  (buzzerbox-update.sh:347) over the status by which the trap of the install that is underway would know that it
  has to go back (198): what runs may stay a mere copy, which the next install of that version removes. A `rm
  -rf` of the copy that fails and leaves some of it (249 before it is made, 272 after the new release was
  checked) is worst: the trap's undoInstall looks only whether there is a copy (172), removes the release for it
  and moves what is left in its place, against the comment "only a complete copy gets the name undoInstall
  restores from" (251). Both copies are then lost without a power cut (`BreaksCopy`).
- Two tabs of one browser share the masterId in its local storage (client game.service.ts:78, 123), and the server
  takes the second one for the master that is back. If the first is at the setup, the second sets up a game and
  is loaded again, the first gets the seat and is told NEW_MASTER_ACCEPTED, which it handles in its state STARTING
  only: it stays at the setup while the server waits for a start. With one tab for each device
  (`OneTabEach`) PageFitsServer holds, and is proved.
- A collection window that began before the master locked and released the buzzers ends afterwards, and its
  press then counts for what they were released for (udp-buzzer.service.ts:356, game.service.ts:1071).

Further properties are stated beside the others and hold in the same instances, but are not part of a
run: UdpBuzzers!OfflineWasSilent, Updater!InstallKeepsCurrent and SucceededRuns,
Prepare!TeamsFitBuzzers and EnteredNamesStay,
Editor!OpenQuestionStays and UnchangedIsTheSame, Provisioning!ShownAsItIs, and the type invariants.
GameScreens!NoneGoesDeafInGame, MasterPages!OthersAreRejected and UpdateService!InfoGoesForward are proved below.

## What is proved

Each proof module EXTENDS its component's module and TLAPS. The constants are any that satisfy the
named assumptions, so the theorems speak of any number of connections, teams, answers, plays, buzzers and packets.

### GameServiceProofs

| theorem | states |
|---|---|
| TypeCorrect | `[]TypeOK` |
| LockCorrect | `[]LockAgrees` |
| SeatCorrect, ResumesCorrect | `[]SeatMatchesState`, `[]ResumesStartedGame` |
| ResetCorrect | `[]NoGameNoData` |
| GameSurvives | `RunningGameSurvives` |
| GameResumes | `ResumeKeepsGame` |
| OnePressCounts | `OneTeamPerLock` |
| BoxIsFreed | `UnlockFreesBox` |
| SolvedIsLocked | `SolvedStaysLocked`, if `WrongCost # 0` |
| ChangeIsSaved | `ChangesAreSaved` |
| SessionImplemented | `Spec => Session!Spec`, the refinement |

from `ConnAssumption` (connections of masters and screens differ, each master's connection has a device)
and `DataAssumption` (the constants are of the right kinds, media states are closed under pausing).

Two invariants carry them. `PlayInv` is the type of the game and `LockAgrees`: a handler that writes
one of the two locks and not the other would break the next one, and `GameToSetUp` needs the type of
`keypressLocked` to make a game. `SeatInv` is the type of the rest with `SeatMatchesState` and
`ResumesStartedGame`, neither of which is inductive alone: registering in `LOST_MASTER` makes the
automaton go on only because the state before was `WAITING_FOR_START` or `PLAYING`, and what is resumed
then depends on whether the game had been started, which the lost state has to remember through
`previous`. `NoGameNoData` is inductive relative to `SeatInv`.

`Keeps` gathers what the handlers of a running game leave alone, once per handler; the proofs about
the seat, the reset and the action properties use it instead of the handlers. The action properties
follow from the invariants step by step. SolvedIsLocked needs that a wrong answer costs something, as the
property tells a wrong grade, which may release the buzzers, by the points that go down. ChangeIsSaved
needs `SavedHasQuestions`: without questions a handler fails before it marks the play as changed, which
is then out of reach.

SessionImplemented maps each handler to a step of GameSession or to a stutter, from the same invariants,
by which `Phase` is a function of the state and of `started`, and from `OnlyTeamsScore`: who is no team
has no points, so that a change of teams takes points from nobody else.

### AutosaveProofs

DiscardedIsGone, CleanGameIsSaved and NoSaveGoesBack state `DiscardedStaysGone`, `CleanIsSaved` and
`SavesGoForward`, from `NoneAssumption` (None is no number) and `BoundAssumption`.

`AutosaveInv` is `Types` and three parts. `Current`: the play that is saved has not ended, and the timer is its
own. `Named`: a file is written or deleted only under the name that was found for its play, so two plays
never meet in one file once it has its name. `Exclusive`: a play that is deleted, or whose last save is
being written, has no other save underway but the one it waits for; this is where DiscardedStaysGone
comes from. `Forward`, inductive relative to these, says that neither a file nor the content of the save
that is underway is newer than its play, and the file no newer than that content, which gives
NoSaveGoesBack for each rename. `CleanIsSaved` is preserved relative to both.

### UdpBuzzersProofs

- PressTakenOnce: `ASSUME ~Overtaking PROVE Spec => []TakenOnce`. `InOrder`: no press on its way has a smaller
  number than the last one the service took, or a greater one than its buzzer's last; `NoneAhead`: no
  number beyond the last one was taken. So the first copy takes a number and all later ones are
  repeated. `Types` bounds how old packets and buttons get, which needs `ResendFor <= MaxDelay`
  (UdpAssumption; 300 ms and 500 ms in the code).
- EarliestComesFirst: `Spec => []FairOrder`. `FairInv` says what a collected press claims of its true age: that
  age by a right clock, and not more by one that can't gain. `Resolved` sorts by rank, the number of
  presses that come before; no two presses have the same rank, so ranks are a bijection (RankIsBijection,
  by FS_Injection), and the sorted sequence has every press once and in order (ResolvedInOrder).
- MasterListCorrect: `Spec => []MasterListIsCurrent`. `Current` says of a record of what is known that the list
  in it is right; one lemma for each of the six handlers that call `notifyBuzzersChanged` shows that it
  preserves this, as what it leaves unsaid is what it did not change (SignOfLifeTold, BatteryTold, InfoTold,
  TimeoutsTold). A heartbeat is five of them in turn. If any of the six is made to forget its call, TLC finds
  the property violated.
- ColorsFindBuzzers: `Plugged!ProvisioningSpec => []ColorForItsBuzzer`, if no buzzer is replaced between two looks
  for ports (`Swift` is FALSE, as in the run) and "no buzzer" keeps no color. `KnownInv`: the entry, the session,
  the choice on the page and the request underway at a path are of the buzzer that is plugged in there; `LinesInv`: the
  settings it has not answered yet are for it.

### UpdaterProofs

NothingIsEverLost: `Spec /\ [][Careful]_vars => []NothingIsLost`, from UpdaterConstants and NothingIsNone
(the values for nothing and for a directory in pieces are no versions, directories or files), for any number of power
cuts and of commands that fail or stop halfway, the trap's and recover's included.

`LossInv` is `Types`, which has that only the holder of the lock is past its first commands; `Roles`, who may be
where: recover runs alone, and an install began with a complete release and nothing in pieces; and one of two
parts. `Installing`: for each command of the script `Stage` says which release runs and which directories are
complete, or at least not in pieces. At every command that may be followed by the trap this implies `CanGoBack`,
what undoInstall needs to find; its four commands, and the failure of each, lead from there to `Safe` (the
release that ran before is complete under its name or as its copy) and `Recoverable` (so is the current one, and
a copy that `current` names is not in pieces). `Booting`: nobody installs, and recover finds what is
`Recoverable`. A power cut leads from the first part to the second: whatever it leaves in pieces, a complete
copy of the current release is not among it. `Careful` is used where it is needed only: at the lock, for
rollback, for `start`, and for the two commands of `BreaksCopy`. `Bounded` gives the files a newest time, so
that those of the bundle have one as well (NowIsLater).

FailedWentBack: `Spec /\ [][Careful]_vars => FailedGoesBack`. `BackInv` ties `before` to the directories,
command by command (`GoingBack`), as long as no command of the trap's own undoInstall has failed: the other
releases are as they were; what runs is what ran; and while the running version is reinstalled and no copy of it
was left before, its files are under its name or in the copy this install made (`Restorable`). The proof found
that the last condition is needed, and TLC then showed it in `again`: undoInstall (buzzerbox-update.sh:172-177)
puts back whatever `.replaced-*` it finds, by its comment "only a complete copy gets the name". The copy is
complete, but it may be that of an earlier install which was cut off; an install that stops before it has
removed it then goes back to these older files. `CopyWasLeft` names this case, and the property speaks of all
others. A command of install that fails, also halfway, is one of those others; one that fails while the trap
goes back is not, since the script goes on and tries nothing again.

UnsignedIsAccepted: `Service!Spec => []UnsignedOnlyIfAccepted`, for any files, sticks that change and bounds, from
`HelperIsAllowed`: what the helper was started with is what the service found at that moment.

InfoIsForward: `Service!Spec => InfoGoesForward`, an action property that no run checks by itself (TLC found it
to hold on `updater`'s instance), if `Undefined`, the status of no file, is none that the script writes.
`ReadsForward`: one refresh reads at a time, and it read the file no earlier than the refresh the master was
told of last (`asOf`). This is what update.service.ts's queue of refreshes is for. So no status is followed by
an older one; by none it may be, when the file can't be read or its status is too old.

### StorageProofs

| theorem | states, if one request that changes games is underway at a time |
|---|---|
| NumbersKept | `[]NumbersAreKept` |
| PlayedVersionsKept | `[]PlayedVersionsExist` |
| MovedGameKept | `[]MovedGameIsKept` |
| ShownMediaKept | `ShownMediaStay` |

from `StorageAssumption` (None is no content and no game, an archive holds a game whose states have their versions).
Each is `Spec /\ []OneAtATime => ...`: one master is logged in, and its pages wait for the answer of one
such request before they send the next. The service has no locks of its own: with two at once
NumbersAreKept fails, see above. The game that is played and its saves go on beside the request; that is where the
difficulty is.

`StorageInv` is `StoreInv` and `RequestInv`. In a game, `Covered`: a number that ever had questions is at most
`highest` or at most that of a version that is there, so `saveVersion` never gives it away again, also while a
copy, a deletion or an import has written only some of the files. `RequestInv` says what a request
found before each of its awaits and what of that still holds after it: a number that was
looked up is still higher than all others, a game that is being copied and renamed is not played, what has been copied is
what the original has. The lemmas UnderwayGoesOn and OnlyPlayed show that nothing the played game does
takes such a fact away. MaxIsGreatest (a finite set of numbers has its maximum) is proved by pigeonhole, as
no induction theorem can be cited.

The same module has the setup pages: ConfigsStayWithQuestions and MarksAreKept state `EachWithItsConfig` and
`MarksFollowTeams`, for any questions, media kinds, buzzers and restarts, from `EditorAssumption` and
`PrepareAssumption` (no wireless id is one of the box).

`EditorInv`: forms are numbered apart and paired with configs, each config is the one chosen for the form at its
index, and the question in the snack bar is none of those that are there, so that undo puts both back where they
belong. It needs lemmas about sequences after a removal, an insertion and a drag (`HasLess`, `HasMore`,
MovedIs). `PrepareInv`: no two buzzers share an id, each row's index is that of the buzzer with its id. The n-th
buzzer of a kind is one of them, as the numbers of smaller indices are a bijection.

### MediaShowProofs

ScreensAreSeen and PressStopsMedia state `MasterSeesScreens` and `BuzzStopsMedia`, from `MediaAssumption`, for any number
of screens, questions and slides, and any backlog of packets.

`ShowInv` says of each connected page what its queue must end with: the last packet about media
carries the server's media, the last one about the question the server's question, and `GAME` is at most the
first. If nothing is on its way, the page has what the server has, and a screen's player follows it
(`Follows`). The same is said of the master's queue the other way round, as the master shows its own change
before the server has it; what it sends comes back, so that it ends with what the server made of it. `Stopped`
is PressStopsMedia, inductive with the types.

### GamePagesProofs

- ScreensUpToDate: `ScreensSpec => []ScreensFollow`, for every backlog and every page that is not deaf. What a
  page will show (`Handled`, a recursive function over the queue) is given by a run of views. That there is one
  and only one (RunExists, HandledBy) is shown by the least index at which it fails to exist, or at which two
  differ; from this follow HandledMore (a queue is handled part by part) and HandledHead. `Told` then says that
  a page which follows the game, or is deaf, still does after it handled what a step sent, once per handler of
  the server; a page without data may go deaf where it waits for the next game only. `Known` is
  GameServiceProofs' invariants with what this proof needs beside: marked teams play, a game that runs has
  questions.
- DeafOnlyBetweenGames: `ScreensSpec => NoneGoesDeafInGame`, from the same invariant: in a running game a
  registered screen has its data, or has it on its way before all else, and nothing is sent to one that is not
  registered.
- PaneIsRestored: `PlaySpec => []PaneShowsCopy`. `PaneInv`: the master is told only of answers that are
  revealed, and never gets the question anew (`AllMild`), the page asks only what a play page asks
  (`AllAsked`), and the sheet is about an answer of the question; then the pane's answers are the copy's.
- MasterIsShown: `PlaySpec => []MasterShowsTheGame`. The page changes its copy before the server does, so
  neither is ahead. `DeskInv` (with `Agrees`) compares the server's game with what the page will show once it
  handled all packets on their way to it, field by field, with an exception for what the page asked for and the
  server has not handled: the question may differ while another one was asked for, a mark may be missing while
  one is to be taken back, and so on. `ScoreInv` says the same of the points, of the teams that are not
  `crossed`: they differ only while new points are on their way to the server. With both queues empty the
  exceptions are gone.
- TeamIsAsked: `PlaySpec => []BuzzedTeamIsAsked`. `AskInv` adds that at most one team is marked, and that each marked team
  is asked (`Asks`): its dialog is open or was put off; or its mark is still on its way to the page, with nothing
  behind it that takes it back; or the page asked to have it taken back. When a dialog
  closes, reopenGradeDialog looks for a marked team in the copy; MarksOnlyGo shows that between the
  mark and this look only the page itself takes marks out of its copy.

### MasterPagesProofs

| theorem | states |
|---|---|
| MasterPageFits | `PagesSpec => []PageFitsServer` |
| OthersAreTold | `PagesSpec => []OthersAreRejected` |
| PagesTypes | `PagesSpec => []PagesTypeOK` |
| PagesImplementServer | `PagesSpec => Spec`: among its pages the server does only what GameService allows when anything may be sent to it |

each `ASSUME OneTabEach`, from GameService's assumptions and `PageAssumption`, for any number of devices,
connections and breaks (no bound on `MaxTrouble`, and no bound on the packets on their way). By the last one the
theorems of GameServiceProofs hold here too.

PageFitsServer speaks of the moments when nothing is on its way. To get there the invariant has to follow what
is: packets the server sent and the page has not handled, packets the page sent and the server has not handled,
and those sent before the connection is open. `View` is a page's state, with whether it waits for the answer to a
setup or a reset, and a *run* of views (`RunOf`) has one for each packet on its way to the page: what the page will
be once it handled it. `GoodRun` says of it

- `Sound`: of every view, what may be on its way to the server in it (`Meets`), e.g. START_GAME only from
  `READY_TO_START`; and which views may follow it: a packet that refuses the page is the last one, a game
  that runs comes from one that was ready;
- `InStep`: the last view of the master's page is where the server is, or what it asked for and the server has
  not handled makes the server so;
- `Danger`: in a view at the setup from which the page could register again, its device has no game running on the
  server (`Safe`), as it would be given that game and not show it. This is what `interrupted` excludes,
  and what two tabs of one browser break;

and `Newcomer` of a page that has a connection and is not the master's: nothing was sent to it, and it registers
first or was refused. `PagesInv` is GameServiceProofs' `SeatInv`, `LinksInv` (which queues are empty) and `PageOK`
of every page.

There is one lemma for each way a run changes (a packet comes, is handled, is sent, a connection is lost), from
which follow those for the steps of a page, of a connection and of the server. A step of the server touches the
master's page and the one it registers; of all others it has to be shown that they are neither in step with, nor
endangered by, the new state (ReceivesFrame). The case that makes it hard is a page which is back on a new
connection while the server still has its old one: to the server it is the same device, `dropMaster` and
registration happen in one handler, and what was on its way on the old connection is gone at one end and not at
the other.

### Only model-checked

Liveness and what rests on ENABLED are out of the prover's reach: RunningGameIsShown, GetsBackIn, SeatIsTaken,
WaitingAnswersAppear, FirstChangesAreSaved, LiveBuzzersShowGame, BusyEnds, StatusSettles, RefreshIsDone. Every safety
and action property that a passing run checks has a theorem.

## Not modelled

- What pages draw and animate, key bindings, routing, the score board, themes, sounds: no state others depend on.
- Lists of games and file dialogs, archives' streams, free space, tickets and status codes of the storage API.
- Configuration, process arguments, HTTP and file server, logger, clock: read once, or pure I/O.
- The dates of a state (`createdAt`, autosave.service.ts:34): kept by the service and not by the play, and read
  by the list of states only.
- A play that continues the state whose last save is still being written; listed as a hazard with the reason.
- Two requests at once that change one game: see above.
- Media packets to master pages at the setup, and questions whose answers are not shown: see above.
- The firmware of box and buzzers, which is not in the repository.

## What could come next

- Storage with two requests at once, and Autosave as one of its clients, if the service gets locks.
- The two tabs of one browser as an instance of `pages`, once the page handles NEW_MASTER_ACCEPTED at its setup.
- ScreensFollow without its exception, once a page without a game leaves packets alone that need one.
