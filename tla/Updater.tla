------------------------------ MODULE Updater ------------------------------
(***************************************************************************)
(* buzzerbox-update.sh: installs update bundles, goes back if the new      *)
(* release does not start, and recovers after a power cut.                 *)
(*                                                                         *)
(* The script is modelled command by command: one action for each command  *)
(* that changes the card, the lock, the status or the running server.      *)
(* Between any two of them, and within one that removes or copies a        *)
(* directory, the power may be cut; any command of install may fail, which *)
(* ends the script by set -e and runs its EXIT trap, and any command of    *)
(* the trap and of recover, which go on.  What is stopped halfway leaves   *)
(* directories in pieces.  What is in a release is told apart by when it   *)
(* was unpacked and whether it starts.                                     *)
(***************************************************************************)
EXTENDS Naturals, FiniteSets, FiniteSetsExt

CONSTANTS
  Version,         \* versions of releases
  Initial,         \* the one that is installed at first
  Bundle,          \* bundles on the USB sticks: [version, starts, signed, intact]
  RequireSigned,   \* whether REQUIRE_SIGNED_FILE exists
  Install,         \* processes that install: units the server starts, or somebody over SSH
  ByServer,        \* those of them that are started by `start'
  Boot,            \* the process that runs recover before the server starts
  RELEASES_TO_KEEP,
  MaxCuts,         \* bound: power cuts
  MaxFailures,     \* bound: commands that fail unexpectedly
  MaxInstalls,     \* bound: installs
  None,            \* nothing, e.g. a directory that does not exist
  Partial          \* a directory that was only partly copied or removed

ASSUME UpdaterConstants ==
  /\ Initial \in Version /\ Boot \notin Install /\ ByServer \subseteq Install
  /\ Bundle \subseteq [version : Version, starts : BOOLEAN, signed : BOOLEAN, intact : BOOLEAN]
  /\ RequireSigned \in BOOLEAN
  /\ RELEASES_TO_KEEP \in Nat /\ MaxCuts \in Nat /\ MaxFailures \in Nat /\ MaxInstalls \in Nat
  /\ {None, Partial} \cap (Version \cup Install \cup {Boot} \cup Bundle) = {} /\ None # Partial

VARIABLES
  dirs,      \* what is in RELEASES_DIR
  current,   \* the directory CURRENT_LINK names
  status,    \* STATUS_FILE: [state, version]
  lock,      \* who holds LOCK_FILE
  proc,      \* the processes, each with its place in the script and its variables
  running,   \* the files the server was started from, or None
  before,    \* what was installed when an install began: for the properties only
  cuts, failures, installs

sdCard == <<dirs, current, status>>
bounds == <<cuts, failures, installs>>
vars == <<dirs, current, status, lock, proc, running, before, bounds>>

Proc == Install \cup {Boot}

\* releases/<version>, releases/.replaced-<version> and the copy before it gets that name
Dir == {"release", "replaced", "copying"} \X Version
Release(v) == <<"release", v>>
Replaced(v) == <<"replaced", v>>
Copying(v) == <<"copying", v>>

Files == [starts : BOOLEAN, time : Nat]
Complete(d) == d \in Dir /\ dirs[d] \in Files

ASSUME NothingIsNone == None \notin Dir /\ None \notin Files /\ Partial \notin Files

\* one command after the other
Places == {"idle", "start", "launch", "lock", "begin", "unpack", "named", "clean", "copy", "keep", "point", "remove",
           "place", "switch", "check", "drop", "succeed", "tidy", "exit", "undo", "undoFiles", "undoMove", "undoPoint",
           "undone", "rolledBack", "recover", "close", "serve"}
Idle == [pc |-> "idle", bundle |-> None, allow |-> FALSE, version |-> None, previous |-> None, inPlace |-> FALSE,
         trapped |-> FALSE, undoFailed |-> FALSE]  \* the last one is for the properties only

\* where a command ends and which one is next
At(p, pc) == proc[p].pc = pc
Goto(p, pc) == proc' = [proc EXCEPT ![p].pc = pc]
End(p) == proc' = [proc EXCEPT ![p] = Idle]

writeStatus(state, v) == status' = [state |-> state, version |-> v]
switchTo(d) == current' = d
SetDir(d, files) == dirs' = [dirs EXCEPT ![d] = files]

----------------------------------------------------------------------------
(* start and install. *)

\* somebody installs a bundle: the server by start, or over SSH by install
Begin(p, b, allow) ==
  /\ At(p, "idle") /\ At(Boot, "idle") /\ installs < MaxInstalls
  /\ proc' = [proc EXCEPT ![p] = [Idle EXCEPT !.pc = IF p \in ByServer THEN "start" ELSE "lock", !.bundle = b, !.allow = allow]]
  /\ installs' = installs + 1
  /\ UNCHANGED <<sdCard, lock, running, before, cuts, failures>>

\* start looks whether the lock is free, gives it back and writes the status (two commands, taken as one)
StartUpdate(p) ==
  /\ At(p, "start")
  /\ IF lock = None THEN Goto(p, "launch") /\ writeStatus("running", None) ELSE End(p) /\ UNCHANGED status
  /\ UNCHANGED <<dirs, current, lock, running, before, bounds>>

\* the unit starts, or can't be started
Launch(p) ==
  /\ At(p, "launch")
  /\ \/ Goto(p, "lock") /\ UNCHANGED <<status, failures>>
     \/ failures < MaxFailures /\ failures' = failures + 1 /\ writeStatus("failed", None) /\ End(p)
  /\ UNCHANGED <<dirs, current, lock, running, before, cuts, installs>>

TakeLock(p) ==
  /\ At(p, "lock")
  /\ IF lock = None THEN lock' = p /\ Goto(p, "begin") ELSE UNCHANGED lock /\ End(p)
  /\ UNCHANGED <<sdCard, running, before, bounds>>

BeginInstall(p) ==
  /\ At(p, "begin")
  /\ proc' = [proc EXCEPT ![p].pc = "unpack", ![p].previous = current]
  /\ writeStatus("running", None)
  /\ before' = [current |-> current, dirs |-> dirs]
  /\ UNCHANGED <<dirs, current, lock, running, bounds>>

\* whether the bundle can be unpacked and its signature is what it has to be
Accepts(b, allow) == b.intact /\ (b.signed \/ (allow /\ ~RequireSigned))

unpackBundle(p) ==
  /\ At(p, "unpack")
  /\ IF Accepts(proc[p].bundle, proc[p].allow)
     THEN proc' = [proc EXCEPT ![p].pc = "named", ![p].version = proc[p].bundle.version] /\ UNCHANGED status
     ELSE Goto(p, "exit") /\ writeStatus("failed", None)
  /\ UNCHANGED <<dirs, current, lock, running, before, bounds>>

WriteVersion(p) ==
  /\ At(p, "named") /\ Goto(p, "clean") /\ writeStatus("running", proc[p].version)
  /\ UNCHANGED <<dirs, current, lock, running, before, bounds>>

\* copies an interrupted update left are removed
CleanCopies(p) ==
  LET v == proc[p].version IN
  /\ At(p, "clean")
  /\ dirs' = [dirs EXCEPT ![Replaced(v)] = None, ![Copying(v)] = None]
  /\ Goto(p, IF dirs[Release(v)] # None THEN "copy" ELSE "place")
  /\ UNCHANGED <<current, status, lock, running, before, bounds>>

CopyRelease(p) ==
  LET v == proc[p].version IN
  /\ At(p, "copy") /\ SetDir(Copying(v), dirs[Release(v)]) /\ Goto(p, "keep")
  /\ UNCHANGED <<current, status, lock, running, before, bounds>>

NameCopy(p) ==
  LET v == proc[p].version IN
  /\ At(p, "keep")
  /\ dirs' = [dirs EXCEPT ![Replaced(v)] = dirs[Copying(v)], ![Copying(v)] = None]
  /\ Goto(p, IF proc[p].previous = Release(v) THEN "point" ELSE "remove")
  /\ UNCHANGED <<current, status, lock, running, before, bounds>>

\* the running version is reinstalled: its copy runs meanwhile
PointToCopy(p) ==
  /\ At(p, "point") /\ switchTo(Replaced(proc[p].version)) /\ Goto(p, "remove")
  /\ UNCHANGED <<dirs, status, lock, running, before, bounds>>

RemoveRelease(p) ==
  /\ At(p, "remove") /\ SetDir(Release(proc[p].version), None) /\ Goto(p, "place")
  /\ UNCHANGED <<current, status, lock, running, before, bounds>>

\* when the new files were unpacked
Now == 1 + Max({0} \cup {dirs[d].time : d \in {c \in Dir : dirs[c] \in Files}})

MoveInPlace(p) ==
  /\ At(p, "place")
  /\ SetDir(Release(proc[p].version), [starts |-> proc[p].bundle.starts, time |-> Now])
  /\ proc' = [proc EXCEPT ![p].pc = "switch", ![p].inPlace = TRUE]
  /\ UNCHANGED <<current, status, lock, running, before, bounds>>

SwitchToNew(p) ==
  /\ At(p, "switch") /\ switchTo(Release(proc[p].version)) /\ Goto(p, "check")
  /\ UNCHANGED <<dirs, status, lock, running, before, bounds>>

\* what the server runs once it is restarted, and whether it answers
Restarted == IF Complete(current) THEN dirs[current] ELSE None
Answers == Complete(current) /\ dirs[current].starts

restartAndCheck(p) ==
  /\ At(p, "check") /\ running' = Restarted
  /\ Goto(p, IF Answers THEN "drop" ELSE "undo")
  /\ UNCHANGED <<sdCard, lock, before, bounds>>

DropCopy(p) ==
  /\ At(p, "drop") /\ SetDir(Replaced(proc[p].version), None) /\ Goto(p, "succeed")
  /\ UNCHANGED <<current, status, lock, running, before, bounds>>

Succeed(p) ==
  /\ At(p, "succeed") /\ writeStatus("succeeded", proc[p].version) /\ Goto(p, "tidy")
  /\ UNCHANGED <<dirs, current, lock, running, before, bounds>>

\* releases in the order of ls -1t
Installed == {v \in Version : dirs[Release(v)] # None}
TimeOf(v) == IF dirs[Release(v)] = Partial THEN Now ELSE dirs[Release(v)].time
Newer(v) == {w \in Installed : TimeOf(w) > TimeOf(v)}
Old_EvenPrevious(p) ==
  {v \in Installed : Cardinality(Newer(v)) >= RELEASES_TO_KEEP /\ Release(v) # current}
Old(p) ==
  {v \in Installed : Cardinality(Newer(v)) >= RELEASES_TO_KEEP /\ Release(v) \notin {current, proc[p].previous}}

cleanUpReleases(p) ==
  /\ At(p, "tidy")
  /\ dirs' = [d \in Dir |-> IF d \in {Release(v) : v \in Old(p)} THEN None ELSE dirs[d]]
  /\ Goto(p, "exit")
  /\ UNCHANGED <<current, status, lock, running, before, bounds>>

----------------------------------------------------------------------------
(* The EXIT trap, and undoInstall. *)

\* failIfStillRunning, and the lock is given back with the end of the process
ExitInstall(p) ==
  /\ At(p, "exit")
  /\ \/ /\ status.state # "running" /\ End(p) /\ lock' = None
        /\ UNCHANGED status
     \/ /\ status.state = "running" /\ proc[p].version = None
        /\ writeStatus("failed", None) /\ End(p) /\ lock' = None
     \/ /\ status.state = "running" /\ proc[p].version # None
        /\ proc' = [proc EXCEPT ![p].pc = "undo", ![p].trapped = TRUE]
        /\ UNCHANGED <<status, lock>>
  /\ UNCHANGED <<dirs, current, running, before, bounds>>

\* undoInstall, in four commands: current goes back,
undoInstall_StaysCurrent(p) ==
  /\ At(p, "undo") /\ Goto(p, "undoFiles")
  /\ UNCHANGED <<sdCard, lock, running, before, bounds>>
undoInstall(p) ==
  LET v == proc[p].version   previous == proc[p].previous IN
  /\ At(p, "undo")
  /\ IF previous # None /\ previous # Release(v) /\ dirs[previous] # None THEN switchTo(previous) ELSE UNCHANGED current
  /\ Goto(p, "undoFiles")
  /\ UNCHANGED <<dirs, status, lock, running, before, bounds>>

\* what undoInstall removes
Undone(p) ==
  LET v == proc[p].version IN
  IF dirs[Replaced(v)] # None \/ (proc[p].inPlace /\ current # Release(v)) THEN {Release(v)} ELSE {}

\* the new files go,
UndoFiles(p) ==
  /\ At(p, "undoFiles")
  /\ dirs' = [d \in Dir |-> IF d \in Undone(p) THEN None ELSE dirs[d]]
  /\ Goto(p, IF dirs[Replaced(proc[p].version)] # None THEN "undoMove" ELSE "undone")
  /\ UNCHANGED <<current, status, lock, running, before, bounds>>

\* those they replaced come back: mv -T takes the place of nothing, or of an empty directory
UndoMove(p) ==
  LET v == proc[p].version IN
  /\ At(p, "undoMove")
  /\ \/ /\ dirs[Release(v)] \in {None, Partial}
        /\ dirs' = [dirs EXCEPT ![Release(v)] = dirs[Replaced(v)], ![Replaced(v)] = None]
     \/ dirs[Release(v)] # None /\ UNCHANGED dirs
  /\ Goto(p, IF current = Replaced(v) THEN "undoPoint" ELSE "undone")
  /\ UNCHANGED <<current, status, lock, running, before, bounds>>

\* and current names them by their name again
UndoPoint(p) ==
  /\ At(p, "undoPoint") /\ switchTo(Release(proc[p].version)) /\ Goto(p, "undone")
  /\ UNCHANGED <<dirs, status, lock, running, before, bounds>>

\* after undoInstall: the previous version is started, or the boot goes on
Undo(p) ==
  LET previous == proc[p].previous IN
  /\ At(p, "undone")
  /\ \/ p = Boot /\ Goto(p, "close") /\ UNCHANGED running
     \/ p # Boot /\ proc[p].trapped /\ running' = Restarted /\ Goto(p, "rolledBack")
     \/ /\ p # Boot /\ ~proc[p].trapped /\ Goto(p, "rolledBack")
        /\ running' = IF previous # None /\ dirs[previous] # None THEN Restarted ELSE running
  /\ UNCHANGED <<sdCard, lock, before, bounds>>

RolledBack(p) ==
  LET previous == proc[p].previous IN
  /\ At(p, "rolledBack")
  /\ writeStatus(IF ~proc[p].trapped /\ previous # None /\ dirs[previous] # None THEN "rolled-back" ELSE "failed", proc[p].version)
  /\ IF proc[p].trapped THEN End(p) /\ lock' = None ELSE Goto(p, "exit") /\ UNCHANGED lock
  /\ UNCHANGED <<dirs, current, running, before, bounds>>

----------------------------------------------------------------------------
(* What fails. *)

\* the directories the next command of a process removes, or writes
Removes(p) ==
  {d \in Dir : dirs[d] # None /\
     \/ At(p, "clean")     /\ d \in {Replaced(proc[p].version), Copying(proc[p].version)}
     \/ At(p, "remove")    /\ d = Release(proc[p].version)
     \/ At(p, "drop")      /\ d = Replaced(proc[p].version)
     \/ At(p, "tidy")      /\ d \in {Release(v) : v \in Old(p)}
     \/ At(p, "undoFiles") /\ d \in Undone(p)}
Writes(p) == IF At(p, "copy") THEN {Copying(proc[p].version)} ELSE {}

\* what is in RELEASES_DIR if that command is stopped halfway
StoppedHalfway(p) ==
  {[d \in Dir |-> IF d \in part THEN Partial ELSE IF d \in gone THEN None ELSE dirs[d]] :
     part \in SUBSET (Removes(p) \cup Writes(p)), gone \in SUBSET Removes(p)}

Fails(p) ==
  /\ failures < MaxFailures /\ failures' = failures + 1
  /\ dirs' \in StoppedHalfway(p)
  /\ UNCHANGED <<current, status, lock, running, before, cuts, installs>>

\* a command of install fails, or of undoInstall when install calls it: set -e
CommandFails(p) ==
  /\ proc[p].pc \in {"unpack", "named", "clean", "copy", "keep", "point", "remove", "place", "switch", "drop", "succeed",
                     "tidy", "undo", "undoFiles", "undoMove", "undoPoint", "rolledBack"}
  /\ ~proc[p].trapped /\ Fails(p) /\ Goto(p, "exit")

\* a command of undoInstall fails when the trap or recover calls it: they go on
UndoFails(p) ==
  LET v == proc[p].version
      next(pc) == proc' = [proc EXCEPT ![p].pc = pc, ![p].undoFailed = TRUE]
  IN
  /\ p = Boot \/ proc[p].trapped
  /\ Fails(p)
  /\ \/ At(p, "undo") /\ next("undoFiles")
     \/ At(p, "undoFiles") /\ next(IF dirs[Replaced(v)] # None THEN "undoMove" ELSE "undone")
     \/ At(p, "undoMove") /\ next(IF current = Replaced(v) THEN "undoPoint" ELSE "undone")
     \/ At(p, "undoPoint") /\ next("undone")

PowerCut ==
  /\ cuts < MaxCuts /\ cuts' = cuts + 1
  /\ dirs' \in UNION {StoppedHalfway(p) : p \in Proc}
  /\ lock' = None /\ running' = None
  /\ proc' = [p \in Proc |-> IF p = Boot THEN [Idle EXCEPT !.pc = "recover"] ELSE Idle]
  /\ UNCHANGED <<current, status, before, failures, installs>>

----------------------------------------------------------------------------
(* Recovering, and going back by hand. *)

\* restoreReplacedRelease
recover ==
  /\ At(Boot, "recover")
  /\ \/ /\ \E v \in Version : /\ current = Replaced(v)
                              /\ proc' = [proc EXCEPT ![Boot].pc = "undo", ![Boot].version = v]
     \/ (\A v \in Version : current # Replaced(v)) /\ Goto(Boot, "close")
  /\ lock' = Boot
  /\ UNCHANGED <<sdCard, running, before, bounds>>

CloseStatus_NotYet ==
  /\ At(Boot, "close") /\ lock' = None /\ Goto(Boot, "serve")
  /\ UNCHANGED <<sdCard, running, before, bounds>>
CloseStatus ==
  /\ At(Boot, "close")
  /\ IF status.state = "running" THEN writeStatus("failed", None) ELSE UNCHANGED status
  /\ lock' = None /\ Goto(Boot, "serve")
  /\ UNCHANGED <<dirs, current, running, before, bounds>>

\* ExecStart
Serve ==
  /\ At(Boot, "serve") /\ running' = Restarted /\ End(Boot)
  /\ UNCHANGED <<sdCard, lock, before, bounds>>

\* by hand, and only while nothing is installed: it does not take the lock
rollback ==
  /\ lock = None /\ At(Boot, "idle") /\ \A p \in Install : At(p, "idle")
  /\ \E v \in Installed : /\ Release(v) # current
                          /\ \A w \in Newer(v) : Release(w) = current
                          /\ switchTo(Release(v))
                          /\ running' = IF Complete(Release(v)) THEN dirs[Release(v)] ELSE None
  /\ UNCHANGED <<dirs, status, lock, proc, before, bounds>>

----------------------------------------------------------------------------

Init ==
  /\ dirs = [d \in Dir |-> IF d = Release(Initial) THEN [starts |-> TRUE, time |-> 0] ELSE None]
  /\ current = Release(Initial)
  /\ status = [state |-> "none", version |-> None]
  /\ lock = None /\ proc = [p \in Proc |-> Idle]
  /\ running = dirs[current]
  /\ before = [current |-> current, dirs |-> dirs]
  /\ cuts = 0 /\ failures = 0 /\ installs = 0

\* the commands of the script in their order
StartStep(p) == StartUpdate(p) \/ Launch(p)
InstallStep(p) ==
  \/ TakeLock(p) \/ BeginInstall(p) \/ unpackBundle(p) \/ WriteVersion(p) \/ CleanCopies(p) \/ CopyRelease(p)
  \/ NameCopy(p) \/ PointToCopy(p) \/ RemoveRelease(p) \/ MoveInPlace(p) \/ SwitchToNew(p) \/ restartAndCheck(p)
  \/ DropCopy(p) \/ Succeed(p) \/ cleanUpReleases(p) \/ ExitInstall(p) \/ RolledBack(p)
UndoStep(p) == undoInstall(p) \/ UndoFiles(p) \/ UndoMove(p) \/ UndoPoint(p) \/ Undo(p)
BootStep == recover \/ CloseStatus \/ Serve

Next ==
  \/ \E p \in Install, b \in Bundle, allow \in BOOLEAN : Begin(p, b, allow)
  \/ \E p \in Install : StartStep(p) \/ InstallStep(p) \/ CommandFails(p)
  \/ \E p \in Proc : UndoStep(p) \/ UndoFails(p)
  \/ BootStep \/ PowerCut \/ rollback

Spec == Init /\ [][Next]_vars

\* a process that runs goes on
FairSpec ==
  /\ Spec /\ WF_vars(BootStep)
  /\ \A p \in Install : WF_vars(StartStep(p)) /\ WF_vars(InstallStep(p))
  /\ \A p \in Proc : WF_vars(UndoStep(p))

----------------------------------------------------------------------------
(* What must not happen for NothingIsLost to hold: nobody installs beside what a power cut or a failure    *)
(* left in pieces or on a copy, or goes back to it; no unit of `start' fails to start while somebody else  *)
(* installs, since that writes the status by which the other's trap would know that it has to go back; and *)
(* no `rm -rf' of the copy of the release that current names fails and leaves some of it (install, 249 and *)
(* 272), since the trap takes that for the copy and removes the release for it.                            *)

InPieces == \E v \in Version : dirs[Release(v)] = Partial \/ dirs[Replaced(v)] = Partial
BreaksCopy == UNCHANGED cuts /\ lock \in Install /\ dirs'[Replaced(current[2])] = Partial

Careful ==
  /\ lock' # lock /\ lock' \in Install => Complete(current) /\ current \in {Release(v) : v \in Version} /\ ~InPieces
  /\ UNCHANGED proc /\ current' # current => Complete(current')
  /\ \A p \in Install : At(p, "launch") /\ At(p, "idle")' /\ UNCHANGED cuts => lock = None
  /\ ~BreaksCopy

----------------------------------------------------------------------------
(* What must hold. *)

\* where a process has no lock
Unlocked == {"idle", "start", "launch", "lock", "recover", "serve"}

\* Types; and a process between taking the lock and its end is the one that holds it.
TypeOK ==
  /\ dirs \in [Dir -> Files \cup {None, Partial}]
  /\ current \in Dir
  /\ status \in [state : {"none", "running", "succeeded", "failed", "rolled-back"}, version : Version \cup {None}]
  /\ lock \in Proc \cup {None}
  /\ \A p \in Proc : lock = p <=> proc[p].pc \notin Unlocked
  /\ proc \in [Proc -> [pc : Places, bundle : Bundle \cup {None}, allow : BOOLEAN, version : Version \cup {None},
                        previous : Dir \cup {None}, inPlace : BOOLEAN, trapped : BOOLEAN, undoFailed : BOOLEAN]]
  /\ running \in Files \cup {None, Partial}
  /\ cuts \in 0 .. MaxCuts /\ failures \in 0 .. MaxFailures /\ installs \in 0 .. MaxInstalls

\* the files of a release are there: under its name, or still in the copy made of it
Kept(d) == Complete(Release(d[2])) \/ Complete(Replaced(d[2]))

\* Whatever fails and whenever the power is cut, the files of the release that current names are
\* still on the card, and so are those that ran before the update that is underway: install copies
\* a release before it removes it, and undoInstall and cleanUpReleases remove no other.  As long as
\* every step is Careful.
NothingIsLost ==
  /\ Kept(current)
  /\ \A p \in Install : proc[p].previous # None => Kept(proc[p].previous)

\* A release that is reinstalled never leaves current on files that are gone or only partly there
\* while install goes on ("current points to it while the release is replaced"): only while
\* undoInstall puts the files back, and when the power was cut then.
InstallKeepsCurrent ==
  lock \in Install /\ ~proc[lock].undoFailed
    /\ ~(proc[lock].pc \in {"undoMove", "undoPoint", "exit", "undo", "undoFiles"}) => Complete(current)

\* An update that is told to have failed leaves the release that ran before, with its files, or
\* with new ones that were seen to start, and leaves every other release alone (failIfStillRunning,
\* undoInstall).  Unless an update that was cut off left a copy of its version: if this one stops before
\* it has removed that, undoInstall takes it for the copy of this update.  Or unless a command fails
\* by which the trap itself goes back, which nothing tries again.
Failing == \E p \in Install :
  lock = p /\ proc'[p] # proc[p] /\ status' # status /\ status'.state \in {"failed", "rolled-back"}
CopyWasLeft(v) == v # None /\ before.dirs[Replaced(v)] # None
FailedGoesBack == [][Failing /\ ~CopyWasLeft(proc[lock].version) /\ ~proc[lock].undoFailed =>
  /\ current' = before.current
  /\ dirs'[current'] = before.dirs[current'] \/ dirs'[current'].starts
  /\ \A v \in Version \ {proc[lock].version} : dirs'[Release(v)] = before.dirs[Release(v)]]_vars

\* An update that is told to have succeeded runs the files of its bundle, they answered, and what
\* ran before can still be gone back to (install, cleanUpReleases).
SucceededRuns == [][\A p \in Install : lock = p /\ At(p, "succeed") /\ status'.state = "succeeded" =>
  /\ current = Release(proc[p].bundle.version) /\ running = dirs[current]
  /\ running.starts = proc[p].bundle.starts /\ running.starts
  /\ status'.version = proc[p].bundle.version]_vars

\* No status stays running: each update ends, also one that was refused, stopped by an error, cut
\* off by a power cut, or started twice (failIfStillRunning, recover).
StatusSettles == status.state = "running" ~> status.state # "running"

\* The comment of restoreReplacedRelease: after a power cut the release an interrupted update
\* replaced comes back, so there is something to start.
BootsAgain == At(Boot, "serve") => Complete(current)
============================================================================
