--------------------------- MODULE UpdaterProofs ---------------------------
(***************************************************************************)
(* buzzerbox-update.sh loses no release, for any versions, bundles,        *)
(* processes, power cuts and failing commands, as long as every step is    *)
(* Careful.  The invariant says for each place of the script which         *)
(* directories hold complete releases; the process that has the lock is    *)
(* the only one that is anywhere but at its beginning.  A second one ties  *)
(* the directories to what they were when the update began: an update that *)
(* fails goes back to the release that ran, with the files it had.         *)
(***************************************************************************)
EXTENDS Updates, WellFoundedInduction, TLAPS

Releases == {Release(v) : v \in Version}
Copies   == {Replaced(v) : v \in Version}

Was(p)  == proc[p].previous
New(p)  == Release(proc[p].version)
Copy(p) == Replaced(proc[p].version)

Process == [pc : Places, bundle : Bundle \cup {None}, allow : BOOLEAN, version : Version \cup {None},
            previous : Dir \cup {None}, inPlace : BOOLEAN, trapped : BOOLEAN, undoFailed : BOOLEAN]

Types ==
  /\ dirs \in [Dir -> Files \cup {None, Partial}]
  /\ current \in Releases \cup Copies
  /\ lock \in Proc \cup {None}
  /\ proc \in [Proc -> Process]
  /\ \A p \in Proc : lock = p <=> proc[p].pc \notin Unlocked

BootPlaces == {"idle", "recover", "undo", "undoFiles", "undoMove", "undoPoint", "undone", "close", "serve"}

\* Who may be where.
Roles ==
  /\ proc[Boot].pc \in BootPlaces /\ Was(Boot) = None /\ ~proc[Boot].inPlace
  /\ ~At(Boot, "idle") => \A p \in Install : At(p, "idle")
  /\ \A p \in Install :
       /\ proc[p].pc \notin {"recover", "close", "serve"}
       /\ proc[p].pc \in {"idle", "start", "launch", "lock", "begin"} => Was(p) = None /\ proc[p].version = None
       /\ ~At(p, "idle") => proc[p].bundle \in Bundle

\* The files of the release a directory is for: as Kept, with the version it has.
Safe(d) == \E v \in Version : d \in {Release(v), Replaced(v)} /\ (Complete(Release(v)) \/ Complete(Replaced(v)))

\* What recover needs to find.
Recoverable == Safe(current) /\ (current \in Copies => dirs[current] # Partial)

\* What undoInstall needs to find when an update stops.
CanGoBack(p) ==
  IF Was(p) = New(p)
  THEN /\ current \in {New(p), Copy(p)} /\ dirs[Copy(p)] # Partial
       /\ Complete(Copy(p)) \/ (current = New(p) /\ Complete(New(p)))
  ELSE /\ Complete(Was(p))
       /\ \/ current = Was(p)
          \/ current = New(p) /\ dirs[Copy(p)] # Partial /\ (Complete(New(p)) \/ Complete(Copy(p)))

Early == {"unpack", "named", "clean"}
Replacing == {"remove", "place", "switch"}
Checked == {"drop", "succeed", "tidy"}

\* The process that installs: which release runs and what is complete at each of its commands.
Stage(p) ==
  /\ At(p, "begin") => Complete(current) /\ current \in Releases /\ ~InPieces /\ proc[p].version = None
  /\ ~At(p, "begin") => Was(p) \in Releases
  /\ proc[p].pc \notin {"begin", "unpack", "exit"} => proc[p].version \in Version
  /\ At(p, "unpack") => proc[p].version = None
  /\ proc[p].pc \in Early => current = Was(p) /\ Complete(current) /\ ~InPieces
  /\ proc[p].pc \in {"copy", "keep"} =>
       current = Was(p) /\ Complete(current) /\ Complete(New(p)) /\ dirs[Copy(p)] # Partial
  /\ At(p, "keep") => Complete(Copying(proc[p].version))
  /\ At(p, "point") => Was(p) = New(p) /\ current = Was(p) /\ Complete(current) /\ Complete(Copy(p))
  /\ proc[p].pc \in Replacing =>
       IF Was(p) = New(p) THEN current = Copy(p) /\ Complete(Copy(p))
                          ELSE current = Was(p) /\ Complete(Was(p)) /\ dirs[Copy(p)] # Partial
  /\ At(p, "switch") => Complete(New(p))
  /\ At(p, "check") => /\ current = New(p) /\ Complete(New(p)) /\ dirs[Copy(p)] # Partial
                       /\ Complete(IF Was(p) = New(p) THEN Copy(p) ELSE Was(p))
  /\ proc[p].pc \in Checked => current = New(p) /\ Complete(New(p)) /\ Complete(Was(p)) /\ dirs[Copy(p)] # Partial
  /\ At(p, "exit") => Safe(Was(p)) /\ Recoverable /\ (proc[p].version # None => CanGoBack(p))
  /\ proc[p].pc \in {"undo", "undoFiles"} => CanGoBack(p) /\ (~proc[p].trapped => current # Copy(p))
  /\ At(p, "undoMove") =>
       /\ IF Was(p) = New(p) THEN current \in {New(p), Copy(p)} /\ Complete(Copy(p))
                             ELSE Complete(Was(p)) /\ (current = Was(p) \/ (current = New(p) /\ Complete(Copy(p))))
       /\ ~proc[p].trapped => current # Copy(p)
  /\ At(p, "undoPoint") => /\ proc[p].trapped /\ Was(p) = New(p) /\ current = Copy(p) /\ dirs[Copy(p)] # Partial
                           /\ Complete(New(p)) \/ Complete(Copy(p))
  /\ proc[p].pc \in {"undone", "rolledBack"} => /\ Safe(Was(p)) /\ Recoverable
                                                /\ ~proc[p].trapped => CanGoBack(p) /\ current # Copy(p)

Installing == lock \in Install => Stage(lock)

\* Nobody installs: what is recovered, or was.
Recovering ==
  /\ Recoverable
  /\ proc[Boot].pc \in {"undo", "undoFiles", "undoMove", "undoPoint"} =>
       proc[Boot].version \in Version /\ current = Copy(Boot)
  /\ At(Boot, "undoMove") => Complete(Copy(Boot))

Booting == lock \notin Install => Recovering

\* There is a time after which nothing was unpacked, and installs are counted.
Bounded ==
  /\ installs \in Nat
  /\ \E b \in Nat : \A d \in Dir : dirs[d] \in Files => dirs[d].time <= b

LossInv == Types /\ Roles /\ Installing /\ Booting

----------------------------------------------------------------------------
(* Facts about the constants. *)

LEMMA Directories ==
  /\ \A v \in Version : Release(v) \in Dir /\ Replaced(v) \in Dir /\ Copying(v) \in Dir
  /\ \A v, w \in Version : /\ Release(v) = Release(w) => v = w
                           /\ Replaced(v) = Replaced(w) => v = w
                           /\ Release(v) # Replaced(w) /\ Release(v) # Copying(w) /\ Replaced(v) # Copying(w)
  /\ \A v \in Version : Release(v)[2] = v /\ Replaced(v)[2] = v
  BY DEF Release, Replaced, Copying, Dir

LEMMA Nothings ==
  /\ None \notin Version /\ None \notin Dir /\ None \notin Files /\ None \notin Proc /\ None \notin Bundle
  /\ Partial \notin Files /\ None # Partial
  /\ Boot \notin Install /\ Proc = Install \cup {Boot}
  BY UpdaterConstants, NothingIsNone DEF UpdaterConstants, Proc

LEMMA MaxExists ==
  ASSUME NEW S, S # {}, S \subseteq Nat, NEW b \in Nat, \A x \in S : x <= b
  PROVE  Max(S) \in S /\ \A x \in S : x <= Max(S)
<1> DEFINE U == {n \in Nat : \A x \in S : x <= n}
<1>1. U # {} /\ U \subseteq Nat
  OBVIOUS
<1>2. PICK m \in U : \A n \in U : <<n, m>> \notin OpToRel(<, Nat)
  <2> HIDE DEF U
  <2> QED
    BY <1>1, WFMin, NatLessThanWellFounded, Zenon
<1>3. \A n \in U : ~(n < m)
  BY <1>2, <1>1, Zenon DEF OpToRel
<1> m \in Nat /\ \A x \in S : x <= m
  OBVIOUS
<1>4. m \in S
  <2> SUFFICES ASSUME m \notin S PROVE FALSE
    OBVIOUS
  <2>1. \A x \in S : x \in Nat /\ x < m
    OBVIOUS
  <2> PICK y \in S : TRUE
    OBVIOUS
  <2>2. m - 1 \in Nat /\ \A x \in S : x <= m - 1
    BY <2>1
  <2> QED
    BY <2>2, <1>3, m - 1 < m
<1>5. m \in S /\ \A x \in S : m >= x
  BY <1>4
<1> QED
  BY <1>5 DEF Max

\* The new files are newer than any.
LEMMA NowIsLater ==
  ASSUME Types, Bounded
  PROVE  Now \in Nat /\ \A d \in Dir : dirs[d] \in Files => dirs[d].time <= Now
<1> DEFINE T == {0} \cup {dirs[d].time : d \in {c \in Dir : dirs[c] \in Files}}
<1>1. PICK b \in Nat : \A d \in Dir : dirs[d] \in Files => dirs[d].time <= b
  BY DEF Bounded
<1>2. \A d \in Dir : dirs[d] \in Files => dirs[d].time \in Nat
  BY DEF Files
<1>3. T # {} /\ T \subseteq Nat /\ \A x \in T : x <= b
  BY <1>1, <1>2
<1>4. Max(T) \in T /\ \A x \in T : x <= Max(T)
  <2> HIDE DEF T
  <2> QED
    BY <1>3, MaxExists
<1>5. Max(T) \in Nat
  BY <1>3, <1>4
<1>6. Now = 1 + Max(T)
  BY DEF Now
<1>7. \A d \in Dir : dirs[d] \in Files => dirs[d].time \in T
  OBVIOUS
<1> HIDE DEF T
<1> QED
  BY <1>2, <1>4, <1>5, <1>6, <1>7

----------------------------------------------------------------------------
(* Steps of the process that has the lock. *)

\* p goes to the command pc; what it knows of its update stays
Moved(p, pc) ==
  /\ proc' \in [Proc -> Process] /\ \A q \in Proc \ {p} : proc'[q] = proc[q]
  /\ proc'[p].pc = pc /\ proc'[p].bundle = proc[p].bundle
Knows(p) ==
  /\ proc'[p].version = proc[p].version /\ Was(p)' = Was(p)
  /\ proc'[p].inPlace = proc[p].inPlace /\ proc'[p].trapped = proc[p].trapped

LEMMA GotoMoves ==
  ASSUME Types, NEW p \in Proc, NEW pc \in Places, Goto(p, pc)
  PROVE  Moved(p, pc) /\ Knows(p) /\ proc'[p].undoFailed = proc[p].undoFailed
  BY DEF Types, Process, Goto, Moved, Knows, Was

\* one process is in another state
LEMMA OneMoves ==
  ASSUME Types, NEW p \in Proc, NEW r \in Process, proc' = [proc EXCEPT ![p] = r]
  PROVE  /\ proc' \in [Proc -> Process] /\ proc'[p] = r
         /\ \A q \in Proc \ {p} : proc'[q] = proc[q]
  BY DEF Types

LEMMA HolderGoesOn ==
  ASSUME LossInv, NEW p \in Install, lock = p, UNCHANGED lock,
         NEW pc \in Places \ (Unlocked \cup {"begin", "close"}), Moved(p, pc),
         dirs' \in [Dir -> Files \cup {None, Partial}], current' \in Releases \cup Copies,
         Stage(p)'
  PROVE  LossInv'
<1>1. p \in Proc /\ Boot \in Proc /\ p # Boot /\ Boot \notin Install
  BY Nothings
<1>2. Types'
  BY <1>1 DEF LossInv, Types, Moved
<1>3. \A q \in Proc \ {p} : proc[q].pc \in Unlocked
  BY DEF LossInv, Types
<1>4. At(Boot, "idle") /\ ~At(p, "idle")
  BY <1>1 DEF LossInv, Types, Roles, At, Unlocked
<1>5. \A q \in Install : q \in Proc
  BY Nothings
<1>6. Roles'
  BY <1>1, <1>4, <1>5, Nothings DEF LossInv, Roles, Moved, At, Was, Unlocked
<1> QED
  BY <1>2, <1>6 DEF LossInv, Installing, Booting, Recovering

LEMMA HolderEnds ==
  ASSUME LossInv, NEW p \in Install, lock = p, lock' = None, End(p), UNCHANGED <<dirs, current>>,
         Recoverable
  PROVE  LossInv'
<1>1. p \in Proc /\ Boot \in Proc /\ p # Boot /\ Boot \notin Install
  BY Nothings
<1>2. Idle \in Process
  BY DEF Idle, Process, Places
<1>3. /\ proc' \in [Proc -> Process] /\ proc'[p] = Idle
      /\ \A q \in Proc \ {p} : proc'[q] = proc[q]
  BY <1>1, <1>2 DEF LossInv, Types, End
<1>4. Types'
  BY <1>1, <1>3, Nothings DEF LossInv, Types, Idle, Unlocked
<1>5. At(Boot, "idle") /\ ~At(p, "idle")
  BY <1>1 DEF LossInv, Types, Roles, At, Unlocked
<1>6. \A q \in Install : q \in Proc
  BY Nothings
<1>7. Roles'
  BY <1>1, <1>3, <1>5, <1>6, Nothings DEF LossInv, Roles, At, Was, Idle
<1>8. Booting'
  <2>1. At(Boot, "idle")'
    BY <1>1, <1>3, <1>5 DEF At
  <2>2. Recoverable'
    BY DEF Recoverable, Safe, Complete
  <2> QED
    BY <2>1, <2>2 DEF Booting, Recovering, At
<1> QED
  BY <1>4, <1>7, <1>8, Nothings DEF LossInv, Installing

\* What holds for the process that installs.
LEMMA HolderInstalls ==
  ASSUME LossInv, NEW p \in Install, proc[p].pc \notin Unlocked
  PROVE  /\ Types /\ p \in Proc /\ lock = p /\ Stage(p)
         /\ proc[p].bundle \in Bundle /\ proc[p].pc \in Places
         /\ dirs \in [Dir -> Files \cup {None, Partial}] /\ current \in Releases \cup Copies
BY Nothings DEF LossInv, Types, Roles, Installing, At, Unlocked, Process

LEMMA BeginInstallKeeps ==
  ASSUME LossInv, NEW p \in Install, BeginInstall(p)
  PROVE  LossInv'
<1> /\ At(p, "begin") /\ proc' = [proc EXCEPT ![p].pc = "unpack", ![p].previous = current]
    /\ UNCHANGED <<dirs, current, lock>>
  BY DEF BeginInstall
<1>1. p \in Proc /\ lock = p /\ Stage(p) /\ Types
  BY HolderInstalls DEF At, Unlocked
<1>2. current \in Releases /\ current \in Dir /\ Complete(current) /\ proc[p].version = None /\ ~InPieces
  BY <1>1 DEF Stage, At, Complete
<1>3. Moved(p, "unpack") /\ Was(p)' = current /\ proc'[p].version = None
  <2> DEFINE r == [proc[p] EXCEPT !.pc = "unpack", !.previous = current]
  <2>1. proc[p] \in Process /\ "unpack" \in Places
    BY <1>1 DEF Types, Places
  <2>2. /\ r \in Process /\ r.pc = "unpack" /\ r.bundle = proc[p].bundle
        /\ r.previous = current /\ r.version = proc[p].version
    BY <1>1, <1>2, <2>1 DEF Process
  <2>3. proc' = [proc EXCEPT ![p] = r]
    OBVIOUS
  <2> HIDE DEF r
  <2> QED
    BY <1>1, <1>2, <2>2, <2>3, OneMoves DEF Moved, Was
<1>4. ~InPieces' /\ Complete(current)'
  BY <1>2 DEF InPieces, Complete
<1>5. Stage(p)'
  BY <1>2, <1>3, <1>4 DEF Stage, At, Early, Replacing, Checked, Moved
<1> QED
  BY <1>1, <1>2, <1>3, <1>5, HolderGoesOn DEF Places, Unlocked, Types

LEMMA unpackBundleKeeps ==
  ASSUME LossInv, NEW p \in Install, unpackBundle(p)
  PROVE  LossInv'
<1> At(p, "unpack") /\ UNCHANGED <<dirs, current, lock>>
  BY DEF unpackBundle
<1>1. /\ p \in Proc /\ lock = p /\ Stage(p) /\ Types
      /\ proc[p].bundle.version \in Version /\ proc[p].version = None
  BY HolderInstalls, UpdaterConstants DEF At, Unlocked, Stage, UpdaterConstants
<1>2. current = Was(p) /\ Was(p) \in Releases /\ Complete(current) /\ ~InPieces
  BY <1>1 DEF Stage, At, Early
<1>3. ~InPieces' /\ Complete(current)'
  BY <1>2 DEF InPieces, Complete
<1>4. CASE Accepts(proc[p].bundle, proc[p].allow)
  <2>1. proc' = [proc EXCEPT ![p].pc = "named", ![p].version = proc[p].bundle.version]
    BY <1>4 DEF unpackBundle
  <2>2. Moved(p, "named") /\ Was(p)' = Was(p) /\ proc'[p].version \in Version
    <3> DEFINE r == [proc[p] EXCEPT !.pc = "named", !.version = proc[p].bundle.version]
    <3>1. proc[p] \in Process /\ "named" \in Places
      BY <1>1 DEF Types, Places
    <3>2. /\ r \in Process /\ r.pc = "named" /\ r.bundle = proc[p].bundle
          /\ r.version = proc[p].bundle.version /\ r.previous = proc[p].previous
      BY <2>1, <1>1, <3>1 DEF Process
    <3>3. proc' = [proc EXCEPT ![p] = r]
      BY <2>1
    <3> HIDE DEF r
    <3> QED
      BY <1>1, <3>2, <3>3, OneMoves DEF Moved, Was
  <2>3. Stage(p)'
    BY <1>2, <1>3, <2>1, <2>2 DEF Stage, At, Early, Replacing, Checked, Moved
  <2> QED
    BY <1>1, <2>2, <2>3, HolderGoesOn DEF Places, Unlocked, Types
<1>5. CASE ~Accepts(proc[p].bundle, proc[p].allow)
  <2>1. Goto(p, "exit")
    BY <1>5 DEF unpackBundle
  <2>2. Moved(p, "exit") /\ Knows(p)
    BY <1>1, <2>1, GotoMoves DEF Places
  <2>3. Safe(Was(p))' /\ Recoverable'
    BY <1>2, <1>3, <2>2, Directories DEF Safe, Recoverable, Releases, Copies, Knows, Complete
  <2>4. Stage(p)'
    BY <1>1, <1>2, <2>2, <2>3, Nothings DEF Stage, At, Early, Replacing, Checked, Moved, Knows
  <2> QED
    BY <1>1, <2>2, <2>4, HolderGoesOn DEF Places, Unlocked, Types
<1> QED
  BY <1>4, <1>5

LEMMA WriteVersionKeeps ==
  ASSUME LossInv, NEW p \in Install, WriteVersion(p)
  PROVE  LossInv'
<1> At(p, "named") /\ Goto(p, "clean") /\ UNCHANGED <<dirs, current, lock>>
  BY DEF WriteVersion
<1>1. p \in Proc /\ lock = p /\ Stage(p) /\ Types
  BY HolderInstalls DEF At, Unlocked
<1>2. Moved(p, "clean") /\ Knows(p)
  BY <1>1, GotoMoves DEF Places
<1>3. UNCHANGED InPieces /\ UNCHANGED Complete(current)
  BY DEF InPieces, Complete
<1>4. Stage(p)'
  BY <1>1, <1>2, <1>3 DEF Stage, At, Early, Replacing, Checked, Moved, Knows
<1> QED
  BY <1>1, <1>2, <1>4, HolderGoesOn DEF Places, Unlocked, Types

LEMMA CleanCopiesKeeps ==
  ASSUME LossInv, NEW p \in Install, CleanCopies(p)
  PROVE  LossInv'
<1> DEFINE v == proc[p].version
           pc == IF dirs[Release(v)] # None THEN "copy" ELSE "place"
<1> /\ At(p, "clean") /\ Goto(p, pc) /\ UNCHANGED <<current, lock>>
    /\ dirs' = [dirs EXCEPT ![Replaced(v)] = None, ![Copying(v)] = None]
  BY DEF CleanCopies
<1>1. p \in Proc /\ lock = p /\ Stage(p) /\ Types /\ v \in Version
  BY HolderInstalls DEF At, Unlocked, Stage
<1>2. Moved(p, pc) /\ Knows(p)
  BY <1>1, GotoMoves DEF Places
<1>3. /\ dirs' \in [Dir -> Files \cup {None, Partial}] /\ dirs'[Replaced(v)] = None
      /\ \A w \in Version : dirs'[Release(w)] = dirs[Release(w)]
  BY <1>1, Directories DEF Types
<1>4. current = Was(p) /\ Was(p) \in Releases /\ Complete(current) /\ Complete(current)' /\ ~InPieces
  BY <1>1, <1>3, Directories DEF Stage, At, Early, Releases, Complete
<1>5. dirs[Release(v)] # None => Complete(New(p))'
  BY <1>1, <1>2, <1>3, <1>4, Directories DEF Complete, New, InPieces, Types, Knows
<1>6. Was(p) = New(p) => dirs[Release(v)] # None
  BY <1>4, Nothings DEF New, Complete
<1>7. dirs'[Copy(p)'] # Partial
  BY <1>2, <1>3, Nothings DEF Copy, Knows
<1>8. Stage(p)'
  BY <1>1, <1>2, <1>4, <1>5, <1>6, <1>7 DEF Stage, At, Early, Replacing, Checked, Moved, Knows, New
<1> QED
  BY <1>1, <1>2, <1>3, <1>8, HolderGoesOn DEF Places, Unlocked, Types

LEMMA CopyReleaseKeeps ==
  ASSUME LossInv, NEW p \in Install, CopyRelease(p)
  PROVE  LossInv'
<1> DEFINE v == proc[p].version
<1> /\ At(p, "copy") /\ Goto(p, "keep") /\ UNCHANGED <<current, lock>>
    /\ dirs' = [dirs EXCEPT ![Copying(v)] = dirs[Release(v)]]
  BY DEF CopyRelease, SetDir
<1>1. p \in Proc /\ lock = p /\ Stage(p) /\ Types /\ v \in Version
  BY HolderInstalls DEF At, Unlocked, Stage
<1>2. Moved(p, "keep") /\ Knows(p) /\ New(p)' = New(p) /\ Copy(p)' = Copy(p)
  BY <1>1, GotoMoves DEF Places, Knows, New, Copy
<1>3. Complete(New(p)) /\ current = Was(p) /\ Was(p) \in Releases /\ Complete(current) /\ dirs[Copy(p)] # Partial
  BY <1>1 DEF Stage, At
<1>4. /\ dirs' \in [Dir -> Files \cup {None, Partial}] /\ dirs'[Copying(v)] \in Files
      /\ \A w \in Version : dirs'[Release(w)] = dirs[Release(w)] /\ dirs'[Replaced(w)] = dirs[Replaced(w)]
  BY <1>1, <1>3, Directories DEF Types, Complete, New
<1>5. /\ Complete(current)' /\ Complete(Copying(proc[p].version))' /\ Complete(New(p))' /\ dirs'[Copy(p)'] # Partial
  BY <1>1, <1>2, <1>3, <1>4, Directories DEF Releases, Complete, Knows, New, Copy
<1>6. Stage(p)'
  BY <1>1, <1>2, <1>3, <1>5 DEF Stage, At, Early, Replacing, Checked, Moved, Knows
<1> QED
  BY <1>1, <1>2, <1>4, <1>6, HolderGoesOn DEF Places, Unlocked, Types

LEMMA NameCopyKeeps ==
  ASSUME LossInv, NEW p \in Install, NameCopy(p)
  PROVE  LossInv'
<1> DEFINE v == proc[p].version
           pc == IF Was(p) = Release(v) THEN "point" ELSE "remove"
<1> /\ At(p, "keep") /\ Goto(p, pc) /\ UNCHANGED <<current, lock>>
    /\ dirs' = [dirs EXCEPT ![Replaced(v)] = dirs[Copying(v)], ![Copying(v)] = None]
  BY DEF NameCopy, Was
<1>1. p \in Proc /\ lock = p /\ Stage(p) /\ Types /\ v \in Version
  BY HolderInstalls DEF At, Unlocked, Stage
<1>2. Moved(p, pc) /\ Knows(p) /\ New(p)' = New(p) /\ Copy(p)' = Copy(p)
  BY <1>1, GotoMoves DEF Places, Knows, New, Copy
<1>3. Complete(Copying(v)) /\ current = Was(p) /\ Was(p) \in Releases /\ Complete(current)
  BY <1>1 DEF Stage, At
<1>4. /\ dirs' \in [Dir -> Files \cup {None, Partial}] /\ dirs'[Replaced(v)] \in Files
      /\ \A w \in Version : dirs'[Release(w)] = dirs[Release(w)]
  BY <1>1, <1>3, Directories DEF Types, Complete
<1>5. Complete(current)' /\ Complete(Copy(p))' /\ dirs'[Copy(p)'] # Partial
  BY <1>1, <1>2, <1>3, <1>4, Directories, Nothings DEF Releases, Complete, Copy
<1>6. Stage(p)'
  BY <1>1, <1>2, <1>3, <1>5 DEF Stage, At, Early, Replacing, Checked, Moved, Knows, New
<1> QED
  BY <1>1, <1>2, <1>4, <1>6, HolderGoesOn DEF Places, Unlocked, Types

LEMMA PointToCopyKeeps ==
  ASSUME LossInv, NEW p \in Install, PointToCopy(p)
  PROVE  LossInv'
<1> At(p, "point") /\ Goto(p, "remove") /\ current' = Copy(p) /\ UNCHANGED <<dirs, lock>>
  BY DEF PointToCopy, switchTo, Copy
<1>1. p \in Proc /\ lock = p /\ Stage(p) /\ Types /\ proc[p].version \in Version
  BY HolderInstalls DEF At, Unlocked, Stage
<1>2. Moved(p, "remove") /\ Knows(p) /\ New(p)' = New(p) /\ Copy(p)' = Copy(p)
  BY <1>1, GotoMoves DEF Places, Knows, New, Copy
<1>3. current' \in Copies
  BY <1>1 DEF Copies, Copy
<1>4. Was(p) = New(p) /\ Was(p) \in Releases /\ Complete(Copy(p))'
  BY <1>1, <1>2 DEF Stage, At, Complete
<1>5. Stage(p)'
  BY <1>1, <1>2, <1>4 DEF Stage, At, Early, Replacing, Checked, Moved, Knows
<1> QED
  BY <1>1, <1>2, <1>3, <1>5, HolderGoesOn DEF Places, Unlocked, Types

LEMMA RemoveReleaseKeeps ==
  ASSUME LossInv, NEW p \in Install, RemoveRelease(p)
  PROVE  LossInv'
<1> DEFINE v == proc[p].version
<1> At(p, "remove") /\ Goto(p, "place") /\ UNCHANGED <<current, lock>> /\ dirs' = [dirs EXCEPT ![Release(v)] = None]
  BY DEF RemoveRelease, SetDir
<1>1. p \in Proc /\ lock = p /\ Stage(p) /\ Types /\ v \in Version /\ Was(p) \in Releases
  BY HolderInstalls DEF At, Unlocked, Stage
<1>2. Moved(p, "place") /\ Knows(p) /\ New(p)' = New(p) /\ Copy(p)' = Copy(p)
  BY <1>1, GotoMoves DEF Places, Knows, New, Copy
<1>3. /\ dirs' \in [Dir -> Files \cup {None, Partial}] /\ dirs'[Copy(p)] = dirs[Copy(p)]
      /\ \A w \in Version : w # v => dirs'[Release(w)] = dirs[Release(w)]
  BY <1>1, Directories DEF Types, Copy
<1>4. IF Was(p) = New(p) THEN current = Copy(p) /\ Complete(Copy(p))'
                         ELSE current = Was(p) /\ Complete(Was(p))' /\ dirs'[Copy(p)'] # Partial
  BY <1>1, <1>2, <1>3, Directories DEF Stage, At, Replacing, Releases, Complete, Knows, New
<1>5. Stage(p)'
  BY <1>1, <1>2, <1>4 DEF Stage, At, Early, Replacing, Checked, Moved, Knows
<1> QED
  BY <1>1, <1>2, <1>3, <1>5, HolderGoesOn DEF Places, Unlocked, Types

LEMMA MoveInPlaceKeeps ==
  ASSUME LossInv, Bounded, NEW p \in Install, MoveInPlace(p)
  PROVE  LossInv'
<1> DEFINE v == proc[p].version
           files == [starts |-> proc[p].bundle.starts, time |-> Now]
<1> /\ At(p, "place") /\ dirs' = [dirs EXCEPT ![Release(v)] = files] /\ UNCHANGED <<current, lock>>
    /\ proc' = [proc EXCEPT ![p].pc = "switch", ![p].inPlace = TRUE]
  BY DEF MoveInPlace, SetDir
<1>1. p \in Proc /\ lock = p /\ Stage(p) /\ Types /\ v \in Version /\ Was(p) \in Releases
  BY HolderInstalls DEF At, Unlocked, Stage
<1>2. files \in Files
  <2>1. proc[p].bundle.starts \in BOOLEAN
    BY HolderInstalls, UpdaterConstants DEF At, Unlocked, UpdaterConstants
  <2> QED
    BY <2>1, <1>1, NowIsLater DEF Files
<1>3. Moved(p, "switch") /\ proc'[p].version = v /\ Was(p)' = Was(p) /\ New(p)' = New(p) /\ Copy(p)' = Copy(p)
  <2> DEFINE r == [proc[p] EXCEPT !.pc = "switch", !.inPlace = TRUE]
  <2>1. proc[p] \in Process /\ "switch" \in Places
    BY <1>1 DEF Types, Places
  <2>2. /\ r \in Process /\ r.pc = "switch" /\ r.bundle = proc[p].bundle
        /\ r.version = v /\ r.previous = proc[p].previous
    BY <2>1 DEF Process
  <2>3. proc' = [proc EXCEPT ![p] = r]
    OBVIOUS
  <2> HIDE DEF r
  <2> QED
    BY <1>1, <2>2, <2>3, OneMoves DEF Moved, Was, New, Copy
<1>4. /\ dirs' \in [Dir -> Files \cup {None, Partial}] /\ dirs'[New(p)] \in Files /\ dirs'[Copy(p)] = dirs[Copy(p)]
      /\ \A w \in Version : w # v => dirs'[Release(w)] = dirs[Release(w)]
  <2> HIDE DEF files
  <2> QED
    BY <1>1, <1>2, Directories DEF Types, New, Copy
<1>5. IF Was(p) = New(p) THEN current = Copy(p) /\ Complete(Copy(p))'
                         ELSE current = Was(p) /\ Complete(Was(p))' /\ dirs'[Copy(p)'] # Partial
  BY <1>1, <1>3, <1>4, Directories DEF Stage, At, Replacing, Releases, Complete, New
<1>6. Complete(New(p))'
  BY <1>1, <1>3, <1>4, Directories DEF Complete, New
<1>7. Stage(p)'
  BY <1>1, <1>3, <1>5, <1>6 DEF Stage, At, Early, Replacing, Checked, Moved
<1> QED
  BY <1>1, <1>3, <1>4, <1>7, HolderGoesOn DEF Places, Unlocked, Types

LEMMA SwitchToNewKeeps ==
  ASSUME LossInv, NEW p \in Install, SwitchToNew(p)
  PROVE  LossInv'
<1> At(p, "switch") /\ Goto(p, "check") /\ current' = New(p) /\ UNCHANGED <<dirs, lock>>
  BY DEF SwitchToNew, switchTo, New
<1>1. p \in Proc /\ lock = p /\ Stage(p) /\ Types /\ proc[p].version \in Version /\ Was(p) \in Releases
  BY HolderInstalls DEF At, Unlocked, Stage
<1>2. Moved(p, "check") /\ Knows(p) /\ New(p)' = New(p) /\ Copy(p)' = Copy(p)
  BY <1>1, GotoMoves DEF Places, Knows, New, Copy
<1>3. current' \in Releases
  BY <1>1 DEF Releases, New
<1>4. Complete(New(p)) /\ Complete(IF Was(p) = New(p) THEN Copy(p) ELSE Was(p)) /\ dirs[Copy(p)] # Partial
  BY <1>1, Nothings DEF Stage, At, Replacing, Complete
<1>5. Stage(p)'
  BY <1>1, <1>2, <1>4 DEF Stage, At, Complete, Early, Replacing, Checked, Moved, Knows
<1> QED
  BY <1>1, <1>2, <1>3, <1>5, HolderGoesOn DEF Places, Unlocked, Types

LEMMA restartAndCheckKeeps ==
  ASSUME LossInv, NEW p \in Install, restartAndCheck(p)
  PROVE  LossInv'
<1> DEFINE pc == IF Answers THEN "drop" ELSE "undo"
<1> At(p, "check") /\ Goto(p, pc) /\ UNCHANGED <<dirs, current, lock>>
  BY DEF restartAndCheck, sdCard
<1>1. p \in Proc /\ lock = p /\ Stage(p) /\ Types /\ proc[p].version \in Version
  BY HolderInstalls DEF At, Unlocked, Stage
<1>2. Moved(p, pc) /\ Knows(p) /\ New(p)' = New(p) /\ Copy(p)' = Copy(p)
  BY <1>1, GotoMoves DEF Places, Knows, New, Copy
<1>3. /\ current = New(p) /\ Complete(New(p)) /\ dirs[Copy(p)] # Partial /\ Was(p) \in Releases
      /\ Complete(IF Was(p) = New(p) THEN Copy(p) ELSE Was(p)) /\ New(p) # Copy(p)
  BY <1>1, Directories DEF Stage, At, New, Copy
<1>4. Complete(Was(p))
  BY <1>3
<1>5. Stage(p)'
  BY <1>1, <1>2, <1>3, <1>4 DEF Stage, At, CanGoBack, Complete, Early, Replacing, Checked, Moved, Knows
<1> QED
  BY <1>1, <1>2, <1>5, HolderGoesOn DEF Places, Unlocked, Types

LEMMA DropCopyKeeps ==
  ASSUME LossInv, NEW p \in Install, DropCopy(p)
  PROVE  LossInv'
<1> DEFINE v == proc[p].version
<1> At(p, "drop") /\ Goto(p, "succeed") /\ UNCHANGED <<current, lock>> /\ dirs' = [dirs EXCEPT ![Replaced(v)] = None]
  BY DEF DropCopy, SetDir
<1>1. p \in Proc /\ lock = p /\ Stage(p) /\ Types /\ v \in Version
  BY HolderInstalls DEF At, Unlocked, Stage
<1>2. Moved(p, "succeed") /\ Knows(p) /\ New(p)' = New(p) /\ Copy(p)' = Copy(p)
  BY <1>1, GotoMoves DEF Places, Knows, New, Copy
<1>3. /\ dirs' \in [Dir -> Files \cup {None, Partial}] /\ dirs'[Copy(p)] = None
      /\ \A w \in Version : dirs'[Release(w)] = dirs[Release(w)]
  BY <1>1, Directories DEF Types, Copy
<1>4. /\ current = New(p) /\ Was(p) \in Releases
      /\ Complete(New(p))' /\ Complete(Was(p))' /\ dirs'[Copy(p)'] # Partial
  BY <1>1, <1>2, <1>3, Directories, Nothings DEF Stage, At, Checked, Releases, Complete, New, Knows
<1>5. Stage(p)'
  BY <1>1, <1>2, <1>4 DEF Stage, At, Early, Replacing, Checked, Moved, Knows
<1> QED
  BY <1>1, <1>2, <1>3, <1>5, HolderGoesOn DEF Places, Unlocked, Types

LEMMA SucceedKeeps ==
  ASSUME LossInv, NEW p \in Install, Succeed(p)
  PROVE  LossInv'
<1> At(p, "succeed") /\ Goto(p, "tidy") /\ UNCHANGED <<dirs, current, lock>>
  BY DEF Succeed
<1>1. p \in Proc /\ lock = p /\ Stage(p) /\ Types /\ proc[p].version \in Version
  BY HolderInstalls DEF At, Unlocked, Stage
<1>2. Moved(p, "tidy") /\ Knows(p) /\ New(p)' = New(p) /\ Copy(p)' = Copy(p)
  BY <1>1, GotoMoves DEF Places, Knows, New, Copy
<1>3. Stage(p)'
  BY <1>1, <1>2 DEF Stage, At, Complete, Early, Replacing, Checked, Moved, Knows
<1> QED
  BY <1>1, <1>2, <1>3, HolderGoesOn DEF Places, Unlocked, Types

\* What undoInstall needs is enough for recover, too.
LEMMA GoBackSuffices ==
  ASSUME NEW p, proc[p].version \in Version, Was(p) \in Releases, CanGoBack(p)
  PROVE  Safe(Was(p)) /\ Recoverable
<1>1. New(p) \in Releases /\ New(p) \notin Copies /\ Was(p) \notin Copies
  BY Directories DEF New, Releases, Copies
<1>2. Complete(New(p)) \/ Complete(Copy(p)) => Safe(New(p)) /\ Safe(Copy(p))
  BY DEF Safe, New, Copy
<1>3. Complete(Was(p)) => Safe(Was(p))
  BY DEF Safe, Releases
<1> QED
  BY <1>1, <1>2, <1>3 DEF CanGoBack, Recoverable

\* the same of the state after a step
LEMMA GoBackSufficesThen ==
  ASSUME NEW p, proc[p].version' \in Version, Was(p)' \in Releases, CanGoBack(p)'
  PROVE  Safe(Was(p))' /\ Recoverable'
<1>1. New(p)' \in Releases /\ New(p)' \notin Copies /\ Was(p)' \notin Copies
  BY Directories DEF New, Releases, Copies
<1>2. Complete(New(p))' \/ Complete(Copy(p))' => Safe(New(p))' /\ Safe(Copy(p))'
  BY DEF Safe, New, Copy, Complete
<1>3. Complete(Was(p))' => Safe(Was(p))'
  BY DEF Safe, Releases, Complete
<1> QED
  BY <1>1, <1>2, <1>3 DEF CanGoBack, Recoverable

\* install ends while it can go back
LEMMA Exits ==
  ASSUME LossInv, NEW p \in Install, lock = p, UNCHANGED lock, Moved(p, "exit"), Knows(p),
         dirs' \in [Dir -> Files \cup {None, Partial}], current' \in Releases \cup Copies,
         proc[p].version \in Version, Was(p) \in Releases, CanGoBack(p)'
  PROVE  LossInv'
<1>1. Safe(Was(p))' /\ Recoverable'
  BY GoBackSufficesThen DEF Knows
<1>2. Stage(p)'
  BY <1>1, Nothings DEF Stage, At, Early, Replacing, Checked, Moved, Knows
<1> QED
  BY <1>2, HolderGoesOn DEF Places, Unlocked

LEMMA cleanUpReleasesKeeps ==
  ASSUME LossInv, NEW p \in Install, cleanUpReleases(p)
  PROVE  LossInv'
<1> DEFINE Removed == {Release(v) : v \in Old(p)}
<1> /\ At(p, "tidy") /\ Goto(p, "exit") /\ UNCHANGED <<current, lock>>
    /\ dirs' = [d \in Dir |-> IF d \in Removed THEN None ELSE dirs[d]]
  BY DEF cleanUpReleases
<1>1. p \in Proc /\ lock = p /\ Stage(p) /\ Types /\ proc[p].version \in Version
  BY HolderInstalls DEF At, Unlocked, Stage
<1>2. Moved(p, "exit") /\ Knows(p) /\ New(p)' = New(p) /\ Copy(p)' = Copy(p)
  BY <1>1, GotoMoves DEF Places, Knows, New, Copy
<1>3. current \notin Removed /\ Was(p) \notin Removed /\ Copy(p) \notin Removed
  BY <1>1, Directories DEF Old, Was, Installed, Copy
<1>4. dirs' \in [Dir -> Files \cup {None, Partial}] /\ \A d \in Dir \ Removed : dirs'[d] = dirs[d]
  <2> HIDE DEF Removed
  <2> QED
    BY <1>1 DEF Types
<1>5. current = New(p) /\ Complete(New(p)) /\ Complete(Was(p)) /\ dirs[Copy(p)] # Partial /\ Was(p) \in Releases
  BY <1>1 DEF Stage, At, Checked
<1>6. Copy(p) \in Dir
  BY <1>1, Directories DEF Copy
<1>7. /\ Complete(New(p))' /\ Complete(Was(p))' /\ dirs'[Copy(p)'] # Partial /\ current' = New(p)' /\ Was(p)' = Was(p)
  <2> HIDE DEF Removed
  <2> QED
    BY <1>2, <1>3, <1>4, <1>5, <1>6 DEF Complete, Knows
<1>8. CanGoBack(p)'
  BY <1>7 DEF CanGoBack
<1> QED
  BY <1>1, <1>2, <1>4, <1>5, <1>8, Exits DEF Types

----------------------------------------------------------------------------
(* A command that is stopped halfway. *)

\* what it may leave in pieces
Touched(p) == Removes(p) \cup Writes(p)

LEMMA StoppedIsTouched ==
  ASSUME LossInv, NEW p \in Proc, dirs' \in StoppedHalfway(p)
  PROVE  /\ dirs' \in [Dir -> Files \cup {None, Partial}]
         /\ \A d \in Dir : d \notin Touched(p) => dirs'[d] = dirs[d]
         /\ \A d \in Dir : dirs'[d] \in {Partial, None, dirs[d]}
<1> DEFINE Left(part, gone) == [d \in Dir |-> IF d \in part THEN Partial ELSE IF d \in gone THEN None ELSE dirs[d]]
<1>1. PICK part \in SUBSET (Removes(p) \cup Writes(p)), gone \in SUBSET Removes(p) : dirs' = Left(part, gone)
  BY DEF StoppedHalfway
<1>2. dirs \in [Dir -> Files \cup {None, Partial}]
  BY DEF LossInv, Types
<1>3. \A d \in Dir : dirs'[d] = IF d \in part THEN Partial ELSE IF d \in gone THEN None ELSE dirs[d]
  BY <1>1
<1>4. dirs' \in [Dir -> Files \cup {None, Partial}]
  BY <1>1, <1>2
<1> QED
  BY <1>3, <1>4, <1>1 DEF Touched

\* at most this, where it is
LEMMA TouchedAt ==
  ASSUME NEW p, NEW d \in Touched(p)
  PROVE  \/ At(p, "clean") /\ d \in {Copy(p), Copying(proc[p].version)}
         \/ At(p, "remove") /\ d = New(p)
         \/ At(p, "drop") /\ d = Copy(p)
         \/ At(p, "tidy") /\ d \in {Release(v) : v \in Old(p)}
         \/ At(p, "undoFiles") /\ d \in Undone(p)
         \/ At(p, "copy") /\ d = Copying(proc[p].version)
  BY Zenon DEF Touched, Removes, Writes, Copy, New

\* What undoInstall removes, and whatever is left of it, it can still go back.
LEMMA StillGoesBack ==
  ASSUME LossInv, NEW p \in Install, proc[p].version \in Version, Was(p) \in Releases, CanGoBack(p),
         UNCHANGED current, Knows(p), \A d \in Dir : d \notin Undone(p) => dirs'[d] = dirs[d]
  PROVE  CanGoBack(p)'
<1>1. New(p)' = New(p) /\ Copy(p)' = Copy(p) /\ Was(p)' = Was(p)
  BY DEF Knows, New, Copy
<1>2. /\ New(p) \in Dir /\ Copy(p) \in Dir /\ Was(p) \in Dir /\ Copy(p) # New(p) /\ Copy(p) # Was(p)
  BY Directories DEF New, Copy, Releases
<1>3. Undone(p) \subseteq {New(p)} /\ (dirs[Copy(p)] = None /\ current = New(p) => Undone(p) = {})
  BY DEF Undone, New, Copy
<1>4. dirs'[Copy(p)] = dirs[Copy(p)] /\ (Was(p) # New(p) => dirs'[Was(p)] = dirs[Was(p)])
  BY <1>2, <1>3
<1>5. Complete(Copy(p)) \/ dirs[Copy(p)] \in {None, Partial}
  BY <1>2 DEF LossInv, Types, Complete
<1>6. dirs[Copy(p)] = None /\ current = New(p) => dirs'[New(p)] = dirs[New(p)]
  BY <1>2, <1>3
<1> QED
  BY <1>1, <1>2, <1>4, <1>5, <1>6 DEF CanGoBack, Complete

\* A command of install fails: what it leaves is enough to go back.
LEMMA CommandFailsKeeps ==
  ASSUME LossInv, Careful, NEW p \in Install, CommandFails(p)
  PROVE  LossInv'
<1> DEFINE v == proc[p].version
<1> /\ proc[p].pc \in {"unpack", "named", "clean", "copy", "keep", "point", "remove", "place", "switch", "drop", "succeed",
                       "tidy", "undo", "undoFiles", "undoMove", "undoPoint", "rolledBack"}
    /\ ~proc[p].trapped /\ Goto(p, "exit") /\ UNCHANGED <<current, lock, cuts>> /\ dirs' \in StoppedHalfway(p)
  BY DEF CommandFails, Fails
<1>1. p \in Proc /\ lock = p /\ Stage(p) /\ Types /\ Was(p) \in Releases
  BY HolderInstalls DEF Unlocked, Stage, At
<1>2. Moved(p, "exit") /\ Knows(p) /\ New(p)' = New(p) /\ Copy(p)' = Copy(p) /\ Was(p)' = Was(p)
  BY <1>1, GotoMoves DEF Places, Knows, New, Copy
<1>3. dirs' \in [Dir -> Files \cup {None, Partial}] /\ \A d \in Dir : d \notin Touched(p) => dirs'[d] = dirs[d]
  BY <1>1, StoppedIsTouched
<1>4. CASE At(p, "unpack")
  <2>1. \A d : d \notin Touched(p)
    BY <1>4, TouchedAt DEF At
  <2>2. current = Was(p) /\ Complete(current)' /\ v = None
    BY <1>1, <1>3, <1>4, <2>1, Directories DEF Stage, At, Early, Releases, Complete
  <2>3. Safe(Was(p))' /\ Recoverable'
    BY <1>1, <1>2, <2>2, Directories DEF Safe, Recoverable, Releases, Copies, Complete
  <2>4. Stage(p)'
    BY <1>1, <1>2, <2>2, <2>3, Nothings DEF Stage, At, Early, Replacing, Checked, Moved, Knows
  <2> QED
    BY <1>1, <1>2, <1>3, <2>4, HolderGoesOn DEF Places, Unlocked, Types
<1>5. CASE ~At(p, "unpack")
  <2>1. v \in Version
    BY <1>1, <1>5 DEF Stage, At
  <2>2. /\ New(p) \in Releases /\ Copy(p) \in Copies /\ New(p) \in Dir /\ Copy(p) \in Dir /\ Was(p) \in Dir
        /\ Copy(p) # New(p) /\ Copy(p) # Was(p) /\ Copying(v) \notin {New(p), Copy(p), Was(p)} /\ New(p)[2] = v
    BY <1>1, <2>1, Directories DEF New, Copy, Releases, Copies
  <2>3. current = New(p) => dirs'[Copy(p)] # Partial
    BY <1>1, <2>2, Nothings DEF Careful, BreaksCopy, Copy
  <2>4. CASE proc[p].pc \in {"named", "keep", "point", "place", "switch", "succeed", "undo", "undoMove", "rolledBack"}
    <3>1. \A d \in Dir : dirs'[d] = dirs[d]
      BY <1>3, <2>4, TouchedAt DEF At
    <3>2. CanGoBack(p)
      <4>1. CASE At(p, "named")
        BY <1>1, <2>1, <2>2, <4>1 DEF Stage, At, Early, CanGoBack, InPieces, Copy
      <4>2. CASE proc[p].pc \in {"keep", "point", "place", "switch"}
        BY <1>1, <2>2, <4>2, Nothings DEF Stage, At, Replacing, CanGoBack, Complete
      <4>3. CASE proc[p].pc \in {"succeed", "undo", "undoMove", "rolledBack"}
        BY <1>1, <2>2, <4>3, Nothings DEF Stage, At, Checked, CanGoBack, Complete
      <4> QED
        BY <2>4, <4>1, <4>2, <4>3 DEF At
    <3>3. CanGoBack(p)'
      BY <1>2, <2>2, <3>1, <3>2 DEF CanGoBack, Complete
    <3> QED
      BY <1>1, <1>2, <1>3, <2>1, <3>3, Exits DEF Types
  <2>5. CASE proc[p].pc \in {"clean", "copy"}
    <3>1. dirs'[New(p)] = dirs[New(p)] /\ dirs'[Was(p)] = dirs[Was(p)]
      BY <1>3, <2>2, <2>5, TouchedAt DEF At
    <3>2. current = Was(p) /\ Complete(Was(p))
      BY <1>1, <2>5 DEF Stage, At, Early
    <3>3. CanGoBack(p)'
      BY <1>2, <2>2, <2>3, <3>1, <3>2 DEF CanGoBack, Complete
    <3> QED
      BY <1>1, <1>2, <1>3, <2>1, <3>3, Exits DEF Types
  <2>6. CASE At(p, "remove")
    <3>1. dirs'[Copy(p)] = dirs[Copy(p)] /\ (Was(p) # New(p) => dirs'[Was(p)] = dirs[Was(p)])
      BY <1>3, <2>2, <2>6, TouchedAt DEF At
    <3>2. CanGoBack(p)'
      BY <1>1, <1>2, <2>2, <2>6, <3>1, Nothings DEF Stage, At, Replacing, CanGoBack, Complete
    <3> QED
      BY <1>1, <1>2, <1>3, <2>1, <3>2, Exits DEF Types
  <2>7. CASE At(p, "drop")
    <3>1. dirs'[New(p)] = dirs[New(p)] /\ dirs'[Was(p)] = dirs[Was(p)]
      BY <1>3, <2>2, <2>7, TouchedAt DEF At
    <3>2. current = New(p) /\ Complete(New(p)) /\ Complete(Was(p))
      BY <1>1, <2>7 DEF Stage, At, Checked
    <3>3. CanGoBack(p)'
      BY <1>2, <2>2, <2>3, <3>1, <3>2 DEF CanGoBack, Complete
    <3> QED
      BY <1>1, <1>2, <1>3, <2>1, <3>3, Exits DEF Types
  <2>8. CASE At(p, "tidy")
    <3>1. current = New(p) /\ Complete(New(p)) /\ Complete(Was(p)) /\ dirs[Copy(p)] # Partial
      BY <1>1, <2>8 DEF Stage, At, Checked
    <3>2. \A w \in Old(p) : Release(w) \notin {current, Was(p), Copy(p)}
      BY <2>1, Directories DEF Old, Was, Installed, Copy
    <3>3. \A d \in {New(p), Was(p), Copy(p)} : d \notin Touched(p)
      BY <2>8, <3>1, <3>2, TouchedAt DEF At
    <3>4. dirs'[New(p)] = dirs[New(p)] /\ dirs'[Was(p)] = dirs[Was(p)] /\ dirs'[Copy(p)] = dirs[Copy(p)]
      BY <1>3, <2>2, <3>3
    <3>5. CanGoBack(p)'
      BY <1>2, <2>2, <3>1, <3>4 DEF CanGoBack, Complete
    <3> QED
      BY <1>1, <1>2, <1>3, <2>1, <3>5, Exits DEF Types
  <2>9. CASE At(p, "undoFiles")
    <3>1. \A d \in Dir : d \notin Undone(p) => dirs'[d] = dirs[d]
      BY <1>3, <2>9, TouchedAt DEF At
    <3>2. CanGoBack(p)'
      BY <1>1, <1>2, <2>1, <2>9, <3>1, StillGoesBack DEF Stage, At
    <3> QED
      BY <1>1, <1>2, <1>3, <2>1, <3>2, Exits DEF Types
  <2>10. ~At(p, "undoPoint")
    BY <1>1 DEF Stage
  <2> QED
    BY <1>5, <2>4, <2>5, <2>6, <2>7, <2>8, <2>9, <2>10 DEF At
<1> QED
  BY <1>4, <1>5

LEMMA ExitInstallKeeps ==
  ASSUME LossInv, NEW p \in Install, ExitInstall(p)
  PROVE  LossInv'
<1> At(p, "exit") /\ UNCHANGED <<dirs, current>>
  BY DEF ExitInstall
<1>1. p \in Proc /\ lock = p /\ Stage(p) /\ Types /\ Was(p) \in Releases
  BY HolderInstalls DEF At, Unlocked, Stage
<1>2. CASE End(p) /\ lock' = None
  BY <1>1, <1>2, HolderEnds DEF Stage
<1>3. CASE proc[p].version # None /\ proc' = [proc EXCEPT ![p].pc = "undo", ![p].trapped = TRUE] /\ UNCHANGED lock
  <2>1. proc[p].version \in Version /\ CanGoBack(p)
    BY <1>1, <1>3 DEF Stage, At, Types, Process
  <2>2. Moved(p, "undo") /\ proc'[p].version = proc[p].version /\ Was(p)' = Was(p) /\ proc'[p].trapped
    <3> DEFINE r == [proc[p] EXCEPT !.pc = "undo", !.trapped = TRUE]
    <3>1. proc[p] \in Process /\ "undo" \in Places
      BY <1>1 DEF Types, Places
    <3>2. /\ r \in Process /\ r.pc = "undo" /\ r.bundle = proc[p].bundle /\ r.trapped
          /\ r.version = proc[p].version /\ r.previous = proc[p].previous
      BY <3>1 DEF Process
    <3>3. proc' = [proc EXCEPT ![p] = r]
      BY <1>3
    <3> HIDE DEF r
    <3> QED
      BY <1>1, <3>2, <3>3, OneMoves DEF Moved, Was
  <2>3. CanGoBack(p)'
    BY <2>1, <2>2 DEF CanGoBack, Complete, New, Copy
  <2>4. Stage(p)'
    BY <1>1, <2>1, <2>2, <2>3 DEF Stage, At, Early, Replacing, Checked, Moved
  <2> QED
    BY <1>1, <1>3, <2>2, <2>4, HolderGoesOn DEF Places, Unlocked, Types
<1> QED
  BY <1>2, <1>3 DEF ExitInstall

----------------------------------------------------------------------------
(* The commands of undoInstall, which go on when one fails. *)

GoesOn(p, pc) == Goto(p, pc) \/ proc' = [proc EXCEPT ![p].pc = pc, ![p].undoFailed = TRUE]

UndoStarts(p) ==
  /\ At(p, "undo") /\ GoesOn(p, "undoFiles") /\ UNCHANGED <<dirs, lock>>
  /\ current' = current \/ (Was(p) # None /\ Was(p) # New(p) /\ current' = Was(p))
UndoRemoves(p) ==
  /\ At(p, "undoFiles") /\ GoesOn(p, IF dirs[Copy(p)] # None THEN "undoMove" ELSE "undone") /\ UNCHANGED <<current, lock>>
  /\ dirs' \in [Dir -> Files \cup {None, Partial}] /\ \A d \in Dir : d \notin Undone(p) => dirs'[d] = dirs[d]
UndoMoves(p) ==
  /\ At(p, "undoMove") /\ GoesOn(p, IF current = Copy(p) THEN "undoPoint" ELSE "undone") /\ UNCHANGED <<current, lock>>
  /\ dirs' = dirs \/ dirs' = [dirs EXCEPT ![New(p)] = dirs[Copy(p)], ![Copy(p)] = None]
UndoPoints(p) ==
  /\ At(p, "undoPoint") /\ GoesOn(p, "undone") /\ UNCHANGED <<dirs, lock>> /\ current' \in {current, New(p)}

LEMMA UndoOrFails ==
  ASSUME LossInv, NEW p \in Proc, UndoStep(p) \/ UndoFails(p)
  PROVE  UndoStarts(p) \/ UndoRemoves(p) \/ UndoMoves(p) \/ UndoPoints(p) \/ Undo(p)
<1>1. dirs \in [Dir -> Files \cup {None, Partial}]
  BY DEF LossInv, Types
<1>2. CASE undoInstall(p)
  BY <1>2 DEF undoInstall, switchTo, UndoStarts, GoesOn, Was, New
<1>3. CASE UndoFiles(p)
  BY <1>1, <1>3 DEF UndoFiles, UndoRemoves, GoesOn, Copy
<1>4. CASE UndoMove(p)
  BY <1>4 DEF UndoMove, UndoMoves, GoesOn, Copy, New
<1>5. CASE UndoPoint(p)
  BY <1>5 DEF UndoPoint, switchTo, UndoPoints, GoesOn, New
<1>6. CASE UndoFails(p)
  <2>1. UNCHANGED <<current, lock>> /\ dirs' \in StoppedHalfway(p)
    BY <1>6 DEF UndoFails, Fails
  <2>2. dirs' \in [Dir -> Files \cup {None, Partial}] /\ \A d \in Dir : d \notin Touched(p) => dirs'[d] = dirs[d]
    BY <2>1, StoppedIsTouched
  <2>3. At(p, "undoFiles") => \A d \in Dir : d \notin Undone(p) => dirs'[d] = dirs[d]
    BY <2>2, TouchedAt DEF At
  <2>4. proc[p].pc \in {"undo", "undoMove", "undoPoint"} => dirs' = dirs
    BY <1>1, <2>2, TouchedAt DEF At
  <2> QED
    BY <1>6, <2>1, <2>2, <2>3, <2>4 DEF UndoFails, UndoStarts, UndoRemoves, UndoMoves, UndoPoints, GoesOn, At, Copy
<1> QED
  BY <1>2, <1>3, <1>4, <1>5, <1>6 DEF UndoStep

LEMMA GoesOnMoves ==
  ASSUME Types, NEW p \in Proc, NEW pc \in Places, GoesOn(p, pc)
  PROVE  Moved(p, pc) /\ Knows(p) /\ New(p)' = New(p) /\ Copy(p)' = Copy(p) /\ Was(p)' = Was(p)
<1>1. Moved(p, pc) /\ Knows(p)
  BY DEF Types, Process, GoesOn, Goto, Moved, Knows, Was
<1> QED
  BY <1>1 DEF Knows, New, Copy

LEMMA UndoStartsKeeps ==
  ASSUME LossInv, NEW p \in Install, UndoStarts(p)
  PROVE  LossInv'
<1>1. At(p, "undo") /\ UNCHANGED <<dirs, lock>> /\ (current' = current \/ (Was(p) # New(p) /\ current' = Was(p)))
  BY DEF UndoStarts
<1>2. /\ p \in Proc /\ lock = p /\ Stage(p) /\ Types
      /\ proc[p].version \in Version /\ Was(p) \in Releases /\ CanGoBack(p) /\ (~proc[p].trapped => current # Copy(p))
  BY <1>1, HolderInstalls DEF At, Unlocked, Stage
<1>3. Moved(p, "undoFiles") /\ Knows(p) /\ New(p)' = New(p) /\ Copy(p)' = Copy(p) /\ Was(p)' = Was(p)
  BY <1>2, GoesOnMoves DEF Places, UndoStarts
<1>4. Copy(p) \notin Releases
  BY <1>2, Directories DEF Releases, Copy
<1>5. CanGoBack(p)' /\ current' \in Releases \cup Copies
  BY <1>1, <1>2, <1>3 DEF CanGoBack, Complete, Types
<1>6. Stage(p)'
  BY <1>1, <1>2, <1>3, <1>4, <1>5 DEF Stage, At, Early, Replacing, Checked, Moved, Knows
<1> QED
  BY <1>1, <1>2, <1>3, <1>5, <1>6, HolderGoesOn DEF Places, Unlocked, Types

LEMMA UndoRemovesKeeps ==
  ASSUME LossInv, NEW p \in Install, UndoRemoves(p)
  PROVE  LossInv'
<1> DEFINE pc == IF dirs[Copy(p)] # None THEN "undoMove" ELSE "undone"
<1>1. /\ At(p, "undoFiles") /\ UNCHANGED <<current, lock>>
      /\ dirs' \in [Dir -> Files \cup {None, Partial}] /\ \A d \in Dir : d \notin Undone(p) => dirs'[d] = dirs[d]
  BY DEF UndoRemoves
<1>2. /\ p \in Proc /\ lock = p /\ Stage(p) /\ Types
      /\ proc[p].version \in Version /\ Was(p) \in Releases /\ CanGoBack(p) /\ (~proc[p].trapped => current # Copy(p))
  BY <1>1, HolderInstalls DEF At, Unlocked, Stage
<1>3. Moved(p, pc) /\ Knows(p) /\ New(p)' = New(p) /\ Copy(p)' = Copy(p) /\ Was(p)' = Was(p)
  BY <1>2, GoesOnMoves DEF Places, UndoRemoves
<1>4. CanGoBack(p)'
  BY <1>1, <1>2, <1>3, StillGoesBack
<1>5. Safe(Was(p))' /\ Recoverable'
  BY <1>2, <1>3, <1>4, GoBackSufficesThen DEF Knows
<1>6. dirs'[Copy(p)] = dirs[Copy(p)] /\ Copy(p) \in Dir /\ Copy(p) \notin Releases
  <2>1. Copy(p) \in Dir /\ Copy(p) \notin Releases /\ Copy(p) \notin Undone(p)
    BY <1>2, Directories DEF Copy, Undone, Releases
  <2> QED
    BY <1>1, <2>1
<1>7. CASE dirs[Copy(p)] # None
  <2>1. dirs[Copy(p)] # Partial => Complete(Copy(p))'
    BY <1>2, <1>3, <1>6, <1>7 DEF Types, Complete
  <2>2. Stage(p)'
    BY <1>1, <1>2, <1>3, <1>4, <1>7, <1>6, <2>1 DEF Stage, At, Early, Replacing, Checked, Moved, Knows, CanGoBack
  <2> QED
    BY <1>1, <1>2, <1>3, <2>2, HolderGoesOn DEF Places, Unlocked, Types
<1>8. CASE dirs[Copy(p)] = None
  <2>1. current # Copy(p)
    BY <1>2, <1>6, <1>8, Nothings DEF CanGoBack, Complete, Releases, New
  <2>2. Stage(p)'
    BY <1>1, <1>2, <1>3, <1>4, <1>5, <1>8, <2>1 DEF Stage, At, Early, Replacing, Checked, Moved, Knows
  <2> QED
    BY <1>1, <1>2, <1>3, <2>2, HolderGoesOn DEF Places, Unlocked, Types
<1> QED
  BY <1>7, <1>8

LEMMA UndoMovesKeeps ==
  ASSUME LossInv, NEW p \in Install, UndoMoves(p)
  PROVE  LossInv'
<1> DEFINE pc == IF current = Copy(p) THEN "undoPoint" ELSE "undone"
<1>1. /\ At(p, "undoMove") /\ UNCHANGED <<current, lock>>
      /\ dirs' = dirs \/ dirs' = [dirs EXCEPT ![New(p)] = dirs[Copy(p)], ![Copy(p)] = None]
  BY DEF UndoMoves
<1>2. /\ p \in Proc /\ lock = p /\ Stage(p) /\ Types
      /\ proc[p].version \in Version /\ Was(p) \in Releases /\ (~proc[p].trapped => current # Copy(p))
      /\ IF Was(p) = New(p) THEN current \in {New(p), Copy(p)} /\ Complete(Copy(p))
                            ELSE Complete(Was(p)) /\ (current = Was(p) \/ (current = New(p) /\ Complete(Copy(p))))
  BY <1>1, HolderInstalls DEF At, Unlocked, Stage
<1>3. Moved(p, pc) /\ Knows(p) /\ New(p)' = New(p) /\ Copy(p)' = Copy(p) /\ Was(p)' = Was(p)
  BY <1>2, GoesOnMoves DEF Places, UndoMoves
<1>4. /\ New(p) \in Dir /\ Copy(p) \in Dir /\ Copy(p) # New(p) /\ New(p) \in Releases /\ Copy(p) \notin Releases
      /\ Was(p) \in Dir
  BY <1>2, Directories DEF New, Copy, Releases
<1>5. /\ dirs' \in [Dir -> Files \cup {None, Partial}]
      /\ \/ dirs' = dirs
         \/ /\ dirs'[New(p)] = dirs[Copy(p)] /\ dirs'[Copy(p)] = None
            /\ Was(p) # New(p) => dirs'[Was(p)] = dirs[Was(p)]
  BY <1>1, <1>2, <1>4 DEF Types
<1>6. Complete(Copy(p)) => (Complete(New(p))' \/ Complete(Copy(p))') /\ dirs'[Copy(p)] # Partial
  BY <1>3, <1>4, <1>5, Nothings DEF Complete
<1>7. CASE current = Copy(p)
  <2>1. Was(p) = New(p) /\ Complete(Copy(p)) /\ proc[p].trapped
    BY <1>2, <1>4, <1>7
  <2>2. Stage(p)'
    BY <1>1, <1>2, <1>3, <1>6, <1>7, <2>1 DEF Stage, At, Early, Replacing, Checked, Moved, Knows
  <2> QED
    BY <1>1, <1>2, <1>3, <1>5, <2>2, HolderGoesOn DEF Places, Unlocked, Types
<1>8. CASE current # Copy(p)
  <2>1. CanGoBack(p)'
    <3>1. CASE current = New(p) /\ Complete(Copy(p))
      BY <1>1, <1>2, <1>3, <1>5, <1>6, <3>1 DEF CanGoBack, Complete
    <3>2. CASE Was(p) # New(p) /\ current = Was(p) /\ Complete(Was(p))
      BY <1>1, <1>3, <1>5, <3>2 DEF CanGoBack, Complete
    <3> QED
      BY <1>2, <1>8, <3>1, <3>2
  <2>2. Safe(Was(p))' /\ Recoverable'
    BY <1>2, <1>3, <2>1, GoBackSufficesThen DEF Knows
  <2>3. Stage(p)'
    BY <1>1, <1>2, <1>3, <1>8, <2>1, <2>2 DEF Stage, At, Early, Replacing, Checked, Moved, Knows
  <2> QED
    BY <1>1, <1>2, <1>3, <1>5, <2>3, HolderGoesOn DEF Places, Unlocked, Types
<1> QED
  BY <1>7, <1>8

LEMMA UndoPointsKeeps ==
  ASSUME LossInv, NEW p \in Install, UndoPoints(p)
  PROVE  LossInv'
<1>1. At(p, "undoPoint") /\ UNCHANGED <<dirs, lock>> /\ current' \in {current, New(p)}
  BY DEF UndoPoints
<1>2. /\ p \in Proc /\ lock = p /\ Stage(p) /\ Types
      /\ proc[p].version \in Version /\ Was(p) \in Releases /\ proc[p].trapped
      /\ Was(p) = New(p) /\ current = Copy(p) /\ dirs[Copy(p)] # Partial
      /\ Complete(New(p)) \/ Complete(Copy(p))
  BY <1>1, HolderInstalls DEF At, Unlocked, Stage
<1>3. Moved(p, "undone") /\ Knows(p) /\ New(p)' = New(p) /\ Copy(p)' = Copy(p) /\ Was(p)' = Was(p)
  BY <1>2, GoesOnMoves DEF Places, UndoPoints
<1>4. New(p) \in Releases /\ New(p) \notin Copies
  BY <1>2, Directories DEF New, Releases, Copies
<1>5. Safe(New(p))' /\ Safe(Copy(p))'
  BY <1>1, <1>2, <1>3 DEF Safe, New, Copy, Complete, Knows
<1>6. Safe(Was(p))' /\ Recoverable' /\ current' \in Releases \cup Copies
  BY <1>1, <1>2, <1>3, <1>4, <1>5 DEF Recoverable, Types
<1>7. Stage(p)'
  BY <1>1, <1>2, <1>3, <1>6 DEF Stage, At, Early, Replacing, Checked, Moved, Knows
<1> QED
  BY <1>1, <1>2, <1>3, <1>6, <1>7, HolderGoesOn DEF Places, Unlocked, Types

LEMMA UndoKeeps ==
  ASSUME LossInv, NEW p \in Install, Undo(p)
  PROVE  LossInv'
<1> At(p, "undone") /\ Goto(p, "rolledBack") /\ UNCHANGED <<dirs, current, lock>>
  BY Nothings DEF Undo, sdCard
<1>1. p \in Proc /\ lock = p /\ Stage(p) /\ Types /\ proc[p].version \in Version /\ Was(p) \in Releases
  BY HolderInstalls DEF At, Unlocked, Stage
<1>2. Moved(p, "rolledBack") /\ Knows(p) /\ New(p)' = New(p) /\ Copy(p)' = Copy(p) /\ Was(p)' = Was(p)
  BY <1>1, GotoMoves DEF Places, Knows, New, Copy
<1>3. /\ Safe(Was(p))' /\ Recoverable'
      /\ ~proc'[p].trapped => CanGoBack(p)' /\ current' # Copy(p)'
  BY <1>1, <1>2 DEF Stage, At, Safe, Recoverable, CanGoBack, Complete, Knows
<1>4. Stage(p)'
  BY <1>1, <1>2, <1>3 DEF Stage, At, Early, Replacing, Checked, Moved, Knows
<1> QED
  BY <1>1, <1>2, <1>4, HolderGoesOn DEF Places, Unlocked, Types

LEMMA RolledBackKeeps ==
  ASSUME LossInv, NEW p \in Install, RolledBack(p)
  PROVE  LossInv'
<1> At(p, "rolledBack") /\ UNCHANGED <<dirs, current>>
  BY DEF RolledBack
<1>1. /\ p \in Proc /\ lock = p /\ Stage(p) /\ Types /\ proc[p].version \in Version /\ Was(p) \in Releases
      /\ Recoverable /\ (~proc[p].trapped => CanGoBack(p))
  BY HolderInstalls DEF At, Unlocked, Stage
<1>2. CASE proc[p].trapped
  BY <1>1, <1>2, HolderEnds DEF RolledBack
<1>3. CASE ~proc[p].trapped
  <2>1. Goto(p, "exit") /\ UNCHANGED lock
    BY <1>3 DEF RolledBack
  <2>2. Moved(p, "exit") /\ Knows(p) /\ New(p)' = New(p) /\ Copy(p)' = Copy(p) /\ Was(p)' = Was(p)
    BY <1>1, <2>1, GotoMoves DEF Places, Knows, New, Copy
  <2>3. CanGoBack(p)'
    BY <1>1, <1>3, <2>2 DEF CanGoBack, Complete
  <2> QED
    BY <1>1, <2>1, <2>2, <2>3, Exits DEF Types
<1> QED
  BY <1>2, <1>3

----------------------------------------------------------------------------
(* Steps of those that have no lock. *)

\* p is somewhere before it takes the lock, or ends.
LEMMA OtherGoesOn ==
  ASSUME LossInv, NEW p \in Install, lock # p, UNCHANGED <<dirs, current, lock>>,
         NEW r \in Process, proc' = [proc EXCEPT ![p] = r],
         r.pc \in {"idle", "start", "launch", "lock"}, r.previous = None, r.version = None,
         r.pc # "idle" => r.bundle \in Bundle /\ At(Boot, "idle")
  PROVE  LossInv'
<1>1. p \in Proc /\ p # Boot /\ Types /\ \A q \in Install : q \in Proc
  BY Nothings DEF LossInv
<1>2. proc' \in [Proc -> Process] /\ proc'[p] = r /\ \A q \in Proc \ {p} : proc'[q] = proc[q]
  BY <1>1, OneMoves
<1>3. Types'
  BY <1>1, <1>2 DEF Types, Unlocked
<1>4. Roles'
  <2>1. Boot \in Proc /\ proc'[Boot] = proc[Boot]
    BY <1>1, <1>2 DEF Proc
  <2> QED
    BY <1>1, <1>2, <2>1 DEF LossInv, Roles, At, Was
<1>5. Installing'
  <2> SUFFICES ASSUME lock \in Install PROVE Stage(lock)'
    BY DEF Installing
  <2>1. proc'[lock] = proc[lock] /\ Stage(lock)
    BY <1>1, <1>2 DEF LossInv, Installing
  <2>2. /\ New(lock)' = New(lock) /\ Copy(lock)' = Copy(lock) /\ Was(lock)' = Was(lock)
        /\ \A d : Complete(d)' = Complete(d) /\ Safe(d)' = Safe(d)
        /\ InPieces' = InPieces
    BY <2>1 DEF New, Copy, Was, Complete, Safe, InPieces
  <2>3. Recoverable' = Recoverable /\ CanGoBack(lock)' = CanGoBack(lock)
    BY <2>2 DEF Recoverable, CanGoBack
  <2> QED
    BY <2>1, <2>2, <2>3 DEF Stage, At
<1>6. Booting'
  <2>1. Boot \in Proc /\ proc'[Boot] = proc[Boot]
    BY <1>1, <1>2 DEF Proc
  <2> QED
    BY <2>1 DEF LossInv, Booting, Recovering, Recoverable, Safe, At, Complete, Copy
<1> QED
  BY <1>3, <1>4, <1>5, <1>6 DEF LossInv

LEMMA BeginKeeps ==
  ASSUME LossInv, NEW p \in Install, NEW b \in Bundle, NEW allow \in BOOLEAN, Begin(p, b, allow)
  PROVE  LossInv'
<1> DEFINE r == [Idle EXCEPT !.pc = IF p \in ByServer THEN "start" ELSE "lock", !.bundle = b, !.allow = allow]
<1>1. /\ At(p, "idle") /\ At(Boot, "idle") /\ proc' = [proc EXCEPT ![p] = r] /\ UNCHANGED <<dirs, current, lock>>
  BY DEF Begin, sdCard
<1>2. lock # p
  BY <1>1, Nothings DEF LossInv, Types, At, Unlocked
<1>3. /\ r \in Process /\ r.pc \in {"start", "lock"} /\ r.bundle = b /\ r.previous = None /\ r.version = None
  BY DEF Process, Places, Idle
<1> HIDE DEF r
<1> QED
  BY <1>1, <1>2, <1>3, OtherGoesOn

\* a process that ends without having had the lock
LEMMA OtherEnds ==
  ASSUME LossInv, NEW p \in Install, proc[p].pc \in Unlocked, End(p), UNCHANGED <<dirs, current, lock>>
  PROVE  LossInv'
<1>1. lock # p
  BY Nothings DEF LossInv, Types
<1>2. Idle \in Process /\ Idle.pc = "idle" /\ Idle.previous = None /\ Idle.version = None
  BY DEF Idle, Process, Places
<1> HIDE DEF Idle
<1> QED
  BY <1>1, <1>2, OtherGoesOn DEF End

\* a process that goes on before it takes the lock
LEMMA OtherWaits ==
  ASSUME LossInv, NEW p \in Install, NEW pc \in {"launch", "lock"}, proc[p].pc \in {"start", "launch"}, Goto(p, pc),
         UNCHANGED <<dirs, current, lock>>
  PROVE  LossInv'
<1> DEFINE r == [proc[p] EXCEPT !.pc = pc]
<1>1. p \in Proc /\ lock # p /\ proc[p] \in Process /\ pc \in Places
  BY Nothings DEF LossInv, Types, Unlocked, Places
<1>2. /\ proc[p].previous = None /\ proc[p].version = None /\ proc[p].bundle \in Bundle
      /\ At(Boot, "idle")
  BY DEF LossInv, Roles, At, Was
<1>3. r \in Process /\ r.pc = pc /\ r.previous = None /\ r.version = None /\ r.bundle \in Bundle
  BY <1>1, <1>2 DEF Process
<1>4. proc' = [proc EXCEPT ![p] = r]
  BY DEF Goto
<1> HIDE DEF r
<1> QED
  BY <1>1, <1>2, <1>3, <1>4, OtherGoesOn

LEMMA StartStepKeeps ==
  ASSUME LossInv, NEW p \in Install, StartStep(p)
  PROVE  LossInv'
<1>1. /\ proc[p].pc \in {"start", "launch"} /\ UNCHANGED <<dirs, current, lock>>
      /\ Goto(p, "launch") \/ Goto(p, "lock") \/ End(p)
  BY DEF StartStep, StartUpdate, Launch, At
<1>2. proc[p].pc \in Unlocked
  BY <1>1 DEF Unlocked
<1> QED
  BY <1>1, <1>2, OtherWaits, OtherEnds

\* Nobody installs beside what is in pieces.
LEMMA TakeLockKeeps ==
  ASSUME LossInv, Careful, NEW p \in Install, TakeLock(p)
  PROVE  LossInv'
<1> At(p, "lock") /\ UNCHANGED <<dirs, current>>
  BY DEF TakeLock, sdCard
<1>1. CASE lock # None
  BY <1>1, OtherEnds DEF TakeLock, At, Unlocked
<1>2. CASE lock = None
  <2>1. lock' = p /\ Goto(p, "begin")
    BY <1>2 DEF TakeLock
  <2>2. p \in Proc /\ p # Boot /\ p # None /\ Types /\ \A q \in Install : q \in Proc
    BY Nothings DEF LossInv
  <2>3. Moved(p, "begin") /\ Knows(p)
    BY <2>1, <2>2, GotoMoves DEF Places
  <2>4. Types'
    <3>1. \A q \in Proc : proc[q].pc \in Unlocked
      BY <1>2, Nothings DEF LossInv, Types
    <3>2. \A q \in Proc : lock' = q <=> proc'[q].pc \notin Unlocked
      BY <2>1, <2>2, <2>3, <3>1 DEF Moved, Unlocked
    <3> QED
      BY <2>1, <2>2, <2>3, <3>2 DEF Types, Moved
  <2>5. /\ At(Boot, "idle") /\ Was(p) = None /\ proc[p].version = None /\ proc[p].bundle \in Bundle
    BY DEF LossInv, Roles, At
  <2>6. Complete(current) /\ current \in Releases /\ ~InPieces
    BY <1>2, <2>1, <2>2 DEF Careful, Releases
  <2>7. ~InPieces' /\ Complete(current)'
    BY <2>6 DEF InPieces, Complete
  <2>8. Roles'
    <3>1. proc'[Boot] = proc[Boot]
      BY <2>2, <2>3, Nothings DEF Moved
    <3>2. \A q \in Install \ {p} : proc'[q] = proc[q]
      BY <2>2, <2>3 DEF Moved
    <3> QED
      BY <2>1, <2>2, <2>3, <2>5, <3>1, <3>2 DEF LossInv, Roles, At, Was, Moved, Knows
  <2>9. Stage(p)'
    BY <2>3, <2>5, <2>6, <2>7 DEF Stage, At, Early, Replacing, Checked, Moved, Knows
  <2> QED
    BY <2>1, <2>4, <2>8, <2>9 DEF LossInv, Installing, Booting, Recovering
<1> QED
  BY <1>1, <1>2

LEMMA rollbackKeeps ==
  ASSUME LossInv, Careful, rollback
  PROVE  LossInv'
<1>1. /\ lock = None /\ At(Boot, "idle") /\ \A p \in Install : At(p, "idle")
      /\ UNCHANGED <<dirs, lock, proc>>
  BY DEF rollback
<1>2. PICK v \in Version : current' = Release(v) /\ Release(v) # current
  BY DEF rollback, switchTo, Installed
<1>3. current' \in Releases /\ Complete(current')
  BY <1>1, <1>2 DEF Careful, Releases
<1>4. Complete(current)'
  BY <1>1, <1>3 DEF Complete
<1>5. Types'
  BY <1>1, <1>3 DEF LossInv, Types
<1>6. Roles'
  BY <1>1 DEF LossInv, Roles, At, Was
<1>7. Booting'
  <2>1. Recoverable'
    BY <1>2, <1>4, Directories DEF Recoverable, Safe, Copies, Complete
  <2>2. proc'[Boot].pc = "idle"
    BY <1>1 DEF At
  <2> QED
    BY <2>1, <2>2 DEF Booting, Recovering, At
<1> QED
  BY <1>1, <1>5, <1>6, <1>7, Nothings DEF LossInv, Installing

----------------------------------------------------------------------------
(* Steps of recover, which runs alone. *)

LEMMA BootAlone ==
  ASSUME LossInv, ~At(Boot, "idle")
  PROVE  /\ Types /\ Boot \in Proc /\ proc[Boot] \in Process /\ \A p \in Install : At(p, "idle")
         /\ lock = (IF proc[Boot].pc \in Unlocked THEN None ELSE Boot) /\ lock \notin Install
         /\ Recovering /\ proc[Boot].previous = None /\ ~proc[Boot].inPlace
<1>1. Types /\ Boot \in Proc /\ proc[Boot] \in Process /\ \A p \in Install : At(p, "idle") /\ p \in Proc
  BY Nothings DEF LossInv, Types, Roles
<1>2. lock = IF proc[Boot].pc \in Unlocked THEN None ELSE Boot
  BY <1>1, Nothings DEF Types, At, Unlocked
<1> QED
  BY <1>1, <1>2, Nothings DEF LossInv, Booting, Recovering, Roles, Was

LEMMA BootGoesOn ==
  ASSUME LossInv, ~At(Boot, "idle"), NEW r \in Process, proc' = [proc EXCEPT ![Boot] = r],
         r.pc \in BootPlaces, r.previous = None, ~r.inPlace, lock' = IF r.pc \in Unlocked THEN None ELSE Boot,
         dirs' \in [Dir -> Files \cup {None, Partial}], current' \in Releases \cup Copies, Recoverable',
         r.pc \in {"undo", "undoFiles", "undoMove", "undoPoint"} => r.version \in Version /\ current' = Replaced(r.version),
         r.pc = "undoMove" => Complete(Replaced(r.version))'
  PROVE  LossInv'
<1>1. Types /\ Boot \in Proc /\ \A p \in Install : At(p, "idle") /\ p \in Proc /\ p # Boot
  BY BootAlone, Nothings
<1>2. proc' \in [Proc -> Process] /\ proc'[Boot] = r /\ \A p \in Install : proc'[p] = proc[p]
  BY <1>1, OneMoves
<1>3. Types'
  BY <1>1, <1>2, Nothings DEF Types, At, Unlocked
<1>4. Roles'
  BY <1>1, <1>2 DEF LossInv, Roles, At, Was
<1>5. Booting'
  BY <1>2 DEF Booting, Recovering, At, Copy, Complete
<1> QED
  BY <1>3, <1>4, <1>5, Nothings DEF LossInv, Installing

LEMMA BootGoto ==
  ASSUME Types, NEW pc \in Places, GoesOn(Boot, pc), proc[Boot].previous = None, ~proc[Boot].inPlace
  PROVE  \E r \in Process : /\ proc' = [proc EXCEPT ![Boot] = r] /\ r.pc = pc /\ r.version = proc[Boot].version
                            /\ r.previous = None /\ ~r.inPlace
<1>1. proc[Boot] \in Process
  BY Nothings DEF Types
<1>2. ASSUME NEW f \in BOOLEAN, proc' = [proc EXCEPT ![Boot] = [proc[Boot] EXCEPT !.pc = pc, !.undoFailed = f]]
      PROVE  \E r \in Process : /\ proc' = [proc EXCEPT ![Boot] = r] /\ r.pc = pc /\ r.version = proc[Boot].version
                                /\ r.previous = None /\ ~r.inPlace
  <2> DEFINE r == [proc[Boot] EXCEPT !.pc = pc, !.undoFailed = f]
  <2>1. r \in Process /\ r.pc = pc /\ r.version = proc[Boot].version /\ r.previous = None /\ ~r.inPlace
    BY <1>1 DEF Process
  <2>2. proc' = [proc EXCEPT ![Boot] = r]
    BY <1>2
  <2> HIDE DEF r
  <2> QED
    BY <2>1, <2>2
<1>3. CASE Goto(Boot, pc)
  <2>1. proc[Boot].undoFailed \in BOOLEAN
    BY <1>1 DEF Process
  <2>2. [proc[Boot] EXCEPT !.pc = pc] = [proc[Boot] EXCEPT !.pc = pc, !.undoFailed = proc[Boot].undoFailed]
    BY <1>1 DEF Process
  <2>3. proc' = [proc EXCEPT ![Boot] = [proc[Boot] EXCEPT !.pc = pc]]
    BY <1>3 DEF Goto
  <2> QED
    BY <1>2, <2>1, <2>2, <2>3
<1>4. CASE proc' = [proc EXCEPT ![Boot].pc = pc, ![Boot].undoFailed = TRUE]
  <2>1. proc' = [proc EXCEPT ![Boot] = [proc[Boot] EXCEPT !.pc = pc, !.undoFailed = TRUE]]
    BY <1>4
  <2> QED
    BY <1>2, <2>1
<1> QED
  BY <1>3, <1>4 DEF GoesOn

LEMMA recoverKeeps ==
  ASSUME LossInv, recover
  PROVE  LossInv'
<1> At(Boot, "recover") /\ lock' = Boot /\ UNCHANGED <<dirs, current>>
  BY DEF recover, sdCard
<1>1. /\ Types /\ proc[Boot] \in Process /\ proc[Boot].previous = None /\ ~proc[Boot].inPlace /\ Recoverable
  BY BootAlone DEF Recovering, At
<1>2. Recoverable'
  BY <1>1 DEF Recoverable, Safe, Complete
<1>3. CASE Goto(Boot, "close")
  <2>1. PICK r \in Process : /\ proc' = [proc EXCEPT ![Boot] = r] /\ r.pc = "close" /\ r.previous = None /\ ~r.inPlace
    BY <1>1, <1>3, BootGoto DEF Places, GoesOn
  <2> QED
    BY <1>1, <1>2, <2>1, BootGoesOn DEF At, BootPlaces, Unlocked, Types
<1>4. ASSUME NEW v \in Version, current = Replaced(v), proc' = [proc EXCEPT ![Boot].pc = "undo", ![Boot].version = v]
      PROVE  LossInv'
  <2> DEFINE r == [proc[Boot] EXCEPT !.pc = "undo", !.version = v]
  <2>1. "undo" \in Places
    BY DEF Places
  <2>2. /\ r \in Process /\ r.pc = "undo" /\ r.version = v /\ r.previous = None /\ ~r.inPlace
    BY <1>1, <2>1 DEF Process
  <2>3. proc' = [proc EXCEPT ![Boot] = r]
    BY <1>4
  <2> HIDE DEF r
  <2> QED
    BY <1>1, <1>2, <1>4, <2>2, <2>3, BootGoesOn DEF At, BootPlaces, Unlocked, Types
<1> QED
  BY <1>3, <1>4 DEF recover

LEMMA CloseStatusKeeps ==
  ASSUME LossInv, CloseStatus
  PROVE  LossInv'
<1> At(Boot, "close") /\ lock' = None /\ Goto(Boot, "serve") /\ UNCHANGED <<dirs, current>>
  BY DEF CloseStatus
<1>1. Types /\ proc[Boot].previous = None /\ ~proc[Boot].inPlace /\ Recoverable
  BY BootAlone DEF Recovering, At
<1>2. Recoverable'
  BY <1>1 DEF Recoverable, Safe, Complete
<1>3. PICK r \in Process : /\ proc' = [proc EXCEPT ![Boot] = r] /\ r.pc = "serve" /\ r.previous = None /\ ~r.inPlace
  BY <1>1, BootGoto DEF Places, GoesOn
<1> QED
  BY <1>1, <1>2, <1>3, BootGoesOn DEF At, BootPlaces, Unlocked, Types

LEMMA ServeKeeps ==
  ASSUME LossInv, Serve
  PROVE  LossInv'
<1> At(Boot, "serve") /\ End(Boot) /\ UNCHANGED <<dirs, current, lock>>
  BY DEF Serve, sdCard
<1>1. Types /\ Recoverable /\ lock = None
  BY BootAlone DEF Recovering, At, Unlocked
<1>2. Recoverable'
  BY <1>1 DEF Recoverable, Safe, Complete
<1>3. Idle \in Process /\ Idle.pc = "idle" /\ Idle.previous = None /\ ~Idle.inPlace
  BY DEF Idle, Process, Places
<1> HIDE DEF Idle
<1> QED
  BY <1>1, <1>2, <1>3, BootGoesOn DEF End, At, BootPlaces, Unlocked, Types

\* recover has no version to go back to but the copy
LEMMA BootUndoStartsKeeps ==
  ASSUME LossInv, UndoStarts(Boot)
  PROVE  LossInv'
<1> At(Boot, "undo") /\ GoesOn(Boot, "undoFiles") /\ UNCHANGED <<dirs, lock>>
  BY DEF UndoStarts
<1>1. /\ Types /\ proc[Boot].previous = None /\ ~proc[Boot].inPlace /\ lock = Boot /\ Recoverable
      /\ proc[Boot].version \in Version /\ current = Replaced(proc[Boot].version)
  BY BootAlone DEF At, Unlocked, Recovering, Copy
<1>2. current' = current
  BY <1>1 DEF UndoStarts, Was
<1>3. Recoverable'
  BY <1>1, <1>2 DEF Recoverable, Safe, Complete
<1>4. PICK r \in Process : /\ proc' = [proc EXCEPT ![Boot] = r] /\ r.pc = "undoFiles" /\ r.version = proc[Boot].version
                          /\ r.previous = None /\ ~r.inPlace
  BY <1>1, BootGoto DEF Places
<1> QED
  BY <1>1, <1>2, <1>3, <1>4, BootGoesOn DEF At, BootPlaces, Unlocked, Types

LEMMA BootUndoRemovesKeeps ==
  ASSUME LossInv, UndoRemoves(Boot)
  PROVE  LossInv'
<1> DEFINE pc == IF dirs[Copy(Boot)] # None THEN "undoMove" ELSE "undone"
<1> /\ At(Boot, "undoFiles") /\ GoesOn(Boot, pc) /\ UNCHANGED <<current, lock>>
    /\ dirs' \in [Dir -> Files \cup {None, Partial}] /\ \A d \in Dir : d \notin Undone(Boot) => dirs'[d] = dirs[d]
  BY DEF UndoRemoves
<1> PICK v \in Version : v = proc[Boot].version
  BY BootAlone DEF At, Recovering
<1>1. /\ Types /\ proc[Boot].previous = None /\ ~proc[Boot].inPlace /\ lock = Boot
      /\ Recoverable /\ current = Replaced(v)
  BY BootAlone DEF At, Unlocked, Recovering, Copy
<1>2. Undone(Boot) = IF dirs[current] # None THEN {Release(v)} ELSE {}
  BY <1>1 DEF Undone
<1>3. /\ current \in Copies /\ current \in Dir /\ Release(v) \in Dir /\ current # Release(v)
  BY <1>1, Directories DEF Copies
<1>4. dirs'[current] = dirs[current] /\ (dirs[current] = None => dirs'[Release(v)] = dirs[Release(v)])
  BY <1>2, <1>3
<1>5. dirs[current] \in Files \cup {None}
  BY <1>1, <1>3 DEF Types, Recoverable
<1>6. Complete(Release(v)) \/ Complete(Replaced(v))
  BY <1>1, Directories DEF Recoverable, Safe
<1>7. Complete(Release(v))' \/ Complete(Replaced(v))'
  BY <1>1, <1>3, <1>4, <1>5, <1>6 DEF Complete
<1>8. Recoverable'
  BY <1>1, <1>4, <1>5, <1>7, Nothings DEF Recoverable, Safe
<1>9. PICK r \in Process : /\ proc' = [proc EXCEPT ![Boot] = r] /\ r.pc = pc /\ r.version = v
                          /\ r.previous = None /\ ~r.inPlace
  BY <1>1, BootGoto DEF Places
<1>10. r.pc \in {"undoMove", "undone"} /\ (r.pc = "undoMove" => Complete(Replaced(r.version))')
  BY <1>1, <1>3, <1>4, <1>5, <1>9 DEF Copy, Complete
<1> HIDE DEF pc
<1> QED
  BY <1>1, <1>3, <1>8, <1>9, <1>10, BootGoesOn DEF At, BootPlaces, Unlocked, Types

LEMMA BootUndoMovesKeeps ==
  ASSUME LossInv, UndoMoves(Boot)
  PROVE  LossInv'
<1> PICK v \in Version : v = proc[Boot].version
  BY BootAlone DEF At, Recovering, UndoMoves
<1> /\ At(Boot, "undoMove") /\ UNCHANGED <<current, lock>>
    /\ dirs' = dirs \/ dirs' = [dirs EXCEPT ![Release(v)] = dirs[Replaced(v)], ![Replaced(v)] = None]
  BY DEF UndoMoves, New, Copy
<1>1. /\ Types /\ proc[Boot].previous = None /\ ~proc[Boot].inPlace /\ lock = Boot
      /\ Recoverable /\ current = Replaced(v) /\ Complete(Replaced(v))
  BY BootAlone DEF At, Unlocked, Recovering, Copy
<1>2. GoesOn(Boot, "undoPoint")
  BY <1>1 DEF UndoMoves, Copy
<1>3. /\ dirs' \in [Dir -> Files \cup {None, Partial}]
      /\ Complete(Release(v))' \/ Complete(Replaced(v))'
      /\ dirs'[Replaced(v)] # Partial
  BY <1>1, Directories, Nothings DEF Types, Complete
<1>4. Recoverable'
  BY <1>1, <1>3 DEF Recoverable, Safe
<1>5. PICK r \in Process : /\ proc' = [proc EXCEPT ![Boot] = r] /\ r.pc = "undoPoint" /\ r.version = v
                          /\ r.previous = None /\ ~r.inPlace
  BY <1>1, <1>2, BootGoto DEF Places
<1> QED
  BY <1>1, <1>3, <1>4, <1>5, BootGoesOn DEF At, BootPlaces, Unlocked, Types

LEMMA BootUndoPointsKeeps ==
  ASSUME LossInv, UndoPoints(Boot)
  PROVE  LossInv'
<1> At(Boot, "undoPoint") /\ GoesOn(Boot, "undone") /\ UNCHANGED <<dirs, lock>>
  BY DEF UndoPoints
<1> PICK v \in Version : v = proc[Boot].version
  BY BootAlone DEF At, Recovering
<1> current' \in {current, Release(v)}
  BY DEF UndoPoints, New
<1>1. /\ Types /\ proc[Boot].previous = None /\ ~proc[Boot].inPlace /\ lock = Boot
      /\ Recoverable /\ current = Replaced(v)
  BY BootAlone DEF At, Unlocked, Recovering, Copy
<1>2. Release(v) \in Releases /\ Release(v) \notin Copies
  BY Directories DEF Releases, Copies
<1>3. Complete(Release(v))' \/ Complete(Replaced(v))'
  BY <1>1, Directories DEF Recoverable, Safe, Complete
<1>4. Recoverable' /\ current' \in Releases \cup Copies
  BY <1>1, <1>2, <1>3 DEF Recoverable, Safe, Types
<1>5. PICK r \in Process : /\ proc' = [proc EXCEPT ![Boot] = r] /\ r.pc = "undone"
                          /\ r.previous = None /\ ~r.inPlace
  BY <1>1, BootGoto DEF Places
<1> QED
  BY <1>1, <1>4, <1>5, BootGoesOn DEF At, BootPlaces, Unlocked, Types

LEMMA BootUndoKeeps ==
  ASSUME LossInv, Undo(Boot)
  PROVE  LossInv'
<1> At(Boot, "undone") /\ Goto(Boot, "close") /\ UNCHANGED <<dirs, current, lock>>
  BY DEF Undo, sdCard
<1>1. Types /\ proc[Boot].previous = None /\ ~proc[Boot].inPlace /\ lock = Boot /\ Recoverable
  BY BootAlone DEF At, Unlocked, Recovering
<1>2. Recoverable'
  BY <1>1 DEF Recoverable, Safe, Complete
<1>3. PICK r \in Process : /\ proc' = [proc EXCEPT ![Boot] = r] /\ r.pc = "close" /\ r.previous = None /\ ~r.inPlace
  BY <1>1, BootGoto DEF Places, GoesOn
<1> QED
  BY <1>1, <1>2, <1>3, BootGoesOn DEF At, BootPlaces, Unlocked, Types

----------------------------------------------------------------------------
(* Nothing is lost; and a power cut loses nothing. *)

LEMMA SafeIsKept ==
  ASSUME NEW d, Safe(d)
  PROVE  Kept(d)
  BY Directories DEF Safe, Kept

LEMMA CompleteIsSafe ==
  ASSUME NEW v \in Version, Complete(Release(v)) \/ Complete(Replaced(v))
  PROVE  Safe(Release(v)) /\ Safe(Replaced(v))
  BY DEF Safe

\* Wherever the process that installs is, what runs and what ran before are still there.
LEMMA HolderKeepsAll ==
  ASSUME LossInv, NEW p \in Install, lock = p
  PROVE  Recoverable /\ (Was(p) # None => Safe(Was(p)))
<1>1. p \in Proc /\ proc[p].pc \in Places \ Unlocked /\ current \in Releases \cup Copies /\ Stage(p)
  BY Nothings DEF LossInv, Types, Process, Installing
<1>2. /\ proc[p].pc \notin {"recover", "close", "serve"} /\ (At(p, "begin") => Was(p) = None)
      /\ ~At(p, "begin") => Was(p) \in Releases
  BY <1>1 DEF LossInv, Roles, At, Stage
<1>3. \A d \in Releases \cup Copies : Complete(d) => Safe(d) /\ dirs[d] # Partial
  BY CompleteIsSafe, Nothings DEF Releases, Copies, Complete
<1>4. \A d \in Releases : d \notin Copies
  BY Directories DEF Releases, Copies
<1>5. CASE At(p, "begin") \/ proc[p].pc \in Early
  BY <1>1, <1>2, <1>3, <1>4, <1>5 DEF Stage, At, Early, Recoverable
<1>6. CASE proc[p].pc \in {"copy", "keep", "point"} \cup Checked
  <2>1. proc[p].version \in Version /\ New(p) \in Releases
    BY <1>1, <1>6 DEF Stage, Checked, New, Releases
  <2> QED
    BY <1>1, <1>2, <1>3, <1>4, <1>6, <2>1 DEF Stage, At, Checked, Recoverable
<1>7. CASE proc[p].pc \in Replacing \cup {"check"}
  <2>1. proc[p].version \in Version /\ New(p) \in Releases /\ Copy(p) \in Copies
    BY <1>1, <1>7 DEF Stage, Replacing, New, Copy, Releases, Copies
  <2>2. Complete(New(p)) \/ Complete(Copy(p)) => Safe(New(p)) /\ Safe(Copy(p))
    BY <2>1, CompleteIsSafe DEF New, Copy
  <2> QED
    BY <1>1, <1>2, <1>3, <1>4, <1>7, <2>1, <2>2 DEF Stage, At, Replacing, Recoverable
<1>8. CASE proc[p].pc \in {"undo", "undoFiles"}
  BY <1>1, <1>2, <1>8, GoBackSuffices DEF Stage, At
<1>9. CASE proc[p].pc \in {"undoMove", "undoPoint"}
  <2>1. proc[p].version \in Version /\ New(p) \in Releases /\ Copy(p) \in Copies
    BY <1>1, <1>9 DEF Stage, New, Copy, Releases, Copies
  <2>2. Complete(New(p)) \/ Complete(Copy(p)) => Safe(New(p)) /\ Safe(Copy(p))
    BY <2>1, CompleteIsSafe DEF New, Copy
  <2> QED
    BY <1>1, <1>2, <1>3, <1>4, <1>9, <2>1, <2>2 DEF Stage, At, Recoverable
<1>10. CASE proc[p].pc \in {"exit", "undone", "rolledBack"}
  BY <1>1, <1>10 DEF Stage, At
<1> QED
  BY <1>1, <1>2, <1>5, <1>6, <1>7, <1>8, <1>9, <1>10 DEF Places, Unlocked, Early, Replacing, Checked, At

\* What runs is there, whoever has the lock.
LEMMA AlwaysRecoverable ==
  ASSUME LossInv
  PROVE  Recoverable
  BY HolderKeepsAll DEF LossInv, Booting, Recovering

\* LossInv says that nothing is lost.
LEMMA LossInvSuffices ==
  LossInv => NothingIsLost
<1> SUFFICES ASSUME LossInv PROVE NothingIsLost
  OBVIOUS
<1>1. Kept(current)
  BY AlwaysRecoverable, SafeIsKept DEF Recoverable
<1>2. ASSUME NEW p \in Install, Was(p) # None PROVE Kept(Was(p))
  <2>1. p \in Proc /\ proc[p].pc \in Places
    BY Nothings DEF LossInv, Types, Process
  <2>2. proc[p].pc \notin {"idle", "start", "launch", "lock", "recover", "serve"}
    <3>1. ~At(p, "idle") \/ ~At(p, "start") \/ ~At(p, "launch") \/ ~At(p, "lock")
      BY DEF At
    <3> QED
      BY <1>2 DEF LossInv, Roles
  <2>3. lock = p
    BY <2>1, <2>2 DEF LossInv, Types, Unlocked
  <2> QED
    BY <1>2, <2>3, HolderKeepsAll, SafeIsKept
<1> QED
  BY <1>1, <1>2 DEF NothingIsLost, Was

\* Whichever command is stopped by a power cut, the files of the release that current names stay,
\* under its name or in the copy of it, and the copy stays if current names that.
LEMMA SurvivesCut ==
  ASSUME LossInv, NEW q \in Proc
  PROVE  /\ \E v \in Version : /\ current \in {Release(v), Replaced(v)}
                               /\ \E d \in {Release(v), Replaced(v)} : Complete(d) /\ d \notin Touched(q)
         /\ current \in Copies => dirs[current] # Partial /\ current \notin Touched(q)
<1>1. Types /\ current \in Releases \cup Copies /\ dirs \in [Dir -> Files \cup {None, Partial}]
  BY DEF LossInv, Types
<1>2. Safe(current) /\ (current \in Copies => dirs[current] # Partial)
  BY AlwaysRecoverable DEF Recoverable
<1>3. PICK v \in Version : current \in {Release(v), Replaced(v)} /\ (Complete(Release(v)) \/ Complete(Replaced(v)))
  BY <1>2 DEF Safe
<1>4. \A d \in Releases \cup Copies : Complete(d) /\ current = d /\ d \notin Touched(q) =>
        current = d /\ Complete(d) /\ d \notin Touched(q)
  OBVIOUS
<1>5. CASE Touched(q) = {}
  BY <1>2, <1>3, <1>5
<1>6. CASE Complete(current) /\ current \notin Touched(q)
  BY <1>2, <1>3, <1>6
<1>7. ASSUME NEW d \in Touched(q), q \in Install
      PROVE  \/ Complete(current) /\ current \notin Touched(q)
             \/ current = New(q) /\ proc[q].version \in Version /\ Complete(Copy(q)) /\ Copy(q) \notin Touched(q)
  <2>1. proc[q].pc \in {"clean", "copy", "remove", "drop", "tidy", "undoFiles"}
    BY TouchedAt DEF At
  <2>2. Stage(q) /\ Was(q) \in Releases /\ proc[q].version \in Version
    BY <1>7, <2>1, HolderInstalls DEF Unlocked, Stage, At
  <2>3. /\ New(q) \in Releases /\ Copy(q) \in Dir /\ Copy(q) # New(q) /\ Copy(q) \notin Releases
        /\ Copying(proc[q].version) \notin Releases
    BY <2>2, Directories DEF New, Copy, Releases
  <2>4. CASE At(q, "clean") \/ At(q, "copy")
    BY <2>2, <2>3, <2>4, TouchedAt DEF Stage, At, Early
  <2>5. CASE At(q, "remove")
    BY <2>2, <2>3, <2>5, TouchedAt DEF Stage, At, Replacing
  <2>6. CASE At(q, "drop")
    BY <2>2, <2>3, <2>6, TouchedAt DEF Stage, At, Checked
  <2>7. CASE At(q, "tidy")
    <3>1. current \notin {Release(w) : w \in Old(q)} /\ Complete(current)
      BY <2>2, <2>7 DEF Old, Stage, At, Checked
    <3> QED
      BY <2>7, <3>1, TouchedAt DEF At
  <2>8. CASE At(q, "undoFiles")
    <3>1. /\ \A c \in Touched(q) : c \in Undone(q)
          /\ Undone(q) \subseteq {New(q)} /\ (dirs[Copy(q)] = None /\ current = New(q) => Undone(q) = {})
      BY <2>8, TouchedAt DEF At, Undone, New, Copy
    <3>2. CanGoBack(q)
      BY <2>2, <2>8 DEF Stage, At
    <3>3. dirs[Copy(q)] # None /\ dirs[Copy(q)] # Partial => Complete(Copy(q))
      BY <1>1, <2>3 DEF Complete
    <3>4. CASE current = New(q)
      BY <2>2, <2>3, <3>1, <3>2, <3>3, <3>4 DEF CanGoBack
    <3>5. CASE current # New(q)
      BY <2>3, <3>1, <3>2, <3>5 DEF CanGoBack
    <3> QED
      BY <3>4, <3>5
  <2> QED
    BY <2>1, <2>4, <2>5, <2>6, <2>7, <2>8 DEF At
<1>8. ASSUME NEW d \in Touched(q), q = Boot
      PROVE  current = Copy(q) /\ proc[q].version \in Version /\ Complete(Copy(q)) /\ Copy(q) \notin Touched(q)
  <2>1. At(q, "undoFiles")
    BY <1>8, TouchedAt DEF LossInv, Roles, At, BootPlaces
  <2>2. proc[q].version \in Version /\ current = Copy(q) /\ ~proc[q].inPlace
    BY <1>8, <2>1, BootAlone DEF Recovering, At
  <2>3. \A c \in Touched(q) : c = New(q) /\ dirs[Copy(q)] # None
    BY <2>1, <2>2, TouchedAt DEF At, Undone, New, Copy
  <2>4. Copy(q) \in Dir /\ Copy(q) \in Copies /\ Copy(q) # New(q)
    BY <2>2, Directories DEF New, Copy, Copies
  <2> QED
    BY <1>1, <1>2, <1>8, <2>2, <2>3, <2>4 DEF Complete
<1>9. ASSUME proc[q].version \in Version, Complete(Copy(q)), Copy(q) \notin Touched(q), current \in {New(q), Copy(q)}
      PROVE  /\ \E w \in Version : /\ current \in {Release(w), Replaced(w)}
                                   /\ \E d \in {Release(w), Replaced(w)} : Complete(d) /\ d \notin Touched(q)
             /\ current \in Copies => dirs[current] # Partial /\ current \notin Touched(q)
  <2>1. New(q) \notin Copies
    BY <1>9, Directories DEF New, Copies
  <2> QED
    BY <1>2, <1>9, <2>1 DEF New, Copy
<1> QED
  BY <1>5, <1>6, <1>7, <1>8, <1>9, Nothings

\* Some process was stopped in its command.
LEMMA CutIsStopped ==
  ASSUME PowerCut
  PROVE  \E q \in Proc : dirs' \in StoppedHalfway(q)
  BY DEF PowerCut

LEMMA PowerCutKeeps ==
  ASSUME LossInv, PowerCut
  PROVE  LossInv'
<1>1. /\ lock' = None /\ UNCHANGED current
      /\ proc' = [p \in Proc |-> IF p = Boot THEN [Idle EXCEPT !.pc = "recover"] ELSE Idle]
  BY DEF PowerCut
<1>2. PICK q \in Proc : dirs' \in StoppedHalfway(q)
  BY CutIsStopped
<1>3. PICK v \in Version : /\ current \in {Release(v), Replaced(v)}
                          /\ \E d \in {Release(v), Replaced(v)} : Complete(d) /\ d \notin Touched(q)
  BY SurvivesCut
<1>4. current \in Copies => dirs[current] # Partial /\ current \notin Touched(q)
  BY SurvivesCut
<1>5. dirs' \in [Dir -> Files \cup {None, Partial}] /\ \A d \in Dir : d \notin Touched(q) => dirs'[d] = dirs[d]
  BY <1>2, StoppedIsTouched
<1>6. [Idle EXCEPT !.pc = "recover"] \in Process /\ Idle \in Process
  BY DEF Idle, Process, Places
<1>7. /\ proc' \in [Proc -> Process] /\ proc'[Boot].pc = "recover" /\ proc'[Boot].previous = None /\ ~proc'[Boot].inPlace
      /\ \A p \in Install : proc'[p] = Idle
  <2>1. proc' \in [Proc -> Process]
    <3> HIDE DEF Idle
    <3> QED
      BY <1>1, <1>6
  <2> QED
    BY <1>1, <2>1, Nothings DEF Idle
<1>8. Types'
  BY <1>1, <1>5, <1>7, Nothings DEF LossInv, Types, Idle, Unlocked
<1>9. Roles'
  BY <1>7 DEF Roles, At, Was, Idle, BootPlaces
<1>10. Booting'
  <2>1. Complete(Release(v))' \/ Complete(Replaced(v))'
    BY <1>3, <1>5 DEF Complete
  <2>2. Safe(current)'
    BY <1>1, <1>3, <2>1 DEF Safe
  <2>3. current \in Copies => dirs'[current] # Partial
    BY <1>4, <1>5, Directories DEF Copies
  <2> QED
    BY <1>1, <1>7, <2>2, <2>3 DEF Booting, Recovering, Recoverable, At
<1> QED
  BY <1>1, <1>8, <1>9, <1>10, Nothings DEF LossInv, Installing

----------------------------------------------------------------------------
(* The theorem. *)

LEMMA LossInit ==
  Init => LossInv /\ Bounded
<1> SUFFICES ASSUME Init PROVE LossInv /\ Bounded
  OBVIOUS
<1> DEFINE files == [starts |-> TRUE, time |-> 0]
<1>1. /\ dirs = [d \in Dir |-> IF d = Release(Initial) THEN files ELSE None] /\ current = Release(Initial)
      /\ lock = None /\ proc = [p \in Proc |-> Idle] /\ installs = 0
  BY DEF Init
<1>2. Initial \in Version /\ files \in Files
  BY UpdaterConstants DEF UpdaterConstants, Files
<1>3. dirs \in [Dir -> Files \cup {None, Partial}] /\ Complete(Release(Initial))
  BY <1>1, <1>2, Directories DEF Complete
<1>4. Idle \in Process
  BY DEF Idle, Process, Places
<1>5. proc \in [Proc -> Process] /\ \A p \in Proc : proc[p] = Idle
  <2> HIDE DEF Idle
  <2> QED
    BY <1>1, <1>4
<1>6. Types
  BY <1>1, <1>2, <1>3, <1>5, Nothings DEF Types, Releases, Idle, Unlocked
<1>7. Roles
  BY <1>5, Nothings DEF Roles, At, Was, Idle, BootPlaces
<1>8. Booting
  <2>1. Recoverable
    BY <1>1, <1>2, <1>3, Directories DEF Copies, Recoverable, Safe
  <2>2. proc[Boot].pc = "idle"
    BY <1>5, Nothings DEF Idle
  <2> QED
    BY <2>1, <2>2 DEF Booting, Recovering, At
<1>9. Bounded
  <2>1. \A d \in Dir : dirs[d] \in Files => dirs[d].time <= 0
    BY <1>1, Nothings
  <2> QED
    BY <1>1, <2>1 DEF Bounded
<1> QED
  BY <1>1, <1>6, <1>7, <1>8, <1>9, Nothings DEF LossInv, Installing

\* Only MoveInPlace unpacks.
LEMMA NothingNewer ==
  ASSUME Bounded, installs' \in Nat, \A d \in Dir : dirs'[d] \in Files => \E e \in Dir : dirs'[d] = dirs[e]
  PROVE  Bounded'
  BY DEF Bounded

LEMMA BoundedInstall ==
  ASSUME LossInv, Bounded, NEW p \in Install, StartStep(p) \/ InstallStep(p) \/ CommandFails(p)
  PROVE  Bounded'
<1> DEFINE v == proc[p].version
<1>1. Types /\ installs \in Nat /\ UNCHANGED installs
  BY DEF LossInv, Bounded, StartStep, StartUpdate, Launch, InstallStep, TakeLock, BeginInstall, unpackBundle, WriteVersion,
         CleanCopies, CopyRelease, NameCopy, PointToCopy, RemoveRelease, MoveInPlace, SwitchToNew, restartAndCheck,
         DropCopy, Succeed, cleanUpReleases, ExitInstall, RolledBack, CommandFails, Fails, bounds
<1>2. proc[p].pc \in {"clean", "copy", "keep", "remove", "place", "drop"} => v \in Version
  BY HolderInstalls DEF Stage, Unlocked
<1>3. CASE UNCHANGED dirs
  BY <1>1, <1>3, NothingNewer
<1>4. CASE CleanCopies(p) \/ RemoveRelease(p) \/ DropCopy(p)
  BY <1>1, <1>4, NothingNewer, Nothings DEF CleanCopies, RemoveRelease, DropCopy, SetDir, Types
<1>5. CASE CopyRelease(p) \/ NameCopy(p)
  BY <1>1, <1>2, <1>5, NothingNewer, Nothings, Directories DEF CopyRelease, NameCopy, SetDir, Types, At
<1>6. CASE MoveInPlace(p)
  <2> DEFINE files == [starts |-> proc[p].bundle.starts, time |-> Now]
  <2>1. dirs' = [dirs EXCEPT ![Release(v)] = files] /\ files.time = Now
    BY <1>6 DEF MoveInPlace, SetDir
  <2>2. Now \in Nat /\ \A d \in Dir : dirs[d] \in Files => dirs[d].time <= Now
    BY <1>1, NowIsLater
  <2> HIDE DEF files
  <2>3. \A d \in Dir : dirs'[d] \in Files => dirs'[d].time <= Now
    BY <1>1, <2>1, <2>2 DEF Types
  <2>4. \E b \in Nat : \A d \in Dir : dirs'[d] \in Files => dirs'[d].time <= b
    <3> DEFINE n == Now
    <3> HIDE DEF n
    <3>1. n \in Nat /\ \A d \in Dir : dirs'[d] \in Files => dirs'[d].time <= n
      BY <2>2, <2>3 DEF n
    <3> QED
      BY <3>1
  <2> QED
    BY <1>1, <2>4 DEF Bounded
<1>7. CASE cleanUpReleases(p)
  <2>1. \A d \in Dir : dirs'[d] \in {None, dirs[d]}
    BY <1>7 DEF cleanUpReleases
  <2> QED
    BY <1>1, <2>1, NothingNewer, Nothings
<1>8. CASE CommandFails(p)
  <2>1. \A d \in Dir : dirs'[d] \in {Partial, None, dirs[d]}
    BY <1>8, StoppedIsTouched, Nothings DEF CommandFails, Fails
  <2> QED
    BY <1>1, <2>1, NothingNewer, Nothings
<1> QED
  BY <1>3, <1>4, <1>5, <1>6, <1>7, <1>8
     DEF StartStep, StartUpdate, Launch, InstallStep, TakeLock, BeginInstall, unpackBundle, WriteVersion, PointToCopy,
         SwitchToNew, restartAndCheck, Succeed, ExitInstall, RolledBack, sdCard

LEMMA BoundedUndo ==
  ASSUME LossInv, Bounded, NEW p \in Proc, UndoStep(p) \/ UndoFails(p)
  PROVE  Bounded'
<1>1. Types /\ installs \in Nat /\ UNCHANGED installs
  BY DEF LossInv, Bounded, UndoStep, undoInstall, UndoFiles, UndoMove, UndoPoint, Undo, UndoFails, Fails, bounds
<1>2. CASE UNCHANGED dirs
  BY <1>1, <1>2, NothingNewer
<1>3. CASE UndoFiles(p)
  <2>1. \A d \in Dir : dirs'[d] \in {None, dirs[d]}
    BY <1>3 DEF UndoFiles
  <2> QED
    BY <1>1, <2>1, NothingNewer, Nothings
<1>4. CASE UndoMove(p)
  <2>1. proc[p].version \in Version
    <3>1. CASE p = Boot
      BY <1>4, <3>1, BootAlone DEF UndoMove, At, Recovering
    <3>2. CASE p \in Install
      BY <1>4, <3>2, HolderInstalls DEF UndoMove, At, Unlocked, Stage
    <3> QED
      BY <3>1, <3>2, Nothings
  <2> QED
    BY <1>1, <1>2, <1>4, <2>1, NothingNewer, Nothings, Directories DEF UndoMove, Types
<1>5. CASE UndoFails(p)
  <2>1. \A d \in Dir : dirs'[d] \in {Partial, None, dirs[d]}
    BY <1>5, StoppedIsTouched DEF UndoFails, Fails
  <2> QED
    BY <1>1, <2>1, NothingNewer, Nothings
<1> QED
  BY <1>2, <1>3, <1>4, <1>5 DEF UndoStep, undoInstall, UndoPoint, Undo, sdCard

LEMMA BoundedOthers ==
  ASSUME LossInv, Bounded,
         \/ \E p \in Install, b \in Bundle, allow \in BOOLEAN : Begin(p, b, allow)
         \/ BootStep \/ PowerCut \/ rollback
  PROVE  Bounded'
<1>1. installs \in Nat /\ installs' \in Nat
  <2>1. installs' = installs \/ installs' = installs + 1
    BY Zenon DEF Begin, BootStep, recover, CloseStatus, Serve, PowerCut, rollback, bounds
  <2> QED
    BY <2>1 DEF Bounded
<1>2. CASE UNCHANGED dirs
  BY <1>1, <1>2, NothingNewer
<1>3. CASE PowerCut
  <2>1. \A d \in Dir : dirs'[d] \in {Partial, None, dirs[d]}
    BY <1>3, CutIsStopped, StoppedIsTouched
  <2> QED
    BY <1>1, <2>1, NothingNewer, Nothings
<1> QED
  BY <1>2, <1>3 DEF Begin, BootStep, recover, CloseStatus, Serve, rollback, sdCard

LEMMA LossNext ==
  LossInv /\ Bounded /\ [Next]_vars /\ [Careful]_vars => LossInv' /\ Bounded'
<1> SUFFICES ASSUME LossInv, Bounded, [Next]_vars, [Careful]_vars PROVE LossInv' /\ Bounded'
  OBVIOUS
<1>1. CASE UNCHANGED vars
  <2>1. UNCHANGED <<dirs, current, status, lock, proc, installs>>
    BY <1>1 DEF vars, sdCard, bounds
  <2>2. Bounded'
    BY <2>1 DEF Bounded
  <2>3. UNCHANGED Types /\ UNCHANGED Roles
    BY <2>1 DEF Types, Roles, At, Was
  <2>4. UNCHANGED Installing
    BY <2>1 DEF Installing, Stage, At, CanGoBack, InPieces, Recoverable, Safe, Complete, Was, New, Copy
  <2>5. UNCHANGED Booting
    BY <2>1 DEF Booting, Recovering, Recoverable, Safe, At, Complete, New, Copy
  <2> QED
    BY <2>2, <2>3, <2>4, <2>5 DEF LossInv
<1>2. CASE Next /\ Careful
  <2>1. ASSUME NEW p \in Install, NEW b \in Bundle, NEW allow \in BOOLEAN, Begin(p, b, allow)
        PROVE  LossInv' /\ Bounded'
    BY <1>2, <2>1, BeginKeeps, BoundedOthers
  <2>2. ASSUME NEW p \in Install, StartStep(p) \/ InstallStep(p) \/ CommandFails(p)
        PROVE  LossInv' /\ Bounded'
    <3>1. CASE StartStep(p) \/ CommandFails(p)
      BY <1>2, <3>1, StartStepKeeps, CommandFailsKeeps, BoundedInstall
    <3>2. CASE InstallStep(p)
      <4>1. LossInv'
        BY <1>2, <3>2, TakeLockKeeps, BeginInstallKeeps, unpackBundleKeeps, WriteVersionKeeps, CleanCopiesKeeps, CopyReleaseKeeps,
           NameCopyKeeps, PointToCopyKeeps, RemoveReleaseKeeps, MoveInPlaceKeeps, SwitchToNewKeeps, restartAndCheckKeeps,
           DropCopyKeeps, SucceedKeeps, cleanUpReleasesKeeps, ExitInstallKeeps, RolledBackKeeps
           DEF InstallStep
      <4> QED
        BY <3>2, <4>1, BoundedInstall
    <3> QED
      BY <2>2, <3>1, <3>2
  <2>3. ASSUME NEW p \in Proc, UndoStep(p) \/ UndoFails(p)
        PROVE  LossInv' /\ Bounded'
    <3>1. LossInv'
      <4>1. UndoStarts(p) \/ UndoRemoves(p) \/ UndoMoves(p) \/ UndoPoints(p) \/ Undo(p)
        BY <2>3, UndoOrFails
      <4> QED
        BY <4>1, Nothings, UndoStartsKeeps, UndoRemovesKeeps, UndoMovesKeeps, UndoPointsKeeps, UndoKeeps,
           BootUndoStartsKeeps, BootUndoRemovesKeeps, BootUndoMovesKeeps, BootUndoPointsKeeps, BootUndoKeeps
    <3> QED
      BY <2>3, <3>1, BoundedUndo
  <2>4. ASSUME BootStep \/ PowerCut \/ rollback
        PROVE  LossInv' /\ Bounded'
    <3>1. LossInv'
      BY <1>2, <2>4, recoverKeeps, CloseStatusKeeps, ServeKeeps, PowerCutKeeps, rollbackKeeps DEF BootStep
    <3> QED
      BY <2>4, <3>1, BoundedOthers
  <2> QED
    BY <1>2, <2>1, <2>2, <2>3, <2>4 DEF Next
<1> QED
  BY <1>1, <1>2

\* Whatever fails and whenever the power is cut, the release that runs and the one that ran before
\* the update that is underway are still on the card, as long as every step is Careful: also when
\* a command that removes or copies a directory stops halfway.
THEOREM NothingIsEverLost ==
  Spec /\ [][Careful]_vars => []NothingIsLost
<1>1. Spec /\ [][Careful]_vars => [](LossInv /\ Bounded)
  BY LossInit, LossNext, PTL DEF Spec
<1> QED
  BY <1>1, LossInvSuffices, PTL
----------------------------------------------------------------------------
(* Going back: what the card has of the releases that were there when the   *)
(* update began, at each command of the process that installs.             *)

Same(v) == dirs[Release(v)] = before.dirs[Release(v)]
Stops(p) == At(p, "exit") /\ status.state = "running"

\* the running version is reinstalled, and no copy of it was left
Reinstalls(p) == proc[p].version \in Version /\ Was(p) = New(p) /\ before.dirs[Copy(p)] = None
Back(p) == dirs[New(p)] = before.dirs[New(p)] \/ dirs[New(p)].starts

\* Where its files are.
Restorable(p) ==
  /\ At(p, "keep") => dirs[Copying(proc[p].version)] = before.dirs[New(p)]
  /\ proc[p].pc \in {"clean", "copy", "keep"} => dirs[Copy(p)] = None
  /\ proc[p].pc \in {"point", "check", "undoMove"} \cup Replacing => dirs[Copy(p)] = before.dirs[New(p)]
  /\ proc[p].pc \in {"drop", "succeed"} => dirs[New(p)].starts
  /\ proc[p].pc \in {"named", "clean", "copy", "keep", "drop", "succeed", "undo", "undoFiles"} \/ Stops(p) =>
       IF dirs[Copy(p)] = None THEN Back(p) ELSE dirs[Copy(p)] = before.dirs[New(p)]
  /\ proc[p].pc \in {"undoPoint", "undone", "rolledBack"} => Back(p) /\ dirs[Copy(p)] = None

\* What is known unless a command failed by which the trap goes back.
GoingBack(p) ==
  /\ ~At(p, "begin") => before.current = Was(p)
  /\ proc[p].pc \in {"unpack", "named", "clean", "copy"} => \A v \in Version : Same(v)
  /\ proc[p].pc \in {"unpack", "named", "clean"} => \A v \in Version : dirs[Replaced(v)] = before.dirs[Replaced(v)]
  /\ At(p, "tidy") => status.state = "succeeded"
  /\ ~At(p, "begin") /\ ~(proc[p].pc \in {"exit", "tidy"} /\ status.state = "succeeded") =>
       \A v \in Version \ {proc[p].version} : Same(v)
  /\ Stops(p) /\ proc[p].version = None => current = Was(p) /\ \A v \in Version : Same(v)
  /\ proc[p].pc \in {"undoFiles", "undoMove"} /\ Was(p) # New(p) => current = Was(p)
  /\ At(p, "undoMove") => dirs[New(p)] = None
  /\ proc[p].pc \in {"undone", "rolledBack"} => current = Was(p)
  /\ Reinstalls(p) => Restorable(p)
BackStage(p) == ~proc[p].undoFailed => GoingBack(p)

BackInv == lock \in Install => BackStage(lock)

\* What is known of the process that installs.
LEMMA BackHolds ==
  ASSUME LossInv, BackInv, NEW p \in Install, ~proc[p].undoFailed, proc[p].pc \notin Unlocked
  PROVE  Types /\ p \in Proc /\ lock = p /\ Stage(p) /\ GoingBack(p) /\ dirs \in [Dir -> Files \cup {None, Partial}]
  BY HolderInstalls DEF BackInv, BackStage

\* its version, as long as it has one
LEMMA Named ==
  ASSUME NEW p, Stage(p), proc[p].pc \notin {"begin", "unpack", "exit"}
  PROVE  proc[p].version \in Version
  BY DEF Stage

\* Commands that set two of its variables.
LEMMA TwoAreSet ==
  ASSUME Types, NEW p \in Proc, NEW pc, NEW x
  PROVE  /\ proc' = [proc EXCEPT ![p].pc = pc, ![p].previous = x] =>
              proc'[p].pc = pc /\ proc'[p].previous = x /\ proc'[p].version = proc[p].version
         /\ proc' = [proc EXCEPT ![p].pc = pc, ![p].version = x] =>
              proc'[p].pc = pc /\ proc'[p].version = x /\ proc'[p].previous = proc[p].previous
         /\ proc' = [proc EXCEPT ![p].pc = pc, ![p].inPlace = x] =>
              proc'[p].pc = pc /\ proc'[p].version = proc[p].version /\ proc'[p].previous = proc[p].previous
         /\ proc' = [proc EXCEPT ![p].pc = pc, ![p].trapped = x] =>
              proc'[p].pc = pc /\ proc'[p].version = proc[p].version /\ proc'[p].previous = proc[p].previous
  BY DEF Types, Process

LEMMA BeginInstallBack ==
  ASSUME LossInv, BackInv, NEW p \in Install, ~proc[p].undoFailed, BeginInstall(p)
  PROVE  GoingBack(p)'
<1>1. /\ At(p, "begin") /\ proc' = [proc EXCEPT ![p].pc = "unpack", ![p].previous = current] /\ UNCHANGED dirs
      /\ before' = [current |-> current, dirs |-> dirs]
  BY DEF BeginInstall
<1>2. Types /\ p \in Proc /\ Stage(p)
  BY <1>1, BackHolds DEF At, Unlocked
<1>3. proc'[p].pc = "unpack" /\ Was(p)' = current /\ proc'[p].version = None
  BY <1>1, <1>2, TwoAreSet DEF Was, Stage
<1> QED
  BY <1>1, <1>3, Nothings DEF GoingBack, At, Same, Stops, Reinstalls

LEMMA unpackBundleBack ==
  ASSUME LossInv, BackInv, NEW p \in Install, ~proc[p].undoFailed, unpackBundle(p)
  PROVE  GoingBack(p)'
<1>1. At(p, "unpack") /\ UNCHANGED <<dirs, current, before>>
  BY DEF unpackBundle
<1>2. /\ Types /\ p \in Proc /\ Stage(p) /\ GoingBack(p) /\ proc[p].version = None
      /\ proc[p].bundle.version \in Version
  BY <1>1, BackHolds, HolderInstalls, UpdaterConstants DEF At, Unlocked, Stage, UpdaterConstants
<1>3. before.current = Was(p) /\ \A v \in Version : Same(v) /\ dirs[Replaced(v)] = before.dirs[Replaced(v)]
  BY <1>1, <1>2 DEF GoingBack, At
<1>4. \A v \in Version : Same(v)' /\ dirs'[Replaced(v)] = before'.dirs[Replaced(v)]
  BY <1>1, <1>3 DEF Same
<1>5. CASE proc' = [proc EXCEPT ![p].pc = "named", ![p].version = proc[p].bundle.version]
  <2>1. proc'[p].pc = "named" /\ Was(p)' = Was(p) /\ proc'[p].version \in Version
    <3> PICK v \in Version : v = proc[p].bundle.version
      BY <1>2
    <3>1. proc' = [proc EXCEPT ![p].pc = "named", ![p].version = v]
      BY <1>5
    <3>2. proc'[p].pc = "named" /\ proc'[p].version = v /\ proc'[p].previous = proc[p].previous
      BY <1>2, <3>1 DEF Types, Process
    <3> QED
      BY <3>2 DEF Was
  <2>2. dirs'[New(p)'] = before'.dirs[New(p)'] /\ dirs'[Copy(p)'] = before'.dirs[Copy(p)']
    <3> PICK v \in Version : v = proc'[p].version
      BY <2>1
    <3>1. dirs'[Release(v)] = before'.dirs[Release(v)] /\ dirs'[Replaced(v)] = before'.dirs[Replaced(v)]
      BY <1>4 DEF Same
    <3> QED
      BY <3>1 DEF Copy, New
  <2>3. Reinstalls(p)' => Restorable(p)'
    BY <2>1, <2>2 DEF Reinstalls, Restorable, Back, At, Stops, Replacing
  <2> QED
    BY <1>1, <1>3, <1>4, <2>1, <2>3 DEF GoingBack, At, Stops
<1>6. CASE Goto(p, "exit") /\ status' = [state |-> "failed", version |-> None]
  <2>1. proc'[p].pc = "exit" /\ Was(p)' = Was(p) /\ proc'[p].version = None
    BY <1>2, <1>6, GotoMoves DEF Moved, Knows, Places
  <2> QED
    BY <1>1, <1>3, <1>4, <1>6, <2>1, Nothings DEF GoingBack, At, Stops, Reinstalls
<1> QED
  BY <1>5, <1>6 DEF unpackBundle, writeStatus

LEMMA WriteVersionBack ==
  ASSUME LossInv, BackInv, NEW p \in Install, ~proc[p].undoFailed, WriteVersion(p)
  PROVE  GoingBack(p)'
<1>1. At(p, "named") /\ Goto(p, "clean") /\ UNCHANGED <<dirs, before>>
  BY DEF WriteVersion
<1>2. Types /\ p \in Proc /\ GoingBack(p) /\ proc[p].version \in Version
  BY <1>1, BackHolds, Named DEF At, Unlocked
<1>3. proc'[p].pc = "clean" /\ Knows(p) /\ New(p)' = New(p) /\ Copy(p)' = Copy(p)
  BY <1>1, <1>2, GotoMoves DEF Moved, Knows, Places, New, Copy
<1>4. Reinstalls(p)' => Restorable(p)'
  BY <1>1, <1>2, <1>3 DEF GoingBack, Reinstalls, Restorable, Back, Knows, Copy, At, Stops, Replacing
<1> QED
  BY <1>1, <1>2, <1>3, <1>4 DEF GoingBack, At, Same, Stops, Knows

LEMMA CleanCopiesBack ==
  ASSUME LossInv, BackInv, NEW p \in Install, ~proc[p].undoFailed, CleanCopies(p)
  PROVE  GoingBack(p)'
<1> DEFINE v == proc[p].version
           pc == IF dirs[Release(v)] # None THEN "copy" ELSE "place"
<1>1. /\ At(p, "clean") /\ Goto(p, pc) /\ UNCHANGED before
      /\ dirs' = [dirs EXCEPT ![Replaced(v)] = None, ![Copying(v)] = None]
  BY DEF CleanCopies
<1>2. Types /\ p \in Proc /\ Stage(p) /\ GoingBack(p) /\ v \in Version
  BY <1>1, BackHolds, Named DEF At, Unlocked
<1>3. proc'[p].pc = pc /\ Knows(p) /\ New(p)' = New(p) /\ Copy(p)' = Copy(p)
  BY <1>1, <1>2, GotoMoves DEF Moved, Knows, Places, New, Copy
<1>4. dirs'[Copy(p)] = None /\ \A w \in Version : dirs'[Release(w)] = dirs[Release(w)]
  BY <1>1, <1>2, Directories DEF Types, Copy
<1>5. Was(p) = New(p) => pc = "copy"
  BY <1>1, <1>2, Nothings DEF Stage, At, Early, New, Complete
<1>6. before.current = Was(p) /\ \A w \in Version : Same(w) /\ Same(w)'
  BY <1>1, <1>2, <1>4 DEF GoingBack, At, Same
<1>7. Reinstalls(p)' => Restorable(p)'
  BY <1>1, <1>2, <1>3, <1>4, <1>5, <1>6 DEF Reinstalls, Restorable, Back, Knows, Same, New, At, Stops, Replacing
<1> QED
  BY <1>1, <1>3, <1>6, <1>7 DEF GoingBack, At, Stops, Knows

LEMMA CopyReleaseBack ==
  ASSUME LossInv, BackInv, NEW p \in Install, ~proc[p].undoFailed, CopyRelease(p)
  PROVE  GoingBack(p)'
<1> DEFINE v == proc[p].version
<1>1. At(p, "copy") /\ Goto(p, "keep") /\ UNCHANGED before /\ dirs' = [dirs EXCEPT ![Copying(v)] = dirs[Release(v)]]
  BY DEF CopyRelease, SetDir
<1>2. Types /\ p \in Proc /\ GoingBack(p) /\ v \in Version
  BY <1>1, BackHolds, Named DEF At, Unlocked
<1>3. proc'[p].pc = "keep" /\ Knows(p) /\ New(p)' = New(p) /\ Copy(p)' = Copy(p)
  BY <1>1, <1>2, GotoMoves DEF Moved, Knows, Places, New, Copy
<1>4. /\ dirs'[Copying(v)] = dirs[New(p)] /\ dirs'[Copy(p)] = dirs[Copy(p)]
      /\ \A w \in Version : dirs'[Release(w)] = dirs[Release(w)]
  BY <1>1, <1>2, Directories DEF Types, Copy, New
<1>5. before.current = Was(p) /\ \A w \in Version : Same(w) /\ Same(w)'
  BY <1>1, <1>2, <1>4 DEF GoingBack, At, Same
<1>6. Reinstalls(p)' => Restorable(p)'
  <2> SUFFICES ASSUME Reinstalls(p)' PROVE Restorable(p)'
    OBVIOUS
  <2>1. dirs[Copy(p)] = None
    BY <1>1, <1>2, <1>3 DEF GoingBack, Reinstalls, Restorable, Knows, At
  <2>2. dirs[New(p)] = before.dirs[New(p)]
    BY <1>2, <1>5 DEF Same, New
  <2>3. dirs'[New(p)] = before.dirs[New(p)]
    BY <1>2, <1>4, <2>2 DEF New
  <2> QED
    BY <1>1, <1>3, <1>4, <2>1, <2>2, <2>3 DEF Restorable, Back, At, Knows, Stops, Replacing
<1> QED
  BY <1>1, <1>3, <1>5, <1>6 DEF GoingBack, At, Stops, Knows

LEMMA NameCopyBack ==
  ASSUME LossInv, BackInv, NEW p \in Install, ~proc[p].undoFailed, NameCopy(p)
  PROVE  GoingBack(p)'
<1> DEFINE v == proc[p].version
           pc == IF Was(p) = Release(v) THEN "point" ELSE "remove"
<1>1. /\ At(p, "keep") /\ Goto(p, pc) /\ UNCHANGED before
      /\ dirs' = [dirs EXCEPT ![Replaced(v)] = dirs[Copying(v)], ![Copying(v)] = None]
  BY DEF NameCopy, Was
<1>2. Types /\ p \in Proc /\ GoingBack(p) /\ v \in Version
  BY <1>1, BackHolds, Named DEF At, Unlocked
<1>3. proc'[p].pc = pc /\ Knows(p) /\ New(p)' = New(p) /\ Copy(p)' = Copy(p)
  BY <1>1, <1>2, GotoMoves DEF Moved, Knows, Places, New, Copy
<1>4. dirs'[Copy(p)] = dirs[Copying(v)] /\ \A w \in Version : dirs'[Release(w)] = dirs[Release(w)]
  BY <1>1, <1>2, Directories DEF Types, Copy
<1>5. before.current = Was(p) /\ \A w \in Version \ {v} : Same(w)'
  BY <1>1, <1>2, <1>4 DEF GoingBack, At, Same
<1>6. Reinstalls(p)' => Restorable(p)'
  BY <1>1, <1>2, <1>3, <1>4 DEF GoingBack, Reinstalls, Restorable, Knows, At, Stops, Replacing
<1> QED
  BY <1>1, <1>3, <1>5, <1>6 DEF GoingBack, At, Stops, Knows

\* Commands that change no files.
LEMMA FilesStayBack ==
  ASSUME LossInv, BackInv, NEW p \in Install, ~proc[p].undoFailed, PointToCopy(p) \/ SwitchToNew(p)
  PROVE  GoingBack(p)'
<1>1. PICK pc \in {"remove", "check"} :
        /\ Goto(p, pc) /\ UNCHANGED <<dirs, status, before>>
        /\ (At(p, "point") /\ pc = "remove") \/ (At(p, "switch") /\ pc = "check")
  BY DEF PointToCopy, SwitchToNew
<1>2. Types /\ p \in Proc /\ GoingBack(p) /\ proc[p].version \in Version
  BY <1>1, BackHolds, Named DEF At, Unlocked
<1>3. proc'[p].pc = pc /\ Knows(p) /\ New(p)' = New(p) /\ Copy(p)' = Copy(p)
  BY <1>1, <1>2, GotoMoves DEF Moved, Knows, Places, New, Copy
<1>4. before.current = Was(p) /\ \A w \in Version \ {proc[p].version} : Same(w)'
  BY <1>1, <1>2 DEF GoingBack, At, Same
<1>5. Reinstalls(p)' => Restorable(p)'
  BY <1>1, <1>2, <1>3 DEF GoingBack, Reinstalls, Restorable, Back, Knows, At, Stops, Replacing
<1> QED
  BY <1>1, <1>3, <1>4, <1>5 DEF GoingBack, At, Stops, Knows

\* The two by which current goes back.
LEMMA GoesBackBack ==
  ASSUME LossInv, BackInv, NEW p \in Install, ~proc[p].undoFailed, undoInstall(p) \/ UndoPoint(p)
  PROVE  GoingBack(p)'
<1>1. PICK pc \in {"undoFiles", "undone"} :
        /\ Goto(p, pc) /\ UNCHANGED <<dirs, status, before>>
        /\ (At(p, "undo") /\ pc = "undoFiles" /\ undoInstall(p)) \/ (At(p, "undoPoint") /\ pc = "undone" /\ UndoPoint(p))
  BY DEF undoInstall, UndoPoint
<1>2. Types /\ p \in Proc /\ Stage(p) /\ GoingBack(p) /\ proc[p].version \in Version /\ Was(p) \in Releases
  BY <1>1, BackHolds, Named DEF At, Unlocked, Stage
<1>3. proc'[p].pc = pc /\ Knows(p) /\ New(p)' = New(p) /\ Copy(p)' = Copy(p)
  BY <1>1, <1>2, GotoMoves DEF Moved, Knows, Places, New, Copy
<1>4. before.current = Was(p) /\ \A w \in Version \ {proc[p].version} : Same(w)'
  BY <1>1, <1>2 DEF GoingBack, At, Same
<1>5. Reinstalls(p)' => Restorable(p)'
  BY <1>1, <1>2, <1>3 DEF GoingBack, Reinstalls, Restorable, Back, Knows, At, Stops, Replacing
<1>6. pc = "undoFiles" /\ Was(p) # New(p) => current' = Was(p)
  <2> SUFFICES ASSUME pc = "undoFiles", Was(p) # New(p) PROVE current' = Was(p)
    OBVIOUS
  <2>1. Complete(Was(p))
    BY <1>1, <1>2 DEF Stage, At, CanGoBack
  <2>2. Was(p) # None /\ dirs[Was(p)] # None
    BY <2>1, Nothings DEF Complete
  <2> QED
    BY <1>1, <2>2 DEF undoInstall, switchTo, Was, New
<1>7. pc = "undone" => current' = Was(p)
  BY <1>1, <1>2 DEF Stage, At, UndoPoint, switchTo, New
<1> QED
  BY <1>1, <1>3, <1>4, <1>5, <1>6, <1>7 DEF GoingBack, At, Stops, Knows

LEMMA RemoveReleaseBack ==
  ASSUME LossInv, BackInv, NEW p \in Install, ~proc[p].undoFailed, RemoveRelease(p)
  PROVE  GoingBack(p)'
<1> DEFINE v == proc[p].version
<1>1. At(p, "remove") /\ Goto(p, "place") /\ UNCHANGED before /\ dirs' = [dirs EXCEPT ![Release(v)] = None]
  BY DEF RemoveRelease, SetDir
<1>2. Types /\ p \in Proc /\ GoingBack(p) /\ v \in Version
  BY <1>1, BackHolds, Named DEF At, Unlocked
<1>3. proc'[p].pc = "place" /\ Knows(p) /\ New(p)' = New(p) /\ Copy(p)' = Copy(p)
  BY <1>1, <1>2, GotoMoves DEF Moved, Knows, Places, New, Copy
<1>4. dirs'[Copy(p)] = dirs[Copy(p)] /\ \A w \in Version \ {v} : dirs'[Release(w)] = dirs[Release(w)]
  BY <1>1, <1>2, Directories DEF Types, Copy
<1>5. before.current = Was(p) /\ \A w \in Version \ {v} : Same(w)'
  BY <1>1, <1>2, <1>4 DEF GoingBack, At, Same
<1>6. Reinstalls(p)' => Restorable(p)'
  BY <1>1, <1>2, <1>3, <1>4 DEF GoingBack, Reinstalls, Restorable, Knows, At, Stops, Replacing
<1> QED
  BY <1>1, <1>3, <1>5, <1>6 DEF GoingBack, At, Stops, Knows

LEMMA MoveInPlaceBack ==
  ASSUME LossInv, BackInv, NEW p \in Install, ~proc[p].undoFailed, MoveInPlace(p)
  PROVE  GoingBack(p)'
<1> DEFINE v == proc[p].version
<1>1. PICK files : /\ At(p, "place") /\ UNCHANGED before /\ dirs' = [dirs EXCEPT ![Release(v)] = files]
                   /\ proc' = [proc EXCEPT ![p].pc = "switch", ![p].inPlace = TRUE]
  BY DEF MoveInPlace, SetDir
<1>2. Types /\ p \in Proc /\ GoingBack(p) /\ v \in Version
  BY <1>1, BackHolds, Named DEF At, Unlocked
<1>3. proc'[p].pc = "switch" /\ proc'[p].version = v /\ Was(p)' = Was(p) /\ New(p)' = New(p) /\ Copy(p)' = Copy(p)
  BY <1>1, <1>2, TwoAreSet DEF New, Copy, Was
<1>4. dirs'[Copy(p)] = dirs[Copy(p)] /\ \A w \in Version \ {v} : dirs'[Release(w)] = dirs[Release(w)]
  BY <1>1, <1>2, Directories DEF Types, Copy
<1>5. before.current = Was(p) /\ \A w \in Version \ {v} : Same(w)'
  BY <1>1, <1>2, <1>4 DEF GoingBack, At, Same
<1>6. Reinstalls(p)' => Restorable(p)'
  BY <1>1, <1>2, <1>3, <1>4 DEF GoingBack, Reinstalls, Restorable, At, Stops, Replacing
<1> QED
  BY <1>1, <1>3, <1>5, <1>6 DEF GoingBack, At, Stops

\* The new files stay only if they were seen to start.
LEMMA restartAndCheckBack ==
  ASSUME LossInv, BackInv, NEW p \in Install, ~proc[p].undoFailed, restartAndCheck(p)
  PROVE  GoingBack(p)'
<1> DEFINE pc == IF Answers THEN "drop" ELSE "undo"
<1>1. At(p, "check") /\ Goto(p, pc) /\ UNCHANGED <<dirs, current, status, before>>
  BY DEF restartAndCheck, sdCard
<1>2. Types /\ p \in Proc /\ Stage(p) /\ GoingBack(p) /\ proc[p].version \in Version
  BY <1>1, BackHolds, Named DEF At, Unlocked
<1>3. proc'[p].pc = pc /\ Knows(p) /\ New(p)' = New(p) /\ Copy(p)' = Copy(p)
  BY <1>1, <1>2, GotoMoves DEF Moved, Knows, Places, New, Copy
<1>4. current = New(p) /\ (Was(p) = New(p) => Complete(Copy(p)))
  BY <1>1, <1>2 DEF Stage, At
<1>5. before.current = Was(p) /\ \A w \in Version \ {proc[p].version} : Same(w)'
  BY <1>1, <1>2 DEF GoingBack, At, Same
<1>6. Reinstalls(p)' => Restorable(p)'
  <2> SUFFICES ASSUME Reinstalls(p)' PROVE Restorable(p)'
    OBVIOUS
  <2>1. dirs[Copy(p)] # None /\ dirs[Copy(p)] = before.dirs[New(p)]
    BY <1>1, <1>2, <1>3, <1>4, Nothings DEF GoingBack, Reinstalls, Restorable, Knows, At, Complete
  <2>2. pc = "drop" => dirs[New(p)].starts
    BY <1>4 DEF Answers
  <2> QED
    BY <1>1, <1>3, <2>1, <2>2 DEF Restorable, At, Stops, Replacing
<1> QED
  BY <1>1, <1>3, <1>5, <1>6 DEF GoingBack, At, Stops, Knows

LEMMA DropCopyBack ==
  ASSUME LossInv, BackInv, NEW p \in Install, ~proc[p].undoFailed, DropCopy(p)
  PROVE  GoingBack(p)'
<1> DEFINE v == proc[p].version
<1>1. At(p, "drop") /\ Goto(p, "succeed") /\ UNCHANGED before /\ dirs' = [dirs EXCEPT ![Replaced(v)] = None]
  BY DEF DropCopy, SetDir
<1>2. Types /\ p \in Proc /\ GoingBack(p) /\ v \in Version
  BY <1>1, BackHolds, Named DEF At, Unlocked
<1>3. proc'[p].pc = "succeed" /\ Knows(p) /\ New(p)' = New(p) /\ Copy(p)' = Copy(p)
  BY <1>1, <1>2, GotoMoves DEF Moved, Knows, Places, New, Copy
<1>4. dirs'[Copy(p)] = None /\ \A w \in Version : dirs'[Release(w)] = dirs[Release(w)]
  BY <1>1, <1>2, Directories DEF Types, Copy
<1>5. before.current = Was(p) /\ \A w \in Version \ {v} : Same(w)'
  BY <1>1, <1>2, <1>4 DEF GoingBack, At, Same
<1>6. Reinstalls(p)' => Restorable(p)'
  BY <1>1, <1>2, <1>3, <1>4 DEF GoingBack, Reinstalls, Restorable, Back, Knows, New, At, Stops, Replacing
<1> QED
  BY <1>1, <1>3, <1>5, <1>6 DEF GoingBack, At, Stops, Knows

\* After these the status is succeeded.
LEMMA SucceedsBack ==
  ASSUME LossInv, BackInv, NEW p \in Install, ~proc[p].undoFailed, Succeed(p) \/ cleanUpReleases(p)
  PROVE  GoingBack(p)'
<1>1. PICK pc \in {"tidy", "exit"} :
        Goto(p, pc) /\ proc[p].pc \in {"succeed", "tidy"} /\ UNCHANGED before /\ (At(p, "tidy") => UNCHANGED status)
  BY DEF Succeed, cleanUpReleases, At
<1>2. Types /\ p \in Proc /\ GoingBack(p) /\ proc[p].version \in Version
  BY <1>1, BackHolds, Named DEF Unlocked
<1>3. proc'[p].pc = pc /\ Knows(p)
  BY <1>1, <1>2, GotoMoves DEF Moved, Places
<1>4. before.current = Was(p)
  BY <1>1, <1>2 DEF GoingBack, At
<1>5. status'.state = "succeeded"
  BY <1>1, <1>2 DEF GoingBack, At, Succeed, cleanUpReleases, writeStatus
<1> QED
  BY <1>1, <1>3, <1>4, <1>5 DEF GoingBack, At, Stops, Knows, Restorable, Replacing

LEMMA CommandFailsBack ==
  ASSUME LossInv, BackInv, Careful, NEW p \in Install, ~proc[p].undoFailed, CommandFails(p)
  PROVE  GoingBack(p)'
<1> DEFINE v == proc[p].version
<1>1. /\ proc[p].pc \in {"unpack", "named", "clean", "copy", "keep", "point", "remove", "place", "switch", "drop", "succeed",
                         "tidy", "undo", "undoFiles", "undoMove", "undoPoint", "rolledBack"}
      /\ ~proc[p].trapped /\ Goto(p, "exit") /\ UNCHANGED <<current, status, before, lock, cuts>> /\ dirs' \in StoppedHalfway(p)
  BY DEF CommandFails, Fails
<1>2. Types /\ p \in Proc /\ lock = p /\ Stage(p) /\ GoingBack(p) /\ Was(p) \in Releases
  BY <1>1, BackHolds DEF Unlocked, Stage, At
<1>3. proc'[p].pc = "exit" /\ Knows(p) /\ New(p)' = New(p) /\ Copy(p)' = Copy(p)
  BY <1>1, <1>2, GotoMoves DEF Moved, Knows, Places, New, Copy
<1>4. v \in Version \/ (At(p, "unpack") /\ v = None)
  BY <1>1, <1>2 DEF Stage, At
<1>5. /\ \A d \in Dir : d \notin Touched(p) => dirs'[d] = dirs[d]
      /\ \A d \in Dir : dirs'[d] \in {Partial, None, dirs[d]}
  BY <1>1, <1>2, StoppedIsTouched
<1>6. ~At(p, "tidy") => \A d \in Touched(p) : v \in Version /\ d \in {Copy(p), Copying(v), New(p)}
  BY <1>2, <1>4, TouchedAt DEF At, Undone, New, Copy
<1>7. v \in Version => New(p) \in Dir /\ Copy(p) \in Dir /\ Copying(v) \notin {New(p), Copy(p)} /\ Copy(p) # New(p)
  BY Directories DEF New, Copy
<1>8. before.current = Was(p)
  BY <1>1, <1>2 DEF GoingBack, At
<1>9. status.state # "succeeded" => \A w \in Version \ {v} : Same(w)'
  <2> SUFFICES ASSUME status.state # "succeeded", NEW w \in Version \ {v} PROVE Same(w)'
    OBVIOUS
  <2>1. ~At(p, "tidy") /\ Same(w)
    BY <1>1, <1>2 DEF GoingBack, At
  <2>2. Release(w) \in Dir /\ Release(w) \notin Touched(p)
    BY <1>6, <2>1, Directories DEF New, Copy
  <2> QED
    BY <1>1, <1>5, <2>1, <2>2 DEF Same
<1>10. v = None => current = Was(p) /\ \A w \in Version : Same(w)'
  <2> SUFFICES ASSUME v = None PROVE current = Was(p) /\ \A w \in Version : Same(w)'
    OBVIOUS
  <2>1. At(p, "unpack") /\ current = Was(p) /\ \A w \in Version : Same(w)
    BY <1>2, <1>4, Nothings DEF Stage, Early, GoingBack, At
  <2>2. \A w \in Version : Release(w) \in Dir /\ Release(w) \notin Touched(p)
    BY <2>1, TouchedAt, Directories DEF At
  <2> QED
    BY <1>1, <1>5, <2>1, <2>2 DEF Same
<1>11. Reinstalls(p)' => Restorable(p)'
  <2> SUFFICES ASSUME Reinstalls(p)', status.state = "running" PROVE Restorable(p)'
    BY <1>1, <1>3 DEF Restorable, At, Stops, Replacing
  <2>1. v \in Version /\ Restorable(p) /\ Was(p) = New(p) /\ before.dirs[Copy(p)] = None
    BY <1>1, <1>2, <1>3 DEF Reinstalls, GoingBack, Knows
  <2>2. proc[p].pc \notin {"unpack", "tidy", "undoPoint"}
    BY <1>1, <1>2, <1>4, <2>1, Nothings DEF GoingBack, Stage, At
  <2> DEFINE Can == IF dirs'[Copy(p)] = None THEN dirs'[New(p)] = before.dirs[New(p)] \/ dirs'[New(p)].starts
                                             ELSE dirs'[Copy(p)] = before.dirs[New(p)]
  <2>3. CASE At(p, "clean")
    <3>1. Copy(p) \notin Touched(p) /\ New(p) \notin Touched(p)
      BY <1>7, <2>1, <2>3, TouchedAt DEF Restorable, At, Touched, Removes, Writes, New
    <3>2. Can
      BY <1>5, <1>7, <2>1, <2>3, <3>1 DEF Restorable, Back, At
    <3> QED
      BY <1>1, <1>3, <3>2 DEF Restorable, Back, At, Replacing
  <2>4. CASE proc[p].pc \in {"named", "copy", "keep", "succeed", "undo"}
    <3>1. Copy(p) \notin Touched(p) /\ New(p) \notin Touched(p)
      BY <1>7, <2>1, <2>4, TouchedAt DEF At
    <3>2. Can
      BY <1>5, <1>7, <2>1, <2>4, <3>1 DEF Restorable, Back
    <3> QED
      BY <1>1, <1>3, <3>2 DEF Restorable, Back, At, Replacing
  <2>5. CASE proc[p].pc \in {"point", "undoMove"} \cup Replacing
    <3>1. Copy(p) \notin Touched(p) /\ Complete(Copy(p))
      BY <1>2, <1>7, <2>1, <2>5, TouchedAt DEF Stage, At, Replacing
    <3>2. Can
      BY <1>5, <1>7, <2>1, <2>5, <3>1, Nothings DEF Restorable, Complete
    <3> QED
      BY <1>1, <1>3, <3>2 DEF Restorable, Back, At, Replacing
  <2>6. CASE At(p, "drop")
    <3>1. New(p) \notin Touched(p)
      BY <1>7, <2>1, <2>6, TouchedAt DEF At
    <3>2. current = New(p)
      BY <1>2, <2>6 DEF Stage, At, Checked
    <3>3. dirs'[Copy(p)] # Partial
      BY <1>1, <1>2, <2>1, <3>2, Directories DEF Careful, BreaksCopy, New, Copy
    <3>4. Can
      BY <1>5, <1>7, <2>1, <2>6, <3>1, <3>3 DEF Restorable, Back, At
    <3> QED
      BY <1>1, <1>3, <3>4 DEF Restorable, Back, At, Replacing
  <2>7. CASE At(p, "undoFiles")
    <3>1. Copy(p) \notin Touched(p)
      BY <1>7, <2>1, <2>7, TouchedAt DEF At, Undone, New
    <3>2. dirs[Copy(p)] = None => New(p) \notin Touched(p)
      <4>1. dirs[Copy(p)] = None => current = New(p)
        BY <1>2, <2>1, <2>7, Nothings DEF Stage, CanGoBack, At, Complete
      <4> QED
        BY <2>7, <4>1, TouchedAt DEF At, Undone, New, Copy
    <3>3. Can
      BY <1>5, <1>7, <2>1, <2>7, <3>1, <3>2 DEF Restorable, Back, At
    <3> QED
      BY <1>1, <1>3, <3>3 DEF Restorable, Back, At, Replacing
  <2>8. CASE At(p, "rolledBack")
    <3>1. Copy(p) \notin Touched(p) /\ New(p) \notin Touched(p)
      BY <2>8, TouchedAt DEF At
    <3>2. Can
      BY <1>5, <1>7, <2>1, <2>8, <3>1 DEF Restorable, Back, At
    <3> QED
      BY <1>1, <1>3, <3>2 DEF Restorable, Back, At, Replacing
  <2> QED
    BY <1>1, <2>2, <2>3, <2>4, <2>5, <2>6, <2>7, <2>8 DEF At, Replacing
<1> QED
  BY <1>1, <1>3, <1>8, <1>9, <1>10, <1>11 DEF GoingBack, At, Stops, Knows

LEMMA ExitInstallBack ==
  ASSUME LossInv, BackInv, NEW p \in Install, ~proc[p].undoFailed, ExitInstall(p), lock' = p
  PROVE  GoingBack(p)'
<1>1. At(p, "exit") /\ UNCHANGED <<dirs, before>>
  BY DEF ExitInstall
<1>2. Types /\ p \in Proc /\ Stage(p) /\ GoingBack(p)
  BY <1>1, BackHolds DEF At, Unlocked
<1>3. /\ status.state = "running" /\ proc[p].version # None /\ UNCHANGED status
      /\ proc' = [proc EXCEPT ![p].pc = "undo", ![p].trapped = TRUE]
  BY <1>2, Nothings DEF ExitInstall
<1>4. proc'[p].pc = "undo" /\ proc'[p].version = proc[p].version /\ Was(p)' = Was(p) /\ New(p)' = New(p) /\ Copy(p)' = Copy(p)
  BY <1>2, <1>3, TwoAreSet DEF Was, New, Copy
<1>5. before.current = Was(p) /\ \A w \in Version \ {proc[p].version} : Same(w)'
  BY <1>1, <1>2, <1>3 DEF GoingBack, At, Same
<1>6. Reinstalls(p)' => Restorable(p)'
  BY <1>1, <1>2, <1>3, <1>4 DEF GoingBack, Reinstalls, Restorable, Back, At, Stops, Replacing
<1> QED
  BY <1>1, <1>4, <1>5, <1>6 DEF GoingBack, At, Stops

LEMMA UndoFilesBack ==
  ASSUME LossInv, BackInv, NEW p \in Install, ~proc[p].undoFailed, UndoFiles(p)
  PROVE  GoingBack(p)'
<1> DEFINE v == proc[p].version
           pc == IF dirs[Copy(p)] # None THEN "undoMove" ELSE "undone"
<1>1. /\ At(p, "undoFiles") /\ Goto(p, pc) /\ UNCHANGED <<current, before>>
      /\ dirs' = [d \in Dir |-> IF d \in Undone(p) THEN None ELSE dirs[d]]
  BY DEF UndoFiles, Copy
<1>2. Types /\ p \in Proc /\ Stage(p) /\ GoingBack(p) /\ v \in Version
  BY <1>1, BackHolds, Named DEF At, Unlocked
<1>3. proc'[p].pc = pc /\ Knows(p) /\ New(p)' = New(p) /\ Copy(p)' = Copy(p)
  BY <1>1, <1>2, GotoMoves DEF Moved, Knows, Places, New, Copy
<1>4. /\ Undone(p) \subseteq {New(p)} /\ (dirs[Copy(p)] = None /\ current = New(p) => Undone(p) = {})
      /\ dirs[Copy(p)] # None => Undone(p) = {New(p)}
  BY DEF Undone, New, Copy
<1>5. /\ New(p) \in Dir /\ Copy(p) \in Dir /\ Copy(p) # New(p)
      /\ \A w \in Version \ {v} : Release(w) \in Dir /\ Release(w) # New(p)
  BY <1>2, Directories DEF New, Copy
<1>6. dirs'[Copy(p)] = dirs[Copy(p)] /\ \A w \in Version \ {v} : dirs'[Release(w)] = dirs[Release(w)]
  BY <1>1, <1>4, <1>5
<1>7. before.current = Was(p) /\ \A w \in Version \ {v} : Same(w)'
  BY <1>1, <1>2, <1>6 DEF GoingBack, At, Same
<1>8. /\ Was(p) # New(p) => current = Was(p)
      /\ Was(p) = New(p) /\ dirs[Copy(p)] = None => current = Was(p)
  BY <1>1, <1>2, Nothings DEF GoingBack, Stage, CanGoBack, At, Complete
<1>9. pc = "undoMove" => dirs'[New(p)] = None
  BY <1>1, <1>4, <1>5
<1>10. Reinstalls(p)' => Restorable(p)'
  <2> SUFFICES ASSUME Reinstalls(p)' PROVE Restorable(p)'
    OBVIOUS
  <2>1. Restorable(p) /\ Was(p) = New(p)
    BY <1>1, <1>2, <1>3 DEF Reinstalls, GoingBack, Knows
  <2>2. CASE dirs[Copy(p)] # None
    BY <1>1, <1>3, <1>6, <2>1, <2>2 DEF Restorable, At, Stops, Replacing
  <2>3. CASE dirs[Copy(p)] = None
    <3>1. dirs'[New(p)] = dirs[New(p)]
      BY <1>1, <1>4, <1>5, <1>8, <2>1, <2>3
    <3> QED
      BY <1>1, <1>3, <1>6, <2>1, <2>3, <3>1 DEF Restorable, Back, At, Stops, Replacing
  <2> QED
    BY <2>2, <2>3
<1> QED
  BY <1>1, <1>3, <1>7, <1>8, <1>9, <1>10 DEF GoingBack, At, Stops, Knows

LEMMA UndoMoveBack ==
  ASSUME LossInv, BackInv, NEW p \in Install, ~proc[p].undoFailed, UndoMove(p)
  PROVE  GoingBack(p)'
<1> DEFINE v == proc[p].version
           pc == IF current = Copy(p) THEN "undoPoint" ELSE "undone"
<1>1. At(p, "undoMove") /\ Goto(p, pc) /\ UNCHANGED <<current, before>>
  BY DEF UndoMove, Copy
<1>2. Types /\ p \in Proc /\ Stage(p) /\ GoingBack(p) /\ v \in Version
  BY <1>1, BackHolds, Named DEF At, Unlocked
<1>3. proc'[p].pc = pc /\ Knows(p) /\ New(p)' = New(p) /\ Copy(p)' = Copy(p)
  BY <1>1, <1>2, GotoMoves DEF Moved, Knows, Places, New, Copy
<1>4. dirs' = [dirs EXCEPT ![Release(v)] = dirs[Replaced(v)], ![Replaced(v)] = None]
  BY <1>1, <1>2 DEF UndoMove, GoingBack, New
<1>5. /\ dirs'[New(p)] = dirs[Copy(p)] /\ dirs'[Copy(p)] = None
      /\ \A w \in Version \ {v} : dirs'[Release(w)] = dirs[Release(w)]
  BY <1>2, <1>4, Directories DEF Types, New, Copy
<1>6. before.current = Was(p) /\ \A w \in Version \ {v} : Same(w)'
  BY <1>1, <1>2, <1>5 DEF GoingBack, At, Same
<1>7. pc = "undone" => current = Was(p)
  BY <1>1, <1>2 DEF GoingBack, Stage, At
<1>8. Reinstalls(p)' => Restorable(p)'
  BY <1>1, <1>2, <1>3, <1>5 DEF GoingBack, Reinstalls, Restorable, Back, Knows, At, Stops, Replacing
<1> QED
  BY <1>1, <1>3, <1>6, <1>7, <1>8 DEF GoingBack, At, Stops, Knows

LEMMA RestartsBack ==
  ASSUME LossInv, BackInv, NEW p \in Install, ~proc[p].undoFailed, Undo(p) \/ (RolledBack(p) /\ lock' = p)
  PROVE  GoingBack(p)'
<1>1. PICK pc \in {"rolledBack", "exit"} :
        /\ Goto(p, pc) /\ UNCHANGED <<dirs, current, before>>
        /\ \/ At(p, "undone") /\ pc = "rolledBack"
           \/ At(p, "rolledBack") /\ pc = "exit" /\ status'.state \in {"rolled-back", "failed"}
  BY Nothings DEF Undo, RolledBack, sdCard, writeStatus
<1>2. Types /\ p \in Proc /\ GoingBack(p) /\ proc[p].version \in Version
  BY <1>1, BackHolds, Named DEF At, Unlocked
<1>3. proc'[p].pc = pc /\ Knows(p) /\ New(p)' = New(p) /\ Copy(p)' = Copy(p)
  BY <1>1, <1>2, GotoMoves DEF Moved, Knows, Places, New, Copy
<1>4. before.current = Was(p) /\ current = Was(p) /\ \A w \in Version \ {proc[p].version} : Same(w)'
  BY <1>1, <1>2 DEF GoingBack, At, Same
<1>5. Reinstalls(p)' => Restorable(p)'
  BY <1>1, <1>2, <1>3 DEF GoingBack, Reinstalls, Restorable, Back, Knows, At, Stops, Replacing
<1> QED
  BY <1>1, <1>3, <1>4, <1>5 DEF GoingBack, At, Stops, Knows

\* A command of the trap or recover that failed is remembered until the end of the process.
LEMMA UndoFailedStays ==
  ASSUME LossInv, NEW p \in Install, InstallStep(p) \/ CommandFails(p) \/ UndoStep(p) \/ UndoFails(p), proc[p].pc \notin Unlocked,
         lock' = p
  PROVE  proc'[p].undoFailed = (proc[p].undoFailed \/ UndoFails(p))
<1>1. Types /\ p \in Proc /\ p # None /\ proc[p] \in Process
  BY HolderInstalls, Nothings DEF Types
<1>2. CASE UndoFails(p)
  BY <1>1, <1>2 DEF UndoFails, Types, Process
<1>3. ASSUME NEW pc, NEW x, \/ Goto(p, pc)
                            \/ proc' = [proc EXCEPT ![p].pc = pc, ![p].previous = x]
                            \/ proc' = [proc EXCEPT ![p].pc = pc, ![p].version = x]
                            \/ proc' = [proc EXCEPT ![p].pc = pc, ![p].inPlace = x]
                            \/ proc' = [proc EXCEPT ![p].pc = pc, ![p].trapped = x]
      PROVE  proc'[p].undoFailed = proc[p].undoFailed
  BY <1>1, <1>3 DEF Types, Process, Goto
<1>4. CASE InstallStep(p) \/ CommandFails(p) \/ UndoStep(p)
  <2>1. ~TakeLock(p)
    BY DEF TakeLock, At, Unlocked
  <2>2. proc'[p].undoFailed = proc[p].undoFailed
    BY <1>1, <1>3, <1>4, <2>1
       DEF InstallStep, CommandFails, UndoStep, BeginInstall, unpackBundle, WriteVersion, CleanCopies, CopyRelease, NameCopy,
           PointToCopy, RemoveRelease, MoveInPlace, SwitchToNew, restartAndCheck, DropCopy, Succeed, cleanUpReleases,
           ExitInstall, RolledBack, undoInstall, UndoFiles, UndoMove, UndoPoint, Undo
  <2>3. UndoFails(p) => proc[p].undoFailed \/ proc'[p].undoFailed
    BY <1>1 DEF UndoFails, Types, Process
  <2>4. proc[p].undoFailed \in BOOLEAN
    BY <1>1 DEF Process
  <2> QED
    BY <1>2, <2>2, <2>3, <2>4
<1> QED
  BY <1>2, <1>4

LEMMA HolderBack ==
  ASSUME LossInv, BackInv, Careful, NEW p \in Install, proc[p].pc \notin Unlocked, lock' = p,
         InstallStep(p) \/ CommandFails(p) \/ UndoStep(p) \/ UndoFails(p)
  PROVE  BackStage(p)'
<1>1. ~TakeLock(p)
  BY DEF TakeLock, At, Unlocked
<1>2. SUFFICES ASSUME ~proc'[p].undoFailed PROVE GoingBack(p)'
  BY DEF BackStage
<1>3. ~proc[p].undoFailed /\ ~UndoFails(p)
  BY <1>2, UndoFailedStays
<1> QED
  BY <1>1, <1>3, BeginInstallBack, unpackBundleBack, WriteVersionBack, CleanCopiesBack, CopyReleaseBack, NameCopyBack,
     FilesStayBack, GoesBackBack, RemoveReleaseBack, MoveInPlaceBack, restartAndCheckBack, DropCopyBack, SucceedsBack,
     CommandFailsBack, ExitInstallBack, UndoFilesBack, UndoMoveBack, RestartsBack
     DEF InstallStep, UndoStep

\* Nobody else touches the card, the status and the process that installs.
LEMMA OthersBack ==
  ASSUME BackInv, lock \in Install, UNCHANGED <<dirs, current, status, before, lock>>, proc'[lock] = proc[lock]
  PROVE  BackInv'
<1> PICK p \in Install : p = lock
  OBVIOUS
<1>1. BackStage(p) /\ proc'[p] = proc[p] /\ lock' = p
  BY DEF BackInv
<1>2. New(p)' = New(p) /\ Copy(p)' = Copy(p) /\ Was(p)' = Was(p)
  BY <1>1 DEF New, Copy, Was
<1>3. BackStage(p)'
  BY <1>1, <1>2 DEF BackStage, GoingBack, Reinstalls, Restorable, Back, Same, Stops, At
<1> QED
  BY <1>1, <1>3 DEF BackInv

\* Who has the lock keeps it, or gives it back; and the others leave everything alone.
LEMMA BackStep ==
  LossInv /\ LossInv' /\ BackInv /\ [Next]_vars /\ [Careful]_vars => BackInv'
<1> SUFFICES ASSUME LossInv, LossInv', BackInv, [Next]_vars, [Careful]_vars, lock' \in Install PROVE BackInv'
  BY DEF BackInv
<1> PICK p \in Install : p = lock'
  OBVIOUS
<1>1. Types /\ Roles /\ p \in Proc /\ p # Boot /\ Boot \in Proc /\ p # None
  BY Nothings DEF LossInv
<1>2. CASE UNCHANGED vars
  <2>1. UNCHANGED <<dirs, current, status, before, lock, proc>>
    BY <1>2 DEF vars, sdCard
  <2> QED
    BY <2>1, OthersBack
<1>3. CASE Next /\ Careful
  <2>1. CASE PowerCut
    BY <1>1, <2>1, Nothings DEF PowerCut
  <2>2. CASE BootStep
    <3>1. lock' \in {None, Boot} \/ (At(Boot, "serve") /\ UNCHANGED lock)
      BY <2>2 DEF BootStep, recover, CloseStatus, Serve
    <3>2. ~At(Boot, "serve") \/ lock # p
      BY <1>1, BootAlone DEF At
    <3> QED
      BY <1>1, <3>1, <3>2
  <2>3. CASE rollback
    BY <1>1, <2>3 DEF rollback
  <2>4. ASSUME NEW q \in Install, NEW b \in Bundle, NEW allow \in BOOLEAN, Begin(q, b, allow) PROVE BackInv'
    <3>1. lock = p /\ UNCHANGED <<dirs, current, status, before>> /\ At(q, "idle")
      BY <2>4 DEF Begin, sdCard
    <3>2. q # p
      BY <1>1, <3>1 DEF Types, At, Unlocked
    <3>3. proc'[p] = proc[p]
      BY <1>1, <2>4, <3>2 DEF Begin, Types
    <3> QED
      BY <3>1, <3>3, OthersBack
  <2>5. ASSUME NEW q \in Proc, UndoStep(q) \/ UndoFails(q), q \notin Install PROVE BackInv'
    <3>1. q = Boot /\ UNCHANGED lock /\ ~At(Boot, "idle")
      BY <2>5 DEF Proc, UndoStep, undoInstall, UndoFiles, UndoMove, UndoPoint, Undo, UndoFails, Fails, At
    <3> QED
      BY <1>1, <3>1, BootAlone
  <2>6. ASSUME NEW q \in Install, StartStep(q) \/ InstallStep(q) \/ CommandFails(q) \/ UndoStep(q) \/ UndoFails(q)
        PROVE  BackInv'
    <3>1. CASE proc[q].pc \notin Unlocked
      <4>1. lock = q /\ q \in Proc
        BY <3>1, HolderInstalls
      <4>2. ~StartStep(q)
        BY <3>1 DEF StartStep, StartUpdate, Launch, At, Unlocked
      <4>3. lock' = q
        <5>1. lock' \in {q, None}
          BY <2>6, <3>1, <4>1, <4>2
             DEF InstallStep, CommandFails, Fails, UndoStep, UndoFails, TakeLock, BeginInstall, unpackBundle, WriteVersion, CleanCopies,
                 CopyRelease, NameCopy, PointToCopy, RemoveRelease, MoveInPlace, SwitchToNew, restartAndCheck, DropCopy,
                 Succeed, cleanUpReleases, ExitInstall, RolledBack, undoInstall, UndoFiles, UndoMove, UndoPoint, Undo
        <5> QED
          BY <1>1, <5>1
      <4> QED
        BY <1>3, <2>6, <3>1, <4>2, <4>3, HolderBack DEF BackInv
    <3>2. CASE proc[q].pc \in Unlocked
      <4>1. StartStep(q) \/ TakeLock(q)
        BY <2>6, <3>2
           DEF InstallStep, CommandFails, UndoStep, UndoFails, BeginInstall, unpackBundle, WriteVersion, CleanCopies,
               CopyRelease, NameCopy, PointToCopy, RemoveRelease, MoveInPlace, SwitchToNew, restartAndCheck, DropCopy,
               Succeed, cleanUpReleases, ExitInstall, RolledBack, undoInstall, UndoFiles, UndoMove, UndoPoint, Undo,
               At, Unlocked
      <4>2. CASE lock = None
        <5>1. TakeLock(q) /\ lock' = q /\ Goto(q, "begin")
          BY <1>1, <4>1, <4>2 DEF StartStep, StartUpdate, Launch, TakeLock
        <5>2. proc'[q].pc = "begin" /\ proc'[q].version = None
          <6>1. q \in Proc /\ proc[q].version = None
            BY <5>1, <1>1, Nothings DEF Roles, TakeLock, At
          <6> QED
            BY <1>1, <5>1, <6>1, GotoMoves DEF Moved, Knows, Places
        <5> QED
          BY <5>1, <5>2, Nothings DEF BackInv, BackStage, GoingBack, At, Stops, Reinstalls
      <4>3. CASE lock # None
        <5>1. UNCHANGED <<dirs, current, before, lock>> /\ \E r : proc' = [proc EXCEPT ![q] = r]
          BY <4>1, <4>3 DEF StartStep, StartUpdate, Launch, TakeLock, Goto, End, sdCard
        <5>2. q # p /\ q \in Proc
          BY <1>1, <3>2, <5>1, Nothings DEF Types
        <5>3. proc'[p] = proc[p]
          BY <1>1, <5>1, <5>2 DEF Types
        <5>4. UNCHANGED status
          <6>1. CASE StartUpdate(q) \/ TakeLock(q)
            BY <4>3, <6>1 DEF StartUpdate, TakeLock, sdCard
          <6>2. CASE Launch(q)
            <7>1. At(q, "launch") /\ UNCHANGED cuts /\ (UNCHANGED status \/ End(q))
              BY <6>2 DEF Launch
            <7>2. End(q) => At(q, "idle")'
              BY <1>1, <5>2 DEF End, Idle, At, Types
            <7> QED
              BY <1>3, <4>3, <7>1, <7>2 DEF Careful
          <6> QED
            BY <4>1, <6>1, <6>2 DEF StartStep
        <5> QED
          BY <5>1, <5>3, <5>4, OthersBack
      <4> QED
        BY <4>2, <4>3
    <3> QED
      BY <3>1, <3>2
  <2> QED
    BY <1>3, <2>1, <2>2, <2>3, <2>4, <2>5, <2>6, Nothings DEF Next, Proc
<1> QED
  BY <1>2, <1>3

\* What is told to have failed went back.
LEMMA FailsBack ==
  ASSUME LossInv, BackInv, [Next]_vars, Failing, ~CopyWasLeft(proc[lock].version), ~proc[lock].undoFailed
  PROVE  /\ current' = before.current
         /\ dirs'[current'] = before.dirs[current'] \/ dirs'[current'].starts
         /\ \A v \in Version \ {proc[lock].version} : dirs'[Release(v)] = before.dirs[Release(v)]
<1> PICK p \in Install : lock = p /\ proc'[p] # proc[p] /\ status' # status /\ status'.state \in {"failed", "rolled-back"}
  BY DEF Failing
<1>1. p \in Proc /\ p # Boot /\ p # None /\ proc[p].pc \notin Unlocked
  BY Nothings DEF LossInv, Types
<1>2. Types /\ Stage(p) /\ GoingBack(p)
  BY <1>1, BackHolds
<1>3. Next
  BY DEF vars, sdCard
<1>4. unpackBundle(p) \/ ExitInstall(p) \/ RolledBack(p)
  <2>1. ~PowerCut /\ ~rollback /\ ~BootStep
    <3>1. At(Boot, "idle")
      BY <1>1, BootAlone
    <3> QED
      BY <1>1, <3>1 DEF PowerCut, rollback, BootStep, recover, CloseStatus, Serve, At, sdCard
  <2>2. \A q \in Install, b \in Bundle, allow \in BOOLEAN : ~Begin(q, b, allow)
    BY DEF Begin, sdCard
  <2>3. \A q \in Proc : ~UndoStep(q) /\ ~UndoFails(q)
    BY DEF UndoFails, Fails, UndoStep, undoInstall, UndoFiles, UndoMove, UndoPoint, Undo, sdCard
  <2>4. ASSUME NEW q \in Install, StartStep(q) \/ InstallStep(q) \/ CommandFails(q)
        PROVE  unpackBundle(p) \/ ExitInstall(p) \/ RolledBack(p)
    <3>1. q = p
      <4>1. \E r : proc' = [proc EXCEPT ![q] = r]
        BY <2>4, Zenon
           DEF StartStep, StartUpdate, Launch, InstallStep, CommandFails, TakeLock, BeginInstall, unpackBundle, WriteVersion,
               CleanCopies, CopyRelease, NameCopy, PointToCopy, RemoveRelease, MoveInPlace, SwitchToNew, restartAndCheck,
               DropCopy, Succeed, cleanUpReleases, ExitInstall, RolledBack, Goto, End
      <4> QED
        BY <1>1, <1>2, <4>1 DEF Types
    <3>2. ~StartStep(p)
      BY <1>1 DEF StartStep, StartUpdate, Launch, At, Unlocked
    <3> QED
      BY <2>4, <3>1, <3>2
         DEF InstallStep, CommandFails, Fails, TakeLock, BeginInstall, WriteVersion, CleanCopies, CopyRelease, NameCopy, PointToCopy,
             RemoveRelease, MoveInPlace, SwitchToNew, restartAndCheck, DropCopy, Succeed, cleanUpReleases, writeStatus, sdCard
  <2> QED
    BY <1>3, <2>1, <2>2, <2>3, <2>4 DEF Next
<1>5. UNCHANGED <<dirs, current>>
  BY <1>4 DEF unpackBundle, ExitInstall, RolledBack
<1>6. CASE unpackBundle(p) \/ ExitInstall(p)
  <2>1. /\ current = Was(p) /\ Was(p) \in Releases /\ before.current = Was(p) /\ proc[p].version = None
        /\ \A v \in Version : Same(v)
    <3>1. CASE unpackBundle(p)
      BY <1>2, <3>1 DEF unpackBundle, At, Stage, Early, GoingBack
    <3>2. CASE ExitInstall(p)
      <4>1. Stops(p) /\ At(p, "exit") /\ status.state = "running" /\ proc[p].version = None
        BY <3>2 DEF ExitInstall, Stops, At
      <4> QED
        BY <1>2, <4>1, Nothings DEF At, Stage, GoingBack
    <3> QED
      BY <1>6, <3>1, <3>2
  <2>2. PICK v \in Version : current = Release(v)
    BY <2>1 DEF Releases
  <2>3. dirs[current] = before.dirs[current]
    BY <2>1, <2>2 DEF Same
  <2> QED
    BY <1>5, <2>1, <2>3 DEF Same
<1>7. CASE RolledBack(p)
  <2>1. At(p, "rolledBack") /\ proc[p].version \in Version
    BY <1>2, <1>7, Named DEF RolledBack, At
  <2>2. /\ current = Was(p) /\ Was(p) \in Releases /\ before.current = Was(p)
        /\ \A v \in Version \ {proc[p].version} : Same(v)
    BY <1>2, <2>1 DEF At, Stage, GoingBack
  <2>3. CASE Was(p) = New(p)
    <3>1. before.dirs[Copy(p)] = None
      BY <2>1, Nothings DEF CopyWasLeft, Copy
    <3>2. Back(p)
      BY <1>2, <2>1, <2>3, <3>1 DEF GoingBack, Reinstalls, Restorable, At
    <3> QED
      BY <1>5, <2>2, <2>3, <3>2 DEF Back, Same
  <2>4. CASE Was(p) # New(p)
    <3>1. PICK v \in Version : Was(p) = Release(v)
      BY <2>2 DEF Releases
    <3>2. v # proc[p].version
      BY <2>4, <3>1 DEF New
    <3>3. dirs[current] = before.dirs[current]
      BY <2>2, <3>1, <3>2 DEF Same
    <3> QED
      BY <1>5, <2>2, <3>3 DEF Same
  <2> QED
    BY <2>3, <2>4
<1> QED
  BY <1>4, <1>6, <1>7

\* An update that is told to have failed went back to the release that ran before, with its files or with new ones that
\* were seen to start, and left the others alone, as long as every step is Careful, no copy of its version was left by
\* another update, and no command failed by which the trap itself goes back.
THEOREM FailedWentBack ==
  Spec /\ [][Careful]_vars => FailedGoesBack
<1>1. Init => BackInv
  BY Nothings DEF Init, BackInv
<1>2. LossInv /\ BackInv /\ [Next]_vars =>
        [Failing /\ ~CopyWasLeft(proc[lock].version) /\ ~proc[lock].undoFailed =>
           /\ current' = before.current
           /\ dirs'[current'] = before.dirs[current'] \/ dirs'[current'].starts
           /\ \A v \in Version \ {proc[lock].version} : dirs'[Release(v)] = before.dirs[Release(v)]]_vars
  BY FailsBack
<1> QED
  BY <1>1, <1>2, LossInit, LossNext, BackStep, PTL DEF Spec, FailedGoesBack

----------------------------------------------------------------------------
(* How the server sees it: UpdateService, with the variables of its own.  Nothing is undefined but what   *)
(* Updater calls None.                                                                                     *)

\* An unsigned bundle is asked for, and installed, only with what the master accepted.
HelperIsAllowed ==
  /\ card.request # None => card.request.allow \in BOOLEAN
  /\ helper # None => {"file", "allow", "accepted", "pc"} \subseteq DOMAIN helper /\ (helper.allow = TRUE => helper.accepted = TRUE)
  /\ {"isStarting", "request", "info", "statusWhenStarting"} \subseteq DOMAIN card
  /\ Service!UnsignedOnlyIfAccepted

LEMMA ServiceInstalls ==
  ASSUME HelperIsAllowed, [Service!Next]_Service!vars
  PROVE  HelperIsAllowed'
<1>1. ASSUME UNCHANGED <<helper, installed>>, DOMAIN card' = DOMAIN card, card'.request = None \/ card'.request = card.request
      PROVE  HelperIsAllowed'
  BY <1>1 DEF HelperIsAllowed, Service!UnsignedOnlyIfAccepted
<1>2. UNCHANGED <<helper, installed, card>> => HelperIsAllowed'
  BY <1>1
<1>3. ASSUME NEW f, Service!ConfirmInstall(f) PROVE HelperIsAllowed'
  <2>1. PICK s, c : /\ c = [card EXCEPT !.isStarting = TRUE, !.statusWhenStarting = card.info.status,
                                        !.request = [file |-> f, allow |-> ~s]]
                    /\ card' = c
    BY <1>3 DEF Service!ConfirmInstall
  <2>2. DOMAIN c = DOMAIN card /\ c.request = [file |-> f, allow |-> ~s]
    BY <2>1 DEF HelperIsAllowed
  <2>3. c.request.allow \in BOOLEAN
    BY <2>2
  <2> QED
    BY <1>3, <2>1, <2>2, <2>3 DEF Service!ConfirmInstall, HelperIsAllowed, Service!UnsignedOnlyIfAccepted, Service!disk
<1>4. CASE Service!install
  <2>1. PICK f, allow : /\ f = card.request.file /\ allow = card.request.allow /\ card.request # None
                        /\ card' = [card EXCEPT !.request = None] /\ UNCHANGED installed
                        /\ \/ UNCHANGED helper
                           \/ ~Service!Refused(f, allow) /\ helper' = Service!HelperArguments(f, allow)
    BY <1>4 DEF Service!install
  <2>2. DOMAIN card' = DOMAIN card /\ card'.request = None /\ allow \in BOOLEAN
    BY <2>1 DEF HelperIsAllowed
  <2>3. CASE UNCHANGED helper
    BY <1>1, <2>1, <2>2, <2>3
  <2>4. CASE ~Service!Refused(f, allow) /\ helper' = Service!HelperArguments(f, allow)
    <3>1. PICK b : b = (info.bundles[f] # "VALID") /\ b \in BOOLEAN
      OBVIOUS
    <3>2. helper' = [file |-> f, allow |-> b, accepted |-> allow, pc |-> "start"]
      BY <2>4, <3>1 DEF Service!HelperArguments
    <3>3. b = TRUE => allow = TRUE
      BY <2>2, <2>4, <3>1 DEF Service!Refused
    <3> QED
      BY <2>1, <2>2, <3>2, <3>3 DEF HelperIsAllowed, Service!UnsignedOnlyIfAccepted
  <2> QED
    BY <2>1, <2>3, <2>4
<1>5. CASE Service!HelperInstalls
  <2>1. PICK i : /\ installed' = installed \cup {i} /\ helper # None /\ helper' = None
                 /\ i = [signed |-> stick[helper.file].signed, accepted |-> helper.accepted]
                 /\ stick[helper.file].signed \/ helper.allow
                 /\ card' = [card EXCEPT !.request = None]
    BY <1>5 DEF Service!HelperInstalls
  <2>2. i.signed \/ i.accepted
    BY <2>1 DEF HelperIsAllowed
  <2>3. DOMAIN card' = DOMAIN card /\ card'.request = None
    BY <2>1 DEF HelperIsAllowed
  <2> QED
    BY <2>1, <2>2, <2>3 DEF HelperIsAllowed, Service!UnsignedOnlyIfAccepted
<1>6. CASE Service!HelperStarted
  BY <1>6 DEF Service!HelperStarted, HelperIsAllowed, Service!UnsignedOnlyIfAccepted
<1>7. CASE Service!InstallResolves \/ Service!HelperFails
  BY <1>7 DEF Service!InstallResolves, Service!HelperFails, HelperIsAllowed, Service!UnsignedOnlyIfAccepted
<1>8. CASE Service!InstallTooLate
  BY <1>1, <1>8 DEF Service!InstallTooLate, HelperIsAllowed, Service!disk
<1>9. CASE Service!CardReceives
  <2>1. DOMAIN card' = DOMAIN card /\ card'.request = card.request
    BY <1>9 DEF Service!CardReceives, HelperIsAllowed
  <2> QED
    BY <1>1, <1>9, <2>1 DEF Service!CardReceives, Service!disk
<1>10. CASE UNCHANGED Service!vars
  BY <1>2, <1>10 DEF Service!vars, Service!disk
<1>11. CASE Service!PollingTick \/ Service!ReadStep
  BY <1>2, <1>11 DEF Service!PollingTick, Service!ReadStep, Service!findBundles, Service!readStatus, Service!updateInfo, Service!disk
<1>12. ASSUME NEW on, Service!setPolling(on) PROVE HelperIsAllowed'
  BY <1>2, <1>12 DEF Service!setPolling, Service!disk
<1>13. ASSUME NEW f, Service!StickChanges(f) PROVE HelperIsAllowed'
  BY <1>2, <1>13 DEF Service!StickChanges
<1> QED
  BY <1>3, <1>4, <1>5, <1>6, <1>7, <1>8, <1>9, <1>10, <1>11, <1>12, <1>13 DEF Service!Next

\* Whatever happens to the sticks after the master confirmed a bundle and after its signature was read or taken
\* from the cache, a bundle that is not signed is installed only if the master accepted that (install,
\* checkSignature): the helper gets --allow-unsigned only for a bundle that the service took for unsigned.
THEOREM UnsignedIsAccepted == Service!Spec => []UnsignedOnlyIfAccepted
<1>1. Service!Init => HelperIsAllowed
  BY DEF Service!Init, HelperIsAllowed, Service!UnsignedOnlyIfAccepted
<1>2. HelperIsAllowed => UnsignedOnlyIfAccepted
  BY DEF HelperIsAllowed, UnsignedOnlyIfAccepted
<1> QED
  BY <1>1, <1>2, ServiceInstalls, PTL DEF Service!Spec

\* What the service makes of a status: none is none of what buzzerbox-update writes.
Told(state, time) == [state |-> state, time |-> time]
StatusIsWritten == \A state : \A time : Told(state, time) # None

\* when the status was written that is on the card
Written == Service!TimeOf(statusFile)
IsStatus(s) == s # None => s.time \in Nat

\* Refreshes run one after the other: what one of them reads was not written before what the master was told.
ReadsForward ==
  /\ IsStatus(statusFile) /\ asOf \in Nat /\ asOf <= Written
  /\ DOMAIN read = {1, 2} /\ read[2] = Service!NoRead
  /\ {"bundles", "status", "left", "asOf"} \subseteq DOMAIN read[1]
  /\ isRefreshing \in BOOLEAN /\ isRefreshRequested \in BOOLEAN
  /\ ~isRefreshing => read[1] = Service!NoRead
  /\ read[1] # Service!NoRead /\ "status" \notin read[1].left =>
       /\ read[1].asOf \in Nat /\ asOf <= read[1].asOf /\ read[1].asOf <= Written
       /\ Service!TimeOf(read[1].status) \in {0, read[1].asOf}

\* what the master is told next
Forward == asOf' >= asOf /\ (info'.status = info.status \/ Service!TimeOf(info'.status) \in {0, asOf'})

LEMMA TimesAreNumbers == \A s : IsStatus(s) => Service!TimeOf(s) \in Nat
BY DEF IsStatus, Service!TimeOf

LEMMA IsWritten ==
  ASSUME StatusIsWritten, IsStatus(statusFile), NEW state, Service!WriteStatus(state)
  PROVE  IsStatus(statusFile') /\ Written' \in Nat /\ Written \in Nat /\ Written <= Written'
<1>1. PICK n : n = Service!TimeOf(statusFile) /\ n \in Nat
  BY TimesAreNumbers
<1>2. PICK m : m = n + 1 /\ m \in Nat /\ n <= m
  BY <1>1
<1>3. statusFile' = Told(state, m) /\ statusFile' # None /\ statusFile'.time = m
  BY <1>1, <1>2 DEF Service!WriteStatus, Told, StatusIsWritten
<1>4. Service!TimeOf(statusFile') = m
  BY <1>3 DEF Service!TimeOf
<1> QED
  BY <1>1, <1>2, <1>3, <1>4 DEF IsStatus, Written

LEMMA Stands ==
  ASSUME UNCHANGED statusFile
  PROVE  Written' = Written
BY DEF Written, Service!TimeOf

\* a step that writes a status, or none, and reads nothing
LEMMA WritesForward ==
  ASSUME StatusIsWritten, ReadsForward, UNCHANGED <<asOf, read, isRefreshing, isRefreshRequested>>,
         UNCHANGED statusFile \/ \E state : Service!WriteStatus(state)
  PROVE  ReadsForward'
<1>1. CASE UNCHANGED statusFile
  BY <1>1, Stands DEF ReadsForward
<1>2. ASSUME NEW state, Service!WriteStatus(state) PROVE ReadsForward'
  <2>1. PICK m, n : m = Written /\ n = Written' /\ m \in Nat /\ n \in Nat /\ m <= n /\ IsStatus(statusFile')
    BY <1>2, IsWritten DEF ReadsForward
  <2>2. asOf' \in Nat /\ asOf' <= Written'
    BY <2>1 DEF ReadsForward
  <2>3. read[1] # Service!NoRead /\ "status" \notin read[1].left => read[1].asOf <= Written'
    BY <2>1 DEF ReadsForward
  <2> QED
    BY <2>1, <2>2, <2>3 DEF ReadsForward
<1> QED
  BY <1>1, <1>2

\* a read that begins has read nothing
LEMMA Begins ==
  ASSUME NEW old, DOMAIN old = {1, 2}, NEW new, new = [old EXCEPT ![1] = [Service!NoRead EXCEPT !.left = {"bundles", "status"}]]
  PROVE  /\ DOMAIN new = {1, 2} /\ new[2] = old[2]
         /\ {"bundles", "status", "left", "asOf"} \subseteq DOMAIN new[1] /\ "status" \in new[1].left
<1>1. new[1] = [Service!NoRead EXCEPT !.left = {"bundles", "status"}] /\ DOMAIN new = {1, 2} /\ new[2] = old[2]
  OBVIOUS
<1> QED
  BY <1>1 DEF Service!NoRead

LEMMA RefreshesForward ==
  ASSUME ReadsForward, Service!refresh, UNCHANGED statusFile
  PROVE  ReadsForward' /\ UNCHANGED asOf
<1>1. CASE isRefreshing
  BY <1>1, Stands DEF ReadsForward, Service!refresh
<1>2. CASE ~isRefreshing
  <2>1. /\ read' = [read EXCEPT ![1] = [Service!NoRead EXCEPT !.left = {"bundles", "status"}]]
        /\ isRefreshing' = TRUE /\ UNCHANGED <<isRefreshRequested, asOf>>
    BY <1>2 DEF Service!refresh, Service!StartRead
  <2>2. /\ DOMAIN read' = {1, 2} /\ read'[2] = read[2]
        /\ {"bundles", "status", "left", "asOf"} \subseteq DOMAIN read'[1] /\ "status" \in read'[1].left
    BY <2>1, Begins DEF ReadsForward
  <2> QED
    BY <2>1, <2>2, Stands DEF ReadsForward
<1> QED
  BY <1>1, <1>2

LEMMA ServiceReadsForward ==
  ASSUME StatusIsWritten, ReadsForward, [Service!Next]_Service!vars
  PROVE  ReadsForward' /\ (UNCHANGED helper => Forward)
<1>0. ASSUME UNCHANGED <<info, asOf>> PROVE Forward
  BY <1>0 DEF Forward, ReadsForward
<1>1. ASSUME UNCHANGED <<asOf, read, isRefreshing, isRefreshRequested, statusFile>> PROVE ReadsForward'
  BY <1>1, WritesForward
<1>2. ASSUME NEW on, Service!setPolling(on) PROVE ReadsForward' /\ UNCHANGED <<info, asOf>>
  BY <1>1, <1>2, RefreshesForward DEF Service!setPolling, Service!disk, Service!refreshing
<1>3. ASSUME Service!PollingTick PROVE ReadsForward' /\ UNCHANGED <<info, asOf>>
  BY <1>3, RefreshesForward DEF Service!PollingTick, Service!disk
<1>4. ASSUME Service!InstallResolves PROVE ReadsForward' /\ UNCHANGED <<info, asOf>>
  BY <1>4, RefreshesForward DEF Service!InstallResolves
<1>5. ASSUME NEW f, Service!ConfirmInstall(f) \/ Service!StickChanges(f) PROVE ReadsForward' /\ UNCHANGED <<info, asOf>>
  BY <1>1, <1>5 DEF Service!ConfirmInstall, Service!StickChanges, Service!disk, Service!refreshing
<1>6. ASSUME Service!install \/ Service!InstallTooLate \/ Service!CardReceives PROVE ReadsForward' /\ UNCHANGED <<info, asOf>>
  BY <1>1, <1>6 DEF Service!install, Service!InstallTooLate, Service!CardReceives, Service!disk, Service!refreshing
<1>7. ASSUME Service!HelperStarted \/ Service!HelperFails PROVE ReadsForward' /\ UNCHANGED <<info, asOf>>
  BY <1>7, WritesForward DEF Service!HelperStarted, Service!HelperFails, Service!refreshing
<1>8. ASSUME NEW r, r \in Service!Reads, Service!findBundles(r) PROVE ReadsForward' /\ UNCHANGED <<info, asOf>>
  <2>1. read[r] # Service!NoRead
    BY <1>8 DEF Service!findBundles, Service!NoRead
  <2>2. r = 1
    BY <1>8, <2>1 DEF ReadsForward, Service!Reads
  <2>3. PICK b : read' = [read EXCEPT ![1].left = @ \ {"bundles"}, ![1].bundles = b]
    BY <1>8, <2>2 DEF Service!findBundles
  <2>4. PICK old, new : old = read[1] /\ new = read'[1]
    OBVIOUS
  <2>5. /\ DOMAIN read' = {1, 2} /\ read'[2] = read[2]
        /\ new = [old EXCEPT !.left = @ \ {"bundles"}, !.bundles = b]
    BY <2>3, <2>4 DEF ReadsForward
  <2>6. {"bundles", "status", "left", "asOf"} \subseteq DOMAIN new /\ new.status = old.status /\ new.asOf = old.asOf /\ ("status" \in new.left <=> "status" \in old.left)
    BY <2>4, <2>5 DEF ReadsForward
  <2>7. UNCHANGED <<info, asOf, statusFile, isRefreshing, isRefreshRequested>> /\ isRefreshing
    BY <1>8, <2>1, <2>2 DEF Service!findBundles, Service!disk, ReadsForward
  <2> QED
    BY <2>1, <2>2, <2>4, <2>5, <2>6, <2>7, Stands DEF ReadsForward
<1>9. ASSUME NEW r, r \in Service!Reads, Service!readStatus(r) PROVE ReadsForward' /\ UNCHANGED <<info, asOf>>
  <2>1. read[r] # Service!NoRead
    BY <1>9 DEF Service!readStatus, Service!NoRead
  <2>2. r = 1
    BY <1>9, <2>1 DEF ReadsForward, Service!Reads
  <2>3. PICK s \in {statusFile, None} :
          read' = [read EXCEPT ![1].left = @ \ {"status"}, ![1].status = s, ![1].asOf = Written]
    BY <1>9, <2>2 DEF Service!readStatus, Written
  <2>4. PICK old, new : old = read[1] /\ new = read'[1]
    OBVIOUS
  <2>5. /\ DOMAIN read' = {1, 2} /\ read'[2] = read[2]
        /\ new = [old EXCEPT !.left = @ \ {"status"}, !.status = s, !.asOf = Written]
    BY <2>3, <2>4 DEF ReadsForward
  <2>6. {"bundles", "status", "left", "asOf"} \subseteq DOMAIN new /\ new.status = s /\ new.asOf = Written
    BY <2>4, <2>5 DEF ReadsForward
  <2>7. UNCHANGED <<info, asOf, statusFile, isRefreshing, isRefreshRequested>> /\ isRefreshing
    BY <1>9, <2>1, <2>2 DEF Service!readStatus, Service!disk, ReadsForward
  <2>8. Written \in Nat /\ Service!TimeOf(s) \in {0, Written}
    <3>1. Written \in Nat
      BY TimesAreNumbers DEF ReadsForward, Written
    <3>2. Service!TimeOf(s) \in {0, Written}
      BY DEF Service!TimeOf, Written
    <3> QED
      BY <3>1, <3>2
  <2>9. new.asOf \in Nat /\ asOf <= new.asOf /\ new.asOf <= Written /\ Service!TimeOf(new.status) \in {0, new.asOf}
    BY <2>6, <2>8 DEF ReadsForward
  <2> QED
    BY <2>4, <2>5, <2>6, <2>7, <2>9, Stands DEF ReadsForward
<1>10. ASSUME NEW r, r \in Service!Reads, Service!updateInfo(r)
       PROVE  ReadsForward' /\ Forward
  <2>1. read[r] # Service!NoRead /\ read[r].left = {} /\ UNCHANGED statusFile /\ asOf' = read[r].asOf
        /\ info' = [bundles |-> read[r].bundles, status |-> read[r].status]
    BY <1>10 DEF Service!updateInfo, Service!disk
  <2>2. r = 1
    BY <1>10, <2>1 DEF ReadsForward, Service!Reads
  <2>3. PICK s : s = read[1].status /\ info'.status = s
    BY <2>1, <2>2
  <2>4. asOf' \in Nat /\ asOf' >= asOf /\ asOf' <= Written /\ Service!TimeOf(s) \in {0, asOf'}
    BY <2>1, <2>2, <2>3 DEF ReadsForward
  <2>5. /\ DOMAIN read' = {1, 2} /\ read'[2] = read[2]
        /\ {"bundles", "status", "left", "asOf"} \subseteq DOMAIN read'[1] /\ ("status" \in read'[1].left \/ read'[1] = Service!NoRead)
        /\ isRefreshing' \in BOOLEAN /\ isRefreshRequested' \in BOOLEAN /\ (~isRefreshing' => read'[1] = Service!NoRead)
    <3>1. CASE isRefreshRequested
      <4>1. read' = [read EXCEPT ![1] = [Service!NoRead EXCEPT !.left = {"bundles", "status"}]]
        BY <1>10, <2>2, <3>1 DEF Service!updateInfo
      <4> QED
        <5>1. /\ DOMAIN read' = {1, 2} /\ read'[2] = read[2]
              /\ {"bundles", "status", "left", "asOf"} \subseteq DOMAIN read'[1] /\ "status" \in read'[1].left
          BY <4>1, Begins DEF ReadsForward
        <5>2. isRefreshing' = TRUE /\ isRefreshRequested' = FALSE
          BY <1>10, <3>1 DEF ReadsForward, Service!updateInfo
        <5> QED
          BY <5>1, <5>2
    <3>2. CASE ~isRefreshRequested
      <4>1. read' = [read EXCEPT ![1] = Service!NoRead]
        BY <1>10, <2>2, <3>2 DEF Service!updateInfo
      <4>2. DOMAIN read' = {1, 2} /\ read'[2] = read[2] /\ read'[1] = Service!NoRead
        BY <4>1 DEF ReadsForward
      <4>3. {"bundles", "status", "left", "asOf"} \subseteq DOMAIN Service!NoRead
        BY DEF Service!NoRead
      <4>4. isRefreshing' = isRefreshRequested /\ isRefreshRequested' = FALSE
        BY <1>10 DEF Service!updateInfo
      <4> QED
        BY <4>2, <4>3, <4>4 DEF ReadsForward
    <3> QED
      BY <3>1, <3>2
  <2>6. Forward
    BY <2>3, <2>4 DEF Forward
  <2> QED
    BY <2>1, <2>4, <2>5, <2>6, Stands DEF ReadsForward
\* the server starts anew
<1>11. ASSUME Service!HelperInstalls PROVE ReadsForward' /\ helper' # helper
  <2>1. /\ asOf' = 0 /\ helper # None /\ helper' = None /\ isRefreshing' = TRUE /\ isRefreshRequested' = FALSE /\ Service!WriteStatus("succeeded")
        /\ read' = [r \in {1, 2} |-> IF r = 1 THEN [Service!NoRead EXCEPT !.left = {"bundles", "status"}] ELSE Service!NoRead]
    BY <1>11 DEF Service!HelperInstalls, Service!Reads
  <2>2. IsStatus(statusFile') /\ Written' \in Nat
    BY <2>1, IsWritten DEF ReadsForward
  <2>3. asOf' \in Nat /\ asOf' <= Written'
    BY <2>1, <2>2
  <2>4. DOMAIN read' = {1, 2} /\ read'[2] = Service!NoRead /\ read'[1] = [Service!NoRead EXCEPT !.left = {"bundles", "status"}]
    BY <2>1
  <2>5. {"bundles", "status", "left", "asOf"} \subseteq DOMAIN read'[1] /\ "status" \in read'[1].left
    BY <2>4 DEF Service!NoRead
  <2> QED
    BY <2>1, <2>2, <2>3, <2>4, <2>5 DEF ReadsForward
<1>12. ASSUME UNCHANGED Service!vars PROVE ReadsForward' /\ UNCHANGED <<info, asOf>>
  BY <1>1, <1>12 DEF Service!vars, Service!disk, Service!refreshing
<1> QED
  BY <1>0, <1>2, <1>3, <1>4, <1>5, <1>6, <1>7, <1>8, <1>9, <1>10, <1>11, <1>12 DEF Service!Next, Service!ReadStep

\* "refreshes are run one after the other, or an older one could win" (update.service.ts): whatever is asked for
\* while a refresh reads, and whenever it reads the status, finds it, can't read it or takes it for too old, the
\* master is told of no status that is older than one it was told before, as long as the same server runs.
THEOREM InfoIsForward == StatusIsWritten => (Service!Spec => Service!InfoGoesForward)
<1> SUFFICES ASSUME StatusIsWritten PROVE Service!Spec => Service!InfoGoesForward
  OBVIOUS
<1>1. Service!Init => ReadsForward
  <2> SUFFICES ASSUME Service!Init PROVE ReadsForward
    OBVIOUS
  <2>1. statusFile = None /\ asOf = 0 /\ isRefreshing = FALSE /\ isRefreshRequested = FALSE
    BY DEF Service!Init
  <2>2. read = [r \in {1, 2} |-> Service!NoRead]
    BY DEF Service!Init, Service!Reads
  <2>3. DOMAIN read = {1, 2} /\ read[1] = Service!NoRead /\ read[2] = Service!NoRead
    BY <2>2
  <2>4. {"bundles", "status", "left", "asOf"} \subseteq DOMAIN Service!NoRead
    BY DEF Service!NoRead
  <2>5. Written = 0 /\ IsStatus(statusFile)
    BY <2>1 DEF Written, Service!TimeOf, IsStatus
  <2>6. asOf \in Nat /\ asOf <= Written
    BY <2>1, <2>5
  <2> QED
    BY <2>1, <2>3, <2>4, <2>5, <2>6 DEF ReadsForward
<1>2. ReadsForward /\ [Service!Next]_Service!vars => ReadsForward'
  BY ServiceReadsForward
<1>3. ReadsForward /\ [Service!Next]_Service!vars =>
        [UNCHANGED helper => asOf' >= asOf /\ (info'.status = info.status \/ Service!TimeOf(info'.status) \in {0, asOf'})]_Service!vars
  BY ServiceReadsForward DEF Forward
<1> QED
  BY <1>1, <1>2, <1>3, PTL DEF Service!Spec, Service!InfoGoesForward
=============================================================================
