-------------------------- MODULE AutosaveProofs --------------------------
(***************************************************************************)
(* What holds of saving games one after the other, for any number of       *)
(* games, changes, file names and pulls of the stick.                      *)
(***************************************************************************)
EXTENDS Autosave, TLAPS

----------------------------------------------------------------------------
(* The invariant: what each save and job that is underway is about, and    *)
(* where the files come from.                                              *)

Types ==
  /\ plays \in 0 .. MaxPlay
  /\ ref \in Play \cup {None}
  /\ ready \subseteq Play
  /\ name \in [Play -> Name]
  /\ version \in [Play -> Version]
  /\ dirty \in BOOLEAN /\ timer \in BOOLEAN
  /\ saving \in Save \cup {None}
  /\ job \in [Play -> Job \cup {None}]
  /\ files \in [Name -> File \cup {None}]

\* the play that is saved has not ended, and the timer is its own
Current ==
  /\ ref # None => ref <= plays /\ job[ref] = None
  /\ timer => ref # None
  /\ \A p \in Play : p > plays => job[p] = None /\ p \notin ready
  /\ saving # None => saving.of <= plays

\* a file is written or deleted only under the name that was found for it
Named ==
  /\ saving # None /\ saving.at # "ready" => saving.of \in ready
  /\ \A p \in Play : job[p] # None /\ job[p].at # "ready" => p \in ready
  /\ \A n \in Name : files[n] # None /\ files[n].by # 0 => files[n].by \in ready /\ n = name[files[n].by]

\* a play that is deleted, or whose last save is being written, has no other save underway but the
\* one it waits for
Exclusive ==
  \A p \in Play : job[p] # None =>
    /\ job[p].at \in {"io", "done", "failed"} => ~job[p].waits
    /\ ~job[p].waits /\ (job[p].kind = "delete" \/ job[p].at # "ready") => saving = None \/ saving.of # p

AutosaveInv == Types /\ Current /\ Named /\ Exclusive

LEMMA NoneIsNothing ==
  None \notin Play /\ None \notin File /\ None \notin Save /\ None \notin Job
  BY NoneAssumption

LEMMA AutosaveInit == Init => AutosaveInv
<1> SUFFICES ASSUME Init PROVE AutosaveInv
  OBVIOUS
<1>1. 0 \in Version /\ 1 \in Name /\ [by |-> 0, version |-> 0] \in File
  BY BoundAssumption DEF Version, Name, File
<1>2. Types
  <2>1. 0 \in 0 .. MaxPlay
    BY BoundAssumption
  <2> QED
    BY <1>1, <2>1 DEF Init, Types
<1>3. \A n \in Name : files[n] # None => files[n].by = 0
  BY DEF Init
<1>4. \A p \in Play : job[p] = None
  BY DEF Init
<1>5. Current /\ Named /\ Exclusive
  BY <1>3, <1>4 DEF Init, Current, Named, Exclusive
<1> QED
  BY <1>2, <1>5 DEF AutosaveInv

----------------------------------------------------------------------------
(* The calls of the game server. *)

LEMMA BeginInv ==
  ASSUME AutosaveInv, NEW n \in Name, NEW isNew \in BOOLEAN, Begin(n, isNew)
  PROVE  AutosaveInv'
<1>1. plays + 1 \in Play /\ job[plays + 1] = None /\ plays \in Nat
  BY BoundAssumption DEF AutosaveInv, Types, Current, Begin, Play
<1>2. Types'
  BY <1>1, BoundAssumption DEF AutosaveInv, Types, Begin, Play, storage
<1>3. Current'
  <2>1. saving # None => saving.of \in Nat /\ saving.of <= plays
    BY DEF AutosaveInv, Types, Current, Save, Play
  <2>4. saving # None => saving.of <= plays + 1
    BY <1>1, <2>1
  <2>2. \A p \in Play : p > plays + 1 => job[p] = None /\ p \notin ready
    BY <1>1 DEF AutosaveInv, Current, Play
  <2>3. plays' = plays + 1 /\ ref' = plays + 1 /\ UNCHANGED <<job, ready, saving>>
    BY DEF Begin
  <2> QED
    BY <1>1, <2>2, <2>3, <2>4, NoneIsNothing DEF Current
<1>4. Named'
  <2>1. \A p \in ready : name'[p] = name[p]
    BY <1>1 DEF AutosaveInv, Types, Current, Begin, Play
  <2> QED
    BY <2>1 DEF AutosaveInv, Named, Begin, storage
<1>5. Exclusive'
  BY DEF AutosaveInv, Exclusive, Begin
<1> QED
  BY <1>2, <1>3, <1>4, <1>5 DEF AutosaveInv

LEMMA ReadyResolvesInv ==
  ASSUME AutosaveInv, NEW p \in Play, ReadyResolves(p)
  PROVE  AutosaveInv'
<1>1. /\ \A q \in Play \ {p} : name'[q] = name[q]
      /\ name' \in [Play -> Name]
  BY DEF AutosaveInv, Types, ReadyResolves
<1>2. Types'
  BY DEF AutosaveInv, Types, ReadyResolves, timers, storage
<1>3. Current'
  <2>1. ~(p > plays) /\ ready' = ready \cup {p} /\ UNCHANGED <<plays, ref, timer, job, saving>>
    BY DEF AutosaveInv, Types, ReadyResolves, Play, timers
  <2> QED
    BY <2>1 DEF AutosaveInv, Current
<1>4. Named'
  <2>1. \A n \in Name : files[n] # None /\ files[n].by # 0 => files[n].by # p
    BY DEF AutosaveInv, Named, ReadyResolves
  <2> QED
    BY <1>1, <2>1 DEF AutosaveInv, Types, Named, ReadyResolves, Save, storage
<1>5. Exclusive'
  BY DEF AutosaveInv, Exclusive, ReadyResolves
<1> QED
  BY <1>2, <1>3, <1>4, <1>5 DEF AutosaveInv

LEMMA GameChangesInv ==
  ASSUME AutosaveInv, GameChanges
  PROVE  AutosaveInv'
<1>1. ref \in Play /\ version[ref] + 1 \in Version
  BY BoundAssumption DEF AutosaveInv, Types, GameChanges, Version
<1>2. Types'
  BY <1>1 DEF AutosaveInv, Types, GameChanges, storage
<1> QED
  BY <1>2 DEF AutosaveInv, Current, Named, Exclusive, GameChanges, storage

\* The play that is saved ends, and gets a job of its own or none.
LEMMA EndsInv ==
  ASSUME AutosaveInv, ref # None, Stop, NEW j \in Job, j.at = "ready",
         job' \in {job, [job EXCEPT ![ref] = j]},
         j.kind = "delete" /\ ~j.waits => saving = None,
         UNCHANGED <<plays, continued, name, version, ready, retry, saving, storage>>
  PROVE  AutosaveInv'
<1>1. ref \in Play /\ ref <= plays /\ job[ref] = None /\ j # None
  BY NoneIsNothing DEF AutosaveInv, Types, Current
<1>2. \A p \in Play \ {ref} : job'[p] = job[p]
  BY <1>1 DEF AutosaveInv, Types
<1>3. job'[ref] \in {None, j}
  BY <1>1 DEF AutosaveInv, Types
<1>4. Types'
  BY <1>1 DEF AutosaveInv, Types, Stop, storage
<1>5. Current'
  BY <1>1, <1>2, <1>3 DEF AutosaveInv, Types, Current, Stop, Play
<1>6. Named'
  BY <1>1, <1>2, <1>3 DEF AutosaveInv, Named, storage
<1>7. Exclusive'
  BY <1>1, <1>2, <1>3 DEF AutosaveInv, Exclusive
<1> QED
  BY <1>4, <1>5, <1>6, <1>7 DEF AutosaveInv

LEMMA EndInv ==
  ASSUME AutosaveInv, End
  PROVE  AutosaveInv'
<1> DEFINE j == [kind |-> "write", at |-> "ready", waits |-> FALSE]
<1>1. j \in Job
  BY DEF Job
<1> QED
  BY <1>1, EndsInv DEF End

LEMMA DiscardInv ==
  ASSUME AutosaveInv, Discard
  PROVE  AutosaveInv'
<1> DEFINE j == [kind |-> "delete", at |-> "ready", waits |-> saving # None]
<1>1. j \in Job
  BY DEF Job
<1> QED
  BY <1>1, EndsInv DEF Discard

----------------------------------------------------------------------------
(* The saves. *)

LEMMA TimerFiresInv ==
  ASSUME AutosaveInv, TimerFires
  PROVE  AutosaveInv'
<1>1. ref \in Play /\ ref <= plays /\ job[ref] = None
  BY DEF AutosaveInv, Types, Current, TimerFires
<1>2. 0 \in Version
  BY BoundAssumption DEF Version
<1>3. saving' \in {saving, [of |-> ref, at |-> "ready", content |-> 0]}
  BY DEF TimerFires
<1>4. Types'
  BY <1>1, <1>2, <1>3 DEF AutosaveInv, Types, TimerFires, service, storage, Save
<1> QED
  BY <1>1, <1>3, <1>4 DEF AutosaveInv, Current, Named, Exclusive, TimerFires, service, storage

LEMMA RetryFiresInv ==
  ASSUME AutosaveInv, RetryFires
  PROVE  AutosaveInv'
<1>1. Types'
  BY DEF AutosaveInv, Types, RetryFires, service, storage
<1> QED
  BY <1>1 DEF AutosaveInv, Current, Named, Exclusive, RetryFires, service, storage

\* A save that ends lets the jobs go on that waited for it.
LEMMA SaveEndsInv ==
  ASSUME AutosaveInv, saving # None, SaveEnds, dirty' \in BOOLEAN,
         UNCHANGED <<service, ready>>, files' \in [Name -> File \cup {None}],
         \A n \in Name : files'[n] # None /\ files'[n].by # 0 =>
           files'[n].by \in ready /\ n = name[files'[n].by]
  PROVE  AutosaveInv'
<1>1. saving \in Save /\ saving' = None
  BY DEF AutosaveInv, Types, SaveEnds
<1>2. timer' = (timer \/ (dirty' /\ ref = saving.of /\ info' # "error"))
  BY DEF SaveEnds
<1>3. timer' \in BOOLEAN /\ (timer' => ref # None)
  <2>1. saving.of # None
    BY <1>1, NoneIsNothing DEF Save
  <2> QED
    BY <1>2, <2>1 DEF AutosaveInv, Types, Current
<1>4. \A p \in Play : job'[p] =
        IF job[p] # None /\ job[p].waits
        THEN [job[p] EXCEPT !.waits = FALSE, !.at = IF @ = "saving" THEN "io" ELSE @]
        ELSE job[p]
  BY DEF SaveEnds
<1>5. \A p \in Play : job[p] \in Job \cup {None}
  BY DEF AutosaveInv, Types
<1>6. \A p \in Play : job'[p] \in Job \cup {None}
  <2> SUFFICES ASSUME NEW p \in Play PROVE job'[p] \in Job \cup {None}
    OBVIOUS
  <2>1. CASE job[p] # None /\ job[p].waits
    <3>1. job[p] \in Job
      BY <1>5, <2>1
    <3>2. [job[p] EXCEPT !.waits = FALSE, !.at = IF @ = "saving" THEN "io" ELSE @] \in Job
      BY <3>1 DEF Job
    <3> QED
      BY <1>4, <2>1, <3>2
  <2>2. CASE ~(job[p] # None /\ job[p].waits)
    BY <1>4, <1>5, <2>2
  <2> QED
    BY <2>1, <2>2
<1>7. \A p \in Play : job[p] = None => job'[p] = None
  BY <1>4
<1>8. \A p \in Play : job[p] # None => (job'[p].at = job[p].at \/ job[p].at = "saving") /\ ~job'[p].waits
  BY <1>4, <1>5 DEF Job
<1>9. Types'
  <2>1. job' \in [Play -> Job \cup {None}]
    BY <1>6 DEF SaveEnds
  <2> QED
    BY <1>1, <1>3, <2>1 DEF AutosaveInv, Types, service
<1>10. Current'
  BY <1>1, <1>3, <1>7 DEF AutosaveInv, Types, Current, service
<1>11. Named'
  BY <1>1, <1>7, <1>8 DEF AutosaveInv, Named, service
<1>12. Exclusive'
  BY <1>1, <1>7, <1>8 DEF Exclusive
<1> QED
  BY <1>9, <1>10, <1>11, <1>12 DEF AutosaveInv

\* A save that writes next, or got its content.
LEMMA SaveGoesOnInv ==
  ASSUME AutosaveInv, saving # None, saving.of \in ready,
         NEW at \in {"write", "rename"}, NEW content \in Version,
         saving' = [saving EXCEPT !.at = at, !.content = content],
         dirty' \in BOOLEAN, UNCHANGED <<service, ready, timer, job, storage>>
  PROVE  AutosaveInv'
<1>1. saving \in Save
  BY DEF AutosaveInv, Types
<1>2. saving' \in Save /\ saving'.of = saving.of
  BY <1>1 DEF Save
<1>3. Types'
  BY <1>2 DEF AutosaveInv, Types, service, storage
<1> QED
  BY <1>2, <1>3 DEF AutosaveInv, Current, Named, Exclusive, service, storage

LEMMA SaveProceedsInv ==
  ASSUME AutosaveInv, SaveProceeds
  PROVE  AutosaveInv'
<1>1. saving \in Save /\ saving.of \in ready
  BY DEF AutosaveInv, Types, SaveProceeds
<1>2. CASE ref = saving.of /\ dirty
  <2>1. saving.content \in Version /\ saving' = [saving EXCEPT !.at = "write", !.content = saving.content]
    BY <1>1, <1>2 DEF SaveProceeds, Save
  <2> QED
    BY <1>1, <1>2, <2>1, SaveGoesOnInv DEF SaveProceeds
<1>3. CASE ~(ref = saving.of /\ dirty)
  BY <1>1, <1>3, SaveEndsInv DEF SaveProceeds, AutosaveInv, Types, Named, storage
<1> QED
  BY <1>2, <1>3

LEMMA SaveMakesContentInv ==
  ASSUME AutosaveInv, SaveMakesContent
  PROVE  AutosaveInv'
<1>1. saving \in Save /\ saving.of \in ready /\ version[saving.of] \in Version
  BY DEF AutosaveInv, Types, Named, SaveMakesContent, Save
<1> QED
  BY <1>1, SaveGoesOnInv DEF SaveMakesContent, AutosaveInv, Types, timers

\* What is written under a play's name is its own.
LEMMA WrittenFile ==
  ASSUME AutosaveInv, NEW p \in ready, NEW v \in Version,
         files' = [files EXCEPT ![name[p]] = [by |-> p, version |-> v]]
  PROVE  /\ files' \in [Name -> File \cup {None}]
         /\ \A n \in Name : files'[n] # None /\ files'[n].by # 0 =>
              files'[n].by \in ready /\ n = name[files'[n].by]
<1>1. [by |-> p, version |-> v] \in File
  BY DEF AutosaveInv, Types, File
<1>2. \A n \in Name : files'[n] = IF n = name[p] THEN [by |-> p, version |-> v] ELSE files[n]
  BY DEF AutosaveInv, Types
<1> QED
  BY <1>1, <1>2 DEF AutosaveInv, Types, Named

LEMMA SaveSucceedsInv ==
  ASSUME AutosaveInv, SaveSucceeds
  PROVE  AutosaveInv'
<1>1. saving \in Save /\ saving.of \in ready /\ saving.content \in Version
  BY DEF AutosaveInv, Types, Named, SaveSucceeds, Save
<1> QED
  BY <1>1, WrittenFile, SaveEndsInv DEF SaveSucceeds, AutosaveInv, Types

LEMMA SaveFailsInv ==
  ASSUME AutosaveInv, SaveFails
  PROVE  AutosaveInv'
  BY SaveEndsInv DEF SaveFails, AutosaveInv, Types, Named, storage

----------------------------------------------------------------------------
(* The jobs of the plays that ended. *)

LEMMA JobStartsInv ==
  ASSUME AutosaveInv, NEW p \in Play, JobStarts(p)
  PROVE  AutosaveInv'
<1>1. job[p] \in Job /\ job[p].at = "ready" /\ p \in ready
  BY DEF AutosaveInv, Types, JobStarts
<1>2. WaitsForSave(p) \in BOOLEAN
  BY <1>1 DEF WaitsForSave, Job
<1>3. job'[p] = [job[p] EXCEPT !.at = IF WaitsForSave(p) THEN "saving" ELSE "io", !.waits = WaitsForSave(p)]
  BY DEF AutosaveInv, Types, JobStarts
<1>4. \A q \in Play \ {p} : job'[q] = job[q]
  BY DEF AutosaveInv, Types, JobStarts
<1>5. job'[p] \in Job /\ job'[p].waits = WaitsForSave(p) /\ job'[p].at = IF WaitsForSave(p) THEN "saving" ELSE "io"
  BY <1>1, <1>2, <1>3 DEF Job
<1>6. ASSUME ~WaitsForSave(p) PROVE saving = None \/ saving.of # p
  <2>1. CASE job[p].kind = "write"
    BY <1>6, <2>1 DEF WaitsForSave
  <2>2. CASE job[p].kind = "delete"
    BY <1>1, <1>6, <2>2, NoneIsNothing DEF WaitsForSave, AutosaveInv, Exclusive
  <2> QED
    BY <1>1, <2>1, <2>2 DEF Job
<1>7. Types'
  BY <1>1, <1>5 DEF AutosaveInv, Types, JobStarts, service, timers, storage
<1> DEFINE Others == UNCHANGED <<service, ready, timers, saving, info, storage>>
<1>8. job[p] # None /\ Others
  BY DEF JobStarts
<1>9. Current'
  <2>1. ref # None => ref \in Play \ {p}
    BY <1>8 DEF AutosaveInv, Types, Current
  <2>2. ~(p > plays)
    BY <1>8 DEF AutosaveInv, Current
  <2> QED
    BY <1>4, <1>8, <2>1, <2>2 DEF AutosaveInv, Current, service, timers
<1>10. Named'
  BY <1>1, <1>4, <1>8 DEF AutosaveInv, Named, service, storage
<1>11. Exclusive'
  <2>1. \A q \in Play \ {p} : job'[q] # None =>
          /\ job'[q].at \in {"io", "done", "failed"} => ~job'[q].waits
          /\ ~job'[q].waits /\ (job'[q].kind = "delete" \/ job'[q].at # "ready")
               => saving' = None \/ saving'.of # q
    BY <1>4, <1>8 DEF AutosaveInv, Exclusive
  <2>2. /\ job'[p].at \in {"io", "done", "failed"} => ~job'[p].waits
        /\ ~job'[p].waits => saving' = None \/ saving'.of # p
    BY <1>5, <1>6, <1>8
  <2> QED
    BY <2>1, <2>2 DEF Exclusive
<1> QED
  BY <1>7, <1>9, <1>10, <1>11 DEF AutosaveInv

\* A job that is done with its file, or failed.
LEMMA JobEndsInv ==
  ASSUME AutosaveInv, NEW p \in Play, job[p] # None, job[p].at = "io", NEW at \in {"done", "failed"},
         job' = [job EXCEPT ![p].at = at], files' \in [Name -> File \cup {None}],
         \A n \in Name : files'[n] # None /\ files'[n].by # 0 =>
           files'[n].by \in ready /\ n = name[files'[n].by],
         UNCHANGED <<service, ready, timers, saving, info, stick, pulls>>
  PROVE  AutosaveInv'
<1>1. job[p] \in Job /\ p \in ready /\ ~job[p].waits
  BY DEF AutosaveInv, Types, Named, Exclusive
<1>2. job'[p] = [job[p] EXCEPT !.at = at] /\ \A q \in Play \ {p} : job'[q] = job[q]
  BY DEF AutosaveInv, Types
<1>3. job'[p] \in Job /\ ~job'[p].waits /\ job'[p].kind = job[p].kind
  BY <1>1, <1>2 DEF Job
<1>4. saving = None \/ saving.of # p
  BY <1>1 DEF AutosaveInv, Exclusive
<1>5. Types'
  BY <1>1, <1>3 DEF AutosaveInv, Types, service, timers
<1>6. Current'
  BY <1>1, <1>2 DEF AutosaveInv, Types, Current, service, timers
<1>7. Named'
  BY <1>1, <1>2 DEF AutosaveInv, Named, service
<1>8. Exclusive'
  BY <1>2, <1>3, <1>4 DEF AutosaveInv, Exclusive
<1> QED
  BY <1>5, <1>6, <1>7, <1>8 DEF AutosaveInv

LEMMA LastSaveInv ==
  ASSUME AutosaveInv, NEW p \in Play, LastSave(p)
  PROVE  AutosaveInv'
<1>1. p \in ready /\ version[p] \in Version
  BY DEF AutosaveInv, Types, Named, LastSave
<1>2. CASE stick
  BY <1>1, <1>2, WrittenFile, JobEndsInv DEF LastSave
<1>3. CASE ~stick
  BY <1>3, JobEndsInv DEF LastSave, AutosaveInv, Types, Named
<1> QED
  BY <1>2, <1>3

LEMMA DeletionInv ==
  ASSUME AutosaveInv, NEW p \in Play, Deletion(p)
  PROVE  AutosaveInv'
<1>1. CASE stick /\ (ref # None => name[ref] # name[p])
  <2>1. files' = [files EXCEPT ![name[p]] = None]
    BY <1>1 DEF Deletion
  <2>2. files' \in [Name -> File \cup {None}] /\ \A n \in Name : files'[n] \in {files[n], None}
    BY <2>1 DEF AutosaveInv, Types
  <2> QED
    BY <1>1, <2>2, JobEndsInv DEF Deletion, AutosaveInv, Named, service
<1>2. CASE ~(stick /\ (ref # None => name[ref] # name[p]))
  BY <1>2, JobEndsInv DEF Deletion, AutosaveInv, Types, Named, service
<1> QED
  BY <1>1, <1>2

LEMMA AutosaveStep ==
  ASSUME AutosaveInv, [Next]_vars
  PROVE  AutosaveInv'
<1>1. CASE StickPulled \/ StickBack \/ UNCHANGED vars
  <2>1. Types'
    BY <1>1 DEF StickPulled, StickBack, vars, AutosaveInv, Types, service, timers, storage
  <2> QED
    BY <1>1, <2>1 DEF StickPulled, StickBack, vars, AutosaveInv, Current, Named, Exclusive, service,
       timers, storage
<1> QED
  BY <1>1, BeginInv, ReadyResolvesInv, GameChangesInv, EndInv, DiscardInv, TimerFiresInv, RetryFiresInv,
     SaveProceedsInv, SaveMakesContentInv, SaveSucceedsInv, SaveFailsInv, JobStartsInv, LastSaveInv,
     DeletionInv DEF Next, Saving, Jobs

----------------------------------------------------------------------------
(* How the files change. *)

\* What a step leaves in a file: what was there, what the save underway has, or what a last save
\* takes from a game that ended.
LEMMA FilesChange ==
  ASSUME AutosaveInv, [Next]_vars, NEW n \in Name, files'[n] # None
  PROVE  \/ files'[n] = files[n]
         \/ /\ saving # None /\ saving.at = "rename" /\ n = name[saving.of]
            /\ files'[n] = [by |-> saving.of, version |-> saving.content] /\ saving' = None
         \/ \E p \in Play : /\ job[p] # None /\ job[p].kind = "write" /\ job[p].at = "io" /\ n = name[p]
                           /\ files'[n] = [by |-> p, version |-> version[p]]
<1>1. files \in [Name -> File \cup {None}]
  BY DEF AutosaveInv, Types
<1>2. ASSUME UNCHANGED files PROVE files'[n] = files[n]
  BY <1>2
<1>3. ASSUME SaveSucceeds PROVE
        \/ files'[n] = files[n]
        \/ /\ saving # None /\ saving.at = "rename" /\ n = name[saving.of]
           /\ files'[n] = [by |-> saving.of, version |-> saving.content] /\ saving' = None
  BY <1>1, <1>3 DEF SaveSucceeds, SaveEnds
<1>4. ASSUME NEW p \in Play, LastSave(p) PROVE
        \/ files'[n] = files[n]
        \/ /\ job[p] # None /\ job[p].kind = "write" /\ job[p].at = "io" /\ n = name[p]
           /\ files'[n] = [by |-> p, version |-> version[p]]
  BY <1>1, <1>4 DEF LastSave
<1>5. ASSUME NEW p \in Play, Deletion(p) PROVE files'[n] = files[n]
  BY <1>1, <1>5 DEF Deletion
<1>6. CASE ~SaveSucceeds /\ ~(\E p \in Play : LastSave(p) \/ Deletion(p))
  <2>1. UNCHANGED files
    BY <1>6 DEF Next, Begin, ReadyResolves, GameChanges, End, Discard, TimerFires, RetryFires, Saving,
       SaveProceeds, SaveMakesContent, SaveFails, Jobs, JobStarts, StickPulled, StickBack, vars, storage
  <2> QED
    BY <1>2, <2>1
<1> QED
  BY <1>3, <1>4, <1>5, <1>6

\* A play is discarded for good only once its file was deleted.
LEMMA JobsChange ==
  ASSUME AutosaveInv, [Next]_vars, NEW p \in Play, job'[p] # None,
         job'[p].kind = "delete", job'[p].at = "done"
  PROVE  \/ job[p] # None /\ job[p].kind = "delete" /\ job[p].at = "done"
         \/ Deletion(p) /\ files' = [files EXCEPT ![name[p]] = None]
<1> DEFINE Goal == \/ job[p] # None /\ job[p].kind = "delete" /\ job[p].at = "done"
                   \/ Deletion(p) /\ files' = [files EXCEPT ![name[p]] = None]
<1>1. \A q \in Play : job[q] \in Job \cup {None}
  BY DEF AutosaveInv, Types
<1>2. ASSUME UNCHANGED job PROVE Goal
  BY <1>2
<1>3. ASSUME End \/ Discard PROVE Goal
  <2>1. ref \in Play
    BY <1>3 DEF AutosaveInv, Types, End, Discard
  <2>2. CASE p = ref
    <3>1. job'[p] \in {job[p], [kind |-> "write", at |-> "ready", waits |-> FALSE],
                      [kind |-> "delete", at |-> "ready", waits |-> saving # None]}
      BY <1>3, <2>1, <2>2 DEF End, Discard, AutosaveInv, Types
    <3> QED
      BY <3>1
  <2>3. CASE p # ref
    <3>1. job'[p] = job[p]
      BY <1>3, <2>1, <2>3 DEF End, Discard, AutosaveInv, Types
    <3> QED
      BY <3>1
  <2> QED
    BY <2>2, <2>3
<1>4. ASSUME SaveEnds PROVE Goal
  <2>1. job'[p] = IF job[p] # None /\ job[p].waits
                  THEN [job[p] EXCEPT !.waits = FALSE, !.at = IF @ = "saving" THEN "io" ELSE @]
                  ELSE job[p]
    BY <1>4 DEF SaveEnds
  <2> QED
    BY <1>1, <2>1 DEF Job
<1>5. ASSUME NEW q \in Play, JobStarts(q) PROVE Goal
  <2>1. job'[q].at \in {"saving", "io"}
    BY <1>1, <1>5 DEF JobStarts, AutosaveInv, Types, Job
  <2>2. p # q => job'[p] = job[p]
    BY <1>5 DEF JobStarts, AutosaveInv, Types
  <2> QED
    BY <2>1, <2>2
<1>6. ASSUME NEW q \in Play, LastSave(q) PROVE Goal
  <2>1. p # q => job'[p] = job[p]
    BY <1>6 DEF LastSave, AutosaveInv, Types
  <2>2. job'[q].kind = "write"
    BY <1>1, <1>6 DEF LastSave, AutosaveInv, Types, Job
  <2> QED
    BY <2>1, <2>2
<1>7. ASSUME NEW q \in Play, Deletion(q) PROVE Goal
  <2>1. p # q => job'[p] = job[p]
    BY <1>7 DEF Deletion, AutosaveInv, Types
  <2>2. CASE p = q
    <3>1. \/ files' = [files EXCEPT ![name[p]] = None]
          \/ job' = [job EXCEPT ![p].at = "failed"]
      BY <1>7, <2>2 DEF Deletion
    <3>2. job' = [job EXCEPT ![p].at = "failed"] => job'[p].at = "failed"
      BY <1>1, <1>7, <2>2 DEF Deletion, AutosaveInv, Types, Job
    <3> QED
      BY <1>7, <2>2, <3>1, <3>2
  <2> QED
    BY <2>1, <2>2
<1>8. CASE Saving
  BY <1>2, <1>4, <1>8 DEF Saving, SaveProceeds, SaveMakesContent, SaveSucceeds, SaveFails
<1> QED
  BY <1>2, <1>3, <1>5, <1>6, <1>7, <1>8 DEF Next, Begin, ReadyResolves, GameChanges, TimerFires, RetryFires,
     Jobs, StickPulled, StickBack, vars

LEMMA DiscardedStep ==
  ASSUME AutosaveInv, DiscardedStaysGone, [Next]_vars
  PROVE  DiscardedStaysGone'
<1> SUFFICES ASSUME NEW p \in Play, job'[p] # None, job'[p].kind = "delete", job'[p].at = "done",
                    NEW n \in Name, files'[n] # None, files'[n].by = p
             PROVE  FALSE
  BY DEF DiscardedStaysGone
<1>1. CASE job[p] # None /\ job[p].kind = "delete" /\ job[p].at = "done"
  <2>1. files[n] # None => files[n].by # p
    BY <1>1 DEF DiscardedStaysGone
  <2>2. saving = None \/ saving.of # p
    BY <1>1 DEF AutosaveInv, Exclusive
  <2>3. files'[n] # files[n]
    BY <2>1
  <2>4. ASSUME saving # None, files'[n] = [by |-> saving.of, version |-> saving.content] PROVE FALSE
    BY <2>2, <2>4
  <2>5. ASSUME NEW q \in Play, job[q].kind = "write", files'[n] = [by |-> q, version |-> version[q]] PROVE FALSE
    BY <1>1, <2>5
  <2> QED
    BY <2>3, <2>4, <2>5, FilesChange
<1>2. CASE Deletion(p) /\ files' = [files EXCEPT ![name[p]] = None]
  <2>1. files'[n] = files[n] /\ n # name[p]
    BY <1>2 DEF AutosaveInv, Types
  <2>2. p # 0
    BY DEF Play
  <2> QED
    BY <2>1, <2>2 DEF AutosaveInv, Named
<1> QED
  BY <1>1, <1>2, JobsChange

----------------------------------------------------------------------------
(* Files go forward: what is written, and the content of the save that is underway, is never older *)
(* than what is there already.                                                                     *)

Forward ==
  /\ \A n \in Name : files[n] # None /\ files[n].by # 0 => files[n].version <= version[files[n].by]
  /\ saving # None /\ saving.at = "rename" =>
       /\ saving.content <= version[saving.of]
       /\ \A n \in Name : files[n] # None /\ files[n].by = saving.of => files[n].version <= saving.content

LEMMA VersionsGrow ==
  ASSUME AutosaveInv, [Next]_vars
  PROVE  \A p \in Play : version[p] \in Nat /\ version'[p] \in Nat /\ version[p] <= version'[p]
<1>1. \A p \in Play : version[p] \in Nat
  BY BoundAssumption DEF AutosaveInv, Types, Version
<1>2. CASE GameChanges
  BY <1>1, <1>2 DEF GameChanges, AutosaveInv, Types
<1>3. CASE UNCHANGED version
  BY <1>1, <1>3
<1> QED
  BY <1>2, <1>3 DEF Next, Begin, ReadyResolves, End, Discard, TimerFires, RetryFires, Saving,
     SaveProceeds, SaveMakesContent, SaveSucceeds, SaveFails, Jobs, JobStarts, LastSave, Deletion,
     StickPulled, StickBack, vars, service

\* How the save that is underway gets its content.
LEMMA SavingChange ==
  ASSUME AutosaveInv, [Next]_vars, saving' # None, saving'.at = "rename"
  PROVE  \/ UNCHANGED saving
         \/ /\ saving # None /\ saving'.of = saving.of /\ saving'.content = version[saving.of]
            /\ UNCHANGED <<files, version>>
<1>1. ASSUME SaveMakesContent PROVE
        /\ saving # None /\ saving'.of = saving.of /\ saving'.content = version[saving.of]
        /\ UNCHANGED <<files, version>>
  BY <1>1 DEF SaveMakesContent, AutosaveInv, Types, Save, service, storage
<1>2. ASSUME SaveProceeds PROVE FALSE
  BY <1>2 DEF SaveProceeds, SaveEnds, AutosaveInv, Types, Save
<1>3. ASSUME TimerFires PROVE UNCHANGED saving
  BY <1>3 DEF TimerFires
<1>4. ASSUME SaveSucceeds \/ SaveFails PROVE FALSE
  BY <1>4 DEF SaveSucceeds, SaveFails, SaveEnds
<1> QED
  BY <1>1, <1>2, <1>3, <1>4 DEF Next, Begin, ReadyResolves, GameChanges, End, Discard, RetryFires, Saving, Jobs, JobStarts, LastSave, Deletion, StickPulled, StickBack, vars

LEMMA ForwardStep ==
  ASSUME AutosaveInv, Forward, [Next]_vars
  PROVE  Forward'
<1>1. \A p \in Play : version[p] \in Nat /\ version'[p] \in Nat /\ version[p] <= version'[p]
  BY VersionsGrow
<1>2. \A n \in Name : files[n] # None => files[n].by \in Play \cup {0} /\ files[n].version \in Nat
  BY BoundAssumption DEF AutosaveInv, Types, File, Version
<1>3. saving # None => saving.of \in Play /\ saving.content \in Nat
  BY BoundAssumption DEF AutosaveInv, Types, Save, Version
<1>4. ASSUME NEW n \in Name, files'[n] # None, files'[n].by # 0
      PROVE  files'[n].version <= version'[files'[n].by]
  <2>1. CASE files'[n] = files[n]
    BY <1>1, <1>2, <1>4, <2>1 DEF Forward
  <2>2. CASE /\ saving # None /\ saving.at = "rename"
             /\ files'[n] = [by |-> saving.of, version |-> saving.content]
    BY <1>1, <1>3, <2>2 DEF Forward
  <2>3. CASE \E p \in Play : files'[n] = [by |-> p, version |-> version[p]]
    BY <1>1, <2>3
  <2> QED
    BY <1>4, <2>1, <2>2, <2>3, FilesChange
<1>5. ASSUME saving' # None, saving'.at = "rename"
      PROVE  /\ saving'.content <= version'[saving'.of]
             /\ \A n \in Name : files'[n] # None /\ files'[n].by = saving'.of => files'[n].version <= saving'.content
  <2>1. CASE UNCHANGED saving
    <3>1. saving'.content <= version'[saving'.of]
      BY <1>1, <1>3, <1>5, <2>1 DEF Forward
    <3>2. ASSUME NEW n \in Name, files'[n] # None, files'[n].by = saving.of
          PROVE  files'[n].version <= saving.content
      <4>1. CASE files'[n] = files[n]
        BY <1>5, <2>1, <3>2, <4>1 DEF Forward
      <4>2. ASSUME NEW p \in Play, job[p] # None, job[p].kind = "write", job[p].at = "io",
                   files'[n] = [by |-> p, version |-> version[p]]
            PROVE  FALSE
        BY <1>5, <2>1, <3>2, <4>2 DEF AutosaveInv, Exclusive
      <4> QED
        BY <1>5, <2>1, <3>2, <4>1, <4>2, FilesChange
    <3> QED
      BY <2>1, <3>1, <3>2
  <2>2. CASE /\ saving # None /\ saving'.of = saving.of /\ saving'.content = version[saving.of]
             /\ UNCHANGED <<files, version>>
    BY <1>1, <1>3, <2>2 DEF Forward, Play
  <2> QED
    BY <1>5, <2>1, <2>2, SavingChange
<1> QED
  BY <1>4, <1>5 DEF Forward

LEMMA GoesForward ==
  ASSUME AutosaveInv, Forward, [Next]_vars, NEW n \in Name,
         files[n] # None, files'[n] # None, files'[n].by = files[n].by
  PROVE  files'[n].version >= files[n].version
<1>1. files[n].by \in Play \cup {0} /\ files[n].version \in Nat
  BY BoundAssumption DEF AutosaveInv, Types, File, Version
<1>2. \A p \in Play : version[p] \in Nat /\ p # 0
  BY BoundAssumption DEF AutosaveInv, Types, Version, Play
<1>3. saving # None => saving.of \in Play /\ saving.content \in Nat
  BY BoundAssumption DEF AutosaveInv, Types, Save, Version
<1>4. CASE files'[n] = files[n]
  BY <1>1, <1>4
<1>5. CASE saving # None /\ saving.at = "rename" /\ files'[n] = [by |-> saving.of, version |-> saving.content]
  BY <1>1, <1>3, <1>5 DEF Forward
<1>6. CASE \E p \in Play : files'[n] = [by |-> p, version |-> version[p]]
  BY <1>1, <1>2, <1>6 DEF Forward
<1> QED
  BY <1>4, <1>5, <1>6, FilesChange

----------------------------------------------------------------------------
(* The first game that is played is saved, or will be. *)

InFile == info = "saved" /\ files[name[ref]] = [by |-> ref, version |-> version[ref]]
WillBe == /\ saving # None /\ saving.of = ref
          /\ \/ saving.at = "write"
             \/ saving.at = "rename" /\ saving.content = version[ref]

LEMMA CleanStep ==
  ASSUME AutosaveInv, Forward, CleanIsSaved, [Next]_vars
  PROVE  CleanIsSaved'
<1> SUFFICES ASSUME ref' # None, ~dirty', plays' = 1 PROVE WillBe' \/ InFile'
  BY DEF CleanIsSaved, WillBe, InFile
<1>1. ASSUME ref # None, ~dirty, plays = 1 PROVE WillBe \/ InFile
  BY <1>1 DEF CleanIsSaved, WillBe, InFile
<1>2. ref # None => ref = 1 \/ plays # 1
  BY DEF AutosaveInv, Types, Current, Play
<1>3. \A p \in Play : job[p] # None /\ plays = 1 => p = 1
  BY DEF AutosaveInv, Current, Play
<1>4. saving # None /\ plays = 1 => saving.of = 1
  BY DEF AutosaveInv, Types, Current, Save, Play
<1>5. ASSUME UNCHANGED <<ref, dirty, plays, saving, info, files, name, version>> PROVE WillBe' \/ InFile'
  BY <1>1, <1>5 DEF WillBe, InFile
<1>6. ASSUME NEW n, NEW isNew, Begin(n, isNew) PROVE FALSE
  BY <1>6 DEF Begin
<1>7. ASSUME NEW p \in Play, ReadyResolves(p) PROVE WillBe' \/ InFile'
  <2>1. UNCHANGED <<ref, dirty, plays, saving, info, files, version>> /\ p \notin ready
    BY <1>7 DEF ReadyResolves, timers, storage
  <2>2. CASE WillBe
    BY <2>1, <2>2 DEF WillBe
  <2>3. CASE InFile
    <3>1. ref \in Play /\ ref # 0
      BY <2>1 DEF AutosaveInv, Types, Play
    <3>2. name[ref] \in Name
      BY <3>1 DEF AutosaveInv, Types
    <3>3. files[name[ref]] # None
      BY <2>3, <3>1, <3>2, NoneIsNothing DEF InFile, AutosaveInv, Types, File
    <3>4. ref \in ready
      BY <2>3, <3>1, <3>2, <3>3 DEF InFile, AutosaveInv, Named
    <3>5. name'[ref] = name[ref]
      BY <1>7, <2>1, <3>1, <3>4 DEF ReadyResolves, AutosaveInv, Types
    <3> QED
      BY <2>1, <2>3, <3>5 DEF InFile
  <2> QED
    BY <1>1, <2>1, <2>2, <2>3
<1>8. ASSUME GameChanges \/ RetryFires PROVE WillBe' \/ InFile'
  BY <1>5, <1>8 DEF GameChanges, RetryFires, service, storage
<1>9. ASSUME End \/ Discard PROVE FALSE
  BY <1>9 DEF End, Discard, Stop
<1>10. ASSUME TimerFires PROVE WillBe' \/ InFile'
  BY <1>1, <1>10 DEF TimerFires, WillBe, InFile, service, storage
<1>11. ASSUME SaveProceeds PROVE WillBe' \/ InFile'
  <2>1. saving \in Save /\ saving.at = "ready" /\ UNCHANGED <<ref, plays, files, name, version, info>>
    BY <1>11 DEF SaveProceeds, AutosaveInv, Types, service, storage
  <2>2. CASE ref = saving.of /\ dirty
    <3>1. saving' = [saving EXCEPT !.at = "write"]
      BY <1>11, <2>2 DEF SaveProceeds
    <3>2. saving' # None /\ saving'.of = ref' /\ saving'.at = "write"
      BY <2>1, <2>2, <3>1, NoneIsNothing DEF Save
    <3> QED
      BY <3>2 DEF WillBe
  <2>3. CASE ~(ref = saving.of /\ dirty)
    <3>1. UNCHANGED dirty
      BY <1>11, <2>3 DEF SaveProceeds
    <3> QED
      BY <1>1, <2>1, <3>1 DEF WillBe, InFile
  <2> QED
    BY <2>2, <2>3
<1>12. ASSUME SaveMakesContent PROVE WillBe' \/ InFile'
  <2>1. saving \in Save /\ saving' = [saving EXCEPT !.at = "rename", !.content = version[saving.of]]
    BY <1>12 DEF SaveMakesContent, AutosaveInv, Types
  <2>2. saving' \in Save /\ saving'.of = saving.of /\ saving'.at = "rename" /\ saving'.content = version[saving.of]
    BY <2>1 DEF Save, AutosaveInv, Types
  <2>3. saving' # None
    BY <2>2, NoneIsNothing
  <2>4. UNCHANGED <<ref, dirty, plays, info, files, name, version>>
    BY <1>12 DEF SaveMakesContent, service, timers, storage
  <2> QED
    BY <1>1, <1>12, <2>2, <2>3, <2>4 DEF WillBe, InFile, SaveMakesContent
<1>13. ASSUME SaveSucceeds PROVE InFile'
  <2>1. UNCHANGED <<ref, dirty, plays, name, version>> /\ saving \in Save /\ saving.at = "rename"
    BY <1>13 DEF SaveSucceeds, AutosaveInv, Types, service
  <2>2. ref = 1 /\ saving.of = 1 /\ ref \in Play /\ name[ref] \in Name
    BY <1>2, <1>4, <1>13, <2>1 DEF SaveSucceeds, AutosaveInv, Types
  <2>3. files'[name[ref]] = [by |-> ref, version |-> saving.content] /\ info' = "saved"
    BY <1>13, <2>2 DEF SaveSucceeds, AutosaveInv, Types
  <2>4. CASE WillBe
    BY <2>1, <2>3, <2>4 DEF WillBe, InFile
  <2>5. CASE InFile
    <3>1. saving.content \in Nat /\ version[ref] \in Nat
      BY <2>1, <2>2, BoundAssumption DEF AutosaveInv, Types, Save, Version
    <3>2. files[name[ref]] # None
      BY <2>2, <2>5, NoneIsNothing DEF InFile, AutosaveInv, Types, File
    <3>3. saving.content <= version[ref] /\ version[ref] <= saving.content
      BY <1>13, <2>1, <2>2, <2>5, <3>2 DEF Forward, InFile, SaveSucceeds
    <3>4. saving.content = version[ref]
      BY <3>1, <3>3
    <3> QED
      BY <2>1, <2>3, <3>4 DEF InFile
  <2> QED
    BY <1>1, <1>13, <2>1, <2>4, <2>5 DEF SaveSucceeds
<1>14. ASSUME SaveFails PROVE FALSE
  <2>1. ref # None /\ plays = 1 /\ saving # None
    BY <1>14 DEF SaveFails, service
  <2>2. ref = 1 /\ saving.of = 1
    BY <1>2, <1>4, <2>1
  <2> QED
    BY <1>14, <2>2 DEF SaveFails
<1>15. ASSUME NEW p \in Play, LastSave(p) \/ Deletion(p) PROVE FALSE
  <2>1. job[p] # None /\ ref # None /\ plays = 1
    BY <1>15 DEF LastSave, Deletion, service
  <2>2. ref = 1 /\ p = 1
    BY <1>2, <1>3, <2>1
  <2> QED
    BY <2>1, <2>2 DEF AutosaveInv, Current
<1>16. ASSUME NEW p \in Play, JobStarts(p) PROVE WillBe' \/ InFile'
  BY <1>5, <1>16 DEF JobStarts, service, timers, storage
<1>17. CASE StickPulled \/ StickBack \/ UNCHANGED vars
  BY <1>5, <1>17 DEF StickPulled, StickBack, vars, service, timers, storage
<1> QED
  BY <1>6, <1>7, <1>8, <1>9, <1>10, <1>11, <1>12, <1>13, <1>14, <1>15, <1>16, <1>17 DEF Next, Saving, Jobs

----------------------------------------------------------------------------
(* The theorems. *)

LEMMA ForwardInit == Init => Forward /\ DiscardedStaysGone /\ CleanIsSaved
<1> SUFFICES ASSUME Init PROVE Forward /\ DiscardedStaysGone /\ CleanIsSaved
  OBVIOUS
<1>1. \A n \in Name : files[n] # None => files[n].by = 0
  BY DEF Init
<1>2. \A p \in Play : job[p] = None
  BY DEF Init
<1> QED
  BY <1>1, <1>2 DEF Init, Forward, DiscardedStaysGone, CleanIsSaved

LEMMA AutosaveInvariant == Spec => []AutosaveInv
<1>1. AutosaveInv /\ [Next]_vars => AutosaveInv'
  BY AutosaveStep
<1> QED
  BY <1>1, AutosaveInit, PTL DEF Spec

LEMMA ForwardInvariant == Spec => []Forward
<1>1. AutosaveInv /\ Forward /\ [Next]_vars => Forward'
  BY ForwardStep
<1> QED
  BY <1>1, ForwardInit, AutosaveInvariant, PTL DEF Spec

\* What was discarded is not written again, however its deletion and the saves that are underway overlap
\* (discard(), save()).
THEOREM DiscardedIsGone == Spec => []DiscardedStaysGone
<1>1. AutosaveInv /\ DiscardedStaysGone /\ [Next]_vars => DiscardedStaysGone'
  BY DiscardedStep
<1> QED
  BY <1>1, ForwardInit, AutosaveInvariant, PTL DEF Spec

\* While the first game has nothing to be saved, its file holds it or the save that is underway will
\* (save()).
THEOREM CleanGameIsSaved == Spec => []CleanIsSaved
<1>1. AutosaveInv /\ Forward /\ CleanIsSaved /\ [Next]_vars => CleanIsSaved'
  BY CleanStep
<1> QED
  BY <1>1, ForwardInit, AutosaveInvariant, ForwardInvariant, PTL DEF Spec

\* No save of a play replaces a later one of it (save(), end()).
THEOREM NoSaveGoesBack == Spec => SavesGoForward
<1>1. AutosaveInv /\ Forward /\ [Next]_vars =>
        [\A n \in Name :
           files[n] # None /\ files'[n] # None /\ files'[n].by = files[n].by
             => files'[n].version >= files[n].version]_vars
  BY GoesForward
<1> QED
  BY <1>1, AutosaveInvariant, ForwardInvariant, PTL DEF Spec, SavesGoForward

=============================================================================
