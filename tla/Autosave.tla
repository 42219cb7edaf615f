------------------------------ MODULE Autosave ------------------------------
(***************************************************************************)
(* AutosaveService (server/services/autosave.service.ts): how the games    *)
(* that are played one after the other get into their state files.         *)
(*                                                                         *)
(* Every `await' is a step of its own: a save that is underway, the search *)
(* for a new state's name and the last save of a game that ended all run   *)
(* while the next game is set up and played.  A snapshot holds the game's  *)
(* objects and not copies of them, so what is written is the game at the   *)
(* moment its file's content is made.                                      *)
(*                                                                         *)
(* A definition X_Fault is X with a plausible mistake, see GameService.    *)
(***************************************************************************)
EXTENDS Integers

CONSTANTS
  None,
  MaxPlay,     \* bound: games that are played, one after the other
  MaxChange,   \* bound: changes of each
  MaxName,     \* the file names "Spiel", "Spiel (2)", ..., one for each number
  MaxPull      \* bound: how often the USB stick is pulled out

ASSUME BoundAssumption ==
  /\ MaxPlay \in Nat \ {0} /\ MaxChange \in Nat /\ MaxPull \in Nat
  /\ MaxName \in Nat /\ MaxName > MaxPlay + 1

Play    == 1 .. MaxPlay
Version == 0 .. MaxChange
Name    == 1 .. MaxName
\* a state file: which play wrote it, 0 for one from long ago, and the game it holds
File    == [by : Play \cup {0}, version : Version]

VARIABLES
  plays,      \* how many games were set up so far
  ref,        \* the play that is saved: this.ref
  continued,  \* the plays that continue a state
  name,       \* ref.stateName of each play
  ready,      \* the plays whose `ready' is resolved
  version,    \* the changes of each play's game so far
  dirty, timer,
  retry,      \* a save failed, so the next try is due after RETRY_INTERVAL_IN_MS
  saving,     \* the save that is underway
  info,       \* what the master was told last: "none", "saved" or "error"
  job,        \* the last save, or the deletion, of each play that ended
  files,      \* the state files of the game
  stick,      \* whether the USB stick with the game is plugged in
  pulls

service == <<plays, ref, continued, name, version>>
timers  == <<dirty, timer, retry>>
storage == <<files, stick, pulls>>
vars == <<service, ready, timers, saving, info, job, storage>>

\* at "ready": waits for the play's name; "write": before, "rename": after the content was made
Save == [of : Play, at : {"ready", "write", "rename"}, content : Version]
\* waits: for the save that was underway when it was asked for
Job  == [kind : {"write", "delete"}, at : {"ready", "saving", "io", "done", "failed"}, waits : BOOLEAN]

ASSUME NoneAssumption == None \notin Play \cup File \cup Save \cup Job

TypeOK ==
  /\ plays \in 0 .. MaxPlay
  /\ ref \in Play \cup {None}
  /\ continued \subseteq Play /\ ready \subseteq Play
  /\ name \in [Play -> Name]
  /\ version \in [Play -> Version]
  /\ dirty \in BOOLEAN /\ timer \in BOOLEAN /\ retry \in BOOLEAN
  /\ saving \in Save \cup {None}
  /\ info \in {"none", "saved", "error"}
  /\ job \in [Play -> Job \cup {None}]
  /\ files \in [Name -> File \cup {None}]
  /\ stick \in BOOLEAN /\ pulls \in 0 .. MaxPull

Init ==
  /\ plays = 0 /\ ref = None /\ continued = {} /\ ready = {}
  /\ name = [p \in Play |-> 1] /\ version = [p \in Play |-> 0]
  /\ dirty = FALSE /\ timer = FALSE /\ retry = FALSE
  /\ saving = None /\ info = "none"
  /\ job = [p \in Play |-> None]
  /\ files = [n \in Name |-> IF n = 1 THEN [by |-> 0, version |-> 0] ELSE None]
  /\ stick = TRUE /\ pulls = 0

----------------------------------------------------------------------------
(* What the game server calls. *)

\* begin(); the game before was reset, so nothing is saved.  A new play asks for the name all have.
Begin(n, isNew) ==
  /\ ref = None /\ plays < MaxPlay
  /\ IF isNew THEN n = 1 ELSE files[n] # None /\ stick
  /\ plays' = plays + 1 /\ ref' = plays + 1
  /\ name' = [name EXCEPT ![plays + 1] = n]
  /\ continued' = IF isNew THEN continued ELSE continued \cup {plays + 1}
  /\ dirty' = TRUE /\ timer' = TRUE
  /\ UNCHANGED <<ready, version, retry, saving, info, job, storage>>

\* makeUniqueStateName, or getStateOrNull; if the stick is gone, the name stays as it is
IsUniqueName(n, m) == m >= n /\ files[m] = None /\ \A k \in n .. m - 1 : files[k] # None

ReadyResolves(p) ==
  /\ p <= plays /\ p \notin ready
  /\ ready' = ready \cup {p}
  /\ IF p \notin continued /\ stick
     THEN \E m \in Name : IsUniqueName(name[p], m) /\ name' = [name EXCEPT ![p] = m]
     ELSE UNCHANGED name
  /\ UNCHANGED <<plays, ref, continued, version, timers, saving, info, job, storage>>

\* the game changes, and changed() is called; the objects of a game that ended change no more
GameChanges ==
  /\ ref # None /\ version[ref] < MaxChange
  /\ version' = [version EXCEPT ![ref] = @ + 1]
  /\ dirty' = TRUE /\ timer' = TRUE
  /\ UNCHANGED <<plays, ref, continued, name, ready, retry, saving, info, job, storage>>

Stop == ref' = None /\ dirty' = FALSE /\ timer' = FALSE /\ info' = "none"

\* end()
End ==
  /\ ref # None
  /\ job' = IF dirty THEN [job EXCEPT ![ref] = [kind |-> "write", at |-> "ready", waits |-> FALSE]]
                     ELSE job
  /\ Stop
  /\ UNCHANGED <<plays, continued, name, version, ready, retry, saving, storage>>

\* discard(); it has to wait for the save that is underway, which would write the state again
Discard_WaitsForNothing ==
  /\ ref # None
  /\ job' = [job EXCEPT ![ref] = [kind |-> "delete", at |-> "ready", waits |-> FALSE]]
  /\ Stop
  /\ UNCHANGED <<plays, continued, name, version, ready, retry, saving, storage>>
Discard ==
  /\ ref # None
  /\ job' = [job EXCEPT ![ref] = [kind |-> "delete", at |-> "ready", waits |-> saving # None]]
  /\ Stop
  /\ UNCHANGED <<plays, continued, name, version, ready, retry, saving, storage>>

----------------------------------------------------------------------------
(* save(), called by the timer. *)

\* while a save is underway, save() leaves it at that
TimerFires ==
  /\ timer /\ timer' = FALSE
  /\ saving' = IF saving = None THEN [of |-> ref, at |-> "ready", content |-> 0] ELSE saving
  /\ UNCHANGED <<service, ready, dirty, retry, info, job, storage>>

RetryFires ==
  /\ retry /\ retry' = FALSE
  /\ IF ref = None THEN UNCHANGED <<dirty, timer>> ELSE dirty' = TRUE /\ timer' = TRUE
  /\ UNCHANGED <<service, ready, saving, info, job, storage>>

\* the `finally' of a save, with dirty and info as they are then; who waited for it goes on
SaveEnds ==
  /\ saving' = None
  /\ timer' = (timer \/ (dirty' /\ ref = saving.of /\ info' # "error"))
  /\ job' = [p \in Play |->
       IF job[p] # None /\ job[p].waits
       THEN [job[p] EXCEPT !.waits = FALSE, !.at = IF @ = "saving" THEN "io" ELSE @]
       ELSE job[p]]

SaveProceeds ==
  /\ saving # None /\ saving.at = "ready" /\ saving.of \in ready
  /\ IF ref = saving.of /\ dirty
     THEN /\ dirty' = FALSE /\ saving' = [saving EXCEPT !.at = "write"]
          /\ UNCHANGED <<timer, info, job>>
     ELSE UNCHANGED <<dirty, info>> /\ SaveEnds
  /\ UNCHANGED <<service, ready, retry, storage>>

SaveMakesContent ==
  /\ saving # None /\ saving.at = "write" /\ stick
  /\ saving' = [saving EXCEPT !.at = "rename", !.content = version[saving.of]]
  /\ UNCHANGED <<service, ready, timers, info, job, storage>>

SaveSucceeds ==
  /\ saving # None /\ saving.at = "rename" /\ stick
  /\ files' = [files EXCEPT ![name[saving.of]] = [by |-> saving.of, version |-> saving.content]]
  /\ info' = IF ref = saving.of THEN "saved" ELSE info
  /\ UNCHANGED dirty /\ SaveEnds
  /\ UNCHANGED <<service, ready, retry, stick, pulls>>

\* a failed save is tried again later
SaveFails_ForGood ==
  /\ saving # None /\ saving.at \in {"write", "rename"} /\ ~stick
  /\ IF ref = saving.of THEN dirty' = TRUE /\ info' = "error"
                        ELSE UNCHANGED <<dirty, info>>
  /\ SaveEnds
  /\ UNCHANGED <<service, ready, retry, storage>>
SaveFails_Forgets ==
  /\ saving # None /\ saving.at \in {"write", "rename"} /\ ~stick
  /\ IF ref = saving.of THEN UNCHANGED dirty /\ info' = "error" /\ retry' = TRUE
                        ELSE UNCHANGED <<dirty, info, retry>>
  /\ SaveEnds
  /\ UNCHANGED <<service, ready, storage>>
SaveFails ==
  /\ saving # None /\ saving.at \in {"write", "rename"} /\ ~stick
  /\ IF ref = saving.of THEN dirty' = TRUE /\ info' = "error" /\ retry' = TRUE
                        ELSE UNCHANGED <<dirty, info, retry>>
  /\ SaveEnds
  /\ UNCHANGED <<service, ready, storage>>

----------------------------------------------------------------------------
(* The last save and the deletion of a play that ended. *)

\* once the name is known, a last save waits for the save that is underway by then
WaitsForSave_OnlyToDelete(p) == job[p].waits
WaitsForSave(p) == IF job[p].kind = "write" THEN saving # None ELSE job[p].waits

JobStarts(p) ==
  /\ job[p] # None /\ job[p].at = "ready" /\ p \in ready
  /\ job' = [job EXCEPT ![p].at = IF WaitsForSave(p) THEN "saving" ELSE "io",
                        ![p].waits = WaitsForSave(p)]
  /\ UNCHANGED <<service, ready, timers, saving, info, storage>>

LastSave(p) ==
  /\ job[p] # None /\ job[p].at = "io" /\ job[p].kind = "write"
  /\ IF stick THEN /\ files' = [files EXCEPT ![name[p]] = [by |-> p, version |-> version[p]]]
                   /\ job' = [job EXCEPT ![p].at = "done"]
              ELSE job' = [job EXCEPT ![p].at = "failed"] /\ UNCHANGED files
  /\ UNCHANGED <<service, ready, timers, saving, info, stick, pulls>>

\* deleteState; the state of the play that is saved now can't be deleted
Deletion(p) ==
  /\ job[p] # None /\ job[p].at = "io" /\ job[p].kind = "delete"
  /\ IF stick /\ (ref # None => name[ref] # name[p])
     THEN files' = [files EXCEPT ![name[p]] = None] /\ job' = [job EXCEPT ![p].at = "done"]
     ELSE job' = [job EXCEPT ![p].at = "failed"] /\ UNCHANGED files
  /\ UNCHANGED <<service, ready, timers, saving, info, stick, pulls>>

----------------------------------------------------------------------------

StickPulled ==
  /\ stick /\ stick' = FALSE
  /\ pulls < MaxPull /\ pulls' = pulls + 1
  /\ UNCHANGED <<service, ready, timers, saving, info, job, files>>

StickBack ==
  /\ ~stick /\ stick' = TRUE
  /\ UNCHANGED <<service, ready, timers, saving, info, job, files, pulls>>

Saving == SaveProceeds \/ SaveMakesContent \/ SaveSucceeds \/ SaveFails

Jobs == \E p \in Play : JobStarts(p) \/ LastSave(p) \/ Deletion(p)

Next ==
  \/ \E n \in Name, isNew \in BOOLEAN : Begin(n, isNew)
  \/ \E p \in Play : ReadyResolves(p)
  \/ GameChanges \/ End \/ Discard
  \/ TimerFires \/ RetryFires
  \/ Saving \/ Jobs
  \/ StickPulled \/ StickBack

\* timers fire, file operations end, and somebody puts the stick back
Fairness ==
  /\ WF_vars(TimerFires) /\ WF_vars(RetryFires) /\ WF_vars(StickBack)
  /\ WF_vars(Saving) /\ WF_vars(Jobs)
  /\ \A p \in Play : WF_vars(ReadyResolves(p))

Spec == Init /\ [][Next]_vars

FairSpec == Spec /\ Fairness

----------------------------------------------------------------------------
(* What must hold. *)

\* A play's state file never goes back to an earlier state of that play, though its saves, its last
\* save and changes overlap (save() runs once at a time, end() awaits it).
SavesGoForward ==
  [][\A n \in Name :
       files[n] # None /\ files'[n] # None /\ files'[n].by = files[n].by
         => files'[n].version >= files[n].version]_vars

\* What was discarded is gone for good: no save that was underway writes it again (discard()).
DiscardedStaysGone ==
  \A p \in Play :
    job[p] # None /\ job[p].kind = "delete" /\ job[p].at = "done"
      => \A n \in Name : files[n] # None => files[n].by # p

\* While nothing of the first game that is played is to be saved, the file holds the game as it is,
\* or the save that is underway will make it so; the master is told of an error only while
\* something is to be saved (save()).
CleanIsSaved ==
  ref # None /\ ~dirty /\ plays = 1 =>
    \/ saving # None /\ saving.of = ref /\ saving.at = "write"
    \/ saving # None /\ saving.of = ref /\ saving.at = "rename" /\ saving.content = version[ref]
    \/ info = "saved" /\ files[name[ref]] = [by |-> ref, version |-> version[ref]]

\* Every change is saved in the end, unless the game ends before, though the stick is pulled out
\* meanwhile ("saved again once this save is done, since dirty stays set", autosave.service.ts:159).
EveryChangeIsSaved == \A p \in Play : dirty /\ ref = p ~> (~dirty \/ ref # p)

\* It is for the first game that is played, which no save of an earlier one is in the way of (save()).
FirstChangesAreSaved == dirty /\ ref = 1 ~> (~dirty \/ ref # 1)

\* Each play has a state of its own: only a play that continues a state writes over it (README.md:151
\* "each time a game is played gets a state", autosave.service.ts:63 "its name is made unique").
EachPlayHasItsState ==
  [][\A n \in Name :
       files[n] # None /\ files'[n] # None /\ files'[n].by # files[n].by
         => files'[n].by \in continued]_vars

=============================================================================
