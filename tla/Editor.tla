------------------------------- MODULE Editor -------------------------------
(***************************************************************************)
(* The editor of a game (client/src/app/master/setup): its questions with  *)
(* their forms, which are kept by position beside the questions' own media *)
(* configs, and the versions it saves.                                     *)
(*                                                                         *)
(* A question's text stands for its text, points and notes.  Every handler *)
(* includes the change detection after it: the view of a position that     *)
(* shows a media config gives up what the new question's media can't do.   *)
(***************************************************************************)
EXTENDS Naturals, Sequences, SequencesExt, FiniteSetsExt

CONSTANTS
  Text,         \* what may be entered
  Kind, Playable,                \* kinds of media, and the one that can play
  Config, BuiltIn, PlayHide, HideBoth, \* how a media question starts; PlayHide is for Playable only
  OldScoring, NewScoring,        \* the scoring from before there was one, and of new games
  Stored,       \* the sequences of versions a game may have
  MaxQuestions, MaxEdits, MaxVersions, \* bounds
  Absent

VARIABLES
  form,         \* the questions' forms in order
  config,       \* questionInitialConfig
  step,         \* the open question
  snack,        \* what the snackbar of the last removal can bring back
  mediaDefaults, scoring,
  versionScoring, isVersionLoaded,
  ref,          \* whether the game is known: loaded or created
  savedVersion, \* the version that is offered to be played
  saving,       \* the save underway: what is sent, and the server's answer
  versions,     \* of the game, on the storage
  played,       \* the version that is played next
  made,         \* forms made so far: each has a number
  base, chosen, \* history: the version that was loaded; for each form what was chosen for it
  edits

content == <<form, config, step, snack>>
settings == <<mediaDefaults, scoring>>
loaded == <<versionScoring, isVersionLoaded, ref, base>>
editor == <<form, config, step, snack, mediaDefaults, scoring, versionScoring, isVersionLoaded, ref,
            savedVersion, saving, versions, played, made, base, chosen, edits>>

Scoring == {OldScoring, NewScoring}
Question == [text : Text, show : BOOLEAN, filled : BOOLEAN, media : Kind \cup {Absent}, config : Config \cup {Absent}]
Version == [questions : Seq(Question), mediaDefaults : [Kind -> Config] \cup {Absent}, scoring : Scoring \cup {Absent}]
NoVersion == [questions |-> <<>>, mediaDefaults |-> Absent, scoring |-> Absent]
Complete(s) == IF s = Absent THEN OldScoring ELSE s
CompleteDefaults(d) == IF d = Absent THEN [k \in Kind |-> BuiltIn] ELSE d

ASSUME EditorAssumption ==
  /\ {BuiltIn, PlayHide, HideBoth} \subseteq Config
  /\ Absent \notin Config \cup Kind
  /\ Stored \subseteq Seq(Version)

----------------------------------------------------------------------------
(* Forms. *)

NewForm(id) == [id |-> id, text |-> Absent, show |-> TRUE, filled |-> FALSE, media |-> Absent]
FormOf(id, q) == [id |-> id, text |-> q.text, show |-> q.show, filled |-> q.filled, media |-> q.media]

\* answers that are not shown are disabled, which leaves them out of the validation
Valid(f) == f.text # Absent /\ (f.show => f.filled)

\* the question that is saved; only media have a config
Built(f, c) ==
  [text |-> f.text, show |-> f.show, filled |-> f.filled, media |-> f.media,
   config |-> IF f.media = Absent THEN Absent ELSE c]
buildSetupQuestionsObject == [i \in DOMAIN form |-> Built(form[i], config[i])]

getScoringToSave == IF isVersionLoaded /\ scoring = Complete(versionScoring) THEN versionScoring ELSE scoring

ToSave == [questions |-> buildSetupQuestionsObject, mediaDefaults |-> mediaDefaults, scoring |-> getScoringToSave]

\* how the question starts: its own config, or else the default for its media
getInitialConfig(q, defaults) ==
  IF q.media = Absent THEN Absent ELSE IF q.config # Absent THEN q.config ELSE CompleteDefaults(defaults)[q.media]

----------------------------------------------------------------------------
(* What the views do after a handler: each position keeps its view. *)

Fit(kind, c) == IF c = PlayHide /\ kind # Playable THEN HideBoth ELSE c
ShowsConfig(forms, configs, i) == i \in DOMAIN forms /\ forms[i].media # Absent /\ configs[i] # Absent
Settled(forms, configs) ==
  [i \in DOMAIN forms |->
     IF ShowsConfig(form, config, i) /\ ShowsConfig(forms, configs, i) /\ form[i].media # forms[i].media
     THEN Fit(forms[i].media, configs[i]) ELSE configs[i]]

ChosenIn(forms, configs) ==
  [id \in 1 .. made' |->
     IF \E i \in DOMAIN forms : forms[i].id = id /\ Settled(forms, configs)[i] # configs[i]
     THEN HideBoth ELSE IF id \in DOMAIN chosen THEN chosen[id] ELSE Absent]

\* the forms and configs after a handler; the version stays offered unless a view changed a config
Arranged(forms, configs) ==
  /\ form' = forms /\ config' = Settled(forms, configs) /\ chosen' = ChosenIn(forms, configs)
  /\ savedVersion' = IF config' = configs THEN savedVersion ELSE Absent

Edit ==
  /\ ref /\ played = Absent /\ edits < MaxEdits /\ edits' = edits + 1
  /\ UNCHANGED <<loaded, saving, versions, played>>

----------------------------------------------------------------------------
(* Questions. *)

addQuestionToFormGroup ==
  /\ Edit /\ Len(form) \in 1 .. MaxQuestions - 1  \* the button is in a question's panel
  /\ made' = made + 1 /\ step' = Len(form) + 1
  /\ Arranged(Append(form, NewForm(made + 1)), Append(config, Absent))
  /\ UNCHANGED <<snack, settings>>

\* the open question after the i-th is removed
Within(n) == IF n > Len(form) - 1 THEN Max({1, Len(form) - 1}) ELSE n
StepAfter(i) == Within(IF i < step THEN step - 1 ELSE step)

removeQuestion(i) ==
  /\ Edit /\ snack' = [index |-> i, control |-> form[i], config |-> config[i]]
  /\ step' = StepAfter(i) /\ UNCHANGED <<made, settings>>
  /\ Arranged(RemoveAt(form, i), RemoveAt(config, i))

Restored_Last(configs) == Append(configs, snack.config)
Restored(configs) == InsertAt(configs, snack.index, snack.config)

undo ==
  /\ snack # Absent /\ Edit /\ snack' = Absent /\ step' = snack.index /\ UNCHANGED <<made, settings>>
  /\ Arranged(InsertAt(form, snack.index, snack.control), Restored(config))

SnackbarEnds ==
  /\ snack # Absent /\ snack' = Absent
  /\ UNCHANGED <<form, config, step, settings, loaded, savedVersion, saving, versions, played, made, chosen, edits>>

Moved(s, i, j) == InsertAt(RemoveAt(s, i), j, s[i])
dropQuestion(i, j) ==
  /\ i # j /\ Edit /\ step' = j /\ UNCHANGED <<snack, made, settings>>
  /\ Arranged(Moved(form, i, j), Moved(config, i, j))

\* an input or change event of the form
Enter(i, f) ==
  /\ Edit /\ f # form[i] /\ form' = [form EXCEPT ![i] = f] /\ savedVersion' = Absent
  /\ UNCHANGED <<config, step, snack, made, chosen, settings>>

changeMediaSelection(i, media) ==
  /\ Edit /\ media # form[i].media /\ made' = made
  /\ LET forms == [form EXCEPT ![i].media = media] IN
     form' = forms /\ config' = Settled(forms, config) /\ chosen' = ChosenIn(forms, config)
  /\ savedVersion' = Absent /\ UNCHANGED <<step, snack, settings>>

Choose(i, c) ==
  /\ Edit /\ form[i].media # Absent /\ config' = [config EXCEPT ![i] = c] /\ savedVersion' = Absent
  /\ chosen' = [chosen EXCEPT ![form[i].id] = c]
  /\ UNCHANGED <<form, step, snack, made, settings>>
changeQuestionConfig(i, c) == config[i] # Absent /\ c # config[i] /\ Fit(form[i].media, c) = c /\ Choose(i, c)
customizeQuestionConfig(i) == config[i] = Absent /\ form[i].media # Absent /\ Choose(i, mediaDefaults[form[i].media])
resetQuestionConfig(i) == config[i] # Absent /\ Choose(i, Absent)

----------------------------------------------------------------------------
(* Settings of the game: a new one has them before it is created, too. *)

EditSettings ==
  /\ ref \/ versions = <<>>
  /\ played = Absent /\ edits < MaxEdits /\ edits' = edits + 1 /\ savedVersion' = Absent
  /\ UNCHANGED <<content, loaded, saving, versions, played, made, chosen>>
changeScoring(s) == s # scoring /\ EditSettings /\ scoring' = s /\ UNCHANGED mediaDefaults
changeMediaDefault(k, c) ==
  /\ c # mediaDefaults[k] /\ Fit(k, c) = c
  /\ EditSettings /\ mediaDefaults' = [mediaDefaults EXCEPT ![k] = c] /\ UNCHANGED scoring

----------------------------------------------------------------------------
(* Loading, creating, saving and playing. *)

\* versions from before there were defaults have a config in every media question
FollowsDefaults(q, defaults) == defaults = Absent /\ q.config = BuiltIn

initQuestionsFormControls(v) ==
  LET qs == v.questions IN
  /\ form' = [i \in DOMAIN qs |-> FormOf(i, qs[i])]
  /\ config' = [i \in DOMAIN qs |-> IF FollowsDefaults(qs[i], v.mediaDefaults) THEN Absent ELSE qs[i].config]
  /\ chosen' = config' /\ made' = Len(qs) /\ step' = 1

loadGame(n) ==
  /\ ~ref /\ base = Absent /\ n \in DOMAIN versions /\ ref' = TRUE /\ base' = n
  /\ mediaDefaults' = CompleteDefaults(versions[n].mediaDefaults)
  /\ scoring' = Complete(versions[n].scoring) /\ versionScoring' = versions[n].scoring /\ isVersionLoaded' = TRUE
  /\ initQuestionsFormControls(versions[n])
  /\ UNCHANGED <<snack, savedVersion, saving, versions, played, edits>>

createNewGame ==
  /\ ~ref /\ versions = <<>> /\ ref' = TRUE
  /\ UNCHANGED <<content, settings, versionScoring, isVersionLoaded, base, savedVersion, saving, versions, played, made,
                 chosen, edits>>

EditorInit ==
  /\ form = <<NewForm(1)>> /\ config = <<Absent>> /\ step = 1 /\ snack = Absent /\ made = 1 /\ chosen = <<Absent>>
  /\ mediaDefaults = CompleteDefaults(Absent) /\ scoring = NewScoring
  /\ versionScoring = Absent /\ isVersionLoaded = FALSE /\ ref = FALSE /\ base = Absent
  /\ savedVersion = Absent /\ saving = Absent /\ versions \in Stored /\ played = Absent /\ edits = 0

InEditor == UNCHANGED <<form, config, step, settings, loaded, made, chosen, edits>>

\* the snackbar of a save replaces that of a removal
saveGame ==
  /\ ref /\ saving = Absent /\ played = Absent /\ \A i \in DOMAIN form : Valid(form[i])
  /\ saving' = [sent |-> ToSave, result |-> Absent]
  /\ InEditor /\ UNCHANGED <<snack, savedVersion, versions, played>>

Latest == IF versions = <<>> THEN NoVersion ELSE Last(versions)
VersionIsSaved ==
  /\ saving # Absent /\ saving.result = Absent
  /\ IF saving.sent = Latest
     THEN versions' = versions /\ saving' = [saving EXCEPT !.result = Len(versions)]
     ELSE /\ Len(versions) < MaxVersions /\ versions' = Append(versions, saving.sent)
          /\ saving' = [saving EXCEPT !.result = Len(versions) + 1]
  /\ InEditor /\ UNCHANGED <<snack, savedVersion, played>>

SaveSucceeds ==
  /\ saving # Absent /\ saving.result # Absent /\ saving' = Absent /\ savedVersion' = saving.result /\ snack' = Absent
  /\ InEditor /\ UNCHANGED <<versions, played>>

\* also when only the answer is lost
SaveFails == saving # Absent /\ saving' = Absent /\ InEditor /\ UNCHANGED <<snack, savedVersion, versions, played>>

playSavedVersion ==
  /\ savedVersion # Absent /\ played = Absent /\ played' = savedVersion
  /\ InEditor /\ UNCHANGED <<snack, savedVersion, saving, versions>>

Questions ==
  \/ addQuestionToFormGroup \/ undo \/ SnackbarEnds
  \/ \E i \in DOMAIN form : \/ removeQuestion(i) \/ customizeQuestionConfig(i) \/ resetQuestionConfig(i)
                            \/ \E j \in DOMAIN form : dropQuestion(i, j)
                            \/ \E t \in Text : Enter(i, [form[i] EXCEPT !.text = t])
                            \/ Enter(i, [form[i] EXCEPT !.show = ~@])
                            \/ Enter(i, [form[i] EXCEPT !.filled = TRUE])
                            \/ \E m \in Kind \cup {Absent} : changeMediaSelection(i, m)
                            \/ \E c \in Config : changeQuestionConfig(i, c)
Settings == (\E s \in Scoring : changeScoring(s)) \/ \E k \in Kind, c \in Config : changeMediaDefault(k, c)
Saves == saveGame \/ VersionIsSaved \/ SaveSucceeds \/ SaveFails \/ playSavedVersion

EditorNext == (\E n \in DOMAIN versions : loadGame(n)) \/ createNewGame \/ Questions \/ Settings \/ Saves

EditorSpec == EditorInit /\ [][EditorNext]_editor

----------------------------------------------------------------------------
(* Properties. *)

\* However questions are added, removed, brought back and dragged, each is there once and has the media config that
\* was chosen for it, though the two are kept apart by position.
EachWithItsConfig ==
  /\ Len(config) = Len(form)
  /\ \A i, j \in DOMAIN form : form[i].id = form[j].id => i = j
  /\ \A i \in DOMAIN form : config[i] = chosen[form[i].id]
  /\ snack # Absent => snack.config = chosen[snack.control.id] /\ \A i \in DOMAIN form : form[i].id # snack.control.id

\* Removing a question leaves the open one open, unless it is the open one.
OpenQuestionStays ==
  [][\A i \in DOMAIN form : removeQuestion(i) /\ i # step => form'[step'].id = form[step].id]_editor

\* what the page shows is what it shows once the version is loaded
ShownAsLoaded(v) ==
  /\ [i \in DOMAIN form |-> FormOf(0, form[i])] = [i \in DOMAIN v.questions |-> FormOf(0, v.questions[i])]
  /\ config = [i \in DOMAIN form |->
                 IF FollowsDefaults(v.questions[i], v.mediaDefaults) THEN Absent ELSE v.questions[i].config]
  /\ scoring = Complete(v.scoring) /\ mediaDefaults = CompleteDefaults(v.mediaDefaults)

\* Until something is changed, also after changing it back, every question starts as in the version that was loaded,
\* and saving adds no version, also to a game from before there was a scoring ("so saving an older game unchanged adds
\* no version", setup.component.ts:519), but one from before there were media defaults.
UnchangedIsTheSame ==
  LET v == versions[base] IN
  base # Absent /\ ShownAsLoaded(v) =>
    /\ \A i \in DOMAIN form : getInitialConfig(v.questions[i], v.mediaDefaults)
                               = getInitialConfig(Built(form[i], config[i]), mediaDefaults)
    /\ v.mediaDefaults # Absent => ToSave = v
=============================================================================
