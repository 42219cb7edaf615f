----------------------------- MODULE MCStorage -----------------------------
(***************************************************************************)
(* Small instances of Storage and of the pages that use it, one after the  *)
(* other in one run: the first state chooses which, and for Storage which  *)
(* requests there are, and how many.                                       *)
(*                                                                         *)
(*   versions  versions and states of a game and of its copy, while played *)
(*   media     media that versions show, in folders                        *)
(*   games     games that are created, imported, copied, moved and deleted *)
(*   editor    none of these: a new game and loaded ones in the editor     *)
(*   prepare   nor these: a new game and continued ones get their teams    *)
(***************************************************************************)
EXTENDS Storage, Editor, Prepare, TLC

CONSTANTS box, stick, quiz, other, q1, q2, save1, save2, file1, file2, r1, r2, folder,
          t1, image, clip, builtIn, playHide, hideBoth, old, new,
          u1, u2, blue, teamA, teamB

VARIABLE instance

ShowsMedia == q1 :> {file1} @@ q2 :> {file2}
InFolder == folder :> {file1}
Nothing == [n \in Numbers |-> None]
Good == [versions |-> [Nothing EXCEPT ![2] = q2], highest |-> 2, states |-> (save1 :> 2 @@ save2 :> 0), media |-> {file2}]
Broken == [Good EXCEPT !.states = (save1 :> 1 @@ save2 :> 0)]
Archives == {Good, Broken}

Ops == [versions |-> {"save", "deleteVersion", "renameState", "deleteState", "copy"},
        media    |-> {"upload", "copyIn", "deleteMedia", "moveMedia", "save"},
        games    |-> {"create", "delete", "copy", "archive", "bundle", "save"}]
Most == [versions |-> 4, media |-> 3, games |-> 2]
Names == [versions |-> {quiz}, media |-> {quiz}, games |-> {quiz, other}]

Quiz == store[<<box, quiz>>] # None /\ store[<<box, quiz>>].versions[1] = q1

StorageNext ==
  /\ Next
  /\ requests' <= Most[instance]
  /\ \A r \in Request : request'[r] # None =>
       /\ request'[r].op \in Ops[instance] /\ request'[r].g \in Names[instance]
       /\ request'[r].op = "copy" => request'[r].g2 \in Names[instance]
  /\ request'[r2] = None
  /\ activeGame' # None => instance = "versions" /\ activeGame'.s = save1

\* versions from before there were media defaults, and from before there was a scoring
Q(media, c) == [text |-> t1, show |-> TRUE, filled |-> TRUE, media |-> media, config |-> c]
Oldest == [questions |-> <<Q(clip, builtIn), Q(clip, playHide)>>, mediaDefaults |-> Absent, scoring |-> Absent]
Older == [questions |-> <<Q(clip, playHide), Q(image, Absent)>>, mediaDefaults |-> [k \in Kind |-> hideBoth], scoring |-> Absent]
Editable == {<<>>, <<Oldest, Older>>}

SavedTeam(name, id, i, points) == [name |-> name, buzzerId |-> id, buzzerIndex |-> i, points |-> points]
NewGame == [teams |-> <<>>, marked |-> {}, missing |-> FALSE]
BoxGame == [teams |-> <<SavedTeam(teamA, BoxId(0, 1), 1, 1), SavedTeam(teamB, BoxId(0, 2), 2, 2)>>,
            marked |-> {BoxId(0, 2)}, missing |-> TRUE]
AirGame == [teams |-> <<SavedTeam(<<blue, 1>>, u2, 3, 1), SavedTeam(teamB, u1, 4, 2)>>, marked |-> {u2}, missing |-> FALSE]
Preparable == {NewGame, BoxGame, AirGame}

\* a page that is not looked at stays as it is
EditorRests == UNCHANGED editor
PrepareRests == UNCHANGED prepare
AnEditor == EditorInit /\ versions = <<>>
APrepare == PrepareInit /\ game = NewGame /\ restarts = 0 /\ Len(buzzers) = BoxBuzzers

MCInit ==
  /\ Init /\ Quiz
  /\ \/ instance \in DOMAIN Ops /\ AnEditor /\ APrepare
     \/ instance = "editor" /\ EditorInit /\ APrepare
     \/ instance = "prepare" /\ AnEditor /\ PrepareInit

MCNext ==
  /\ UNCHANGED instance
  /\ \/ instance \in DOMAIN Ops /\ StorageNext /\ EditorRests /\ PrepareRests
     \/ instance = "editor" /\ EditorNext /\ UNCHANGED vars /\ PrepareRests
     \/ instance = "prepare" /\ PrepareNext /\ UNCHANGED vars /\ EditorRests

MCSpec == MCInit /\ [][MCNext]_<<vars, editor, prepare, instance>>
============================================================================
