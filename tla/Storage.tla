------------------------------ MODULE Storage ------------------------------
(***************************************************************************)
(* StorageService: the games on the box and on the USB sticks, with their  *)
(* versions, states and media, and the requests of the storage API that    *)
(* read and change them.                                                   *)
(*                                                                         *)
(* A request is modelled await by await: what it found is kept while the   *)
(* files may change before its next step.  At each of them it may fail     *)
(* (the stick is pulled out, the card is full, the power is cut); what it  *)
(* did before stays.  A folder of a game is copied and removed as a whole, *)
(* one folder after the other in any order.  The hidden files a request    *)
(* writes before it renames them belong to the request alone.              *)
(***************************************************************************)
EXTENDS Naturals, FiniteSets, FiniteSetsExt

CONSTANTS
  Location,     \* the box and the sticks
  Game,         \* names of games
  Content,      \* what a version may hold: its questions
  Shows,        \* [Content -> SUBSET Path]: the media they show
  State,        \* names of states
  Path,         \* paths of media files in a game
  Folder,       \* folders of media
  Inside,       \* [Folder -> SUBSET Path]: the files in a folder
  Archive,      \* what may be imported: [versions, highest, states, media]
  Request,      \* requests that may be underway at once
  MaxVersion,   \* bound: version numbers
  MaxRequests,  \* bound: requests
  None

VARIABLES
  store,      \* the games: [versions, highest, states, media, dying, ever], or None
  activeGame, \* the game that is played: [l, g, version, s]
  request,    \* the requests underway: what they are asked for, where they are and what they found
  requests    \* how many there were

vars == <<store, activeGame, request, requests>>

Numbers == 1 .. MaxVersion
Folders == {"versions", "states", "media"}
\* dying: its removal began; ever: each version it ever had (both only for the properties)
EmptyGame == [versions |-> [n \in Numbers |-> None], highest |-> 0, states |-> [s \in State |-> 0], media |-> {},
              dying |-> FALSE, ever |-> [n \in Numbers |-> None]]

GameRecord == [versions : [Numbers -> Content \cup {None}], highest : {0} \cup Numbers,
               states : [State -> {0} \cup Numbers], media : SUBSET Path, dying : BOOLEAN,
               ever : [Numbers -> Content \cup {None}]]
ArchivedGame == [versions : [Numbers -> Content \cup {None}], highest : {0} \cup Numbers,
                 states : [State -> {0} \cup Numbers], media : SUBSET Path]

ASSUME StorageAssumption ==
  /\ MaxVersion \in Nat \ {0} /\ None \notin Content \cup GameRecord
  /\ Shows \in [Content -> SUBSET Path] /\ Archive \subseteq ArchivedGame

Existing(l, g) == store[<<l, g>>] # None
ListVersions(v) == {n \in Numbers : v[n] # None}
getLatestVersionNumber(game) == Max({0} \cup ListVersions(game.versions))
getHighestVersionNumber_OfFiles(game) == getLatestVersionNumber(game)
getHighestVersionNumber(game) == Max({game.highest, getLatestVersionNumber(game)})

isActive(l, g) == activeGame # None /\ activeGame.l = l /\ activeGame.g = g

\* the media of a file or of the files in a folder
FilesOf(p) == IF p \in Folder THEN Inside[p] ELSE {p}
Shown(game) == UNION {Shows[game.versions[n]] : n \in ListVersions(game.versions)}
isShown_ByName(game, p) == p \in Shown(game)
isShown(game, p) == FilesOf(p) \cap Shown(game) # {}
\* media are where the path is
Has(game, p) == FilesOf(p) \cap game.media # {}

----------------------------------------------------------------------------
(* How a request begins, goes on and ends. *)

Begin(r, asked) ==
  /\ request[r] = None /\ requests < MaxRequests /\ requests' = requests + 1
  /\ request' = [request EXCEPT ![r] = asked]
  /\ UNCHANGED <<store, activeGame>>

At(r, op, pc) == request[r] # None /\ request[r].op = op /\ request[r].pc = pc
Here(r) == <<request[r].l, request[r].g>>
There(r) == <<request[r].l2, request[r].g2>>
Its(r) == store[Here(r)]

Goto(r, pc) == request' = [request EXCEPT ![r].pc = pc] /\ UNCHANGED <<activeGame, requests>>
Answer(r) == request' = [request EXCEPT ![r] = None] /\ UNCHANGED <<activeGame, requests>>
Refuse(r) == Answer(r) /\ UNCHANGED store
Change(d, game) == store' = [store EXCEPT ![d] = game]

\* any step of the file system may fail
Fail(r) == request[r] # None /\ Refuse(r)

----------------------------------------------------------------------------
(* Games. *)

AskGame(op) ==
  {[op |-> op, pc |-> "check", l |-> l, g |-> g] : l \in Location, g \in Game}

createGame(r) ==
  \/ At(r, "create", "check") /\ IF Its(r) # None THEN Refuse(r) ELSE Goto(r, "make") /\ UNCHANGED store
  \/ At(r, "create", "make") /\ Change(Here(r), IF Its(r) = None THEN EmptyGame ELSE Its(r)) /\ Answer(r)

\* removeRecursively: the folders one after the other, then the game
Removed(game, f) ==
  CASE f = "versions" -> [game EXCEPT !.versions = EmptyGame.versions, !.highest = 0, !.dying = TRUE]
    [] f = "states" -> [game EXCEPT !.states = EmptyGame.states, !.dying = TRUE]
    [] f = "media" -> [game EXCEPT !.media = {}, !.dying = TRUE]

RemoveStep(r) ==
  \/ /\ request[r].left # {} /\ UNCHANGED <<activeGame, requests>>
     /\ \E f \in request[r].left :
          /\ request' = [request EXCEPT ![r].left = @ \ {f}]
          /\ IF Its(r) # None THEN Change(Here(r), Removed(Its(r), f)) ELSE UNCHANGED store
  \/ request[r].left = {} /\ Change(Here(r), None) /\ Answer(r)

deleteGame(r) ==
  \/ At(r, "delete", "check")
     /\ IF Its(r) = None \/ isActive(request[r].l, request[r].g) THEN Refuse(r)
        ELSE /\ request' = [request EXCEPT ![r] = [op |-> "delete", pc |-> "remove", l |-> @.l, g |-> @.g, left |-> Folders]]
             /\ UNCHANGED <<store, activeGame, requests>>
  \/ At(r, "delete", "remove") /\ RemoveStep(r)

AskCopy ==
  {a \in {[op |-> "copy", pc |-> "check", l |-> l, g |-> g, l2 |-> l2, g2 |-> g2, move |-> m, left |-> Folders,
           copy |-> EmptyGame] : l \in Location, g \in Game, l2 \in Location, g2 \in Game, m \in BOOLEAN} :
     <<a.l, a.g>> # <<a.l2, a.g2>>}

\* a folder of the game is in the copy; numbering.json is one of its versions' files
Copied(copy, game, f) ==
  CASE f = "versions" -> [copy EXCEPT !.versions = game.versions, !.highest = game.highest, !.ever = game.ever]
    [] f = "states" -> [copy EXCEPT !.states = game.states]
    [] f = "media" -> [copy EXCEPT !.media = game.media]

\* the copy gets its name once it is complete
AppearsWhen_Begun(r) == TRUE
AppearsWhen(r) == request[r].left = {}

copyGame(r) ==
  \/ At(r, "copy", "check")
     /\ IF Its(r) = None \/ isActive(request[r].l, request[r].g) \/ store[There(r)] # None THEN Refuse(r)
        ELSE Goto(r, IF request[r].l = request[r].l2 /\ request[r].move THEN "rename" ELSE "files") /\ UNCHANGED store
  \/ At(r, "copy", "rename")
     /\ IF Its(r) = None \/ store[There(r)] # None THEN Refuse(r)
        ELSE store' = [store EXCEPT ![Here(r)] = None, ![There(r)] = Its(r)] /\ Answer(r)
  \/ /\ At(r, "copy", "files") /\ request[r].left # {}
     /\ IF Its(r) = None THEN Refuse(r)
        ELSE \E f \in request[r].left :
               /\ request' = [request EXCEPT ![r].left = @ \ {f}, ![r].copy = Copied([@ EXCEPT !.dying = Its(r).dying], Its(r), f)]
               /\ UNCHANGED <<store, activeGame, requests>>
  \/ /\ At(r, "copy", "files") /\ AppearsWhen(r)
     /\ IF store[There(r)] # None THEN Refuse(r)
        ELSE /\ Change(There(r), request[r].copy)
             /\ IF request[r].move
                THEN request' = [request EXCEPT ![r].pc = "remove", ![r].left = Folders] /\ UNCHANGED <<activeGame, requests>>
                ELSE Answer(r)
  \/ At(r, "copy", "remove") /\ RemoveStep(r)

AskArchive ==
  {[op |-> "archive", pc |-> "check", l |-> l, g |-> g, archive |-> a] : l \in Location, g \in Game, a \in Archive}

\* its states play versions it has
checkArchivedGame(a) ==
  ListVersions(a.versions) # {} /\ \A s \in State : a.states[s] # 0 => a.states[s] \in ListVersions(a.versions)

importGameArchive(r) ==
  LET a == request[r].archive IN
  \/ At(r, "archive", "check") /\ IF Its(r) # None THEN Refuse(r) ELSE Goto(r, "unpack") /\ UNCHANGED store
  \/ /\ At(r, "archive", "unpack")
     /\ IF ~checkArchivedGame(a) \/ Its(r) # None THEN Refuse(r)
        ELSE /\ Change(Here(r), [EmptyGame EXCEPT !.versions = a.versions, !.highest = a.highest, !.states = a.states,
                                                  !.media = a.media, !.ever = a.versions])
             /\ Answer(r)

AskBundle == {[op |-> "bundle", pc |-> "check", l |-> l, g |-> g, c |-> c, s |-> s] :
                l \in Location, g \in Game, c \in Content, s \in State \cup {None}}

\* the game, the media that are found, version 1 and a state of it
importBundle(r) ==
  LET c == request[r].c IN
  \/ At(r, "bundle", "check") /\ IF Its(r) # None THEN Refuse(r) ELSE Change(Here(r), EmptyGame) /\ Goto(r, "media")
  \/ /\ At(r, "bundle", "media")
     /\ IF Its(r) = None THEN Refuse(r)
        ELSE \E found \in SUBSET Shows[c] : Change(Here(r), [Its(r) EXCEPT !.media = @ \cup found]) /\ Goto(r, "version")
  \/ /\ At(r, "bundle", "version")
     /\ IF Its(r) = None THEN Refuse(r)
        ELSE IF Its(r).versions[1] # None THEN Refuse(r)
        ELSE /\ Change(Here(r), [Its(r) EXCEPT !.versions[1] = c, !.ever[1] = IF @ = None THEN c ELSE @])
             /\ IF request[r].s = None THEN Answer(r) ELSE Goto(r, "state")
  \/ /\ At(r, "bundle", "state")
     /\ IF Its(r) = None THEN Refuse(r) ELSE Change(Here(r), [Its(r) EXCEPT !.states[request[r].s] = 1]) /\ Answer(r)

----------------------------------------------------------------------------
(* Versions. *)

AskSave == {[op |-> "save", pc |-> "folders", l |-> l, g |-> g, c |-> c, n |-> 0] :
              l \in Location, g \in Game, c \in Content}

\* the number is found, then looked at again, then the file gets its name
saveVersion(r) ==
  LET c == request[r].c   n == request[r].n IN
  \/ At(r, "save", "folders") /\ Change(Here(r), IF Its(r) = None THEN EmptyGame ELSE Its(r)) /\ Goto(r, "number")
  \/ /\ At(r, "save", "number")
     /\ IF Its(r) = None \/ getHighestVersionNumber(Its(r)) = MaxVersion THEN Refuse(r)
        ELSE IF getLatestVersionNumber(Its(r)) # 0 /\ Its(r).versions[Max({1, getLatestVersionNumber(Its(r))})] = c
        THEN Refuse(r)   \* unchanged
        ELSE /\ request' = [request EXCEPT ![r].pc = "exists", ![r].n = getHighestVersionNumber(Its(r)) + 1]
             /\ UNCHANGED <<store, activeGame, requests>>
  \/ /\ At(r, "save", "exists")
     /\ IF Its(r) = None THEN Refuse(r)
        ELSE IF Its(r).versions[n] # None THEN Refuse(r) ELSE Goto(r, "write") /\ UNCHANGED store
  \/ /\ At(r, "save", "write")
     /\ IF Its(r) = None THEN Refuse(r)
        ELSE /\ Change(Here(r), [Its(r) EXCEPT !.versions[n] = c, !.ever[n] = IF @ = None THEN c ELSE @])
             /\ Answer(r)

AskDeleteVersion == {[op |-> "deleteVersion", pc |-> "check", l |-> l, g |-> g, n |-> n, highest |-> 0] :
                       l \in Location, g \in Game, n \in Numbers}

isPlayed_Active(game, l, g, n) == isActive(l, g) /\ activeGame.version = n
isPlayed(game, l, g, n) == (\E s \in State : game.states[s] = n) \/ (isActive(l, g) /\ activeGame.version = n)

deleteVersion(r) ==
  LET n == request[r].n IN
  \/ /\ At(r, "deleteVersion", "check")
     /\ IF Its(r) = None THEN Refuse(r)
        ELSE IF Its(r).versions[n] = None \/ isPlayed(Its(r), request[r].l, request[r].g, n) THEN Refuse(r)
        ELSE /\ request' = [request EXCEPT ![r].pc = "numbering", ![r].highest = getHighestVersionNumber(Its(r))]
             /\ UNCHANGED <<store, activeGame, requests>>
  \/ /\ At(r, "deleteVersion", "numbering")
     /\ IF Its(r) = None THEN Refuse(r)
        ELSE Change(Here(r), [Its(r) EXCEPT !.highest = request[r].highest]) /\ Goto(r, "unlink")
  \/ /\ At(r, "deleteVersion", "unlink")
     /\ IF Its(r) = None THEN Refuse(r) ELSE Change(Here(r), [Its(r) EXCEPT !.versions[n] = None]) /\ Answer(r)

----------------------------------------------------------------------------
(* States. *)

\* s2: the new name, of a state that gets one
AskState == {a \in {[op |-> op, pc |-> "check", l |-> l, g |-> g, s |-> s, s2 |-> s2] :
                      op \in {"renameState", "deleteState"}, l \in Location, g \in Game, s \in State, s2 \in State} :
               a.op = "deleteState" => a.s2 = a.s}

isStatePlayed(l, g, s) == isActive(l, g) /\ activeGame.s = s

changeState(r) ==
  LET s == request[r].s   s2 == request[r].s2 IN
  \/ /\ request[r].pc = "check"
     /\ IF Its(r) = None \/ isStatePlayed(request[r].l, request[r].g, s) THEN Refuse(r)
        ELSE IF Its(r).states[s] = 0 \/ (request[r].op = "renameState" /\ Its(r).states[s2] # 0) THEN Refuse(r)
        ELSE Goto(r, "change") /\ UNCHANGED store
  \/ /\ request[r].pc = "change"
     /\ IF Its(r) = None THEN Refuse(r)
        ELSE IF Its(r).states[s] = 0 THEN Refuse(r)
        ELSE /\ Change(Here(r), IF request[r].op = "renameState"
                               THEN [Its(r) EXCEPT !.states[s2] = Its(r).states[s], !.states[s] = 0]
                               ELSE [Its(r) EXCEPT !.states[s] = 0])
             /\ Answer(r)
renameState(r) == At(r, "renameState", request[r].pc) /\ changeState(r)
deleteState(r) == At(r, "deleteState", request[r].pc) /\ changeState(r)

\* a game is set up from a version of it, or from a state, while no request is underway: the page
\* that asks for it waits for its answers.  A new play gets a name no state has.
SetActiveGame ==
  /\ activeGame = None /\ \A r \in Request : request[r] = None
  /\ \E l \in Location, g \in Game, n \in Numbers, s \in State :
       /\ Existing(l, g) /\ store[<<l, g>>].versions[n] # None /\ store[<<l, g>>].states[s] \in {0, n}
       /\ activeGame' = [l |-> l, g |-> g, version |-> n, s |-> s]
  /\ UNCHANGED <<store, request, requests>>

\* the autosave writes the game that is played
writeState ==
  LET d == <<activeGame.l, activeGame.g>> IN
  /\ activeGame # None /\ Existing(activeGame.l, activeGame.g)
  /\ Change(d, [store[d] EXCEPT !.states[activeGame.s] = activeGame.version])
  /\ UNCHANGED <<activeGame, request, requests>>

GameEnds == activeGame # None /\ activeGame' = None /\ UNCHANGED <<store, request, requests>>

----------------------------------------------------------------------------
(* Media. *)

AskUpload == {[op |-> "upload", pc |-> "exists", l |-> l, g |-> g, p |-> p, overwrite |-> o] :
                l \in Location, g \in Game, p \in Path, o \in BOOLEAN}

\* storeFile
uploadGameMedia(r) ==
  LET p == request[r].p IN
  \/ /\ At(r, "upload", "exists")
     /\ IF Its(r) = None THEN Refuse(r)
        ELSE IF p \in Its(r).media /\ ~request[r].overwrite THEN Refuse(r) ELSE Goto(r, "store") /\ UNCHANGED store
  \/ /\ At(r, "upload", "store")
     /\ IF Its(r) = None THEN Refuse(r) ELSE Change(Here(r), [Its(r) EXCEPT !.media = @ \cup {p}]) /\ Answer(r)

AskCopyIn == {[op |-> "copyIn", pc |-> "name", l |-> l, g |-> g, p |-> p] : l \in Location, g \in Game, p \in Path}

\* media of a stick get a name that is free: theirs, or theirs with a number
copyIntoGame(r) ==
  \/ /\ At(r, "copyIn", "name")
     /\ IF Its(r) = None THEN Refuse(r)
        ELSE \E p \in Path \ Its(r).media :
               /\ request[r].p \notin Its(r).media => p = request[r].p
               /\ request' = [request EXCEPT ![r].pc = "copy", ![r].p = p]
               /\ UNCHANGED <<store, activeGame, requests>>
  \/ /\ At(r, "copyIn", "copy")
     /\ IF Its(r) = None THEN Refuse(r) ELSE Change(Here(r), [Its(r) EXCEPT !.media = @ \cup {request[r].p}]) /\ Answer(r)

AskMedia(op) == {[op |-> op, pc |-> "check", l |-> l, g |-> g, p |-> p, p2 |-> p2] :
                   l \in Location, g \in Game, p \in Path \cup Folder, p2 \in Path}

deleteGameMedia(r) ==
  LET p == request[r].p IN
  \/ /\ At(r, "deleteMedia", "check")
     /\ IF Its(r) = None THEN Refuse(r)
        ELSE IF isShown(Its(r), p) \/ ~Has(Its(r), p) THEN Refuse(r) ELSE Goto(r, "remove") /\ UNCHANGED store
  \/ /\ At(r, "deleteMedia", "remove")
     /\ IF Its(r) = None THEN Refuse(r)
        ELSE Change(Here(r), [Its(r) EXCEPT !.media = @ \ FilesOf(p)]) /\ Answer(r)

\* a file gets another path; a folder's files are then where no version looks for them
moveGameMedia(r) ==
  LET p == request[r].p   p2 == request[r].p2 IN
  \/ /\ At(r, "moveMedia", "check")
     /\ IF Its(r) = None THEN Refuse(r)
        ELSE IF ~Has(Its(r), p) \/ p2 \in Its(r).media \/ p2 \in FilesOf(p) \/ isShown(Its(r), p) THEN Refuse(r)
        ELSE Goto(r, "rename") /\ UNCHANGED store
  \/ /\ At(r, "moveMedia", "rename")
     /\ IF Its(r) = None THEN Refuse(r)
        ELSE Change(Here(r), [Its(r) EXCEPT !.media = (@ \ FilesOf(p)) \cup (IF p \in Path THEN {p2} ELSE {})]) /\ Answer(r)

----------------------------------------------------------------------------

Init ==
  /\ \E l \in Location, g \in Game, c \in Content :
       store = [d \in Location \X Game |->
                  IF d = <<l, g>> THEN [EmptyGame EXCEPT !.versions[1] = c, !.ever[1] = c, !.media = Shows[c]] ELSE None]
  /\ activeGame = None /\ request = [r \in Request |-> None] /\ requests = 0

Asked == AskGame("create") \cup AskGame("delete") \cup AskCopy \cup AskArchive \cup AskBundle \cup AskSave
         \cup AskDeleteVersion \cup AskState \cup AskUpload \cup AskCopyIn
         \cup AskMedia("deleteMedia") \cup AskMedia("moveMedia")

Step(r) ==
  \/ createGame(r) \/ deleteGame(r) \/ copyGame(r) \/ importGameArchive(r) \/ importBundle(r)
  \/ saveVersion(r) \/ deleteVersion(r) \/ renameState(r) \/ deleteState(r)
  \/ uploadGameMedia(r) \/ copyIntoGame(r) \/ deleteGameMedia(r) \/ moveGameMedia(r)

Next ==
  \/ \E r \in Request : Step(r) \/ Fail(r) \/ \E a \in Asked : Begin(r, a)
  \/ SetActiveGame \/ writeState \/ GameEnds

Spec == Init /\ [][Next]_vars

----------------------------------------------------------------------------
(* What must hold. *)

\* A page waits for the answer to a request before it sends the next one, and there is one master.
OneAtATime == \A r, q \in Request : request[r] # None /\ request[q] # None => r = q

Games == {store[d] : d \in {c \in Location \X Game : store[c] # None}}

\* A version number of a game means the same questions for ever, also in copies of the game and after
\* the version was deleted ("a deleted version's number isn't given to other questions later").
NumbersAreKept == \A game \in Games : ~game.dying => \A n \in Numbers : game.versions[n] \in {None, game.ever[n]}

\* Every state plays a version its game has: no request deletes one that is played, and no copy or
\* import appears with half of its files (deleteVersion, copyGame, checkArchivedGame).
PlayedVersionsExist ==
  \A game \in Games : ~game.dying => \A s \in State : game.states[s] # 0 => game.versions[game.states[s]] # None

\* A copy has everything its original has, once it has a name, and a game that is moved is there as
\* a whole all the time, under one name or the other, whatever fails (copyGame).
MovedGameIsKept ==
  \A r \in Request : request[r] # None => (request[r].op = "copy" /\ request[r].pc = "remove" =>
    LET copy == store[There(r)] IN
    /\ copy # None
    /\ store[Here(r)] # None => LET game == store[Here(r)] IN
         /\ \A n \in Numbers : game.versions[n] \in {None, copy.versions[n]}
         /\ \A s \in State : game.states[s] \in {0, copy.states[s]}
         /\ game.media \subseteq copy.media)

\* Media that a version shows stay where they are as long as the game is (checkNotShown).
ShownMediaStay == [][\A d \in Location \X Game : store[d] # None /\ store'[d] # None =>
                       (~store'[d].dying => Shown(store[d]) \cap store[d].media \subseteq store'[d].media)]_vars
============================================================================
