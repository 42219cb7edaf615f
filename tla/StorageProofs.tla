---------------------------- MODULE StorageProofs ----------------------------
(***************************************************************************)
(* Safety of what is stored and of the pages that edit and start it.       *)
(*                                                                         *)
(* Storage, for any games, versions, states, media and archives, as long   *)
(* as one request at a time is underway, beside the game that is played:   *)
(* numbers of versions are kept, played versions exist, a game that is     *)
(* moved is kept, and media that are shown stay.                           *)
(*                                                                         *)
(* Editor and Prepare, for any questions, media, stored versions, buzzers  *)
(* and saved teams: each question has the media config that was chosen for *)
(* it, wherever it is moved, and the game that is started has the marks of *)
(* its teams.                                                              *)
(***************************************************************************)
EXTENDS Storage, Editor, Prepare, SequenceTheorems, FiniteSetTheorems, TLAPS

----------------------------------------------------------------------------
(* The inductive invariant. *)

\* each number that was ever given is at most the highest one
Covered(held, m) == m <= held.highest \/ \E n \in Numbers : held.versions[n] # None /\ m <= n

GoodGame(held) ==
  /\ held \in GameRecord
  /\ ~held.dying =>
       /\ \A n \in Numbers : held.versions[n] \in {None, held.ever[n]}
       /\ \A s \in State : held.states[s] # 0 => held.versions[held.states[s]] # None
       /\ \A n \in Numbers : held.ever[n] # None => Covered(held, n)

PlayedAt(d) == activeGame # None /\ <<activeGame.l, activeGame.g>> = d

StoreInv ==
  /\ DOMAIN store = Location \X Game
  /\ \A d \in Location \X Game : store[d] # None => GoodGame(store[d])
  /\ activeGame # None =>
       /\ activeGame \in [l : Location, g : Game, version : Numbers, s : State]
       /\ store[<<activeGame.l, activeGame.g>>] # None
       /\ store[<<activeGame.l, activeGame.g>>].versions[activeGame.version] # None

\* What a request that is underway knows.
RemovalRequest == [op : {"delete"}, pc : {"remove"}, l : Location, g : Game, left : SUBSET Folders]
CopyRequest ==
  [op : {"copy"}, pc : {"check", "rename", "files", "remove"}, l : Location, g : Game,
   l2 : Location, g2 : Game, move : BOOLEAN, left : SUBSET Folders, copy : GameRecord]
BundleRequest ==
  [op : {"bundle"}, pc : {"check", "media", "version", "state"}, l : Location, g : Game, c : Content,
   s : State \cup {None}]
SaveRequest ==
  [op : {"save"}, pc : {"folders", "number", "exists", "write"}, l : Location, g : Game, c : Content,
   n : {0} \cup Numbers]
DeleteVersionRequest ==
  [op : {"deleteVersion"}, pc : {"check", "numbering", "unlink"}, l : Location, g : Game, n : Numbers,
   highest : {0} \cup Numbers]
MediaRequest ==
  [op : {"deleteMedia", "moveMedia"}, pc : {"check", "remove", "rename"}, l : Location, g : Game,
   p : Path \cup Folder, p2 : Path]

Creating(q) == q \in [op : {"create"}, pc : {"check", "make"}, l : Location, g : Game]

Deleting(q) ==
  \/ q \in [op : {"delete"}, pc : {"check"}, l : Location, g : Game]
  \/ /\ q \in RemovalRequest
     /\ ~PlayedAt(<<q.l, q.g>>)

\* what was copied is what the game has, as nobody plays it
HasCopied(q, held) ==
  /\ "versions" \notin q.left => /\ q.copy.versions = held.versions /\ q.copy.highest = held.highest
                                 /\ q.copy.ever = held.ever
  /\ "states" \notin q.left => q.copy.states = held.states
  /\ "media" \notin q.left => q.copy.media = held.media
  /\ q.left # Folders => q.copy.dying = held.dying

Copying(q) ==
  LET here == <<q.l, q.g>>  there == <<q.l2, q.g2>> IN
  /\ q \in CopyRequest
  /\ here # there
  /\ q.pc = "check" => q.left = Folders
  /\ q.pc # "check" => ~PlayedAt(here)
  /\ q.pc = "files" => store[here] # None /\ HasCopied(q, store[here])
  /\ q.pc = "remove" =>
       /\ ~PlayedAt(there) /\ store[there] # None
       /\ store[here] # None =>
            /\ \A n \in Numbers : store[here].versions[n] \in {None, store[there].versions[n]}
            /\ \A s \in State : store[here].states[s] \in {0, store[there].states[s]}
            /\ store[here].media \subseteq store[there].media

Importing(q) == q \in [op : {"archive"}, pc : {"check", "unpack"}, l : Location, g : Game, archive : Archive]

Bundling(q) ==
  LET held == store[<<q.l, q.g>>] IN
  /\ q \in BundleRequest
  /\ q.pc \in {"media", "version"} /\ held # None => held.ever[1] = None
  /\ q.pc = "state" => q.s \in State /\ (held # None => held.versions[1] # None)

Saving(q) ==
  LET held == store[<<q.l, q.g>>] IN
  /\ q \in SaveRequest
  /\ q.pc \in {"exists", "write"} => q.n \in Numbers /\ (held # None /\ ~held.dying => held.ever[q.n] = None)

DeletingVersion(q) ==
  LET held == store[<<q.l, q.g>>] IN
  /\ q \in DeleteVersionRequest
  /\ q.pc # "check" =>
       /\ PlayedAt(<<q.l, q.g>>) => activeGame.version # q.n
       /\ held # None =>
            /\ \A s \in State : held.states[s] # q.n
            /\ ~held.dying => \A m \in Numbers :
                 held.ever[m] # None => m <= IF q.pc = "numbering" THEN q.highest ELSE held.highest

ChangingState(q) ==
  q \in [op : {"renameState", "deleteState"}, pc : {"check", "change"}, l : Location, g : Game, s : State, s2 : State]

Uploading(q) == q \in [op : {"upload"}, pc : {"exists", "store"}, l : Location, g : Game, p : Path, overwrite : BOOLEAN]
CopyingIn(q) == q \in [op : {"copyIn"}, pc : {"name", "copy"}, l : Location, g : Game, p : Path]

TakingMedia(q) ==
  LET held == store[<<q.l, q.g>>] IN
  /\ q \in MediaRequest
  /\ q.pc # "check" /\ held # None => FilesOf(q.p) \cap Shown(held) = {}

Underway(q) ==
  \/ Creating(q) \/ Deleting(q) \/ Copying(q) \/ Importing(q) \/ Bundling(q) \/ Saving(q) \/ DeletingVersion(q)
  \/ ChangingState(q) \/ Uploading(q) \/ CopyingIn(q) \/ TakingMedia(q)

RequestInv ==
  /\ DOMAIN request = Request
  /\ \A r \in Request : request[r] # None => Underway(request[r])

StorageInv == StoreInv /\ RequestInv

----------------------------------------------------------------------------
(* The highest number of a version. *)

LEMMA NumberDef == /\ \A n : n \in Numbers <=> n \in Nat /\ 1 <= n /\ n <= MaxVersion
                   /\ 1 \in Numbers /\ 0 \notin Numbers /\ {0} \cup Numbers = 0 .. MaxVersion
  BY StorageAssumption, SMT DEF Numbers

\* A set of some numbers has a greatest one: otherwise each of its k elements would have from 1 to k - 1
\* greater ones, and no two of them as many.
LEMMA MaxIsGreatest ==
  ASSUME NEW S \in SUBSET (0 .. MaxVersion), S # {}
  PROVE  Max(S) \in S /\ \A y \in S : y <= Max(S)
<1> DEFINE Above(x) == {y \in S : y > x}
           k == Cardinality(S)
           f == [x \in S |-> Cardinality(Above(x))]
<1>1. IsFiniteSet(0 .. MaxVersion)
  BY FS_Interval, StorageAssumption
<1>2. IsFiniteSet(S) /\ k \in Nat
  BY <1>1, FS_Subset, FS_CardinalityType
<1>3. S \subseteq Int
  BY StorageAssumption
<1>4. \E x \in S : \A y \in S : y <= x
  <2> SUFFICES ASSUME \A x \in S : \E y \in S : ~(y <= x) PROVE FALSE
    OBVIOUS
  <2>1. ASSUME NEW x \in S
        PROVE  IsFiniteSet(Above(x)) /\ Cardinality(Above(x)) \in 1 .. k - 1
    <3>1. Above(x) \in SUBSET (S \ {x})
      BY <1>3
    <3>2. IsFiniteSet(S \ {x}) /\ Cardinality(S \ {x}) = k - 1
      BY <1>2, FS_RemoveElement
    <3>3. IsFiniteSet(Above(x)) /\ Cardinality(Above(x)) <= k - 1
      BY <3>1, <3>2, FS_Subset
    <3>4. Above(x) # {}
      BY <1>3
    <3>5. Cardinality(Above(x)) \in Nat /\ Cardinality(Above(x)) # 0
      BY <3>3, <3>4, FS_CardinalityType, FS_EmptySet
    <3> HIDE DEF Above, k
    <3> QED
      BY <1>2, <3>3, <3>5
  <2>2. ASSUME NEW x \in S, NEW y \in S, x < y PROVE Cardinality(Above(x)) # Cardinality(Above(y))
    <3>0. \A z \in S : z > y => z > x
      BY <1>3, <2>2
    <3>1. Above(y) \in SUBSET Above(x)
      BY <3>0
    <3>2. y \in Above(x) /\ ~(y > y)
      BY <1>3, <2>2
    <3>3. IsFiniteSet(Above(x)) /\ Above(y) # Above(x)
      BY <2>1, <3>2
    <3> HIDE DEF Above
    <3> QED
      BY <3>1, <3>3, FS_Subset
  <2>3. IsFiniteSet(1 .. k - 1) /\ Cardinality(1 .. k - 1) < k
    <3>1. k # 0
      BY <1>2, FS_EmptySet
    <3> HIDE DEF k
    <3>2. k - 1 \in Nat /\ k - 1 < k
      BY <1>2, <3>1
    <3>3. IsFiniteSet(1 .. k - 1) /\ Cardinality(1 .. k - 1) = IF 1 > k - 1 THEN 0 ELSE k - 1 - 1 + 1
      BY <3>2, FS_Interval
    <3> QED
      BY <1>2, <3>1, <3>3
  <2>4. f \in [S -> 1 .. k - 1]
    BY <2>1
  <2>5. \E x, y \in S : x # y /\ f[x] = f[y]
    <3> HIDE DEF f
    <3> QED
      BY <1>2, <2>3, <2>4, FS_PigeonHole
  <2> QED
    BY <1>3, <2>2, <2>5
<1>5. \A x, y \in S : y <= x <=> x >= y
  BY <1>3
<1> QED
  BY <1>4, <1>5 DEF Max

LEMMA Fields ==
  ASSUME NEW held \in GameRecord
  PROVE  /\ held = [versions |-> held.versions, highest |-> held.highest, states |-> held.states,
                    media |-> held.media, dying |-> held.dying, ever |-> held.ever]
         /\ held.versions \in [Numbers -> Content \cup {None}] /\ held.highest \in {0} \cup Numbers
         /\ held.states \in [State -> {0} \cup Numbers] /\ held.media \in SUBSET Path
         /\ held.dying \in BOOLEAN /\ held.ever \in [Numbers -> Content \cup {None}]
  BY DEF GameRecord

\* Each number that is covered is at most the one getHighestVersionNumber finds.
LEMMA HighestCovers ==
  ASSUME NEW held \in GameRecord
  PROVE  /\ getHighestVersionNumber(held) \in {0} \cup Numbers
         /\ getLatestVersionNumber(held) \in {0} \cup Numbers
         /\ \A m \in Numbers : Covered(held, m) => m <= getHighestVersionNumber(held)
<1> DEFINE latest == getLatestVersionNumber(held)
           highest == getHighestVersionNumber(held)
<1> USE NumberDef
<1>1. held.highest \in 0 .. MaxVersion
  BY Fields
<1>2. {0} \cup ListVersions(held.versions) \in SUBSET (0 .. MaxVersion)
  BY DEF ListVersions
<1>3. latest \in 0 .. MaxVersion /\ \A n \in Numbers : held.versions[n] # None => n <= latest
  BY <1>2, MaxIsGreatest DEF getLatestVersionNumber, ListVersions
<1> HIDE DEF latest
<1>4. {held.highest, latest} \in SUBSET (0 .. MaxVersion)
  BY <1>1, <1>3
<1>5. highest = Max({held.highest, latest})
  BY DEF getHighestVersionNumber, latest
<1> HIDE DEF highest
<1>6. highest \in 0 .. MaxVersion /\ held.highest <= highest /\ latest <= highest
  BY <1>4, <1>5, MaxIsGreatest
<1>7. ASSUME NEW m \in Numbers, Covered(held, m) PROVE m <= highest
  <2>1. CASE m <= held.highest
    BY <1>1, <1>6, <2>1
  <2>2. ASSUME NEW n \in Numbers, held.versions[n] # None, m <= n PROVE m <= highest
    BY <1>3, <1>6, <2>2
  <2> QED
    BY <1>7, <2>1, <2>2 DEF Covered
<1> QED
  BY <1>3, <1>6, <1>7 DEF latest, highest
----------------------------------------------------------------------------
(* What is done to a game leaves a good game. *)

LEMMA EmptyGood == GoodGame(EmptyGame) /\ EmptyGame \in GameRecord
<1>1. EmptyGame \in GameRecord
  BY DEF EmptyGame, GameRecord
<1>2. EmptyGame.states = [s \in State |-> 0] /\ EmptyGame.versions = [n \in Numbers |-> None]
      /\ EmptyGame.ever = [n \in Numbers |-> None]
  BY DEF EmptyGame
<1> QED
  BY <1>1, <1>2 DEF GoodGame

LEMMA GoodFields ==
  ASSUME NEW held, GoodGame(held), ~held.dying
  PROVE  /\ \A n \in Numbers : held.versions[n] \in {None, held.ever[n]}
         /\ \A s \in State : held.states[s] # 0 => held.versions[held.states[s]] # None
         /\ \A n \in Numbers : held.ever[n] # None => Covered(held, n)
  BY DEF GoodGame

\* the file of a version that has a new number, as it is written
WithVersion(held, n, c) == [held EXCEPT !.versions[n] = c, !.ever[n] = IF @ = None THEN c ELSE @]

LEMMA VersionWritten ==
  ASSUME NEW held, GoodGame(held), NEW n \in Numbers, NEW c \in Content, ~held.dying => held.ever[n] = None,
         NEW new, new = WithVersion(held, n, c)
  PROVE  /\ GoodGame(new) /\ new.media = held.media /\ new.dying = held.dying
         /\ new.versions = [held.versions EXCEPT ![n] = c]
<1>0. held \in GameRecord
  BY DEF GoodGame
<1> DEFINE numbered == [held.versions EXCEPT ![n] = c]
           ever == [held.ever EXCEPT ![n] = IF @ = None THEN c ELSE @]
<1>1. new = [versions |-> numbered, highest |-> held.highest, states |-> held.states,
             media |-> held.media, dying |-> held.dying, ever |-> ever]
  <2>1. held = [versions |-> held.versions, highest |-> held.highest, states |-> held.states,
                media |-> held.media, dying |-> held.dying, ever |-> held.ever]
    BY <1>0, Fields
  <2>2. PICK first : first = [held EXCEPT !.versions = numbered]
    OBVIOUS
  <2>3. first = [versions |-> numbered, highest |-> held.highest, states |-> held.states,
                 media |-> held.media, dying |-> held.dying, ever |-> held.ever]
    BY <2>1, <2>2
  <2>4. new = [first EXCEPT !.ever = [first.ever EXCEPT ![n] = IF first.ever[n] = None THEN c ELSE first.ever[n]]]
    BY <2>2 DEF WithVersion
  <2>5. first.ever = held.ever
    BY <2>3
  <2>6. new = [first EXCEPT !.ever = ever]
    BY <2>4, <2>5
  <2> QED
    BY <2>3, <2>6
<1>2. numbered \in [Numbers -> Content \cup {None}] /\ ever \in [Numbers -> Content \cup {None}]
  <2>1. held.ever[n] \in Content \cup {None} /\ held.ever \in [Numbers -> Content \cup {None}]
    BY <1>0, Fields
  <2>2. held.versions \in [Numbers -> Content \cup {None}]
    BY <1>0, Fields
  <2> QED
    BY <2>1, <2>2
<1>3. new \in GameRecord
  BY <1>0, <1>1, <1>2, Fields DEF GameRecord
<1>4. /\ new.versions = numbered /\ new.ever = ever /\ new.highest = held.highest /\ new.states = held.states
      /\ new.media = held.media /\ new.dying = held.dying
  BY <1>1
<1>5. numbered[n] = c /\ c # None /\ \A m \in Numbers : m # n => numbered[m] = held.versions[m] /\ ever[m] = held.ever[m]
  BY <1>0, Fields, StorageAssumption
<1>6. ASSUME ~held.dying
      PROVE  /\ \A m \in Numbers : numbered[m] \in {None, ever[m]}
             /\ \A s \in State : held.states[s] # 0 => numbered[held.states[s]] # None
             /\ \A m \in Numbers : ever[m] # None => Covered(new, m)
  <2>1. ever[n] = c
    BY <1>0, <1>6, Fields
  <2>2. \A m \in Numbers : numbered[m] \in {None, ever[m]}
    BY <1>5, <1>6, <2>1, GoodFields
  <2>3. \A s \in State : held.states[s] # 0 => numbered[held.states[s]] # None
    BY <1>0, <1>5, <1>6, GoodFields, Fields
  <2>4. ASSUME NEW m \in Numbers, ever[m] # None PROVE Covered(new, m)
    <3>1. CASE m = n
      BY <1>4, <1>5, <3>1, NumberDef DEF Covered
    <3>2. CASE m # n
      <4>1. Covered(held, m)
        BY <1>5, <1>6, <2>4, <3>2, GoodFields
      <4>2. \A k \in Numbers : held.versions[k] # None => numbered[k] # None
        BY <1>5
      <4> QED
        BY <1>4, <4>1, <4>2 DEF Covered
    <3> QED
      BY <3>1, <3>2
  <2> QED
    BY <2>2, <2>3, <2>4
<1> QED
  BY <1>3, <1>4, <1>6 DEF GoodGame

\* numbering.json, as it is written before a version is deleted
LEMMA NumberingWritten ==
  ASSUME NEW held, GoodGame(held), NEW h \in {0} \cup Numbers,
         ~held.dying => \A m \in Numbers : held.ever[m] # None => m <= h,
         NEW new, new = [held EXCEPT !.highest = h]
  PROVE  /\ GoodGame(new) /\ new.media = held.media /\ new.versions = held.versions
         /\ new.states = held.states /\ new.ever = held.ever /\ new.dying = held.dying /\ new.highest = h
<1>0. held \in GameRecord
  BY DEF GoodGame
<1>1. new = [versions |-> held.versions, highest |-> h, states |-> held.states,
             media |-> held.media, dying |-> held.dying, ever |-> held.ever]
  BY <1>0, Fields
<1>2. new \in GameRecord
  BY <1>0, <1>1, Fields DEF GameRecord
<1>3. /\ new.versions = held.versions /\ new.ever = held.ever /\ new.highest = h /\ new.states = held.states
      /\ new.media = held.media /\ new.dying = held.dying
  BY <1>1
<1>4. ~held.dying => \A m \in Numbers : held.ever[m] # None => Covered(new, m)
  BY <1>3 DEF Covered
<1> QED
  BY <1>2, <1>3, <1>4, GoodFields DEF GoodGame

\* a version that no state plays is deleted, after its number was noted
WithoutVersion(held, n) == [held EXCEPT !.versions[n] = None]

LEMMA VersionDeleted ==
  ASSUME NEW held, GoodGame(held), NEW n \in Numbers, \A s \in State : held.states[s] # n,
         ~held.dying => \A m \in Numbers : held.ever[m] # None => m <= held.highest,
         NEW new, new = WithoutVersion(held, n)
  PROVE  GoodGame(new) /\ new.media = held.media /\ new.versions = [held.versions EXCEPT ![n] = None]
<1>0. held \in GameRecord
  BY DEF GoodGame
<1> DEFINE numbered == [held.versions EXCEPT ![n] = None]
<1>1. new = [versions |-> numbered, highest |-> held.highest, states |-> held.states,
             media |-> held.media, dying |-> held.dying, ever |-> held.ever]
  BY <1>0, Fields DEF WithoutVersion
<1>2. numbered \in [Numbers -> Content \cup {None}]
  BY <1>0, Fields
<1>3. new \in GameRecord
  BY <1>0, <1>1, <1>2, Fields DEF GameRecord
<1>4. /\ new.versions = numbered /\ new.ever = held.ever /\ new.highest = held.highest /\ new.states = held.states
      /\ new.media = held.media /\ new.dying = held.dying
  BY <1>1
<1>5. numbered[n] = None /\ \A m \in Numbers : m # n => numbered[m] = held.versions[m]
  BY <1>0, Fields
<1>6. ASSUME ~held.dying
      PROVE  /\ \A m \in Numbers : numbered[m] \in {None, held.ever[m]}
             /\ \A s \in State : held.states[s] # 0 => numbered[held.states[s]] # None
             /\ \A m \in Numbers : held.ever[m] # None => Covered(new, m)
  <2>1. \A m \in Numbers : numbered[m] \in {None, held.ever[m]}
    BY <1>5, <1>6, GoodFields
  <2>2. \A s \in State : held.states[s] # 0 => numbered[held.states[s]] # None
    BY <1>0, <1>5, <1>6, GoodFields, Fields
  <2> QED
    BY <1>4, <1>6, <2>1, <2>2 DEF Covered
<1> QED
  BY <1>3, <1>4, <1>6 DEF GoodGame

\* states that play versions the game has
LEMMA StatesWritten ==
  ASSUME NEW held, GoodGame(held), NEW states \in [State -> {0} \cup Numbers],
         ~held.dying => \A s \in State : states[s] # 0 => held.versions[states[s]] # None,
         NEW new, new = [held EXCEPT !.states = states]
  PROVE  /\ GoodGame(new) /\ new.media = held.media /\ new.versions = held.versions
         /\ new.states = states /\ new.ever = held.ever /\ new.dying = held.dying /\ new.highest = held.highest
<1>0. held \in GameRecord
  BY DEF GoodGame
<1>1. new = [versions |-> held.versions, highest |-> held.highest, states |-> states,
             media |-> held.media, dying |-> held.dying, ever |-> held.ever]
  BY <1>0, Fields
<1>2. new \in GameRecord
  BY <1>0, <1>1, Fields DEF GameRecord
<1>3. /\ new.versions = held.versions /\ new.ever = held.ever /\ new.highest = held.highest /\ new.states = states
      /\ new.media = held.media /\ new.dying = held.dying
  BY <1>1
<1>4. \A m \in Numbers : Covered(held, m) => Covered(new, m)
  BY <1>3 DEF Covered
<1> QED
  BY <1>2, <1>3, <1>4, GoodFields DEF GoodGame

LEMMA MediaWritten ==
  ASSUME NEW held, GoodGame(held), NEW media \in SUBSET Path, NEW new, new = [held EXCEPT !.media = media]
  PROVE  /\ GoodGame(new) /\ new.media = media /\ new.versions = held.versions
         /\ new.ever = held.ever /\ new.dying = held.dying
<1>0. held \in GameRecord
  BY DEF GoodGame
<1>1. new = [versions |-> held.versions, highest |-> held.highest, states |-> held.states,
             media |-> media, dying |-> held.dying, ever |-> held.ever]
  BY <1>0, Fields
<1>2. new \in GameRecord
  BY <1>0, <1>1, Fields DEF GameRecord
<1>3. /\ new.versions = held.versions /\ new.ever = held.ever /\ new.highest = held.highest
      /\ new.states = held.states /\ new.media = media /\ new.dying = held.dying
  BY <1>1
<1>4. \A m \in Numbers : Covered(held, m) => Covered(new, m)
  BY <1>3 DEF Covered
<1> QED
  BY <1>2, <1>3, <1>4, GoodFields DEF GoodGame

\* a folder is gone: of a game that is removed, nothing is asked any more
LEMMA FolderRemoved ==
  ASSUME NEW held, GoodGame(held), NEW f \in Folders
  PROVE  /\ GoodGame(Removed(held, f)) /\ Removed(held, f).dying
         /\ \A n \in Numbers : Removed(held, f).versions[n] \in {None, held.versions[n]}
         /\ \A s \in State : Removed(held, f).states[s] \in {0, held.states[s]}
         /\ Removed(held, f).media \subseteq held.media
<1>0. held \in GameRecord
  BY DEF GoodGame
<1>a. held = [versions |-> held.versions, highest |-> held.highest, states |-> held.states,
              media |-> held.media, dying |-> held.dying, ever |-> held.ever]
  BY <1>0, Fields
<1>1. EmptyGame.states = [s \in State |-> 0] /\ EmptyGame.versions = [n \in Numbers |-> None]
  BY DEF EmptyGame
<1>2. CASE f = "versions"
  <2>1. Removed(held, f) = [versions |-> EmptyGame.versions, highest |-> 0, states |-> held.states,
                            media |-> held.media, dying |-> TRUE, ever |-> held.ever]
    <3>1. Removed(held, f) = [held EXCEPT !.versions = EmptyGame.versions, !.highest = 0, !.dying = TRUE]
      BY <1>2 DEF Removed
    <3> QED
      BY <1>a, <3>1
  <2>2. Removed(held, f) \in GameRecord
    BY <1>0, <1>1, <2>1, Fields DEF GameRecord
  <2>3. /\ Removed(held, f).versions = EmptyGame.versions /\ Removed(held, f).states = held.states
        /\ Removed(held, f).media = held.media /\ Removed(held, f).dying = TRUE
    BY <2>1
  <2>4. GoodGame(Removed(held, f))
    BY <2>2, <2>3 DEF GoodGame
  <2> QED
    BY <1>1, <2>3, <2>4
<1>3. CASE f = "states"
  <2>1. Removed(held, f) = [versions |-> held.versions, highest |-> held.highest, states |-> EmptyGame.states,
                            media |-> held.media, dying |-> TRUE, ever |-> held.ever]
    <3>1. Removed(held, f) = [held EXCEPT !.states = EmptyGame.states, !.dying = TRUE]
      BY <1>3 DEF Removed
    <3> QED
      BY <1>a, <3>1
  <2>2. Removed(held, f) \in GameRecord
    BY <1>0, <1>1, <2>1, Fields DEF GameRecord
  <2>3. /\ Removed(held, f).versions = held.versions /\ Removed(held, f).states = EmptyGame.states
        /\ Removed(held, f).media = held.media /\ Removed(held, f).dying = TRUE
    BY <2>1
  <2>4. GoodGame(Removed(held, f))
    BY <2>2, <2>3 DEF GoodGame
  <2> QED
    BY <1>1, <2>3, <2>4
<1>4. CASE f = "media"
  <2>1. Removed(held, f) = [versions |-> held.versions, highest |-> held.highest, states |-> held.states,
                            media |-> {}, dying |-> TRUE, ever |-> held.ever]
    <3>1. Removed(held, f) = [held EXCEPT !.media = {}, !.dying = TRUE]
      BY <1>4 DEF Removed
    <3> QED
      BY <1>a, <3>1
  <2>2. Removed(held, f) \in GameRecord
    BY <1>0, <2>1, Fields DEF GameRecord
  <2>3. /\ Removed(held, f).versions = held.versions /\ Removed(held, f).states = held.states
        /\ Removed(held, f).media = {} /\ Removed(held, f).dying = TRUE
    BY <2>1
  <2>4. GoodGame(Removed(held, f))
    BY <2>2, <2>3 DEF GoodGame
  <2> QED
    BY <1>1, <2>3, <2>4
<1> QED
  BY <1>2, <1>3, <1>4 DEF Folders

\* an archive that passed the check is a good game
Imported(a) == [EmptyGame EXCEPT !.versions = a.versions, !.highest = a.highest, !.states = a.states,
                                 !.media = a.media, !.ever = a.versions]

LEMMA ArchiveGood ==
  ASSUME NEW a \in Archive, checkArchivedGame(a),
         NEW new, new = Imported(a)
  PROVE  GoodGame(new)
<1>a. a \in ArchivedGame
  BY StorageAssumption
<1>0. /\ a.versions \in [Numbers -> Content \cup {None}] /\ a.highest \in {0} \cup Numbers
      /\ a.states \in [State -> {0} \cup Numbers] /\ a.media \in SUBSET Path
  BY <1>a DEF ArchivedGame
<1>1. new = [versions |-> a.versions, highest |-> a.highest, states |-> a.states,
             media |-> a.media, dying |-> FALSE, ever |-> a.versions]
  BY DEF EmptyGame, Imported
<1>2. new \in GameRecord
  BY <1>0, <1>1 DEF GameRecord
<1>3. /\ new.versions = a.versions /\ new.ever = a.versions /\ new.states = a.states
  BY <1>1
<1>4. \A s \in State : a.states[s] # 0 => a.versions[a.states[s]] # None
  BY <1>0, NumberDef DEF checkArchivedGame, ListVersions
<1>5. \A n \in Numbers : a.versions[n] # None => Covered(new, n)
  BY <1>3, NumberDef DEF Covered
<1> QED
  BY <1>2, <1>3, <1>4, <1>5 DEF GoodGame
LEMMA FolderCopied ==
  ASSUME NEW held \in GameRecord, NEW q, q.copy \in GameRecord, q.left \in SUBSET Folders, HasCopied(q, held),
         NEW f \in q.left,
         NEW q2, q2.left = q.left \ {f}, q2.copy = Copied([q.copy EXCEPT !.dying = held.dying], held, f)
  PROVE  q2.copy \in GameRecord /\ HasCopied(q2, held)
<1>1. PICK copy : copy = [q.copy EXCEPT !.dying = held.dying]
  OBVIOUS
<1>2. copy = [versions |-> q.copy.versions, highest |-> q.copy.highest, states |-> q.copy.states,
              media |-> q.copy.media, dying |-> held.dying, ever |-> q.copy.ever]
  BY <1>1, Fields
<1>3. q2.copy = Copied(copy, held, f)
  BY <1>1
<1>4. q2.left # Folders
  BY DEF Folders
<1>5. CASE f = "versions"
  <2>1. q2.copy = [copy EXCEPT !.versions = held.versions, !.highest = held.highest, !.ever = held.ever]
    BY <1>3, <1>5 DEF Copied
  <2>2. q2.copy = [versions |-> held.versions, highest |-> held.highest, states |-> q.copy.states,
                   media |-> q.copy.media, dying |-> held.dying, ever |-> held.ever]
    BY <1>2, <2>1
  <2>3. q2.copy \in GameRecord
    BY <2>2, Fields DEF GameRecord
  <2> QED
    BY <1>4, <1>5, <2>2, <2>3 DEF HasCopied
<1>6. CASE f = "states"
  <2>1. q2.copy = [copy EXCEPT !.states = held.states]
    BY <1>3, <1>6 DEF Copied
  <2>2. q2.copy = [versions |-> q.copy.versions, highest |-> q.copy.highest, states |-> held.states,
                   media |-> q.copy.media, dying |-> held.dying, ever |-> q.copy.ever]
    BY <1>2, <2>1
  <2>3. q2.copy \in GameRecord
    BY <2>2, Fields DEF GameRecord
  <2> QED
    BY <1>4, <1>6, <2>2, <2>3 DEF HasCopied
<1>7. CASE f = "media"
  <2>1. q2.copy = [copy EXCEPT !.media = held.media]
    BY <1>3, <1>7 DEF Copied
  <2>2. q2.copy = [versions |-> q.copy.versions, highest |-> q.copy.highest, states |-> q.copy.states,
                   media |-> held.media, dying |-> held.dying, ever |-> q.copy.ever]
    BY <1>2, <2>1
  <2>3. q2.copy \in GameRecord
    BY <2>2, Fields DEF GameRecord
  <2> QED
    BY <1>4, <1>7, <2>2, <2>3 DEF HasCopied
<1> QED
  BY <1>5, <1>6, <1>7 DEF Folders

LEMMA CopyIsComplete ==
  ASSUME NEW held \in GameRecord, NEW q, q.copy \in GameRecord, q.left = {}, HasCopied(q, held)
  PROVE  q.copy = held
<1>1. /\ q.copy.versions = held.versions /\ q.copy.highest = held.highest /\ q.copy.ever = held.ever
      /\ q.copy.states = held.states /\ q.copy.media = held.media /\ q.copy.dying = held.dying
  BY DEF HasCopied, Folders
<1> QED
  BY <1>1, Fields

----------------------------------------------------------------------------
(* A step that changes one game. *)

MediaStay ==
  \A d \in Location \X Game : store[d] # None /\ store'[d] # None =>
    (~store'[d].dying => Shown(store[d]) \cap store[d].media \subseteq store'[d].media)

\* `held' may be in the place of what is at d
Suits(d, held) ==
  /\ held = None => ~PlayedAt(d)
  /\ held # None =>
       /\ GoodGame(held)
       /\ PlayedAt(d) => held.versions[activeGame.version] # None
       /\ store[d] # None /\ ~held.dying => Shown(store[d]) \cap store[d].media \subseteq held.media

LEMMA PlayedExists ==
  ASSUME StoreInv, NEW d, PlayedAt(d)
  PROVE  /\ d \in Location \X Game /\ store[d] # None /\ store[d].versions[activeGame.version] # None
         /\ activeGame.version \in Numbers /\ activeGame.s \in State
  BY DEF StoreInv, PlayedAt

LEMMA SameGameSuits == ASSUME StoreInv, NEW d \in Location \X Game PROVE Suits(d, store[d])
<1>1. store[d] # None => GoodGame(store[d])
  BY DEF StoreInv
<1> QED
  BY <1>1, PlayedExists DEF Suits

LEMMA StoreChanges ==
  ASSUME StoreInv, NEW d \in Location \X Game, NEW held, Suits(d, held),
         store' = [store EXCEPT ![d] = held], activeGame' = activeGame
  PROVE  StoreInv' /\ MediaStay /\ store'[d] = held /\ \A e \in Location \X Game : e # d => store'[e] = store[e]
<1>1. DOMAIN store' = Location \X Game /\ store'[d] = held /\ \A e \in Location \X Game : e # d => store'[e] = store[e]
  BY DEF StoreInv
<1>2. \A e \in Location \X Game : store'[e] # None => GoodGame(store'[e])
  BY <1>1 DEF StoreInv, Suits
<1>3. MediaStay
  BY <1>1 DEF MediaStay, Suits
<1>4. ASSUME activeGame # None
      PROVE  /\ activeGame \in [l : Location, g : Game, version : Numbers, s : State]
             /\ store'[<<activeGame.l, activeGame.g>>] # None
             /\ store'[<<activeGame.l, activeGame.g>>].versions[activeGame.version] # None
  <2>1. PICK e : e = <<activeGame.l, activeGame.g>>
    OBVIOUS
  <2>2. activeGame \in [l : Location, g : Game, version : Numbers, s : State] /\ PlayedAt(e)
    BY <1>4, <2>1 DEF StoreInv, PlayedAt
  <2>3. e \in Location \X Game /\ store[e] # None /\ store[e].versions[activeGame.version] # None
    BY <2>2, PlayedExists
  <2>4. CASE e = d
    BY <1>1, <2>1, <2>2, <2>4 DEF Suits
  <2>5. CASE e # d
    BY <1>1, <2>1, <2>2, <2>3, <2>5
  <2> QED
    BY <2>4, <2>5
<1>5. StoreInv'
  BY <1>1, <1>2, <1>4 DEF StoreInv, GoodGame, Covered
<1> QED
  BY <1>1, <1>3, <1>5

\* What a step of a request has to show.
Goes(r) == StoreInv' /\ MediaStay /\ RequestInv'

LEMMA StoreStays ==
  ASSUME StoreInv, UNCHANGED <<store, activeGame>>
  PROVE  StoreInv' /\ MediaStay
<1>1. StoreInv'
  BY DEF StoreInv
<1>2. MediaStay
  BY DEF MediaStay
<1> QED
  BY <1>1, <1>2

\* Nobody else is underway, so only this request has something to remember.
LEMMA RequestGoesOn ==
  ASSUME RequestInv, OneAtATime, NEW r \in Request, request[r] # None,
         NEW q, request' = [request EXCEPT ![r] = q], q = None \/ Underway(q)'
  PROVE  RequestInv'
<1>1. DOMAIN request' = Request /\ request'[r] = q
  BY DEF RequestInv
<1>2. \A p \in Request : p # r => request'[p] = None
  BY DEF RequestInv, OneAtATime
<1>3. ASSUME NEW p \in Request, request'[p] # None PROVE Underway(request[p])'
  <2>1. p = r /\ request'[p] = q
    BY <1>1, <1>2, <1>3
  <2> QED
    BY <1>3, <2>1
<1> QED
  BY <1>1, <1>3 DEF RequestInv
LEMMA Kinds ==
  ASSUME NEW q, Underway(q)
  PROVE  /\ q.op = "create" => Creating(q)
         /\ q.op = "delete" => Deleting(q)
         /\ q.op = "copy" => Copying(q)
         /\ q.op = "archive" => Importing(q)
         /\ q.op = "bundle" => Bundling(q)
         /\ q.op = "save" => Saving(q)
         /\ q.op = "deleteVersion" => DeletingVersion(q)
         /\ q.op \in {"renameState", "deleteState"} => ChangingState(q)
         /\ q.op = "upload" => Uploading(q)
         /\ q.op = "copyIn" => CopyingIn(q)
         /\ q.op \in {"deleteMedia", "moveMedia"} => TakingMedia(q)
<1>1. /\ Creating(q) => q.op = "create"
      /\ Deleting(q) => q.op = "delete"
      /\ Copying(q) => q.op = "copy"
      /\ Importing(q) => q.op = "archive"
      /\ Bundling(q) => q.op = "bundle"
      /\ Saving(q) => q.op = "save"
      /\ DeletingVersion(q) => q.op = "deleteVersion"
  BY DEF Creating, Deleting, RemovalRequest, Copying, CopyRequest, Importing, Bundling, BundleRequest, Saving, SaveRequest,
         DeletingVersion, DeleteVersionRequest
<1>2. /\ ChangingState(q) => q.op \in {"renameState", "deleteState"}
      /\ Uploading(q) => q.op = "upload"
      /\ CopyingIn(q) => q.op = "copyIn"
      /\ TakingMedia(q) => q.op \in {"deleteMedia", "moveMedia"}
  BY DEF ChangingState, Uploading, CopyingIn, TakingMedia, MediaRequest
<1> QED
  BY <1>1, <1>2 DEF Underway

LEMMA Answers ==
  ASSUME StorageInv, OneAtATime, NEW r \in Request, request[r] # None, Answer(r),
         NEW d \in Location \X Game, NEW held, Suits(d, held), Change(d, held)
  PROVE  Goes(r)
<1>1. StoreInv' /\ MediaStay
  BY StoreChanges DEF StorageInv, Answer, Change
<1>2. RequestInv'
  BY RequestGoesOn DEF StorageInv, Answer
<1> QED
  BY <1>1, <1>2 DEF Goes

LEMMA Refuses ==
  ASSUME StorageInv, OneAtATime, NEW r \in Request, request[r] # None, Refuse(r)
  PROVE  Goes(r)
<1>1. StoreInv' /\ MediaStay
  BY StoreStays DEF StorageInv, Answer, Refuse
<1>2. RequestInv'
  BY RequestGoesOn DEF StorageInv, Answer, Refuse
<1> QED
  BY <1>1, <1>2 DEF Goes

LEMMA Continues ==
  ASSUME StorageInv, OneAtATime, NEW r \in Request, request[r] # None,
         NEW q, request' = [request EXCEPT ![r] = q], Underway(q)', UNCHANGED <<store, activeGame>>
  PROVE  Goes(r)
<1>1. StoreInv' /\ MediaStay
  BY StoreStays DEF StorageInv
<1>2. RequestInv'
  BY RequestGoesOn DEF StorageInv
<1> QED
  BY <1>1, <1>2 DEF Goes

LEMMA ChangesAndContinues ==
  ASSUME StorageInv, OneAtATime, NEW r \in Request, request[r] # None,
         NEW q, request' = [request EXCEPT ![r] = q], Underway(q)', activeGame' = activeGame,
         NEW d \in Location \X Game, NEW held, Suits(d, held), Change(d, held)
  PROVE  Goes(r)
<1>1. StoreInv' /\ MediaStay
  BY StoreChanges DEF StorageInv, Change
<1>2. RequestInv'
  BY RequestGoesOn DEF StorageInv
<1> QED
  BY <1>1, <1>2 DEF Goes

LEMMA GoodStored == ASSUME StoreInv, NEW d \in Location \X Game, store[d] # None PROVE GoodGame(store[d]) /\ store[d] \in GameRecord
  BY DEF StoreInv, GoodGame

\* Nobody plays a game that was not there a moment ago.
LEMMA EmptySuits == ASSUME StoreInv, NEW d \in Location \X Game, store[d] = None PROVE Suits(d, EmptyGame)
  BY EmptyGood, PlayedExists DEF Suits

----------------------------------------------------------------------------
(* Versions. *)

LEMMA SaveGoes ==
  ASSUME StorageInv, OneAtATime, NEW r \in Request, saveVersion(r)
  PROVE  Goes(r)
<1> PICK q : q = request[r]
  OBVIOUS
<1> PICK d : d = <<q.l, q.g>>
  OBVIOUS
<1> PICK held : held = store[d]
  OBVIOUS
<1>1. request[r] # None /\ q.op = "save"
  BY DEF saveVersion, At
<1>2. Saving(q)
  BY <1>1, Kinds DEF StorageInv, RequestInv
<1>3. d \in Location \X Game /\ Here(r) = d /\ Its(r) = held
      /\ q \in SaveRequest
  BY <1>2 DEF Saving, SaveRequest, Here, Its
<1>4. Refuse(r) => Goes(r)
  BY <1>1, Refuses
<1>5. CASE q.pc = "folders" /\ Change(d, IF held = None THEN EmptyGame ELSE held) /\ Goto(r, "number")
  <2>1. PICK q2 : q2 = [q EXCEPT !.pc = "number"]
    OBVIOUS
  <2>2. q2 \in SaveRequest
        /\ q2.pc = "number"
    BY <1>3, <2>1 DEF SaveRequest
  <2>3. Underway(q2)'
    BY <2>2 DEF Underway, Saving
  <2>4. request' = [request EXCEPT ![r] = q2] /\ activeGame' = activeGame
    BY <1>5, <2>1 DEF Goto
  <2>5. Suits(d, IF held = None THEN EmptyGame ELSE held)
    BY <1>3, EmptySuits, SameGameSuits DEF StorageInv
  <2> QED
    BY <1>1, <1>3, <1>5, <2>3, <2>4, <2>5, ChangesAndContinues
<1>6. CASE /\ q.pc = "number" /\ held # None /\ getHighestVersionNumber(held) # MaxVersion
           /\ request' = [request EXCEPT ![r].pc = "exists", ![r].n = getHighestVersionNumber(held) + 1]
           /\ UNCHANGED <<store, activeGame, requests>>
  <2> PICK h : h = getHighestVersionNumber(held)
    OBVIOUS
  <2>0. GoodGame(held) /\ held \in GameRecord
    BY <1>3, <1>6, GoodStored DEF StorageInv
  <2>1. h \in 0 .. MaxVersion /\ \A m \in Numbers : Covered(held, m) => m <= h
    BY <2>0, HighestCovers, NumberDef
  <2>2. h + 1 \in Numbers /\ ~(h + 1 <= h)
    BY <1>6, <2>1, NumberDef, StorageAssumption
  <2>3. ~held.dying => held.ever[h + 1] = None
    BY <2>0, <2>1, <2>2, GoodFields
  <2>4. PICK q2 : q2 = [q EXCEPT !.pc = "exists", !.n = h + 1]
    OBVIOUS
  <2>5. q2 = [op |-> "save", pc |-> "exists", l |-> q.l, g |-> q.g, c |-> q.c, n |-> h + 1]
    BY <1>3, <2>4 DEF SaveRequest
  <2>6. Saving(q2)'
    BY <1>3, <1>6, <2>2, <2>3, <2>5 DEF Saving, SaveRequest
  <2>7. request' = [request EXCEPT ![r] = q2]
    BY <1>6, <2>4
  <2> QED
    BY <1>1, <1>6, <2>6, <2>7, Continues DEF Underway
<1>7. CASE q.pc = "exists" /\ Goto(r, "write") /\ UNCHANGED store
  <2>1. PICK q2 : q2 = [q EXCEPT !.pc = "write"]
    OBVIOUS
  <2>2. q2 = [op |-> "save", pc |-> "write", l |-> q.l, g |-> q.g, c |-> q.c, n |-> q.n]
    BY <1>3, <2>1 DEF SaveRequest
  <2>3. q.n \in Numbers /\ (held # None /\ ~held.dying => held.ever[q.n] = None)
    BY <1>2, <1>7 DEF Saving
  <2>4. Saving(q2)'
    BY <1>3, <1>7, <2>2, <2>3 DEF Saving, SaveRequest
  <2>5. request' = [request EXCEPT ![r] = q2] /\ UNCHANGED <<store, activeGame>>
    BY <1>7, <2>1 DEF Goto
  <2> QED
    BY <1>1, <2>4, <2>5, Continues DEF Underway
<1>8. CASE /\ q.pc = "write" /\ held # None /\ Answer(r)
           /\ Change(d, [held EXCEPT !.versions[q.n] = q.c, !.ever[q.n] = IF @ = None THEN q.c ELSE @])
  <2>1. q.n \in Numbers /\ q.c \in Content /\ (~held.dying => held.ever[q.n] = None)
    BY <1>2, <1>3, <1>8 DEF Saving, SaveRequest
  <2>2. PICK new : new = WithVersion(held, q.n, q.c)
    OBVIOUS
  <2>a. GoodGame(held)
    BY <1>3, <1>8, GoodStored DEF StorageInv
  <2>3. GoodGame(new) /\ new.media = held.media /\ new.versions = [held.versions EXCEPT ![q.n] = q.c]
    BY <2>1, <2>2, <2>a, VersionWritten
  <2>4. held.versions \in [Numbers -> Content \cup {None}]
    BY <1>3, <1>8, GoodStored, Fields DEF StorageInv
  <2>5. PlayedAt(d) => new.versions[activeGame.version] # None
    BY <1>3, <2>1, <2>3, <2>4, PlayedExists, StorageAssumption DEF StorageInv
  <2>6. new # None
    BY <2>3, StorageAssumption DEF GoodGame
  <2>7. Suits(d, new)
    BY <2>3, <2>5, <2>6 DEF Suits
  <2>8. Change(d, new)
    BY <1>8, <2>2 DEF WithVersion
  <2> QED
    BY <1>1, <1>3, <1>8, <2>7, <2>8, Answers
<1> QED
  BY <1>3, <1>4, <1>5, <1>6, <1>7, <1>8 DEF saveVersion, At
\* A game may be replaced by one with the same versions that keeps the media they show.
LEMMA SameVersionsSuit ==
  ASSUME StoreInv, NEW d \in Location \X Game, store[d] # None,
         NEW new, GoodGame(new), new.versions = store[d].versions,
         ~new.dying => Shown(store[d]) \cap store[d].media \subseteq new.media
  PROVE  Suits(d, new)
<1>1. new # None
  BY StorageAssumption DEF GoodGame
<1> QED
  BY <1>1, PlayedExists DEF Suits

LEMMA DeleteVersionGoes ==
  ASSUME StorageInv, OneAtATime, NEW r \in Request, deleteVersion(r)
  PROVE  Goes(r)
<1> PICK q : q = request[r]
  OBVIOUS
<1> PICK d : d = <<q.l, q.g>>
  OBVIOUS
<1> PICK held : held = store[d]
  OBVIOUS
<1>1. request[r] # None /\ q.op = "deleteVersion"
  BY DEF deleteVersion, At
<1>2. DeletingVersion(q)
  BY <1>1, Kinds DEF StorageInv, RequestInv
<1>3. d \in Location \X Game /\ Here(r) = d /\ Its(r) = held /\ q \in DeleteVersionRequest
  BY <1>2 DEF DeletingVersion, DeleteVersionRequest, Here, Its
<1>4. Refuse(r) => Goes(r)
  BY <1>1, Refuses
<1>5. held # None => GoodGame(held) /\ held \in GameRecord
  BY <1>3, GoodStored DEF StorageInv
<1>6. CASE /\ q.pc = "check" /\ held # None /\ ~isPlayed(held, q.l, q.g, q.n)
           /\ request' = [request EXCEPT ![r].pc = "numbering", ![r].highest = getHighestVersionNumber(held)]
           /\ UNCHANGED <<store, activeGame, requests>>
  <2> PICK h : h = getHighestVersionNumber(held)
    OBVIOUS
  <2>1. h \in {0} \cup Numbers /\ \A m \in Numbers : Covered(held, m) => m <= h
    BY <1>5, <1>6, HighestCovers
  <2>2. PICK q2 : q2 = [q EXCEPT !.pc = "numbering", !.highest = h]
    OBVIOUS
  <2>3. q2 = [op |-> "deleteVersion", pc |-> "numbering", l |-> q.l, g |-> q.g, n |-> q.n, highest |-> h]
    BY <1>3, <2>2 DEF DeleteVersionRequest
  <2>4. q2 \in DeleteVersionRequest
    BY <1>3, <2>1, <2>3 DEF DeleteVersionRequest
  <2>5. PlayedAt(d) => activeGame.version # q.n
    BY <1>6 DEF isPlayed, isActive, PlayedAt
  <2>6. \A s \in State : held.states[s] # q.n
    BY <1>6 DEF isPlayed
  <2>7. ~held.dying => \A m \in Numbers : held.ever[m] # None => m <= h
    BY <1>5, <1>6, <2>1, GoodFields
  <2>8. q2.pc = "numbering" /\ <<q2.l, q2.g>> = d /\ q2.n = q.n /\ q2.highest = h
    BY <2>3
  <2>9. DeletingVersion(q2)'
    BY <1>6, <2>4, <2>5, <2>6, <2>7, <2>8 DEF DeletingVersion, PlayedAt
  <2>10. request' = [request EXCEPT ![r] = q2]
    BY <1>6, <2>2
  <2> QED
    BY <1>1, <1>6, <2>9, <2>10, Continues DEF Underway
<1>7. CASE q.pc = "numbering" /\ held # None /\ Change(d, [held EXCEPT !.highest = q.highest]) /\ Goto(r, "unlink")
  <2>1. q.highest \in {0} \cup Numbers /\ (~held.dying => \A m \in Numbers : held.ever[m] # None => m <= q.highest)
        /\ (PlayedAt(d) => activeGame.version # q.n) /\ \A s \in State : held.states[s] # q.n
    BY <1>2, <1>3, <1>7 DEF DeletingVersion, DeleteVersionRequest
  <2>h. PICK h : h = q.highest
    OBVIOUS
  <2>a. GoodGame(held)
    BY <1>5, <1>7
  <2>2. PICK new : new = [held EXCEPT !.highest = h]
    OBVIOUS
  <2>3. /\ GoodGame(new) /\ new.media = held.media /\ new.versions = held.versions
        /\ new.states = held.states /\ new.ever = held.ever /\ new.dying = held.dying /\ new.highest = h
    <3>1. h \in {0} \cup Numbers /\ (~held.dying => \A m \in Numbers : held.ever[m] # None => m <= h)
      BY <2>1, <2>h
    <3> QED
      BY <2>2, <2>a, <3>1, NumberingWritten
  <2>4. Suits(d, new)
    BY <1>3, <1>7, <2>3, SameVersionsSuit DEF StorageInv
  <2>5. PICK q2 : q2 = [q EXCEPT !.pc = "unlink"]
    OBVIOUS
  <2>6. q2 = [op |-> "deleteVersion", pc |-> "unlink", l |-> q.l, g |-> q.g, n |-> q.n, highest |-> q.highest]
    BY <1>3, <2>5 DEF DeleteVersionRequest
  <2>7. q2 \in DeleteVersionRequest
    BY <1>3, <2>6 DEF DeleteVersionRequest
  <2>8. q2.pc = "unlink" /\ <<q2.l, q2.g>> = d /\ q2.n = q.n
    BY <2>6
  <2>9. Change(d, new) /\ request' = [request EXCEPT ![r] = q2] /\ activeGame' = activeGame
    BY <1>7, <2>h, <2>2, <2>5 DEF Goto
  <2>10. store'[d] = new
    BY <1>3, <2>4, <2>9, StoreChanges DEF StorageInv, Change
  <2>11. DeletingVersion(q2)'
    BY <2>1, <2>h, <2>3, <2>7, <2>8, <2>9, <2>10 DEF DeletingVersion, PlayedAt
  <2> QED
    BY <1>1, <1>3, <2>4, <2>9, <2>11, ChangesAndContinues DEF Underway
<1>8. CASE q.pc = "unlink" /\ held # None /\ Change(d, [held EXCEPT !.versions[q.n] = None]) /\ Answer(r)
  <2>1. q.n \in Numbers /\ (~held.dying => \A m \in Numbers : held.ever[m] # None => m <= held.highest)
        /\ (PlayedAt(d) => activeGame.version # q.n) /\ \A s \in State : held.states[s] # q.n
    BY <1>2, <1>3, <1>8 DEF DeletingVersion, DeleteVersionRequest
  <2>2. PICK new : new = WithoutVersion(held, q.n)
    OBVIOUS
  <2>a. GoodGame(held)
    BY <1>5, <1>8
  <2>3. GoodGame(new) /\ new.media = held.media /\ new.versions = [held.versions EXCEPT ![q.n] = None]
    <3> PICK n : n = q.n
      OBVIOUS
    <3>1. n \in Numbers /\ new = WithoutVersion(held, n)
      BY <2>1, <2>2
    <3>2. \A s \in State : held.states[s] # n
      BY <2>1
    <3>3. ~held.dying => \A m \in Numbers : held.ever[m] # None => m <= held.highest
      BY <2>1
    <3>4. GoodGame(new) /\ new.media = held.media /\ new.versions = [held.versions EXCEPT ![n] = None]
      BY <2>a, <3>1, <3>2, <3>3, VersionDeleted
    <3> QED
      BY <3>4
  <2>4. PlayedAt(d) => new.versions[activeGame.version] # None
    <3>1. held.versions \in [Numbers -> Content \cup {None}]
      BY <1>5, <1>8, Fields
    <3> QED
      BY <1>3, <2>1, <2>3, <3>1, PlayedExists DEF StorageInv
  <2>5. new # None
    BY <2>3, StorageAssumption DEF GoodGame
  <2>6. Suits(d, new)
    BY <2>3, <2>4, <2>5 DEF Suits
  <2>7. Change(d, new)
    BY <1>8, <2>2 DEF WithoutVersion
  <2> QED
    BY <1>1, <1>3, <1>8, <2>6, <2>7, Answers
<1> QED
  BY <1>3, <1>4, <1>6, <1>7, <1>8 DEF deleteVersion, At

----------------------------------------------------------------------------
(* States. *)

LEMMA ChangeStateGoes ==
  ASSUME StorageInv, OneAtATime, NEW r \in Request, renameState(r) \/ deleteState(r)
  PROVE  Goes(r)
<1> PICK q : q = request[r]
  OBVIOUS
<1> PICK d : d = <<q.l, q.g>>
  OBVIOUS
<1> PICK held : held = store[d]
  OBVIOUS
<1>1. request[r] # None /\ q.op \in {"renameState", "deleteState"} /\ changeState(r)
  BY DEF renameState, deleteState, At
<1>2. ChangingState(q)
  BY <1>1, Kinds DEF StorageInv, RequestInv
<1>3. d \in Location \X Game /\ Here(r) = d /\ Its(r) = held /\ q.s \in State /\ q.s2 \in State
  BY <1>2 DEF ChangingState, Here, Its
<1>4. Refuse(r) => Goes(r)
  BY <1>1, Refuses
<1>5. CASE q.pc = "check" /\ Goto(r, "change") /\ UNCHANGED store
  <2>1. PICK q2 : q2 = [q EXCEPT !.pc = "change"]
    OBVIOUS
  <2>2. ChangingState(q2)'
    BY <1>2, <2>1 DEF ChangingState
  <2>3. request' = [request EXCEPT ![r] = q2] /\ UNCHANGED <<store, activeGame>>
    BY <1>5, <2>1 DEF Goto
  <2> QED
    BY <1>1, <2>2, <2>3, Continues DEF Underway
<1>6. CASE /\ held # None /\ held.states[q.s] # 0 /\ Answer(r)
           /\ Change(d, IF q.op = "renameState" THEN [held EXCEPT !.states[q.s2] = held.states[q.s], !.states[q.s] = 0]
                                                ELSE [held EXCEPT !.states[q.s] = 0])
  <2>1. GoodGame(held) /\ held \in GameRecord
    BY <1>3, <1>6, GoodStored DEF StorageInv
  <2>2. held.states \in [State -> {0} \cup Numbers] /\ held.dying \in BOOLEAN
    BY <2>1, Fields
  <2>3. PICK states : states = IF q.op = "renameState" THEN [held.states EXCEPT ![q.s2] = held.states[q.s], ![q.s] = 0]
                                                       ELSE [held.states EXCEPT ![q.s] = 0]
    OBVIOUS
  <2>4. states \in [State -> {0} \cup Numbers] /\ \A s \in State : states[s] \in {0, held.states[s], held.states[q.s]}
    BY <1>3, <2>2, <2>3
  <2>5. ~held.dying => \A s \in State : states[s] # 0 => held.versions[states[s]] # None
    BY <1>3, <2>1, <2>4, GoodFields
  <2>6. PICK new : new = [held EXCEPT !.states = states]
    OBVIOUS
  <2>7. GoodGame(new) /\ new.media = held.media /\ new.versions = held.versions
    BY <2>1, <2>4, <2>5, <2>6, StatesWritten
  <2>8. Suits(d, new)
    BY <1>3, <1>6, <2>7, SameVersionsSuit DEF StorageInv
  <2>9. Change(d, new)
    <3>1. held = [versions |-> held.versions, highest |-> held.highest, states |-> held.states,
                  media |-> held.media, dying |-> held.dying, ever |-> held.ever]
      BY <2>1, Fields
    <3>2. CASE q.op = "renameState"
      <4>1. PICK first : first = [held EXCEPT !.states = [held.states EXCEPT ![q.s2] = held.states[q.s]]]
        OBVIOUS
      <4>2. first.states = [held.states EXCEPT ![q.s2] = held.states[q.s]]
        BY <3>1, <4>1
      <4>3. [first EXCEPT !.states = [first.states EXCEPT ![q.s] = 0]] = new
        BY <2>3, <2>6, <3>1, <3>2, <4>1, <4>2
      <4> QED
        BY <1>6, <3>2, <4>1, <4>3
    <3>3. CASE q.op # "renameState"
      BY <1>6, <2>3, <2>6, <3>3
    <3> QED
      BY <3>2, <3>3
  <2> QED
    BY <1>1, <1>3, <1>6, <2>8, <2>9, Answers
<1> QED
  BY <1>1, <1>3, <1>4, <1>5, <1>6 DEF changeState

----------------------------------------------------------------------------
(* Media. *)

LEMMA UploadGoes ==
  ASSUME StorageInv, OneAtATime, NEW r \in Request, uploadGameMedia(r) \/ copyIntoGame(r)
  PROVE  Goes(r)
<1> PICK q : q = request[r]
  OBVIOUS
<1> PICK d : d = <<q.l, q.g>>
  OBVIOUS
<1> PICK held : held = store[d]
  OBVIOUS
<1>1. request[r] # None /\ (Uploading(q) \/ CopyingIn(q))
  BY Kinds DEF uploadGameMedia, copyIntoGame, At, StorageInv, RequestInv
<1>2. d \in Location \X Game /\ Here(r) = d /\ Its(r) = held /\ q.p \in Path
  BY <1>1 DEF Uploading, CopyingIn, Here, Its
<1>3. Refuse(r) => Goes(r)
  BY <1>1, Refuses
<1>4. CASE Uploading(q) /\ Goto(r, "store") /\ UNCHANGED store
  <2>1. PICK q2 : q2 = [q EXCEPT !.pc = "store"]
    OBVIOUS
  <2>2. Uploading(q2)'
    BY <1>4, <2>1 DEF Uploading
  <2>3. request' = [request EXCEPT ![r] = q2] /\ UNCHANGED <<store, activeGame>>
    BY <1>4, <2>1 DEF Goto
  <2> QED
    BY <1>1, <2>2, <2>3, Continues DEF Underway
<1>5. ASSUME CopyingIn(q), NEW p \in Path, request' = [request EXCEPT ![r].pc = "copy", ![r].p = p],
             UNCHANGED <<store, activeGame, requests>>
      PROVE  Goes(r)
  <2>1. PICK q2 : q2 = [q EXCEPT !.pc = "copy", !.p = p]
    OBVIOUS
  <2>2. CopyingIn(q2)'
    BY <1>5, <2>1 DEF CopyingIn
  <2>3. request' = [request EXCEPT ![r] = q2]
    BY <1>5, <2>1
  <2> QED
    BY <1>1, <1>5, <2>2, <2>3, Continues DEF Underway
<1>6. CASE held # None /\ Change(d, [held EXCEPT !.media = @ \cup {q.p}]) /\ Answer(r)
  <2>1. GoodGame(held) /\ held.media \in SUBSET Path
    BY <1>2, <1>6, GoodStored, Fields DEF StorageInv
  <2>2. PICK new : new = [held EXCEPT !.media = held.media \cup {q.p}]
    OBVIOUS
  <2>3. GoodGame(new) /\ new.media = held.media \cup {q.p} /\ new.versions = held.versions
    <3>1. PICK media : media = held.media \cup {q.p}
      OBVIOUS
    <3>2. media \in SUBSET Path
      BY <1>2, <2>1, <3>1
    <3>3. new = [held EXCEPT !.media = media]
      BY <2>2, <3>1
    <3>4. GoodGame(new) /\ new.media = media /\ new.versions = held.versions
      BY <2>1, <3>2, <3>3, MediaWritten
    <3> QED
      BY <3>1, <3>4
  <2>4. Suits(d, new)
    BY <1>2, <1>6, <2>3, SameVersionsSuit DEF StorageInv
  <2> QED
    BY <1>1, <1>2, <1>6, <2>2, <2>4, Answers
<1>7. Uploading(q) => q.op = "upload"
  BY DEF Uploading
<1>8. CopyingIn(q) => q.op = "copyIn"
  BY DEF CopyingIn
<1> QED
  BY <1>1, <1>2, <1>3, <1>4, <1>5, <1>6, <1>7, <1>8 DEF uploadGameMedia, copyIntoGame, At

\* Media are taken away when no version showed them at the check, and none shows more since.
LEMMA TakeMediaGoes ==
  ASSUME StorageInv, OneAtATime, NEW r \in Request, deleteGameMedia(r) \/ moveGameMedia(r)
  PROVE  Goes(r)
<1> PICK q : q = request[r]
  OBVIOUS
<1> PICK d : d = <<q.l, q.g>>
  OBVIOUS
<1> PICK held : held = store[d]
  OBVIOUS
<1>1. request[r] # None /\ TakingMedia(q)
  BY Kinds DEF deleteGameMedia, moveGameMedia, At, StorageInv, RequestInv
<1>2. d \in Location \X Game /\ Here(r) = d /\ Its(r) = held /\ q \in MediaRequest
  BY <1>1 DEF TakingMedia, MediaRequest, Here, Its
<1>3. Refuse(r) => Goes(r)
  BY <1>1, Refuses
<1>4. ASSUME NEW pc \in {"remove", "rename"}, ~isShown(held, q.p), Goto(r, pc), UNCHANGED store
      PROVE  Goes(r)
  <2>1. PICK q2 : q2 = [q EXCEPT !.pc = pc]
    OBVIOUS
  <2>2. q2 = [op |-> q.op, pc |-> pc, l |-> q.l, g |-> q.g, p |-> q.p, p2 |-> q.p2]
    BY <1>2, <2>1 DEF MediaRequest
  <2>3. q2 \in MediaRequest
    BY <1>2, <1>4, <2>2 DEF MediaRequest
  <2>4. FilesOf(q.p) \cap Shown(held) = {}
    BY <1>4 DEF isShown
  <2>5. <<q2.l, q2.g>> = d /\ q2.p = q.p
    BY <2>2
  <2>6. TakingMedia(q2)'
    BY <1>4, <2>3, <2>4, <2>5 DEF TakingMedia
  <2>7. request' = [request EXCEPT ![r] = q2] /\ UNCHANGED <<store, activeGame>>
    BY <1>4, <2>1 DEF Goto
  <2> QED
    BY <1>1, <2>6, <2>7, Continues DEF Underway
<1>5. ASSUME q.pc # "check", held # None, Answer(r), NEW more \in SUBSET Path,
             Change(d, [held EXCEPT !.media = (@ \ FilesOf(q.p)) \cup more])
      PROVE  Goes(r)
  <2>1. GoodGame(held) /\ held.media \in SUBSET Path
    BY <1>2, <1>5, GoodStored, Fields DEF StorageInv
  <2>m. PICK media : media = (held.media \ FilesOf(q.p)) \cup more
    OBVIOUS
  <2>2. PICK new : new = [held EXCEPT !.media = media]
    OBVIOUS
  <2>3. GoodGame(new) /\ new.media = (held.media \ FilesOf(q.p)) \cup more /\ new.versions = held.versions
    <3>1. media \in SUBSET Path
      BY <1>5, <2>1, <2>m
    <3>2. GoodGame(new) /\ new.media = media /\ new.versions = held.versions
      BY <2>1, <2>2, <3>1, MediaWritten
    <3> QED
      BY <2>m, <3>2
  <2>4. FilesOf(q.p) \cap Shown(held) = {}
    BY <1>1, <1>5 DEF TakingMedia
  <2>5. Suits(d, new)
    BY <1>2, <1>5, <2>3, <2>4, SameVersionsSuit DEF StorageInv
  <2>6. Change(d, new)
    BY <1>5, <2>m, <2>2
  <2> QED
    BY <1>1, <1>2, <1>5, <2>6, <2>5, Answers
<1>6. CASE deleteGameMedia(r)
  <2>1. held # None /\ Change(d, [held EXCEPT !.media = held.media \ FilesOf(q.p)])
        => Change(d, [held EXCEPT !.media = (held.media \ FilesOf(q.p)) \cup {}])
    OBVIOUS
  <2>2. q.pc # "check" /\ held # None /\ Answer(r) /\ Change(d, [held EXCEPT !.media = held.media \ FilesOf(q.p)]) => Goes(r)
    <3>1. {} \in SUBSET Path
      OBVIOUS
    <3> QED
      BY <1>5, <2>1, <3>1
  <2> QED
    BY <1>2, <1>3, <1>4, <1>6, <2>2 DEF deleteGameMedia, At
<1>7. CASE moveGameMedia(r)
  <2>1. (IF q.p \in Path THEN {q.p2} ELSE {}) \in SUBSET Path
    BY <1>2 DEF MediaRequest
  <2> QED
    BY <1>2, <1>3, <1>4, <1>5, <1>7, <2>1 DEF moveGameMedia, At
<1> QED
  BY <1>6, <1>7
----------------------------------------------------------------------------
(* Games. *)

LEMMA CreateGoes ==
  ASSUME StorageInv, OneAtATime, NEW r \in Request, createGame(r)
  PROVE  Goes(r)
<1> PICK q : q = request[r]
  OBVIOUS
<1> PICK d : d = <<q.l, q.g>>
  OBVIOUS
<1>1. request[r] # None /\ Creating(q)
  BY Kinds DEF createGame, At, StorageInv, RequestInv
<1>2. d \in Location \X Game /\ Here(r) = d /\ Its(r) = store[d]
  BY <1>1 DEF Creating, Here, Its
<1>3. CASE Goto(r, "make") /\ UNCHANGED store
  <2>1. PICK q2 : q2 = [q EXCEPT !.pc = "make"]
    OBVIOUS
  <2>2. Creating(q2)'
    BY <1>1, <2>1 DEF Creating
  <2>3. request' = [request EXCEPT ![r] = q2] /\ UNCHANGED <<store, activeGame>>
    BY <1>3, <2>1 DEF Goto
  <2> QED
    BY <1>1, <2>2, <2>3, Continues DEF Underway
<1>4. CASE Change(d, IF store[d] = None THEN EmptyGame ELSE store[d]) /\ Answer(r)
  <2>1. Suits(d, IF store[d] = None THEN EmptyGame ELSE store[d])
    BY <1>2, EmptySuits, SameGameSuits DEF StorageInv
  <2> QED
    BY <1>1, <1>2, <1>4, <2>1, Answers
<1> QED
  BY <1>1, <1>2, <1>3, <1>4, Refuses DEF createGame

\* A folder of a game that nobody plays is removed, and then the game.
LEMMA FolderSuits ==
  ASSUME StoreInv, NEW d \in Location \X Game, ~PlayedAt(d), store[d] # None, NEW f \in Folders
  PROVE  Suits(d, Removed(store[d], f))
<1>1. GoodGame(Removed(store[d], f)) /\ Removed(store[d], f).dying
  BY FolderRemoved, GoodStored
<1> QED
  BY <1>1 DEF Suits

LEMMA DeleteGoes ==
  ASSUME StorageInv, OneAtATime, NEW r \in Request, deleteGame(r)
  PROVE  Goes(r)
<1> PICK q : q = request[r]
  OBVIOUS
<1> PICK d : d = <<q.l, q.g>>
  OBVIOUS
<1>1. request[r] # None /\ Deleting(q)
  BY Kinds DEF deleteGame, At, StorageInv, RequestInv
<1>2. d \in Location \X Game /\ Here(r) = d /\ Its(r) = store[d]
  BY <1>1 DEF Deleting, RemovalRequest, Here, Its
<1>3. CASE /\ ~isActive(q.l, q.g) /\ UNCHANGED <<store, activeGame, requests>>
           /\ request' = [request EXCEPT ![r] = [op |-> "delete", pc |-> "remove", l |-> @.l, g |-> @.g, left |-> Folders]]
  <2>1. PICK q2 : q2 = [op |-> "delete", pc |-> "remove", l |-> q.l, g |-> q.g, left |-> Folders]
    OBVIOUS
  <2>2. q2 \in RemovalRequest /\ <<q2.l, q2.g>> = d
    BY <1>2, <2>1 DEF RemovalRequest
  <2>3. ~PlayedAt(d)
    BY <1>3 DEF isActive, PlayedAt
  <2>4. Deleting(q2)'
    BY <1>3, <2>2, <2>3 DEF Deleting, PlayedAt
  <2>5. request' = [request EXCEPT ![r] = q2]
    BY <1>3, <2>1
  <2> QED
    BY <1>1, <1>3, <2>4, <2>5, Continues DEF Underway
<1>4. CASE q.pc = "remove" /\ RemoveStep(r)
  <2>1. q \in RemovalRequest /\ ~PlayedAt(d)
    BY <1>1, <1>4 DEF Deleting
  <2>2. ASSUME NEW f \in q.left, request' = [request EXCEPT ![r].left = @ \ {f}], UNCHANGED <<activeGame, requests>>,
               IF store[d] # None THEN Change(d, Removed(store[d], f)) ELSE UNCHANGED store
        PROVE  Goes(r)
    <3>1. PICK q2 : q2 = [q EXCEPT !.left = @ \ {f}]
      OBVIOUS
    <3>2. q2 = [op |-> "delete", pc |-> "remove", l |-> q.l, g |-> q.g, left |-> q.left \ {f}]
      BY <2>1, <3>1 DEF RemovalRequest
    <3>3. q2 \in RemovalRequest /\ <<q2.l, q2.g>> = d /\ f \in Folders
      BY <2>1, <3>2 DEF RemovalRequest
    <3>4. Deleting(q2)'
      BY <2>1, <2>2, <3>3 DEF Deleting, PlayedAt
    <3>5. request' = [request EXCEPT ![r] = q2]
      BY <2>2, <3>1
    <3>6. CASE store[d] # None
      <4>1. Suits(d, Removed(store[d], f)) /\ Change(d, Removed(store[d], f))
        BY <1>2, <2>1, <2>2, <3>3, <3>6, FolderSuits DEF StorageInv
      <4> QED
        BY <1>1, <1>2, <2>2, <3>4, <3>5, <4>1, ChangesAndContinues DEF Underway
    <3>7. CASE store[d] = None
      BY <1>1, <2>2, <3>4, <3>5, <3>7, Continues DEF Underway
    <3> QED
      BY <3>6, <3>7
  <2>3. CASE Change(d, None) /\ Answer(r)
    <3>1. Suits(d, None)
      BY <2>1 DEF Suits
    <3> QED
      BY <1>1, <1>2, <2>3, <3>1, Answers
  <2> QED
    BY <1>2, <1>4, <2>2, <2>3 DEF RemoveStep
<1> QED
  BY <1>1, <1>2, <1>3, <1>4, Refuses DEF deleteGame, At

LEMMA ImportGoes ==
  ASSUME StorageInv, OneAtATime, NEW r \in Request, importGameArchive(r)
  PROVE  Goes(r)
<1> PICK q : q = request[r]
  OBVIOUS
<1> PICK d : d = <<q.l, q.g>>
  OBVIOUS
<1>1. request[r] # None /\ Importing(q)
  BY Kinds DEF importGameArchive, At, StorageInv, RequestInv
<1>2. d \in Location \X Game /\ Here(r) = d /\ Its(r) = store[d] /\ q.archive \in Archive
  BY <1>1 DEF Importing, Here, Its
<1>3. CASE Goto(r, "unpack") /\ UNCHANGED store
  <2>1. PICK q2 : q2 = [q EXCEPT !.pc = "unpack"]
    OBVIOUS
  <2>2. Importing(q2)'
    BY <1>1, <2>1 DEF Importing
  <2>3. request' = [request EXCEPT ![r] = q2] /\ UNCHANGED <<store, activeGame>>
    BY <1>3, <2>1 DEF Goto
  <2> QED
    BY <1>1, <2>2, <2>3, Continues DEF Underway
<1>4. CASE checkArchivedGame(q.archive) /\ store[d] = None /\ Change(d, Imported(q.archive)) /\ Answer(r)
  <2>1. GoodGame(Imported(q.archive))
    BY <1>2, <1>4, ArchiveGood
  <2>2. ~PlayedAt(d)
    BY <1>4, PlayedExists DEF StorageInv
  <2>3. Imported(q.archive) # None
    BY <2>1, StorageAssumption DEF GoodGame
  <2>4. Suits(d, Imported(q.archive))
    BY <1>4, <2>1, <2>2, <2>3 DEF Suits
  <2> QED
    BY <1>1, <1>2, <1>4, <2>4, Answers
<1> QED
  BY <1>1, <1>2, <1>3, <1>4, Refuses DEF importGameArchive, Imported

LEMMA BundleGoes ==
  ASSUME StorageInv, OneAtATime, NEW r \in Request, importBundle(r)
  PROVE  Goes(r)
<1> PICK q : q = request[r]
  OBVIOUS
<1> PICK d : d = <<q.l, q.g>>
  OBVIOUS
<1> PICK held : held = store[d]
  OBVIOUS
<1>1. request[r] # None /\ q.op = "bundle" /\ Bundling(q)
  BY Kinds DEF importBundle, At, StorageInv, RequestInv
<1>2. d \in Location \X Game /\ Here(r) = d /\ Its(r) = held /\ q \in BundleRequest
  BY <1>1 DEF Bundling, BundleRequest, Here, Its
<1>3. q.c \in Content /\ q.s \in State \cup {None}
  BY <1>2 DEF BundleRequest
<1>4. held # None => GoodGame(held) /\ held \in GameRecord
  BY <1>2, GoodStored DEF StorageInv
\* the next place, and what is known of the game there
<1>5. ASSUME NEW pc \in {"media", "version", "state"}, Goto(r, pc), NEW new, Suits(d, new), Change(d, new),
             pc # "state" => new.ever[1] = None, pc = "state" => q.s \in State /\ new.versions[1] # None
      PROVE  Goes(r)
  <2>1. PICK q2 : q2 = [q EXCEPT !.pc = pc]
    OBVIOUS
  <2>2. q2 = [op |-> "bundle", pc |-> pc, l |-> q.l, g |-> q.g, c |-> q.c, s |-> q.s]
    BY <1>2, <2>1 DEF BundleRequest
  <2>3. q2 \in BundleRequest /\ q2.pc = pc /\ <<q2.l, q2.g>> = d /\ q2.s = q.s
    BY <1>2, <1>5, <2>2 DEF BundleRequest
  <2>4. store'[d] = new
    BY <1>2, <1>5, StoreChanges DEF StorageInv, Change, Goto
  <2>5. Bundling(q2)'
    BY <1>5, <2>3, <2>4 DEF Bundling
  <2>6. request' = [request EXCEPT ![r] = q2] /\ activeGame' = activeGame
    BY <1>5, <2>1 DEF Goto
  <2> QED
    BY <1>1, <1>2, <1>5, <2>5, <2>6, ChangesAndContinues DEF Underway
<1>6. CASE held = None /\ Change(d, EmptyGame) /\ Goto(r, "media")
  <2>1. Suits(d, EmptyGame)
    BY <1>2, <1>6, EmptySuits DEF StorageInv
  <2>2. EmptyGame.ever[1] = None
    BY NumberDef DEF EmptyGame
  <2> QED
    BY <1>5, <1>6, <2>1, <2>2
<1>7. ASSUME q.pc = "media", held # None, NEW found \in SUBSET Shows[q.c],
             Change(d, [held EXCEPT !.media = @ \cup found]), Goto(r, "version")
      PROVE  Goes(r)
  <2>1. PICK new : new = [held EXCEPT !.media = held.media \cup found]
    OBVIOUS
  <2>2. held.media \cup found \in SUBSET Path
    BY <1>3, <1>4, <1>7, Fields, StorageAssumption
  <2>3. GoodGame(new) /\ new.media = held.media \cup found /\ new.versions = held.versions /\ new.ever = held.ever
    <3>1. PICK media : media = held.media \cup found
      OBVIOUS
    <3>2. media \in SUBSET Path
      BY <2>2, <3>1
    <3>3. new = [held EXCEPT !.media = media]
      BY <2>1, <3>1
    <3>4. GoodGame(held)
      BY <1>4, <1>7
    <3>5. /\ GoodGame(new) /\ new.media = media /\ new.versions = held.versions
          /\ new.ever = held.ever /\ new.dying = held.dying
      BY ONLY <3>2, <3>3, <3>4, MediaWritten
    <3> QED
      BY <3>1, <3>5
  <2>4. Suits(d, new)
    BY <1>2, <1>7, <2>3, SameVersionsSuit DEF StorageInv
  <2>5. held.ever[1] = None
    BY <1>1, <1>7 DEF Bundling
  <2> QED
    BY <1>5, <1>7, <2>1, <2>3, <2>4, <2>5
<1>8. CASE /\ q.pc = "version" /\ held # None
           /\ Change(d, [held EXCEPT !.versions[1] = q.c, !.ever[1] = IF @ = None THEN q.c ELSE @])
           /\ IF q.s = None THEN Answer(r) ELSE Goto(r, "state")
  <2>1. PICK new : new = WithVersion(held, 1, q.c)
    OBVIOUS
  <2>2. held.ever[1] = None
    BY <1>1, <1>8 DEF Bundling
  <2>3. GoodGame(new) /\ new.media = held.media /\ new.versions = [held.versions EXCEPT ![1] = q.c]
    BY <1>3, <1>4, <1>8, <2>1, <2>2, NumberDef, VersionWritten
  <2>4. new.versions[1] # None /\ \A n \in Numbers : held.versions[n] # None => new.versions[n] # None
    <3>1. held.versions \in [Numbers -> Content \cup {None}]
      BY <1>4, <1>8, Fields
    <3> QED
      BY <1>3, <2>3, <3>1, NumberDef, StorageAssumption
  <2>5. new # None
    BY <2>3, StorageAssumption DEF GoodGame
  <2>6. Suits(d, new)
    BY <2>3, <2>4, <2>5, PlayedExists DEF Suits, StorageInv
  <2>7. Change(d, new)
    BY <1>8, <2>1 DEF WithVersion
  <2> QED
    BY <1>1, <1>2, <1>3, <1>5, <1>8, <2>4, <2>6, <2>7, Answers
<1>9. CASE q.pc = "state" /\ held # None /\ Change(d, [held EXCEPT !.states[q.s] = 1]) /\ Answer(r)
  <2>1. q.s \in State /\ held.versions[1] # None
    BY <1>1, <1>9 DEF Bundling
  <2>2. held.states \in [State -> {0} \cup Numbers]
    BY <1>4, <1>9, Fields
  <2>3. PICK states : states = [held.states EXCEPT ![q.s] = 1]
    OBVIOUS
  <2>4. states \in [State -> {0} \cup Numbers]
    BY <2>2, <2>3, NumberDef
  <2>5. ~held.dying => \A s \in State : states[s] # 0 => held.versions[states[s]] # None
    <3>1. ~held.dying => \A s \in State : held.states[s] # 0 => held.versions[held.states[s]] # None
      BY <1>4, <1>9, GoodFields
    <3>2. \A s \in State : states[s] = IF s = q.s THEN 1 ELSE held.states[s]
      BY <2>2, <2>3
    <3>3. ASSUME ~held.dying, NEW s \in State, states[s] # 0
          PROVE  held.versions[states[s]] # None
      <4>1. CASE s = q.s
        BY ONLY <2>1, <3>2, <4>1
      <4>2. CASE s # q.s
        BY ONLY <3>1, <3>2, <3>3, <4>2
      <4> QED
        BY <4>1, <4>2
    <3> QED
      BY <3>3
  <2>6. PICK new : new = [held EXCEPT !.states = states]
    OBVIOUS
  <2>7. GoodGame(new) /\ new.media = held.media /\ new.versions = held.versions
    <3>1. GoodGame(held)
      BY <1>4, <1>9
    <3> QED
      BY ONLY <2>4, <2>5, <2>6, <3>1, StatesWritten
  <2>8. Suits(d, new)
    BY <1>2, <1>9, <2>7, SameVersionsSuit DEF StorageInv
  <2> QED
    BY <1>1, <1>2, <1>9, <2>3, <2>6, <2>8, Answers
<1> QED
  BY <1>1, <1>2, <1>6, <1>7, <1>8, <1>9, Refuses DEF importBundle, At

\* A game that was copied as a whole is where it is copied to, and is removed where it was.
LEMMA CopyGoes ==
  ASSUME StorageInv, OneAtATime, NEW r \in Request, copyGame(r)
  PROVE  Goes(r)
<1> PICK q : q = request[r]
  OBVIOUS
<1> PICK here : here = <<q.l, q.g>>
  OBVIOUS
<1> PICK there : there = <<q.l2, q.g2>>
  OBVIOUS
<1> PICK held : held = store[here]
  OBVIOUS
<1>1. request[r] # None /\ q.op = "copy" /\ Copying(q)
  BY Kinds DEF copyGame, At, StorageInv, RequestInv
<1>2. /\ here \in Location \X Game /\ there \in Location \X Game /\ here # there
      /\ Here(r) = here /\ There(r) = there /\ Its(r) = held /\ q \in CopyRequest
  BY <1>1 DEF Copying, CopyRequest, Here, There, Its
<1>3. held # None => GoodGame(held) /\ held \in GameRecord
  BY <1>2, GoodStored DEF StorageInv
<1>4. q.left \in SUBSET Folders /\ q.copy \in GameRecord
  BY <1>2 DEF CopyRequest
<1>5. Refuse(r) => Goes(r)
  BY <1>1, Refuses
<1>6. CASE q.pc = "check" /\ held # None /\ ~isActive(q.l, q.g) /\ UNCHANGED store
           /\ Goto(r, IF q.l = q.l2 /\ q.move THEN "rename" ELSE "files")
  <2>1. PICK pc \in {"rename", "files"} : Goto(r, pc)
    BY <1>6
  <2>2. PICK q2 : q2 = [q EXCEPT !.pc = pc]
    OBVIOUS
  <2>3. q2 \in CopyRequest /\ q2.pc = pc /\ <<q2.l, q2.g>> = here /\ <<q2.l2, q2.g2>> = there /\ q2.left = q.left
    BY <1>2, <2>2 DEF CopyRequest
  <2>4. q2.left = Folders
    BY <1>1, <1>6, <2>3 DEF Copying
  <2>5. ~PlayedAt(here)
    BY <1>6 DEF isActive, PlayedAt
  <2>6. HasCopied(q2, held)
    BY <2>4 DEF HasCopied, Folders
  <2>7. request' = [request EXCEPT ![r] = q2] /\ UNCHANGED <<store, activeGame>>
    BY <1>6, <2>1, <2>2 DEF Goto
  <2>8. Copying(q2)'
    BY <1>2, <1>6, <2>3, <2>5, <2>6, <2>7 DEF Copying, PlayedAt, HasCopied
  <2> QED
    BY <1>1, <2>7, <2>8, Continues DEF Underway
<1>7. CASE q.pc = "rename" /\ held # None /\ store[there] = None /\ Answer(r)
           /\ store' = [store EXCEPT ![here] = None, ![there] = held]
  <2>1. ~PlayedAt(here) /\ ~PlayedAt(there)
    BY <1>1, <1>2, <1>7, PlayedExists DEF Copying, StorageInv
  <2>2. /\ DOMAIN store' = Location \X Game /\ store'[here] = None /\ store'[there] = held
        /\ \A d \in Location \X Game : d # here /\ d # there => store'[d] = store[d]
    BY <1>2, <1>7 DEF StorageInv, StoreInv
  <2>3. \A d \in Location \X Game : store'[d] # None => GoodGame(store'[d])
    BY <1>3, <1>7, <2>2, GoodStored DEF StorageInv
  <2>4. MediaStay
    BY <1>7, <2>2 DEF MediaStay
  <2>5. ASSUME activeGame # None
        PROVE  /\ activeGame \in [l : Location, g : Game, version : Numbers, s : State]
               /\ store'[<<activeGame.l, activeGame.g>>] # None
               /\ store'[<<activeGame.l, activeGame.g>>].versions[activeGame.version] # None
    <3>1. PICK d : d = <<activeGame.l, activeGame.g>>
      OBVIOUS
    <3>2. activeGame \in [l : Location, g : Game, version : Numbers, s : State] /\ PlayedAt(d)
      BY <2>5, <3>1 DEF StorageInv, StoreInv, PlayedAt
    <3>3. d \in Location \X Game /\ d # here /\ d # there /\ store[d] # None /\ store[d].versions[activeGame.version] # None
      BY <2>1, <3>2, PlayedExists DEF StorageInv
    <3> QED
      BY <2>2, <3>1, <3>2, <3>3
  <2>6. StoreInv'
    BY <1>7, <2>2, <2>3, <2>5 DEF StoreInv, GoodGame, Covered, Answer
  <2>7. RequestInv'
    BY <1>1, <1>7, RequestGoesOn DEF StorageInv, Answer
  <2> QED
    BY <2>4, <2>6, <2>7 DEF Goes
<1>8. ASSUME q.pc = "files", held # None, NEW f \in q.left, UNCHANGED <<store, activeGame, requests>>,
             request' = [request EXCEPT ![r].left = @ \ {f}, ![r].copy = Copied([@ EXCEPT !.dying = held.dying], held, f)]
      PROVE  Goes(r)
  <2>1. HasCopied(q, held) /\ ~PlayedAt(here)
    BY <1>1, <1>8 DEF Copying
  <2>2. PICK copy : copy = Copied([q.copy EXCEPT !.dying = held.dying], held, f)
    OBVIOUS
  <2>3. PICK q2 : q2 = [q EXCEPT !.left = q.left \ {f}, !.copy = copy]
    OBVIOUS
  <2>4. q2 = [op |-> "copy", pc |-> "files", l |-> q.l, g |-> q.g, l2 |-> q.l2, g2 |-> q.g2, move |-> q.move,
              left |-> q.left \ {f}, copy |-> copy]
    BY <1>2, <1>8, <2>3 DEF CopyRequest
  <2>5. q2.left = q.left \ {f} /\ q2.copy = copy /\ q2.pc = "files" /\ <<q2.l, q2.g>> = here /\ <<q2.l2, q2.g2>> = there
    BY <2>4
  <2>6. copy \in GameRecord /\ HasCopied(q2, held)
    BY <1>3, <1>4, <1>8, <2>1, <2>2, <2>5, FolderCopied
  <2>7. q2 \in CopyRequest
    BY <1>2, <1>4, <2>4, <2>6 DEF CopyRequest
  <2>8. Copying(q2)'
    BY <1>2, <1>8, <2>1, <2>5, <2>6, <2>7 DEF Copying, PlayedAt, HasCopied
  <2>9. request' = [request EXCEPT ![r] = q2]
    BY <1>8, <2>2, <2>3
  <2> QED
    BY <1>1, <1>8, <2>8, <2>9, Continues DEF Underway
<1>9. CASE /\ q.pc = "files" /\ q.left = {} /\ store[there] = None /\ Change(there, q.copy)
           /\ IF q.move
              THEN request' = [request EXCEPT ![r].pc = "remove", ![r].left = Folders] /\ UNCHANGED <<activeGame, requests>>
              ELSE Answer(r)
  <2>1. HasCopied(q, held) /\ ~PlayedAt(here) /\ held # None
    BY <1>1, <1>9 DEF Copying
  <2>2. q.copy = held
    BY <1>3, <1>4, <1>9, <2>1, CopyIsComplete
  <2>3. ~PlayedAt(there)
    BY <1>9, PlayedExists DEF StorageInv
  <2>4. Suits(there, held)
    BY <1>3, <1>9, <2>1, <2>3 DEF Suits
  <2>5. CASE ~q.move
    BY <1>1, <1>2, <1>9, <2>2, <2>4, <2>5, Answers
  <2>6. CASE q.move
    <3>1. PICK q2 : q2 = [q EXCEPT !.pc = "remove", !.left = Folders]
      OBVIOUS
    <3>2. q2 = [op |-> "copy", pc |-> "remove", l |-> q.l, g |-> q.g, l2 |-> q.l2, g2 |-> q.g2, move |-> q.move,
                left |-> Folders, copy |-> q.copy]
      BY <1>2, <3>1 DEF CopyRequest
    <3>3. q2 \in CopyRequest
      BY <1>2, <3>2 DEF CopyRequest
    <3>4. q2.pc = "remove" /\ <<q2.l, q2.g>> = here /\ <<q2.l2, q2.g2>> = there
      BY <3>2
    <3>5. activeGame' = activeGame /\ Change(there, held)
      BY <1>9, <2>2, <2>6
    <3>6. store'[there] = held /\ store'[here] = held
      BY <1>2, <2>4, <3>5, StoreChanges DEF StorageInv, Change
    <3>7. Copying(q2)'
      BY <1>2, <2>1, <2>3, <3>3, <3>4, <3>5, <3>6 DEF Copying, PlayedAt
    <3>8. request' = [request EXCEPT ![r] = q2]
      BY <1>9, <2>6, <3>1
    <3> QED
      BY <1>1, <1>2, <2>4, <3>5, <3>7, <3>8, ChangesAndContinues DEF Underway
  <2> QED
    BY <2>5, <2>6
<1>10. CASE q.pc = "remove" /\ RemoveStep(r)
  <2>1. /\ ~PlayedAt(here) /\ ~PlayedAt(there) /\ store[there] # None
        /\ held # None =>
             /\ \A n \in Numbers : held.versions[n] \in {None, store[there].versions[n]}
             /\ \A s \in State : held.states[s] \in {0, store[there].states[s]}
             /\ held.media \subseteq store[there].media
    BY <1>1, <1>10 DEF Copying
  <2>2. ASSUME NEW f \in q.left, request' = [request EXCEPT ![r].left = @ \ {f}], UNCHANGED <<activeGame, requests>>,
               IF held # None THEN Change(here, Removed(held, f)) ELSE UNCHANGED store
        PROVE  Goes(r)
    <3>1. PICK q2 : q2 = [q EXCEPT !.left = @ \ {f}]
      OBVIOUS
    <3>2. q2 = [op |-> "copy", pc |-> "remove", l |-> q.l, g |-> q.g, l2 |-> q.l2, g2 |-> q.g2, move |-> q.move,
                left |-> q.left \ {f}, copy |-> q.copy]
      BY <1>2, <1>10, <3>1 DEF CopyRequest
    <3>3. q2 \in CopyRequest /\ f \in Folders
      BY <1>2, <1>4, <3>2 DEF CopyRequest
    <3>4. q2.pc = "remove" /\ <<q2.l, q2.g>> = here /\ <<q2.l2, q2.g2>> = there
      BY <3>2
    <3>5. request' = [request EXCEPT ![r] = q2]
      BY <2>2, <3>1
    <3>6. CASE held # None
      <4>1. PICK new : new = Removed(held, f)
        OBVIOUS
      <4>2. Suits(here, new) /\ Change(here, new)
        BY <1>2, <2>1, <2>2, <3>3, <3>6, <4>1, FolderSuits DEF StorageInv
      <4>3. store'[here] = new /\ store'[there] = store[there]
        BY <1>2, <2>2, <4>2, StoreChanges DEF StorageInv, Change
      <4>4. /\ \A n \in Numbers : new.versions[n] \in {None, held.versions[n]}
            /\ \A s \in State : new.states[s] \in {0, held.states[s]}
            /\ new.media \subseteq held.media
        BY <1>3, <3>3, <3>6, <4>1, FolderRemoved
      <4>5. /\ \A n \in Numbers : new.versions[n] \in {None, store[there].versions[n]}
            /\ \A s \in State : new.states[s] \in {0, store[there].states[s]}
            /\ new.media \subseteq store[there].media
        BY <2>1, <3>6, <4>4
      <4>6. Copying(q2)'
        BY <1>2, <2>1, <2>2, <3>3, <3>4, <4>3, <4>5 DEF Copying, PlayedAt
      <4> QED
        BY <1>1, <1>2, <2>2, <3>5, <4>2, <4>6, ChangesAndContinues DEF Underway
    <3>7. CASE held = None
      <4>1. Copying(q2)'
        BY <1>2, <2>1, <2>2, <3>3, <3>4, <3>7 DEF Copying, PlayedAt
      <4> QED
        BY <1>1, <2>2, <3>5, <3>7, <4>1, Continues DEF Underway
    <3> QED
      BY <3>6, <3>7
  <2>3. CASE Change(here, None) /\ Answer(r)
    <3>1. Suits(here, None)
      BY <2>1 DEF Suits
    <3> QED
      BY <1>1, <1>2, <2>3, <3>1, Answers
  <2> QED
    BY <1>2, <1>10, <2>2, <2>3 DEF RemoveStep
<1> QED
  <2>1. AppearsWhen(r) <=> q.left = {}
    BY DEF AppearsWhen
  <2> QED
    BY <1>2, <1>5, <1>6, <1>7, <1>8, <1>9, <1>10, <2>1 DEF copyGame, At
----------------------------------------------------------------------------
(* Requests begin and fail, and the game is played beside them. *)

\* Playing changes nothing but the state of the game that is played.
OnlyPlayed ==
  /\ activeGame' = activeGame \/ activeGame' = None
  /\ \A d \in Location \X Game :
       /\ ~PlayedAt(d) => store'[d] = store[d]
       /\ store'[d] = None <=> store[d] = None
       /\ store[d] # None =>
            /\ store'[d].versions = store[d].versions /\ store'[d].highest = store[d].highest
            /\ store'[d].ever = store[d].ever /\ store'[d].dying = store[d].dying
            /\ \A s \in State : store'[d].states[s] = store[d].states[s] \/ store'[d].states[s] = activeGame.version

LEMMA UnderwayGoesOn ==
  ASSUME OnlyPlayed, NEW q, Underway(q)
  PROVE  Underway(q)'
<1> PICK d : d = <<q.l, q.g>>
  OBVIOUS
<1>1. \A e : PlayedAt(e)' => PlayedAt(e) /\ activeGame' = activeGame
  BY DEF OnlyPlayed, PlayedAt
<1>2. CASE Creating(q) \/ Importing(q) \/ ChangingState(q) \/ Uploading(q) \/ CopyingIn(q)
  BY <1>2 DEF Underway, Creating, Importing, ChangingState, Uploading, CopyingIn
<1>3. CASE Deleting(q)
  <2>1. Deleting(q)'
    BY <1>1, <1>3 DEF Deleting
  <2> QED
    BY <2>1 DEF Underway
<1>4. CASE Copying(q)
  <2> PICK there : there = <<q.l2, q.g2>>
    OBVIOUS
  <2>1. d \in Location \X Game /\ there \in Location \X Game
    BY <1>4 DEF Copying, CopyRequest
  <2>2. q.pc # "check" => store'[d] = store[d] /\ ~PlayedAt(d)'
    BY <1>1, <1>4, <2>1 DEF Copying, OnlyPlayed
  <2>3. q.pc = "remove" => store'[there] = store[there] /\ ~PlayedAt(there)'
    BY <1>1, <1>4, <2>1 DEF Copying, OnlyPlayed
  <2>4. Copying(q)'
    BY <1>4, <2>2, <2>3 DEF Copying, HasCopied
  <2> QED
    BY <2>4 DEF Underway
<1>5. CASE Bundling(q) \/ Saving(q)
  <2>1. d \in Location \X Game
    BY <1>5 DEF Bundling, BundleRequest, Saving, SaveRequest
  <2>2. store'[d] # None => /\ store[d] # None /\ store'[d].versions = store[d].versions
                            /\ store'[d].ever = store[d].ever /\ store'[d].dying = store[d].dying
    BY <2>1 DEF OnlyPlayed
  <2>3. Bundling(q)' \/ Saving(q)'
    BY <1>5, <2>2 DEF Bundling, Saving
  <2> QED
    BY <2>3 DEF Underway
<1>6. CASE DeletingVersion(q)
  <2>1. d \in Location \X Game
    BY <1>6 DEF DeletingVersion, DeleteVersionRequest
  <2>2. store'[d] # None => /\ store[d] # None /\ store'[d].highest = store[d].highest
                            /\ store'[d].ever = store[d].ever /\ store'[d].dying = store[d].dying
    BY <2>1 DEF OnlyPlayed
  <2>3. ASSUME q.pc # "check", store'[d] # None, NEW s \in State PROVE store'[d].states[s] # q.n
    <3>1. store[d].states[s] # q.n /\ (PlayedAt(d) => activeGame.version # q.n)
      BY <1>6, <2>2, <2>3 DEF DeletingVersion
    <3>2. CASE PlayedAt(d)
      BY <2>1, <2>2, <2>3, <3>1, <3>2 DEF OnlyPlayed
    <3>3. CASE ~PlayedAt(d)
      BY <2>1, <3>1, <3>3 DEF OnlyPlayed
    <3> QED
      BY <3>2, <3>3
  <2>4. q.pc # "check" => (PlayedAt(d)' => activeGame'.version # q.n)
    BY <1>1, <1>6 DEF DeletingVersion
  <2>5. DeletingVersion(q)'
    BY <1>6, <2>2, <2>3, <2>4 DEF DeletingVersion
  <2> QED
    BY <2>5 DEF Underway
<1>7. CASE TakingMedia(q)
  <2>1. d \in Location \X Game
    BY <1>7 DEF TakingMedia, MediaRequest
  <2>2. store'[d] # None => store[d] # None /\ store'[d].versions = store[d].versions
    BY <2>1 DEF OnlyPlayed
  <2>3. store'[d] # None => Shown(store'[d]) = Shown(store[d])
    BY <2>2 DEF Shown
  <2>4. TakingMedia(q)'
    BY <1>7, <2>2, <2>3 DEF TakingMedia
  <2> QED
    BY <2>4 DEF Underway
<1> QED
  BY <1>2, <1>3, <1>4, <1>5, <1>6, <1>7 DEF Underway

LEMMA NothingPlayed == ASSUME UNCHANGED <<store, activeGame>> PROVE OnlyPlayed
  BY DEF OnlyPlayed

LEMMA RequestsGoOn ==
  ASSUME RequestInv, OnlyPlayed, request' = request
  PROVE  RequestInv'
<1>1. ASSUME NEW r \in Request, request'[r] # None PROVE Underway(request[r])'
  <2>1. PICK q : q = request[r]
    OBVIOUS
  <2>2. Underway(q)
    BY <1>1, <2>1 DEF RequestInv
  <2> QED
    BY <2>1, <2>2, UnderwayGoesOn
<1> QED
  BY <1>1 DEF RequestInv

LEMMA FailGoes ==
  ASSUME StorageInv, OneAtATime, NEW r \in Request, Fail(r)
  PROVE  Goes(r)
  BY Refuses DEF Fail

LEMMA BeginGoes ==
  ASSUME StorageInv, OneAtATime', NEW r \in Request, NEW asked \in Asked, Begin(r, asked)
  PROVE  Goes(r)
<1>1. StoreInv' /\ MediaStay
  BY StoreStays DEF StorageInv, Begin
<1>2. Underway(asked)'
  <2>1. ASSUME NEW a \in AskGame("create") PROVE Creating(a)'
    BY DEF AskGame, Creating
  <2>2. ASSUME NEW a \in AskGame("delete") PROVE Deleting(a)'
    BY DEF AskGame, Deleting
  <2>3. ASSUME NEW a \in AskCopy PROVE Copying(a)'
    <3>1. <<a.l, a.g>> # <<a.l2, a.g2>>
      BY DEF AskCopy
    <3>2. a \in CopyRequest /\ a.pc = "check" /\ a.left = Folders
      BY EmptyGood DEF AskCopy, CopyRequest
    <3> QED
      BY <3>1, <3>2 DEF Copying
  <2>4. ASSUME NEW a \in AskArchive PROVE Importing(a)'
    BY DEF AskArchive, Importing
  <2>5. ASSUME NEW a \in AskBundle PROVE Bundling(a)'
    <3>1. a \in BundleRequest /\ a.pc = "check"
      BY DEF AskBundle, BundleRequest
    <3> QED
      BY <3>1 DEF Bundling
  <2>6. ASSUME NEW a \in AskSave PROVE Saving(a)'
    <3>1. a \in SaveRequest /\ a.pc = "folders"
      BY DEF AskSave, SaveRequest
    <3> QED
      BY <3>1 DEF Saving
  <2>7. ASSUME NEW a \in AskDeleteVersion PROVE DeletingVersion(a)'
    <3>1. a \in DeleteVersionRequest /\ a.pc = "check"
      BY DEF AskDeleteVersion, DeleteVersionRequest
    <3> QED
      BY <3>1 DEF DeletingVersion
  <2>8. ASSUME NEW a \in AskState PROVE ChangingState(a)'
    BY DEF AskState, ChangingState
  <2>9. ASSUME NEW a \in AskUpload PROVE Uploading(a)'
    BY DEF AskUpload, Uploading
  <2>10. ASSUME NEW a \in AskCopyIn PROVE CopyingIn(a)'
    BY DEF AskCopyIn, CopyingIn
  <2>11. ASSUME NEW a \in AskMedia("deleteMedia") \cup AskMedia("moveMedia") PROVE TakingMedia(a)'
    <3>1. a \in MediaRequest /\ a.pc = "check"
      BY DEF AskMedia, MediaRequest
    <3> QED
      BY <3>1 DEF TakingMedia
  <2> QED
    BY <2>1, <2>2, <2>3, <2>4, <2>5, <2>6, <2>7, <2>8, <2>9, <2>10, <2>11
    DEF Asked, Underway
<1>3. RequestInv'
  <2>1. DOMAIN request' = Request /\ request'[r] = asked
    BY DEF Begin, StorageInv, RequestInv
  <2>2. ASSUME NEW p \in Request, request'[p] # None PROVE Underway(request[p])'
    <3>1. CASE p = r
      BY <1>2, <2>1, <3>1
    <3>2. CASE p # r
      <4>1. asked = None
        BY <2>1, <2>2, <3>2 DEF OneAtATime
      <4>2. request'[p] = request[p] /\ Underway(request[p])
        BY <2>2, <3>2 DEF Begin, StorageInv, RequestInv
      <4> QED
        BY <4>2, UnderwayGoesOn, NothingPlayed DEF Begin
    <3> QED
      BY <3>1, <3>2
  <2> QED
    BY <2>1, <2>2 DEF RequestInv
<1> QED
  BY <1>1, <1>3 DEF Goes

LEMMA SetActiveGoes ==
  ASSUME StorageInv, SetActiveGame
  PROVE  StorageInv' /\ MediaStay
<1>1. RequestInv'
  BY DEF SetActiveGame, StorageInv, RequestInv
<1>2. PICK l \in Location, g \in Game, n \in Numbers, s \in State :
        /\ store[<<l, g>>] # None /\ store[<<l, g>>].versions[n] # None
        /\ activeGame' = [l |-> l, g |-> g, version |-> n, s |-> s]
  BY DEF SetActiveGame, Existing
<1>3. StoreInv'
  BY <1>2 DEF SetActiveGame, StorageInv, StoreInv
<1>4. MediaStay
  BY DEF SetActiveGame, MediaStay
<1> QED
  BY <1>1, <1>3, <1>4 DEF StorageInv

LEMMA WriteStateGoes ==
  ASSUME StorageInv, writeState
  PROVE  StorageInv' /\ MediaStay
<1> PICK d : d = <<activeGame.l, activeGame.g>>
  OBVIOUS
<1> PICK held : held = store[d]
  OBVIOUS
<1>1. PlayedAt(d)
  BY DEF writeState, PlayedAt
<1>2. d \in Location \X Game /\ held # None /\ held.versions[activeGame.version] # None
      /\ activeGame.version \in Numbers /\ activeGame.s \in State
  BY <1>1, PlayedExists DEF StorageInv
<1>3. GoodGame(held) /\ held.states \in [State -> {0} \cup Numbers]
  BY <1>2, GoodStored, Fields DEF StorageInv
<1>4. PICK states : states = [held.states EXCEPT ![activeGame.s] = activeGame.version]
  OBVIOUS
<1>5. PICK new : new = [held EXCEPT !.states = states]
  OBVIOUS
<1>6. states \in [State -> {0} \cup Numbers]
      /\ \A s \in State : states[s] = held.states[s] \/ states[s] = activeGame.version
  BY <1>2, <1>3, <1>4
<1>7. ~held.dying => \A s \in State : states[s] # 0 => held.versions[states[s]] # None
  BY <1>2, <1>3, <1>6, GoodFields
<1>8. /\ GoodGame(new) /\ new.media = held.media /\ new.versions = held.versions
      /\ new.states = states /\ new.ever = held.ever /\ new.dying = held.dying /\ new.highest = held.highest
  BY <1>3, <1>5, <1>6, <1>7, StatesWritten
<1>9. Suits(d, new)
  BY <1>2, <1>8, SameVersionsSuit DEF StorageInv
<1>10. Change(d, new) /\ activeGame' = activeGame /\ request' = request
  BY <1>4, <1>5 DEF writeState
<1>11. StoreInv' /\ MediaStay /\ store'[d] = new /\ \A e \in Location \X Game : e # d => store'[e] = store[e]
  BY <1>2, <1>9, <1>10, StoreChanges DEF StorageInv, Change
<1>12. OnlyPlayed
  <2>1. \A e : PlayedAt(e) <=> e = d
    BY <1>1 DEF PlayedAt
  <2>2. new # None
    BY <1>8, StorageAssumption DEF GoodGame
  <2> QED
    BY <1>2, <1>6, <1>8, <1>10, <1>11, <2>1, <2>2 DEF OnlyPlayed
<1>13. RequestInv'
  BY <1>10, <1>12, RequestsGoOn DEF StorageInv
<1> QED
  BY <1>11, <1>13 DEF StorageInv

LEMMA RestGoes ==
  ASSUME StorageInv, GameEnds \/ UNCHANGED vars
  PROVE  StorageInv' /\ MediaStay
<1>1. store' = store /\ request' = request /\ activeGame' \in {activeGame, None}
  BY DEF GameEnds, vars
<1>2. StoreInv' /\ MediaStay
  BY <1>1 DEF StorageInv, StoreInv, MediaStay
<1>3. OnlyPlayed
  BY <1>1 DEF OnlyPlayed
<1>4. RequestInv'
  BY <1>1, <1>3, RequestsGoOn DEF StorageInv
<1> QED
  BY <1>2, <1>4 DEF StorageInv

LEMMA StorageInit == Init => StorageInv
<1> SUFFICES ASSUME Init PROVE StorageInv
  OBVIOUS
<1>1. PICK l \in Location, g \in Game, c \in Content :
        store = [d \in Location \X Game |->
                  IF d = <<l, g>> THEN [EmptyGame EXCEPT !.versions[1] = c, !.ever[1] = c, !.media = Shows[c]] ELSE None]
  BY DEF Init
<1>2. PICK held : held = [EmptyGame EXCEPT !.versions[1] = c, !.ever[1] = c, !.media = Shows[c]]
  OBVIOUS
<1>3. PICK first : first = WithVersion(EmptyGame, 1, c)
  OBVIOUS
<1>4. GoodGame(first)
  <2>1. EmptyGame.ever[1] = None /\ 1 \in Numbers
    BY NumberDef DEF EmptyGame
  <2> QED
    BY <1>3, <2>1, EmptyGood, VersionWritten
<1>5. held = [first EXCEPT !.media = Shows[c]]
  <2>1. EmptyGame.ever[1] = None
    BY NumberDef DEF EmptyGame
  <2>2. first = [EmptyGame EXCEPT !.versions[1] = c, !.ever[1] = c]
    BY <1>3, <2>1 DEF WithVersion, EmptyGame
  <2> QED
    BY <1>2, <2>2
<1>6. GoodGame(held)
  BY <1>4, <1>5, MediaWritten, StorageAssumption
<1>7. StoreInv
  BY <1>1, <1>2, <1>6 DEF Init, StoreInv
<1> QED
  BY <1>7 DEF Init, StorageInv, RequestInv

LEMMA StorageStep == StorageInv /\ OneAtATime /\ OneAtATime' /\ [Next]_vars => StorageInv' /\ MediaStay
<1> SUFFICES ASSUME StorageInv, OneAtATime, OneAtATime', [Next]_vars PROVE StorageInv' /\ MediaStay
  OBVIOUS
<1>1. ASSUME NEW r \in Request, Step(r) PROVE Goes(r)
  BY <1>1, CreateGoes, DeleteGoes, CopyGoes, ImportGoes, BundleGoes, SaveGoes, DeleteVersionGoes, ChangeStateGoes,
     UploadGoes, TakeMediaGoes DEF Step
<1>2. ASSUME NEW r \in Request, Goes(r) PROVE StorageInv' /\ MediaStay
  BY <1>2 DEF Goes, StorageInv
<1> QED
  BY <1>1, <1>2, FailGoes, BeginGoes, SetActiveGoes, WriteStateGoes, RestGoes DEF Next

----------------------------------------------------------------------------
(* The theorems. *)

LEMMA StorageCorrect == Spec /\ []OneAtATime => []StorageInv
  BY StorageInit, StorageStep, PTL DEF Spec

\* A version number means the same questions for ever, for any games, copies, imports and deleted
\* versions: each number that was ever given is covered by the highest one (saveVersion, numbering.json).
THEOREM NumbersKept == Spec /\ []OneAtATime => []NumbersAreKept
<1>1. StorageInv => NumbersAreKept
  BY DEF StorageInv, StoreInv, GoodGame, NumbersAreKept, Games
<1> QED
  BY <1>1, StorageCorrect, PTL

\* Every state plays a version its game has, whatever is deleted, renamed, copied and imported while a
\* game is played and its state written (deleteVersion, copyGame, checkArchivedGame, writeState).
THEOREM PlayedVersionsKept == Spec /\ []OneAtATime => []PlayedVersionsExist
<1>1. StorageInv => PlayedVersionsExist
  BY DEF StorageInv, StoreInv, GoodGame, PlayedVersionsExist, Games
<1> QED
  BY <1>1, StorageCorrect, PTL

\* A game that is moved is whole where it was or where it is, at whatever step moving it fails (copyGame).
THEOREM MovedGameKept == Spec /\ []OneAtATime => []MovedGameIsKept
<1>1. StorageInv => MovedGameIsKept
  <2> SUFFICES ASSUME StorageInv, NEW r \in Request, request[r] # None,
                      request[r].op = "copy", request[r].pc = "remove"
               PROVE  LET copy == store[There(r)] IN
                        /\ copy # None
                        /\ store[Here(r)] # None => LET held == store[Here(r)] IN
                             /\ \A n \in Numbers : held.versions[n] \in {None, copy.versions[n]}
                             /\ \A s \in State : held.states[s] \in {0, copy.states[s]}
                             /\ held.media \subseteq copy.media
    BY DEF MovedGameIsKept
  <2>1. Copying(request[r])
    BY Kinds DEF StorageInv, RequestInv
  <2> QED
    BY <2>1 DEF Copying, Here, There
<1> QED
  BY <1>1, StorageCorrect, PTL

\* Media that a version shows are neither deleted nor moved while the game is there: none is shown more
\* since the check (checkNotShown), as a version that is saved meanwhile is another request.
THEOREM ShownMediaKept == Spec /\ []OneAtATime => ShownMediaStay
<1>1. StorageInv /\ OneAtATime /\ OneAtATime' /\ [Next]_vars =>
        [\A d \in Location \X Game : store[d] # None /\ store'[d] # None =>
           (~store'[d].dying => Shown(store[d]) \cap store[d].media \subseteq store'[d].media)]_vars
  BY StorageStep DEF MediaStay
<1> QED
  BY <1>1, StorageCorrect, PTL DEF Spec, ShownMediaStay

----------------------------------------------------------------------------
(* The inductive invariant of the editor. *)

MaybeConfig == Config \cup {Absent}
FormRecord == [id : Nat, text : Text \cup {Absent}, show : BOOLEAN, filled : BOOLEAN, media : Kind \cup {Absent}]

\* a form for each config, and no form twice, of those that were made so far
Paired(forms, configs, n) ==
  /\ forms \in Seq(FormRecord) /\ configs \in Seq(MaybeConfig) /\ Len(configs) = Len(forms)
  /\ \A i \in 1 .. Len(forms) : forms[i].id \in 1 .. n
  /\ \A i, j \in 1 .. Len(forms) : forms[i].id = forms[j].id => i = j

AsChosen(forms, configs, choice) == \A i \in 1 .. Len(forms) : configs[i] = choice[forms[i].id]

\* what was removed is none of the forms that are there
SnackInv ==
  snack # Absent =>
    /\ snack \in [index : Nat, control : FormRecord, config : MaybeConfig]
    /\ snack.index \in 1 .. Len(form) + 1 /\ snack.control.id \in 1 .. made
    /\ snack.config = chosen[snack.control.id]
    /\ \A i \in 1 .. Len(form) : form[i].id # snack.control.id

\* nothing is removed or saved before the game is known
Unknown == ~ref => snack = Absent /\ saving = Absent /\ versions \in Stored

EditorInv ==
  /\ made \in Nat /\ chosen \in [1 .. made -> MaybeConfig] /\ mediaDefaults \in [Kind -> Config]
  /\ Paired(form, config, made) /\ AsChosen(form, config, chosen)
  /\ SnackInv /\ Unknown

----------------------------------------------------------------------------
(* Sequences: where the elements are after one is removed or added. *)

LEMMA FunctionIsSeq ==
  ASSUME NEW S, NEW n \in Nat, NEW f \in [1 .. n -> S]
  PROVE  f \in Seq(S) /\ Len(f) = n
<1>1. f \in Seq(S)
  BY SeqDef
<1>2. DOMAIN f = 1 .. Len(f) /\ Len(f) \in Nat /\ DOMAIN f = 1 .. n
  BY <1>1, LenProperties
<1>3. Len(f) = n
  BY <1>2
<1> QED
  BY <1>1, <1>3

\* Without the i-th element, those behind it are one place nearer.
HasLess(t, s, i) ==
  /\ Len(t) = Len(s) - 1
  /\ \A k \in 1 .. Len(s) - 1 : t[k] = IF k < i THEN s[k] ELSE s[k + 1]

LEMMA Without ==
  ASSUME NEW S, NEW s \in Seq(S), NEW i \in 1 .. Len(s)
  PROVE  RemoveAt(s, i) \in Seq(S) /\ HasLess(RemoveAt(s, i), s, i)
<1>1. Len(s) \in Nat /\ s \in [1 .. Len(s) -> S]
  BY LenProperties
<1> DEFINE front == SubSeq(s, 1, i - 1)
           back == SubSeq(s, i + 1, Len(s))
<1>2. /\ front \in Seq(S) /\ Len(front) = i - 1
      /\ \A k \in 1 .. i - 1 : front[k] = s[k]
  <2>1. 1 \in Int /\ i - 1 \in Int /\ \A k \in 1 .. i - 1 : s[k] \in S
    BY <1>1
  <2> HIDE DEF front
  <2>2. /\ front \in Seq(S) /\ Len(front) = IF 1 <= i - 1 THEN i - 1 - 1 + 1 ELSE 0
        /\ \A k \in 1 .. i - 1 - 1 + 1 : front[k] = s[1 + k - 1]
    BY <2>1, SubSeqProperties DEF front
  <2> QED
    BY <1>1, <2>2
<1>3. /\ back \in Seq(S) /\ Len(back) = Len(s) - i
      /\ \A k \in 1 .. Len(s) - i : back[k] = s[i + k]
  <2>1. i + 1 \in Int /\ Len(s) \in Int /\ \A k \in i + 1 .. Len(s) : s[k] \in S
    BY <1>1
  <2> HIDE DEF back
  <2>2. /\ back \in Seq(S) /\ Len(back) = IF i + 1 <= Len(s) THEN Len(s) - (i + 1) + 1 ELSE 0
        /\ \A k \in 1 .. Len(s) - (i + 1) + 1 : back[k] = s[i + 1 + k - 1]
    BY <2>1, SubSeqProperties DEF back
  <2>3. ASSUME NEW k \in 1 .. Len(s) - i PROVE back[k] = s[i + k]
    <3>1. k \in 1 .. Len(s) - (i + 1) + 1 /\ i + 1 + k - 1 = i + k
      BY <1>1
    <3> QED
      BY <2>2, <3>1
  <2>4. Len(back) = Len(s) - i
    <3>1. PICK n : n = Len(s)
      OBVIOUS
    <3>2. n \in Nat /\ i \in 1 .. n
      BY <1>1, <3>1
    <3>3. Len(back) = IF i + 1 <= n THEN n - (i + 1) + 1 ELSE 0
      BY <2>2, <3>1
    <3>4. Len(back) = n - i
      BY <3>2, <3>3
    <3> QED
      BY <3>1, <3>4
  <2> QED
    BY <2>2, <2>3, <2>4
<1>4. RemoveAt(s, i) = front \o back
  BY DEF RemoveAt
<1> HIDE DEF front, back
<1>5. /\ front \o back \in Seq(S) /\ Len(front \o back) = Len(front) + Len(back)
      /\ \A k \in 1 .. Len(front) + Len(back) : (front \o back)[k] = IF k <= Len(front) THEN front[k] ELSE back[k - Len(front)]
  BY <1>2, <1>3, ConcatProperties
<1>6. ASSUME NEW k \in 1 .. Len(s) - 1 PROVE (front \o back)[k] = IF k < i THEN s[k] ELSE s[k + 1]
  <2>1. k \in 1 .. Len(front) + Len(back)
    BY <1>1, <1>2, <1>3
  <2>2. CASE k < i
    BY <1>1, <1>2, <1>5, <2>1, <2>2
  <2>3. CASE ~(k < i)
    <3>1. k - (i - 1) \in 1 .. Len(s) - i /\ i + (k - (i - 1)) = k + 1
      BY <1>1, <2>3
    <3> QED
      BY <1>1, <1>2, <1>3, <1>5, <2>1, <2>3, <3>1
  <2> QED
    BY <2>2, <2>3
<1>7. Len(front) + Len(back) = Len(s) - 1
  BY <1>1, <1>2, <1>3
<1> QED
  BY <1>4, <1>5, <1>6, <1>7 DEF HasLess

\* With an element added at i, those from there on are one place further.
HasMore(t, s, i, e) ==
  /\ Len(t) = Len(s) + 1
  /\ \A k \in 1 .. Len(s) + 1 : t[k] = IF k < i THEN s[k] ELSE IF k = i THEN e ELSE s[k - 1]

LEMMA With ==
  ASSUME NEW S, NEW s \in Seq(S), NEW i \in 1 .. Len(s) + 1, NEW e \in S
  PROVE  InsertAt(s, i, e) \in Seq(S) /\ HasMore(InsertAt(s, i, e), s, i, e)
<1>1. Len(s) \in Nat /\ s \in [1 .. Len(s) -> S]
  BY LenProperties
<1> DEFINE front == SubSeq(s, 1, i - 1)
           back == SubSeq(s, i, Len(s))
           middle == front \o <<e>>
<1>2. /\ front \in Seq(S) /\ Len(front) = i - 1
      /\ \A k \in 1 .. i - 1 : front[k] = s[k]
  <2>1. 1 \in Int /\ i - 1 \in Int /\ \A k \in 1 .. i - 1 : s[k] \in S
    BY <1>1
  <2> HIDE DEF front
  <2>2. /\ front \in Seq(S) /\ Len(front) = IF 1 <= i - 1 THEN i - 1 - 1 + 1 ELSE 0
        /\ \A k \in 1 .. i - 1 - 1 + 1 : front[k] = s[1 + k - 1]
    BY <2>1, SubSeqProperties DEF front
  <2> QED
    BY <1>1, <2>2
<1>3. /\ back \in Seq(S) /\ Len(back) = Len(s) + 1 - i
      /\ \A k \in 1 .. Len(s) + 1 - i : back[k] = s[i + k - 1]
  <2>1. i \in Int /\ Len(s) \in Int /\ \A k \in i .. Len(s) : s[k] \in S
    BY <1>1
  <2> HIDE DEF back
  <2>2. /\ back \in Seq(S) /\ Len(back) = IF i <= Len(s) THEN Len(s) - i + 1 ELSE 0
        /\ \A k \in 1 .. Len(s) - i + 1 : back[k] = s[i + k - 1]
    BY <2>1, SubSeqProperties DEF back
  <2>3. Len(s) - i + 1 = Len(s) + 1 - i
    BY <1>1
  <2>4. Len(back) = Len(s) + 1 - i
    BY <1>1, <2>2
  <2> QED
    BY <2>2, <2>3, <2>4
<1>4. InsertAt(s, i, e) = middle \o back
  BY DEF InsertAt
<1> HIDE DEF front, back
<1>5. /\ middle \in Seq(S) /\ Len(middle) = i
      /\ \A k \in 1 .. i : middle[k] = IF k < i THEN s[k] ELSE e
  <2>1. <<e>> \in Seq(S) /\ Len(<<e>>) = 1 /\ <<e>>[1] = e
    OBVIOUS
  <2>2. /\ middle \in Seq(S) /\ Len(middle) = Len(front) + Len(<<e>>)
        /\ \A k \in 1 .. Len(front) + Len(<<e>>) :
             middle[k] = IF k <= Len(front) THEN front[k] ELSE <<e>>[k - Len(front)]
    BY <1>2, <2>1, ConcatProperties
  <2>3. ASSUME NEW k \in 1 .. i PROVE middle[k] = IF k < i THEN s[k] ELSE e
    <3>1. k \in 1 .. Len(front) + Len(<<e>>) /\ Len(front) = i - 1
      BY <1>2, <2>1
    <3>2. CASE k < i
      BY <1>2, <2>2, <3>1, <3>2
    <3>3. CASE k = i
      <4>1. k - Len(front) = 1 /\ ~(k <= Len(front))
        BY <3>1, <3>3
      <4> QED
        BY <2>1, <2>2, <3>1, <3>3, <4>1
    <3>4. k < i \/ k = i
      BY <1>1
    <3> QED
      BY <3>2, <3>3, <3>4
  <2>4. Len(middle) = i
    BY <1>2, <2>1, <2>2
  <2> QED
    BY <2>2, <2>3, <2>4
<1> HIDE DEF middle
<1>6. /\ middle \o back \in Seq(S) /\ Len(middle \o back) = Len(middle) + Len(back)
      /\ \A k \in 1 .. Len(middle) + Len(back) : (middle \o back)[k] = IF k <= Len(middle) THEN middle[k] ELSE back[k - Len(middle)]
  BY <1>3, <1>5, ConcatProperties
<1>7. ASSUME NEW k \in 1 .. Len(s) + 1
      PROVE (middle \o back)[k] = IF k < i THEN s[k] ELSE IF k = i THEN e ELSE s[k - 1]
  <2>1. k \in 1 .. Len(middle) + Len(back)
    BY <1>1, <1>3, <1>5
  <2>2. CASE k <= i
    BY <1>1, <1>5, <1>6, <2>1, <2>2
  <2>3. CASE ~(k <= i)
    <3>1. k - i \in 1 .. Len(s) + 1 - i /\ i + (k - i) - 1 = k - 1
      BY <1>1, <2>3
    <3> QED
      BY <1>1, <1>3, <1>5, <1>6, <2>1, <2>3, <3>1
  <2> QED
    BY <2>2, <2>3
<1>8. Len(middle) + Len(back) = Len(s) + 1
  BY <1>1, <1>3, <1>5
<1> QED
  BY <1>4, <1>6, <1>7, <1>8 DEF HasMore

----------------------------------------------------------------------------
(* The forms and configs after a handler. *)

\* A view gives a config up only for the one that each kind of media can do.
LEMMA SettledIs ==
  ASSUME EditorInv, NEW n \in Nat, NEW forms, NEW configs, Paired(forms, configs, n)
  PROVE  /\ DOMAIN forms = 1 .. Len(forms)
         /\ Settled(forms, configs) \in Seq(MaybeConfig) /\ Len(Settled(forms, configs)) = Len(forms)
         /\ \A i \in 1 .. Len(forms) : Settled(forms, configs)[i] \in {configs[i], HideBoth}
<1>1. DOMAIN forms = 1 .. Len(forms) /\ Len(forms) \in Nat
  BY LenProperties DEF Paired
<1>2. ASSUME NEW i \in 1 .. Len(forms) PROVE Settled(forms, configs)[i] \in {configs[i], HideBoth}
  BY <1>1, <1>2 DEF Settled, Fit
<1>3. ASSUME NEW i \in 1 .. Len(forms) PROVE Settled(forms, configs)[i] \in MaybeConfig
  <2>1. configs[i] \in MaybeConfig
    BY ElementOfSeq DEF Paired
  <2> QED
    BY <1>2, <2>1, EditorAssumption DEF MaybeConfig
<1>4. Settled(forms, configs) \in [1 .. Len(forms) -> MaybeConfig]
  BY <1>1, <1>3 DEF Settled
<1>5. Settled(forms, configs) \in Seq(MaybeConfig) /\ Len(Settled(forms, configs)) = Len(forms)
  BY <1>1, <1>4, FunctionIsSeq
<1> QED
  BY <1>1, <1>2, <1>5

\* What is arranged as it was chosen is so after it has settled; what was chosen for a form that is not there stays.
LEMMA ArrangedKeeps ==
  ASSUME EditorInv, made' \in Nat, made' >= made,
         NEW forms, NEW configs, Paired(forms, configs, made'),
         \A i \in 1 .. Len(forms) :
            configs[i] = IF forms[i].id \in 1 .. made THEN chosen[forms[i].id] ELSE Absent,
         form' = forms, config' = Settled(forms, configs), chosen' = ChosenIn(forms, configs)
  PROVE  /\ chosen' \in [1 .. made' -> MaybeConfig]
         /\ Paired(form, config, made)' /\ AsChosen(form, config, chosen)'
         /\ \A id \in 1 .. made : (\A i \in 1 .. Len(forms) : forms[i].id # id) => chosen'[id] = chosen[id]
<1>1. /\ DOMAIN forms = 1 .. Len(forms)
      /\ config' \in Seq(MaybeConfig) /\ Len(config') = Len(forms)
      /\ \A i \in 1 .. Len(forms) : config'[i] \in {configs[i], HideBoth}
  BY SettledIs
<1>2. Paired(form, config, made)'
  BY <1>1 DEF Paired
<1>3. DOMAIN chosen = 1 .. made /\ 1 .. made \subseteq 1 .. made'
  BY DEF EditorInv
<1> DEFINE Given(id) == \E i \in 1 .. Len(forms) : forms[i].id = id /\ config'[i] # configs[i]
<1>4. chosen' = [id \in 1 .. made' |-> IF Given(id) THEN HideBoth ELSE IF id \in 1 .. made THEN chosen[id] ELSE Absent]
  BY <1>1, <1>3 DEF ChosenIn
<1>5. chosen' \in [1 .. made' -> MaybeConfig]
  BY <1>4, EditorAssumption DEF EditorInv, MaybeConfig
<1>6. ASSUME NEW i \in 1 .. Len(forms) PROVE config'[i] = chosen'[forms[i].id]
  <2>1. forms[i].id \in 1 .. made' /\ \A j \in 1 .. Len(forms) : forms[j].id = forms[i].id => j = i
    BY DEF Paired
  <2>2. CASE config'[i] = configs[i]
    <3>1. ~Given(forms[i].id)
      BY <2>1, <2>2
    <3> QED
      BY <1>4, <2>1, <2>2, <3>1
  <2>3. CASE config'[i] # configs[i]
    <3>1. Given(forms[i].id) /\ config'[i] = HideBoth
      BY <1>1, <2>3
    <3> QED
      BY <1>4, <2>1, <3>1
  <2> QED
    BY <2>2, <2>3
<1>7. AsChosen(form, config, chosen)'
  BY <1>6 DEF AsChosen
<1>8. ASSUME NEW id \in 1 .. made, \A i \in 1 .. Len(forms) : forms[i].id # id PROVE chosen'[id] = chosen[id]
  BY <1>3, <1>4, <1>8
<1> QED
  BY <1>2, <1>5, <1>7, <1>8

\* Forms and configs that are taken from the places they had still go together.
Taken(forms, configs, from) ==
  \A k \in 1 .. Len(forms) :
    /\ from[k] \in 1 .. Len(form)
    /\ forms[k] = form[from[k]] /\ configs[k] = config[from[k]]
    /\ \A l \in 1 .. Len(forms) : from[k] = from[l] => k = l

LEMMA OneOfEach ==
  ASSUME EditorInv, NEW i \in 1 .. Len(form), NEW j \in 1 .. Len(form), form[i].id = form[j].id
  PROVE  i = j
BY DEF EditorInv, Paired

LEMMA TakenAlike ==
  ASSUME EditorInv, NEW forms \in Seq(FormRecord), NEW configs \in Seq(MaybeConfig), Len(configs) = Len(forms),
         NEW from, Taken(forms, configs, from)
  PROVE  /\ Paired(forms, configs, made)
         /\ \A i \in 1 .. Len(forms) : configs[i] = chosen[forms[i].id] /\ forms[i].id \in 1 .. made
<1>1. ASSUME NEW i \in 1 .. Len(forms) PROVE forms[i].id \in 1 .. made /\ configs[i] = chosen[forms[i].id]
  <2>1. from[i] \in 1 .. Len(form) /\ forms[i] = form[from[i]] /\ configs[i] = config[from[i]]
    BY DEF Taken
  <2>2. form[from[i]].id \in 1 .. made /\ config[from[i]] = chosen[form[from[i]].id]
    BY <2>1 DEF EditorInv, Paired, AsChosen
  <2> QED
    BY <2>1, <2>2
<1>2. ASSUME NEW i \in 1 .. Len(forms), NEW j \in 1 .. Len(forms), forms[i].id = forms[j].id PROVE i = j
  <2>1. /\ from[i] \in 1 .. Len(form) /\ forms[i] = form[from[i]]
        /\ from[j] \in 1 .. Len(form) /\ forms[j] = form[from[j]]
    BY DEF Taken
  <2>2. from[i] = from[j]
    BY <1>2, <2>1, OneOfEach
  <2> QED
    BY <2>2 DEF Taken
<1> QED
  BY <1>1, <1>2 DEF Paired

----------------------------------------------------------------------------
(* Every step keeps the invariant. *)

LEMMA InvTypes ==
  ASSUME EditorInv
  PROVE  /\ form \in Seq(FormRecord) /\ config \in Seq(MaybeConfig) /\ Len(config) = Len(form)
         /\ Len(form) \in Nat /\ DOMAIN form = 1 .. Len(form)
         /\ form \in [1 .. Len(form) -> FormRecord] /\ config \in [1 .. Len(form) -> MaybeConfig]
BY LenProperties DEF EditorInv, Paired

\* The parts a handler of a question leaves alone.
LEMMA EditKeeps ==
  ASSUME EditorInv, Edit
  PROVE  ref /\ ref' /\ Unknown'
BY DEF Edit, loaded, Unknown

LEMMA AddGoes ==
  ASSUME EditorInv, addQuestionToFormGroup
  PROVE  EditorInv'
<1> DEFINE forms == Append(form, NewForm(made + 1))
           configs == Append(config, Absent)
<1>1. /\ made \in Nat /\ made' = made + 1 /\ mediaDefaults' = mediaDefaults /\ snack' = snack
      /\ Unknown' /\ Arranged(forms, configs)
  BY EditKeeps DEF addQuestionToFormGroup, settings, EditorInv
<1>2. NewForm(made + 1) \in FormRecord /\ NewForm(made + 1).id = made + 1 /\ Absent \in MaybeConfig
  BY <1>1 DEF NewForm, FormRecord, MaybeConfig
<1>3. /\ forms \in Seq(FormRecord) /\ configs \in Seq(MaybeConfig) /\ Len(forms) = Len(form) + 1
      /\ Len(configs) = Len(forms)
      /\ \A i \in 1 .. Len(forms) : /\ forms[i] = IF i = Len(form) + 1 THEN NewForm(made + 1) ELSE form[i]
                                    /\ configs[i] = IF i = Len(form) + 1 THEN Absent ELSE config[i]
  BY <1>2, InvTypes, AppendProperties
<1> HIDE DEF forms, configs
<1>4. ASSUME NEW i \in 1 .. Len(form)
      PROVE  form[i].id \in 1 .. made /\ config[i] = chosen[form[i].id]
  BY DEF EditorInv, Paired, AsChosen
<1>5. ASSUME NEW i \in 1 .. Len(forms)
      PROVE  /\ forms[i].id \in 1 .. made + 1
             /\ i # Len(form) + 1 => forms[i].id \in 1 .. made
             /\ i = Len(form) + 1 => forms[i].id = made + 1
             /\ configs[i] = IF forms[i].id \in 1 .. made THEN chosen[forms[i].id] ELSE Absent
  <2>1. CASE i = Len(form) + 1
    <3>1. forms[i].id = made + 1 /\ configs[i] = Absent
      BY <1>2, <1>3, <2>1
    <3> QED
      BY <1>1, <2>1, <3>1
  <2>2. CASE i # Len(form) + 1
    <3>1. i \in 1 .. Len(form)
      BY <1>3, <2>2, InvTypes
    <3>2. forms[i] = form[i] /\ configs[i] = config[i]
      BY <1>3, <2>2
    <3> QED
      BY <1>1, <1>4, <2>2, <3>1, <3>2
  <2> QED
    BY <2>1, <2>2
<1>6. ASSUME NEW i \in 1 .. Len(forms), NEW j \in 1 .. Len(forms), forms[i].id = forms[j].id
      PROVE  i = j
  <2>1. CASE i = Len(form) + 1 \/ j = Len(form) + 1
    BY <1>1, <1>5, <1>6, <2>1
  <2>2. CASE i # Len(form) + 1 /\ j # Len(form) + 1
    <3>1. i \in 1 .. Len(form) /\ j \in 1 .. Len(form) /\ forms[i] = form[i] /\ forms[j] = form[j]
      BY <1>3, <2>2, InvTypes
    <3> QED
      BY <1>6, <3>1 DEF EditorInv, Paired
  <2> QED
    BY <2>1, <2>2
<1>7. Paired(forms, configs, made')
  BY <1>1, <1>3, <1>5, <1>6 DEF Paired
<1>8. /\ chosen' \in [1 .. made' -> MaybeConfig]
      /\ Paired(form, config, made)' /\ AsChosen(form, config, chosen)'
      /\ \A id \in 1 .. made : (\A i \in 1 .. Len(forms) : forms[i].id # id) => chosen'[id] = chosen[id]
      /\ form' = forms
  <2>1. made' \in Nat /\ made' >= made
    BY <1>1
  <2>2. form' = forms /\ config' = Settled(forms, configs) /\ chosen' = ChosenIn(forms, configs)
    BY <1>1 DEF Arranged
  <2> QED
    BY <1>5, <1>7, <2>1, <2>2, ArrangedKeeps
<1>9. SnackInv'
  <2> SUFFICES ASSUME snack # Absent PROVE SnackInv'
    BY <1>1 DEF SnackInv
  <2>1. /\ snack \in [index : Nat, control : FormRecord, config : MaybeConfig]
        /\ snack.index \in 1 .. Len(form) + 1 /\ snack.control.id \in 1 .. made
        /\ snack.config = chosen[snack.control.id]
        /\ \A i \in 1 .. Len(form) : form[i].id # snack.control.id
    BY DEF EditorInv, SnackInv
  <2>2. ASSUME NEW i \in 1 .. Len(forms) PROVE forms[i].id # snack.control.id
    <3>1. CASE i = Len(form) + 1
      BY <1>1, <1>5, <2>1, <3>1
    <3>2. CASE i # Len(form) + 1
      <4>1. i \in 1 .. Len(form) /\ forms[i] = form[i]
        BY <1>3, <3>2, InvTypes
      <4> QED
        BY <2>1, <4>1
    <3> QED
      BY <3>1, <3>2
  <2>3. chosen'[snack.control.id] = chosen[snack.control.id]
    BY <1>8, <2>1, <2>2
  <2>4. snack.index \in 1 .. Len(forms) + 1 /\ snack.control.id \in 1 .. made'
    BY <1>1, <1>3, <2>1, InvTypes
  <2> QED
    BY <1>1, <1>8, <2>1, <2>2, <2>3, <2>4 DEF SnackInv
<1> QED
  BY <1>1, <1>8, <1>9 DEF EditorInv

\* What is arranged from the forms that are there, with a removal that fits.
LEMMA TakenGoes ==
  ASSUME EditorInv, Edit, made' = made, mediaDefaults' = mediaDefaults,
         NEW forms \in Seq(FormRecord), NEW configs \in Seq(MaybeConfig), Len(configs) = Len(forms),
         NEW from, Taken(forms, configs, from),
         Arranged(forms, configs)
  PROVE  /\ form' = forms
         /\ \A id \in 1 .. made : (\A i \in 1 .. Len(forms) : forms[i].id # id) => chosen'[id] = chosen[id]
         /\ SnackInv' => EditorInv'
<1>1. /\ Paired(forms, configs, made)
      /\ \A i \in 1 .. Len(forms) : configs[i] = chosen[forms[i].id] /\ forms[i].id \in 1 .. made
  BY TakenAlike
<1>2. made' \in Nat /\ made' >= made /\ Paired(forms, configs, made')
  BY <1>1 DEF EditorInv
<1>3. \A i \in 1 .. Len(forms) : configs[i] = IF forms[i].id \in 1 .. made THEN chosen[forms[i].id] ELSE Absent
  BY <1>1
<1>4. form' = forms /\ config' = Settled(forms, configs) /\ chosen' = ChosenIn(forms, configs)
  BY DEF Arranged
<1>5. /\ chosen' \in [1 .. made' -> MaybeConfig]
      /\ Paired(form, config, made)' /\ AsChosen(form, config, chosen)'
      /\ \A id \in 1 .. made : (\A i \in 1 .. Len(forms) : forms[i].id # id) => chosen'[id] = chosen[id]
  BY <1>2, <1>3, <1>4, ArrangedKeeps
<1>6. Unknown' /\ mediaDefaults' \in [Kind -> Config]
  BY EditKeeps DEF EditorInv
<1> QED
  BY <1>2, <1>4, <1>5, <1>6 DEF EditorInv

LEMMA RemoveGoes ==
  ASSUME EditorInv, NEW i \in DOMAIN form, removeQuestion(i)
  PROVE  EditorInv'
<1> DEFINE forms == RemoveAt(form, i)
           configs == RemoveAt(config, i)
           from == [k \in 1 .. Len(form) - 1 |-> IF k < i THEN k ELSE k + 1]
<1>1. /\ Edit /\ made' = made /\ mediaDefaults' = mediaDefaults /\ Arranged(forms, configs)
      /\ snack' = [index |-> i, control |-> form[i], config |-> config[i]]
  BY DEF removeQuestion, settings
<1>2. Len(form) \in Nat /\ i \in 1 .. Len(form) /\ form[i] \in FormRecord /\ config[i] \in MaybeConfig
  BY InvTypes
<1>3. /\ forms \in Seq(FormRecord) /\ configs \in Seq(MaybeConfig)
      /\ Len(forms) = Len(form) - 1 /\ Len(configs) = Len(forms)
      /\ \A k \in 1 .. Len(form) - 1 : /\ forms[k] = IF k < i THEN form[k] ELSE form[k + 1]
                                       /\ configs[k] = IF k < i THEN config[k] ELSE config[k + 1]
  <2>1. forms \in Seq(FormRecord) /\ HasLess(forms, form, i)
    BY <1>2, InvTypes, Without
  <2>2. configs \in Seq(MaybeConfig) /\ HasLess(configs, config, i) /\ Len(config) = Len(form)
    BY <1>2, InvTypes, Without
  <2> QED
    BY <2>1, <2>2 DEF HasLess
<1> HIDE DEF forms, configs
<1>4. ASSUME NEW k \in 1 .. Len(forms)
      PROVE  /\ from[k] \in 1 .. Len(form) /\ from[k] # i
             /\ forms[k] = form[from[k]] /\ configs[k] = config[from[k]]
             /\ \A l \in 1 .. Len(forms) : from[k] = from[l] => k = l
  <2>1. k \in 1 .. Len(form) - 1 /\ from[k] = IF k < i THEN k ELSE k + 1
    BY <1>3
  <2>2. from[k] \in 1 .. Len(form) /\ from[k] # i
    BY <1>2, <2>1
  <2>3. forms[k] = form[from[k]] /\ configs[k] = config[from[k]]
    BY <1>3, <2>1
  <2>4. ASSUME NEW l \in 1 .. Len(forms), from[k] = from[l] PROVE k = l
    <3>1. l \in 1 .. Len(form) - 1 /\ from[l] = IF l < i THEN l ELSE l + 1
      BY <1>3
    <3> QED
      BY <1>2, <2>1, <2>4, <3>1
  <2> QED
    BY <2>2, <2>3, <2>4
<1> HIDE DEF from
<1>5. /\ form' = forms
      /\ \A id \in 1 .. made : (\A k \in 1 .. Len(forms) : forms[k].id # id) => chosen'[id] = chosen[id]
      /\ SnackInv' => EditorInv'
  <2>1. Taken(forms, configs, from) /\ Len(configs) = Len(forms)
    BY <1>3, <1>4 DEF Taken
  <2> QED
    BY <1>1, <1>3, <2>1, TakenGoes
<1>6. form[i].id \in 1 .. made /\ config[i] = chosen[form[i].id]
  BY <1>2 DEF EditorInv, Paired, AsChosen
<1>7. \A k \in 1 .. Len(forms) : forms[k].id # form[i].id
  BY <1>2, <1>4, OneOfEach
<1>8. i \in 1 .. Len(forms) + 1 /\ i \in Nat
  BY <1>2, <1>3
<1>9. SnackInv'
  BY <1>1, <1>2, <1>5, <1>6, <1>7, <1>8 DEF SnackInv
<1> QED
  BY <1>5, <1>9

\* The element at i is at j, and those between are moved by one place.
LEMMA MovedIs ==
  ASSUME NEW S, NEW s \in Seq(S), NEW i \in 1 .. Len(s), NEW j \in 1 .. Len(s)
  PROVE  /\ Moved(s, i, j) \in Seq(S) /\ Len(Moved(s, i, j)) = Len(s)
         /\ \A k \in 1 .. Len(s) :
              Moved(s, i, j)[k] = IF k = j THEN s[i]
                                  ELSE IF k < j THEN IF k < i THEN s[k] ELSE s[k + 1]
                                  ELSE IF k - 1 < i THEN s[k - 1] ELSE s[k]
<1> PICK e : e = s[i]
  OBVIOUS
<1>1. Len(s) \in Nat /\ e \in S
  BY LenProperties
<1> DEFINE rest == RemoveAt(s, i)
<1>2. /\ rest \in Seq(S) /\ Len(rest) = Len(s) - 1
      /\ \A k \in 1 .. Len(s) - 1 : rest[k] = IF k < i THEN s[k] ELSE s[k + 1]
  BY Without DEF HasLess
<1> HIDE DEF rest
<1>3. Moved(s, i, j) = InsertAt(rest, j, e)
  BY DEF Moved, rest
<1>4. j \in 1 .. Len(rest) + 1 /\ Len(rest) + 1 = Len(s)
  BY <1>1, <1>2
<1>5. /\ InsertAt(rest, j, e) \in Seq(S) /\ Len(InsertAt(rest, j, e)) = Len(rest) + 1
      /\ \A k \in 1 .. Len(rest) + 1 :
           InsertAt(rest, j, e)[k] = IF k < j THEN rest[k] ELSE IF k = j THEN e ELSE rest[k - 1]
  <2>1. rest \in Seq(S) /\ j \in 1 .. Len(rest) + 1 /\ e \in S
    BY <1>1, <1>2, <1>4
  <2>2. InsertAt(rest, j, e) \in Seq(S) /\ HasMore(InsertAt(rest, j, e), rest, j, e)
    BY <2>1, With
  <2> QED
    BY <2>2 DEF HasMore
<1>6. ASSUME NEW k \in 1 .. Len(s)
      PROVE  InsertAt(rest, j, e)[k] = IF k = j THEN e
                                          ELSE IF k < j THEN IF k < i THEN s[k] ELSE s[k + 1]
                                          ELSE IF k - 1 < i THEN s[k - 1] ELSE s[k]
  <2>1. InsertAt(rest, j, e)[k] = IF k < j THEN rest[k] ELSE IF k = j THEN e ELSE rest[k - 1]
    BY <1>4, <1>5
  <2>2. CASE k < j
    <3>1. k \in 1 .. Len(s) - 1 /\ k # j
      BY <1>1, <2>2
    <3>2. rest[k] = IF k < i THEN s[k] ELSE s[k + 1]
      BY <1>2, <3>1
    <3> QED
      BY <2>1, <2>2, <3>1, <3>2
  <2>3. CASE k = j
    <3>1. ~(k < j)
      BY <2>3
    <3> QED
      BY <2>1, <2>3, <3>1
  <2>4. CASE ~(k < j) /\ k # j
    <3>1. k - 1 \in 1 .. Len(s) - 1 /\ k - 1 + 1 = k
      BY <1>1, <2>4
    <3>2. rest[k - 1] = IF k - 1 < i THEN s[k - 1] ELSE s[k]
      BY <1>2, <3>1
    <3> QED
      BY <2>1, <2>4, <3>2
  <2> QED
    BY <2>2, <2>3, <2>4
<1> QED
  BY <1>3, <1>4, <1>5, <1>6

LEMMA DropGoes ==
  ASSUME EditorInv, NEW i \in DOMAIN form, NEW j \in DOMAIN form, dropQuestion(i, j)
  PROVE  EditorInv'
<1> DEFINE forms == Moved(form, i, j)
           configs == Moved(config, i, j)
           from == [k \in 1 .. Len(form) |-> IF k = j THEN i
                                             ELSE IF k < j THEN IF k < i THEN k ELSE k + 1
                                             ELSE IF k - 1 < i THEN k - 1 ELSE k]
<1>1. /\ Edit /\ made' = made /\ mediaDefaults' = mediaDefaults /\ Arranged(forms, configs)
      /\ snack' = snack
  BY DEF dropQuestion, settings
<1>2. Len(form) \in Nat /\ i \in 1 .. Len(form) /\ j \in 1 .. Len(form)
  BY InvTypes
<1>3. /\ forms \in Seq(FormRecord) /\ configs \in Seq(MaybeConfig)
      /\ Len(forms) = Len(form) /\ Len(configs) = Len(forms)
      /\ \A k \in 1 .. Len(form) :
           /\ forms[k] = IF k = j THEN form[i]
                         ELSE IF k < j THEN IF k < i THEN form[k] ELSE form[k + 1]
                         ELSE IF k - 1 < i THEN form[k - 1] ELSE form[k]
           /\ configs[k] = IF k = j THEN config[i]
                           ELSE IF k < j THEN IF k < i THEN config[k] ELSE config[k + 1]
                           ELSE IF k - 1 < i THEN config[k - 1] ELSE config[k]
  BY <1>2, InvTypes, MovedIs
<1> HIDE DEF forms, configs
<1>4. ASSUME NEW k \in 1 .. Len(forms)
      PROVE  /\ from[k] \in 1 .. Len(form)
             /\ forms[k] = form[from[k]] /\ configs[k] = config[from[k]]
             /\ \A l \in 1 .. Len(forms) : from[k] = from[l] => k = l
  <2>1. k \in 1 .. Len(form) /\ from[k] = IF k = j THEN i
                                          ELSE IF k < j THEN IF k < i THEN k ELSE k + 1
                                          ELSE IF k - 1 < i THEN k - 1 ELSE k
    BY <1>3
  <2>2. from[k] \in 1 .. Len(form)
    BY <1>2, <2>1
  <2>3. forms[k] = form[from[k]] /\ configs[k] = config[from[k]]
    BY <1>3, <2>1
  <2>4. ASSUME NEW l \in 1 .. Len(forms), from[k] = from[l] PROVE k = l
    <3>1. l \in 1 .. Len(form) /\ from[l] = IF l = j THEN i
                                            ELSE IF l < j THEN IF l < i THEN l ELSE l + 1
                                            ELSE IF l - 1 < i THEN l - 1 ELSE l
      BY <1>3
    <3> QED
      BY <1>2, <2>1, <2>4, <3>1
  <2> QED
    BY <2>2, <2>3, <2>4
<1> HIDE DEF from
<1>5. /\ form' = forms
      /\ \A id \in 1 .. made : (\A k \in 1 .. Len(forms) : forms[k].id # id) => chosen'[id] = chosen[id]
      /\ SnackInv' => EditorInv'
  <2>1. Taken(forms, configs, from) /\ Len(configs) = Len(forms)
    BY <1>3, <1>4 DEF Taken
  <2> QED
    BY <1>1, <1>3, <2>1, TakenGoes
<1>6. ASSUME NEW n, \A k \in 1 .. Len(form) : form[k].id # n PROVE \A k \in 1 .. Len(forms) : forms[k].id # n
  BY <1>4, <1>6
<1>7. SnackInv'
  <2> SUFFICES ASSUME snack # Absent PROVE SnackInv'
    BY <1>1 DEF SnackInv
  <2> PICK n : n = snack.control.id
    OBVIOUS
  <2>1. /\ snack \in [index : Nat, control : FormRecord, config : MaybeConfig]
        /\ snack.index \in 1 .. Len(form) + 1 /\ n \in 1 .. made
        /\ snack.config = chosen[n] /\ \A k \in 1 .. Len(form) : form[k].id # n
    BY DEF EditorInv, SnackInv
  <2>2. \A k \in 1 .. Len(forms) : forms[k].id # n
    BY <1>6, <2>1
  <2>3. chosen'[n] = chosen[n]
    BY <1>5, <2>1, <2>2
  <2> QED
    BY <1>1, <1>3, <1>5, <2>1, <2>2, <2>3 DEF SnackInv
<1> QED
  BY <1>5, <1>7

\* What was removed is back in its place, with the config it had.
LEMMA UndoGoes ==
  ASSUME EditorInv, undo
  PROVE  EditorInv'
<1> PICK n : n = snack.index
  OBVIOUS
<1> PICK control : control = snack.control
  OBVIOUS
<1> PICK c : c = snack.config
  OBVIOUS
<1> DEFINE forms == InsertAt(form, n, control)
           configs == InsertAt(config, n, c)
<1>1. /\ Edit /\ made' = made /\ mediaDefaults' = mediaDefaults /\ Arranged(forms, configs)
      /\ snack' = Absent /\ snack # Absent
  BY DEF undo, settings, Restored
<1>2. /\ n \in 1 .. Len(form) + 1 /\ control \in FormRecord /\ c \in MaybeConfig
      /\ control.id \in 1 .. made /\ c = chosen[control.id]
      /\ \A k \in 1 .. Len(form) : form[k].id # control.id
  BY <1>1 DEF EditorInv, SnackInv
<1>3. /\ forms \in Seq(FormRecord) /\ configs \in Seq(MaybeConfig)
      /\ Len(forms) = Len(form) + 1 /\ Len(configs) = Len(forms) /\ Len(form) \in Nat
      /\ \A k \in 1 .. Len(form) + 1 :
           /\ forms[k] = IF k < n THEN form[k] ELSE IF k = n THEN control ELSE form[k - 1]
           /\ configs[k] = IF k < n THEN config[k] ELSE IF k = n THEN c ELSE config[k - 1]
  <2>1. /\ forms \in Seq(FormRecord) /\ Len(forms) = Len(form) + 1 /\ Len(form) \in Nat
        /\ \A k \in 1 .. Len(form) + 1 : forms[k] = IF k < n THEN form[k] ELSE IF k = n THEN control ELSE form[k - 1]
    <3>1. form \in Seq(FormRecord) /\ n \in 1 .. Len(form) + 1 /\ control \in FormRecord /\ Len(form) \in Nat
      BY <1>2, InvTypes
    <3>2. forms \in Seq(FormRecord) /\ HasMore(forms, form, n, control)
      BY <3>1, With
    <3> QED
      BY <3>1, <3>2 DEF HasMore
  <2>2. n \in 1 .. Len(config) + 1 /\ Len(config) = Len(form) /\ config \in Seq(MaybeConfig)
    BY <1>2, InvTypes
  <2>3. /\ configs \in Seq(MaybeConfig) /\ Len(configs) = Len(config) + 1
        /\ \A k \in 1 .. Len(config) + 1 : configs[k] = IF k < n THEN config[k] ELSE IF k = n THEN c ELSE config[k - 1]
    <3>1. configs \in Seq(MaybeConfig) /\ HasMore(configs, config, n, c)
      BY <1>2, <2>2, With
    <3> QED
      BY <3>1 DEF HasMore
  <2> QED
    BY <2>1, <2>2, <2>3
<1> HIDE DEF forms, configs
<1>4. ASSUME NEW k \in 1 .. Len(form)
      PROVE  form[k].id \in 1 .. made /\ config[k] = chosen[form[k].id]
  BY DEF EditorInv, Paired, AsChosen
<1> DEFINE Place(k) == IF k < n THEN k ELSE k - 1
<1>5. ASSUME NEW k \in 1 .. Len(forms), k # n
      PROVE  Place(k) \in 1 .. Len(form) /\ forms[k] = form[Place(k)] /\ configs[k] = config[Place(k)]
  <2>1. k \in 1 .. Len(form) + 1
    BY <1>3
  <2>2. Place(k) \in 1 .. Len(form)
    BY <1>2, <1>3, <1>5, <2>1
  <2>3. forms[k] = form[Place(k)] /\ configs[k] = config[Place(k)]
    BY <1>3, <1>5, <2>1
  <2> QED
    BY <2>2, <2>3
<1>6. n \in 1 .. Len(forms) /\ forms[n] = control /\ configs[n] = c
  <2>1. n \in 1 .. Len(form) + 1 /\ ~(n < n)
    BY <1>2, <1>3
  <2> QED
    BY <1>3, <2>1
<1>7. ASSUME NEW k \in 1 .. Len(forms)
      PROVE  forms[k].id \in 1 .. made /\ configs[k] = chosen[forms[k].id]
  <2>1. CASE k = n
    BY <1>2, <1>6, <2>1
  <2>2. CASE k # n
    BY <1>4, <1>5, <2>2
  <2> QED
    BY <2>1, <2>2
<1>8. ASSUME NEW k \in 1 .. Len(forms), NEW l \in 1 .. Len(forms), forms[k].id = forms[l].id
      PROVE  k = l
  <2>1. CASE k = n /\ l # n
    BY <1>2, <1>5, <1>6, <1>8, <2>1
  <2>2. CASE k # n /\ l = n
    BY <1>2, <1>5, <1>6, <1>8, <2>2
  <2>3. CASE k # n /\ l # n
    <3>1. Place(k) = Place(l)
      <4>1. Place(k) \in 1 .. Len(form) /\ forms[k] = form[Place(k)]
        BY <1>5, <2>3
      <4>2. Place(l) \in 1 .. Len(form) /\ forms[l] = form[Place(l)]
        BY <1>5, <2>3
      <4> HIDE DEF Place
      <4> QED
        BY <1>8, <4>1, <4>2 DEF EditorInv, Paired
    <3>2. k \in Nat /\ l \in Nat /\ n \in Nat
      BY <1>2, <1>3
    <3> QED
      BY <2>3, <3>1, <3>2
  <2> QED
    BY <2>1, <2>2, <2>3
<1>9. Paired(forms, configs, made)
  BY <1>3, <1>7, <1>8 DEF Paired
<1>10. /\ chosen' \in [1 .. made' -> MaybeConfig]
       /\ Paired(form, config, made)' /\ AsChosen(form, config, chosen)'
  <2>1. made' \in Nat /\ made' >= made
    BY <1>1 DEF EditorInv
  <2>2. form' = forms /\ config' = Settled(forms, configs) /\ chosen' = ChosenIn(forms, configs)
    BY <1>1 DEF Arranged
  <2>3. \A k \in 1 .. Len(forms) : configs[k] = IF forms[k].id \in 1 .. made THEN chosen[forms[k].id] ELSE Absent
    BY <1>7
  <2>4. Paired(forms, configs, made')
    BY <1>1, <1>9
  <2> QED
    BY <2>1, <2>2, <2>3, <2>4, ArrangedKeeps
<1>11. SnackInv' /\ Unknown'
  BY <1>1, EditKeeps DEF SnackInv
<1> QED
  BY <1>1, <1>10, <1>11 DEF EditorInv

\* Forms that keep their numbers and places still go with their configs.
LEMMA RefilledGoes ==
  ASSUME EditorInv, NEW forms \in Seq(FormRecord), Len(forms) = Len(form),
         \A k \in 1 .. Len(form) : forms[k].id = form[k].id
  PROVE  /\ Paired(forms, config, made)
         /\ \A k \in 1 .. Len(forms) : config[k] = chosen[forms[k].id] /\ forms[k].id \in 1 .. made
BY DEF EditorInv, Paired, AsChosen

LEMMA EnterGoes ==
  ASSUME EditorInv, NEW i \in DOMAIN form, NEW f \in FormRecord, f.id = form[i].id, Enter(i, f)
  PROVE  EditorInv'
<1> DEFINE forms == [form EXCEPT ![i] = f]
<1>1. /\ form' = forms /\ Edit
      /\ config' = config /\ snack' = snack /\ made' = made /\ chosen' = chosen /\ mediaDefaults' = mediaDefaults
  BY DEF Enter, settings
<1>2. /\ forms \in Seq(FormRecord) /\ Len(forms) = Len(form)
      /\ \A k \in 1 .. Len(form) : forms[k] = IF k = i THEN f ELSE form[k]
  BY InvTypes, ExceptSeq
<1> HIDE DEF forms
<1>3. \A k \in 1 .. Len(form) : forms[k].id = form[k].id
  BY <1>2
<1>4. /\ Paired(forms, config, made)
      /\ \A k \in 1 .. Len(forms) : config[k] = chosen[forms[k].id] /\ forms[k].id \in 1 .. made
  BY <1>2, <1>3, RefilledGoes
<1>5. Paired(form, config, made)' /\ AsChosen(form, config, chosen)'
  BY <1>1, <1>4 DEF AsChosen
<1>6. SnackInv' /\ Unknown'
  BY <1>1, <1>2, <1>3, EditKeeps DEF EditorInv, SnackInv
<1> QED
  BY <1>1, <1>5, <1>6 DEF EditorInv

\* With another kind of media, the config is given up where the new kind can't do it.
LEMMA MediaGoes ==
  ASSUME EditorInv, NEW i \in DOMAIN form, NEW media \in Kind \cup {Absent}, changeMediaSelection(i, media)
  PROVE  EditorInv'
<1> PICK f : f = [form[i] EXCEPT !.media = media]
  OBVIOUS
<1> DEFINE forms == [form EXCEPT ![i] = f]
<1>1. /\ form' = forms /\ config' = Settled(forms, config) /\ chosen' = ChosenIn(forms, config) /\ Edit
      /\ snack' = snack /\ made' = made /\ mediaDefaults' = mediaDefaults
  BY DEF changeMediaSelection, settings
<1>2. f \in FormRecord /\ f.id = form[i].id
  BY InvTypes DEF FormRecord
<1>3. /\ forms \in Seq(FormRecord) /\ Len(forms) = Len(form)
      /\ \A k \in 1 .. Len(form) : forms[k] = IF k = i THEN f ELSE form[k]
  BY <1>2, InvTypes, ExceptSeq
<1> HIDE DEF forms
<1>4. \A k \in 1 .. Len(form) : forms[k].id = form[k].id
  BY <1>2, <1>3
<1>5. /\ Paired(forms, config, made)
      /\ \A k \in 1 .. Len(forms) : config[k] = chosen[forms[k].id] /\ forms[k].id \in 1 .. made
  BY <1>3, <1>4, RefilledGoes
<1>6. /\ chosen' \in [1 .. made' -> MaybeConfig]
      /\ Paired(form, config, made)' /\ AsChosen(form, config, chosen)'
      /\ \A id \in 1 .. made : (\A k \in 1 .. Len(forms) : forms[k].id # id) => chosen'[id] = chosen[id]
  <2>1. made' \in Nat /\ made' >= made
    BY <1>1 DEF EditorInv
  <2>2. \A k \in 1 .. Len(forms) : config[k] = IF forms[k].id \in 1 .. made THEN chosen[forms[k].id] ELSE Absent
    BY <1>5
  <2>3. Paired(forms, config, made')
    BY <1>1, <1>5
  <2> QED
    BY <1>1, <2>1, <2>2, <2>3, ArrangedKeeps
<1>7. SnackInv'
  <2> SUFFICES ASSUME snack # Absent PROVE SnackInv'
    BY <1>1 DEF SnackInv
  <2> PICK n : n = snack.control.id
    OBVIOUS
  <2>1. /\ snack \in [index : Nat, control : FormRecord, config : MaybeConfig]
        /\ snack.index \in 1 .. Len(form) + 1 /\ n \in 1 .. made
        /\ snack.config = chosen[n] /\ \A k \in 1 .. Len(form) : form[k].id # n
    BY DEF EditorInv, SnackInv
  <2>2. \A k \in 1 .. Len(forms) : forms[k].id # n
    BY <1>3, <1>4, <2>1
  <2>3. chosen'[n] = chosen[n]
    BY <1>6, <2>1, <2>2
  <2> QED
    BY <1>1, <1>3, <2>1, <2>2, <2>3 DEF SnackInv
<1> QED
  BY <1>1, <1>6, <1>7, EditKeeps DEF EditorInv

LEMMA ChooseGoes ==
  ASSUME EditorInv, NEW i \in DOMAIN form, NEW c \in MaybeConfig, Choose(i, c)
  PROVE  EditorInv'
<1> PICK n : n = form[i].id
  OBVIOUS
<1> DEFINE configs == [config EXCEPT ![i] = c]
<1>1. /\ config' = configs /\ chosen' = [chosen EXCEPT ![n] = c] /\ Edit
      /\ form' = form /\ snack' = snack /\ made' = made /\ mediaDefaults' = mediaDefaults
  BY DEF Choose, settings
<1>2. /\ configs \in Seq(MaybeConfig) /\ Len(configs) = Len(config)
      /\ \A k \in 1 .. Len(config) : configs[k] = IF k = i THEN c ELSE config[k]
  BY InvTypes, ExceptSeq
<1> HIDE DEF configs
<1>3. n \in 1 .. made /\ \A k \in 1 .. Len(form) : form[k].id = n => k = i
  BY InvTypes DEF EditorInv, Paired
<1>4. \A m \in 1 .. made : chosen'[m] = IF m = n THEN c ELSE chosen[m]
  BY <1>1 DEF EditorInv
<1>5. chosen' \in [1 .. made' -> MaybeConfig]
  BY <1>1 DEF EditorInv
<1>6. Paired(form, config, made)'
  BY <1>1, <1>2, InvTypes DEF EditorInv, Paired
<1>7. AsChosen(form, config, chosen)'
  <2>1. ASSUME NEW k \in 1 .. Len(form) PROVE configs[k] = chosen'[form[k].id]
    <3>1. form[k].id \in 1 .. made /\ config[k] = chosen[form[k].id] /\ k \in 1 .. Len(config)
      BY InvTypes DEF EditorInv, Paired, AsChosen
    <3>2. CASE k = i
      BY <1>2, <1>4, <3>1, <3>2
    <3>3. CASE k # i
      BY <1>2, <1>3, <1>4, <3>1, <3>3
    <3> QED
      BY <3>2, <3>3
  <2> QED
    BY <1>1, <2>1 DEF AsChosen
<1>8. SnackInv'
  <2> SUFFICES ASSUME snack # Absent PROVE SnackInv'
    BY <1>1 DEF SnackInv
  <2>1. /\ snack \in [index : Nat, control : FormRecord, config : MaybeConfig]
        /\ snack.index \in 1 .. Len(form) + 1 /\ snack.control.id \in 1 .. made
        /\ snack.config = chosen[snack.control.id] /\ \A k \in 1 .. Len(form) : form[k].id # snack.control.id
    BY DEF EditorInv, SnackInv
  <2>2. snack.control.id # n
    BY <2>1, InvTypes
  <2>3. chosen'[snack.control.id] = chosen[snack.control.id]
    BY <1>4, <2>1, <2>2
  <2> QED
    BY <1>1, <2>1, <2>3 DEF SnackInv
<1> QED
  BY <1>1, <1>5, <1>6, <1>7, <1>8, EditKeeps DEF EditorInv

LEMMA QuestionsGo ==
  ASSUME EditorInv, Questions
  PROVE  EditorInv'
<1>1. CASE SnackbarEnds
  <2>1. /\ snack' = Absent /\ form' = form /\ config' = config /\ mediaDefaults' = mediaDefaults
        /\ made' = made /\ chosen' = chosen /\ ref' = ref /\ saving' = saving /\ versions' = versions
    BY <1>1 DEF SnackbarEnds, settings, loaded
  <2> QED
    BY <2>1 DEF EditorInv, Paired, AsChosen, SnackInv, Unknown
<1>2. ASSUME NEW i \in DOMAIN form PROVE form[i] \in FormRecord /\ form[i].media \in Kind \cup {Absent}
  BY InvTypes DEF FormRecord
<1>3. ASSUME NEW i \in DOMAIN form, NEW j \in DOMAIN form, dropQuestion(i, j) PROVE EditorInv'
  BY <1>3, DropGoes
<1>4. ASSUME NEW i \in DOMAIN form, NEW t \in Text, Enter(i, [form[i] EXCEPT !.text = t]) PROVE EditorInv'
  <2> PICK f : f = [form[i] EXCEPT !.text = t]
    OBVIOUS
  <2>1. f \in FormRecord /\ f.id = form[i].id
    BY <1>2 DEF FormRecord
  <2> QED
    BY <1>4, <2>1, EnterGoes
<1>5. ASSUME NEW i \in DOMAIN form, Enter(i, [form[i] EXCEPT !.show = ~@]) PROVE EditorInv'
  <2> PICK f : f = [form[i] EXCEPT !.show = ~@]
    OBVIOUS
  <2>1. f \in FormRecord /\ f.id = form[i].id
    BY <1>2 DEF FormRecord
  <2> QED
    BY <1>5, <2>1, EnterGoes
<1>6. ASSUME NEW i \in DOMAIN form, Enter(i, [form[i] EXCEPT !.filled = TRUE]) PROVE EditorInv'
  <2> PICK f : f = [form[i] EXCEPT !.filled = TRUE]
    OBVIOUS
  <2>1. f \in FormRecord /\ f.id = form[i].id
    BY <1>2 DEF FormRecord
  <2> QED
    BY <1>6, <2>1, EnterGoes
<1>7. ASSUME NEW i \in DOMAIN form, NEW c \in Config, changeQuestionConfig(i, c) PROVE EditorInv'
  <2>1. c \in MaybeConfig /\ Choose(i, c)
    BY <1>7 DEF changeQuestionConfig, MaybeConfig
  <2> QED
    BY <2>1, ChooseGoes
<1>8. ASSUME NEW i \in DOMAIN form, customizeQuestionConfig(i) PROVE EditorInv'
  <2> PICK c : c = mediaDefaults[form[i].media]
    OBVIOUS
  <2>1. form[i].media \in Kind /\ Choose(i, c)
    BY <1>2, <1>8 DEF customizeQuestionConfig
  <2>2. c \in MaybeConfig
    BY <2>1 DEF EditorInv, MaybeConfig
  <2> QED
    BY <2>1, <2>2, ChooseGoes
<1>9. ASSUME NEW i \in DOMAIN form, resetQuestionConfig(i) PROVE EditorInv'
  <2>1. Absent \in MaybeConfig /\ Choose(i, Absent)
    BY <1>9 DEF resetQuestionConfig, MaybeConfig
  <2> QED
    BY <2>1, ChooseGoes
<1> QED
  BY <1>1, <1>3, <1>4, <1>5, <1>6, <1>7, <1>8, <1>9, AddGoes, RemoveGoes, UndoGoes, MediaGoes DEF Questions

LEMMA SettingsGo ==
  ASSUME EditorInv, Settings
  PROVE  EditorInv'
<1>1. EditSettings /\ mediaDefaults' \in [Kind -> Config]
  BY DEF Settings, changeScoring, changeMediaDefault, EditorInv
<1>2. /\ form' = form /\ config' = config /\ snack' = snack /\ made' = made /\ chosen' = chosen
      /\ ref' = ref /\ saving' = saving /\ versions' = versions
  BY <1>1 DEF EditSettings, content, loaded
<1> QED
  BY <1>1, <1>2 DEF EditorInv, Paired, AsChosen, SnackInv, Unknown

LEMMA SavesGo ==
  ASSUME EditorInv, Saves
  PROVE  EditorInv'
<1>1. /\ form' = form /\ config' = config /\ made' = made /\ chosen' = chosen /\ mediaDefaults' = mediaDefaults
      /\ ref' = ref /\ snack' \in {snack, Absent}
  BY DEF Saves, saveGame, VersionIsSaved, SaveSucceeds, SaveFails, playSavedVersion, InEditor, settings, loaded
<1>2. ref \/ (saving' = saving /\ versions' = versions)
  BY DEF Saves, saveGame, VersionIsSaved, SaveSucceeds, SaveFails, playSavedVersion, EditorInv, Unknown
<1> QED
  BY <1>1, <1>2 DEF EditorInv, Paired, AsChosen, SnackInv, Unknown

\* A version that is loaded has its questions numbered in order, each with the config it starts with.
LEMMA LoadGoes ==
  ASSUME EditorInv, NEW n \in DOMAIN versions, loadGame(n)
  PROVE  EditorInv'
<1> PICK v : v = versions[n]
  OBVIOUS
<1> PICK qs : qs = v.questions
  OBVIOUS
<1> PICK m : m = Len(qs)
  OBVIOUS
<1>1. versions \in Seq(Version) /\ snack = Absent
  BY EditorAssumption DEF loadGame, EditorInv, Unknown
<1>2. v \in Version
  BY <1>1, LenProperties
<1>3. qs \in Seq(Question) /\ v.mediaDefaults \in [Kind -> Config] \cup {Absent}
  BY <1>2 DEF Version
<1>4. m \in Nat /\ DOMAIN qs = 1 .. m /\ \A i \in 1 .. m : qs[i] \in Question
  BY <1>3, LenProperties
<1> DEFINE forms == [i \in 1 .. m |-> FormOf(i, qs[i])]
           configs == [i \in 1 .. m |-> IF FollowsDefaults(qs[i], v.mediaDefaults) THEN Absent ELSE qs[i].config]
<1>5. /\ form' = forms /\ config' = configs /\ chosen' = configs /\ made' = m
      /\ mediaDefaults' = CompleteDefaults(v.mediaDefaults) /\ snack' = Absent /\ ref'
  BY <1>1, <1>4 DEF loadGame, initQuestionsFormControls
<1>6. \A i \in 1 .. m : forms[i] \in FormRecord /\ forms[i].id = i
  BY <1>4 DEF FormOf, FormRecord, Question
<1>7. forms \in [1 .. m -> FormRecord]
  BY <1>6
<1>8. configs \in [1 .. m -> MaybeConfig]
  BY <1>4 DEF Question, MaybeConfig
<1> HIDE DEF forms, configs
<1>9. /\ forms \in Seq(FormRecord) /\ Len(forms) = m
      /\ configs \in Seq(MaybeConfig) /\ Len(configs) = m
  BY <1>4, <1>7, <1>8, FunctionIsSeq
<1>10. Paired(form, config, made)' /\ AsChosen(form, config, chosen)'
  BY <1>5, <1>6, <1>9 DEF Paired, AsChosen
<1>11. mediaDefaults' \in [Kind -> Config]
  BY <1>3, <1>5, EditorAssumption DEF CompleteDefaults
<1> QED
  BY <1>4, <1>5, <1>8, <1>10, <1>11 DEF EditorInv, SnackInv, Unknown

LEMMA EditorStarts == EditorInit => EditorInv
<1> SUFFICES ASSUME EditorInit PROVE EditorInv
  OBVIOUS
<1>1. /\ form = <<NewForm(1)>> /\ config = <<Absent>> /\ made = 1 /\ chosen = <<Absent>> /\ snack = Absent
      /\ mediaDefaults = CompleteDefaults(Absent) /\ saving = Absent /\ versions \in Stored
  BY DEF EditorInit
<1>2. NewForm(1) \in FormRecord /\ NewForm(1).id = 1 /\ Absent \in MaybeConfig
  BY DEF NewForm, FormRecord, MaybeConfig
<1>3. /\ form \in Seq(FormRecord) /\ Len(form) = 1 /\ form[1].id = 1
      /\ config \in Seq(MaybeConfig) /\ Len(config) = 1 /\ config[1] = Absent
  BY <1>1, <1>2
<1>4. chosen \in [1 .. 1 -> MaybeConfig] /\ chosen[1] = Absent
  BY <1>1, <1>2
<1>5. mediaDefaults \in [Kind -> Config]
  BY <1>1, EditorAssumption DEF CompleteDefaults
<1>6. Paired(form, config, made) /\ AsChosen(form, config, chosen)
  BY <1>1, <1>3, <1>4 DEF Paired, AsChosen
<1> QED
  BY <1>1, <1>4, <1>5, <1>6 DEF EditorInv, SnackInv, Unknown

LEMMA EditorStep == EditorInv /\ [EditorNext]_editor => EditorInv'
<1> SUFFICES ASSUME EditorInv, [EditorNext]_editor PROVE EditorInv'
  OBVIOUS
<1>1. CASE createNewGame
  <2>1. /\ form' = form /\ config' = config /\ mediaDefaults' = mediaDefaults /\ snack' = snack
        /\ made' = made /\ chosen' = chosen /\ ref'
    BY <1>1 DEF createNewGame, content, settings
  <2> QED
    BY <2>1 DEF EditorInv, Paired, AsChosen, SnackInv, Unknown
<1>2. CASE UNCHANGED editor
  <2>1. /\ form' = form /\ config' = config /\ mediaDefaults' = mediaDefaults /\ snack' = snack
        /\ made' = made /\ chosen' = chosen /\ ref' = ref /\ saving' = saving /\ versions' = versions
    BY <1>2 DEF editor
  <2> QED
    BY <2>1 DEF EditorInv, Paired, AsChosen, SnackInv, Unknown
<1> QED
  BY <1>1, <1>2, LoadGoes, QuestionsGo, SettingsGo, SavesGo DEF EditorNext

LEMMA EditorCorrect == EditorSpec => []EditorInv
BY EditorStarts, EditorStep, PTL DEF EditorSpec

\* Each question is there once and has the media config that was chosen for it, however questions are added, removed,
\* brought back and dragged.
THEOREM ConfigsStayWithQuestions == EditorSpec => []EachWithItsConfig
<1>1. ASSUME EditorInv PROVE EachWithItsConfig
  BY <1>1, InvTypes DEF EditorInv, Paired, AsChosen, SnackInv, EachWithItsConfig
<1> QED
  BY <1>1, EditorCorrect, PTL

----------------------------------------------------------------------------
(* The inductive invariant of the prepare page: no two buzzers have the    *)
(* same id, and each row is one of the kind that is shown.                 *)

BuzzerIds == Wireless \cup (Nat \X Nat)
Buzzer == [id : BuzzerIds, online : BOOLEAN, color : Color \cup {Nobody}]

Apart(there) ==
  /\ there \in Seq(Buzzer)
  /\ \A i, j \in 1 .. Len(there) : there[i].id = there[j].id => i = j

IsRow(row) ==
  row = [id |-> row.id, buzzerIndex |-> row.buzzerIndex, team |-> row.team, name |-> row.name,
         active |-> row.active, dirty |-> row.dirty, defaultName |-> row.defaultName]
RowFits(row, type, there) ==
  /\ IsRow(row)
  /\ row.buzzerIndex \in 1 .. Len(there) /\ there[row.buzzerIndex].id = row.id
  /\ getType(row.id) = type

PrepareInv ==
  /\ restarts \in Nat /\ Apart(buzzers)
  /\ \A k \in DOMAIN rows : RowFits(rows[k], buzzerType, buzzers)
  /\ MarksFollowTeams

----------------------------------------------------------------------------
(* The n-th of some indices, and where a team's buzzer is. *)

LEMMA OneLess ==
  ASSUME NEW S, IsFiniteSet(S), NEW x \in S
  PROVE  IsFiniteSet(S \ {x}) /\ Cardinality(S \ {x}) = Cardinality(S) - 1
BY FS_RemoveElement

\* No two indices have as many smaller ones, so that each number up to theirs is had by one.
LEMMA NthIsOne ==
  ASSUME NEW S \in SUBSET Nat, IsFiniteSet(S), NEW n \in 1 .. Cardinality(S)
  PROVE  NthOf(n, S) \in S
<1> DEFINE Below(x) == {y \in S : y < x}
           c == Cardinality(S)
           f == [x \in S |-> Cardinality(Below(x))]
           others == (0 .. c - 1) \ {n - 1}
<1>1. c \in Nat
  BY FS_CardinalityType
<1>2. ASSUME NEW x \in S PROVE IsFiniteSet(Below(x)) /\ Cardinality(Below(x)) \in 0 .. c - 1
  <2>1. Below(x) \in SUBSET (S \ {x})
    OBVIOUS
  <2>2. IsFiniteSet(S \ {x}) /\ Cardinality(S \ {x}) = c - 1
    BY OneLess
  <2>3. IsFiniteSet(Below(x)) /\ Cardinality(Below(x)) <= c - 1
    BY <2>1, <2>2, FS_Subset
  <2>4. Cardinality(Below(x)) \in Nat
    BY <2>3, FS_CardinalityType
  <2> HIDE DEF Below, c
  <2> QED
    BY <1>1, <2>3, <2>4
<1>3. ASSUME NEW x \in S, NEW y \in S, x < y PROVE Cardinality(Below(x)) # Cardinality(Below(y))
  <2>0. ASSUME NEW z \in S, z < x PROVE z < y
    <3>1. x \in Nat /\ y \in Nat /\ z \in Nat
      OBVIOUS
    <3> QED
      BY <1>3, <2>0, <3>1
  <2>1. Below(x) \in SUBSET Below(y)
    BY <2>0
  <2>2. x \in Below(y) /\ x \notin Below(x)
    BY <1>3
  <2>3. IsFiniteSet(Below(y)) /\ Below(x) # Below(y)
    BY <1>2, <2>2
  <2> HIDE DEF Below
  <2> QED
    BY <2>1, <2>3, FS_Subset
<1>4. \E x \in S : Cardinality(Below(x)) = n - 1
  <2> SUFFICES ASSUME \A x \in S : Cardinality(Below(x)) # n - 1 PROVE FALSE
    OBVIOUS
  <2>1. IsFiniteSet(0 .. c - 1) /\ Cardinality(0 .. c - 1) = c
    <3> HIDE DEF c
    <3>1. 0 \in Int /\ c - 1 \in Int
      BY <1>1
    <3>2. IsFiniteSet(0 .. c - 1) /\ Cardinality(0 .. c - 1) = IF 0 > c - 1 THEN 0 ELSE c - 1 - 0 + 1
      BY <3>1, FS_Interval
    <3>3. c = 0 \/ ~(0 > c - 1)
      BY <1>1
    <3> QED
      BY <1>1, <3>2, <3>3
  <2>2. IsFiniteSet(others) /\ Cardinality(others) < Cardinality(S)
    <3>1. n - 1 \in 0 .. c - 1
      BY <1>1
    <3>2. IsFiniteSet(others) /\ Cardinality(others) = c - 1
      <4> PICK all : all = 0 .. c - 1
        OBVIOUS
      <4> PICK m : m = n - 1
        OBVIOUS
      <4>1. IsFiniteSet(all) /\ Cardinality(all) = c /\ m \in all /\ others = all \ {m}
        BY <2>1, <3>1
      <4>2. IsFiniteSet(all \ {m}) /\ Cardinality(all \ {m}) = Cardinality(all) - 1
        BY <4>1, OneLess
      <4> HIDE DEF others, c
      <4> QED
        BY <1>1, <4>1, <4>2
    <3> HIDE DEF others
    <3> QED
      BY <1>1, <3>2
  <2>3. f \in [S -> others]
    BY <1>2
  <2>4. \E x, y \in S : x # y /\ f[x] = f[y]
    <3> HIDE DEF f, others
    <3> QED
      BY <2>2, <2>3, FS_PigeonHole
  <2> QED
    BY <1>3, <2>4
<1> QED
  BY <1>4 DEF NthOf

\* The last buzzer with an id, or 0, is where the id is.
LEMMA IndexOfId ==
  ASSUME NEW there, Apart(there), NEW b, NEW i \in 1 .. Len(there)
  PROVE  Max({0} \cup {j \in DOMAIN there : there[j].id = b}) = i <=> there[i].id = b
<1> DEFINE S == {j \in DOMAIN there : there[j].id = b}
<1>1. DOMAIN there = 1 .. Len(there) /\ Len(there) \in Nat
  BY LenProperties DEF Apart
<1>2. ASSUME NEW j \in Nat PROVE Max({0} \cup {j}) = j
  <2>1. \A x \in {0} \cup {j} : (\A y \in {0} \cup {j} : x >= y) <=> x = j
    OBVIOUS
  <2>2. j \in {0} \cup {j}
    OBVIOUS
  <2> QED
    BY <2>1, <2>2 DEF Max
<1>3. ASSUME NEW j \in 1 .. Len(there), there[j].id = b PROVE Max({0} \cup S) = j
  <2>1. S = {j}
    BY <1>1, <1>3 DEF Apart
  <2> HIDE DEF S
  <2>2. j \in Nat
    BY <1>1
  <2> QED
    BY <1>2, <2>1, <2>2
<1>4. CASE there[i].id = b
  BY <1>3, <1>4
<1>5. CASE \E j \in 1 .. Len(there) : there[j].id = b /\ there[i].id # b
  BY <1>3, <1>5
<1>6. CASE \A j \in 1 .. Len(there) : there[j].id # b
  <2>1. {0} \cup S = {0} \cup {0}
    BY <1>1, <1>6
  <2>2. Max({0} \cup S) = 0
    BY <1>2, <2>1
  <2>3. 0 # i /\ there[i].id # b
    BY <1>1, <1>6
  <2> QED
    BY <2>2, <2>3, Zenon
<1> QED
  BY <1>4, <1>5, <1>6

\* A team plays on the buzzer that is its own now.
LEMMA PlaysOnItsOwn ==
  ASSUME NEW there, Apart(there), NEW team, NEW i \in 1 .. Len(there)
  PROVE  PlaysOn(team, there) /\ IndexOf(team, there) = i <=> IsOn(team, there[i].id, i)
<1>1. DOMAIN there = 1 .. Len(there)
  BY LenProperties DEF Apart
<1>2. CASE getType(team.buzzerId) = "serial"
  <2>1. IndexOf(team, there) = team.buzzerIndex
    BY <1>2 DEF IndexOf
  <2>2. IsOn(team, there[i].id, i) <=> getType(there[i].id) = getType(team.buzzerId) /\ i = team.buzzerIndex
    BY <1>2 DEF IsOn, getType
  <2> QED
    BY <1>1, <2>1, <2>2 DEF PlaysOn
<1>3. CASE getType(team.buzzerId) # "serial"
  <2>1. IndexOf(team, there) = i <=> there[i].id = team.buzzerId
    BY <1>3, IndexOfId DEF IndexOf
  <2>2. IsOn(team, there[i].id, i) <=> there[i].id = team.buzzerId
    BY <1>3 DEF IsOn, getType
  <2> QED
    BY <1>1, <2>1, <2>2 DEF PlaysOn
<1> QED
  BY <1>2, <1>3

----------------------------------------------------------------------------
(* Every step keeps the invariant. *)

\* A row that is kept, given its team or its default name, is still the row of its buzzer.
SameRow(r, row) == IsRow(r) /\ r.id = row.id /\ r.buzzerIndex = row.buzzerIndex

LEMMA RowStays ==
  ASSUME NEW row, NEW type, NEW there, RowFits(row, type, there), NEW r, SameRow(r, row)
  PROVE  RowFits(r, type, there)
BY DEF RowFits, SameRow

LEMMA FieldChanges ==
  ASSUME NEW row, IsRow(row), NEW x
  PROVE  /\ SameRow([row EXCEPT !.team = x], row)
         /\ SameRow([row EXCEPT !.name = x], row)
         /\ SameRow([row EXCEPT !.active = x], row)
         /\ SameRow([row EXCEPT !.dirty = x], row)
         /\ SameRow([row EXCEPT !.defaultName = x], row)
<1>1. SameRow([row EXCEPT !.team = x], row)
  <2> PICK r : r = [row EXCEPT !.team = x]
    OBVIOUS
  <2>1. r = [id |-> row.id, buzzerIndex |-> row.buzzerIndex, team |-> x,
             name |-> row.name, active |-> row.active, dirty |-> row.dirty,
             defaultName |-> row.defaultName]
    BY DEF IsRow
  <2>2. SameRow(r, row)
    BY <2>1 DEF SameRow, IsRow
  <2> QED
    BY <2>2
<1>2. SameRow([row EXCEPT !.name = x], row)
  <2> PICK r : r = [row EXCEPT !.name = x]
    OBVIOUS
  <2>1. r = [id |-> row.id, buzzerIndex |-> row.buzzerIndex, team |-> row.team,
             name |-> x, active |-> row.active, dirty |-> row.dirty,
             defaultName |-> row.defaultName]
    BY DEF IsRow
  <2>2. SameRow(r, row)
    BY <2>1 DEF SameRow, IsRow
  <2> QED
    BY <2>2
<1>3. SameRow([row EXCEPT !.active = x], row)
  <2> PICK r : r = [row EXCEPT !.active = x]
    OBVIOUS
  <2>1. r = [id |-> row.id, buzzerIndex |-> row.buzzerIndex, team |-> row.team,
             name |-> row.name, active |-> x, dirty |-> row.dirty,
             defaultName |-> row.defaultName]
    BY DEF IsRow
  <2>2. SameRow(r, row)
    BY <2>1 DEF SameRow, IsRow
  <2> QED
    BY <2>2
<1>4. SameRow([row EXCEPT !.dirty = x], row)
  <2> PICK r : r = [row EXCEPT !.dirty = x]
    OBVIOUS
  <2>1. r = [id |-> row.id, buzzerIndex |-> row.buzzerIndex, team |-> row.team,
             name |-> row.name, active |-> row.active, dirty |-> x,
             defaultName |-> row.defaultName]
    BY DEF IsRow
  <2>2. SameRow(r, row)
    BY <2>1 DEF SameRow, IsRow
  <2> QED
    BY <2>2
<1>5. SameRow([row EXCEPT !.defaultName = x], row)
  <2> PICK r : r = [row EXCEPT !.defaultName = x]
    OBVIOUS
  <2>1. r = [id |-> row.id, buzzerIndex |-> row.buzzerIndex, team |-> row.team,
             name |-> row.name, active |-> row.active, dirty |-> row.dirty,
             defaultName |-> x]
    BY DEF IsRow
  <2>2. SameRow(r, row)
    BY <2>1 DEF SameRow, IsRow
  <2> QED
    BY <2>2
<1> QED
  BY <1>1, <1>2, <1>3, <1>4, <1>5

LEMMA RowChanges ==
  ASSUME NEW row, IsRow(row), NEW x, NEW y, NEW z
  PROVE  /\ SameRow([row EXCEPT !.team = x, !.name = y, !.active = z], row)
         /\ SameRow([row EXCEPT !.defaultName = x, !.name = y], row)
         /\ SameRow([row EXCEPT !.name = x, !.dirty = y], row)
         /\ SameRow([row EXCEPT !.active = x, !.dirty = y], row)
<1>0. ASSUME NEW p, NEW q, NEW r, SameRow(q, p), SameRow(r, q) PROVE SameRow(r, p)
  BY <1>0 DEF SameRow
<1>1. ASSUME NEW q, SameRow(q, row), NEW v
      PROVE  /\ SameRow([q EXCEPT !.name = v], row) /\ SameRow([q EXCEPT !.dirty = v], row)
             /\ SameRow([q EXCEPT !.active = v], row)
  <2>1. IsRow(q)
    BY <1>1 DEF SameRow
  <2>2. SameRow([q EXCEPT !.name = v], q) /\ SameRow([q EXCEPT !.dirty = v], q) /\ SameRow([q EXCEPT !.active = v], q)
    BY <2>1, FieldChanges
  <2> QED
    BY <1>0, <1>1, <2>2
<1>2. SameRow([row EXCEPT !.team = x, !.name = y, !.active = z], row)
  <2> PICK p : p = [row EXCEPT !.team = x]
    OBVIOUS
  <2> PICK q : q = [p EXCEPT !.name = y]
    OBVIOUS
  <2>1. SameRow(p, row)
    BY FieldChanges
  <2>2. SameRow(q, row)
    BY <1>1, <2>1
  <2>3. SameRow([q EXCEPT !.active = z], row)
    BY <1>1, <2>2
  <2> QED
    BY <2>3
<1>3. SameRow([row EXCEPT !.defaultName = x, !.name = y], row)
  <2> PICK p : p = [row EXCEPT !.defaultName = x]
    OBVIOUS
  <2>1. SameRow(p, row)
    BY FieldChanges
  <2>2. SameRow([p EXCEPT !.name = y], row)
    BY <1>1, <2>1
  <2> QED
    BY <2>2
<1>4. SameRow([row EXCEPT !.name = x, !.dirty = y], row)
  <2> PICK p : p = [row EXCEPT !.name = x]
    OBVIOUS
  <2>1. SameRow(p, row)
    BY FieldChanges
  <2>2. SameRow([p EXCEPT !.dirty = y], row)
    BY <1>1, <2>1
  <2> QED
    BY <2>2
<1>5. SameRow([row EXCEPT !.active = x, !.dirty = y], row)
  <2> PICK p : p = [row EXCEPT !.active = x]
    OBVIOUS
  <2>1. SameRow(p, row)
    BY FieldChanges
  <2>2. SameRow([p EXCEPT !.dirty = y], row)
    BY <1>1, <2>1
  <2> QED
    BY <2>2
<1> QED
  BY <1>2, <1>3, <1>4, <1>5

LEMMA RowsFit ==
  ASSUME NEW there, Apart(there), NEW type, NEW kept, \A k \in DOMAIN kept : RowFits(kept[k], type, there),
         NEW k \in DOMAIN RowsOf(type, kept, there)
  PROVE  RowFits(RowsOf(type, kept, there)[k], type, there)
<1> PICK those : those = OfType(type, there)
  OBVIOUS
<1>1. Len(there) \in Nat /\ DOMAIN there = 1 .. Len(there)
  BY LenProperties DEF Apart
<1>2. those \in SUBSET (1 .. Len(there)) /\ \A i \in those : getType(there[i].id) = type
  BY <1>1 DEF OfType
<1>3. IsFiniteSet(those) /\ those \in SUBSET Nat
  <2>1. IsFiniteSet(1 .. Len(there))
    BY <1>1, FS_Interval
  <2>2. 1 .. Len(there) \subseteq Nat
    BY <1>1
  <2> QED
    BY <1>2, <2>1, <2>2, FS_Subset
<1>4. /\ k \in 1 .. Cardinality(those)
      /\ RowsOf(type, kept, there)[k]
           = IF k \in DOMAIN kept THEN KeptRow(kept[k], there) ELSE NewRow(k, NthOf(k, those), there)
  BY DEF RowsOf
<1>5. CASE k \in DOMAIN kept
  <2> PICK row : row = kept[k]
    OBVIOUS
  <2>1. RowFits(row, type, there) /\ IsRow(row)
    BY <1>5 DEF RowFits
  <2> PICK team : team = TeamOn(row.buzzerIndex, there)
    OBVIOUS
  <2>2. KeptRow(row, there) \in {[row EXCEPT !.team = team, !.name = team.name, !.active = TRUE], [row EXCEPT !.team = team]}
    BY DEF KeptRow
  <2>3. SameRow(KeptRow(row, there), row)
    <3>1. SameRow([row EXCEPT !.team = team], row)
      BY <2>1, FieldChanges
    <3> PICK name : name = team.name
      OBVIOUS
    <3>2. SameRow([row EXCEPT !.team = team, !.name = name, !.active = TRUE], row)
      BY <2>1, RowChanges
    <3> QED
      BY <2>2, <3>1, <3>2
  <2>4. RowFits(KeptRow(row, there), type, there)
    BY <2>1, <2>3, RowStays
  <2> QED
    BY <1>4, <1>5, <2>4
<1>6. CASE k \notin DOMAIN kept
  <2> PICK i : i = NthOf(k, those)
    OBVIOUS
  <2>1. i \in those
    BY <1>3, <1>4, NthIsOne
  <2>2. i \in 1 .. Len(there) /\ getType(there[i].id) = type
    BY <1>2, <2>1
  <2>3. /\ IsRow(NewRow(k, i, there))
        /\ NewRow(k, i, there).id = there[i].id /\ NewRow(k, i, there).buzzerIndex = i
    BY DEF NewRow, IsRow
  <2>4. RowFits(NewRow(k, i, there), type, there)
    BY <2>2, <2>3 DEF RowFits
  <2> QED
    BY <1>4, <1>6, <2>4
<1> QED
  BY <1>5, <1>6

LEMMA NamedRowsFit ==
  ASSUME NEW there, NEW type, NEW shown, \A k \in DOMAIN shown : RowFits(shown[k], type, there)
  PROVE  LET named == updateDefaultNames(shown, there)
         IN  \A k \in DOMAIN named : RowFits(named[k], type, there)
<1> PICK named : named = updateDefaultNames(shown, there)
  OBVIOUS
<1>1. ASSUME NEW row, RowFits(row, type, there), NEW name PROVE RowFits(Named(row, name), type, there)
  <2>1. IsRow(row)
    BY <1>1 DEF RowFits
  <2> PICK own : own = IF FollowsDefault(row) THEN name ELSE row.name
    OBVIOUS
  <2>2. SameRow([row EXCEPT !.defaultName = name, !.name = own], row)
    BY <2>1, RowChanges
  <2>3. Named(row, name) = IF row.team # Nobody THEN row ELSE [row EXCEPT !.defaultName = name, !.name = own]
    BY <2>1 DEF Named, IsRow
  <2>4. RowFits([row EXCEPT !.defaultName = name, !.name = own], type, there)
    BY <1>1, <2>2, RowStays
  <2> QED
    BY <1>1, <2>3, <2>4
<1>2. ASSUME NEW k \in DOMAIN named PROVE RowFits(named[k], type, there)
  <2>1. k \in DOMAIN shown /\ \E name : named[k] = Named(shown[k], name)
    BY DEF updateDefaultNames
  <2> QED
    BY <1>1, <2>1
<1> QED
  BY <1>2

LEMMA ShowRowsFit ==
  ASSUME NEW there, Apart(there), NEW type, NEW kept, \A k \in DOMAIN kept : RowFits(kept[k], type, there),
         ShowRows(type, kept, there)
  PROVE  \A k \in DOMAIN rows' : RowFits(rows'[k], buzzerType', there)
<1> PICK shown : shown = RowsOf(type, kept, there)
  OBVIOUS
<1>1. \A k \in DOMAIN shown : RowFits(shown[k], type, there)
  BY RowsFit
<1>2. buzzerType' = type /\ rows' = updateDefaultNames(shown, there)
  BY DEF ShowRows
<1> QED
  BY <1>1, <1>2, NamedRowsFit

\* Rows are kept only while the buzzers of all of them are where they were.
LEMMA UpdateFits ==
  ASSUME PrepareInv, NEW there, Apart(there), updateTeams(there)
  PROVE  \A k \in DOMAIN rows' : RowFits(rows'[k], buzzerType', there)
<1>1. \A k \in DOMAIN <<>> : RowFits(<<>>[k], "udp", there) /\ RowFits(<<>>[k], buzzerType, there)
  OBVIOUS
<1>2. CASE Switches(there)
  <2>1. ShowRows("udp", <<>>, there)
    BY <1>2 DEF updateTeams
  <2> QED
    BY <1>1, <2>1, ShowRowsFit
<1>3. CASE ~Switches(there) /\ Renewed(there)
  <2>1. ShowRows(buzzerType, <<>>, there)
    BY <1>3 DEF updateTeams
  <2> QED
    BY <1>1, <2>1, ShowRowsFit
<1>4. CASE ~Switches(there) /\ ~Renewed(there)
  <2>1. ShowRows(buzzerType, rows, there)
    BY <1>4 DEF updateTeams
  <2>2. DOMAIN there = 1 .. Len(there)
    BY LenProperties DEF Apart
  <2>3. \A k \in DOMAIN rows : rows[k].buzzerIndex \in 1 .. Len(there) /\ there[rows[k].buzzerIndex].id = rows[k].id
    BY <1>4, <2>2 DEF Renewed
  <2>4. \A k \in DOMAIN rows : RowFits(rows[k], buzzerType, there)
    BY <2>3 DEF PrepareInv, RowFits
  <2> QED
    BY <2>1, <2>4, ShowRowsFit
<1> QED
  BY <1>2, <1>3, <1>4

LEMMA BoxApart ==
  ASSUME NEW n \in Nat
  PROVE  /\ Apart(BoxOf(n)) /\ Len(BoxOf(n)) = BoxBuzzers
         /\ \A i \in 1 .. Len(BoxOf(n)) : BoxOf(n)[i].id \notin Wireless
<1>1. \A i \in 1 .. BoxBuzzers : /\ BoxOf(n)[i] = [id |-> <<n, i>>, online |-> TRUE, color |-> Nobody]
                                 /\ <<n, i>> \in Nat \X Nat
  BY PrepareAssumption DEF BoxOf, BoxId
<1>2. ASSUME NEW i \in 1 .. BoxBuzzers PROVE BoxOf(n)[i] \in Buzzer
  <2> PICK id : id = <<n, i>>
    OBVIOUS
  <2>1. id \in BuzzerIds /\ BoxOf(n)[i] = [id |-> id, online |-> TRUE, color |-> Nobody]
    BY <1>1 DEF BuzzerIds
  <2> QED
    BY <2>1 DEF Buzzer
<1>3. BoxOf(n) \in [1 .. BoxBuzzers -> Buzzer]
  BY <1>2 DEF BoxOf
<1>4. BoxOf(n) \in Seq(Buzzer) /\ Len(BoxOf(n)) = BoxBuzzers
  BY <1>3, FunctionIsSeq, PrepareAssumption
<1>5. ASSUME NEW i \in 1 .. BoxBuzzers PROVE BoxOf(n)[i].id = <<n, i>>
  <2> PICK id : id = <<n, i>>
    OBVIOUS
  <2>1. BoxOf(n)[i] = [id |-> id, online |-> TRUE, color |-> Nobody]
    BY <1>1
  <2> QED
    BY <2>1
<1>6. ASSUME NEW i \in 1 .. BoxBuzzers, NEW j \in 1 .. BoxBuzzers, BoxOf(n)[i].id = BoxOf(n)[j].id PROVE i = j
  <2>1. <<n, i>> = <<n, j>>
    BY <1>5, <1>6
  <2> QED
    BY <2>1
<1>7. ASSUME NEW i \in 1 .. BoxBuzzers PROVE BoxOf(n)[i].id \notin Wireless
  BY <1>1, <1>5, PrepareAssumption
<1> QED
  BY <1>4, <1>6, <1>7 DEF Apart

LEMMA ToldIs ==
  ASSUME NEW b \in BuzzerIds, NEW told \in Told(b)
  PROVE  told \in Buzzer /\ told.id = b
BY DEF Told, Buzzer

LEMMA FoundApart ==
  ASSUME NEW there, Apart(there), NEW b \in Wireless, \A i \in 1 .. Len(there) : there[i].id # b, NEW told \in Told(b)
  PROVE  Apart(Append(there, told))
<1> PICK more : more = Append(there, told)
  OBVIOUS
<1>1. told \in Buzzer /\ told.id = b
  BY ToldIs DEF BuzzerIds
<1>2. Len(there) \in Nat /\ there \in Seq(Buzzer)
  BY LenProperties DEF Apart
<1>3. /\ more \in Seq(Buzzer) /\ Len(more) = Len(there) + 1
      /\ \A i \in 1 .. Len(there) : more[i] = there[i]
      /\ more[Len(there) + 1] = told
  BY <1>1, <1>2, AppendProperties
<1>4. ASSUME NEW i \in 1 .. Len(more), NEW j \in 1 .. Len(more), more[i].id = more[j].id PROVE i = j
  <2>1. i \in 1 .. Len(there) \/ i = Len(there) + 1
    BY <1>2, <1>3
  <2>2. j \in 1 .. Len(there) \/ j = Len(there) + 1
    BY <1>2, <1>3
  <2> QED
    BY <1>1, <1>3, <1>4, <2>1, <2>2 DEF Apart
<1> QED
  BY <1>3, <1>4 DEF Apart

LEMMA TellsApart ==
  ASSUME NEW there, Apart(there), NEW i \in 1 .. Len(there), NEW told \in Told(there[i].id)
  PROVE  Apart([there EXCEPT ![i] = told])
<1> PICK now : now = [there EXCEPT ![i] = told]
  OBVIOUS
<1>1. there[i].id \in BuzzerIds
  <2>1. there[i] \in Buzzer
    BY ElementOfSeq DEF Apart
  <2> QED
    BY <2>1 DEF Buzzer
<1>2. told \in Buzzer /\ told.id = there[i].id
  BY <1>1, ToldIs
<1>3. now \in Seq(Buzzer) /\ Len(now) = Len(there) /\ \A j \in 1 .. Len(there) : now[j] = IF j = i THEN told ELSE there[j]
  BY <1>2, ExceptSeq DEF Apart
<1>4. \A j \in 1 .. Len(there) : now[j].id = there[j].id
  BY <1>2, <1>3
<1>5. Apart(now)
  BY <1>3, <1>4 DEF Apart
<1> QED
  BY <1>5

\* The box has new ids, and each buzzer that was found is there once.
LEMMA RestartApart ==
  ASSUME PrepareInv, NEW n \in Nat, NEW first \in SUBSET Found, NEW again \in SetToSeqs(first)
  PROVE  Apart(BoxOf(n) \o [k \in DOMAIN again |-> buzzers[again[k]]])
<1> PICK box : box = BoxOf(n)
  OBVIOUS
<1> PICK found : found = [k \in DOMAIN again |-> buzzers[again[k]]]
  OBVIOUS
<1> PICK all : all = box \o found
  OBVIOUS
<1> PICK m : m = Cardinality(first)
  OBVIOUS
<1>1. Len(buzzers) \in Nat /\ DOMAIN buzzers = 1 .. Len(buzzers) /\ buzzers \in [1 .. Len(buzzers) -> Buzzer]
  BY LenProperties DEF PrepareInv, Apart
<1>2. \A i \in first : i \in 1 .. Len(buzzers) /\ buzzers[i].id \in Wireless
  BY <1>1 DEF Found
<1>3. m \in Nat
  <2>1. IsFiniteSet(1 .. Len(buzzers))
    BY <1>1, FS_Interval
  <2>2. IsFiniteSet(first)
    BY <1>2, <2>1, FS_Subset
  <2> QED
    BY <2>2, FS_CardinalityType
<1>4. again \in [1 .. m -> first] /\ \A i, j \in 1 .. m : i # j => again[i] # again[j]
  BY DEF SetToSeqs
<1>5. \A k \in 1 .. m : found[k] = buzzers[again[k]] /\ found[k] \in Buzzer /\ found[k].id \in Wireless
  BY <1>1, <1>2, <1>4
<1>6. found \in [1 .. m -> Buzzer]
  BY <1>4, <1>5
<1>7. found \in Seq(Buzzer) /\ Len(found) = m
  BY <1>3, <1>6, FunctionIsSeq
<1>8. ASSUME NEW i \in 1 .. m, NEW j \in 1 .. m, found[i].id = found[j].id PROVE i = j
  <2>1. again[i] \in 1 .. Len(buzzers) /\ again[j] \in 1 .. Len(buzzers)
    BY <1>2, <1>4
  <2>2. buzzers[again[i]].id = buzzers[again[j]].id
    BY <1>5, <1>8
  <2>3. again[i] = again[j]
    BY <2>1, <2>2 DEF PrepareInv, Apart
  <2> QED
    BY <1>4, <2>3
<1>9. Apart(box) /\ Len(box) \in Nat /\ \A i \in 1 .. Len(box) : box[i].id \notin Wireless
  BY BoxApart, PrepareAssumption
<1>10. /\ all \in Seq(Buzzer) /\ Len(all) = Len(box) + m
       /\ \A i \in 1 .. Len(box) + m : all[i] = IF i <= Len(box) THEN box[i] ELSE found[i - Len(box)]
  BY <1>7, <1>9, ConcatProperties DEF Apart
<1>11. ASSUME NEW i \in 1 .. Len(all), NEW j \in 1 .. Len(all), all[i].id = all[j].id PROVE i = j
  <2>1. ASSUME NEW k \in 1 .. Len(all)
        PROVE  \/ k \in 1 .. Len(box) /\ all[k] = box[k] /\ all[k].id \notin Wireless
               \/ k - Len(box) \in 1 .. m /\ all[k] = found[k - Len(box)] /\ all[k].id \in Wireless
    <3>1. CASE k <= Len(box)
      <4>1. k \in 1 .. Len(box)
        BY <1>9, <1>10, <3>1
      <4> QED
        BY <1>3, <1>9, <1>10, <3>1, <4>1
    <3>2. CASE ~(k <= Len(box))
      <4>1. k - Len(box) \in 1 .. m
        BY <1>3, <1>9, <1>10, <3>2
      <4> QED
        BY <1>5, <1>10, <3>2, <4>1
    <3> QED
      BY <3>1, <3>2
  <2>2. CASE i \in 1 .. Len(box) /\ all[i] = box[i] /\ all[i].id \notin Wireless
    <3>1. j \in 1 .. Len(box) /\ all[j] = box[j]
      BY <1>11, <2>1, <2>2
    <3> QED
      BY <1>9, <1>11, <2>2, <3>1 DEF Apart
  <2>3. CASE i - Len(box) \in 1 .. m /\ all[i] = found[i - Len(box)] /\ all[i].id \in Wireless
    <3>1. j - Len(box) \in 1 .. m /\ all[j] = found[j - Len(box)]
      BY <1>11, <2>1, <2>3
    <3>2. found[i - Len(box)].id = found[j - Len(box)].id
      BY <1>11, <2>3, <3>1
    <3>3. i - Len(box) = j - Len(box)
      BY <1>8, <2>3, <3>1, <3>2
    <3>4. i \in Int /\ j \in Int
      OBVIOUS
    <3> QED
      BY <1>9, <3>3, <3>4
  <2> QED
    BY <2>1, <2>2, <2>3
<1>12. Apart(all)
  BY <1>10, <1>11 DEF Apart
<1> QED
  BY <1>12

\* The teams that are sent are on buzzers of one kind, and those that were marked are by the ids of now.
LEMMA SentMarks ==
  ASSUME PrepareInv, setupStoredGame, game' = game
  PROVE  MarksFollowTeams'
<1> DEFINE teams == {Team(rows[k]) : k \in Active}
           own == {t \in Range(game.teams) : t.buzzerId \in game.marked /\ PlaysOn(t, buzzers)}
<1> PICK sends : sends = [teams |-> teams, marked |-> mapMarks(buzzers) \cap {t.buzzerId : t \in teams}, buzzers |-> buzzers]
  OBVIOUS
<1>1. sent' = sends /\ sends.teams = teams /\ sends.marked = mapMarks(buzzers) \cap {t.buzzerId : t \in teams}
  BY DEF setupStoredGame
<1>2. Apart(buzzers) /\ DOMAIN buzzers = 1 .. Len(buzzers)
  BY LenProperties DEF PrepareInv, Apart
<1>3. ASSUME NEW t \in teams
      PROVE  /\ t.buzzerIndex \in 1 .. Len(buzzers) /\ buzzers[t.buzzerIndex].id = t.buzzerId
             /\ getType(t.buzzerId) = buzzerType
  <2>1. PICK k \in Active : t = Team(rows[k])
    OBVIOUS
  <2>2. k \in DOMAIN rows /\ t.buzzerId = rows[k].id /\ t.buzzerIndex = rows[k].buzzerIndex
    BY <2>1 DEF Active, Team
  <2>3. RowFits(rows[k], buzzerType, buzzers)
    BY <2>2 DEF PrepareInv
  <2> QED
    BY <2>2, <2>3 DEF RowFits
<1>4. Cardinality({getType(t.buzzerId) : t \in teams}) <= 1
  <2> DEFINE types == {getType(t.buzzerId) : t \in teams}
  <2>1. types \in SUBSET {buzzerType}
    BY <1>3
  <2>2. IsFiniteSet({buzzerType}) /\ Cardinality({buzzerType}) = 1
    BY FS_Singleton
  <2> HIDE DEF types
  <2>3. Cardinality(types) <= 1
    BY <2>1, <2>2, FS_Subset
  <2> QED
    BY <2>3 DEF types
<1>5. ASSUME NEW t \in teams, NEW team
      PROVE  PlaysOn(team, buzzers) /\ buzzers[IndexOf(team, buzzers)].id = t.buzzerId
             <=> IsOn(team, t.buzzerId, t.buzzerIndex)
  <2> PICK i : i = t.buzzerIndex
    OBVIOUS
  <2> PICK at : at = IndexOf(team, buzzers)
    OBVIOUS
  <2>1. i \in 1 .. Len(buzzers) /\ buzzers[i].id = t.buzzerId
    BY <1>3
  <2>2. PlaysOn(team, buzzers) => at \in 1 .. Len(buzzers)
    BY <1>2 DEF PlaysOn
  <2>3. at \in 1 .. Len(buzzers) => (buzzers[at].id = t.buzzerId <=> at = i)
    BY <1>2, <2>1 DEF Apart
  <2>4. PlaysOn(team, buzzers) /\ at = i <=> IsOn(team, buzzers[i].id, i)
    BY <1>2, <2>1, PlaysOnItsOwn
  <2>5. PlaysOn(team, buzzers) /\ buzzers[at].id = t.buzzerId <=> PlaysOn(team, buzzers) /\ at = i
    BY <2>2, <2>3
  <2> QED
    BY <2>1, <2>4, <2>5
<1>6. ASSUME NEW t \in teams
      PROVE  t.buzzerId \in sends.marked <=>
               \E team \in Range(game.teams) : team.buzzerId \in game.marked /\ IsOn(team, t.buzzerId, t.buzzerIndex)
  <2>1. t.buzzerId \in sends.marked <=> t.buzzerId \in mapMarks(buzzers)
    BY <1>1
  <2>2. t.buzzerId \in mapMarks(buzzers) <=> \E team \in own : buzzers[IndexOf(team, buzzers)].id = t.buzzerId
    BY DEF mapMarks
  <2>3. (\E team \in own : buzzers[IndexOf(team, buzzers)].id = t.buzzerId)
        <=> \E team \in Range(game.teams) : team.buzzerId \in game.marked /\ IsOn(team, t.buzzerId, t.buzzerIndex)
    BY <1>5
  <2> QED
    BY <2>1, <2>2, <2>3
<1> HIDE DEF teams, own
<1> QED
  BY <1>1, <1>4, <1>6 DEF MarksFollowTeams

LEMMA BuzzersChange ==
  ASSUME PrepareInv, NEW there, Apart(there), setAvailableBuzzers(there), restarts' \in Nat
  PROVE  PrepareInv'
<1>1. buzzers' = there /\ game' = game /\ sent' = sent /\ updateTeams(there)
  BY DEF setAvailableBuzzers
<1>2. \A k \in DOMAIN rows' : RowFits(rows'[k], buzzerType', there)
  BY <1>1, UpdateFits
<1>3. MarksFollowTeams'
  BY <1>1 DEF PrepareInv, MarksFollowTeams
<1>4. Apart(buzzers)'
  BY <1>1 DEF Apart
<1>5. \A k \in DOMAIN rows' : RowFits(rows[k], buzzerType, buzzers)'
  BY <1>1, <1>2 DEF RowFits, IsRow
<1> QED
  BY <1>3, <1>4, <1>5 DEF PrepareInv

LEMMA BuzzersGo ==
  ASSUME PrepareInv, Buzzers
  PROVE  PrepareInv'
<1>1. Apart(buzzers) /\ DOMAIN buzzers = 1 .. Len(buzzers) /\ restarts \in Nat
  BY LenProperties DEF PrepareInv, Apart
<1>2. ASSUME NEW b \in Wireless, BuzzerFound(b) PROVE PrepareInv'
  <2>1. PICK told \in Told(b) : setAvailableBuzzers(Append(buzzers, told)) /\ UNCHANGED restarts
    BY <1>2 DEF BuzzerFound
  <2>2. \A i \in 1 .. Len(buzzers) : buzzers[i].id # b
    BY <1>1, <1>2 DEF BuzzerFound, Found
  <2>3. Apart(Append(buzzers, told))
    BY <1>1, <2>2, FoundApart
  <2> QED
    BY <1>1, <2>1, <2>3, BuzzersChange
<1>3. ASSUME NEW i \in Found, BuzzerTells(i) PROVE PrepareInv'
  <2>1. PICK told \in Told(buzzers[i].id) : setAvailableBuzzers([buzzers EXCEPT ![i] = told]) /\ UNCHANGED restarts
    BY <1>3 DEF BuzzerTells
  <2>2. i \in 1 .. Len(buzzers)
    BY <1>1 DEF Found
  <2>3. Apart([buzzers EXCEPT ![i] = told])
    BY <1>1, <2>2, TellsApart
  <2> QED
    BY <1>1, <2>1, <2>3, BuzzersChange
<1>4. CASE ServerRestarts
  <2>1. restarts' \in Nat
    BY <1>1, <1>4 DEF ServerRestarts
  <2>2. PICK first \in SUBSET Found : \E again \in SetToSeqs(first) :
          setAvailableBuzzers(BoxOf(restarts') \o [k \in DOMAIN again |-> buzzers[again[k]]])
    BY <1>4 DEF ServerRestarts
  <2>3. PICK again \in SetToSeqs(first) :
          setAvailableBuzzers(BoxOf(restarts') \o [k \in DOMAIN again |-> buzzers[again[k]]])
    BY <2>2
  <2>4. Apart(BoxOf(restarts') \o [k \in DOMAIN again |-> buzzers[again[k]]])
    BY <2>1, RestartApart
  <2> QED
    BY <2>1, <2>3, <2>4, BuzzersChange
<1> QED
  BY <1>2, <1>3, <1>4 DEF Buzzers

LEMMA SameBuzzers ==
  ASSUME PrepareInv, buzzers' = buzzers, restarts' = restarts, game' = game,
         \A k \in DOMAIN rows' : RowFits(rows'[k], buzzerType', buzzers),
         sent' = sent \/ setupStoredGame
  PROVE  PrepareInv'
<1>1. MarksFollowTeams'
  <2>1. CASE sent' = sent
    BY <2>1 DEF PrepareInv, MarksFollowTeams
  <2> QED
    BY <2>1, SentMarks
<1>2. Apart(buzzers)' /\ restarts' \in Nat
  BY DEF PrepareInv, Apart
<1>3. \A k \in DOMAIN rows' : RowFits(rows[k], buzzerType, buzzers)'
  BY DEF RowFits, IsRow
<1> QED
  BY <1>1, <1>2, <1>3 DEF PrepareInv

LEMMA MasterGoes ==
  ASSUME PrepareInv, Master
  PROVE  PrepareInv'
<1>1. \A k \in DOMAIN rows : RowFits(rows[k], buzzerType, buzzers) /\ IsRow(rows[k])
  BY DEF PrepareInv, RowFits
<1>2. ByHand => buzzers' = buzzers /\ restarts' = restarts /\ game' = game /\ sent' = sent
  BY DEF ByHand
<1>3. ASSUME NEW type, chooseBuzzerType(type) PROVE PrepareInv'
  <2>1. CASE type = buzzerType
    BY <1>1, <1>2, <1>3, <2>1, SameBuzzers DEF chooseBuzzerType
  <2>2. CASE type # buzzerType
    <3>1. ShowRows(type, <<>>, buzzers) /\ ByHand
      BY <1>3, <2>2 DEF chooseBuzzerType
    <3>2. Apart(buzzers) /\ \A k \in DOMAIN <<>> : RowFits(<<>>[k], type, buzzers)
      BY DEF PrepareInv
    <3>3. \A k \in DOMAIN rows' : RowFits(rows'[k], buzzerType', buzzers)
      BY <3>1, <3>2, ShowRowsFit
    <3> QED
      BY <1>2, <3>1, <3>3, SameBuzzers
  <2> QED
    BY <2>1, <2>2
<1>4. ASSUME NEW k \in DOMAIN rows, NEW r, SameRow(r, rows[k]), rows' = [rows EXCEPT ![k] = r], ByHand, buzzerType' = buzzerType
      PROVE  PrepareInv'
  <2>1. RowFits(r, buzzerType, buzzers)
    BY <1>1, <1>4, RowStays
  <2>2. \A j \in DOMAIN rows' : RowFits(rows'[j], buzzerType', buzzers)
    BY <1>1, <1>4, <2>1
  <2> QED
    BY <1>2, <1>4, <2>2, SameBuzzers
<1>5. ASSUME NEW k \in DOMAIN rows, EnterName(k) PROVE PrepareInv'
  <2> PICK r : r = [rows[k] EXCEPT !.name = HandName, !.dirty = TRUE]
    OBVIOUS
  <2>1. SameRow([rows[k] EXCEPT !.name = HandName, !.dirty = TRUE], rows[k])
    BY <1>1, RowChanges
  <2>2. rows' = [rows EXCEPT ![k] = r] /\ ByHand /\ buzzerType' = buzzerType
    BY <1>5 DEF EnterName
  <2> QED
    BY <1>4, <2>1, <2>2
<1>6. ASSUME NEW k \in DOMAIN rows, setActive(k) PROVE PrepareInv'
  <2> PICK a : a = ~rows[k].active
    OBVIOUS
  <2> PICK r : r = [rows[k] EXCEPT !.active = a, !.dirty = TRUE]
    OBVIOUS
  <2>1. SameRow([rows[k] EXCEPT !.active = a, !.dirty = TRUE], rows[k])
    BY <1>1, RowChanges
  <2>2. rows' = [rows EXCEPT ![k] = r] /\ ByHand /\ buzzerType' = buzzerType
    BY <1>6 DEF setActive
  <2> QED
    BY <1>4, <2>1, <2>2
<1>7. CASE Start \/ \E confirmed \in BOOLEAN : confirmMissingMedia(confirmed)
  <2>1. /\ buzzers' = buzzers /\ restarts' = restarts /\ game' = game /\ rows' = rows /\ buzzerType' = buzzerType
        /\ sent' = sent \/ setupStoredGame
    BY <1>7 DEF Start, confirmMissingMedia
  <2>2. \A k \in DOMAIN rows' : RowFits(rows'[k], buzzerType', buzzers)
    BY <1>1, <2>1
  <2> QED
    BY <2>1, <2>2, SameBuzzers
<1> QED
  BY <1>3, <1>5, <1>6, <1>7 DEF Master

LEMMA PrepareStarts == PrepareInit => PrepareInv
<1> SUFFICES ASSUME PrepareInit PROVE PrepareInv
  OBVIOUS
<1>1. restarts \in Nat /\ sent = Nobody
  BY DEF PrepareInit
<1>2. Apart(buzzers)
  <2>1. Apart(BoxOf(restarts)) /\ \A i \in 1 .. Len(BoxOf(restarts)) : BoxOf(restarts)[i].id \notin Wireless
    BY <1>1, BoxApart
  <2>2. ASSUME NEW b \in Wireless, NEW told \in Told(b), buzzers = Append(BoxOf(restarts), told) PROVE Apart(buzzers)
    BY <2>1, <2>2, FoundApart
  <2>3. buzzers = BoxOf(restarts) \/ \E b \in Wireless : \E told \in Told(b) : buzzers = Append(BoxOf(restarts), told)
    BY DEF PrepareInit
  <2> QED
    BY <2>1, <2>2, <2>3
<1>3. rows = updateDefaultNames(RowsOf(buzzerType, <<>>, buzzers), buzzers)
  BY DEF PrepareInit
<1>4. \A k \in DOMAIN rows : RowFits(rows[k], buzzerType, buzzers)
  <2> PICK shown : shown = RowsOf(buzzerType, <<>>, buzzers)
    OBVIOUS
  <2>1. \A k \in DOMAIN <<>> : RowFits(<<>>[k], buzzerType, buzzers)
    OBVIOUS
  <2>2. \A k \in DOMAIN shown : RowFits(shown[k], buzzerType, buzzers)
    BY <1>2, <2>1, RowsFit
  <2> QED
    BY <1>3, <2>2, NamedRowsFit
<1> QED
  BY <1>1, <1>2, <1>4 DEF PrepareInv, MarksFollowTeams

LEMMA PrepareStep == PrepareInv /\ [PrepareNext]_prepare => PrepareInv'
<1> SUFFICES ASSUME PrepareInv, [PrepareNext]_prepare PROVE PrepareInv'
  OBVIOUS
<1>1. CASE UNCHANGED prepare
  <2>1. /\ buzzers' = buzzers /\ restarts' = restarts /\ game' = game /\ rows' = rows
        /\ buzzerType' = buzzerType /\ sent' = sent
    BY <1>1 DEF prepare
  <2>2. \A k \in DOMAIN rows' : RowFits(rows'[k], buzzerType', buzzers)
    BY <2>1 DEF PrepareInv
  <2> QED
    BY <2>1, <2>2, SameBuzzers
<1> QED
  BY <1>1, BuzzersGo, MasterGoes DEF PrepareNext

\* The game that is started has its teams on one kind of buzzers, and exactly those that were marked and still play
\* are marked, by the ids that the buzzers have now.
THEOREM MarksAreKept == PrepareSpec => []MarksFollowTeams
<1>1. PrepareInv => MarksFollowTeams
  BY DEF PrepareInv
<1> QED
  BY <1>1, PrepareStarts, PrepareStep, PTL DEF PrepareSpec
=============================================================================
