------------------------------ MODULE Prepare ------------------------------
(***************************************************************************)
(* The page on which the master puts the teams on the buzzers and starts   *)
(* the game (client/src/app/master/prepare-game), while buzzers are found, *)
(* come online, tell their color, and the server restarts.                 *)
(*                                                                         *)
(* A row holds its form control.  The form is Angular's: disabling a       *)
(* control leaves the group dirty only if another enabled control is.      *)
(***************************************************************************)
EXTENDS Naturals, Sequences, SequencesExt, FiniteSetsExt

CONSTANTS
  Wireless,      \* ids of the wireless buzzers, which they keep
  Color,         \* the colors of their cases
  BoxBuzzers,    \* how many buzzers the box has
  Prepared,      \* what may be prepared: [teams, marked, missing]; no teams: a new game
  HandName,      \* a name that is entered by hand
  MinTeams,
  MaxRestarts, MaxChanges, \* bounds: restarts of the server; changes by hand and of the buzzers
  Nobody

VARIABLES
  buzzers,       \* availableBuzzers
  restarts,      \* the box's buzzers have new ids after each
  rows,
  dirty,         \* teamsFormGroup.dirty
  buzzerType, buzzerTypeFixed,
  game,          \* the game that is prepared
  asking,        \* the dialog about missing media is open
  starting,
  sent,          \* SETUP_GAME
  changes

prepare == <<buzzers, restarts, rows, dirty, buzzerType, buzzerTypeFixed, game, asking, starting, sent, changes>>

ASSUME PrepareAssumption == BoxBuzzers \in Nat /\ \A b \in Wireless : b \notin Nat \X Nat

BoxId(n, i) == <<n, i>>
getType(id) == IF id \in Wireless THEN "udp" ELSE "serial"
BoxOf(n) == [i \in 1 .. BoxBuzzers |-> [id |-> BoxId(n, i), online |-> TRUE, color |-> Nobody]]
isContinuing == game.teams # <<>>

----------------------------------------------------------------------------
(* mapTeamsToBuzzers: where the saved teams' buzzers are now. *)

IndexOf(team, there) ==
  IF getType(team.buzzerId) = "serial" THEN team.buzzerIndex
  ELSE Max({0} \cup {i \in DOMAIN there : there[i].id = team.buzzerId})
PlaysOn(team, there) ==
  LET i == IndexOf(team, there) IN i \in DOMAIN there /\ getType(there[i].id) = getType(team.buzzerId)

TeamOn(i, there) ==
  LET on == {k \in DOMAIN game.teams : PlaysOn(game.teams[k], there) /\ IndexOf(game.teams[k], there) = i}
  IN IF on = {} THEN Nobody ELSE game.teams[Min(on)]

mapMarks_Kept(there) == game.marked
mapMarks(there) ==
  {there[IndexOf(t, there)].id : t \in {t \in Range(game.teams) : t.buzzerId \in game.marked /\ PlaysOn(t, there)}}

----------------------------------------------------------------------------
(* updateTeams: a row for each buzzer of the kind. *)

NewRow(position, i, there) ==
  LET team == TeamOn(i, there) IN
  [id |-> there[i].id, buzzerIndex |-> i, team |-> team, name |-> IF team = Nobody THEN Nobody ELSE team.name,
   active |-> IF isContinuing THEN team # Nobody ELSE position <= MinTeams, dirty |-> FALSE, defaultName |-> Nobody]

KeptRow(row, there) ==
  LET team == TeamOn(row.buzzerIndex, there) IN
  IF row.team = Nobody /\ team # Nobody THEN [row EXCEPT !.team = team, !.name = team.name, !.active = TRUE]
  ELSE [row EXCEPT !.team = team]

OfType(type, there) == {i \in DOMAIN there : getType(there[i].id) = type}
NthOf(n, indices) == CHOOSE i \in indices : Cardinality({j \in indices : j < i}) = n - 1
RowsOf(type, kept, there) ==
  LET those == OfType(type, there) IN
  [k \in 1 .. Cardinality(those) |->
     IF k \in DOMAIN kept THEN KeptRow(kept[k], there) ELSE NewRow(k, NthOf(k, those), there)]

makeDefaultName(buzzer, position, taken) ==
  IF buzzer.color = Nobody THEN <<Nobody, position>>
  ELSE <<buzzer.color, Min({n \in 1 .. position : <<buzzer.color, n>> \notin taken})>>

FollowsDefault(row) == row.defaultName = Nobody \/ row.name = row.defaultName

Named(row, name) ==
  IF row.team # Nobody THEN row ELSE [row EXCEPT !.defaultName = name, !.name = IF FollowsDefault(row) THEN name ELSE @]

updateDefaultNames(shown, there) ==
  LET names[k \in DOMAIN shown] ==
        IF shown[k].team # Nobody THEN shown[k].team.name
        ELSE makeDefaultName(there[shown[k].buzzerIndex], k, {names[j] : j \in 1 .. k - 1})
  IN [k \in DOMAIN shown |-> Named(shown[k], names[k])]

\* a new game takes the wireless buzzers once one is online
HasWireless(there) == \E i \in DOMAIN there : getType(there[i].id) = "udp" /\ there[i].online
Switches(there) == ~buzzerTypeFixed /\ ~dirty /\ buzzerType = "serial" /\ HasWireless(there)

Renewed(there) ==
  \E k \in DOMAIN rows : rows[k].buzzerIndex \notin DOMAIN there \/ there[rows[k].buzzerIndex].id # rows[k].id

ShowRows(type, kept, there) ==
  /\ buzzerType' = type
  /\ rows' = updateDefaultNames(RowsOf(type, kept, there), there)

updateTeams(there) ==
  /\ dirty' = (dirty /\ ~Switches(there) /\ ~Renewed(there))
  /\ ShowRows(IF Switches(there) THEN "udp" ELSE buzzerType,
              IF Switches(there) \/ Renewed(there) THEN <<>> ELSE rows, there)

----------------------------------------------------------------------------
(* The buzzers change. *)

Changes == changes < MaxChanges /\ changes' = changes + 1
setAvailableBuzzers(there) ==
  /\ Changes /\ buzzers' = there /\ updateTeams(there)
  /\ UNCHANGED <<buzzerTypeFixed, game, asking, starting, sent>>

Told(b) == {[id |-> b, online |-> o, color |-> c] : o \in BOOLEAN, c \in Color \cup {Nobody}}
Found == {i \in DOMAIN buzzers : buzzers[i].id \in Wireless}

BuzzerFound(b) ==
  /\ \A i \in Found : buzzers[i].id # b
  /\ \E told \in Told(b) : setAvailableBuzzers(Append(buzzers, told)) /\ UNCHANGED restarts
BuzzerTells(i) ==
  \E told \in Told(buzzers[i].id) :
    told # buzzers[i] /\ setAvailableBuzzers([buzzers EXCEPT ![i] = told]) /\ UNCHANGED restarts

\* with the buzzers that were found until the master is back
ServerRestarts ==
  /\ restarts < MaxRestarts /\ restarts' = restarts + 1
  /\ \E first \in SUBSET Found : \E again \in SetToSeqs(first) :
       setAvailableBuzzers(BoxOf(restarts') \o [k \in DOMAIN again |-> buzzers[again[k]]])

----------------------------------------------------------------------------
(* The master changes the teams. *)

ByHand == Changes /\ ~asking /\ ~starting /\ UNCHANGED <<buzzers, restarts, game, asking, starting, sent>>

chooseBuzzerType(type) ==
  /\ buzzerType = "udp" \/ Found # {}
  /\ ByHand /\ buzzerTypeFixed' = TRUE
  /\ IF type = buzzerType THEN UNCHANGED <<rows, dirty, buzzerType>>
     ELSE dirty' = FALSE /\ ShowRows(type, <<>>, buzzers)

EnterName(k) ==
  /\ rows[k].active /\ rows[k].name # HandName
  /\ ByHand /\ rows' = [rows EXCEPT ![k].name = HandName, ![k].dirty = TRUE] /\ dirty' = TRUE
  /\ UNCHANGED <<buzzerType, buzzerTypeFixed>>

setActive(k) ==
  /\ ByHand /\ rows' = [rows EXCEPT ![k].active = ~@, ![k].dirty = TRUE]
  /\ dirty' = (\E j \in DOMAIN rows : rows'[j].active /\ rows'[j].dirty)
  /\ UNCHANGED <<buzzerType, buzzerTypeFixed>>

----------------------------------------------------------------------------
(* Starting. *)

Active == {k \in DOMAIN rows : rows[k].active}
canStart == Cardinality(Active) >= MinTeams /\ ~starting

Team(row) == [name |-> row.name, buzzerId |-> row.id, buzzerIndex |-> row.buzzerIndex,
              points |-> IF row.team = Nobody THEN 0 ELSE row.team.points]
setupStoredGame ==
  LET teams == {Team(rows[k]) : k \in Active} IN
  /\ starting' = TRUE
  /\ sent' = [teams |-> teams, marked |-> mapMarks(buzzers) \cap {t.buzzerId : t \in teams}, buzzers |-> buzzers]

Start ==
  /\ canStart /\ ~asking
  /\ IF game.missing THEN asking' = TRUE /\ UNCHANGED <<starting, sent>> ELSE setupStoredGame /\ UNCHANGED asking
  /\ UNCHANGED <<buzzers, restarts, rows, dirty, buzzerType, buzzerTypeFixed, game, changes>>

\* it is not checked again whether the game can be started
confirmMissingMedia(confirmed) ==
  /\ asking /\ asking' = FALSE
  /\ IF confirmed THEN setupStoredGame ELSE UNCHANGED <<starting, sent>>
  /\ UNCHANGED <<buzzers, restarts, rows, dirty, buzzerType, buzzerTypeFixed, game, changes>>

PrepareInit ==
  /\ game \in Prepared /\ restarts \in 0 .. 1
  /\ buzzers \in {BoxOf(restarts)} \cup {Append(BoxOf(restarts), told) : told \in UNION {Told(b) : b \in Wireless}}
  /\ LET type == IF isContinuing THEN getType(game.teams[1].buzzerId)
                 ELSE IF HasWireless(buzzers) THEN "udp" ELSE "serial" IN
     buzzerType = type /\ rows = updateDefaultNames(RowsOf(type, <<>>, buzzers), buzzers)
  /\ buzzerTypeFixed = isContinuing /\ dirty = FALSE /\ changes = 0
  /\ asking = FALSE /\ starting = FALSE /\ sent = Nobody

Buzzers ==
  \/ \E b \in Wireless : BuzzerFound(b)
  \/ \E i \in Found : BuzzerTells(i)
  \/ ServerRestarts
Master ==
  \/ \E type \in {"serial", "udp"} : chooseBuzzerType(type)
  \/ \E k \in DOMAIN rows : EnterName(k) \/ setActive(k)
  \/ Start \/ \E confirmed \in BOOLEAN : confirmMissingMedia(confirmed)

PrepareNext == Buzzers \/ Master

PrepareSpec == PrepareInit /\ [][PrepareNext]_prepare

----------------------------------------------------------------------------
(* Properties. *)

\* a saved team's buzzer: wireless ones keep their id, those of the box their place
IsOn(team, id, i) ==
  getType(id) = getType(team.buzzerId) /\ IF getType(id) = "udp" THEN id = team.buzzerId ELSE i = team.buzzerIndex

\* However buzzers come, go and come back in another order, there is a row for each of the chosen kind and each row's
\* team is on the buzzer that is there now; a team of the continued game whose buzzer is there is on it with its
\* points, and plays unless the master changed its row.
TeamsFitBuzzers ==
  /\ {<<rows[k].buzzerIndex, rows[k].id>> : k \in DOMAIN rows}
       = {<<i, buzzers[i].id>> : i \in {i \in DOMAIN buzzers : getType(buzzers[i].id) = buzzerType}}
  /\ \A team \in Range(game.teams), i \in DOMAIN buzzers :
       buzzerType = getType(team.buzzerId) /\ IsOn(team, buzzers[i].id, i) =>
          \E k \in DOMAIN rows : /\ rows[k].buzzerIndex = i /\ rows[k].team = team
                                 /\ ~rows[k].dirty => rows[k].active /\ rows[k].name = team.name

\* The game that is started goes on where it was saved: its teams are on one kind of buzzers, and exactly those that
\* were marked and still play are marked, by the ids of now.
MarksFollowTeams ==
  sent # Nobody =>
    /\ Cardinality({getType(t.buzzerId) : t \in sent.teams}) <= 1
    /\ \A t \in sent.teams :
         t.buzzerId \in sent.marked <=>
           \E team \in Range(game.teams) : team.buzzerId \in game.marked /\ IsOn(team, t.buzzerId, t.buzzerIndex)

\* A name the master entered stays when a buzzer is found, goes offline or tells another color.
EnteredNamesStay ==
  [][(\A j \in DOMAIN rows : rows[j].buzzerIndex \in DOMAIN buzzers' /\ buzzers'[rows[j].buzzerIndex].id = rows[j].id)
     /\ buzzerType' = buzzerType
     => \A k \in DOMAIN rows : rows[k].name = HandName => rows'[k].name = HandName]_prepare
=============================================================================
