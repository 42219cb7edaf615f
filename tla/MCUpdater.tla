----------------------------- MODULE MCUpdater -----------------------------
(***************************************************************************)
(* Small instances of Updater and UpdateService, one after the other in    *)
(* one run: the first state chooses which, and it limits what may happen.  *)
(*                                                                         *)
(*   cuts    two updates, two power cuts and a command that fails          *)
(*   again   one version three times, with the same                        *)
(*   fails   three updates one after the other, one command fails          *)
(*   service UpdateService with one bundle and the master's update card    *)
(*   swap    the same, and the bundle is another than the one looked at    *)
(*   race    the server starts one while somebody installs another         *)
(***************************************************************************)
EXTENDS Updates, TLC

CONSTANTS v1, v2, v3, unit, ssh

VARIABLE instance

\* the variables of UpdateService
serviceVars == <<statusFile, stick, changes, helper, info, cache, pollingInterval, isRefreshing, isRefreshRequested,
                 isStarting, read, toCard, card, asked, asOf, installed>>

Good(v) == [version |-> v, starts |-> TRUE, signed |-> TRUE, intact |-> TRUE]
Bad(v) == [Good(v) EXCEPT !.starts = FALSE]
Bundles == {Good(v1), Bad(v1), Good(v2), Bad(v2), Good(v3), [Good(v2) EXCEPT !.signed = FALSE],
            [Good(v3) EXCEPT !.intact = FALSE]}

Limit == [cuts  |-> [cuts |-> 2, failures |-> 1, installs |-> 2],
          again |-> [cuts |-> 2, failures |-> 1, installs |-> 3],
          fails |-> [cuts |-> 0, failures |-> 1, installs |-> 3],
          race  |-> [cuts |-> 0, failures |-> 1, installs |-> 2]]

Services == {"service", "swap"}

MCInit ==
  /\ Init /\ Service!Init /\ instance \in DOMAIN Limit \cup Services
  /\ stick[v1] = IF instance = "swap" THEN [signed |-> TRUE, stamp |-> 0] ELSE None
UpdaterNext ==
  /\ instance \notin Services /\ Next /\ UNCHANGED <<serviceVars, instance>>
  /\ cuts' <= Limit[instance].cuts /\ failures' <= Limit[instance].failures /\ installs' <= Limit[instance].installs
  /\ instance # "race" => At(ssh, "idle")'
  /\ instance = "again" => proc'[unit].bundle \in {None, Good(v1), Bad(v1)}
  /\ Careful
ServiceNext ==
  /\ instance \in Services /\ Service!Next /\ UNCHANGED <<vars, instance>>
  /\ instance = "swap" => /\ stick' # stick => stick'[v1] = [signed |-> FALSE, stamp |-> 0]
                          /\ \A r \in Service!Reads : read'[r].asOf # 0 => read'[r].status # None

allVars == <<vars, serviceVars, instance>>

\* the fairness of both modules
Others == UNCHANGED <<serviceVars, instance>>
ServiceOthers == UNCHANGED <<vars, instance>>

MCSpec ==
  /\ MCInit /\ [][UpdaterNext \/ ServiceNext]_allVars
  /\ WF_allVars(instance \notin Services /\ BootStep /\ Others)
  /\ \A p \in {unit, ssh} :
       /\ WF_allVars(instance \notin Services /\ StartStep(p) /\ failures' <= Limit[instance].failures /\ Others)
       /\ WF_allVars(instance \notin Services /\ InstallStep(p) /\ Others)
  /\ \A p \in {unit, ssh, Boot} : WF_allVars(instance \notin Services /\ UndoStep(p) /\ Others)
  /\ WF_allVars(instance \in Services /\ Service!ReadStep /\ ServiceOthers)
  /\ WF_allVars(instance \in Services /\ (Service!install \/ Service!InstallTooLate) /\ ServiceOthers)
  /\ WF_allVars(instance \in Services /\ Service!InstallResolves /\ ServiceOthers)
  /\ WF_allVars(instance \in Services /\ Service!HelperStarted /\ ServiceOthers)
  /\ WF_allVars(instance \in Services /\ Service!CardReceives /\ ServiceOthers)

InfoGoesForward == Service!InfoGoesForward
RefreshIsDone == instance \in Services => Service!RefreshIsDone
============================================================================
