----------------------------- MODULE MCAutosave -----------------------------
(***************************************************************************)
(* Two small instances of Autosave in one run: `overlap', where a game is  *)
(* set up while the one before is still being saved or deleted, and        *)
(* `retry', where one game changes often and the stick is pulled out again *)
(* and again.                                                              *)
(***************************************************************************)
EXTENDS Autosave

VARIABLE instance

Within ==
  CASE instance = "overlap" -> pulls <= 1 /\ \A p \in Play : version[p] <= 2
    [] instance = "retry"   -> plays <= 1

MCInit == Init /\ instance \in {"overlap", "retry"}

\* only what is not fair is bounded: games begin and change, and the stick is pulled out
MCNext == Next /\ UNCHANGED instance /\ Within'

MCSpec == MCInit /\ [][MCNext]_<<vars, instance>> /\ Fairness
=============================================================================
