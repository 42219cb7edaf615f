------------------------------ MODULE Updates ------------------------------
(***************************************************************************)
(* The script that installs updates and the service that starts it.  What  *)
(* one sees of the other is modelled in each, see UpdateService.           *)
(***************************************************************************)
EXTENDS Updater

CONSTANTS File, MaxStatus, MaxChange, MaxToCard  \* of UpdateService
VARIABLES statusFile, stick, changes, helper, info, cache, pollingInterval, isRefreshing, isRefreshRequested, isStarting,
          read, toCard, card, asked, asOf, installed

Service == INSTANCE UpdateService WITH Undefined <- None

\* A bundle that is not signed is installed only if the master accepted that (UpdateService).
UnsignedOnlyIfAccepted == Service!UnsignedOnlyIfAccepted
============================================================================
