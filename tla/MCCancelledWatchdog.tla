------------------------- MODULE MCCancelledWatchdog -------------------------
(***************************************************************************)
(* FreezeCoordinator with a history: the watchdogs that have taken their   *)
(* deadline and that a completed thaw has outlived.  A Frozen state such a *)
(* watchdog meets is that of a later freeze.                               *)
(***************************************************************************)
EXTENDS FreezeCoordinator

VARIABLE outlived

HistoryInit == Init /\ outlived = {}

HistoryNext ==
    /\ Next
    /\ outlived' = {w \in Watch : /\ thawPc'[w] = "expired"
                                  /\ w \in outlived \/ state' = "Thawed"}

HistorySpec == HistoryInit /\ [][HistoryNext]_<<vars, outlived>>

(* Cancelling a watchdog stops it unless its drain has started             *)
(* (watchdog.rs, WatchdogHandle::cancel): one whose freeze was thawed      *)
(* before it began to drain never claims the thaw of a later freeze, here  *)
(* one whose operation has succeeded.                                      *)
CancelledNeverThaws ==
    [][\A w \in outlived :
          (\E o \in Op : result[o] = "ok") => thawPc'[w] # "claimed"]_<<vars, outlived>>

=============================================================================
