------------------------- MODULE MCFreezeCoordinator -------------------------
(***************************************************************************)
(* Small instances of FreezeCoordinator for TLC.                           *)
(***************************************************************************)
EXTENDS FreezeCoordinator, TLC

\* Targets, watchdog tasks and operations are interchangeable: no definition
\* names a particular one.
Symmetry == Permutations(Target) \cup Permutations(Watch) \cup Permutations(Op)

=============================================================================
