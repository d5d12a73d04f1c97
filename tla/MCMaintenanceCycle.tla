-------------------------- MODULE MCMaintenanceCycle --------------------------
(***************************************************************************)
(* Instances of MaintenanceCycle for TLC.  Runners are interchangeable,    *)
(* and so are cycle_refs.                                                  *)
(***************************************************************************)
EXTENDS MaintenanceCycle, TLC

Symmetry == Permutations(Runners) \cup Permutations(Cycles)
=============================================================================
