------------------------------ MODULE MCJobLedger ------------------------------
(***************************************************************************)
(* Instances of JobLedger for TLC.  Jobs are interchangeable, and so are   *)
(* the dispatchers and the ackers.                                         *)
(***************************************************************************)
EXTENDS JobLedger, TLC

Symmetry ==
    Permutations(Jobs) \cup Permutations(Dispatchers) \cup Permutations(Ackers)
=============================================================================
