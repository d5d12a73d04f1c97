---------------------------- MODULE MCOwnerInput ----------------------------
(***************************************************************************)
(* Small instances of OwnerInput for TLC.  A process takes any of its roles  *)
(* when it is idle, so that two that tick and a plugin show ticks, polls and  *)
(* answers overlap.                                                        *)
(***************************************************************************)
EXTENDS OwnerInput, TLC
=============================================================================
