------------------------ MODULE MCContinuationEngine ------------------------
(* Small instances of ContinuationEngine for TLC.                           *)
EXTENDS ContinuationEngine, TLC

\* One event of each kind the engine treats differently.
FixEvent         == [e \in Events |-> "code_fix"]
RefusalEvent     == [e \in Events |-> "semantic_refusal"]
FixThenRefusal   == << "code_fix", "semantic_refusal" >>
OtherFixRefusal  == << "other", "code_fix", "semantic_refusal" >>
Everything       == Events
Nothing          == {}
FixOnly          == {2}

WorkerSymmetry   == Permutations(Workers)
=============================================================================
