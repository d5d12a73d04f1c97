------------------------- MODULE ContinuationStates -------------------------
(***************************************************************************)
(* The durable state machine of one continuation instance                  *)
(* (continuation_store.py, ContinuationState / ALLOWED_TRANSITIONS).  Every *)
(* module that moves an instance uses Legal, as ContinuationStore.transition*)
(* does.                                                                   *)
(***************************************************************************)

ContinuationState ==
  { "detected", "waiting_owner", "input_accepted", "materializing",
    "waiting_review", "resumable", "resumed", "blocked_invalid",
    "failed_retryable" }

TERMINAL_STATES == { "resumed", "blocked_invalid" }

ALLOWED_TRANSITIONS ==
  [ s \in ContinuationState |->
      CASE s = "detected"         -> { "waiting_owner", "materializing" }
        [] s = "waiting_owner"    -> { "input_accepted" }
        [] s = "input_accepted"   -> { "materializing" }
        [] s = "materializing"    -> { "waiting_review", "resumable", "failed_retryable" }
        [] s = "waiting_review"   -> { "resumable", "failed_retryable" }
        [] s = "resumable"        -> { "resumed" }
        [] s = "failed_retryable" -> { "materializing", "waiting_review" }
        [] OTHER                  -> {} ]

\* _legal: a terminal instance never moves, any other may be quarantined.
Legal(current, new) ==
  /\ current \notin TERMINAL_STATES
  /\ \/ new = "blocked_invalid"
     \/ new \in ALLOWED_TRANSITIONS[current]

=============================================================================
