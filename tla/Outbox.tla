------------------------------- MODULE Outbox -------------------------------
(***************************************************************************)
(* One row of the durable board outbox (board_outbox): an intent is         *)
(* enqueued before the board is called, and the outcome of each attempt is  *)
(* written back to the row.                                                 *)
(*                                                                         *)
(* The retry clock is abstracted to the bit the code tests,                 *)
(* due = (next_attempt_at <= now).  The attempt counter is read only        *)
(* against CALLBACK_RETRY_CAP, so it saturates there, and it is kept at 0   *)
(* for the operations that have no cap.  The error text is kept only when   *)
(* the code branches on it (origin_wake_not_yet_accepted).                  *)
(***************************************************************************)
EXTENDS Naturals

CONSTANT CALLBACK_RETRY_CAP

ASSUME CapAssumption == CALLBACK_RETRY_CAP \in Nat \ {0}

CALLBACK_ONLY_OPERATIONS == { "schedule_origin_wake", "record_consumer_ack" }

RowState == { "absent", "pending", "applied", "callback_deadletter" }

Row == [ state      : RowState,
         due        : BOOLEAN,
         attempts   : 0 .. CALLBACK_RETRY_CAP,
         last_error : { "none", "origin_wake_not_yet_accepted" } ]

NoRow == [ state |-> "absent", due |-> TRUE, attempts |-> 0, last_error |-> "none" ]

\* outbox_enqueue: idempotent by key, a fresh row is pending and due at once.
Enqueued(row) ==
  IF row.state = "absent" THEN [NoRow EXCEPT !.state = "pending"] ELSE row

Retryable(row) == row.state = "pending" /\ row.due

\* attempts=attempts+1, saturating.
Counted(op, n) ==
  IF op \in CALLBACK_ONLY_OPERATIONS /\ n < CALLBACK_RETRY_CAP
  THEN n + 1
  ELSE IF op \in CALLBACK_ONLY_OPERATIONS THEN n ELSE 0

\* outbox_mark(state='applied'): clears the schedule and the stale error.
MarkedApplied(row, op) ==
  [ state |-> "applied", due |-> TRUE,
    attempts |-> Counted(op, row.attempts), last_error |-> "none" ]

\* outbox_mark(state='pending', next_attempt_at=now+delay, last_error=...).
MarkedPending(row, op, error) ==
  [ state |-> "pending", due |-> FALSE,
    attempts |-> Counted(op, row.attempts), last_error |-> error ]

\* outbox_mark(state='callback_deadletter', next_attempt_at=0, last_error=...).
MarkedDeadletter(row, op, error) ==
  [ state |-> "callback_deadletter", due |-> TRUE,
    attempts |-> Counted(op, row.attempts), last_error |-> error ]

\* Mutant of MarkedFailed: no retry cap.
MarkedFailedForever(row, snapshot, op, error) == MarkedPending(row, op, error)

\* _mark_outbox_pending: row is what the table holds now, snapshot what the
\* caller read before it called the board; the cap is tested on the snapshot.
MarkedFailed(row, snapshot, op, error) ==
  IF /\ op \in CALLBACK_ONLY_OPERATIONS
     /\ snapshot.attempts + 1 >= CALLBACK_RETRY_CAP
  THEN MarkedDeadletter(row, op, error)
  ELSE MarkedPending(row, op, error)

\* Time passes the row's next_attempt_at.
MarkedDue(row) == [row EXCEPT !.due = TRUE]

=============================================================================
