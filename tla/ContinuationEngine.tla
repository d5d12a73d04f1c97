------------------------- MODULE ContinuationEngine -------------------------
(***************************************************************************)
(* The continuation engine of agentflowd on one board: ingest_board_once    *)
(* reads the board's event log behind a durable cursor, hands each event to *)
(* the code_fix or semantic_refusal handler, and advances the cursor;       *)
(* reconcile_outbox then replays what the handlers left pending.            *)
(*                                                                         *)
(* A worker is a process that runs ticks: the daemon (agentflowd run), the  *)
(* reconcile timer (agentflowd reconcile), a manual tick.  Only             *)
(* "agentflowd run" takes the single-instance lock, so several workers may  *)
(* share the SQLite store and the board.  Each action is one transaction on *)
(* the store or one call to the board, which is where a worker can be       *)
(* overtaken by another one or die.                                        *)
(***************************************************************************)
EXTENDS ContinuationStates, Outbox

CONSTANTS
  Workers,     \* the processes that run ticks
  Operators,   \* the processes that run "continuation retry"
  MaxSeq,      \* bound: events the board ever posts, numbered by event_seq
  Kind,        \* what compile_outcome makes of each event
  Routable,    \* events with an origin or a return endpoint
  MaxCrashes   \* bound: how often a worker dies inside a tick

Events == 1 .. MaxSeq
Kinds  == { "code_fix", "semantic_refusal", "other" }

ASSUME EngineAssumption ==
  /\ MaxSeq \in Nat
  /\ Kind \in [Events -> Kinds]
  /\ Routable \subseteq Events
  /\ MaxCrashes \in Nat

VARIABLES
  \* the durable store
  inst,        \* continuation_instances.state of each event
  refusal,     \* events whose semantic_refusal satisfaction is recorded
  outbox,      \* board_outbox, by event and operation
  stepTask,    \* continuation_steps that carry a board_task_id
  cursor,      \* board_cursors.last_event_id
  \* the board and the gateway
  posted,      \* events in the board's log
  board,       \* effects the board holds, by idempotency key
  scheduled,   \* origin wakes the board has scheduled
  \* the workers
  pc, ctx, crashes

Processes == Workers \union Operators

store  == << inst, refusal, outbox, stepTask, cursor >>
ledger == << inst, refusal, outbox, stepTask >>
world  == << posted, board, scheduled >>
vars   == << store, world, pc, ctx, crashes >>

-----------------------------------------------------------------------------
(* Operations, in the order materialize performs them.                     *)

CreateOps == { "code_fix", "review" }
GraphOps  == CreateOps \union { "subscribe" }
Ops       == GraphOps \union CALLBACK_ONLY_OPERATIONS

FirstOp(e) ==
  CASE Kind[e] = "code_fix"                           -> "code_fix"
    [] Kind[e] = "semantic_refusal" /\ e \in Routable -> "schedule_origin_wake"
    [] OTHER                                          -> "end"

NextOp(e, op) ==
  CASE op = "code_fix"                     -> "review"
    [] op = "review" /\ e \in Routable     -> "subscribe"
    [] op = "subscribe"                    -> "record_consumer_ack"
    [] op = "schedule_origin_wake"         -> "record_consumer_ack"
    [] OTHER                               -> "end"

-----------------------------------------------------------------------------
(* What a worker holds in memory.                                          *)

NoOp   == "none"
NoInst == "none"
Items  == [ ev : Events, op : Ops, row : Row ]

\* done, upto: max_seq and the last event fetched; ev: the event in hand;
\* seen: instance["state"] as the handler read it; target: the transition
\* under way; op, row: the operation in hand and its row as read; res: the
\* outcome of the board call; batch: rows reconcile_outbox selected.
Context ==
  [ done : 0 .. MaxSeq, upto : 0 .. MaxSeq, ev : 0 .. MaxSeq,
    seen   : ContinuationState \union {NoInst},
    target : ContinuationState \union {NoInst},
    op     : Ops \union {NoOp, "end"},
    row    : Row,
    res    : { "none", "ok", "error", "not_yet_accepted" },
    batch  : SUBSET Items ]

NoCtx ==
  [ done |-> 0, upto |-> 0, ev |-> 0, seen |-> NoInst, target |-> NoInst,
    op |-> NoOp, row |-> NoRow, res |-> "none", batch |-> {} ]

Labels == { "idle", "fetch", "route", "gate", "read", "write", "reread",
            "satisfy", "op", "probe", "call", "mark", "step",
            "scan", "replay", "rcall", "rmark", "rstep",
            "retry", "tprobe", "tcall", "tmark", "tstep" }

Goto(w, label, c) ==
  /\ pc'  = [pc EXCEPT ![w] = label]
  /\ ctx' = [ctx EXCEPT ![w] = c]

\* The event is handled: results.append, max_seq = max(max_seq, event_seq).
Handled(c) == [NoCtx EXCEPT !.done = c.ev, !.upto = c.upto]
\* Mutants of Broken: a failed event counted as handled; the rest of the batch
\* skipped with it.
BrokenCounted(c) == [NoCtx EXCEPT !.done = c.ev, !.upto = c.ev]
BrokenSkips(c)   == [NoCtx EXCEPT !.done = c.upto, !.upto = c.upto]

\* break: the rest of the batch is left for the next tick.
Broken(c)  == [NoCtx EXCEPT !.done = c.done, !.upto = c.done]

AtOp(c, op) == [c EXCEPT !.op = op, !.row = NoRow, !.res = "none"]
StartOps(c) == AtOp([c EXCEPT !.target = NoInst], FirstOp(c.ev))
Advanced(c) == AtOp(c, NextOp(c.ev, c.op))
Moving(c, s) == [c EXCEPT !.target = s, !.op = NoOp, !.row = NoRow, !.res = "none"]

-----------------------------------------------------------------------------
TypeOK ==
  /\ inst \in [Events -> ContinuationState \union {NoInst}]
  /\ refusal \subseteq Events
  /\ outbox \in [Events -> [Ops -> Row]]
  /\ stepTask \subseteq Events \X CreateOps
  /\ cursor \in 0 .. MaxSeq
  /\ posted \in 0 .. MaxSeq
  /\ board \subseteq Events \X Ops
  /\ scheduled \subseteq Events
  /\ pc \in [Processes -> Labels]
  /\ ctx \in [Processes -> Context]
  /\ crashes \in 0 .. MaxCrashes

Init ==
  /\ inst = [e \in Events |-> NoInst]
  /\ refusal = {}
  /\ outbox = [e \in Events |-> [op \in Ops |-> NoRow]]
  /\ stepTask = {}
  /\ cursor = 0
  /\ posted = 0
  /\ board = {}
  /\ scheduled = {}
  /\ pc = [w \in Processes |-> "idle"]
  /\ ctx = [w \in Processes |-> NoCtx]
  /\ crashes = 0

-----------------------------------------------------------------------------
(* The environment.                                                        *)

\* A task of the board finishes and its event enters the log.
Post ==
  /\ posted < MaxSeq
  /\ posted' = posted + 1
  /\ UNCHANGED << store, board, scheduled, pc, ctx, crashes >>

\* The gateway turns a scheduled wake into an accepted one.
GatewayAccepts(e) ==
  /\ e \in scheduled
  /\ << e, "schedule_origin_wake" >> \notin board
  /\ board' = board \union {<< e, "schedule_origin_wake" >>}
  /\ UNCHANGED << store, posted, scheduled, pc, ctx, crashes >>

\* The clock passes a row's next_attempt_at.
Elapse(e, op) ==
  /\ outbox[e][op].state = "pending" /\ ~ outbox[e][op].due
  /\ outbox' = [outbox EXCEPT ![e][op] = MarkedDue(outbox[e][op])]
  /\ UNCHANGED << inst, refusal, stepTask, cursor, world, pc, ctx, crashes >>

\* A worker is killed, or an exception ends its tick: what it held is gone.
Crash(w) ==
  /\ crashes < MaxCrashes
  /\ pc[w] # "idle"
  /\ crashes' = crashes + 1
  /\ Goto(w, "idle", NoCtx)
  /\ UNCHANGED << store, world >>

-----------------------------------------------------------------------------
(* ingest_board_once                                                       *)

BeginTick(w) ==
  /\ pc[w] = "idle"
  /\ Goto(w, "fetch", [NoCtx EXCEPT !.done = cursor])
  /\ UNCHANGED << store, world, crashes >>

\* fetch_events_since(last_seq): nothing newer leaves the batch empty.
Fetch(w) ==
  /\ pc[w] = "fetch"
  /\ Goto(w, "route", [ctx[w] EXCEPT !.upto = posted])
  /\ UNCHANGED << store, world, crashes >>

\* The next event of the batch; its handler starts with create_instance.
Route(w) ==
  LET c == ctx[w]
      e == c.done + 1
  IN
  /\ pc[w] = "route"
  /\ c.done < c.upto
  /\ IF Kind[e] = "other"
     THEN /\ Goto(w, "route", Handled([c EXCEPT !.ev = e]))
          /\ inst' = inst
     ELSE /\ inst' = [inst EXCEPT ![e] = IF @ = NoInst THEN "detected" ELSE @]
          /\ Goto(w, "gate", [c EXCEPT !.ev = e, !.seen = inst'[e]])
  /\ UNCHANGED << refusal, outbox, stepTask, cursor, world, crashes >>

\* pending_outbox_retry_not_due: some row is pending and none of them is due.
RetryNotDue(e) ==
  /\ \E op \in Ops : outbox[e][op].state = "pending"
  /\ \A op \in Ops : ~ Retryable(outbox[e][op])

\* Where a handler goes once the instance is normalised.
Body(w, c) ==
  IF Kind[c.ev] = "code_fix" THEN Goto(w, "op", StartOps(c)) ELSE Goto(w, "satisfy", c)

\* Mutants of Gate: a failed instance is not normalised on a retry; it is
\* retried although nothing is due; it is given up.
GateNoRecovery(w) ==
  LET c == ctx[w] IN
  /\ pc[w] = "gate"
  /\ \/ c.seen = "detected" /\ Goto(w, "read", Moving(c, "materializing"))
     \/ c.seen # "detected" /\ Body(w, c)
  /\ UNCHANGED << store, world, crashes >>

GateNoBackoff(w) ==
  LET c == ctx[w] IN
  /\ pc[w] = "gate"
  /\ \/ /\ c.seen \in { "detected", "failed_retryable" }
        /\ Goto(w, "read", Moving(c, "materializing"))
     \/ c.seen \notin { "detected", "failed_retryable" } /\ Body(w, c)
  /\ UNCHANGED << store, world, crashes >>

GateGivesUp(w) ==
  LET c == ctx[w] IN
  /\ pc[w] = "gate"
  /\ \/ c.seen = "failed_retryable" /\ Goto(w, "route", Broken(c))
     \/ c.seen = "detected" /\ Goto(w, "read", Moving(c, "materializing"))
     \/ c.seen \notin { "detected", "failed_retryable" } /\ Body(w, c)
  /\ UNCHANGED << store, world, crashes >>

Gate(w) ==
  LET c == ctx[w] IN
  /\ pc[w] = "gate"
  /\ \/ /\ Kind[c.ev] = "code_fix" /\ c.seen = "failed_retryable" /\ RetryNotDue(c.ev)
        /\ Goto(w, "route", Broken(c))
     \/ /\ c.seen \in { "detected", "failed_retryable" }
        /\ ~ (Kind[c.ev] = "code_fix" /\ c.seen = "failed_retryable" /\ RetryNotDue(c.ev))
        /\ Goto(w, "read", Moving(c, "materializing"))
     \/ /\ c.seen \notin { "detected", "failed_retryable" }
        /\ Body(w, c)
  /\ UNCHANGED << store, world, crashes >>

-----------------------------------------------------------------------------
(* ContinuationStore.transition: the state is selected, then updated in a   *)
(* transaction of its own; its result is ignored by every handler.          *)

AfterTransition(w, c) ==
  CASE c.target = "materializing"    -> Goto(w, "reread", c)
    [] c.target = "blocked_invalid"  -> Goto(w, "op", StartOps(c))
    [] c.target = "waiting_review"   -> Goto(w, "route", Handled(c))
    [] c.target = "failed_retryable" -> Goto(w, "route", Broken(c))

TransitionRead(w) ==
  LET c == ctx[w] IN
  /\ pc[w] = "read"
  /\ IF Legal(inst[c.ev], c.target)
     THEN Goto(w, "write", c)
     ELSE AfterTransition(w, c)
  /\ UNCHANGED << store, world, crashes >>

TransitionWrite(w) ==
  LET c == ctx[w] IN
  /\ pc[w] = "write"
  /\ inst' = [inst EXCEPT ![c.ev] = c.target]
  /\ AfterTransition(w, c)
  /\ UNCHANGED << refusal, outbox, stepTask, cursor, world, crashes >>

Reread(w) ==
  LET c == [ctx[w] EXCEPT !.seen = inst[ctx[w].ev], !.target = NoInst] IN
  /\ pc[w] = "reread"
  /\ Body(w, c)
  /\ UNCHANGED << store, world, crashes >>

\* record_requirement_satisfaction, then the quarantine transition.
Satisfy(w) ==
  LET c == ctx[w] IN
  /\ pc[w] = "satisfy"
  /\ refusal' = refusal \union {c.ev}
  /\ IF c.seen # "blocked_invalid"
     THEN Goto(w, "read", Moving(c, "blocked_invalid"))
     ELSE Goto(w, "op", StartOps(c))
  /\ UNCHANGED << inst, outbox, stepTask, cursor, world, crashes >>

-----------------------------------------------------------------------------
(* apply_board_operation and _ensure_origin_wake: enqueue, decide on the    *)
(* row as it was read, call the board, write the outcome back.              *)

\* Mutant of OpFailed: a failed graph operation does not fail the event.
OpFailedGoesOn(w, c) == Goto(w, "op", Advanced(c))

\* A failed graph operation fails the event, a failed callback does not.
OpFailed(w, c) ==
  IF c.op \in GraphOps
  THEN Goto(w, "read", Moving(c, "failed_retryable"))
  ELSE Goto(w, "op", Advanced(c))

\* Mutant of OpSucceeded: every operation is taken to have a step.
OpSucceededAlwaysSteps(w, c) == Goto(w, "step", [c EXCEPT !.row = NoRow, !.res = "ok"])

OpSucceeded(w, c) ==
  IF c.op \in CreateOps
  THEN Goto(w, "step", [c EXCEPT !.row = NoRow, !.res = "ok"])
  ELSE Goto(w, "op", Advanced(c))

\* _create short-circuits a step that already has its board_task_id.
SkipStep(w) ==
  LET c == ctx[w] IN
  /\ pc[w] = "op"
  /\ << c.ev, c.op >> \in stepTask
  /\ Goto(w, "op", Advanced(c))
  /\ UNCHANGED << store, world, crashes >>

\* Mutant of Decide: the dead letter is not tested.
DecideRevives(w, c) ==
  CASE c.op \in CALLBACK_ONLY_OPERATIONS
         /\ (c.op = "schedule_origin_wake" \/ c.row.state = "applied") -> Goto(w, "probe", c)
    [] c.op \in GraphOps /\ c.row.state = "applied" -> OpSucceeded(w, c)
    [] OTHER -> IF c.row.due THEN Goto(w, "call", c) ELSE OpFailed(w, c)

\* The decision taken on the row before the adapter is used.
Decide(w, c) ==
  CASE c.op = "schedule_origin_wake" -> Goto(w, "probe", c)
    [] c.op = "record_consumer_ack"
         /\ c.row.state = "callback_deadletter" -> OpFailed(w, c)
    [] c.op = "record_consumer_ack"
         /\ c.row.state = "applied"  -> Goto(w, "probe", c)
    [] c.op \in GraphOps
         /\ c.row.state = "applied"  -> OpSucceeded(w, c)
    [] OTHER -> IF c.row.due THEN Goto(w, "call", c) ELSE OpFailed(w, c)

Enqueue(w) ==
  LET c   == ctx[w]
      row == Enqueued(outbox[c.ev][c.op])
  IN
  /\ pc[w] = "op" /\ c.op # "end"
  /\ << c.ev, c.op >> \notin stepTask
  /\ outbox' = [outbox EXCEPT ![c.ev][c.op] = row]
  /\ Decide(w, [c EXCEPT !.row = row])
  /\ UNCHANGED << inst, refusal, stepTask, cursor, world, crashes >>

\* origin_wake_satisfied / consumer_ack_satisfied: the check finds the
\* receipt, or fails although it may be there.
Verified(c) == << c.ev, c.op >> \in board

ProbeFinds(w) ==
  LET c == ctx[w] IN
  /\ pc[w] = "probe" /\ Verified(c)
  /\ IF c.row.state = "applied"
     THEN Goto(w, "op", Advanced(c))
     ELSE Goto(w, "mark", [c EXCEPT !.res = "ok"])
  /\ UNCHANGED << store, world, crashes >>

\* Not verified: an applied row goes back to pending, a wake that was already
\* scheduled is waited for, anything else that is due is called.
ProbeMisses(w) ==
  LET c == ctx[w]
      waiting == c.row.last_error = "origin_wake_not_yet_accepted"
  IN
  /\ pc[w] = "probe"
  /\ CASE c.row.state = "applied" ->
            Goto(w, "mark", [c EXCEPT !.res = IF c.op = "schedule_origin_wake"
                                              THEN "not_yet_accepted" ELSE "error"])
       [] c.row.state # "applied" /\ ~ c.row.due -> OpFailed(w, c)
       [] c.row.state # "applied" /\ c.row.due /\ waiting ->
            Goto(w, "mark", [c EXCEPT !.res = "not_yet_accepted"])
       [] OTHER -> Goto(w, "call", c)
  /\ UNCHANGED << store, world, crashes >>

\* The adapter: the board deduplicates by key, so an effect is a set member.
\* A call may fail without effect, take effect and report an error (a timeout,
\* a verification that fails), or succeed.  wake-origin only schedules.
Called(w, label, c, res) ==
  /\ Goto(w, label, [c EXCEPT !.res = res])
  /\ UNCHANGED << store, posted, crashes >>

CallSucceeds(w, from, to) ==
  LET c == ctx[w] IN
  /\ pc[w] = from
  /\ board' = board \union {<< c.ev, c.op >>}
  /\ scheduled' = IF c.op = "schedule_origin_wake" THEN scheduled \union {c.ev} ELSE scheduled
  /\ Called(w, to, c, "ok")

CallSchedules(w, from, to) ==
  LET c == ctx[w] IN
  /\ pc[w] = from /\ c.op = "schedule_origin_wake"
  /\ scheduled' = scheduled \union {c.ev}
  /\ board' = board
  /\ Called(w, to, c, "not_yet_accepted")

CallFails(w, from, to) ==
  LET c == ctx[w] IN
  /\ pc[w] = from
  /\ \/ board' = board /\ scheduled' = scheduled
     \/ /\ c.op = "schedule_origin_wake"
        /\ scheduled' = scheduled \union {c.ev} /\ board' = board
     \/ /\ c.op # "schedule_origin_wake"
        /\ board' = board \union {<< c.ev, c.op >>} /\ scheduled' = scheduled
  /\ Called(w, to, c, "error")

\* The outcome written back.  The refusal handler's _mark_wake_pending has no
\* retry cap; base and reconcile_outbox go through the capped one.
ErrorText(res) == IF res = "not_yet_accepted" THEN "origin_wake_not_yet_accepted" ELSE "none"

\* Mutant of Outcome: the receipt is not looked at.
OutcomeOptimistic(row, c) == MarkedApplied(row, c.op)

Outcome(row, c) ==
  CASE c.res = "ok" -> MarkedApplied(row, c.op)
    [] c.res # "ok" /\ c.op = "schedule_origin_wake" ->
         MarkedPending(row, c.op, ErrorText(c.res))
    [] OTHER -> MarkedFailed(row, c.row, c.op, ErrorText(c.res))

Mark(w) ==
  LET c == ctx[w] IN
  /\ pc[w] = "mark"
  /\ outbox' = [outbox EXCEPT ![c.ev][c.op] = Outcome(outbox[c.ev][c.op], c)]
  /\ IF c.res = "ok" THEN OpSucceeded(w, c) ELSE OpFailed(w, c)
  /\ UNCHANGED << inst, refusal, stepTask, cursor, world, crashes >>

MarkStep(w) ==
  LET c == ctx[w] IN
  /\ pc[w] = "step"
  /\ stepTask' = stepTask \union {<< c.ev, c.op >>}
  /\ Goto(w, "op", Advanced(c))
  /\ UNCHANGED << inst, refusal, outbox, cursor, world, crashes >>

\* All operations are through.  A code_fix instance the handler saw in
\* materializing goes to waiting_review; a refusal is already quarantined.
Finish(w) ==
  LET c == ctx[w] IN
  /\ pc[w] = "op" /\ c.op = "end"
  /\ IF Kind[c.ev] = "code_fix" /\ c.seen = "materializing"
     THEN Goto(w, "read", Moving(c, "waiting_review"))
     ELSE Goto(w, "route", Handled(c))
  /\ UNCHANGED << store, world, crashes >>

-----------------------------------------------------------------------------
(* The end of a tick, and the replay a reconcile pass adds to it.           *)

\* Mutant of AdvanceCursor: the stored cursor is not compared.
AdvanceCursorBlindly(w) ==
  /\ pc[w] = "route" /\ ctx[w].done >= ctx[w].upto
  /\ cursor' = ctx[w].done
  /\ UNCHANGED << ledger, world, crashes >>

\* advance_cursor: never backwards.
AdvanceCursor(w) ==
  /\ pc[w] = "route" /\ ctx[w].done >= ctx[w].upto
  /\ cursor' = IF ctx[w].done > cursor THEN ctx[w].done ELSE cursor
  /\ UNCHANGED << ledger, world, crashes >>

EndTick(w)          == AdvanceCursor(w) /\ Goto(w, "idle", NoCtx)
EndReconcileTick(w) == AdvanceCursor(w) /\ Goto(w, "scan", NoCtx)

\* reconcile_outbox works on the rows as one SELECT returned them.
Scan(w) ==
  /\ pc[w] = "scan"
  /\ Goto(w, "replay",
       [NoCtx EXCEPT !.batch =
          { [ev |-> p[1], op |-> p[2], row |-> outbox[p[1]][p[2]]] :
              p \in { q \in Events \X Ops : Retryable(outbox[q[1]][q[2]]) } }])
  /\ UNCHANGED << store, world, crashes >>

\* Callbacks are probed before they are called again.
ReplayNext(w) ==
  /\ pc[w] = "replay"
  /\ \E item \in ctx[w].batch :
       LET c == [ctx[w] EXCEPT !.ev = item.ev, !.op = item.op, !.row = item.row,
                               !.batch = @ \ {item}]
           callback == item.op \in CALLBACK_ONLY_OPERATIONS
       IN \/ callback /\ Verified(c) /\ Goto(w, "rmark", [c EXCEPT !.res = "ok"])
          \/ IF item.op = "schedule_origin_wake"
                /\ item.row.last_error = "origin_wake_not_yet_accepted"
             THEN Goto(w, "rmark", [c EXCEPT !.res = "not_yet_accepted"])
             ELSE Goto(w, "rcall", c)
  /\ UNCHANGED << store, world, crashes >>

ReplayMark(w) ==
  LET c == ctx[w] IN
  /\ pc[w] = "rmark"
  /\ outbox' = [outbox EXCEPT ![c.ev][c.op] =
       IF c.res = "ok" THEN MarkedApplied(@, c.op)
                       ELSE MarkedFailed(@, c.row, c.op, ErrorText(c.res))]
  /\ IF c.res = "ok" /\ c.op \in CreateOps
     THEN Goto(w, "rstep", [c EXCEPT !.row = NoRow])
     ELSE Goto(w, "replay", [NoCtx EXCEPT !.batch = c.batch])
  /\ UNCHANGED << inst, refusal, stepTask, cursor, world, crashes >>

ReplayStep(w) ==
  LET c == ctx[w] IN
  /\ pc[w] = "rstep"
  /\ stepTask' = stepTask \union {<< c.ev, c.op >>}
  /\ Goto(w, "replay", [NoCtx EXCEPT !.batch = c.batch])
  /\ UNCHANGED << inst, refusal, outbox, cursor, world, crashes >>

EndReconcile(w) ==
  /\ pc[w] = "replay" /\ ctx[w].batch = {}
  /\ Goto(w, "idle", NoCtx)
  /\ UNCHANGED << store, world, crashes >>

-----------------------------------------------------------------------------
(* agentflow-hermes continuation retry: the pending rows of one instance,   *)
(* due or not, each through apply_board_operation with the capped callbacks *)
(* of continuations/base.py.                                                *)

RetrySelect(o) ==
  /\ pc[o] = "idle"
  /\ \E e \in Events :
       /\ inst[e] # NoInst
       /\ Goto(o, "retry",
            [NoCtx EXCEPT !.ev = e, !.batch =
               { [ev |-> e, op |-> op, row |-> NoRow] :
                   op \in { p \in Ops : outbox[e][p].state = "pending" } }])
  /\ UNCHANGED << store, world, crashes >>

NextRow(c) == [NoCtx EXCEPT !.ev = c.ev, !.batch = c.batch]

\* mark_step(int(row["step_id"])): the rows of a step get its task id; the
\* others carry step_id "0", which no step has, and the lookup raises.
RetryApplied(o, c) ==
  IF c.op \in CreateOps
  THEN Goto(o, "tstep", [c EXCEPT !.row = NoRow, !.res = "ok"])
  ELSE Goto(o, "idle", NoCtx)

\* outbox_enqueue finds the row as it is now.
RetryNext(o) ==
  /\ pc[o] = "retry"
  /\ \E item \in ctx[o].batch :
       LET row == outbox[item.ev][item.op]
           c   == [ctx[o] EXCEPT !.ev = item.ev, !.op = item.op, !.row = row, !.batch = @ \ {item}]
       IN CASE row.state = "callback_deadletter" -> Goto(o, "retry", NextRow(c))
            [] row.state = "applied" ->
                 IF item.op \in CALLBACK_ONLY_OPERATIONS
                 THEN Goto(o, "tprobe", c) ELSE RetryApplied(o, c)
            [] row.state = "pending" /\ ~ row.due -> Goto(o, "retry", NextRow(c))
            [] OTHER -> Goto(o, IF item.op = "schedule_origin_wake" THEN "tprobe" ELSE "tcall", c)
  /\ UNCHANGED << store, world, crashes >>

RetryProbe(o) ==
  LET c == ctx[o]
      applied == c.row.state = "applied"
      waiting == c.row.last_error = "origin_wake_not_yet_accepted"
  IN
  /\ pc[o] = "tprobe"
  /\ \/ /\ Verified(c)
        /\ IF applied THEN RetryApplied(o, c) ELSE Goto(o, "tmark", [c EXCEPT !.res = "ok"])
     \/ IF c.op = "schedule_origin_wake" /\ (applied \/ waiting)
        THEN Goto(o, "tmark", [c EXCEPT !.res = "not_yet_accepted"])
        ELSE IF applied THEN Goto(o, "tmark", [c EXCEPT !.res = "error"]) ELSE Goto(o, "tcall", c)
  /\ UNCHANGED << store, world, crashes >>

RetryMark(o) ==
  LET c == ctx[o] IN
  /\ pc[o] = "tmark"
  /\ outbox' = [outbox EXCEPT ![c.ev][c.op] =
       IF c.res = "ok" THEN MarkedApplied(@, c.op)
                       ELSE MarkedFailed(@, c.row, c.op, ErrorText(c.res))]
  /\ IF c.res = "ok" THEN RetryApplied(o, c) ELSE Goto(o, "retry", NextRow(c))
  /\ UNCHANGED << inst, refusal, stepTask, cursor, world, crashes >>

RetryStep(o) ==
  LET c == ctx[o] IN
  /\ pc[o] = "tstep"
  /\ stepTask' = stepTask \union {<< c.ev, c.op >>}
  /\ Goto(o, "retry", NextRow(c))
  /\ UNCHANGED << inst, refusal, outbox, cursor, world, crashes >>

EndRetry(o) ==
  /\ pc[o] = "retry" /\ ctx[o].batch = {}
  /\ Goto(o, "idle", NoCtx)
  /\ UNCHANGED << store, world, crashes >>

-----------------------------------------------------------------------------
Retry(o) ==
  \/ RetrySelect(o) \/ RetryNext(o) \/ RetryProbe(o)
  \/ RetryMark(o) \/ RetryStep(o) \/ EndRetry(o)
  \/ CallSucceeds(o, "tcall", "tmark") \/ CallSchedules(o, "tcall", "tmark")
  \/ CallFails(o, "tcall", "tmark")

Internal(w) ==
  \/ Fetch(w) \/ Route(w) \/ Gate(w)
  \/ TransitionRead(w) \/ TransitionWrite(w) \/ Reread(w) \/ Satisfy(w)
  \/ SkipStep(w) \/ Enqueue(w) \/ ProbeFinds(w) \/ ProbeMisses(w)
  \/ Mark(w) \/ MarkStep(w) \/ Finish(w)
  \/ Scan(w) \/ ReplayNext(w) \/ ReplayMark(w) \/ ReplayStep(w) \/ EndReconcile(w)

Board(w) ==
  \/ CallSucceeds(w, "call", "mark") \/ CallSchedules(w, "call", "mark")
  \/ CallFails(w, "call", "mark")
  \/ CallSucceeds(w, "rcall", "rmark") \/ CallSchedules(w, "rcall", "rmark")
  \/ CallFails(w, "rcall", "rmark")

Next ==
  \/ Post
  \/ \E e \in Events : GatewayAccepts(e)
  \/ \E e \in Events, op \in Ops : Elapse(e, op)
  \/ \E w \in Workers :
       \/ BeginTick(w) \/ Internal(w) \/ Board(w)
       \/ EndTick(w) \/ EndReconcileTick(w)
  \/ \E o \in Operators : Retry(o)
  \/ \E p \in Processes : Crash(p)

Spec == Init /\ [][Next]_vars

-----------------------------------------------------------------------------
(* What the engine promises, however many workers share the store.         *)

\* What must exist before the board may forget an event: the fix and review
\* graph with its return edge, or the recorded refusal.
Obligations(e) ==
  IF Kind[e] = "code_fix"
  THEN CreateOps \union (IF e \in Routable THEN {"subscribe"} ELSE {})
  ELSE {}

Protected(e) ==
  /\ \A op \in Obligations(e) : << e, op >> \in board
  /\ Kind[e] = "semantic_refusal" => e \in refusal

\* The cursor is failed closed: no event falls behind it before its graph, its
\* return edge or its quarantine record is durable (continuation_engine.py,
\* "a failed materialization leaves the cursor unadvanced").
CursorNeverPassesUnprotected == \A e \in Events : e <= cursor => Protected(e)

\* The store never claims an effect the board does not have: an applied outbox
\* row stands for a created task, a verified subscription, an accepted wake or
\* a recorded ACK (scheduled is not accepted), a step's task id for a task.
AppliedIsOnTheBoard ==
  /\ \A e \in Events, op \in Ops : outbox[e][op].state = "applied" => << e, op >> \in board
  /\ stepTask \subseteq board

\* The remediation graph is never dangling: a review exists only under its fix,
\* a subscription only on its review, whoever created them (the handler, a
\* concurrent handler, or the replay of a stale outbox snapshot).
GraphIsRooted ==
  \A e \in Events :
    /\ << e, "review" >> \in board => << e, "code_fix" >> \in board
    /\ << e, "subscribe" >> \in board => << e, "review" >> \in board

\* advance_cursor never moves the cursor back, although a worker that fetched
\* an old batch advances it after one that fetched a newer batch.
CursorIsMonotone == [][cursor' >= cursor]_vars

\* The engine as a cursor over an event log (CursorDelivery).
Delivery ==
  INSTANCE CursorDelivery WITH
    MaxSeq    <- MaxSeq,
    Unguarded <- { e \in Events : Kind[e] = "other" },
    protected <- { e \in 1 .. posted : Protected(e) }

DeliversInOrder == Delivery!Spec

-----------------------------------------------------------------------------
(* What it promises when ticks do not overlap.                             *)

Settled(e) ==
  CASE Kind[e] = "code_fix"         -> inst[e] = "waiting_review"
    [] Kind[e] = "semantic_refusal" -> inst[e] = "blocked_invalid"
    [] OTHER                        -> inst[e] = NoInst

\* An event behind the cursor will never be replayed, so its instance must be
\* in the state its handler promises, after any crash and any number of
\* replays, never parked in failed_retryable or half way (code_fix.py,
\* "instead of getting stuck in FAILED_RETRYABLE forever").
HandledIsSettled == \A e \in Events : e <= cursor => Settled(e)

\* While every pending row of a failed instance is in backoff, scans leave the
\* instance alone (base.py, pending_outbox_retry_not_due: no event storm).
BackoffFreezesInstance ==
  [][\A e \in Events :
       /\ inst[e] = "failed_retryable" /\ RetryNotDue(e) /\ Kind[e] = "code_fix"
       => inst'[e] = inst[e]]_vars

\* A dead-lettered consumer ACK stays dead (base.py, _apply_record_consumer_ack:
\* "zero durable growth on every later retry/restart/reconcile pass").
AckDeadletterIsFinal ==
  [][\A e \in Events :
       outbox[e]["record_consumer_ack"].state = "callback_deadletter"
       => outbox'[e]["record_consumer_ack"] = outbox[e]["record_consumer_ack"]]_vars

-----------------------------------------------------------------------------
(* Liveness.  The daemon's loop and the reconcile timer start ticks for      *)
(* ever, between the retries of an operator too; what was started runs on,   *)
(* time passes, and a board that is asked again and again answers some time. *)

Runs(p) ==
  /\ pc[p] # "idle"
  /\ Internal(p) \/ Board(p) \/ EndTick(p) \/ EndReconcileTick(p) \/ Retry(p)

AnyCallSucceeds(p) ==
  \/ CallSucceeds(p, "call", "mark") \/ CallSucceeds(p, "rcall", "rmark")
  \/ CallSucceeds(p, "tcall", "tmark")

Fairness ==
  /\ \A w \in Workers : SF_vars(BeginTick(w)) /\ SF_vars(EndReconcileTick(w))
  /\ \A p \in Processes : WF_vars(Runs(p)) /\ SF_vars(AnyCallSucceeds(p))
  /\ \A e \in Events, op \in Ops : WF_vars(Elapse(e, op))

FairSpec == Spec /\ Fairness

\* No event is poison: whatever fails on the way, every posted event is
\* protected and then passed by the cursor (M31B cursor poison fix).
EveryEventIsDelivered ==
  \A e \in Events : posted >= e ~> (cursor >= e /\ Protected(e))

\* A callback is retried a bounded number of times: its row reaches applied or
\* the dead letter (base.py, CALLBACK_RETRY_CAP).
CallbackConverges ==
  \A e \in Events, op \in CALLBACK_ONLY_OPERATIONS :
    outbox[e][op].state = "pending" ~> outbox[e][op].state \in { "applied", "callback_deadletter" }

=============================================================================
