---------------------- MODULE ContinuationEngineProofs ----------------------
(***************************************************************************)
(* Proofs about ContinuationEngine for every set of processes, every event   *)
(* log, every retry cap and every number of crashes; the last two parts for  *)
(* a single worker and for a single process, whose ticks do not overlap.    *)
(***************************************************************************)
EXTENDS ContinuationEngine, TLAPS

-----------------------------------------------------------------------------
(* Type correctness.  A board call adds << ev, op >> to the board, so TypeOK *)
(* alone is not inductive: Shape says what a process has in hand at each     *)
(* label.                                                                   *)

Handling == { "gate", "read", "write", "reread", "satisfy", "op", "probe", "call", "mark", "step" }
Replaying == { "rcall", "rmark", "rstep" }
Retrying  == { "tprobe", "tcall", "tmark", "tstep" }
Calling   == { "probe", "call", "mark", "rcall", "rmark", "tprobe", "tcall", "tmark" }
Targets   == { "materializing", "waiting_review", "failed_retryable", "blocked_invalid" }

Shape(l, c) ==
  /\ l \in Handling \union Replaying \union Retrying => c.ev \in Events
  /\ l \in Calling => c.op \in Ops
  /\ l \in { "step", "rstep", "tstep" } => c.op \in CreateOps
  /\ l = "op" => c.op \in Ops \union {"end"}
  /\ l \in { "read", "write" } => c.target \in Targets

TypeInv == TypeOK /\ \A p \in Processes : Shape(pc[p], ctx[p])

LEMMA NoRowType == NoRow \in Row
BY CapAssumption DEF NoRow, Row, RowState

LEMMA NoCtxType == NoCtx \in Context
BY NoRowType, EngineAssumption DEF NoCtx, Context, NoInst, NoOp, Ops, Items

LEMMA MovesType ==
  ASSUME NEW c \in Context, NEW s \in ContinuationState
  PROVE  Moving(c, s) \in Context /\ Moving(c, s).ev = c.ev /\ Moving(c, s).target = s
BY NoRowType DEF Context, Moving, NoOp

LEMMA HandledType ==
  ASSUME NEW c \in Context
  PROVE  Handled(c) \in Context /\ Broken(c) \in Context
BY NoCtxType DEF Context, Handled, Broken

LEMMA FirstOpType ==
  ASSUME NEW e \in Events
  PROVE  FirstOp(e) \in Ops \union {"end"}
BY DEF FirstOp, Ops, GraphOps, CreateOps, CALLBACK_ONLY_OPERATIONS

LEMMA NextOpType ==
  ASSUME NEW e, NEW op
  PROVE  NextOp(e, op) \in Ops \union {"end"}
BY DEF NextOp, Ops, GraphOps, CreateOps, CALLBACK_ONLY_OPERATIONS

LEMMA OpsType ==
  ASSUME NEW c \in Context, c.ev \in Events
  PROVE  /\ StartOps(c) \in Context /\ StartOps(c).op \in Ops \union {"end"} /\ StartOps(c).ev = c.ev
         /\ Advanced(c) \in Context /\ Advanced(c).op \in Ops \union {"end"} /\ Advanced(c).ev = c.ev
BY NoRowType, FirstOpType, NextOpType DEF Context, StartOps, Advanced, AtOp

LEMMA EnqueuedType ==
  ASSUME NEW row \in Row
  PROVE  Enqueued(row) \in Row /\ MarkedDue(row) \in Row
BY NoRowType DEF Row, RowState, Enqueued, MarkedDue

LEMMA RowTypes ==
  ASSUME NEW row \in Row, NEW snap \in Row, NEW op,
         NEW err \in { "none", "origin_wake_not_yet_accepted" }
  PROVE  /\ MarkedApplied(row, op) \in Row /\ MarkedPending(row, op, err) \in Row
         /\ MarkedFailed(row, snap, op, err) \in Row
<1>1. Counted(op, row.attempts) \in 0 .. CALLBACK_RETRY_CAP
  BY CapAssumption DEF Counted, Row
<1>2. /\ MarkedApplied(row, op) \in Row /\ MarkedPending(row, op, err) \in Row
      /\ MarkedDeadletter(row, op, err) \in Row
  BY <1>1 DEF Row, RowState, MarkedApplied, MarkedPending, MarkedDeadletter
<1> QED
  BY <1>2 DEF MarkedFailed

\* A step moves one process to a label with a context that fits it.
Goes(p) == \E l \in Labels, c \in Context : Goto(p, l, c) /\ Shape(l, c)

LEMMA GoesType ==
  ASSUME TypeInv, NEW p \in Processes, Goes(p)
  PROVE  /\ pc' \in [Processes -> Labels]
         /\ ctx' \in [Processes -> Context]
         /\ \A q \in Processes : Shape(pc'[q], ctx'[q])
BY DEF TypeInv, TypeOK, Goto, Goes

LEMMA QuietType ==
  ASSUME TypeInv, NEW p \in Processes, Goes(p), UNCHANGED << store, world >>,
         crashes' \in 0 .. MaxCrashes
  PROVE  TypeInv'
BY GoesType DEF TypeInv, TypeOK, store, world

LEMMA BodyGoes ==
  ASSUME NEW p, NEW c \in Context, c.ev \in Events, Body(p, c)
  PROVE  Goes(p)
BY OpsType DEF Body, Goes, Shape, Labels, Handling, Replaying, Retrying, Calling

\* The labels that ask nothing of their context, and those that ask an event.
LEMMA FreeShape ==
  ASSUME NEW l \in { "idle", "fetch", "route", "scan", "replay", "retry" }, NEW c
  PROVE  l \in Labels /\ Shape(l, c)
BY DEF Shape, Labels, Handling, Replaying, Retrying, Calling

LEMMA GoesTo ==
  ASSUME NEW p, NEW l \in Labels, NEW c \in Context, Shape(l, c), Goto(p, l, c)
  PROVE  Goes(p)
BY DEF Goes

LEMMA AfterTransitionGoes ==
  ASSUME NEW p, NEW c \in Context, c.ev \in Events, c.target \in Targets, AfterTransition(p, c)
  PROVE  Goes(p)
<1>1. CASE c.target = "materializing"
  <2>1. Shape("reread", c) /\ "reread" \in Labels
    BY DEF Shape, Labels, Handling, Replaying, Retrying, Calling
  <2> QED
    BY <1>1, <2>1, GoesTo DEF AfterTransition
<1>2. CASE c.target = "blocked_invalid"
  <2>1. StartOps(c) \in Context /\ StartOps(c).op \in Ops \union {"end"} /\ StartOps(c).ev = c.ev
    BY OpsType
  <2>2. Shape("op", StartOps(c)) /\ "op" \in Labels
    BY <2>1 DEF Shape, Labels, Handling, Replaying, Retrying, Calling
  <2> QED
    BY <1>2, <2>1, <2>2, GoesTo DEF AfterTransition
<1>3. CASE c.target = "waiting_review"
  BY <1>3, FreeShape, HandledType, GoesTo DEF AfterTransition
<1>4. CASE c.target = "failed_retryable"
  BY <1>4, FreeShape, HandledType, GoesTo DEF AfterTransition
<1> QED
  BY <1>1, <1>2, <1>3, <1>4 DEF Targets

LEMMA OpGoes ==
  ASSUME NEW p, NEW c \in Context, c.ev \in Events, OpFailed(p, c) \/ OpSucceeded(p, c)
  PROVE  Goes(p)
<1>1. LET d == Moving(c, "failed_retryable")
      IN  d \in Context /\ d.ev = c.ev /\ d.target = "failed_retryable"
  BY MovesType DEF ContinuationState
<1>2. CASE OpFailed(p, c)
  BY <1>1, <1>2, OpsType
     DEF OpFailed, Goes, Shape, Labels, Targets, Handling, Replaying, Retrying, Calling
<1>3. CASE OpSucceeded(p, c) /\ c.op \in CreateOps
  <2>1. [c EXCEPT !.row = NoRow, !.res = "ok"] \in Context
    BY NoRowType DEF Context
  <2> QED
    BY <1>3, <2>1 DEF OpSucceeded, Goes, Shape, Labels, Handling, Replaying, Retrying, Calling, Context
<1>4. CASE OpSucceeded(p, c) /\ c.op \notin CreateOps
  BY <1>4, OpsType DEF OpSucceeded, Goes, Shape, Labels, Handling, Replaying, Retrying, Calling
<1> QED
  BY <1>2, <1>3, <1>4

-----------------------------------------------------------------------------
(* TypeInv is kept by every step.                                          *)

LEMMA IngestType ==
  ASSUME TypeInv, NEW w \in Workers,
         \/ BeginTick(w) \/ Fetch(w) \/ Route(w) \/ Gate(w)
         \/ TransitionRead(w) \/ TransitionWrite(w) \/ Reread(w) \/ Satisfy(w)
         \/ SkipStep(w) \/ Finish(w) \/ EndTick(w) \/ EndReconcileTick(w)
  PROVE  TypeInv'
<1> DEFINE c == ctx[w]
<1> USE DEF Processes
<1>0. c \in Context /\ Shape(pc[w], c) /\ cursor \in 0 .. MaxSeq /\ posted \in 0 .. MaxSeq
      /\ crashes \in 0 .. MaxCrashes
  BY DEF TypeInv, TypeOK
<1>1. CASE BeginTick(w)
  <2>1. [NoCtx EXCEPT !.done = cursor] \in Context
    BY <1>0, NoCtxType DEF Context
  <2>2. Goes(w)
    BY <1>1, <2>1 DEF BeginTick, Goes, Shape, Labels, Handling, Replaying, Retrying, Calling
  <2> QED
    BY <1>0, <1>1, <2>2, QuietType DEF BeginTick
<1>2. CASE Fetch(w)
  <2>1. [c EXCEPT !.upto = posted] \in Context
    BY <1>0 DEF Context
  <2>2. Goes(w)
    BY <1>2, <2>1 DEF Fetch, Goes, Shape, Labels, Handling, Replaying, Retrying, Calling
  <2> QED
    BY <1>0, <1>2, <2>2, QuietType DEF Fetch
<1>3. CASE Route(w)
  <2> DEFINE e == c.done + 1
             d == [c EXCEPT !.ev = e]
             g == [c EXCEPT !.ev = e, !.seen = inst'[e]]
  <2>0. e \in Events
    <3>1. c.done \in 0 .. MaxSeq /\ c.upto \in 0 .. MaxSeq
      BY <1>0 DEF Context
    <3>2. c.done < c.upto
      BY <1>3 DEF Route
    <3> QED
      BY <3>1, <3>2, EngineAssumption DEF Events
  <2>1. e \in Events /\ d \in Context
    <3>1. e \in 0 .. MaxSeq
      BY <2>0, EngineAssumption DEF Events
    <3> QED
      BY <1>0, <2>0, <3>1 DEF Context
  <2>2. inst' \in [Events -> ContinuationState \union {NoInst}]
    BY <1>3, <2>1 DEF TypeInv, TypeOK, Route, ContinuationState
  <2>3. g \in Context /\ g.ev = e
    BY <1>0, <2>1, <2>2 DEF Context, Events
  <2>4. Goes(w)
    <3>1. CASE Kind[e] = "other"
      <4>1. Handled(d) \in Context /\ Goto(w, "route", Handled(d))
        BY <1>3, <2>1, <3>1, HandledType DEF Route
      <4>2. Shape("route", Handled(d)) /\ "route" \in Labels
        BY DEF Shape, Labels, Handling, Replaying, Retrying, Calling
      <4> QED
        BY <4>1, <4>2 DEF Goes
    <3>2. CASE Kind[e] # "other"
      <4>1. Goto(w, "gate", g)
        BY <1>3, <3>2 DEF Route
      <4>2. Shape("gate", g) /\ "gate" \in Labels
        BY <2>1, <2>3 DEF Shape, Labels, Handling, Replaying, Retrying, Calling
      <4> QED
        BY <2>3, <4>1, <4>2 DEF Goes
    <3> QED
      BY <3>1, <3>2
  <2> QED
    BY <1>3, <2>2, <2>4, GoesType DEF Route, TypeInv, TypeOK, world
<1>4. CASE Gate(w)
  <2>1. c.ev \in Events
    BY <1>0, <1>4 DEF Gate, Shape, Handling
  <2>2. Goes(w)
    BY <1>0, <1>4, <2>1, HandledType, MovesType, BodyGoes
       DEF Gate, Goes, Shape, Labels, Handling, Replaying, Retrying, Calling, ContinuationState, Targets
  <2> QED
    BY <1>0, <1>4, <2>2, QuietType DEF Gate
<1>5. CASE TransitionRead(w)
  <2>1. c.ev \in Events /\ c.target \in Targets
    BY <1>0, <1>5 DEF TransitionRead, Shape, Handling
  <2>2. Goes(w)
    BY <1>0, <1>5, <2>1, AfterTransitionGoes
       DEF TransitionRead, Goes, Shape, Labels, Handling, Replaying, Retrying, Calling
  <2> QED
    BY <1>0, <1>5, <2>2, QuietType DEF TransitionRead
<1>6. CASE TransitionWrite(w)
  <2>1. c.ev \in Events /\ c.target \in Targets
    BY <1>0, <1>6 DEF TransitionWrite, Shape, Handling
  <2>2. Goes(w)
    BY <1>0, <1>6, <2>1, AfterTransitionGoes DEF TransitionWrite
  <2>3. inst' \in [Events -> ContinuationState \union {NoInst}]
    BY <1>6, <2>1 DEF TypeInv, TypeOK, TransitionWrite, Targets, ContinuationState
  <2> QED
    BY <1>6, <2>2, <2>3, GoesType DEF TransitionWrite, TypeInv, TypeOK, world
<1>7. CASE Reread(w)
  <2> DEFINE d == [c EXCEPT !.seen = inst[c.ev], !.target = NoInst]
  <2>1. c.ev \in Events
    BY <1>0, <1>7 DEF Reread, Shape, Handling
  <2>2. d \in Context /\ d.ev = c.ev
    BY <1>0, <2>1 DEF Context, TypeInv, TypeOK
  <2>3. Goes(w)
    BY <1>7, <2>1, <2>2, BodyGoes DEF Reread
  <2> QED
    BY <1>0, <1>7, <2>3, QuietType DEF Reread
<1>8. CASE Satisfy(w)
  <2>1. c.ev \in Events
    BY <1>0, <1>8 DEF Satisfy, Shape, Handling
  <2>2. Goes(w)
    BY <1>0, <1>8, <2>1, MovesType, OpsType
       DEF Satisfy, Goes, Shape, Labels, Handling, Replaying, Retrying, Calling, ContinuationState, Targets
  <2> QED
    BY <1>8, <2>1, <2>2, GoesType DEF Satisfy, TypeInv, TypeOK, world
<1>9. CASE SkipStep(w)
  <2>1. c.ev \in Events
    BY <1>0, <1>9 DEF SkipStep, Shape, Handling
  <2>2. Goes(w)
    BY <1>0, <1>9, <2>1, OpsType
       DEF SkipStep, Goes, Shape, Labels, Handling, Replaying, Retrying, Calling
  <2> QED
    BY <1>0, <1>9, <2>2, QuietType DEF SkipStep
<1>10. CASE Finish(w)
  <2>1. c.ev \in Events
    BY <1>0, <1>10 DEF Finish, Shape, Handling
  <2>2. Goes(w)
    BY <1>0, <1>10, <2>1, HandledType, MovesType
       DEF Finish, Goes, Shape, Labels, Handling, Replaying, Retrying, Calling, ContinuationState, Targets
  <2> QED
    BY <1>0, <1>10, <2>2, QuietType DEF Finish
<1>11. CASE EndTick(w) \/ EndReconcileTick(w)
  <2>1. Goes(w)
    BY <1>11, NoCtxType
       DEF EndTick, EndReconcileTick, Goes, Shape, Labels, Handling, Replaying, Retrying, Calling
  <2>2. cursor' \in 0 .. MaxSeq
    BY <1>0, <1>11 DEF EndTick, EndReconcileTick, AdvanceCursor, Context
  <2> QED
    BY <1>11, <2>1, <2>2, GoesType DEF EndTick, EndReconcileTick, AdvanceCursor, TypeInv, TypeOK, ledger, world
<1> QED
  BY <1>1, <1>2, <1>3, <1>4, <1>5, <1>6, <1>7, <1>8, <1>9, <1>10, <1>11

LEMMA OutboxType ==
  ASSUME TypeInv, NEW e \in Events, NEW op \in Ops, NEW row \in Row,
         outbox' = [outbox EXCEPT ![e][op] = row]
  PROVE  outbox' \in [Events -> [Ops -> Row]]
BY DEF TypeInv, TypeOK

LEMMA OutcomeType ==
  ASSUME NEW c \in Context, NEW row \in Row
  PROVE  /\ Outcome(row, c) \in Row
         /\ MarkedApplied(row, c.op) \in Row
         /\ MarkedFailed(row, c.row, c.op, ErrorText(c.res)) \in Row
<1>1. ErrorText(c.res) \in { "none", "origin_wake_not_yet_accepted" } /\ c.row \in Row
  BY DEF ErrorText, Context
<1> QED
  BY <1>1, RowTypes DEF Outcome

LEMMA OperationType ==
  ASSUME TypeInv, NEW w \in Processes,
         Enqueue(w) \/ ProbeFinds(w) \/ ProbeMisses(w) \/ Mark(w) \/ MarkStep(w)
  PROVE  TypeInv'
<1> DEFINE c == ctx[w]
<1>0. c \in Context /\ Shape(pc[w], c) /\ crashes \in 0 .. MaxCrashes
  BY DEF TypeInv, TypeOK
<1>a. c.ev \in Events
  BY <1>0 DEF Enqueue, ProbeFinds, ProbeMisses, Mark, MarkStep, Shape, Handling
<1>1. CASE Enqueue(w)
  <2> DEFINE row == Enqueued(outbox[c.ev][c.op])
             d == [c EXCEPT !.row = row]
  <2>1. c.op \in Ops
    BY <1>0, <1>1 DEF Enqueue, Shape
  <2>2. row \in Row
    BY <1>a, <2>1, EnqueuedType DEF TypeInv, TypeOK
  <2>3. d \in Context /\ d.ev = c.ev /\ d.op = c.op
    BY <1>0, <2>2 DEF Context
  <2>4. Decide(w, d)
    BY <1>1 DEF Enqueue
  <2>5. Goes(w)
    <3>1. \/ Goto(w, "probe", d) \/ Goto(w, "call", d) \/ OpFailed(w, d) \/ OpSucceeded(w, d)
      BY <2>1, <2>3, <2>4 DEF Decide
    <3> QED
      BY <1>a, <2>1, <2>3, <3>1, OpGoes
         DEF Goes, Shape, Labels, Handling, Replaying, Retrying, Calling
  <2>6. outbox' \in [Events -> [Ops -> Row]]
    BY <1>1, <1>a, <2>1, <2>2, OutboxType DEF Enqueue
  <2> QED
    BY <1>1, <2>5, <2>6, GoesType DEF Enqueue, TypeInv, TypeOK, world
<1>2. CASE ProbeFinds(w) \/ ProbeMisses(w)
  <2>1. c.op \in Ops
    BY <1>0, <1>2 DEF ProbeFinds, ProbeMisses, Shape, Calling
  <2>2. \A r \in { "ok", "error", "not_yet_accepted" } :
          LET d == [c EXCEPT !.res = r] IN d \in Context /\ d.ev = c.ev /\ d.op = c.op
    BY <1>0 DEF Context
  <2>3. CASE ProbeFinds(w)
    <3>1. Goto(w, "op", Advanced(c)) \/ Goto(w, "mark", [c EXCEPT !.res = "ok"])
      BY <2>3 DEF ProbeFinds
    <3>2. Goes(w)
      BY <1>0, <1>a, <2>1, <2>2, <3>1, OpsType
         DEF Goes, Shape, Labels, Handling, Replaying, Retrying, Calling
    <3> QED
      BY <1>0, <2>3, <3>2, QuietType DEF ProbeFinds
  <2>4. CASE ProbeMisses(w)
    <3>1. \/ \E r \in { "error", "not_yet_accepted" } : Goto(w, "mark", [c EXCEPT !.res = r])
          \/ OpFailed(w, c)
          \/ Goto(w, "call", c)
      BY <2>4 DEF ProbeMisses
    <3>2. Goes(w)
      BY <1>0, <1>a, <2>1, <2>2, <3>1, OpGoes
         DEF Goes, Shape, Labels, Handling, Replaying, Retrying, Calling
    <3> QED
      BY <1>0, <2>4, <3>2, QuietType DEF ProbeMisses
  <2> QED
    BY <1>2, <2>3, <2>4
<1>3. CASE Mark(w)
  <2>1. c.op \in Ops
    BY <1>0, <1>3 DEF Mark, Shape, Calling
  <2>2. Goes(w)
    BY <1>0, <1>a, <1>3, OpGoes DEF Mark
  <2>3. outbox' \in [Events -> [Ops -> Row]]
    <3>1. outbox[c.ev][c.op] \in Row
      BY <1>a, <2>1 DEF TypeInv, TypeOK
    <3>2. Outcome(outbox[c.ev][c.op], c) \in Row
      BY <1>0, <3>1, OutcomeType
    <3> QED
      BY <1>3, <1>a, <2>1, <3>2, OutboxType DEF Mark
  <2> QED
    BY <1>3, <2>2, <2>3, GoesType DEF Mark, TypeInv, TypeOK, world
<1>4. CASE MarkStep(w)
  <2>1. c.op \in CreateOps
    BY <1>0, <1>4 DEF MarkStep, Shape
  <2>2. Goes(w)
    BY <1>0, <1>a, <1>4, OpsType
       DEF MarkStep, Goes, Shape, Labels, Handling, Replaying, Retrying, Calling
  <2> QED
    BY <1>4, <1>a, <2>1, <2>2, GoesType DEF MarkStep, TypeInv, TypeOK, world
<1> QED
  BY <1>1, <1>2, <1>3, <1>4

LEMMA CallType ==
  ASSUME TypeInv, NEW p \in Processes,
         NEW from, NEW to, << from, to >> \in { << "call", "mark" >>, << "rcall", "rmark" >>, << "tcall", "tmark" >> },
         CallSucceeds(p, from, to) \/ CallSchedules(p, from, to) \/ CallFails(p, from, to)
  PROVE  TypeInv'
<1> DEFINE c == ctx[p]
<1>0. c \in Context /\ Shape(pc[p], c)
  BY DEF TypeInv, TypeOK
<1>1. c.ev \in Events /\ c.op \in Ops
  BY <1>0 DEF CallSucceeds, CallSchedules, CallFails, Shape, Handling, Replaying, Retrying, Calling
<1>2. \E r \in { "ok", "error", "not_yet_accepted" } : Called(p, to, c, r)
  BY DEF CallSucceeds, CallSchedules, CallFails
<1>3. \A r \in { "ok", "error", "not_yet_accepted" } :
        LET d == [c EXCEPT !.res = r] IN d \in Context /\ d.ev = c.ev /\ d.op = c.op
  BY <1>0 DEF Context
<1>4. Goes(p)
  BY <1>1, <1>2, <1>3 DEF Called, Goes, Shape, Labels, Handling, Replaying, Retrying, Calling
<1>5. board' \subseteq Events \X Ops /\ scheduled' \subseteq Events
  BY <1>1 DEF CallSucceeds, CallSchedules, CallFails, TypeInv, TypeOK
<1> QED
  BY <1>2, <1>4, <1>5, GoesType DEF Called, TypeInv, TypeOK, store

LEMMA ReplayType ==
  ASSUME TypeInv, NEW w \in Processes,
         Scan(w) \/ ReplayNext(w) \/ ReplayMark(w) \/ ReplayStep(w) \/ EndReconcile(w)
  PROVE  TypeInv'
<1> DEFINE c == ctx[w]
<1>0. c \in Context /\ Shape(pc[w], c) /\ crashes \in 0 .. MaxCrashes
  BY DEF TypeInv, TypeOK
<1>a. [NoCtx EXCEPT !.batch = c.batch] \in Context
  BY <1>0, NoCtxType DEF Context
<1>1. CASE Scan(w)
  <2> DEFINE rows == { [ev |-> p[1], op |-> p[2], row |-> outbox[p[1]][p[2]]] :
                         p \in { q \in Events \X Ops : Retryable(outbox[q[1]][q[2]]) } }
  <2>1. rows \subseteq Items
    BY DEF Items, TypeInv, TypeOK
  <2>2. [NoCtx EXCEPT !.batch = rows] \in Context
    BY <2>1, NoCtxType DEF Context
  <2>3. Goes(w)
    BY <1>1, <2>2 DEF Scan, Goes, Shape, Labels, Handling, Replaying, Retrying, Calling
  <2> QED
    BY <1>0, <1>1, <2>3, QuietType DEF Scan
<1>2. CASE ReplayNext(w)
  <2>1. PICK item \in c.batch :
          LET d == [c EXCEPT !.ev = item.ev, !.op = item.op, !.row = item.row, !.batch = @ \ {item}]
          IN  \/ \E r \in { "ok", "not_yet_accepted" } : Goto(w, "rmark", [d EXCEPT !.res = r])
              \/ Goto(w, "rcall", d)
    BY <1>2 DEF ReplayNext
  <2> DEFINE d == [c EXCEPT !.ev = item.ev, !.op = item.op, !.row = item.row, !.batch = @ \ {item}]
  <2>2. item.ev \in Events /\ item.op \in Ops /\ item.row \in Row
        /\ item.ev \in 0 .. MaxSeq /\ c.batch \ {item} \in SUBSET Items
    BY <1>0, <2>1 DEF Context, Items, Events
  <2>3. d \in Context /\ d.ev = item.ev /\ d.op = item.op
    BY <1>0, <2>2 DEF Context
  <2>4. \A r \in { "ok", "not_yet_accepted" } :
          LET f == [d EXCEPT !.res = r] IN f \in Context /\ f.ev = item.ev /\ f.op = item.op
    BY <2>3 DEF Context
  <2>5. Goes(w)
    BY <2>1, <2>2, <2>3, <2>4 DEF Goes, Shape, Labels, Handling, Replaying, Retrying, Calling
  <2> QED
    BY <1>0, <1>2, <2>5, QuietType DEF ReplayNext
<1>3. CASE ReplayMark(w)
  <2>1. c.ev \in Events /\ c.op \in Ops
    BY <1>0, <1>3 DEF ReplayMark, Shape, Handling, Replaying, Calling
  <2>2. [c EXCEPT !.row = NoRow] \in Context /\ [c EXCEPT !.row = NoRow].ev = c.ev
        /\ [c EXCEPT !.row = NoRow].op = c.op
    BY <1>0, NoRowType DEF Context
  <2>3. Goes(w)
    BY <1>3, <1>a, <2>1, <2>2
       DEF ReplayMark, Goes, Shape, Labels, Handling, Replaying, Retrying, Calling
  <2>4. outbox' \in [Events -> [Ops -> Row]]
    <3>1. outbox[c.ev][c.op] \in Row
      BY <2>1 DEF TypeInv, TypeOK
    <3>2. (IF c.res = "ok" THEN MarkedApplied(outbox[c.ev][c.op], c.op)
           ELSE MarkedFailed(outbox[c.ev][c.op], c.row, c.op, ErrorText(c.res))) \in Row
      BY <1>0, <3>1, OutcomeType
    <3> QED
      BY <1>3, <2>1, <3>2 DEF ReplayMark, TypeInv, TypeOK
  <2> QED
    BY <1>3, <2>3, <2>4, GoesType DEF ReplayMark, TypeInv, TypeOK, world
<1>4. CASE ReplayStep(w)
  <2>1. c.ev \in Events /\ c.op \in CreateOps
    BY <1>0, <1>4 DEF ReplayStep, Shape, Replaying
  <2>2. Goes(w)
    BY <1>4, <1>a DEF ReplayStep, Goes, Shape, Labels, Handling, Replaying, Retrying, Calling
  <2> QED
    BY <1>4, <2>1, <2>2, GoesType DEF ReplayStep, TypeInv, TypeOK, world
<1>5. CASE EndReconcile(w)
  <2>1. Goes(w)
    BY <1>5, NoCtxType DEF EndReconcile, Goes, Shape, Labels, Handling, Replaying, Retrying, Calling
  <2> QED
    BY <1>0, <1>5, <2>1, QuietType DEF EndReconcile
<1> QED
  BY <1>1, <1>2, <1>3, <1>4, <1>5

LEMMA RetryType ==
  ASSUME TypeInv, NEW o \in Processes,
         \/ RetrySelect(o) \/ RetryNext(o) \/ RetryProbe(o)
         \/ RetryMark(o) \/ RetryStep(o) \/ EndRetry(o)
  PROVE  TypeInv'
<1> DEFINE c == ctx[o]
<1>0. c \in Context /\ Shape(pc[o], c) /\ crashes \in 0 .. MaxCrashes
  BY DEF TypeInv, TypeOK
<1>a. \A d \in Context : NextRow(d) \in Context
  BY NoCtxType DEF Context, NextRow
<1>b. ASSUME NEW d \in Context, d.ev \in Events, RetryApplied(o, d)
      PROVE  Goes(o)
  <2> DEFINE t == [d EXCEPT !.row = NoRow, !.res = "ok"]
  <2>1. t \in Context /\ t.ev = d.ev /\ t.op = d.op
    BY NoRowType DEF Context
  <2>2. CASE d.op \in CreateOps
    <3>1. Shape("tstep", t) /\ "tstep" \in Labels
      BY <1>b, <2>1, <2>2 DEF Shape, Labels, Handling, Replaying, Retrying, Calling
    <3>2. Goto(o, "tstep", t)
      BY <1>b, <2>2 DEF RetryApplied
    <3> QED
      BY <2>1, <3>1, <3>2, GoesTo
  <2>3. CASE d.op \notin CreateOps
    BY <1>b, <2>3, NoCtxType, FreeShape, GoesTo DEF RetryApplied
  <2> QED
    BY <2>2, <2>3
<1>1. CASE RetrySelect(o)
  <2>1. PICK e \in Events :
          Goto(o, "retry",
            [NoCtx EXCEPT !.ev = e, !.batch =
               { [ev |-> e, op |-> op, row |-> NoRow] :
                   op \in { p \in Ops : outbox[e][p].state = "pending" } }])
    BY <1>1 DEF RetrySelect
  <2> DEFINE rows == { [ev |-> e, op |-> op, row |-> NoRow] :
                         op \in { p \in Ops : outbox[e][p].state = "pending" } }
  <2>2. rows \in SUBSET Items /\ e \in 0 .. MaxSeq
    BY NoRowType DEF Items, Events
  <2> HIDE DEF rows
  <2>3. [NoCtx EXCEPT !.ev = e, !.batch = rows] \in Context
    BY <2>2, NoCtxType DEF Context
  <2> USE DEF rows
  <2>4. Goes(o)
    BY <2>1, <2>3 DEF Goes, Shape, Labels, Handling, Replaying, Retrying, Calling
  <2> QED
    BY <1>0, <1>1, <2>4, QuietType DEF RetrySelect
<1>2. CASE RetryNext(o)
  <2>1. PICK item \in c.batch :
          LET d == [c EXCEPT !.ev = item.ev, !.op = item.op, !.row = outbox[item.ev][item.op],
                             !.batch = @ \ {item}]
          IN  \/ Goto(o, "retry", NextRow(d)) \/ Goto(o, "tprobe", d) \/ Goto(o, "tcall", d)
              \/ RetryApplied(o, d)
    BY <1>2 DEF RetryNext
  <2> DEFINE d == [c EXCEPT !.ev = item.ev, !.op = item.op, !.row = outbox[item.ev][item.op],
                            !.batch = @ \ {item}]
  <2>2. item.ev \in Events /\ item.op \in Ops
        /\ item.ev \in 0 .. MaxSeq /\ c.batch \ {item} \in SUBSET Items
    BY <1>0, <2>1 DEF Context, Items, Events
  <2>3. outbox[item.ev][item.op] \in Row
    BY <2>2 DEF TypeInv, TypeOK
  <2>4. d \in Context /\ d.ev = item.ev /\ d.op = item.op
    BY <1>0, <2>2, <2>3 DEF Context
  <2>5. Goes(o)
    <3>1. /\ "tprobe" \in Labels /\ Shape("tprobe", d)
          /\ "tcall" \in Labels /\ Shape("tcall", d)
      BY <2>2, <2>4 DEF Shape, Labels, Handling, Replaying, Retrying, Calling
    <3>2. CASE Goto(o, "retry", NextRow(d))
      BY <1>a, <2>4, <3>2, FreeShape, GoesTo
    <3>3. CASE Goto(o, "tprobe", d) \/ Goto(o, "tcall", d)
      BY <2>4, <3>1, <3>3, GoesTo
    <3>4. CASE RetryApplied(o, d)
      BY <1>b, <2>2, <2>4, <3>4
    <3> QED
      BY <2>1, <3>2, <3>3, <3>4
  <2> QED
    BY <1>0, <1>2, <2>5, QuietType DEF RetryNext
<1>3. CASE RetryProbe(o)
  <2>1. c.ev \in Events /\ c.op \in Ops
    BY <1>0, <1>3 DEF RetryProbe, Shape, Retrying, Calling
  <2>2. \/ \E r \in { "ok", "error", "not_yet_accepted" } : Goto(o, "tmark", [c EXCEPT !.res = r])
        \/ RetryApplied(o, c)
        \/ Goto(o, "tcall", c)
    BY <1>3 DEF RetryProbe
  <2>3. \A r \in { "ok", "error", "not_yet_accepted" } :
          LET d == [c EXCEPT !.res = r] IN d \in Context /\ d.ev = c.ev /\ d.op = c.op
    BY <1>0 DEF Context
  <2>4. Goes(o)
    BY <1>0, <1>b, <2>1, <2>2, <2>3 DEF Goes, Shape, Labels, Handling, Replaying, Retrying, Calling
  <2> QED
    BY <1>0, <1>3, <2>4, QuietType DEF RetryProbe
<1>4. CASE RetryMark(o)
  <2>1. c.ev \in Events /\ c.op \in Ops
    BY <1>0, <1>4 DEF RetryMark, Shape, Retrying, Calling
  <2>2. Goes(o)
    BY <1>0, <1>4, <1>a, <1>b, <2>1
       DEF RetryMark, Goes, Shape, Labels, Handling, Replaying, Retrying, Calling
  <2>3. outbox' \in [Events -> [Ops -> Row]]
    <3>1. outbox[c.ev][c.op] \in Row
      BY <2>1 DEF TypeInv, TypeOK
    <3>2. (IF c.res = "ok" THEN MarkedApplied(outbox[c.ev][c.op], c.op)
           ELSE MarkedFailed(outbox[c.ev][c.op], c.row, c.op, ErrorText(c.res))) \in Row
      BY <1>0, <3>1, OutcomeType
    <3> QED
      BY <1>4, <2>1, <3>2 DEF RetryMark, TypeInv, TypeOK
  <2> QED
    BY <1>4, <2>2, <2>3, GoesType DEF RetryMark, TypeInv, TypeOK, world
<1>5. CASE RetryStep(o)
  <2>1. c.ev \in Events /\ c.op \in CreateOps
    BY <1>0, <1>5 DEF RetryStep, Shape, Retrying
  <2>2. Goes(o)
    BY <1>0, <1>5, <1>a DEF RetryStep, Goes, Shape, Labels, Handling, Replaying, Retrying, Calling
  <2> QED
    BY <1>5, <2>1, <2>2, GoesType DEF RetryStep, TypeInv, TypeOK, world
<1>6. CASE EndRetry(o)
  <2>1. Goes(o)
    BY <1>6, NoCtxType DEF EndRetry, Goes, Shape, Labels, Handling, Replaying, Retrying, Calling
  <2> QED
    BY <1>0, <1>6, <2>1, QuietType DEF EndRetry
<1> QED
  BY <1>1, <1>2, <1>3, <1>4, <1>5, <1>6

LEMMA WorldType ==
  ASSUME TypeInv,
         \/ Post
         \/ \E e \in Events : GatewayAccepts(e)
         \/ \E e \in Events, op \in Ops : Elapse(e, op)
         \/ \E p \in Processes : Crash(p)
  PROVE  TypeInv'
<1>1. CASE Post
  BY <1>1, EngineAssumption DEF Post, TypeInv, TypeOK, store
<1>2. ASSUME NEW e \in Events, GatewayAccepts(e) PROVE TypeInv'
  <2>1. "schedule_origin_wake" \in Ops
    BY DEF Ops, CALLBACK_ONLY_OPERATIONS
  <2>2. board' \subseteq Events \X Ops
    BY <1>2, <2>1 DEF GatewayAccepts, TypeInv, TypeOK
  <2> QED
    BY <1>2, <2>2 DEF GatewayAccepts, TypeInv, TypeOK, store
<1>3. ASSUME NEW e \in Events, NEW op \in Ops, Elapse(e, op) PROVE TypeInv'
  <2>1. MarkedDue(outbox[e][op]) \in Row
    BY EnqueuedType DEF TypeInv, TypeOK
  <2>2. outbox' \in [Events -> [Ops -> Row]]
    BY <1>3, <2>1, OutboxType DEF Elapse
  <2> QED
    BY <1>3, <2>2 DEF Elapse, TypeInv, TypeOK, world
<1>4. ASSUME NEW p \in Processes, Crash(p) PROVE TypeInv'
  <2>1. Goes(p)
    BY <1>4, NoCtxType DEF Crash, Goes, Shape, Labels, Handling, Replaying, Retrying, Calling
  <2>2. crashes' \in 0 .. MaxCrashes
    BY <1>4, EngineAssumption DEF Crash, TypeInv, TypeOK
  <2> QED
    BY <1>4, <2>1, <2>2, QuietType DEF Crash
<1> QED
  BY <1>1, <1>2, <1>3, <1>4

LEMMA TypeInit == Init => TypeInv
<1> SUFFICES ASSUME Init PROVE TypeInv
  OBVIOUS
<1>1. TypeOK
  BY NoRowType, NoCtxType, EngineAssumption DEF Init, TypeOK, Labels, NoInst
<1>2. \A p \in Processes : Shape(pc[p], ctx[p])
  BY DEF Init, Shape, Handling, Replaying, Retrying, Calling
<1> QED
  BY <1>1, <1>2 DEF TypeInv

LEMMA TypeStep == TypeInv /\ [Next]_vars => TypeInv'
<1> SUFFICES ASSUME TypeInv, [Next]_vars PROVE TypeInv'
  OBVIOUS
<1>1. CASE UNCHANGED vars
  BY <1>1 DEF vars, store, world, TypeInv, TypeOK
<1>2. ASSUME NEW w \in Workers, BeginTick(w) \/ Internal(w) \/ EndTick(w) \/ EndReconcileTick(w)
      PROVE  TypeInv'
  <2>1. w \in Processes
    BY DEF Processes
  <2> QED
    BY <1>2, <2>1, IngestType, OperationType, ReplayType DEF Internal
<1>3. ASSUME NEW w \in Workers, Board(w) PROVE TypeInv'
  <2>1. w \in Processes
    BY DEF Processes
  <2> QED
    BY <1>3, <2>1, CallType DEF Board
<1>4. ASSUME NEW o \in Operators, Retry(o) PROVE TypeInv'
  <2>1. o \in Processes
    BY DEF Processes
  <2> QED
    BY <1>4, <2>1, RetryType, CallType DEF Retry
<1> QED
  BY <1>1, <1>2, <1>3, <1>4, WorldType DEF Next

\* Every variable keeps its type: whatever the store, the board and the
\* processes go through (crashes included), no process is at a label with an
\* event, an operation or a target state it cannot have there.
THEOREM TypeCorrect == Spec => []TypeOK
<1>1. Spec => []TypeInv
  BY TypeInit, TypeStep, PTL DEF Spec
<1>2. TypeInv => TypeOK
  BY DEF TypeInv
<1> QED
  BY <1>1, <1>2, PTL

-----------------------------------------------------------------------------
(* The cursor.  CursorNeverPassesUnprotected only constrains the cursor, and *)
(* the cursor comes from a worker's memory: the invariant has to say what a  *)
(* worker may rely on at each label, and that what it relies on (effects on  *)
(* the board, recorded refusals) never goes away, so that it is still true   *)
(* after any number of steps of other processes.                            *)

\* Protected, of an explicit board b and set r of recorded refusals.
Prot(b, r, e) ==
  /\ \A op \in Obligations(e) : << e, op >> \in b
  /\ Kind[e] = "semantic_refusal" => e \in r

\* The effects that precede an operation of the handlers, or its roots in the
\* graph when it is replayed.
Before(e, op) ==
  CASE op = "code_fix"  -> {}
    [] op = "review"    -> {"code_fix"}
    [] op = "subscribe" -> CreateOps
    [] OTHER            -> Obligations(e)

Roots(op) ==
  CASE op = "review"    -> {"code_fix"}
    [] op = "subscribe" -> {"review"}
    [] OTHER            -> {}

Has(b, e, ops) == \A op \in ops : << e, op >> \in b

Sound(b, r, l, c) ==
  /\ \A e \in Events : e <= c.done => Prot(b, r, e)
  /\ l \in Handling => c.ev = c.done + 1
  /\ l \in { "op", "probe", "call", "mark", "step" } =>
       /\ Has(b, c.ev, Before(c.ev, c.op))
       /\ Kind[c.ev] = "semantic_refusal" => c.ev \in r
  /\ l \in { "read", "write" } =>
       /\ c.target = "waiting_review" => Prot(b, r, c.ev)
       /\ c.target = "blocked_invalid" => (Kind[c.ev] = "semantic_refusal" => c.ev \in r)
  /\ l \in { "mark", "rmark", "tmark" } /\ c.res = "ok" => << c.ev, c.op >> \in b
  /\ l \in { "step", "rstep", "tstep" } => << c.ev, c.op >> \in b
  /\ l \in Calling => Has(b, c.ev, Roots(c.op))
  /\ \A item \in c.batch : Has(b, item.ev, Roots(item.op))

RowsAreRooted ==
  \A e \in Events, op \in Ops :
    outbox[e][op].state # "absent" => Has(board, e, Roots(op))

IInv ==
  /\ TypeInv
  /\ \A p \in Processes : Sound(board, refusal, pc[p], ctx[p])
  /\ CursorNeverPassesUnprotected
  /\ AppliedIsOnTheBoard
  /\ RowsAreRooted
  /\ GraphIsRooted

LEMMA ProtectedIsProt == \A e \in Events : Protected(e) <=> Prot(board, refusal, e)
BY DEF Protected, Prot

LEMMA SoundGrows ==
  ASSUME NEW b, NEW b2, NEW r, NEW r2, NEW l, NEW c,
         b \subseteq b2, r \subseteq r2, Sound(b, r, l, c)
  PROVE  Sound(b2, r2, l, c)
BY DEF Sound, Has, Prot

\* Grown: the world only grows.
Grown == board \subseteq board' /\ refusal \subseteq refusal'

SoundTo(b, r, p) == \E l \in Labels, c \in Context : Goto(p, l, c) /\ Sound(b, r, l, c)
SoundGoes(p) == SoundTo(board', refusal', p)

LEMMA SoundMoves ==
  ASSUME IInv, NEW p \in Processes, SoundGoes(p), Grown
  PROVE  \A q \in Processes : Sound(board', refusal', pc'[q], ctx'[q])
<1> SUFFICES ASSUME NEW q \in Processes PROVE Sound(board', refusal', pc'[q], ctx'[q])
  OBVIOUS
<1>1. PICK l \in Labels, c \in Context : Goto(p, l, c) /\ Sound(board', refusal', l, c)
  BY DEF SoundGoes, SoundTo
<1>2. CASE q = p
  BY <1>1, <1>2 DEF Goto, IInv, TypeInv, TypeOK
<1>3. CASE q # p
  <2>1. pc'[q] = pc[q] /\ ctx'[q] = ctx[q]
    BY <1>1, <1>3 DEF Goto, IInv, TypeInv, TypeOK
  <2>2. Sound(board, refusal, pc[q], ctx[q])
    BY DEF IInv
  <2> QED
    BY <2>1, <2>2, SoundGrows DEF Grown
<1> QED
  BY <1>2, <1>3

LEMMA StillProtected ==
  ASSUME Grown, NEW e \in Events, Prot(board, refusal, e)
  PROVE  Prot(board', refusal', e)
BY DEF Grown, Prot

\* A step that leaves the store and the board alone.
LEMMA SoundQuiet ==
  ASSUME IInv, TypeInv', NEW p \in Processes, SoundGoes(p), UNCHANGED << store, world >>
  PROVE  IInv'
<1>1. Grown
  BY DEF Grown, store, world
<1>2. \A q \in Processes : Sound(board', refusal', pc'[q], ctx'[q])
  BY <1>1, SoundMoves
<1> QED
  BY <1>2 DEF IInv, CursorNeverPassesUnprotected, AppliedIsOnTheBoard, RowsAreRooted, GraphIsRooted,
     Protected, Has, store, world

\* A step that writes the outbox: the new row is honest and rooted.
LEMMA SoundOutbox ==
  ASSUME IInv, TypeInv', NEW p \in Processes, SoundGoes(p),
         NEW e \in Events, NEW op \in Ops, NEW row,
         outbox' = [outbox EXCEPT ![e][op] = row],
         row.state = "applied" => << e, op >> \in board,
         Has(board, e, Roots(op)),
         UNCHANGED << inst, refusal, stepTask, cursor, world >>
  PROVE  IInv'
<1>1. Grown
  BY DEF Grown, world
<1>2. \A q \in Processes : Sound(board', refusal', pc'[q], ctx'[q])
  BY <1>1, SoundMoves
<1>3. CursorNeverPassesUnprotected' /\ GraphIsRooted'
  BY DEF IInv, CursorNeverPassesUnprotected, GraphIsRooted, Protected, world
<1>4. \A f \in Events, o \in Ops :
        outbox'[f][o] = IF f = e /\ o = op THEN row ELSE outbox[f][o]
  BY DEF IInv, TypeInv, TypeOK
<1>5. AppliedIsOnTheBoard'
  BY <1>4 DEF IInv, AppliedIsOnTheBoard, world
<1>6. RowsAreRooted'
  BY <1>4 DEF IInv, RowsAreRooted, Has, world
<1> QED
  BY <1>2, <1>3, <1>5, <1>6 DEF IInv

LEMMA SoundStep ==
  ASSUME IInv, TypeInv', NEW p \in Processes, SoundGoes(p),
         NEW e, NEW op, << e, op >> \in board,
         stepTask' = stepTask \union {<< e, op >>},
         UNCHANGED << inst, refusal, outbox, cursor, world >>
  PROVE  IInv'
<1>1. Grown
  BY DEF Grown, world
<1>2. \A q \in Processes : Sound(board', refusal', pc'[q], ctx'[q])
  BY <1>1, SoundMoves
<1> QED
  BY <1>2 DEF IInv, CursorNeverPassesUnprotected, AppliedIsOnTheBoard, RowsAreRooted, GraphIsRooted,
     Protected, Has, world

-----------------------------------------------------------------------------
(* What the handlers' helper operators preserve, of any board b and set of   *)
(* refusals r.                                                              *)

LEMMA BeforeNext ==
  ASSUME NEW b, NEW e \in Events, NEW op \in Ops, Has(b, e, Before(e, op)),
         op \in GraphOps => << e, op >> \in b
  PROVE  Has(b, e, Before(e, NextOp(e, op)))
BY DEF Has, Before, NextOp, Obligations, Ops, GraphOps, CreateOps, CALLBACK_ONLY_OPERATIONS

LEMMA BeforeFirst ==
  ASSUME NEW b, NEW e \in Events
  PROVE  Has(b, e, Before(e, FirstOp(e)))
BY EngineAssumption DEF Has, Before, FirstOp, Obligations, Kinds

LEMMA RootsBefore ==
  ASSUME NEW b, NEW e \in Events, NEW op \in Ops, Has(b, e, Before(e, op))
  PROVE  Has(b, e, Roots(op))
BY DEF Has, Before, Roots, CreateOps

\* What holds of a context while its event is being handled.
InTurn(b, r, c) ==
  /\ c \in Context /\ c.ev \in Events /\ c.ev = c.done + 1
  /\ \A e \in Events : e <= c.done => Prot(b, r, e)
  /\ \A item \in c.batch : Has(b, item.ev, Roots(item.op))

LEMMA InTurnNow ==
  ASSUME IInv, NEW p \in Processes, pc[p] \in Handling
  PROVE  InTurn(board, refusal, ctx[p])
BY DEF IInv, TypeInv, TypeOK, Shape, Sound, InTurn

LEMMA HandledSound ==
  ASSUME NEW b, NEW r, NEW p, NEW c, InTurn(b, r, c), Prot(b, r, c.ev), Goto(p, "route", Handled(c))
  PROVE  SoundTo(b, r, p)
<1>1. Handled(c) \in Context /\ Handled(c).done = c.ev /\ Handled(c).batch = {}
  BY HandledType DEF InTurn, Handled, NoCtx, Context
<1>2. \A e \in Events : e <= c.ev => Prot(b, r, e)
  BY EngineAssumption DEF InTurn, Events, Context
<1>3. Sound(b, r, "route", Handled(c))
  BY <1>1, <1>2 DEF Sound, Handling, Calling
<1> QED
  BY <1>1, <1>3 DEF SoundTo, Labels

LEMMA BrokenSound ==
  ASSUME NEW b, NEW r, NEW p, NEW c, InTurn(b, r, c), Goto(p, "route", Broken(c))
  PROVE  SoundTo(b, r, p)
<1>1. Broken(c) \in Context /\ Broken(c).done = c.done /\ Broken(c).batch = {}
  BY HandledType DEF InTurn, Broken, NoCtx, Context
<1>2. Sound(b, r, "route", Broken(c))
  BY <1>1 DEF Sound, Handling, Calling, InTurn
<1> QED
  BY <1>1, <1>2 DEF SoundTo, Labels

LEMMA MovingSound ==
  ASSUME NEW b, NEW r, NEW p, NEW c, InTurn(b, r, c), NEW s \in ContinuationState,
         s = "waiting_review" => Prot(b, r, c.ev),
         s = "blocked_invalid" => (Kind[c.ev] = "semantic_refusal" => c.ev \in r),
         Goto(p, "read", Moving(c, s))
  PROVE  SoundTo(b, r, p)
<1> DEFINE d == Moving(c, s)
<1>1. d \in Context /\ d.ev = c.ev /\ d.target = s /\ d.done = c.done /\ d.batch = c.batch
  BY MovesType DEF InTurn, Moving, Context
<1>2. Sound(b, r, "read", d)
  BY <1>1 DEF Sound, Calling, InTurn
<1> QED
  BY <1>1, <1>2 DEF SoundTo, Labels

LEMMA AtOpSound ==
  ASSUME NEW b, NEW r, NEW p, NEW c, InTurn(b, r, c), NEW d \in Context,
         d.ev = c.ev, d.done = c.done, d.batch = c.batch,
         Has(b, c.ev, Before(c.ev, d.op)),
         Kind[c.ev] = "semantic_refusal" => c.ev \in r,
         Goto(p, "op", d)
  PROVE  SoundTo(b, r, p)
<1>1. Sound(b, r, "op", d)
  BY DEF Sound, Calling, InTurn
<1> QED
  BY <1>1 DEF SoundTo, Labels

LEMMA StartOpsSound ==
  ASSUME NEW b, NEW r, NEW p, NEW c, InTurn(b, r, c),
         Kind[c.ev] = "semantic_refusal" => c.ev \in r,
         Goto(p, "op", StartOps(c))
  PROVE  SoundTo(b, r, p)
<1> DEFINE d == StartOps(c)
<1>1. d \in Context /\ d.ev = c.ev
  BY OpsType DEF InTurn
<1>2. d.done = c.done /\ d.batch = c.batch /\ d.op = FirstOp(c.ev)
  BY FirstOpType, NoRowType DEF InTurn, StartOps, AtOp, Context
<1> HIDE DEF d
<1> QED
  BY <1>1, <1>2, BeforeFirst, AtOpSound DEF InTurn, d

LEMMA AdvancedSound ==
  ASSUME NEW b, NEW r, NEW p, NEW c, InTurn(b, r, c), c.op \in Ops,
         Has(b, c.ev, Before(c.ev, c.op)),
         c.op \in GraphOps => << c.ev, c.op >> \in b,
         Kind[c.ev] = "semantic_refusal" => c.ev \in r,
         Goto(p, "op", Advanced(c))
  PROVE  SoundTo(b, r, p)
<1> DEFINE d == Advanced(c)
<1>1. d \in Context /\ d.ev = c.ev
  BY OpsType DEF InTurn
<1>2. d.done = c.done /\ d.batch = c.batch /\ d.op = NextOp(c.ev, c.op)
  BY NextOpType, NoRowType DEF InTurn, Advanced, AtOp, Context
<1>3. Has(b, c.ev, Before(c.ev, d.op))
  BY <1>2, BeforeNext DEF InTurn
<1> QED
  BY <1>1, <1>2, <1>3, AtOpSound

LEMMA BodySound ==
  ASSUME NEW b, NEW r, NEW p, NEW c, InTurn(b, r, c), Body(p, c)
  PROVE  SoundTo(b, r, p)
<1>1. CASE Kind[c.ev] = "code_fix"
  BY <1>1, StartOpsSound DEF Body
<1>2. CASE Kind[c.ev] # "code_fix"
  <2>1. Sound(b, r, "satisfy", c)
    BY DEF Sound, Calling, InTurn
  <2> QED
    BY <1>2, <2>1 DEF Body, SoundTo, Labels, InTurn
<1> QED
  BY <1>1, <1>2

LEMMA AfterTransitionSound ==
  ASSUME NEW b, NEW r, NEW p, NEW c, InTurn(b, r, c), c.target \in Targets,
         c.target = "waiting_review" => Prot(b, r, c.ev),
         c.target = "blocked_invalid" => (Kind[c.ev] = "semantic_refusal" => c.ev \in r),
         AfterTransition(p, c)
  PROVE  SoundTo(b, r, p)
<1>1. CASE c.target = "materializing"
  <2>1. Sound(b, r, "reread", c)
    BY DEF Sound, Calling, InTurn
  <2> QED
    BY <1>1, <2>1 DEF AfterTransition, SoundTo, Labels, InTurn
<1>2. CASE c.target = "blocked_invalid"
  BY <1>2, StartOpsSound DEF AfterTransition
<1>3. CASE c.target = "waiting_review"
  BY <1>3, HandledSound DEF AfterTransition
<1>4. CASE c.target = "failed_retryable"
  BY <1>4, BrokenSound DEF AfterTransition
<1> QED
  BY <1>1, <1>2, <1>3, <1>4 DEF Targets

LEMMA OpFailedSound ==
  ASSUME NEW b, NEW r, NEW p, NEW c, InTurn(b, r, c), c.op \in Ops,
         Has(b, c.ev, Before(c.ev, c.op)),
         Kind[c.ev] = "semantic_refusal" => c.ev \in r,
         OpFailed(p, c)
  PROVE  SoundTo(b, r, p)
BY MovingSound, AdvancedSound DEF OpFailed, ContinuationState

LEMMA OpSucceededSound ==
  ASSUME NEW b, NEW r, NEW p, NEW c, InTurn(b, r, c), c.op \in Ops,
         Has(b, c.ev, Before(c.ev, c.op)),
         << c.ev, c.op >> \in b,
         Kind[c.ev] = "semantic_refusal" => c.ev \in r,
         OpSucceeded(p, c)
  PROVE  SoundTo(b, r, p)
<1>1. CASE c.op \in CreateOps
  <2> DEFINE d == [c EXCEPT !.row = NoRow, !.res = "ok"]
  <2>1. d \in Context /\ d.ev = c.ev /\ d.op = c.op /\ d.done = c.done /\ d.batch = c.batch
    BY NoRowType DEF InTurn, Context
  <2>2. Sound(b, r, "step", d)
    BY <2>1 DEF Sound, Calling, InTurn
  <2> QED
    BY <1>1, <2>1, <2>2 DEF OpSucceeded, SoundTo, Labels
<1>2. CASE c.op \notin CreateOps
  BY <1>2, AdvancedSound DEF OpSucceeded
<1> QED
  BY <1>1, <1>2

-----------------------------------------------------------------------------
(* IInv is kept by every step.                                             *)

LEMMA IngestSound ==
  ASSUME IInv, TypeInv', NEW w \in Workers,
         \/ BeginTick(w) \/ Fetch(w) \/ Route(w) \/ Gate(w)
         \/ TransitionRead(w) \/ TransitionWrite(w) \/ Reread(w) \/ Satisfy(w)
         \/ SkipStep(w) \/ Finish(w) \/ EndTick(w) \/ EndReconcileTick(w)
  PROVE  IInv'
<1> DEFINE c == ctx[w]
<1> USE DEF Processes
<1>0. c \in Context /\ Shape(pc[w], c) /\ Sound(board, refusal, pc[w], c)
  BY DEF IInv, TypeInv, TypeOK
<1>1. CASE BeginTick(w)
  <2> DEFINE d == [NoCtx EXCEPT !.done = cursor]
  <2>1. d \in Context /\ d.done = cursor /\ d.batch = {}
    BY <1>0, NoCtxType DEF Context, IInv, TypeInv, TypeOK, NoCtx
  <2>2. Sound(board, refusal, "fetch", d)
    BY <2>1 DEF Sound, Handling, Calling, IInv, CursorNeverPassesUnprotected, Protected, Prot
  <2>3. SoundGoes(w)
    BY <1>1, <2>1, <2>2 DEF BeginTick, SoundGoes, SoundTo, Labels, world, store
  <2> QED
    BY <1>1, <2>3, SoundQuiet DEF BeginTick
<1>2. CASE Fetch(w)
  <2> DEFINE d == [c EXCEPT !.upto = posted]
  <2>1. d \in Context /\ d.done = c.done /\ d.batch = c.batch
    BY <1>0 DEF Context, IInv, TypeInv, TypeOK
  <2>2. Sound(board, refusal, "route", d)
    BY <1>0, <2>1 DEF Sound, Handling, Calling
  <2>3. SoundGoes(w)
    BY <1>2, <2>1, <2>2 DEF Fetch, SoundGoes, SoundTo, Labels, world, store
  <2> QED
    BY <1>2, <2>3, SoundQuiet DEF Fetch
<1>3. CASE Route(w)
  <2> DEFINE e == c.done + 1
             d == [c EXCEPT !.ev = e]
             g == [c EXCEPT !.ev = e, !.seen = inst'[e]]
  <2>1. e \in Events /\ e \in 0 .. MaxSeq
    BY <1>0, <1>3, EngineAssumption DEF Route, Context, Events
  <2>2. inst'[e] \in ContinuationState \union {NoInst}
    BY <2>1 DEF TypeInv, TypeOK
  <2>3. d \in Context /\ d.ev = e /\ d.done = c.done /\ d.batch = c.batch
    BY <1>0, <2>1 DEF Context
  <2>4. g \in Context /\ g.ev = e /\ g.done = c.done /\ g.batch = c.batch
    BY <1>0, <2>1, <2>2 DEF Context
  <2>5. UNCHANGED << board, refusal >>
    BY <1>3 DEF Route, world
  <2>6. InTurn(board', refusal', d) /\ InTurn(board', refusal', g)
    BY <1>0, <2>1, <2>3, <2>4, <2>5 DEF InTurn, Sound
  <2>7. SoundGoes(w)
    <3>1. CASE Kind[e] = "other"
      <4>1. Prot(board', refusal', e)
        BY <3>1 DEF Prot, Obligations
      <4> QED
        BY <1>3, <2>3, <2>6, <3>1, <4>1, HandledSound DEF Route, SoundGoes
    <3>2. CASE Kind[e] # "other"
      <4>1. Sound(board', refusal', "gate", g)
        BY <2>4, <2>6 DEF Sound, Calling, InTurn
      <4> QED
        BY <1>3, <2>4, <3>2, <4>1 DEF Route, SoundGoes, SoundTo, Labels
    <3> QED
      BY <3>1, <3>2
  <2>8. \A q \in Processes : Sound(board', refusal', pc'[q], ctx'[q])
    BY <2>5, <2>7, SoundMoves DEF Grown
  <2> QED
    BY <1>3, <2>8 DEF Route, IInv, CursorNeverPassesUnprotected, AppliedIsOnTheBoard, RowsAreRooted,
       GraphIsRooted, Protected, Has, world
<1>4. CASE Gate(w)
  <2>1. InTurn(board, refusal, c)
    BY <1>4, InTurnNow DEF Gate, Handling
  <2>2. UNCHANGED << board, refusal >>
    BY <1>4 DEF Gate, store, world
  <2>3. SoundTo(board, refusal, w)
    BY <1>4, <2>1, BrokenSound, MovingSound, BodySound DEF Gate, ContinuationState
  <2>4. SoundGoes(w)
    BY <2>2, <2>3 DEF SoundGoes
  <2> QED
    BY <1>4, <2>4, SoundQuiet DEF Gate
<1>5. CASE TransitionRead(w)
  <2>1. InTurn(board, refusal, c) /\ c.target \in Targets
    BY <1>0, <1>5, InTurnNow DEF TransitionRead, Handling, Shape
  <2>2. UNCHANGED << board, refusal >>
    BY <1>5 DEF TransitionRead, store, world
  <2>3. /\ c.target = "waiting_review" => Prot(board, refusal, c.ev)
        /\ c.target = "blocked_invalid" => (Kind[c.ev] = "semantic_refusal" => c.ev \in refusal)
    BY <1>0, <1>5 DEF TransitionRead, Sound
  <2>4. SoundTo(board, refusal, w)
    <3>1. CASE Goto(w, "write", c)
      <4>1. Sound(board, refusal, "write", c)
        BY <2>1, <2>3 DEF Sound, Calling, InTurn
      <4> QED
        BY <1>0, <3>1, <4>1 DEF SoundTo, Labels
    <3>2. CASE AfterTransition(w, c)
      BY <2>1, <2>3, <3>2, AfterTransitionSound
    <3> QED
      BY <1>5, <3>1, <3>2 DEF TransitionRead
  <2>5. SoundGoes(w)
    BY <2>2, <2>4 DEF SoundGoes
  <2> QED
    BY <1>5, <2>5, SoundQuiet DEF TransitionRead
<1>6. CASE TransitionWrite(w)
  <2>1. InTurn(board, refusal, c) /\ c.target \in Targets
    BY <1>0, <1>6, InTurnNow DEF TransitionWrite, Handling, Shape
  <2>2. UNCHANGED << board, refusal >>
    BY <1>6 DEF TransitionWrite, world
  <2>3. /\ c.target = "waiting_review" => Prot(board, refusal, c.ev)
        /\ c.target = "blocked_invalid" => (Kind[c.ev] = "semantic_refusal" => c.ev \in refusal)
    BY <1>0, <1>6 DEF TransitionWrite, Sound
  <2>4. SoundTo(board, refusal, w)
    BY <1>6, <2>1, <2>3, AfterTransitionSound DEF TransitionWrite
  <2>5. \A q \in Processes : Sound(board', refusal', pc'[q], ctx'[q])
    BY <2>2, <2>4, SoundMoves DEF SoundGoes, Grown
  <2> QED
    BY <1>6, <2>5 DEF TransitionWrite, IInv, CursorNeverPassesUnprotected, AppliedIsOnTheBoard,
       RowsAreRooted, GraphIsRooted, Protected, Has, world
<1>7. CASE Reread(w)
  <2> DEFINE d == [c EXCEPT !.seen = inst[c.ev], !.target = NoInst]
  <2>1. InTurn(board, refusal, c)
    BY <1>7, InTurnNow DEF Reread, Handling
  <2>2. d \in Context /\ d.ev = c.ev /\ d.done = c.done /\ d.batch = c.batch
    BY <2>1 DEF InTurn, Context, IInv, TypeInv, TypeOK
  <2>3. InTurn(board, refusal, d)
    BY <2>1, <2>2 DEF InTurn
  <2>4. UNCHANGED << board, refusal >>
    BY <1>7 DEF Reread, store, world
  <2>5. SoundGoes(w)
    BY <1>7, <2>3, <2>4, BodySound DEF Reread, SoundGoes
  <2> QED
    BY <1>7, <2>5, SoundQuiet DEF Reread
<1>8. CASE Satisfy(w)
  <2>1. InTurn(board, refusal, c)
    BY <1>8, InTurnNow DEF Satisfy, Handling
  <2>2. board' = board /\ refusal' = refusal \union {c.ev}
    BY <1>8 DEF Satisfy, world
  <2>3. Grown
    BY <2>2 DEF Grown
  <2>4. InTurn(board', refusal', c) /\ c.ev \in refusal'
    BY <2>1, <2>2, <2>3, StillProtected DEF InTurn
  <2>5. SoundGoes(w)
    BY <1>8, <2>4, MovingSound, StartOpsSound DEF Satisfy, SoundGoes, ContinuationState
  <2>6. \A q \in Processes : Sound(board', refusal', pc'[q], ctx'[q])
    BY <2>3, <2>5, SoundMoves
  <2> QED
    BY <1>8, <2>6 DEF Satisfy, IInv, CursorNeverPassesUnprotected, AppliedIsOnTheBoard,
       RowsAreRooted, GraphIsRooted, Protected, Has, world
<1>9. CASE SkipStep(w)
  <2>1. InTurn(board, refusal, c)
    BY <1>9, InTurnNow DEF SkipStep, Handling
  <2>2. /\ Has(board, c.ev, Before(c.ev, c.op))
        /\ Kind[c.ev] = "semantic_refusal" => c.ev \in refusal
    BY <1>0, <1>9 DEF SkipStep, Sound
  <2>3. << c.ev, c.op >> \in board /\ c.op \in Ops
    BY <1>9 DEF SkipStep, IInv, AppliedIsOnTheBoard, TypeInv, TypeOK, Ops, GraphOps
  <2>4. UNCHANGED << board, refusal >>
    BY <1>9 DEF SkipStep, store, world
  <2>5. SoundGoes(w)
    BY <1>9, <2>1, <2>2, <2>3, <2>4, AdvancedSound DEF SkipStep, SoundGoes
  <2> QED
    BY <1>9, <2>5, SoundQuiet DEF SkipStep
<1>10. CASE Finish(w)
  <2>1. InTurn(board, refusal, c)
    BY <1>10, InTurnNow DEF Finish, Handling
  <2>2. Prot(board, refusal, c.ev)
    BY <1>0, <1>10 DEF Finish, Sound, Before, Has, Prot
  <2>3. UNCHANGED << board, refusal >>
    BY <1>10 DEF Finish, store, world
  <2>4. SoundTo(board, refusal, w)
    BY <1>10, <2>1, <2>2, MovingSound, HandledSound DEF Finish, ContinuationState
  <2>5. SoundGoes(w)
    BY <2>3, <2>4 DEF SoundGoes
  <2> QED
    BY <1>10, <2>5, SoundQuiet DEF Finish
<1>11. CASE EndTick(w) \/ EndReconcileTick(w)
  <2>1. UNCHANGED << board, refusal >>
    BY <1>11 DEF EndTick, EndReconcileTick, AdvanceCursor, ledger, world
  <2>2. \A l \in { "idle", "scan" } : Sound(board, refusal, l, NoCtx)
    BY DEF Sound, Handling, Calling, NoCtx, Events
  <2>3. SoundGoes(w)
    BY <1>11, <2>1, <2>2, NoCtxType DEF EndTick, EndReconcileTick, SoundGoes, SoundTo, Labels
  <2>4. \A q \in Processes : Sound(board', refusal', pc'[q], ctx'[q])
    BY <2>1, <2>3, SoundMoves DEF Grown
  <2>5. CursorNeverPassesUnprotected'
    BY <1>0, <1>11, <2>1, ProtectedIsProt
       DEF EndTick, EndReconcileTick, AdvanceCursor, IInv, CursorNeverPassesUnprotected, Sound,
           Protected, Prot
  <2> QED
    BY <1>11, <2>4, <2>5 DEF EndTick, EndReconcileTick, AdvanceCursor, IInv, AppliedIsOnTheBoard,
       RowsAreRooted, GraphIsRooted, Has, ledger, world
<1> QED
  BY <1>1, <1>2, <1>3, <1>4, <1>5, <1>6, <1>7, <1>8, <1>9, <1>10, <1>11

LEMMA OperationSound ==
  ASSUME IInv, TypeInv', NEW w \in Processes,
         Enqueue(w) \/ ProbeFinds(w) \/ ProbeMisses(w) \/ Mark(w) \/ MarkStep(w)
  PROVE  IInv'
<1> DEFINE c == ctx[w]
<1>0. c \in Context /\ Shape(pc[w], c) /\ Sound(board, refusal, pc[w], c)
  BY DEF IInv, TypeInv, TypeOK
<1>1. InTurn(board, refusal, c)
  BY InTurnNow DEF Enqueue, ProbeFinds, ProbeMisses, Mark, MarkStep, Handling
<1>2. /\ Has(board, c.ev, Before(c.ev, c.op))
      /\ Kind[c.ev] = "semantic_refusal" => c.ev \in refusal
  BY <1>0 DEF Enqueue, ProbeFinds, ProbeMisses, Mark, MarkStep, Sound
<1>3. c.op \in Ops /\ c.ev \in Events
  BY <1>0, <1>1
     DEF Enqueue, ProbeFinds, ProbeMisses, Mark, MarkStep, Shape, Calling, Ops, GraphOps, InTurn
<1>4. UNCHANGED << board, refusal >>
  BY DEF Enqueue, ProbeFinds, ProbeMisses, Mark, MarkStep, store, world
<1>5. Has(board, c.ev, Roots(c.op))
  BY <1>2, <1>3, RootsBefore
<1>6. outbox[c.ev][c.op] \in Row
  BY <1>3 DEF IInv, TypeInv, TypeOK
<1>7. CASE Enqueue(w)
  <2> DEFINE row == Enqueued(outbox[c.ev][c.op])
             d == [c EXCEPT !.row = row]
  <2>1. row \in Row
    BY <1>6, EnqueuedType
  <2>2. d \in Context /\ d.ev = c.ev /\ d.op = c.op /\ d.done = c.done /\ d.batch = c.batch
        /\ d.row = row
    BY <1>0, <2>1 DEF Context
  <2>3. InTurn(board, refusal, d)
    BY <1>1, <2>2 DEF InTurn
  <2>4. row.state = "applied" => << c.ev, c.op >> \in board
    <3>1. row.state = "applied" => outbox[c.ev][c.op].state = "applied"
      BY NoRowType DEF Enqueued, Row
    <3> QED
      BY <1>3, <3>1 DEF IInv, AppliedIsOnTheBoard
  <2>5. \/ Goto(w, "probe", d) \/ Goto(w, "call", d) \/ OpFailed(w, d)
        \/ OpSucceeded(w, d) /\ row.state = "applied"
    BY <1>3, <1>7, <2>2 DEF Enqueue, Decide
  <2>6. SoundTo(board, refusal, w)
    <3>1. \A l \in { "probe", "call" } : Sound(board, refusal, l, d)
      BY <1>2, <1>5, <2>2, <2>3 DEF Sound, InTurn
    <3>2. CASE Goto(w, "probe", d) \/ Goto(w, "call", d)
      BY <2>2, <3>1, <3>2 DEF SoundTo, Labels
    <3>3. CASE OpFailed(w, d)
      BY <1>2, <1>3, <2>2, <2>3, <3>3, OpFailedSound
    <3>4. CASE OpSucceeded(w, d) /\ row.state = "applied"
      BY <1>2, <1>3, <2>2, <2>3, <2>4, <3>4, OpSucceededSound
    <3> QED
      BY <2>5, <3>2, <3>3, <3>4
  <2>7. SoundGoes(w)
    BY <1>4, <2>6 DEF SoundGoes
  <2> QED
    BY <1>3, <1>5, <1>7, <2>4, <2>7, SoundOutbox DEF Enqueue
<1>8. CASE ProbeFinds(w)
  <2> DEFINE d == [c EXCEPT !.res = "ok"]
  <2>1. d \in Context /\ d.ev = c.ev /\ d.op = c.op /\ d.done = c.done /\ d.batch = c.batch
    BY <1>0 DEF Context
  <2>2. << c.ev, c.op >> \in board
    BY <1>8 DEF ProbeFinds, Verified
  <2>3. Sound(board, refusal, "mark", d)
    BY <1>1, <1>2, <1>5, <2>1, <2>2 DEF Sound, InTurn
  <2>4. SoundTo(board, refusal, w)
    <3>1. CASE Goto(w, "op", Advanced(c))
      BY <1>1, <1>2, <1>3, <2>2, <3>1, AdvancedSound
    <3>2. CASE Goto(w, "mark", d)
      BY <2>1, <2>3, <3>2 DEF SoundTo, Labels
    <3> QED
      BY <1>8, <3>1, <3>2 DEF ProbeFinds
  <2>5. SoundGoes(w)
    BY <1>4, <2>4 DEF SoundGoes
  <2> QED
    BY <1>8, <2>5, SoundQuiet DEF ProbeFinds
<1>9. CASE ProbeMisses(w)
  <2>1. \/ \E r \in { "error", "not_yet_accepted" } : Goto(w, "mark", [c EXCEPT !.res = r])
        \/ OpFailed(w, c)
        \/ Goto(w, "call", c)
    BY <1>9 DEF ProbeMisses
  <2>2. SoundTo(board, refusal, w)
    <3>1. ASSUME NEW r \in { "error", "not_yet_accepted" }, Goto(w, "mark", [c EXCEPT !.res = r])
          PROVE  SoundTo(board, refusal, w)
      <4> DEFINE d == [c EXCEPT !.res = r]
      <4>1. d \in Context /\ d.ev = c.ev /\ d.op = c.op /\ d.done = c.done /\ d.batch = c.batch
            /\ d.res = r
        BY <1>0 DEF Context
      <4>2. Sound(board, refusal, "mark", d)
        BY <1>1, <1>2, <1>5, <4>1 DEF Sound, InTurn
      <4> QED
        BY <3>1, <4>1, <4>2 DEF SoundTo, Labels
    <3>2. CASE OpFailed(w, c)
      BY <1>1, <1>2, <1>3, <3>2, OpFailedSound
    <3>3. CASE Goto(w, "call", c)
      <4>1. Sound(board, refusal, "call", c)
        BY <1>1, <1>2, <1>5 DEF Sound, InTurn
      <4> QED
        BY <1>0, <3>3, <4>1 DEF SoundTo, Labels
    <3> QED
      BY <2>1, <3>1, <3>2, <3>3
  <2>3. SoundGoes(w)
    BY <1>4, <2>2 DEF SoundGoes
  <2> QED
    BY <1>9, <2>3, SoundQuiet DEF ProbeMisses
<1>10. CASE Mark(w)
  <2> DEFINE row == Outcome(outbox[c.ev][c.op], c)
  <2>1. c.res = "ok" => << c.ev, c.op >> \in board
    BY <1>0, <1>10 DEF Mark, Sound
  <2>2. row.state = "applied" => c.res = "ok"
    BY DEF Outcome, MarkedApplied, MarkedPending, MarkedFailed, MarkedDeadletter
  <2>3. SoundTo(board, refusal, w)
    BY <1>1, <1>2, <1>3, <1>10, <2>1, OpSucceededSound, OpFailedSound DEF Mark
  <2>4. SoundGoes(w)
    BY <1>4, <2>3 DEF SoundGoes
  <2> QED
    BY <1>3, <1>5, <1>10, <2>1, <2>2, <2>4, SoundOutbox DEF Mark
<1>11. CASE MarkStep(w)
  <2>1. << c.ev, c.op >> \in board
    BY <1>0, <1>11 DEF MarkStep, Sound
  <2>2. SoundGoes(w)
    BY <1>1, <1>2, <1>3, <1>4, <1>11, <2>1, AdvancedSound DEF MarkStep, SoundGoes
  <2> QED
    BY <1>11, <2>1, <2>2, SoundStep DEF MarkStep
<1> QED
  BY <1>7, <1>8, <1>9, <1>10, <1>11

LEMMA CallSound ==
  ASSUME IInv, TypeInv', NEW p \in Processes,
         NEW from, NEW to, << from, to >> \in { << "call", "mark" >>, << "rcall", "rmark" >>, << "tcall", "tmark" >> },
         CallSucceeds(p, from, to) \/ CallSchedules(p, from, to) \/ CallFails(p, from, to)
  PROVE  IInv'
<1> DEFINE c == ctx[p]
<1>0. c \in Context /\ Shape(pc[p], c) /\ Sound(board, refusal, pc[p], c)
  BY DEF IInv, TypeInv, TypeOK
<1>1. c.ev \in Events /\ c.op \in Ops
  BY <1>0 DEF CallSucceeds, CallSchedules, CallFails, Shape, Handling, Replaying, Retrying, Calling
<1>2. Has(board, c.ev, Roots(c.op))
  BY <1>0 DEF CallSucceeds, CallSchedules, CallFails, Sound, Calling
<1>3. board' \in { board, board \union {<< c.ev, c.op >>} } /\ UNCHANGED store
  BY DEF CallSucceeds, CallSchedules, CallFails, Called
<1>4. Grown
  BY <1>3 DEF Grown, store
<1>5. PICK r \in { "ok", "error", "not_yet_accepted" } :
        /\ Goto(p, to, [c EXCEPT !.res = r])
        /\ r = "ok" => << c.ev, c.op >> \in board'
  BY DEF CallSucceeds, CallSchedules, CallFails, Called
<1> DEFINE d == [c EXCEPT !.res = r]
<1>6. d \in Context /\ d.ev = c.ev /\ d.op = c.op /\ d.done = c.done /\ d.batch = c.batch /\ d.res = r
  BY <1>0 DEF Context
<1>7. Sound(board', refusal', from, c)
  BY <1>0, <1>4, SoundGrows DEF CallSucceeds, CallSchedules, CallFails, Grown
<1>8. Sound(board', refusal', to, d)
  BY <1>5, <1>6, <1>7 DEF Sound, Handling, Calling
<1>9. SoundGoes(p)
  BY <1>5, <1>6, <1>8 DEF SoundGoes, SoundTo, Labels
<1>10. \A q \in Processes : Sound(board', refusal', pc'[q], ctx'[q])
  BY <1>4, <1>9, SoundMoves
<1>11. GraphIsRooted'
  <2>1. \A e \in Events : << e, "review" >> \in board' => << e, "code_fix" >> \in board
    <3> SUFFICES ASSUME NEW e \in Events, << e, "review" >> \in board'
                 PROVE  << e, "code_fix" >> \in board
      OBVIOUS
    <3>1. CASE << e, "review" >> \in board
      BY <3>1 DEF IInv, GraphIsRooted
    <3>2. CASE << e, "review" >> = << c.ev, c.op >>
      <4>1. e = c.ev /\ c.op = "review"
        BY <3>2
      <4> QED
        BY <1>2, <4>1 DEF Has, Roots
    <3> QED
      BY <1>3, <3>1, <3>2
  <2>2. \A e \in Events : << e, "subscribe" >> \in board' => << e, "review" >> \in board
    <3> SUFFICES ASSUME NEW e \in Events, << e, "subscribe" >> \in board'
                 PROVE  << e, "review" >> \in board
      OBVIOUS
    <3>1. CASE << e, "subscribe" >> \in board
      BY <3>1 DEF IInv, GraphIsRooted
    <3>2. CASE << e, "subscribe" >> = << c.ev, c.op >>
      <4>1. e = c.ev /\ c.op = "subscribe"
        BY <3>2
      <4> QED
        BY <1>2, <4>1 DEF Has, Roots
    <3> QED
      BY <1>3, <3>1, <3>2
  <2> QED
    BY <1>4, <2>1, <2>2 DEF GraphIsRooted, Grown
<1> QED
  BY <1>3, <1>10, <1>11
     DEF IInv, CursorNeverPassesUnprotected, Protected, AppliedIsOnTheBoard, RowsAreRooted, Has, store

LEMMA ReplaySound ==
  ASSUME IInv, TypeInv', NEW w \in Processes,
         Scan(w) \/ ReplayNext(w) \/ ReplayMark(w) \/ ReplayStep(w) \/ EndReconcile(w)
  PROVE  IInv'
<1> DEFINE c == ctx[w]
<1>0. c \in Context /\ Shape(pc[w], c) /\ Sound(board, refusal, pc[w], c)
  BY DEF IInv, TypeInv, TypeOK
<1>1. UNCHANGED << board, refusal >>
  BY DEF Scan, ReplayNext, ReplayMark, ReplayStep, EndReconcile, store, world
<1>2. ASSUME NEW rows \in SUBSET Items, \A item \in rows : Has(board, item.ev, Roots(item.op))
      PROVE  /\ [NoCtx EXCEPT !.batch = rows] \in Context
             /\ Sound(board, refusal, "replay", [NoCtx EXCEPT !.batch = rows])
  <2> DEFINE d == [NoCtx EXCEPT !.batch = rows]
  <2>1. d \in Context /\ d.done = 0 /\ d.batch = rows
    BY NoCtxType DEF Context, NoCtx
  <2> QED
    BY <1>2, <2>1 DEF Sound, Handling, Calling, Events
<1>3. c.batch \in SUBSET Items /\ \A item \in c.batch : Has(board, item.ev, Roots(item.op))
  BY <1>0 DEF Context, Sound
<1>4. CASE Scan(w)
  <2> DEFINE rows == { [ev |-> p[1], op |-> p[2], row |-> outbox[p[1]][p[2]]] :
                         p \in { q \in Events \X Ops : Retryable(outbox[q[1]][q[2]]) } }
  <2>1. rows \in SUBSET Items
    BY DEF Items, IInv, TypeInv, TypeOK
  <2>2. \A item \in rows : Has(board, item.ev, Roots(item.op))
    BY DEF Retryable, IInv, RowsAreRooted
  <2>3. SoundGoes(w)
    BY <1>1, <1>2, <1>4, <2>1, <2>2 DEF Scan, SoundGoes, SoundTo, Labels
  <2> QED
    BY <1>4, <2>3, SoundQuiet DEF Scan
<1>5. CASE ReplayNext(w)
  <2>1. PICK item \in c.batch :
          LET d == [c EXCEPT !.ev = item.ev, !.op = item.op, !.row = item.row, !.batch = @ \ {item}]
          IN  \/ Verified(d) /\ Goto(w, "rmark", [d EXCEPT !.res = "ok"])
              \/ Goto(w, "rmark", [d EXCEPT !.res = "not_yet_accepted"])
              \/ Goto(w, "rcall", d)
    BY <1>5 DEF ReplayNext
  <2> DEFINE d == [c EXCEPT !.ev = item.ev, !.op = item.op, !.row = item.row, !.batch = @ \ {item}]
  <2>2. item.ev \in Events /\ item.op \in Ops /\ item.row \in Row
        /\ item.ev \in 0 .. MaxSeq /\ c.batch \ {item} \in SUBSET Items
    BY <1>3, <2>1 DEF Items, Events
  <2>3. d \in Context /\ d.ev = item.ev /\ d.op = item.op /\ d.done = c.done
        /\ d.batch = c.batch \ {item}
    BY <1>0, <2>2 DEF Context
  <2>4. \A r \in { "ok", "not_yet_accepted" } :
          LET f == [d EXCEPT !.res = r]
          IN  f \in Context /\ f.ev = item.ev /\ f.op = item.op /\ f.done = c.done
              /\ f.batch = c.batch \ {item} /\ f.res = r
    BY <2>3 DEF Context
  <2>5. Sound(board, refusal, "rcall", d)
    BY <1>0, <1>3, <2>1, <2>3 DEF Sound, Handling
  <2>6. Sound(board, refusal, "rmark", [d EXCEPT !.res = "not_yet_accepted"])
    BY <1>0, <1>3, <2>1, <2>4 DEF Sound, Handling
  <2>7. Verified(d) => Sound(board, refusal, "rmark", [d EXCEPT !.res = "ok"])
    BY <1>0, <1>3, <2>1, <2>3, <2>4 DEF Sound, Handling, Verified
  <2>8. SoundTo(board, refusal, w)
    BY <2>1, <2>3, <2>4, <2>5, <2>6, <2>7 DEF SoundTo, Labels
  <2>9. SoundGoes(w)
    BY <1>1, <2>8 DEF SoundGoes
  <2> QED
    BY <1>5, <2>9, SoundQuiet DEF ReplayNext
<1>6. CASE ReplayMark(w)
  <2> DEFINE row == IF c.res = "ok" THEN MarkedApplied(outbox[c.ev][c.op], c.op)
                    ELSE MarkedFailed(outbox[c.ev][c.op], c.row, c.op, ErrorText(c.res))
             d == [c EXCEPT !.row = NoRow]
  <2>1. c.ev \in Events /\ c.op \in Ops
    BY <1>0, <1>6 DEF ReplayMark, Shape, Replaying, Calling
  <2>2. /\ c.res = "ok" => << c.ev, c.op >> \in board
        /\ Has(board, c.ev, Roots(c.op))
    BY <1>0, <1>6 DEF ReplayMark, Sound, Calling
  <2>3. row.state = "applied" => c.res = "ok"
    BY DEF MarkedPending, MarkedFailed, MarkedDeadletter
  <2>4. d \in Context /\ d.ev = c.ev /\ d.op = c.op /\ d.done = c.done /\ d.batch = c.batch
    BY <1>0, NoRowType DEF Context
  <2>5. c.res = "ok" => Sound(board, refusal, "rstep", d)
    BY <1>0, <2>2, <2>4 DEF Sound, Handling, Calling
  <2>6. SoundTo(board, refusal, w)
    BY <1>2, <1>3, <1>6, <2>4, <2>5 DEF ReplayMark, SoundTo, Labels
  <2>7. SoundGoes(w)
    BY <1>1, <2>6 DEF SoundGoes
  <2>8. outbox' = [outbox EXCEPT ![c.ev][c.op] = row]
    BY <1>6, <2>1 DEF ReplayMark, IInv, TypeInv, TypeOK
  <2> QED
    BY <1>6, <2>1, <2>2, <2>3, <2>7, <2>8, SoundOutbox DEF ReplayMark
<1>7. CASE ReplayStep(w)
  <2>1. << c.ev, c.op >> \in board
    BY <1>0, <1>7 DEF ReplayStep, Sound
  <2>2. SoundGoes(w)
    BY <1>1, <1>2, <1>3, <1>7 DEF ReplayStep, SoundGoes, SoundTo, Labels
  <2> QED
    BY <1>7, <2>1, <2>2, SoundStep DEF ReplayStep
<1>8. CASE EndReconcile(w)
  <2>1. NoCtx \in Context /\ Sound(board, refusal, "idle", NoCtx)
    BY NoCtxType DEF Sound, Handling, Calling, NoCtx, Events
  <2>2. SoundGoes(w)
    BY <1>1, <1>8, <2>1 DEF EndReconcile, SoundGoes, SoundTo, Labels
  <2> QED
    BY <1>8, <2>2, SoundQuiet DEF EndReconcile
<1> QED
  BY <1>4, <1>5, <1>6, <1>7, <1>8

LEMMA RetrySound ==
  ASSUME IInv, TypeInv', NEW o \in Processes,
         \/ RetrySelect(o) \/ RetryNext(o) \/ RetryProbe(o)
         \/ RetryMark(o) \/ RetryStep(o) \/ EndRetry(o)
  PROVE  IInv'
<1> DEFINE c == ctx[o]
<1>0. c \in Context /\ Shape(pc[o], c) /\ Sound(board, refusal, pc[o], c)
  BY DEF IInv, TypeInv, TypeOK
<1>1. UNCHANGED << board, refusal >>
  BY DEF RetrySelect, RetryNext, RetryProbe, RetryMark, RetryStep, EndRetry, store, world
<1>2. ASSUME NEW d \in Context, \A item \in d.batch : Has(board, item.ev, Roots(item.op)),
             Goto(o, "retry", NextRow(d))
      PROVE  SoundTo(board, refusal, o)
  <2>1. NextRow(d) \in Context /\ NextRow(d).done = 0 /\ NextRow(d).batch = d.batch
    BY NoCtxType DEF Context, NextRow, NoCtx
  <2>2. Sound(board, refusal, "retry", NextRow(d))
    BY <1>2, <2>1 DEF Sound, Handling, Calling, Events
  <2> QED
    BY <1>2, <2>1, <2>2 DEF SoundTo, Labels
<1>3. NoCtx \in Context /\ Sound(board, refusal, "idle", NoCtx)
  BY NoCtxType DEF Sound, Handling, Calling, NoCtx, Events
<1>4. ASSUME NEW d \in Context, d.done = c.done,
             \A item \in d.batch : Has(board, item.ev, Roots(item.op)),
             << d.ev, d.op >> \in board, RetryApplied(o, d)
      PROVE  SoundTo(board, refusal, o)
  <2> DEFINE f == [d EXCEPT !.row = NoRow, !.res = "ok"]
  <2>1. f \in Context /\ f.ev = d.ev /\ f.op = d.op /\ f.done = d.done /\ f.batch = d.batch
    BY NoRowType DEF Context
  <2>2. Sound(board, refusal, "tstep", f)
    BY <1>0, <1>4, <2>1 DEF Sound, Handling, Calling
  <2> QED
    BY <1>3, <1>4, <2>1, <2>2 DEF RetryApplied, SoundTo, Labels
<1>5. c.batch \in SUBSET Items /\ \A item \in c.batch : Has(board, item.ev, Roots(item.op))
  BY <1>0 DEF Context, Sound
<1>6. CASE RetrySelect(o)
  <2>1. PICK e \in Events :
          Goto(o, "retry",
            [NoCtx EXCEPT !.ev = e, !.batch =
               { [ev |-> e, op |-> op, row |-> NoRow] :
                   op \in { p \in Ops : outbox[e][p].state = "pending" } }])
    BY <1>6 DEF RetrySelect
  <2> DEFINE rows == { [ev |-> e, op |-> op, row |-> NoRow] :
                         op \in { p \in Ops : outbox[e][p].state = "pending" } }
             d == [NoCtx EXCEPT !.ev = e, !.batch = rows]
  <2>2. rows \in SUBSET Items /\ e \in 0 .. MaxSeq
    BY NoRowType DEF Items, Events
  <2>3. \A item \in rows : Has(board, item.ev, Roots(item.op))
    BY DEF IInv, RowsAreRooted
  <2> HIDE DEF rows
  <2>4. d \in Context /\ d.done = 0 /\ d.batch = rows
    BY <2>2, NoCtxType DEF Context, NoCtx
  <2>5. Sound(board, refusal, "retry", d)
    BY <2>3, <2>4 DEF Sound, Handling, Calling, Events
  <2> USE DEF rows
  <2>6. SoundGoes(o)
    BY <1>1, <2>1, <2>4, <2>5 DEF SoundGoes, SoundTo, Labels
  <2> QED
    BY <1>6, <2>6, SoundQuiet DEF RetrySelect
<1>7. CASE RetryNext(o)
  <2>1. PICK item \in c.batch :
          LET d == [c EXCEPT !.ev = item.ev, !.op = item.op, !.row = outbox[item.ev][item.op],
                             !.batch = @ \ {item}]
          IN  \/ Goto(o, "retry", NextRow(d)) \/ Goto(o, "tprobe", d) \/ Goto(o, "tcall", d)
              \/ RetryApplied(o, d) /\ outbox[item.ev][item.op].state = "applied"
    BY <1>7 DEF RetryNext
  <2> DEFINE d == [c EXCEPT !.ev = item.ev, !.op = item.op, !.row = outbox[item.ev][item.op],
                            !.batch = @ \ {item}]
  <2>2. item.ev \in Events /\ item.op \in Ops
        /\ item.ev \in 0 .. MaxSeq /\ c.batch \ {item} \in SUBSET Items
    BY <1>5, <2>1 DEF Items, Events
  <2>3. outbox[item.ev][item.op] \in Row
    BY <2>2 DEF IInv, TypeInv, TypeOK
  <2>4. d \in Context /\ d.ev = item.ev /\ d.op = item.op /\ d.done = c.done
        /\ d.batch = c.batch \ {item}
    BY <1>0, <2>2, <2>3 DEF Context
  <2>5. \A i \in d.batch : Has(board, i.ev, Roots(i.op))
    BY <1>5, <2>4
  <2>6. \A l \in { "tprobe", "tcall" } : Sound(board, refusal, l, d)
    BY <1>0, <1>5, <2>1, <2>4, <2>5 DEF Sound, Handling
  <2>7. SoundTo(board, refusal, o)
    <3>1. CASE Goto(o, "retry", NextRow(d))
      BY <1>2, <2>4, <2>5, <3>1
    <3>2. CASE Goto(o, "tprobe", d) \/ Goto(o, "tcall", d)
      BY <2>4, <2>6, <3>2 DEF SoundTo, Labels
    <3>3. CASE RetryApplied(o, d) /\ outbox[item.ev][item.op].state = "applied"
      <4>1. << d.ev, d.op >> \in board
        BY <2>2, <2>4, <3>3 DEF IInv, AppliedIsOnTheBoard
      <4> QED
        BY <1>4, <2>4, <2>5, <3>3, <4>1
    <3> QED
      BY <2>1, <3>1, <3>2, <3>3
  <2>8. SoundGoes(o)
    BY <1>1, <2>7 DEF SoundGoes
  <2> QED
    BY <1>7, <2>8, SoundQuiet DEF RetryNext
<1>8. CASE RetryProbe(o)
  <2>1. \/ Verified(c) /\ Goto(o, "tmark", [c EXCEPT !.res = "ok"])
        \/ \E r \in { "error", "not_yet_accepted" } : Goto(o, "tmark", [c EXCEPT !.res = r])
        \/ Verified(c) /\ RetryApplied(o, c)
        \/ Goto(o, "tcall", c)
    BY <1>8 DEF RetryProbe
  <2>2. \A r \in { "ok", "error", "not_yet_accepted" } :
          LET d == [c EXCEPT !.res = r]
          IN  d \in Context /\ d.ev = c.ev /\ d.op = c.op /\ d.done = c.done /\ d.batch = c.batch
              /\ d.res = r
    BY <1>0 DEF Context
  <2>3. Has(board, c.ev, Roots(c.op))
    BY <1>0, <1>8 DEF RetryProbe, Sound, Calling
  <2>4. Sound(board, refusal, "tcall", c)
    BY <1>0, <2>3 DEF Sound, Handling
  <2>5. \A r \in { "error", "not_yet_accepted" } : Sound(board, refusal, "tmark", [c EXCEPT !.res = r])
    BY <1>0, <2>2, <2>3 DEF Sound, Handling
  <2>6. Verified(c) => Sound(board, refusal, "tmark", [c EXCEPT !.res = "ok"])
    BY <1>0, <2>2, <2>3 DEF Sound, Handling, Verified
  <2>7. CASE Verified(c) /\ RetryApplied(o, c)
    BY <1>0, <1>1, <1>4, <1>5, <1>8, <2>7, SoundQuiet DEF Verified, SoundGoes, RetryProbe
  <2>8. CASE ~ (Verified(c) /\ RetryApplied(o, c))
    <3>1. SoundTo(board, refusal, o)
      BY <1>0, <2>1, <2>2, <2>4, <2>5, <2>6, <2>8 DEF SoundTo, Labels
    <3>2. SoundGoes(o)
      BY <1>1, <3>1 DEF SoundGoes
    <3> QED
      BY <1>8, <3>2, SoundQuiet DEF RetryProbe
  <2> QED
    BY <2>7, <2>8
<1>9. CASE RetryMark(o)
  <2> DEFINE row == IF c.res = "ok" THEN MarkedApplied(outbox[c.ev][c.op], c.op)
                    ELSE MarkedFailed(outbox[c.ev][c.op], c.row, c.op, ErrorText(c.res))
  <2>1. c.ev \in Events /\ c.op \in Ops
    BY <1>0, <1>9 DEF RetryMark, Shape, Retrying, Calling
  <2>2. /\ c.res = "ok" => << c.ev, c.op >> \in board
        /\ Has(board, c.ev, Roots(c.op))
    BY <1>0, <1>9 DEF RetryMark, Sound, Calling
  <2>3. row.state = "applied" => c.res = "ok"
    BY DEF MarkedPending, MarkedFailed, MarkedDeadletter
  <2>4. SoundTo(board, refusal, o)
    BY <1>0, <1>2, <1>4, <1>5, <1>9, <2>2 DEF RetryMark
  <2>5. SoundGoes(o)
    BY <1>1, <2>4 DEF SoundGoes
  <2>6. outbox' = [outbox EXCEPT ![c.ev][c.op] = row]
    BY <1>9, <2>1 DEF RetryMark, IInv, TypeInv, TypeOK
  <2> QED
    BY <1>9, <2>1, <2>2, <2>3, <2>5, <2>6, SoundOutbox DEF RetryMark
<1>10. CASE RetryStep(o)
  <2>1. << c.ev, c.op >> \in board
    BY <1>0, <1>10 DEF RetryStep, Sound
  <2>2. SoundGoes(o)
    BY <1>0, <1>1, <1>2, <1>5, <1>10 DEF RetryStep, SoundGoes
  <2> QED
    BY <1>10, <2>1, <2>2, SoundStep DEF RetryStep
<1>11. CASE EndRetry(o)
  <2>1. SoundGoes(o)
    BY <1>1, <1>3, <1>11 DEF EndRetry, SoundGoes, SoundTo, Labels
  <2> QED
    BY <1>11, <2>1, SoundQuiet DEF EndRetry
<1> QED
  BY <1>6, <1>7, <1>8, <1>9, <1>10, <1>11

LEMMA WorldSound ==
  ASSUME IInv, TypeInv',
         \/ Post
         \/ \E e \in Events : GatewayAccepts(e)
         \/ \E e \in Events, op \in Ops : Elapse(e, op)
         \/ \E p \in Processes : Crash(p)
  PROVE  IInv'
<1>1. CASE Post
  BY <1>1 DEF Post, IInv, CursorNeverPassesUnprotected, AppliedIsOnTheBoard, RowsAreRooted,
     GraphIsRooted, Protected, Has, store
<1>2. ASSUME NEW e \in Events, GatewayAccepts(e) PROVE IInv'
  <2>1. /\ board' = board \union {<< e, "schedule_origin_wake" >>}
        /\ UNCHANGED << inst, refusal, outbox, stepTask, cursor, pc, ctx >>
    BY <1>2 DEF GatewayAccepts, store
  <2>2. \A q \in Processes : Sound(board', refusal', pc'[q], ctx'[q])
    BY <2>1, SoundGrows DEF IInv
  <2>3. GraphIsRooted'
    BY <2>1 DEF IInv, GraphIsRooted
  <2> QED
    BY <2>1, <2>2, <2>3
       DEF IInv, CursorNeverPassesUnprotected, AppliedIsOnTheBoard, RowsAreRooted, Protected, Has
<1>3. ASSUME NEW e \in Events, NEW op \in Ops, Elapse(e, op) PROVE IInv'
  <2>1. \A f \in Events, o \in Ops : outbox'[f][o].state = outbox[f][o].state
    <3>1. MarkedDue(outbox[e][op]).state = outbox[e][op].state
      BY DEF MarkedDue, IInv, TypeInv, TypeOK, Row
    <3> QED
      BY <1>3, <3>1 DEF Elapse, IInv, TypeInv, TypeOK
  <2> QED
    BY <1>3, <2>1 DEF Elapse, IInv, CursorNeverPassesUnprotected, AppliedIsOnTheBoard, RowsAreRooted,
       GraphIsRooted, Protected, Has, world
<1>4. ASSUME NEW p \in Processes, Crash(p) PROVE IInv'
  <2>1. NoCtx \in Context /\ Sound(board, refusal, "idle", NoCtx)
    BY NoCtxType DEF Sound, Handling, Calling, NoCtx, Events
  <2>2. SoundGoes(p)
    BY <1>4, <2>1 DEF Crash, SoundGoes, SoundTo, Labels, store, world
  <2> QED
    BY <1>4, <2>2, SoundQuiet DEF Crash
<1> QED
  BY <1>1, <1>2, <1>3, <1>4

LEMMA IInvInit == Init => IInv
<1> SUFFICES ASSUME Init PROVE IInv
  OBVIOUS
<1>1. TypeInv
  BY TypeInit
<1>2. \A p \in Processes : Sound(board, refusal, pc[p], ctx[p])
  BY DEF Init, Sound, Handling, Calling, NoCtx, Events
<1> QED
  BY <1>1, <1>2 DEF Init, IInv, CursorNeverPassesUnprotected, AppliedIsOnTheBoard, RowsAreRooted,
     GraphIsRooted, NoRow, Events

LEMMA IInvStep == IInv /\ [Next]_vars => IInv'
<1> SUFFICES ASSUME IInv, [Next]_vars PROVE IInv'
  OBVIOUS
<1>0. TypeInv'
  BY TypeStep DEF IInv
<1>1. CASE UNCHANGED vars
  BY <1>0, <1>1 DEF vars, store, world, IInv, CursorNeverPassesUnprotected, AppliedIsOnTheBoard,
     RowsAreRooted, GraphIsRooted, Protected, Has
<1>2. ASSUME NEW w \in Workers, BeginTick(w) \/ Internal(w) \/ EndTick(w) \/ EndReconcileTick(w)
      PROVE  IInv'
  <2>1. w \in Processes
    BY DEF Processes
  <2> QED
    BY <1>0, <1>2, <2>1, IngestSound, OperationSound, ReplaySound DEF Internal
<1>3. ASSUME NEW w \in Workers, Board(w) PROVE IInv'
  <2>1. w \in Processes
    BY DEF Processes
  <2> QED
    BY <1>0, <1>3, <2>1, CallSound DEF Board
<1>4. ASSUME NEW o \in Operators, Retry(o) PROVE IInv'
  <2>1. o \in Processes
    BY DEF Processes
  <2> QED
    BY <1>0, <1>4, <2>1, RetrySound, CallSound DEF Retry
<1> QED
  BY <1>0, <1>1, <1>2, <1>3, <1>4, WorldSound DEF Next

LEMMA Inductive == Spec => []IInv
BY IInvInit, IInvStep, PTL DEF Spec

\* However many daemons, timers and operators share the store and wherever
\* they die, the cursor has only passed events whose graph, return edge or
\* refusal record is durable.
THEOREM CursorIsFailClosed == Spec => []CursorNeverPassesUnprotected
<1>1. IInv => CursorNeverPassesUnprotected
  BY DEF IInv
<1> QED
  BY <1>1, Inductive, PTL

\* An applied outbox row and a step's task id always stand for an effect the
\* board has.
THEOREM StoreNeverLies == Spec => []AppliedIsOnTheBoard
<1>1. IInv => AppliedIsOnTheBoard
  BY DEF IInv
<1> QED
  BY <1>1, Inductive, PTL

\* No replay of a stale row puts a review on the board without its fix, or a
\* subscription without its review.
THEOREM GraphStaysRooted == Spec => []GraphIsRooted
<1>1. IInv => GraphIsRooted
  BY DEF IInv
<1> QED
  BY <1>1, Inductive, PTL

-----------------------------------------------------------------------------
(* The cursor's steps.  Only the end of a tick writes the cursor; TypeInv    *)
(* makes the value from the worker's memory comparable with the stored one.  *)

LEMMA OnlyTicksMoveTheCursor ==
  ASSUME Next
  PROVE  \/ cursor' = cursor
         \/ \E w \in Workers : EndTick(w) \/ EndReconcileTick(w)
<1>1. ASSUME NEW w \in Workers, BeginTick(w) \/ Board(w) PROVE cursor' = cursor
  BY <1>1 DEF BeginTick, Board, CallSucceeds, CallSchedules, CallFails, Called, store
<1>2. ASSUME NEW w \in Workers, Internal(w) PROVE cursor' = cursor
  BY <1>2 DEF Internal, Fetch, Route, Gate, TransitionRead, TransitionWrite, Reread, Satisfy,
     SkipStep, Enqueue, ProbeFinds, ProbeMisses, Mark, MarkStep, Finish,
     Scan, ReplayNext, ReplayMark, ReplayStep, EndReconcile, store
<1>3. ASSUME NEW o \in Operators, Retry(o) PROVE cursor' = cursor
  BY <1>3 DEF Retry, RetrySelect, RetryNext, RetryProbe, RetryMark, RetryStep, EndRetry,
     CallSucceeds, CallSchedules, CallFails, Called, store
<1>4. ASSUME \/ Post
             \/ \E e \in Events : GatewayAccepts(e)
             \/ \E e \in Events, op \in Ops : Elapse(e, op)
             \/ \E p \in Processes : Crash(p)
      PROVE  cursor' = cursor
  BY <1>4 DEF Post, GatewayAccepts, Elapse, Crash, store
<1> QED
  BY <1>1, <1>2, <1>3, <1>4 DEF Next

\* advance_cursor compares with the stored value inside its statement, so a
\* worker that was overtaken by a newer batch never takes the cursor back.
THEOREM CursorNeverGoesBack == Spec => CursorIsMonotone
<1>1. TypeInv /\ [Next]_vars => [cursor' >= cursor]_vars
  <2> SUFFICES ASSUME TypeInv, Next PROVE cursor' >= cursor
    BY DEF vars
  <2>1. cursor \in Nat /\ \A p \in Processes : ctx[p].done \in Nat
    BY EngineAssumption DEF TypeInv, TypeOK, Context
  <2>2. ASSUME NEW w \in Workers, AdvanceCursor(w) PROVE cursor' >= cursor
    BY <2>1, <2>2 DEF AdvanceCursor, Processes
  <2> QED
    BY <2>1, <2>2, OnlyTicksMoveTheCursor DEF EndTick, EndReconcileTick
<1>2. Spec => []TypeInv
  BY TypeInit, TypeStep, PTL DEF Spec
<1> QED
  BY <1>1, <1>2, PTL DEF Spec, CursorIsMonotone

-----------------------------------------------------------------------------
(* Ticks that do not overlap.  Two workers that move one instance can leave  *)
(* an event behind the cursor in failed_retryable (transition selects and    *)
(* updates apart), so HandledIsSettled is a theorem of a single worker.  The *)
(* operators may be any number, as they never move an instance.             *)

OneWorker == \A v, w \in Workers : v = w

Operating == { "op", "probe", "call", "mark", "step" }

\* Settled, of an explicit table i of instances.
SettledIn(i, e) ==
  CASE Kind[e] = "code_fix"         -> i[e] = "waiting_review"
    [] Kind[e] = "semantic_refusal" -> i[e] = "blocked_invalid"
    [] OTHER                        -> i[e] = NoInst

\* The states an instance of each kind goes through under a single worker, and
\* those a transition starts from.
StatesOf(kind) ==
  CASE kind = "code_fix" ->
         { NoInst, "detected", "materializing", "waiting_review", "failed_retryable" }
    [] kind = "semantic_refusal" -> { NoInst, "detected", "materializing", "blocked_invalid" }
    [] OTHER -> { NoInst }

Sources(kind, target) ==
  CASE target = "materializing" -> { "detected", "failed_retryable" }
    [] target = "waiting_review" /\ kind = "code_fix" -> { "materializing" }
    [] target = "failed_retryable" /\ kind = "code_fix" -> { "materializing", "waiting_review" }
    [] target = "blocked_invalid" /\ kind = "semantic_refusal" -> { "materializing" }
    [] OTHER -> {}

\* The events a tick is done with, among them all that the cursor k passed,
\* are settled.
Behind(i, k, c) == k <= c.done /\ \A e \in Events : e <= c.done => SettledIn(i, e)

AtNext(c) == c.ev = c.done + 1 /\ Kind[c.ev] \in { "code_fix", "semantic_refusal" }

\* The instance in hand is where its handler left it.
Left(i, l, c) ==
  /\ l = "gate" => c.seen = i[c.ev] /\ c.seen # NoInst
  /\ l \in { "read", "write" } => i[c.ev] \in Sources(Kind[c.ev], c.target)
  /\ l = "reread" => i[c.ev] = "materializing"
  /\ l = "satisfy" => /\ Kind[c.ev] = "semantic_refusal"
                      /\ c.seen = i[c.ev] /\ c.seen \in { "materializing", "blocked_invalid" }
  /\ l \in Operating /\ Kind[c.ev] = "code_fix" =>
       c.seen = i[c.ev] /\ c.seen \in { "materializing", "waiting_review" }
  /\ l \in Operating /\ Kind[c.ev] = "semantic_refusal" =>
       i[c.ev] = "blocked_invalid" /\ c.op \notin GraphOps

Rests(i, k, l, c) ==
  /\ l \in Handling \union { "fetch", "route" } => Behind(i, k, c)
  /\ l \in Handling => AtNext(c) /\ Left(i, l, c)

Restful(i) == \A e \in Events : i[e] \in StatesOf(Kind[e])

SettledInv ==
  /\ TypeInv
  /\ Restful(inst)
  /\ \A e \in Events : e <= cursor => SettledIn(inst, e)
  /\ \A w \in Workers : Rests(inst, cursor, pc[w], ctx[w])

RestsTo(i, k, p) == \E l \in Labels, c \in Context : Goto(p, l, c) /\ Rests(i, k, l, c)

LEMMA SourcesAreLegal ==
  ASSUME NEW kind, NEW target, NEW s \in Sources(kind, target)
  PROVE  Legal(s, target) /\ target \in ContinuationState
BY DEF Sources, Legal, ALLOWED_TRANSITIONS, TERMINAL_STATES, ContinuationState

\* The facts about the event in hand, at any label of a handler.
LEMMA Holding ==
  ASSUME SettledInv, NEW w \in Workers, pc[w] \in Handling
  PROVE  /\ w \in Processes /\ ctx[w] \in Context /\ ctx[w].ev \in Events
         /\ Behind(inst, cursor, ctx[w]) /\ AtNext(ctx[w]) /\ Left(inst, pc[w], ctx[w])
         /\ inst[ctx[w].ev] \in StatesOf(Kind[ctx[w].ev])
BY DEF SettledInv, TypeInv, TypeOK, Shape, Rests, Restful, Processes

\* The contexts a handler goes on with, and what they keep of the one in hand.
LEMMA MovingRests ==
  ASSUME NEW i, NEW k, NEW p, NEW c \in Context, c.ev \in Events, Behind(i, k, c), AtNext(c),
         NEW s \in ContinuationState, i[c.ev] \in Sources(Kind[c.ev], s),
         Goto(p, "read", Moving(c, s))
  PROVE  RestsTo(i, k, p)
<1> DEFINE d == Moving(c, s)
<1>1. d \in Context /\ d.ev = c.ev /\ d.done = c.done /\ d.target = s
  BY MovesType DEF Moving, Context
<1>2. Behind(i, k, d) /\ AtNext(d) /\ Left(i, "read", d)
  BY <1>1 DEF Behind, AtNext, Left, Operating
<1>3. Rests(i, k, "read", d) /\ "read" \in Labels
  BY <1>2 DEF Rests, Labels
<1> QED
  BY <1>1, <1>3 DEF RestsTo

LEMMA BrokenRests ==
  ASSUME NEW i, NEW k, NEW p, NEW c \in Context, Behind(i, k, c), Goto(p, "route", Broken(c))
  PROVE  RestsTo(i, k, p)
<1>1. Broken(c) \in Context /\ Broken(c).done = c.done
  BY HandledType DEF Broken, NoCtx
<1>2. Rests(i, k, "route", Broken(c)) /\ "route" \in Labels
  BY <1>1 DEF Rests, Behind, Handling, Labels
<1> QED
  BY <1>1, <1>2 DEF RestsTo

LEMMA HandledRests ==
  ASSUME NEW i, NEW k, NEW p, NEW c \in Context, c.ev \in Events, Behind(i, k, c),
         c.ev = c.done + 1, SettledIn(i, c.ev), k \in Nat, Goto(p, "route", Handled(c))
  PROVE  RestsTo(i, k, p)
<1>1. Handled(c) \in Context /\ Handled(c).done = c.ev
  BY HandledType DEF Handled, NoCtx
<1>2. c.done \in Nat /\ Events \subseteq Nat
  BY EngineAssumption DEF Context, Events
<1>3. \A e \in Events : e <= c.ev => e <= c.done \/ e = c.ev
  BY <1>2
<1>4. Behind(i, k, Handled(c))
  BY <1>1, <1>2, <1>3 DEF Behind
<1>5. Rests(i, k, "route", Handled(c)) /\ "route" \in Labels
  BY <1>4 DEF Rests, Handling, Labels
<1> QED
  BY <1>1, <1>5 DEF RestsTo

\* An instance in place for the operations of its handler.
Ready(i, c) ==
  \/ Kind[c.ev] = "code_fix" /\ c.seen = i[c.ev] /\ c.seen \in { "materializing", "waiting_review" }
  \/ Kind[c.ev] = "semantic_refusal" /\ i[c.ev] = "blocked_invalid"

LEMMA OperatingRests ==
  ASSUME NEW i, NEW k, NEW p, NEW c \in Context, Behind(i, k, c), AtNext(c), Ready(i, c),
         Kind[c.ev] = "semantic_refusal" => c.op \notin GraphOps,
         NEW l \in Operating, Goto(p, l, c)
  PROVE  RestsTo(i, k, p)
<1>1. Left(i, l, c) /\ l \in Labels
  BY DEF Left, Ready, Operating, Labels
<1>2. Rests(i, k, l, c)
  BY <1>1 DEF Rests
<1> QED
  BY <1>1, <1>2 DEF RestsTo

LEMMA StartOpsRests ==
  ASSUME NEW i, NEW k, NEW p, NEW c \in Context, c.ev \in Events, Behind(i, k, c), AtNext(c),
         Ready(i, c), Goto(p, "op", StartOps(c))
  PROVE  RestsTo(i, k, p)
<1> DEFINE d == StartOps(c)
<1>1. d \in Context /\ d.ev = c.ev /\ d.done = c.done /\ d.seen = c.seen /\ d.op = FirstOp(c.ev)
  BY OpsType DEF StartOps, AtOp, Context
<1>2. Kind[c.ev] = "semantic_refusal" => d.op \notin GraphOps
  BY <1>1 DEF FirstOp, GraphOps, CreateOps
<1>3. Behind(i, k, d) /\ AtNext(d) /\ Ready(i, d)
  BY <1>1 DEF Behind, AtNext, Ready
<1> QED
  BY <1>1, <1>2, <1>3, OperatingRests DEF Operating

LEMMA AdvancedRests ==
  ASSUME NEW i, NEW k, NEW p, NEW c \in Context, c.ev \in Events, Behind(i, k, c), AtNext(c),
         Ready(i, c), Kind[c.ev] = "semantic_refusal" => c.op \notin GraphOps,
         Goto(p, "op", Advanced(c))
  PROVE  RestsTo(i, k, p)
<1> DEFINE d == Advanced(c)
<1>1. d \in Context /\ d.ev = c.ev /\ d.done = c.done /\ d.seen = c.seen /\ d.op = NextOp(c.ev, c.op)
  BY OpsType DEF Advanced, AtOp, Context
<1>2. Kind[c.ev] = "semantic_refusal" => d.op \notin GraphOps
  BY <1>1 DEF NextOp, GraphOps, CreateOps
<1>3. Behind(i, k, d) /\ AtNext(d) /\ Ready(i, d)
  BY <1>1 DEF Behind, AtNext, Ready
<1> QED
  BY <1>1, <1>2, <1>3, OperatingRests DEF Operating

-----------------------------------------------------------------------------
(* SettledInv is kept by every step of the worker.                         *)

LEMMA BodyRests ==
  ASSUME NEW i, NEW k, NEW p, NEW c \in Context, c.ev \in Events, Behind(i, k, c), AtNext(c),
         c.seen = i[c.ev], Body(p, c),
         c.seen \in StatesOf(Kind[c.ev]) \ { NoInst, "detected", "failed_retryable" }
  PROVE  RestsTo(i, k, p)
<1>1. CASE Kind[c.ev] = "code_fix"
  <2>1. Ready(i, c)
    BY <1>1 DEF Ready, StatesOf
  <2> QED
    BY <1>1, <2>1, StartOpsRests DEF Body
<1>2. CASE Kind[c.ev] = "semantic_refusal"
  <2>1. Left(i, "satisfy", c)
    BY <1>2 DEF Left, StatesOf, Operating
  <2>2. Rests(i, k, "satisfy", c) /\ "satisfy" \in Labels
    BY <2>1 DEF Rests, Labels
  <2> QED
    BY <1>2, <2>2 DEF Body, RestsTo
<1> QED
  BY <1>1, <1>2 DEF AtNext

\* Once the transition has been written, its target says where to go on.
LEMMA AfterTransitionRests ==
  ASSUME NEW i, NEW k \in Nat, NEW p, NEW c \in Context, c.ev \in Events, Behind(i, k, c), AtNext(c),
         NEW s \in Sources(Kind[c.ev], c.target), i[c.ev] = c.target, AfterTransition(p, c)
  PROVE  RestsTo(i, k, p)
<1>1. CASE c.target = "materializing"
  <2>1. Rests(i, k, "reread", c) /\ "reread" \in Labels
    BY <1>1 DEF Rests, Left, Operating, Labels
  <2> QED
    BY <1>1, <2>1 DEF AfterTransition, RestsTo
<1>2. CASE c.target = "blocked_invalid"
  <2>1. Ready(i, c)
    BY <1>2 DEF Sources, Ready
  <2> QED
    BY <1>2, <2>1, StartOpsRests DEF AfterTransition
<1>3. CASE c.target = "waiting_review"
  <2>1. SettledIn(i, c.ev)
    BY <1>3 DEF Sources, SettledIn
  <2> QED
    BY <1>3, <2>1, HandledRests DEF AfterTransition, AtNext
<1>4. CASE c.target = "failed_retryable"
  BY <1>4, BrokenRests DEF AfterTransition
<1> QED
  BY <1>1, <1>2, <1>3, <1>4 DEF Sources

LEMMA FailedRests ==
  ASSUME NEW i, NEW k, NEW p, NEW c \in Context, c.ev \in Events, Behind(i, k, c), AtNext(c),
         Ready(i, c), Kind[c.ev] = "semantic_refusal" => c.op \notin GraphOps, OpFailed(p, c)
  PROVE  RestsTo(i, k, p)
<1>1. CASE c.op \in GraphOps
  <2>1. i[c.ev] \in Sources(Kind[c.ev], "failed_retryable")
    BY <1>1 DEF AtNext, Ready, Sources
  <2>2. "failed_retryable" \in ContinuationState
    BY DEF ContinuationState
  <2> QED
    BY <1>1, <2>1, <2>2, MovingRests DEF OpFailed
<1>2. CASE c.op \notin GraphOps
  BY <1>2, AdvancedRests DEF OpFailed
<1> QED
  BY <1>1, <1>2

LEMMA SucceededRests ==
  ASSUME NEW i, NEW k, NEW p, NEW c \in Context, c.ev \in Events, Behind(i, k, c), AtNext(c),
         Ready(i, c), Kind[c.ev] = "semantic_refusal" => c.op \notin GraphOps, OpSucceeded(p, c)
  PROVE  RestsTo(i, k, p)
<1> DEFINE d == [c EXCEPT !.row = NoRow, !.res = "ok"]
<1>1. CASE c.op \in CreateOps
  <2>1. /\ d \in Context /\ d.ev = c.ev /\ d.done = c.done /\ d.seen = c.seen /\ d.op = c.op
    BY NoRowType DEF Context
  <2>2. Behind(i, k, d) /\ AtNext(d) /\ Ready(i, d)
    BY <2>1 DEF Behind, AtNext, Ready
  <2>3. Goto(p, "step", d)
    BY <1>1 DEF OpSucceeded
  <2> QED
    BY <2>1, <2>2, <2>3, OperatingRests DEF Operating
<1>2. CASE c.op \notin CreateOps
  BY <1>2, AdvancedRests DEF OpSucceeded
<1> QED
  BY <1>1, <1>2

\* The steps that leave the instances and the cursor alone.
LEMMA QuietRests ==
  ASSUME SettledInv, NEW w \in Workers,
         \/ Fetch(w) \/ Gate(w) \/ Reread(w) \/ Satisfy(w)
         \/ SkipStep(w) \/ MarkStep(w) \/ Finish(w)
  PROVE  RestsTo(inst, cursor, w) /\ UNCHANGED << inst, cursor >>
<1> DEFINE c == ctx[w]
<1>0. UNCHANGED << inst, cursor >>
  BY DEF Fetch, Gate, Reread, Satisfy, SkipStep, MarkStep, Finish, store
<1>1. CASE Fetch(w)
  <2> DEFINE d == [c EXCEPT !.upto = posted]
  <2>1. c \in Context /\ Rests(inst, cursor, "fetch", c) /\ posted \in 0 .. MaxSeq
    BY <1>1 DEF Fetch, SettledInv, TypeInv, TypeOK, Processes
  <2>2. d \in Context /\ d.done = c.done
    BY <2>1 DEF Context
  <2>3. Rests(inst, cursor, "route", d) /\ "route" \in Labels
    BY <2>1, <2>2 DEF Rests, Behind, Handling, Labels
  <2> QED
    BY <1>0, <1>1, <2>2, <2>3 DEF Fetch, RestsTo
<1>a. CASE pc[w] \in Handling
  <2>0. /\ c \in Context /\ c.ev \in Events
        /\ Behind(inst, cursor, c) /\ AtNext(c) /\ Left(inst, pc[w], c)
        /\ inst[c.ev] \in StatesOf(Kind[c.ev])
        /\ cursor \in Nat
    BY <1>a, Holding, EngineAssumption DEF SettledInv, TypeInv, TypeOK
  <2>1. CASE Gate(w)
    <3>0. c.seen = inst[c.ev] /\ c.seen # NoInst
      BY <2>0, <2>1 DEF Gate, Left
    <3>1. CASE Goto(w, "route", Broken(c))
      BY <1>0, <2>0, <3>1, BrokenRests
    <3>2. CASE c.seen \in { "detected", "failed_retryable" } /\ Goto(w, "read", Moving(c, "materializing"))
      <4>1. inst[c.ev] \in Sources(Kind[c.ev], "materializing") /\ "materializing" \in ContinuationState
        BY <3>0, <3>2 DEF Sources, ContinuationState
      <4> QED
        BY <1>0, <2>0, <3>2, <4>1, MovingRests
    <3>3. CASE c.seen \notin { "detected", "failed_retryable" } /\ Body(w, c)
      BY <1>0, <2>0, <3>0, <3>3, BodyRests
    <3> QED
      BY <2>1, <3>1, <3>2, <3>3 DEF Gate
  <2>2. CASE Reread(w)
    <3> DEFINE d == [c EXCEPT !.seen = inst[c.ev], !.target = NoInst]
    <3>1. inst[c.ev] = "materializing"
      BY <2>0, <2>2 DEF Reread, Left
    <3>2. d \in Context /\ d.ev = c.ev /\ d.done = c.done /\ d.seen = "materializing"
      BY <2>0, <3>1 DEF Context, ContinuationState
    <3>3. Behind(inst, cursor, d) /\ AtNext(d) /\ Body(w, d)
      BY <2>0, <2>2, <3>2 DEF Behind, AtNext, Reread
    <3> QED
      BY <1>0, <2>0, <3>1, <3>2, <3>3, BodyRests DEF NoInst
  <2>3. CASE Satisfy(w)
    <3>1. /\ Kind[c.ev] = "semantic_refusal" /\ c.seen = inst[c.ev]
          /\ c.seen \in { "materializing", "blocked_invalid" }
      BY <2>0, <2>3 DEF Satisfy, Left
    <3>2. CASE c.seen # "blocked_invalid"
      <4>1. inst[c.ev] \in Sources(Kind[c.ev], "blocked_invalid")
            /\ "blocked_invalid" \in ContinuationState
        BY <3>1, <3>2 DEF Sources, ContinuationState
      <4> QED
        BY <1>0, <2>0, <2>3, <3>2, <4>1, MovingRests DEF Satisfy
    <3>3. CASE c.seen = "blocked_invalid"
      BY <1>0, <2>0, <2>3, <3>1, <3>3, StartOpsRests DEF Satisfy, Ready
    <3> QED
      BY <3>2, <3>3
  <2>4. CASE pc[w] \in Operating /\ (SkipStep(w) \/ MarkStep(w) \/ Finish(w))
    <3>0. Ready(inst, c) /\ (Kind[c.ev] = "semantic_refusal" => c.op \notin GraphOps)
      BY <2>0, <2>4 DEF Left, Ready, AtNext
    <3>1. CASE SkipStep(w) \/ MarkStep(w)
      BY <1>0, <2>0, <3>0, <3>1, AdvancedRests DEF SkipStep, MarkStep
    <3>2. CASE Finish(w) /\ Kind[c.ev] = "code_fix" /\ c.seen = "materializing"
      <4>1. inst[c.ev] \in Sources(Kind[c.ev], "waiting_review")
            /\ "waiting_review" \in ContinuationState
        BY <3>0, <3>2 DEF Ready, Sources, ContinuationState
      <4> QED
        BY <1>0, <2>0, <3>2, <4>1, MovingRests DEF Finish
    <3>3. CASE Finish(w) /\ ~ (Kind[c.ev] = "code_fix" /\ c.seen = "materializing")
      <4>1. SettledIn(inst, c.ev)
        BY <2>0, <2>4, <3>3 DEF Left, AtNext, SettledIn
      <4> QED
        BY <1>0, <2>0, <3>3, <4>1, HandledRests DEF Finish, AtNext
    <3> QED
      BY <2>4, <3>1, <3>2, <3>3
  <2> QED
    BY <1>1, <2>1, <2>2, <2>3, <2>4 DEF SkipStep, MarkStep, Finish, Operating
<1> QED
  BY <1>1, <1>a DEF Gate, Reread, Satisfy, SkipStep, MarkStep, Finish, Handling

LEMMA OperationRests ==
  ASSUME SettledInv, NEW w \in Workers,
         \/ Enqueue(w) \/ ProbeFinds(w) \/ ProbeMisses(w) \/ Mark(w)
         \/ CallSucceeds(w, "call", "mark") \/ CallSchedules(w, "call", "mark")
         \/ CallFails(w, "call", "mark")
  PROVE  RestsTo(inst, cursor, w) /\ UNCHANGED << inst, cursor >>
<1> DEFINE c == ctx[w]
<1>0. UNCHANGED << inst, cursor >>
  BY DEF Enqueue, ProbeFinds, ProbeMisses, Mark, CallSucceeds, CallSchedules, CallFails, Called, store
<1>1. pc[w] \in Operating /\ pc[w] \in Handling
  BY DEF Enqueue, ProbeFinds, ProbeMisses, Mark, CallSucceeds, CallSchedules, CallFails,
     Operating, Handling
<1>2. /\ c \in Context /\ c.ev \in Events /\ Behind(inst, cursor, c) /\ AtNext(c)
      /\ Left(inst, pc[w], c) /\ Shape(pc[w], c)
  BY <1>1, Holding DEF SettledInv, TypeInv
<1>3. Ready(inst, c) /\ (Kind[c.ev] = "semantic_refusal" => c.op \notin GraphOps)
  BY <1>1, <1>2 DEF Left, Ready, AtNext
<1>4. ASSUME NEW d \in Context, d.ev = c.ev, d.done = c.done, d.seen = c.seen, d.op = c.op,
             \/ OpFailed(w, d) \/ OpSucceeded(w, d) \/ Goto(w, "op", Advanced(d))
             \/ \E l \in { "probe", "call", "mark" } : Goto(w, l, d)
      PROVE  RestsTo(inst, cursor, w)
  <2>1. /\ d.ev \in Events /\ Behind(inst, cursor, d) /\ AtNext(d) /\ Ready(inst, d)
        /\ (Kind[d.ev] = "semantic_refusal" => d.op \notin GraphOps)
    BY <1>2, <1>3, <1>4 DEF Behind, AtNext, Ready
  <2>2. CASE \E l \in { "probe", "call", "mark" } : Goto(w, l, d)
    BY <1>4, <2>1, <2>2, OperatingRests DEF Operating
  <2> QED
    BY <1>4, <2>1, <2>2, FailedRests, SucceededRests, AdvancedRests
<1>5. CASE Enqueue(w)
  <2> DEFINE row == Enqueued(outbox[c.ev][c.op])
             d == [c EXCEPT !.row = row]
  <2>1. c.op \in Ops
    BY <1>2, <1>5 DEF Enqueue, Shape
  <2>2. row \in Row
    BY <1>2, <2>1, EnqueuedType DEF SettledInv, TypeInv, TypeOK
  <2>3. d \in Context /\ d.ev = c.ev /\ d.done = c.done /\ d.seen = c.seen /\ d.op = c.op
    BY <1>2, <2>2 DEF Context
  <2>4. Decide(w, d)
    BY <1>5 DEF Enqueue
  <2>5. \/ Goto(w, "probe", d) \/ Goto(w, "call", d) \/ OpFailed(w, d) \/ OpSucceeded(w, d)
    BY <2>1, <2>3, <2>4 DEF Decide
  <2> QED
    BY <1>0, <1>4, <2>3, <2>5
<1>6. ASSUME NEW r \in { "ok", "error", "not_yet_accepted" }, Goto(w, "mark", [c EXCEPT !.res = r])
      PROVE  RestsTo(inst, cursor, w)
  <2> DEFINE d == [c EXCEPT !.res = r]
  <2>1. d \in Context /\ d.ev = c.ev /\ d.done = c.done /\ d.seen = c.seen /\ d.op = c.op
    BY <1>2 DEF Context
  <2> QED
    BY <1>4, <1>6, <2>1
<1>7. CASE ProbeFinds(w)
  BY <1>0, <1>2, <1>4, <1>6, <1>7 DEF ProbeFinds
<1>8. CASE ProbeMisses(w)
  <2>1. CASE c.row.state = "applied"
    BY <1>0, <1>6, <1>8, <2>1 DEF ProbeMisses
  <2>2. CASE c.row.state # "applied" /\ ~ c.row.due
    BY <1>0, <1>2, <1>4, <1>8, <2>2 DEF ProbeMisses
  <2>3. CASE /\ c.row.state # "applied" /\ c.row.due
             /\ c.row.last_error = "origin_wake_not_yet_accepted"
    BY <1>0, <1>6, <1>8, <2>3 DEF ProbeMisses
  <2>4. CASE /\ c.row.state # "applied" /\ c.row.due
             /\ c.row.last_error # "origin_wake_not_yet_accepted"
    BY <1>0, <1>2, <1>4, <1>8, <2>4 DEF ProbeMisses
  <2>5. c.row.due \in BOOLEAN
    BY <1>2 DEF Context, Row
  <2> QED
    BY <2>1, <2>2, <2>3, <2>4, <2>5
<1>9. CASE Mark(w)
  BY <1>0, <1>2, <1>4, <1>9 DEF Mark
<1>10. CASE \/ CallSucceeds(w, "call", "mark") \/ CallSchedules(w, "call", "mark")
            \/ CallFails(w, "call", "mark")
  BY <1>0, <1>6, <1>10 DEF CallSucceeds, CallSchedules, CallFails, Called
<1> QED
  BY <1>5, <1>7, <1>8, <1>9, <1>10

\* The one process that matters for Rests: a worker's step decides it for
\* every worker.
LEMMA RestsEverywhere ==
  ASSUME OneWorker, SettledInv, NEW w \in Workers, RestsTo(inst', cursor', w)
  PROVE  \A v \in Workers : Rests(inst', cursor', pc'[v], ctx'[v])
<1>1. PICK l \in Labels, c \in Context : Goto(w, l, c) /\ Rests(inst', cursor', l, c)
  BY DEF RestsTo
<1>2. pc'[w] = l /\ ctx'[w] = c
  BY <1>1 DEF Goto, SettledInv, TypeInv, TypeOK, Processes
<1> QED
  BY <1>1, <1>2 DEF OneWorker

LEMMA RestsStill ==
  ASSUME OneWorker, SettledInv, TypeInv', NEW w \in Workers, RestsTo(inst, cursor, w),
         UNCHANGED << inst, cursor >>
  PROVE  SettledInv'
<1>1. RestsTo(inst', cursor', w)
  BY DEF RestsTo
<1>2. Restful(inst') /\ \A e \in Events : e <= cursor' => SettledIn(inst', e)
  BY DEF SettledInv
<1> QED
  BY <1>1, <1>2, RestsEverywhere DEF SettledInv

\* A process outside a tick's handlers relies on nothing.
Aside == { "idle", "scan", "replay", "rcall", "rmark", "rstep",
           "retry", "tprobe", "tcall", "tmark", "tstep" }

LEMMA AsideRests ==
  ASSUME OneWorker, SettledInv, TypeInv', UNCHANGED << inst, cursor >>, NEW p \in Processes,
         \E l \in Aside : \E d : Goto(p, l, d)
  PROVE  SettledInv'
<1>1. PICK l \in Aside : \E d : Goto(p, l, d)
  OBVIOUS
<1>2. ASSUME NEW v \in Workers PROVE Rests(inst', cursor', pc'[v], ctx'[v])
  <2>1. CASE v = p
    <3>1. pc'[v] \in Aside
      BY <1>1, <2>1 DEF Goto, SettledInv, TypeInv, TypeOK
    <3> QED
      BY <3>1 DEF Rests, Aside, Handling
  <2>2. CASE v # p
    <3>1. pc'[v] = pc[v] /\ ctx'[v] = ctx[v]
      BY <1>1, <2>2 DEF Goto, SettledInv, TypeInv, TypeOK, Processes
    <3> QED
      BY <3>1 DEF SettledInv
  <2> QED
    BY <2>1, <2>2
<1> QED
  BY <1>2 DEF SettledInv, Restful, SettledIn

LEMMA BeginRests ==
  ASSUME SettledInv, NEW w \in Workers, BeginTick(w)
  PROVE  RestsTo(inst, cursor, w) /\ UNCHANGED << inst, cursor >>
<1> DEFINE d == [NoCtx EXCEPT !.done = cursor]
<1>1. cursor \in 0 .. MaxSeq /\ cursor \in Nat
  BY DEF SettledInv, TypeInv, TypeOK
<1>2. d \in Context /\ d.done = cursor
  BY <1>1, NoCtxType DEF Context, NoCtx
<1>3. Rests(inst, cursor, "fetch", d) /\ "fetch" \in Labels
  BY <1>1, <1>2 DEF SettledInv, Rests, Behind, Handling, Labels
<1> QED
  BY <1>2, <1>3 DEF BeginTick, RestsTo, store

LEMMA TransitionReadRests ==
  ASSUME SettledInv, NEW w \in Workers, TransitionRead(w)
  PROVE  RestsTo(inst, cursor, w) /\ UNCHANGED << inst, cursor >>
<1> DEFINE c == ctx[w]
<1>1. /\ c \in Context /\ Behind(inst, cursor, c) /\ AtNext(c) /\ Left(inst, "read", c)
  BY Holding DEF TransitionRead, Handling
<1>2. Legal(inst[c.ev], c.target)
  BY <1>1, SourcesAreLegal DEF Left
<1>3. Rests(inst, cursor, "write", c) /\ "write" \in Labels
  BY <1>1 DEF Rests, Left, Operating, Labels
<1> QED
  BY <1>1, <1>2, <1>3 DEF TransitionRead, RestsTo, store

\* A write to the instance in hand leaves the events behind it settled.
LEMMA StillBehind ==
  ASSUME SettledInv, NEW c \in Context, Behind(inst, cursor, c), NEW e \in Events,
         e > c.done, NEW s, inst' = [inst EXCEPT ![e] = s]
  PROVE  /\ Behind(inst', cursor, c)
         /\ \A f \in Events : f <= cursor => SettledIn(inst', f)
<1>1. \A f \in Events : f <= c.done => inst'[f] = inst[f]
  BY EngineAssumption DEF Context, Events
<1>2. \A f \in Events : f <= cursor => f <= c.done
  BY EngineAssumption DEF Context, Events, Behind, SettledInv, TypeInv, TypeOK
<1> QED
  BY <1>1, <1>2 DEF Behind, SettledIn, SettledInv

LEMMA TransitionWriteSettles ==
  ASSUME OneWorker, SettledInv, TypeInv', NEW w \in Workers, TransitionWrite(w)
  PROVE  SettledInv'
<1> DEFINE c == ctx[w]
           e == c.ev
<1>1. /\ c \in Context /\ e \in Events /\ Behind(inst, cursor, c) /\ AtNext(c)
      /\ Left(inst, "write", c)
  BY Holding DEF TransitionWrite, Handling
<1>2. inst' = [inst EXCEPT ![e] = c.target] /\ inst'[e] = c.target /\ cursor' = cursor
  BY <1>1 DEF TransitionWrite, SettledInv, TypeInv, TypeOK
<1>3. e > c.done /\ cursor \in Nat
  BY <1>1, EngineAssumption DEF AtNext, Context, SettledInv, TypeInv, TypeOK
<1>4. /\ Behind(inst', cursor, c)
      /\ \A f \in Events : f <= cursor => SettledIn(inst', f)
  BY <1>1, <1>2, <1>3, StillBehind
<1>5. inst[e] \in Sources(Kind[e], c.target)
  BY <1>1 DEF Left
<1>6. RestsTo(inst', cursor', w)
  BY <1>1, <1>2, <1>3, <1>4, <1>5, AfterTransitionRests DEF TransitionWrite
<1>7. c.target \in StatesOf(Kind[e])
  BY <1>1, <1>5 DEF AtNext, Sources, StatesOf
<1>8. Restful(inst')
  BY <1>1, <1>2, <1>7 DEF Restful, SettledInv, TypeInv, TypeOK
<1> QED
  BY <1>2, <1>4, <1>6, <1>8, RestsEverywhere DEF SettledInv

LEMMA RouteSettles ==
  ASSUME OneWorker, SettledInv, TypeInv', NEW w \in Workers, Route(w)
  PROVE  SettledInv'
<1> DEFINE c == ctx[w]
           e == c.done + 1
<1>1. c \in Context /\ Behind(inst, cursor, c) /\ cursor \in Nat
  BY DEF Route, SettledInv, TypeInv, TypeOK, Rests, Processes
<1>2. e \in Events /\ e > c.done /\ cursor' = cursor
  BY <1>1, EngineAssumption DEF Route, Context, Events
<1>3. CASE Kind[e] = "other"
  <2> DEFINE d == [c EXCEPT !.ev = e]
  <2>1. d \in Context /\ d.ev = e /\ d.done = c.done /\ d.ev = d.done + 1
    BY <1>1, <1>2 DEF Context, Events
  <2>2. Behind(inst, cursor, d)
    BY <1>1, <2>1 DEF Behind
  <2>3. SettledIn(inst, e)
    BY <1>2, <1>3 DEF SettledIn, SettledInv, Restful, StatesOf
  <2>4. Goto(w, "route", Handled(d)) /\ inst' = inst
    BY <1>3 DEF Route
  <2>5. RestsTo(inst, cursor, w)
    BY <1>1, <1>2, <2>1, <2>2, <2>3, <2>4, HandledRests
  <2> QED
    BY <1>2, <2>4, <2>5, RestsStill
<1>4. CASE Kind[e] # "other"
  <2> DEFINE s == IF inst[e] = NoInst THEN "detected" ELSE inst[e]
             d == [c EXCEPT !.ev = e, !.seen = s]
  <2>0. Kind[e] \in { "code_fix", "semantic_refusal" } /\ inst[e] \in StatesOf(Kind[e])
    BY <1>2, <1>4, EngineAssumption DEF Kinds, SettledInv, Restful
  <2>1. s \in StatesOf(Kind[e]) /\ s # NoInst /\ s \in ContinuationState
    BY <2>0 DEF StatesOf, NoInst, ContinuationState
  <2>2. inst' = [inst EXCEPT ![e] = s] /\ inst'[e] = s
    BY <1>2, <1>4 DEF Route, SettledInv, TypeInv, TypeOK
  <2>3. Goto(w, "gate", d)
    BY <1>4, <2>2 DEF Route
  <2>4. d \in Context /\ d.ev = e /\ d.done = c.done /\ d.seen = s
    <3>1. e \in 0 .. MaxSeq
      BY <1>2, EngineAssumption DEF Events
    <3>2. ASSUME NEW n \in 0 .. MaxSeq, NEW t \in ContinuationState
          PROVE  LET f == [c EXCEPT !.ev = n, !.seen = t]
                 IN  f \in Context /\ f.ev = n /\ f.done = c.done /\ f.seen = t
      BY <1>1 DEF Context
    <3> QED
      BY <2>1, <3>1, <3>2
  <2>5. Behind(inst', cursor, c) /\ \A f \in Events : f <= cursor => SettledIn(inst', f)
    BY <1>1, <1>2, <2>2, StillBehind
  <2>6. Behind(inst', cursor, d) /\ AtNext(d) /\ Left(inst', "gate", d)
    BY <2>0, <2>1, <2>2, <2>4, <2>5 DEF Behind, AtNext, Left, Operating
  <2>7. RestsTo(inst', cursor', w)
    BY <1>2, <2>3, <2>4, <2>6 DEF RestsTo, Rests, Labels
  <2>8. Restful(inst')
    BY <1>2, <2>1, <2>2 DEF Restful, SettledInv, TypeInv, TypeOK
  <2> QED
    BY <1>2, <2>5, <2>7, <2>8, RestsEverywhere DEF SettledInv
<1> QED
  BY <1>3, <1>4

LEMMA EndSettles ==
  ASSUME OneWorker, SettledInv, TypeInv', NEW w \in Workers, EndTick(w) \/ EndReconcileTick(w)
  PROVE  SettledInv'
<1>1. inst' = inst /\ cursor' \in { cursor, ctx[w].done } /\ pc'[w] \in { "idle", "scan" }
  BY DEF EndTick, EndReconcileTick, AdvanceCursor, ledger, Goto, SettledInv, TypeInv, TypeOK, Processes
<1>2. Behind(inst, cursor, ctx[w])
  BY DEF EndTick, EndReconcileTick, AdvanceCursor, SettledInv, Rests
<1>3. \A e \in Events : e <= cursor' => SettledIn(inst', e)
  BY <1>1, <1>2 DEF Behind, SettledInv
<1>4. \A v \in Workers : Rests(inst', cursor', pc'[v], ctx'[v])
  BY <1>1 DEF OneWorker, Rests, Handling
<1> QED
  BY <1>1, <1>3, <1>4 DEF SettledInv, Restful

LEMMA AsideSettles ==
  ASSUME OneWorker, SettledInv, TypeInv', NEW p \in Processes,
         \/ Scan(p) \/ ReplayNext(p) \/ ReplayMark(p) \/ ReplayStep(p) \/ EndReconcile(p)
         \/ CallSucceeds(p, "rcall", "rmark") \/ CallSchedules(p, "rcall", "rmark")
         \/ CallFails(p, "rcall", "rmark")
         \/ Retry(p) \/ Crash(p)
  PROVE  SettledInv'
<1>1. UNCHANGED << inst, cursor >>
  BY DEF Scan, ReplayNext, ReplayMark, ReplayStep, EndReconcile, CallSucceeds, CallSchedules,
     CallFails, Called, Retry, RetrySelect, RetryNext, RetryProbe, RetryMark, RetryStep,
     EndRetry, Crash, store
<1>2. CASE \/ Scan(p) \/ ReplayMark(p) \/ ReplayStep(p) \/ EndReconcile(p) \/ Crash(p)
           \/ CallSucceeds(p, "rcall", "rmark") \/ CallSchedules(p, "rcall", "rmark")
           \/ CallFails(p, "rcall", "rmark")
  <2>1. \E l \in { "replay", "rstep", "rmark", "idle" } : \E d : Goto(p, l, d)
    BY <1>2 DEF Scan, ReplayMark, ReplayStep, EndReconcile, Crash, CallSucceeds, CallSchedules,
       CallFails, Called
  <2> QED
    BY <1>1, <2>1, AsideRests DEF Aside
<1>3. CASE ReplayNext(p)
  <2>1. \E l \in { "rmark", "rcall" } : \E d : Goto(p, l, d)
    BY <1>3 DEF ReplayNext
  <2> QED
    BY <1>1, <2>1, AsideRests DEF Aside
<1>4. CASE Retry(p)
  <2>1. \E l \in { "retry", "tprobe", "tcall", "tmark", "tstep", "idle" } : \E d : Goto(p, l, d)
    <3>1. CASE \/ RetrySelect(p) \/ RetryStep(p) \/ EndRetry(p)
               \/ CallSucceeds(p, "tcall", "tmark") \/ CallSchedules(p, "tcall", "tmark")
               \/ CallFails(p, "tcall", "tmark")
      BY <3>1 DEF RetrySelect, RetryStep, EndRetry, CallSucceeds, CallSchedules, CallFails, Called
    <3>2. CASE RetryMark(p)
      BY <3>2 DEF RetryMark, RetryApplied
    <3>3. CASE RetryProbe(p)
      BY <3>3 DEF RetryProbe, RetryApplied
    <3>4. CASE RetryNext(p)
      BY <3>4 DEF RetryNext, RetryApplied
    <3> QED
      BY <1>4, <3>1, <3>2, <3>3, <3>4 DEF Retry
  <2> QED
    BY <1>1, <2>1, AsideRests DEF Aside
<1> QED
  BY <1>2, <1>3, <1>4

LEMMA SettledInit == Init => SettledInv
<1> SUFFICES ASSUME Init PROVE SettledInv
  OBVIOUS
<1>1. \A e \in Events : inst[e] \in StatesOf(Kind[e]) /\ ~ (e <= cursor)
  BY EngineAssumption DEF Init, StatesOf, Kinds, Events
<1>2. \A w \in Workers : Rests(inst, cursor, pc[w], ctx[w])
  BY DEF Init, Rests, Handling, Processes
<1> QED
  BY <1>1, <1>2, TypeInit DEF SettledInv, Restful

LEMMA SettledStep ==
  ASSUME OneWorker
  PROVE  SettledInv /\ [Next]_vars => SettledInv'
<1> SUFFICES ASSUME SettledInv, [Next]_vars PROVE SettledInv'
  OBVIOUS
<1>0. TypeInv'
  BY TypeStep DEF SettledInv
<1>1. CASE UNCHANGED vars
  BY <1>0, <1>1 DEF vars, store, SettledInv, Restful, SettledIn
<1>2. CASE \/ Post \/ (\E e \in Events : GatewayAccepts(e))
           \/ (\E e \in Events, op \in Ops : Elapse(e, op))
  <2>1. UNCHANGED << inst, cursor, pc, ctx >>
    BY <1>2 DEF Post, GatewayAccepts, Elapse, store
  <2> QED
    BY <1>0, <2>1 DEF SettledInv, Restful, SettledIn
<1>3. ASSUME NEW w \in Workers,
             \/ BeginTick(w) \/ Internal(w) \/ Board(w) \/ EndTick(w) \/ EndReconcileTick(w)
      PROVE  SettledInv'
  <2>0. w \in Processes
    BY DEF Processes
  <2>1. CASE \/ BeginTick(w) \/ Fetch(w) \/ Gate(w) \/ Reread(w) \/ Satisfy(w) \/ TransitionRead(w)
             \/ SkipStep(w) \/ MarkStep(w) \/ Finish(w)
             \/ Enqueue(w) \/ ProbeFinds(w) \/ ProbeMisses(w) \/ Mark(w)
             \/ CallSucceeds(w, "call", "mark") \/ CallSchedules(w, "call", "mark")
             \/ CallFails(w, "call", "mark")
    <3>1. RestsTo(inst, cursor, w) /\ UNCHANGED << inst, cursor >>
      BY <2>1, BeginRests, QuietRests, TransitionReadRests, OperationRests
    <3> QED
      BY <1>0, <3>1, RestsStill
  <2>2. CASE Route(w) \/ TransitionWrite(w) \/ EndTick(w) \/ EndReconcileTick(w)
    BY <1>0, <2>2, RouteSettles, TransitionWriteSettles, EndSettles
  <2>3. CASE \/ Scan(w) \/ ReplayNext(w) \/ ReplayMark(w) \/ ReplayStep(w) \/ EndReconcile(w)
             \/ CallSucceeds(w, "rcall", "rmark") \/ CallSchedules(w, "rcall", "rmark")
             \/ CallFails(w, "rcall", "rmark")
    BY <1>0, <2>0, <2>3, AsideSettles
  <2> QED
    BY <1>3, <2>1, <2>2, <2>3 DEF Internal, Board
<1>4. ASSUME NEW o \in Operators, Retry(o) PROVE SettledInv'
  <2>1. o \in Processes
    BY DEF Processes
  <2> QED
    BY <1>0, <1>4, <2>1, AsideSettles
<1>5. ASSUME NEW p \in Processes, Crash(p) PROVE SettledInv'
  BY <1>0, <1>5, AsideSettles
<1> QED
  BY <1>1, <1>2, <1>3, <1>4, <1>5 DEF Next

\* With one worker, whatever operators retry and wherever anyone dies, an event
\* behind the cursor is never parked in failed_retryable or half way: its
\* handler carried it to the state it promises before max_seq passed it.
THEOREM HandledEventsAreSettled ==
  ASSUME OneWorker
  PROVE  Spec => []HandledIsSettled
<1>1. Spec => []SettledInv
  BY SettledInit, SettledStep, PTL DEF Spec
<1>2. SettledInv => HandledIsSettled
  BY DEF SettledInv, SettledIn, HandledIsSettled, Settled
<1> QED
  BY <1>1, <1>2, PTL

-----------------------------------------------------------------------------
(* Ticks and retries that do not overlap.  What one process read of a row or *)
(* of an instance is then still true when it writes, but for the clock, so   *)
(* that two promises hold which a stale snapshot of another process breaks.  *)

OneProcess == \A p, q \in Processes : p = q

AckDead(o, e) == o[e]["record_consumer_ack"].state = "callback_deadletter"

\* A process at work on the row of an ACK has not seen it dead, and nobody has
\* killed it since; nor are the rows of a batch dead, which are of distinct
\* operations and not of the one in hand.
Alive(o, l, c) ==
  /\ l \in Calling /\ c.op = "record_consumer_ack" => ~ AckDead(o, c.ev)
  /\ l \in { "replay" } \union Replaying =>
       /\ \A item \in c.batch : item.op = "record_consumer_ack" => ~ AckDead(o, item.ev)
       /\ \A i, j \in c.batch : i.ev = j.ev /\ i.op = j.op => i = j
  /\ l \in Replaying => \A item \in c.batch : item.ev # c.ev \/ item.op # c.op

\* RetryNotDue, of an explicit outbox o.
Waiting(o, e) ==
  /\ \E op \in Ops : o[e][op].state = "pending"
  /\ \A op \in Ops : ~ Retryable(o[e][op])

\* A code_fix instance on its way out of failed_retryable is not in backoff.
InTime(i, o, l, c) ==
  /\ l \in { "read", "write" } /\ c.target = "materializing"
  /\ Kind[c.ev] = "code_fix" /\ i[c.ev] = "failed_retryable"
  => ~ Waiting(o, c.ev)

AloneInv ==
  /\ SettledInv
  /\ \A p \in Processes : Alive(outbox, pc[p], ctx[p]) /\ InTime(inst, outbox, pc[p], ctx[p])

Alike(i, o, l, c) == Alive(o, l, c) /\ InTime(i, o, l, c)

AloneGoes(p) == \E l \in Labels : \E c : Goto(p, l, c) /\ Alike(inst', outbox', l, c)

LEMMA AloneMoves ==
  ASSUME OneProcess, AloneInv, SettledInv', NEW p \in Processes, AloneGoes(p)
  PROVE  AloneInv'
<1>1. PICK l \in Labels : \E c : Goto(p, l, c) /\ Alike(inst', outbox', l, c)
  BY DEF AloneGoes
<1>2. PICK c : Goto(p, l, c) /\ Alike(inst', outbox', l, c)
  BY <1>1
<1>3. pc'[p] = l /\ ctx'[p] = c
  BY <1>2 DEF Goto, AloneInv, SettledInv, TypeInv, TypeOK
<1> QED
  BY <1>2, <1>3 DEF OneProcess, AloneInv, Alike

\* The labels that ask neither an ACK nor an instance.
Easy == { "idle", "fetch", "route", "gate", "reread", "satisfy", "op", "step",
          "scan", "retry", "tstep" }

LEMMA EasyGoes ==
  ASSUME NEW p, NEW l \in Easy, NEW c, Goto(p, l, c)
  PROVE  AloneGoes(p)
<1>1. Alike(inst', outbox', l, c) /\ l \in Labels
  BY DEF Alike, Alive, InTime, Easy, Calling, Replaying, Labels
<1> QED
  BY <1>1 DEF AloneGoes

LEMMA MovingGoes ==
  ASSUME NEW p, NEW c \in Context, NEW s \in ContinuationState \ {"materializing"},
         Goto(p, "read", Moving(c, s))
  PROVE  AloneGoes(p)
<1>1. Moving(c, s).target = s
  BY MovesType
<1>2. Alike(inst', outbox', "read", Moving(c, s)) /\ "read" \in Labels
  BY <1>1 DEF Alike, Alive, InTime, Calling, Replaying, Labels
<1> QED
  BY <1>2 DEF AloneGoes

LEMMA OpEndsEasily ==
  ASSUME NEW p, NEW c \in Context, OpFailed(p, c) \/ OpSucceeded(p, c)
  PROVE  AloneGoes(p)
<1>1. CASE OpFailed(p, c) /\ c.op \in GraphOps
  <2>1. "failed_retryable" \in ContinuationState \ {"materializing"}
    BY DEF ContinuationState
  <2> QED
    BY <1>1, <2>1, MovingGoes DEF OpFailed
<1>2. CASE ~ (OpFailed(p, c) /\ c.op \in GraphOps)
  <2>1. \E l \in { "op", "step" } : \E d : Goto(p, l, d)
    BY <1>2 DEF OpFailed, OpSucceeded
  <2> QED
    BY <2>1, EasyGoes DEF Easy
<1> QED
  BY <1>1, <1>2

LEMMA AfterTransitionEasy ==
  ASSUME NEW p, NEW c, c.target \in Targets, AfterTransition(p, c)
  PROVE  AloneGoes(p)
<1>1. \E l \in { "reread", "op", "route" } : \E d : Goto(p, l, d)
  BY DEF AfterTransition, Targets
<1> QED
  BY <1>1, EasyGoes DEF Easy

LEMMA BodyEasy ==
  ASSUME NEW p, NEW c, Body(p, c)
  PROVE  AloneGoes(p)
<1>1. \E l \in { "op", "satisfy" } : \E d : Goto(p, l, d)
  BY DEF Body
<1> QED
  BY <1>1, EasyGoes DEF Easy

LEMMA GateAlone ==
  ASSUME AloneInv, NEW w \in Workers, Gate(w)
  PROVE  AloneGoes(w)
<1> DEFINE c == ctx[w]
<1>0. c \in Context /\ c.ev \in Events /\ c.seen = inst[c.ev]
  BY Holding DEF AloneInv, Gate, Left, Handling
<1>1. CASE Goto(w, "route", Broken(c))
  BY <1>1, EasyGoes DEF Easy
<1>2. CASE Body(w, c)
  BY <1>2, BodyEasy
<1>3. CASE /\ ~ (Kind[c.ev] = "code_fix" /\ c.seen = "failed_retryable" /\ RetryNotDue(c.ev))
           /\ Goto(w, "read", Moving(c, "materializing"))
  <2> DEFINE d == Moving(c, "materializing")
  <2>1. d.ev = c.ev
    BY <1>0, MovesType DEF ContinuationState
  <2>2. UNCHANGED << inst, outbox >>
    BY DEF Gate, store
  <2>3. Kind[c.ev] = "code_fix" /\ inst[c.ev] = "failed_retryable" => ~ Waiting(outbox, c.ev)
    BY <1>0, <1>3 DEF RetryNotDue, Waiting
  <2>4. Alike(inst', outbox', "read", d) /\ "read" \in Labels
    BY <2>1, <2>2, <2>3 DEF Alike, Alive, InTime, Calling, Replaying, Labels
  <2> QED
    BY <1>3, <2>4 DEF AloneGoes
<1> QED
  BY <1>1, <1>2, <1>3 DEF Gate

LEMMA TransitionReadAlone ==
  ASSUME AloneInv, NEW w \in Workers, TransitionRead(w)
  PROVE  AloneGoes(w)
<1> DEFINE c == ctx[w]
<1>1. c.target \in Targets /\ InTime(inst, outbox, "read", c)
  BY DEF AloneInv, SettledInv, TypeInv, Shape, TransitionRead, Processes
<1>2. CASE AfterTransition(w, c)
  BY <1>1, <1>2, AfterTransitionEasy
<1>3. CASE Goto(w, "write", c)
  <2>1. UNCHANGED << inst, outbox >>
    BY DEF TransitionRead, store
  <2>2. Alike(inst', outbox', "write", c) /\ "write" \in Labels
    BY <1>1, <2>1 DEF Alike, Alive, InTime, Calling, Replaying, Labels
  <2> QED
    BY <1>3, <2>2 DEF AloneGoes
<1> QED
  BY <1>2, <1>3 DEF TransitionRead

LEMMA IngestAlone ==
  ASSUME AloneInv, NEW w \in Workers,
         \/ BeginTick(w) \/ Fetch(w) \/ Route(w) \/ TransitionWrite(w) \/ Reread(w) \/ Satisfy(w)
         \/ SkipStep(w) \/ MarkStep(w) \/ Finish(w) \/ EndTick(w) \/ EndReconcileTick(w)
  PROVE  AloneGoes(w)
<1> DEFINE c == ctx[w]
<1>0. c \in Context /\ Shape(pc[w], c)
  BY DEF AloneInv, SettledInv, TypeInv, TypeOK, Processes
<1>1. CASE BeginTick(w) \/ Fetch(w) \/ Route(w) \/ SkipStep(w) \/ MarkStep(w)
           \/ EndTick(w) \/ EndReconcileTick(w)
  <2>1. \E l \in { "fetch", "route", "gate", "op", "idle", "scan" } : \E d : Goto(w, l, d)
    BY <1>1 DEF BeginTick, Fetch, Route, SkipStep, MarkStep, EndTick, EndReconcileTick
  <2> QED
    BY <2>1, EasyGoes DEF Easy
<1>2. CASE TransitionWrite(w)
  <2>1. c.target \in Targets /\ AfterTransition(w, c)
    BY <1>0, <1>2 DEF TransitionWrite, Shape
  <2> QED
    BY <2>1, AfterTransitionEasy
<1>3. CASE Reread(w)
  BY <1>3, BodyEasy DEF Reread
<1>4. ASSUME NEW s \in ContinuationState \ {"materializing"}, Goto(w, "read", Moving(c, s))
      PROVE  AloneGoes(w)
  BY <1>0, <1>4, MovingGoes
<1>5. { "waiting_review", "blocked_invalid" } \subseteq ContinuationState \ {"materializing"}
  BY DEF ContinuationState
<1>6. CASE Satisfy(w)
  BY <1>4, <1>5, <1>6, EasyGoes DEF Satisfy, Easy
<1>7. CASE Finish(w)
  BY <1>4, <1>5, <1>7, EasyGoes DEF Finish, Easy
<1> QED
  BY <1>1, <1>2, <1>3, <1>6, <1>7

\* The labels between a row as read and its outcome: only the ACK's row counts.
LEMMA CallingGoes ==
  ASSUME NEW p, NEW l \in Calling \ Replaying, NEW c, Goto(p, l, c),
         c.op = "record_consumer_ack" => ~ AckDead(outbox', c.ev)
  PROVE  AloneGoes(p)
<1>1. Alike(inst', outbox', l, c) /\ l \in Labels
  BY DEF Alike, Alive, InTime, Calling, Replaying, Labels
<1> QED
  BY <1>1 DEF AloneGoes

LEMMA OperationAlone ==
  ASSUME AloneInv, NEW w \in Workers,
         \/ Enqueue(w) \/ ProbeFinds(w) \/ ProbeMisses(w) \/ Mark(w)
         \/ CallSucceeds(w, "call", "mark") \/ CallSchedules(w, "call", "mark")
         \/ CallFails(w, "call", "mark")
  PROVE  AloneGoes(w)
<1> DEFINE c == ctx[w]
<1>0. /\ c \in Context /\ Shape(pc[w], c) /\ Alive(outbox, pc[w], c)
      /\ outbox \in [Events -> [Ops -> Row]]
  BY DEF AloneInv, SettledInv, TypeInv, TypeOK, Processes
<1>1. CASE Enqueue(w)
  <2> DEFINE row == Enqueued(outbox[c.ev][c.op])
             d == [c EXCEPT !.row = row]
  <2>1. c.op \in Ops /\ c.ev \in Events
    BY <1>0, <1>1 DEF Enqueue, Shape, Handling
  <2>2. row \in Row
    BY <1>0, <2>1, EnqueuedType
  <2>3. d \in Context /\ d.ev = c.ev /\ d.op = c.op /\ d.row = row
    BY <1>0, <2>2 DEF Context
  <2>4. Decide(w, d) /\ outbox'[c.ev][c.op] = row
    BY <1>0, <1>1, <2>1 DEF Enqueue
  <2>5. CASE d.op = "record_consumer_ack" /\ row.state = "callback_deadletter"
    BY <2>3, <2>4, <2>5, OpEndsEasily DEF Decide
  <2>6. CASE ~ (d.op = "record_consumer_ack" /\ row.state = "callback_deadletter")
    <3>1. \/ Goto(w, "probe", d) \/ Goto(w, "call", d) \/ OpFailed(w, d) \/ OpSucceeded(w, d)
      BY <2>1, <2>3, <2>4 DEF Decide
    <3>2. d.op = "record_consumer_ack" => ~ AckDead(outbox', d.ev)
      BY <2>3, <2>4, <2>6 DEF AckDead
    <3>3. "probe" \in Calling \ Replaying /\ "call" \in Calling \ Replaying
      BY DEF Calling, Replaying
    <3> QED
      BY <2>3, <3>1, <3>2, <3>3, CallingGoes, OpEndsEasily
  <2> QED
    BY <2>5, <2>6
<1>2. ASSUME pc[w] \in { "probe", "call" }, outbox' = outbox,
             NEW l \in { "call", "mark" }, NEW d, d.ev = c.ev, d.op = c.op, Goto(w, l, d)
      PROVE  AloneGoes(w)
  <2>1. d.op = "record_consumer_ack" => ~ AckDead(outbox', d.ev)
    BY <1>0, <1>2 DEF Alive, Calling
  <2>2. l \in Calling \ Replaying
    BY DEF Calling, Replaying
  <2> QED
    BY <1>2, <2>1, <2>2, CallingGoes
<1>3. ASSUME pc[w] \in { "probe", "call" }, outbox' = outbox,
             NEW r, Goto(w, "mark", [c EXCEPT !.res = r])
      PROVE  AloneGoes(w)
  <2> DEFINE d == [c EXCEPT !.res = r]
  <2>1. d.ev = c.ev /\ d.op = c.op
    BY <1>0 DEF Context
  <2> QED
    BY <1>2, <1>3, <2>1
<1>4. CASE ProbeFinds(w)
  <2>1. pc[w] = "probe" /\ outbox' = outbox
    BY <1>4 DEF ProbeFinds, store
  <2>2. Goto(w, "op", Advanced(c)) \/ Goto(w, "mark", [c EXCEPT !.res = "ok"])
    BY <1>4 DEF ProbeFinds
  <2> QED
    BY <1>3, <2>1, <2>2, EasyGoes DEF Easy
<1>5. CASE ProbeMisses(w)
  <2>1. pc[w] = "probe" /\ outbox' = outbox
    BY <1>5 DEF ProbeMisses, store
  <2>2. \/ \E r \in { "not_yet_accepted", "error" } : Goto(w, "mark", [c EXCEPT !.res = r])
        \/ OpFailed(w, c) \/ Goto(w, "call", c)
    <3>1. CASE c.row.state = "applied"
      BY <1>5, <3>1 DEF ProbeMisses
    <3>2. CASE c.row.state # "applied" /\ ~ c.row.due
      BY <1>5, <3>2 DEF ProbeMisses
    <3>3. CASE /\ c.row.state # "applied" /\ c.row.due
               /\ c.row.last_error = "origin_wake_not_yet_accepted"
      BY <1>5, <3>3 DEF ProbeMisses
    <3>4. CASE /\ c.row.state # "applied" /\ c.row.due
               /\ c.row.last_error # "origin_wake_not_yet_accepted"
      BY <1>5, <3>4 DEF ProbeMisses
    <3>5. c.row.due \in BOOLEAN
      BY <1>0 DEF Context, Row
    <3> QED
      BY <3>1, <3>2, <3>3, <3>4, <3>5
  <2> QED
    BY <1>0, <1>2, <1>3, <2>1, <2>2, OpEndsEasily
<1>6. CASE Mark(w)
  BY <1>0, <1>6, OpEndsEasily DEF Mark
<1>7. CASE \/ CallSucceeds(w, "call", "mark") \/ CallSchedules(w, "call", "mark")
           \/ CallFails(w, "call", "mark")
  <2>1. pc[w] = "call" /\ outbox' = outbox
    BY <1>7 DEF CallSucceeds, CallSchedules, CallFails, Called, store
  <2>2. \E r : Goto(w, "mark", [c EXCEPT !.res = r])
    BY <1>7 DEF CallSucceeds, CallSchedules, CallFails, Called
  <2> QED
    BY <1>3, <2>1, <2>2
<1> QED
  BY <1>1, <1>4, <1>5, <1>6, <1>7

-----------------------------------------------------------------------------
(* Replays and retries.                                                    *)

LEMMA ReplayAlone ==
  ASSUME AloneInv, NEW w \in Processes,
         \/ Scan(w) \/ ReplayNext(w) \/ ReplayMark(w) \/ ReplayStep(w) \/ EndReconcile(w)
         \/ CallSucceeds(w, "rcall", "rmark") \/ CallSchedules(w, "rcall", "rmark")
         \/ CallFails(w, "rcall", "rmark")
  PROVE  AloneGoes(w)
<1> DEFINE c == ctx[w]
<1>0. /\ c \in Context /\ Shape(pc[w], c) /\ Alive(outbox, pc[w], c)
      /\ outbox \in [Events -> [Ops -> Row]]
  BY DEF AloneInv, SettledInv, TypeInv, TypeOK
<1>1. ASSUME NEW l \in { "replay" } \union Replaying, NEW d, Goto(w, l, d), Alive(outbox', l, d)
      PROVE  AloneGoes(w)
  <2>1. InTime(inst', outbox', l, d) /\ l \in Labels
    BY DEF InTime, Replaying, Labels
  <2> QED
    BY <1>1, <2>1 DEF AloneGoes, Alike
<1>2. CASE Scan(w)
  <2> DEFINE rows == { [ev |-> q[1], op |-> q[2], row |-> outbox[q[1]][q[2]]] :
                         q \in { r \in Events \X Ops : Retryable(outbox[r[1]][r[2]]) } }
             d == [NoCtx EXCEPT !.batch = rows]
  <2>1. d.batch = rows /\ Goto(w, "replay", d) /\ outbox' = outbox
    BY <1>2 DEF Scan, NoCtx, store
  <2>2. \A item \in rows : outbox[item.ev][item.op].state = "pending"
                           /\ item.row = outbox[item.ev][item.op]
    BY DEF Retryable
  <2>3. \A i, j \in rows : i.ev = j.ev /\ i.op = j.op => i = j
    OBVIOUS
  <2>4. Alive(outbox', "replay", d)
    BY <2>1, <2>2, <2>3 DEF Alive, AckDead, Calling, Replaying
  <2> QED
    BY <1>1, <2>1, <2>4
<1>3. CASE ReplayNext(w)
  <2> DEFINE d0(item) == [c EXCEPT !.ev = item.ev, !.op = item.op, !.row = item.row,
                                   !.batch = @ \ {item}]
  <2>1. PICK item \in c.batch :
          \/ Goto(w, "rmark", [d0(item) EXCEPT !.res = "ok"])
          \/ Goto(w, "rmark", [d0(item) EXCEPT !.res = "not_yet_accepted"])
          \/ Goto(w, "rcall", d0(item))
    BY <1>3 DEF ReplayNext
  <2>2. ASSUME NEW r
        PROVE  LET d == [d0(item) EXCEPT !.res = r]
               IN  d.ev = item.ev /\ d.op = item.op /\ d.batch = c.batch \ {item}
    BY <1>0 DEF Context
  <2>a. d0(item).ev = item.ev /\ d0(item).op = item.op /\ d0(item).batch = c.batch \ {item}
    BY <1>0 DEF Context
  <2>3. PICK l \in { "rmark", "rcall" }, d \in { [d0(item) EXCEPT !.res = "ok"],
               [d0(item) EXCEPT !.res = "not_yet_accepted"], d0(item) } :
          Goto(w, l, d) /\ d.ev = item.ev /\ d.op = item.op /\ d.batch = c.batch \ {item}
    BY <2>1, <2>2, <2>a
  <2>4. pc[w] = "replay" /\ outbox' = outbox
    BY <1>3 DEF ReplayNext, store
  <2>5. Alive(outbox', l, d)
    BY <1>0, <2>3, <2>4 DEF Alive, Replaying
  <2> QED
    BY <1>1, <2>3, <2>5 DEF Replaying
<1>4. CASE ReplayMark(w)
  <2>1. c.ev \in Events /\ c.op \in Ops /\ Alive(outbox, "rmark", c)
    BY <1>0, <1>4 DEF ReplayMark, Shape, Replaying, Calling
  <2>2. \A item \in c.batch : /\ item.ev \in Events /\ item.op \in Ops
                              /\ outbox'[item.ev][item.op] = outbox[item.ev][item.op]
    BY <1>0, <1>4, <2>1 DEF ReplayMark, Alive, Replaying, Context, Items
  <2>3. PICK l \in { "rstep", "replay" } : \E d : Goto(w, l, d) /\ d.batch = c.batch
                                                /\ d.ev \in {c.ev, 0} /\ (l = "rstep" => d.ev = c.ev /\ d.op = c.op)
    BY <1>0, <1>4 DEF ReplayMark, Context, NoCtx
  <2>4. PICK d : Goto(w, l, d) /\ d.batch = c.batch /\ (l = "rstep" => d.ev = c.ev /\ d.op = c.op)
    BY <2>3
  <2>5. Alive(outbox', l, d)
    BY <2>1, <2>2, <2>4 DEF Alive, AckDead, Calling, Replaying
  <2> QED
    BY <1>1, <2>4, <2>5 DEF Replaying
<1>5. CASE ReplayStep(w)
  <2> DEFINE d == [NoCtx EXCEPT !.batch = c.batch]
  <2>1. d.batch = c.batch /\ Goto(w, "replay", d) /\ outbox' = outbox
    BY <1>5 DEF ReplayStep, NoCtx
  <2>2. Alive(outbox', "replay", d)
    BY <1>0, <1>5, <2>1 DEF ReplayStep, Alive, Calling, Replaying
  <2> QED
    BY <1>1, <2>1, <2>2
<1>6. CASE EndReconcile(w)
  BY <1>6, EasyGoes DEF EndReconcile, Easy
<1>7. CASE \/ CallSucceeds(w, "rcall", "rmark") \/ CallSchedules(w, "rcall", "rmark")
           \/ CallFails(w, "rcall", "rmark")
  <2>1. pc[w] = "rcall" /\ outbox' = outbox
    BY <1>7 DEF CallSucceeds, CallSchedules, CallFails, Called, store
  <2>2. PICK r : Goto(w, "rmark", [c EXCEPT !.res = r])
    BY <1>7 DEF CallSucceeds, CallSchedules, CallFails, Called
  <2> DEFINE d == [c EXCEPT !.res = r]
  <2>3. d.ev = c.ev /\ d.op = c.op /\ d.batch = c.batch
    BY <1>0 DEF Context
  <2>4. Alive(outbox', "rmark", d)
    BY <1>0, <2>1, <2>3 DEF Alive, Calling, Replaying
  <2> QED
    BY <1>1, <2>2, <2>4 DEF Replaying
<1> QED
  BY <1>2, <1>3, <1>4, <1>5, <1>6, <1>7

LEMMA RetryAlone ==
  ASSUME AloneInv, NEW o \in Processes, Retry(o)
  PROVE  AloneGoes(o)
<1> DEFINE c == ctx[o]
<1>0. /\ c \in Context /\ Alive(outbox, pc[o], c)
  BY DEF AloneInv, SettledInv, TypeInv, TypeOK
<1>1. ASSUME NEW d, RetryApplied(o, d) PROVE AloneGoes(o)
  BY <1>1, EasyGoes DEF RetryApplied, Easy
<1>2. ASSUME outbox' = outbox, NEW l \in { "tprobe", "tcall", "tmark" }, NEW d, Goto(o, l, d),
             d.op = "record_consumer_ack" => ~ AckDead(outbox, d.ev)
      PROVE  AloneGoes(o)
  <2>1. l \in Calling \ Replaying
    BY DEF Calling, Replaying
  <2> QED
    BY <1>2, <2>1, CallingGoes
<1>3. ASSUME pc[o] \in { "tprobe", "tcall" }, outbox' = outbox, NEW r,
             Goto(o, "tmark", [c EXCEPT !.res = r])
      PROVE  AloneGoes(o)
  <2> DEFINE d == [c EXCEPT !.res = r]
  <2>1. d.ev = c.ev /\ d.op = c.op
    BY <1>0 DEF Context
  <2>2. d.op = "record_consumer_ack" => ~ AckDead(outbox, d.ev)
    BY <1>0, <1>3, <2>1 DEF Alive, Calling
  <2> QED
    BY <1>2, <1>3, <2>2
<1>4. CASE RetrySelect(o) \/ RetryStep(o) \/ EndRetry(o)
  BY <1>4, EasyGoes DEF RetrySelect, RetryStep, EndRetry, Easy
<1>5. CASE RetryMark(o)
  BY <1>1, <1>5, EasyGoes DEF RetryMark, Easy
<1>6. CASE RetryNext(o)
  <2>1. PICK item \in c.batch :
          LET row == outbox[item.ev][item.op]
              d == [c EXCEPT !.ev = item.ev, !.op = item.op, !.row = row, !.batch = @ \ {item}]
          IN  \/ Goto(o, "retry", NextRow(d))
              \/ RetryApplied(o, d)
              \/ /\ row.state # "callback_deadletter"
                 /\ Goto(o, "tprobe", d) \/ Goto(o, "tcall", d)
    BY <1>6 DEF RetryNext
  <2> DEFINE d == [c EXCEPT !.ev = item.ev, !.op = item.op, !.row = outbox[item.ev][item.op],
                            !.batch = @ \ {item}]
  <2>2. d.ev = item.ev /\ d.op = item.op
    BY <1>0 DEF Context
  <2>3. outbox' = outbox
    BY <1>6 DEF RetryNext, store
  <2>4. CASE Goto(o, "retry", NextRow(d)) \/ RetryApplied(o, d)
    BY <1>1, <2>4, EasyGoes DEF Easy
  <2>5. CASE /\ outbox[item.ev][item.op].state # "callback_deadletter"
             /\ Goto(o, "tprobe", d) \/ Goto(o, "tcall", d)
    <3>1. d.op = "record_consumer_ack" => ~ AckDead(outbox, d.ev)
      BY <2>2, <2>5 DEF AckDead
    <3> QED
      BY <1>2, <2>3, <2>5, <3>1
  <2> QED
    BY <2>1, <2>4, <2>5
<1>7. CASE RetryProbe(o)
  <2>1. pc[o] = "tprobe" /\ outbox' = outbox
    BY <1>7 DEF RetryProbe, store
  <2>2. \/ RetryApplied(o, c) \/ Goto(o, "tcall", c)
        \/ \E r : Goto(o, "tmark", [c EXCEPT !.res = r])
    BY <1>7 DEF RetryProbe
  <2>3. c.op = "record_consumer_ack" => ~ AckDead(outbox, c.ev)
    BY <1>0, <2>1 DEF Alive, Calling
  <2> QED
    BY <1>1, <1>2, <1>3, <2>1, <2>2, <2>3
<1>8. CASE \/ CallSucceeds(o, "tcall", "tmark") \/ CallSchedules(o, "tcall", "tmark")
           \/ CallFails(o, "tcall", "tmark")
  <2>1. pc[o] = "tcall" /\ outbox' = outbox
    BY <1>8 DEF CallSucceeds, CallSchedules, CallFails, Called, store
  <2>2. \E r : Goto(o, "tmark", [c EXCEPT !.res = r])
    BY <1>8 DEF CallSucceeds, CallSchedules, CallFails, Called
  <2> QED
    BY <1>3, <2>1, <2>2
<1> QED
  BY <1>4, <1>5, <1>6, <1>7, <1>8 DEF Retry

\* The clock: a row that becomes due was pending, and a wait only ends.
LEMMA ElapseAlone ==
  ASSUME AloneInv, SettledInv', NEW e \in Events, NEW op \in Ops, Elapse(e, op)
  PROVE  AloneInv'
<1>0. outbox \in [Events -> [Ops -> Row]] /\ \A p \in Processes : Shape(pc[p], ctx[p]) /\ ctx[p] \in Context
  BY DEF AloneInv, SettledInv, TypeInv, TypeOK
<1>1. UNCHANGED << inst, pc, ctx >>
  BY DEF Elapse
<1>2. ASSUME NEW f \in Events, NEW q \in Ops
      PROVE  /\ outbox'[f][q].state = outbox[f][q].state
             /\ Retryable(outbox[f][q]) => Retryable(outbox'[f][q])
  <2>1. outbox'[f][q] \in { outbox[f][q], MarkedDue(outbox[f][q]) }
    BY <1>0 DEF Elapse
  <2>2. outbox[f][q] \in Row
    BY <1>0
  <2>3. MarkedDue(outbox[f][q]).state = outbox[f][q].state /\ MarkedDue(outbox[f][q]).due
    BY <2>2 DEF MarkedDue, Row
  <2> QED
    BY <2>1, <2>3 DEF Retryable
<1>3. \A f \in Events : AckDead(outbox', f) <=> AckDead(outbox, f)
  BY <1>2 DEF AckDead, Ops, CALLBACK_ONLY_OPERATIONS
<1>4. \A f \in Events : Waiting(outbox', f) => Waiting(outbox, f)
  BY <1>2 DEF Waiting
<1>5. ASSUME NEW p \in Processes
      PROVE  Alive(outbox', pc'[p], ctx'[p]) /\ InTime(inst', outbox', pc'[p], ctx'[p])
  <2>1. Alive(outbox, pc[p], ctx[p]) /\ InTime(inst, outbox, pc[p], ctx[p])
    BY DEF AloneInv
  <2>2. pc[p] \in Calling => ctx[p].ev \in Events
    BY <1>0 DEF Shape, Calling, Handling, Replaying, Retrying
  <2>3. \A item \in ctx[p].batch : item.ev \in Events
    BY <1>0 DEF Context, Items
  <2>4. pc[p] \in { "read", "write" } => ctx[p].ev \in Events
    BY <1>0 DEF Shape, Handling
  <2>5. Alive(outbox', pc[p], ctx[p])
    BY <1>3, <2>1, <2>2, <2>3 DEF Alive
  <2>6. InTime(inst, outbox', pc[p], ctx[p])
    BY <1>4, <2>1, <2>4 DEF InTime
  <2> QED
    BY <1>1, <2>5, <2>6
<1> QED
  BY <1>5 DEF AloneInv

LEMMA AloneInit == Init => AloneInv
<1> SUFFICES ASSUME Init PROVE AloneInv
  OBVIOUS
<1>1. \A p \in Processes : Alive(outbox, pc[p], ctx[p]) /\ InTime(inst, outbox, pc[p], ctx[p])
  BY DEF Init, Alive, InTime, Calling, Replaying
<1> QED
  BY <1>1, SettledInit DEF AloneInv

\* What any step of a process is, by the lemma that covers it.
LEMMA AloneProcessStep ==
  ASSUME OneProcess, AloneInv, SettledInv',
         \/ \E w \in Workers : \/ BeginTick(w) \/ Internal(w) \/ Board(w)
                               \/ EndTick(w) \/ EndReconcileTick(w)
         \/ \E o \in Operators : Retry(o)
         \/ \E p \in Processes : Crash(p)
  PROVE  AloneInv'
<1>1. ASSUME NEW w \in Workers,
             \/ BeginTick(w) \/ Internal(w) \/ Board(w) \/ EndTick(w) \/ EndReconcileTick(w)
      PROVE  AloneInv'
  <2>0. w \in Processes
    BY DEF Processes
  <2>1. CASE Gate(w) \/ TransitionRead(w)
    BY <2>0, <2>1, GateAlone, TransitionReadAlone, AloneMoves
  <2>2. CASE \/ BeginTick(w) \/ Fetch(w) \/ Route(w) \/ TransitionWrite(w) \/ Reread(w) \/ Satisfy(w)
             \/ SkipStep(w) \/ MarkStep(w) \/ Finish(w) \/ EndTick(w) \/ EndReconcileTick(w)
    BY <2>0, <2>2, IngestAlone, AloneMoves
  <2>3. CASE \/ Enqueue(w) \/ ProbeFinds(w) \/ ProbeMisses(w) \/ Mark(w)
             \/ CallSucceeds(w, "call", "mark") \/ CallSchedules(w, "call", "mark")
             \/ CallFails(w, "call", "mark")
    BY <2>0, <2>3, OperationAlone, AloneMoves
  <2>4. CASE \/ Scan(w) \/ ReplayNext(w) \/ ReplayMark(w) \/ ReplayStep(w) \/ EndReconcile(w)
             \/ CallSucceeds(w, "rcall", "rmark") \/ CallSchedules(w, "rcall", "rmark")
             \/ CallFails(w, "rcall", "rmark")
    BY <2>0, <2>4, ReplayAlone, AloneMoves
  <2> QED
    BY <1>1, <2>1, <2>2, <2>3, <2>4 DEF Internal, Board
<1>2. ASSUME NEW o \in Operators, Retry(o) PROVE AloneInv'
  <2>1. o \in Processes
    BY DEF Processes
  <2> QED
    BY <1>2, <2>1, RetryAlone, AloneMoves
<1>3. ASSUME NEW p \in Processes, Crash(p) PROVE AloneInv'
  <2>1. AloneGoes(p)
    BY <1>3, EasyGoes DEF Crash, Easy
  <2> QED
    BY <2>1, AloneMoves
<1> QED
  BY <1>1, <1>2, <1>3

LEMMA AloneStep ==
  ASSUME OneProcess
  PROVE  AloneInv /\ [Next]_vars => AloneInv'
<1> SUFFICES ASSUME AloneInv, [Next]_vars PROVE AloneInv'
  OBVIOUS
<1>0. SettledInv'
  <2>1. OneWorker
    BY DEF OneProcess, OneWorker, Processes
  <2> QED
    BY <2>1, SettledStep DEF AloneInv
<1>1. CASE UNCHANGED << inst, outbox, pc, ctx >>
  BY <1>0, <1>1 DEF AloneInv, Alive, AckDead, InTime, Waiting
<1>2. CASE UNCHANGED vars \/ Post \/ \E e \in Events : GatewayAccepts(e)
  BY <1>1, <1>2 DEF vars, store, Post, GatewayAccepts
<1>3. ASSUME NEW e \in Events, NEW op \in Ops, Elapse(e, op) PROVE AloneInv'
  BY <1>0, <1>3, ElapseAlone
<1> QED
  BY <1>0, <1>2, <1>3, AloneProcessStep DEF Next

LEMMA AloneInductive ==
  ASSUME OneProcess
  PROVE  Spec => []AloneInv
BY AloneInit, AloneStep, PTL DEF Spec

-----------------------------------------------------------------------------
(* The two promises.                                                       *)

\* Who writes an instance: the creation and the transitions of a handler.
LEMMA OnlyHandlersMoveInstances ==
  ASSUME Next
  PROVE  inst' = inst \/ \E w \in Workers : Route(w) \/ TransitionWrite(w)
<1>1. ASSUME NEW w \in Workers, BeginTick(w) \/ Board(w) \/ EndTick(w) \/ EndReconcileTick(w)
      PROVE  inst' = inst
  BY <1>1 DEF BeginTick, Board, CallSucceeds, CallSchedules, CallFails, Called, store,
     EndTick, EndReconcileTick, AdvanceCursor, ledger
<1>2. ASSUME NEW w \in Workers, Internal(w), ~ Route(w), ~ TransitionWrite(w) PROVE inst' = inst
  BY <1>2 DEF Internal, Fetch, Gate, TransitionRead, Reread, Satisfy,
     SkipStep, Enqueue, ProbeFinds, ProbeMisses, Mark, MarkStep, Finish,
     Scan, ReplayNext, ReplayMark, ReplayStep, EndReconcile, store
<1>3. ASSUME NEW o \in Operators, Retry(o) PROVE inst' = inst
  BY <1>3 DEF Retry, RetrySelect, RetryNext, RetryProbe, RetryMark, RetryStep, EndRetry,
     CallSucceeds, CallSchedules, CallFails, Called, store
<1>4. ASSUME \/ Post
             \/ \E e \in Events : GatewayAccepts(e)
             \/ \E e \in Events, op \in Ops : Elapse(e, op)
             \/ \E p \in Processes : Crash(p)
      PROVE  inst' = inst
  BY <1>4 DEF Post, GatewayAccepts, Elapse, Crash, store
<1> QED
  BY <1>1, <1>2, <1>3, <1>4 DEF Next

\* A single process does not touch a failed code_fix instance while every
\* pending row of it is in backoff: pending_outbox_retry_not_due is asked at
\* the start of the handler, and the clock can only end the wait.
THEOREM BackoffIsRespected ==
  ASSUME OneProcess
  PROVE  Spec => BackoffFreezesInstance
<1> DEFINE Frozen(e) == /\ inst[e] = "failed_retryable" /\ RetryNotDue(e) /\ Kind[e] = "code_fix"
<1>1. AloneInv /\ [Next]_vars => [\A e \in Events : Frozen(e) => inst'[e] = inst[e]]_vars
  <2> SUFFICES ASSUME AloneInv, Next, NEW e \in Events, Frozen(e), inst'[e] # inst[e] PROVE FALSE
    BY DEF vars
  <2>0. inst \in [Events -> ContinuationState \union {NoInst}]
    BY DEF AloneInv, SettledInv, TypeInv, TypeOK
  <2>1. ASSUME NEW w \in Workers, Route(w) PROVE FALSE
    BY <2>0, <2>1 DEF Route, NoInst
  <2>2. ASSUME NEW w \in Workers, TransitionWrite(w) PROVE FALSE
    <3> DEFINE c == ctx[w]
    <3>1. /\ c.ev \in Events /\ Left(inst, "write", c) /\ InTime(inst, outbox, "write", c)
      BY <2>2, Holding DEF TransitionWrite, Handling, AloneInv, Processes
    <3>2. c.ev = e /\ c.target # "failed_retryable"
      BY <2>0, <2>2, <3>1 DEF TransitionWrite
    <3>3. c.target = "materializing"
      BY <3>1, <3>2 DEF Left, Sources
    <3> QED
      BY <3>1, <3>2, <3>3 DEF InTime, Waiting, RetryNotDue
  <2> QED
    BY <2>1, <2>2, OnlyHandlersMoveInstances
<1> QED
  BY <1>1, AloneInductive, PTL DEF Spec, BackoffFreezesInstance

\* Who writes a row of the outbox.
LEMMA OutboxWriters ==
  ASSUME Next
  PROVE  \/ outbox' = outbox
         \/ \E e \in Events, op \in Ops : Elapse(e, op)
         \/ \E p \in Processes : Enqueue(p) \/ Mark(p) \/ ReplayMark(p) \/ RetryMark(p)
<1>0. Workers \subseteq Processes /\ Operators \subseteq Processes
  BY DEF Processes
<1>1. ASSUME NEW w \in Workers, BeginTick(w) \/ Board(w) \/ EndTick(w) \/ EndReconcileTick(w)
      PROVE  outbox' = outbox
  BY <1>1 DEF BeginTick, Board, CallSucceeds, CallSchedules, CallFails, Called, store,
     EndTick, EndReconcileTick, AdvanceCursor, ledger
<1>2. ASSUME NEW w \in Workers, Internal(w), ~ Enqueue(w), ~ Mark(w), ~ ReplayMark(w)
      PROVE  outbox' = outbox
  BY <1>2 DEF Internal, Fetch, Route, Gate, TransitionRead, TransitionWrite, Reread, Satisfy,
     SkipStep, ProbeFinds, ProbeMisses, MarkStep, Finish,
     Scan, ReplayNext, ReplayStep, EndReconcile, store
<1>3. ASSUME NEW o \in Operators, Retry(o), ~ RetryMark(o) PROVE outbox' = outbox
  BY <1>3 DEF Retry, RetrySelect, RetryNext, RetryProbe, RetryStep, EndRetry,
     CallSucceeds, CallSchedules, CallFails, Called, store
<1>4. ASSUME \/ Post
             \/ \E e \in Events : GatewayAccepts(e)
             \/ \E p \in Processes : Crash(p)
      PROVE  outbox' = outbox
  BY <1>4 DEF Post, GatewayAccepts, Crash, store
<1> QED
  BY <1>0, <1>1, <1>2, <1>3, <1>4 DEF Next

\* A dead-lettered ACK is written by nobody again: enqueue finds its row, and
\* every path that writes a row back looked at this one when it was alive.
THEOREM AckDeadlettersStayDead ==
  ASSUME OneProcess
  PROVE  Spec => AckDeadletterIsFinal
<1> DEFINE ack == "record_consumer_ack"
           Final(e) == outbox[e][ack].state = "callback_deadletter" => outbox'[e][ack] = outbox[e][ack]
<1>1. AloneInv /\ [Next]_vars => [\A e \in Events : Final(e)]_vars
  <2> SUFFICES ASSUME AloneInv, Next, NEW e \in Events, AckDead(outbox, e)
               PROVE  outbox'[e][ack] = outbox[e][ack]
    BY DEF vars, AckDead
  <2>0. /\ outbox \in [Events -> [Ops -> Row]] /\ ack \in Ops
        /\ \A p \in Processes : Alive(outbox, pc[p], ctx[p]) /\ Shape(pc[p], ctx[p])
    BY DEF AloneInv, SettledInv, TypeInv, TypeOK, Ops, CALLBACK_ONLY_OPERATIONS
  <2>1. ASSUME NEW f \in Events, NEW op \in Ops, Elapse(f, op)
        PROVE  outbox'[e][ack] = outbox[e][ack]
    BY <2>0, <2>1 DEF Elapse, AckDead
  <2>2. ASSUME NEW p \in Processes, Enqueue(p) PROVE outbox'[e][ack] = outbox[e][ack]
    BY <2>0, <2>2 DEF Enqueue, Enqueued, AckDead
  <2>3. ASSUME NEW p \in Processes, pc[p] \in Calling, NEW row,
               outbox' = [outbox EXCEPT ![ctx[p].ev][ctx[p].op] = row]
        PROVE  outbox'[e][ack] = outbox[e][ack]
    <3>1. ~ (ctx[p].ev = e /\ ctx[p].op = ack)
      BY <2>0, <2>3 DEF Alive
    <3> QED
      BY <2>0, <2>3, <3>1
  <2>4. ASSUME NEW p \in Processes, Mark(p) \/ ReplayMark(p) \/ RetryMark(p)
        PROVE  outbox'[e][ack] = outbox[e][ack]
    <3>1. pc[p] \in Calling
      BY <2>4 DEF Mark, ReplayMark, RetryMark, Calling
    <3>2. \E row : outbox' = [outbox EXCEPT ![ctx[p].ev][ctx[p].op] = row]
      BY <2>4 DEF Mark, ReplayMark, RetryMark
    <3> QED
      BY <2>3, <3>1, <3>2
  <2> QED
    BY <2>1, <2>2, <2>4, OutboxWriters
<1> QED
  BY <1>1, AloneInductive, PTL DEF Spec, AckDeadletterIsFinal

=============================================================================
