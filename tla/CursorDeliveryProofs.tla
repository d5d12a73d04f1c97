------------------------- MODULE CursorDeliveryProofs -------------------------
(***************************************************************************)
(* ContinuationEngine implements CursorDelivery, for every set of processes, *)
(* every event log, every retry cap and every number of deaths.             *)
(*                                                                         *)
(* An event must not be protected before it is posted, or Post would not be  *)
(* a step of the abstract log.  So nothing that any process holds, and no    *)
(* row or effect, may be about an event beyond the log: LogInv.             *)
(***************************************************************************)
EXTENDS ContinuationEngineProofs

\* What a process holds lies within the log as it is now.
Reached(n, c) ==
  /\ c.done <= n /\ c.upto <= n /\ c.ev <= n
  /\ \A item \in c.batch : item.ev <= n

Untouched(e) ==
  /\ inst[e] = NoInst /\ e \notin refusal
  /\ \A op \in Ops : outbox[e][op].state # "pending"
  /\ \A op \in GraphOps : << e, op >> \notin board

LogInv ==
  /\ cursor <= posted
  /\ \A p \in Processes : Reached(posted, ctx[p])
  /\ \A e \in Events : posted < e => Untouched(e)

ReachedGoes(p) == \E l, c : Goto(p, l, c) /\ Reached(posted, c)

-----------------------------------------------------------------------------
(* The handlers' helper operators keep to the events in hand.               *)

LEMMA NoCtxReached == ASSUME NEW n \in Nat PROVE Reached(n, NoCtx)
BY DEF Reached, NoCtx

LEMMA HelpersReach ==
  ASSUME NEW n \in Nat, NEW c \in Context, Reached(n, c)
  PROVE  /\ Reached(n, Handled(c)) /\ Reached(n, Broken(c)) /\ Reached(n, NextRow(c))
         /\ Reached(n, [NoCtx EXCEPT !.batch = c.batch])
         /\ Reached(n, StartOps(c)) /\ Reached(n, Advanced(c))
         /\ \A s : Reached(n, Moving(c, s))
         /\ \A r : Reached(n, [c EXCEPT !.res = r])
         /\ \A r : Reached(n, [c EXCEPT !.row = r])
         /\ \A r, x : Reached(n, [c EXCEPT !.row = r, !.res = x])
<1>1. Reached(n, Handled(c)) /\ Reached(n, Broken(c)) /\ Reached(n, NextRow(c))
      /\ Reached(n, [NoCtx EXCEPT !.batch = c.batch])
  BY DEF Reached, Handled, Broken, NextRow, NoCtx
<1>2. Reached(n, StartOps(c)) /\ Reached(n, Advanced(c)) /\ \A s : Reached(n, Moving(c, s))
  BY DEF Reached, StartOps, Advanced, AtOp, Moving, Context
<1>3. /\ \A r : Reached(n, [c EXCEPT !.res = r])
      /\ \A r : Reached(n, [c EXCEPT !.row = r])
      /\ \A r, x : Reached(n, [c EXCEPT !.row = r, !.res = x])
  BY DEF Reached, Context
<1> QED
  BY <1>1, <1>2, <1>3

LEMMA BodyReaches ==
  ASSUME NEW p, NEW c \in Context, posted \in Nat, Reached(posted, c), Body(p, c)
  PROVE  ReachedGoes(p)
BY HelpersReach DEF Body, ReachedGoes

LEMMA AfterTransitionReaches ==
  ASSUME NEW p, NEW c \in Context, posted \in Nat, Reached(posted, c), c.target \in Targets,
         AfterTransition(p, c)
  PROVE  ReachedGoes(p)
BY HelpersReach DEF AfterTransition, ReachedGoes, Targets

LEMMA OpReaches ==
  ASSUME NEW p, NEW c \in Context, posted \in Nat, Reached(posted, c),
         OpFailed(p, c) \/ OpSucceeded(p, c)
  PROVE  ReachedGoes(p)
BY HelpersReach DEF OpFailed, OpSucceeded, ReachedGoes

LEMMA DecideReaches ==
  ASSUME NEW p, NEW c \in Context, posted \in Nat, Reached(posted, c), Decide(p, c)
  PROVE  ReachedGoes(p)
BY OpReaches DEF Decide, ReachedGoes

\* A step of one process that touches no event beyond the log.
LEMMA StepStays ==
  ASSUME IInv, LogInv, NEW p \in Processes, ReachedGoes(p), posted' = posted, cursor' <= posted,
         \A e \in Events : posted < e => Untouched(e)'
  PROVE  LogInv'
<1>1. PICK l, c : Goto(p, l, c) /\ Reached(posted, c)
  BY DEF ReachedGoes
<1>2. ASSUME NEW q \in Processes PROVE Reached(posted', ctx'[q])
  BY <1>1 DEF Goto, IInv, TypeInv, TypeOK, LogInv
<1> QED
  BY <1>2 DEF LogInv

\* Nothing but the process's own context changes.
LEMMA QuietStays ==
  ASSUME IInv, LogInv, NEW p \in Processes, ReachedGoes(p), UNCHANGED << store, world >>
  PROVE  LogInv'
BY StepStays DEF LogInv, Untouched, store, world

\* A row of an event of the log is written.
LEMMA OutboxStays ==
  ASSUME IInv, LogInv, NEW p \in Processes, ReachedGoes(p), NEW e \in Events, e <= posted,
         NEW op \in Ops, NEW row, outbox' = [outbox EXCEPT ![e][op] = row],
         UNCHANGED << inst, refusal, stepTask, cursor, world >>
  PROVE  LogInv'
<1>1. posted \in Nat
  BY EngineAssumption DEF IInv, TypeInv, TypeOK
<1>2. \A f \in Events : posted < f => outbox'[f] = outbox[f]
  BY <1>1 DEF IInv, TypeInv, TypeOK, Events
<1>3. \A f \in Events : posted < f => Untouched(f)'
  BY <1>2 DEF LogInv, Untouched, world
<1> QED
  BY <1>3, StepStays DEF LogInv, world

-----------------------------------------------------------------------------
(* LogInv is kept by every step.                                           *)

\* What a process has in hand when it acts on its event.
LEMMA InHand ==
  ASSUME IInv, LogInv, NEW p \in Processes
  PROVE  /\ posted \in Nat /\ cursor \in Nat
         /\ ctx[p] \in Context /\ Shape(pc[p], ctx[p]) /\ Reached(posted, ctx[p])
         /\ pc[p] \in Handling \union Replaying \union Retrying =>
              ctx[p].ev \in Events /\ ctx[p].ev <= posted
BY EngineAssumption DEF IInv, TypeInv, TypeOK, LogInv, Shape, Reached

LEMMA IngestStays ==
  ASSUME IInv, LogInv, NEW w \in Processes,
         \/ BeginTick(w) \/ Fetch(w) \/ Route(w) \/ Gate(w)
         \/ TransitionRead(w) \/ TransitionWrite(w) \/ Reread(w) \/ Satisfy(w)
         \/ EndTick(w) \/ EndReconcileTick(w)
  PROVE  LogInv'
<1> DEFINE c == ctx[w]
<1>0. /\ posted \in Nat /\ cursor \in Nat /\ c \in Context /\ Shape(pc[w], c) /\ Reached(posted, c)
      /\ pc[w] \in Handling => c.ev \in Events /\ c.ev <= posted
  BY InHand
<1>1. CASE BeginTick(w)
  <2>1. Reached(posted, [NoCtx EXCEPT !.done = cursor])
    BY <1>0 DEF Reached, NoCtx, LogInv
  <2>2. ReachedGoes(w)
    BY <1>1, <2>1 DEF BeginTick, ReachedGoes
  <2> QED
    BY <1>1, <2>2, QuietStays DEF BeginTick
<1>2. CASE Fetch(w)
  <2>1. Reached(posted, [c EXCEPT !.upto = posted])
    BY <1>0 DEF Reached, Context
  <2>2. ReachedGoes(w)
    BY <1>2, <2>1 DEF Fetch, ReachedGoes
  <2> QED
    BY <1>2, <2>2, QuietStays DEF Fetch
<1>3. CASE Route(w)
  <2> DEFINE e == c.done + 1
  <2>1. e <= posted /\ e \in Events
    <3>1. c.done < c.upto /\ c.upto <= posted
      BY <1>0, <1>3 DEF Route, Reached
    <3>2. c.done \in Nat /\ c.upto \in Nat
      BY <1>0, EngineAssumption DEF Context
    <3>3. MaxSeq \in Nat /\ posted <= MaxSeq
      BY EngineAssumption DEF IInv, TypeInv, TypeOK
    <3> QED
      BY <1>0, <3>1, <3>2, <3>3 DEF Events
  <2>2. ReachedGoes(w)
    <3>1. Reached(posted, Handled([c EXCEPT !.ev = e]))
      BY <1>0, <2>1 DEF Reached, Handled, NoCtx, Context
    <3>2. Reached(posted, [c EXCEPT !.ev = e, !.seen = inst'[e]])
      BY <1>0, <2>1 DEF Reached, Context
    <3> QED
      BY <1>3, <3>1, <3>2 DEF Route, ReachedGoes
  <2>3. \A f \in Events : posted < f => inst'[f] = inst[f]
    <3>1. \/ inst' = inst
          \/ inst' = [inst EXCEPT ![e] = IF @ = NoInst THEN "detected" ELSE @]
      BY <1>3 DEF Route
    <3>2. \A f \in Events : posted < f => f # e
      BY <1>0, <2>1 DEF Events
    <3>3. inst \in [Events -> ContinuationState \union {NoInst}]
      BY DEF IInv, TypeInv, TypeOK
    <3> HIDE DEF e
    <3> QED
      BY <3>1, <3>2, <3>3
  <2>4. UNCHANGED << refusal, outbox, stepTask, cursor, posted, board >>
    BY <1>3 DEF Route, world
  <2>5. \A f \in Events : posted < f => Untouched(f)'
    BY <2>3, <2>4 DEF LogInv, Untouched
  <2> QED
    BY <2>2, <2>4, <2>5, StepStays DEF LogInv
<1>4. CASE Gate(w)
  <2>1. ReachedGoes(w)
    BY <1>0, <1>4, HelpersReach, BodyReaches DEF Gate, ReachedGoes
  <2> QED
    BY <1>4, <2>1, QuietStays DEF Gate
<1>5. CASE TransitionRead(w)
  <2>1. c.target \in Targets
    BY <1>0, <1>5 DEF TransitionRead, Shape
  <2>2. ReachedGoes(w)
    BY <1>0, <1>5, <2>1, AfterTransitionReaches DEF TransitionRead, ReachedGoes
  <2> QED
    BY <1>5, <2>2, QuietStays DEF TransitionRead
<1>6. CASE TransitionWrite(w)
  <2>1. c.target \in Targets /\ c.ev \in Events /\ c.ev <= posted
    BY <1>0, <1>6 DEF TransitionWrite, Shape, Handling
  <2>2. ReachedGoes(w)
    BY <1>0, <1>6, <2>1, AfterTransitionReaches DEF TransitionWrite
  <2>3. \A f \in Events : posted < f => inst'[f] = inst[f]
    BY <1>0, <1>6, <2>1 DEF TransitionWrite, IInv, TypeInv, TypeOK, Events
  <2>4. UNCHANGED << refusal, outbox, stepTask, cursor, posted, board >>
    BY <1>6 DEF TransitionWrite, world
  <2>5. \A f \in Events : posted < f => Untouched(f)'
    BY <2>3, <2>4 DEF LogInv, Untouched
  <2> QED
    BY <2>2, <2>4, <2>5, StepStays DEF LogInv
<1>7. CASE Reread(w)
  <2> DEFINE d == [c EXCEPT !.seen = inst[c.ev], !.target = NoInst]
  <2>1. inst[c.ev] \in ContinuationState \union {NoInst}
    BY <1>0, <1>7 DEF Reread, Handling, IInv, TypeInv, TypeOK
  <2>2. d \in Context /\ Reached(posted, d)
    BY <1>0, <2>1 DEF Context, Reached
  <2>3. ReachedGoes(w)
    BY <1>0, <1>7, <2>2, BodyReaches DEF Reread
  <2> QED
    BY <1>7, <2>3, QuietStays DEF Reread
<1>8. CASE Satisfy(w)
  <2>1. c.ev \in Events /\ c.ev <= posted
    BY <1>0, <1>8 DEF Satisfy, Handling
  <2>2. ReachedGoes(w)
    BY <1>0, <1>8, HelpersReach DEF Satisfy, ReachedGoes
  <2>3. UNCHANGED << inst, outbox, stepTask, cursor, posted, board >> /\ refusal' = refusal \union {c.ev}
    BY <1>8 DEF Satisfy, world
  <2>4. \A f \in Events : posted < f => Untouched(f)'
    BY <1>0, <2>1, <2>3 DEF LogInv, Untouched, Events
  <2> QED
    BY <2>2, <2>3, <2>4, StepStays DEF LogInv
<1>9. CASE EndTick(w) \/ EndReconcileTick(w)
  <2>1. ReachedGoes(w)
    BY <1>0, <1>9, NoCtxReached DEF EndTick, EndReconcileTick, ReachedGoes
  <2>2. cursor' <= posted /\ UNCHANGED << inst, refusal, outbox, posted, board >>
    BY <1>0, <1>9 DEF EndTick, EndReconcileTick, AdvanceCursor, Reached, LogInv, ledger, world
  <2>3. \A f \in Events : posted < f => Untouched(f)'
    BY <2>2 DEF LogInv, Untouched
  <2> QED
    BY <2>1, <2>2, <2>3, StepStays
<1> QED
  BY <1>1, <1>2, <1>3, <1>4, <1>5, <1>6, <1>7, <1>8, <1>9

LEMMA OperationStays ==
  ASSUME IInv, LogInv, NEW w \in Processes,
         \/ SkipStep(w) \/ Enqueue(w) \/ ProbeFinds(w) \/ ProbeMisses(w)
         \/ Mark(w) \/ MarkStep(w) \/ Finish(w)
  PROVE  LogInv'
<1> DEFINE c == ctx[w]
<1>0. /\ posted \in Nat /\ c \in Context /\ Shape(pc[w], c) /\ Reached(posted, c)
      /\ c.ev \in Events /\ c.ev <= posted
  BY InHand DEF SkipStep, Enqueue, ProbeFinds, ProbeMisses, Mark, MarkStep, Finish, Handling
<1>1. CASE SkipStep(w) \/ Finish(w)
  <2>1. ReachedGoes(w)
    BY <1>0, <1>1, HelpersReach DEF SkipStep, Finish, ReachedGoes
  <2> QED
    BY <1>1, <2>1, QuietStays DEF SkipStep, Finish
<1>2. CASE Enqueue(w)
  <2> DEFINE row == Enqueued(outbox[c.ev][c.op])
             d == [c EXCEPT !.row = row]
  <2>1. c.op \in Ops
    BY <1>0, <1>2 DEF Enqueue, Shape
  <2>2. row \in Row
    BY <1>0, <2>1, EnqueuedType DEF IInv, TypeInv, TypeOK
  <2>3. d \in Context /\ Reached(posted, d)
    BY <1>0, <2>2 DEF Context, Reached
  <2>4. ReachedGoes(w)
    BY <1>0, <1>2, <2>3, DecideReaches DEF Enqueue
  <2> QED
    BY <1>0, <1>2, <2>1, <2>4, OutboxStays DEF Enqueue
<1>3. CASE ProbeFinds(w) \/ ProbeMisses(w)
  <2>1. ReachedGoes(w)
    BY <1>0, <1>3, HelpersReach, OpReaches DEF ProbeFinds, ProbeMisses, ReachedGoes
  <2> QED
    BY <1>3, <2>1, QuietStays DEF ProbeFinds, ProbeMisses
<1>4. CASE Mark(w)
  <2>1. c.op \in Ops
    BY <1>0, <1>4 DEF Mark, Shape, Calling
  <2>2. ReachedGoes(w)
    BY <1>0, <1>4, OpReaches DEF Mark
  <2> QED
    BY <1>0, <1>4, <2>1, <2>2, OutboxStays DEF Mark
<1>5. CASE MarkStep(w)
  <2>1. ReachedGoes(w)
    BY <1>0, <1>5, HelpersReach DEF MarkStep, ReachedGoes
  <2>2. UNCHANGED << inst, refusal, outbox, cursor, posted, board >>
    BY <1>5 DEF MarkStep, world
  <2> QED
    BY <2>1, <2>2, StepStays DEF LogInv, Untouched
<1> QED
  BY <1>1, <1>2, <1>3, <1>4, <1>5

\* A call of the board is about an event of the log.
LEMMA CallStays ==
  ASSUME IInv, LogInv, NEW p \in Processes, NEW from \in { "call", "rcall", "tcall" }, NEW to,
         CallSucceeds(p, from, to) \/ CallSchedules(p, from, to) \/ CallFails(p, from, to)
  PROVE  LogInv'
<1> DEFINE c == ctx[p]
<1>0. /\ posted \in Nat /\ c \in Context /\ Reached(posted, c)
      /\ c.ev \in Events /\ c.ev <= posted /\ pc[p] = from
  <2>1. pc[p] = from
    BY DEF CallSucceeds, CallSchedules, CallFails
  <2> QED
    BY <2>1, InHand DEF Handling, Replaying, Retrying
<1>1. ReachedGoes(p)
  BY <1>0, HelpersReach DEF CallSucceeds, CallSchedules, CallFails, Called, ReachedGoes
<1>2. /\ board' \subseteq board \union {<< c.ev, c.op >>}
      /\ UNCHANGED << store, posted >>
  BY DEF CallSucceeds, CallSchedules, CallFails, Called
<1>3. \A f \in Events : posted < f => Untouched(f)'
  BY <1>0, <1>2 DEF LogInv, Untouched, store, Events
<1> QED
  BY <1>1, <1>2, <1>3, StepStays DEF LogInv, store

LEMMA ReplayStays ==
  ASSUME IInv, LogInv, NEW w \in Processes,
         Scan(w) \/ ReplayNext(w) \/ ReplayMark(w) \/ ReplayStep(w) \/ EndReconcile(w)
  PROVE  LogInv'
<1> DEFINE c == ctx[w]
<1>0. /\ posted \in Nat /\ c \in Context /\ Shape(pc[w], c) /\ Reached(posted, c)
      /\ pc[w] \in Replaying => c.ev \in Events /\ c.ev <= posted
  BY InHand
<1>1. CASE Scan(w)
  <2> DEFINE rows == { [ev |-> p[1], op |-> p[2], row |-> outbox[p[1]][p[2]]] :
                         p \in { q \in Events \X Ops : Retryable(outbox[q[1]][q[2]]) } }
  <2>1. \A item \in rows : item.ev <= posted
    <3> SUFFICES ASSUME NEW e \in Events, NEW op \in Ops, outbox[e][op].state = "pending"
                 PROVE  e <= posted
      BY DEF Retryable
    <3> QED
      BY <1>0 DEF LogInv, Untouched, Events
  <2> HIDE DEF rows
  <2>2. Reached(posted, [NoCtx EXCEPT !.batch = rows])
    BY <1>0, <2>1 DEF Reached, NoCtx
  <2>3. ReachedGoes(w)
    BY <1>1, <2>2 DEF Scan, ReachedGoes, rows
  <2> QED
    BY <1>1, <2>3, QuietStays DEF Scan
<1>2. CASE ReplayNext(w)
  <2>1. PICK item \in c.batch :
          LET d == [c EXCEPT !.ev = item.ev, !.op = item.op, !.row = item.row, !.batch = @ \ {item}]
          IN  \/ \E r \in { "ok", "not_yet_accepted" } : Goto(w, "rmark", [d EXCEPT !.res = r])
              \/ Goto(w, "rcall", d)
    BY <1>2 DEF ReplayNext
  <2> DEFINE d == [c EXCEPT !.ev = item.ev, !.op = item.op, !.row = item.row, !.batch = @ \ {item}]
  <2>2. item.ev <= posted
    BY <1>0 DEF Reached
  <2>3. Reached(posted, d) /\ \A r : Reached(posted, [d EXCEPT !.res = r])
    BY <1>0, <2>2 DEF Reached, Context
  <2>4. ReachedGoes(w)
    BY <2>1, <2>3 DEF ReachedGoes
  <2> QED
    BY <1>2, <2>4, QuietStays DEF ReplayNext
<1>3. CASE ReplayMark(w)
  <2>1. c.op \in Ops /\ c.ev \in Events /\ c.ev <= posted
    BY <1>0, <1>3 DEF ReplayMark, Shape, Calling, Replaying
  <2>2. ReachedGoes(w)
    BY <1>0, <1>3, HelpersReach DEF ReplayMark, ReachedGoes
  <2> DEFINE row == IF c.res = "ok" THEN MarkedApplied(outbox[c.ev][c.op], c.op)
                    ELSE MarkedFailed(outbox[c.ev][c.op], c.row, c.op, ErrorText(c.res))
  <2>3. outbox' = [outbox EXCEPT ![c.ev][c.op] = row]
    BY <1>3, <2>1 DEF ReplayMark, IInv, TypeInv, TypeOK
  <2>4. UNCHANGED << inst, refusal, stepTask, cursor, world >>
    BY <1>3 DEF ReplayMark
  <2> HIDE DEF row
  <2> QED
    BY <2>1, <2>2, <2>3, <2>4, OutboxStays
<1>4. CASE ReplayStep(w) \/ EndReconcile(w)
  <2>1. ReachedGoes(w)
    BY <1>0, <1>4, HelpersReach, NoCtxReached DEF ReplayStep, EndReconcile, ReachedGoes
  <2>2. UNCHANGED << inst, refusal, outbox, cursor, posted, board >>
    BY <1>4 DEF ReplayStep, EndReconcile, store, world
  <2> QED
    BY <2>1, <2>2, StepStays DEF LogInv, Untouched
<1> QED
  BY <1>1, <1>2, <1>3, <1>4

LEMMA RetryStays ==
  ASSUME IInv, LogInv, NEW o \in Processes,
         \/ RetrySelect(o) \/ RetryNext(o) \/ RetryProbe(o)
         \/ RetryMark(o) \/ RetryStep(o) \/ EndRetry(o)
  PROVE  LogInv'
<1> DEFINE c == ctx[o]
<1>0. /\ posted \in Nat /\ c \in Context /\ Shape(pc[o], c) /\ Reached(posted, c)
      /\ pc[o] \in Retrying => c.ev \in Events /\ c.ev <= posted
  BY InHand
<1>1. CASE RetrySelect(o)
  <2>1. PICK e \in Events :
          /\ inst[e] # NoInst
          /\ Goto(o, "retry",
               [NoCtx EXCEPT !.ev = e, !.batch =
                  { [ev |-> e, op |-> op, row |-> NoRow] :
                      op \in { p \in Ops : outbox[e][p].state = "pending" } }])
    BY <1>1 DEF RetrySelect
  <2> DEFINE rows == { [ev |-> e, op |-> op, row |-> NoRow] :
                         op \in { p \in Ops : outbox[e][p].state = "pending" } }
  <2>2. e <= posted
    BY <1>0, <2>1 DEF LogInv, Untouched, Events
  <2>3. \A item \in rows : item.ev <= posted
    BY <2>2
  <2> HIDE DEF rows
  <2>4. Reached(posted, [NoCtx EXCEPT !.ev = e, !.batch = rows])
    BY <1>0, <2>2, <2>3 DEF Reached, NoCtx
  <2>5. ReachedGoes(o)
    BY <2>1, <2>4 DEF ReachedGoes, rows
  <2> QED
    BY <1>1, <2>5, QuietStays DEF RetrySelect
<1>2. CASE RetryNext(o)
  <2>1. PICK item \in c.batch :
          LET d == [c EXCEPT !.ev = item.ev, !.op = item.op, !.row = outbox[item.ev][item.op],
                             !.batch = @ \ {item}]
          IN  \/ Goto(o, "retry", NextRow(d)) \/ Goto(o, "tprobe", d) \/ Goto(o, "tcall", d)
              \/ Goto(o, "tstep", [d EXCEPT !.row = NoRow, !.res = "ok"]) \/ Goto(o, "idle", NoCtx)
    BY <1>2 DEF RetryNext, RetryApplied
  <2> DEFINE d == [c EXCEPT !.ev = item.ev, !.op = item.op, !.row = outbox[item.ev][item.op],
                            !.batch = @ \ {item}]
  <2>2. item.ev <= posted
    BY <1>0 DEF Reached
  <2>3. Reached(posted, d) /\ Reached(posted, [d EXCEPT !.row = NoRow, !.res = "ok"])
    BY <1>0, <2>2 DEF Reached, Context
  <2>4. Reached(posted, NextRow(d))
    BY <1>0, <2>3 DEF Reached, NextRow, NoCtx
  <2>5. ReachedGoes(o)
    BY <1>0, <2>1, <2>3, <2>4, NoCtxReached DEF ReachedGoes
  <2> QED
    BY <1>2, <2>5, QuietStays DEF RetryNext
<1>3. CASE RetryProbe(o) \/ EndRetry(o)
  <2>1. ReachedGoes(o)
    BY <1>0, <1>3, HelpersReach, NoCtxReached DEF RetryProbe, EndRetry, RetryApplied, ReachedGoes
  <2> QED
    BY <1>3, <2>1, QuietStays DEF RetryProbe, EndRetry
<1>4. CASE RetryMark(o)
  <2>1. c.op \in Ops /\ c.ev \in Events /\ c.ev <= posted
    BY <1>0, <1>4 DEF RetryMark, Shape, Calling, Retrying
  <2>2. ReachedGoes(o)
    BY <1>0, <1>4, HelpersReach, NoCtxReached DEF RetryMark, RetryApplied, ReachedGoes
  <2> DEFINE row == IF c.res = "ok" THEN MarkedApplied(outbox[c.ev][c.op], c.op)
                    ELSE MarkedFailed(outbox[c.ev][c.op], c.row, c.op, ErrorText(c.res))
  <2>3. outbox' = [outbox EXCEPT ![c.ev][c.op] = row]
    BY <1>4, <2>1 DEF RetryMark, IInv, TypeInv, TypeOK
  <2> QED
    BY <1>4, <2>1, <2>2, <2>3, OutboxStays DEF RetryMark
<1>5. CASE RetryStep(o)
  <2>1. ReachedGoes(o)
    BY <1>0, <1>5, HelpersReach DEF RetryStep, ReachedGoes
  <2>2. UNCHANGED << inst, refusal, outbox, cursor, posted, board >>
    BY <1>5 DEF RetryStep, world
  <2> QED
    BY <2>1, <2>2, StepStays DEF LogInv, Untouched
<1> QED
  BY <1>1, <1>2, <1>3, <1>4, <1>5

LEMMA WorldStays ==
  ASSUME IInv, LogInv,
         \/ Post
         \/ \E e \in Events : GatewayAccepts(e)
         \/ \E e \in Events, op \in Ops : Elapse(e, op)
         \/ \E p \in Processes : Crash(p)
         \/ UNCHANGED vars
  PROVE  LogInv'
<1>0. posted \in Nat /\ cursor \in Nat
  BY EngineAssumption DEF IInv, TypeInv, TypeOK
<1>1. CASE Post
  <2>1. posted' = posted + 1 /\ UNCHANGED << inst, refusal, outbox, cursor, board, ctx >>
    BY <1>1 DEF Post, store
  <2>2. ASSUME NEW p \in Processes PROVE Reached(posted', ctx'[p])
    <3>1. ctx[p] \in Context /\ Reached(posted, ctx[p])
      BY DEF IInv, TypeInv, TypeOK, LogInv
    <3>2. /\ ctx[p].done \in Nat /\ ctx[p].upto \in Nat /\ ctx[p].ev \in Nat
          /\ \A item \in ctx[p].batch : item.ev \in Nat
      BY <3>1, EngineAssumption DEF Context, Items, Events
    <3> QED
      BY <1>0, <2>1, <3>1, <3>2 DEF Reached
  <2>3. \A e \in Events : posted' < e => Untouched(e)'
    BY <1>0, <2>1 DEF LogInv, Untouched, Events
  <2> QED
    BY <1>0, <2>1, <2>2, <2>3 DEF LogInv
<1>2. ASSUME NEW e \in Events, GatewayAccepts(e) PROVE LogInv'
  <2>1. /\ board' = board \union {<< e, "schedule_origin_wake" >>}
        /\ UNCHANGED << inst, refusal, outbox, cursor, posted, ctx >>
    BY <1>2 DEF GatewayAccepts, store
  <2> QED
    BY <2>1 DEF LogInv, Untouched, GraphOps, CreateOps
<1>3. ASSUME NEW e \in Events, NEW op \in Ops, Elapse(e, op) PROVE LogInv'
  <2>1. \A f \in Events, x \in Ops : outbox'[f][x].state = outbox[f][x].state
    <3>1. MarkedDue(outbox[e][op]).state = outbox[e][op].state
      BY DEF MarkedDue, IInv, TypeInv, TypeOK, Row
    <3> QED
      BY <1>3, <3>1 DEF Elapse, IInv, TypeInv, TypeOK
  <2>2. UNCHANGED << inst, refusal, cursor, posted, board, ctx >>
    BY <1>3 DEF Elapse, world
  <2> QED
    BY <2>1, <2>2 DEF LogInv, Untouched
<1>4. ASSUME NEW p \in Processes, Crash(p) PROVE LogInv'
  <2>1. ReachedGoes(p)
    BY <1>0, <1>4, NoCtxReached DEF Crash, ReachedGoes
  <2> QED
    BY <1>4, <2>1, QuietStays DEF Crash
<1>5. CASE UNCHANGED vars
  BY <1>5 DEF LogInv, Untouched, vars, store, world
<1> QED
  BY <1>1, <1>2, <1>3, <1>4, <1>5

LEMMA LogStep == IInv /\ LogInv /\ [Next]_vars => LogInv'
<1> SUFFICES ASSUME IInv, LogInv, [Next]_vars PROVE LogInv'
  OBVIOUS
<1>1. ASSUME NEW w \in Workers, BeginTick(w) \/ Internal(w) \/ EndTick(w) \/ EndReconcileTick(w)
      PROVE  LogInv'
  <2>1. w \in Processes
    BY DEF Processes
  <2> QED
    BY <1>1, <2>1, IngestStays, OperationStays, ReplayStays DEF Internal
<1>2. ASSUME NEW w \in Workers, Board(w) PROVE LogInv'
  <2>1. w \in Processes
    BY DEF Processes
  <2> QED
    BY <1>2, <2>1, CallStays DEF Board
<1>3. ASSUME NEW o \in Operators, Retry(o) PROVE LogInv'
  <2>1. o \in Processes
    BY DEF Processes
  <2> QED
    BY <1>3, <2>1, RetryStays, CallStays DEF Retry
<1> QED
  BY <1>1, <1>2, <1>3, WorldStays DEF Next

\* Nothing in the store, on the board or in a process's memory is about an event
\* the log does not hold yet.
LEMMA LogInvariant == Spec => []LogInv
<1>1. Init => LogInv
  BY EngineAssumption DEF Init, LogInv, Reached, Untouched, NoCtx, NoRow, Events
<1> QED
  BY <1>1, LogStep, Inductive, PTL DEF Spec

-----------------------------------------------------------------------------
(* The refinement mapping.                                                 *)

\* The events the abstract log calls protected.
Guarded == { e \in 1 .. posted : Protected(e) }

Abstract == << posted, Guarded, cursor >>

LEMMA LogIsPosted ==
  ASSUME IInv
  PROVE  posted \in Nat /\ 1 .. posted \subseteq Events
BY EngineAssumption DEF IInv, TypeInv, TypeOK, Events

\* A step that may protect one event of the log, and no other.
LEMMA ProtectsOne ==
  ASSUME IInv, UNCHANGED << posted, cursor >>, Grown, NEW e \in Events, e <= posted,
         \A f \in Events \ {e} : Protected(f)' => Protected(f)
  PROVE  [Delivery!Next]_Abstract
<1>1. posted \in Nat /\ 1 .. posted \subseteq Events /\ e \in 1 .. posted
  BY LogIsPosted DEF Events
<1>2. \A f \in Events : Protected(f) => Protected(f)'
  BY DEF Grown, Protected
<1>3. CASE Protected(e)' => Protected(e)
  <2>1. Guarded' = Guarded
    BY <1>1, <1>2, <1>3 DEF Guarded
  <2> QED
    BY <2>1 DEF Abstract
<1>4. CASE Protected(e)' /\ ~ Protected(e)
  <2>1. Guarded' = Guarded \union {e} /\ e \in (1 .. posted) \ Guarded
    BY <1>1, <1>2, <1>4 DEF Guarded
  <2>2. Delivery!Protect(e)
    BY <2>1 DEF Delivery!Protect, Guarded
  <2> QED
    BY <1>1, <2>2 DEF Delivery!Next
<1> QED
  BY <1>3, <1>4

\* A step that leaves the board and the refusals alone protects nothing.
LEMMA ProtectsNone ==
  ASSUME UNCHANGED << posted, cursor, board, refusal >>
  PROVE  [Delivery!Next]_Abstract
<1>1. Guarded' = Guarded
  BY DEF Guarded, Protected
<1> QED
  BY <1>1 DEF Abstract

\* Post: the new event is protected only if it needs no protection.
LEMMA PostRefines ==
  ASSUME IInv, LogInv, Post
  PROVE  [Delivery!Next]_Abstract
<1> DEFINE n == posted + 1
<1>1. /\ posted \in Nat /\ posted < MaxSeq /\ posted' = n /\ n \in Events
      /\ UNCHANGED << cursor, board, refusal >>
  BY EngineAssumption, LogIsPosted DEF Post, store, Events
<1>2. \A e \in Events : Protected(e)' <=> Protected(e)
  BY <1>1 DEF Protected
<1>3. Protected(n) <=> Kind[n] = "other"
  <2>1. Untouched(n)
    BY <1>1 DEF LogInv
  <2>2. Kind[n] \in Kinds
    BY <1>1, EngineAssumption
  <2>3. CASE Kind[n] = "code_fix"
    BY <2>1, <2>3 DEF Protected, Obligations, Untouched, GraphOps, CreateOps
  <2>4. CASE Kind[n] = "semantic_refusal"
    BY <2>1, <2>4 DEF Protected, Untouched
  <2>5. CASE Kind[n] = "other"
    BY <2>5 DEF Protected, Obligations
  <2> QED
    BY <2>2, <2>3, <2>4, <2>5 DEF Kinds
<1>4. 1 .. n = (1 .. posted) \union {n} /\ 1 .. n \subseteq Events
  BY <1>1, EngineAssumption DEF Events
<1>5. Guarded' = Guarded \union ({n} \intersect { e \in Events : Kind[e] = "other" })
  <2>1. Guarded' = { e \in 1 .. n : Protected(e) }
    BY <1>1, <1>2, <1>4 DEF Guarded
  <2> HIDE DEF n
  <2> QED
    BY <1>1, <1>3, <1>4, <2>1 DEF Guarded
<1>6. Delivery!Post
  BY <1>1, <1>5 DEF Delivery!Post, Guarded
<1> QED
  BY <1>6 DEF Delivery!Next

\* The end of a tick: every event the cursor passes is protected.
LEMMA AdvanceRefines ==
  ASSUME IInv, IInv', LogInv, NEW w \in Processes, AdvanceCursor(w)
  PROVE  [Delivery!Next]_Abstract
<1> DEFINE n == ctx[w].done
<1>1. /\ posted \in Nat /\ cursor \in Nat /\ n \in Nat /\ n <= posted
      /\ UNCHANGED << posted, board, refusal >>
  BY InHand, EngineAssumption DEF AdvanceCursor, Context, Reached, ledger, world
<1>2. Guarded' = Guarded
  BY <1>1 DEF Guarded, Protected
<1>3. CASE n > cursor
  <2>1. cursor' = n
    BY <1>3 DEF AdvanceCursor
  <2>2. \A e \in Events : e <= n => Protected(e)
    BY <1>1, <2>1 DEF IInv, CursorNeverPassesUnprotected, Protected
  <2>3. (cursor + 1) .. n \subseteq Guarded
    BY <1>1, <2>2, LogIsPosted DEF Guarded
  <2>4. Delivery!Advance(n)
    BY <1>1, <1>2, <1>3, <2>1, <2>3 DEF Delivery!Advance, Guarded
  <2>5. n \in 1 .. posted
    BY <1>1, <1>3
  <2> QED
    BY <2>4, <2>5 DEF Delivery!Next
<1>4. CASE ~ (n > cursor)
  BY <1>1, <1>2, <1>4 DEF AdvanceCursor, Abstract
<1> QED
  BY <1>3, <1>4

\* A call of the board.
LEMMA CallRefines ==
  ASSUME IInv, LogInv, NEW p \in Processes, NEW from \in { "call", "rcall", "tcall" }, NEW to,
         CallSucceeds(p, from, to) \/ CallSchedules(p, from, to) \/ CallFails(p, from, to)
  PROVE  [Delivery!Next]_Abstract
<1> DEFINE c == ctx[p]
<1>1. pc[p] = from
  BY DEF CallSucceeds, CallSchedules, CallFails
<1>2. c.ev \in Events /\ c.ev <= posted
  BY <1>1, InHand DEF Handling, Replaying, Retrying
<1>3. /\ board \subseteq board' /\ board' \subseteq board \union {<< c.ev, c.op >>}
      /\ UNCHANGED << refusal, cursor, posted >>
  BY DEF CallSucceeds, CallSchedules, CallFails, Called, store
<1> HIDE DEF c
<1>4. \A f \in Events \ {c.ev} : Protected(f)' => Protected(f)
  BY <1>3 DEF Protected
<1> QED
  BY <1>2, <1>3, <1>4, ProtectsOne DEF Grown

LEMMA StepRefines == IInv /\ IInv' /\ LogInv /\ [Next]_vars => [Delivery!Next]_Abstract
<1> SUFFICES ASSUME IInv, IInv', LogInv, [Next]_vars PROVE [Delivery!Next]_Abstract
  OBVIOUS
<1>1. ASSUME NEW w \in Workers, Internal(w) PROVE [Delivery!Next]_Abstract
  <2>0. w \in Processes
    BY DEF Processes
  <2>1. CASE Satisfy(w)
    <3>1. /\ UNCHANGED << cursor, posted, board >> /\ refusal' = refusal \union {ctx[w].ev}
      BY <2>1 DEF Satisfy, world
    <3>2. ctx[w].ev \in Events /\ ctx[w].ev <= posted
      BY <2>0, <2>1, InHand DEF Satisfy, Handling
    <3>3. \A f \in Events \ {ctx[w].ev} : Protected(f)' => Protected(f)
      BY <3>1 DEF Protected
    <3> QED
      BY <3>1, <3>2, <3>3, ProtectsOne DEF Grown
  <2>2. CASE ~ Satisfy(w)
    <3>1. UNCHANGED << posted, cursor, board, refusal >>
      BY <1>1, <2>2 DEF Internal, Fetch, Route, Gate, TransitionRead, TransitionWrite, Reread,
         SkipStep, Enqueue, ProbeFinds, ProbeMisses, Mark, MarkStep, Finish,
         Scan, ReplayNext, ReplayMark, ReplayStep, EndReconcile, store, world
    <3> QED
      BY <3>1, ProtectsNone
  <2> QED
    BY <2>1, <2>2
<1>2. ASSUME NEW w \in Workers, BeginTick(w) PROVE [Delivery!Next]_Abstract
  BY <1>2, ProtectsNone DEF BeginTick, store, world
<1>3. ASSUME NEW w \in Workers, Board(w) PROVE [Delivery!Next]_Abstract
  <2>1. w \in Processes
    BY DEF Processes
  <2> QED
    BY <1>3, <2>1, CallRefines DEF Board
<1>4. ASSUME NEW w \in Workers, EndTick(w) \/ EndReconcileTick(w) PROVE [Delivery!Next]_Abstract
  <2>1. w \in Processes
    BY DEF Processes
  <2> QED
    BY <1>4, <2>1, AdvanceRefines DEF EndTick, EndReconcileTick
<1>5. ASSUME NEW o \in Operators, Retry(o) PROVE [Delivery!Next]_Abstract
  <2>1. o \in Processes
    BY DEF Processes
  <2>2. CASE \/ CallSucceeds(o, "tcall", "tmark") \/ CallSchedules(o, "tcall", "tmark")
             \/ CallFails(o, "tcall", "tmark")
    BY <2>1, <2>2, CallRefines
  <2>3. CASE \/ RetrySelect(o) \/ RetryNext(o) \/ RetryProbe(o)
             \/ RetryMark(o) \/ RetryStep(o) \/ EndRetry(o)
    BY <2>3, ProtectsNone DEF RetrySelect, RetryNext, RetryProbe, RetryMark, RetryStep, EndRetry,
       store, world
  <2> QED
    BY <1>5, <2>2, <2>3 DEF Retry
<1>6. ASSUME NEW e \in Events, GatewayAccepts(e) PROVE [Delivery!Next]_Abstract
  <2>1. /\ board' = board \union {<< e, "schedule_origin_wake" >>}
        /\ UNCHANGED << refusal, cursor, posted >>
    BY <1>6 DEF GatewayAccepts, store
  <2>2. \A f \in Events : Protected(f)' <=> Protected(f)
    BY <2>1 DEF Protected, Obligations, CreateOps
  <2>3. Guarded' = Guarded
    BY <2>1, <2>2, LogIsPosted DEF Guarded
  <2> QED
    BY <2>1, <2>3 DEF Abstract
<1>7. ASSUME NEW e \in Events, NEW op \in Ops, Elapse(e, op) PROVE [Delivery!Next]_Abstract
  BY <1>7, ProtectsNone DEF Elapse, world
<1>8. CASE (\E p \in Processes : Crash(p)) \/ UNCHANGED vars
  BY <1>8, ProtectsNone DEF Crash, vars, store, world
<1> QED
  BY <1>1, <1>2, <1>3, <1>4, <1>5, <1>6, <1>7, <1>8, PostRefines DEF Next

\* ingest_board_once, reconcile_outbox and continuation retry together are a
\* consumer of the board's log: whatever ticks overlap, fail or die, an event is
\* protected once, after it was posted and for good, and the cursor only moves
\* forward over protected events.
THEOREM EngineDeliversInOrder == Spec => DeliversInOrder
<1>1. Init => Delivery!Init
  BY DEF Init, Delivery!Init
<1>2. IInv /\ IInv' /\ LogInv /\ [Next]_vars => [Delivery!Next]_<< posted, Guarded, cursor >>
  BY StepRefines DEF Abstract
<1> QED
  BY <1>1, <1>2, Inductive, LogInvariant, PTL DEF Spec, DeliversInOrder, Delivery!Spec, Guarded
=============================================================================
