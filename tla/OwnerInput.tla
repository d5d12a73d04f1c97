----------------------------- MODULE OwnerInput -----------------------------
(***************************************************************************)
(* The continuations that wait for somebody: a needs_input event asks its   *)
(* owner through a blocked anchor task, or is answered by the resolver      *)
(* ladder without a question (H0); an external_wait event waits for a       *)
(* condition that is polled.  An answer becomes an owner receipt, then one  *)
(* materialization task, then a review and a packet rerun on GO verdicts.   *)
(*                                                                         *)
(* A handler is a list of durable steps, its agenda; a process executes the *)
(* head of its agenda, one store transaction or one board call at a time,   *)
(* and a crash throws the agenda away.  Processes share the store without a *)
(* lock: overlapping ticks of the daemon, the submit command, the gateway   *)
(* plugin (which has no board adapter) and the caller of the advance        *)
(* operations.                                                             *)
(***************************************************************************)
EXTENDS ContinuationStates, Outbox, FiniteSets, Sequences

CONSTANTS
  Conts,       \* source events, one continuation each
  Origin,      \* those with an origin_ref to subscribe
  Workers,     \* processes that tick: they ingest events and poll conditions
  Daemons,     \* the workers that reconcile, which is a tick and a replay
  Submitters,  \* processes that run "continuation submit"
  Plugins,     \* processes that run agentflow_submit_input_text
  Reviewers,   \* processes that report a verdict of a finished task
  MaxReceipts, \* bound: never reached, see OwnerAssumption
  MaxFaults    \* bound: failed board calls and deaths inside a handler together

Procs == Workers \union Submitters \union Plugins \union Reviewers

NoCont == "none"

ASSUME OwnerAssumption ==
  /\ NoCont \notin Conts /\ IsFiniteSet(Procs)
  /\ Origin \subseteq Conts /\ Daemons \subseteq Workers
  /\ { MaxFaults, MaxReceipts } \subseteq Nat
  /\ Cardinality(Procs) + MaxFaults <= MaxReceipts

VARIABLES
  kind,      \* "owner" or "wait": what compile_outcome makes of the event
  inst,      \* continuation_instances.state
  receipts,  \* owner_input_receipts: the last version
  steps,     \* continuation_steps that exist
  stepTask,  \* ... and carry a board_task_id
  outbox,    \* board_outbox by idempotency key
  wait,      \* external_wait_conditions.state
  asked,     \* continuations that are members of an interaction case
  passed,    \* events behind the board cursor
  board,     \* effects the board holds, by idempotency key
  on, todo,  \* what each process works on, and its agenda
  heard,     \* history: the answers of checkers to polled conditions, and the
             \* automatic receipts that failed the contract's validation
  failures, crashes

store == << inst, receipts, steps, stepTask, outbox, wait, asked, passed >>
vars  == << kind, store, board, on, todo, heard, failures, crashes >>

-----------------------------------------------------------------------------
StepKinds == { "owner_anchor", "materialization", "review", "packet_rerun" }
Whats     == StepKinds \union { "subscribe", "complete_owner_anchor" }

\* Idempotency keys: one per continuation, but one per receipt for the
\* completion of the anchor.
Keys == { << w, 0 >> : w \in Whats \ { "complete_owner_anchor" } }
          \union ({ "complete_owner_anchor" } \X (1 .. MaxReceipts))

Deeds == { "move", "write", "step", "op", "call", "applied", "failed", "task",
           "close", "receive", "receipt", "case", "condition", "judge", "pass" }

\* What can be heard of a continuation.
Hearings == { "refused", "satisfied", "failed_permanent" }

Items == [ do : Deeds, what : Whats \union ContinuationState \union { "" }, v : 0 .. MaxReceipts ]

Item(do, what, v) == [ do |-> do, what |-> what, v |-> v ]
Move(s)   == Item("move", s, 0)
Step(k)   == Item("step", k, 0)
Op(w, v)  == Item("op", w, v)
Plain(do) == Item(do, "", 0)
Key(i)    == << i.what, i.v >>

Idle(p) == on[p] = NoCont
AtRest(c) == \A p \in Procs : on[p] # c

-----------------------------------------------------------------------------
TypeOK ==
  /\ kind \in [Conts -> { "owner", "wait" }]
  /\ inst \in [Conts -> ContinuationState \union { "none" }]
  /\ receipts \in [Conts -> 0 .. MaxReceipts]
  /\ steps \subseteq Conts \X StepKinds /\ stepTask \subseteq steps
  /\ outbox \in [Conts -> [Keys -> Row]]
  /\ wait \in [Conts -> { "none", "pending", "satisfied", "failed_permanent" }]
  /\ asked \subseteq Conts /\ passed \subseteq Conts
  /\ heard \subseteq Conts \X Hearings
  /\ board \subseteq Conts \X Keys
  /\ on \in [Procs -> Conts \union { NoCont }]
  /\ todo \in [Procs -> Seq(Items)]
  /\ failures \in Nat /\ crashes \in Nat /\ failures + crashes <= MaxFaults

Init ==
  /\ kind \in [Conts -> { "owner", "wait" }]
  /\ inst = [c \in Conts |-> "none"]
  /\ receipts = [c \in Conts |-> 0]
  /\ steps = {} /\ stepTask = {}
  /\ outbox = [c \in Conts |-> [k \in Keys |-> NoRow]]
  /\ wait = [c \in Conts |-> "none"]
  /\ asked = {} /\ passed = {} /\ heard = {}
  /\ board = {}
  /\ on = [p \in Procs |-> NoCont]
  /\ todo = [p \in Procs |-> << >>]
  /\ failures = 0 /\ crashes = 0

-----------------------------------------------------------------------------
(* Agendas.                                                                *)

Begin(p, c, agenda) ==
  /\ Idle(p)
  /\ on' = [on EXCEPT ![p] = c]
  /\ todo' = [todo EXCEPT ![p] = agenda]
  /\ UNCHANGED << kind, board, heard, failures, crashes >>

\* p is at item i of continuation c, and rest is what follows it.
At(p, do) == todo[p] # << >> /\ Head(todo[p]).do = do

\* Goes on with what is left of the handler; an empty agenda is a return.
Continue(p, agenda) ==
  /\ todo' = [todo EXCEPT ![p] = agenda]
  /\ on' = IF agenda = << >> THEN [on EXCEPT ![p] = NoCont] ELSE on
  /\ UNCHANGED << kind, crashes >>

Then(p, items) == Continue(p, items \o Tail(todo[p]))

\* An operation that failed, or a step that already existed, takes the
\* subscription that hangs on it along.
Without(p) ==
  LET rest == Tail(todo[p]) IN
  Continue(p, IF rest # << >> /\ Head(rest).what = "subscribe" THEN Tail(rest) ELSE rest)

\* Mutant of OnReceipt: the task comes first.
OnReceiptWorkFirst == << Step("materialization"), Plain("receipt") >>

\* on_receipt after its state check begins with the receipt.
OnReceipt == << Plain("receipt") >>

\* Mutant of Accept: one transition is left out.
AcceptOneMove(p, v) == << Step("materialization"), Move("materializing") >>

\* ... and goes on, with version v of it, to the transition, the completion of
\* the anchor and the one materialization task.
Accept(p, v) ==
  << Move("input_accepted") >>
  \o (IF p \in Plugins THEN << >> ELSE << Item("close", "", v) >>)
  \o << Step("materialization"), Move("materializing") >>

-----------------------------------------------------------------------------
(* Entry points.                                                           *)

\* plan(): the interaction case, the anchor, and the subscription of the
\* origin to it.
Ask(c) == << Plain("case"), Step("owner_anchor") >>
          \o (IF c \in Origin THEN << Op("subscribe", 0) >> ELSE << >>)

\* Mutants of Ingest: the H0 path does not transition; a repeated ingestion
\* transitions again.
IngestMoves(p, c, movesAsk, movesH0) ==
  /\ c \notin passed /\ kind[c] = "owner"
  /\ inst' = IF inst[c] = "none" THEN [inst EXCEPT ![c] = "detected"] ELSE inst
  /\ \/ Begin(p, c, (IF movesAsk THEN << Move("waiting_owner") >> ELSE << >>)
                     \o Ask(c) \o << Plain("pass") >>)
     \/ Begin(p, c, (IF movesH0 THEN << Move("waiting_owner") >> ELSE << >>)
                     \o << Plain("receive"), Plain("pass") >>)
  /\ UNCHANGED << receipts, steps, stepTask, outbox, wait, asked, passed >>
IngestH0Unmoved(p, c)   == IngestMoves(p, c, inst[c] = "none", FALSE)
IngestMovesAgain(p, c)  == IngestMoves(p, c, TRUE, TRUE)

\* ingest_board_once on one event: create_instance, then what the kind asks
\* for.  The resolver runs anew on every ingestion, so its verdict (ask or H0)
\* may differ.  A fresh instance is transitioned and read again, an existing
\* one is taken as create_instance returned it.
Ingest(p, c) ==
  LET fresh == inst[c] = "none"
      H0 == IF fresh THEN << Plain("receive") >>
            ELSE IF inst[c] = "waiting_owner" THEN << Item("receive", "waiting_owner", 0) >>
            ELSE << >>
  IN
  /\ c \notin passed
  /\ inst' = IF fresh THEN [inst EXCEPT ![c] = "detected"] ELSE inst
  /\ \/ /\ kind[c] = "wait"
        /\ Begin(p, c, (IF fresh THEN << Move("materializing"), Plain("condition") >> ELSE << >>)
                       \o << Plain("pass") >>)
     \/ /\ kind[c] = "owner"
        /\ \E answer \in { Ask(c), H0 } :
             Begin(p, c, (IF fresh THEN << Move("waiting_owner") >> ELSE << >>)
                         \o answer \o << Plain("pass") >>)
  /\ UNCHANGED << receipts, steps, stepTask, outbox, wait, asked, passed >>

\* run_continuation_submit with a valid answer reads the instance; on_receipt
\* tests what was read.
Submit(p, c) ==
  /\ inst[c] = "waiting_owner"
  /\ Begin(p, c, OnReceipt)
  /\ UNCHANGED store

\* _handle_submit_input_text with a reply that fills every field of the case.
Reply(p, c) ==
  /\ c \in asked
  /\ inst[c] = "waiting_owner"
  /\ Begin(p, c, OnReceipt)
  /\ UNCHANGED store

\* A verdict of the finished materialization or review task.
AdvanceAfterMaterialization(p, c, verdict) ==
  /\ kind[c] = "owner" /\ << c, << "materialization", 0 >> >> \in board
  /\ inst[c] = "materializing"
  /\ Begin(p, c, IF verdict = "GO"
                 THEN << Move("waiting_review"), Step("review") >>
                 ELSE << Move("failed_retryable") >>)
  /\ UNCHANGED store

AdvanceAfterReview(p, c, verdict) ==
  /\ << c, << "review", 0 >> >> \in board
  /\ inst[c] = "waiting_review"
  /\ Begin(p, c, IF verdict = "GO"
                 THEN << Move("resumable"), Step("packet_rerun"), Move("resumed") >>
                 ELSE << Move("failed_retryable") >>)
  /\ UNCHANGED store

\* reconcile_outbox takes a pending, due row as it selected it.
Replay(p, c) ==
  /\ \E k \in Keys :
       /\ Retryable(outbox[c][k])
       /\ Begin(p, c, << Item("call", k[1], k[2]) >>)
  /\ UNCHANGED store

\* poll_external_wait_conditions selects a pending condition.
Poll(p, c) ==
  /\ wait[c] = "pending"
  /\ Begin(p, c, << Plain("judge") >>)
  /\ UNCHANGED store

-----------------------------------------------------------------------------
(* The items of an agenda.  ContinuationStore.transition selects the state  *)
(* and updates it in a later statement; handlers ignore its result.         *)

MoveRead(p) ==
  LET to == Head(todo[p]).what IN
  /\ At(p, "move")
  /\ Then(p, IF Legal(inst[on[p]], to) THEN << Item("write", to, 0) >> ELSE << >>)
  /\ UNCHANGED << store, board, heard, failures >>

MoveWrite(p) ==
  /\ At(p, "write")
  /\ inst' = [inst EXCEPT ![on[p]] = Head(todo[p]).what]
  /\ Then(p, << >>)
  /\ UNCHANGED << receipts, steps, stepTask, outbox, wait, asked, passed, board, heard, failures >>

\* add_step: only the process that created the step creates its task.
AddStep(p) ==
  LET k == Head(todo[p]).what IN
  /\ At(p, "step")
  /\ steps' = steps \union {<< on[p], k >>}
  /\ IF << on[p], k >> \in steps THEN Without(p) ELSE Then(p, << Op(k, 0) >>)
  /\ UNCHANGED << inst, receipts, stepTask, outbox, wait, asked, passed, board, heard, failures >>

Succeeded(p, i) ==
  IF i.what \in StepKinds THEN Then(p, << Item("task", i.what, 0) >>) ELSE Then(p, << >>)

\* apply_board_operation: enqueue, then decide on the row.
Enqueue(p) ==
  LET i   == Head(todo[p])
      row == Enqueued(outbox[on[p]][Key(i)])
  IN
  /\ At(p, "op")
  /\ outbox' = [outbox EXCEPT ![on[p]][Key(i)] = row]
  /\ CASE row.state = "applied"                   -> Succeeded(p, i)
       [] row.state = "pending" /\ ~ row.due      -> Without(p)
       [] row.state = "pending" /\ row.due /\ p \in Plugins -> Without(p)
       [] OTHER -> Then(p, << [i EXCEPT !.do = "call"] >>)
  /\ UNCHANGED << inst, receipts, steps, stepTask, wait, asked, passed, board, heard, failures >>

\* The adapter: deduplicated by key; a call may fail with or without effect.
Call(p) ==
  LET i == Head(todo[p]) IN
  /\ At(p, "call")
  /\ \/ /\ board' = board \union {<< on[p], Key(i) >>} /\ failures' = failures
        /\ Then(p, << [i EXCEPT !.do = "applied"] >>)
     \/ /\ failures + crashes < MaxFaults /\ failures' = failures + 1
        /\ board' \in { board, board \union {<< on[p], Key(i) >>} }
        /\ Then(p, << [i EXCEPT !.do = "failed"] >>)
  /\ UNCHANGED << store, heard >>

MarkApplied(p) ==
  LET i == Head(todo[p]) IN
  /\ At(p, "applied")
  /\ outbox' = [outbox EXCEPT ![on[p]][Key(i)] = MarkedApplied(@, i.what)]
  /\ Succeeded(p, i)
  /\ UNCHANGED << inst, receipts, steps, stepTask, wait, asked, passed, board, heard, failures >>

\* The retry delay only holds back a later replay, so it is taken to elapse at
\* once: no row of this module is enqueued a second time.
MarkFailed(p) ==
  LET i == Head(todo[p]) IN
  /\ At(p, "failed")
  /\ outbox' = [outbox EXCEPT ![on[p]][Key(i)] = MarkedDue(MarkedPending(@, i.what, "none"))]
  /\ Without(p)
  /\ UNCHANGED << inst, receipts, steps, stepTask, wait, asked, passed, board, heard, failures >>

\* mark_step(board_task_id).
MarkStep(p) ==
  /\ At(p, "task")
  /\ stepTask' = stepTask \union {<< on[p], Head(todo[p]).what >>}
  /\ Then(p, << >>)
  /\ UNCHANGED << inst, receipts, steps, outbox, wait, asked, passed, board, heard, failures >>

\* on_receipt called by the H0 path: the state as it was read, then the
\* contract's validation of the values the ladder found.
Receive(p) ==
  LET seen == IF Head(todo[p]).what = "" THEN inst[on[p]] ELSE Head(todo[p]).what IN
  /\ At(p, "receive")
  /\ \/ /\ seen = "waiting_owner"
        /\ Then(p, OnReceipt) /\ heard' = heard
     \/ /\ Then(p, << >>)
        /\ heard' = IF seen = "waiting_owner" THEN heard \union {<< on[p], "refused" >>} ELSE heard
  /\ UNCHANGED << store, board, failures >>

\* add_owner_receipt: the next version, which the completion key carries.
AddReceipt(p) ==
  LET v == receipts[on[p]] + 1 IN
  /\ At(p, "receipt")
  /\ receipts' = [receipts EXCEPT ![on[p]] = v]
  /\ Then(p, Accept(p, v))
  /\ UNCHANGED << inst, steps, stepTask, outbox, wait, asked, passed, board, heard, failures >>

\* The anchor is completed if its step has a task by now.
CloseAnchor(p) ==
  /\ At(p, "close")
  /\ Then(p, IF << on[p], "owner_anchor" >> \in stepTask
             THEN << Op("complete_owner_anchor", Head(todo[p]).v) >> ELSE << >>)
  /\ UNCHANGED << store, board, heard, failures >>

\* open_or_batch_case: the continuation joins a case its owner can reply to.
OpenCase(p) ==
  /\ At(p, "case")
  /\ asked' = asked \union {on[p]}
  /\ Then(p, << >>)
  /\ UNCHANGED << inst, receipts, steps, stepTask, outbox, wait, passed, board, heard, failures >>

\* _handle_external_wait registers the condition once.
Register(p) ==
  /\ At(p, "condition")
  /\ wait' = [wait EXCEPT ![on[p]] = IF @ = "none" THEN "pending" ELSE @]
  /\ Then(p, << >>)
  /\ UNCHANGED << inst, receipts, steps, stepTask, outbox, asked, passed, board, heard, failures >>

\* Mutant of Judge: a failed condition is left to be polled again.
JudgeForgets(p) ==
  /\ At(p, "judge")
  /\ \E answer \in { "satisfied", "failed_permanent", "pending" } :
       /\ wait' = IF answer = "satisfied" THEN [wait EXCEPT ![on[p]] = answer] ELSE wait
       /\ heard' = IF answer \in Hearings THEN heard \union {<< on[p], answer >>} ELSE heard
       /\ Then(p, CASE answer = "satisfied"        -> << Move("resumable"), Move("resumed") >>
                    [] answer = "failed_permanent" -> << Move("failed_retryable") >>
                    [] OTHER                       -> << >>)
  /\ UNCHANGED << inst, receipts, steps, stepTask, outbox, asked, passed, board, failures >>

\* The checker's answer is committed, over whatever another poll has committed
\* since the condition was selected, before the instance is moved.
Judge(p) ==
  /\ At(p, "judge")
  /\ \/ /\ wait' = [wait EXCEPT ![on[p]] = "satisfied"]
        /\ heard' = heard \union {<< on[p], "satisfied" >>}
        /\ Then(p, << Move("resumable"), Move("resumed") >>)
     \/ /\ wait' = [wait EXCEPT ![on[p]] = "failed_permanent"]
        /\ heard' = heard \union {<< on[p], "failed_permanent" >>}
        /\ Then(p, << Move("failed_retryable") >>)
     \/ /\ UNCHANGED << wait, heard >>
        /\ Then(p, << >>)
  /\ UNCHANGED << inst, receipts, steps, stepTask, outbox, asked, passed, board, failures >>

\* The end of the event's tick: advance_cursor.
Pass(p) ==
  /\ At(p, "pass")
  /\ passed' = passed \union {on[p]}
  /\ Then(p, << >>)
  /\ UNCHANGED << inst, receipts, steps, stepTask, outbox, wait, asked, board, heard, failures >>

-----------------------------------------------------------------------------
Crash(p) ==
  /\ ~ Idle(p) /\ failures + crashes < MaxFaults
  /\ crashes' = crashes + 1
  /\ on' = [on EXCEPT ![p] = NoCont]
  /\ todo' = [todo EXCEPT ![p] = << >>]
  /\ UNCHANGED << kind, store, board, heard, failures >>

Execute(p) ==
  \/ MoveRead(p) \/ MoveWrite(p) \/ AddStep(p) \/ Enqueue(p) \/ Call(p)
  \/ MarkApplied(p) \/ MarkFailed(p) \/ MarkStep(p)
  \/ Receive(p) \/ AddReceipt(p) \/ CloseAnchor(p) \/ OpenCase(p)
  \/ Register(p) \/ Judge(p) \/ Pass(p)

Next ==
  \/ \E p \in Workers, c \in Conts : Ingest(p, c) \/ Poll(p, c)
  \/ \E p \in Daemons, c \in Conts : Replay(p, c)
  \/ \E p \in Submitters, c \in Conts : Submit(p, c)
  \/ \E p \in Plugins, c \in Conts : Reply(p, c)
  \/ \E p \in Reviewers, c \in Conts, verdict \in { "GO", "BLOCK" } :
       AdvanceAfterMaterialization(p, c, verdict) \/ AdvanceAfterReview(p, c, verdict)
  \/ \E p \in Procs : Execute(p) \/ Crash(p)

Spec == Init /\ [][Next]_vars

-----------------------------------------------------------------------------
(* What the two waits promise.                                             *)

OnBoard(c, what) == << c, << what, 0 >> >> \in board
Enqueued0(c, what) == outbox[c][<< what, 0 >>].state # "absent"

\* Work is authorised: whoever submits, replays or dies, a materialization task
\* exists only after an owner receipt, the anchor is completed only with a
\* receipt that exists and while it is on the board, and review and rerun come
\* in that order (owner_input.py, "never grants downstream children before the
\* receipt exists").
WorkFollowsReceipt ==
  \A c \in Conts :
    /\ OnBoard(c, "materialization") => receipts[c] > 0
    /\ OnBoard(c, "review") => OnBoard(c, "materialization")
    /\ OnBoard(c, "packet_rerun") => OnBoard(c, "review")
    /\ \A v \in 1 .. MaxReceipts :
         << c, << "complete_owner_anchor", v >> >> \in board
           => v <= receipts[c] /\ OnBoard(c, "owner_anchor")

\* As long as nothing crashes, an event behind the cursor whose owner is waited
\* for has its anchor in the outbox, unless an automatic receipt was refused,
\* and none is left in detected, where no answer is accepted
\* (OwnerInputHandler.plan, _owner_input_like).
AskedOnceHandled ==
  \A c \in passed :
    crashes = 0 /\ AtRest(c)
      => /\ inst[c] # "detected"
         /\ inst[c] = "waiting_owner" => Enqueued0(c, "owner_anchor") \/ << c, "refused" >> \in heard

\* As long as nothing crashes and one process reports verdicts, one accepted
\* receipt has had all its consequences once no handler is at it: the
\* materialization task is enqueued and the instance stands where the last
\* verdict put it, although on_receipt spreads this over eight transactions and
\* calls (owner_input.py, on_receipt and advance_after_*).
AnswerIsCarriedOut ==
  \A c \in Conts :
    crashes = 0 /\ AtRest(c) /\ receipts[c] = 1
      => /\ Enqueued0(c, "materialization")
         /\ inst[c] \in { "materializing", "waiting_review", "failed_retryable", "resumed" }
         /\ inst[c] = "resumed" <=> << c, "packet_rerun" >> \in steps
         /\ << c, "review" >> \in steps => inst[c] # "materializing"

\* However many processes poll (agentflowd run, the reconcile timer and a tick
\* by hand share no lock) and wherever they die, an instance stands resumed or
\* failed only on an answer of the checker; and as long as nothing crashes, a
\* pending condition has its instance waiting and a settled one is never left
\* half moved, although the condition, the move and its second half are three
\* transactions on stale reads.  Which of two different answers wins is a race,
\* in the condition and in the instance apart (continuation_engine.py,
\* _handle_external_wait and poll_external_wait_conditions).
WaitFollowsItsCondition ==
  \A c \in Conts :
    kind[c] = "wait"
      => /\ inst[c] \in { "resumable", "resumed" } => << c, "satisfied" >> \in heard
         /\ inst[c] = "failed_retryable" => << c, "failed_permanent" >> \in heard
         /\ crashes = 0 /\ AtRest(c)
              => /\ wait[c] = "none"    <=> inst[c] = "none"
                 /\ wait[c] = "pending" <=> inst[c] = "materializing"
                 /\ wait[c] \in { "satisfied", "failed_permanent" }
                      <=> inst[c] \in { "resumed", "failed_retryable" }

\* An answered continuation is never offered to the owner again, although the
\* event may be ingested again after the answer and transitions are written on
\* stale reads (plan transitions only the instance it created).
AnsweredIsNotReopened ==
  [][\A c \in Conts :
       receipts[c] > 0 /\ inst'[c] = "waiting_owner" => inst[c] = "waiting_owner"]_vars

\* Whoever is waited for was asked (continuation_engine.py, _owner_input_like:
\* either the ladder resolves every field and "an owner receipt is recorded
\* automatically", or the owner anchor is created).
OwnerIsAsked ==
  \A c \in passed :
    AtRest(c) /\ inst[c] = "waiting_owner" => Enqueued0(c, "owner_anchor")

=============================================================================
