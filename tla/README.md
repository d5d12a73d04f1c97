# agentflow-hermes: a verification development

agentflow-hermes runs beside the Hermes agent: it watches kanban boards,
continues work that ended in a verdict, delivers jobs through a gateway and
restarts services in bounded maintenance cycles.  Its processes are short
commands, timers and one daemon.  They share nothing but SQLite files, a few
JSON files and the board, and most of them take no lock.  That is the subject
of this development: what holds when those processes overlap, fail half way and
die between two steps.

File names without a directory are those of `src/src/agentflow_hermes/`.

## 1. The system

| Part | State it keeps | Operations | Modelled by |
|---|---|---|---|
| Continuation engine (`continuation_engine.py`, `daemon.py`, `scripts/agentflowd.py`) | the cursor of each board | `ingest_board_once`, `reconcile_outbox`, polling of waits, seeding, backfill, operator resolution | ContinuationEngine, OwnerInput (partly) |
| Continuation store (`continuation_store.py`) | instances, steps, satisfactions, owner receipts, wait conditions, outbox, cursors, interaction cases | `create_instance`, `transition`, `add_step`, `outbox_enqueue`, `outbox_mark`, `advance_cursor`, `migrate_legacy_store` | ContinuationStates, Outbox, StoreMigration and the actions of their users |
| Outbox replay (`continuations/base.py`) | none of its own | `apply_outbox_operation`, bounded callback retries | Outbox, ContinuationEngine |
| Handlers (`continuations/code_fix.py`, `semantic_refusal.py`, `owner_input.py`) | none of their own | `discover`, `materialize`, `on_receipt`, `advance_after_*` | ContinuationEngine, OwnerInput |
| Operator commands (`continuation_cli.py`), gateway plugin | none of their own | `retry`, `submit`, `agentflow_submit_input_text` | ContinuationEngine, OwnerInput |
| Board and its adapter (`board_events.py`, `board_adapter.py`) | the event log, tasks, subscriptions, ACK receipts | create, subscribe, wake, acknowledge, complete | environment of both modules |
| Job ledger (`store.py`, `states.py`, `live/`) | jobs, events, operator receipts, idempotency keys, the degraded flag | `enqueue`, `dispatch_dry_run`, `dispatch_live`, `ack` | JobLedger |
| Maintenance runner (`maintenance/runner.py`, `durable.py`) | cycles, dead letters, the degraded flag | one invocation of `run_cycle` | MaintenanceCycle |
| Trust grants (`maintenance/trust.py`) | the policy file | create, revoke, inspect | a choice of MaintenanceCycle |
| Interaction inbox (`interaction.py`) | interaction cases and members | batch, ask, clarify, apply | OwnerInput, membership only |
| Outcome compiler (`outcome_compiler.py`, `outcome.py`) | none | text and metadata of a report to an outcome | OutcomeCompiler |
| Loop supervisor, graph creator (`loop_supervisor.py`, `loop_cli.py`, `graph_creator.py`) | a ledger of loop receipts | `evaluate_loop_event`, supersession, graph creation | LoopSupervisor |
| Roadmap promotion (`roadmap*.py`) | the apply receipts file | propose, apply, promote, watch, the promotion of a tick | RoadmapPromotion |
| Legacy store migration (`continuation_store.py`) | two stores | `migrate_legacy_store` beside the daemons of both | StoreMigration |
| Origin migration (`origin_migration.py`) | a board's origins and receipts; the store | plan, apply, repair of dead letters | OriginMigration |
| Release action (`release_action.py`) | a receipts file | tag, push, release | no |
| Bridges, configuration, unit files, command line | none, or text | parse, render, print | their results are choices of the modules |

How the parts meet:

* The **board** is an append-only log to the engine (a cursor per board and
  database) and a set of effects to the handlers (tasks and subscriptions under
  an idempotency key).  A call may fail, take effect, or take effect and still
  be reported as failed.
* The **continuation store** is shared by `agentflowd run`, by
  `agentflowd reconcile` (a systemd timer), by manual ticks, by
  `continuation retry` and `submit`, and by the gateway plugin.  Only
  `agentflowd run` takes an instance lock (`scripts/agentflowd.py:136-148`).  A
  SELECT runs in autocommit; a transaction starts at the first write.  What a
  caller has read is therefore stale when it writes.
* The **job ledger** is another SQLite file.  `dispatch_live` holds its write
  lock across the call of the gateway.
* The **receipts file** of a roadmap is read whole at the start of a command or of
  a tick and written whole at its end, by every tick and by every `roadmap promote`
  and `roadmap watch`, without a lock and without an atomic replace.
* Both **migrations** are commands that run beside the daemons whose data they
  move; only the board part of the origin migration is one transaction.
* A **maintenance invocation** commits after every helper call, so that another
  invocation may run between any two of them.

What is hard: overlapping ticks on one event; a retry racing the tick it
duplicates; a death between the row, the board call and the mark; answers that
arrive before the question is on the board; caps and switches that are read
early and used late; a file overwritten with an older copy of itself; a copy of
tables that are read one after the other.  PROJECT.json lists each hazard with its line and with the
properties about it, or the reason why there is none yet.

What makes each part correct:

* engine: no event falls behind the cursor before its work is durable; the
  store claims no effect the board lacks; retries end; nothing is left half way;
* owner input: nobody's answer is lost or worked on twice, no work starts
  without one, every question that has to be asked is asked;
* job ledger: one delivery per job, receipts that add up, caps and switches
  exceeded by no more than the calls already in flight;
* maintenance: a cycle is carried out by one invocation, its row says what was
  done, and the caps hold up to the invocations in flight;
* supervisor: bounded rounds and remediations, spaced in time, and no card for
  what was not judged;
* roadmap: a graph is whole or is completed, the cursor waits for it (but for a
  plan that is too large, section 4), and a report is promoted only if its text says
  GO and no metadata that is asked holds it back;
* migrations: no event lost behind a copied cursor, no row under another
  instance, no fact about a delivery forgotten or invented.

## 2. Modules

    ContinuationStates   the state machine of an instance (continuation_store.py)
    Outbox               one outbox row: enqueue, mark, backoff, dead letter
    ContinuationEngine   EXTENDS both: cursor, code_fix, semantic_refusal,
                         reconcile, operator retry, crashes
    CursorDelivery       what the engine promises as a consumer of a log
    OwnerInput           EXTENDS ContinuationStates and Outbox: the continuations
                         that wait for an owner or for a condition
    JobLedger            jobs and live dispatch
    MaintenanceCycle     concurrent oneshot maintenance invocations
    LoopSupervisor       one loop event after another against the receipts
    OutcomeCompiler      what the readers of a report make of it
    RoadmapPromotion     EXTENDS OutcomeCompiler: calls and ticks over one
                         receipts file, one board and one cursor
    StoreMigration       the copy of a legacy store beside two daemons
    OriginMigration      EXTENDS StoreMigration: a board's origins move to
                         numeric ids and the dead letters are repaired
    MC*                  small instances of the seven systems, for TLC
    ContinuationEngineProofs, CursorDeliveryProofs, JobLedgerProofs, MaintenanceCycleProofs,
    LoopSupervisorProofs, RoadmapPromotionProofs, OriginMigrationProofs, OwnerInputProofs
                         theorems

The granularity is the same in all of them: **one action is one transaction on
the store or one external call**, because that is where a process can be
overtaken or die.  `pc` says where each process stands and `ctx` what it has in
memory: a stale read is a value in `ctx` that the store has outgrown.

Some operators carry a comment that begins with "Mutant".  Each is a plausible
wrong version of the definition that follows it; nothing refers to it.
PROJECT.json pairs it with the property that catches it.

### ContinuationEngine

| Model | Code |
|---|---|
| `inst`, `outbox`, `stepTask`, `cursor`, `refusal` | `continuation_instances.state`, `board_outbox`, `continuation_steps.board_task_id`, `board_cursors.last_event_id`, the recorded satisfaction |
| `posted`, `board`, `scheduled` | the event log, the effects on the board, the wakes the board has taken on but the gateway has not accepted |
| `BeginTick`, `Fetch`, `Route`, `EndTick` | the loop of `ingest_board_once`: batch, handler, `max_seq`, break at a failure |
| `Gate`, `TransitionRead`, `TransitionWrite`, `Reread`, `Satisfy` | the handlers' openings; `transition` is two actions since it selects and updates in two statements (`continuation_store.py:337`) |
| `SkipStep`, `Enqueue`, `Probe*`, `Call*`, `Mark`, `MarkStep`, `Finish` | one operation of `materialize`: step, row, board call, mark, step's task id |
| `Scan`, `Replay*`, `EndReconcile` | `reconcile_outbox` on the rows one SELECT returned |
| `Retry*` | `continuation retry` |
| `Post`, `GatewayAccepts`, `Elapse`, `Crash` | the environment: an event, an accepted wake, the end of a backoff, a death |

Time is one bit of a row, `next_attempt_at <= now`.  A death forgets `ctx`; an
exception inside a tick is a death too, because it ends the daemon and systemd
starts it again.  Left out: seeding of a board without a cursor
(`daemon.py:361-367`), the re-interpretation of rows that predate the outbox
columns, the dry-run path, the limit of one fetch, and the insides of the
adapter.

### OwnerInput

A handler is an *agenda*, the list of durable steps it still has to take.  A
process executes the head of its agenda, and a death drops the rest.  `Ingest`,
`Submit`, `Reply`, `Replay`, `Poll` and the two `Advance` actions put an agenda
together from what the process reads; `MoveRead`/`MoveWrite`, `AddStep`,
`Enqueue`, `Call`, `MarkApplied`, `MarkFailed`, `MarkStep`, `Receive`,
`AddReceipt`, `CloseAnchor`, `OpenCase`, `Register`, `Judge` and `Pass` execute
it.  `kind` is chosen at the beginning: `needs_input`, or `external_wait`.
`passed` stands for "behind the cursor", since ContinuationEngine already
treats the cursor.  Only answers the contract accepts reach `Submit` and
`Reply`: a refused one changes nothing.  The resolver ladder may find every
field, and the contract may then refuse the automatic receipt; `refused`
remembers that.  The plugin has no board adapter, so that it records rows
and leaves the board to a replay.  `on_receipt` is two lists: `OnReceipt`, which
begins with the receipt, and `Accept`, what follows once the receipt has its number.
`advance_after_*` have no caller in the
repository besides tests; they are driven by a process of their own.

### JobLedger

`tx` is the holder of SQLite's write lock.  `dispatch_live` reads job, key and
throttle one after another without it, takes it with its attempt receipt, calls
the gateway with it and commits.  `late` is a history of gateway calls made
after the flag, the switch or the key that should have stopped them was
committed.  Refused receipts and payloads are left out, because no gate counts
them.

### MaintenanceCycle

`rows` is `maintenance_cycles`, one row per cycle_ref.  `Invoke` takes the gates
that only read the configuration as one choice, `eligible`; `halted` is the
kill switch together with the activity probe.  `Insert` under `Block` and `Claim`
is `claim_cycle`, whose unique index decides which of two invocations goes on.
`restarts` and `late` are histories.

### LoopSupervisor

`receipts` is the ledger, `cards` the board by idempotency key.  `Evaluate` judges
one event in one step, as the code does: `Stop`, `Verdict`, `Unremediable`,
`Escalate`, `Postpone`, `Remediate`, and the two supersession actions are its
early returns in their order.  The ledger's readers (`HasEvent`, `HasKey`,
`CountBlocker`, `MaxRound`, `CurrentVn`, `Cooling`) keep their own choice of
receipts, for that is where they can disagree: the round is the largest of
any receipt, the count is of proposals and applications, the cooldown looks
at the latest receipt *in time* of one blocker.  `Candidates` is the graph
creator's walk over every blocker the summary names.  The policy and
`occurred_at` are chosen anew with each event.

### OutcomeCompiler and RoadmapPromotion

A report is a record of what its readers look for: a structured outcome, a flat
verdict, phrases, a GO directive.  `Compile` is `compile_outcome`; `Go` is the
separate judgement that `propose_roadmap_promotion` makes of the text.  A
process of RoadmapPromotion is a call (`Promote`, `Watch`) or a
process that ticks (`Tick`).  `Begin` reads the receipts file, `Go`, `Deep`, `Propose`, `Apply` and
`Duplicate` are the gates, `CreateCard` and `FailCard` one board call each,
`Truncate` and `Write` the two halves of rewriting the file, `Close` the cursor.
`faults` bounds failed calls and deaths together.

### StoreMigration and OriginMigration

Each event is one task with one callback.  `ids` gives its instance number in
either store, `rows` its callback row, `cursor` and `seed` the position and the
start of either daemon.  `CopyInstances`, `CopyCursor`, `CopyRows` and `Verify` are
the statements of `migrate_legacy_store`; `Detect`, `Enqueue` and `Advance` are
the daemons', between any two of them.  OriginMigration adds the board:
`origin` (where a task's wakes and acks go), `receipts` (per task, by the name
of the endpoint), `subs` (subscriptions under an alias), `shown` (what each
origin has been shown, a history) and `run`, the command.  `Plan`, `Commit`, `Rollback`, then for each letter
`Record`, `VerifyAck`, `ReadBack`, `MarkApplied`.  `Deliver`, `Attempt`, `GiveUp`,
`Gateway` and `Consumer` are the callers that write receipts and rows at the
same time.  `Facts` is what the receipts of a task say together, whatever
names they are stored under.

### CursorDelivery

A log, a set of protected events and a cursor that passes an event only when it
is protected or needs no protection.  ContinuationEngine implements it under the
mapping of `Delivery`: an event is protected when its graph and its return edge
are on the board, or its refusal is recorded.

## 3. Runs

| Run | Question | Bounds |
|---|---|---|
| `engine_pair` | Do overlapping ticks keep the store truthful, the graph rooted and the cursor failed closed, and do they implement CursorDelivery? | 2 workers, an event without a handler, a BLOCK with an origin and a refusal without one, retry cap 1, no deaths |
| `engine_liveness` | Alone, does a process bring every event behind the cursor to the promised state, respect backoffs and dead letters, deliver every event and end every callback? | one process that is by turns worker and operator, so that nothing overlaps, a BLOCK and a refusal, cap 2, 1 death |
| `engine_pair_stuck` | Does `HandledIsSettled` survive overlapping ticks?  No. | 2 workers, 1 event |
| `job_ledger` | Does the ledger add up, and by how much may caps and switches be exceeded? | 1 job, 2 dispatchers, 1 acker, 4 calls, 2 instants, breaker limit 2 |
| `job_final` | Does a final status stay?  No. | 1 job, 1 dispatcher, 1 acker |
| `maintenance` | Is a cycle carried out once, with a truthful and final row, within the caps? | 2 invocations, 3 cycles, 2 instants, 1 death |
| `maintenance_crash` | Is an `attempt` row always settled?  No. | 1 invocation, 1 cycle, 1 death, fairness |
| `owner_input` | Is every question asked, every answer carried out, and no work done without one? | 1 continuation, 2 processes that tick, one of them reconciles and submits, the other reports verdicts, and the plugin, 1 fault |
| `owner_unasked` | Is the owner asked about each passed event?  No. | 1 worker |
| `supervisor` | Does any sequence of events get a graph more rounds, remediations or cards than the policy allows? | 3 events, 5 instants, 2 graphs, 1 final, 2 reviews, max_rounds 3, max_same_blocker 2, cooldown 2 |
| `roadmap` | Does a key stand for a whole graph, does the cursor wait, and does the word of both readers of a report decide, whatever happens to the receipts file? | 2 tasks, 1 call and 2 overlapping ticks, graphs of 2 cards and one of 3, at most 2 cards per graph applied, depth 2, 2 promotions, 3 starts, 1 fault |
| `migration` | Do a copied cursor, the copied rows and the moved receipts keep what they stand for while daemons write? | 2 events, seeds 0 and 1, one copy, one run, one outside write |

Why these bounds suffice.  Two workers are what it takes for one process to be
stale with respect to another; a third could only repeat what the second does,
as each pair of races is about one row or one state.  Events of one kind do not
interact except through the cursor, so one of each kind shows the order in which
the cursor meets them.  `engine_pair` gives the refusal no route: its wake would
double the steps of both workers, and is covered by `engine_liveness` and by
the theorems for every `Routable`.  The retry cap distinguishes
only "below" and "at", and one death may hit each of the steps.  In the job
ledger the receipts of a second job are counted exactly like those of the first,
so 4 calls on one job reach the limits of minute, hour and breaker.  Three cycles
are needed so that the two invocations and one earlier cycle meet at the
day's cap.  `supervisor` needs two
remediations and one event in between that must not count (a refusal, a
supersession, a smaller round), hence 3 events; 5 instants put two of them inside
and outside a cooldown of 2 in either order.  `roadmap` needs a second task
behind the first so that the cursor can pass one wrongly, two cards so that a
graph can be half made, and a plan of three that `max_apply_tasks_per_graph` refuses
(the code's default is five, and a transition may name more); two ticks share the
cursor, and the third start is a retry after the fault.  In
`migration` event 1 is an ack whose letter lies under an alias and event 2 a wake
at the numeric id; task 1 has receipts under up to three names, which is
what it takes for two aliases to fall on one row; the legacy daemon was seeded at
0 and the canonical one at 1, so that both have ids the other does not know.
In OwnerInput `MaxReceipts` is never reached (theorem `TypeCorrect`),
a process takes each of its roles when it is idle, so that ticks and polls overlap with
each other and with both ways to answer, and
the one fault is either a failed call or a death, anywhere.  The theorems
below remove all bounds for the engine's central properties and for every
safety property of `job_ledger`, `maintenance`, `owner_input`, `supervisor`, `roadmap` and
`migration`.

Deadlock is checked where the system runs for ever.  `job_ledger`, `job_final`,
`owner_input`, `owner_unasked`, `supervisor`, `roadmap` and `migration` turn the check
off: calls, events and runs are bounded, and a continuation that has been answered
and reviewed has nothing left to do.

Fairness (`engine_liveness`, `maintenance_crash`).  The loop of `daemon.run`
(`daemon.py:588-637`) and the reconcile timer start ticks for ever: strong fairness
of `BeginTick`, strong because an operator's retries, which the same process runs
in this instance, come in between.  A process that has started goes on: weak fairness
of its steps (`Runs`).  Backoffs elapse: weak fairness of `Elapse`.  A board that is
asked again and again answers some time, whether a tick, a replay or an operator's
retry asks: strong fairness of `AnyCallSucceeds`.  Strong fairness of
`EndReconcileTick` says that some ticks are those of the reconcile timer, not
all of them plain ticks.  Nothing is assumed of the number of deaths except that
it is finite, nor of the gateway's acceptance of a wake: `CallbackConverges`
holds through the cap.

## 4. What the runs found

* `engine_pair_stuck`: a tick whose board call failed decides
  FAILED_RETRYABLE; a second tick succeeds and advances the cursor; the first
  one writes last.  The event is never visited again.
* `maintenance_crash`: a death after the claim leaves `attempt` for ever.
* `owner_unasked`: the automatic receipt may be refused, yet the event is
  reported as resolved: no receipt, no question.

* `job_final`: `dispatch_live` writes `dispatched` over any status
  (`store.py:661`), so that a job acknowledged as succeeded or failed goes back,
  against `docs/m1-m2-design.md:365`.  `ack` asks for the status, but writes on
  what it read before it had the write lock.

Observations made while modelling, which no run states:

* Engine: `_ensure_origin_wake` looks only for `applied`, so that a wake which
  `continuation retry` has dead-lettered is revived by the next tick
  (`semantic_refusal.py:225` against `base.py:201-204`).  The retry command raises
  at the first callback row it applies (`continuation_cli.py:269`: the row has no
  step), so that the rows after it are not replayed.
* Job ledger: two dispatchers pass the key check together, and the second calls the
  gateway before it meets the first one's key (`store.py:657` against the
  unique index of `migrations.py:94`).
* Owner input: a death between a condition that is settled and its instance, or between
  an instance that waits and its condition, leaves the instance in `materializing`:
  nothing polls a condition that is settled or missing.  Two pollers that get different
  answers settle the condition by the one and the instance by the other.
* Supervisor, against `docs/mp4-bounded-remediation-loop-supervisor.md`: two GO
  reviews of one final supersede it twice with the versions 2 and 3, because the key names
  the review (`loop_supervisor.py:779`); :200 asks for one final-vN per superseding
  review, while :82 asks for one superseding GO and :241 for
  `ambiguous_supersession`.  The cards of both have one key, so that the second is the
  first one; an event inside the cooldown is recorded under its id, so that the
  same event is a duplicate for ever after, whatever next eligible time (:235) it was given;
  supersession also happens under observe_only; `applied` is reported whenever a
  card was attempted; the round that a refused event claims still raises the round
  of its graph.
* Roadmap: a plan with more cards than `max_apply_tasks_per_graph` is answered by a
  success without cards and without a receipt (`roadmap.py:466-467`), so that an armed
  tick passes its event and nobody makes the graph; `CursorWaits` states it.  A flat
  BLOCK that names no blocker (`outcome_compiler.py:412-425` falls through to the text),
  and a BLOCK verdict of structured metadata whose kind is complete, do not hold back a text
  that says `Verdict: GO`: the tick promotes it, although the comments at :262
  and :377-381 promise to fail closed.
  `OnlyCleanReportsArePromoted` says what is held back.  `roadmap_cli.py:301-304` says that a repeated `watch --once` creates
  no new task.  A duplicate of A is not committed to the promotion ledger of the
  second call, so that B gets depth 1, another key and a second graph.  `promote` and
  `watch` read the summary alone and promote a GO whose metadata blocks.  The marker
  `Outcome-Kind: roadmap_next` in text is always invalid, so that a tick
  never promotes a report that uses it.  A BLOCK text that names a known blocker class
  becomes CODE_FIX without the gate for unsafe categories, which the comment at
  `outcome_compiler.py:142-148` promises for every blocker.
* Migrations: `migrate_legacy_store` copies `outbox.step_id`, `parent_step_id` and
  `supersedes_receipt_id` as they are (`continuation_store.py:1195,1262`), so that
  `reconcile_outbox` may mark a step of another continuation
  (`continuation_engine.py:411-414`); the verification looks at instances only.  The
  copied cursor can pass events behind which the legacy daemon was seeded;
  `SuccessCoversCursor` therefore speaks of those after the seed.
  `_select_deadletters` takes a `schedule_origin_wake` letter too and repairs it by
  an ack with an empty status.  Alias subscriptions are deleted without a
  numeric replacement, and a plan may succeed where the transaction refuses.

## 5. What is proved

Eight modules of theorems, each for every value of its module's constants.  None
assumes more than the named assumptions of the modules it extends.

`ContinuationEngineProofs` is about every set of workers and operators, every
number and kind of events, every retry cap and every bound on deaths, under
`EngineAssumption` and `CapAssumption` (in `Outbox`).

* `TypeCorrect`: Spec => []TypeOK.
* `CursorIsFailClosed`: Spec => []CursorNeverPassesUnprotected.
* `StoreNeverLies`: Spec => []AppliedIsOnTheBoard.
* `GraphStaysRooted`: Spec => []GraphIsRooted.
* `CursorNeverGoesBack`: Spec => CursorIsMonotone, from TypeInv and the fact that
  only the end of a tick writes the cursor.

TypeOK is not inductive, because a board call adds `<<ev, op>>` from memory:
`Shape` says which of a process's values are meaningful at which label, and
`TypeInv` is TypeOK with Shape.  The three safety properties need one strengthening,
`IInv`, for the same reason: the danger is never in the store but in what a
process believes about it.  IInv says of each process that what it has in hand
is true of the board: a result `ok` is an effect that exists; an operation is
only reached after the operations before it succeeded; the events between
the cursor and `done` are protected; a selected row that names a task names one
that exists.  Each clause only grows true, because nothing is ever
taken from the board; that is `SoundGrows`.  A step of one process therefore
keeps the clauses of all others, and the proof has one lemma per group of
actions (ingest, one operation, the call, replay, retry, the environment), each
split into the conjuncts the action can disturb.

The properties of ticks that do not overlap have a hypothesis of their own, and the
run `engine_pair_stuck` shows that the first one needs it.

* `HandledEventsAreSettled`: with one worker, Spec => []HandledIsSettled.  Operators and
  deaths are as many as one likes, because neither moves an instance.  `SettledInv`
  says that the events up to `done` are settled, that an instance is in a state
  of its kind (`Restful`), and that the one in hand is where its handler left it:
  every transition starts from a state that allows it (`Sources`), so the refused
  transition that every handler ignores never happens, and `seen` is still the state.
* `BackoffIsRespected` and `AckDeadlettersStayDead`: with one process, Spec =>
  BackoffFreezesInstance and Spec => AckDeadletterIsFinal.  `AloneInv` adds that an
  instance which leaves failed_retryable is not in backoff at the write either
  (`InTime`, since the clock only ends a wait), and that the row of an ACK that is
  about to be written back is not dead (`Alive`, which also keeps the rows of a
  batch apart).  An operator beside the worker can break both: it postpones
  or kills a row between the worker's read and its write (TLC finds both with one worker
  and one operator).

`CursorDeliveryProofs`, under the same assumptions, proves the refinement
`Spec => DeliversInOrder` under the mapping of `Delivery`.  IInv gives the order of
protection and cursor; what it does not say is that the engine stays within the log.
`LogInv` adds it: no process, row, refusal or graph effect is about an event beyond
`posted`, otherwise a post could add an event that is already protected and would
not be a step of the abstract log.  `PostRefines`, `AdvanceRefines` and `CallRefines`
are the steps that map to a post, an advance and a protection of one event; every
other step leaves the mapped state alone.

`JobLedgerProofs` (`BoundsAssumption`, `ProcessesAssumption`, `AckStatusesAssumption`)
proves TypeOK and every property of the run `job_ledger`, for every set of jobs and
processes, every policy and any number of calls.  `IInv`
is TypeOK with `Sound`, what the label of a call says of its earlier reads (past
the switch it had read no kill; before a write it had read a status that was not
final), and `Marked`: key, delivered mark and last event of a job agree.
A count of late calls alone is not
inductive; `Bounds` adds the calls that have passed the read and not reached the
gateway (`Launched`, `Admitted`, `Cleared`).  They are at most all processes when the
switch is set, and one fewer when the breaker trips or a key is claimed, since the
process that does so has made its own call.  After that nobody joins, and
each late call leaves its set.

The other three properties count receipts.  `receipts` is a set of numbered rows,
as in the table, and `Filed` is the number of rows a gate's SELECT
COUNT(*) selects.  `Numbered` keeps a new row apart from the equal ones before
it, so that filing adds one to every count that covers it (`FilingCounts`) and
resolving an attempt moves one from a count to another (`ResolvingCounts`).
`LedgerAgrees` adds to `Marked` the counts of each job (`Tally`).
`ThrottleOvershoot` needs the calls that have passed the throttle and will file in
the minute in question (`Due`), and that everyone else begins in a later one
(`MinuteBound`, `Stamped`).  `BreakerTrips` rests on `Armed`, which holds of every window while nothing is
delivered and the breaker is closed: a call that does not open it has counted
too few failures, and its look-back covers every window its attempt falls in,
whatever instant it looks back from (`LookBackCovers`).

`MaintenanceCycleProofs` (`CycleAssumption`) proves every property of the run
`maintenance` and TypeOK, for every number of invocations and cycles, every cap,
interval and budget, and any number of deaths.  `IInv` says that at most one
invocation is past the claim of a cycle (`Exclusive`), that the row it holds is an
`attempt` whose restarts are the tries it remembers (`Sound`), and what each
status tells (`Told`).  `Exclusive` is where the unique index of `claim_cycle`
enters; without it a settled row could be written twice.  The overshoots of
`GateOvershoot` count, as above, what has been done together with the invocations
that have passed the gate.

`LoopSupervisorProofs` (`SupervisorAssumption`, `InputsAssumption`) proves all properties of the run
`supervisor` and TypeOK, for every number of events, every allowlist and every
limit of the policy.  None of the properties is inductive: a later receipt is
judged by readers that each look at other receipts.  `IInv` adds to each remediation
what its decision had checked against the receipts before it, `Fits(n)`
for a receipt judged n-th, so that any two can be compared by their order
of judgement, while the cooldown is about the order of `occurred_at`; and to each card
the receipt that explains it (`Explains`).  The maxima
(`MaxRound`, `CurrentVn`) exist because the ledger is finite.

`RoadmapPromotionProofs` (`PromotionAssumption`) proves all properties of the run
`roadmap` and TypeOK, for every number of tasks, calls and ticks, plans of any size
beside any `max_apply_tasks_per_graph`, starts
and faults.  The properties are about files that are torn and overwritten;
what makes them inductive is what each process knows: `Good` says that every key of
its ledger is whole, that it creates cards in order and at which card it stands,
and `Waits` says of each armed tick that its place in the batch stays behind the
first event it has failed to promote, so that whatever it writes to the shared cursor
is covered.  Since cards are only added, no step of another
process disturbs it, and the file can only hold keys that some process had.
An event whose plan is too large is passed by all ticks alike and gets no card
from any (`Fits`).

`OriginMigrationProofs` (`OriginAssumption`, `CopyAssumption`) proves all properties of the run
`migration` and TypeOK, for any number of events, copies, runs and outside writes and
any initial board.  `StoreInv` keeps the arithmetic of the ids (the instances of
a store are numbered 1 to their count, so that a new one never meets an old one),
the ownership of rows, and what a copy in progress has promised: its map, its
fresh instances and its cursor.  `Working` and `Checked` carry an ack from the
moment the origin has shown it to the mark of the letter.
`MoveForgetsNothing` rests on a lemma about the merge: the strongest of two
facts is at least k exactly when one of the two is.

`OwnerInputProofs` (`OwnerAssumption`, `CapAssumption`) proves TypeOK and all
properties of the run `owner_input`, for every set of continuations and processes
and any number of failed calls and deaths.  An agenda is a
sequence, and the proofs never look further than its head: `Asking`, `Receipting`,
`Materializing` and the other *places* say what the head does and at which place the
tail is, so that executing the head leads from one place to the next (`ExecuteTurns`).
`IInv` says that every process is at a place of one handler (`Doing`), that a step is
added before its row and its task (`StepsFirst`), that an owner has no condition
and a condition no owner (`Separate`), and who may be where before the answer
(`Order`): only one process, the one that created the instance, may ever write
`waiting_owner`, which is why an answered continuation is not reopened.
`FewReceipts` counts the receipts together with the processes that may
still record one; their sum is at most the number of processes and deaths, so that the
module's bound on receipts excludes nothing.

* `WorkAfterReceipt` adds `Backed`: what a process is about to put on the board, what
  lies in the outbox and what is on the board all have the receipt, or the earlier
  task, that authorises them (`Warranted`).  Receipts and effects only become more.
* `AskedOnce` adds `InHand`: what is not asked yet is in the hands of a process that
  will ask.  Here a death matters, and the property excludes it.
* `WaitsAreCarriedOut` is for every number of pollers, because nothing keeps them apart:
  `agentflowd run` and the reconcile timer both poll (`daemon.py:525,541`), the units are
  installed together (`service_install.py:239`), and only the first takes the lock
  (`scripts/agentflowd.py:136-161`).  `Said` is the half that survives a death: whoever
  has moved or is about to move an instance has heard the answer.  `Told` is the other
  half: a settled condition whose instance is not moved yet is in the hands of
  a poller that moves it, and only the process that registers a condition is ever
  alone with it.
* `AnswersAreCarriedOut` adds `Answer`, the process that recorded the one receipt and is
  alone at it until the instance is in `materializing`, and `Judged`, where
  each verdict is taken up and carried out.  Two processes that report contrary verdicts
  break it (TLC shows that too); the hypothesis is that one process reports.

Every invariant and every action property that a passing run checks is the property
of a theorem.  Only model-checked is liveness (`EveryEventIsDelivered`,
`CallbackConverges`), and it stays with TLC for good: fairness and ENABLED are out
of the prover's reach.  The properties of the runs that expect a violation are refuted.

## 6. Not modelled

Text: parsing of contracts, redaction, templates, unit files,
argument lists and printing.  Where a module depends on such a result, it is a
choice.  Single-process reads (`list`, `show`, `status`) have no effect.

* Engine: seeding as a step, backfill, operator resolution, re-interpretation of rows
  older than the outbox columns.
* Interaction inbox: a batch of several continuations, the batching window and
  the clarification states.
* Roadmap: several roadmaps or transitions at once, `register`, `unregister` and
  `init-config`, and a promotion without a receipts file, which has no duplicate
  check beyond the board's idempotency keys.
* Migrations: rows other than instances, cursor and callback rows; thread ids,
  timestamps and backups; several boards.
* Release action, trust grants, bridges, command line: see the notes of
  PROJECT.json.  They are single commands whose steps have no partner in this
  repository, or text.

## 7. Order of the work, and what could follow

The order put the engine first, since it is what every board depends on:
ContinuationStates, Outbox, ContinuationEngine, CursorDelivery and their proofs;
JobLedger; MaintenanceCycle; OwnerInput; then LoopSupervisor, OutcomeCompiler with
RoadmapPromotion, StoreMigration with OriginMigration, each with its proofs.

What could follow, most useful first: an interaction inbox with several
continuations, composed with OwnerInput; the steps and receipts of the legacy copy, whose raw ids section 4
describes.
