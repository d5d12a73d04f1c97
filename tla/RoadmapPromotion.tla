-------------------------- MODULE RoadmapPromotion --------------------------
(***************************************************************************)
(* Roadmap promotion (roadmap.py): a final GO that names the next slice gets  *)
(* the graph of that slice, one card after the other, each the parent of the  *)
(* next.  Three callers share the board and one file of applied keys:         *)
(*  - roadmap promote (roadmap_cli.py) judges one task,                     *)
(*  - roadmap watch --once judges all done tasks with one promotion ledger,   *)
(*  - the daemon's tick (continuation_engine.py) routes the events above its  *)
(*    cursor, those only that compile_outcome calls complete or roadmap_next. *)
(* The tick is run by agentflowd run, by the reconcile timer and by hand      *)
(* (agentflowd tick), and only the first takes the lock, so ticks overlap too. *)
(* Each reads the file into memory when it starts and rewrites it whole, with *)
(* no lock; a reader of a half-written file takes it for empty.               *)
(*                                                                         *)
(* There is one board and one roadmap, with a receipts file configured.  A task *)
(* is the number of its done event, and its report tells how many cards the   *)
(* transition it names has.                                                  *)
(***************************************************************************)
EXTENDS OutcomeCompiler, Naturals

CONSTANTS
  N,                 \* bound: final tasks
  Calls,             \* processes that run roadmap promote and roadmap watch
  Daemons,           \* processes that tick, with one configuration
  Reports,           \* bound: what the tasks may have reported
  max_chain_depth, max_promotions_per_roadmap, max_apply_tasks_per_graph,
  MaxStarts,         \* bound: calls and ticks
  MaxFaults          \* bound: failed creations and crashes

Tasks == 1 .. N
Procs == Calls \union Daemons

\* The gates of a promotion, beside the verdict, in no order: the first one
\* that the report fails, "ok" if none.
Gates == { "ok", "malformed_policy", "missing_next_slice", "autopromote_disabled", "unknown_transition",
           "foreign_origin", "missing_review_edge", "missing_ack_edge",
           "subscription_unverified", "untrusted_assignee", "policy_unresolved",
           "stale_inline_route" }

ASSUME PromotionAssumption ==
  /\ N \in Nat \ {0}
  /\ { max_chain_depth, max_promotions_per_roadmap, max_apply_tasks_per_graph,
       MaxStarts, MaxFaults } \subseteq Nat
  /\ Daemons \intersect Calls = {}
  /\ Reports \subseteq [Tasks -> [outcome : Outcome, gate : Gates, size : Nat \ {0}]]

VARIABLES
  report,    \* what each final task reported: its outcome, its gate, its cards
  posted,    \* tasks 1 .. posted are done
  file,      \* keys in the receipts file
  cards,     \* cards on the board
  cursor,    \* the cursor of the ticks in the store
  run,       \* what each process is doing
  starts, faults

vars == << report, posted, file, cards, cursor, run, starts, faults >>

-----------------------------------------------------------------------------
(* Keys, cards, processes.                                                 *)

\* _promotion_key: the source, the transition it names and the depth.
Key  == [ task : Tasks, depth : Nat ]

\* A candidate's key is its promotion's key and its step.
Card == [ key : Key, step : Nat \ {0}, by : Procs ]

OnBoard(k, s) == \E c \in cards : c.key = k /\ c.step = s
Complete(k)   == \A s \in 1 .. report[k.task].size : OnBoard(k, s)

\* at .. last: the tasks still to judge.  applied: the apply ledger.  depth:
\* proposals in the promotion ledger, which is also the chain's depth.  made:
\* cards of the graph being created.  armed: apply mode with an adapter.
Run == [ mode : { "promote", "watch", "tick" },
         pc : { "idle", "judge", "create", "truncate", "write", "close" },
         at : Nat, last : Nat, applied : SUBSET Key, depth : Nat, made : Nat,
         failed : BOOLEAN, armed : BOOLEAN ]

Idle(mode, armed) ==
  [ mode |-> mode, pc |-> "idle", at |-> 1, last |-> 0, applied |-> {}, depth |-> 0,
    made |-> 0, failed |-> FALSE, armed |-> armed ]

\* Ticks on this store are armed by its configuration (one without --apply works
\* on a copy), a call by its --apply flag.
Init ==
  /\ report \in Reports
  /\ posted = 0
  /\ file = {}
  /\ cards = {}
  /\ cursor = 0
  /\ \E armed \in BOOLEAN :
       run = [p \in Procs |-> IF p \in Daemons THEN Idle("tick", armed) ELSE Idle("watch", FALSE)]
  /\ starts = 0
  /\ faults = 0

\* A task gets done and its event posted.
Finish ==
  /\ posted < N
  /\ posted' = posted + 1
  /\ UNCHANGED << report, file, cards, cursor, run, starts, faults >>

-----------------------------------------------------------------------------
(* Starting.                                                               *)

Start(p, r) ==
  /\ run[p].pc = "idle"
  /\ starts < MaxStarts
  /\ starts' = starts + 1
  /\ run' = [run EXCEPT ![p] = r]
  /\ UNCHANGED << report, posted, file, cards, cursor, faults >>

Begin(mode, first, end, armed) ==
  [ Idle(mode, armed) EXCEPT !.pc = "judge", !.at = first, !.last = end, !.applied = file ]

\* kanban list --status done.
Done == 1 .. posted

Promote(p) == \E t \in Done, armed \in BOOLEAN : Start(p, Begin("promote", t, t, armed))

Watch(p) == \E armed \in BOOLEAN : Start(p, Begin("watch", 1, posted, armed))

\* fetch_events_since(last_seq).  The file is read just before the cursor, here
\* together with it: an older file may only lack keys, as a torn one does.
Tick(p) == Start(p, Begin("tick", cursor + 1, posted, run[p].armed))

-----------------------------------------------------------------------------
(* Judging one task (propose_roadmap_promotion, apply_roadmap_promotion).    *)

Judging(p) == run[p].pc = "judge" /\ run[p].at <= run[p].last

Reported(p) == report[run[p].at]
KeyOf(p)    == [ task |-> run[p].at, depth |-> run[p].depth + 1 ]

\* A tick persists after each routed event and makes a new promotion ledger for
\* the next, and it stops at a failed one; a call goes on to the next task.
After(p, r, failed) ==
  run' = [run EXCEPT ![p] =
            IF r.mode = "tick" THEN [r EXCEPT !.pc = "truncate", !.depth = 0, !.failed = failed]
            ELSE [r EXCEPT !.pc = "judge", !.at = @ + 1]]

\* A tick leaves the other kinds to the other handlers, and unknown ones.
Routed(p) ==
  run[p].mode = "tick" => Compile(Reported(p).outcome) \in { "complete", "roadmap_next" }

Bypass(p) ==
  /\ Judging(p)
  /\ ~ Routed(p)
  /\ run' = [run EXCEPT ![p].at = @ + 1]
  /\ UNCHANGED << report, posted, file, cards, cursor, starts, faults >>

\* kanban show fails: promote returns at once, watch goes on.
Unfetched(p) ==
  /\ Judging(p)
  /\ run[p].mode # "tick"
  /\ faults < MaxFaults
  /\ faults' = faults + 1
  /\ run' = IF run[p].mode = "promote" THEN [run EXCEPT ![p].pc = "idle"]
            ELSE [run EXCEPT ![p].at = @ + 1]
  /\ UNCHANGED << report, posted, file, cards, cursor, starts >>

\* The summary says GO and no gate refuses.
Go(r) == r.outcome.verdict = "GO" /\ r.gate = "ok"

\* Apply mode with an adapter; without, only a proposal is made.
Armed(p) == run[p].armed

Deep(p) == run[p].depth >= max_chain_depth \/ run[p].depth >= max_promotions_per_roadmap

Passes(p) == Routed(p) /\ Go(Reported(p)) /\ ~ Deep(p)

\* Refused, or within the cooldown of an earlier promotion of this ledger.
Refuse(p) ==
  /\ Judging(p)
  /\ Routed(p)
  /\ ~ Passes(p) \/ run[p].depth > 0
  /\ After(p, run[p], FALSE)
  /\ UNCHANGED << report, posted, file, cards, cursor, starts, faults >>

\* _duplicate_apply_result: the key was applied, its receipt is not committed.
\* A call that is not armed does not look for it.
Duplicate(p) ==
  /\ Judging(p)
  /\ Passes(p)
  /\ KeyOf(p) \in run[p].applied
  /\ Armed(p) \/ run[p].mode = "tick"
  /\ After(p, run[p], FALSE)
  /\ UNCHANGED << report, posted, file, cards, cursor, starts, faults >>

\* Not armed: the proposal counts in the promotion ledger.
Propose(p) ==
  /\ Judging(p)
  /\ Passes(p)
  /\ ~ Armed(p)
  /\ run[p].mode = "tick" => KeyOf(p) \notin run[p].applied
  /\ After(p, [run[p] EXCEPT !.depth = @ + 1], FALSE)
  /\ UNCHANGED << report, posted, file, cards, cursor, starts, faults >>

\* The plan has no more candidates than one apply may create.
Fits(r) == r.size <= max_apply_tasks_per_graph

\* A larger plan comes back as a successful proposal that no ledger counts.
Oversize(p) ==
  /\ Judging(p)
  /\ Passes(p)
  /\ Armed(p)
  /\ KeyOf(p) \notin run[p].applied
  /\ ~ Fits(Reported(p))
  /\ After(p, run[p], FALSE)
  /\ UNCHANGED << report, posted, file, cards, cursor, starts, faults >>

Apply(p) ==
  /\ Judging(p)
  /\ Passes(p)
  /\ Armed(p)
  /\ KeyOf(p) \notin run[p].applied
  /\ Fits(Reported(p))
  /\ run' = [run EXCEPT ![p].pc = "create", ![p].made = 0]
  /\ UNCHANGED << report, posted, file, cards, cursor, starts, faults >>

-----------------------------------------------------------------------------
(* Creating the graph (apply_roadmap_promotion, RealKanbanGraphAdapter).     *)

\* kanban create with an idempotency key: a second call finds the first card.
Made(p) ==
  IF OnBoard(KeyOf(p), run[p].made + 1) THEN cards
  ELSE cards \union { [ key |-> KeyOf(p), step |-> run[p].made + 1, by |-> p ] }

\* The ledgers after the last card, and after a failure.
Recorded(p) == [ run[p] EXCEPT !.applied = @ \union { KeyOf(p) }, !.depth = @ + 1 ]
\* Mutant of Unrecorded: the key is recorded whatever became of the cards.
RecordedAnyway(p) == [ run[p] EXCEPT !.applied = @ \union { KeyOf(p) } ]
Unrecorded(p) == run[p]

CreateCard(p) ==
  /\ run[p].pc = "create"
  /\ cards' = Made(p)
  /\ IF run[p].made + 1 = Reported(p).size THEN After(p, Recorded(p), FALSE)
     ELSE run' = [run EXCEPT ![p].made = @ + 1]
  /\ UNCHANGED << report, posted, file, cursor, starts, faults >>

\* Mutant of FailCard: the next card is tried after a failed one.
FailCardOnly(p) ==
  /\ run[p].pc = "create"
  /\ faults < MaxFaults
  /\ faults' = faults + 1
  /\ IF run[p].made + 1 = Reported(p).size THEN After(p, Unrecorded(p), TRUE)
     ELSE run' = [run EXCEPT ![p].made = @ + 1]
  /\ UNCHANGED << report, posted, file, cards, cursor, starts >>

\* The command fails, or the card is made and its answer is lost, or its
\* subscription or its wake row cannot be made.
Leftovers(p) == { cards, Made(p) }

\* Nothing is recorded, the cards stay.
FailCard(p) ==
  /\ run[p].pc = "create"
  /\ faults < MaxFaults
  /\ faults' = faults + 1
  /\ cards' \in Leftovers(p)
  /\ After(p, Unrecorded(p), TRUE)
  /\ UNCHANGED << report, posted, file, cursor, starts >>

-----------------------------------------------------------------------------
(* Persisting (_persist_apply_ledger: write_text, which truncates first).     *)

\* A call persists once, after its last task.
Truncate(p) ==
  /\ \/ run[p].pc = "truncate"
     \/ run[p].pc = "judge" /\ run[p].at > run[p].last /\ run[p].mode # "tick"
  /\ file' = {}
  /\ run' = [run EXCEPT ![p].pc = "write"]
  /\ UNCHANGED << report, posted, cards, cursor, starts, faults >>

\* Mutant of Resume: a failed event is passed.
ResumeNext(r) == [r EXCEPT !.pc = "judge", !.at = @ + 1, !.failed = FALSE]

\* Where a tick goes on: a failed event stays above the cursor.
Resume(r) ==
  IF r.failed THEN [r EXCEPT !.pc = "close"] ELSE [r EXCEPT !.pc = "judge", !.at = @ + 1]

Write(p) ==
  /\ run[p].pc = "write"
  /\ file' = run[p].applied
  /\ run' = [run EXCEPT ![p] = IF @.mode = "tick" THEN Resume(@) ELSE Idle(@.mode, @.armed)]
  /\ UNCHANGED << report, posted, cards, cursor, starts, faults >>

\* advance_cursor(max_seq) at the end of the batch, which never goes back.
Close(p) ==
  /\ LET r == run[p] IN
       /\ r.mode = "tick"
       /\ r.pc = "close" \/ (r.pc = "judge" /\ r.at > r.last)
       /\ cursor' = IF cursor < r.at - 1 THEN r.at - 1 ELSE cursor
       /\ run' = [run EXCEPT ![p] = Idle(r.mode, r.armed)]
  /\ UNCHANGED << report, posted, file, cards, starts, faults >>

\* The process is killed; the store, the file and the board keep what they have.
Crash(p) ==
  /\ run[p].pc # "idle"
  /\ faults < MaxFaults
  /\ faults' = faults + 1
  /\ run' = [run EXCEPT ![p] = Idle(@.mode, @.armed)]
  /\ UNCHANGED << report, posted, file, cards, cursor, starts >>

-----------------------------------------------------------------------------
Step(p) ==
  \/ Bypass(p) \/ Refuse(p) \/ Duplicate(p) \/ Propose(p) \/ Oversize(p) \/ Apply(p)
  \/ Unfetched(p) \/ CreateCard(p) \/ FailCard(p) \/ Truncate(p) \/ Write(p) \/ Crash(p)

Next ==
  \/ Finish
  \/ \E p \in Daemons : Tick(p) \/ Close(p)
  \/ \E p \in Calls : Promote(p) \/ Watch(p)
  \/ \E p \in Procs : Step(p)

Spec == Init /\ [][Next]_vars

-----------------------------------------------------------------------------
(* Properties.                                                             *)

TypeOK ==
  /\ report \in Reports
  /\ posted \in 0 .. N
  /\ file \subseteq Key
  /\ cards \subseteq Card
  /\ cursor \in 0 .. N
  /\ run \in [Procs -> Run]
  /\ starts \in Nat
  /\ faults \in Nat

\* A key that the file or an apply ledger holds has its whole graph on the
\* board (roadmap.py: only the last card records it), however often the file was
\* torn or overwritten: the next caller then takes it for a duplicate, and never
\* completes it.
LedgerTellsTheBoard ==
  \A k \in file \union UNION { run[p].applied : p \in Procs } : Complete(k)

\* No card waits for a parent that is not there: a creation that fails ends the
\* graph (apply_roadmap_promotion), and a retry starts from the first card.
GraphsAreChained ==
  \A c \in cards : c.step > 1 => OnBoard(c.key, c.step - 1)

\* A tick promotes on the word of two readers, compile_outcome and the GO of the
\* summary.  No graph of its own follows a report that is not a GO in its text;
\* whose structured metadata names another kind; whose flat BLOCK or NEED_MORE
\* names a blocker; or whose text, undecided by metadata, marks another kind.
\* That is all the metadata can hold back: the verdict of a structured report,
\* and a flat one that names no blocker, are not asked (outcome_compiler.py,
\* _compile_flat_reviewer falls through to the text).
OnlyCleanReportsArePromoted ==
  \A c \in cards : c.by \in Daemons =>
    LET o == report[c.key.task].outcome IN
      /\ o.verdict = "GO"
      /\ o.meta = "structured" => o.mkind \in { "complete", "roadmap_next" }
      /\ o.meta = "flat" => ~ (o.mverdict \in Blocking /\ o.mblockers # {})
      /\ Flat(o) = None /\ o.meta # "structured" /\ Marked(o) => o.marker = "complete"

\* The shared cursor of armed ticks passes no promotable event without its graph
\* (ingest_board_once breaks at a failed promotion), though ticks overlap and may
\* be killed between the board, the file and the cursor.  An event whose plan is
\* larger than max_apply_tasks_per_graph is passed with no card at all: the
\* refusal is a success, and nothing retries it.
CursorWaits ==
  \A t \in Tasks, p \in Daemons :
    /\ run[p].armed
    /\ t <= cursor
    /\ Compile(report[t].outcome) \in { "complete", "roadmap_next" }
    /\ Go(report[t])
    /\ max_chain_depth > 0 /\ max_promotions_per_roadmap > 0
    => IF Fits(report[t]) THEN Complete([ task |-> t, depth |-> 1 ])
       ELSE \A c \in cards : c.key.task # t

=============================================================================
