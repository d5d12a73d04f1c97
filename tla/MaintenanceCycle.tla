---------------------------- MODULE MaintenanceCycle ----------------------------
(***************************************************************************)
(* The external maintenance runner (maintenance/runner.py, durable.py,     *)
(* adapter.py) on one repository and one service unit.                     *)
(*                                                                         *)
(* Every invocation evaluates one cycle_ref, through a list of gates, to   *)
(* at most one service restart.  The durable helpers each open a           *)
(* connection and commit on their own, so an invocation is a sequence of   *)
(* separate transactions: another oneshot invocation runs between any two  *)
(* of them, and the process may die there.                                 *)
(***************************************************************************)
EXTENDS Naturals, FiniteSets

CONSTANTS
    Runners,    \* concurrent invocations
    Cycles,     \* cycle_refs; with repo and unit they are the idempotency key
    NoCycle,
    MaxClock,   \* bound: instants
    MaxCrashes, \* bound: processes that die
    MaxPerDay,  \* max_cycles_per_day
    MinInterval,\* min_seconds_between_cycles, in instants
    DAY,        \* instants in a day bucket
    Budget      \* min(attempt_budget, HARD_ATTEMPT_CAP)

ASSUME CycleAssumption ==
    /\ {MaxClock, MaxCrashes, MaxPerDay, MinInterval, Budget} \subseteq Nat
    /\ DAY \in Nat \ {0} /\ NoCycle \notin Cycles
    /\ IsFiniteSet(Runners) /\ Runners # {} /\ IsFiniteSet(Cycles)

VARIABLES
    rows,       \* maintenance_cycles: status and created_at by cycle
    degraded,   \* maintenance_state: the scoped degraded flag
    deadletter, \* maintenance_deadletter: cycles with a row
    halted,     \* the kill switch is set or a worker of the host is active
    pc, ctx,    \* per runner: where its invocation stands and what it carries
    clock, crashes,
    restarts,   \* history: restart_unit calls by cycle
    late        \* history: invocations that restart after degraded was set

durable == <<rows, degraded, deadletter>>
outside == <<halted, clock>>
history == <<restarts, late>>
vars == <<durable, outside, pc, ctx, crashes, history>>

Settled == {"refused", "applied", "failed", "degraded"}
Instants == 0..MaxClock
NoRow == [status |-> "none", at |-> 0]
NoCtx == [cycle |-> NoCycle, now |-> 0, tries |-> 0]
Labels == {"idle", "count", "interval", "block", "claim", "recheck", "gate", "refuse",
           "restart", "spent", "smoke", "degrade", "deadletter"}

AppliedAt(T) == {c \in Cycles : rows[c].status = "applied" /\ rows[c].at \in T}
SameDay(now) == {t \in Instants : t \div DAY = now \div DAY}

\* Mutant: the count forgets the cycles created before this instant.
CyclesTodayThisInstant(now) == Cardinality(AppliedAt({now}))

\* count_cycles_today
CyclesToday(now) == Cardinality(AppliedAt(SameDay(now)))

\* last_applied_at: no applied cycle, or the latest is old enough.
IntervalElapsed(now) == \A c \in AppliedAt(Instants) : now >= rows[c].at + MinInterval

-----------------------------------------------------------------------------
Init ==
    /\ rows = [c \in Cycles |-> NoRow]
    /\ degraded = FALSE /\ deadletter = {}
    /\ halted = FALSE
    /\ pc = [r \in Runners |-> "idle"]
    /\ ctx = [r \in Runners |-> NoCtx]
    /\ clock = 0 /\ crashes = 0
    /\ restarts = [c \in Cycles |-> 0] /\ late = 0

Goto(r, l) == pc' = [pc EXCEPT ![r] = l] /\ ctx' = ctx
Return(r) == pc' = [pc EXCEPT ![r] = "idle"] /\ ctx' = [ctx EXCEPT ![r] = NoCtx]
Mark(c, status) == rows' = [rows EXCEPT ![c].status = status]
\* The claim's INSERT; `now` is not needed after it.
Insert(r, l) ==
    /\ rows' = [rows EXCEPT ![ctx[r].cycle] = [status |-> "attempt", at |-> ctx[r].now]]
    /\ pc' = [pc EXCEPT ![r] = l]
    /\ ctx' = [ctx EXCEPT ![r].now = 0]

(***************************************************************************)
(* The gates.  The ones that only read the configuration (malformed file   *)
(* or grants, mode, allowlist, trust grant, quiet hours, reviewed GO) are  *)
(* `eligible`; an ineligible invocation is blocked like the others.        *)
(***************************************************************************)
Invoke(r, c, eligible) ==
    /\ pc[r] = "idle"
    /\ pc' = [pc EXCEPT ![r] = IF halted \/ ~eligible THEN "block" ELSE "count"]
    /\ ctx' = [ctx EXCEPT ![r] = [NoCtx EXCEPT !.cycle = c, !.now = clock]]
    /\ UNCHANGED <<durable, outside, crashes, history>>

CountGate(r) ==
    /\ pc[r] = "count"
    /\ Goto(r, IF CyclesToday(ctx[r].now) < MaxPerDay THEN "interval" ELSE "block")
    /\ UNCHANGED <<durable, outside, crashes, history>>

IntervalGate(r) ==
    /\ pc[r] = "interval"
    /\ Goto(r, IF IntervalElapsed(ctx[r].now) THEN "claim" ELSE "block")
    /\ UNCHANGED <<durable, outside, crashes, history>>

\* Mutant: block() marks the row refused whether or not it has claimed it.
BlockAnyway(r) ==
    /\ pc[r] = "block"
    /\ IF rows[ctx[r].cycle] = NoRow THEN Insert(r, "refuse") ELSE rows' = rows /\ Goto(r, "refuse")
    /\ UNCHANGED <<degraded, deadletter, outside, crashes, history>>

\* block(): the refusal claims the cycle too; a cycle already claimed is
\* reported as it stands.
Block(r) ==
    /\ pc[r] = "block"
    /\ IF rows[ctx[r].cycle] = NoRow
       THEN Insert(r, "refuse")
       ELSE Return(r) /\ rows' = rows
    /\ UNCHANGED <<degraded, deadletter, outside, crashes, history>>

\* Mutant: an unfinished attempt is taken over, as a recovery would.
ClaimRecovering(r) ==
    /\ pc[r] = "claim"
    /\ IF rows[ctx[r].cycle].status \in {"none", "attempt"}
       THEN Insert(r, "recheck")
       ELSE Return(r) /\ rows' = rows
    /\ UNCHANGED <<degraded, deadletter, outside, crashes, history>>

\* claim_cycle: the unique key lets one invocation through.
Claim(r) ==
    /\ pc[r] = "claim"
    /\ IF rows[ctx[r].cycle] = NoRow
       THEN Insert(r, "recheck")
       ELSE Return(r) /\ rows' = rows
    /\ UNCHANGED <<degraded, deadletter, outside, crashes, history>>

\* The kill switch and the activity snapshot again, after the claim.
Recheck(r) ==
    /\ pc[r] = "recheck"
    /\ Goto(r, IF halted THEN "refuse" ELSE "gate")
    /\ UNCHANGED <<durable, outside, crashes, history>>

\* The degraded flag; without a wired executor the cycle is only proposed.
DegradedGate(r, wired) ==
    /\ pc[r] = "gate"
    /\ Goto(r, IF degraded \/ ~wired \/ Budget = 0 THEN "refuse" ELSE "restart")
    /\ UNCHANGED <<durable, outside, crashes, history>>

\* update_cycle_status refused.  After a recheck or the degraded gate block()
\* is still called: it finds the row and changes nothing.
Refuse(r) ==
    /\ pc[r] = "refuse"
    /\ Mark(ctx[r].cycle, "refused")
    /\ Return(r)
    /\ UNCHANGED <<degraded, deadletter, outside, crashes, history>>

(***************************************************************************)
(* The adapter and what follows it.                                        *)
(***************************************************************************)
\* FakeActionAdapter.consider: restart until one succeeds or the budget is spent.
Restart(r, ok) ==
    LET c == ctx[r].cycle
        tries == ctx[r].tries + 1
    IN
    /\ pc[r] = "restart"
    /\ restarts' = [restarts EXCEPT ![c] = @ + 1]
    /\ late' = late + (IF degraded /\ tries = 1 THEN 1 ELSE 0)
    /\ ctx' = [ctx EXCEPT ![r].tries = tries]
    /\ pc' = [pc EXCEPT ![r] = IF ok THEN "smoke" ELSE IF tries < Budget THEN @ ELSE "spent"]
    /\ UNCHANGED <<durable, outside, crashes>>

\* Mutant: a spent budget is taken for a noop.
SpentMarkedNoop(r) ==
    /\ pc[r] = "spent"
    /\ Mark(ctx[r].cycle, "refused") /\ Return(r)
    /\ UNCHANGED <<degraded, deadletter, outside, crashes, history>>

Spent(r) ==
    /\ pc[r] = "spent"
    /\ Mark(ctx[r].cycle, "failed") /\ Return(r)
    /\ UNCHANGED <<degraded, deadletter, outside, crashes, history>>

PostSmoke(r, healthy) ==
    /\ pc[r] = "smoke"
    /\ IF healthy THEN Mark(ctx[r].cycle, "applied") /\ Return(r)
       ELSE Mark(ctx[r].cycle, "degraded") /\ Goto(r, "degrade")
    /\ UNCHANGED <<degraded, deadletter, outside, crashes, history>>

SetDegraded(r) ==
    /\ pc[r] = "degrade"
    /\ degraded' = TRUE
    /\ Goto(r, "deadletter")
    /\ UNCHANGED <<rows, deadletter, outside, crashes, history>>

WriteDeadletter(r) ==
    /\ pc[r] = "deadletter"
    /\ deadletter' = deadletter \cup {ctx[r].cycle}
    /\ Return(r)
    /\ UNCHANGED <<rows, degraded, outside, crashes, history>>

Crash(r) ==
    /\ pc[r] # "idle" /\ crashes < MaxCrashes
    /\ crashes' = crashes + 1
    /\ Return(r)
    /\ UNCHANGED <<durable, outside, history>>

(***************************************************************************)
(* The operator's kill switch and the host's workers, and the clock.       *)
(***************************************************************************)
Halt == halted' = ~halted /\ UNCHANGED <<durable, clock, pc, ctx, crashes, history>>
Tick == /\ clock < MaxClock /\ clock' = clock + 1
        /\ UNCHANGED <<durable, halted, pc, ctx, crashes, history>>

Step(r) ==
    \/ CountGate(r) \/ IntervalGate(r) \/ Block(r) \/ Claim(r) \/ Recheck(r) \/ Refuse(r)
    \/ \E wired \in BOOLEAN : DegradedGate(r, wired)
    \/ \E ok \in BOOLEAN : Restart(r, ok) \/ PostSmoke(r, ok)
    \/ Spent(r) \/ SetDegraded(r) \/ WriteDeadletter(r)

Next ==
    \/ \E r \in Runners :
        \/ \E c \in Cycles, eligible \in BOOLEAN : Invoke(r, c, eligible)
        \/ Step(r) \/ Crash(r)
    \/ Halt \/ Tick

Spec == Init /\ [][Next]_vars

\* A started invocation runs on, and the timer invokes every cycle again.
FairSpec ==
    /\ Spec
    /\ \A r \in Runners :
        /\ WF_vars(Step(r))
        /\ \A c \in Cycles : WF_vars(Invoke(r, c, TRUE))

-----------------------------------------------------------------------------
(***************************************************************************)
(* Properties.                                                             *)
(***************************************************************************)
\* Every variable stays in its type.
TypeOK ==
    /\ rows \in [Cycles -> [status : Settled \cup {"none", "attempt"}, at : Instants]]
    /\ degraded \in BOOLEAN /\ deadletter \subseteq Cycles
    /\ halted \in BOOLEAN
    /\ pc \in [Runners -> Labels]
    /\ ctx \in [Runners -> [cycle : Cycles \cup {NoCycle}, now : Instants, tries : 0..Budget]]
    /\ clock \in Instants /\ crashes \in 0..MaxCrashes
    /\ restarts \in [Cycles -> Nat] /\ late \in Nat

\* durable.py:10-13, no caller performs a second action for the same key:
\* whichever invocations race for a cycle, die in it or find it unfinished,
\* its restarts together never exceed one invocation's attempt budget.
NoDoubleFire == \A c \in Cycles : restarts[c] <= Budget

\* A cycle's row tells what was done to the service: refused means that no
\* restart was tried, failed that the whole budget was, applied or degraded
\* that at least one was.
RowTellsTheRestarts ==
    \A c \in Cycles :
        CASE rows[c].status \in {"none", "refused"} -> restarts[c] = 0
          [] rows[c].status = "failed" -> restarts[c] = Budget
          [] rows[c].status \in {"applied", "degraded"} -> restarts[c] \in 1..Budget
          [] OTHER -> TRUE

\* update_cycle_status has no condition of its own: that a settled row is
\* never rewritten rests on the claims of all invocations.
SettledRowIsFinal ==
    [][\A c \in Cycles : rows[c].status \in Settled => rows'[c] = rows[c]]_vars

\* The day's cap is read before the claim (runner.py:491) and the degraded flag
\* before the restart (runner.py:556): a day never holds more applied cycles
\* than the cap and one per rival invocation, and once the flag is set only
\* the invocations already past its gate still restart the unit.
GateOvershoot ==
    /\ \A t \in Instants :
         Cardinality(AppliedAt(SameDay(t))) <= MaxPerDay + Cardinality(Runners) - 1
    /\ late <= Cardinality(Runners) - 1

\* docs/m13-bounded-real-executor-canary.md:127-128: a crash between `attempt`
\* and the terminal receipt "reconciles to a single terminal state".
AttemptIsReconciled ==
    \A c \in Cycles : rows[c].status = "attempt" ~> rows[c].status \in Settled
=============================================================================
