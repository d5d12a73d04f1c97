------------------------------- MODULE JobLedger -------------------------------
(***************************************************************************)
(* The job ledger (store.py, states.py, live/throttle.py): jobs, the       *)
(* operator receipts of live delivery, the idempotency keys and the        *)
(* circuit breaker, in one SQLite file shared by every process.            *)
(*                                                                         *)
(* A SELECT runs in autocommit and takes no lasting lock; the first INSERT *)
(* or UPDATE of a call takes the file's write lock, kept until the call's  *)
(* `with con` block commits or rolls back.  dispatch_live therefore reads  *)
(* the job, the key and the throttle one after another, unprotected, and   *)
(* holds the write lock from its attempt receipt, ACROSS the gateway call, *)
(* to its commit.  `tx` is the holder; its attempt, stamped ctx[tx].at, is *)
(* seen by nobody else before the commit.                                  *)
(***************************************************************************)
EXTENDS Naturals, FiniteSets

CONSTANTS
    Jobs,           \* job ids
    Dispatchers,    \* processes that call dispatch_live
    Ackers,         \* processes that call ack or dispatch_dry_run
    AckStatuses,    \* the statuses the callers of ack report
    NoOne,          \* nobody holds the write lock
    MaxClock,       \* bound: instants (one instant is one minute bucket)
    MaxCalls,       \* bound: dispatch_live calls
    MaxSendsPerMin, \* policy.max_sends_per_min
    MaxSendsPerHour,\* policy.max_sends_per_target_per_hour, one target
    HOUR,           \* instants in an hour bucket
    WINDOW,         \* instants in the breaker's look-back window
    BREAKER_LIMIT   \* failures that trip the breaker (3 in the code)

ASSUME BoundsAssumption ==
    /\ {MaxClock, MaxCalls, MaxSendsPerMin, MaxSendsPerHour, WINDOW} \subseteq Nat
    /\ HOUR \in Nat \ {0}
    /\ BREAKER_LIMIT \in Nat \ {0}
ASSUME ProcessesAssumption ==
    /\ IsFiniteSet(Dispatchers) /\ Dispatchers # {} /\ IsFiniteSet(Jobs)
    /\ NoOne \notin Dispatchers

VARIABLES
    job,        \* jobs: status, final_at set, live_delivered_at set
    trail,      \* new_status of the last event that moved the job
    keys,       \* idempotency_keys: jobs whose key is claimed
    deadletter, \* refused acks: job and reason
    receipts,   \* committed operator_receipts
    degraded,   \* agentflow_meta 'degraded'
    killed,     \* policy.json kill_switch
    tx,         \* the write lock's holder, with an uncommitted attempt
    pc, ctx,    \* per process: where its call stands and what it has read
    clock, calls,
    late        \* history: gateway calls made too late, by reason

store == <<job, trail, deadletter, keys, receipts, degraded>>
vars == <<store, killed, tx, pc, ctx, clock, calls, late>>

Statuses == {"queued", "dispatched", "waiting_review", "waiting_user", "succeeded", "failed"}
FINAL_STATES == {"succeeded", "failed"}
ALLOWED_TRANSITIONS ==
    [s \in Statuses |->
        CASE s = "queued" -> {"dispatched", "succeeded", "failed"}
          [] s = "dispatched" -> {"waiting_review", "waiting_user", "succeeded", "failed"}
          [] s \in {"waiting_review", "waiting_user"} -> {"dispatched", "succeeded", "failed"}
          [] OTHER -> {}]

ASSUME AckStatusesAssumption == AckStatuses \subseteq Statuses \ {"dispatched"}

Reasons == {"unknown_job", "already_final", "illegal_transition"}
Phases == {"attempt", "failed", "applied"}
Instants == 0..MaxClock
Processes == Dispatchers \cup Ackers
Absent == [status |-> "absent", final |-> FALSE, delivered |-> FALSE]
Idle == [job |-> "none", now |-> 0, at |-> 0, row |-> Absent, killed |-> FALSE,
         status |-> "none", answer |-> "none"]

(***************************************************************************)
(* The receipts the gates count.                                           *)
(***************************************************************************)
Rows(R, phase, J, T) == {r \in R : r.phase = phase /\ r.job \in J /\ r.at \in T}
Filed(phase, J, T) == Cardinality(Rows(receipts, phase, J, T))

Recent(now) == {t \in Instants : t + WINDOW >= now}
ThisHour(now) == {t \in Instants : t \div HOUR = now \div HOUR}

\* Mutant: the caller's own attempt is not counted.
FailuresBeforeMine(now) ==
    LET attempts == Filed("attempt", Jobs, Recent(now))
        applied == Filed("applied", Jobs, Recent(now))
    IN IF applied > attempts THEN 0 ELSE attempts - applied

\* consecutive_failures, with the caller's own uncommitted attempt.
Failures(now) ==
    LET attempts == Filed("attempt", Jobs, Recent(now)) + 1
        applied == Filed("applied", Jobs, Recent(now))
    IN IF applied > attempts THEN 0 ELSE attempts - applied

\* Mutants: deliveries are counted instead of attempts; the gate only reports.
CheckThrottleCountsDeliveries(now) ==
    /\ ~degraded
    /\ Filed("applied", Jobs, {now}) < MaxSendsPerMin
    /\ Filed("applied", Jobs, ThisHour(now)) < MaxSendsPerHour
CheckThrottleReportsOnly(now) == TRUE

CheckThrottle(now) ==
    /\ ~degraded
    /\ Filed("attempt", Jobs, {now}) < MaxSendsPerMin
    /\ Filed("attempt", Jobs, ThisHour(now)) < MaxSendsPerHour

\* Mutant: a job that has left `dispatched` may be delivered again.
AlreadyDeliveredUnlessReopened(j, row) ==
    (j \in keys \/ row.delivered) /\ row.status = "dispatched"

\* The idempotency key and the job-level guard.
AlreadyDelivered(j, row) == j \in keys \/ row.delivered

\* Rows that agree in all a gate selects by are numbered.
WithReceipt(R, j, phase, t) ==
    R \cup {[job |-> j, phase |-> phase, at |-> t,
             n |-> Cardinality(Rows(R, phase, {j}, {t})) + 1]}
Resolve(p, phase) ==
    WithReceipt(WithReceipt(receipts, ctx[p].job, "attempt", ctx[p].at), ctx[p].job, phase, clock)

\* What ack does with a job it read in status cur.
Verdict(cur, new) ==
    CASE cur = "absent" -> "unknown_job"
      [] cur = new -> "duplicate"
      [] cur \in FINAL_STATES -> "already_final"
      [] new \notin ALLOWED_TRANSITIONS[cur] -> "illegal_transition"
      [] OTHER -> "applied"

-----------------------------------------------------------------------------
Init ==
    /\ job = [j \in Jobs |-> Absent]
    /\ trail = [j \in Jobs |-> "absent"]
    /\ keys = {} /\ deadletter = {}
    /\ receipts = {}
    /\ degraded = FALSE /\ killed = FALSE
    /\ tx = NoOne
    /\ pc = [p \in Processes |-> "idle"]
    /\ ctx = [p \in Processes |-> Idle]
    /\ clock = 0 /\ calls = 0
    /\ late = [degraded |-> 0, killed |-> 0, duplicate |-> [j \in Jobs |-> 0]]

Goto(p, l, c) == pc' = [pc EXCEPT ![p] = l] /\ ctx' = [ctx EXCEPT ![p] = c]
Return(p) == Goto(p, "idle", Idle)
Unlocked == tx = NoOne /\ tx' = tx

\* Mutant: a delivered job gets a status of its own.
MovedUnnormalised(j, row) ==
    /\ job' = [job EXCEPT ![j] = IF row.delivered THEN [row EXCEPT !.status = "delivered"] ELSE row]
    /\ trail' = [trail EXCEPT ![j] = row.status]

\* A status write and the event filed with it, in one transaction.
Moved(j, row) ==
    /\ job' = [job EXCEPT ![j] = row]
    /\ trail' = [trail EXCEPT ![j] = row.status]

(***************************************************************************)
(* enqueue.                                                                *)
(***************************************************************************)
Enqueue(j) ==
    /\ job[j].status = "absent"
    /\ Unlocked
    /\ Moved(j, [Absent EXCEPT !.status = "queued"])
    /\ UNCHANGED <<deadletter, keys, receipts, degraded, killed, pc, ctx, clock, calls, late>>

(***************************************************************************)
(* dispatch_live: reads.                                                   *)
(***************************************************************************)
ReadOnly == UNCHANGED <<store, killed, tx, clock, late>>

\* now and the policy are taken once, at the call's beginning.
CallBegins(p, j) ==
    /\ pc[p] = "idle" /\ calls < MaxCalls
    /\ calls' = calls + 1
    /\ Goto(p, "job", [Idle EXCEPT !.job = j, !.now = clock, !.killed = killed])
    /\ ReadOnly

\* unknown_job and the kill switch end the call.
ReadJob(p) ==
    /\ pc[p] = "job"
    /\ LET row == job[ctx[p].job] IN
        IF row.status = "absent" \/ ctx[p].killed THEN Return(p)
        ELSE Goto(p, "key", [ctx[p] EXCEPT !.row = row])
    /\ ReadOnly /\ UNCHANGED calls

ReadKey(p) ==
    /\ pc[p] = "key"
    /\ IF AlreadyDelivered(ctx[p].job, ctx[p].row) THEN Return(p)
       ELSE Goto(p, "throttle", [ctx[p] EXCEPT !.row = Absent])
    /\ ReadOnly /\ UNCHANGED calls

\* The attempt's created_at is taken before its INSERT waits for the lock.
ReadThrottle(p) ==
    /\ pc[p] = "throttle"
    /\ IF CheckThrottle(ctx[p].now) THEN Goto(p, "attempt", [ctx[p] EXCEPT !.at = clock])
       ELSE Return(p)
    /\ ReadOnly /\ UNCHANGED calls

(***************************************************************************)
(* dispatch_live: the transaction.                                         *)
(***************************************************************************)
WriteAttempt(p) ==
    /\ pc[p] = "attempt" /\ tx = NoOne
    /\ tx' = p
    /\ Goto(p, "send", ctx[p])
    /\ UNCHANGED <<store, killed, clock, calls, late>>

\* An INSERT that waits 30 s for the lock raises: nothing is written.
LockTimesOut(p) ==
    /\ pc[p] \in {"attempt", "write"} /\ tx # NoOne
    /\ Return(p)
    /\ ReadOnly /\ UNCHANGED calls

\* gateway.send_message accepts the message, or raises or answers without success.
GatewayAnswers(p, answer) ==
    /\ pc[p] = "send"
    /\ Goto(p, "settle", [ctx[p] EXCEPT !.answer = answer])
    /\ late' = [late EXCEPT
                  !.degraded = @ + (IF degraded THEN 1 ELSE 0),
                  !.killed = @ + (IF killed THEN 1 ELSE 0),
                  !.duplicate[ctx[p].job] = @ + (IF ctx[p].job \in keys THEN 1 ELSE 0)]
    /\ UNCHANGED <<store, killed, tx, clock, calls>>

Unlock == tx' = NoOne

\* record_failure, the breaker, the failed receipt; commit.
SettleFailure(p) ==
    /\ pc[p] = "settle" /\ ctx[p].answer = "failure"
    /\ receipts' = Resolve(p, "failed")
    /\ degraded' = (degraded \/ Failures(ctx[p].now) >= BREAKER_LIMIT)
    /\ Unlock /\ Return(p)
    /\ UNCHANGED <<job, trail, deadletter, keys, killed, clock, calls, late>>

\* Mutant: insert-or-ignore of the key.
SettleSuccessOrIgnore(p) ==
    /\ pc[p] = "settle" /\ ctx[p].answer = "success"
    /\ LET j == ctx[p].job IN
        /\ keys' = keys \cup {j}
        /\ Moved(j, [job[j] EXCEPT !.status = "dispatched", !.delivered = TRUE])
        /\ receipts' = Resolve(p, "applied")
    /\ Unlock /\ Return(p)
    /\ UNCHANGED <<deadletter, degraded, killed, clock, calls, late>>

\* The key is inserted first: a key already there raises, and the rollback
\* takes the attempt receipt with it.
SettleSuccess(p) ==
    /\ pc[p] = "settle" /\ ctx[p].answer = "success"
    /\ LET j == ctx[p].job IN
        IF j \in keys THEN UNCHANGED store
        ELSE /\ keys' = keys \cup {j}
             /\ Moved(j, [job[j] EXCEPT !.status = "dispatched", !.delivered = TRUE])
             /\ receipts' = Resolve(p, "applied")
             /\ UNCHANGED <<deadletter, degraded>>
    /\ Unlock /\ Return(p)
    /\ UNCHANGED <<killed, clock, calls, late>>

\* The process dies: SQLite rolls its transaction back.
Crash(p) ==
    /\ pc[p] \in {"send", "settle"}
    /\ Unlock /\ Return(p)
    /\ UNCHANGED <<store, killed, clock, calls, late>>

(***************************************************************************)
(* ack and dispatch_dry_run: the SELECT, then the writes under the lock.   *)
(***************************************************************************)
\* validate_ack never lets status dispatched through.
ReadForAck(a, j, new) ==
    /\ pc[a] = "idle"
    /\ Verdict(job[j].status, new) = "applied"
    /\ Goto(a, "write", [Idle EXCEPT !.job = j, !.row = job[j], !.status = new])
    /\ ReadOnly /\ UNCHANGED calls

\* A duplicate only files an event; the other refusals are deadlettered too.
RefuseAck(a, j, new) ==
    /\ pc[a] = "idle" /\ Unlocked
    /\ Verdict(job[j].status, new) \in Reasons
    /\ deadletter' = deadletter \cup {<<j, Verdict(job[j].status, new)>>}
    /\ UNCHANGED <<job, trail, keys, receipts, degraded, killed, pc, ctx, clock, calls, late>>

ReadForDryRun(a, j) ==
    /\ pc[a] = "idle" /\ job[j].status = "queued"
    /\ Goto(a, "write", [Idle EXCEPT !.job = j, !.row = job[j], !.status = "dispatched"])
    /\ ReadOnly /\ UNCHANGED calls

\* final_at is rewritten by ack, left alone by dispatch_dry_run.
WriteStatus(a) ==
    /\ pc[a] = "write" /\ Unlocked
    /\ LET j == ctx[a].job
           new == ctx[a].status
       IN Moved(j, [job[j] EXCEPT !.status = new,
                                  !.final = IF new = "dispatched" THEN @ ELSE new \in FINAL_STATES])
    /\ Return(a)
    /\ UNCHANGED <<deadletter, keys, receipts, degraded, killed, clock, calls, late>>

(***************************************************************************)
(* The operator and the clock.                                             *)
(***************************************************************************)
Kill ==
    /\ ~killed /\ killed' = TRUE
    /\ UNCHANGED <<store, tx, pc, ctx, clock, calls, late>>

Tick ==
    /\ clock < MaxClock /\ clock' = clock + 1
    /\ UNCHANGED <<store, killed, tx, pc, ctx, calls, late>>

DispatchStep(p) ==
    \/ \E j \in Jobs : CallBegins(p, j)
    \/ ReadJob(p) \/ ReadKey(p) \/ ReadThrottle(p)
    \/ WriteAttempt(p) \/ LockTimesOut(p)
    \/ \E answer \in {"success", "failure"} : GatewayAnswers(p, answer)
    \/ SettleFailure(p) \/ SettleSuccess(p) \/ Crash(p)

AckStep(a) ==
    \/ \E j \in Jobs, new \in AckStatuses : ReadForAck(a, j, new) \/ RefuseAck(a, j, new)
    \/ \E j \in Jobs : ReadForDryRun(a, j)
    \/ WriteStatus(a) \/ LockTimesOut(a)

Next ==
    \/ \E j \in Jobs : Enqueue(j)
    \/ \E p \in Dispatchers : DispatchStep(p)
    \/ \E a \in Ackers : AckStep(a)
    \/ Kill \/ Tick

Spec == Init /\ [][Next]_vars

-----------------------------------------------------------------------------
(***************************************************************************)
(* Properties.                                                             *)
(***************************************************************************)
Receipts == [job : Jobs, phase : Phases, at : Instants, n : Nat \ {0}]
Contexts ==
    [job : Jobs \cup {"none"}, now : Instants, at : Instants,
     row : [status : Statuses \cup {"absent"}, final : BOOLEAN, delivered : BOOLEAN],
     killed : BOOLEAN, status : Statuses \cup {"none"},
     answer : {"none", "success", "failure"}]

\* Every variable stays in its type: jobs hold a known status or are absent,
\* receipts are of a job, a phase and an instant.
TypeOK ==
    /\ job \in [Jobs -> [status : Statuses \cup {"absent"}, final : BOOLEAN, delivered : BOOLEAN]]
    /\ trail \in [Jobs -> Statuses \cup {"absent"}]
    /\ keys \subseteq Jobs /\ deadletter \subseteq Jobs \X Reasons
    /\ receipts \subseteq Receipts
    /\ degraded \in BOOLEAN /\ killed \in BOOLEAN
    /\ tx \in Dispatchers \cup {NoOne}
    /\ pc \in [Processes -> {"idle", "job", "key", "throttle", "attempt", "send", "settle", "write"}]
    /\ ctx \in [Processes -> Contexts]
    /\ clock \in Instants /\ calls \in 0..MaxCalls
    /\ late \in [degraded : Nat, killed : Nat, duplicate : [Jobs -> Nat]]

\* dispatch_live's success path writes the key, the delivered mark and the
\* applied receipt, and every committed attempt is resolved: whatever calls
\* raced, collided or died, a job has a key iff it is marked delivered iff it
\* has exactly one applied receipt, its attempts are its failures plus it, and
\* the last event that moved it names its status.
LedgerAgrees ==
    \A j \in Jobs :
        LET n(phase) == Filed(phase, {j}, Instants) IN
        /\ n("applied") = IF j \in keys THEN 1 ELSE 0
        /\ job[j].delivered <=> j \in keys
        /\ n("attempt") = n("failed") + n("applied")
        /\ trail[j] = job[j].status

\* check_throttle reads before the attempt is written (store.py:569, 601):
\* a minute never carries more attempts than the limit plus one per rival call.
ThrottleOvershoot ==
    \A t \in Instants :
        Filed("attempt", Jobs, {t}) <= MaxSendsPerMin + Cardinality(Dispatchers) - 1

\* The breaker against a gateway that delivers nothing (store.py:625-626,
\* 640-641): however the calls overlap, and however stale the `now` a call
\* looks back from, no look-back window carries BREAKER_LIMIT attempts while
\* the breaker is still closed.
BreakerTrips ==
    keys = {} /\ ~degraded =>
        \A t \in Instants :
            Filed("attempt", Jobs, {u \in Instants : t <= u /\ u <= t + WINDOW}) < BREAKER_LIMIT

\* Once degraded is committed at most the calls then in flight still reach the
\* gateway, one for each other process (live/throttle.py:45); and the kill
\* switch is read once, at the call's beginning (store.py:459, 483), so that
\* after it is set each process makes at most the one call it had begun.
StopOvershoot ==
    /\ late.degraded <= Cardinality(Dispatchers) - 1
    /\ late.killed <= Cardinality(Dispatchers)

\* After a job's key is claimed at most the racing calls that had already
\* passed the key check repeat the gateway call (store.py:528-546, 651).
DuplicatesAreBounded ==
    \A j \in Jobs : late.duplicate[j] <= Cardinality(Dispatchers) - 1

\* What docs/m1-m2-design.md:365 (the final-state guard rejects mutation after
\* succeeded or failed) and docs/ack-remediation-control-plane.md:161 (we never
\* rewrite it) promise.  Only ack asks: dispatch_live writes dispatched over
\* whatever status the job has by then (store.py:659), and ack and
\* dispatch_dry_run decide on a status they read before they had the lock.
FinalStatusIsKept ==
    [][\A j \in Jobs :
        job[j].status \in FINAL_STATES => job'[j].status = job[j].status]_vars

=============================================================================
