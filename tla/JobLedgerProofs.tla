---------------------------- MODULE JobLedgerProofs ----------------------------
(***************************************************************************)
(* Theorems about JobLedger, for every set of jobs and processes, every     *)
(* policy and any number of calls.                                         *)
(*                                                                         *)
(* Three values are read early in dispatch_live and used late: the kill      *)
(* switch, the degraded flag and the idempotency key.  Each overshoot is      *)
(* bounded by the same count: the calls made too late, and the calls that    *)
(* have passed the read and have not reached the gateway yet.                *)
(***************************************************************************)
EXTENDS JobLedger, FiniteSetTheorems, TLAPS

\* What is true of a process by the label it stands at.
Sound(p) ==
    /\ pc[p] \in {"job", "key", "throttle", "attempt", "send", "settle"} =>
         p \in Dispatchers /\ ctx[p].job \in Jobs
    /\ pc[p] \in {"key", "throttle", "attempt", "send", "settle"} => ~ctx[p].killed
    /\ pc[p] = "write" => /\ ctx[p].job \in Jobs /\ ctx[p].status \in Statuses
                          /\ ctx[p].row.status \notin FINAL_STATES

\* A key and a delivered mark are written together.
Marked(j) ==
    /\ job[j].delivered <=> j \in keys
    /\ job[j].status = "absent" => job[j] = Absent
    /\ trail[j] = job[j].status

\* Rows that agree in all a gate selects by have numbers up to their count.
Numbered(R) ==
    /\ IsFiniteSet(R)
    /\ \A r \in R : r.n <= Cardinality(Rows(R, r.phase, {r.job}, {r.at}))

IInv ==
    /\ TypeOK
    /\ Numbered(receipts)
    /\ \A p \in Processes : Sound(p)
    /\ \A j \in Jobs : Marked(j)

\* Calls past the read of the switch, of the flag, of the key of a job.
Launched == {p \in Dispatchers : /\ pc[p] \in {"job", "key", "throttle", "attempt", "send"}
                                 /\ ~ctx[p].killed}
Admitted == {p \in Dispatchers : pc[p] \in {"attempt", "send"}}
Cleared(j) == {p \in Dispatchers : pc[p] \in {"throttle", "attempt", "send"} /\ ctx[p].job = j}

KilledBound ==
    IF killed THEN late.killed + Cardinality(Launched) <= Cardinality(Dispatchers)
    ELSE late.killed = 0
DegradedBound ==
    IF degraded THEN late.degraded + Cardinality(Admitted) <= Cardinality(Dispatchers) - 1
    ELSE late.degraded = 0
KeyBound(j) ==
    IF j \in keys THEN late.duplicate[j] + Cardinality(Cleared(j)) <= Cardinality(Dispatchers) - 1
    ELSE late.duplicate[j] = 0

-----------------------------------------------------------------------------
\* The values the calls start from.
LEMMA ConstantsAreTyped ==
    /\ MaxClock \in Nat /\ MaxCalls \in Nat
    /\ 0 \in Instants /\ 0 \in 0..MaxCalls
    /\ Absent \in [status : Statuses \cup {"absent"}, final : BOOLEAN, delivered : BOOLEAN]
    /\ Idle \in Contexts
    /\ Dispatchers \subseteq Processes /\ Ackers \subseteq Processes
<1>1. MaxClock \in Nat /\ MaxCalls \in Nat
  BY BoundsAssumption
<1>2. 0 \in Instants /\ 0 \in 0..MaxCalls
  BY <1>1 DEF Instants
<1>3. Absent \in [status : Statuses \cup {"absent"}, final : BOOLEAN, delivered : BOOLEAN]
  BY DEF Absent
<1>4. Idle \in Contexts
  BY <1>2, <1>3 DEF Idle, Contexts
<1>. QED
  BY <1>1, <1>2, <1>3, <1>4 DEF Processes

\* operator_receipts: the rows a gate counts are finitely many.
LEMMA RowsAreCounted ==
    ASSUME NEW R, IsFiniteSet(R), NEW phase, NEW J, NEW T
    PROVE  /\ IsFiniteSet(Rows(R, phase, J, T))
           /\ Cardinality(Rows(R, phase, J, T)) \in Nat
<1>1. Rows(R, phase, J, T) \subseteq R
  BY DEF Rows
<1>. QED
  BY <1>1, FS_Subset, FS_CardinalityType

\* operator_receipts: filing one adds one to the counts it is selected by, and
\* to no other.
LEMMA FilingCounts ==
    ASSUME NEW R \in SUBSET Receipts, Numbered(R),
           NEW j \in Jobs, NEW phase \in Phases, NEW t \in Instants
    PROVE  /\ WithReceipt(R, j, phase, t) \subseteq Receipts
           /\ Numbered(WithReceipt(R, j, phase, t))
           /\ \A q, J, T :
                Cardinality(Rows(WithReceipt(R, j, phase, t), q, J, T)) =
                  IF q = phase /\ j \in J /\ t \in T THEN Cardinality(Rows(R, q, J, T)) + 1
                  ELSE Cardinality(Rows(R, q, J, T))
<1>. DEFINE last == Cardinality(Rows(R, phase, {j}, {t}))
            new == [job |-> j, phase |-> phase, at |-> t, n |-> last + 1]
            S == WithReceipt(R, j, phase, t)
<1>1. IsFiniteSet(R) /\ last \in Nat /\ S = R \cup {new}
  BY RowsAreCounted DEF Numbered, WithReceipt
<1>2. /\ new \in Receipts /\ new.job = j /\ new.phase = phase /\ new.at = t
      /\ new.n = Cardinality(Rows(R, phase, {j}, {t})) + 1
  BY <1>1 DEF Receipts
<1>. HIDE DEF new
<1>3. new \notin R
  <2>1. ASSUME new \in R PROVE FALSE
    <3>1. new.n <= last
      BY <1>2, <2>1 DEF Numbered
    <3>. QED
      BY <1>1, <1>2, <3>1
  <2>. QED
    BY <2>1
<1>4. IsFiniteSet(S)
  BY <1>1, FS_AddElement
<1>. HIDE DEF S
<1>5. ASSUME NEW q, NEW J, NEW T
      PROVE  Cardinality(Rows(S, q, J, T)) =
               IF q = phase /\ j \in J /\ t \in T THEN Cardinality(Rows(R, q, J, T)) + 1
               ELSE Cardinality(Rows(R, q, J, T))
  <2>1. CASE q = phase /\ j \in J /\ t \in T
    <3>1. Rows(S, q, J, T) = Rows(R, q, J, T) \cup {new} /\ new \notin Rows(R, q, J, T)
      BY <1>1, <1>2, <1>3, <2>1 DEF Rows
    <3>. QED
      BY <1>1, <2>1, <3>1, RowsAreCounted, FS_AddElement
  <2>2. CASE ~(q = phase /\ j \in J /\ t \in T)
    <3>1. Rows(S, q, J, T) = Rows(R, q, J, T)
      BY <1>1, <1>2, <2>2 DEF Rows
    <3>. QED
      BY <2>2, <3>1
  <2>. QED
    BY <2>1, <2>2
<1>6. ASSUME NEW r \in S PROVE r.n <= Cardinality(Rows(S, r.phase, {r.job}, {r.at}))
  <2>1. CASE r = new
    <3>1. Cardinality(Rows(S, phase, {j}, {t})) = Cardinality(Rows(R, phase, {j}, {t})) + 1
      BY <1>5
    <3>2. Rows(S, r.phase, {r.job}, {r.at}) = Rows(S, phase, {j}, {t})
      BY <1>2, <2>1
    <3>3. r.n = Cardinality(Rows(R, phase, {j}, {t})) + 1
      BY <1>2, <2>1
    <3>. QED
      BY <1>1, <3>1, <3>2, <3>3
  <2>2. CASE r \in R
    <3>1. r.n <= Cardinality(Rows(R, r.phase, {r.job}, {r.at})) /\ r.n \in Nat
      BY <2>2 DEF Numbered, Receipts
    <3>2. Cardinality(Rows(R, r.phase, {r.job}, {r.at})) \in Nat
      BY <1>1, RowsAreCounted
    <3>. QED
      BY <1>5, <3>1, <3>2
  <2>. QED
    BY <1>1, <2>1, <2>2
<1>. QED
  BY <1>1, <1>2, <1>4, <1>5, <1>6 DEF Numbered, S

\* A committed call files its attempt and how it ended.
LEMMA ResolvingCounts ==
    ASSUME receipts \subseteq Receipts, Numbered(receipts), NEW p \in Processes,
           ctx[p].job \in Jobs, ctx[p].at \in Instants, clock \in Instants,
           NEW phase \in {"failed", "applied"}
    PROVE  /\ Resolve(p, phase) \subseteq Receipts
           /\ Numbered(Resolve(p, phase))
           /\ \A q, J, T :
                Cardinality(Rows(Resolve(p, phase), q, J, T)) =
                  IF \/ q = "attempt" /\ ctx[p].job \in J /\ ctx[p].at \in T
                     \/ q = phase /\ ctx[p].job \in J /\ clock \in T
                  THEN Filed(q, J, T) + 1 ELSE Filed(q, J, T)
<1>. DEFINE R == WithReceipt(receipts, ctx[p].job, "attempt", ctx[p].at)
<1>1. "attempt" \in Phases /\ phase \in Phases
  BY DEF Phases
<1>2. /\ R \in SUBSET Receipts /\ Numbered(R)
      /\ \A q, J, T : Cardinality(Rows(R, q, J, T)) =
           IF q = "attempt" /\ ctx[p].job \in J /\ ctx[p].at \in T THEN Filed(q, J, T) + 1 ELSE Filed(q, J, T)
  BY <1>1, FilingCounts DEF Filed
<1>. HIDE DEF R
<1>3. /\ WithReceipt(R, ctx[p].job, phase, clock) \subseteq Receipts
      /\ Numbered(WithReceipt(R, ctx[p].job, phase, clock))
      /\ \A q, J, T : Cardinality(Rows(WithReceipt(R, ctx[p].job, phase, clock), q, J, T)) =
           IF q = phase /\ ctx[p].job \in J /\ clock \in T THEN Cardinality(Rows(R, q, J, T)) + 1
           ELSE Cardinality(Rows(R, q, J, T))
  BY <1>1, <1>2, FilingCounts
<1>4. Resolve(p, phase) = WithReceipt(R, ctx[p].job, phase, clock)
  BY DEF Resolve, R
<1>. QED
  BY <1>2, <1>3, <1>4

\* A step that moves one process and leaves jobs and keys as they are.
LEMMA MoveKeeps ==
    ASSUME IInv, NEW p \in Processes, NEW l, NEW c \in Contexts, Goto(p, l, c),
           l \in {"idle", "job", "key", "throttle", "attempt", "send", "settle", "write"},
           l \in {"job", "key", "throttle", "attempt", "send", "settle"} => p \in Dispatchers /\ c.job \in Jobs,
           l \in {"key", "throttle", "attempt", "send", "settle"} => ~c.killed,
           l = "write" => /\ c.job \in Jobs /\ c.status \in Statuses
                          /\ c.row.status \notin FINAL_STATES
    PROVE  /\ pc' \in [Processes -> {"idle", "job", "key", "throttle", "attempt", "send", "settle", "write"}]
           /\ ctx' \in [Processes -> Contexts]
           /\ \A q \in Processes : Sound(q)'
           /\ pc'[p] = l /\ ctx'[p] = c
           /\ \A q \in Processes \ {p} : pc'[q] = pc[q] /\ ctx'[q] = ctx[q]
<1>1. /\ pc' \in [Processes -> {"idle", "job", "key", "throttle", "attempt", "send", "settle", "write"}]
      /\ ctx' \in [Processes -> Contexts]
      /\ pc'[p] = l /\ ctx'[p] = c
      /\ \A q \in Processes \ {p} : pc'[q] = pc[q] /\ ctx'[q] = ctx[q]
  BY DEF Goto, IInv, TypeOK
<1>2. ASSUME NEW q \in Processes PROVE Sound(q)'
  <2>1. CASE q = p
    BY <1>1, <2>1 DEF Sound
  <2>2. CASE q # p
    BY <1>1, <2>2 DEF IInv, Sound
  <2>. QED
    BY <2>1, <2>2
<1>. QED
  BY <1>1, <1>2

\* _move: a status write with its event.
LEMMA MovedKeeps ==
    ASSUME IInv, NEW j \in Jobs,
           NEW row \in [status : Statuses \cup {"absent"}, final : BOOLEAN, delivered : BOOLEAN],
           Moved(j, row), row.status # "absent",
           row.delivered <=> j \in keys',
           \A k \in Jobs \ {j} : k \in keys' <=> k \in keys
    PROVE  /\ job' \in [Jobs -> [status : Statuses \cup {"absent"}, final : BOOLEAN, delivered : BOOLEAN]]
           /\ trail' \in [Jobs -> Statuses \cup {"absent"}]
           /\ \A k \in Jobs : Marked(k)'
<1>1. /\ job' \in [Jobs -> [status : Statuses \cup {"absent"}, final : BOOLEAN, delivered : BOOLEAN]]
      /\ trail' \in [Jobs -> Statuses \cup {"absent"}]
      /\ job'[j] = row /\ trail'[j] = row.status
      /\ \A k \in Jobs \ {j} : job'[k] = job[k] /\ trail'[k] = trail[k]
  BY DEF Moved, IInv, TypeOK
<1>2. ASSUME NEW k \in Jobs PROVE Marked(k)'
  <2>1. CASE k = j
    BY <1>1, <2>1 DEF Marked
  <2>2. CASE k # j
    BY <1>1, <2>2 DEF IInv, Marked
  <2>. QED
    BY <2>1, <2>2
<1>. QED
  BY <1>1, <1>2

\* A step that reads: it moves one process, and counts a call at most.
LEMMA ReadKeeps ==
    ASSUME IInv, NEW p \in Processes, NEW l, NEW c \in Contexts, Goto(p, l, c), ReadOnly,
           calls' \in 0..MaxCalls,
           l \in {"idle", "job", "key", "throttle", "attempt", "send", "settle", "write"},
           l \in {"job", "key", "throttle", "attempt", "send", "settle"} => p \in Dispatchers /\ c.job \in Jobs,
           l \in {"key", "throttle", "attempt", "send", "settle"} => ~c.killed,
           l = "write" => /\ c.job \in Jobs /\ c.status \in Statuses
                          /\ c.row.status \notin FINAL_STATES
    PROVE  IInv'
<1>1. /\ pc' \in [Processes -> {"idle", "job", "key", "throttle", "attempt", "send", "settle", "write"}]
      /\ ctx' \in [Processes -> Contexts]
      /\ \A q \in Processes : Sound(q)'
  BY MoveKeeps
<1>2. UNCHANGED <<job, trail, keys, deadletter, receipts, degraded, killed, tx, clock, late>>
  BY DEF ReadOnly, store
<1>3. TypeOK'
  BY <1>1, <1>2 DEF IInv, TypeOK
<1>4. \A k \in Jobs : Marked(k)'
  BY <1>2 DEF IInv, Marked
<1>. QED
  BY <1>1, <1>2, <1>3, <1>4 DEF IInv, Numbered

\* What a process reads into its context.
LEMMA ReadsAreTyped ==
    ASSUME IInv, NEW p \in Processes
    PROVE  /\ ctx[p] \in Contexts
           /\ LET c == [ctx[p] EXCEPT !.row = Absent] IN
               c \in Contexts /\ c.job = ctx[p].job /\ (~ctx[p].killed => ~c.killed)
           /\ LET c == [ctx[p] EXCEPT !.at = clock] IN
               c \in Contexts /\ c.job = ctx[p].job /\ (~ctx[p].killed => ~c.killed)
           /\ \A j \in Jobs : LET c == [ctx[p] EXCEPT !.row = job[j]] IN
               c \in Contexts /\ c.job = ctx[p].job /\ (~ctx[p].killed => ~c.killed)
           /\ \A answer \in {"success", "failure"} : LET c == [ctx[p] EXCEPT !.answer = answer] IN
               c \in Contexts /\ c.job = ctx[p].job /\ (~ctx[p].killed => ~c.killed)
<1>1. ctx[p] \in Contexts /\ clock \in Instants
  BY DEF IInv, TypeOK
<1>2. \A j \in Jobs : job[j] \in [status : Statuses \cup {"absent"}, final : BOOLEAN, delivered : BOOLEAN]
  BY DEF IInv, TypeOK
<1>. QED
  BY <1>1, <1>2, ConstantsAreTyped DEF Contexts

\* dispatch_live up to its transaction.
LEMMA ReadStepKeeps ==
    ASSUME IInv, NEW p \in Dispatchers,
           \/ \E j \in Jobs : CallBegins(p, j)
           \/ ReadJob(p) \/ ReadKey(p) \/ ReadThrottle(p)
    PROVE  IInv'
<1>1. p \in Processes /\ Sound(p) /\ calls \in 0..MaxCalls /\ Idle \in Contexts
  BY ConstantsAreTyped DEF IInv, TypeOK
<1>2. ASSUME NEW j \in Jobs, CallBegins(p, j) PROVE IInv'
  <2>1. calls' \in 0..MaxCalls
    <3>1. calls < MaxCalls /\ calls' = calls + 1
      BY <1>2 DEF CallBegins
    <3>. QED
      BY <1>1, <3>1, ConstantsAreTyped
  <2>. DEFINE c == [Idle EXCEPT !.job = j, !.now = clock, !.killed = killed]
  <2>2. clock \in Instants /\ killed \in BOOLEAN
    BY DEF IInv, TypeOK
  <2>3. c \in Contexts /\ c.job = j
    BY <2>2, ConstantsAreTyped DEF Contexts, Idle
  <2>. HIDE DEF c
  <2>. QED
    BY <1>1, <1>2, <2>1, <2>3, ReadKeeps DEF CallBegins, c
<1>3. CASE ReadJob(p)
  <2>1. ctx[p].job \in Jobs
    BY <1>1, <1>3 DEF ReadJob, Sound
  <2>2. CASE job[ctx[p].job].status = "absent" \/ ctx[p].killed
    BY <1>1, <1>3, <2>2, ReadKeeps DEF ReadJob, Return
  <2>3. CASE ~(job[ctx[p].job].status = "absent" \/ ctx[p].killed)
    <3>. DEFINE c == [ctx[p] EXCEPT !.row = job[ctx[p].job]]
    <3>1. c \in Contexts /\ c.job = ctx[p].job /\ (~ctx[p].killed => ~c.killed)
      BY <1>1, <2>1, ReadsAreTyped
    <3>2. Goto(p, "key", c) /\ ReadOnly /\ calls' = calls
      BY <1>3, <2>3 DEF ReadJob
    <3>. HIDE DEF c
    <3>. QED
      BY <1>1, <2>1, <2>3, <3>1, <3>2, ReadKeeps
  <2>. QED
    BY <2>2, <2>3
<1>4. CASE ReadKey(p)
  <2>1. CASE AlreadyDelivered(ctx[p].job, ctx[p].row)
    BY <1>1, <1>4, <2>1, ReadKeeps DEF ReadKey, Return
  <2>2. CASE ~AlreadyDelivered(ctx[p].job, ctx[p].row)
    <3>. DEFINE c == [ctx[p] EXCEPT !.row = Absent]
    <3>1. c \in Contexts /\ c.job = ctx[p].job /\ (~ctx[p].killed => ~c.killed)
      BY <1>1, ReadsAreTyped
    <3>2. Goto(p, "throttle", c) /\ ReadOnly /\ calls' = calls
      BY <1>4, <2>2 DEF ReadKey
    <3>. HIDE DEF c
    <3>. QED
      BY <1>1, <1>4, <3>1, <3>2, ReadKeeps DEF Sound, ReadKey
  <2>. QED
    BY <2>1, <2>2
<1>5. CASE ReadThrottle(p)
  <2>1. CASE CheckThrottle(ctx[p].now)
    <3>. DEFINE c == [ctx[p] EXCEPT !.at = clock]
    <3>1. c \in Contexts /\ c.job = ctx[p].job /\ (~ctx[p].killed => ~c.killed)
      BY <1>1, ReadsAreTyped
    <3>2. Goto(p, "attempt", c) /\ ReadOnly /\ calls' = calls
      BY <1>5, <2>1 DEF ReadThrottle
    <3>. HIDE DEF c
    <3>. QED
      BY <1>1, <1>5, <3>1, <3>2, ReadKeeps DEF Sound, ReadThrottle
  <2>2. CASE ~CheckThrottle(ctx[p].now)
    BY <1>1, <1>5, <2>2, ReadKeeps DEF ReadThrottle, Return
  <2>. QED
    BY <2>1, <2>2
<1>. QED
  BY <1>2, <1>3, <1>4, <1>5

\* dispatch_live: the lock, the gateway call and the end of a dead process.
LEMMA SendStepKeeps ==
    ASSUME IInv, NEW p \in Dispatchers,
           \/ WriteAttempt(p) \/ Crash(p)
           \/ \E answer \in {"success", "failure"} : GatewayAnswers(p, answer)
    PROVE  IInv'
<1>1. p \in Processes /\ Sound(p) /\ ctx[p] \in Contexts /\ Idle \in Contexts
  BY ConstantsAreTyped, ReadsAreTyped DEF IInv
<1>2. CASE WriteAttempt(p) \/ Crash(p)
  <2>1. PICK l \in {"send", "idle"}, c \in Contexts :
            /\ Goto(p, l, c)
            /\ l = "send" => pc[p] = "attempt" /\ c = ctx[p]
    BY <1>1, <1>2 DEF WriteAttempt, Crash, Return
  <2>2. /\ pc' \in [Processes -> {"idle", "job", "key", "throttle", "attempt", "send", "settle", "write"}]
        /\ ctx' \in [Processes -> Contexts]
        /\ \A q \in Processes : Sound(q)'
    BY <1>1, <2>1, MoveKeeps DEF Sound
  <2>3. /\ UNCHANGED <<job, trail, keys, deadletter, receipts, degraded, killed, clock, calls, late>>
        /\ tx' \in Dispatchers \cup {NoOne}
    BY <1>2 DEF WriteAttempt, Crash, Unlock, store
  <2>4. TypeOK'
    BY <2>2, <2>3 DEF IInv, TypeOK
  <2>. QED
    BY <2>2, <2>3, <2>4 DEF IInv, Marked
<1>3. ASSUME NEW answer \in {"success", "failure"}, GatewayAnswers(p, answer) PROVE IInv'
  <2>. DEFINE c == [ctx[p] EXCEPT !.answer = answer]
  <2>1. c \in Contexts /\ c.job = ctx[p].job /\ (~ctx[p].killed => ~c.killed)
    BY <1>1, ReadsAreTyped
  <2>2. Goto(p, "settle", c) /\ pc[p] = "send"
    BY <1>3 DEF GatewayAnswers
  <2>. HIDE DEF c
  <2>3. /\ pc' \in [Processes -> {"idle", "job", "key", "throttle", "attempt", "send", "settle", "write"}]
        /\ ctx' \in [Processes -> Contexts]
        /\ \A q \in Processes : Sound(q)'
    BY <1>1, <2>1, <2>2, MoveKeeps DEF Sound
  <2>4. UNCHANGED <<job, trail, keys, deadletter, receipts, degraded, killed, tx, clock, calls>>
    BY <1>3 DEF GatewayAnswers, store
  <2>5. late' \in [degraded : Nat, killed : Nat, duplicate : [Jobs -> Nat]]
    <3>1. PICK m \in {0, 1}, n \in {0, 1}, d \in {0, 1} :
              late' = [late EXCEPT !.degraded = @ + m, !.killed = @ + n,
                                   !.duplicate[ctx[p].job] = @ + d]
      BY <1>3 DEF GatewayAnswers
    <3>2. /\ late \in [degraded : Nat, killed : Nat, duplicate : [Jobs -> Nat]]
          /\ ctx[p].job \in Jobs
      BY <1>1, <2>2 DEF IInv, TypeOK, Sound
    <3>3. late'.degraded \in Nat /\ late'.killed \in Nat
      BY <3>1, <3>2
    <3>4. late'.duplicate = [late.duplicate EXCEPT ![ctx[p].job] = @ + d]
      BY <3>1, <3>2
    <3>5. late'.duplicate \in [Jobs -> Nat]
      BY <3>2, <3>4
    <3>6. late' = [degraded |-> late'.degraded, killed |-> late'.killed, duplicate |-> late'.duplicate]
      BY <3>1, <3>2
    <3>. QED
      BY <3>3, <3>5, <3>6
  <2>6. TypeOK'
    BY <2>3, <2>4, <2>5 DEF IInv, TypeOK
  <2>. QED
    BY <2>3, <2>4, <2>6 DEF IInv, Marked
<1>. QED
  BY <1>2, <1>3

\* dispatch_live: the two ends of the transaction.
LEMMA SettleKeeps ==
    ASSUME IInv, NEW p \in Dispatchers, SettleFailure(p) \/ SettleSuccess(p)
    PROVE  IInv'
<1>. DEFINE j == ctx[p].job
<1>1. p \in Processes /\ Sound(p) /\ ctx[p] \in Contexts /\ Idle \in Contexts
  BY ConstantsAreTyped, ReadsAreTyped DEF IInv
<1>2. /\ pc' \in [Processes -> {"idle", "job", "key", "throttle", "attempt", "send", "settle", "write"}]
      /\ ctx' \in [Processes -> Contexts]
      /\ \A q \in Processes : Sound(q)'
  BY <1>1, MoveKeeps DEF SettleFailure, SettleSuccess, Return
<1>3. j \in Jobs
  BY <1>1 DEF SettleFailure, SettleSuccess, Sound
<1>4. \A phase \in {"failed", "applied"} :
        Resolve(p, phase) \subseteq Receipts /\ Numbered(Resolve(p, phase))
  <2>1. ctx[p].at \in Instants /\ clock \in Instants
    BY <1>1 DEF Contexts, IInv, TypeOK
  <2>2. receipts \subseteq Receipts /\ Numbered(receipts)
    BY DEF IInv, TypeOK
  <2>. QED
    BY <1>1, <1>3, <2>1, <2>2, ResolvingCounts
<1>5. CASE SettleFailure(p)
  <2>1. UNCHANGED <<job, trail, keys, deadletter, killed, clock, calls, late>> /\ tx' = NoOne
    BY <1>5 DEF SettleFailure, Unlock
  <2>2. receipts' \subseteq Receipts /\ Numbered(receipts')
    BY <1>4, <1>5 DEF SettleFailure
  <2>3. degraded' \in BOOLEAN
    <3>1. degraded' = (degraded \/ Failures(ctx[p].now) >= BREAKER_LIMIT)
      BY <1>5 DEF SettleFailure
    <3>. QED
      BY <3>1, Zenon
  <2>4. TypeOK'
    BY <1>2, <2>1, <2>2, <2>3 DEF IInv, TypeOK
  <2>. QED
    BY <1>2, <2>1, <2>2, <2>4 DEF IInv, Marked, Numbered
<1>6. CASE SettleSuccess(p) /\ j \in keys
  <2>1. UNCHANGED <<job, trail, keys, deadletter, receipts, degraded, killed, clock, calls, late>> /\ tx' = NoOne
    BY <1>6 DEF SettleSuccess, Unlock, store
  <2>2. TypeOK'
    BY <1>2, <2>1 DEF IInv, TypeOK
  <2>. QED
    BY <1>2, <2>1, <2>2 DEF IInv, Marked
<1>7. CASE SettleSuccess(p) /\ j \notin keys
  <2>. DEFINE row == [job[j] EXCEPT !.status = "dispatched", !.delivered = TRUE]
  <2>1. /\ row \in [status : Statuses \cup {"absent"}, final : BOOLEAN, delivered : BOOLEAN]
        /\ row.status # "absent" /\ row.delivered
    <3>1. job[j] \in [status : Statuses \cup {"absent"}, final : BOOLEAN, delivered : BOOLEAN]
      BY <1>3 DEF IInv, TypeOK
    <3>2. "dispatched" \in Statuses
      BY DEF Statuses
    <3>. HIDE DEF j
    <3>3. row \in [status : Statuses \cup {"absent"}, final : BOOLEAN, delivered : BOOLEAN]
      BY <3>1, <3>2
    <3>4. row.status = "dispatched" /\ row.delivered
      BY <3>1
    <3>. QED
      BY <3>3, <3>4
  <2>2. /\ keys' = keys \cup {j} /\ Moved(j, row) /\ receipts' = Resolve(p, "applied")
        /\ UNCHANGED <<deadletter, degraded, killed, clock, calls, late>> /\ tx' = NoOne
    BY <1>7 DEF SettleSuccess, Unlock
  <2>. HIDE DEF row, j
  <2>3. /\ job' \in [Jobs -> [status : Statuses \cup {"absent"}, final : BOOLEAN, delivered : BOOLEAN]]
        /\ trail' \in [Jobs -> Statuses \cup {"absent"}]
        /\ \A k \in Jobs : Marked(k)'
    BY <1>3, <2>1, <2>2, MovedKeeps
  <2>4. receipts' \subseteq Receipts /\ Numbered(receipts')
    BY <1>4, <2>2
  <2>5. TypeOK'
    BY <1>2, <1>3, <2>2, <2>3, <2>4 DEF IInv, TypeOK
  <2>. QED
    BY <1>2, <2>3, <2>4, <2>5 DEF IInv, Numbered
<1>. QED
  BY <1>5, <1>6, <1>7

\* ack and dispatch_dry_run; a caller that waits too long for the lock.
LEMMA AckStepKeeps ==
    ASSUME IInv, NEW a \in Processes, AckStep(a)
    PROVE  IInv'
<1>1. Sound(a) /\ ctx[a] \in Contexts /\ Idle \in Contexts /\ calls \in 0..MaxCalls
  BY ConstantsAreTyped, ReadsAreTyped DEF IInv, TypeOK
<1>2. ASSUME NEW j \in Jobs, NEW new \in AckStatuses, ReadForAck(a, j, new) PROVE IInv'
  <2>. DEFINE c == [Idle EXCEPT !.job = j, !.row = job[j], !.status = new]
  <2>1. job[j] \in [status : Statuses \cup {"absent"}, final : BOOLEAN, delivered : BOOLEAN]
    BY DEF IInv, TypeOK
  <2>2. new \in Statuses
    BY AckStatusesAssumption
  <2>3. c \in Contexts /\ c.job = j /\ c.row = job[j] /\ c.status = new
    BY <2>1, <2>2, ConstantsAreTyped DEF Contexts, Idle
  <2>4. job[j].status \notin FINAL_STATES
    BY <1>2 DEF ReadForAck, Verdict
  <2>5. Goto(a, "write", c) /\ ReadOnly /\ calls' = calls
    BY <1>2 DEF ReadForAck
  <2>. HIDE DEF c
  <2>. QED
    BY <1>1, <2>2, <2>3, <2>4, <2>5, ReadKeeps
<1>3. ASSUME NEW j \in Jobs, NEW new \in AckStatuses, RefuseAck(a, j, new) PROVE IInv'
  <2>1. UNCHANGED <<job, trail, keys, receipts, degraded, killed, tx, pc, ctx, clock, calls, late>>
    BY <1>3 DEF RefuseAck, Unlocked
  <2>2. deadletter' \subseteq Jobs \X Reasons
    BY <1>3 DEF RefuseAck, IInv, TypeOK
  <2>3. TypeOK'
    BY <2>1, <2>2 DEF IInv, TypeOK
  <2>. QED
    BY <2>1, <2>3 DEF IInv, Marked, Sound
<1>4. ASSUME NEW j \in Jobs, ReadForDryRun(a, j) PROVE IInv'
  <2>. DEFINE c == [Idle EXCEPT !.job = j, !.row = job[j], !.status = "dispatched"]
  <2>1. job[j] \in [status : Statuses \cup {"absent"}, final : BOOLEAN, delivered : BOOLEAN]
    BY DEF IInv, TypeOK
  <2>2. c \in Contexts /\ c.job = j /\ c.row = job[j] /\ c.status = "dispatched"
    BY <2>1, ConstantsAreTyped DEF Contexts, Idle, Statuses
  <2>3. job[j].status \notin FINAL_STATES /\ "dispatched" \in Statuses
    BY <1>4 DEF ReadForDryRun, FINAL_STATES, Statuses
  <2>4. Goto(a, "write", c) /\ ReadOnly /\ calls' = calls
    BY <1>4 DEF ReadForDryRun
  <2>. HIDE DEF c
  <2>. QED
    BY <1>1, <2>2, <2>3, <2>4, ReadKeeps
<1>5. CASE WriteStatus(a)
  <2>. DEFINE j == ctx[a].job
              new == ctx[a].status
              row == [job[j] EXCEPT !.status = new,
                                    !.final = IF new = "dispatched" THEN @ ELSE new \in FINAL_STATES]
  <2>1. j \in Jobs /\ new \in Statuses
    BY <1>1, <1>5 DEF WriteStatus, Sound
  <2>2. job[j] \in [status : Statuses \cup {"absent"}, final : BOOLEAN, delivered : BOOLEAN] /\ Marked(j)
    BY <2>1 DEF IInv, TypeOK
  <2>4. /\ row \in [status : Statuses \cup {"absent"}, final : BOOLEAN, delivered : BOOLEAN]
        /\ row.status # "absent" /\ (row.delivered <=> job[j].delivered)
    <3>1. PICK final \in BOOLEAN : row = [job[j] EXCEPT !.status = new, !.final = final]
      <4>1. job[j].final \in BOOLEAN
        <5>1. job[j] \in [status : Statuses \cup {"absent"}, final : BOOLEAN, delivered : BOOLEAN]
          BY <2>2
        <5>. QED
          BY <5>1
      <4>2. CASE new = "dispatched"
        <5>1. row = [job[j] EXCEPT !.status = new, !.final = job[j].final]
          BY <2>2, <4>2
        <5>. QED
          BY <4>1, <5>1, Zenon
      <4>3. CASE new # "dispatched" /\ new \in FINAL_STATES
        <5>1. row = [job[j] EXCEPT !.status = new, !.final = TRUE]
          BY <2>2, <4>3
        <5>. QED
          BY <5>1, Zenon
      <4>4. CASE new # "dispatched" /\ new \notin FINAL_STATES
        <5>1. row = [job[j] EXCEPT !.status = new, !.final = FALSE]
          <6>1. (IF new = "dispatched" THEN job[j].final ELSE new \in FINAL_STATES) = FALSE
            <7>1. (new \in FINAL_STATES) = FALSE
              BY <4>4
            <7>. QED
              BY <4>4, <7>1, Zenon
          <6>. QED
            BY <6>1, Zenon
        <5>. QED
          BY <5>1, Zenon
      <4>. QED
        BY <4>2, <4>3, <4>4
    <3>. HIDE DEF row, new, j
    <3>2. row \in [status : Statuses \cup {"absent"}, final : BOOLEAN, delivered : BOOLEAN]
      BY <2>1, <2>2, <3>1
    <3>3. row.status = new /\ (row.delivered <=> job[j].delivered)
      BY <2>2, <3>1
    <3>. QED
      BY <2>1, <3>2, <3>3 DEF Statuses
  <2>5. /\ Moved(j, row) /\ Return(a)
        /\ UNCHANGED <<deadletter, keys, receipts, degraded, killed, tx, clock, calls, late>>
    BY <1>5 DEF WriteStatus, Unlocked
  <2>. HIDE DEF row, new, j
  <2>6. /\ job' \in [Jobs -> [status : Statuses \cup {"absent"}, final : BOOLEAN, delivered : BOOLEAN]]
        /\ trail' \in [Jobs -> Statuses \cup {"absent"}]
        /\ \A k \in Jobs : Marked(k)'
    BY <2>1, <2>2, <2>4, <2>5, MovedKeeps DEF Marked
  <2>7. /\ pc' \in [Processes -> {"idle", "job", "key", "throttle", "attempt", "send", "settle", "write"}]
        /\ ctx' \in [Processes -> Contexts]
        /\ \A q \in Processes : Sound(q)'
    BY <1>1, <2>5, MoveKeeps DEF Return
  <2>8. TypeOK'
    BY <2>5, <2>6, <2>7 DEF IInv, TypeOK
  <2>. QED
    BY <2>5, <2>6, <2>7, <2>8 DEF IInv, Numbered
<1>6. CASE LockTimesOut(a)
  BY <1>1, <1>6, ReadKeeps DEF LockTimesOut, Return
<1>. QED
  BY <1>2, <1>3, <1>4, <1>5, <1>6 DEF AckStep

LEMMA NextKeeps ==
    ASSUME IInv, [Next]_vars
    PROVE  IInv'
<1>1. ASSUME NEW j \in Jobs, Enqueue(j) PROVE IInv'
  <2>. DEFINE row == [Absent EXCEPT !.status = "queued"]
  <2>1. /\ row \in [status : Statuses \cup {"absent"}, final : BOOLEAN, delivered : BOOLEAN]
        /\ row.status # "absent" /\ ~row.delivered
    BY DEF Absent, Statuses
  <2>2. /\ Moved(j, row)
        /\ UNCHANGED <<deadletter, keys, receipts, degraded, killed, tx, pc, ctx, clock, calls, late>>
    BY <1>1 DEF Enqueue, Unlocked
  <2>3. j \notin keys
    BY <1>1 DEF Enqueue, IInv, Marked, Absent
  <2>. HIDE DEF row
  <2>4. /\ job' \in [Jobs -> [status : Statuses \cup {"absent"}, final : BOOLEAN, delivered : BOOLEAN]]
        /\ trail' \in [Jobs -> Statuses \cup {"absent"}]
        /\ \A k \in Jobs : Marked(k)'
    BY <2>1, <2>2, <2>3, MovedKeeps
  <2>5. TypeOK'
    BY <2>2, <2>4 DEF IInv, TypeOK
  <2>. QED
    BY <2>2, <2>4, <2>5 DEF IInv, Sound
<1>2. ASSUME NEW p \in Dispatchers, DispatchStep(p) PROVE IInv'
  <2>1. CASE LockTimesOut(p)
    BY <2>1, ConstantsAreTyped, AckStepKeeps DEF AckStep
  <2>. QED
    BY <1>2, <2>1, ReadStepKeeps, SendStepKeeps, SettleKeeps DEF DispatchStep
<1>3. ASSUME NEW a \in Ackers, AckStep(a) PROVE IInv'
  BY <1>3, ConstantsAreTyped, AckStepKeeps
<1>4. CASE Kill \/ Tick \/ UNCHANGED vars
  <2>1. UNCHANGED <<job, trail, keys, deadletter, receipts, degraded, tx, pc, ctx, calls, late>>
    BY <1>4 DEF Kill, Tick, vars, store
  <2>2. killed' \in BOOLEAN
    BY <1>4, Zenon DEF Kill, Tick, vars, store, IInv, TypeOK
  <2>3. clock' \in Instants
    <3>1. clock' = clock \/ (clock < MaxClock /\ clock' = clock + 1)
      BY <1>4 DEF Kill, Tick, vars
    <3>. QED
      BY <3>1, ConstantsAreTyped DEF IInv, TypeOK, Instants
  <2>4. TypeOK'
    BY <2>1, <2>2, <2>3 DEF IInv, TypeOK
  <2>. QED
    BY <2>1, <2>4 DEF IInv, Sound, Marked
<1>. QED
  BY <1>1, <1>2, <1>3, <1>4 DEF Next

\* store.py: whatever calls overlap or die, the key, the delivered mark and the
\* last event of a job agree, and each call stands where its reads allow.
THEOREM Inductive == Spec => []IInv
<1>1. Init => IInv
  <2>1. ASSUME Init PROVE TypeOK
    <3>1. /\ job \in [Jobs -> [status : Statuses \cup {"absent"}, final : BOOLEAN, delivered : BOOLEAN]]
          /\ trail \in [Jobs -> Statuses \cup {"absent"}]
          /\ keys \subseteq Jobs /\ deadletter \subseteq Jobs \X Reasons
          /\ tx \in Dispatchers \cup {NoOne}
      BY <2>1, ConstantsAreTyped DEF Init
    <3>2. /\ receipts \subseteq Receipts
          /\ clock \in Instants /\ calls \in 0..MaxCalls
          /\ late \in [degraded : Nat, killed : Nat, duplicate : [Jobs -> Nat]]
      BY <2>1, ConstantsAreTyped DEF Init
    <3>3. /\ pc \in [Processes -> {"idle", "job", "key", "throttle", "attempt", "send", "settle", "write"}]
          /\ ctx \in [Processes -> Contexts]
      BY <2>1, ConstantsAreTyped DEF Init
    <3>4. degraded \in BOOLEAN /\ killed \in BOOLEAN
      BY <2>1, Zenon DEF Init
    <3>. QED
      BY <3>1, <3>2, <3>3, <3>4 DEF TypeOK
  <2>2. ASSUME Init PROVE (\A p \in Processes : Sound(p)) /\ (\A j \in Jobs : Marked(j))
    BY <2>2 DEF Init, Sound, Marked, Absent
  <2>3. ASSUME Init PROVE Numbered(receipts)
    BY <2>3, FS_EmptySet DEF Init, Numbered
  <2>. QED
    BY <2>1, <2>2, <2>3 DEF IInv
<1>2. IInv /\ [Next]_vars => IInv'
  BY NextKeeps
<1>. QED
  BY <1>1, <1>2, PTL DEF Spec

\* Jobs, receipts, keys, the lock and the calls keep their types.
THEOREM TypeCorrect == Spec => []TypeOK
<1>1. IInv => TypeOK
  BY DEF IInv
<1>. QED
  BY <1>1, Inductive, PTL

-----------------------------------------------------------------------------
(***************************************************************************)
(* The overshoots.                                                         *)
(***************************************************************************)
Bounds ==
    /\ KilledBound /\ DegradedBound
    /\ \A j \in Jobs : KeyBound(j)

\* The calls past a read are some of the processes.
LEMMA CallsAreFew ==
    ASSUME NEW S \in SUBSET Dispatchers
    PROVE  /\ IsFiniteSet(S) /\ Cardinality(S) \in Nat /\ Cardinality(Dispatchers) \in Nat
           /\ Cardinality(S) <= Cardinality(Dispatchers)
           /\ S # Dispatchers => Cardinality(S) <= Cardinality(Dispatchers) - 1
           /\ \A T \in SUBSET S : Cardinality(T) \in Nat /\ Cardinality(T) <= Cardinality(S)
           /\ \A p \in S : \A T \in SUBSET (S \ {p}) :
                Cardinality(T) \in Nat /\ Cardinality(T) + 1 <= Cardinality(S)
<1>1. IsFiniteSet(Dispatchers)
  BY ProcessesAssumption
<1>2. IsFiniteSet(S) /\ Cardinality(S) <= Cardinality(Dispatchers)
  BY <1>1, FS_Subset
<1>3. Cardinality(S) \in Nat /\ Cardinality(Dispatchers) \in Nat
  BY <1>1, <1>2, FS_CardinalityType
<1>4. S # Dispatchers => Cardinality(S) <= Cardinality(Dispatchers) - 1
  <2>1. S # Dispatchers => Cardinality(S) # Cardinality(Dispatchers)
    BY <1>1, FS_Subset
  <2>. QED
    BY <1>2, <1>3, <2>1
<1>5. ASSUME NEW T \in SUBSET S PROVE Cardinality(T) \in Nat /\ Cardinality(T) <= Cardinality(S)
  BY <1>2, FS_Subset, FS_CardinalityType
<1>6. ASSUME NEW p \in S, NEW T \in SUBSET (S \ {p})
      PROVE  Cardinality(T) \in Nat /\ Cardinality(T) + 1 <= Cardinality(S)
  <2>1. IsFiniteSet(S \ {p}) /\ Cardinality(S \ {p}) = Cardinality(S) - 1
    BY <1>2, FS_RemoveElement
  <2>2. Cardinality(T) <= Cardinality(S \ {p}) /\ IsFiniteSet(T)
    BY <2>1, FS_Subset
  <2>3. Cardinality(T) \in Nat
    BY <2>2, FS_CardinalityType
  <2>. QED
    BY <1>3, <2>1, <2>2, <2>3
<1>. QED
  BY <1>2, <1>3, <1>4, <1>5, <1>6

\* While the switch does not move and nobody calls, no call may join.
LEMMA KilledStays ==
    ASSUME IInv, Bounds, UNCHANGED killed, late'.killed = late.killed,
           killed => Launched' \subseteq Launched
    PROVE  KilledBound'
<1>0. late.killed \in Nat
  BY DEF IInv, TypeOK
<1>1. CASE killed
  <2>1. Launched \subseteq Dispatchers
    BY DEF Launched
  <2>2. late.killed + Cardinality(Launched) <= Cardinality(Dispatchers)
    BY <1>1 DEF Bounds, KilledBound
  <2>3. /\ Cardinality(Launched') \in Nat /\ Cardinality(Launched) \in Nat
        /\ Cardinality(Dispatchers) \in Nat
        /\ Cardinality(Launched') <= Cardinality(Launched)
    BY <1>1, <2>1, CallsAreFew
  <2>4. late.killed + Cardinality(Launched') <= Cardinality(Dispatchers)
    BY <1>0, <2>2, <2>3
  <2>. QED
    BY <1>1, <2>4 DEF KilledBound
<1>2. CASE ~killed
  BY <1>2 DEF Bounds, KilledBound
<1>. QED
  BY <1>1, <1>2

\* The same of the flag.
LEMMA DegradedStays ==
    ASSUME IInv, Bounds, UNCHANGED degraded, late'.degraded = late.degraded,
           degraded => Admitted' \subseteq Admitted
    PROVE  DegradedBound'
<1>0. late.degraded \in Nat
  BY DEF IInv, TypeOK
<1>1. CASE degraded
  <2>1. Admitted \subseteq Dispatchers
    BY DEF Admitted
  <2>2. late.degraded + Cardinality(Admitted) <= Cardinality(Dispatchers) - 1
    BY <1>1 DEF Bounds, DegradedBound
  <2>3. /\ Cardinality(Admitted') \in Nat /\ Cardinality(Admitted) \in Nat
        /\ Cardinality(Dispatchers) \in Nat
        /\ Cardinality(Admitted') <= Cardinality(Admitted)
    BY <1>1, <2>1, CallsAreFew
  <2>4. late.degraded + Cardinality(Admitted') <= Cardinality(Dispatchers) - 1
    BY <1>0, <2>2, <2>3
  <2>. QED
    BY <1>1, <2>4 DEF DegradedBound
<1>2. CASE ~degraded
  BY <1>2 DEF Bounds, DegradedBound
<1>. QED
  BY <1>1, <1>2

\* The same of the key of a job.
LEMMA KeyStays ==
    ASSUME IInv, Bounds, NEW j \in Jobs, j \in keys' <=> j \in keys,
           late'.duplicate[j] = late.duplicate[j], j \in keys => Cleared(j)' \subseteq Cleared(j)
    PROVE  KeyBound(j)'
<1>0. late.duplicate[j] \in Nat
  BY DEF IInv, TypeOK
<1>1. CASE j \in keys
  <2>1. Cleared(j) \subseteq Dispatchers
    BY DEF Cleared
  <2>2. late.duplicate[j] + Cardinality(Cleared(j)) <= Cardinality(Dispatchers) - 1
    BY <1>1 DEF Bounds, KeyBound
  <2>3. /\ Cardinality(Cleared(j)') \in Nat /\ Cardinality(Cleared(j)) \in Nat
        /\ Cardinality(Dispatchers) \in Nat
        /\ Cardinality(Cleared(j)') <= Cardinality(Cleared(j))
    BY <1>1, <2>1, CallsAreFew
  <2>4. late.duplicate[j] + Cardinality(Cleared(j)') <= Cardinality(Dispatchers) - 1
    BY <1>0, <2>2, <2>3
  <2>. QED
    BY <1>1, <2>4 DEF KeyBound
<1>2. CASE j \notin keys
  BY <1>2 DEF Bounds, KeyBound
<1>. QED
  BY <1>1, <1>2

\* A step that calls no gateway and raises no flag: no call may pass a read
\* whose flag is already up.
LEMMA QuietKeeps ==
    ASSUME IInv, Bounds, UNCHANGED <<late, killed, degraded, keys>>,
           killed => Launched' \subseteq Launched,
           degraded => Admitted' \subseteq Admitted,
           \A j \in keys : Cleared(j)' \subseteq Cleared(j)
    PROVE  Bounds'
BY KilledStays, DegradedStays, KeyStays DEF Bounds

\* A process that is not past any read after the step joins no count.
LEMMA LeaveKeeps ==
    ASSUME IInv, Bounds, UNCHANGED <<late, killed, degraded, keys>>, NEW p \in Processes,
           pc'[p] \notin {"job", "key", "throttle", "attempt", "send"},
           \A q \in Processes \ {p} : pc'[q] = pc[q] /\ ctx'[q] = ctx[q]
    PROVE  Bounds'
<1>1. Dispatchers \subseteq Processes
  BY ConstantsAreTyped
<1>2. Launched' \subseteq Launched
  BY <1>1 DEF Launched
<1>3. Admitted' \subseteq Admitted
  BY <1>1 DEF Admitted
<1>4. \A j \in keys : Cleared(j)' \subseteq Cleared(j)
  BY <1>1 DEF Cleared
<1>. QED
  BY <1>2, <1>3, <1>4, QuietKeeps

LEMMA GotoIs ==
    ASSUME IInv, NEW p \in Processes, NEW l, NEW c, Goto(p, l, c)
    PROVE  /\ pc'[p] = l /\ ctx'[p] = c
           /\ \A q \in Processes \ {p} : pc'[q] = pc[q] /\ ctx'[q] = ctx[q]
BY DEF Goto, IInv, TypeOK

\* dispatch_live's reads: the switch, the flag or the key is down when they
\* let a call pass.
LEMMA ReadBounds ==
    ASSUME IInv, Bounds, NEW p \in Dispatchers,
           \/ \E j \in Jobs : CallBegins(p, j)
           \/ ReadJob(p) \/ ReadKey(p) \/ ReadThrottle(p) \/ WriteAttempt(p)
    PROVE  Bounds'
<1>0. p \in Processes /\ Dispatchers \subseteq Processes /\ Sound(p)
  BY ConstantsAreTyped DEF IInv
<1>1. UNCHANGED <<late, killed, degraded, keys>>
  BY DEF CallBegins, ReadJob, ReadKey, ReadThrottle, WriteAttempt, ReadOnly, store
<1>2. ASSUME Return(p) PROVE Bounds'
  <2>1. pc'[p] = "idle" /\ \A q \in Processes \ {p} : pc'[q] = pc[q] /\ ctx'[q] = ctx[q]
    BY <1>0, <1>2, GotoIs DEF Return
  <2>. QED
    BY <1>0, <1>1, <2>1, LeaveKeeps
<1>3. ASSUME NEW j \in Jobs, CallBegins(p, j) PROVE Bounds'
  <2>. DEFINE c == [Idle EXCEPT !.job = j, !.now = clock, !.killed = killed]
  <2>1. Goto(p, "job", c)
    BY <1>3 DEF CallBegins
  <2>2. killed => c.killed
    BY DEF Idle
  <2>. HIDE DEF c
  <2>3. pc'[p] = "job" /\ ctx'[p] = c /\ \A q \in Processes \ {p} : pc'[q] = pc[q] /\ ctx'[q] = ctx[q]
    BY <1>0, <2>1, GotoIs
  <2>4. killed => Launched' \subseteq Launched
    BY <1>0, <2>2, <2>3 DEF Launched
  <2>5. Admitted' \subseteq Admitted /\ \A k \in keys : Cleared(k)' \subseteq Cleared(k)
    BY <1>0, <2>3 DEF Admitted, Cleared
  <2>. QED
    BY <1>1, <2>4, <2>5, QuietKeeps
<1>4. CASE ReadJob(p) /\ ~Return(p)
  <2>. DEFINE c == [ctx[p] EXCEPT !.row = job[ctx[p].job]]
  <2>1. Goto(p, "key", c) /\ pc[p] = "job" /\ ~ctx[p].killed
    BY <1>4 DEF ReadJob
  <2>. HIDE DEF c
  <2>3. pc'[p] = "key" /\ \A q \in Processes \ {p} : pc'[q] = pc[q] /\ ctx'[q] = ctx[q]
    BY <1>0, <2>1, GotoIs
  <2>4. Launched' \subseteq Launched
    BY <1>0, <2>1, <2>3 DEF Launched
  <2>5. Admitted' \subseteq Admitted /\ \A k \in keys : Cleared(k)' \subseteq Cleared(k)
    BY <1>0, <2>3 DEF Admitted, Cleared
  <2>. QED
    BY <1>1, <2>4, <2>5, QuietKeeps
<1>5. CASE ReadKey(p) /\ ~Return(p)
  <2>. DEFINE c == [ctx[p] EXCEPT !.row = Absent]
  <2>1. Goto(p, "throttle", c) /\ pc[p] = "key" /\ ctx[p].job \notin keys
    BY <1>5 DEF ReadKey, AlreadyDelivered
  <2>2. c.job = ctx[p].job
    BY <1>0, ReadsAreTyped
  <2>. HIDE DEF c
  <2>3. pc'[p] = "throttle" /\ ctx'[p] = c /\ \A q \in Processes \ {p} : pc'[q] = pc[q] /\ ctx'[q] = ctx[q]
    BY <1>0, <2>1, GotoIs
  <2>4. Launched' \subseteq Launched
    BY <1>0, <2>1, <2>3 DEF Launched, Sound
  <2>5. Admitted' \subseteq Admitted /\ \A k \in keys : Cleared(k)' \subseteq Cleared(k)
    BY <1>0, <2>1, <2>2, <2>3 DEF Admitted, Cleared
  <2>. QED
    BY <1>1, <2>4, <2>5, QuietKeeps
<1>6. CASE ReadThrottle(p) /\ ~Return(p)
  <2>. DEFINE c == [ctx[p] EXCEPT !.at = clock]
  <2>1. Goto(p, "attempt", c) /\ pc[p] = "throttle" /\ ~degraded
    BY <1>6 DEF ReadThrottle, CheckThrottle
  <2>2. c.job = ctx[p].job
    BY <1>0, ReadsAreTyped
  <2>. HIDE DEF c
  <2>3. pc'[p] = "attempt" /\ ctx'[p] = c /\ \A q \in Processes \ {p} : pc'[q] = pc[q] /\ ctx'[q] = ctx[q]
    BY <1>0, <2>1, GotoIs
  <2>4. Launched' \subseteq Launched
    BY <1>0, <2>1, <2>3 DEF Launched, Sound
  <2>5. \A k \in keys : Cleared(k)' \subseteq Cleared(k)
    BY <1>0, <2>1, <2>2, <2>3 DEF Cleared
  <2>. QED
    BY <1>1, <2>1, <2>4, <2>5, QuietKeeps
<1>7. CASE WriteAttempt(p)
  <2>1. Goto(p, "send", ctx[p]) /\ pc[p] = "attempt"
    BY <1>7 DEF WriteAttempt
  <2>3. pc'[p] = "send" /\ ctx'[p] = ctx[p] /\ \A q \in Processes \ {p} : pc'[q] = pc[q] /\ ctx'[q] = ctx[q]
    BY <1>0, <2>1, GotoIs
  <2>4. Launched' \subseteq Launched
    BY <1>0, <2>1, <2>3 DEF Launched
  <2>5. Admitted' \subseteq Admitted /\ \A k \in keys : Cleared(k)' \subseteq Cleared(k)
    BY <1>0, <2>1, <2>3 DEF Admitted, Cleared
  <2>. QED
    BY <1>1, <2>4, <2>5, QuietKeeps
<1>. QED
  BY <1>2, <1>3, <1>4, <1>5, <1>6, <1>7

\* gateway.send_message: a late call leaves the calls still to come.
LEMMA SendBounds ==
    ASSUME IInv, Bounds, NEW p \in Dispatchers, NEW answer \in {"success", "failure"},
           GatewayAnswers(p, answer)
    PROVE  Bounds'
<1>. DEFINE j == ctx[p].job
            c == [ctx[p] EXCEPT !.answer = answer]
<1>0. p \in Processes /\ Dispatchers \subseteq Processes /\ Sound(p) /\ pc[p] = "send"
  BY ConstantsAreTyped DEF IInv, GatewayAnswers
<1>1. j \in Jobs /\ ~ctx[p].killed
  BY <1>0 DEF Sound
<1>2. /\ pc'[p] = "settle" /\ \A q \in Processes \ {p} : pc'[q] = pc[q] /\ ctx'[q] = ctx[q]
      /\ UNCHANGED <<keys, degraded, killed>>
  BY <1>0, GotoIs DEF GatewayAnswers, store
<1>3. late \in [degraded : Nat, killed : Nat, duplicate : [Jobs -> Nat]]
  BY DEF IInv, TypeOK
<1>4. /\ late'.degraded = late.degraded + (IF degraded THEN 1 ELSE 0)
      /\ late'.killed = late.killed + (IF killed THEN 1 ELSE 0)
      /\ late'.duplicate[j] = late.duplicate[j] + (IF j \in keys THEN 1 ELSE 0)
      /\ \A k \in Jobs \ {j} : late'.duplicate[k] = late.duplicate[k]
  BY <1>1, <1>3 DEF GatewayAnswers
<1>5. KilledBound'
  <2>1. CASE killed
    <3>1. Launched \in SUBSET Dispatchers /\ p \in Launched /\ Launched' \in SUBSET (Launched \ {p})
      BY <1>0, <1>1, <1>2 DEF Launched
    <3>2. /\ Cardinality(Launched') \in Nat /\ Cardinality(Launched) \in Nat
          /\ Cardinality(Dispatchers) \in Nat
          /\ Cardinality(Launched') + 1 <= Cardinality(Launched)
      BY <3>1, CallsAreFew
    <3>3. late.killed + Cardinality(Launched) <= Cardinality(Dispatchers) /\ late'.killed = late.killed + 1
      BY <1>4, <2>1 DEF Bounds, KilledBound
    <3>4. late'.killed + Cardinality(Launched') <= Cardinality(Dispatchers)
      BY <1>3, <3>2, <3>3
    <3>. QED
      BY <1>2, <2>1, <3>4 DEF KilledBound
  <2>2. CASE ~killed
    <3>1. late.killed = 0 /\ late'.killed = late.killed + 0
      BY <1>4, <2>2 DEF Bounds, KilledBound
    <3>2. late'.killed = 0
      BY <3>1
    <3>. QED
      BY <1>2, <2>2, <3>2 DEF KilledBound
  <2>. QED
    BY <2>1, <2>2
<1>6. DegradedBound'
  <2>1. CASE degraded
    <3>1. Admitted \in SUBSET Dispatchers /\ p \in Admitted /\ Admitted' \in SUBSET (Admitted \ {p})
      BY <1>0, <1>2 DEF Admitted
    <3>2. /\ Cardinality(Admitted') \in Nat /\ Cardinality(Admitted) \in Nat
          /\ Cardinality(Dispatchers) \in Nat
          /\ Cardinality(Admitted') + 1 <= Cardinality(Admitted)
      BY <3>1, CallsAreFew
    <3>3. /\ late.degraded + Cardinality(Admitted) <= Cardinality(Dispatchers) - 1
          /\ late'.degraded = late.degraded + 1
      BY <1>4, <2>1 DEF Bounds, DegradedBound
    <3>4. late'.degraded + Cardinality(Admitted') <= Cardinality(Dispatchers) - 1
      BY <1>3, <3>2, <3>3
    <3>. QED
      BY <1>2, <2>1, <3>4 DEF DegradedBound
  <2>2. CASE ~degraded
    <3>1. late.degraded = 0 /\ late'.degraded = late.degraded + 0
      BY <1>4, <2>2 DEF Bounds, DegradedBound
    <3>2. late'.degraded = 0
      BY <3>1
    <3>. QED
      BY <1>2, <2>2, <3>2 DEF DegradedBound
  <2>. QED
    BY <2>1, <2>2
<1>7. ASSUME NEW k \in Jobs PROVE KeyBound(k)'
  <2>1. CASE k \in keys /\ k = j
    <3>1. Cleared(k) \in SUBSET Dispatchers /\ p \in Cleared(k) /\ Cleared(k)' \in SUBSET (Cleared(k) \ {p})
      BY <1>0, <1>2, <2>1 DEF Cleared
    <3>2. /\ Cardinality(Cleared(k)') \in Nat /\ Cardinality(Cleared(k)) \in Nat
          /\ Cardinality(Dispatchers) \in Nat
          /\ Cardinality(Cleared(k)') + 1 <= Cardinality(Cleared(k))
      BY <3>1, CallsAreFew
    <3>3. /\ late.duplicate[k] + Cardinality(Cleared(k)) <= Cardinality(Dispatchers) - 1
          /\ late'.duplicate[k] = late.duplicate[k] + 1 /\ late.duplicate[k] \in Nat
      BY <1>3, <1>4, <2>1 DEF Bounds, KeyBound
    <3>4. late'.duplicate[k] + Cardinality(Cleared(k)') <= Cardinality(Dispatchers) - 1
      BY <3>2, <3>3
    <3>. QED
      BY <1>2, <2>1, <3>4 DEF KeyBound
  <2>2. CASE k # j
    <3>1. Cleared(k)' \subseteq Cleared(k)
      BY <1>0, <1>2 DEF Cleared
    <3>. QED
      BY <1>2, <1>4, <2>2, <3>1, KeyStays
  <2>3. CASE k \notin keys /\ k = j
    <3>1. late.duplicate[k] = 0 /\ late'.duplicate[k] = late.duplicate[k] + 0
      BY <1>4, <2>3 DEF Bounds, KeyBound
    <3>2. late'.duplicate[k] = 0
      BY <3>1
    <3>. QED
      BY <1>2, <2>3, <3>2 DEF KeyBound
  <2>. QED
    BY <2>1, <2>2, <2>3
<1>. QED
  BY <1>5, <1>6, <1>7 DEF Bounds

\* The breaker and the claim: whoever raises a flag has made its own call.
LEMMA SettleBounds ==
    ASSUME IInv, Bounds, NEW p \in Dispatchers, SettleFailure(p) \/ SettleSuccess(p)
    PROVE  Bounds'
<1>. DEFINE j == ctx[p].job
<1>0. p \in Processes /\ Dispatchers \subseteq Processes /\ pc[p] = "settle"
  BY ConstantsAreTyped DEF SettleFailure, SettleSuccess
<1>1. j \in Jobs
  BY <1>0 DEF IInv, Sound
<1>2. /\ pc'[p] = "idle" /\ \A q \in Processes \ {p} : pc'[q] = pc[q] /\ ctx'[q] = ctx[q]
      /\ UNCHANGED <<killed, late>>
  BY <1>0, GotoIs DEF SettleFailure, SettleSuccess, Return
<1>3. /\ Launched' \subseteq Launched /\ Admitted' \subseteq Admitted
      /\ \A k \in Jobs : Cleared(k)' \subseteq Cleared(k)
  BY <1>0, <1>2 DEF Launched, Admitted, Cleared
<1>4. /\ degraded => degraded'
      /\ \A k \in Jobs \ {j} : k \in keys' <=> k \in keys
      /\ j \in keys => j \in keys'
  BY DEF SettleFailure, SettleSuccess, store
<1>5. KilledBound'
  BY <1>2, <1>3, KilledStays
<1>6. DegradedBound'
  <2>1. CASE degraded' <=> degraded
    <3>1. degraded' = degraded
      <4>1. degraded' \in BOOLEAN /\ degraded \in BOOLEAN
        BY SettleKeeps DEF IInv, TypeOK
      <4>. QED
        BY <2>1, <4>1, Zenon
    <3>. QED
      BY <1>2, <1>3, <3>1, DegradedStays
  <2>2. CASE ~degraded /\ degraded'
    <3>1. late.degraded = 0
      BY <2>2 DEF Bounds, DegradedBound
    <3>2. Admitted' \in SUBSET Dispatchers /\ Admitted' # Dispatchers
      BY <1>0, <1>2 DEF Admitted
    <3>3. /\ Cardinality(Admitted') \in Nat /\ Cardinality(Dispatchers) \in Nat
          /\ Cardinality(Admitted') <= Cardinality(Dispatchers) - 1
      BY <3>2, CallsAreFew
    <3>4. late'.degraded + Cardinality(Admitted') <= Cardinality(Dispatchers) - 1
      BY <1>2, <3>1, <3>3
    <3>. QED
      BY <2>2, <3>4 DEF DegradedBound
  <2>. QED
    BY <1>4, <2>1, <2>2
<1>7. ASSUME NEW k \in Jobs PROVE KeyBound(k)'
  <2>1. CASE k \in keys' <=> k \in keys
    BY <1>2, <1>3, <2>1, KeyStays
  <2>2. CASE k \notin keys /\ k \in keys'
    <3>1. k = j
      BY <1>4, <2>2
    <3>2. late.duplicate[k] = 0
      BY <2>2 DEF Bounds, KeyBound
    <3>3. Cleared(k)' \in SUBSET Dispatchers /\ Cleared(k)' # Dispatchers
      BY <1>0, <1>2 DEF Cleared
    <3>4. /\ Cardinality(Cleared(k)') \in Nat /\ Cardinality(Dispatchers) \in Nat
          /\ Cardinality(Cleared(k)') <= Cardinality(Dispatchers) - 1
      BY <3>3, CallsAreFew
    <3>5. late'.duplicate[k] + Cardinality(Cleared(k)') <= Cardinality(Dispatchers) - 1
      BY <1>2, <3>2, <3>4
    <3>. QED
      BY <2>2, <3>5 DEF KeyBound
  <2>. QED
    BY <1>1, <1>4, <2>1, <2>2
<1>. QED
  BY <1>5, <1>6, <1>7 DEF Bounds

\* The steps of the other callers, of the operator and of the clock.
LEMMA OtherBounds ==
    ASSUME IInv, Bounds,
           \/ \E j \in Jobs : Enqueue(j)
           \/ \E p \in Processes : AckStep(p) \/ Crash(p)
           \/ Kill \/ Tick \/ UNCHANGED vars
    PROVE  Bounds'
<1>0. Dispatchers \subseteq Processes
  BY ConstantsAreTyped
<1>1. CASE (\E j \in Jobs : Enqueue(j)) \/ Tick \/ UNCHANGED vars
  <2>1. UNCHANGED <<pc, ctx, late, killed, degraded, keys>>
    BY <1>1 DEF Enqueue, Tick, vars, store
  <2>2. UNCHANGED <<Launched, Admitted>> /\ \A j \in Jobs : Cleared(j)' = Cleared(j)
    BY <2>1 DEF Launched, Admitted, Cleared
  <2>3. keys \subseteq Jobs
    BY DEF IInv, TypeOK
  <2>. QED
    BY <2>1, <2>2, <2>3, QuietKeeps
<1>2. ASSUME NEW p \in Processes, AckStep(p) \/ Crash(p) PROVE Bounds'
  <2>1. UNCHANGED <<late, killed, degraded, keys>>
    BY <1>2 DEF AckStep, Crash, ReadForAck, RefuseAck, ReadForDryRun, WriteStatus, LockTimesOut,
         ReadOnly, store
  <2>2. CASE \E j \in Jobs, new \in AckStatuses : RefuseAck(p, j, new)
    <3>1. pc'[p] = "idle" /\ \A q \in Processes : pc'[q] = pc[q] /\ ctx'[q] = ctx[q]
      BY <2>2 DEF RefuseAck
    <3>. QED
      BY <2>1, <3>1, LeaveKeeps
  <2>3. CASE ~ \E j \in Jobs, new \in AckStatuses : RefuseAck(p, j, new)
    <3>1. PICK l \in {"idle", "write"} : \E c : Goto(p, l, c)
      BY <1>2, <2>3 DEF AckStep, Crash, ReadForAck, ReadForDryRun, WriteStatus, LockTimesOut, Return
    <3>2. pc'[p] = l /\ \A q \in Processes \ {p} : pc'[q] = pc[q] /\ ctx'[q] = ctx[q]
      BY <3>1, GotoIs
    <3>. QED
      BY <2>1, <3>2, LeaveKeeps
  <2>. QED
    BY <2>2, <2>3
<1>3. CASE Kill
  <2>1. UNCHANGED <<pc, ctx, late, degraded, keys>> /\ ~killed /\ killed'
    BY <1>3 DEF Kill, store
  <2>2. UNCHANGED <<Launched, Admitted>> /\ \A j \in Jobs : Cleared(j)' = Cleared(j)
    BY <2>1 DEF Launched, Admitted, Cleared
  <2>3. KilledBound'
    <3>1. late'.killed = 0
      BY <2>1 DEF Bounds, KilledBound
    <3>2. Launched' \in SUBSET Dispatchers
      BY <2>2 DEF Launched
    <3>3. /\ Cardinality(Launched') \in Nat /\ Cardinality(Dispatchers) \in Nat
          /\ Cardinality(Launched') <= Cardinality(Dispatchers)
      BY <3>2, CallsAreFew
    <3>4. late'.killed + Cardinality(Launched') <= Cardinality(Dispatchers)
      BY <3>1, <3>3
    <3>. QED
      BY <2>1, <3>4 DEF KilledBound
  <2>. QED
    BY <2>1, <2>2, <2>3, DegradedStays, KeyStays DEF Bounds
<1>. QED
  BY <1>1, <1>2, <1>3

\* dispatch_live: the calls made too late, and those still on their way, are
\* never more than the processes.
THEOREM LateCallsAreBounded == Spec => []Bounds
<1>1. Init => Bounds
  BY DEF Init, Bounds, KilledBound, DegradedBound, KeyBound
<1>2. IInv /\ Bounds /\ [Next]_vars => Bounds'
  <2>1. ASSUME IInv, Bounds, NEW p \in Dispatchers, DispatchStep(p) PROVE Bounds'
    <3>1. CASE Crash(p) \/ LockTimesOut(p)
      BY <2>1, <3>1, ConstantsAreTyped, OtherBounds DEF AckStep
    <3>. QED
      BY <2>1, <3>1, ReadBounds, SendBounds, SettleBounds DEF DispatchStep
  <2>. QED
    BY <2>1, ConstantsAreTyped, OtherBounds DEF Next
<1>. QED
  BY <1>1, <1>2, Inductive, PTL DEF Spec

\* live/throttle.py, policy.py: after the breaker or the kill switch at most the
\* calls in flight reach the gateway.
THEOREM StopIsPrompt == Spec => []StopOvershoot
<1>1. ASSUME IInv, Bounds PROVE StopOvershoot
  <2>1. Launched \in SUBSET Dispatchers /\ Admitted \in SUBSET Dispatchers
    BY DEF Launched, Admitted
  <2>2. /\ Cardinality(Launched) \in Nat /\ Cardinality(Admitted) \in Nat
        /\ Cardinality(Dispatchers) \in Nat
    BY <2>1, CallsAreFew
  <2>3. Cardinality(Dispatchers) # 0
    BY ProcessesAssumption, FS_EmptySet
  <2>4. late.killed \in Nat /\ late.degraded \in Nat
    BY <1>1 DEF IInv, TypeOK
  <2>5. late.killed <= Cardinality(Dispatchers)
    <3>1. late.killed = 0 \/ late.killed + Cardinality(Launched) <= Cardinality(Dispatchers)
      BY <1>1 DEF Bounds, KilledBound
    <3>. QED
      BY <2>2, <2>4, <3>1
  <2>6. late.degraded <= Cardinality(Dispatchers) - 1
    <3>1. late.degraded = 0 \/ late.degraded + Cardinality(Admitted) <= Cardinality(Dispatchers) - 1
      BY <1>1 DEF Bounds, DegradedBound
    <3>. QED
      BY <2>2, <2>3, <2>4, <3>1
  <2>. QED
    BY <2>5, <2>6 DEF StopOvershoot
<1>. QED
  BY <1>1, Inductive, LateCallsAreBounded, PTL

\* dispatch_live: after the key of a job is claimed at most the calls that had
\* passed the key check repeat its message.
THEOREM RepeatsAreBounded == Spec => []DuplicatesAreBounded
<1>1. ASSUME IInv, Bounds PROVE DuplicatesAreBounded
  <2>1. SUFFICES ASSUME NEW j \in Jobs
                 PROVE  late.duplicate[j] <= Cardinality(Dispatchers) - 1
    BY DEF DuplicatesAreBounded
  <2>2. Cleared(j) \in SUBSET Dispatchers
    BY DEF Cleared
  <2>3. Cardinality(Cleared(j)) \in Nat /\ Cardinality(Dispatchers) \in Nat
    BY <2>2, CallsAreFew
  <2>4. Cardinality(Dispatchers) # 0
    BY ProcessesAssumption, FS_EmptySet
  <2>5. late.duplicate[j] \in Nat
    BY <1>1 DEF IInv, TypeOK
  <2>6. \/ late.duplicate[j] = 0
        \/ late.duplicate[j] + Cardinality(Cleared(j)) <= Cardinality(Dispatchers) - 1
    BY <1>1 DEF Bounds, KeyBound
  <2>. QED
    BY <2>3, <2>4, <2>5, <2>6
<1>. QED
  BY <1>1, Inductive, LateCallsAreBounded, PTL

-----------------------------------------------------------------------------
(***************************************************************************)
(* What the receipts add up to.                                            *)
(***************************************************************************)
Calling  == {"job", "key", "throttle"}
Underway == {"attempt", "send", "settle"}

\* The rest of the processes stand still.
Alone(p) == \A q \in Processes \ {p} : pc'[q] = pc[q] /\ ctx'[q] = ctx[q]

\* A step of one process that files nothing.
Passes(p) ==
    /\ UNCHANGED <<receipts, keys, degraded, clock>> /\ Alone(p)
    /\ \/ pc'[p] \in {"idle", "write"}
       \/ pc'[p] = "job" /\ ctx'[p].now = clock
       \/ pc[p] \in Calling /\ pc'[p] \in Calling /\ ctx'[p].now = ctx[p].now
       \/ /\ pc[p] = "throttle" /\ CheckThrottle(ctx[p].now)
          /\ pc'[p] = "attempt" /\ ctx'[p].now = ctx[p].now /\ ctx'[p].at = clock
       \/ /\ pc[p] \in Underway /\ pc'[p] \in Underway
          /\ ctx'[p].now = ctx[p].now /\ ctx'[p].at = ctx[p].at

\* A call that commits its receipts.
Files(p) ==
    \/ SettleFailure(p)
    \/ SettleSuccess(p) /\ ctx[p].job \notin keys

\* dispatch_live and its rivals: who files, and who only moves on.
LEMMA StepsAreFew ==
    ASSUME IInv, [Next]_vars
    PROVE  \/ UNCHANGED <<receipts, keys, degraded, clock, pc, ctx>>
           \/ \E p \in Processes : Passes(p)
           \/ \E p \in Dispatchers : Files(p)
           \/ Tick
<1>. DEFINE Still == UNCHANGED <<receipts, keys, degraded, clock, pc, ctx>>
<1>0. Dispatchers \subseteq Processes /\ Ackers \subseteq Processes
  BY ConstantsAreTyped
<1>1. ASSUME NEW p \in Processes, Return(p), UNCHANGED <<receipts, keys, degraded, clock>>
      PROVE  Passes(p)
  <2>1. pc'[p] = "idle" /\ Alone(p)
    BY <1>1, GotoIs DEF Return, Alone
  <2>. QED
    BY <1>1, <2>1 DEF Passes
<1>2. ASSUME NEW p \in Processes, Crash(p) \/ LockTimesOut(p) PROVE Passes(p)
  <2>1. UNCHANGED <<receipts, keys, degraded, clock>> /\ Return(p)
    BY <1>2 DEF Crash, LockTimesOut, ReadOnly, store
  <2>. QED
    BY <1>1, <2>1
<1>3. ASSUME NEW p \in Dispatchers, DispatchStep(p) PROVE Passes(p) \/ Files(p)
  <2>0. p \in Processes /\ ctx[p] \in Contexts
    BY <1>0, ReadsAreTyped
  <2>1. ASSUME NEW j \in Jobs, CallBegins(p, j) PROVE Passes(p)
    <3>. DEFINE c == [Idle EXCEPT !.job = j, !.now = clock, !.killed = killed]
    <3>1. Goto(p, "job", c) /\ UNCHANGED <<receipts, keys, degraded, clock>>
      BY <2>1 DEF CallBegins, ReadOnly, store
    <3>2. c.now = clock
      BY DEF Idle
    <3>. HIDE DEF c
    <3>. QED
      BY <2>0, <3>1, <3>2, GotoIs DEF Passes, Alone
  <2>2. CASE ReadJob(p) /\ ~Return(p)
    <3>. DEFINE c == [ctx[p] EXCEPT !.row = job[ctx[p].job]]
    <3>1. Goto(p, "key", c) /\ UNCHANGED <<receipts, keys, degraded, clock>> /\ pc[p] = "job"
      BY <2>2 DEF ReadJob, ReadOnly, store
    <3>2. c.now = ctx[p].now
      BY <2>0 DEF Contexts
    <3>. HIDE DEF c
    <3>. QED
      BY <2>0, <3>1, <3>2, GotoIs DEF Passes, Alone, Calling
  <2>3. CASE ReadKey(p) /\ ~Return(p)
    <3>. DEFINE c == [ctx[p] EXCEPT !.row = Absent]
    <3>1. Goto(p, "throttle", c) /\ UNCHANGED <<receipts, keys, degraded, clock>> /\ pc[p] = "key"
      BY <2>3 DEF ReadKey, ReadOnly, store
    <3>2. c.now = ctx[p].now
      BY <2>0 DEF Contexts
    <3>. HIDE DEF c
    <3>. QED
      BY <2>0, <3>1, <3>2, GotoIs DEF Passes, Alone, Calling
  <2>4. CASE ReadThrottle(p) /\ ~Return(p)
    <3>. DEFINE c == [ctx[p] EXCEPT !.at = clock]
    <3>1. /\ Goto(p, "attempt", c) /\ UNCHANGED <<receipts, keys, degraded, clock>>
          /\ pc[p] = "throttle" /\ CheckThrottle(ctx[p].now)
      BY <2>4 DEF ReadThrottle, ReadOnly, store
    <3>2. c.now = ctx[p].now /\ c.at = clock
      BY <2>0 DEF Contexts
    <3>. HIDE DEF c
    <3>3. pc'[p] = "attempt" /\ ctx'[p] = c /\ Alone(p)
      BY <2>0, <3>1, GotoIs DEF Alone
    <3>. QED
      BY <3>1, <3>2, <3>3 DEF Passes
  <2>5. CASE WriteAttempt(p)
    <3>1. /\ Goto(p, "send", ctx[p]) /\ UNCHANGED <<receipts, keys, degraded, clock>>
          /\ pc[p] = "attempt"
      BY <2>5 DEF WriteAttempt, store
    <3>. QED
      BY <2>0, <3>1, GotoIs DEF Passes, Alone, Underway
  <2>6. ASSUME NEW answer \in {"success", "failure"}, GatewayAnswers(p, answer) PROVE Passes(p)
    <3>. DEFINE c == [ctx[p] EXCEPT !.answer = answer]
    <3>1. Goto(p, "settle", c) /\ UNCHANGED <<receipts, keys, degraded, clock>> /\ pc[p] = "send"
      BY <2>6 DEF GatewayAnswers, store
    <3>2. c.now = ctx[p].now /\ c.at = ctx[p].at
      BY <2>0 DEF Contexts
    <3>. HIDE DEF c
    <3>. QED
      BY <2>0, <3>1, <3>2, GotoIs DEF Passes, Alone, Underway
  <2>7. CASE (ReadJob(p) \/ ReadKey(p) \/ ReadThrottle(p)) /\ Return(p)
    <3>1. UNCHANGED <<receipts, keys, degraded, clock>>
      BY <2>7 DEF ReadJob, ReadKey, ReadThrottle, ReadOnly, store
    <3>. QED
      BY <1>1, <2>0, <2>7, <3>1
  <2>8. CASE SettleSuccess(p) /\ ctx[p].job \in keys
    <3>1. UNCHANGED <<receipts, keys, degraded, clock>> /\ Return(p)
      BY <2>8 DEF SettleSuccess, store
    <3>. QED
      BY <1>1, <2>0, <3>1
  <2>. QED
    BY <1>2, <1>3, <2>0, <2>1, <2>2, <2>3, <2>4, <2>5, <2>6, <2>7, <2>8 DEF DispatchStep, Files
<1>4. ASSUME NEW a \in Ackers, AckStep(a) PROVE Still \/ Passes(a)
  <2>1. CASE \E j \in Jobs, new \in AckStatuses : RefuseAck(a, j, new)
    BY <2>1 DEF RefuseAck
  <2>2. ASSUME NEW c, Goto(a, "write", c), ReadOnly PROVE Passes(a)
    <3>1. UNCHANGED <<receipts, keys, degraded, clock>>
      BY <2>2 DEF ReadOnly, store
    <3>. QED
      BY <1>0, <2>2, <3>1, GotoIs DEF Passes, Alone
  <2>3. CASE WriteStatus(a)
    <3>1. UNCHANGED <<receipts, keys, degraded, clock>> /\ Return(a)
      BY <2>3 DEF WriteStatus
    <3>. QED
      BY <1>0, <1>1, <3>1
  <2>. QED
    BY <1>0, <1>2, <1>4, <2>1, <2>2, <2>3 DEF AckStep, ReadForAck, ReadForDryRun
<1>5. ASSUME NEW j \in Jobs, Enqueue(j) PROVE Still
  BY <1>5 DEF Enqueue
<1>6. CASE Kill \/ UNCHANGED vars
  BY <1>6 DEF Kill, vars, store
<1>. QED
  BY <1>0, <1>3, <1>4, <1>5, <1>6 DEF Next

\* dispatch_live: the end of a call that commits.
LEMMA FilingIs ==
    ASSUME IInv, NEW p \in Dispatchers, Files(p)
    PROVE  /\ p \in Processes /\ ctx[p].job \in Jobs
           /\ ctx[p].now \in Instants /\ ctx[p].at \in Instants /\ clock \in Instants
           /\ pc[p] = "settle" /\ pc'[p] = "idle" /\ Alone(p) /\ clock' = clock
           /\ receipts' = Resolve(p, IF SettleFailure(p) THEN "failed" ELSE "applied")
           /\ keys' = IF SettleFailure(p) THEN keys ELSE keys \cup {ctx[p].job}
           /\ ~SettleFailure(p) => ctx[p].job \notin keys
           /\ \A J, T : /\ Filed("attempt", J, T)' =
                             IF ctx[p].job \in J /\ ctx[p].at \in T
                             THEN Filed("attempt", J, T) + 1 ELSE Filed("attempt", J, T)
                        /\ Filed("failed", J, T)' =
                             IF SettleFailure(p) /\ ctx[p].job \in J /\ clock \in T
                             THEN Filed("failed", J, T) + 1 ELSE Filed("failed", J, T)
                        /\ Filed("applied", J, T)' =
                             IF ~SettleFailure(p) /\ ctx[p].job \in J /\ clock \in T
                             THEN Filed("applied", J, T) + 1 ELSE Filed("applied", J, T)
<1>. DEFINE phase == IF SettleFailure(p) THEN "failed" ELSE "applied"
<1>1. p \in Processes /\ Sound(p) /\ ctx[p] \in Contexts /\ clock \in Instants
  BY ConstantsAreTyped, ReadsAreTyped DEF IInv, TypeOK
<1>2. /\ pc[p] = "settle" /\ Return(p) /\ clock' = clock
      /\ receipts' = Resolve(p, phase)
      /\ keys' = IF SettleFailure(p) THEN keys ELSE keys \cup {ctx[p].job}
      /\ ~SettleFailure(p) => ctx[p].job \notin keys
  <2>1. CASE SettleFailure(p)
    BY <2>1 DEF SettleFailure
  <2>2. CASE ~SettleFailure(p)
    BY <2>2 DEF SettleSuccess, Files
  <2>. QED
    BY <2>1, <2>2
<1>3. ctx[p].job \in Jobs /\ ctx[p].now \in Instants /\ ctx[p].at \in Instants
  BY <1>1, <1>2 DEF Sound, Contexts
<1>4. pc'[p] = "idle" /\ Alone(p)
  BY <1>1, <1>2, GotoIs DEF Return, Alone
<1>5. \A q, J, T :
        Cardinality(Rows(receipts', q, J, T)) =
          IF \/ q = "attempt" /\ ctx[p].job \in J /\ ctx[p].at \in T
             \/ q = phase /\ ctx[p].job \in J /\ clock \in T
          THEN Filed(q, J, T) + 1 ELSE Filed(q, J, T)
  <2>1. receipts \subseteq Receipts /\ Numbered(receipts)
    BY DEF IInv, TypeOK
  <2>2. phase \in {"failed", "applied"}
    OBVIOUS
  <2>. HIDE DEF phase
  <2>. QED
    BY <1>1, <1>2, <1>3, <2>1, <2>2, ResolvingCounts
<1>6. ASSUME NEW J, NEW T
      PROVE  /\ Filed("attempt", J, T)' =
                  IF ctx[p].job \in J /\ ctx[p].at \in T
                  THEN Filed("attempt", J, T) + 1 ELSE Filed("attempt", J, T)
             /\ Filed("failed", J, T)' =
                  IF SettleFailure(p) /\ ctx[p].job \in J /\ clock \in T
                  THEN Filed("failed", J, T) + 1 ELSE Filed("failed", J, T)
             /\ Filed("applied", J, T)' =
                  IF ~SettleFailure(p) /\ ctx[p].job \in J /\ clock \in T
                  THEN Filed("applied", J, T) + 1 ELSE Filed("applied", J, T)
  BY <1>5 DEF Filed
<1>. QED
  BY <1>1, <1>2, <1>3, <1>4, <1>6

\* Rows are counted by numbers.
LEMMA FiledIsNat ==
    ASSUME IInv, NEW q, NEW J, NEW T
    PROVE  Filed(q, J, T) \in Nat
BY RowsAreCounted DEF IInv, Numbered, Filed

\* A job's receipts against its key.
Tally(j) ==
    /\ Filed("applied", {j}, Instants) = IF j \in keys THEN 1 ELSE 0
    /\ Filed("attempt", {j}, Instants)
         = Filed("failed", {j}, Instants) + Filed("applied", {j}, Instants)

\* store.py, dispatch_live and its rollback: a job has a key iff it is marked
\* delivered iff it has exactly one applied receipt, its attempts are its
\* failures plus it, and the last event that moved it names its status.
THEOREM LedgerIsConsistent == Spec => []LedgerAgrees
<1>1. Init => \A j \in Jobs : Tally(j)
  <2>1. ASSUME Init, NEW q, NEW J, NEW T PROVE Filed(q, J, T) = 0
    <3>1. Rows(receipts, q, J, T) = {}
      BY <2>1 DEF Init, Rows
    <3>. QED
      BY <3>1, FS_EmptySet DEF Filed
  <2>2. Init => keys = {}
    BY DEF Init
  <2>. QED
    BY <2>1, <2>2 DEF Tally
<1>2. IInv /\ (\A j \in Jobs : Tally(j)) /\ [Next]_vars => (\A j \in Jobs : Tally(j))'
  <2>1. SUFFICES ASSUME IInv, [Next]_vars, NEW j \in Jobs, Tally(j) PROVE Tally(j)'
    OBVIOUS
  <2>2. CASE UNCHANGED <<receipts, keys>>
    BY <2>1, <2>2 DEF Tally, Filed
  <2>3. ASSUME NEW p \in Dispatchers, Files(p) PROVE Tally(j)'
    <3>1. /\ Filed("applied", {j}, Instants) \in Nat /\ Filed("failed", {j}, Instants) \in Nat
          /\ Filed("attempt", {j}, Instants) \in Nat
      BY <2>1, FiledIsNat
    <3>2. ctx[p].job \in {j} <=> ctx[p].job = j
      OBVIOUS
    <3>. QED
      BY <2>1, <2>3, <3>1, <3>2, FilingIs DEF Tally
  <2>. QED
    BY <2>1, <2>2, <2>3, StepsAreFew DEF Passes, Tick, store
<1>3. IInv /\ (\A j \in Jobs : Tally(j)) => LedgerAgrees
  BY DEF LedgerAgrees, IInv, Marked, Tally
<1>. QED
  BY <1>1, <1>2, <1>3, Inductive, PTL DEF Spec

-----------------------------------------------------------------------------
(***************************************************************************)
(* The instants a call carries: `now` is taken at its beginning, `at` when   *)
(* it has passed the throttle, and a receipt is never of the future.         *)
(***************************************************************************)
Stamped ==
    /\ \A p \in Processes :
         /\ pc[p] \in Calling \cup Underway => ctx[p].now <= clock
         /\ pc[p] \in Underway => ctx[p].now <= ctx[p].at /\ ctx[p].at <= clock
    /\ \A r \in receipts : r.at <= clock

\* dispatch_live: the clock is read in this order.
LEMMA StampedStays == IInv /\ Stamped /\ [Next]_vars => Stamped'
<1>1. SUFFICES ASSUME IInv, Stamped, [Next]_vars PROVE Stamped'
  OBVIOUS
<1>0. /\ clock \in Nat /\ \A p \in Processes : ctx[p].now \in Nat /\ ctx[p].at \in Nat
      /\ \A r \in receipts : r.at \in Nat
  BY <1>1 DEF IInv, TypeOK, Contexts, Instants, Receipts
<1>2. CASE UNCHANGED <<receipts, clock, pc, ctx>>
  BY <1>1, <1>2 DEF Stamped
<1>3. ASSUME NEW p \in Processes, Passes(p) PROVE Stamped'
  <2>1. clock' = clock /\ receipts' = receipts
    BY <1>3 DEF Passes
  <2>2. ASSUME NEW q \in Processes \ {p}
        PROVE  /\ pc'[q] \in Calling \cup Underway => ctx'[q].now <= clock
               /\ pc'[q] \in Underway => ctx'[q].now <= ctx'[q].at /\ ctx'[q].at <= clock
    BY <1>1, <1>3, <2>2 DEF Passes, Alone, Stamped
  <2>3. /\ pc'[p] \in Calling \cup Underway => ctx'[p].now <= clock
        /\ pc'[p] \in Underway => ctx'[p].now <= ctx'[p].at /\ ctx'[p].at <= clock
    BY <1>0, <1>1, <1>3 DEF Passes, Stamped, Calling, Underway
  <2>. QED
    BY <1>1, <2>1, <2>2, <2>3 DEF Stamped
<1>4. ASSUME NEW p \in Dispatchers, Files(p) PROVE Stamped'
  <2>1. /\ p \in Processes /\ pc[p] = "settle" /\ pc'[p] = "idle" /\ Alone(p) /\ clock' = clock
        /\ receipts' = Resolve(p, IF SettleFailure(p) THEN "failed" ELSE "applied")
    BY <1>1, <1>4, FilingIs
  <2>2. ctx[p].at <= clock
    BY <1>1, <2>1 DEF Stamped, Underway
  <2>3. \A r \in receipts' : r \in receipts \/ r.at = ctx[p].at \/ r.at = clock
    BY <2>1 DEF Resolve, WithReceipt
  <2>. QED
    BY <1>0, <1>1, <2>1, <2>2, <2>3 DEF Stamped, Alone, Calling, Underway
<1>5. CASE Tick
  <2>1. clock' = clock + 1 /\ UNCHANGED <<receipts, pc, ctx>>
    BY <1>5 DEF Tick, store
  <2>. QED
    BY <1>0, <1>1, <2>1 DEF Stamped
<1>. QED
  BY <1>1, <1>2, <1>3, <1>4, <1>5, StepsAreFew

\* The calls that can still file an attempt in minute t without a look at its
\* count: they have passed the gate, or began in an earlier minute and will
\* look at that one.
Due(t) ==
    {p \in Dispatchers :
        \/ pc[p] \in Underway /\ ctx[p].at = t
        \/ pc[p] \in Calling /\ t = clock /\ ctx[p].now # clock /\ MaxSendsPerMin # 0}

MinuteBound(t) ==
    Filed("attempt", Jobs, {t}) + Cardinality(Due(t)) <= MaxSendsPerMin + Cardinality(Dispatchers) - 1

\* A minute in which nothing is filed and nobody joins.
LEMMA MinuteStays ==
    ASSUME IInv, NEW t \in Instants, MinuteBound(t), UNCHANGED receipts, Due(t)' \subseteq Due(t)
    PROVE  MinuteBound(t)'
<1>1. Due(t) \in SUBSET Dispatchers
  BY DEF Due
<1>2. /\ Cardinality(Due(t)) \in Nat /\ Cardinality(Dispatchers) \in Nat
      /\ Cardinality(Due(t)') \in Nat /\ Cardinality(Due(t)') <= Cardinality(Due(t))
  BY <1>1, CallsAreFew
<1>3. Filed("attempt", Jobs, {t})' = Filed("attempt", Jobs, {t}) /\ Filed("attempt", Jobs, {t}) \in Nat
  BY FiledIsNat DEF Filed
<1>4. MaxSendsPerMin \in Nat
  BY BoundsAssumption
<1>. QED
  BY <1>2, <1>3, <1>4 DEF MinuteBound

\* A minute in which one call files its attempt.
LEMMA MinuteIsFiled ==
    ASSUME IInv, NEW p \in Dispatchers, Files(p), NEW t \in Instants, MinuteBound(t)
    PROVE  MinuteBound(t)'
<1>1. /\ p \in Processes /\ ctx[p].job \in Jobs /\ pc[p] = "settle" /\ pc'[p] = "idle"
      /\ Alone(p) /\ clock' = clock
      /\ Filed("attempt", Jobs, {t})' = IF ctx[p].at = t THEN Filed("attempt", Jobs, {t}) + 1
                                        ELSE Filed("attempt", Jobs, {t})
  BY FilingIs
<1>2. Dispatchers \subseteq Processes
  BY ConstantsAreTyped
<1>3. Due(t) \in SUBSET Dispatchers /\ Due(t)' \subseteq Due(t) \ {p}
  BY <1>1, <1>2 DEF Due, Alone, Calling, Underway
<1>4. ctx[p].at = t => p \in Due(t)
  BY <1>1 DEF Due, Underway
<1>5. /\ Cardinality(Due(t)) \in Nat /\ Cardinality(Dispatchers) \in Nat
      /\ Cardinality(Due(t)') \in Nat /\ Cardinality(Due(t)') <= Cardinality(Due(t))
      /\ ctx[p].at = t => Cardinality(Due(t)') + 1 <= Cardinality(Due(t))
  BY <1>3, <1>4, CallsAreFew
<1>6. Filed("attempt", Jobs, {t}) \in Nat /\ MaxSendsPerMin \in Nat
  BY BoundsAssumption, FiledIsNat
<1>. QED
  BY <1>1, <1>5, <1>6 DEF MinuteBound

\* check_throttle: whoever is let through finds room, or was counted before.
LEMMA MinuteIsPassed ==
    ASSUME IInv, NEW p \in Processes, Passes(p), NEW t \in Instants, MinuteBound(t)
    PROVE  MinuteBound(t)'
<1>0. /\ receipts' = receipts /\ clock' = clock /\ Alone(p) /\ Dispatchers \subseteq Processes
      /\ MaxSendsPerMin \in Nat
  BY ConstantsAreTyped, BoundsAssumption DEF Passes
<1>1. CASE p \notin Dispatchers \/ p \notin Due(t)' \/ p \in Due(t)
  <2>1. Due(t)' \subseteq Due(t)
    BY <1>0, <1>1 DEF Due, Alone
  <2>. QED
    BY <1>0, <2>1, MinuteStays
<1>2. CASE p \in Due(t)' /\ p \notin Due(t)
  <2>1. pc[p] = "throttle" /\ CheckThrottle(ctx[p].now) /\ ctx'[p].at = clock /\ pc'[p] = "attempt"
    BY <1>0, <1>2 DEF Passes, Due, Calling, Underway
  <2>2. t = clock
    BY <1>2, <2>1 DEF Due, Calling, Underway
  <2>3. Filed("attempt", Jobs, {ctx[p].now}) < MaxSendsPerMin
    BY <2>1 DEF CheckThrottle
  <2>4. MaxSendsPerMin # 0
    BY <1>0, <2>3, FiledIsNat
  <2>5. p \in Dispatchers
    BY <1>2 DEF Due
  <2>6. ctx[p].now = t
    BY <1>2, <2>1, <2>2, <2>4, <2>5 DEF Due, Calling
  <2>7. Filed("attempt", Jobs, {t})' = Filed("attempt", Jobs, {t}) /\ Filed("attempt", Jobs, {t}) \in Nat
    BY <1>0, FiledIsNat DEF Filed
  <2>8. Due(t)' \in SUBSET Dispatchers
    BY DEF Due
  <2>9. /\ Cardinality(Due(t)') \in Nat /\ Cardinality(Dispatchers) \in Nat
        /\ Cardinality(Due(t)') <= Cardinality(Dispatchers)
    BY <2>8, CallsAreFew
  <2>. QED
    BY <1>0, <2>3, <2>6, <2>7, <2>9 DEF MinuteBound
<1>. QED
  BY <1>1, <1>2

\* A new minute begins with no attempt, and may find every process late.
LEMMA MinuteBegins ==
    ASSUME IInv, Stamped, Tick, NEW t \in Instants, MinuteBound(t)
    PROVE  MinuteBound(t)'
<1>0. /\ clock' = clock + 1 /\ UNCHANGED <<receipts, pc, ctx>> /\ Dispatchers \subseteq Processes
      /\ clock \in Nat /\ t \in Nat /\ MaxSendsPerMin \in Nat
  BY ConstantsAreTyped, BoundsAssumption DEF Tick, store, IInv, TypeOK, Instants
<1>1. CASE t # clock'
  <2>1. Due(t)' \subseteq Due(t)
    BY <1>0, <1>1 DEF Due
  <2>. QED
    BY <1>0, <2>1, MinuteStays
<1>2. CASE t = clock'
  <2>1. Filed("attempt", Jobs, {t})' = 0
    <3>1. \A r \in receipts : r.at # t
      BY <1>0, <1>2 DEF Stamped, IInv, TypeOK, Receipts, Instants
    <3>2. Rows(receipts', "attempt", Jobs, {t}) = {}
      BY <1>0, <3>1 DEF Rows
    <3>. QED
      BY <3>2, FS_EmptySet DEF Filed
  <2>2. Due(t)' \in SUBSET Dispatchers
    BY DEF Due
  <2>3. /\ Cardinality(Due(t)') \in Nat /\ Cardinality(Dispatchers) \in Nat
        /\ Cardinality(Due(t)') <= Cardinality(Dispatchers)
    BY <2>2, CallsAreFew
  <2>4. Cardinality(Dispatchers) # 0
    BY ProcessesAssumption, FS_EmptySet
  <2>5. CASE MaxSendsPerMin # 0
    BY <1>0, <2>1, <2>3, <2>5 DEF MinuteBound
  <2>6. CASE MaxSendsPerMin = 0
    <3>1. \A p \in Dispatchers : pc[p] \in Underway => ctx[p].at \in Nat /\ ctx[p].at <= clock
      BY <1>0 DEF Stamped, IInv, TypeOK, Contexts, Instants
    <3>2. Due(t)' = {}
      BY <1>0, <1>2, <2>6, <3>1 DEF Due
    <3>3. Cardinality(Due(t)') = 0
      BY <3>2, FS_EmptySet
    <3>. QED
      BY <1>0, <2>1, <2>3, <2>4, <2>6, <3>3 DEF MinuteBound
  <2>. QED
    BY <2>5, <2>6
<1>. QED
  BY <1>1, <1>2

\* store.py:569, 601 and live/throttle.py: a minute carries at most one attempt
\* above the limit for each rival process.
THEOREM ThrottleOvershootIsBounded == Spec => []ThrottleOvershoot
<1>1. Init => Stamped /\ \A t \in Instants : MinuteBound(t)
  <2>1. ASSUME Init, NEW t \in Instants PROVE MinuteBound(t)
    <3>1. Due(t) = {} /\ Rows(receipts, "attempt", Jobs, {t}) = {}
      BY <2>1, ConstantsAreTyped DEF Init, Due, Rows, Calling, Underway
    <3>2. Cardinality(Due(t)) = 0 /\ Filed("attempt", Jobs, {t}) = 0
      BY <3>1, FS_EmptySet DEF Filed
    <3>3. Cardinality(Dispatchers) \in Nat /\ Cardinality(Dispatchers) # 0 /\ MaxSendsPerMin \in Nat
      BY ProcessesAssumption, BoundsAssumption, FS_EmptySet, FS_CardinalityType
    <3>. QED
      BY <3>2, <3>3 DEF MinuteBound
  <2>2. Init => Stamped
    BY DEF Init, Stamped, Calling, Underway
  <2>. QED
    BY <2>1, <2>2
<1>2. IInv /\ Stamped /\ (\A t \in Instants : MinuteBound(t)) /\ [Next]_vars
        => Stamped' /\ (\A t \in Instants : MinuteBound(t))'
  <2>1. SUFFICES ASSUME IInv, Stamped, [Next]_vars, NEW t \in Instants, MinuteBound(t)
                 PROVE  MinuteBound(t)'
    BY StampedStays
  <2>2. CASE UNCHANGED <<receipts, clock, pc, ctx>>
    <3>1. Due(t)' = Due(t)
      BY <2>2 DEF Due
    <3>. QED
      BY <2>1, <2>2, <3>1, MinuteStays
  <2>. QED
    BY <2>1, <2>2, MinuteIsPassed, MinuteIsFiled, MinuteBegins, StepsAreFew
<1>3. ASSUME IInv, \A t \in Instants : MinuteBound(t) PROVE ThrottleOvershoot
  <2>1. SUFFICES ASSUME NEW t \in Instants
                 PROVE  Filed("attempt", Jobs, {t}) <= MaxSendsPerMin + Cardinality(Dispatchers) - 1
    BY DEF ThrottleOvershoot
  <2>2. Due(t) \in SUBSET Dispatchers
    BY DEF Due
  <2>3. Cardinality(Due(t)) \in Nat /\ Cardinality(Dispatchers) \in Nat
    BY <2>2, CallsAreFew
  <2>4. Filed("attempt", Jobs, {t}) \in Nat /\ MaxSendsPerMin \in Nat
    BY <1>3, BoundsAssumption, FiledIsNat
  <2>. QED
    BY <1>3, <2>3, <2>4 DEF MinuteBound
<1>. QED
  BY <1>1, <1>2, <1>3, Inductive, PTL DEF Spec

-----------------------------------------------------------------------------
(***************************************************************************)
(* The breaker.                                                            *)
(***************************************************************************)
Window(t) == {u \in Instants : t <= u /\ u <= t + WINDOW}

Armed ==
    keys = {} /\ ~degraded => \A t \in Instants : Filed("attempt", Jobs, Window(t)) < BREAKER_LIMIT

\* dispatch_live: where no job has a key nothing has been delivered.
LEMMA NothingDelivered ==
    ASSUME IInv, LedgerAgrees, keys = {}, NEW T \in SUBSET Instants
    PROVE  Filed("applied", Jobs, T) = 0
<1>1. ASSUME NEW j \in Jobs PROVE Rows(receipts, "applied", {j}, Instants) = {}
  <2>1. Cardinality(Rows(receipts, "applied", {j}, Instants)) = 0
    BY DEF LedgerAgrees, Filed
  <2>. QED
    BY <2>1, RowsAreCounted, FS_EmptySet DEF IInv, Numbered
<1>2. Rows(receipts, "applied", Jobs, T) = {}
  BY <1>1 DEF Rows
<1>. QED
  BY <1>2, FS_EmptySet DEF Filed

\* consecutive_failures: the look-back from the beginning of a call covers
\* every window that its own attempt falls in.
LEMMA LookBackCovers ==
    ASSUME IInv, Stamped, LedgerAgrees, Armed, NEW p \in Dispatchers, SettleFailure(p),
           keys = {}, ~degraded', NEW t \in Instants
    PROVE  Filed("attempt", Jobs, Window(t))' < BREAKER_LIMIT
<1>. DEFINE now == ctx[p].now
<1>1. /\ p \in Processes /\ ctx[p].job \in Jobs /\ pc[p] = "settle"
      /\ now \in Nat /\ ctx[p].at \in Nat /\ t \in Nat /\ ctx[p].at \in Instants
      /\ Filed("attempt", Jobs, Window(t))' =
           IF ctx[p].at \in Window(t) THEN Filed("attempt", Jobs, Window(t)) + 1
           ELSE Filed("attempt", Jobs, Window(t))
  BY FilingIs DEF Files, Instants
<1>2. ~degraded /\ ~(Failures(now) >= BREAKER_LIMIT)
  BY DEF SettleFailure
<1>3. /\ WINDOW \in Nat /\ BREAKER_LIMIT \in Nat
      /\ Filed("attempt", Jobs, Window(t)) \in Nat
      /\ Filed("attempt", Jobs, Recent(now)) \in Nat
  BY BoundsAssumption, FiledIsNat
<1>4. CASE ctx[p].at \in Window(t)
  <2>1. now <= ctx[p].at
    BY <1>1 DEF Stamped, Underway
  <2>2. Window(t) \subseteq Recent(now)
    BY <1>1, <1>3, <1>4, <2>1 DEF Window, Recent, Instants
  <2>3. Rows(receipts, "attempt", Jobs, Window(t)) \subseteq Rows(receipts, "attempt", Jobs, Recent(now))
    BY <2>2 DEF Rows
  <2>4. Filed("attempt", Jobs, Window(t)) <= Filed("attempt", Jobs, Recent(now))
    BY <2>3, RowsAreCounted, FS_Subset DEF IInv, Numbered, Filed
  <2>5. Filed("applied", Jobs, Recent(now)) = 0
    BY NothingDelivered DEF Recent
  <2>6. Failures(now) = Filed("attempt", Jobs, Recent(now)) + 1
    BY <1>3, <2>5 DEF Failures
  <2>. QED
    BY <1>1, <1>2, <1>3, <1>4, <2>4, <2>6
<1>5. CASE ctx[p].at \notin Window(t)
  BY <1>1, <1>2, <1>5 DEF Armed
<1>. QED
  BY <1>4, <1>5

\* store.py:625-626, 640-641 and live/throttle.py: against a gateway that
\* delivers nothing the breaker opens before any look-back window carries
\* BREAKER_LIMIT attempts, however stale the instant a call looks back from.
THEOREM BreakerOpensInTime == Spec => []BreakerTrips
<1>1. Init => Stamped /\ Armed
  <2>1. ASSUME Init, NEW T PROVE Filed("attempt", Jobs, T) = 0
    <3>1. Rows(receipts, "attempt", Jobs, T) = {}
      BY <2>1 DEF Init, Rows
    <3>. QED
      BY <3>1, FS_EmptySet DEF Filed
  <2>2. Init => Stamped
    BY DEF Init, Stamped, Calling, Underway
  <2>3. 0 < BREAKER_LIMIT
    BY BoundsAssumption
  <2>. QED
    BY <2>1, <2>2, <2>3 DEF Armed
<1>2. IInv /\ LedgerAgrees /\ Stamped /\ Armed /\ [Next]_vars => Stamped' /\ Armed'
  <2>1. SUFFICES ASSUME IInv, LedgerAgrees, Stamped, Armed, [Next]_vars PROVE Armed'
    BY StampedStays
  <2>2. CASE UNCHANGED <<receipts, keys, degraded>>
    <3>1. \A T : Filed("attempt", Jobs, T)' = Filed("attempt", Jobs, T)
      BY <2>2 DEF Filed
    <3>2. \A t \in Instants : Filed("attempt", Jobs, Window(t))' = Filed("attempt", Jobs, Window(t))
      BY <3>1 DEF Window
    <3>. QED
      BY <2>1, <2>2, <3>2 DEF Armed
  <2>3. ASSUME NEW p \in Dispatchers, Files(p) PROVE Armed'
    <3>1. CASE SettleFailure(p)
      <4>1. keys' = keys
        BY <3>1 DEF SettleFailure
      <4>. QED
        BY <2>1, <3>1, <4>1, LookBackCovers DEF Armed
    <3>2. CASE ~SettleFailure(p)
      BY <2>1, <2>3, <3>2, FilingIs DEF Armed
    <3>. QED
      BY <3>1, <3>2
  <2>. QED
    BY <2>1, <2>2, <2>3, StepsAreFew DEF Passes, Tick, store
<1>3. Armed => BreakerTrips
  BY DEF Armed, BreakerTrips, Window
<1>. QED
  BY <1>1, <1>2, <1>3, Inductive, LedgerIsConsistent, PTL DEF Spec
=============================================================================
