------------------------ MODULE MaintenanceCycleProofs ------------------------
(***************************************************************************)
(* Theorems about MaintenanceCycle, for every set of invocations and        *)
(* cycles, every cap, interval and budget, and any number of deaths.        *)
(*                                                                         *)
(* The claim is what everything rests on: an invocation past it is the only *)
(* one that has its cycle in hand, and the row is an `attempt` until that   *)
(* invocation settles it.  The two caps are counted the same way: what has   *)
(* been done, and the invocations that may still do it.                     *)
(***************************************************************************)
EXTENDS MaintenanceCycle, FiniteSetTheorems, TLAPS

Entry == {"count", "interval", "block", "claim"}
\* Past the claim, before the settling write.
Holding == {"recheck", "gate", "refuse", "restart", "spent", "smoke"}

\* What an invocation has in hand is true of its row and of the service.
Sound(r) ==
    /\ pc[r] # "idle" => ctx[r].cycle \in Cycles
    /\ pc[r] \in Entry \cup {"recheck", "gate", "refuse"} => ctx[r].tries = 0
    /\ pc[r] = "restart" => ctx[r].tries < Budget
    /\ pc[r] = "smoke" => ctx[r].tries \in 1..Budget
    /\ pc[r] = "spent" => ctx[r].tries = Budget
    /\ pc[r] \in Holding => /\ rows[ctx[r].cycle].status = "attempt"
                            /\ restarts[ctx[r].cycle] = ctx[r].tries

\* One invocation at most is past the claim of a cycle.
Exclusive ==
    \A r, s \in Runners :
        pc[r] \in Holding /\ pc[s] \in Holding /\ ctx[r].cycle = ctx[s].cycle => r = s

\* RowTellsTheRestarts and NoDoubleFire, one cycle at a time.
Told(c) ==
    /\ restarts[c] <= Budget
    /\ rows[c].status \in {"none", "refused"} => restarts[c] = 0
    /\ rows[c].status = "failed" => restarts[c] = Budget
    /\ rows[c].status \in {"applied", "degraded"} => restarts[c] \in 1..Budget

IInv ==
    /\ TypeOK
    /\ \A r \in Runners : Sound(r)
    /\ Exclusive
    /\ \A c \in Cycles : Told(c)

-----------------------------------------------------------------------------
\* An invocation that has returned carries nothing.
LEMMA NothingIsTyped ==
    /\ {MaxClock, MaxCrashes, MaxPerDay, MinInterval, Budget} \subseteq Nat
    /\ 0 \in Instants /\ 0 \in 0..Budget
    /\ NoCtx \in [cycle : Cycles \cup {NoCycle}, now : Instants, tries : 0..Budget]
<1>1. MaxClock \in Nat /\ Budget \in Nat
  BY CycleAssumption
<1>2. 0 \in Instants /\ 0 \in 0..Budget
  BY <1>1 DEF Instants
<1>. QED
  BY <1>1, <1>2, CycleAssumption DEF NoCtx

\* claim_cycle, block: the insert makes the invocation the holder of its cycle.
LEMMA InsertKeeps ==
    ASSUME IInv, NEW r \in Runners, NEW l \in {"recheck", "refuse"},
           pc[r] \in {"block", "claim"}, rows[ctx[r].cycle] = NoRow, Insert(r, l),
           UNCHANGED <<degraded, deadletter, outside, crashes, history>>
    PROVE  IInv'
<1>. DEFINE c == ctx[r].cycle
<1>1. c \in Cycles /\ ctx[r].tries = 0 /\ rows[c].status = "none"
  BY DEF IInv, Sound, Entry, NoRow
<1>2. /\ pc' = [pc EXCEPT ![r] = l] /\ ctx' = [ctx EXCEPT ![r].now = 0]
      /\ rows' = [rows EXCEPT ![c] = [status |-> "attempt", at |-> ctx[r].now]]
      /\ restarts' = restarts
  BY DEF Insert, history
<1>3. TypeOK'
  BY <1>1, <1>2, NothingIsTyped DEF IInv, TypeOK, Labels, outside, history
<1>4. /\ \A s \in Runners : ctx'[s].cycle = ctx[s].cycle /\ ctx'[s].tries = ctx[s].tries
      /\ \A s \in Runners \ {r} : pc'[s] = pc[s]
      /\ pc'[r] = l
      /\ \A d \in Cycles \ {c} : rows'[d] = rows[d]
      /\ rows'[c].status = "attempt"
  BY <1>1, <1>2 DEF IInv, TypeOK
<1>. HIDE DEF c
<1>5. \A s \in Runners \ {r} : pc[s] \in Holding => ctx[s].cycle \in Cycles \ {c}
  BY <1>1 DEF IInv, Sound, Holding
<1>6. ASSUME NEW s \in Runners PROVE Sound(s)'
  <2>1. CASE s = r
    BY <1>1, <1>2, <1>4, <2>1 DEF IInv, Sound, Told, Holding, Entry, c
  <2>2. CASE s # r
    BY <1>2, <1>4, <1>5, <2>2 DEF IInv, Sound
  <2>. QED
    BY <2>1, <2>2
<1>7. Exclusive'
  BY <1>4, <1>5 DEF IInv, Exclusive, c
<1>8. ASSUME NEW d \in Cycles PROVE Told(d)'
  BY <1>1, <1>2, <1>4 DEF IInv, Told
<1>. QED
  BY <1>3, <1>6, <1>7, <1>8 DEF IInv

\* update_cycle_status by the holder of the cycle, with what was done.
LEMMA SettleKeeps ==
    ASSUME IInv, NEW r \in Runners, pc[r] \in Holding, NEW status \in Settled,
           NEW l \in {"idle", "degrade"},
           Mark(ctx[r].cycle, status),
           pc' = [pc EXCEPT ![r] = l],
           \/ l = "idle" /\ ctx' = [ctx EXCEPT ![r] = NoCtx]
           \/ l = "degrade" /\ ctx' = ctx,
           status = "refused" => ctx[r].tries = 0,
           status = "failed" => ctx[r].tries = Budget,
           status \in {"applied", "degraded"} => ctx[r].tries \in 1..Budget,
           UNCHANGED <<degraded, deadletter, outside, crashes, history>>
    PROVE  IInv'
<1>. DEFINE c == ctx[r].cycle
<1>1. c \in Cycles /\ restarts[c] = ctx[r].tries /\ rows[c].status = "attempt"
  BY DEF IInv, Sound, Holding
<1>2. /\ rows' = [rows EXCEPT ![c].status = status]
      /\ restarts' = restarts
  BY DEF Mark, history
<1>3. TypeOK'
  <2>1. rows' \in [Cycles -> [status : Settled \cup {"none", "attempt"}, at : Instants]]
    BY <1>2 DEF IInv, TypeOK
  <2>2. ctx' \in [Runners -> [cycle : Cycles \cup {NoCycle}, now : Instants, tries : 0..Budget]]
    BY NothingIsTyped DEF IInv, TypeOK
  <2>3. pc' \in [Runners -> Labels]
    BY DEF IInv, TypeOK, Labels
  <2>. QED
    BY <2>1, <2>2, <2>3 DEF IInv, TypeOK, outside, history
<1>4. /\ \A s \in Runners \ {r} : pc'[s] = pc[s] /\ ctx'[s] = ctx[s]
      /\ pc'[r] = l /\ (l = "degrade" => ctx'[r] = ctx[r])
      /\ \A d \in Cycles \ {c} : rows'[d] = rows[d]
      /\ rows'[c].status = status
  BY <1>1, <1>2 DEF IInv, TypeOK
<1>. HIDE DEF c
<1>5. \A s \in Runners \ {r} : pc[s] \in Holding => ctx[s].cycle \in Cycles \ {c}
  BY DEF IInv, Exclusive, Sound, Holding, c
<1>6. ASSUME NEW s \in Runners PROVE Sound(s)'
  <2>1. CASE s = r
    <3>1. pc'[s] = "idle" \/ (pc'[s] = "degrade" /\ ctx'[s] = ctx[s])
      BY <1>4, <2>1
    <3>. QED
      BY <1>1, <2>1, <3>1 DEF Sound, Holding, Entry, c
  <2>2. CASE s # r
    BY <1>2, <1>4, <1>5, <2>2 DEF IInv, Sound
  <2>. QED
    BY <2>1, <2>2
<1>7. Exclusive'
  BY <1>4 DEF IInv, Exclusive, Holding
<1>8. ASSUME NEW d \in Cycles PROVE Told(d)'
  <2>1. CASE d = c
    BY <1>1, <1>2, <1>4, <2>1 DEF IInv, Told, Settled, TypeOK, c
  <2>2. CASE d # c
    BY <1>2, <1>4, <2>2 DEF IInv, Told
  <2>. QED
    BY <2>1, <2>2
<1>. QED
  BY <1>3, <1>6, <1>7, <1>8 DEF IInv

\* An invocation that moves on, returns or dies without touching a row.
LEMMA MoveKeeps ==
    ASSUME IInv, NEW r \in Runners,
           \A s \in Runners \ {r} : pc'[s] = pc[s] /\ ctx'[s] = ctx[s],
           pc'[r] \in Holding => pc[r] \in Holding /\ ctx'[r] = ctx[r],
           Sound(r)', TypeOK', UNCHANGED <<rows, restarts>>
    PROVE  IInv'
<1>1. ASSUME NEW s \in Runners PROVE Sound(s)'
  BY DEF IInv, Sound
<1>2. Exclusive'
  BY DEF IInv, Exclusive
<1>3. \A c \in Cycles : Told(c)'
  BY DEF IInv, Told
<1>. QED
  BY <1>1, <1>2, <1>3 DEF IInv

\* restart_unit, by the holder.
LEMMA RestartKeeps ==
    ASSUME IInv, NEW r \in Runners, NEW ok \in BOOLEAN, Restart(r, ok)
    PROVE  IInv'
<1>. DEFINE c == ctx[r].cycle
            tries == ctx[r].tries + 1
            l == IF ok THEN "smoke" ELSE IF tries < Budget THEN "restart" ELSE "spent"
<1>1. /\ pc[r] = "restart" /\ c \in Cycles /\ tries \in 1..Budget
      /\ restarts[c] + 1 = tries /\ rows[c].status = "attempt"
  BY CycleAssumption DEF Restart, IInv, Sound, Holding, TypeOK
<1>2. /\ restarts' = [restarts EXCEPT ![c] = @ + 1] /\ rows' = rows
      /\ ctx' = [ctx EXCEPT ![r].tries = tries]
      /\ pc' = [pc EXCEPT ![r] = l]
  BY <1>1 DEF Restart, durable
<1>3. TypeOK'
  <2>1. late' \in Nat
    BY DEF Restart, IInv, TypeOK
  <2>2. l \in Labels
    BY DEF Labels
  <2>. QED
    BY <1>1, <1>2, <2>1, <2>2, CycleAssumption DEF Restart, IInv, TypeOK, durable, outside
<1>4. /\ \A s \in Runners \ {r} : pc'[s] = pc[s] /\ ctx'[s] = ctx[s]
      /\ pc'[r] = l /\ ctx'[r].tries = tries /\ ctx'[r].cycle = c
      /\ \A d \in Cycles \ {c} : restarts'[d] = restarts[d]
      /\ restarts'[c] = tries
  BY <1>1, <1>2 DEF IInv, TypeOK
<1>5. \A s \in Runners \ {r} : pc[s] \in Holding => ctx[s].cycle \in Cycles \ {c}
  BY <1>1 DEF IInv, Exclusive, Sound, Holding
<1>6. ASSUME NEW s \in Runners PROVE Sound(s)'
  <2>1. CASE s = r
    BY <1>1, <1>2, <1>4, <2>1, CycleAssumption DEF Sound, Holding, Entry
  <2>2. CASE s # r
    BY <1>2, <1>4, <1>5, <2>2 DEF IInv, Sound
  <2>. QED
    BY <2>1, <2>2
<1>7. Exclusive'
  BY <1>1, <1>4 DEF IInv, Exclusive, Holding
<1>8. ASSUME NEW d \in Cycles PROVE Told(d)'
  BY <1>1, <1>2, <1>4 DEF IInv, Told
<1>. QED
  BY <1>3, <1>6, <1>7, <1>8 DEF IInv

\* Every step of an invocation.
LEMMA StepKeeps ==
    ASSUME IInv, NEW r \in Runners, Step(r)
    PROVE  IInv'
<1>. DEFINE To(l) == pc' = [pc EXCEPT ![r] = l]
<1>1. CASE CountGate(r) \/ IntervalGate(r) \/ Recheck(r) \/ \E wired \in BOOLEAN : DegradedGate(r, wired)
  <2>1. PICK l \in {"interval", "block", "claim", "gate", "refuse", "restart"} :
            /\ pc' = [pc EXCEPT ![r] = l] /\ ctx' = ctx
            /\ UNCHANGED <<durable, outside, crashes, history>>
            /\ \/ pc[r] \in Entry /\ l \in Entry
               \/ pc[r] = "recheck" /\ l \in {"refuse", "gate"}
               \/ pc[r] = "gate" /\ l \in {"refuse", "restart"} /\ (l = "restart" => Budget # 0)
    BY <1>1 DEF CountGate, IntervalGate, Recheck, DegradedGate, Goto, Entry
  <2>2. TypeOK'
    BY <2>1 DEF IInv, TypeOK, Labels, durable, outside, history
  <2>3. /\ pc'[r] = l /\ \A s \in Runners \ {r} : pc'[s] = pc[s] /\ ctx'[s] = ctx[s]
        /\ UNCHANGED <<rows, restarts, ctx>>
    BY <2>1 DEF IInv, TypeOK, durable, history
  <2>4. Sound(r)'
    BY <2>1, <2>3, CycleAssumption DEF IInv, Sound, Entry, Holding
  <2>. QED
    BY <2>1, <2>2, <2>3, <2>4, MoveKeeps DEF Entry, Holding
<1>2. CASE Block(r) \/ Claim(r)
  <2>1. CASE rows[ctx[r].cycle] = NoRow
    <3>1. PICK l \in {"recheck", "refuse"} : Insert(r, l)
      BY <1>2, <2>1 DEF Block, Claim
    <3>. QED
      BY <1>2, <2>1, <3>1, InsertKeeps DEF Block, Claim
  <2>2. CASE rows[ctx[r].cycle] # NoRow
    <3>1. /\ pc' = [pc EXCEPT ![r] = "idle"] /\ ctx' = [ctx EXCEPT ![r] = NoCtx]
          /\ rows' = rows /\ UNCHANGED <<degraded, deadletter, outside, crashes, history>>
      BY <1>2, <2>2 DEF Block, Claim, Return
    <3>2. TypeOK'
      BY <3>1, NothingIsTyped DEF IInv, TypeOK, Labels, outside, history
    <3>3. /\ pc'[r] = "idle" /\ \A s \in Runners \ {r} : pc'[s] = pc[s] /\ ctx'[s] = ctx[s]
      BY <3>1 DEF IInv, TypeOK
    <3>4. Sound(r)'
      BY <3>3 DEF Sound, Entry, Holding
    <3>. QED
      BY <3>1, <3>2, <3>3, <3>4, MoveKeeps DEF Holding, history
  <2>. QED
    BY <2>1, <2>2
<1>3. CASE Refuse(r)
  BY <1>3, SettleKeeps DEF Refuse, Return, IInv, Sound, Holding, Settled
<1>4. CASE Spent(r)
  BY <1>4, SettleKeeps DEF Spent, Return, IInv, Sound, Holding, Settled
<1>5. ASSUME NEW healthy \in BOOLEAN, PostSmoke(r, healthy) PROVE IInv'
  <2>1. pc[r] \in Holding /\ ctx[r].tries \in 1..Budget
    BY <1>5 DEF PostSmoke, IInv, Sound, Holding
  <2>2. CASE healthy
    BY <1>5, <2>1, <2>2, SettleKeeps DEF PostSmoke, Return, Settled
  <2>3. CASE ~healthy
    BY <1>5, <2>1, <2>3, SettleKeeps DEF PostSmoke, Goto, Settled
  <2>. QED
    BY <2>2, <2>3
<1>6. CASE SetDegraded(r) \/ WriteDeadletter(r)
  <2>1. PICK l \in {"deadletter", "idle"} :
            /\ pc' = [pc EXCEPT ![r] = l]
            /\ (l = "deadletter" /\ ctx' = ctx) \/ ctx' = [ctx EXCEPT ![r] = NoCtx]
    BY <1>6 DEF SetDegraded, WriteDeadletter, Goto, Return
  <2>2. /\ pc[r] \in {"degrade", "deadletter"}
        /\ degraded' \in BOOLEAN /\ deadletter' \subseteq Cycles
        /\ UNCHANGED <<rows, outside, crashes, history>>
    BY <1>6 DEF SetDegraded, WriteDeadletter, IInv, TypeOK, Sound
  <2>3. TypeOK'
    BY <2>1, <2>2, NothingIsTyped DEF IInv, TypeOK, Labels, outside, history
  <2>4. /\ pc'[r] = l /\ \A s \in Runners \ {r} : pc'[s] = pc[s] /\ ctx'[s] = ctx[s]
        /\ l = "deadletter" => ctx'[r] = ctx[r] \/ ctx'[r] = NoCtx
    BY <2>1 DEF IInv, TypeOK
  <2>5. l = "deadletter" => ctx'[r] = ctx[r]
    BY <1>6, <2>1, <2>4 DEF SetDegraded, WriteDeadletter, Goto, Return, IInv, TypeOK
  <2>6. Sound(r)'
    BY <2>2, <2>4, <2>5 DEF IInv, Sound, Entry, Holding
  <2>. QED
    BY <2>2, <2>3, <2>4, <2>6, MoveKeeps DEF Holding, history
<1>. QED
  BY <1>1, <1>2, <1>3, <1>4, <1>5, <1>6, RestartKeeps DEF Step

LEMMA NextKeeps ==
    ASSUME IInv, [Next]_vars
    PROVE  IInv'
<1>1. ASSUME NEW r \in Runners, NEW c \in Cycles, NEW eligible \in BOOLEAN, Invoke(r, c, eligible)
      PROVE  IInv'
  <2>1. TypeOK'
    <3>1. [NoCtx EXCEPT !.cycle = c, !.now = clock]
            \in [cycle : Cycles \cup {NoCycle}, now : Instants, tries : 0..Budget]
      BY NothingIsTyped DEF IInv, TypeOK
    <3>. QED
      BY <1>1, <3>1 DEF Invoke, IInv, TypeOK, Labels, durable, outside, history
  <2>2. /\ \A s \in Runners \ {r} : pc'[s] = pc[s] /\ ctx'[s] = ctx[s]
        /\ pc'[r] \in {"block", "count"} /\ ctx'[r].cycle = c /\ ctx'[r].tries = 0
        /\ UNCHANGED <<rows, restarts>>
    BY <1>1 DEF Invoke, IInv, TypeOK, NoCtx, durable, history
  <2>3. Sound(r)'
    BY <2>2 DEF Sound, Entry, Holding
  <2>. QED
    BY <2>1, <2>2, <2>3, MoveKeeps DEF Holding
<1>2. ASSUME NEW r \in Runners, Crash(r) PROVE IInv'
  <2>1. TypeOK'
    BY <1>2, NothingIsTyped DEF Crash, Return, IInv, TypeOK, Labels, durable, outside, history
  <2>2. /\ \A s \in Runners \ {r} : pc'[s] = pc[s] /\ ctx'[s] = ctx[s]
        /\ pc'[r] = "idle" /\ UNCHANGED <<rows, restarts>>
    BY <1>2 DEF Crash, Return, IInv, TypeOK, durable, history
  <2>3. Sound(r)'
    BY <2>2 DEF Sound, Entry, Holding
  <2>. QED
    BY <2>1, <2>2, <2>3, MoveKeeps DEF Holding
<1>3. CASE Halt \/ Tick \/ UNCHANGED vars
  <2>1. TypeOK'
    <3>1. halted' \in BOOLEAN
      BY <1>3, Zenon DEF Halt, Tick, vars, outside, IInv, TypeOK
    <3>2. UNCHANGED <<durable, pc, ctx, crashes, history>>
      BY <1>3 DEF Halt, Tick, vars
    <3>3. clock' = clock \/ (clock < MaxClock /\ clock' = clock + 1)
      BY <1>3 DEF Halt, Tick, vars, outside
    <3>4. clock' \in Instants
      BY <3>3, NothingIsTyped DEF IInv, TypeOK, Instants
    <3>. QED
      BY <3>1, <3>2, <3>4 DEF IInv, TypeOK, durable, history
  <2>2. UNCHANGED <<rows, pc, ctx, restarts>>
    BY <1>3 DEF Halt, Tick, vars, durable, outside, history
  <2>. QED
    BY <2>1, <2>2 DEF IInv, Sound, Exclusive, Told
<1>. QED
  BY <1>1, <1>2, <1>3, StepKeeps DEF Next

\* run_cycle: whatever invocations overlap or die, each row and each holder
\* stay as IInv says.
THEOREM Inductive == Spec => []IInv
<1>1. Init => IInv
  <2>1. Init => TypeOK
    <3>1. NoRow \in [status : Settled \cup {"none", "attempt"}, at : Instants]
      BY NothingIsTyped DEF NoRow
    <3>2. MaxCrashes \in Nat /\ MaxClock \in Nat
      BY NothingIsTyped
    <3>3. ASSUME Init PROVE /\ rows \in [Cycles -> [status : Settled \cup {"none", "attempt"}, at : Instants]]
                            /\ ctx \in [Runners -> [cycle : Cycles \cup {NoCycle}, now : Instants, tries : 0..Budget]]
                            /\ pc \in [Runners -> Labels]
      BY <3>1, <3>3, NothingIsTyped DEF Init, Labels
    <3>4. ASSUME Init PROVE /\ deadletter \subseteq Cycles
                            /\ clock \in Instants /\ crashes \in 0..MaxCrashes
                            /\ restarts \in [Cycles -> Nat] /\ late \in Nat
      BY <3>2, <3>4, NothingIsTyped, SMT DEF Init
    <3>5. ASSUME Init PROVE degraded \in BOOLEAN /\ halted \in BOOLEAN
      BY <3>5, Zenon DEF Init
    <3>. QED
      BY <3>3, <3>4, <3>5 DEF TypeOK
  <2>2. Init => /\ \A r \in Runners : Sound(r)
                /\ Exclusive
                /\ \A c \in Cycles : Told(c)
    BY NothingIsTyped DEF Init, Sound, Exclusive, Told, NoRow, Entry, Holding
  <2>. QED
    BY <2>1, <2>2 DEF IInv
<1>2. IInv /\ [Next]_vars => IInv'
  BY NextKeeps
<1>. QED
  BY <1>1, <1>2, PTL DEF Spec

\* Rows, flags, positions and counts keep their types.
THEOREM TypeCorrect == Spec => []TypeOK
<1>1. IInv => TypeOK
  BY DEF IInv
<1>. QED
  BY <1>1, Inductive, PTL

\* claim_cycle: the restarts of a cycle never exceed one invocation's budget.
THEOREM CycleFiresOnce == Spec => []NoDoubleFire
<1>1. IInv => NoDoubleFire
  BY DEF IInv, Told, NoDoubleFire
<1>. QED
  BY <1>1, Inductive, PTL

\* update_cycle_status: a settled row says what was done to the service.
THEOREM RowsAreTruthful == Spec => []RowTellsTheRestarts
<1>1. IInv => RowTellsTheRestarts
  BY DEF IInv, Told, RowTellsTheRestarts
<1>. QED
  BY <1>1, Inductive, PTL

\* update_cycle_status: only the holder of an `attempt` writes a row, and a
\* claim only a row that is new.
THEOREM SettledStays == Spec => SettledRowIsFinal
<1>. DEFINE Final == \A c \in Cycles : rows[c].status \in Settled => rows'[c] = rows[c]
<1>1. ASSUME IInv, [Next]_vars PROVE Final
  <2>1. ASSUME NEW c \in Cycles, rows[c].status \in {"none", "attempt"},
               \A d \in Cycles \ {c} : rows'[d] = rows[d]
        PROVE  Final
    BY <2>1 DEF Settled
  <2>2. ASSUME NEW r \in Runners, Step(r) PROVE Final
    <3>1. CASE rows' = rows
      BY <3>1
    <3>2. CASE (Block(r) \/ Claim(r)) /\ rows' # rows
      <4>1. rows[ctx[r].cycle] = NoRow /\ pc[r] \in Entry
        BY <3>2 DEF Block, Claim, Entry
      <4>2. rows' = [rows EXCEPT ![ctx[r].cycle] = [status |-> "attempt", at |-> ctx[r].now]]
        BY <3>2, <4>1 DEF Block, Claim, Insert
      <4>3. ctx[r].cycle \in Cycles
        BY <1>1, <4>1 DEF IInv, Sound, Entry
      <4>4. \A d \in Cycles \ {ctx[r].cycle} : rows'[d] = rows[d]
        BY <1>1, <4>2, <4>3 DEF IInv, TypeOK
      <4>. QED
        BY <2>1, <4>1, <4>3, <4>4 DEF NoRow
    <3>3. CASE pc[r] \in Holding /\ \E status \in Settled : Mark(ctx[r].cycle, status)
      <4>1. ctx[r].cycle \in Cycles /\ rows[ctx[r].cycle].status = "attempt"
        BY <1>1, <3>3 DEF IInv, Sound, Holding
      <4>2. \A d \in Cycles \ {ctx[r].cycle} : rows'[d] = rows[d]
        BY <1>1, <3>3, <4>1 DEF Mark, IInv, TypeOK
      <4>. QED
        BY <2>1, <4>1, <4>2
    <3>4. CASE Refuse(r) \/ Spent(r) \/ \E ok \in BOOLEAN : PostSmoke(r, ok)
      BY <3>3, <3>4 DEF Refuse, Spent, PostSmoke, Holding, Settled
    <3>. QED
      BY <2>2, <3>1, <3>2, <3>4
         DEF Step, CountGate, IntervalGate, Recheck, DegradedGate, Restart, SetDegraded,
             WriteDeadletter, durable
  <2>3. CASE rows' = rows
    BY <2>3
  <2>. QED
    BY <1>1, <2>2, <2>3 DEF Next, Invoke, Crash, Halt, Tick, vars, durable
<1>2. Spec => [][Final]_vars
  BY <1>1, Inductive, PTL DEF Spec
<1>. QED
  BY <1>2 DEF SettledRowIsFinal

-----------------------------------------------------------------------------
(***************************************************************************)
(* The caps: what was done and what is in flight.                          *)
(***************************************************************************)
\* Invocations that may still apply a cycle of these instants.
InFlight(T) ==
    {r \in Runners : \/ pc[r] \in {"interval", "claim"} /\ ctx[r].now \in T
                     \/ pc[r] \in {"recheck", "gate", "restart", "smoke"}
                        /\ rows[ctx[r].cycle].at \in T}

\* Invocations past the degraded gate that have not called the service yet.
Armed == {r \in Runners : pc[r] = "restart" /\ ctx[r].tries = 0}

DayBound ==
    \A t \in Instants :
        Cardinality(AppliedAt(SameDay(t))) + Cardinality(InFlight(SameDay(t)))
            <= MaxPerDay + Cardinality(Runners) - 1

LateBound ==
    /\ ~degraded => late = 0
    /\ degraded => late + Cardinality(Armed) <= Cardinality(Runners) - 1

LEMMA Counts ==
    /\ IsFiniteSet(Runners) /\ Cardinality(Runners) \in Nat \ {0}
    /\ MaxPerDay \in Nat
    /\ \A T : /\ IsFiniteSet(AppliedAt(T)) /\ Cardinality(AppliedAt(T)) \in Nat
              /\ IsFiniteSet(InFlight(T)) /\ Cardinality(InFlight(T)) \in 0..Cardinality(Runners)
    /\ IsFiniteSet(Armed) /\ Cardinality(Armed) \in 0..Cardinality(Runners)
<1>1. IsFiniteSet(Runners) /\ Runners # {} /\ IsFiniteSet(Cycles) /\ MaxPerDay \in Nat
  BY CycleAssumption
<1>2. Cardinality(Runners) \in Nat \ {0}
  BY <1>1, FS_CardinalityType, FS_EmptySet
<1>3. \A T : AppliedAt(T) \subseteq Cycles /\ InFlight(T) \subseteq Runners
  BY DEF AppliedAt, InFlight
<1>4. Armed \subseteq Runners
  BY DEF Armed
<1>5. \A S : S \subseteq Runners => IsFiniteSet(S) /\ Cardinality(S) \in 0..Cardinality(Runners)
  BY <1>1, <1>2, FS_Subset, FS_CardinalityType
<1>6. \A S : S \subseteq Cycles => IsFiniteSet(S) /\ Cardinality(S) \in Nat
  BY <1>1, FS_Subset, FS_CardinalityType
<1>. QED
  BY <1>1, <1>2, <1>3, <1>4, <1>5, <1>6

\* Nothing new is applied, and nobody new is in flight.
LEMMA NoneJoins ==
    ASSUME DayBound, NEW t \in Instants,
           AppliedAt(SameDay(t))' \subseteq AppliedAt(SameDay(t)),
           InFlight(SameDay(t))' \subseteq InFlight(SameDay(t))
    PROVE  Cardinality(AppliedAt(SameDay(t))') + Cardinality(InFlight(SameDay(t))')
              <= MaxPerDay + Cardinality(Runners) - 1
<1>. DEFINE A == AppliedAt(SameDay(t))
            F == InFlight(SameDay(t))
<1>1. /\ IsFiniteSet(A) /\ Cardinality(A) \in Nat /\ IsFiniteSet(F) /\ Cardinality(F) \in Nat
      /\ Cardinality(Runners) \in Nat /\ MaxPerDay \in Nat
  BY Counts
<1>2. Cardinality(A) + Cardinality(F) <= MaxPerDay + Cardinality(Runners) - 1
  BY DEF DayBound
<1>3. Cardinality(A') <= Cardinality(A) /\ Cardinality(A') \in Nat
  BY <1>1, FS_Subset, FS_CardinalityType
<1>4. Cardinality(F') <= Cardinality(F) /\ Cardinality(F') \in Nat
  BY <1>1, FS_Subset, FS_CardinalityType
<1>. HIDE DEF A, F
<1>5. Cardinality(A') + Cardinality(F') <= MaxPerDay + Cardinality(Runners) - 1
  BY <1>1, <1>2, <1>3, <1>4
<1>. QED
  BY <1>5 DEF A, F

\* The steps that write a row or pass the day's gate, by what they do to both
\* counts; all others disturb neither.
LEMMA DayKeeps ==
    ASSUME IInv, IInv', DayBound, [Next]_vars
    PROVE  DayBound'
<1>1. SUFFICES ASSUME NEW t \in Instants
               PROVE  Cardinality(AppliedAt(SameDay(t))') + Cardinality(InFlight(SameDay(t))')
                        <= MaxPerDay + Cardinality(Runners) - 1
  BY DEF DayBound, SameDay
<1>. DEFINE D == SameDay(t)
<1>2. ASSUME NEW r \in Runners, rows' = rows,
             \A s \in Runners \ {r} : pc'[s] = pc[s] /\ ctx'[s] = ctx[s],
             r \notin InFlight(D)' \/ r \in InFlight(D)
      PROVE  /\ AppliedAt(D)' \subseteq AppliedAt(D) /\ InFlight(D)' \subseteq InFlight(D)
  BY <1>2 DEF AppliedAt, InFlight, SameDay
<1>3. ASSUME NEW r \in Runners, CountGate(r)
      PROVE  Cardinality(AppliedAt(D)') + Cardinality(InFlight(D)') <= MaxPerDay + Cardinality(Runners) - 1
  <2>1. /\ rows' = rows /\ ctx' = ctx
        /\ \A s \in Runners \ {r} : pc'[s] = pc[s]
        /\ pc[r] = "count"
    BY <1>3 DEF CountGate, Goto, durable, IInv, TypeOK
  <2>2. CASE pc'[r] = "interval" /\ ctx[r].now \in D
    <3>1. CyclesToday(ctx[r].now) < MaxPerDay
      BY <1>3, <2>2 DEF CountGate, Goto, IInv, TypeOK
    <3>2. SameDay(ctx[r].now) = D
      BY <2>2 DEF SameDay
    <3>3. Cardinality(AppliedAt(D)) < MaxPerDay
      BY <3>1, <3>2 DEF CyclesToday
    <3>4. AppliedAt(D)' = AppliedAt(D)
      BY <2>1 DEF AppliedAt, SameDay
    <3>5. InFlight(D)' \subseteq Runners
      BY DEF InFlight
    <3>6. Cardinality(InFlight(D)') <= Cardinality(Runners) /\ Cardinality(InFlight(D)') \in Nat
      BY <3>5, Counts, FS_Subset, FS_CardinalityType
    <3>. QED
      BY <3>3, <3>4, <3>6, Counts
  <2>3. CASE ~(pc'[r] = "interval" /\ ctx[r].now \in D)
    <3>1. pc'[r] \in {"interval", "block"}
      BY <1>3 DEF CountGate, Goto, IInv, TypeOK
    <3>2. r \notin InFlight(D)'
      BY <2>1, <2>3, <3>1 DEF InFlight, SameDay
    <3>. QED
      BY <1>2, <2>1, <3>2, NoneJoins
  <2>. QED
    BY <2>2, <2>3
<1>4. ASSUME NEW r \in Runners, PostSmoke(r, TRUE)
      PROVE  Cardinality(AppliedAt(D)') + Cardinality(InFlight(D)') <= MaxPerDay + Cardinality(Runners) - 1
  <2>. DEFINE c == ctx[r].cycle
  <2>1. /\ pc[r] = "smoke" /\ c \in Cycles /\ rows[c].status = "attempt"
        /\ rows' = [rows EXCEPT ![c].status = "applied"]
        /\ pc' = [pc EXCEPT ![r] = "idle"] /\ ctx' = [ctx EXCEPT ![r] = NoCtx]
    BY <1>4 DEF PostSmoke, Mark, Return, IInv, Sound, Holding
  <2>2. /\ \A d \in Cycles : rows'[d].at = rows[d].at
        /\ \A d \in Cycles \ {c} : rows'[d] = rows[d]
        /\ rows'[c].status = "applied"
        /\ \A s \in Runners \ {r} : pc'[s] = pc[s] /\ ctx'[s] = ctx[s]
        /\ pc'[r] = "idle"
    BY <2>1 DEF IInv, TypeOK
  <2>. HIDE DEF c
  <2>3. \A s \in Runners : pc[s] # "idle" => ctx[s].cycle \in Cycles
    BY DEF IInv, Sound
  <2>4. InFlight(D)' = InFlight(D) \ {r}
    BY <2>2, <2>3 DEF InFlight, SameDay
  <2>5. CASE rows[c].at \in D
    <3>1. AppliedAt(D)' = AppliedAt(D) \cup {c} /\ c \notin AppliedAt(D)
      BY <2>1, <2>2, <2>5 DEF AppliedAt, SameDay
    <3>2. r \in InFlight(D)
      BY <2>1, <2>5 DEF InFlight, c
    <3>3. Cardinality(AppliedAt(D) \cup {c}) = Cardinality(AppliedAt(D)) + 1
      BY <3>1, Counts, FS_AddElement
    <3>4. Cardinality(InFlight(D) \ {r}) = Cardinality(InFlight(D)) - 1
      BY <3>2, Counts, FS_RemoveElement
    <3>5. Cardinality(AppliedAt(D)) + Cardinality(InFlight(D)) <= MaxPerDay + Cardinality(Runners) - 1
      BY DEF DayBound
    <3>. HIDE DEF D
    <3>. QED
      BY <2>4, <3>1, <3>3, <3>4, <3>5, Counts
  <2>6. CASE rows[c].at \notin D
    <3>1. AppliedAt(D)' \subseteq AppliedAt(D)
      BY <2>1, <2>2, <2>6 DEF AppliedAt, SameDay
    <3>. QED
      BY <2>4, <3>1, NoneJoins
  <2>. QED
    BY <2>5, <2>6
<1>5. ASSUME NEW r \in Runners, pc[r] \in Holding, NEW status \in Settled \ {"applied"},
             Mark(ctx[r].cycle, status),
             \A s \in Runners \ {r} : pc'[s] = pc[s] /\ ctx'[s] = ctx[s],
             pc'[r] \in {"idle", "degrade"}
      PROVE  AppliedAt(D)' \subseteq AppliedAt(D) /\ InFlight(D)' \subseteq InFlight(D)
  <2>. DEFINE c == ctx[r].cycle
  <2>1. /\ c \in Cycles /\ \A s \in Runners : pc[s] # "idle" => ctx[s].cycle \in Cycles
    BY <1>5 DEF IInv, Sound, Holding
  <2>2. /\ \A d \in Cycles : rows'[d].at = rows[d].at
        /\ \A d \in Cycles \ {c} : rows'[d] = rows[d]
        /\ rows'[c].status = status
    BY <1>5, <2>1 DEF Mark, IInv, TypeOK
  <2>. QED
    BY <1>5, <2>1, <2>2 DEF AppliedAt, InFlight, SameDay
<1>6. ASSUME NEW r \in Runners, NEW l \in {"recheck", "refuse"}, pc[r] \in {"block", "claim"},
             l = "recheck" => pc[r] = "claim",
             rows[ctx[r].cycle] = NoRow, Insert(r, l)
      PROVE  AppliedAt(D)' \subseteq AppliedAt(D) /\ InFlight(D)' \subseteq InFlight(D)
  <2>. DEFINE c == ctx[r].cycle
  <2>1. /\ c \in Cycles /\ rows[c].status = "none"
    BY <1>6 DEF IInv, Sound, NoRow
  <2>2. /\ \A d \in Cycles \ {c} : rows'[d] = rows[d]
        /\ rows'[c].status = "attempt" /\ rows'[c].at = ctx[r].now
        /\ \A s \in Runners \ {r} : pc'[s] = pc[s] /\ ctx'[s] = ctx[s]
        /\ pc'[r] = l /\ ctx'[r].cycle = c
    BY <1>6, <2>1 DEF Insert, IInv, TypeOK
  <2>3. \A s \in Runners \ {r} : pc[s] \in Holding => ctx[s].cycle \in Cycles \ {c}
    BY <2>1 DEF IInv, Sound, Holding
  <2>4. AppliedAt(D)' \subseteq AppliedAt(D)
    BY <2>1, <2>2 DEF AppliedAt, SameDay
  <2>5. ASSUME NEW s \in InFlight(D)' PROVE s \in InFlight(D)
    <3>1. CASE s = r
      BY <1>6, <2>2, <2>5, <3>1 DEF InFlight, SameDay
    <3>2. CASE s # r
      BY <2>2, <2>3, <2>5, <3>2 DEF InFlight, SameDay, Holding
    <3>. QED
      BY <3>1, <3>2
  <2>. QED
    BY <2>4, <2>5
<1>7. ASSUME NEW r \in Runners, Block(r) \/ Claim(r)
      PROVE  AppliedAt(D)' \subseteq AppliedAt(D) /\ InFlight(D)' \subseteq InFlight(D)
  <2>1. CASE rows[ctx[r].cycle] = NoRow
    BY <1>6, <1>7, <2>1 DEF Block, Claim
  <2>2. CASE rows[ctx[r].cycle] # NoRow
    <3>1. /\ rows' = rows /\ pc'[r] = "idle"
          /\ \A s \in Runners \ {r} : pc'[s] = pc[s] /\ ctx'[s] = ctx[s]
      BY <1>7, <2>2 DEF Block, Claim, Return, IInv, TypeOK
    <3>. QED
      BY <1>2, <3>1 DEF InFlight
  <2>. QED
    BY <2>1, <2>2
<1>8. ASSUME NEW r \in Runners, Refuse(r) \/ Spent(r) \/ PostSmoke(r, FALSE)
      PROVE  AppliedAt(D)' \subseteq AppliedAt(D) /\ InFlight(D)' \subseteq InFlight(D)
  <2>1. /\ pc[r] \in Holding /\ pc'[r] \in {"idle", "degrade"}
        /\ \A s \in Runners \ {r} : pc'[s] = pc[s] /\ ctx'[s] = ctx[s]
    BY <1>8 DEF Refuse, Spent, PostSmoke, Return, Goto, Holding, IInv, TypeOK
  <2>2. \E status \in Settled \ {"applied"} : Mark(ctx[r].cycle, status)
    BY <1>8 DEF Refuse, Spent, PostSmoke, Settled
  <2>. QED
    BY <1>5, <2>1, <2>2
<1>9. ASSUME NEW r \in Runners, IntervalGate(r) \/ Recheck(r) \/ (\E wired \in BOOLEAN : DegradedGate(r, wired))
      PROVE  AppliedAt(D)' \subseteq AppliedAt(D) /\ InFlight(D)' \subseteq InFlight(D)
  <2>1. /\ rows' = rows /\ ctx' = ctx
        /\ \A s \in Runners \ {r} : pc'[s] = pc[s]
        /\ \/ pc[r] = "interval" /\ pc'[r] \in {"claim", "block"}
           \/ pc[r] \in {"recheck", "gate"} /\ pc'[r] \in {"gate", "refuse", "restart"}
    BY <1>9 DEF IntervalGate, Recheck, DegradedGate, Goto, durable, IInv, TypeOK
  <2>2. r \notin InFlight(D)' \/ r \in InFlight(D)
    BY <2>1 DEF InFlight, SameDay
  <2>. QED
    BY <1>2, <2>1, <2>2
<1>10. ASSUME NEW r \in Runners, NEW ok \in BOOLEAN, Restart(r, ok)
       PROVE  AppliedAt(D)' \subseteq AppliedAt(D) /\ InFlight(D)' \subseteq InFlight(D)
  <2>1. /\ rows' = rows /\ pc[r] = "restart"
        /\ \A s \in Runners \ {r} : pc'[s] = pc[s] /\ ctx'[s] = ctx[s]
        /\ pc'[r] \in {"smoke", "restart", "spent"} /\ ctx'[r].cycle = ctx[r].cycle
    BY <1>10 DEF Restart, durable, IInv, TypeOK
  <2>2. r \notin InFlight(D)' \/ r \in InFlight(D)
    BY <2>1 DEF InFlight, SameDay
  <2>. QED
    BY <1>2, <2>1, <2>2
<1>11. ASSUME NEW r \in Runners,
              \/ SetDegraded(r) \/ WriteDeadletter(r) \/ Crash(r)
              \/ \E c \in Cycles, eligible \in BOOLEAN : Invoke(r, c, eligible)
       PROVE  AppliedAt(D)' \subseteq AppliedAt(D) /\ InFlight(D)' \subseteq InFlight(D)
  <2>1. /\ rows' = rows /\ pc'[r] \in {"deadletter", "idle", "block", "count"}
        /\ \A s \in Runners \ {r} : pc'[s] = pc[s] /\ ctx'[s] = ctx[s]
    BY <1>11 DEF SetDegraded, WriteDeadletter, Crash, Invoke, Goto, Return, durable, IInv, TypeOK
  <2>. QED
    BY <1>2, <2>1 DEF InFlight
<1>12. CASE Halt \/ Tick \/ UNCHANGED vars
  <2>1. UNCHANGED <<rows, pc, ctx>>
    BY <1>12 DEF Halt, Tick, vars, durable
  <2>2. AppliedAt(D)' \subseteq AppliedAt(D) /\ InFlight(D)' \subseteq InFlight(D)
    BY <2>1 DEF AppliedAt, InFlight, SameDay
  <2>. QED
    BY <2>2, NoneJoins
<1>13. ASSUME NEW r \in Runners, NEW ok \in BOOLEAN, PostSmoke(r, ok)
       PROVE  PostSmoke(r, TRUE) \/ PostSmoke(r, FALSE)
  BY <1>13
<1>. QED
  <2>1. ASSUME NEW r \in Runners, Step(r)
        PROVE  Cardinality(AppliedAt(D)') + Cardinality(InFlight(D)') <= MaxPerDay + Cardinality(Runners) - 1
    BY <1>3, <1>4, <1>7, <1>8, <1>9, <1>10, <1>11, <1>13, <2>1, NoneJoins DEF Step
  <2>. QED
    BY <1>11, <1>12, <2>1, NoneJoins DEF Next

\* The degraded gate lets nobody in once the flag is set, and the invocation
\* that sets it is not among those past it.
LEMMA LateKeeps ==
    ASSUME IInv, IInv', LateBound, [Next]_vars
    PROVE  LateBound'
<1>. DEFINE R == Cardinality(Runners)
<1>1. /\ IsFiniteSet(Runners) /\ R \in Nat \ {0} /\ late \in Nat
      /\ IsFiniteSet(Armed) /\ Cardinality(Armed) \in 0..R
  BY Counts DEF IInv, TypeOK
<1>2. ASSUME Armed' \subseteq Armed, late' = late, degraded' = degraded
      PROVE  LateBound'
  <2>1. Cardinality(Armed') <= Cardinality(Armed) /\ Cardinality(Armed') \in Nat
    BY <1>1, <1>2, FS_Subset, FS_CardinalityType
  <2>2. CASE degraded
    <3>1. late + Cardinality(Armed) <= R - 1
      BY <2>2 DEF LateBound
    <3>2. late' + Cardinality(Armed') <= R - 1
      BY <1>1, <1>2, <2>1, <3>1
    <3>. QED
      BY <1>2, <2>2, <3>2 DEF LateBound
  <2>3. CASE ~degraded
    BY <1>2, <2>3 DEF LateBound
  <2>. QED
    BY <2>2, <2>3
<1>3. ASSUME NEW r \in Runners, SetDegraded(r) PROVE LateBound'
  <2>1. /\ pc[r] = "degrade" /\ pc'[r] = "deadletter" /\ ctx' = ctx
        /\ \A s \in Runners \ {r} : pc'[s] = pc[s]
        /\ late' = late
    BY <1>3 DEF SetDegraded, Goto, history, IInv, TypeOK
  <2>2. degraded'
    BY <1>3 DEF SetDegraded
  <2>3. Armed' = Armed /\ Armed \subseteq Runners \ {r}
    BY <2>1 DEF Armed
  <2>4. Cardinality(Runners \ {r}) = R - 1 /\ IsFiniteSet(Runners \ {r})
    BY <1>1, FS_RemoveElement
  <2>5. Cardinality(Armed) <= R - 1
    BY <2>3, <2>4, FS_Subset
  <2>6. late + Cardinality(Armed) <= R - 1
    <3>1. CASE degraded
      BY <3>1 DEF LateBound
    <3>2. CASE ~degraded
      <4>1. late = 0
        BY <3>2 DEF LateBound
      <4>. QED
        BY <1>1, <2>5, <4>1
    <3>. QED
      BY <3>1, <3>2
  <2>. QED
    BY <2>1, <2>2, <2>3, <2>6 DEF LateBound
<1>4. ASSUME NEW r \in Runners, NEW ok \in BOOLEAN, Restart(r, ok) PROVE LateBound'
  <2>1. /\ pc[r] = "restart" /\ ctx[r].tries \in Nat
        /\ ctx'[r].tries = ctx[r].tries + 1
        /\ \A s \in Runners \ {r} : pc'[s] = pc[s] /\ ctx'[s] = ctx[s]
    BY <1>4, NothingIsTyped DEF Restart, IInv, TypeOK
  <2>2. degraded' = degraded
    BY <1>4 DEF Restart, durable
  <2>3. Armed' = Armed \ {r}
    BY <1>4, <2>1 DEF Armed, Restart, IInv, TypeOK
  <2>4. late' = late + (IF degraded /\ ctx[r].tries + 1 = 1 THEN 1 ELSE 0)
    BY <1>4 DEF Restart
  <2>5. CASE degraded /\ ctx[r].tries = 0
    <3>1. r \in Armed
      BY <2>1, <2>5 DEF Armed
    <3>2. Cardinality(Armed') = Cardinality(Armed) - 1
      BY <1>1, <2>3, <3>1, FS_RemoveElement
    <3>3. late' = late + 1
      BY <2>4, <2>5
    <3>4. late + Cardinality(Armed) <= R - 1
      BY <2>5 DEF LateBound
    <3>5. late' + Cardinality(Armed') <= R - 1
      BY <1>1, <3>2, <3>3, <3>4
    <3>. QED
      BY <2>2, <2>5, <3>5 DEF LateBound
  <2>6. CASE ~(degraded /\ ctx[r].tries = 0)
    <3>1. late' = late
      BY <1>1, <2>1, <2>4, <2>6
    <3>. QED
      BY <1>2, <2>2, <2>3, <3>1
  <2>. QED
    BY <2>5, <2>6
<1>5. ASSUME NEW r \in Runners, NEW wired \in BOOLEAN, DegradedGate(r, wired) PROVE LateBound'
  <2>1. /\ pc[r] = "gate" /\ ctx' = ctx
        /\ \A s \in Runners \ {r} : pc'[s] = pc[s]
        /\ late' = late /\ degraded' = degraded
    BY <1>5 DEF DegradedGate, Goto, durable, history, IInv, TypeOK
  <2>2. CASE degraded
    <3>1. pc'[r] = "refuse"
      BY <1>5, <2>2 DEF DegradedGate, Goto, IInv, TypeOK
    <3>. QED
      BY <1>2, <2>1, <3>1 DEF Armed
  <2>3. CASE ~degraded
    BY <2>1, <2>3 DEF LateBound
  <2>. QED
    BY <2>2, <2>3
<1>6. ASSUME NEW r \in Runners, late' = late, degraded' = degraded,
             pc'[r] # "restart", \A s \in Runners \ {r} : pc'[s] = pc[s] /\ ctx'[s] = ctx[s]
      PROVE  LateBound'
  BY <1>2, <1>6 DEF Armed
<1>7. ASSUME NEW r \in Runners,
             \/ CountGate(r) \/ IntervalGate(r) \/ Block(r) \/ Claim(r) \/ Recheck(r) \/ Refuse(r)
             \/ (\E ok \in BOOLEAN : PostSmoke(r, ok)) \/ Spent(r) \/ WriteDeadletter(r) \/ Crash(r)
             \/ \E c \in Cycles, eligible \in BOOLEAN : Invoke(r, c, eligible)
      PROVE  LateBound'
  <2>1. late' = late /\ degraded' = degraded
    BY <1>7 DEF CountGate, IntervalGate, Block, Claim, Recheck, Refuse, PostSmoke, Spent,
                WriteDeadletter, Crash, Invoke, durable, history
  <2>2. PICK l \in Labels \ {"restart"} : pc' = [pc EXCEPT ![r] = l]
    BY <1>7 DEF CountGate, IntervalGate, Block, Claim, Recheck, Refuse, PostSmoke, Spent,
                WriteDeadletter, Crash, Invoke, Goto, Return, Insert, Labels
  <2>3. \A s \in Runners \ {r} : ctx'[s] = ctx[s]
    BY <1>7 DEF CountGate, IntervalGate, Block, Claim, Recheck, Refuse, PostSmoke, Spent,
                WriteDeadletter, Crash, Invoke, Goto, Return, Insert, IInv, TypeOK
  <2>. QED
    BY <1>6, <2>1, <2>2, <2>3 DEF IInv, TypeOK
<1>8. CASE Halt \/ Tick \/ UNCHANGED vars
  <2>1. UNCHANGED <<pc, ctx, late, degraded>>
    BY <1>8 DEF Halt, Tick, vars, durable, history
  <2>. QED
    BY <1>2, <2>1 DEF Armed
<1>. QED
  <2>1. ASSUME NEW r \in Runners, Step(r) PROVE LateBound'
    BY <1>3, <1>4, <1>5, <1>7, <2>1 DEF Step
  <2>. QED
    BY <1>7, <1>8, <2>1 DEF Next

\* count_cycles_today, get_degraded: however many invocations overlap, a day
\* exceeds its cap, and a set flag is overrun, by at most the rivals in flight.
THEOREM OvershootIsBounded == Spec => []GateOvershoot
<1>1. Init /\ IInv => DayBound /\ LateBound
  <2>1. SUFFICES ASSUME Init, IInv PROVE DayBound /\ LateBound
    OBVIOUS
  <2>2. \A T : AppliedAt(T) = {} /\ InFlight(T) = {}
    BY <2>1 DEF Init, AppliedAt, InFlight, NoRow
  <2>3. DayBound
    BY <2>2, Counts, FS_EmptySet DEF DayBound
  <2>4. LateBound
    BY <2>1 DEF Init, LateBound
  <2>. QED
    BY <2>3, <2>4
<1>2. IInv /\ IInv' /\ DayBound /\ LateBound /\ [Next]_vars => DayBound' /\ LateBound'
  BY DayKeeps, LateKeeps
<1>3. Spec => [](DayBound /\ LateBound)
  BY <1>1, <1>2, Inductive, PTL DEF Spec
<1>4. IInv /\ DayBound /\ LateBound => GateOvershoot
  <2>1. SUFFICES ASSUME IInv, DayBound, LateBound PROVE GateOvershoot
    OBVIOUS
  <2>2. ASSUME NEW t \in Instants
        PROVE  Cardinality(AppliedAt(SameDay(t))) <= MaxPerDay + Cardinality(Runners) - 1
    BY <2>1, Counts DEF DayBound
  <2>3. late <= Cardinality(Runners) - 1
    <3>1. CASE degraded
      BY <2>1, <3>1, Counts DEF LateBound, IInv, TypeOK
    <3>2. CASE ~degraded
      BY <2>1, <3>2, Counts DEF LateBound
    <3>. QED
      BY <3>1, <3>2
  <2>. QED
    BY <2>2, <2>3 DEF GateOvershoot
<1>. QED
  BY <1>3, <1>4, Inductive, PTL
=============================================================================
