----------------------- MODULE RoadmapPromotionProofs -----------------------
(***************************************************************************)
(* Proofs about RoadmapPromotion for every number of tasks, calls, ticks that *)
(* overlap, starts and faults, any reports, graphs of any size and any caps.  *)
(***************************************************************************)
EXTENDS RoadmapPromotion, TLAPS

-----------------------------------------------------------------------------
(* The inductive invariant.  Its parts take the process, the board and the     *)
(* rest as parameters, so that one lemma says how each survives a step.        *)

On(cs, k, s)     == \E c \in cs : c.key = k /\ c.step = s
Full(cs, rep, k) == \A s \in 1 .. rep[k.task].size : On(cs, k, s)

Promotable(rp) ==
  Go(rp) /\ Fits(rp) /\ Compile(rp.outcome) \in { "complete", "roadmap_next" }

\* What may be relied on when a task is being judged.
Sound(p, r, cs, n, rep) ==
  /\ r \in Run
  /\ r.mode = "tick" <=> p \in Daemons
  /\ 1 <= r.at /\ r.at <= r.last + 1 /\ r.last <= n
  /\ \A k \in r.applied : Full(cs, rep, k)

\* The graph that is being created has its first cards on the board.
Creating(r, cs, rep) ==
  r.pc = "create" =>
    /\ r.made < rep[r.at].size
    /\ Fits(rep[r.at])
    /\ \A s \in 1 .. r.made : On(cs, [ task |-> r.at, depth |-> r.depth + 1 ], s)
    /\ Go(rep[r.at])
    /\ r.mode = "tick" => Promotable(rep[r.at])

Good(p, r, cs, n, rep) ==
  /\ Sound(p, r, cs, n, rep)
  /\ r.pc \in { "truncate", "close" } => r.mode = "tick"
  /\ r.pc = "create" => r.at <= r.last
  /\ r.mode = "tick" => r.depth = 0
  /\ r.mode = "tick" /\ r.pc \in { "truncate", "write", "close" } => r.at <= r.last
  /\ Creating(r, cs, rep)

\* A plan was measured before its first card, and judged if by a tick.
Clean(cs, rep) ==
  \A c \in cs :
    /\ Fits(rep[c.key.task])
    /\ c.by \in Daemons => Promotable(rep[c.key.task])

Chained(cs) == \A c \in cs : c.step > 1 => On(cs, c.key, c.step - 1)

\* A tick is done with a task: nothing but its failure is still to come.
Judged(t, r, cur) ==
  t <= cur \/ t < r.at \/ (r.pc \in { "truncate", "write" } /\ ~ r.failed /\ t = r.at)

Waits(r, cur, cs, rep) ==
  \A t \in Tasks :
    /\ r.armed
    /\ Judged(t, r, cur)
    /\ Promotable(rep[t])
    /\ max_chain_depth > 0 /\ max_promotions_per_roadmap > 0
    => Full(cs, rep, [ task |-> t, depth |-> 1 ])

Types ==
  /\ report \in Reports
  /\ posted \in 0 .. N
  /\ file \subseteq Key
  /\ cards \subseteq Card
  /\ cursor \in 0 .. N /\ cursor <= posted
  /\ DOMAIN run = Procs /\ run = [p \in Procs |-> run[p]]
  /\ starts \in Nat
  /\ faults \in Nat

IInv ==
  /\ Types
  /\ \A p \in Procs : Good(p, run[p], cards, posted, report)
  /\ \A k \in file : Full(cards, report, k)
  /\ Chained(cards)
  /\ Clean(cards, report)
  /\ \A p, q \in Daemons : run[p].armed = run[q].armed
  /\ \A p \in Daemons : Waits(run[p], cursor, cards, report)

-----------------------------------------------------------------------------
(* Lemmas.                                                                 *)

LEMMA FullGrows ==
  ASSUME NEW cs, NEW ds, cs \subseteq ds, NEW rep, NEW k, Full(cs, rep, k)
  PROVE  Full(ds, rep, k)
BY DEF Full, On

LEMMA GoodGrows ==
  ASSUME NEW p, NEW r, NEW cs, NEW ds, cs \subseteq ds, NEW n \in Nat, NEW m \in Nat, n <= m,
         NEW rep, Good(p, r, cs, n, rep)
  PROVE  Good(p, r, ds, m, rep)
<1>1. Sound(p, r, ds, m, rep)
  <2>1. \A k \in r.applied : Full(ds, rep, k)
    BY FullGrows DEF Good, Sound
  <2>2. r.last <= m
    BY DEF Good, Sound, Run
  <2>. QED
    BY <2>1, <2>2 DEF Good, Sound
<1>2. Creating(r, ds, rep)
  BY DEF Good, Creating, On
<1>. QED
  BY <1>1, <1>2 DEF Good

\* After judging: a tick goes to persist, a call to its next task.
Afterwards(r, failed) ==
  IF r.mode = "tick" THEN [r EXCEPT !.pc = "truncate", !.depth = 0, !.failed = failed]
  ELSE [r EXCEPT !.pc = "judge", !.at = @ + 1]

LEMMA AfterIsGood ==
  ASSUME NEW p, NEW r, NEW cs, NEW n \in Nat, NEW rep, NEW failed \in BOOLEAN,
         Sound(p, r, cs, n, rep), r.at <= r.last
  PROVE  Good(p, Afterwards(r, failed), cs, n, rep)
<1>1. CASE r.mode = "tick"
  <2>. DEFINE s == [r EXCEPT !.pc = "truncate", !.depth = 0, !.failed = failed]
  <2>1. s \in Run /\ s.mode = r.mode /\ s.pc = "truncate" /\ s.depth = 0
        /\ s.at = r.at /\ s.last = r.last /\ s.applied = r.applied
    BY DEF Sound, Run
  <2>2. Good(p, s, cs, n, rep)
    BY <1>1, <2>1 DEF Good, Sound, Creating, Run
  <2>. QED
    BY <1>1, <2>2 DEF Afterwards
<1>2. CASE r.mode # "tick"
  <2>. DEFINE s == [r EXCEPT !.pc = "judge", !.at = @ + 1]
  <2>0. r \in Run /\ r.at \in Nat /\ r.at + 1 \in Nat
    BY DEF Sound, Run
  <2>1. s \in Run /\ s.mode = r.mode /\ s.pc = "judge"
        /\ s.at = r.at + 1 /\ s.last = r.last /\ s.applied = r.applied
    BY <2>0 DEF Run
  <2>2. Good(p, s, cs, n, rep)
    BY <1>2, <2>1 DEF Good, Sound, Creating, Run
  <2>. QED
    BY <1>2, <2>2 DEF Afterwards
<1>. QED
  BY <1>1, <1>2

LEMMA IdleIsGood ==
  ASSUME NEW p, NEW r \in Run, r.mode = "tick" <=> p \in Daemons, NEW cs, NEW n \in Nat, NEW rep
  PROVE  Good(p, Idle(r.mode, r.armed), cs, n, rep)
BY DEF Idle, Good, Sound, Creating, Run

\* A step of one process, that leaves the file and the cursor, keeps the
\* invariant if what it does to its own run and to the board does.
LEMMA StepKeeps ==
  ASSUME IInv, NEW p \in Procs, NEW r, NEW cs,
         run' = [run EXCEPT ![p] = r], cards' = cs, cards \subseteq cs, cs \subseteq Card,
         UNCHANGED << report, posted, file, cursor >>, starts' \in Nat, faults' \in Nat,
         Good(p, r, cs, posted, report), Chained(cs), Clean(cs, report),
         p \in Daemons => r.armed = run[p].armed /\ Waits(r, cursor, cs, report)
  PROVE  IInv'
<1>1. Types'
  BY DEF IInv, Types
<1>2. run'[p] = r /\ \A q \in Procs \ {p} : run'[q] = run[q]
  BY DEF IInv, Types
<1>3. ASSUME NEW q \in Procs PROVE Good(q, run'[q], cs, posted, report)
  <2>1. posted \in Nat /\ posted <= posted
    BY PromotionAssumption DEF IInv, Types
  <2>2. CASE q = p
    BY <1>2, <2>2
  <2>3. CASE q # p
    <3>1. Good(q, run[q], cards, posted, report)
      BY DEF IInv
    <3>2. Good(q, run[q], cs, posted, report)
      BY <2>1, <3>1, GoodGrows
    <3>. QED
      BY <1>2, <2>3, <3>2
  <2>. QED
    BY <2>2, <2>3
<1>4. \A k \in file : Full(cs, report, k)
  BY FullGrows DEF IInv
<1>5. ASSUME NEW q \in Daemons
      PROVE  run'[q].armed = run[q].armed /\ Waits(run'[q], cursor, cs, report)
  <2>1. CASE q = p
    BY <1>2, <2>1
  <2>2. CASE q # p
    <3>1. Waits(run[q], cursor, cs, report)
      BY FullGrows DEF IInv, Waits
    <3>. QED
      BY <1>2, <2>2, <3>1 DEF Procs
  <2>. QED
    BY <2>1, <2>2
<1>. QED
  BY <1>1, <1>3, <1>4, <1>5 DEF IInv

-----------------------------------------------------------------------------
(* One lemma per action.                                                    *)

LEMMA RunFacts ==
  ASSUME IInv, NEW p \in Procs
  PROVE  /\ posted \in Nat /\ posted <= N
         /\ run[p] \in Run
         /\ Good(p, run[p], cards, posted, report)
         /\ Sound(p, run[p], cards, posted, report)
         /\ run[p].mode = "tick" <=> p \in Daemons
         /\ run[p].at <= run[p].last => run[p].at \in Tasks /\ KeyOf(p) \in Key
         /\ \A t \in Tasks : report[t].size \in Nat \ {0} /\ report[t].outcome \in Outcome
<1>1. posted \in Nat /\ posted <= N
  BY PromotionAssumption DEF IInv, Types
<1>2. Good(p, run[p], cards, posted, report)
  BY DEF IInv
<1>3. Sound(p, run[p], cards, posted, report) /\ run[p] \in Run /\ (run[p].mode = "tick" <=> p \in Daemons)
  BY <1>2 DEF Good, Sound
<1>4. ASSUME run[p].at <= run[p].last PROVE run[p].at \in Tasks /\ KeyOf(p) \in Key
  <2>1. run[p].at \in Nat /\ run[p].last \in Nat /\ run[p].depth \in Nat
    BY <1>3 DEF Run
  <2>2. run[p].at \in Tasks
    BY <1>1, <1>3, <1>4, <2>1, PromotionAssumption DEF Sound, Tasks
  <2>. QED
    BY <2>1, <2>2 DEF KeyOf, Key
<1>5. \A t \in Tasks : report[t].size \in Nat \ {0} /\ report[t].outcome \in Outcome
  <2>1. report \in [Tasks -> [outcome : Outcome, gate : Gates, size : Nat \ {0}]]
    BY PromotionAssumption DEF IInv, Types
  <2>. QED
    BY <2>1
<1>. QED
  BY <1>1, <1>2, <1>3, <1>4, <1>5

LEMMA AfterIsAfterwards ==
  ASSUME NEW p \in Procs, NEW r, NEW failed, After(p, r, failed)
  PROVE  run' = [run EXCEPT ![p] = Afterwards(r, failed)]
BY DEF After, Afterwards

LEMMA AfterKeepsArmed ==
  ASSUME NEW r \in Run, NEW failed
  PROVE  Afterwards(r, failed).armed = r.armed
BY DEF Afterwards, Run

\* A tick is done with its task: the task failed, is not to be promoted, or
\* has its graph.
LEMMA WaitsAfter ==
  ASSUME IInv, NEW p \in Daemons, NEW r \in Run, r.mode = "tick", r.armed = run[p].armed,
         r.at = run[p].at, NEW failed \in BOOLEAN, NEW cs, cards \subseteq cs,
         failed \/ ( /\ r.armed /\ Promotable(report[r.at])
                    /\ max_chain_depth > 0 /\ max_promotions_per_roadmap > 0
                    => Full(cs, report, [ task |-> r.at, depth |-> 1 ]) )
  PROVE  Waits(Afterwards(r, failed), cursor, cs, report)
<1>. DEFINE s == Afterwards(r, failed)
<1>1. s.armed = r.armed /\ s.at = r.at /\ s.pc = "truncate" /\ s.failed = failed
  BY DEF Afterwards, Run
<1>2. ASSUME NEW t \in Tasks, s.armed, Judged(t, s, cursor), Promotable(report[t]),
             max_chain_depth > 0, max_promotions_per_roadmap > 0
      PROVE  Full(cs, report, [ task |-> t, depth |-> 1 ])
  <2>1. CASE t = r.at /\ ~ failed
    BY <1>1, <1>2, <2>1
  <2>2. CASE ~ (t = r.at /\ ~ failed)
    <3>1. Judged(t, run[p], cursor)
      BY <1>1, <1>2, <2>2 DEF Judged
    <3>2. Full(cards, report, [ task |-> t, depth |-> 1 ])
      BY <1>1, <1>2, <3>1 DEF IInv, Waits
    <3>. QED
      BY <3>2, FullGrows
  <2>. QED
    BY <2>1, <2>2
<1>. HIDE DEF s
<1>. QED
  BY <1>2 DEF Waits, s

\* Judged without touching the board.
LEMMA JudgedKeeps ==
  ASSUME IInv, NEW p \in Procs, run[p].at <= run[p].last,
         NEW r \in Run, Sound(p, r, cards, posted, report), r.at = run[p].at, r.last = run[p].last,
         r.armed = run[p].armed, After(p, r, FALSE),
         UNCHANGED << report, posted, file, cards, cursor, starts, faults >>,
         p \in Daemons => ( /\ r.armed /\ Promotable(report[r.at])
                         /\ max_chain_depth > 0 /\ max_promotions_per_roadmap > 0
                         => Full(cards, report, [ task |-> r.at, depth |-> 1 ]) )
  PROVE  IInv'
<1>1. run' = [run EXCEPT ![p] = Afterwards(r, FALSE)]
  BY AfterIsAfterwards
<1>2. Good(p, Afterwards(r, FALSE), cards, posted, report)
  BY AfterIsGood, RunFacts
<1>3. p \in Daemons => /\ Afterwards(r, FALSE).armed = run[p].armed
                        /\ Waits(Afterwards(r, FALSE), cursor, cards, report)
  <2>1. SUFFICES ASSUME p \in Daemons
                 PROVE  /\ Afterwards(r, FALSE).armed = run[p].armed
                        /\ Waits(Afterwards(r, FALSE), cursor, cards, report)
    OBVIOUS
  <2>2. r.mode = "tick"
    BY <2>1 DEF Sound
  <2>. QED
    BY <2>1, <2>2, AfterKeepsArmed, WaitsAfter
<1>4. Chained(cards) /\ Clean(cards, report) /\ cards \subseteq Card /\ starts' \in Nat /\ faults' \in Nat
  BY DEF IInv, Types
<1>5. cards' = cards /\ UNCHANGED << report, posted, file, cursor >>
  OBVIOUS
<1>. QED
  BY <1>1, <1>2, <1>3, <1>4, <1>5, StepKeeps

LEMMA BypassKeeps ==
  ASSUME IInv, NEW p \in Procs, Bypass(p)
  PROVE  IInv'
<1>. DEFINE r == [run[p] EXCEPT !.at = @ + 1]
<1>1. run' = [run EXCEPT ![p] = r]
  BY DEF Bypass
<1>2. /\ run[p] \in Run /\ run[p].pc = "judge" /\ run[p].mode = "tick"
      /\ run[p].at <= run[p].last /\ p \in Daemons
      /\ ~ Promotable(report[run[p].at])
  BY RunFacts DEF Bypass, Judging, Routed, Promotable, Reported
<1>3. /\ r \in Run /\ r.mode = run[p].mode /\ r.pc = "judge" /\ r.at = run[p].at + 1
      /\ r.last = run[p].last /\ r.applied = run[p].applied /\ r.depth = run[p].depth
      /\ r.armed = run[p].armed
  <2>1. run[p].at \in Nat /\ run[p].at + 1 \in Nat
    BY <1>2 DEF Run
  <2>. QED
    BY <1>2, <2>1 DEF Run
<1>4. Good(p, r, cards, posted, report)
  <2>1. Good(p, run[p], cards, posted, report) /\ posted \in Nat
    BY RunFacts
  <2>2. run[p].at \in Nat /\ run[p].last \in Nat
    BY <1>2 DEF Run
  <2>. HIDE DEF r
  <2>. QED
    BY <1>2, <1>3, <2>1, <2>2 DEF Good, Sound, Creating
<1>5. r.armed = run[p].armed /\ Waits(r, cursor, cards, report)
  <2>1. run[p].at \in Nat
    BY <1>2 DEF Run
  <2>2. ASSUME NEW t \in Tasks, Judged(t, r, cursor), Promotable(report[t])
        PROVE  Judged(t, run[p], cursor)
    BY <1>2, <1>3, <2>1, <2>2 DEF Judged, Tasks
  <2>. QED
    BY <1>2, <1>3, <2>2 DEF IInv, Waits
<1>6. Chained(cards) /\ Clean(cards, report) /\ cards \subseteq Card /\ starts' \in Nat /\ faults' \in Nat
  BY DEF IInv, Types, Bypass
<1>7. cards' = cards /\ UNCHANGED << report, posted, file, cursor >>
  BY DEF Bypass
<1>. HIDE DEF r
<1>. QED
  BY <1>1, <1>4, <1>5, <1>6, <1>7, StepKeeps

LEMMA RefuseKeeps ==
  ASSUME IInv, NEW p \in Procs, Refuse(p)
  PROVE  IInv'
<1>1. /\ run[p].at <= run[p].last
      /\ Routed(p) /\ (~ Passes(p) \/ run[p].depth > 0)
      /\ After(p, run[p], FALSE)
      /\ UNCHANGED << report, posted, file, cards, cursor, starts, faults >>
  BY DEF Refuse, Judging
<1>2. ASSUME p \in Daemons, Promotable(report[run[p].at]),
             max_chain_depth > 0, max_promotions_per_roadmap > 0
      PROVE  FALSE
  <2>1. run[p].depth = 0
    BY <1>2, RunFacts DEF Good
  <2>2. Deep(p)
    BY <1>1, <1>2, <2>1 DEF Passes, Promotable, Reported
  <2>. QED
    BY <1>2, <2>1, <2>2, PromotionAssumption DEF Deep
<1>3. run[p] \in Run /\ Sound(p, run[p], cards, posted, report)
  BY RunFacts
<1>. QED
  BY <1>1, <1>2, <1>3, JudgedKeeps

LEMMA DuplicateKeeps ==
  ASSUME IInv, NEW p \in Procs, Duplicate(p)
  PROVE  IInv'
<1>1. /\ run[p].at <= run[p].last
      /\ KeyOf(p) \in run[p].applied
      /\ After(p, run[p], FALSE)
      /\ UNCHANGED << report, posted, file, cards, cursor, starts, faults >>
  BY DEF Duplicate, Judging
<1>2. run[p] \in Run /\ Sound(p, run[p], cards, posted, report)
  BY RunFacts
<1>3. ASSUME p \in Daemons PROVE Full(cards, report, [ task |-> run[p].at, depth |-> 1 ])
  <2>1. run[p].depth = 0
    BY <1>3, RunFacts DEF Good
  <2>2. KeyOf(p) = [ task |-> run[p].at, depth |-> 1 ]
    BY <2>1 DEF KeyOf
  <2>. QED
    BY <1>1, <1>2, <2>2 DEF Sound
<1>. QED
  BY <1>1, <1>2, <1>3, JudgedKeeps

LEMMA ProposeKeeps ==
  ASSUME IInv, NEW p \in Procs, Propose(p)
  PROVE  IInv'
<1>. DEFINE r == [run[p] EXCEPT !.depth = @ + 1]
<1>1. /\ run[p].at <= run[p].last /\ ~ run[p].armed
      /\ After(p, r, FALSE)
      /\ UNCHANGED << report, posted, file, cards, cursor, starts, faults >>
  BY DEF Propose, Judging, Armed
<1>2. run[p] \in Run /\ Sound(p, run[p], cards, posted, report)
  BY RunFacts
<1>3. /\ r \in Run /\ r.mode = run[p].mode /\ r.at = run[p].at /\ r.last = run[p].last
      /\ r.applied = run[p].applied /\ r.armed = run[p].armed
  <2>1. run[p].depth \in Nat /\ run[p].depth + 1 \in Nat
    BY <1>2 DEF Run
  <2>. QED
    BY <1>2, <2>1 DEF Run
<1>. HIDE DEF r
<1>4. Sound(p, r, cards, posted, report)
  BY <1>2, <1>3 DEF Sound
<1>. QED
  BY <1>1, <1>3, <1>4, JudgedKeeps

LEMMA OversizeKeeps ==
  ASSUME IInv, NEW p \in Procs, Oversize(p)
  PROVE  IInv'
<1>1. /\ run[p].at <= run[p].last /\ ~ Promotable(report[run[p].at])
      /\ After(p, run[p], FALSE)
      /\ UNCHANGED << report, posted, file, cards, cursor, starts, faults >>
  BY DEF Oversize, Judging, Promotable, Reported
<1>2. run[p] \in Run /\ Sound(p, run[p], cards, posted, report)
  BY RunFacts
<1>. QED
  BY <1>1, <1>2, JudgedKeeps

LEMMA ApplyKeeps ==
  ASSUME IInv, NEW p \in Procs, Apply(p)
  PROVE  IInv'
<1>. DEFINE r == [run[p] EXCEPT !.pc = "create", !.made = 0]
<1>1. run' = [run EXCEPT ![p] = r]
  BY DEF Apply
<1>2. /\ run[p] \in Run /\ run[p].pc = "judge" /\ run[p].at <= run[p].last
      /\ Go(report[run[p].at]) /\ Fits(report[run[p].at]) /\ Routed(p)
      /\ report[run[p].at].size \in Nat \ {0}
      /\ run[p].mode = "tick" <=> p \in Daemons
      /\ Good(p, run[p], cards, posted, report) /\ posted \in Nat
  BY RunFacts DEF Apply, Judging, Passes, Reported
<1>3. /\ r \in Run /\ r.mode = run[p].mode /\ r.pc = "create" /\ r.at = run[p].at /\ r.made = 0
      /\ r.last = run[p].last /\ r.applied = run[p].applied /\ r.depth = run[p].depth
      /\ r.armed = run[p].armed
  BY <1>2 DEF Run
<1>. HIDE DEF r
<1>4. r.mode = "tick" => Promotable(report[r.at])
  BY <1>2, <1>3 DEF Promotable, Routed, Reported
<1>5. Sound(p, r, cards, posted, report)
  BY <1>2, <1>3 DEF Good, Sound
<1>6. Creating(r, cards, report)
  BY <1>2, <1>3, <1>4, PromotionAssumption DEF Creating
<1>7. Good(p, r, cards, posted, report)
  BY <1>2, <1>3, <1>5, <1>6 DEF Good
<1>8. ASSUME p \in Daemons PROVE r.armed = run[p].armed /\ Waits(r, cursor, cards, report)
  <2>1. ASSUME NEW t \in Tasks, Judged(t, r, cursor) PROVE Judged(t, run[p], cursor)
    BY <1>3, <1>8, <2>1 DEF Judged
  <2>. QED
    BY <1>3, <1>8, <2>1 DEF IInv, Waits
<1>9. Chained(cards) /\ Clean(cards, report) /\ cards \subseteq Card /\ starts' \in Nat /\ faults' \in Nat
  BY DEF IInv, Types, Apply
<1>10. cards' = cards /\ UNCHANGED << report, posted, file, cursor >>
  BY DEF Apply
<1>. QED
  BY <1>1, <1>7, <1>8, <1>9, <1>10, StepKeeps

LEMMA MadeFacts ==
  ASSUME IInv, NEW p \in Procs, run[p].pc = "create"
  PROVE  /\ cards \subseteq Made(p) /\ Made(p) \subseteq Card
         /\ On(Made(p), KeyOf(p), run[p].made + 1)
         /\ Chained(Made(p)) /\ Clean(Made(p), report)
         /\ run[p].made \in Nat /\ run[p].made < report[run[p].at].size
         /\ \A s \in 1 .. run[p].made + 1 : On(Made(p), KeyOf(p), s)
<1>1. /\ run[p].made \in Nat /\ run[p].made < report[run[p].at].size /\ run[p].at <= run[p].last
      /\ \A s \in 1 .. run[p].made : On(cards, KeyOf(p), s)
      /\ Fits(report[run[p].at])
      /\ p \in Daemons => Promotable(report[run[p].at])
  <2>1. run[p] \in Run /\ Good(p, run[p], cards, posted, report)
        /\ (run[p].mode = "tick" <=> p \in Daemons)
    BY RunFacts
  <2>. QED
    BY <2>1 DEF Good, Creating, KeyOf, Run
<1>2. cards \subseteq Card /\ Chained(cards) /\ Clean(cards, report)
  BY DEF IInv, Types
<1>3. KeyOf(p) \in Key /\ KeyOf(p).task = run[p].at
  BY <1>1, RunFacts DEF KeyOf
<1>4. run[p].made + 1 \in Nat \ {0}
  BY <1>1, PromotionAssumption
<1>5. CASE OnBoard(KeyOf(p), run[p].made + 1)
  <2>1. Made(p) = cards /\ On(cards, KeyOf(p), run[p].made + 1)
    BY <1>5 DEF Made, OnBoard, On
  <2>2. \A s \in 1 .. run[p].made + 1 : s \in 1 .. run[p].made \/ s = run[p].made + 1
    BY <1>1
  <2>. QED
    BY <1>1, <1>2, <2>1, <2>2
<1>6. CASE ~ OnBoard(KeyOf(p), run[p].made + 1)
  <2>. DEFINE c == [ key |-> KeyOf(p), step |-> run[p].made + 1, by |-> p ]
  <2>1. Made(p) = cards \union {c}
    BY <1>6 DEF Made
  <2>2. c \in Card
    BY <1>3, <1>4 DEF Card
  <2>3. On(Made(p), KeyOf(p), run[p].made + 1)
    <3>1. c \in Made(p) /\ c.key = KeyOf(p) /\ c.step = run[p].made + 1
      BY <2>1
    <3>. HIDE DEF c
    <3>. QED
      BY <3>1 DEF On
  <2>4. \A s \in 1 .. run[p].made + 1 : s \in 1 .. run[p].made \/ s = run[p].made + 1
    BY <1>1
  <2>5. \A s \in 1 .. run[p].made + 1 : On(Made(p), KeyOf(p), s)
    BY <1>1, <2>1, <2>3, <2>4 DEF On
  <2>6. Chained(Made(p))
    <3>1. ASSUME NEW d \in Made(p), d.step > 1 PROVE On(Made(p), d.key, d.step - 1)
      <4>1. CASE d = c
        <5>1. d.key = KeyOf(p) /\ d.step - 1 = run[p].made /\ run[p].made \in 1 .. run[p].made + 1
          BY <1>1, <3>1, <4>1
        <5>. QED
          BY <2>5, <5>1
      <4>2. CASE d \in cards
        BY <1>2, <2>1, <3>1, <4>2 DEF Chained, On
      <4>. QED
        BY <2>1, <4>1, <4>2
    <3>. QED
      BY <3>1 DEF Chained
  <2>7. Clean(Made(p), report)
    BY <1>1, <1>2, <1>3, <2>1 DEF Clean
  <2>. QED
    BY <1>1, <1>2, <2>1, <2>2, <2>3, <2>5, <2>6, <2>7
<1>. QED
  BY <1>5, <1>6

LEMMA CreateCardKeeps ==
  ASSUME IInv, NEW p \in Procs, CreateCard(p)
  PROVE  IInv'
<1>1. /\ run[p].pc = "create" /\ cards' = Made(p)
      /\ UNCHANGED << report, posted, file, cursor, starts, faults >>
  BY DEF CreateCard
<1>2. /\ cards \subseteq Made(p) /\ Made(p) \subseteq Card
      /\ Chained(Made(p)) /\ Clean(Made(p), report)
      /\ run[p].made \in Nat /\ run[p].made < report[run[p].at].size
      /\ \A s \in 1 .. run[p].made + 1 : On(Made(p), KeyOf(p), s)
  BY <1>1, MadeFacts
<1>3. /\ run[p] \in Run /\ posted \in Nat /\ Good(p, run[p], cards, posted, report)
      /\ Good(p, run[p], Made(p), posted, report)
      /\ run[p].at <= run[p].last /\ KeyOf(p) \in Key
      /\ run[p].mode = "tick" <=> p \in Daemons
  <2>1. run[p].at <= run[p].last
    BY <1>1, RunFacts DEF Good
  <2>2. posted \in Nat /\ posted <= posted
    BY RunFacts
  <2>. QED
    BY <1>2, <2>1, <2>2, RunFacts, GoodGrows
<1>4. starts' \in Nat /\ faults' \in Nat
  BY <1>1 DEF IInv, Types
<1>5. Reported(p) = report[run[p].at] /\ KeyOf(p).task = run[p].at
      /\ run[p].at \in Tasks /\ report[run[p].at].size \in Nat
  BY <1>3, RunFacts DEF Reported, KeyOf
<1>6. CASE run[p].made + 1 = report[run[p].at].size
  <2>. DEFINE r == Recorded(p)
  <2>1. After(p, r, FALSE)
    BY <1>6, <1>5 DEF CreateCard
  <2>2. run' = [run EXCEPT ![p] = Afterwards(r, FALSE)]
    BY <2>1, AfterIsAfterwards
  <2>3. Full(Made(p), report, KeyOf(p))
    BY <1>2, <1>6, <1>5 DEF Full
  <2>4. /\ r \in Run /\ r.mode = run[p].mode /\ r.at = run[p].at /\ r.last = run[p].last
        /\ r.applied = run[p].applied \union { KeyOf(p) } /\ r.armed = run[p].armed
    <3>1. run[p].depth \in Nat /\ run[p].depth + 1 \in Nat /\ run[p].applied \union { KeyOf(p) } \subseteq Key
      BY <1>3 DEF Run
    <3>. QED
      BY <1>3, <3>1 DEF Recorded, Run
  <2>. HIDE DEF r
  <2>5. Sound(p, r, Made(p), posted, report)
    BY <1>3, <2>3, <2>4 DEF Good, Sound
  <2>6. Good(p, Afterwards(r, FALSE), Made(p), posted, report)
    BY <1>3, <2>4, <2>5, AfterIsGood
  <2>7. ASSUME p \in Daemons
        PROVE  /\ Afterwards(r, FALSE).armed = run[p].armed
               /\ Waits(Afterwards(r, FALSE), cursor, Made(p), report)
    <3>1. run[p].depth = 0
      BY <1>3, <2>7 DEF Good
    <3>2. KeyOf(p) = [ task |-> r.at, depth |-> 1 ]
      BY <2>4, <3>1 DEF KeyOf
    <3>. QED
      BY <1>2, <1>3, <2>3, <2>4, <2>7, <3>2, AfterKeepsArmed, WaitsAfter
  <2>. QED
    BY <1>1, <1>2, <1>4, <2>2, <2>6, <2>7, StepKeeps
<1>7. CASE run[p].made + 1 # report[run[p].at].size
  <2>. DEFINE r == [run[p] EXCEPT !.made = @ + 1]
  <2>1. run' = [run EXCEPT ![p] = r]
    BY <1>7, <1>5 DEF CreateCard
  <2>2. /\ r \in Run /\ r.mode = run[p].mode /\ r.pc = "create" /\ r.at = run[p].at
        /\ r.last = run[p].last /\ r.applied = run[p].applied /\ r.depth = run[p].depth
        /\ r.armed = run[p].armed /\ r.made = run[p].made + 1
    BY <1>1, <1>2, <1>3 DEF Run
  <2>. HIDE DEF r
  <2>3. Sound(p, r, Made(p), posted, report)
    BY <1>3, <2>2 DEF Good, Sound
  <2>4. r.made < report[r.at].size
    BY <1>2, <1>7, <1>5, <2>2
  <2>5. Creating(r, Made(p), report)
    BY <1>1, <1>2, <1>3, <2>2, <2>4 DEF Good, Creating, KeyOf
  <2>6. Good(p, r, Made(p), posted, report)
    BY <1>1, <1>3, <2>2, <2>3, <2>5 DEF Good
  <2>7. ASSUME p \in Daemons PROVE r.armed = run[p].armed /\ Waits(r, cursor, Made(p), report)
    <3>1. ASSUME NEW t \in Tasks, Judged(t, r, cursor) PROVE Judged(t, run[p], cursor)
      BY <1>1, <2>2, <2>7, <3>1 DEF Judged
    <3>2. Waits(r, cursor, cards, report)
      BY <2>2, <2>7, <3>1 DEF IInv, Waits
    <3>. QED
      BY <1>2, <2>2, <3>2, FullGrows DEF Waits
  <2>. QED
    BY <1>1, <1>2, <1>4, <2>1, <2>6, <2>7, StepKeeps
<1>. QED
  BY <1>6, <1>7

LEMMA FailCardKeeps ==
  ASSUME IInv, NEW p \in Procs, FailCard(p)
  PROVE  IInv'
<1>1. /\ run[p].pc = "create" /\ cards' \in { cards, Made(p) }
      /\ After(p, run[p], TRUE) /\ faults' = faults + 1
      /\ UNCHANGED << report, posted, file, cursor, starts >>
  BY DEF FailCard, Leftovers, Unrecorded
<1>2. /\ cards \subseteq cards' /\ cards' \subseteq Card
      /\ Chained(cards') /\ Clean(cards', report)
  BY <1>1, MadeFacts DEF IInv, Types
<1>3. /\ run[p] \in Run /\ posted \in Nat
      /\ Good(p, run[p], cards', posted, report)
      /\ run[p].at <= run[p].last /\ (run[p].mode = "tick" <=> p \in Daemons)
  <2>1. run[p].at <= run[p].last
    BY <1>1, RunFacts DEF Good
  <2>2. posted \in Nat /\ posted <= posted
    BY RunFacts
  <2>. QED
    BY <1>2, <2>1, <2>2, RunFacts, GoodGrows
<1>4. starts' \in Nat /\ faults' \in Nat
  BY <1>1 DEF IInv, Types
<1>5. run' = [run EXCEPT ![p] = Afterwards(run[p], TRUE)]
  BY <1>1, AfterIsAfterwards
<1>6. Good(p, Afterwards(run[p], TRUE), cards', posted, report)
  BY <1>3, AfterIsGood DEF Good
<1>7. ASSUME p \in Daemons
      PROVE  /\ Afterwards(run[p], TRUE).armed = run[p].armed
             /\ Waits(Afterwards(run[p], TRUE), cursor, cards', report)
  BY <1>2, <1>3, <1>7, AfterKeepsArmed, WaitsAfter
<1>. QED
  BY <1>1, <1>2, <1>4, <1>5, <1>6, <1>7, StepKeeps

\* kanban show failed: a call gives up or goes on.
LEMMA UnfetchedKeeps ==
  ASSUME IInv, NEW p \in Procs, Unfetched(p)
  PROVE  IInv'
<1>. DEFINE r == IF run[p].mode = "promote" THEN [run[p] EXCEPT !.pc = "idle"]
                 ELSE [run[p] EXCEPT !.at = @ + 1]
<1>1. run' = [run EXCEPT ![p] = r]
  <2>1. CASE run[p].mode = "promote"
    BY <2>1 DEF Unfetched
  <2>2. CASE run[p].mode # "promote"
    BY <2>2 DEF Unfetched
  <2>. QED
    BY <2>1, <2>2
<1>2. /\ run[p] \in Run /\ run[p].pc = "judge" /\ run[p].mode # "tick"
      /\ run[p].at <= run[p].last /\ p \notin Daemons
      /\ Good(p, run[p], cards, posted, report)
  BY RunFacts DEF Unfetched, Judging
<1>3. run[p].at \in Nat /\ run[p].at + 1 \in Nat
  BY <1>2 DEF Run
<1>4. /\ r \in Run /\ r.mode = run[p].mode /\ r.pc \in { "idle", "judge" }
      /\ (r.at = run[p].at \/ r.at = run[p].at + 1)
      /\ r.last = run[p].last /\ r.applied = run[p].applied
  BY <1>2, <1>3 DEF Run
<1>5. Good(p, r, cards, posted, report)
  <2>1. run[p].at \in Nat /\ run[p].last \in Nat
    BY <1>2 DEF Run
  <2>. HIDE DEF r
  <2>. QED
    BY <1>2, <1>4, <2>1 DEF Good, Sound, Creating
<1>6. /\ Chained(cards) /\ Clean(cards, report) /\ cards \subseteq Card
      /\ starts' \in Nat /\ faults' \in Nat
      /\ cards' = cards /\ UNCHANGED << report, posted, file, cursor >>
  BY DEF IInv, Types, Unfetched
<1>. HIDE DEF r
<1>. QED
  BY <1>1, <1>2, <1>5, <1>6, StepKeeps

\* A step of one process, that leaves the board, keeps the invariant if what it
\* does to its own run, to the file and to the cursor does.
LEMMA PersistKeeps ==
  ASSUME IInv, NEW p \in Procs, NEW r,
         run' = [run EXCEPT ![p] = r], UNCHANGED << report, posted, cards >>,
         file' \subseteq Key, \A k \in file' : Full(cards, report, k),
         cursor' \in 0 .. N, cursor' <= posted,
         cursor' = cursor \/
           (p \in Daemons /\ \A t \in Tasks : t <= cursor' => Judged(t, run[p], cursor)),
         starts' \in Nat, faults' \in Nat,
         Good(p, r, cards, posted, report),
         p \in Daemons => r.armed = run[p].armed /\ Waits(r, cursor', cards, report)
  PROVE  IInv'
<1>1. Types'
  BY DEF IInv, Types
<1>2. run'[p] = r /\ \A q \in Procs \ {p} : run'[q] = run[q]
  BY DEF IInv, Types
<1>3. \A q \in Procs : Good(q, run'[q], cards, posted, report)
  BY <1>2 DEF IInv
<1>4. ASSUME NEW q \in Daemons
      PROVE  run'[q].armed = run[q].armed /\ Waits(run'[q], cursor', cards, report)
  <2>1. CASE q = p
    BY <1>2, <2>1
  <2>2. CASE q # p
    <3>1. run'[q] = run[q]
      BY <1>2, <2>2 DEF Procs
    <3>2. ASSUME NEW t \in Tasks, run[q].armed, Judged(t, run[q], cursor'), Promotable(report[t]),
                 max_chain_depth > 0, max_promotions_per_roadmap > 0
          PROVE  Full(cards, report, [ task |-> t, depth |-> 1 ])
      <4>1. Judged(t, run[q], cursor) \/ (p \in Daemons /\ Judged(t, run[p], cursor))
        BY <3>2 DEF Judged
      <4>2. p \in Daemons => run[p].armed
        BY <3>2 DEF IInv
      <4>. QED
        BY <3>2, <4>1, <4>2 DEF IInv, Waits
    <3>. QED
      BY <3>1, <3>2 DEF Waits
  <2>. QED
    BY <2>1, <2>2
<1>. QED
  BY <1>1, <1>3, <1>4 DEF IInv

LEMMA TruncateKeeps ==
  ASSUME IInv, NEW p \in Procs, Truncate(p)
  PROVE  IInv'
<1>. DEFINE r == [run[p] EXCEPT !.pc = "write"]
<1>1. run' = [run EXCEPT ![p] = r] /\ file' = {} /\ UNCHANGED << report, posted, cards, cursor, starts, faults >>
  BY DEF Truncate
<1>2. /\ run[p] \in Run /\ (run[p].mode = "tick" <=> p \in Daemons)
      /\ Good(p, run[p], cards, posted, report)
      /\ run[p].pc = "truncate" \/ run[p].mode # "tick"
  BY RunFacts DEF Truncate
<1>3. /\ r \in Run /\ r.mode = run[p].mode /\ r.pc = "write" /\ r.at = run[p].at
      /\ r.last = run[p].last /\ r.applied = run[p].applied /\ r.depth = run[p].depth
      /\ r.armed = run[p].armed /\ r.failed = run[p].failed
  BY <1>2 DEF Run
<1>. HIDE DEF r
<1>4. Good(p, r, cards, posted, report)
  BY <1>2, <1>3 DEF Good, Sound, Creating
<1>5. ASSUME p \in Daemons PROVE r.armed = run[p].armed /\ Waits(r, cursor, cards, report)
  <2>1. run[p].pc = "truncate"
    BY <1>2, <1>5
  <2>2. ASSUME NEW t \in Tasks, Judged(t, r, cursor) PROVE Judged(t, run[p], cursor)
    BY <1>3, <1>5, <2>1, <2>2 DEF Judged
  <2>. QED
    BY <1>3, <1>5, <2>2 DEF IInv, Waits
<1>6. /\ file' \subseteq Key /\ (\A k \in file' : Full(cards, report, k))
      /\ cursor' = cursor /\ cursor' \in 0 .. N /\ cursor' <= posted
      /\ starts' \in Nat /\ faults' \in Nat
  BY <1>1 DEF IInv, Types
<1>. QED
  BY <1>1, <1>4, <1>5, <1>6, PersistKeeps

LEMMA IdleWaits ==
  ASSUME NEW p, NEW r \in Run, NEW cur \in Nat, NEW cs, NEW rep,
         \A t \in Tasks : t <= cur => Judged(t, run[p], cursor),
         r.armed = run[p].armed,
         Waits(run[p], cursor, cs, rep)
  PROVE  Waits(Idle(r.mode, r.armed), cur, cs, rep)
<1>1. ASSUME NEW t \in Tasks, Judged(t, Idle(r.mode, r.armed), cur) PROVE t <= cur
  BY <1>1 DEF Judged, Idle, Tasks
<1>2. Idle(r.mode, r.armed).armed = r.armed
  BY DEF Idle
<1>. QED
  BY <1>1, <1>2 DEF Waits

LEMMA CrashKeeps ==
  ASSUME IInv, NEW p \in Procs, Crash(p)
  PROVE  IInv'
<1>. DEFINE r == Idle(run[p].mode, run[p].armed)
<1>1. run' = [run EXCEPT ![p] = r]
      /\ UNCHANGED << report, posted, file, cards, cursor, starts >> /\ faults' = faults + 1
  BY DEF Crash
<1>2. run[p] \in Run /\ (run[p].mode = "tick" <=> p \in Daemons) /\ posted \in Nat
  BY RunFacts
<1>3. Good(p, r, cards, posted, report)
  BY <1>2, IdleIsGood
<1>4. ASSUME p \in Daemons PROVE r.armed = run[p].armed /\ Waits(r, cursor, cards, report)
  <2>1. cursor \in Nat /\ \A t \in Tasks : t <= cursor => Judged(t, run[p], cursor)
    BY PromotionAssumption DEF Judged, IInv, Types
  <2>2. r.armed = run[p].armed
    BY DEF Idle
  <2>. QED
    BY <1>2, <1>4, <2>1, <2>2, IdleWaits DEF IInv
<1>5. /\ file' \subseteq Key /\ (\A k \in file' : Full(cards, report, k))
      /\ cursor' = cursor /\ cursor' \in 0 .. N /\ cursor' <= posted
      /\ starts' \in Nat /\ faults' \in Nat
  BY <1>1 DEF IInv, Types
<1>. HIDE DEF r
<1>. QED
  BY <1>1, <1>3, <1>4, <1>5, PersistKeeps

LEMMA WriteKeeps ==
  ASSUME IInv, NEW p \in Procs, Write(p)
  PROVE  IInv'
<1>. DEFINE r == IF run[p].mode = "tick" THEN Resume(run[p]) ELSE Idle(run[p].mode, run[p].armed)
<1>1. /\ run[p].pc = "write" /\ file' = run[p].applied
      /\ run' = [run EXCEPT ![p] = r]
      /\ UNCHANGED << report, posted, cards, cursor, starts, faults >>
  BY DEF Write
<1>2. /\ run[p] \in Run /\ (run[p].mode = "tick" <=> p \in Daemons) /\ posted \in Nat
      /\ Good(p, run[p], cards, posted, report)
      /\ run[p].mode = "tick" => run[p].at <= run[p].last
  BY <1>1, RunFacts DEF Good
<1>3. ASSUME run[p].mode # "tick" PROVE Good(p, r, cards, posted, report)
  <2>1. r = Idle(run[p].mode, run[p].armed)
    BY <1>3
  <2>. HIDE DEF r
  <2>. QED
    BY <1>2, <1>3, <2>1, IdleIsGood
<1>4. ASSUME run[p].mode = "tick"
      PROVE  /\ Good(p, r, cards, posted, report)
             /\ r.armed = run[p].armed /\ Waits(r, cursor, cards, report)
  <2>1. run[p].at \in Nat /\ run[p].last \in Nat /\ run[p].at + 1 \in Nat
    BY <1>2 DEF Run
  <2>2. /\ r \in Run /\ r.mode = "tick" /\ r.depth = run[p].depth /\ r.last = run[p].last
        /\ r.applied = run[p].applied /\ r.armed = run[p].armed
        /\ \/ run[p].failed /\ r.pc = "close" /\ r.at = run[p].at
           \/ ~ run[p].failed /\ r.pc = "judge" /\ r.at = run[p].at + 1
    BY <1>2, <1>4, <2>1 DEF Resume, Run
  <2>. HIDE DEF r
  <2>3. Good(p, r, cards, posted, report)
    BY <1>2, <1>4, <2>1, <2>2 DEF Good, Sound, Creating
  <2>4. ASSUME NEW t \in Tasks, Judged(t, r, cursor) PROVE Judged(t, run[p], cursor)
    BY <1>1, <1>2, <1>4, <2>1, <2>2, <2>4 DEF Judged, Tasks
  <2>. QED
    BY <1>2, <1>4, <2>2, <2>3, <2>4 DEF IInv, Waits
<1>5. /\ file' \subseteq Key /\ (\A k \in file' : Full(cards, report, k))
  BY <1>1, <1>2 DEF Good, Sound, Run
<1>6. /\ cursor' = cursor /\ cursor' \in 0 .. N /\ cursor' <= posted
      /\ starts' \in Nat /\ faults' \in Nat
  BY <1>1 DEF IInv, Types
<1>7. /\ Good(p, r, cards, posted, report)
      /\ p \in Daemons => r.armed = run[p].armed /\ Waits(r, cursor, cards, report)
  <2>1. CASE run[p].mode = "tick"
    BY <1>4, <2>1
  <2>2. CASE run[p].mode # "tick"
    BY <1>2, <1>3, <2>2
  <2>. QED
    BY <2>1, <2>2
<1>. HIDE DEF r
<1>. QED
  BY <1>1, <1>5, <1>6, <1>7, PersistKeeps

\* The batch is over, or stopped at a failed promotion.
LEMMA CloseKeeps ==
  ASSUME IInv, NEW p \in Daemons, Close(p)
  PROVE  IInv'
<1>. DEFINE d == run[p]
            r == Idle(d.mode, d.armed)
<1>0. p \in Procs
  BY DEF Procs
<1>1. /\ d.pc = "close" \/ (d.pc = "judge" /\ d.at > d.last)
      /\ cursor' = (IF cursor < d.at - 1 THEN d.at - 1 ELSE cursor) /\ run' = [run EXCEPT ![p] = r]
      /\ UNCHANGED << report, posted, file, cards, starts, faults >>
  BY DEF Close
<1>2. /\ d \in Run /\ d.mode = "tick" /\ posted \in Nat /\ posted <= N
      /\ Good(p, d, cards, posted, report)
  BY <1>0, RunFacts
<1>3. Good(p, r, cards, posted, report)
  BY <1>2, IdleIsGood
<1>4. d.at \in Nat /\ d.last \in Nat /\ 1 <= d.at /\ d.at - 1 <= d.last /\ d.last <= posted
  BY <1>2 DEF Good, Sound, Run
<1>5. cursor' \in Nat /\ cursor' \in 0 .. N /\ cursor' <= posted
  <2>1. cursor \in 0 .. N /\ cursor <= posted /\ N \in Nat
    BY PromotionAssumption DEF IInv, Types
  <2>. HIDE DEF d
  <2>. QED
    BY <1>1, <1>2, <1>4, <2>1
<1>6. \A t \in Tasks : t <= cursor' => Judged(t, run[p], cursor)
  BY <1>1, <1>4 DEF Judged, Tasks
<1>7. r.armed = run[p].armed /\ Waits(r, cursor', cards, report)
  <2>1. Waits(run[p], cursor, cards, report)
    BY DEF IInv
  <2>2. r.armed = run[p].armed
    BY DEF Idle
  <2>. QED
    BY <1>2, <1>5, <1>6, <2>1, <2>2, IdleWaits
<1>8. file' \subseteq Key /\ (\A k \in file' : Full(cards, report, k)) /\ starts' \in Nat /\ faults' \in Nat
  BY <1>1 DEF IInv, Types
<1>9. run' = [run EXCEPT ![p] = r] /\ UNCHANGED << report, posted, cards >>
  BY <1>1
<1>. HIDE DEF r, d
<1>. QED
  BY <1>0, <1>3, <1>5, <1>6, <1>7, <1>8, <1>9, PersistKeeps

\* A call or a tick begins with what the file holds.
LEMMA BeginKeeps ==
  ASSUME IInv, NEW p \in Procs, NEW mode \in { "promote", "watch", "tick" }, NEW first \in Nat,
         NEW end \in Nat, NEW armed \in BOOLEAN, Start(p, Begin(mode, first, end, armed)),
         mode = "tick" <=> p \in Daemons, 1 <= first, first <= end + 1, end <= posted,
         p \in Daemons => first = cursor + 1 /\ armed = run[p].armed
  PROVE  IInv'
<1>. DEFINE r == Begin(mode, first, end, armed)
<1>1. /\ r.mode = mode /\ r.pc = "judge" /\ r.at = first /\ r.last = end /\ r.applied = file
      /\ r.depth = 0 /\ r.armed = armed /\ r \in Run
  BY DEF Begin, Idle, Run, IInv, Types
<1>2. run' = [run EXCEPT ![p] = r] /\ starts' = starts + 1
      /\ UNCHANGED << report, posted, file, cards, cursor, faults >>
  BY DEF Start
<1>. HIDE DEF r
<1>3. Good(p, r, cards, posted, report)
  BY <1>1 DEF Good, Sound, Creating, IInv
<1>4. ASSUME p \in Daemons PROVE r.armed = run[p].armed /\ Waits(r, cursor, cards, report)
  <2>1. cursor \in Nat
    BY PromotionAssumption DEF IInv, Types
  <2>2. ASSUME NEW t \in Tasks, Judged(t, r, cursor) PROVE Judged(t, run[p], cursor)
    BY <1>1, <1>4, <2>1, <2>2 DEF Judged, Tasks
  <2>. QED
    BY <1>1, <1>4, <2>2 DEF IInv, Waits
<1>5. /\ file' \subseteq Key /\ (\A k \in file' : Full(cards, report, k))
      /\ cursor' = cursor /\ cursor' \in 0 .. N /\ cursor' <= posted
      /\ starts' \in Nat /\ faults' \in Nat
  BY <1>2 DEF IInv, Types
<1>. QED
  BY <1>2, <1>3, <1>4, <1>5, PersistKeeps

LEMMA FinishKeeps ==
  ASSUME IInv, Finish
  PROVE  IInv'
<1>1. posted \in Nat /\ posted' \in Nat /\ posted <= posted' /\ posted' \in 0 .. N
  BY PromotionAssumption DEF IInv, Types, Finish
<1>2. UNCHANGED << report, file, cards, cursor, run, starts, faults >>
  BY DEF Finish
<1>3. Types'
  BY <1>1, <1>2, PromotionAssumption DEF IInv, Types
<1>4. \A p \in Procs : Good(p, run[p], cards, posted', report)
  BY <1>1, GoodGrows DEF IInv
<1>. QED
  BY <1>2, <1>3, <1>4 DEF IInv

-----------------------------------------------------------------------------
LEMMA InitIsGood ==
  ASSUME Init
  PROVE  IInv
<1>1. PICK armed \in BOOLEAN :
        run = [p \in Procs |-> IF p \in Daemons THEN Idle("tick", armed) ELSE Idle("watch", FALSE)]
  BY DEF Init
<1>2. Types
  BY <1>1, PromotionAssumption DEF Init, Types
<1>3. ASSUME NEW p \in Procs PROVE Good(p, run[p], cards, posted, report)
  <2>1. posted \in Nat
    BY DEF Init
  <2>2. CASE p \in Daemons
    BY <1>1, <2>1, <2>2 DEF Idle, Good, Sound, Creating, Run
  <2>3. CASE p \notin Daemons
    BY <1>1, <2>1, <2>3 DEF Idle, Good, Sound, Creating, Run
  <2>. QED
    BY <2>2, <2>3
<1>4. ASSUME NEW p \in Daemons
      PROVE  run[p].armed = armed /\ Waits(run[p], cursor, cards, report)
  <2>1. run[p] = Idle("tick", armed)
    BY <1>1 DEF Procs
  <2>2. run[p].armed = armed
    BY <2>1 DEF Idle
  <2>3. Waits(run[p], cursor, cards, report)
    BY <2>1 DEF Init, Waits, Judged, Idle, Tasks
  <2>. QED
    BY <2>2, <2>3
<1>. QED
  BY <1>2, <1>3, <1>4 DEF Init, IInv, Chained, Clean

LEMMA StepIsGood ==
  ASSUME IInv, [Next]_vars
  PROVE  IInv'
<1>. USE DEF Procs
<1>1. CASE Finish
  BY <1>1, FinishKeeps
<1>2. ASSUME NEW p \in Daemons, Tick(p) PROVE IInv'
  <2>1. p \in Procs /\ run[p] \in Run /\ posted \in Nat
    BY RunFacts
  <2>2. cursor + 1 \in Nat /\ 1 <= cursor + 1 /\ cursor + 1 <= posted + 1 /\ posted <= posted
    BY <2>1, PromotionAssumption DEF IInv, Types
  <2>3. run[p].armed \in BOOLEAN
    BY <2>1 DEF Run
  <2>. QED
    BY <1>2, <2>1, <2>2, <2>3, BeginKeeps DEF Tick
<1>3. ASSUME NEW p \in Daemons, Close(p) PROVE IInv'
  BY <1>3, CloseKeeps
<1>4. ASSUME NEW p \in Calls, Promote(p) PROVE IInv'
  <2>1. PICK t \in Done, armed \in BOOLEAN : Start(p, Begin("promote", t, t, armed))
    BY <1>4 DEF Promote
  <2>2. p \in Procs /\ p \notin Daemons /\ posted \in Nat
    BY RunFacts, PromotionAssumption
  <2>3. t \in Nat /\ 1 <= t /\ t <= t + 1 /\ t <= posted
    BY <2>2 DEF Done
  <2>. QED
    BY <2>1, <2>2, <2>3, BeginKeeps
<1>5. ASSUME NEW p \in Calls, Watch(p) PROVE IInv'
  <2>1. PICK armed \in BOOLEAN : Start(p, Begin("watch", 1, posted, armed))
    BY <1>5 DEF Watch
  <2>2. p \in Procs /\ p \notin Daemons /\ posted \in Nat
    BY RunFacts, PromotionAssumption
  <2>3. 1 \in Nat /\ 1 <= 1 /\ 1 <= posted + 1 /\ posted <= posted
    BY <2>2
  <2>. QED
    BY <2>1, <2>2, <2>3, BeginKeeps
<1>6. ASSUME NEW p \in Procs, Step(p) PROVE IInv'
  BY <1>6, BypassKeeps, RefuseKeeps, DuplicateKeeps, ProposeKeeps, OversizeKeeps, ApplyKeeps, UnfetchedKeeps,
     CreateCardKeeps, FailCardKeeps, TruncateKeeps, WriteKeeps, CrashKeeps DEF Step
<1>7. CASE UNCHANGED vars
  BY <1>7 DEF vars, IInv, Types
<1>. QED
  BY <1>1, <1>2, <1>3, <1>4, <1>5, <1>6, <1>7 DEF Next

-----------------------------------------------------------------------------
\* Whatever the calls and the ticks do to the file and to each other, every
\* reachable state satisfies the parts above.
THEOREM Inductive == Spec => []IInv
BY InitIsGood, StepIsGood, PTL DEF Spec

\* The fields keep their sorts: a run's position, its ledgers and its phase, and
\* a cursor between 0 and the number of tasks.
THEOREM TypeCorrect == Spec => []TypeOK
<1>1. IInv => TypeOK
  <2>1. SUFFICES ASSUME IInv PROVE TypeOK
    OBVIOUS
  <2>2. ASSUME NEW p \in Procs PROVE run[p] \in Run
    BY <2>1, RunFacts
  <2>3. run \in [Procs -> Run]
    BY <2>1, <2>2 DEF IInv, Types
  <2>. QED
    BY <2>1, <2>3 DEF IInv, Types, TypeOK
<1>. QED
  BY <1>1, Inductive, PTL

LEMMA OnIsOnBoard ==
  /\ \A k, s : On(cards, k, s) <=> OnBoard(k, s)
  /\ \A k : Full(cards, report, k) <=> Complete(k)
BY DEF On, OnBoard, Full, Complete

\* A key in the receipts file or in the ledger of a running call has all the
\* cards of its graph: _duplicate_apply_result never hides a half-made graph,
\* however often the file is truncated, overwritten by an older copy or lost.
THEOREM DuplicatesAreWhole == Spec => []LedgerTellsTheBoard
<1>1. IInv => LedgerTellsTheBoard
  <2>1. SUFFICES ASSUME IInv, NEW k \in file \union UNION { run[p].applied : p \in Procs }
                 PROVE  Full(cards, report, k)
    BY OnIsOnBoard DEF LedgerTellsTheBoard
  <2>2. CASE k \in file
    BY <2>1, <2>2 DEF IInv
  <2>3. CASE k \notin file
    <3>1. PICK p \in Procs : k \in run[p].applied
      BY <2>1, <2>3
    <3>. QED
      BY <2>1, <3>1, RunFacts DEF Sound
  <2>. QED
    BY <2>2, <2>3
<1>. QED
  BY <1>1, Inductive, PTL

\* apply_roadmap_promotion creates the cards in the order of the template and
\* stops at the first failure: no card is on the board without the one before.
THEOREM NoOrphanCard == Spec => []GraphsAreChained
<1>1. IInv => GraphsAreChained
  BY OnIsOnBoard DEF IInv, Chained, GraphsAreChained
<1>. QED
  BY <1>1, Inductive, PTL

\* ingest_board_once breaks at a failed promotion and takes its event again: the
\* cursor that armed ticks share passes a promotable event only when its graph is
\* whole, or with no card when its plan is larger than one apply may create.
THEOREM CursorIsFailClosed == Spec => []CursorWaits
<1>1. IInv => CursorWaits
  <2>1. SUFFICES ASSUME IInv, NEW t \in Tasks, NEW p \in Daemons, run[p].armed, t <= cursor,
                        Compile(report[t].outcome) \in { "complete", "roadmap_next" },
                        Go(report[t]),
                        max_chain_depth > 0, max_promotions_per_roadmap > 0
                 PROVE  IF Fits(report[t]) THEN Full(cards, report, [ task |-> t, depth |-> 1 ])
                        ELSE \A c \in cards : c.key.task # t
    BY OnIsOnBoard DEF CursorWaits
  <2>2. CASE Fits(report[t])
    BY <2>1, <2>2 DEF IInv, Waits, Judged, Promotable
  <2>3. CASE ~ Fits(report[t])
    BY <2>1, <2>3 DEF IInv, Clean
  <2>. QED
    BY <2>2, <2>3
<1>. QED
  BY <1>1, Inductive, PTL

\* What compile_outcome lets through for a GO summary.
LEMMA CleanReports ==
  ASSUME NEW o \in Outcome, o.verdict = "GO", Compile(o) \in { "complete", "roadmap_next" }
  PROVE  /\ o.meta = "structured" => o.mkind \in { "complete", "roadmap_next" }
         /\ o.meta = "flat" => ~ (o.mverdict \in Blocking /\ o.mblockers # {})
         /\ Flat(o) = None /\ o.meta # "structured" /\ Marked(o) => o.marker = "complete"
<1>1. CASE o.meta = "structured"
  BY <1>1 DEF Compile, Structured, None
<1>2. ASSUME o.meta = "flat", o.mverdict \in Blocking, o.mblockers # {} PROVE FALSE
  <2>1. Flat(o) = Remedy(o.mblockers)
    BY <1>2 DEF Flat, Blocking
  <2>2. Remedy(o.mblockers) \in { "semantic_refusal", "code_fix" }
    BY DEF Remedy
  <2>. QED
    BY <1>2, <2>1, <2>2 DEF Compile, None
<1>3. ASSUME Flat(o) = None, o.meta # "structured", Marked(o) PROVE o.marker = "complete"
  <2>1. Compile(o) = IF FromText(o) # "unknown" THEN FromText(o) ELSE FromProse(o)
    BY <1>3 DEF Compile
  <2>2. FromProse(o) = "unknown"
    BY DEF FromProse, Blocking
  <2>3. FromText(o) \in { "complete", "roadmap_next" }
    BY <2>1, <2>2
  <2>. QED
    BY <1>3, <2>3 DEF FromText, Valid
<1>. QED
  BY <1>1, <1>2, <1>3

\* A card of a tick follows a report that both compile_outcome and the GO of
\* the summary let through.
THEOREM CleanPromotions == Spec => []OnlyCleanReportsArePromoted
<1>1. IInv => OnlyCleanReportsArePromoted
  <2>1. SUFFICES ASSUME IInv, NEW c \in cards, c.by \in Daemons
                 PROVE  LET o == report[c.key.task].outcome IN
                          /\ o.verdict = "GO"
                          /\ o.meta = "structured" => o.mkind \in { "complete", "roadmap_next" }
                          /\ o.meta = "flat" => ~ (o.mverdict \in Blocking /\ o.mblockers # {})
                          /\ Flat(o) = None /\ o.meta # "structured" /\ Marked(o) => o.marker = "complete"
    BY DEF OnlyCleanReportsArePromoted
  <2>2. Promotable(report[c.key.task])
    BY <2>1 DEF IInv, Clean
  <2>3. report[c.key.task].outcome \in Outcome
    <3>1. c.key.task \in Tasks
      BY <2>1 DEF IInv, Types, Card, Key
    <3>2. report \in [Tasks -> [outcome : Outcome, gate : Gates, size : Nat \ {0}]]
      BY <2>1, PromotionAssumption DEF IInv, Types
    <3>. QED
      BY <3>1, <3>2
  <2>. QED
    BY <2>2, <2>3, CleanReports DEF Promotable, Go
<1>. QED
  BY <1>1, Inductive, PTL

=============================================================================
