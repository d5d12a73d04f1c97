------------------------ MODULE LoopSupervisorProofs ------------------------
(***************************************************************************)
(* Proofs about LoopSupervisor for any events, any policy and any caps.        *)
(***************************************************************************)
EXTENDS LoopSupervisor, FiniteSetTheorems, WellFoundedInduction, TLAPS

-----------------------------------------------------------------------------
(* Numbers and finite sets.                                                *)

\* A bounded set of naturals has a largest element.
LEMMA BoundedHasLargest ==
  ASSUME NEW S \in SUBSET Nat, S # {}, NEW b \in Nat, \A n \in S : n <= b
  PROVE  \E n \in S : \A m \in S : m <= n
<1>. DEFINE T == { k \in Nat : b - k \in S }
<1>1. T \subseteq Nat /\ T # {}
  <2>1. PICK n \in S : TRUE
    OBVIOUS
  <2>2. b - n \in Nat /\ b - (b - n) = n
    <3>1. n \in Nat /\ n <= b
      BY <2>1
    <3>. QED
      BY <3>1
  <2>. QED
    BY <2>1, <2>2
<1>2. PICK k \in T : \A l \in T : ~ (<< l, k >> \in OpToRel(<, Nat))
  <2>. HIDE DEF T
  <2>. QED
    BY <1>1, NatLessThanWellFounded, WFMin
<1>3. \A l \in T : ~ (l < k)
  BY <1>1, <1>2 DEF OpToRel
<1>4. k \in Nat /\ b - k \in S
  BY <1>2
<1>5. ASSUME NEW m \in S PROVE m <= b - k
  <2>1. m \in Nat /\ m <= b
    BY <1>5
  <2>2. b - m \in T
    <3>1. b - m \in Nat /\ b - (b - m) = m
      BY <2>1
    <3>. QED
      BY <3>1
  <2>3. ~ (b - m < k)
    BY <1>3, <2>2
  <2>. QED
    BY <1>4, <2>1, <2>3
<1>. QED
  BY <1>4, <1>5

LEMMA LargestIsLargest ==
  ASSUME NEW S \in SUBSET Nat, NEW b \in Nat, \A n \in S : n <= b, NEW d \in Nat
  PROVE  /\ Largest(S, d) \in Nat
         /\ Largest(S, d) \in S \/ (S = {} /\ Largest(S, d) = d)
         /\ \A n \in S : n <= Largest(S, d)
<1>1. CASE S = {}
  BY <1>1 DEF Largest
<1>2. CASE S # {}
  <2>1. \E n \in S : \A m \in S : m <= n
    BY <1>2, BoundedHasLargest
  <2>. QED
    BY <1>2, <2>1 DEF Largest
<1>. QED
  BY <1>1, <1>2

\* The first cards of some are some of them, and so at most Len(Steps).
LEMMA AttemptedIsFinite ==
  ASSUME NEW ev
  PROVE  /\ Attempted(ev) \subseteq Cards
         /\ \A i \in Attempted(ev) : Steps[i][1] = ev.blocker
         /\ IsFiniteSet(Attempted(ev))
         /\ Cardinality(Attempted(ev)) \in 0 .. Len(Steps)
<1>1. Attempted(ev) \subseteq Cards /\ \A i \in Attempted(ev) : Steps[i][1] = ev.blocker
  BY DEF Attempted, Candidates, FirstOf
<1>2. Cards = 1 .. Len(Steps) /\ Len(Steps) = 11
  BY DEF Cards, Steps
<1>3. IsFiniteSet(Cards) /\ Cardinality(Cards) = Len(Steps)
  <2>1. IsFiniteSet(1 .. 11) /\ Cardinality(1 .. 11) = 11
    <3>1. 1 \in Int /\ 11 \in Int /\ ~ (1 > 11) /\ 11 - 1 + 1 = 11
      OBVIOUS
    <3>2. Cardinality(1 .. 11) = IF 1 > 11 THEN 0 ELSE 11 - 1 + 1
      BY <3>1, FS_Interval
    <3>. QED
      BY <3>1, <3>2, FS_Interval
  <2>. QED
    BY <1>2, <2>1
<1>4. IsFiniteSet(Attempted(ev)) /\ Cardinality(Attempted(ev)) <= Len(Steps)
      /\ Cardinality(Attempted(ev)) \in Nat
  <2>1. Attempted(ev) \in SUBSET Cards
    BY <1>1
  <2>. QED
    BY <1>3, <2>1, FS_Subset, FS_CardinalityType
<1>. QED
  BY <1>1, <1>2, <1>4

-----------------------------------------------------------------------------
(* The inductive invariant: the ledger is finite, its versions are bounded, and *)
(* the four properties hold together.                                        *)

LedgerOK ==
  /\ receipts \subseteq Receipt
  /\ IsFiniteSet(receipts)
  /\ \E b \in Nat : \A r \in receipts : r.vn <= b

IInv ==
  /\ LedgerOK
  /\ cards \subseteq Board
  /\ RoundsAreSpent
  /\ RemediationsAreSpaced
  /\ SameBlockerIsBounded
  /\ CardsFollowReceipts

SpentOn(graph, blocker) == { r \in Spent(graph) : r.blocker = blocker }

\* A receipt that may join the ledger: what its decision has checked before.
Fits(n) ==
  /\ n \in Receipt
  /\ n.decision \in Remediations =>
       /\ n.round \in 1 .. max_rounds
       /\ \A r \in receipts : r.graph = n.graph => r.round < n.round
       /\ \A r \in SpentOn(n.graph, n.blocker) : n.at >= r.at + cooldown_seconds
       /\ Cardinality(SpentOn(n.graph, n.blocker)) < max_same_blocker

LEMMA SpentGrows ==
  ASSUME NEW n, receipts' = receipts \union {n}, NEW g
  PROVE  /\ n.graph = g /\ n.decision \in Remediations => Spent(g)' = Spent(g) \union {n}
         /\ ~ (n.graph = g /\ n.decision \in Remediations) => Spent(g)' = Spent(g)
BY DEF Spent

\* The ledger's properties survive a receipt that fits.
LEMMA FitsKeeps ==
  ASSUME IInv, NEW n, Fits(n), receipts' = receipts \union {n}
  PROVE  LedgerOK' /\ RoundsAreSpent' /\ RemediationsAreSpaced' /\ SameBlockerIsBounded'
<1>1. LedgerOK'
  <2>1. receipts' \subseteq Receipt
    BY DEF IInv, LedgerOK, Fits
  <2>2. IsFiniteSet(receipts')
    BY FS_AddElement DEF IInv, LedgerOK
  <2>3. PICK b \in Nat : \A r \in receipts : r.vn <= b
    BY DEF IInv, LedgerOK
  <2>4. n.vn \in Nat
    BY DEF Fits, Receipt
  <2>5. b + n.vn \in Nat /\ \A r \in receipts' : r.vn <= b + n.vn
    <3>1. \A r \in receipts : r.vn \in Nat
      BY DEF IInv, LedgerOK, Receipt
    <3>. QED
      BY <2>3, <2>4, <3>1
  <2>. QED
    BY <2>1, <2>2, <2>5 DEF LedgerOK
<1>2. RoundsAreSpent'
  <2>1. ASSUME NEW g \in Graphs, NEW r \in Spent(g)', NEW q \in Spent(g)'
        PROVE  r.round \in 1 .. max_rounds /\ (r # q => r.round # q.round)
    <3>1. r.round \in 1 .. max_rounds
      BY <2>1, SpentGrows DEF IInv, RoundsAreSpent, Fits
    <3>2. \A p \in receipts : p.round \in Nat
      BY DEF IInv, LedgerOK, Receipt
    <3>3. Spent(g) \subseteq receipts /\ \A p \in Spent(g) : p.graph = g
      BY DEF Spent
    <3>4. CASE r \in Spent(g) /\ q \in Spent(g)
      BY <3>1, <3>4 DEF IInv, RoundsAreSpent
    <3>5. CASE r \notin Spent(g) \/ q \notin Spent(g)
      <4>1. n.graph = g /\ n.decision \in Remediations /\ Spent(g)' = Spent(g) \union {n}
        BY <2>1, <3>5, SpentGrows
      <4>2. \A p \in Spent(g) : p.round < n.round
        BY <3>3, <4>1 DEF Fits
      <4>3. n.round \in Nat
        BY DEF Fits, Receipt
      <4>4. r \in Spent(g) \union {n} /\ q \in Spent(g) \union {n}
        BY <2>1, <4>1
      <4>5. \A p \in Spent(g) : p.round \in Nat
        BY <3>2, <3>3
      <4>6. r # q => r.round # q.round
        <5>1. CASE r = n /\ q \in Spent(g)
          BY <4>2, <4>3, <4>5, <5>1
        <5>2. CASE q = n /\ r \in Spent(g)
          BY <4>2, <4>3, <4>5, <5>2
        <5>. QED
          BY <3>5, <4>4, <5>1, <5>2
      <4>. QED
        BY <3>1, <4>6
    <3>. QED
      BY <3>4, <3>5
  <2>. QED
    BY <2>1 DEF RoundsAreSpent
<1>3. RemediationsAreSpaced'
  <2>1. ASSUME NEW g \in Graphs, NEW r \in Spent(g)', NEW q \in Spent(g)',
               r # q, r.blocker = q.blocker
        PROVE  r.at >= q.at + cooldown_seconds \/ q.at >= r.at + cooldown_seconds
    <3>1. CASE r \in Spent(g) /\ q \in Spent(g)
      BY <2>1, <3>1 DEF IInv, RemediationsAreSpaced
    <3>2. CASE r \notin Spent(g) \/ q \notin Spent(g)
      <4>1. n.graph = g /\ n.decision \in Remediations /\ Spent(g)' = Spent(g) \union {n}
        BY <2>1, <3>2, SpentGrows
      <4>2. \A p \in Spent(g) : p.blocker = n.blocker => n.at >= p.at + cooldown_seconds
        BY <4>1 DEF Fits, SpentOn
      <4>. QED
        BY <2>1, <4>1, <4>2, <3>2
    <3>. QED
      BY <3>1, <3>2
  <2>. QED
    BY <2>1 DEF RemediationsAreSpaced
<1>4. SameBlockerIsBounded'
  <2>1. ASSUME NEW g \in Graphs, NEW b \in Blockers
        PROVE  Cardinality(SpentOn(g, b)') <= max_same_blocker
    <3>1. IsFiniteSet(SpentOn(g, b))
      <4>1. SpentOn(g, b) \in SUBSET receipts
        BY DEF SpentOn, Spent
      <4>. QED
        BY <4>1, FS_Subset DEF IInv, LedgerOK
    <3>2. Cardinality(SpentOn(g, b)) \in Nat /\ Cardinality(SpentOn(g, b)) <= max_same_blocker
      BY <2>1, <3>1, FS_CardinalityType DEF IInv, SameBlockerIsBounded, SpentOn
    <3>3. CASE n.graph = g /\ n.decision \in Remediations /\ n.blocker = b
      <4>1. SpentOn(g, b)' = SpentOn(g, b) \union {n}
        BY <3>3, SpentGrows DEF SpentOn
      <4>2. Cardinality(SpentOn(g, b)) < max_same_blocker
        BY <3>3 DEF Fits
      <4>3. Cardinality(SpentOn(g, b) \union {n}) <= Cardinality(SpentOn(g, b)) + 1
        <5>1. Cardinality(SpentOn(g, b) \union {n}) =
                IF n \in SpentOn(g, b) THEN Cardinality(SpentOn(g, b)) ELSE Cardinality(SpentOn(g, b)) + 1
          BY <3>1, FS_AddElement
        <5>. HIDE DEF SpentOn
        <5>. QED
          BY <3>2, <5>1
      <4>4. Cardinality(SpentOn(g, b) \union {n}) \in Nat
        BY <3>1, FS_AddElement, FS_CardinalityType
      <4>. QED
        BY <3>2, <4>1, <4>2, <4>3, <4>4, SupervisorAssumption
    <3>4. CASE ~ (n.graph = g /\ n.decision \in Remediations /\ n.blocker = b)
      <4>1. SpentOn(g, b)' = SpentOn(g, b)
        BY <3>4, SpentGrows DEF SpentOn
      <4>. QED
        BY <3>2, <4>1
    <3>. QED
      BY <3>3, <3>4
  <2>. QED
    BY <2>1 DEF SameBlockerIsBounded, SpentOn
<1>. QED
  BY <1>1, <1>2, <1>3, <1>4

\* Receipt n lets card c be made.
Explains(n, c) ==
  \/ /\ c[3] # "final-v2" /\ c[1] = n.graph /\ n.decision = "apply" /\ n.attempts > 0
     /\ n.blocker = c[2] /\ c[2] \in Allowlisted
  \/ /\ c[3] = "final-v2" /\ n.decision = "supersede" /\ n.attempts > 0
     /\ n.key[2] = c[1] /\ c[2] \in Allowlisted

\* A card that is explained stays explained.
LEMMA CardsStay ==
  ASSUME IInv, NEW n, receipts' = receipts \union {n},
         \A c \in cards' \ cards : Explains(n, c)
  PROVE  CardsFollowReceipts'
<1>1. ASSUME NEW g \in Graphs, NEW c \in cards', c[1] = g, c[3] # "final-v2"
      PROVE  \E r \in Spent(g)' : /\ r.decision = "apply" /\ r.attempts > 0
                                  /\ r.blocker = c[2] /\ c[2] \in Allowlisted
  <2>1. CASE c \in cards
    <3>1. PICK r \in Spent(g) : /\ r.decision = "apply" /\ r.attempts > 0
                                /\ r.blocker = c[2] /\ c[2] \in Allowlisted
      BY <1>1, <2>1 DEF IInv, CardsFollowReceipts
    <3>2. r \in Spent(g)'
      BY SpentGrows
    <3>. QED
      BY <3>1, <3>2
  <2>2. CASE c \notin cards
    <3>1. /\ c[1] = n.graph /\ n.decision = "apply" /\ n.attempts > 0
          /\ n.blocker = c[2] /\ c[2] \in Allowlisted
      BY <1>1, <2>2 DEF Explains
    <3>2. n \in Spent(g)'
      BY <1>1, <3>1 DEF Spent, Remediations
    <3>. QED
      BY <3>1, <3>2
  <2>. QED
    BY <2>1, <2>2
<1>2. ASSUME NEW c \in cards', c[3] = "final-v2"
      PROVE  \E r \in receipts' : /\ r.decision = "supersede" /\ r.attempts > 0
                                  /\ r.key[2] = c[1] /\ c[2] \in Allowlisted
  <2>1. CASE c \in cards
    BY <1>2, <2>1 DEF IInv, CardsFollowReceipts
  <2>2. CASE c \notin cards
    BY <1>2, <2>2 DEF Explains
  <2>. QED
    BY <2>1, <2>2
<1>. QED
  BY <1>1, <1>2 DEF CardsFollowReceipts

LEMMA ReceiptKeeps ==
  ASSUME IInv, NEW n, Fits(n), receipts' = receipts \union {n}, cards' \subseteq Board,
         \A c \in cards' \ cards : Explains(n, c)
  PROVE  IInv'
<1>1. CardsFollowReceipts'
  BY CardsStay
<1>. QED
  BY <1>1, FitsKeeps DEF IInv, Board

-----------------------------------------------------------------------------
(* One lemma per kind of judgement.                                         *)

LEMMA JudgedType ==
  ASSUME NEW ev \in Event, NEW d \in Decisions, NEW b \in Blockers \union {NoBlocker}
  PROVE  Judged(ev, d, b) \in Receipt
BY DEF Judged, Event, Receipt, Keys

\* A refusal, a verdict or a postponement adds a receipt that spends nothing.
LEMMA PlainKeeps ==
  ASSUME IInv, NEW ev \in Event, NEW d \in { "noop", "escalate", "stabilize" },
         NEW b \in Blockers \union {NoBlocker}, Recorded(Judged(ev, d, b))
  PROVE  IInv'
<1>1. Judged(ev, d, b) \in Receipt /\ Judged(ev, d, b).decision = d
  <2>1. d \in Decisions
    BY DEF Decisions
  <2>. QED
    BY <2>1, JudgedType DEF Judged
<1>2. Fits(Judged(ev, d, b))
  BY <1>1 DEF Fits, Remediations
<1>3. receipts' = receipts \union {Judged(ev, d, b)} /\ cards' = cards
  BY DEF Recorded
<1>. QED
  BY <1>2, <1>3, ReceiptKeeps DEF IInv

LEMMA AlreadyKeeps ==
  ASSUME IInv, NEW ev \in Event, NEW stance, AlreadySuperseded(ev, stance)
  PROVE  IInv'
<1>. DEFINE n == [Judged(ev, "noop", Fanin) EXCEPT !.key = SupersessionKey(ev)]
<1>1. Judged(ev, "noop", Fanin) \in Receipt /\ Judged(ev, "noop", Fanin).decision = "noop"
  <2>1. "noop" \in Decisions /\ Fanin \in Blockers
    BY DEF Decisions, Blockers, Fanin
  <2>. QED
    BY <2>1, JudgedType DEF Judged
<1>2. SupersessionKey(ev) \in Keys
  BY DEF SupersessionKey, Keys, Event
<1>3. n \in Receipt /\ n.decision = "noop"
  BY <1>1, <1>2 DEF Receipt
<1>4. receipts' = receipts \union {n} /\ cards' = cards
  BY DEF AlreadySuperseded, Recorded
<1>. HIDE DEF n
<1>5. Fits(n)
  BY <1>3 DEF Fits, Remediations
<1>. QED
  BY <1>4, <1>5, ReceiptKeeps DEF IInv

\* The ledger's answers, for a graph.
LEMMA LedgerFacts ==
  ASSUME IInv, NEW ev \in Event
  PROVE  /\ Round(ev) \in Nat
         /\ \A r \in receipts : r.graph = ev.graph => r.round \in Nat /\ r.round <= Round(ev)
         /\ CurrentVn(ev.graph) \in Nat
         /\ \A r \in receipts : r.graph = ev.graph => r.vn \in Nat /\ r.vn <= CurrentVn(ev.graph)
<1>. DEFINE R == RoundsOf(ev.graph)
            V == { r.vn : r \in { q \in receipts : q.graph = ev.graph } }
<1>1. /\ R \in SUBSET Nat /\ (\A n \in R : n <= max_rounds) /\ max_rounds \in Nat
  BY SupervisorAssumption DEF RoundsOf, IInv, LedgerOK, Receipt
<1>2. MaxRound(ev.graph) \in Nat /\ MaxRound(ev.graph) <= max_rounds
      /\ \A n \in R : n <= MaxRound(ev.graph)
  <2>1. MaxRound(ev.graph) = Largest(R, 0)
    BY DEF MaxRound
  <2>. HIDE DEF R
  <2>2. 0 \in Nat /\ 0 <= max_rounds
    BY <1>1
  <2>. QED
    BY <1>1, <2>1, <2>2, LargestIsLargest
<1>3. Round(ev) \in Nat /\ MaxRound(ev.graph) <= Round(ev)
  <2>. DEFINE S == { ev.round_no, MaxRound(ev.graph) }
  <2>1. S \in SUBSET Nat /\ (\A n \in S : n <= max_rounds)
    BY <1>1, <1>2 DEF Event
  <2>2. Largest(S, 0) \in Nat /\ \A n \in S : n <= Largest(S, 0)
    <3>. HIDE DEF S
    <3>. QED
      BY <1>1, <2>1, LargestIsLargest
  <2>. QED
    BY <2>2 DEF Round
<1>4. ASSUME NEW r \in receipts, r.graph = ev.graph PROVE r.round \in Nat /\ r.round <= Round(ev)
  <2>1. r.round \in R
    BY <1>4 DEF RoundsOf
  <2>2. r.round \in Nat /\ r.round <= MaxRound(ev.graph)
    BY <1>1, <1>2, <2>1
  <2>. QED
    BY <1>2, <1>3, <2>2
<1>5. PICK b \in Nat : \A r \in receipts : r.vn <= b
  BY DEF IInv, LedgerOK
<1>6. V \in SUBSET Nat /\ \A n \in V : n <= b
  BY <1>5 DEF IInv, LedgerOK, Receipt
<1>7. CurrentVn(ev.graph) \in Nat /\ \A n \in V : n <= CurrentVn(ev.graph)
  <2>1. CurrentVn(ev.graph) = Largest(V, 1)
    BY DEF CurrentVn
  <2>. HIDE DEF V
  <2>. QED
    BY <1>5, <1>6, <2>1, LargestIsLargest
<1>8. ASSUME NEW r \in receipts, r.graph = ev.graph PROVE r.vn \in Nat /\ r.vn <= CurrentVn(ev.graph)
  <2>1. r.vn \in V
    BY <1>8
  <2>. QED
    BY <1>6, <1>7, <2>1
<1>. QED
  BY <1>3, <1>4, <1>7, <1>8

LEMMA RemediateKeeps ==
  ASSUME IInv, NEW ev \in Event, NEW stance, Remediate(ev, stance)
  PROVE  IInv'
<1>1. /\ ev.blocker \in Allowlisted /\ ~ Exhausted(ev) /\ ~ Cooling(ev)
  BY DEF Remediate, Unremediable
<1>. DEFINE d == IF stance = "apply" THEN "apply" ELSE "propose"
<1>2. PICK armed \in { FALSE, stance = "apply" } :
        LET tried == IF armed THEN Attempted(ev) ELSE {} IN
        /\ receipts' = receipts \union
             { [Judged(ev, d, ev.blocker) EXCEPT !.round = SpentRound(ev), !.attempts = Cardinality(tried)] }
        /\ \E made \in SUBSET tried :
             cards' = cards \union { << ev.graph, Steps[i][1], Steps[i][2] >> : i \in made }
  BY DEF Remediate
<1>. DEFINE tried == IF armed THEN Attempted(ev) ELSE {}
            n == [Judged(ev, d, ev.blocker) EXCEPT !.round = SpentRound(ev), !.attempts = Cardinality(tried)]
<1>3. PICK made \in SUBSET tried :
        cards' = cards \union { << ev.graph, Steps[i][1], Steps[i][2] >> : i \in made }
  BY <1>2
<1>4. receipts' = receipts \union {n}
  BY <1>2
<1>5. /\ IsFiniteSet(tried) /\ Cardinality(tried) \in 0 .. Len(Steps) /\ tried \subseteq Cards
      /\ \A i \in tried : Steps[i][1] = ev.blocker /\ armed
  <2>1. CASE armed
    BY <2>1, AttemptedIsFinite
  <2>2. CASE ~ armed
    <3>1. tried = {} /\ IsFiniteSet({}) /\ Cardinality({}) = 0
      BY <2>2, FS_EmptySet
    <3>2. Len(Steps) = 11
      BY DEF Steps
    <3>. QED
      BY <3>1, <3>2
  <2>. QED
    BY <2>1, <2>2
<1>6. /\ SpentRound(ev) \in 1 .. max_rounds
      /\ \A r \in receipts : r.graph = ev.graph => r.round < SpentRound(ev)
  <2>1. Round(ev) \in Nat /\ Round(ev) < max_rounds /\ SpentRound(ev) = Round(ev) + 1
    BY <1>1, LedgerFacts, SupervisorAssumption DEF Exhausted, SpentRound
  <2>2. \A r \in receipts : r.graph = ev.graph => r.round \in Nat /\ r.round <= Round(ev)
    BY LedgerFacts
  <2>. QED
    BY <2>1, <2>2, SupervisorAssumption
<1>7. /\ n \in Receipt /\ n.graph = ev.graph /\ n.blocker = ev.blocker /\ n.at = ev.at
      /\ n.decision = d /\ n.round = SpentRound(ev) /\ n.attempts = Cardinality(tried)
  <2>1. ev.blocker \in Blockers
    BY <1>1, SupervisorAssumption
  <2>2. d \in Decisions
    BY DEF Decisions
  <2>3. Judged(ev, d, ev.blocker) \in Receipt
    BY <2>1, <2>2, JudgedType
  <2>4. SpentRound(ev) \in 0 .. max_rounds
    BY <1>6, SupervisorAssumption
  <2>5. /\ Judged(ev, d, ev.blocker).graph = ev.graph /\ Judged(ev, d, ev.blocker).decision = d
        /\ Judged(ev, d, ev.blocker).blocker = ev.blocker /\ Judged(ev, d, ev.blocker).at = ev.at
    BY DEF Judged
  <2>. HIDE DEF tried, d
  <2>. QED
    BY <1>5, <2>3, <2>4, <2>5 DEF Receipt
<1>8. Cardinality(SpentOn(ev.graph, ev.blocker)) < max_same_blocker
      /\ \A r \in SpentOn(ev.graph, ev.blocker) : ev.at >= r.at + cooldown_seconds
  <2>1. SpentOn(ev.graph, ev.blocker) \in SUBSET ActionsOn(ev.graph, ev.blocker)
    BY DEF SpentOn, Spent, ActionsOn, Counted
  <2>2. ActionsOn(ev.graph, ev.blocker) \in SUBSET receipts
    BY DEF ActionsOn
  <2>3. IsFiniteSet(ActionsOn(ev.graph, ev.blocker))
    BY <2>2, FS_Subset DEF IInv, LedgerOK
  <2>4. /\ Cardinality(SpentOn(ev.graph, ev.blocker)) <= Cardinality(ActionsOn(ev.graph, ev.blocker))
        /\ IsFiniteSet(SpentOn(ev.graph, ev.blocker))
    BY <2>1, <2>3, FS_Subset
  <2>5. /\ Cardinality(SpentOn(ev.graph, ev.blocker)) \in Nat
        /\ Cardinality(ActionsOn(ev.graph, ev.blocker)) \in Nat
    BY <2>3, <2>4, FS_CardinalityType
  <2>6. Cardinality(ActionsOn(ev.graph, ev.blocker)) < max_same_blocker
    BY <1>1, <2>5, SupervisorAssumption DEF Exhausted, CountBlocker
  <2>7. \A r \in ActionsOn(ev.graph, ev.blocker) : ~ (ev.at < r.at + cooldown_seconds)
    BY <1>1 DEF Cooling
  <2>8. ev.at \in Nat /\ \A r \in receipts : r.at \in Nat
    BY SupervisorAssumption DEF Event, Times, IInv, LedgerOK, Receipt
  <2>9. \A r \in SpentOn(ev.graph, ev.blocker) : ev.at >= r.at + cooldown_seconds
    BY <2>1, <2>2, <2>7, <2>8, SupervisorAssumption
  <2>. QED
    BY <2>4, <2>5, <2>6, <2>9, SupervisorAssumption
<1>9. d \in Remediations /\ d # "supersede"
  BY DEF Remediations
<1>10. Fits(n)
  <2>. HIDE DEF n, d
  <2>. QED
    BY <1>6, <1>7, <1>8, <1>9 DEF Fits
<1>11. cards' \subseteq Board
  BY <1>3, <1>5 DEF IInv, Board, Event
<1>12. ASSUME NEW c \in cards' \ cards
       PROVE  Explains(n, c)
  <2>. HIDE DEF n, tried
  <2>1. PICK i \in made : c = << ev.graph, Steps[i][1], Steps[i][2] >>
    BY <1>3, <1>12
  <2>2. i \in tried /\ c[1] = ev.graph /\ c[2] = ev.blocker /\ armed
    BY <1>5, <2>1
  <2>3. d = "apply"
    BY <2>2
  <2>4. Cardinality(tried) > 0
    <3>1. tried # {} /\ Cardinality(tried) \in Nat
      BY <1>5, <2>2
    <3>2. Cardinality(tried) # 0
      BY <1>5, <3>1, FS_EmptySet
    <3>. QED
      BY <3>1, <3>2
  <2>5. c[3] # "final-v2"
    BY <1>5, <2>1, <2>2 DEF Cards, Steps
  <2>. QED
    BY <1>1, <1>7, <2>2, <2>3, <2>4, <2>5 DEF Explains
<1>. HIDE DEF n
<1>. QED
  BY <1>4, <1>10, <1>11, <1>12, ReceiptKeeps

LEMMA SupersedeKeeps ==
  ASSUME IInv, NEW ev \in Event, NEW stance, Supersede(ev, stance)
  PROVE  IInv'
<1>1. PICK armed \in { FALSE, stance = "apply" /\ max_auto_creates_per_run > 0 } :
        /\ receipts' = receipts \union
             { [Judged(ev, "supersede", Fanin) EXCEPT
                  !.vn = NextVn(ev), !.key = SupersessionKey(ev), !.attempts = IF armed THEN 1 ELSE 0] }
        /\ \E made \in { FALSE, armed } :
             cards' = IF made THEN cards \union {<< ev.final, Fanin, "final-v2" >>} ELSE cards
  BY DEF Supersede
<1>. DEFINE n == [Judged(ev, "supersede", Fanin) EXCEPT
                    !.vn = NextVn(ev), !.key = SupersessionKey(ev), !.attempts = IF armed THEN 1 ELSE 0]
<1>2. /\ receipts' = receipts \union {n}
      /\ cards' \subseteq cards \union {<< ev.final, Fanin, "final-v2" >>}
      /\ cards' # cards => armed
  <2>1. PICK made \in { FALSE, armed } :
          cards' = IF made THEN cards \union {<< ev.final, Fanin, "final-v2" >>} ELSE cards
    BY <1>1
  <2>2. cards' # cards => made
    BY <2>1
  <2>3. cards' # cards => armed
    <3>1. made = FALSE \/ made = armed
      OBVIOUS
    <3>2. CASE made = FALSE
      BY <2>2, <3>2
    <3>3. CASE made = armed
      BY <2>2, <3>3, Zenon
    <3>. QED
      BY <3>1, <3>2, <3>3
  <2>4. cards' \subseteq cards \union {<< ev.final, Fanin, "final-v2" >>}
    BY <2>1
  <2>5. receipts' = receipts \union {n}
    BY <1>1
  <2>. QED
    BY <2>3, <2>4, <2>5
<1>3. NextVn(ev) \in Nat \ {0}
  BY LedgerFacts DEF NextVn
<1>4. Fanin \in Allowlisted
  BY DEF Supersede, Unsupersedable
<1>5. /\ n \in Receipt /\ n.decision = "supersede"
      /\ n.key[2] = ev.final
      /\ armed => n.attempts > 0
  <2>1. "supersede" \in Decisions /\ Fanin \in Blockers
    BY DEF Decisions, Blockers, Fanin
  <2>2. Judged(ev, "supersede", Fanin) \in Receipt
    BY <2>1, JudgedType
  <2>3. SupersessionKey(ev) \in Keys
    BY DEF SupersessionKey, Keys, Event
  <2>4. (IF armed THEN 1 ELSE 0) \in 0 .. Len(Steps)
    <3>1. Len(Steps) = 11
      BY DEF Steps
    <3>. QED
      BY <3>1
  <2>5. Judged(ev, "supersede", Fanin).decision = "supersede"
    BY DEF Judged
  <2>6. SupersessionKey(ev)[2] = ev.final
    BY DEF SupersessionKey
  <2>7. n \in Receipt
    BY <1>3, <2>2, <2>3, <2>4 DEF Receipt
  <2>8. n.decision = "supersede" /\ n.key[2] = ev.final /\ n.attempts = IF armed THEN 1 ELSE 0
    BY <2>2, <2>5, <2>6 DEF Receipt
  <2>9. armed => n.attempts > 0
    BY <2>8
  <2>. QED
    BY <2>7, <2>8, <2>9
<1>. HIDE DEF n
<1>6. Fits(n)
  BY <1>5 DEF Fits, Remediations
<1>7. cards' \subseteq Board
  BY <1>2 DEF IInv, Board, Event
<1>8. ASSUME NEW c \in cards' \ cards
      PROVE  Explains(n, c)
  <2>1. c = << ev.final, Fanin, "final-v2" >>
    BY <1>2
  <2>2. n.attempts > 0
    <3>1. cards' # cards
      BY <1>8
    <3>. QED
      BY <1>2, <1>5, <3>1, Zenon
  <2>3. c[1] = ev.final /\ c[2] = Fanin /\ c[3] = "final-v2"
    BY <2>1
  <2>. QED
    BY <1>4, <1>5, <2>2, <2>3 DEF Explains
<1>. QED
  BY <1>2, <1>6, <1>7, <1>8, ReceiptKeeps

LEMMA EvaluateKeeps ==
  ASSUME IInv, NEW ev \in Event, NEW stance \in Stances, Evaluate(ev, stance)
  PROVE  IInv'
<1>. USE DEF Fanin, NoBlocker, Blockers
<1>1. ev.blocker \in Blockers \union {NoBlocker}
  BY DEF Event
<1>2. CASE Stop(ev, stance)
  BY <1>2, PlainKeeps DEF Stop
<1>3. CASE Verdict(ev, stance)
  BY <1>3, PlainKeeps DEF Verdict
<1>4. CASE Escalate(ev, stance)
  BY <1>1, <1>4, PlainKeeps DEF Escalate
<1>5. CASE Postpone(ev, stance)
  BY <1>1, <1>5, PlainKeeps DEF Postpone
<1>6. CASE Remediate(ev, stance)
  BY <1>6, RemediateKeeps
<1>7. CASE RefuseSupersession(ev, stance)
  BY <1>7, PlainKeeps DEF RefuseSupersession
<1>8. CASE AlreadySuperseded(ev, stance)
  BY <1>8, AlreadyKeeps
<1>9. CASE Supersede(ev, stance)
  BY <1>9, SupersedeKeeps
<1>. QED
  BY <1>2, <1>3, <1>4, <1>5, <1>6, <1>7, <1>8, <1>9 DEF Evaluate

-----------------------------------------------------------------------------
\* evaluate_loop_event: from an empty ledger no sequence of events, under no
\* sequence of policies, leaves the invariant.
THEOREM Inductive == Spec => []IInv
<1>1. Init => IInv
  <2>1. SUFFICES ASSUME Init PROVE IInv
    OBVIOUS
  <2>2. IsFiniteSet(receipts) /\ receipts = {} /\ cards = {} /\ \A g \in Graphs : Spent(g) = {}
    BY <2>1, FS_EmptySet DEF Init, Spent
  <2>3. LedgerOK
    BY <2>2 DEF LedgerOK
  <2>4. SameBlockerIsBounded
    <3>1. ASSUME NEW g \in Graphs, NEW b \in Blockers
          PROVE  Cardinality({ r \in Spent(g) : r.blocker = b }) <= max_same_blocker
      <4>1. { r \in Spent(g) : r.blocker = b } = {}
        BY <2>2
      <4>2. Cardinality({}) = 0
        BY FS_EmptySet
      <4>. QED
        BY <4>1, <4>2, SupervisorAssumption
    <3>. QED
      BY <3>1 DEF SameBlockerIsBounded
  <2>. QED
    BY <2>2, <2>3, <2>4 DEF IInv, RoundsAreSpent, RemediationsAreSpaced, CardsFollowReceipts
<1>2. IInv /\ [Next]_vars => IInv'
  <2>1. SUFFICES ASSUME IInv, [Next]_vars PROVE IInv'
    OBVIOUS
  <2>2. CASE Next
    <3>1. PICK ev \in Inputs, stance \in Stances, id \in Events :
            Evaluate([ev EXCEPT !.id = id], stance)
      BY <2>2 DEF Next
    <3>2. [ev EXCEPT !.id = id] \in Event
      BY InputsAssumption DEF Event
    <3>. QED
      BY <2>1, <3>1, <3>2, EvaluateKeeps
  <2>3. CASE UNCHANGED vars
    BY <2>1, <2>3 DEF vars, IInv, LedgerOK, Board, RoundsAreSpent, RemediationsAreSpaced,
                      SameBlockerIsBounded, CardsFollowReceipts, Spent
  <2>. QED
    BY <2>1, <2>2, <2>3
<1>. QED
  BY <1>1, <1>2, PTL DEF Spec

\* Receipts carry a decision, a round, a version and a count of attempts within
\* their ranges, and the board holds cards of the known sequences only.
THEOREM TypeCorrect == Spec => []TypeOK
<1>1. IInv => TypeOK
  BY DEF IInv, LedgerOK, TypeOK
<1>. QED
  BY <1>1, Inductive, PTL

\* receipt_round_no: every remediation of a graph spends a round of its own,
\* and none is above max_rounds.
THEOREM RoundsAreNeverReused == Spec => []RoundsAreSpent
<1>1. IInv => RoundsAreSpent
  BY DEF IInv
<1>. QED
  BY <1>1, Inductive, PTL

\* last_action_time: two remediations of one graph for one blocker are
\* cooldown_seconds apart, in whatever order their events are judged.
THEOREM CooldownHolds == Spec => []RemediationsAreSpaced
<1>1. IInv => RemediationsAreSpaced
  BY DEF IInv
<1>. QED
  BY <1>1, Inductive, PTL

\* count_blocker: max_same_blocker bounds what is proposed and applied together.
THEOREM SameBlockerHolds == Spec => []SameBlockerIsBounded
<1>1. IInv => SameBlockerIsBounded
  BY DEF IInv
<1>. QED
  BY <1>1, Inductive, PTL

\* _graph_policy, _is_apply_gated: the graph creator makes cards for the judged,
\* allowlisted blocker in apply mode and for nothing else the summary names, and
\* a final-v2 card only for a final an applied supersession named.
THEOREM CardsAreExplained == Spec => []CardsFollowReceipts
<1>1. IInv => CardsFollowReceipts
  BY DEF IInv
<1>. QED
  BY <1>1, Inductive, PTL

=============================================================================
