--------------------------- MODULE OwnerInputProofs ---------------------------
(***************************************************************************)
(* Theorems about OwnerInput, for every set of continuations and processes  *)
(* and every bound on faults.  The one that needs a single reviewer says so. *)
(*                                                                         *)
(* An agenda is read from its head: a predicate below says what its head    *)
(* does and which predicate its tail satisfies, so that a process that      *)
(* executes its head moves from one predicate to the next.  What the steps  *)
(* of different processes do to each other is then a matter of who can be   *)
(* at which predicate while the instance is in which state.                 *)
(***************************************************************************)
EXTENDS OwnerInput, FiniteSetTheorems, SequenceTheorems, TLAPS

Moving  == { "move", "write" }
Working == { "step", "op", "call", "applied", "failed", "task" }

\* An item nobody has begun to execute.
Fresh(s) ==
  s # << >> => /\ Head(s).do \notin { "write", "call", "applied", "failed", "task" }
               /\ Head(s).do = "op" => Head(s).what = "subscribe"

Stands(s, D, w) == s # << >> /\ Head(s).do \in D /\ Head(s).what = w /\ Fresh(Tail(s))
Moves(s, to)    == Stands(s, Moving, to)
Does(s, do)     == Stands(s, { do }, "")
Works(s, w)     == /\ Stands(s, IF w \in StepKinds THEN Working ELSE Working \ { "step", "task" }, w)
                   /\ Key(Head(s)) \in Keys

\* _owner_input_like and plan.
Passing(s)     == Does(s, "pass") /\ Tail(s) = << >>
Subscribing(s) == Works(s, "subscribe") /\ Passing(Tail(s))
Anchoring(s)   == Works(s, "owner_anchor") /\ (Subscribing(Tail(s)) \/ Passing(Tail(s)))
Casing(s)      == Does(s, "case") /\ Anchoring(Tail(s))
Receiving(s)   == (Does(s, "receive") \/ Stands(s, { "receive" }, "waiting_owner")) /\ Passing(Tail(s))
Asking(s)      == Moves(s, "waiting_owner") /\ (Casing(Tail(s)) \/ Receiving(Tail(s)))

\* on_receipt.
Ending(s)        == s = << >> \/ Passing(s)
Receipting(s)    == Does(s, "receipt") /\ Ending(Tail(s))
Materialized(s)  == Moves(s, "materializing") /\ Ending(Tail(s))
Materializing(s) == Works(s, "materialization") /\ Materialized(Tail(s))
Closing(s)       == /\ \/ Does(s, "close") /\ Head(s).v \in 1 .. MaxReceipts
                       \/ Works(s, "complete_owner_anchor")
                    /\ Materializing(Tail(s))
Accepting(s)     == Moves(s, "input_accepted") /\ (Closing(Tail(s)) \/ Materializing(Tail(s)))

\* advance_after_materialization, advance_after_review.
Failing(s)   == Moves(s, "failed_retryable") /\ Tail(s) = << >>
Reviewing(s) == Works(s, "review") /\ Tail(s) = << >>
ToReview(s)  == Moves(s, "waiting_review") /\ Reviewing(Tail(s))
Resumed(s)   == Moves(s, "resumed") /\ Tail(s) = << >>
Rerunning(s) == Works(s, "packet_rerun") /\ Resumed(Tail(s))
Resuming(s)  == Moves(s, "resumable") /\ Rerunning(Tail(s))

\* reconcile_outbox on one row.
Replaying(s) == /\ \E w \in Whats : Works(s, w)
                /\ Head(s).do \notin { "step", "op" } /\ Tail(s) = << >>

\* _handle_external_wait, poll_external_wait_conditions.
Conditioning(s) == Does(s, "condition") /\ Passing(Tail(s))
Registering(s)  == Moves(s, "materializing") /\ Conditioning(Tail(s))
Judging(s)      == Does(s, "judge") /\ Tail(s) = << >>
Satisfying(s)   == Moves(s, "resumable") /\ Resumed(Tail(s))

Planning(s) == Casing(s) \/ Anchoring(s) \/ Subscribing(s) \/ Passing(s) \/ Replaying(s)
Early(s)    == Asking(s) \/ Planning(s)
Open(s)     == Planning(s) \/ Receiving(s) \/ Receipting(s) \/ Accepting(s)
Answered(s) == Closing(s) \/ Materializing(s) \/ Materialized(s)
Verdict(s)  == \/ ToReview(s) \/ Reviewing(s) \/ Resuming(s) \/ Rerunning(s)
               \/ Resumed(s) \/ Failing(s)

OwnerAgenda(s) == Asking(s) \/ Open(s) \/ Answered(s) \/ Verdict(s)
WaitAgenda(s)  == \/ Registering(s) \/ Conditioning(s) \/ Passing(s) \/ Judging(s)
                  \/ Satisfying(s) \/ Resumed(s) \/ Failing(s)

-----------------------------------------------------------------------------
(***************************************************************************)
(* Agendas as sequences.                                                   *)
(***************************************************************************)

\* An item is put before an agenda.
LEMMA Cons ==
  ASSUME NEW i \in Items, NEW s \in Seq(Items)
  PROVE  /\ << i >> \o s \in Seq(Items) /\ << i >> \o s # << >>
         /\ Head(<< i >> \o s) = i /\ Tail(<< i >> \o s) = s
<1>1. << i >> \o s \in Seq(Items) /\ Len(<< i >> \o s) = 1 + Len(s)
  OBVIOUS
<1>2. \A n \in 1 .. Len(s) : (<< i >> \o s)[n + 1] = s[n]
  OBVIOUS
<1>3. Tail(<< i >> \o s) = s
  BY <1>1, <1>2
<1>4. Head(<< i >> \o s) = i
  OBVIOUS
<1>. QED
  BY <1>1, <1>3, <1>4

\* Nothing is put before an agenda, or after it.
LEMMA Nothing ==
  ASSUME NEW s \in Seq(Items)
  PROVE  << >> \o s = s /\ s \o << >> = s /\ << >> \in Seq(Items)
OBVIOUS

\* One item alone.
LEMMA Single ==
  ASSUME NEW i \in Items
  PROVE  /\ << i >> \in Seq(Items) /\ << i >> # << >>
         /\ Head(<< i >>) = i /\ Tail(<< i >>) = << >> /\ << i >> = << i >> \o << >>
<1>1. << i >> \in Seq(Items)
  OBVIOUS
<1>. QED
  BY <1>1, Nothing

\* Two items are one before the other.
LEMMA Pair ==
  ASSUME NEW i \in Items, NEW j \in Items
  PROVE  << i, j >> \in Seq(Items) /\ << i, j >> = << i >> \o << j >>
<1>1. << i, j >> \in Seq(Items) /\ Len(<< i, j >>) = 2
  OBVIOUS
<1>2. << i >> \o << j >> \in Seq(Items) /\ Len(<< i >> \o << j >>) = 2
  OBVIOUS
<1>3. (<< i >> \o << j >>)[1] = i /\ (<< i >> \o << j >>)[2] = j
  OBVIOUS
<1>4. \A n \in 1 .. 2 : << i, j >>[n] = (<< i >> \o << j >>)[n]
  BY <1>3
<1>. QED
  BY <1>1, <1>2, <1>4, SeqEqual

\* Three items.
LEMMA Triple ==
  ASSUME NEW i \in Items, NEW j \in Items, NEW k \in Items
  PROVE  << i, j, k >> \in Seq(Items) /\ << i, j, k >> = << i >> \o (<< j >> \o << k >>)
<1>1. << i, j, k >> \in Seq(Items) /\ << i, j, k >> = << i >> \o << j, k >>
  OBVIOUS
<1>. QED
  BY <1>1, Pair

\* Two items before an agenda.
LEMMA PairCons ==
  ASSUME NEW i \in Items, NEW j \in Items, NEW s \in Seq(Items)
  PROVE  << i, j >> \o s = << i >> \o (<< j >> \o s)
<1>1. << i >> \in Seq(Items) /\ << j >> \in Seq(Items)
  OBVIOUS
<1>. QED
  BY <1>1, Pair, ConcatAssociative

\* An agenda that is not over has an item and a rest.
LEMMA HeadAndTail ==
  ASSUME NEW s \in Seq(Items), s # << >>
  PROVE  Head(s) \in Items /\ Tail(s) \in Seq(Items)
OBVIOUS

(***************************************************************************)
(* How an agenda goes on.                                                  *)
(***************************************************************************)

\* The head is at its next transaction or call.
Rewritten(s, t) ==
  /\ t # << >> /\ Tail(t) = Tail(s)
  /\ Head(t).what = Head(s).what
  /\ \/ Head(s).do \in Moving /\ Head(t).do \in Moving
     \/ /\ Head(s).do \in Working /\ Head(t).do \in Working \ { "step" }
        /\ Key(Head(t)) = Key(Head(s))
        /\ { Head(s).do, Head(t).do } \cap { "step", "task" } # { } => Head(s).what \in StepKinds
        /\ Head(t).do = "op" => Head(s).do = "step"

\* The head is over, and may take the subscription along.
Dropped(s, t) ==
  \/ t = Tail(s)
  \/ /\ Tail(s) # << >> /\ Head(Tail(s)).what = "subscribe"
     /\ t = Tail(Tail(s))

\* Whoever goes on with the same work or move is where it was.
LEMMA SameFamily ==
  ASSUME NEW s, NEW t, s # << >>, Rewritten(s, t)
  PROVE  /\ \A to : Moves(t, to) <=> Moves(s, to)
         /\ \A w : Works(t, w) <=> Works(s, w)
         /\ \A w : \A do \in Deeds \ (Moving \cup Working) : ~ Stands(t, { do }, w) /\ ~ Stands(s, { do }, w)
<1>1. \A to : Moves(t, to) <=> Moves(s, to)
  BY DEF Rewritten, Moves, Stands, Moving, Working
<1>2. ASSUME NEW w PROVE Works(t, w) <=> Works(s, w)
  <2>1. CASE w \in StepKinds
    BY <2>1 DEF Rewritten, Works, Stands, Moving, Working
  <2>2. CASE w \notin StepKinds
    BY <2>2 DEF Rewritten, Works, Stands, Moving, Working
  <2>. QED
    BY <2>1, <2>2
<1>3. \A w : \A do \in Deeds \ (Moving \cup Working) : ~ Stands(t, { do }, w) /\ ~ Stands(s, { do }, w)
  BY DEF Rewritten, Stands, Moving, Working
<1>. QED
  BY <1>1, <1>2, <1>3

LEMMA SamePlace ==
  ASSUME NEW s, NEW t, s # << >>, Rewritten(s, t)
  PROVE  /\ Passing(t) <=> Passing(s)
         /\ Subscribing(t) <=> Subscribing(s)
         /\ Anchoring(t) <=> Anchoring(s)
         /\ Casing(t) <=> Casing(s)
         /\ Receiving(t) <=> Receiving(s)
         /\ Asking(t) <=> Asking(s)
         /\ Receipting(t) <=> Receipting(s)
         /\ Materialized(t) <=> Materialized(s)
         /\ Materializing(t) <=> Materializing(s)
         /\ Closing(t) <=> Closing(s)
         /\ Accepting(t) <=> Accepting(s)
         /\ Failing(t) <=> Failing(s)
         /\ Reviewing(t) <=> Reviewing(s)
         /\ ToReview(t) <=> ToReview(s)
         /\ Resumed(t) <=> Resumed(s)
         /\ Rerunning(t) <=> Rerunning(s)
         /\ Resuming(t) <=> Resuming(s)
         /\ Conditioning(t) <=> Conditioning(s)
         /\ Registering(t) <=> Registering(s)
         /\ Judging(t) <=> Judging(s)
         /\ Satisfying(t) <=> Satisfying(s)
         /\ Replaying(s) => Replaying(t)
<1>1. Tail(t) = Tail(s)
  BY DEF Rewritten
<1>2. \A do \in { "pass", "case", "receive", "receipt", "close", "condition", "judge" } :
        do \in Deeds \ (Moving \cup Working)
  BY DEF Deeds, Moving, Working
<1>3. \A do \in { "pass", "case", "receive", "receipt", "close", "condition", "judge" } : \A w :
        ~ Stands(t, { do }, w) /\ ~ Stands(s, { do }, w)
  BY <1>2, SameFamily
<1>4. ~ Passing(t) /\ ~ Passing(s) /\ ~ Casing(t) /\ ~ Casing(s) /\ ~ Receiving(t) /\ ~ Receiving(s)
  BY <1>3 DEF Passing, Casing, Receiving, Does
<1>5. /\ ~ Receipting(t) /\ ~ Receipting(s) /\ ~ Conditioning(t) /\ ~ Conditioning(s)
      /\ ~ Judging(t) /\ ~ Judging(s) /\ ~ Does(t, "close") /\ ~ Does(s, "close")
  BY <1>3 DEF Receipting, Conditioning, Judging, Does
<1>6. /\ Subscribing(t) <=> Subscribing(s)
      /\ Anchoring(t) <=> Anchoring(s)
      /\ Materializing(t) <=> Materializing(s)
      /\ Closing(t) <=> Closing(s)
      /\ Reviewing(t) <=> Reviewing(s)
      /\ Rerunning(t) <=> Rerunning(s)
  BY <1>1, <1>5, SameFamily DEF Subscribing, Anchoring, Materializing, Closing, Reviewing, Rerunning
<1>7. /\ Asking(t) <=> Asking(s)
      /\ Materialized(t) <=> Materialized(s)
      /\ Accepting(t) <=> Accepting(s)
      /\ Failing(t) <=> Failing(s)
      /\ ToReview(t) <=> ToReview(s)
      /\ Resumed(t) <=> Resumed(s)
      /\ Resuming(t) <=> Resuming(s)
      /\ Registering(t) <=> Registering(s)
      /\ Satisfying(t) <=> Satisfying(s)
  BY <1>1, SameFamily DEF Asking, Materialized, Accepting, Failing, ToReview, Resumed, Resuming,
       Registering, Satisfying
<1>8. Replaying(s) => Replaying(t)
  <2>1. Replaying(s) => Head(t).do \notin { "step", "op" }
    BY DEF Replaying, Rewritten, Works, Stands, Moving, Working
  <2>. QED
    BY <1>1, <2>1, SameFamily DEF Replaying
<1>. QED
  BY <1>4, <1>5, <1>6, <1>7, <1>8

\* An agenda is not over, and its head tells where it is.
LEMMA NotOver ==
  ASSUME NEW s
  PROVE  OwnerAgenda(s) \/ WaitAgenda(s) => s # << >>
BY DEF OwnerAgenda, WaitAgenda, Open, Answered, Verdict, Planning, Passing, Subscribing, Anchoring,
   Casing, Receiving, Asking, Receipting, Materialized, Materializing, Closing, Accepting, Failing,
   Reviewing, ToReview, Resumed, Rerunning, Resuming, Replaying, Conditioning, Registering, Judging,
   Satisfying, Works, Moves, Does, Stands

\* Only the anchor has a subscription behind it.
LEMMA OnlyAnchorsSubscribe ==
  ASSUME NEW s, OwnerAgenda(s) \/ WaitAgenda(s), Tail(s) # << >>, Head(Tail(s)).what = "subscribe"
  PROVE  Anchoring(s) /\ Subscribing(Tail(s))
BY DEF OwnerAgenda, WaitAgenda, Open, Answered, Verdict, Planning, Passing, Subscribing, Anchoring,
   Casing, Receiving, Asking, Receipting, Ending, Materialized, Materializing, Closing, Accepting, Failing,
   Reviewing, ToReview, Resumed, Rerunning, Resuming, Replaying, Conditioning, Registering, Judging,
   Satisfying, Works, Moves, Does, Stands

\* Where an agenda goes on when its head is over.
LEMMA NextPlace ==
  ASSUME NEW s, NEW t, Dropped(s, t)
  PROVE  /\ Planning(s) \/ Receiving(s) => t = << >> \/ Planning(t)
         /\ Receipting(s) => t = << >> \/ Passing(t)
         /\ OwnerAgenda(s) => t = << >> \/ OwnerAgenda(t)
         /\ WaitAgenda(s) => t = << >> \/ WaitAgenda(t)
<1>1. CASE t = Tail(s)
  <2>1. Planning(s) \/ Receiving(s) => t = << >> \/ Planning(t)
    BY <1>1 DEF Planning, Passing, Subscribing, Anchoring, Casing, Receiving, Replaying
  <2>2. Receipting(s) => t = << >> \/ Passing(t)
    BY <1>1 DEF Receipting, Ending
  <2>3. Asking(s) => Open(t)
    BY <1>1 DEF Asking, Open, Planning
  <2>4. Accepting(s) \/ Answered(s) => t = << >> \/ Passing(t) \/ Answered(t)
    BY <1>1 DEF Accepting, Answered, Closing, Materializing, Materialized, Ending
  <2>5. Verdict(s) => t = << >> \/ Verdict(t)
    BY <1>1 DEF Verdict, ToReview, Reviewing, Resuming, Rerunning, Resumed, Failing
  <2>6. WaitAgenda(s) => t = << >> \/ WaitAgenda(t)
    BY <1>1 DEF WaitAgenda, Registering, Conditioning, Passing, Judging, Satisfying, Resumed, Failing
  <2>. QED
    BY <2>1, <2>2, <2>3, <2>4, <2>5, <2>6 DEF OwnerAgenda, Open, Planning
<1>2. CASE t # Tail(s)
  <2>1. OwnerAgenda(s) \/ WaitAgenda(s) => Subscribing(Tail(s)) /\ t = Tail(Tail(s)) /\ Anchoring(s)
    BY <1>2, OnlyAnchorsSubscribe DEF Dropped
  <2>2. OwnerAgenda(s) \/ WaitAgenda(s) => Passing(t)
    BY <2>1 DEF Subscribing
  <2>. QED
    BY <2>2 DEF OwnerAgenda, WaitAgenda, Open, Planning
<1>. QED
  BY <1>1, <1>2

(***************************************************************************)
(* The agendas that the handlers begin with.                               *)
(***************************************************************************)

LEMMA BoundsAreTyped ==
  /\ MaxReceipts \in Nat /\ MaxFaults \in Nat /\ 0 \in 0 .. MaxReceipts
  /\ IsFiniteSet(Procs) /\ Cardinality(Procs) \in Nat
  /\ Cardinality(Procs) + MaxFaults <= MaxReceipts
<1>1. MaxReceipts \in Nat /\ MaxFaults \in Nat /\ IsFiniteSet(Procs)
  BY OwnerAssumption
<1>. QED
  BY <1>1, OwnerAssumption, FS_CardinalityType

LEMMA ItemsAreTyped ==
  /\ \A to \in ContinuationState : Move(to) \in Items
  /\ \A k \in StepKinds : Step(k) \in Items /\ Key(Step(k)) \in Keys /\ << k, 0 >> \in Keys
  /\ Op("subscribe", 0) \in Items /\ Key(Op("subscribe", 0)) \in Keys
  /\ \A do \in Deeds : Plain(do) \in Items
  /\ Item("receive", "waiting_owner", 0) \in Items
  /\ \A v \in 0 .. MaxReceipts : Item("close", "", v) \in Items
  /\ \A v \in 1 .. MaxReceipts : /\ Op("complete_owner_anchor", v) \in Items
                                 /\ Key(Op("complete_owner_anchor", v)) \in Keys
  /\ \A k \in Keys : k[1] \in Whats /\ Item("call", k[1], k[2]) \in Items
                     /\ Key(Item("call", k[1], k[2])) = k
<1>1. MaxReceipts \in Nat /\ 0 \in 0 .. MaxReceipts
  BY OwnerAssumption
<1>2. \A k \in StepKinds : << k, 0 >> \in Keys /\ k \in Whats
  BY DEF Keys, StepKinds, Whats
<1>3. << "subscribe", 0 >> \in Keys /\ "subscribe" \in Whats /\ "complete_owner_anchor" \in Whats
  BY DEF Keys, StepKinds, Whats
<1>4. ASSUME NEW k \in Keys
      PROVE  k[1] \in Whats /\ k[2] \in 0 .. MaxReceipts /\ << k[1], k[2] >> = k
  BY <1>1, <1>3 DEF Keys
<1>5. \A v \in 1 .. MaxReceipts : << "complete_owner_anchor", v >> \in Keys /\ v \in 0 .. MaxReceipts
  BY <1>1 DEF Keys
<1>6. \A to \in ContinuationState : Move(to) \in Items
  BY <1>1 DEF Move, Item, Items, Deeds
<1>7. \A k \in StepKinds : Step(k) \in Items /\ Key(Step(k)) \in Keys /\ << k, 0 >> \in Keys
  BY <1>1, <1>2 DEF Step, Item, Items, Deeds, Key
<1>8. Op("subscribe", 0) \in Items /\ Key(Op("subscribe", 0)) \in Keys
  BY <1>1, <1>3 DEF Op, Item, Items, Deeds, Key
<1>9. \A do \in Deeds : Plain(do) \in Items
  BY <1>1 DEF Plain, Item, Items
<1>10. Item("receive", "waiting_owner", 0) \in Items
  BY <1>1 DEF Item, Items, Deeds, ContinuationState
<1>11. \A v \in 0 .. MaxReceipts : Item("close", "", v) \in Items
  BY <1>1 DEF Item, Items, Deeds
<1>12. \A v \in 1 .. MaxReceipts : /\ Op("complete_owner_anchor", v) \in Items
                                   /\ Key(Op("complete_owner_anchor", v)) \in Keys
  BY <1>1, <1>3, <1>5 DEF Op, Item, Items, Deeds, Key
<1>13. \A k \in Keys : k[1] \in Whats /\ Item("call", k[1], k[2]) \in Items
                       /\ Key(Item("call", k[1], k[2])) = k
  BY <1>4 DEF Item, Items, Deeds, Key
<1>. QED
  BY <1>6, <1>7, <1>8, <1>9, <1>10, <1>11, <1>12, <1>13

\* What stands before an agenda.
LEMMA Before ==
  ASSUME NEW i \in Items, NEW s \in Seq(Items), Fresh(s)
  PROVE  LET t == << i >> \o s IN
         /\ t \in Seq(Items) /\ t # << >> /\ Head(t) = i /\ Tail(t) = s
         /\ Stands(t, { i.do }, i.what)
         /\ i.do = "move" => Moves(t, i.what) /\ Fresh(t)
         /\ i.do = "step" /\ i.what \in StepKinds /\ Key(i) \in Keys => Works(t, i.what) /\ Fresh(t)
         /\ i.do \in { "op", "call" } /\ Key(i) \in Keys => Works(t, i.what)
         /\ i.do \in { "case", "receive", "receipt", "close", "condition", "judge", "pass" } => Fresh(t)
         /\ i.do = "op" /\ i.what = "subscribe" => Fresh(t)
<1>1. LET t == << i >> \o s IN t \in Seq(Items) /\ t # << >> /\ Head(t) = i /\ Tail(t) = s
  BY Cons
<1>. QED
  BY <1>1 DEF Stands, Moves, Works, Fresh, Moving, Working

\* The end of a tick.
LEMMA PassAgenda ==
  LET s == << Plain("pass") >> IN s \in Seq(Items) /\ s # << >> /\ Passing(s) /\ Fresh(s)
<1>. DEFINE i == Plain("pass")
<1>1. i \in Items
  BY ItemsAreTyped DEF Deeds
<1>2. i.do = "pass" /\ i.what = ""
  BY DEF Plain, Item
<1>3. LET s == << i >> IN s \in Seq(Items) /\ s # << >> /\ Head(s) = i /\ Tail(s) = << >>
  BY <1>1, Single
<1>. HIDE DEF i
<1>4. LET s == << i >> IN s \in Seq(Items) /\ s # << >> /\ Passing(s) /\ Fresh(s)
  BY <1>2, <1>3 DEF Passing, Does, Stands, Fresh
<1>. QED
  BY <1>4 DEF i

\* plan.
LEMMA AskAgenda ==
  ASSUME NEW c
  PROVE  LET s == Ask(c) \o << Plain("pass") >> IN
         s \in Seq(Items) /\ Casing(s) /\ Fresh(s) /\ Ask(c) \in Seq(Items)
<1>. DEFINE e == << Plain("pass") >>
            r == IF c \in Origin THEN << Op("subscribe", 0) >> ELSE << >>
            u == r \o e
            m == << Step("owner_anchor") >> \o u
            s == << Plain("case") >> \o m
<1>1. /\ Plain("case") \in Items /\ Step("owner_anchor") \in Items /\ Op("subscribe", 0) \in Items
      /\ e \in Seq(Items) /\ r \in Seq(Items) /\ "owner_anchor" \in StepKinds
  BY ItemsAreTyped, PassAgenda, Single, Nothing DEF Deeds, StepKinds
<1>2. /\ << Plain("case"), Step("owner_anchor") >> = << Plain("case") >> \o << Step("owner_anchor") >>
      /\ << Plain("case") >> \in Seq(Items) /\ << Step("owner_anchor") >> \in Seq(Items)
      /\ << Plain("case"), Step("owner_anchor") >> \in Seq(Items)
  BY <1>1, Pair, Single
<1>3. Ask(c) = << Plain("case"), Step("owner_anchor") >> \o r /\ Ask(c) \in Seq(Items)
  BY <1>1, <1>2 DEF Ask
<1>4. u \in Seq(Items) /\ (Subscribing(u) \/ Passing(u)) /\ Fresh(u)
  <2>1. CASE c \in Origin
    BY <1>1, <2>1, PassAgenda, Before, ItemsAreTyped DEF Subscribing, Op, Item
  <2>2. CASE c \notin Origin
    BY <1>1, <2>2, PassAgenda, Nothing
  <2>. QED
    BY <2>1, <2>2
<1>5. m \in Seq(Items) /\ Anchoring(m) /\ Fresh(m)
  <2>1. Step("owner_anchor").do = "step" /\ Step("owner_anchor").what = "owner_anchor"
        /\ Key(Step("owner_anchor")) \in Keys
    BY <1>1, ItemsAreTyped DEF Step, Item
  <2>2. Works(m, "owner_anchor") /\ Fresh(m) /\ m \in Seq(Items) /\ Tail(m) = u
    BY <1>1, <1>4, <2>1, Before
  <2>. QED
    BY <1>4, <2>2 DEF Anchoring
<1>6. s \in Seq(Items) /\ Casing(s) /\ Fresh(s)
  <2>1. Plain("case").do = "case" /\ Plain("case").what = ""
    BY DEF Plain, Item
  <2>. QED
    BY <1>1, <1>5, <2>1, Before DEF Casing, Does
<1>7. Ask(c) \o e = s
  <2>1. Ask(c) \o e = << Plain("case"), Step("owner_anchor") >> \o u
    BY <1>1, <1>2, <1>3, ConcatAssociative
  <2>. QED
    BY <1>1, <1>4, <2>1, PairCons
<1>. QED
  BY <1>3, <1>6, <1>7

\* _owner_input_like: the agendas of an owner's event.
LEMMA OwnerAgendas ==
  ASSUME NEW c
  PROVE  LET e == << Plain("pass") >>
             H == << Plain("receive") >>
             R == << Item("receive", "waiting_owner", 0) >>
             M == << Move("waiting_owner") >> IN
         /\ \A s \in { M \o Ask(c) \o e, M \o H \o e } : s \in Seq(Items) /\ Asking(s)
         /\ << >> \o Ask(c) \o e \in Seq(Items) /\ Casing(<< >> \o Ask(c) \o e)
         /\ << >> \o R \o e \in Seq(Items) /\ Receiving(<< >> \o R \o e)
         /\ << >> \o << >> \o e = e
<1>. DEFINE e == << Plain("pass") >>
            h == Plain("receive")
            r == Item("receive", "waiting_owner", 0)
            m == Move("waiting_owner")
<1>1. /\ h \in Items /\ r \in Items /\ m \in Items /\ h.do = "receive" /\ h.what = ""
      /\ r.do = "receive" /\ r.what = "waiting_owner" /\ m.do = "move" /\ m.what = "waiting_owner"
  BY ItemsAreTyped DEF Deeds, ContinuationState, Plain, Item, Move
<1>2. e \in Seq(Items) /\ Passing(e) /\ Fresh(e)
  BY PassAgenda
<1>3. Ask(c) \in Seq(Items) /\ Ask(c) \o e \in Seq(Items) /\ Casing(Ask(c) \o e) /\ Fresh(Ask(c) \o e)
  BY AskAgenda
<1>. HIDE DEF e, h, r, m
<1>4. << h >> \in Seq(Items) /\ << r >> \in Seq(Items) /\ << m >> \in Seq(Items)
  BY <1>1, Single
<1>5. /\ << h >> \o e \in Seq(Items) /\ Receiving(<< h >> \o e) /\ Fresh(<< h >> \o e)
      /\ << r >> \o e \in Seq(Items) /\ Receiving(<< r >> \o e)
  BY <1>1, <1>2, Before DEF Receiving, Does
<1>6. ASSUME NEW s \in Seq(Items), Fresh(s), Casing(s) \/ Receiving(s)
      PROVE  << m >> \o s \in Seq(Items) /\ Asking(<< m >> \o s)
  BY <1>1, <1>6, Before DEF Asking
<1>7. /\ << m >> \o Ask(c) \o e = << m >> \o (Ask(c) \o e)
      /\ << m >> \o << h >> \o e = << m >> \o (<< h >> \o e)
  BY <1>2, <1>3, <1>4, ConcatAssociative
<1>8. \A s \in { << m >> \o Ask(c) \o e, << m >> \o << h >> \o e } : s \in Seq(Items) /\ Asking(s)
  BY <1>3, <1>5, <1>6, <1>7
<1>9. << >> \o Ask(c) = Ask(c) /\ << >> \o << r >> = << r >> /\ << >> \o << >> \o e = e
  BY <1>2, <1>3, <1>4, Nothing
<1>. QED
  BY <1>3, <1>5, <1>8, <1>9 DEF e, h, r, m

\* _handle_external_wait, poll_external_wait_conditions.
LEMMA WaitAgendas ==
  LET e == << Plain("pass") >>
      s == << Move("materializing"), Plain("condition") >> \o e
      j == << Plain("judge") >>
      r == << Move("resumable"), Move("resumed") >>
      f == << Move("failed_retryable") >> IN
  /\ s \in Seq(Items) /\ Registering(s)
  /\ << >> \o e = e
  /\ j \in Seq(Items) /\ Judging(j)
  /\ r \in Seq(Items) /\ Satisfying(r)
  /\ f \in Seq(Items) /\ Failing(f)
<1>. DEFINE e == << Plain("pass") >>
            m == Move("materializing")
            k == Plain("condition")
            j == Plain("judge")
            r == Move("resumable")
            d == Move("resumed")
            f == Move("failed_retryable")
<1>1. /\ { m, k, j, r, d, f } \subseteq Items
      /\ m.do = "move" /\ m.what = "materializing" /\ k.do = "condition" /\ k.what = ""
      /\ j.do = "judge" /\ j.what = "" /\ r.do = "move" /\ r.what = "resumable"
      /\ d.do = "move" /\ d.what = "resumed" /\ f.do = "move" /\ f.what = "failed_retryable"
  BY ItemsAreTyped DEF Deeds, ContinuationState, Plain, Item, Move
<1>2. e \in Seq(Items) /\ Passing(e) /\ Fresh(e) /\ << >> \in Seq(Items) /\ Fresh(<< >>)
  BY PassAgenda DEF Fresh
<1>. HIDE DEF e, m, k, j, r, d, f
<1>3. << >> \o e = e
  BY <1>2, Nothing
<1>4. LET s == << m, k >> \o e IN s \in Seq(Items) /\ Registering(s)
  <2>1. LET u == << k >> \o e IN u \in Seq(Items) /\ Conditioning(u) /\ Fresh(u)
    BY <1>1, <1>2, Before DEF Conditioning, Does
  <2>2. LET s == << m >> \o (<< k >> \o e) IN s \in Seq(Items) /\ Registering(s)
    BY <1>1, <2>1, Before DEF Registering
  <2>. QED
    BY <1>1, <1>2, <2>2, PairCons
<1>5. << j >> \in Seq(Items) /\ Judging(<< j >>)
  BY <1>1, <1>2, Single, Before DEF Judging, Does
<1>6. << f >> \in Seq(Items) /\ Failing(<< f >>)
  BY <1>1, <1>2, Single, Before DEF Failing
<1>7. << r, d >> \in Seq(Items) /\ Satisfying(<< r, d >>)
  <2>1. << d >> \in Seq(Items) /\ Resumed(<< d >>) /\ Fresh(<< d >>)
    BY <1>1, <1>2, Single, Before DEF Resumed
  <2>2. Satisfying(<< r >> \o << d >>)
    BY <1>1, <2>1, Before DEF Satisfying
  <2>. QED
    BY <1>1, <2>2, Pair
<1>. QED
  BY <1>3, <1>4, <1>5, <1>6, <1>7 DEF e, m, k, j, r, d, f

\* advance_after_materialization, advance_after_review, reconcile_outbox.
LEMMA VerdictAgendas ==
  LET w == << Move("waiting_review"), Step("review") >>
      r == << Move("resumable"), Step("packet_rerun"), Move("resumed") >>
      f == << Move("failed_retryable") >> IN
  /\ w \in Seq(Items) /\ ToReview(w)
  /\ r \in Seq(Items) /\ Resuming(r)
  /\ f \in Seq(Items) /\ Failing(f)
  /\ \A k \in Keys : LET s == << Item("call", k[1], k[2]) >> IN
       /\ s \in Seq(Items) /\ Replaying(s)
       /\ Head(s) = Item("call", k[1], k[2]) /\ Key(Head(s)) = k
<1>. DEFINE w == Move("waiting_review")
            v == Step("review")
            r == Move("resumable")
            u == Step("packet_rerun")
            d == Move("resumed")
<1>1. /\ { w, v, r, u, d } \subseteq Items
      /\ w.do = "move" /\ w.what = "waiting_review" /\ r.do = "move" /\ r.what = "resumable"
      /\ d.do = "move" /\ d.what = "resumed"
      /\ v.do = "step" /\ v.what = "review" /\ Key(v) \in Keys
      /\ u.do = "step" /\ u.what = "packet_rerun" /\ Key(u) \in Keys
  BY ItemsAreTyped DEF StepKinds, ContinuationState, Step, Item, Move
<1>2. << >> \in Seq(Items) /\ Fresh(<< >>) /\ { "review", "packet_rerun" } \subseteq StepKinds
  BY DEF Fresh, StepKinds
<1>. HIDE DEF w, v, r, u, d
<1>3. << w, v >> \in Seq(Items) /\ ToReview(<< w, v >>)
  <2>1. << v >> \in Seq(Items) /\ Reviewing(<< v >>) /\ Fresh(<< v >>)
    BY <1>1, <1>2, Single, Before DEF Reviewing
  <2>2. ToReview(<< w >> \o << v >>)
    BY <1>1, <2>1, Before DEF ToReview
  <2>. QED
    BY <1>1, <2>2, Pair
<1>4. << r, u, d >> \in Seq(Items) /\ Resuming(<< r, u, d >>)
  <2>1. << d >> \in Seq(Items) /\ Resumed(<< d >>) /\ Fresh(<< d >>)
    BY <1>1, <1>2, Single, Before DEF Resumed
  <2>2. LET t == << u >> \o << d >> IN t \in Seq(Items) /\ Rerunning(t) /\ Fresh(t)
    BY <1>1, <1>2, <2>1, Before DEF Rerunning
  <2>3. Resuming(<< r >> \o (<< u >> \o << d >>))
    BY <1>1, <2>2, Before DEF Resuming
  <2>. QED
    BY <1>1, <2>3, Triple
<1>5. ASSUME NEW k \in Keys
      PROVE  LET s == << Item("call", k[1], k[2]) >> IN
             /\ s \in Seq(Items) /\ Replaying(s)
             /\ Head(s) = Item("call", k[1], k[2]) /\ Key(Head(s)) = k
  <2>. DEFINE i == Item("call", k[1], k[2])
  <2>1. i \in Items /\ Key(i) = k /\ i.do = "call" /\ i.what = k[1] /\ k[1] \in Whats
    BY ItemsAreTyped DEF Item
  <2>. HIDE DEF i
  <2>2. << i >> \in Seq(Items) /\ Head(<< i >>) = i /\ Tail(<< i >>) = << >> /\ << i >> = << i >> \o << >>
    BY <2>1, Single
  <2>3. Works(<< i >>, k[1])
    BY <1>2, <2>1, <2>2, Before
  <2>4. Replaying(<< i >>)
    BY <2>1, <2>2, <2>3 DEF Replaying
  <2>. QED
    BY <2>1, <2>2, <2>4 DEF i
<1>. QED
  BY <1>3, <1>4, <1>5, WaitAgendas DEF w, v, r, u, d

\* on_receipt begins with its receipt ...
LEMMA ReceiptAgenda ==
  /\ OnReceipt \in Seq(Items) /\ Receipting(OnReceipt)
  /\ \A e \in Seq(Items) : Ending(e) => OnReceipt \o e \in Seq(Items) /\ Receipting(OnReceipt \o e)
<1>. DEFINE r == Plain("receipt")
<1>1. r \in Items /\ r.do = "receipt" /\ r.what = "" /\ OnReceipt = << r >>
  BY ItemsAreTyped DEF Deeds, Plain, Item, OnReceipt
<1>. HIDE DEF r
<1>2. ASSUME NEW e \in Seq(Items), Ending(e)
      PROVE  << r >> \o e \in Seq(Items) /\ Receipting(<< r >> \o e)
  <2>1. Fresh(e)
    BY <1>2 DEF Ending, Passing, Does, Stands, Fresh
  <2>. QED
    BY <1>1, <1>2, <2>1, Before DEF Receipting, Does
<1>3. << >> \in Seq(Items) /\ Ending(<< >>)
  BY DEF Ending
<1>4. << r >> = << r >> \o << >>
  BY <1>1, Single
<1>. QED
  BY <1>1, <1>2, <1>3, <1>4

\* ... and goes on to the transition, the anchor and the work.
LEMMA AcceptAgenda ==
  ASSUME NEW e \in Seq(Items), Ending(e), NEW p, NEW v \in 1 .. MaxReceipts
  PROVE  LET t == Accept(p, v) \o e IN
         /\ t \in Seq(Items) /\ Accepting(t)
         /\ Closing(Tail(t)) => Head(Tail(t)).v = v
<1>. DEFINE a == Move("input_accepted")
            c == Item("close", "", v)
            w == Step("materialization")
            m == Move("materializing")
            x == IF p \in Plugins THEN << >> ELSE << c >>
<1>1. /\ { a, c, w, m } \subseteq Items
      /\ a.do = "move" /\ a.what = "input_accepted"
      /\ c.do = "close" /\ c.what = "" /\ c.v = v
      /\ m.do = "move" /\ m.what = "materializing"
      /\ w.do = "step" /\ w.what = "materialization" /\ Key(w) \in Keys
  <2>1. v \in 0 .. MaxReceipts
    BY OwnerAssumption
  <2>. QED
    BY <2>1, ItemsAreTyped DEF StepKinds, ContinuationState, Deeds, Step, Item, Move
<1>2. << >> \in Seq(Items) /\ Fresh(<< >>) /\ "materialization" \in StepKinds /\ Ending(<< >>)
  BY DEF Fresh, StepKinds, Ending
<1>3. Fresh(e)
  BY DEF Ending, Passing, Does, Stands, Fresh
<1>4. Accept(p, v) = << a >> \o x \o << w, m >>
  BY DEF Accept
<1>. HIDE DEF a, c, w, m
<1>5. /\ << a >> \in Seq(Items) /\ x \in Seq(Items) /\ << w, m >> \in Seq(Items)
      /\ << c >> \in Seq(Items)
  BY <1>1, <1>2, Single, Pair
<1>6. LET y == << m >> \o e IN y \in Seq(Items) /\ Materialized(y) /\ Fresh(y)
  BY <1>1, <1>3, Before DEF Materialized
<1>7. LET y == << w, m >> \o e IN y \in Seq(Items) /\ Materializing(y) /\ Fresh(y) /\ ~ Closing(y)
  <2>1. LET y == << w >> \o (<< m >> \o e) IN
        y \in Seq(Items) /\ Materializing(y) /\ Fresh(y) /\ Head(y).do = "step"
    BY <1>1, <1>2, <1>6, Before DEF Materializing
  <2>2. LET y == << w >> \o (<< m >> \o e) IN ~ Closing(y)
    BY <2>1 DEF Closing, Does, Works, Stands, StepKinds
  <2>. QED
    BY <1>1, <2>1, <2>2, PairCons
<1>8. LET y == x \o (<< w, m >> \o e) IN
       /\ y \in Seq(Items) /\ Fresh(y) /\ (Closing(y) \/ Materializing(y))
       /\ Closing(y) => Head(y).v = v
  <2>1. CASE p \in Plugins
    BY <1>7, <2>1, Nothing
  <2>2. CASE p \notin Plugins
    <3>1. LET y == << c >> \o (<< w, m >> \o e) IN
          y \in Seq(Items) /\ Fresh(y) /\ Closing(y) /\ Head(y).v = v
      BY <1>1, <1>7, Before DEF Closing, Does
    <3>. QED
      BY <2>2, <3>1
  <2>. QED
    BY <2>1, <2>2
<1>9. LET t == << a >> \o (x \o (<< w, m >> \o e)) IN
       t \in Seq(Items) /\ Accepting(t) /\ (Closing(Tail(t)) => Head(Tail(t)).v = v)
  <2>. DEFINE y == x \o (<< w, m >> \o e)
  <2>1. y \in Seq(Items) /\ Fresh(y) /\ (Closing(y) \/ Materializing(y)) /\ (Closing(y) => Head(y).v = v)
    BY <1>8
  <2>. HIDE DEF y
  <2>2. LET t == << a >> \o y IN t \in Seq(Items) /\ Moves(t, "input_accepted") /\ Tail(t) = y
    BY <1>1, <2>1, Before
  <2>. QED
    BY <2>1, <2>2 DEF Accepting, y
<1>10. << a >> \o x \o << w, m >> \o e = << a >> \o (x \o (<< w, m >> \o e))
  <2>. HIDE DEF x
  <2>1. << w, m >> \o e \in Seq(Items) /\ << a >> \o x \in Seq(Items)
    BY <1>5
  <2>2. (<< a >> \o x) \o << w, m >> \o e = (<< a >> \o x) \o (<< w, m >> \o e)
    BY <1>5, <2>1, ConcatAssociative
  <2>3. (<< a >> \o x) \o (<< w, m >> \o e) = << a >> \o (x \o (<< w, m >> \o e))
    BY <1>5, <2>1, ConcatAssociative
  <2>. QED
    BY <2>2, <2>3
<1>. QED
  BY <1>4, <1>9, <1>10

\* The completion of the anchor takes the place of the item that asked for it.
LEMMA CloseAgenda ==
  ASSUME NEW s \in Seq(Items), Closing(s), Head(s).do = "close", NEW v \in 1 .. MaxReceipts
  PROVE  LET t == << Op("complete_owner_anchor", v) >> \o Tail(s) IN
         t \in Seq(Items) /\ Closing(t) /\ Head(t) = Op("complete_owner_anchor", v)
<1>. DEFINE i == Op("complete_owner_anchor", v)
<1>1. i \in Items /\ Key(i) \in Keys /\ i.do = "op" /\ i.what = "complete_owner_anchor"
  <2>1. i \in Items /\ Key(i) \in Keys
    BY ItemsAreTyped
  <2>2. i.do = "op" /\ i.what = "complete_owner_anchor"
    BY DEF Op, Item
  <2>. QED
    BY <2>1, <2>2
<1>2. Tail(s) \in Seq(Items) /\ Materializing(Tail(s)) /\ Fresh(Tail(s))
  <2>1. s # << >> /\ Materializing(Tail(s)) /\ Fresh(Tail(s))
    BY DEF Closing, Does, Works, Stands
  <2>. QED
    BY <2>1, HeadAndTail
<1>. HIDE DEF i
<1>3. LET t == << i >> \o Tail(s) IN
      t \in Seq(Items) /\ Works(t, "complete_owner_anchor") /\ Tail(t) = Tail(s) /\ Head(t) = i
  BY <1>1, <1>2, Before
<1>4. Closing(<< i >> \o Tail(s))
  BY <1>2, <1>3 DEF Closing
<1>. QED
  BY <1>3, <1>4 DEF i

(***************************************************************************)
(* From the head to the place and back.                                    *)
(***************************************************************************)

\* What an agenda does first, by its place.
LEMMA PlaceTells ==
  ASSUME NEW s
  PROVE  /\ Asking(s) => Head(s).do \in Moving /\ Head(s).what = "waiting_owner"
         /\ Accepting(s) => Head(s).do \in Moving /\ Head(s).what = "input_accepted"
         /\ Materialized(s) \/ Registering(s) => Head(s).do \in Moving /\ Head(s).what = "materializing"
         /\ ToReview(s) => Head(s).do \in Moving /\ Head(s).what = "waiting_review"
         /\ Resuming(s) \/ Satisfying(s) => Head(s).do \in Moving /\ Head(s).what = "resumable"
         /\ Resumed(s) => Head(s).do \in Moving /\ Head(s).what = "resumed"
         /\ Failing(s) => Head(s).do \in Moving /\ Head(s).what = "failed_retryable"
         /\ Anchoring(s) => Head(s).do \in Working /\ Head(s).what = "owner_anchor"
         /\ Subscribing(s) => Head(s).do \in Working /\ Head(s).what = "subscribe"
         /\ Materializing(s) => Head(s).do \in Working /\ Head(s).what = "materialization"
         /\ Reviewing(s) => Head(s).do \in Working /\ Head(s).what = "review"
         /\ Rerunning(s) => Head(s).do \in Working /\ Head(s).what = "packet_rerun"
         /\ Closing(s) => \/ Head(s).do = "close" /\ Head(s).what = ""
                          \/ Head(s).do \in Working /\ Head(s).what = "complete_owner_anchor"
         /\ Replaying(s) => Head(s).do \in { "call", "applied", "failed", "task" } /\ Head(s).what \in Whats
         /\ Passing(s) => Head(s).do = "pass" /\ Head(s).what = ""
         /\ Casing(s) => Head(s).do = "case" /\ Head(s).what = ""
         /\ Receiving(s) => Head(s).do = "receive" /\ Head(s).what \in { "", "waiting_owner" }
         /\ Receipting(s) => Head(s).do = "receipt" /\ Head(s).what = ""
         /\ Conditioning(s) => Head(s).do = "condition" /\ Head(s).what = ""
         /\ Judging(s) => Head(s).do = "judge" /\ Head(s).what = ""
<1>1. /\ \A to : Moves(s, to) => Head(s).do \in Moving /\ Head(s).what = to
      /\ \A w : Works(s, w) => Head(s).do \in Working /\ Head(s).what = w
      /\ \A do : Does(s, do) => Head(s).do = do /\ Head(s).what = ""
      /\ Stands(s, { "receive" }, "waiting_owner") => Head(s).do = "receive" /\ Head(s).what = "waiting_owner"
  BY DEF Moves, Works, Does, Stands
<1>2. Replaying(s) => Head(s).do \in { "call", "applied", "failed", "task" } /\ Head(s).what \in Whats
  BY <1>1 DEF Replaying, Working
<1>. QED
  BY <1>1, <1>2 DEF Asking, Accepting, Materialized, Registering, ToReview, Resuming, Satisfying, Resumed,
     Failing, Anchoring, Subscribing, Materializing, Reviewing, Rerunning, Closing, Passing, Casing,
     Receiving, Receipting, Conditioning, Judging

\* The place, by what an agenda does first.
LEMMA HeadTells ==
  ASSUME NEW s, OwnerAgenda(s) \/ WaitAgenda(s)
  PROVE  /\ Head(s).do \in Moving =>
              \/ Head(s).what = "waiting_owner" /\ Asking(s)
              \/ Head(s).what = "input_accepted" /\ Accepting(s)
              \/ Head(s).what = "materializing" /\ (Materialized(s) \/ Registering(s))
              \/ Head(s).what = "waiting_review" /\ ToReview(s)
              \/ Head(s).what = "resumable" /\ (Resuming(s) \/ Satisfying(s))
              \/ Head(s).what = "resumed" /\ Resumed(s)
              \/ Head(s).what = "failed_retryable" /\ Failing(s)
         /\ Head(s).do \in { "step", "op" } =>
              \/ Head(s).what = "owner_anchor" /\ Anchoring(s)
              \/ Head(s).what = "subscribe" /\ Subscribing(s)
              \/ Head(s).what = "complete_owner_anchor" /\ Closing(s)
              \/ Head(s).what = "materialization" /\ Materializing(s)
              \/ Head(s).what = "review" /\ Reviewing(s)
              \/ Head(s).what = "packet_rerun" /\ Rerunning(s)
         /\ Head(s).do = "pass" => Passing(s)
         /\ Head(s).do = "case" => Casing(s)
         /\ Head(s).do = "receive" => Receiving(s)
         /\ Head(s).do = "receipt" => Receipting(s)
         /\ Head(s).do = "close" => Closing(s)
         /\ Head(s).do = "condition" => Conditioning(s)
         /\ Head(s).do = "judge" => Judging(s)
BY PlaceTells DEF OwnerAgenda, WaitAgenda, Open, Answered, Verdict, Planning, Moving, Working

\* Works carry a key, and a step or its task one of the four kinds.
LEMMA WorkTells ==
  ASSUME NEW s, OwnerAgenda(s) \/ WaitAgenda(s)
  PROVE  /\ Head(s).do \in Working => /\ Works(s, Head(s).what)
                                      /\ Key(Head(s)) \in Keys
         /\ Head(s).do \in { "step", "task" } => Head(s).what \in StepKinds
         /\ Head(s).do \in Working /\ Head(s).what \in StepKinds => Key(Head(s)) = << Head(s).what, 0 >>
<1>1. Head(s).do \in Working => \E w : Works(s, w)
  BY PlaceTells DEF OwnerAgenda, WaitAgenda, Open, Answered, Verdict, Planning, Moving, Working,
     Subscribing, Anchoring, Materializing, Closing, Reviewing, Rerunning, Replaying, Does, Stands
<1>2. ASSUME NEW w, Works(s, w)
      PROVE  /\ Works(s, Head(s).what) /\ Key(Head(s)) \in Keys
             /\ Head(s).do \in { "step", "task" } => Head(s).what \in StepKinds
  BY <1>2 DEF Works, Stands
<1>3. Head(s).do \in { "step", "task" } => Head(s).do \in Working
  BY DEF Working
<1>4. \A w \in StepKinds : \A n : << w, n >> \in Keys => n = 0
  BY DEF Keys, StepKinds, Whats
<1>5. Head(s).do \in Working /\ Head(s).what \in StepKinds => Key(Head(s)) = << Head(s).what, 0 >>
  BY <1>1, <1>2, <1>4 DEF Key
<1>. QED
  BY <1>1, <1>2, <1>3, <1>5

-----------------------------------------------------------------------------
(***************************************************************************)
(* The inductive invariant: where each process is, and where the others may *)
(* be while the instance is in a given state.                              *)
(***************************************************************************)
HasRow(c, k) == outbox[c][k].state # "absent"

\* A process works on a continuation along one of its agendas.
Doing(p) ==
  IF Idle(p) THEN todo[p] = << >>
  ELSE IF kind[on[p]] = "owner" THEN OwnerAgenda(todo[p]) ELSE WaitAgenda(todo[p])

\* A step is added before its row is enqueued and its task created.
Stepped(p) ==
  ~ Idle(p) /\ Head(todo[p]).do \in Working \ { "step" } /\ Head(todo[p]).what \in StepKinds
    => << on[p], Head(todo[p]).what >> \in steps
StepsFirst ==
  /\ \A c \in Conts, k \in StepKinds : HasRow(c, << k, 0 >>) => << c, k >> \in steps
  /\ \A p \in Procs : Stepped(p)

\* Owners and conditions do not meet.
Separate(c) ==
  IF kind[c] = "owner" THEN wait[c] = "none"
  ELSE /\ receipts[c] = 0 /\ c \notin asked
       /\ \A k \in Keys : ~ HasRow(c, k) /\ << c, k >> \notin board
       /\ inst[c] \in { "none", "detected", "materializing", "resumable", "resumed", "failed_retryable" }

Untold == { "none", "detected", "waiting_owner" }

\* Who may be where before the answer.
Order(c) ==
  /\ inst[c] = "none" => AtRest(c) /\ wait[c] = "none" /\ \A k \in Keys : ~ HasRow(c, k)
  /\ inst[c] \in { "none", "detected" } => receipts[c] = 0
  /\ kind[c] = "owner" /\ inst[c] = "detected" => \A p \in Procs : on[p] = c => Early(todo[p])
  /\ inst[c] = "waiting_owner" => \A p \in Procs : on[p] = c => Open(todo[p])
  /\ \A p \in Procs : on[p] = c /\ Asking(todo[p])
       => /\ inst[c] = "detected"
          /\ \A q \in Procs : on[q] = c /\ Asking(todo[q]) => p = q

\* The processes that may still record a receipt of c, unless they die.
Pending(c) ==
  IF inst[c] \in Untold
  THEN { p \in Procs : ~ (on[p] = c /\ Accepting(todo[p])) }
  ELSE { p \in Procs : on[p] = c /\ (Receiving(todo[p]) \/ Receipting(todo[p])) }
FewReceipts(c) == receipts[c] + Cardinality(Pending(c)) <= Cardinality(Procs) + crashes

IInv ==
  /\ TypeOK
  /\ \A p \in Procs : Doing(p)
  /\ StepsFirst
  /\ \A c \in Conts : Separate(c) /\ Order(c) /\ FewReceipts(c)

-----------------------------------------------------------------------------
(***************************************************************************)
(* One step of one process.                                                *)
(***************************************************************************)

\* p goes on with agenda t, and nobody else moves.
Goes(p, t) ==
  /\ t \in Seq(Items)
  /\ todo' = [todo EXCEPT ![p] = t]
  /\ on' = [on EXCEPT ![p] = IF t = << >> THEN NoCont ELSE on[p]]
  /\ kind' = kind /\ crashes' = crashes

LEMMA GoesAlone ==
  ASSUME IInv, NEW p \in Procs, NEW t, Goes(p, t)
  PROVE  /\ todo'[p] = t /\ on'[p] = IF t = << >> THEN NoCont ELSE on[p]
         /\ \A q \in Procs \ { p } : todo'[q] = todo[q] /\ on'[q] = on[q]
         /\ todo' \in [Procs -> Seq(Items)] /\ on' \in [Procs -> Conts \union { NoCont }]
BY DEF Goes, IInv, TypeOK

\* What is known of a process that has something to do.
LEMMA Busy ==
  ASSUME IInv, NEW p \in Procs, todo[p] # << >>
  PROVE  /\ on[p] \in Conts /\ ~ Idle(p) /\ kind[on[p]] \in { "owner", "wait" }
         /\ todo[p] \in Seq(Items) /\ Head(todo[p]) \in Items /\ Tail(todo[p]) \in Seq(Items)
         /\ OwnerAgenda(todo[p]) \/ WaitAgenda(todo[p])
         /\ kind[on[p]] = "owner" => OwnerAgenda(todo[p])
         /\ kind[on[p]] = "wait" => WaitAgenda(todo[p])
<1>1. todo[p] \in Seq(Items) /\ on[p] \in Conts \union { NoCont } /\ Doing(p)
  BY DEF IInv, TypeOK
<1>2. ~ Idle(p)
  BY <1>1 DEF Doing
<1>3. on[p] \in Conts /\ kind[on[p]] \in { "owner", "wait" }
  BY <1>1, <1>2 DEF Idle, IInv, TypeOK
<1>. QED
  BY <1>1, <1>2, <1>3, HeadAndTail DEF Doing

\* A handler that continues.
LEMMA ContinueGoes ==
  ASSUME IInv, NEW p \in Procs, NEW t \in Seq(Items), Continue(p, t)
  PROVE  Goes(p, t)
BY DEF Continue, Goes, IInv, TypeOK

\* A handler that goes on with items before the rest of its agenda.
LEMMA ThenGoes ==
  ASSUME IInv, NEW p \in Procs, todo[p] # << >>
  PROVE  /\ Then(p, << >>) => Goes(p, Tail(todo[p]))
         /\ \A i \in Items : Then(p, << i >>) =>
              LET t == << i >> \o Tail(todo[p]) IN
              /\ Goes(p, t) /\ t # << >> /\ Head(t) = i /\ Tail(t) = Tail(todo[p])
         /\ Without(p) => \E t : Goes(p, t) /\ Dropped(todo[p], t)
<1>. DEFINE r == Tail(todo[p])
<1>1. r \in Seq(Items)
  BY Busy
<1>2. << >> \o r = r
  BY <1>1, Nothing
<1>3. Then(p, << >>) => Goes(p, r)
  BY <1>1, <1>2, ContinueGoes DEF Then
<1>4. ASSUME NEW i \in Items, Then(p, << i >>)
      PROVE  LET t == << i >> \o r IN Goes(p, t) /\ t # << >> /\ Head(t) = i /\ Tail(t) = r
  BY <1>1, <1>4, Cons, ContinueGoes DEF Then
<1>5. ASSUME Without(p) PROVE \E t : Goes(p, t) /\ Dropped(todo[p], t)
  <2>1. CASE r # << >> /\ Head(r).what = "subscribe"
    <3>1. Tail(r) \in Seq(Items)
      BY <1>1, <2>1, HeadAndTail
    <3>2. Goes(p, Tail(r))
      BY <1>5, <2>1, <3>1, ContinueGoes DEF Without
    <3>. QED
      BY <2>1, <3>2 DEF Dropped
  <2>2. CASE ~ (r # << >> /\ Head(r).what = "subscribe")
    <3>1. Goes(p, r)
      BY <1>1, <1>5, <2>2, ContinueGoes DEF Without
    <3>. QED
      BY <3>1 DEF Dropped
  <2>. QED
    BY <2>1, <2>2
<1>. QED
  BY <1>3, <1>4, <1>5

\* A work that is at its next transaction or call.
LEMMA NextTransaction ==
  ASSUME NEW s, OwnerAgenda(s) \/ WaitAgenda(s), Head(s) \in Items,
         NEW t, t # << >>, Tail(t) = Tail(s), NEW do,
         Head(t).do = do, Head(t).what = Head(s).what, Head(t).v = Head(s).v,
         \/ Head(s).do \in Working /\ do \in { "call", "applied", "failed" }
         \/ Head(s).do \in Working /\ do = "task" /\ Head(s).what \in StepKinds
         \/ Head(s).do = "step" /\ do = "op"
  PROVE  Rewritten(s, t)
<1>1. Key(Head(t)) = Key(Head(s))
  BY DEF Key
<1>2. Head(s).do \in { "step", "task" } => Head(s).what \in StepKinds
  BY WorkTells
<1>. QED
  BY <1>1, <1>2 DEF Rewritten, Moving, Working

\* A work changes what it does, not what it is about.
LEMMA NextDoing ==
  ASSUME NEW i \in Items, NEW do \in Deeds
  PROVE  LET j == [i EXCEPT !.do = do] IN
         j \in Items /\ j.do = do /\ j.what = i.what /\ j.v = i.v
BY DEF Items

\* ContinuationStore.transition, its select.
LEMMA MoveReadTurns ==
  ASSUME IInv, NEW p \in Procs, MoveRead(p)
  PROVE  /\ todo[p] # << >> /\ Head(todo[p]).do = "move"
         /\ \E t : /\ Goes(p, t)
                   /\ IF Legal(inst[on[p]], Head(todo[p]).what)
                      THEN Rewritten(todo[p], t) /\ Head(t).do = "write"
                      ELSE t = Tail(todo[p])
<1>. DEFINE s == todo[p]
            i == Item("write", Head(s).what, 0)
<1>1. s # << >> /\ Head(s).do = "move"
  BY DEF MoveRead, At
<1>2. Head(s) \in Items /\ (OwnerAgenda(s) \/ WaitAgenda(s)) /\ Tail(s) \in Seq(Items)
  BY <1>1, Busy
<1>3. i \in Items /\ i.do = "write" /\ i.what = Head(s).what
  BY <1>2, BoundsAreTyped DEF Items, Item, Deeds
<1>. HIDE DEF i
<1>4. CASE Legal(inst[on[p]], Head(s).what)
  <2>1. Then(p, << i >>)
    BY <1>4 DEF MoveRead, i
  <2>2. PICK t : Goes(p, t) /\ t # << >> /\ Head(t) = i /\ Tail(t) = Tail(s)
    BY <1>1, <1>3, <2>1, ThenGoes
  <2>3. Rewritten(s, t)
    BY <1>1, <1>3, <2>2 DEF Rewritten, Moving
  <2>. QED
    BY <1>1, <1>3, <1>4, <2>2, <2>3
<1>5. CASE ~ Legal(inst[on[p]], Head(s).what)
  BY <1>1, <1>5, ThenGoes DEF MoveRead
<1>. QED
  BY <1>1, <1>4, <1>5

\* ... and its update.
LEMMA MoveWriteTurns ==
  ASSUME IInv, NEW p \in Procs, MoveWrite(p)
  PROVE  /\ todo[p] # << >> /\ Head(todo[p]).do = "write"
         /\ Goes(p, Tail(todo[p]))
         /\ inst' = [inst EXCEPT ![on[p]] = Head(todo[p]).what]
BY ThenGoes DEF MoveWrite, At

\* add_step.
LEMMA AddStepTurns ==
  ASSUME IInv, NEW p \in Procs, AddStep(p)
  PROVE  LET s == todo[p]  k == Head(s).what IN
         /\ s # << >> /\ Head(s).do = "step" /\ k \in StepKinds
         /\ steps' = steps \union {<< on[p], k >>}
         /\ \E t : /\ Goes(p, t)
                   /\ \/ << on[p], k >> \notin steps /\ Rewritten(s, t) /\ Head(t).do = "op"
                      \/ << on[p], k >> \in steps /\ Dropped(s, t)
<1>. DEFINE s == todo[p]
            k == Head(s).what
            i == Op(k, 0)
<1>1. s # << >> /\ Head(s).do = "step"
  BY DEF AddStep, At
<1>2. Head(s) \in Items /\ (OwnerAgenda(s) \/ WaitAgenda(s)) /\ Tail(s) \in Seq(Items)
  BY <1>1, Busy
<1>3. k \in StepKinds /\ Key(Head(s)) = << k, 0 >>
  BY <1>1, <1>2, WorkTells DEF Working
<1>4. i \in Items /\ i.do = "op" /\ i.what = k /\ i.v = 0 /\ Head(s).v = 0
  BY <1>2, <1>3, OwnerAssumption DEF Items, Item, Op, Deeds, Key
<1>. HIDE DEF i
<1>5. CASE << on[p], k >> \notin steps
  <2>1. Then(p, << i >>)
    BY <1>5 DEF AddStep, i
  <2>2. PICK t : Goes(p, t) /\ t # << >> /\ Head(t) = i /\ Tail(t) = Tail(s)
    BY <1>1, <1>4, <2>1, ThenGoes
  <2>3. Rewritten(s, t)
    BY <1>1, <1>2, <1>4, <2>2, NextTransaction DEF Working
  <2>. QED
    BY <1>1, <1>3, <1>4, <1>5, <2>2, <2>3 DEF AddStep
<1>6. CASE << on[p], k >> \in steps
  <2>1. Without(p)
    BY <1>6 DEF AddStep
  <2>. QED
    BY <1>1, <1>3, <1>6, <2>1, ThenGoes DEF AddStep
<1>. QED
  BY <1>5, <1>6

\* What follows a board call that succeeded.
LEMMA SucceededTurns ==
  ASSUME IInv, NEW p \in Procs, todo[p] # << >>, Head(todo[p]).do \in Working, Succeeded(p, Head(todo[p]))
  PROVE  \E t : /\ Goes(p, t)
                /\ \/ Rewritten(todo[p], t) /\ Head(t).do = "task" /\ Head(todo[p]).what \in StepKinds
                   \/ Head(todo[p]).what \notin StepKinds /\ t = Tail(todo[p])
<1>. DEFINE s == todo[p]
            k == Head(s).what
            i == Item("task", k, 0)
<1>1. Head(s) \in Items /\ (OwnerAgenda(s) \/ WaitAgenda(s)) /\ Tail(s) \in Seq(Items)
  BY Busy
<1>2. CASE k \in StepKinds
  <2>1. Key(Head(s)) = << k, 0 >>
    BY <1>1, <1>2, WorkTells
  <2>2. i \in Items /\ i.do = "task" /\ i.what = k /\ i.v = 0 /\ Head(s).v = 0
    BY <1>1, <2>1, OwnerAssumption DEF Items, Item, Deeds, Key
  <2>. HIDE DEF i
  <2>3. Then(p, << i >>)
    BY <1>2 DEF Succeeded, i
  <2>4. PICK t : Goes(p, t) /\ t # << >> /\ Head(t) = i /\ Tail(t) = Tail(s)
    BY <2>2, <2>3, ThenGoes
  <2>5. Rewritten(s, t)
    BY <1>1, <1>2, <2>2, <2>4, NextTransaction
  <2>. QED
    BY <1>2, <2>2, <2>4, <2>5
<1>3. CASE k \notin StepKinds
  BY <1>3, ThenGoes DEF Succeeded
<1>. QED
  BY <1>2, <1>3

\* apply_board_operation, its row.
LEMMA EnqueueTurns ==
  ASSUME IInv, NEW p \in Procs, Enqueue(p)
  PROVE  LET s == todo[p]  k == Key(Head(s))  row == Enqueued(outbox[on[p]][k]) IN
         /\ s # << >> /\ Head(s).do = "op" /\ k \in Keys
         /\ outbox' = [outbox EXCEPT ![on[p]][k] = row]
         /\ \E t : /\ Goes(p, t)
                   /\ \/ Rewritten(s, t) /\ Head(t).do = "call"
                      \/ /\ Rewritten(s, t) /\ Head(t).do = "task"
                         /\ row.state = "applied" /\ Head(s).what \in StepKinds
                      \/ Dropped(s, t)
<1>. DEFINE s == todo[p]
            k == Key(Head(s))
            row == Enqueued(outbox[on[p]][k])
            i == [Head(s) EXCEPT !.do = "call"]
            Goal == \E t : /\ Goes(p, t)
                           /\ \/ Rewritten(s, t) /\ Head(t).do = "call"
                              \/ /\ Rewritten(s, t) /\ Head(t).do = "task"
                                 /\ row.state = "applied" /\ Head(s).what \in StepKinds
                              \/ Dropped(s, t)
<1>1. s # << >> /\ Head(s).do = "op" /\ Head(s).do \in Working
  BY DEF Enqueue, At, Working
<1>2. Head(s) \in Items /\ (OwnerAgenda(s) \/ WaitAgenda(s)) /\ Tail(s) \in Seq(Items)
  BY <1>1, Busy
<1>3. k \in Keys
  BY <1>1, <1>2, WorkTells
<1>4. i \in Items /\ i.do = "call" /\ i.what = Head(s).what /\ i.v = Head(s).v
  BY <1>2, NextDoing DEF Deeds
<1>5. /\ outbox' = [outbox EXCEPT ![on[p]][k] = row]
      /\ \/ row.state = "applied" /\ Succeeded(p, Head(s))
         \/ Without(p)
         \/ Then(p, << i >>)
  BY DEF Enqueue
<1>. HIDE DEF i
<1>6. CASE row.state = "applied" /\ Succeeded(p, Head(s))
  <2>1. Goal
    BY <1>1, <1>6, SucceededTurns DEF Dropped
  <2>. QED
    BY <1>1, <1>3, <1>5, <2>1
<1>7. CASE Without(p)
  BY <1>1, <1>3, <1>5, <1>7, ThenGoes
<1>8. CASE Then(p, << i >>)
  <2>1. PICK t : Goes(p, t) /\ t # << >> /\ Head(t) = i /\ Tail(t) = Tail(s)
    BY <1>1, <1>4, <1>8, ThenGoes
  <2>2. Rewritten(s, t)
    BY <1>1, <1>2, <1>4, <2>1, NextTransaction
  <2>. QED
    BY <1>1, <1>3, <1>4, <1>5, <2>1, <2>2
<1>. QED
  BY <1>5, <1>6, <1>7, <1>8

\* apply_board_operation, its call.
LEMMA CallTurns ==
  ASSUME IInv, NEW p \in Procs, Call(p)
  PROVE  LET s == todo[p]  k == Key(Head(s)) IN
         /\ s # << >> /\ Head(s).do = "call" /\ k \in Keys
         /\ board' \in { board, board \union {<< on[p], k >>} }
         /\ failures' \in Nat /\ failures' + crashes <= MaxFaults
         /\ \E t : /\ Goes(p, t) /\ Rewritten(s, t)
                   /\ \/ Head(t).do = "applied" /\ board' = board \union {<< on[p], k >>}
                      \/ Head(t).do = "failed"
<1>. DEFINE s == todo[p]
            k == Key(Head(s))
<1>1. s # << >> /\ Head(s).do = "call" /\ Head(s).do \in Working
  BY DEF Call, At, Working
<1>2. Head(s) \in Items /\ (OwnerAgenda(s) \/ WaitAgenda(s)) /\ Tail(s) \in Seq(Items)
  BY <1>1, Busy
<1>3. k \in Keys
  BY <1>1, <1>2, WorkTells
<1>4. ASSUME NEW do \in { "applied", "failed" }, Then(p, << [Head(s) EXCEPT !.do = do] >>)
      PROVE  \E t : Goes(p, t) /\ Rewritten(s, t) /\ Head(t).do = do
  <2>. DEFINE i == [Head(s) EXCEPT !.do = do]
  <2>0. do \in Deeds
    BY <1>4 DEF Deeds
  <2>1. i \in Items /\ i.do = do /\ i.what = Head(s).what /\ i.v = Head(s).v
    BY <1>2, <2>0, NextDoing
  <2>. HIDE DEF i
  <2>2. PICK t : Goes(p, t) /\ t # << >> /\ Head(t) = i /\ Tail(t) = Tail(s)
    BY <1>1, <1>4, <2>1, ThenGoes DEF i
  <2>3. Rewritten(s, t)
    BY <1>1, <1>2, <2>1, <2>2, NextTransaction
  <2>. QED
    BY <2>1, <2>2, <2>3
<1>5. failures' \in Nat /\ failures' + crashes <= MaxFaults
  BY BoundsAreTyped DEF Call, IInv, TypeOK
<1>. QED
  BY <1>1, <1>3, <1>4, <1>5 DEF Call

\* outbox_mark and mark_step.
LEMMA MarkTurns ==
  ASSUME IInv, NEW p \in Procs, MarkApplied(p) \/ MarkFailed(p) \/ MarkStep(p)
  PROVE  LET s == todo[p]  c == on[p]  k == Key(Head(s)) IN
         /\ s # << >> /\ Head(s).do \in { "applied", "failed", "task" } /\ k \in Keys
         /\ MarkApplied(p) => Head(s).do = "applied" /\ outbox' = [outbox EXCEPT ![c][k] = MarkedApplied(@, Head(s).what)]
         /\ MarkFailed(p) => /\ Head(s).do = "failed"
                             /\ outbox' = [outbox EXCEPT ![c][k] = MarkedDue(MarkedPending(@, Head(s).what, "none"))]
         /\ MarkStep(p) => /\ Head(s).do = "task" /\ Head(s).what \in StepKinds
                           /\ stepTask' = stepTask \union {<< c, Head(s).what >>}
         /\ \E t : /\ Goes(p, t)
                   /\ \/ Rewritten(s, t) /\ Head(t).do = "task" /\ Head(s).what \in StepKinds /\ MarkApplied(p)
                      \/ Dropped(s, t)
<1>. DEFINE s == todo[p]
            k == Key(Head(s))
<1>1. s # << >> /\ Head(s).do \in { "applied", "failed", "task" } /\ Head(s).do \in Working
  BY DEF MarkApplied, MarkFailed, MarkStep, At, Working
<1>2. Head(s) \in Items /\ (OwnerAgenda(s) \/ WaitAgenda(s)) /\ Tail(s) \in Seq(Items)
  BY <1>1, Busy
<1>3. k \in Keys /\ (Head(s).do = "task" => Head(s).what \in StepKinds)
  BY <1>1, <1>2, WorkTells
<1>4. CASE MarkApplied(p)
  <2>1. Head(s).do = "applied" /\ Succeeded(p, Head(s))
        /\ outbox' = [outbox EXCEPT ![on[p]][k] = MarkedApplied(@, Head(s).what)]
    BY <1>4 DEF MarkApplied, At
  <2>2. PICK t : Goes(p, t) /\ \/ Rewritten(s, t) /\ Head(t).do = "task" /\ Head(s).what \in StepKinds
                               \/ t = Tail(s)
    BY <1>1, <2>1, SucceededTurns
  <2>3. ~ MarkFailed(p) /\ ~ MarkStep(p)
    BY <2>1 DEF MarkFailed, MarkStep, At
  <2>. QED
    BY <1>1, <1>3, <1>4, <2>1, <2>2, <2>3 DEF Dropped
<1>5. CASE MarkFailed(p)
  <2>1. Head(s).do = "failed" /\ Without(p)
        /\ outbox' = [outbox EXCEPT ![on[p]][k] = MarkedDue(MarkedPending(@, Head(s).what, "none"))]
    BY <1>5 DEF MarkFailed, At
  <2>2. PICK t : Goes(p, t) /\ Dropped(s, t)
    BY <1>1, <2>1, ThenGoes
  <2>3. ~ MarkApplied(p) /\ ~ MarkStep(p)
    BY <2>1 DEF MarkApplied, MarkStep, At
  <2>. QED
    BY <1>1, <1>3, <2>1, <2>2, <2>3
<1>6. CASE MarkStep(p)
  <2>1. Head(s).do = "task" /\ Then(p, << >>) /\ stepTask' = stepTask \union {<< on[p], Head(s).what >>}
    BY <1>6 DEF MarkStep, At
  <2>2. Goes(p, Tail(s))
    BY <1>1, <2>1, ThenGoes
  <2>3. ~ MarkApplied(p) /\ ~ MarkFailed(p)
    BY <2>1 DEF MarkApplied, MarkFailed, At
  <2>. QED
    BY <1>1, <1>3, <2>1, <2>2, <2>3 DEF Dropped
<1>. QED
  BY <1>4, <1>5, <1>6

\* There is room for the receipt of whoever is about to record one.
LEMMA RoomForReceipt ==
  ASSUME IInv, NEW p \in Procs, todo[p] # << >>, Receipting(todo[p])
  PROVE  receipts[on[p]] \in Nat /\ receipts[on[p]] + 1 \in 1 .. MaxReceipts /\ p \in Pending(on[p])
<1>. DEFINE c == on[p]
<1>1. c \in Conts
  BY Busy
<1>2. receipts[c] \in Nat /\ crashes \in Nat /\ failures \in Nat /\ failures + crashes <= MaxFaults /\ FewReceipts(c)
  BY <1>1, BoundsAreTyped DEF IInv, TypeOK
<1>3. p \in Pending(c)
  BY PlaceTells DEF Pending, Moving
<1>4. IsFiniteSet(Pending(c)) /\ Cardinality(Pending(c)) \in Nat
  <2>1. Pending(c) \in SUBSET Procs
    BY DEF Pending
  <2>. QED
    BY <2>1, BoundsAreTyped, FS_Subset, FS_CardinalityType
<1>5. Cardinality(Pending(c)) >= 1
  BY <1>3, <1>4, FS_EmptySet
<1>. QED
  BY <1>2, <1>3, <1>4, <1>5, BoundsAreTyped DEF FewReceipts

\* on_receipt as the H0 path calls it.
LEMMA ReceiveTurns ==
  ASSUME IInv, NEW p \in Procs, Receive(p)
  PROVE  LET s == todo[p]  c == on[p] IN
         /\ s # << >> /\ Receiving(s)
         /\ \/ \E t : Goes(p, t) /\ Receipting(t) /\ heard' = heard
            \/ /\ Goes(p, Tail(s))
               /\ heard' = IF inst[c] = "waiting_owner" \/ Head(s).what = "waiting_owner"
                             THEN heard \union {<< c, "refused" >>} ELSE heard
         /\ \/ Head(s).what = "waiting_owner" \/ inst[c] = "waiting_owner"
            \/ Goes(p, Tail(s))
<1>. DEFINE s == todo[p]
            c == on[p]
            seen == IF Head(s).what = "" THEN inst[c] ELSE Head(s).what
<1>1. s # << >> /\ Head(s).do = "receive"
  BY DEF Receive, At
<1>2. Tail(s) \in Seq(Items) /\ Receiving(s) /\ c \in Conts
  BY <1>1, Busy, HeadTells
<1>3. Head(s).what \in { "", "waiting_owner" } /\ Ending(Tail(s))
  BY <1>2, PlaceTells DEF Receiving, Ending
<1>4. seen = "waiting_owner" <=> Head(s).what = "waiting_owner" \/ inst[c] = "waiting_owner"
  BY <1>3
<1>5. CASE seen = "waiting_owner" /\ Then(p, OnReceipt) /\ heard' = heard
  <2>. DEFINE t == OnReceipt \o Tail(s)
  <2>1. 1 \in 1 .. MaxReceipts \/ MaxReceipts = 0
    BY BoundsAreTyped
  <2>2. t \in Seq(Items) /\ Receipting(t)
    BY <1>2, <1>3, ReceiptAgenda
  <2>3. Goes(p, t)
    BY <1>5, <2>2, ContinueGoes DEF Then
  <2>. QED
    BY <1>1, <1>2, <1>4, <1>5, <2>2, <2>3
<1>6. CASE Then(p, << >>) /\ heard' = IF seen = "waiting_owner" THEN heard \union {<< c, "refused" >>} ELSE heard
  <2>1. Goes(p, Tail(s))
    BY <1>1, <1>6, ThenGoes
  <2>. QED
    BY <1>1, <1>2, <1>4, <1>6, <2>1
<1>. QED
  BY <1>5, <1>6 DEF Receive

\* add_owner_receipt.
LEMMA AddReceiptTurns ==
  ASSUME IInv, NEW p \in Procs, AddReceipt(p)
  PROVE  LET s == todo[p]  c == on[p] IN
         /\ s # << >> /\ Receipting(s)
         /\ receipts[c] \in Nat /\ receipts[c] + 1 \in 1 .. MaxReceipts /\ p \in Pending(c)
         /\ receipts' = [receipts EXCEPT ![c] = receipts[c] + 1]
         /\ \E t : /\ Goes(p, t) /\ Accepting(t)
                   /\ Closing(Tail(t)) => Head(Tail(t)).v = receipts[c] + 1
<1>. DEFINE s == todo[p]
            c == on[p]
            v == receipts[c] + 1
            t == Accept(p, v) \o Tail(s)
<1>1. s # << >> /\ Head(s).do = "receipt"
  BY DEF AddReceipt, At
<1>2. Tail(s) \in Seq(Items) /\ Receipting(s) /\ c \in Conts
  BY <1>1, Busy, HeadTells
<1>3. receipts[c] \in Nat /\ v \in 1 .. MaxReceipts /\ p \in Pending(c)
  BY <1>1, <1>2, RoomForReceipt
<1>4. Ending(Tail(s))
  BY <1>2 DEF Receipting
<1>5. t \in Seq(Items) /\ Accepting(t) /\ (Closing(Tail(t)) => Head(Tail(t)).v = v)
  BY <1>2, <1>3, <1>4, AcceptAgenda
<1>6. receipts' = [receipts EXCEPT ![c] = v] /\ Continue(p, t)
  BY DEF AddReceipt, Then
<1>. HIDE DEF t
<1>7. Goes(p, t)
  BY <1>5, <1>6, ContinueGoes
<1>. QED
  BY <1>1, <1>2, <1>3, <1>5, <1>6, <1>7

\* The completion of the anchor.
LEMMA CloseTurns ==
  ASSUME IInv, NEW p \in Procs, CloseAnchor(p)
  PROVE  LET s == todo[p]  c == on[p] IN
         /\ s # << >> /\ Closing(s) /\ Head(s).do = "close"
         /\ \E t : /\ Goes(p, t)
                   /\ \/ /\ Closing(t) /\ Head(t) = Op("complete_owner_anchor", Head(s).v)
                         /\ << c, "owner_anchor" >> \in stepTask
                      \/ t = Tail(s)
<1>. DEFINE s == todo[p]
            i == Op("complete_owner_anchor", Head(s).v)
            t == << i >> \o Tail(s)
<1>1. s # << >> /\ Head(s).do = "close"
  BY DEF CloseAnchor, At
<1>2. s \in Seq(Items) /\ Tail(s) \in Seq(Items) /\ Closing(s)
  BY <1>1, Busy, HeadTells
<1>3. t \in Seq(Items) /\ Closing(t) /\ Head(t) = i
  <2>1. Head(s).v \in 1 .. MaxReceipts
    BY <1>1, <1>2 DEF Closing, Works, Stands, Working
  <2>. QED
    BY <1>1, <1>2, <2>1, CloseAgenda
<1>4. CASE << on[p], "owner_anchor" >> \in stepTask
  <2>1. Continue(p, t)
    BY <1>4 DEF CloseAnchor, Then
  <2>. HIDE DEF t
  <2>2. Goes(p, t)
    BY <1>3, <2>1, ContinueGoes
  <2>. QED
    BY <1>1, <1>2, <1>3, <1>4, <2>2
<1>5. CASE << on[p], "owner_anchor" >> \notin stepTask
  <2>1. Goes(p, Tail(s))
    BY <1>1, <1>5, ThenGoes DEF CloseAnchor
  <2>. QED
    BY <1>1, <1>2, <2>1
<1>. QED
  BY <1>4, <1>5

\* The items that take one transaction each.
LEMMA OneTurns ==
  ASSUME IInv, NEW p \in Procs, OpenCase(p) \/ Register(p) \/ Pass(p)
  PROVE  LET s == todo[p] IN
         /\ s # << >> /\ Goes(p, Tail(s))
         /\ OpenCase(p) => Casing(s)
         /\ Register(p) => Conditioning(s)
         /\ Pass(p) => Passing(s)
<1>. DEFINE s == todo[p]
<1>1. /\ s # << >> /\ Head(s).do \in { "case", "condition", "pass" } /\ Then(p, << >>)
      /\ OpenCase(p) => Head(s).do = "case"
      /\ Register(p) => Head(s).do = "condition"
      /\ Pass(p) => Head(s).do = "pass"
  BY DEF OpenCase, Register, Pass, At
<1>2. Goes(p, Tail(s))
  BY <1>1, ThenGoes
<1>. QED
  BY <1>1, <1>2, Busy, HeadTells

\* poll_external_wait_conditions, the checker's answer.
LEMMA JudgeTurns ==
  ASSUME IInv, NEW p \in Procs, Judge(p)
  PROVE  LET s == todo[p]  c == on[p] IN
         /\ s # << >> /\ Judging(s) /\ kind[c] = "wait"
         /\ \E t : /\ Goes(p, t)
                   /\ \/ /\ Satisfying(t) /\ wait' = [wait EXCEPT ![c] = "satisfied"]
                         /\ heard' = heard \union {<< c, "satisfied" >>}
                      \/ /\ Failing(t) /\ wait' = [wait EXCEPT ![c] = "failed_permanent"]
                         /\ heard' = heard \union {<< c, "failed_permanent" >>}
                      \/ t = << >> /\ UNCHANGED << wait, heard >>
<1>. DEFINE s == todo[p]
            c == on[p]
            r == << Move("resumable"), Move("resumed") >>
            f == << Move("failed_retryable") >>
<1>1. s # << >> /\ Head(s).do = "judge"
  BY DEF Judge, At
<1>2. Judging(s) /\ Tail(s) = << >> /\ kind[c] = "wait"
  <2>1. Judging(s)
    BY <1>1, Busy, HeadTells
  <2>2. ~ OwnerAgenda(s)
    BY <1>1, PlaceTells DEF OwnerAgenda, Open, Answered, Verdict, Planning, Moving, Working
  <2>. QED
    BY <1>1, <2>1, <2>2, Busy DEF Judging
<1>3. r \in Seq(Items) /\ f \in Seq(Items) /\ Satisfying(r) /\ Failing(f)
  BY WaitAgendas
<1>4. /\ \A a \in Seq(Items) : a \o << >> = a /\ (Then(p, a) => Goes(p, a))
      /\ Then(p, << >>) => Goes(p, << >>)
  BY <1>1, <1>2, Nothing, ContinueGoes, ThenGoes DEF Then
<1>. HIDE DEF r, f
<1>5. \/ /\ Then(p, r) /\ wait' = [wait EXCEPT ![c] = "satisfied"]
         /\ heard' = heard \union {<< c, "satisfied" >>}
      \/ /\ Then(p, f) /\ wait' = [wait EXCEPT ![c] = "failed_permanent"]
         /\ heard' = heard \union {<< c, "failed_permanent" >>}
      \/ Then(p, << >>) /\ UNCHANGED << wait, heard >>
  BY DEF Judge, r, f
<1>. QED
  BY <1>1, <1>2, <1>3, <1>4, <1>5

\* A handler begins.
LEMMA BeginGoes ==
  ASSUME IInv, NEW p \in Procs, NEW c \in Conts, NEW a \in Seq(Items), a # << >>, Begin(p, c, a)
  PROVE  /\ Idle(p) /\ todo[p] = << >> /\ todo'[p] = a /\ on'[p] = c
         /\ \A q \in Procs \ { p } : todo'[q] = todo[q] /\ on'[q] = on[q]
         /\ todo' \in [Procs -> Seq(Items)] /\ on' \in [Procs -> Conts \union { NoCont }]
         /\ UNCHANGED << kind, board, heard, failures, crashes >>
<1>1. Idle(p) /\ todo[p] = << >>
  BY DEF Begin, IInv, Doing
<1>. QED
  BY <1>1 DEF Begin, IInv, TypeOK

\* A process dies.
LEMMA CrashGoes ==
  ASSUME IInv, NEW p \in Procs, Crash(p)
  PROVE  /\ todo'[p] = << >> /\ on'[p] = NoCont
         /\ \A q \in Procs \ { p } : todo'[q] = todo[q] /\ on'[q] = on[q]
         /\ todo' \in [Procs -> Seq(Items)] /\ on' \in [Procs -> Conts \union { NoCont }]
         /\ crashes' = crashes + 1 /\ crashes \in Nat /\ failures + crashes' <= MaxFaults
         /\ UNCHANGED << kind, store, board, heard, failures >>
<1>1. << >> \in Seq(Items)
  OBVIOUS
<1>2. failures \in Nat /\ crashes \in Nat /\ failures + crashes < MaxFaults /\ crashes' = crashes + 1
  BY DEF Crash, IInv, TypeOK
<1>3. failures + crashes' <= MaxFaults
  BY <1>2, BoundsAreTyped
<1>. QED
  BY <1>1, <1>2, <1>3 DEF Crash, IInv, TypeOK

-----------------------------------------------------------------------------
(***************************************************************************)
(* Types.                                                                  *)
(***************************************************************************)

\* What becomes of a row.
LEMMA RowsAreTyped ==
  ASSUME NEW row \in Row, NEW op
  PROVE  /\ NoRow \in Row
         /\ Enqueued(row) \in Row /\ Enqueued(row).state # "absent"
         /\ Enqueued(row).state = "applied" => row.state = "applied"
         /\ MarkedApplied(row, op) \in Row /\ MarkedApplied(row, op).state = "applied"
         /\ LET r == MarkedDue(MarkedPending(row, op, "none")) IN r \in Row /\ r.state = "pending"
<1>1. CALLBACK_RETRY_CAP \in Nat /\ 0 \in 0 .. CALLBACK_RETRY_CAP
  BY CapAssumption
<1>2. row.attempts \in 0 .. CALLBACK_RETRY_CAP
  BY DEF Row
<1>3. Counted(op, row.attempts) \in 0 .. CALLBACK_RETRY_CAP
  BY <1>1, <1>2 DEF Counted
<1>4. NoRow \in Row
  BY <1>1 DEF NoRow, Row, RowState
<1>5. Enqueued(row) \in Row /\ Enqueued(row).state # "absent"
      /\ (Enqueued(row).state = "applied" => row.state = "applied")
  BY <1>1, <1>4 DEF Enqueued, NoRow, Row, RowState
<1>6. MarkedApplied(row, op) \in Row /\ MarkedApplied(row, op).state = "applied"
  BY <1>3 DEF MarkedApplied, Row, RowState
<1>7. LET r == MarkedPending(row, op, "none") IN r \in Row /\ r.state = "pending"
  BY <1>3 DEF MarkedPending, Row, RowState
<1>8. LET r == MarkedDue(MarkedPending(row, op, "none")) IN r \in Row /\ r.state = "pending"
  BY <1>7 DEF MarkedDue, Row
<1>. QED
  BY <1>4, <1>5, <1>6, <1>8

LEMMA ExecuteKeepsType ==
  ASSUME IInv, NEW p \in Procs, Execute(p)
  PROVE  /\ TypeOK'
         /\ todo[p] # << >> /\ \E t : Goes(p, t)
<1>. USE DEF IInv
<1>0. TypeOK
  OBVIOUS
<1>1. ASSUME todo[p] # << >>, \E t : Goes(p, t)
      PROVE  /\ todo' \in [Procs -> Seq(Items)] /\ on' \in [Procs -> Conts \union { NoCont }]
             /\ kind' = kind /\ crashes' = crashes /\ on[p] \in Conts
             /\ Head(todo[p]).do \in Moving => Head(todo[p]).what \in ContinuationState
  <2>1. PICK t : Goes(p, t)
    BY <1>1
  <2>2. todo' \in [Procs -> Seq(Items)] /\ on' \in [Procs -> Conts \union { NoCont }]
    BY <2>1, GoesAlone
  <2>3. Head(todo[p]).do \in Moving => Head(todo[p]).what \in ContinuationState
    BY <1>1, Busy, HeadTells DEF ContinuationState
  <2>. QED
    BY <1>1, <2>1, <2>2, <2>3, Busy DEF Goes
<1>2. CASE MoveRead(p)
  <2>1. todo[p] # << >> /\ \E t : Goes(p, t)
    BY <1>2, MoveReadTurns
  <2>. QED
    BY <1>0, <1>1, <1>2, <2>1 DEF TypeOK, MoveRead, store
<1>3. CASE MoveWrite(p)
  <2>1. todo[p] # << >> /\ (\E t : Goes(p, t)) /\ Head(todo[p]).do \in Moving
        /\ inst' = [inst EXCEPT ![on[p]] = Head(todo[p]).what]
    BY <1>3, MoveWriteTurns DEF Moving
  <2>2. inst' \in [Conts -> ContinuationState \union { "none" }]
    BY <1>0, <1>1, <2>1 DEF TypeOK
  <2>. QED
    BY <1>0, <1>1, <1>3, <2>1, <2>2 DEF TypeOK, MoveWrite
<1>4. CASE AddStep(p)
  <2>1. todo[p] # << >> /\ (\E t : Goes(p, t)) /\ Head(todo[p]).what \in StepKinds
        /\ steps' = steps \union {<< on[p], Head(todo[p]).what >>}
    BY <1>4, AddStepTurns
  <2>. QED
    BY <1>0, <1>1, <1>4, <2>1 DEF TypeOK, AddStep
<1>5. CASE Enqueue(p) \/ MarkApplied(p) \/ MarkFailed(p)
  <2>1. todo[p] # << >> /\ \E t : Goes(p, t)
    BY <1>5, EnqueueTurns, MarkTurns
  <2>2. on[p] \in Conts
    BY <1>1, <2>1
  <2>3. ASSUME NEW k \in Keys, NEW row, row \in Row, outbox' = [outbox EXCEPT ![on[p]][k] = row]
        PROVE  outbox' \in [Conts -> [Keys -> Row]]
    BY <1>0, <2>2, <2>3 DEF TypeOK
  <2>4. \A k \in Keys : outbox[on[p]][k] \in Row
    BY <1>0, <2>2 DEF TypeOK
  <2>. DEFINE c == on[p]
              k == Key(Head(todo[p]))
              op == Head(todo[p]).what
              n == Enqueued(outbox[c][k])
              a == MarkedApplied(outbox[c][k], op)
              f == MarkedDue(MarkedPending(outbox[c][k], op, "none"))
  <2>5. /\ k \in Keys
        /\ Enqueue(p) => outbox' = [outbox EXCEPT ![c][k] = n]
        /\ MarkApplied(p) => outbox' = [outbox EXCEPT ![c][k] = a]
        /\ MarkFailed(p) => outbox' = [outbox EXCEPT ![c][k] = f]
    <3>1. Enqueue(p) => k \in Keys /\ outbox' = [outbox EXCEPT ![c][k] = n]
      BY EnqueueTurns
    <3>2. MarkApplied(p) \/ MarkFailed(p) => k \in Keys
      BY MarkTurns
    <3>3. MarkApplied(p) => outbox' = [outbox EXCEPT ![c][k] = a]
      BY DEF MarkApplied
    <3>4. MarkFailed(p) => outbox' = [outbox EXCEPT ![c][k] = f]
      BY DEF MarkFailed
    <3>. QED
      BY <1>5, <3>1, <3>2, <3>3, <3>4
  <2>6. n \in Row /\ a \in Row /\ f \in Row
    BY <2>4, <2>5, RowsAreTyped
  <2>. HIDE DEF k, n, a, f
  <2>7. outbox' \in [Conts -> [Keys -> Row]]
    BY <1>5, <2>3, <2>5, <2>6
  <2>. QED
    BY <1>0, <1>1, <1>5, <2>1, <2>7 DEF TypeOK, Enqueue, MarkApplied, MarkFailed
<1>6. CASE Call(p)
  <2>1. /\ todo[p] # << >> /\ (\E t : Goes(p, t)) /\ Key(Head(todo[p])) \in Keys
        /\ board' \in { board, board \union {<< on[p], Key(Head(todo[p])) >>} }
        /\ failures' \in Nat /\ failures' + crashes <= MaxFaults
    BY <1>6, CallTurns
  <2>2. board' \subseteq Conts \X Keys
    BY <1>0, <1>1, <2>1 DEF TypeOK
  <2>. QED
    BY <1>0, <1>1, <1>6, <2>1, <2>2 DEF TypeOK, Call, store
<1>7. CASE MarkStep(p)
  <2>1. /\ todo[p] # << >> /\ (\E t : Goes(p, t)) /\ Head(todo[p]).what \in StepKinds
        /\ Head(todo[p]).do = "task"
        /\ stepTask' = stepTask \union {<< on[p], Head(todo[p]).what >>}
    BY <1>7, MarkTurns
  <2>2. << on[p], Head(todo[p]).what >> \in steps
    BY <2>1, Busy DEF StepsFirst, Stepped, Working
  <2>. QED
    BY <1>0, <1>1, <1>7, <2>1, <2>2 DEF TypeOK, MarkStep
<1>8. CASE Receive(p)
  <2>1. todo[p] # << >> /\ (\E t : Goes(p, t)) /\ heard' \subseteq heard \union {<< on[p], "refused" >>}
        /\ "refused" \in Hearings
    BY <1>8, ReceiveTurns DEF Hearings
  <2>2. heard' \subseteq Conts \X Hearings
    BY <1>0, <1>1, <2>1 DEF TypeOK
  <2>. QED
    BY <1>0, <1>1, <1>8, <2>1, <2>2 DEF TypeOK, Receive, store
<1>9. CASE AddReceipt(p)
  <2>1. todo[p] # << >> /\ (\E t : Goes(p, t)) /\ receipts[on[p]] + 1 \in 0 .. MaxReceipts
        /\ receipts' = [receipts EXCEPT ![on[p]] = receipts[on[p]] + 1]
    BY <1>9, AddReceiptTurns
  <2>2. receipts' \in [Conts -> 0 .. MaxReceipts]
    BY <1>0, <1>1, <2>1 DEF TypeOK
  <2>. QED
    BY <1>0, <1>1, <1>9, <2>1, <2>2 DEF TypeOK, AddReceipt
<1>10. CASE CloseAnchor(p)
  <2>1. todo[p] # << >> /\ (\E t : Goes(p, t))
    BY <1>10, CloseTurns DEF Goes
  <2>. QED
    BY <1>0, <1>1, <1>10, <2>1 DEF TypeOK, CloseAnchor, store
<1>11. CASE OpenCase(p) \/ Register(p) \/ Pass(p)
  <2>1. todo[p] # << >> /\ (\E t : Goes(p, t))
    BY <1>11, OneTurns
  <2>2. /\ OpenCase(p) => asked' = asked \union { on[p] } /\ passed' = passed /\ wait' = wait
        /\ Pass(p) => asked' = asked /\ passed' = passed \union { on[p] } /\ wait' = wait
        /\ Register(p) => asked' = asked /\ passed' = passed
                          /\ wait' = [wait EXCEPT ![on[p]] = IF @ = "none" THEN "pending" ELSE @]
        /\ UNCHANGED << inst, receipts, steps, stepTask, outbox, board, heard, failures >>
    BY <1>11 DEF OpenCase, Pass, Register
  <2>. QED
    BY <1>0, <1>1, <1>11, <2>1, <2>2 DEF TypeOK
<1>12. CASE Judge(p)
  <2>1. todo[p] # << >> /\ (\E t : Goes(p, t))
        /\ \/ /\ wait' = [wait EXCEPT ![on[p]] = "satisfied"]
              /\ heard' = heard \union {<< on[p], "satisfied" >>}
           \/ /\ wait' = [wait EXCEPT ![on[p]] = "failed_permanent"]
              /\ heard' = heard \union {<< on[p], "failed_permanent" >>}
           \/ UNCHANGED << wait, heard >>
        /\ { "satisfied", "failed_permanent" } \subseteq Hearings
    BY <1>12, JudgeTurns DEF Hearings
  <2>2. heard' \subseteq Conts \X Hearings
    BY <1>0, <1>1, <2>1 DEF TypeOK
  <2>3. wait' \in [Conts -> { "none", "pending", "satisfied", "failed_permanent" }]
    BY <1>0, <1>1, <2>1 DEF TypeOK
  <2>. QED
    BY <1>0, <1>1, <1>12, <2>1, <2>2, <2>3 DEF TypeOK, Judge
<1>. QED
  BY <1>2, <1>3, <1>4, <1>5, <1>6, <1>7, <1>8, <1>9, <1>10, <1>11, <1>12 DEF Execute

-----------------------------------------------------------------------------
(***************************************************************************)
(* Places.                                                                 *)
(***************************************************************************)

\* The two kinds of agendas.
LEMMA KindTells ==
  ASSUME NEW s
  PROVE  /\ WaitAgenda(s) => /\ Head(s).do \in { "move", "write", "condition", "pass", "judge" }
                             /\ Head(s).do \in Moving =>
                                  Head(s).what \in { "materializing", "resumable", "resumed", "failed_retryable" }
                             /\ Head(s).do \notin Working
         /\ OwnerAgenda(s) => Head(s).do \notin { "condition", "judge" }
<1>1. WaitAgenda(s) => /\ Head(s).do \in { "move", "write", "condition", "pass", "judge" }
                       /\ Head(s).do \in Moving =>
                            Head(s).what \in { "materializing", "resumable", "resumed", "failed_retryable" }
  BY PlaceTells DEF WaitAgenda, Moving
<1>2. OwnerAgenda(s) => Head(s).do \notin { "condition", "judge" }
  BY PlaceTells DEF OwnerAgenda, Open, Answered, Verdict, Planning, Moving, Working
<1>. QED
  BY <1>1, <1>2 DEF Working

\* Nobody comes to ask, to receive or to accept by the end of another item.
LEMMA DroppedPlace ==
  ASSUME NEW s, OwnerAgenda(s) \/ WaitAgenda(s), NEW t, t # << >>, Dropped(s, t)
  PROVE  /\ ~ Asking(t) /\ ~ Receipting(t) /\ ~ Accepting(t) /\ ~ Registering(t)
         /\ Receiving(t) \/ Casing(t) => Asking(s)
         /\ Fresh(t)
<1>1. CASE t = Tail(s)
  <2>1. /\ Tail(s) # << >> => /\ ~ Asking(t) /\ ~ Receipting(t) /\ ~ Accepting(t) /\ ~ Registering(t)
                              /\ Receiving(t) \/ Casing(t) => Asking(s)
    <3>1. Planning(s) \/ Receiving(s) \/ Receipting(s) => t = << >> \/ Planning(t)
      BY <1>1, NextPlace DEF Planning
    <3>2. Planning(s) \/ Receiving(s) \/ Receipting(s) => ~ Casing(t)
      BY <1>1, PlaceTells DEF Planning, Casing, Anchoring, Subscribing, Passing, Replaying, Receiving,
         Receipting, Ending, Works, Does, Stands
    <3>3. Planning(t) => ~ Asking(t) /\ ~ Receipting(t) /\ ~ Accepting(t) /\ ~ Registering(t) /\ ~ Receiving(t)
      BY PlaceTells DEF Planning, Moving, Working
    <3>4. Asking(s) => Casing(t) \/ Receiving(t)
      BY <1>1 DEF Asking
    <3>5. Casing(t) \/ Receiving(t) => ~ Asking(t) /\ ~ Receipting(t) /\ ~ Accepting(t) /\ ~ Registering(t)
      BY PlaceTells DEF Moving
    <3>6. Accepting(s) \/ Answered(s) \/ Verdict(s) \/ WaitAgenda(s)
            => \/ t = << >> \/ Passing(t) \/ Answered(t) \/ Conditioning(t)
               \/ Reviewing(t) \/ Rerunning(t) \/ Resumed(t)
      BY <1>1 DEF Accepting, Answered, Closing, Materializing, Materialized, Ending, Verdict, ToReview, Reviewing,
         Resuming, Rerunning, Resumed, Failing, WaitAgenda, Registering, Conditioning, Passing, Judging, Satisfying
    <3>7. \/ Passing(t) \/ Closing(t) \/ Materializing(t) \/ Conditioning(t) \/ Reviewing(t) \/ Rerunning(t) \/ Resumed(t)
          => /\ ~ Asking(t) /\ ~ Receipting(t) /\ ~ Accepting(t) /\ ~ Registering(t)
             /\ ~ Receiving(t) /\ ~ Casing(t)
      BY PlaceTells DEF Moving, Working
    <3>8. Materialized(t) => /\ ~ Asking(t) /\ ~ Receipting(t) /\ ~ Accepting(t) /\ ~ Registering(t)
                             /\ ~ Receiving(t) /\ ~ Casing(t)
      <4>1. Materialized(t) => ~ Registering(t)
        BY PlaceTells DEF Materialized, Registering, Ending, Conditioning, Does, Stands
      <4>. QED
        BY <4>1, PlaceTells DEF Moving
    <3>. QED
      BY <3>1, <3>2, <3>3, <3>4, <3>5, <3>6, <3>7, <3>8 DEF OwnerAgenda, Open, Answered
  <2>2. Fresh(Tail(s))
    BY DEF OwnerAgenda, WaitAgenda, Open, Answered, Verdict, Planning, Passing, Subscribing, Anchoring,
       Casing, Receiving, Asking, Receipting, Materialized, Materializing, Closing, Accepting, Failing,
       Reviewing, ToReview, Resumed, Rerunning, Resuming, Replaying, Conditioning, Registering, Judging,
       Satisfying, Works, Moves, Does, Stands
  <2>. QED
    BY <1>1, <2>1, <2>2
<1>2. CASE t # Tail(s)
  <2>1. Passing(t)
    BY <1>2, OnlyAnchorsSubscribe DEF Dropped, Subscribing
  <2>2. Fresh(t)
    BY <2>1 DEF Passing, Does, Stands, Fresh
  <2>. QED
    BY <2>1, <2>2, PlaceTells DEF Moving
<1>. QED
  BY <1>1, <1>2

\* Whoever goes on is still where a handler of its kind can be.
LEMMA DoingStays ==
  ASSUME IInv, NEW p \in Procs, todo[p] # << >>, NEW t, Goes(p, t),
         \/ t = << >>
         \/ kind[on[p]] = "owner" /\ OwnerAgenda(t)
         \/ kind[on[p]] = "wait" /\ WaitAgenda(t)
  PROVE  \A q \in Procs : Doing(q)'
<1>1. ASSUME NEW q \in Procs \ { p } PROVE Doing(q)'
  BY <1>1, GoesAlone DEF Goes, IInv, Doing, Idle
<1>2. Doing(p)'
  <2>1. on[p] # NoCont /\ kind' = kind
    BY Busy DEF Idle, Goes
  <2>. QED
    BY <2>1, GoesAlone DEF Doing, Idle
<1>. QED
  BY <1>1, <1>2

\* What a step of p that moves no instance keeps of the order.
Steady(p, t) ==
  LET s == todo[p]  c == on[p] IN
  /\ Asking(t) => Asking(s)
  /\ kind[c] = "owner" /\ inst[c] = "detected" => t = << >> \/ Early(t)
  /\ inst[c] = "waiting_owner" => t = << >> \/ Open(t)
  /\ inst[c] \in Untold /\ Accepting(s) => Accepting(t)
  /\ inst[c] \notin Untold /\ (Receiving(t) \/ Receipting(t)) => Receiving(s) \/ Receipting(s)

\* The order in terms of one process.
LEMMA OrderTells ==
  ASSUME IInv, NEW p \in Procs, todo[p] # << >>
  PROVE  LET s == todo[p]  c == on[p] IN
         /\ inst[c] # "none"
         /\ kind[c] = "owner" /\ inst[c] = "detected" => Early(s)
         /\ inst[c] = "waiting_owner" => Open(s) /\ kind[c] = "owner"
         /\ Asking(s) => inst[c] = "detected" /\ kind[c] = "owner"
         /\ Accepting(s) => kind[c] = "owner" /\ inst[c] \notin { "none", "detected" }
         /\ inst[c] \in { "none", "detected" } => receipts[c] = 0
<1>. DEFINE s == todo[p]
            c == on[p]
<1>1. c \in Conts /\ Order(c) /\ Separate(c) /\ (kind[c] = "owner" \/ WaitAgenda(s)) /\ kind[c] \in { "owner", "wait" }
  BY Busy DEF IInv
<1>2. inst[c] # "none"
  BY <1>1 DEF Order, AtRest
<1>3. kind[c] = "owner" /\ inst[c] = "detected" => Early(s)
  BY <1>1 DEF Order
<1>4. inst[c] = "waiting_owner" => Open(s) /\ kind[c] = "owner"
  BY <1>1 DEF Order, Separate
<1>5. Asking(s) \/ Accepting(s) => kind[c] = "owner"
  BY <1>1, PlaceTells, KindTells
<1>6. Asking(s) => inst[c] = "detected"
  BY <1>1 DEF Order
<1>7. Accepting(s) => ~ Early(s)
  BY PlaceTells DEF Early, Planning, Moving, Working
<1>. QED
  BY <1>1, <1>2, <1>3, <1>4, <1>5, <1>6, <1>7 DEF Order

\* A step that goes on with the same item, or ends one that is not a move.
LEMMA TurnIsSteady ==
  ASSUME IInv, NEW p \in Procs, todo[p] # << >>, NEW t,
         \/ Rewritten(todo[p], t)
         \/ /\ Dropped(todo[p], t) /\ ~ Asking(todo[p])
            /\ Accepting(todo[p]) => inst[on[p]] \notin Untold
  PROVE  /\ Steady(p, t)
         /\ \/ t = << >>
            \/ kind[on[p]] = "owner" /\ OwnerAgenda(t)
            \/ kind[on[p]] = "wait" /\ WaitAgenda(t)
<1>. DEFINE s == todo[p]
            c == on[p]
<1>0. /\ OwnerAgenda(s) \/ WaitAgenda(s)
      /\ \/ kind[c] = "owner" /\ OwnerAgenda(s)
         \/ kind[c] = "wait" /\ WaitAgenda(s)
  BY Busy
<1>1. CASE Rewritten(s, t)
  <2>1. OwnerAgenda(s) => OwnerAgenda(t)
    BY <1>1, SamePlace DEF OwnerAgenda, Open, Answered, Verdict, Planning
  <2>2. WaitAgenda(s) => WaitAgenda(t)
    BY <1>1, SamePlace DEF WaitAgenda
  <2>3. (Early(s) => Early(t)) /\ (Open(s) => Open(t))
    BY <1>1, SamePlace DEF Early, Open, Planning
  <2>. QED
    BY <1>0, <1>1, <2>1, <2>2, <2>3, SamePlace, OrderTells DEF Steady
<1>2. CASE t # << >> /\ Dropped(s, t) /\ ~ Asking(s) /\ (Accepting(s) => inst[c] \notin Untold)
  <2>1. /\ Planning(s) \/ Receiving(s) => Planning(t)
        /\ Receipting(s) => Passing(t)
        /\ OwnerAgenda(s) => OwnerAgenda(t)
        /\ WaitAgenda(s) => WaitAgenda(t)
    BY <1>2, NextPlace
  <2>2. ~ Asking(t) /\ ~ Receipting(t) /\ ~ Accepting(t) /\ ~ Receiving(t)
    BY <1>0, <1>2, DroppedPlace
  <2>3. kind[c] = "owner" /\ inst[c] = "detected" => Early(t)
    BY <1>2, <2>1, OrderTells DEF Early
  <2>4. inst[c] = "waiting_owner" => Open(t)
    BY <1>2, <2>1, OrderTells DEF Open, Planning, Untold
  <2>. QED
    BY <1>0, <1>2, <2>1, <2>2, <2>3, <2>4 DEF Steady
<1>3. CASE t = << >> /\ Dropped(s, t) /\ ~ Asking(s) /\ (Accepting(s) => inst[c] \notin Untold)
  BY <1>3, PlaceTells, NotOver DEF Steady, Asking, Receiving, Receipting, Moves, Does, Stands
<1>. QED
  BY <1>1, <1>2, <1>3

\* Which processes may record a receipt.
LEMMA PendingIsFinite ==
  ASSUME NEW c
  PROVE  /\ IsFiniteSet(Pending(c)) /\ Cardinality(Pending(c)) \in Nat
         /\ \A T \in SUBSET Pending(c) : Cardinality(T) \in Nat /\ Cardinality(T) <= Cardinality(Pending(c))
         /\ \A p \in Pending(c) : \A T \in SUBSET (Pending(c) \ { p }) :
              Cardinality(T) \in Nat /\ Cardinality(T) + 1 <= Cardinality(Pending(c))
         /\ \A p : \A T \in SUBSET (Pending(c) \cup { p }) :
              Cardinality(T) \in Nat /\ Cardinality(T) <= Cardinality(Pending(c)) + 1
<1>1. IsFiniteSet(Pending(c)) /\ Cardinality(Pending(c)) \in Nat
  <2>1. Pending(c) \in SUBSET Procs
    BY DEF Pending
  <2>. QED
    BY <2>1, BoundsAreTyped, FS_Subset, FS_CardinalityType
<1>2. ASSUME NEW T \in SUBSET Pending(c)
      PROVE  Cardinality(T) \in Nat /\ Cardinality(T) <= Cardinality(Pending(c))
  BY <1>1, FS_Subset, FS_CardinalityType
<1>3. ASSUME NEW p \in Pending(c), NEW T \in SUBSET (Pending(c) \ { p })
      PROVE  Cardinality(T) \in Nat /\ Cardinality(T) + 1 <= Cardinality(Pending(c))
  <2>1. IsFiniteSet(Pending(c) \ { p }) /\ Cardinality(Pending(c) \ { p }) = Cardinality(Pending(c)) - 1
    BY <1>1, FS_RemoveElement
  <2>2. IsFiniteSet(T) /\ Cardinality(T) <= Cardinality(Pending(c) \ { p })
    BY <2>1, FS_Subset
  <2>. QED
    BY <1>1, <2>1, <2>2, FS_CardinalityType
<1>4. ASSUME NEW p, NEW T \in SUBSET (Pending(c) \cup { p })
      PROVE  Cardinality(T) \in Nat /\ Cardinality(T) <= Cardinality(Pending(c)) + 1
  <2>1. IsFiniteSet(Pending(c) \cup { p }) /\ Cardinality(Pending(c) \cup { p }) <= Cardinality(Pending(c)) + 1
    BY <1>1, FS_AddElement
  <2>2. IsFiniteSet(T) /\ Cardinality(T) <= Cardinality(Pending(c) \cup { p })
    BY <2>1, FS_Subset
  <2>3. Cardinality(T) \in Nat /\ Cardinality(Pending(c) \cup { p }) \in Nat
    BY <2>1, <2>2, FS_CardinalityType
  <2>. QED
    BY <1>1, <2>1, <2>2, <2>3
<1>. QED
  BY <1>1, <1>2, <1>3, <1>4

\* Fewer may, and nobody did.
LEMMA FewStay ==
  ASSUME IInv, NEW c \in Conts, Pending(c)' \subseteq Pending(c), receipts'[c] = receipts[c], crashes' = crashes
  PROVE  FewReceipts(c)'
<1>1. receipts[c] \in Nat /\ crashes \in Nat /\ FewReceipts(c)
  BY BoundsAreTyped DEF IInv, TypeOK
<1>2. Cardinality(Pending(c)') \in Nat /\ Cardinality(Pending(c)') <= Cardinality(Pending(c))
  BY PendingIsFinite
<1>. QED
  BY <1>1, <1>2, PendingIsFinite, BoundsAreTyped DEF FewReceipts

\* A step of p that moves no instance and records no receipt.
LEMMA OrderStays ==
  ASSUME IInv, NEW p \in Procs, todo[p] # << >>, NEW t, Goes(p, t), Steady(p, t),
         UNCHANGED << inst, receipts >>,
         \A d \in Conts \ { on[p] } : wait'[d] = wait[d] /\ outbox'[d] = outbox[d]
  PROVE  \A d \in Conts : Order(d)' /\ FewReceipts(d)'
<1>. DEFINE c == on[p]
<1>1. /\ todo'[p] = t /\ on'[p] = IF t = << >> THEN NoCont ELSE c
      /\ \A q \in Procs \ { p } : todo'[q] = todo[q] /\ on'[q] = on[q]
      /\ c \in Conts /\ NoCont \notin Conts /\ kind' = kind /\ crashes' = crashes /\ inst[c] # "none"
  BY GoesAlone, Busy, OrderTells, OwnerAssumption DEF Goes
<1>2. ASSUME NEW d \in Conts PROVE Order(d)'
  <2>1. Order(d)
    BY DEF IInv
  <2>2. inst'[d] = "none" => AtRest(d)' /\ wait'[d] = "none" /\ \A k \in Keys : ~ HasRow(d, k)'
    BY <1>1, <2>1 DEF Order, AtRest, HasRow
  <2>3. kind'[d] = "owner" /\ inst'[d] = "detected" => \A q \in Procs : on'[q] = d => Early(todo'[q])
    BY <1>1, <2>1 DEF Order, Steady
  <2>4. inst'[d] = "waiting_owner" => \A q \in Procs : on'[q] = d => Open(todo'[q])
    BY <1>1, <2>1 DEF Order, Steady
  <2>5. ASSUME NEW q \in Procs, on'[q] = d, Asking(todo'[q])
        PROVE  on[q] = d /\ Asking(todo[q])
    BY <1>1, <2>5 DEF Steady
  <2>. QED
    BY <2>1, <2>2, <2>3, <2>4, <2>5 DEF Order
<1>3. ASSUME NEW d \in Conts PROVE FewReceipts(d)'
  <2>1. Pending(d)' \subseteq Pending(d)
    <3>1. CASE inst[d] \in Untold
      <4>1. ASSUME NEW q \in Procs, on[q] = d, Accepting(todo[q]) PROVE on'[q] = d /\ Accepting(todo'[q])
        BY <1>1, <3>1, <4>1, PlaceTells DEF Steady, Accepting, Moves, Stands
      <4>. QED
        BY <3>1, <4>1 DEF Pending
    <3>2. CASE inst[d] \notin Untold
      <4>1. ASSUME NEW q \in Procs, on'[q] = d, Receiving(todo'[q]) \/ Receipting(todo'[q])
            PROVE  on[q] = d /\ (Receiving(todo[q]) \/ Receipting(todo[q]))
        BY <1>1, <3>2, <4>1 DEF Steady
      <4>. QED
        BY <3>2, <4>1 DEF Pending
    <3>. QED
      BY <3>1, <3>2
  <2>. QED
    BY <1>1, <2>1, FewStay
<1>. QED
  BY <1>2, <1>3

(***************************************************************************)
(* The order, step by step.                                                *)
(***************************************************************************)
OrderHolds == (\A q \in Procs : Doing(q)) /\ \A d \in Conts : Order(d) /\ FewReceipts(d)

\* A steady step leaves everything in order.
LEMMA TurnKeeps ==
  ASSUME IInv, NEW p \in Procs, todo[p] # << >>, NEW t, Goes(p, t),
         \/ Rewritten(todo[p], t)
         \/ /\ Dropped(todo[p], t) /\ ~ Asking(todo[p])
            /\ Accepting(todo[p]) => inst[on[p]] \notin Untold,
         UNCHANGED << inst, receipts >>,
         \A d \in Conts \ { on[p] } : wait'[d] = wait[d] /\ outbox'[d] = outbox[d]
  PROVE  OrderHolds'
<1>1. /\ Steady(p, t)
      /\ \/ t = << >>
         \/ kind[on[p]] = "owner" /\ OwnerAgenda(t)
         \/ kind[on[p]] = "wait" /\ WaitAgenda(t)
  BY TurnIsSteady
<1>2. \A q \in Procs : Doing(q)'
  BY <1>1, DoingStays
<1>3. \A d \in Conts : Order(d)' /\ FewReceipts(d)'
  BY <1>1, OrderStays
<1>. QED
  BY <1>2, <1>3 DEF OrderHolds

\* The select of a transition: whoever asks or accepts finds it legal, for
\* nobody else does so first.
LEMMA MoveReadKeepsOrder ==
  ASSUME IInv, NEW p \in Procs, MoveRead(p)
  PROVE  OrderHolds'
<1>. DEFINE s == todo[p]
            c == on[p]
<1>1. PICK t : /\ Goes(p, t)
               /\ IF Legal(inst[c], Head(s).what)
                  THEN Rewritten(s, t) /\ Head(t).do = "write"
                  ELSE t = Tail(s)
  BY MoveReadTurns
<1>2. s # << >>
  BY MoveReadTurns
<1>3. Asking(s) => Legal(inst[c], Head(s).what)
  <2>1. Asking(s) => Head(s).what = "waiting_owner" /\ inst[c] = "detected"
    BY <1>2, PlaceTells, OrderTells
  <2>. QED
    BY <2>1 DEF Legal, TERMINAL_STATES, ALLOWED_TRANSITIONS, ContinuationState
<1>4. Accepting(s) /\ inst[c] \in Untold => Legal(inst[c], Head(s).what)
  <2>1. Accepting(s) /\ inst[c] \in Untold => Head(s).what = "input_accepted" /\ inst[c] = "waiting_owner"
    BY <1>2, PlaceTells, OrderTells DEF Untold
  <2>. QED
    BY <2>1 DEF Legal, TERMINAL_STATES, ALLOWED_TRANSITIONS, ContinuationState
<1>5. \/ Rewritten(s, t)
      \/ Dropped(s, t) /\ ~ Asking(s) /\ (Accepting(s) => inst[c] \notin Untold)
  BY <1>1, <1>3, <1>4 DEF Dropped
<1>6. UNCHANGED << inst, receipts, wait, outbox >>
  BY DEF MoveRead, store
<1>. QED
  BY <1>1, <1>2, <1>5, <1>6, TurnKeeps

\* The steps of an effect on the board, and the items of one transaction.
LEMMA WorkKeepsOrder ==
  ASSUME IInv, NEW p \in Procs,
         \/ AddStep(p) \/ Enqueue(p) \/ Call(p) \/ MarkApplied(p) \/ MarkFailed(p) \/ MarkStep(p)
         \/ OpenCase(p) \/ Register(p) \/ Pass(p)
  PROVE  OrderHolds'
<1>. DEFINE s == todo[p]
            c == on[p]
<1>1. s # << >> /\ \E t : Goes(p, t) /\ (Rewritten(s, t) \/ Dropped(s, t))
  <2>1. CASE AddStep(p)
    BY <2>1, AddStepTurns
  <2>2. CASE Enqueue(p)
    BY <2>2, EnqueueTurns
  <2>3. CASE Call(p)
    BY <2>3, CallTurns
  <2>4. CASE MarkApplied(p) \/ MarkFailed(p) \/ MarkStep(p)
    BY <2>4, MarkTurns
  <2>5. CASE OpenCase(p) \/ Register(p) \/ Pass(p)
    BY <2>5, OneTurns DEF Dropped
  <2>. QED
    BY <2>1, <2>2, <2>3, <2>4, <2>5
<1>2. Head(s).do \notin Moving
  BY DEF AddStep, Enqueue, Call, MarkApplied, MarkFailed, MarkStep, OpenCase, Register, Pass, At, Moving
<1>3. ~ Asking(s) /\ ~ Accepting(s)
  BY <1>2, PlaceTells
<1>4. UNCHANGED << inst, receipts >>
  BY DEF AddStep, Enqueue, Call, MarkApplied, MarkFailed, MarkStep, OpenCase, Register, Pass, store
<1>5. wait \in [Conts -> { "none", "pending", "satisfied", "failed_permanent" }] /\ outbox \in [Conts -> [Keys -> Row]]
  BY DEF IInv, TypeOK
<1>6. \A d \in Conts \ { c } : wait'[d] = wait[d]
  <2>1. Register(p) => wait' = [wait EXCEPT ![c] = IF @ = "none" THEN "pending" ELSE @]
    BY DEF Register
  <2>2. ~ Register(p) => wait' = wait
    BY DEF AddStep, Enqueue, Call, MarkApplied, MarkFailed, MarkStep, OpenCase, Pass, store
  <2>. QED
    BY <1>5, <2>1, <2>2
<1>7. \A d \in Conts \ { c } : outbox'[d] = outbox[d]
  <2>1. Enqueue(p) \/ MarkApplied(p) \/ MarkFailed(p)
          => \E k, row : outbox' = [outbox EXCEPT ![c][k] = row]
    BY DEF Enqueue, MarkApplied, MarkFailed
  <2>2. ~ (Enqueue(p) \/ MarkApplied(p) \/ MarkFailed(p)) => outbox' = outbox
    BY DEF AddStep, Call, MarkStep, OpenCase, Register, Pass, store
  <2>. QED
    BY <1>5, <2>1, <2>2
<1>. QED
  BY <1>1, <1>3, <1>4, <1>6, <1>7, TurnKeeps

\* The answers of the ladder, of the anchor's step and of the checker.
LEMMA ReplyKeepsOrder ==
  ASSUME IInv, NEW p \in Procs, Receive(p) \/ CloseAnchor(p) \/ Judge(p)
  PROVE  OrderHolds'
<1>. DEFINE s == todo[p]
            c == on[p]
<1>1. UNCHANGED << inst, receipts, outbox >> /\ \A d \in Conts \ { c } : wait'[d] = wait[d]
  <2>1. wait \in [Conts -> { "none", "pending", "satisfied", "failed_permanent" }]
    BY DEF IInv, TypeOK
  <2>. QED
    BY <2>1 DEF Receive, CloseAnchor, Judge, store
<1>2. ASSUME NEW t, Goes(p, t), s # << >>, Steady(p, t),
             \/ t = << >>
             \/ kind[c] = "owner" /\ OwnerAgenda(t)
             \/ kind[c] = "wait" /\ WaitAgenda(t)
      PROVE  OrderHolds'
  <2>1. \A q \in Procs : Doing(q)'
    BY <1>2, DoingStays
  <2>2. \A d \in Conts : Order(d)' /\ FewReceipts(d)'
    BY <1>1, <1>2, OrderStays
  <2>. QED
    BY <2>1, <2>2 DEF OrderHolds
<1>3. ASSUME s # << >>, Goes(p, Tail(s)), Receiving(s) \/ Closing(s)
      PROVE  OrderHolds'
  <2>1. ~ Asking(s) /\ ~ Accepting(s)
    BY <1>3, PlaceTells DEF Moving, Working
  <2>. QED
    BY <1>1, <1>3, <2>1, TurnKeeps DEF Dropped
<1>4. CASE Receive(p)
  <2>1. s # << >> /\ Receiving(s)
    BY <1>4, ReceiveTurns
  <2>2. ASSUME NEW t, Goes(p, t), Receipting(t) PROVE OrderHolds'
    <3>1. ~ Asking(t) /\ ~ Receiving(t) /\ ~ Accepting(s) /\ ~ Early(s)
      BY <2>1, <2>2, PlaceTells DEF Moving, Working, Early, Planning
    <3>2. kind[c] = "owner"
      BY <2>1, Busy, PlaceTells, KindTells
    <3>3. Steady(p, t)
      BY <2>1, <2>2, <3>1, OrderTells DEF Steady, Open
    <3>. QED
      BY <1>2, <2>1, <2>2, <3>2, <3>3 DEF OwnerAgenda, Open
  <2>. QED
    BY <1>3, <1>4, <2>1, <2>2, ReceiveTurns
<1>5. CASE CloseAnchor(p)
  <2>1. s # << >> /\ Closing(s)
    BY <1>5, CloseTurns
  <2>2. ASSUME NEW t, Goes(p, t), Closing(t) PROVE OrderHolds'
    <3>1. /\ ~ Asking(t) /\ ~ Receiving(t) /\ ~ Receipting(t) /\ ~ Accepting(s)
      BY <2>1, <2>2, PlaceTells DEF Moving, Working
    <3>2. Head(s).do = "close"
      BY <1>5 DEF CloseAnchor, At
    <3>3. ~ Early(s) /\ ~ Open(s)
      BY <3>2, PlaceTells DEF Moving, Working, Early, Open, Planning
    <3>4. kind[c] = "owner"
      BY <2>1, <3>2, Busy, KindTells
    <3>5. Steady(p, t)
      BY <2>1, <2>2, <3>1, <3>3, OrderTells DEF Steady
    <3>. QED
      BY <1>2, <2>1, <2>2, <3>4, <3>5 DEF OwnerAgenda, Answered
  <2>. QED
    BY <1>3, <1>5, <2>1, <2>2, CloseTurns
<1>6. CASE Judge(p)
  <2>1. s # << >> /\ Judging(s) /\ kind[c] = "wait"
    BY <1>6, JudgeTurns
  <2>2. PICK t : Goes(p, t) /\ (Satisfying(t) \/ Failing(t) \/ t = << >>)
    BY <1>6, JudgeTurns
  <2>3. ~ Accepting(s) /\ inst[c] # "waiting_owner"
    BY <2>1, PlaceTells, OrderTells DEF Moving
  <2>4. ~ Asking(t) /\ ~ Receiving(t) /\ ~ Receipting(t)
    BY <2>2, PlaceTells DEF Moving, Asking, Receiving, Receipting, Moves, Does, Stands
  <2>5. Steady(p, t)
    BY <2>1, <2>3, <2>4 DEF Steady
  <2>. QED
    BY <1>2, <2>1, <2>2, <2>5 DEF WaitAgenda
<1>. QED
  BY <1>4, <1>5, <1>6

\* What the other continuations see of a process that is at c: nothing.
LEMMA OthersStay ==
  ASSUME IInv, NEW p \in Procs, NEW c \in Conts, NEW d \in Conts \ { c },
         on[p] \in { c, NoCont }, on'[p] \in { c, NoCont },
         \A q \in Procs \ { p } : todo'[q] = todo[q] /\ on'[q] = on[q],
         kind' = kind, crashes' \in { crashes, crashes + 1 },
         inst'[d] = inst[d], receipts'[d] = receipts[d], wait'[d] = wait[d], outbox'[d] = outbox[d]
  PROVE  Order(d)' /\ FewReceipts(d)'
<1>1. on[p] # d /\ on'[p] # d /\ NoCont # d
  BY OwnerAssumption
<1>2. \A q \in Procs : /\ on'[q] = d <=> on[q] = d
                       /\ on[q] = d => todo'[q] = todo[q]
  BY <1>1
<1>3. Order(d)'
  <2>1. Order(d)
    BY DEF IInv
  <2>. QED
    BY <1>2, <2>1 DEF Order, AtRest, HasRow
<1>4. FewReceipts(d)'
  <2>1. Pending(d)' = Pending(d)
    BY <1>2 DEF Pending
  <2>2. FewReceipts(d) /\ crashes \in Nat /\ receipts[d] \in Nat
    BY BoundsAreTyped DEF IInv, TypeOK
  <2>3. Cardinality(Pending(d)) \in Nat
    BY PendingIsFinite
  <2>. QED
    BY <2>1, <2>2, <2>3, BoundsAreTyped DEF FewReceipts
<1>. QED
  BY <1>3, <1>4

\* The update of a transition.  The question is asked once: by then everybody
\* else is past it and has no answer.
LEMMA MoveWriteKeepsOrder ==
  ASSUME IInv, NEW p \in Procs, MoveWrite(p)
  PROVE  OrderHolds'
<1>. SUFFICES ASSUME NEW c \in Conts, c = on[p] PROVE OrderHolds'
  BY MoveWriteTurns, Busy
<1>. DEFINE s == todo[p]
            n == Head(s).what
            t == Tail(s)
<1>1. /\ s # << >> /\ Head(s).do = "write" /\ Head(s).do \in Moving
      /\ Goes(p, t) /\ inst' = [inst EXCEPT ![c] = n]
      /\ UNCHANGED << receipts, wait, outbox >>
  BY MoveWriteTurns DEF MoveWrite, Moving
<1>2. /\ c \in Conts /\ (OwnerAgenda(s) \/ WaitAgenda(s)) /\ Dropped(s, t)
      /\ \/ kind[c] = "owner" /\ OwnerAgenda(s)
         \/ kind[c] = "wait" /\ WaitAgenda(s)
  BY <1>1, Busy DEF Dropped
<1>3. /\ todo'[p] = t /\ on'[p] = IF t = << >> THEN NoCont ELSE c
      /\ \A q \in Procs \ { p } : todo'[q] = todo[q] /\ on'[q] = on[q]
      /\ kind' = kind /\ crashes' = crashes
  BY <1>1, GoesAlone DEF Goes
<1>4. inst'[c] = n /\ \A d \in Conts \ { c } : inst'[d] = inst[d]
  BY <1>1, <1>2 DEF IInv, TypeOK
<1>5. \A q \in Procs : Doing(q)'
  BY <1>1, <1>2, NextPlace, DoingStays
<1>6. ASSUME NEW d \in Conts \ { c } PROVE Order(d)' /\ FewReceipts(d)'
  BY <1>1, <1>2, <1>3, <1>4, <1>6, OthersStay
<1>7. t # << >> => ~ Asking(t) /\ ~ Receipting(t) /\ (Receiving(t) => Asking(s))
  BY <1>2, DroppedPlace
<1>8. NoCont # c
  BY <1>2, OwnerAssumption
<1>9. CASE Asking(s)
  <2>1. n = "waiting_owner" /\ inst[c] = "detected" /\ kind[c] = "owner"
    BY <1>1, <1>9, PlaceTells, OrderTells
  <2>2. ASSUME NEW q \in Procs, on'[q] = c PROVE Open(todo'[q])
    <3>1. CASE q = p
      BY <1>3, <1>8, <1>9, <2>2, <3>1 DEF Asking, Open, Planning
    <3>2. CASE q # p
      <4>1. on[q] = c /\ Early(todo[q]) /\ ~ Asking(todo[q])
        BY <1>2, <1>3, <1>9, <2>1, <2>2, <3>2 DEF IInv, Order
      <4>. QED
        BY <1>3, <3>2, <4>1 DEF Early, Open
    <3>. QED
      BY <3>1, <3>2
  <2>3. \A q \in Procs : on'[q] = c => ~ Asking(todo'[q])
    BY <2>2, PlaceTells DEF Open, Planning, Moving, Working
  <2>4. Order(c)'
    BY <1>2, <1>4, <2>1, <2>2, <2>3 DEF Order
  <2>5. Pending(c)' \subseteq Pending(c)
    <3>1. ASSUME NEW q \in Procs, on[q] = c PROVE ~ Accepting(todo[q])
      <4>1. todo[q] # << >> \/ ~ Accepting(todo[q])
        BY DEF Accepting, Moves, Stands
      <4>. QED
        BY <2>1, <3>1, <4>1, OrderTells
    <3>. QED
      BY <1>4, <2>1, <3>1 DEF Pending, Untold
  <2>6. FewReceipts(c)'
    BY <1>1, <1>2, <1>3, <2>5, FewStay
  <2>. QED
    BY <1>2, <1>5, <1>6, <2>4, <2>6 DEF OrderHolds
<1>10. CASE ~ Asking(s)
  <2>1. n \notin Untold
    BY <1>1, <1>2, <1>10, HeadTells DEF Untold
  <2>2. ASSUME NEW q \in Procs, on'[q] = c, Asking(todo'[q]) PROVE FALSE
    <3>1. q # p /\ on[q] = c /\ Asking(todo[q]) /\ todo[q] # << >>
      BY <1>3, <1>7, <1>8, <2>2 DEF Asking, Moves, Stands
    <3>2. inst[c] = "detected" /\ kind[c] = "owner"
      BY <3>1, OrderTells
    <3>3. Early(s)
      BY <1>1, <3>2, OrderTells
    <3>4. ~ Planning(s)
      BY <1>1, PlaceTells DEF Planning, Moving, Working
    <3>. QED
      BY <1>10, <3>3, <3>4 DEF Early
  <2>3. Order(c)'
    BY <1>4, <2>1, <2>2 DEF Order, Untold
  <2>4. Pending(c)' \subseteq Pending(c)
    <3>1. ASSUME NEW q \in Procs, on'[q] = c, Receiving(todo'[q]) \/ Receipting(todo'[q])
          PROVE  on[q] = c /\ (Receiving(todo[q]) \/ Receipting(todo[q])) /\ ~ Accepting(todo[q])
      <4>1. q # p
        BY <1>3, <1>7, <1>8, <1>10, <3>1
      <4>. QED
        BY <1>3, <3>1, <4>1, PlaceTells DEF Moving
    <3>. QED
      BY <1>4, <2>1, <3>1 DEF Pending
  <2>5. FewReceipts(c)'
    BY <1>1, <1>2, <1>3, <2>4, FewStay
  <2>. QED
    BY <1>2, <1>5, <1>6, <2>3, <2>5 DEF OrderHolds
<1>. QED
  BY <1>9, <1>10

\* The receipt: whoever records it may not record another one.
LEMMA AddReceiptKeepsOrder ==
  ASSUME IInv, NEW p \in Procs, AddReceipt(p)
  PROVE  OrderHolds'
<1>. SUFFICES ASSUME NEW c \in Conts, c = on[p] PROVE OrderHolds'
  BY AddReceiptTurns, Busy
<1>. DEFINE s == todo[p]
<1>1. /\ s # << >> /\ Receipting(s) /\ receipts[c] \in Nat /\ p \in Pending(c)
      /\ receipts' = [receipts EXCEPT ![c] = receipts[c] + 1]
      /\ UNCHANGED << inst, wait, outbox >>
  BY AddReceiptTurns DEF AddReceipt
<1>2. PICK t : Goes(p, t) /\ Accepting(t)
  BY AddReceiptTurns
<1>3. c \in Conts /\ kind[c] = "owner" /\ NoCont # c
  BY <1>1, Busy, PlaceTells, KindTells, OwnerAssumption
<1>4. t # << >>
  BY <1>2 DEF Accepting, Moves, Stands
<1>5. /\ todo'[p] = t /\ on'[p] = c
      /\ \A q \in Procs \ { p } : todo'[q] = todo[q] /\ on'[q] = on[q]
      /\ kind' = kind /\ crashes' = crashes
  BY <1>2, <1>4, GoesAlone DEF Goes
<1>6. \A q \in Procs : Doing(q)'
  BY <1>1, <1>2, <1>3, DoingStays DEF OwnerAgenda, Open
<1>7. receipts'[c] = receipts[c] + 1 /\ \A d \in Conts \ { c } : receipts'[d] = receipts[d]
  BY <1>1, <1>3 DEF IInv, TypeOK
<1>8. ASSUME NEW d \in Conts \ { c } PROVE Order(d)' /\ FewReceipts(d)'
  BY <1>1, <1>3, <1>5, <1>7, <1>8, OthersStay
<1>9. ~ Asking(t) /\ ~ Receiving(t) /\ ~ Receipting(t) /\ ~ Early(s) /\ Open(t)
  BY <1>1, <1>2, PlaceTells DEF Moving, Working, Early, Planning, Open
<1>10. inst[c] \notin { "none", "detected" }
  BY <1>1, <1>3, <1>9, OrderTells
<1>11. Order(c)'
  <2>1. Order(c)
    BY <1>3 DEF IInv
  <2>2. inst'[c] = "waiting_owner" => \A q \in Procs : on'[q] = c => Open(todo'[q])
    BY <1>1, <1>5, <1>9, <2>1 DEF Order
  <2>3. \A q \in Procs : on'[q] = c => ~ Asking(todo'[q])
    BY <1>5, <1>9, <1>10, <2>1 DEF Order
  <2>. QED
    BY <1>1, <1>10, <2>2, <2>3 DEF Order
<1>12. FewReceipts(c)'
  <2>1. Pending(c)' \subseteq Pending(c) \ { p }
    BY <1>1, <1>2, <1>5, <1>9 DEF Pending
  <2>2. Cardinality(Pending(c)') \in Nat /\ Cardinality(Pending(c)') + 1 <= Cardinality(Pending(c))
    BY <1>1, <2>1, PendingIsFinite
  <2>3. FewReceipts(c) /\ crashes \in Nat /\ Cardinality(Pending(c)) \in Nat
    BY <1>3, PendingIsFinite DEF IInv, TypeOK
  <2>. QED
    BY <1>1, <1>5, <1>7, <2>2, <2>3, BoundsAreTyped DEF FewReceipts
<1>. QED
  BY <1>3, <1>6, <1>8, <1>11, <1>12 DEF OrderHolds

\* A process that dies may begin anew: one more receipt.
LEMMA CrashKeepsOrder ==
  ASSUME IInv, NEW p \in Procs, Crash(p)
  PROVE  OrderHolds'
<1>. SUFFICES ASSUME NEW c \in Conts, c = on[p] PROVE OrderHolds'
  BY DEF Crash, Idle, IInv, TypeOK
<1>1. /\ todo'[p] = << >> /\ on'[p] = NoCont
      /\ \A q \in Procs \ { p } : todo'[q] = todo[q] /\ on'[q] = on[q]
      /\ crashes' = crashes + 1 /\ crashes \in Nat
      /\ UNCHANGED << kind, inst, receipts, wait, outbox >>
  BY CrashGoes DEF store
<1>2. c \in Conts /\ NoCont \notin Conts
  BY OwnerAssumption DEF Crash, Idle, IInv, TypeOK
<1>3. \A q \in Procs : Doing(q)'
  BY <1>1 DEF IInv, Doing, Idle
<1>4. ASSUME NEW d \in Conts \ { c } PROVE Order(d)' /\ FewReceipts(d)'
  BY <1>1, <1>2, <1>4, OthersStay
<1>5. \A q \in Procs : on'[q] = c => q # p /\ on[q] = c /\ todo'[q] = todo[q]
  BY <1>1, <1>2
<1>6. Order(c)'
  <2>1. Order(c)
    BY <1>2 DEF IInv
  <2>. QED
    BY <1>1, <1>5, <2>1 DEF Order, AtRest, HasRow
<1>7. FewReceipts(c)'
  <2>1. Pending(c)' \subseteq Pending(c) \cup { p }
    BY <1>1, <1>5 DEF Pending
  <2>2. Cardinality(Pending(c)') \in Nat /\ Cardinality(Pending(c)') <= Cardinality(Pending(c)) + 1
    BY <2>1, PendingIsFinite
  <2>3. FewReceipts(c) /\ receipts[c] \in Nat /\ Cardinality(Pending(c)) \in Nat
    BY <1>2, PendingIsFinite, BoundsAreTyped DEF IInv, TypeOK
  <2>. QED
    BY <1>1, <2>2, <2>3, BoundsAreTyped DEF FewReceipts
<1>. QED
  BY <1>2, <1>3, <1>4, <1>6, <1>7 DEF OrderHolds

(***************************************************************************)
(* The other parts of the invariant.                                       *)
(***************************************************************************)

\* How any item goes on.
LEMMA ExecuteTurns ==
  ASSUME IInv, NEW p \in Procs, Execute(p)
  PROVE  LET s == todo[p] IN
         /\ s # << >>
         /\ \E t : /\ Goes(p, t)
                   /\ \/ Rewritten(s, t) /\ (Head(s).do = "step" => AddStep(p) /\ steps' = steps \union {<< on[p], Head(s).what >>})
                      \/ Dropped(s, t)
                      \/ Receipting(t) \/ Accepting(t) \/ Satisfying(t) \/ Failing(t) \/ t = << >>
                      \/ Closing(t) /\ Head(t).what = "complete_owner_anchor"
<1>. DEFINE s == todo[p]
<1>1. CASE MoveRead(p)
  BY <1>1, MoveReadTurns DEF Dropped
<1>2. CASE MoveWrite(p)
  BY <1>2, MoveWriteTurns DEF Dropped
<1>3. CASE AddStep(p)
  BY <1>3, AddStepTurns
<1>4. CASE Enqueue(p)
  <2>1. s # << >> /\ Head(s).do = "op"
    BY <1>4, EnqueueTurns
  <2>. QED
    BY <1>4, <2>1, EnqueueTurns
<1>5. CASE Call(p)
  <2>1. s # << >> /\ Head(s).do = "call"
    BY <1>5, CallTurns
  <2>. QED
    BY <1>5, <2>1, CallTurns
<1>6. CASE MarkApplied(p) \/ MarkFailed(p) \/ MarkStep(p)
  <2>1. s # << >> /\ Head(s).do \in { "applied", "failed", "task" }
    BY <1>6, MarkTurns
  <2>. QED
    BY <1>6, <2>1, MarkTurns
<1>7. CASE Receive(p)
  BY <1>7, ReceiveTurns DEF Dropped
<1>8. CASE AddReceipt(p)
  BY <1>8, AddReceiptTurns
<1>9. CASE CloseAnchor(p)
  <2>1. \A v : Op("complete_owner_anchor", v).what = "complete_owner_anchor"
    BY DEF Op, Item
  <2>. QED
    BY <1>9, <2>1, CloseTurns DEF Dropped
<1>10. CASE OpenCase(p) \/ Register(p) \/ Pass(p)
  BY <1>10, OneTurns DEF Dropped
<1>11. CASE Judge(p)
  BY <1>11, JudgeTurns
<1>. QED
  BY <1>1, <1>2, <1>3, <1>4, <1>5, <1>6, <1>7, <1>8, <1>9, <1>10, <1>11 DEF Execute

\* Which rows a step writes: that of the item it executes.
LEMMA ExecuteWrites ==
  ASSUME IInv, NEW p \in Procs, Execute(p)
  PROVE  \/ UNCHANGED outbox
         \/ LET s == todo[p]  k == Key(Head(s)) IN
            /\ s # << >> /\ Head(s).do \in { "op", "applied", "failed" } /\ k \in Keys
            /\ \A c \in Conts, j \in Keys : << c, j >> # << on[p], k >> => outbox'[c][j] = outbox[c][j]
            /\ outbox'[on[p]][k].state # "absent"
            /\ \/ outbox'[on[p]][k].state = "applied" => outbox[on[p]][k].state = "applied"
               \/ Head(s).do = "applied"
<1>. DEFINE s == todo[p]
            c == on[p]
            k == Key(Head(s))
            op == Head(s).what
            n == Enqueued(outbox[c][k])
            a == MarkedApplied(outbox[c][k], op)
            f == MarkedDue(MarkedPending(outbox[c][k], op, "none"))
<1>1. outbox \in [Conts -> [Keys -> Row]]
  BY DEF IInv, TypeOK
<1>2. CASE Enqueue(p) \/ MarkApplied(p) \/ MarkFailed(p)
  <2>1. s # << >> /\ Head(s).do \in { "op", "applied", "failed" } /\ k \in Keys
    BY <1>2, EnqueueTurns, MarkTurns
  <2>2. c \in Conts /\ outbox[c][k] \in Row
    BY <1>1, <2>1, Busy
  <2>3. /\ n.state # "absent" /\ (n.state = "applied" => outbox[c][k].state = "applied")
        /\ a.state = "applied" /\ f.state = "pending"
    BY <2>2, RowsAreTyped
  <2>4. /\ Enqueue(p) => outbox' = [outbox EXCEPT ![c][k] = n]
        /\ MarkApplied(p) => outbox' = [outbox EXCEPT ![c][k] = a] /\ Head(s).do = "applied"
        /\ MarkFailed(p) => outbox' = [outbox EXCEPT ![c][k] = f]
    BY DEF Enqueue, MarkApplied, MarkFailed, At
  <2>. HIDE DEF k, n, a, f
  <2>5. ASSUME NEW row, outbox' = [outbox EXCEPT ![c][k] = row]
        PROVE  /\ \A d \in Conts, j \in Keys : << d, j >> # << c, k >> => outbox'[d][j] = outbox[d][j]
               /\ outbox'[c][k] = row
    BY <1>1, <2>1, <2>2, <2>5
  <2>6. PICK row : outbox' = [outbox EXCEPT ![c][k] = row] /\ row.state # "absent"
                   /\ ((row.state = "applied" => outbox[c][k].state = "applied") \/ Head(s).do = "applied")
    BY <1>2, <2>3, <2>4
  <2>7. \A d \in Conts, j \in Keys : << d, j >> # << c, k >> => outbox'[d][j] = outbox[d][j]
    BY <2>5, <2>6
  <2>8. outbox'[c][k] = row
    BY <2>5, <2>6
  <2>. QED
    BY <2>1, <2>6, <2>7, <2>8 DEF k
<1>3. CASE ~ (Enqueue(p) \/ MarkApplied(p) \/ MarkFailed(p))
  BY <1>3 DEF Execute, MoveRead, MoveWrite, AddStep, Call, MarkStep, Receive, AddReceipt, CloseAnchor,
     OpenCase, Register, Judge, Pass, store
<1>. QED
  BY <1>2, <1>3

\* A row, a call and a task belong to a step that was added before.
LEMMA ExecuteKeepsSteps ==
  ASSUME IInv, NEW p \in Procs, Execute(p)
  PROVE  StepsFirst' /\ steps \subseteq steps'
<1>. DEFINE s == todo[p]
<1>1. s # << >> /\ on[p] \in Conts /\ (OwnerAgenda(s) \/ WaitAgenda(s))
  BY ExecuteTurns, Busy
<1>2. steps \subseteq steps'
  BY DEF Execute, MoveRead, MoveWrite, AddStep, Enqueue, Call, MarkApplied, MarkFailed, MarkStep,
     Receive, AddReceipt, CloseAnchor, OpenCase, Register, Judge, Pass, store
<1>3. ASSUME NEW c \in Conts, NEW k \in StepKinds, HasRow(c, << k, 0 >>)' PROVE << c, k >> \in steps'
  <2>1. << k, 0 >> \in Keys
    BY ItemsAreTyped
  <2>2. CASE HasRow(c, << k, 0 >>)
    BY <1>2, <2>2 DEF IInv, StepsFirst
  <2>3. CASE ~ HasRow(c, << k, 0 >>)
    <3>1. outbox'[c][<< k, 0 >>] # outbox[c][<< k, 0 >>]
      BY <1>3, <2>3 DEF HasRow
    <3>2. << c, << k, 0 >> >> = << on[p], Key(Head(s)) >> /\ Head(s).do \in { "op", "applied", "failed" }
      BY <2>1, <3>1, ExecuteWrites
    <3>3. c = on[p] /\ k = Head(s).what
      BY <3>2 DEF Key
    <3>. QED
      BY <1>1, <1>2, <3>2, <3>3, Busy DEF IInv, StepsFirst, Stepped, Working
  <2>. QED
    BY <2>2, <2>3
<1>4. PICK t : /\ Goes(p, t)
               /\ \/ Rewritten(s, t) /\ (Head(s).do = "step" => AddStep(p) /\ steps' = steps \union {<< on[p], Head(s).what >>})
                  \/ Dropped(s, t)
                  \/ Receipting(t) \/ Accepting(t) \/ Satisfying(t) \/ Failing(t) \/ t = << >>
                  \/ Closing(t) /\ Head(t).what = "complete_owner_anchor"
  BY ExecuteTurns
<1>5. /\ todo'[p] = t /\ on'[p] = IF t = << >> THEN NoCont ELSE on[p]
      /\ \A q \in Procs \ { p } : todo'[q] = todo[q] /\ on'[q] = on[q]
  BY <1>4, GoesAlone
<1>6. ASSUME NEW q \in Procs \ { p } PROVE Stepped(q)'
  BY <1>2, <1>5, <1>6 DEF IInv, StepsFirst, Stepped, Idle
<1>7. ASSUME t # << >>, Head(t).do \in Working \ { "step" }, Head(t).what \in StepKinds
      PROVE  << on[p], Head(t).what >> \in steps'
  <2>1. ~ Receipting(t) /\ ~ Accepting(t) /\ ~ Satisfying(t) /\ ~ Failing(t)
        /\ Head(t).what # "complete_owner_anchor"
    BY <1>7, PlaceTells DEF Moving, Working, StepKinds
  <2>2. ~ Dropped(s, t)
    <3>1. Dropped(s, t) => Fresh(t)
      BY <1>1, <1>7, DroppedPlace
    <3>. QED
      BY <1>7, <3>1 DEF Fresh, Working, StepKinds
  <2>3. Rewritten(s, t) /\ (Head(s).do = "step" => steps' = steps \union {<< on[p], Head(s).what >>})
    BY <1>4, <1>7, <2>1, <2>2
  <2>4. Head(t).what = Head(s).what /\ Head(s).do \in Working
    BY <1>7, <2>3 DEF Rewritten, Moving, Working
  <2>5. Head(s).do # "step" => << on[p], Head(s).what >> \in steps
    BY <1>1, <1>7, <2>4, Busy DEF IInv, StepsFirst, Stepped
  <2>. QED
    BY <1>2, <2>3, <2>4, <2>5
<1>8. Stepped(p)'
  BY <1>5, <1>7 DEF Stepped, Idle
<1>. QED
  BY <1>2, <1>3, <1>6, <1>8 DEF StepsFirst

\* An owner has no condition, and a condition no owner.
LEMMA ExecuteKeepsSeparate ==
  ASSUME IInv, NEW p \in Procs, Execute(p), NEW c \in Conts
  PROVE  Separate(c)'
<1>. DEFINE s == todo[p]
<1>1. s # << >> /\ (\E t : Goes(p, t)) /\ kind' = kind
  BY ExecuteTurns DEF Goes
<1>2. Separate(c) /\ kind[c] \in { "owner", "wait" }
  BY DEF IInv, TypeOK
<1>3. CASE kind[c] = "owner"
  <2>1. on[p] = c => Head(s).do \notin { "condition", "judge" }
    BY <1>1, <1>3, Busy, KindTells
  <2>2. Register(p) \/ Judge(p) => on[p] # c
    BY <2>1 DEF Register, Judge, At
  <2>3. wait \in [Conts -> { "none", "pending", "satisfied", "failed_permanent" }] /\ on[p] \in Conts
    BY <1>1, Busy DEF IInv, TypeOK
  <2>4. wait'[c] = wait[c]
    BY <2>2, <2>3 DEF Execute, MoveRead, MoveWrite, AddStep, Enqueue, Call, MarkApplied, MarkFailed, MarkStep,
       Receive, AddReceipt, CloseAnchor, OpenCase, Register, Judge, Pass, store
  <2>. QED
    BY <1>1, <1>2, <1>3, <2>4 DEF Separate
<1>4. CASE kind[c] = "wait"
  <2>0. on[p] \in Conts
    BY <1>1, Busy
  <2>1. on[p] = c => /\ Head(s).do \in { "move", "write", "condition", "pass", "judge" }
                     /\ Head(s).do \in Moving =>
                          Head(s).what \in { "materializing", "resumable", "resumed", "failed_retryable" }
                     /\ Head(s).do \notin Working
    BY <1>1, <1>4, Busy, KindTells
  <2>2. receipts'[c] = receipts[c]
    <3>1. AddReceipt(p) => on[p] # c
      BY <2>1 DEF AddReceipt, At
    <3>2. receipts \in [Conts -> 0 .. MaxReceipts]
      BY DEF IInv, TypeOK
    <3>. QED
      BY <2>0, <3>1, <3>2 DEF Execute, MoveRead, MoveWrite, AddStep, Enqueue, Call, MarkApplied, MarkFailed,
         MarkStep, Receive, AddReceipt, CloseAnchor, OpenCase, Register, Judge, Pass, store
  <2>3. c \in asked' => c \in asked
    <3>1. OpenCase(p) => on[p] # c
      BY <2>1 DEF OpenCase, At
    <3>. QED
      BY <3>1 DEF Execute, MoveRead, MoveWrite, AddStep, Enqueue, Call, MarkApplied, MarkFailed,
         MarkStep, Receive, AddReceipt, CloseAnchor, OpenCase, Register, Judge, Pass, store
  <2>4. \A k \in Keys : HasRow(c, k)' => HasRow(c, k)
    BY <2>1, ExecuteWrites DEF HasRow, Working
  <2>5. \A k \in Keys : << c, k >> \in board' => << c, k >> \in board
    <3>1. Call(p) => on[p] # c
      BY <2>1 DEF Call, At
    <3>2. Call(p) => board' \in { board, board \union {<< on[p], Key(Head(s)) >>} }
      BY CallTurns
    <3>3. ~ Call(p) => board' = board
      BY DEF Execute, MoveRead, MoveWrite, AddStep, Enqueue, MarkApplied, MarkFailed,
         MarkStep, Receive, AddReceipt, CloseAnchor, OpenCase, Register, Judge, Pass, store
    <3>. QED
      BY <3>1, <3>2, <3>3
  <2>6. inst'[c] \in { inst[c], "materializing", "resumable", "resumed", "failed_retryable" }
    <3>1. MoveWrite(p) => inst' = [inst EXCEPT ![on[p]] = Head(s).what] /\ Head(s).do \in Moving
      BY DEF MoveWrite, At, Moving
    <3>2. ~ MoveWrite(p) => inst' = inst
      BY DEF Execute, MoveRead, AddStep, Enqueue, Call, MarkApplied, MarkFailed,
         MarkStep, Receive, AddReceipt, CloseAnchor, OpenCase, Register, Judge, Pass, store
    <3>. QED
      BY <2>0, <2>1, <3>1, <3>2 DEF IInv, TypeOK
  <2>. QED
    BY <1>1, <1>2, <1>4, <2>2, <2>3, <2>4, <2>5, <2>6 DEF Separate
<1>. QED
  BY <1>2, <1>3, <1>4

\* A handler begins where its place in the order allows it.
LEMMA BeginKeeps ==
  ASSUME IInv, NEW p \in Procs, NEW c \in Conts, NEW a \in Seq(Items), a # << >>, Begin(p, c, a),
         \/ UNCHANGED inst /\ inst[c] # "none"
         \/ inst[c] = "none" /\ inst' = [inst EXCEPT ![c] = "detected"],
         UNCHANGED << receipts, steps, stepTask, outbox, wait, asked, passed >>,
         \/ kind[c] = "owner" /\ OwnerAgenda(a)
         \/ kind[c] = "wait" /\ WaitAgenda(a),
         Head(a).do \in Working \ { "step" } /\ Head(a).what \in StepKinds => << c, Head(a).what >> \in steps,
         kind[c] = "owner" /\ inst'[c] = "detected" => Early(a),
         inst[c] = "waiting_owner" => Open(a),
         Asking(a) => inst[c] = "none",
         inst[c] \notin Untold => ~ Receiving(a) /\ ~ Receipting(a)
  PROVE  IInv'
<1>1. /\ Idle(p) /\ todo[p] = << >> /\ todo'[p] = a /\ on'[p] = c /\ on[p] = NoCont
      /\ \A q \in Procs \ { p } : todo'[q] = todo[q] /\ on'[q] = on[q]
      /\ todo' \in [Procs -> Seq(Items)] /\ on' \in [Procs -> Conts \union { NoCont }]
      /\ UNCHANGED << kind, board, heard, failures, crashes >>
  BY BeginGoes DEF Idle
<1>2. TypeOK /\ NoCont # c
  BY OwnerAssumption DEF IInv
<1>3. /\ \A d \in Conts \ { c } : inst'[d] = inst[d]
      /\ inst'[c] # "none"
      /\ inst'[c] = inst[c] \/ (inst[c] = "none" /\ inst'[c] = "detected")
      /\ inst' \in [Conts -> ContinuationState \union { "none" }]
  BY <1>2 DEF TypeOK, ContinuationState
<1>4. TypeOK'
  BY <1>1, <1>2, <1>3 DEF TypeOK
<1>5. \A q \in Procs : Doing(q)'
  BY <1>1, <1>2 DEF IInv, Doing, Idle
<1>6. StepsFirst'
  <2>1. \A q \in Procs : Stepped(q)'
    BY <1>1, <1>2 DEF IInv, StepsFirst, Stepped, Idle
  <2>. QED
    BY <2>1 DEF IInv, StepsFirst, HasRow
<1>7. ASSUME NEW d \in Conts PROVE Separate(d)'
  <2>1. Separate(d) /\ kind'[d] = kind[d]
    BY <1>1 DEF IInv
  <2>2. inst'[d] \in { inst[d], "detected" }
    BY <1>3
  <2>3. \A k \in Keys : HasRow(d, k)' <=> HasRow(d, k)
    BY DEF HasRow
  <2>. QED
    BY <1>1, <2>1, <2>2, <2>3 DEF Separate
<1>8. ASSUME NEW d \in Conts \ { c } PROVE Order(d)' /\ FewReceipts(d)'
  BY <1>1, <1>3, OthersStay
<1>9. Order(c)'
  <2>1. Order(c) /\ (inst[c] = "none" => \A q \in Procs : on[q] # c)
    BY DEF IInv, Order, AtRest
  <2>2. kind'[c] = "owner" /\ inst'[c] = "detected" => \A q \in Procs : on'[q] = c => Early(todo'[q])
    BY <1>1, <1>3, <2>1 DEF Order
  <2>3. inst'[c] = "waiting_owner" => \A q \in Procs : on'[q] = c => Open(todo'[q])
    BY <1>1, <1>3, <2>1 DEF Order
  <2>4. ASSUME NEW q \in Procs, on'[q] = c, Asking(todo'[q])
        PROVE  /\ inst'[c] = "detected"
               /\ \A r \in Procs : on'[r] = c /\ Asking(todo'[r]) => q = r
    BY <1>1, <1>3, <2>1, <2>4 DEF Order
  <2>5. inst'[c] \in { "none", "detected" } => receipts'[c] = 0
    BY <1>3, <2>1 DEF Order
  <2>. QED
    BY <1>3, <2>2, <2>3, <2>4, <2>5 DEF Order
<1>10. FewReceipts(c)'
  <2>1. Pending(c)' \subseteq Pending(c)
    <3>1. CASE inst[c] \in Untold
      BY <1>1, <1>2, <1>3, <3>1 DEF Pending, Untold
    <3>2. CASE inst[c] \notin Untold
      BY <1>1, <1>3, <3>2 DEF Pending, Untold
    <3>. QED
      BY <3>1, <3>2
  <2>. QED
    BY <1>1, <2>1, FewStay
<1>. QED
  BY <1>4, <1>5, <1>6, <1>7, <1>8, <1>9, <1>10 DEF IInv

\* ingest_board_once.
LEMMA IngestKeeps ==
  ASSUME IInv, NEW p \in Workers, NEW c \in Conts, Ingest(p, c)
  PROVE  IInv'
<1>. DEFINE e == << Plain("pass") >>
            fresh == inst[c] = "none"
            W == (IF fresh THEN << Move("materializing"), Plain("condition") >> ELSE << >>) \o e
            H0 == IF fresh THEN << Plain("receive") >>
                  ELSE IF inst[c] = "waiting_owner" THEN << Item("receive", "waiting_owner", 0) >>
                  ELSE << >>
            O(answer) == (IF fresh THEN << Move("waiting_owner") >> ELSE << >>) \o answer \o e
<1>1. p \in Procs /\ UNCHANGED << receipts, steps, stepTask, outbox, wait, asked, passed >>
  BY DEF Procs, Ingest
<1>2. \/ UNCHANGED inst /\ inst[c] # "none"
      \/ inst[c] = "none" /\ inst' = [inst EXCEPT ![c] = "detected"]
  BY DEF Ingest
<1>3. inst'[c] = IF fresh THEN "detected" ELSE inst[c]
  BY <1>2 DEF IInv, TypeOK
<1>4. e \in Seq(Items) /\ Passing(e)
  BY PassAgenda
<1>5. CASE kind[c] = "wait" /\ Begin(p, c, W)
  <2>1. W \in Seq(Items) /\ (IF fresh THEN Registering(W) ELSE Passing(W))
    BY <1>4, WaitAgendas
  <2>. HIDE DEF W
  <2>2. /\ WaitAgenda(W) /\ W # << >> /\ Head(W).do \notin Working
        /\ ~ Asking(W) /\ ~ Receiving(W) /\ ~ Receipting(W)
    BY <2>1, PlaceTells, NotOver DEF WaitAgenda, Moving, Working
  <2>3. inst[c] # "waiting_owner"
    BY <1>5 DEF IInv, Separate
  <2>. QED
    BY <1>1, <1>2, <1>3, <1>5, <2>1, <2>2, <2>3, BeginKeeps
<1>6. ASSUME kind[c] = "owner", NEW a \in Seq(Items), Begin(p, c, a),
             IF fresh THEN Asking(a)
             ELSE Casing(a) \/ Passing(a) \/ (Receiving(a) /\ inst[c] = "waiting_owner")
      PROVE  IInv'
  <2>1. OwnerAgenda(a) /\ a # << >>
    BY <1>6, NotOver DEF OwnerAgenda, Open, Planning
  <2>2. Head(a).do \notin Working /\ ~ Receipting(a) /\ (fresh => ~ Receiving(a)) /\ (Asking(a) => fresh)
    BY <1>6, PlaceTells DEF Moving, Working
  <2>3. /\ inst'[c] = "detected" => Early(a)
        /\ inst[c] = "waiting_owner" => Open(a)
        /\ inst[c] \notin Untold => ~ Receiving(a)
    <3>1. Casing(a) \/ Passing(a) => ~ Receiving(a)
      BY PlaceTells
    <3>. QED
      BY <1>3, <1>6, <2>2, <3>1 DEF Early, Open, Planning, Untold
  <2>. QED
    BY <1>1, <1>2, <1>6, <2>1, <2>2, <2>3, BeginKeeps
<1>7. CASE kind[c] = "owner" /\ Begin(p, c, O(Ask(c)))
  <2>. DEFINE a == O(Ask(c))
  <2>1. a \in Seq(Items) /\ (IF fresh THEN Asking(a) ELSE Casing(a))
    BY OwnerAgendas
  <2>. HIDE DEF a
  <2>2. Begin(p, c, a)
    BY <1>7 DEF a
  <2>. QED
    BY <1>6, <1>7, <2>1, <2>2
<1>8. CASE kind[c] = "owner" /\ Begin(p, c, O(H0))
  <2>. DEFINE a == O(H0)
  <2>1. a \in Seq(Items) /\ (IF fresh THEN Asking(a) ELSE Passing(a) \/ (Receiving(a) /\ inst[c] = "waiting_owner"))
    <3>1. CASE fresh
      BY <3>1, OwnerAgendas
    <3>2. CASE inst[c] = "waiting_owner"
      BY <3>2, OwnerAgendas
    <3>3. CASE ~ fresh /\ inst[c] # "waiting_owner"
      BY <1>4, <3>3, OwnerAgendas
    <3>. QED
      BY <3>1, <3>2, <3>3
  <2>. HIDE DEF a
  <2>2. Begin(p, c, a)
    BY <1>8 DEF a
  <2>. QED
    BY <1>6, <1>8, <2>1, <2>2
<1>. QED
  BY <1>5, <1>7, <1>8 DEF Ingest

\* The submit command, the gateway plugin, the verdicts, the replay and the
\* poll read the store and begin.
LEMMA ReadersKeep ==
  ASSUME IInv, NEW p \in Procs, NEW c \in Conts,
         \/ Submit(p, c) \/ Reply(p, c) \/ Replay(p, c) \/ Poll(p, c)
         \/ \E verdict \in { "GO", "BLOCK" } :
              AdvanceAfterMaterialization(p, c, verdict) \/ AdvanceAfterReview(p, c, verdict)
  PROVE  IInv'
<1>1. UNCHANGED store
  BY DEF Submit, Reply, Replay, Poll, AdvanceAfterMaterialization, AdvanceAfterReview
<1>2. UNCHANGED << inst, receipts, steps, stepTask, outbox, wait, asked, passed >>
  BY <1>1 DEF store
<1>3. Separate(c) /\ Order(c) /\ kind[c] \in { "owner", "wait" }
  BY DEF IInv, TypeOK
<1>4. ASSUME NEW a \in Seq(Items), Begin(p, c, a), inst[c] # "none", Head(a).do \notin Working,
             \/ kind[c] = "wait" /\ Judging(a)
             \/ kind[c] = "owner" /\ Receipting(a) /\ inst[c] = "waiting_owner"
             \/ kind[c] = "owner" /\ Verdict(a) /\ inst[c] \notin Untold
      PROVE  IInv'
  <2>1. /\ a # << >>
        /\ \/ kind[c] = "owner" /\ OwnerAgenda(a)
           \/ kind[c] = "wait" /\ WaitAgenda(a)
    BY <1>4, NotOver DEF OwnerAgenda, WaitAgenda, Open
  <2>2. /\ ~ Asking(a)
        /\ inst[c] \notin Untold => ~ Receiving(a) /\ ~ Receipting(a)
        /\ kind[c] = "owner" /\ inst[c] = "detected" => Early(a)
    BY <1>4, PlaceTells DEF Verdict, Untold, Moving, Working
  <2>3. inst[c] = "waiting_owner" => Open(a)
    BY <1>3, <1>4 DEF Open, Untold, Separate
  <2>. QED
    BY <1>2, <1>4, <2>1, <2>2, <2>3, BeginKeeps
<1>5. CASE Submit(p, c) \/ Reply(p, c)
  <2>1. inst[c] = "waiting_owner" /\ Begin(p, c, OnReceipt)
    BY <1>5 DEF Submit, Reply
  <2>2. OnReceipt \in Seq(Items) /\ Receipting(OnReceipt) /\ Head(OnReceipt).do \notin Working
    BY ReceiptAgenda, PlaceTells DEF Working
  <2>3. kind[c] = "owner"
    BY <1>3, <2>1 DEF Separate
  <2>. QED
    BY <1>4, <2>1, <2>2, <2>3
<1>6. CASE \E verdict \in { "GO", "BLOCK" } :
             AdvanceAfterMaterialization(p, c, verdict) \/ AdvanceAfterReview(p, c, verdict)
  <2>. DEFINE w == << Move("waiting_review"), Step("review") >>
              r == << Move("resumable"), Step("packet_rerun"), Move("resumed") >>
              f == << Move("failed_retryable") >>
  <2>1. inst[c] \in { "materializing", "waiting_review" } /\ kind[c] = "owner"
    <3>1. << "materialization", 0 >> \in Keys /\ << "review", 0 >> \in Keys
      BY ItemsAreTyped DEF StepKinds
    <3>. QED
      BY <1>3, <1>6, <3>1 DEF AdvanceAfterMaterialization, AdvanceAfterReview, Separate
  <2>2. Begin(p, c, w) \/ Begin(p, c, r) \/ Begin(p, c, f)
    BY <1>6 DEF AdvanceAfterMaterialization, AdvanceAfterReview
  <2>3. w \in Seq(Items) /\ ToReview(w) /\ r \in Seq(Items) /\ Resuming(r) /\ f \in Seq(Items) /\ Failing(f)
    BY VerdictAgendas
  <2>. HIDE DEF w, r, f
  <2>4. \A a \in { w, r, f } : a \in Seq(Items) /\ Verdict(a) /\ Head(a).do \notin Working
    BY <2>3, PlaceTells DEF Verdict, Moving, Working
  <2>. QED
    BY <1>4, <2>1, <2>2, <2>4 DEF Untold
<1>7. CASE Replay(p, c)
  <2>1. PICK k \in Keys : Retryable(outbox[c][k]) /\ Begin(p, c, << Item("call", k[1], k[2]) >>)
    BY <1>7 DEF Replay
  <2>. DEFINE i == Item("call", k[1], k[2])
              a == << i >>
  <2>2. a \in Seq(Items) /\ Replaying(a) /\ Head(a) = i /\ Key(Head(a)) = k
    BY VerdictAgendas
  <2>3. i.do = "call" /\ i.what = k[1]
    BY DEF Item
  <2>4. HasRow(c, k)
    BY <2>1 DEF Retryable, HasRow
  <2>5. kind[c] = "owner" /\ inst[c] # "none"
    BY <1>3, <2>4 DEF Separate, Order
  <2>6. k[1] \in StepKinds => k = << k[1], 0 >>
    BY DEF Keys, StepKinds, Whats
  <2>7. k[1] \in StepKinds => << c, k[1] >> \in steps
    BY <2>4, <2>6 DEF IInv, StepsFirst
  <2>. HIDE DEF a, i
  <2>8. Begin(p, c, a)
    BY <2>1 DEF a, i
  <2>9. OwnerAgenda(a) /\ Early(a) /\ Open(a) /\ a # << >> /\ ~ Asking(a) /\ ~ Receiving(a) /\ ~ Receipting(a)
    <3>1. OwnerAgenda(a) /\ Early(a) /\ Open(a)
      BY <2>2 DEF OwnerAgenda, Early, Open, Planning
    <3>. QED
      BY <2>2, <3>1, NotOver, PlaceTells DEF Moving
  <2>. QED
    BY <1>2, <2>2, <2>3, <2>5, <2>7, <2>8, <2>9, BeginKeeps
<1>8. CASE Poll(p, c)
  <2>1. wait[c] = "pending" /\ Begin(p, c, << Plain("judge") >>)
    BY <1>8 DEF Poll
  <2>2. kind[c] = "wait" /\ inst[c] # "none"
    BY <1>3, <2>1 DEF Separate, Order
  <2>3. LET a == << Plain("judge") >> IN a \in Seq(Items) /\ Judging(a)
    BY WaitAgendas
  <2>. DEFINE a == << Plain("judge") >>
  <2>. HIDE DEF a
  <2>4. a \in Seq(Items) /\ Judging(a) /\ Begin(p, c, a)
    BY <2>1, <2>3 DEF a
  <2>. QED
    BY <1>4, <2>2, <2>4, PlaceTells DEF Working
<1>. QED
  BY <1>5, <1>6, <1>7, <1>8

\* Any item leaves the invariant.
LEMMA ExecuteKeeps ==
  ASSUME IInv, NEW p \in Procs, Execute(p)
  PROVE  IInv'
<1>1. TypeOK'
  BY ExecuteKeepsType
<1>2. StepsFirst'
  BY ExecuteKeepsSteps
<1>3. \A c \in Conts : Separate(c)'
  BY ExecuteKeepsSeparate
<1>4. OrderHolds'
  BY MoveReadKeepsOrder, WorkKeepsOrder, ReplyKeepsOrder, MoveWriteKeepsOrder, AddReceiptKeepsOrder DEF Execute
<1>. QED
  BY <1>1, <1>2, <1>3, <1>4 DEF IInv, OrderHolds

\* So does a death.
LEMMA CrashKeeps ==
  ASSUME IInv, NEW p \in Procs, Crash(p)
  PROVE  IInv'
<1>1. /\ todo'[p] = << >> /\ on'[p] = NoCont
      /\ \A q \in Procs \ { p } : todo'[q] = todo[q] /\ on'[q] = on[q]
      /\ todo' \in [Procs -> Seq(Items)] /\ on' \in [Procs -> Conts \union { NoCont }]
      /\ crashes' = crashes + 1 /\ crashes \in Nat /\ failures + crashes' <= MaxFaults
      /\ UNCHANGED << kind, store, board, heard, failures >>
  BY CrashGoes
<1>2. UNCHANGED << inst, receipts, steps, stepTask, outbox, wait, asked, passed >>
  BY <1>1 DEF store
<1>3. TypeOK'
  BY <1>1, <1>2 DEF IInv, TypeOK
<1>4. StepsFirst'
  <2>1. \A q \in Procs : Stepped(q)'
    BY <1>1, <1>2 DEF IInv, StepsFirst, Stepped, Idle
  <2>. QED
    BY <1>2, <2>1 DEF IInv, StepsFirst, HasRow
<1>5. \A c \in Conts : Separate(c)'
  BY <1>1, <1>2 DEF IInv, Separate, HasRow
<1>. QED
  BY <1>3, <1>4, <1>5, CrashKeepsOrder DEF IInv, OrderHolds

\* Nothing happened yet: everybody may still record a receipt.
LEMMA InitHolds == Init => IInv
<1>. SUFFICES ASSUME Init PROVE IInv
  OBVIOUS
<1>1. NoRow \in Row /\ NoRow.state = "absent"
  BY CapAssumption DEF NoRow, Row, RowState
<1>2. TypeOK
  <2>1. << >> \in Seq(Items)
    OBVIOUS
  <2>2. [c \in Conts |-> [k \in Keys |-> NoRow]] \in [Conts -> [Keys -> Row]]
    BY <1>1
  <2>3. MaxReceipts \in Nat /\ MaxFaults \in Nat /\ 0 \in 0 .. MaxReceipts
    BY BoundsAreTyped
  <2>. QED
    BY <2>1, <2>2, <2>3 DEF Init, TypeOK
<1>3. \A c \in Conts, k \in Keys : ~ HasRow(c, k)
  BY <1>1 DEF Init, HasRow
<1>4. \A p \in Procs : Idle(p) /\ todo[p] = << >>
  BY DEF Init, Idle
<1>5. \A p \in Procs : Doing(p) /\ Stepped(p)
  BY <1>4 DEF Doing, Stepped
<1>6. StepsFirst
  <2>1. \A k \in StepKinds : << k, 0 >> \in Keys
    BY ItemsAreTyped
  <2>. QED
    BY <1>3, <1>5, <2>1 DEF StepsFirst
<1>7. ASSUME NEW c \in Conts PROVE Separate(c) /\ Order(c) /\ FewReceipts(c)
  <2>1. inst[c] = "none" /\ wait[c] = "none" /\ receipts[c] = 0
    BY DEF Init
  <2>2. \A p \in Procs : on[p] # c
    BY <1>4, OwnerAssumption DEF Idle
  <2>3. Separate(c)
    BY <1>3, <2>1 DEF Separate, Init
  <2>4. Order(c)
    BY <1>3, <2>1, <2>2 DEF Order, AtRest
  <2>5. Pending(c) = Procs
    BY <2>1, <2>2 DEF Pending, Untold
  <2>6. FewReceipts(c)
    BY <2>1, <2>5, BoundsAreTyped DEF FewReceipts, Init
  <2>. QED
    BY <2>3, <2>4, <2>6
<1>. QED
  BY <1>2, <1>5, <1>6, <1>7 DEF IInv

\* What Next does, in terms of one process and one continuation.
LEMMA NextTells ==
  ASSUME Next
  PROVE  \/ \E p \in Workers, c \in Conts : Ingest(p, c)
         \/ \E p \in Procs, c \in Conts :
              \/ Submit(p, c) \/ Reply(p, c) \/ Replay(p, c) \/ Poll(p, c)
              \/ \E verdict \in { "GO", "BLOCK" } :
                   AdvanceAfterMaterialization(p, c, verdict) \/ AdvanceAfterReview(p, c, verdict)
         \/ \E p \in Procs : Execute(p) \/ Crash(p)
<1>1. /\ Workers \subseteq Procs /\ Daemons \subseteq Procs /\ Submitters \subseteq Procs
      /\ Plugins \subseteq Procs /\ Reviewers \subseteq Procs
  BY OwnerAssumption DEF Procs
<1>. QED
  BY <1>1 DEF Next

\* The invariant is inductive.
LEMMA NextKeeps == IInv /\ [Next]_vars => IInv'
<1>. SUFFICES ASSUME IInv, [Next]_vars PROVE IInv'
  OBVIOUS
<1>1. CASE Next
  BY <1>1, NextTells, IngestKeeps, ReadersKeep, ExecuteKeeps, CrashKeeps
<1>2. CASE UNCHANGED vars
  <2>1. UNCHANGED << kind, inst, receipts, steps, stepTask, outbox, wait, asked, passed, board, on, todo,
                     heard, failures, crashes >>
    BY <1>2 DEF vars, store
  <2>2. TypeOK' /\ StepsFirst' /\ \A p \in Procs : Doing(p)'
    BY <2>1 DEF IInv, TypeOK, StepsFirst, Stepped, HasRow, Doing, Idle
  <2>3. ASSUME NEW c \in Conts PROVE Separate(c)' /\ Order(c)' /\ FewReceipts(c)'
    <3>1. Pending(c)' = Pending(c)
      BY <2>1 DEF Pending
    <3>. QED
      BY <2>1, <3>1 DEF IInv, Separate, Order, FewReceipts, HasRow, AtRest
  <2>. QED
    BY <2>2, <2>3 DEF IInv
<1>. QED
  BY <1>1, <1>2

\* Every agenda stays one of the handlers' own, an effect on the board is the
\* effect of a step that was added, owners and conditions are kept apart, the
\* question is asked at most once, and no continuation has more receipts than
\* there are processes and deaths of processes: each process records at most
\* one before it accepts, and one that dies may do so again (on_receipt, which
\* tests the state it was given and not the one it writes to).
THEOREM Inductive == Spec => []IInv
<1>1. Init => IInv
  BY InitHolds
<1>2. IInv /\ [Next]_vars => IInv'
  BY NextKeeps
<1>. QED
  BY <1>1, <1>2, PTL DEF Spec

\* Every step keeps the types: in particular the version that on_receipt gives
\* to a receipt, which add_owner_receipt counts without a limit, stays within
\* the versions this module has keys for.
THEOREM TypeCorrect == Spec => []TypeOK
<1>1. IInv => TypeOK
  BY DEF IInv
<1>. QED
  BY <1>1, Inductive, PTL

-----------------------------------------------------------------------------
(***************************************************************************)
(* The question is asked once.                                             *)
(***************************************************************************)

\* plan writes "waiting_owner" only for the instance it created, which has no
\* receipt then: whatever is ingested again, and however stale the read of a
\* transition is, an answered continuation is never offered to its owner again.
THEOREM AnsweredStaysAnswered == Spec => AnsweredIsNotReopened
<1>. DEFINE Reopens == \E c \in Conts : receipts[c] > 0 /\ inst'[c] = "waiting_owner" /\ inst[c] # "waiting_owner"
<1>1. IInv /\ [Next]_vars => ~ Reopens
  <2>. SUFFICES ASSUME IInv, [Next]_vars, NEW c \in Conts,
                       receipts[c] > 0, inst'[c] = "waiting_owner", inst[c] # "waiting_owner"
                PROVE  FALSE
    OBVIOUS
  <2>1. inst' # inst /\ Next
    BY DEF vars, store
  <2>2. ASSUME NEW p \in Workers, NEW d \in Conts, Ingest(p, d) PROVE FALSE
    <3>1. inst' = inst \/ inst' = [inst EXCEPT ![d] = "detected"]
      BY <2>2 DEF Ingest
    <3>. QED
      BY <3>1 DEF IInv, TypeOK
  <2>3. ASSUME NEW p \in Procs, MoveWrite(p) PROVE FALSE
    <3>1. /\ todo[p] # << >> /\ Head(todo[p]).do = "write"
          /\ inst' = [inst EXCEPT ![on[p]] = Head(todo[p]).what]
      BY <2>3, MoveWriteTurns
    <3>2. on[p] = c /\ Head(todo[p]).what = "waiting_owner"
      BY <3>1 DEF IInv, TypeOK
    <3>3. Asking(todo[p])
      BY <3>1, <3>2, Busy, HeadTells DEF Moving
    <3>4. inst[c] = "detected" /\ receipts[c] = 0
      BY <3>1, <3>2, <3>3, OrderTells
    <3>. QED
      BY <3>4
  <2>4. ASSUME NEW p \in Procs, Execute(p), ~ MoveWrite(p) PROVE FALSE
    BY <2>1, <2>4 DEF Execute, MoveRead, AddStep, Enqueue, Call, MarkApplied, MarkFailed, MarkStep,
       Receive, AddReceipt, CloseAnchor, OpenCase, Register, Judge, Pass, store
  <2>5. ASSUME NEW p \in Procs, NEW d \in Conts,
               \/ Crash(p) \/ Submit(p, d) \/ Reply(p, d) \/ Replay(p, d) \/ Poll(p, d)
               \/ \E verdict \in { "GO", "BLOCK" } :
                    AdvanceAfterMaterialization(p, d, verdict) \/ AdvanceAfterReview(p, d, verdict)
        PROVE  FALSE
    BY <2>1, <2>5 DEF Crash, Submit, Reply, Replay, Poll, AdvanceAfterMaterialization, AdvanceAfterReview, store
  <2>. QED
    BY <2>1, <2>2, <2>3, <2>4, <2>5, NextTells
<1>2. ~ Reopens => [\A c \in Conts :
                      receipts[c] > 0 /\ inst'[c] = "waiting_owner" => inst[c] = "waiting_owner"]_vars
  OBVIOUS
<1>3. IInv /\ [Next]_vars => [\A c \in Conts :
                      receipts[c] > 0 /\ inst'[c] = "waiting_owner" => inst[c] = "waiting_owner"]_vars
  BY <1>1, <1>2
<1>. QED
  BY <1>3, Inductive, PTL DEF Spec, AnsweredIsNotReopened

-----------------------------------------------------------------------------
(***************************************************************************)
(* Work follows the receipt.                                               *)
(***************************************************************************)

\* What must be there before an effect is put on the board.
Warranted(c, k) ==
  /\ k[1] = "materialization" => receipts[c] > 0
  /\ k[1] = "review" => OnBoard(c, "materialization")
  /\ k[1] = "packet_rerun" => OnBoard(c, "review")
  /\ k[1] = "complete_owner_anchor" => k[2] <= receipts[c] /\ OnBoard(c, "owner_anchor")

\* ... and while agenda s of continuation c leads to it.
Founded(c, s) ==
  /\ Accepting(s) \/ Closing(s) \/ Materializing(s) => receipts[c] > 0
  /\ Accepting(s) /\ Closing(Tail(s)) => Head(Tail(s)).v <= receipts[c]
  /\ Closing(s) => Head(s).v <= receipts[c]
  /\ ToReview(s) \/ Reviewing(s) => OnBoard(c, "materialization")
  /\ Resuming(s) \/ Rerunning(s) => OnBoard(c, "review")
  /\ Head(s).do \in { "op", "call", "applied", "failed" } => Warranted(c, Key(Head(s)))

\* Whoever was told that the effect is there is right.
Backed(c, s) ==
  /\ Founded(c, s)
  /\ Head(s).do \in { "applied", "task" } => << c, Key(Head(s)) >> \in board

WInv ==
  /\ \A c \in Conts, k \in Keys :
       /\ HasRow(c, k) \/ << c, k >> \in board => Warranted(c, k)
       /\ outbox[c][k].state = "applied" => << c, k >> \in board
  /\ \A c \in Conts, k \in StepKinds : << c, k >> \in stepTask => OnBoard(c, k)
  /\ \A p \in Procs : todo[p] # << >> => Backed(on[p], todo[p])

\* Which place an item is left for.
LEMMA AfterHead ==
  ASSUME NEW s, OwnerAgenda(s) \/ WaitAgenda(s), NEW t, t # << >>, Dropped(s, t)
  PROVE  /\ Closing(t) => Accepting(s) /\ t = Tail(s)
         /\ Materializing(t) => Accepting(s) \/ Closing(s)
         /\ Reviewing(t) => ToReview(s)
         /\ Rerunning(t) => Resuming(s)
         /\ ~ Accepting(t) /\ ~ ToReview(t) /\ ~ Resuming(t)
         /\ Head(t).do \in Working \ { "step" } => Head(t).do = "op" /\ Head(t).what = "subscribe"
<1>1. Fresh(t) /\ ~ Accepting(t)
  BY DroppedPlace
<1>2. CASE t = Tail(s)
  <2>1. Planning(s) \/ Receiving(s) => Planning(t) /\ ~ Replaying(t)
    <3>1. Planning(s) \/ Receiving(s) => Planning(t)
      BY <1>2, NextPlace
    <3>2. Replaying(t) => Head(t).do \in { "call", "applied", "failed", "task" }
      BY PlaceTells
    <3>. QED
      BY <1>1, <3>1, <3>2 DEF Fresh
  <2>2. Asking(s) => Casing(t) \/ Receiving(t)
    BY <1>2 DEF Asking
  <2>3. Receipting(s) \/ Materialized(s) => Passing(t)
    BY <1>2 DEF Receipting, Materialized, Ending
  <2>4. Materializing(s) => Materialized(t)
    BY <1>2 DEF Materializing
  <2>5. Closing(s) => Materializing(t)
    BY <1>2 DEF Closing
  <2>6. Accepting(s) => Closing(t) \/ Materializing(t)
    BY <1>2 DEF Accepting
  <2>7. ToReview(s) => Reviewing(t)
    BY <1>2 DEF ToReview
  <2>8. Resuming(s) => Rerunning(t)
    BY <1>2 DEF Resuming
  <2>9. Rerunning(s) \/ Satisfying(s) => Resumed(t)
    BY <1>2 DEF Rerunning, Satisfying
  <2>10. ~ Reviewing(s) /\ ~ Resumed(s) /\ ~ Failing(s) /\ ~ Judging(s) /\ ~ Passing(s)
    BY <1>2 DEF Reviewing, Resumed, Failing, Judging, Passing
  <2>11. Registering(s) \/ Conditioning(s) => Conditioning(t) \/ Passing(t)
    BY <1>2 DEF Registering, Conditioning
  <2>12. \/ Casing(t) \/ Anchoring(t) \/ Subscribing(t) \/ Passing(t) \/ Receiving(t) \/ Materialized(t)
         \/ Resumed(t) \/ Conditioning(t)
         => /\ ~ Closing(t) /\ ~ Materializing(t) /\ ~ Reviewing(t) /\ ~ Rerunning(t)
            /\ ~ ToReview(t) /\ ~ Resuming(t)
    BY PlaceTells DEF Moving, Working
  <2>13. \/ Closing(t) \/ Materializing(t) \/ Reviewing(t) \/ Rerunning(t)
         => ~ ToReview(t) /\ ~ Resuming(t)
    BY PlaceTells DEF Moving, Working
  <2>14. /\ Closing(t) => ~ Materializing(t) /\ ~ Reviewing(t) /\ ~ Rerunning(t)
         /\ Materializing(t) => ~ Reviewing(t) /\ ~ Rerunning(t)
         /\ Reviewing(t) => ~ Rerunning(t)
    BY PlaceTells DEF Working
  <2>. QED
    BY <1>1, <1>2, <2>1, <2>2, <2>3, <2>4, <2>5, <2>6, <2>7, <2>8, <2>9, <2>10, <2>11, <2>12, <2>13, <2>14
       DEF OwnerAgenda, WaitAgenda, Open, Planning, Answered, Verdict, Fresh, Working
<1>3. CASE t # Tail(s)
  <2>1. Passing(t)
    BY <1>3, OnlyAnchorsSubscribe DEF Dropped, Subscribing
  <2>. QED
    BY <1>1, <2>1, PlaceTells DEF Moving, Working
<1>. QED
  BY <1>2, <1>3

\* Receipts and effects only become more.
LEMMA OnlyMore ==
  ASSUME IInv, IInv', Next
  PROVE  board \subseteq board' /\ \A c \in Conts : receipts[c] \in Nat /\ receipts'[c] \in Nat /\ receipts[c] <= receipts'[c]
<1>1. receipts \in [Conts -> Nat] /\ receipts' \in [Conts -> Nat]
  BY BoundsAreTyped DEF IInv, TypeOK
<1>2. ASSUME NEW p \in Procs, AddReceipt(p) PROVE \A c \in Conts : receipts[c] <= receipts'[c]
  <2>1. receipts' = [receipts EXCEPT ![on[p]] = receipts[on[p]] + 1]
    BY <1>2, AddReceiptTurns
  <2>. QED
    BY <1>1, <2>1
<1>3. receipts' = receipts \/ \E p \in Procs : AddReceipt(p)
  BY NextTells DEF Ingest, Submit, Reply, Replay, Poll, AdvanceAfterMaterialization, AdvanceAfterReview, Crash,
     Execute, MoveRead, MoveWrite, AddStep, Enqueue, Call, MarkApplied, MarkFailed, MarkStep,
     Receive, CloseAnchor, OpenCase, Register, Judge, Pass, store
<1>4. board \subseteq board'
  BY NextTells DEF Ingest, Submit, Reply, Replay, Poll, AdvanceAfterMaterialization, AdvanceAfterReview, Crash,
     Begin, Execute, MoveRead, MoveWrite, AddStep, Enqueue, Call, MarkApplied, MarkFailed, MarkStep,
     Receive, AddReceipt, CloseAnchor, OpenCase, Register, Judge, Pass
<1>. QED
  BY <1>1, <1>2, <1>3, <1>4

\* What was warranted, and backed, remains so.
LEMMA StillWarranted ==
  ASSUME IInv, IInv', Next, NEW c \in Conts, NEW k \in Keys, Warranted(c, k)
  PROVE  Warranted(c, k)'
<1>1. k[2] \in Nat
  BY BoundsAreTyped DEF Keys
<1>2. receipts[c] \in Nat /\ receipts'[c] \in Nat /\ receipts[c] <= receipts'[c] /\ board \subseteq board'
  BY OnlyMore
<1>. QED
  BY <1>1, <1>2 DEF Warranted, OnBoard

\* An item carries a number.
LEMMA VersionsAreNumbers ==
  ASSUME NEW i \in Items
  PROVE  i.v \in Nat
<1>1. i.v \in 0 .. MaxReceipts
  BY DEF Items
<1>. QED
  BY <1>1, BoundsAreTyped

LEMMA StillFounded ==
  ASSUME IInv, IInv', Next, NEW c \in Conts, NEW s \in Seq(Items), s # << >>,
         OwnerAgenda(s) \/ WaitAgenda(s), Founded(c, s)
  PROVE  Founded(c, s)' /\ board \subseteq board'
<1>1. receipts[c] \in Nat /\ receipts'[c] \in Nat /\ receipts[c] <= receipts'[c] /\ board \subseteq board'
  BY OnlyMore
<1>2. Accepting(s) \/ Closing(s) \/ Materializing(s) => receipts'[c] > 0
  BY <1>1 DEF Founded
<1>3. Closing(s) => Head(s).v <= receipts'[c]
  <2>1. Head(s).v \in Nat
    BY HeadAndTail, VersionsAreNumbers
  <2>. QED
    BY <1>1, <2>1 DEF Founded
<1>4. Accepting(s) /\ Closing(Tail(s)) => Head(Tail(s)).v <= receipts'[c]
  <2>. DEFINE r == Tail(s)
              v == Head(r).v
  <2>1. Closing(r) => r # << >> /\ r \in Seq(Items)
    BY HeadAndTail DEF Closing, Does, Works, Stands
  <2>2. Closing(r) => Head(r) \in Items
    BY <2>1, HeadAndTail
  <2>3. Closing(r) => v \in Nat
    BY <2>2, VersionsAreNumbers
  <2>4. Accepting(s) /\ Closing(r) => v <= receipts[c]
    BY DEF Founded
  <2>. HIDE DEF v
  <2>5. Accepting(s) /\ Closing(r) => v <= receipts'[c]
    BY <1>1, <2>3, <2>4
  <2>. QED
    BY <2>5 DEF v
<1>5. Head(s).do \in { "op", "call", "applied", "failed" } => Warranted(c, Key(Head(s)))'
  BY StillWarranted, WorkTells DEF Founded, Working
<1>. QED
  BY <1>1, <1>2, <1>3, <1>4, <1>5 DEF Founded, OnBoard

\* A step that ends an item.
LEMMA DroppedIsBacked ==
  ASSUME NEW c, NEW s, OwnerAgenda(s) \/ WaitAgenda(s), Backed(c, s), NEW t, t # << >>, Dropped(s, t)
  PROVE  Backed(c, t)
<1>1. /\ Closing(t) => Accepting(s) /\ t = Tail(s)
      /\ Materializing(t) => Accepting(s) \/ Closing(s)
      /\ Reviewing(t) => ToReview(s)
      /\ Rerunning(t) => Resuming(s)
      /\ ~ Accepting(t) /\ ~ ToReview(t) /\ ~ Resuming(t)
      /\ Head(t).do \in Working \ { "step" } => Head(t).do = "op" /\ Head(t).what = "subscribe"
  BY AfterHead
<1>2. Head(t).do \in { "op", "call", "applied", "failed", "task" } => Head(t).do = "op" /\ Warranted(c, Key(Head(t)))
  BY <1>1 DEF Working, Warranted, Key
<1>. QED
  BY <1>1, <1>2 DEF Backed, Founded

\* A step that goes on with the item.
LEMMA RewrittenIsFounded ==
  ASSUME NEW c, NEW s, OwnerAgenda(s) \/ WaitAgenda(s), Founded(c, s), s # << >>, NEW t, Rewritten(s, t),
         Head(t).do \in { "op", "call", "applied", "failed" } => Warranted(c, Key(Head(s)))
  PROVE  /\ Founded(c, t)
         /\ Head(t).do \in Working => Key(Head(t)) = Key(Head(s))
<1>1. /\ Accepting(t) <=> Accepting(s)
      /\ Closing(t) <=> Closing(s)
      /\ Materializing(t) <=> Materializing(s)
      /\ ToReview(t) <=> ToReview(s)
      /\ Reviewing(t) <=> Reviewing(s)
      /\ Resuming(t) <=> Resuming(s)
      /\ Rerunning(t) <=> Rerunning(s)
      /\ Tail(t) = Tail(s)
  BY SamePlace DEF Rewritten
<1>2. /\ Head(t).do \in Working => Key(Head(t)) = Key(Head(s)) /\ Head(t).v = Head(s).v
      /\ Head(s).do = "close" => ~ Rewritten(s, t)
  BY DEF Rewritten, Moving, Working, Key
<1>3. Closing(t) => Head(t).do \in Working
  BY <1>1, <1>2, PlaceTells DEF Rewritten, Moving, Working
<1>. QED
  BY <1>1, <1>2, <1>3 DEF Founded, Working

\* What is on the board, on its way to it, or known of it, is warranted.
LEMMA ExecuteWarrants ==
  ASSUME IInv, IInv', WInv, Next, NEW p \in Procs, Execute(p)
  PROVE  /\ \A c \in Conts, k \in Keys :
              /\ HasRow(c, k)' \/ << c, k >> \in board' => Warranted(c, k)'
              /\ outbox'[c][k].state = "applied" => << c, k >> \in board'
         /\ \A c \in Conts, k \in StepKinds : << c, k >> \in stepTask' => OnBoard(c, k)'
<1>. DEFINE s == todo[p]
<1>1. s # << >> /\ on[p] \in Conts /\ (OwnerAgenda(s) \/ WaitAgenda(s))
  BY ExecuteTurns, Busy
<1>2. Backed(on[p], s)
  BY <1>1 DEF WInv
<1>3. board \subseteq board'
  BY OnlyMore
<1>4. ASSUME NEW c \in Conts, NEW k \in Keys, HasRow(c, k)' \/ << c, k >> \in board' PROVE Warranted(c, k)'
  <2>1. CASE HasRow(c, k) \/ << c, k >> \in board
    BY <2>1, StillWarranted DEF WInv
  <2>2. CASE ~ HasRow(c, k) /\ HasRow(c, k)'
    <3>1. outbox'[c][k] # outbox[c][k]
      BY <2>2 DEF HasRow
    <3>2. c = on[p] /\ k = Key(Head(s)) /\ Head(s).do \in { "op", "applied", "failed" }
      BY <3>1, ExecuteWrites
    <3>. QED
      BY <1>2, <3>2, StillWarranted DEF Backed, Founded
  <2>3. CASE << c, k >> \notin board /\ << c, k >> \in board'
    <3>1. Call(p)
      BY <2>3 DEF Execute, MoveRead, MoveWrite, AddStep, Enqueue, MarkApplied, MarkFailed,
         MarkStep, Receive, AddReceipt, CloseAnchor, OpenCase, Register, Judge, Pass
    <3>2. c = on[p] /\ k = Key(Head(s)) /\ Head(s).do = "call"
      BY <2>3, <3>1, CallTurns
    <3>. QED
      BY <1>2, <3>2, StillWarranted DEF Backed, Founded
  <2>. QED
    BY <1>4, <2>1, <2>2, <2>3
<1>5. ASSUME NEW c \in Conts, NEW k \in Keys, outbox'[c][k].state = "applied" PROVE << c, k >> \in board'
  <2>1. CASE outbox[c][k].state = "applied"
    BY <1>3, <2>1 DEF WInv
  <2>2. CASE outbox[c][k].state # "applied"
    <3>1. outbox'[c][k] # outbox[c][k]
      BY <1>5, <2>2
    <3>2. c = on[p] /\ k = Key(Head(s)) /\ Head(s).do = "applied"
      BY <1>5, <2>2, <3>1, ExecuteWrites
    <3>. QED
      BY <1>2, <1>3, <3>2 DEF Backed
  <2>. QED
    BY <2>1, <2>2
<1>6. ASSUME NEW c \in Conts, NEW k \in StepKinds, << c, k >> \in stepTask' PROVE OnBoard(c, k)'
  <2>1. CASE << c, k >> \in stepTask
    BY <1>3, <2>1 DEF WInv, OnBoard
  <2>2. CASE << c, k >> \notin stepTask
    <3>1. MarkStep(p)
      BY <1>6, <2>2 DEF Execute, MoveRead, MoveWrite, AddStep, Enqueue, Call, MarkApplied, MarkFailed,
         Receive, AddReceipt, CloseAnchor, OpenCase, Register, Judge, Pass, store
    <3>2. Head(s).do = "task" /\ stepTask' = stepTask \union {<< on[p], Head(s).what >>}
      BY <3>1, MarkTurns
    <3>3. c = on[p] /\ Head(s).what = k
      BY <1>6, <2>2, <3>2
    <3>4. Key(Head(s)) = << k, 0 >>
      BY <1>1, <3>2, <3>3, WorkTells DEF Working
    <3>. QED
      BY <1>2, <1>3, <3>2, <3>3, <3>4 DEF Backed, OnBoard
  <2>. QED
    BY <2>1, <2>2
<1>. QED
  BY <1>4, <1>5, <1>6

\* A step is added, and an effect enqueued, only when it is warranted.
LEMMA StepIsWarranted ==
  ASSUME IInv, NEW p \in Procs, todo[p] # << >>, Head(todo[p]).do = "step", Founded(on[p], todo[p])
  PROVE  Warranted(on[p], Key(Head(todo[p])))
<1>. DEFINE s == todo[p]
            k == Head(s).what
<1>1. k \in StepKinds /\ Key(Head(s)) = << k, 0 >>
  BY Busy, WorkTells DEF Working
<1>2. \/ k \in { "owner_anchor", "subscribe" }
      \/ k = "complete_owner_anchor"
      \/ k = "materialization" /\ Materializing(s)
      \/ k = "review" /\ Reviewing(s)
      \/ k = "packet_rerun" /\ Rerunning(s)
  BY Busy, HeadTells
<1>. QED
  BY <1>1, <1>2 DEF Warranted, Founded, StepKinds

\* Where the process goes on, it is backed as well.
LEMMA ExecuteBacks ==
  ASSUME IInv, IInv', WInv, Next, NEW p \in Procs, Execute(p),
         NEW c \in Conts, c = on[p], NEW t, todo'[p] = t, t # << >>, on'[p] = c, t \in Seq(Items)
  PROVE  Backed(c, t)'
<1>. DEFINE s == todo[p]
<1>1. s # << >> /\ (OwnerAgenda(s) \/ WaitAgenda(s)) /\ s \in Seq(Items)
  BY ExecuteTurns, Busy
<1>2. Backed(c, s) /\ Founded(c, s)
  BY <1>1 DEF WInv, Backed
<1>3. OwnerAgenda(t) \/ WaitAgenda(t)
  BY OwnerAssumption DEF IInv, Doing, Idle
<1>4. \A u : Goes(p, u) => u = t
  BY GoesAlone
<1>5. ASSUME Backed(c, t) PROVE Backed(c, t)'
  BY <1>3, <1>5, StillFounded DEF Backed
<1>6. Dropped(s, t) => Backed(c, t)
  BY <1>1, <1>2, DroppedIsBacked
<1>7. ASSUME Rewritten(s, t), Head(t).do \in { "op", "call", "applied", "failed" } => Warranted(c, Key(Head(s))),
             Head(t).do \in { "applied", "task" } => << c, Key(Head(s)) >> \in board'
      PROVE  Backed(c, t)'
  <2>1. Founded(c, t) /\ (Head(t).do \in Working => Key(Head(t)) = Key(Head(s)))
    BY <1>1, <1>2, <1>7, RewrittenIsFounded
  <2>2. Founded(c, t)'
    BY <1>3, <2>1, StillFounded
  <2>. QED
    BY <1>7, <2>1, <2>2 DEF Backed, Working
<1>8. CASE MoveRead(p)
  BY <1>4, <1>5, <1>6, <1>7, <1>8, MoveReadTurns DEF Dropped
<1>9. CASE MoveWrite(p) \/ OpenCase(p) \/ Register(p) \/ Pass(p)
  BY <1>4, <1>5, <1>6, <1>9, MoveWriteTurns, OneTurns DEF Dropped
<1>10. CASE AddStep(p)
  <2>1. Head(s).do = "step"
    BY <1>10, AddStepTurns
  <2>2. Warranted(c, Key(Head(s)))
    BY <1>1, <1>2, <2>1, StepIsWarranted
  <2>. QED
    BY <1>4, <1>5, <1>6, <1>7, <1>10, <2>2, AddStepTurns
<1>11. CASE Enqueue(p)
  <2>. DEFINE k == Key(Head(s))
  <2>1. Head(s).do = "op" /\ k \in Keys
    BY <1>11, EnqueueTurns
  <2>2. Warranted(c, k)
    BY <1>2, <2>1 DEF Founded
  <2>3. Enqueued(outbox[c][k]).state = "applied" => << c, k >> \in board'
    <3>1. outbox[c][k] \in Row
      BY <2>1 DEF IInv, TypeOK
    <3>2. Enqueued(outbox[c][k]).state = "applied" => outbox[c][k].state = "applied"
      BY <3>1, RowsAreTyped
    <3>. QED
      BY <2>1, <3>2, OnlyMore DEF WInv
  <2>. HIDE DEF k
  <2>4. \/ Rewritten(s, t) /\ Head(t).do = "call"
        \/ Rewritten(s, t) /\ Head(t).do = "task" /\ Enqueued(outbox[c][k]).state = "applied"
        \/ Dropped(s, t)
    BY <1>4, <1>11, EnqueueTurns DEF k
  <2>. QED
    BY <1>5, <1>6, <1>7, <2>2, <2>3, <2>4 DEF k
<1>12. CASE Call(p)
  <2>1. Head(s).do = "call" /\ Rewritten(s, t)
        /\ \/ Head(t).do = "applied" /\ board' = board \union {<< c, Key(Head(s)) >>}
           \/ Head(t).do = "failed"
    BY <1>4, <1>12, CallTurns
  <2>. QED
    BY <1>2, <1>7, <2>1 DEF Founded
<1>13. CASE MarkApplied(p) \/ MarkFailed(p) \/ MarkStep(p)
  <2>1. \/ Rewritten(s, t) /\ Head(t).do = "task" /\ MarkApplied(p)
        \/ Dropped(s, t)
    BY <1>4, <1>13, MarkTurns
  <2>2. MarkApplied(p) => << c, Key(Head(s)) >> \in board'
    BY <1>2, OnlyMore DEF MarkApplied, At, Backed
  <2>. QED
    BY <1>5, <1>6, <1>7, <2>1, <2>2
<1>14. ASSUME Receipting(t) \/ Satisfying(t) \/ Failing(t) PROVE Backed(c, t)
  <2>1. /\ ~ Accepting(t) /\ ~ Closing(t) /\ ~ Materializing(t) /\ ~ ToReview(t) /\ ~ Reviewing(t) /\ ~ Rerunning(t)
        /\ Head(t).do \notin Working
    BY <1>14, PlaceTells DEF Moving, Working
  <2>2. ~ Resuming(t)
    <3>1. Satisfying(t) => ~ Rerunning(Tail(t))
      BY PlaceTells DEF Satisfying, Moving, Working
    <3>. QED
      BY <1>14, <3>1, PlaceTells DEF Resuming, Moving
  <2>. QED
    BY <2>1, <2>2 DEF Backed, Founded, Working
<1>15. CASE Receive(p)
  BY <1>4, <1>5, <1>6, <1>14, <1>15, ReceiveTurns DEF Dropped
<1>16. CASE Judge(p)
  BY <1>4, <1>5, <1>14, <1>16, JudgeTurns
<1>17. CASE AddReceipt(p)
  <2>1. /\ receipts[c] \in Nat /\ receipts' = [receipts EXCEPT ![c] = receipts[c] + 1]
        /\ Accepting(t) /\ (Closing(Tail(t)) => Head(Tail(t)).v = receipts[c] + 1)
    BY <1>4, <1>17, AddReceiptTurns
  <2>2. receipts'[c] = receipts[c] + 1
    BY <2>1 DEF IInv, TypeOK
  <2>3. /\ ~ Closing(t) /\ ~ ToReview(t) /\ ~ Reviewing(t) /\ ~ Resuming(t) /\ ~ Rerunning(t)
        /\ Head(t).do \notin Working
    BY <2>1, PlaceTells DEF Moving, Working
  <2>4. Closing(Tail(t)) => Head(Tail(t)).v <= receipts'[c]
    <3>. DEFINE v == Head(Tail(t)).v
    <3>1. Closing(Tail(t)) => v = receipts[c] + 1
      BY <2>1
    <3>. HIDE DEF v
    <3>2. Closing(Tail(t)) => v <= receipts'[c]
      BY <2>1, <2>2, <3>1
    <3>. QED
      BY <3>2 DEF v
  <2>5. receipts'[c] > 0
    BY <2>1, <2>2
  <2>. QED
    BY <2>3, <2>4, <2>5 DEF Backed, Founded, Working
<1>18. CASE CloseAnchor(p)
  <2>1. CASE t = Tail(s)
    BY <1>5, <1>6, <2>1 DEF Dropped
  <2>2. CASE t # Tail(s)
    <3>. DEFINE v == Head(s).v
                i == Op("complete_owner_anchor", v)
    <3>1. Closing(s) /\ Closing(t) /\ Head(t) = i /\ << c, "owner_anchor" >> \in stepTask
      BY <1>4, <1>18, <2>2, CloseTurns
    <3>2. i.do = "op" /\ i.v = v /\ Key(i) = << "complete_owner_anchor", v >>
      BY DEF Op, Item, Key
    <3>3. v <= receipts[c] /\ receipts[c] > 0
      BY <1>2, <3>1 DEF Founded
    <3>4. OnBoard(c, "owner_anchor")
      BY <3>1 DEF WInv, StepKinds
    <3>. HIDE DEF v, i
    <3>5. Warranted(c, Key(i))
      BY <3>2, <3>3, <3>4 DEF Warranted
    <3>6. /\ ~ Accepting(t) /\ ~ ToReview(t) /\ ~ Reviewing(t) /\ ~ Resuming(t) /\ ~ Rerunning(t)
      BY <3>1, PlaceTells DEF Moving, Working
    <3>7. Backed(c, t)
      BY <3>1, <3>2, <3>3, <3>5, <3>6 DEF Backed, Founded
    <3>. QED
      BY <1>5, <3>7
  <2>. QED
    BY <2>1, <2>2
<1>. QED
  BY <1>8, <1>9, <1>10, <1>11, <1>12, <1>13, <1>15, <1>16, <1>17, <1>18 DEF Execute

\* A handler begins with what its guard read.
LEMMA BeginsBacked ==
  ASSUME IInv, WInv, NEW p \in Procs, NEW c \in Conts,
         \/ p \in Workers /\ Ingest(p, c)
         \/ Submit(p, c) \/ Reply(p, c) \/ Replay(p, c) \/ Poll(p, c)
         \/ \E verdict \in { "GO", "BLOCK" } :
              AdvanceAfterMaterialization(p, c, verdict) \/ AdvanceAfterReview(p, c, verdict)
  PROVE  \E a \in Seq(Items) : /\ a # << >> /\ Begin(p, c, a) /\ Founded(c, a)
                               /\ Head(a).do \notin { "applied", "task" }
<1>1. ASSUME NEW a \in Seq(Items), Begin(p, c, a),
             \/ Asking(a) \/ Casing(a) \/ Receiving(a) \/ Passing(a) \/ Receipting(a)
             \/ Registering(a) \/ Judging(a) \/ Failing(a)
      PROVE  \E u \in Seq(Items) : /\ u # << >> /\ Begin(p, c, u) /\ Founded(c, u)
                                   /\ Head(u).do \notin { "applied", "task" }
  <2>1. /\ ~ Accepting(a) /\ ~ Closing(a) /\ ~ Materializing(a) /\ ~ ToReview(a) /\ ~ Reviewing(a)
        /\ ~ Resuming(a) /\ ~ Rerunning(a) /\ Head(a).do \notin Working
    BY <1>1, PlaceTells DEF Moving, Working
  <2>2. a # << >>
    BY <1>1 DEF Asking, Casing, Receiving, Passing, Receipting, Registering, Judging, Failing, Moves, Does, Stands
  <2>. QED
    BY <1>1, <2>1, <2>2 DEF Founded, Working
<1>2. CASE Ingest(p, c)
  <2>. DEFINE e == << Plain("pass") >>
              fresh == inst[c] = "none"
              W == (IF fresh THEN << Move("materializing"), Plain("condition") >> ELSE << >>) \o e
              H0 == IF fresh THEN << Plain("receive") >>
                    ELSE IF inst[c] = "waiting_owner" THEN << Item("receive", "waiting_owner", 0) >>
                    ELSE << >>
              A == (IF fresh THEN << Move("waiting_owner") >> ELSE << >>) \o Ask(c) \o e
              R == (IF fresh THEN << Move("waiting_owner") >> ELSE << >>) \o H0 \o e
  <2>1. Begin(p, c, W) \/ Begin(p, c, A) \/ Begin(p, c, R)
    BY <1>2 DEF Ingest
  <2>2. e \in Seq(Items) /\ Passing(e)
    BY PassAgenda
  <2>3. W \in Seq(Items) /\ (Registering(W) \/ Passing(W))
    BY <2>2, WaitAgendas
  <2>4. A \in Seq(Items) /\ (Asking(A) \/ Casing(A))
    BY OwnerAgendas
  <2>5. R \in Seq(Items) /\ (Asking(R) \/ Receiving(R) \/ Passing(R))
    <3>1. CASE fresh
      BY <3>1, OwnerAgendas
    <3>2. CASE inst[c] = "waiting_owner"
      BY <3>2, OwnerAgendas
    <3>3. CASE ~ fresh /\ inst[c] # "waiting_owner"
      BY <2>2, <3>3, OwnerAgendas
    <3>. QED
      BY <3>1, <3>2, <3>3
  <2>. HIDE DEF W, A, R
  <2>. QED
    BY <1>1, <2>1, <2>3, <2>4, <2>5
<1>3. CASE Submit(p, c) \/ Reply(p, c)
  BY <1>1, <1>3, ReceiptAgenda DEF Submit, Reply
<1>4. CASE Poll(p, c)
  <2>. DEFINE a == << Plain("judge") >>
  <2>1. a \in Seq(Items) /\ Judging(a) /\ Begin(p, c, a)
    BY <1>4, WaitAgendas DEF Poll
  <2>. HIDE DEF a
  <2>. QED
    BY <1>1, <2>1
<1>5. CASE Replay(p, c)
  <2>1. PICK k \in Keys : Retryable(outbox[c][k]) /\ Begin(p, c, << Item("call", k[1], k[2]) >>)
    BY <1>5 DEF Replay
  <2>. DEFINE i == Item("call", k[1], k[2])
              a == << i >>
  <2>2. a \in Seq(Items) /\ Replaying(a) /\ Head(a) = i /\ Key(Head(a)) = k
    BY VerdictAgendas
  <2>3. i.do = "call" /\ i.what = k[1]
    BY DEF Item
  <2>4. Warranted(c, k)
    BY <2>1 DEF Retryable, HasRow, WInv
  <2>5. Begin(p, c, a)
    BY <2>1
  <2>. HIDE DEF a, i
  <2>6. a # << >> /\ Tail(a) = << >>
    BY <2>2, NotOver DEF OwnerAgenda, Open, Planning, Replaying
  <2>7. ~ Accepting(a) /\ ~ ToReview(a) /\ ~ Resuming(a)
    BY <2>2, <2>3, PlaceTells DEF Moving
  <2>8. ~ Closing(a) /\ ~ Materializing(a) /\ ~ Rerunning(a)
    BY <2>6 DEF Closing, Materializing, Materialized, Rerunning, Resumed, Moves, Works, Stands
  <2>9. Reviewing(a) => OnBoard(c, "materialization")
    <3>1. Reviewing(a) => k[1] = "review"
      BY <2>2, <2>3, PlaceTells
    <3>. QED
      BY <2>4, <3>1 DEF Warranted
  <2>. QED
    BY <2>2, <2>3, <2>4, <2>5, <2>6, <2>7, <2>8, <2>9 DEF Founded
<1>6. CASE \E verdict \in { "GO", "BLOCK" } :
             AdvanceAfterMaterialization(p, c, verdict) \/ AdvanceAfterReview(p, c, verdict)
  <2>. DEFINE w == << Move("waiting_review"), Step("review") >>
              r == << Move("resumable"), Step("packet_rerun"), Move("resumed") >>
              f == << Move("failed_retryable") >>
  <2>1. w \in Seq(Items) /\ ToReview(w) /\ r \in Seq(Items) /\ Resuming(r) /\ f \in Seq(Items) /\ Failing(f)
    BY VerdictAgendas
  <2>2. \/ Begin(p, c, w) /\ OnBoard(c, "materialization")
        \/ Begin(p, c, r) /\ OnBoard(c, "review")
        \/ Begin(p, c, f)
    BY <1>6 DEF AdvanceAfterMaterialization, AdvanceAfterReview, OnBoard
  <2>. HIDE DEF w, r, f
  <2>3. /\ w # << >> /\ ~ Accepting(w) /\ ~ Closing(w) /\ ~ Materializing(w) /\ ~ Resuming(w) /\ ~ Rerunning(w)
        /\ Head(w).do \notin Working
    BY <2>1, PlaceTells DEF Moving, Working, ToReview, Moves, Stands
  <2>4. /\ r # << >> /\ ~ Accepting(r) /\ ~ Closing(r) /\ ~ Materializing(r) /\ ~ ToReview(r) /\ ~ Reviewing(r)
        /\ Head(r).do \notin Working
    BY <2>1, PlaceTells DEF Moving, Working, Resuming, Moves, Stands
  <2>5. OnBoard(c, "materialization") => Founded(c, w)
    BY <2>3 DEF Founded, Working
  <2>6. OnBoard(c, "review") => Founded(c, r)
    BY <2>4 DEF Founded, Working
  <2>. QED
    BY <1>1, <2>1, <2>2, <2>3, <2>4, <2>5, <2>6 DEF Working
<1>. QED
  BY <1>2, <1>3, <1>4, <1>5, <1>6

\* Warrants are inductive.
LEMMA WorkKeeps ==
  ASSUME IInv, IInv', WInv, [Next]_vars
  PROVE  WInv'
<1>1. ASSUME Next, NEW p \in Procs, Execute(p) PROVE WInv'
  <2>1. PICK t : Goes(p, t)
    BY <1>1, ExecuteTurns
  <2>2. /\ todo'[p] = t /\ on'[p] = (IF t = << >> THEN NoCont ELSE on[p]) /\ t \in Seq(Items)
        /\ \A q \in Procs \ { p } : todo'[q] = todo[q] /\ on'[q] = on[q]
        /\ on[p] \in Conts
    BY <1>1, <2>1, GoesAlone, ExecuteTurns, Busy DEF Goes
  <2>3. ASSUME NEW q \in Procs, todo'[q] # << >> PROVE Backed(on[q], todo[q])'
    <3>1. CASE q = p
      <4>. SUFFICES ASSUME NEW c \in Conts, c = on[p] PROVE Backed(c, t)'
        BY <2>2, <2>3, <3>1
      <4>. QED
        BY <1>1, <2>2, <2>3, <3>1, ExecuteBacks
    <3>2. CASE q # p
      <4>. SUFFICES ASSUME NEW c \in Conts, c = on[q], NEW s \in Seq(Items), s = todo[q] PROVE Backed(c, s)'
        BY <2>2, <2>3, <3>2, Busy
      <4>1. Backed(c, s) /\ s # << >> /\ (OwnerAgenda(s) \/ WaitAgenda(s))
        BY <2>2, <2>3, <3>2, Busy DEF WInv
      <4>. QED
        BY <1>1, <4>1, StillFounded DEF Backed
    <3>. QED
      BY <3>1, <3>2
  <2>. QED
    BY <1>1, <2>3, ExecuteWarrants DEF WInv
<1>2. ASSUME Next, UNCHANGED << outbox, stepTask, board >>,
             \A q \in Procs : \/ todo'[q] = << >>
                              \/ todo'[q] = todo[q] /\ on'[q] = on[q]
                              \/ \E c \in Conts, a \in Seq(Items) : /\ todo'[q] = a /\ on'[q] = c /\ a # << >>
                                                                    /\ Founded(c, a)
                                                                    /\ Head(a).do \notin { "applied", "task" }
      PROVE  WInv'
  <2>1. ASSUME NEW q \in Procs, todo'[q] # << >> PROVE Backed(on[q], todo[q])'
    <3>1. CASE todo'[q] = todo[q] /\ on'[q] = on[q]
      <4>. SUFFICES ASSUME NEW c \in Conts, c = on[q], NEW s \in Seq(Items), s = todo[q] PROVE Backed(c, s)'
        BY <2>1, <3>1, Busy
      <4>1. Backed(c, s) /\ s # << >> /\ (OwnerAgenda(s) \/ WaitAgenda(s))
        BY <2>1, <3>1, Busy DEF WInv
      <4>. QED
        BY <1>2, <4>1, StillFounded DEF Backed
    <3>2. ASSUME NEW c \in Conts, NEW a \in Seq(Items), todo'[q] = a, on'[q] = c, a # << >>,
                 Founded(c, a), Head(a).do \notin { "applied", "task" }
          PROVE  Backed(on[q], todo[q])'
      <4>1. OwnerAgenda(a) \/ WaitAgenda(a)
        BY <3>2, OwnerAssumption DEF IInv, Doing, Idle
      <4>2. Founded(c, a)'
        BY <1>2, <3>2, <4>1, StillFounded
      <4>3. Backed(c, a)'
        BY <3>2, <4>2 DEF Backed
      <4>. QED
        BY <3>2, <4>3
    <3>. QED
      BY <1>2, <2>1, <3>1, <3>2
  <2>2. ASSUME NEW c \in Conts, NEW k \in Keys, HasRow(c, k)' \/ << c, k >> \in board' PROVE Warranted(c, k)'
    BY <1>2, <2>2, StillWarranted DEF WInv, HasRow
  <2>. QED
    BY <1>2, <2>1, <2>2 DEF WInv, OnBoard
<1>3. ASSUME Next, NEW p \in Procs, NEW c \in Conts, NEW a \in Seq(Items), a # << >>, Begin(p, c, a), Founded(c, a),
             Head(a).do \notin { "applied", "task" }, UNCHANGED << outbox, stepTask >>
      PROVE  WInv'
  <2>1. /\ todo'[p] = a /\ on'[p] = c /\ board' = board
        /\ \A q \in Procs \ { p } : todo'[q] = todo[q] /\ on'[q] = on[q]
    BY <1>3, BeginGoes
  <2>. QED
    BY <1>2, <1>3, <2>1
<1>4. ASSUME Next, NEW p \in Procs, NEW c \in Conts,
             \/ p \in Workers /\ Ingest(p, c)
             \/ Submit(p, c) \/ Reply(p, c) \/ Replay(p, c) \/ Poll(p, c)
             \/ \E verdict \in { "GO", "BLOCK" } :
                  AdvanceAfterMaterialization(p, c, verdict) \/ AdvanceAfterReview(p, c, verdict)
      PROVE  WInv'
  <2>1. UNCHANGED << outbox, stepTask >>
    BY <1>4 DEF Ingest, Submit, Reply, Replay, Poll, AdvanceAfterMaterialization, AdvanceAfterReview, store
  <2>. QED
    BY <1>3, <1>4, <2>1, BeginsBacked
<1>5. ASSUME Next, NEW p \in Procs, Crash(p) PROVE WInv'
  <2>1. /\ todo'[p] = << >> /\ board' = board /\ outbox' = outbox /\ stepTask' = stepTask
        /\ \A q \in Procs \ { p } : todo'[q] = todo[q] /\ on'[q] = on[q]
    BY <1>5, CrashGoes DEF store
  <2>. QED
    BY <1>2, <1>5, <2>1
<1>6. CASE UNCHANGED vars
  <2>1. UNCHANGED << receipts, stepTask, outbox, board, on, todo >>
    BY <1>6 DEF vars, store
  <2>2. \A c \in Conts, k \in Keys : Warranted(c, k)' <=> Warranted(c, k)
    BY <2>1 DEF Warranted, OnBoard
  <2>3. ASSUME NEW q \in Procs, todo'[q] # << >>, Backed(on[q], todo[q]) PROVE Backed(on[q], todo[q])'
    BY <2>1, <2>3 DEF Backed, Founded, Warranted, OnBoard
  <2>. QED
    BY <2>1, <2>2, <2>3 DEF WInv, HasRow, OnBoard
<1>. QED
  BY <1>1, <1>4, <1>5, <1>6, NextTells DEF Procs

\* Nothing is on the board yet.
LEMMA WorkBegins == Init => WInv
<1>. SUFFICES ASSUME Init PROVE WInv
  OBVIOUS
<1>1. \A c \in Conts, k \in Keys : outbox[c][k].state = "absent" /\ << c, k >> \notin board
  BY DEF Init, NoRow
<1>2. \A p \in Procs : todo[p] = << >>
  BY DEF Init
<1>. QED
  BY <1>1, <1>2 DEF Init, WInv, HasRow

\* Whoever submits, replays or dies, and however a transition ends: a
\* materialization task is on the board only after an owner receipt, its anchor
\* is completed only for a receipt that exists, and review and rerun come in
\* that order (owner_input.py, on_receipt and the advance operations).
THEOREM WorkAfterReceipt == Spec => []WorkFollowsReceipt
<1>1. Init => IInv /\ WInv
  BY InitHolds, WorkBegins
<1>2. IInv /\ WInv /\ [Next]_vars => (IInv /\ WInv)'
  BY NextKeeps, WorkKeeps
<1>3. IInv /\ WInv => WorkFollowsReceipt
  <2>. SUFFICES ASSUME IInv, WInv, NEW c \in Conts
                PROVE  /\ OnBoard(c, "materialization") => receipts[c] > 0
                       /\ OnBoard(c, "review") => OnBoard(c, "materialization")
                       /\ OnBoard(c, "packet_rerun") => OnBoard(c, "review")
                       /\ \A v \in 1 .. MaxReceipts :
                            << c, << "complete_owner_anchor", v >> >> \in board
                              => v <= receipts[c] /\ OnBoard(c, "owner_anchor")
    BY DEF WorkFollowsReceipt
  <2>1. /\ \A k \in StepKinds : << k, 0 >> \in Keys
        /\ \A v \in 1 .. MaxReceipts : << "complete_owner_anchor", v >> \in Keys
    BY ItemsAreTyped DEF Keys
  <2>2. \A k \in Keys : << c, k >> \in board => Warranted(c, k)
    BY DEF WInv
  <2>3. /\ OnBoard(c, "materialization") => receipts[c] > 0
        /\ OnBoard(c, "review") => OnBoard(c, "materialization")
        /\ OnBoard(c, "packet_rerun") => OnBoard(c, "review")
    BY <2>1, <2>2 DEF Warranted, OnBoard, StepKinds
  <2>4. ASSUME NEW v \in 1 .. MaxReceipts, << c, << "complete_owner_anchor", v >> >> \in board
        PROVE  v <= receipts[c] /\ OnBoard(c, "owner_anchor")
    BY <2>1, <2>2, <2>4 DEF Warranted
  <2>. QED
    BY <2>3, <2>4
<1>. QED
  BY <1>1, <1>2, <1>3, PTL DEF Spec

-----------------------------------------------------------------------------
(***************************************************************************)
(* Whoever is waited for was asked, as long as nobody dies.                *)
(***************************************************************************)
HasAnchor(c) == HasRow(c, << "owner_anchor", 0 >>)

ToAsk(s)     == Asking(s) \/ Registering(s)
ToEnqueue(s) == Anchoring(s) /\ Head(s).do = "op"
ToTell(s)    == \/ Casing(s) \/ Receiving(s) \/ Receipting(s) \/ Accepting(s)
                \/ Anchoring(s) /\ Head(s).do \in { "step", "op" }

\* Somebody is about to do what is not done yet.
InHand(c) ==
  /\ inst[c] = "detected" => \E q \in Procs : on[q] = c /\ ToAsk(todo[q])
  /\ << c, "owner_anchor" >> \in steps
       => HasAnchor(c) \/ \E q \in Procs : on[q] = c /\ ToEnqueue(todo[q])
  /\ inst[c] = "waiting_owner"
       => \/ HasAnchor(c) \/ << c, "refused" >> \in heard
          \/ \E q \in Procs : on[q] = c /\ ToTell(todo[q])

AInv == crashes = 0 => \A c \in Conts : InHand(c)

\* A row stays, and so does the refusal of an automatic receipt.
LEMMA RowsStay ==
  ASSUME IInv, NEW p \in Procs, Execute(p), NEW c \in Conts
  PROVE  /\ HasAnchor(c) => HasAnchor(c)'
         /\ heard \subseteq heard'
<1>1. << "owner_anchor", 0 >> \in Keys
  BY ItemsAreTyped DEF StepKinds
<1>2. HasAnchor(c) => HasAnchor(c)'
  BY <1>1, ExecuteWrites DEF HasAnchor, HasRow
<1>3. heard \subseteq heard'
  BY DEF Execute, MoveRead, MoveWrite, AddStep, Enqueue, Call, MarkApplied, MarkFailed, MarkStep,
     Receive, AddReceipt, CloseAnchor, OpenCase, Register, Judge, Pass
<1>. QED
  BY <1>2, <1>3

\* A step that moves no instance and adds no step hands on what it had in hand.
LEMMA HandedOn ==
  ASSUME IInv, NEW p \in Procs, Execute(p), NEW c \in Conts, InHand(c), inst'[c] = inst[c],
         << c, "owner_anchor" >> \in steps' => << c, "owner_anchor" >> \in steps,
         on[p] = c =>
           /\ inst[c] = "detected" /\ ToAsk(todo[p]) => ToAsk(todo'[p]) /\ on'[p] = c
           /\ ToEnqueue(todo[p]) => HasAnchor(c)'
           /\ inst[c] = "waiting_owner" /\ ToTell(todo[p])
                => (ToTell(todo'[p]) /\ on'[p] = c) \/ HasAnchor(c)' \/ << c, "refused" >> \in heard'
  PROVE  InHand(c)'
<1>1. \A q \in Procs \ { p } : todo'[q] = todo[q] /\ on'[q] = on[q]
  BY ExecuteTurns, GoesAlone
<1>2. (HasAnchor(c) => HasAnchor(c)') /\ heard \subseteq heard'
  BY RowsStay
<1>3. inst[c] = "detected" => \E q \in Procs : on'[q] = c /\ ToAsk(todo'[q])
  BY <1>1 DEF InHand
<1>4. << c, "owner_anchor" >> \in steps
        => HasAnchor(c)' \/ \E q \in Procs : on'[q] = c /\ ToEnqueue(todo'[q])
  BY <1>1, <1>2 DEF InHand
<1>5. inst[c] = "waiting_owner"
        => \/ HasAnchor(c)' \/ << c, "refused" >> \in heard'
           \/ \E q \in Procs : on'[q] = c /\ ToTell(todo'[q])
  BY <1>1, <1>2 DEF InHand
<1>. QED
  BY <1>3, <1>4, <1>5 DEF InHand

\* What each item does with the question it has in hand.
LEMMA ExecuteHandsOn ==
  ASSUME IInv, NEW p \in Procs, Execute(p), NEW c \in Conts, InHand(c)
  PROVE  InHand(c)'
<1>. DEFINE s == todo[p]
<1>1. PICK t : Goes(p, t)
  BY ExecuteTurns
<1>2. /\ s # << >> /\ todo'[p] = t /\ on'[p] = (IF t = << >> THEN NoCont ELSE on[p])
      /\ on[p] \in Conts /\ (OwnerAgenda(s) \/ WaitAgenda(s))
      /\ \A q \in Procs \ { p } : todo'[q] = todo[q] /\ on'[q] = on[q]
      /\ \A u : Goes(p, u) => u = t
  BY <1>1, ExecuteTurns, GoesAlone, Busy
<1>3. inst \in [Conts -> ContinuationState \union { "none" }]
  BY DEF IInv, TypeOK
<1>4. ToAsk(t) \/ ToTell(t) => t # << >>
  BY DEF ToAsk, ToTell, Asking, Registering, Casing, Receiving, Receipting, Accepting, Anchoring,
     Moves, Works, Does, Stands
<1>5. /\ ToAsk(s) => Head(s).do \in Moving
      /\ ToTell(s) => \/ Head(s).do \in { "case", "receive", "receipt", "step", "op" }
                      \/ Head(s).do \in Moving /\ Accepting(s)
      /\ ToEnqueue(s) => Head(s).do = "op" /\ Anchoring(s)
  BY PlaceTells DEF ToAsk, ToTell, ToEnqueue
<1>6. (HasAnchor(c) => HasAnchor(c)') /\ heard \subseteq heard'
  BY RowsStay
<1>7. CASE MoveRead(p)
  <2>1. /\ Head(s).do = "move"
        /\ IF Legal(inst[on[p]], Head(s).what) THEN Rewritten(s, t) ELSE t = Tail(s)
    BY <1>2, <1>7, MoveReadTurns
  <2>2. UNCHANGED << inst, steps >>
    BY <1>7 DEF MoveRead, store
  <2>3. ASSUME on[p] = c, inst[c] = "detected", ToAsk(s) PROVE ToAsk(t)
    <3>1. Head(s).what \in { "waiting_owner", "materializing" }
      BY <2>3, PlaceTells DEF ToAsk
    <3>2. Legal(inst[c], Head(s).what)
      BY <2>3, <3>1 DEF Legal, TERMINAL_STATES, ALLOWED_TRANSITIONS, ContinuationState
    <3>. QED
      BY <1>2, <2>1, <2>3, <3>2, SamePlace DEF ToAsk
  <2>4. ASSUME on[p] = c, inst[c] = "waiting_owner", ToTell(s) PROVE ToTell(t)
    <3>1. Accepting(s) /\ Head(s).what = "input_accepted"
      BY <1>5, <2>1, <2>4, PlaceTells
    <3>2. Legal(inst[c], Head(s).what)
      BY <2>4, <3>1 DEF Legal, TERMINAL_STATES, ALLOWED_TRANSITIONS, ContinuationState
    <3>. QED
      BY <1>2, <2>1, <2>4, <3>1, <3>2, SamePlace DEF ToTell
  <2>5. ~ ToEnqueue(s)
    BY <1>5, <2>1
  <2>. QED
    BY <1>2, <1>4, <2>2, <2>3, <2>4, <2>5, HandedOn
<1>8. CASE MoveWrite(p)
  <2>1. /\ Head(s).do = "write" /\ t = Tail(s) /\ inst' = [inst EXCEPT ![on[p]] = Head(s).what]
        /\ steps' = steps /\ heard' = heard /\ outbox' = outbox
    BY <1>2, <1>8, MoveWriteTurns DEF MoveWrite
  <2>2. CASE on[p] # c
    BY <1>2, <1>3, <2>1, <2>2, HandedOn
  <2>3. CASE on[p] = c
    <3>1. inst'[c] = Head(s).what
      BY <1>3, <2>1, <2>3
    <3>2. Head(s).what # "detected" /\ (Head(s).what = "waiting_owner" => Asking(s))
      BY <1>2, <2>1, HeadTells DEF Moving
    <3>3. Asking(s) => ToTell(t)
      BY <2>1 DEF Asking, ToTell
    <3>4. << c, "owner_anchor" >> \in steps
            => HasAnchor(c)' \/ \E q \in Procs : on'[q] = c /\ ToEnqueue(todo'[q])
      <4>1. ~ ToEnqueue(s)
        BY <1>5, <2>1
      <4>. QED
        BY <1>2, <1>6, <4>1 DEF InHand
    <3>. QED
      BY <1>2, <1>4, <2>1, <2>3, <3>1, <3>2, <3>3, <3>4 DEF InHand
  <2>. QED
    BY <2>2, <2>3
<1>9. CASE AddStep(p)
  <2>. DEFINE k == Head(s).what
  <2>1. /\ Head(s).do = "step" /\ steps' = steps \union {<< on[p], k >>}
        /\ \/ << on[p], k >> \notin steps /\ Rewritten(s, t) /\ Head(t).do = "op"
           \/ << on[p], k >> \in steps
    BY <1>2, <1>9, AddStepTurns
  <2>2. UNCHANGED << inst, heard, outbox >>
    BY <1>9 DEF AddStep
  <2>3. CASE << c, "owner_anchor" >> \in steps' /\ << c, "owner_anchor" >> \notin steps
    <3>1. on[p] = c /\ k = "owner_anchor" /\ Rewritten(s, t) /\ Head(t).do = "op"
      BY <2>1, <2>3
    <3>2. Anchoring(t)
      BY <1>2, <2>1, <3>1, HeadTells, SamePlace
    <3>3. ToEnqueue(t) /\ ToTell(t)
      BY <3>1, <3>2 DEF ToEnqueue, ToTell
    <3>4. ~ ToAsk(s)
      BY <1>5, <2>1 DEF Moving
    <3>. QED
      BY <1>2, <1>4, <2>2, <3>1, <3>3, <3>4 DEF InHand
  <2>4. CASE << c, "owner_anchor" >> \in steps' => << c, "owner_anchor" >> \in steps
    <3>1. ASSUME on[p] = c, ToTell(s)
          PROVE  \/ HasAnchor(c)'
                 \/ \E q \in Procs : on'[q] = c /\ ToTell(todo'[q])
      <4>1. k = "owner_anchor"
        BY <1>5, <2>1, <3>1, PlaceTells DEF ToTell, Moving
      <4>2. << c, "owner_anchor" >> \in steps /\ ~ ToEnqueue(s)
        BY <1>5, <2>1, <2>4, <3>1, <4>1
      <4>3. HasAnchor(c) \/ \E q \in Procs \ { p } : on[q] = c /\ ToEnqueue(todo[q])
        BY <4>2 DEF InHand
      <4>. QED
        BY <1>2, <1>6, <4>3 DEF ToEnqueue, ToTell
    <3>2. ~ ToAsk(s) /\ ~ ToEnqueue(s)
      BY <1>5, <2>1 DEF Moving
    <3>3. << c, "owner_anchor" >> \in steps
            => HasAnchor(c)' \/ \E q \in Procs : on'[q] = c /\ ToEnqueue(todo'[q])
      BY <1>2, <1>6, <3>2 DEF InHand
    <3>4. inst[c] = "waiting_owner"
            => \/ HasAnchor(c)' \/ << c, "refused" >> \in heard'
               \/ \E q \in Procs : on'[q] = c /\ ToTell(todo'[q])
      BY <1>2, <1>6, <3>1 DEF InHand
    <3>5. inst[c] = "detected" => \E q \in Procs : on'[q] = c /\ ToAsk(todo'[q])
      BY <1>2, <3>2 DEF InHand
    <3>. QED
      BY <2>2, <2>4, <3>3, <3>4, <3>5 DEF InHand
  <2>. QED
    BY <2>3, <2>4
<1>10. CASE Enqueue(p)
  <2>1. /\ Head(s).do = "op" /\ Key(Head(s)) \in Keys
        /\ outbox' = [outbox EXCEPT ![on[p]][Key(Head(s))] = Enqueued(outbox[on[p]][Key(Head(s))])]
    BY <1>10, EnqueueTurns
  <2>2. UNCHANGED << inst, steps >>
    BY <1>10 DEF Enqueue
  <2>3. ASSUME on[p] = c, Anchoring(s) PROVE HasAnchor(c)'
    <3>. DEFINE k == Key(Head(s))
                row == Enqueued(outbox[c][k])
    <3>1. k = << "owner_anchor", 0 >>
      <4>1. Head(s).what = "owner_anchor" /\ Head(s).do \in Working /\ "owner_anchor" \in StepKinds
        BY <2>3, PlaceTells DEF StepKinds
      <4>. QED
        BY <1>2, <4>1, WorkTells
    <3>2. row.state # "absent"
      <4>1. outbox[c][k] \in Row
        BY <2>1 DEF IInv, TypeOK
      <4>. QED
        BY <4>1, RowsAreTyped
    <3>3. outbox'[c][k] = row
      BY <2>1, <2>3 DEF IInv, TypeOK
    <3>. HIDE DEF k, row
    <3>. QED
      BY <3>1, <3>2, <3>3 DEF HasAnchor, HasRow
  <2>4. ~ ToAsk(s) /\ (ToTell(s) \/ ToEnqueue(s) => Anchoring(s))
    BY <1>5, <2>1, PlaceTells DEF Moving, ToTell
  <2>. QED
    BY <2>2, <2>3, <2>4, HandedOn
<1>11. CASE Receive(p)
  <2>1. UNCHANGED << inst, steps >> /\ Head(s).do = "receive"
    BY <1>11 DEF Receive, At, store
  <2>2. \/ Receipting(t)
        \/ heard' = IF inst[on[p]] = "waiting_owner" \/ Head(s).what = "waiting_owner"
                      THEN heard \union {<< on[p], "refused" >>} ELSE heard
    BY <1>2, <1>11, ReceiveTurns
  <2>3. ~ ToAsk(s) /\ ~ ToEnqueue(s)
    BY <1>5, <2>1 DEF Moving
  <2>. QED
    BY <1>2, <1>4, <2>1, <2>2, <2>3, HandedOn DEF ToTell
<1>12. CASE AddReceipt(p)
  <2>1. UNCHANGED << inst, steps >> /\ Head(s).do = "receipt" /\ Accepting(t)
    BY <1>2, <1>12, AddReceiptTurns DEF AddReceipt, At
  <2>2. ~ ToAsk(s) /\ ~ ToEnqueue(s)
    BY <1>5, <2>1 DEF Moving
  <2>. QED
    BY <1>2, <1>4, <2>1, <2>2, HandedOn DEF ToTell
<1>13. CASE OpenCase(p)
  <2>1. UNCHANGED << inst, steps >> /\ Head(s).do = "case" /\ t = Tail(s) /\ Casing(s)
    BY <1>2, <1>13, OneTurns DEF OpenCase, At
  <2>2. ~ ToAsk(s) /\ ~ ToEnqueue(s)
    BY <1>5, <2>1 DEF Moving
  <2>3. Anchoring(t) /\ Fresh(t) /\ t # << >>
    BY <2>1 DEF Casing, Does, Stands, Anchoring, Works
  <2>4. Head(t).do = "step"
    BY <2>3, PlaceTells DEF Fresh, Working
  <2>5. ToTell(t)
    BY <2>3, <2>4 DEF ToTell
  <2>. QED
    BY <1>2, <1>4, <2>1, <2>2, <2>5, HandedOn
<1>14. CASE Call(p) \/ MarkApplied(p) \/ MarkFailed(p) \/ MarkStep(p) \/ CloseAnchor(p) \/ Register(p) \/ Judge(p) \/ Pass(p)
  <2>1. UNCHANGED << inst, steps >>
    BY <1>14 DEF Call, MarkApplied, MarkFailed, MarkStep, CloseAnchor, Register, Judge, Pass, store
  <2>2. Head(s).do \in { "call", "applied", "failed", "task", "close", "condition", "judge", "pass" }
    BY <1>14 DEF Call, MarkApplied, MarkFailed, MarkStep, CloseAnchor, Register, Judge, Pass, At
  <2>3. ~ ToAsk(s) /\ ~ ToEnqueue(s) /\ ~ ToTell(s)
    BY <1>5, <2>2 DEF Moving
  <2>. QED
    BY <2>1, <2>3, HandedOn
<1>. QED
  BY <1>7, <1>8, <1>9, <1>10, <1>11, <1>12, <1>13, <1>14 DEF Execute

\* Whoever begins, or finds nothing to do, leaves in hand what was in hand.
LEMMA BeginHandsOn ==
  ASSUME IInv, NEW p \in Procs, NEW d \in Conts, NEW c \in Conts, InHand(c),
         NEW a \in Seq(Items), a # << >>, Begin(p, d, a), UNCHANGED << steps, outbox >>,
         inst'[c] = inst[c] \/ (c = d /\ inst[c] = "none" /\ inst'[c] = "detected" /\ ToAsk(a))
  PROVE  InHand(c)'
<1>1. /\ on[p] = NoCont /\ todo'[p] = a /\ on'[p] = d /\ heard' = heard
      /\ \A q \in Procs \ { p } : todo'[q] = todo[q] /\ on'[q] = on[q]
      /\ NoCont # c
  BY BeginGoes, OwnerAssumption DEF Idle
<1>2. \A q \in Procs : on[q] = c => on'[q] = c /\ todo'[q] = todo[q]
  BY <1>1
<1>3. HasAnchor(c)' <=> HasAnchor(c)
  BY DEF HasAnchor, HasRow
<1>4. inst'[c] = "detected" => \E q \in Procs : on'[q] = c /\ ToAsk(todo'[q])
  BY <1>1, <1>2 DEF InHand
<1>5. << c, "owner_anchor" >> \in steps
        => HasAnchor(c) \/ \E q \in Procs : on'[q] = c /\ ToEnqueue(todo'[q])
  BY <1>2 DEF InHand
<1>6. inst'[c] = "waiting_owner"
        => \/ HasAnchor(c) \/ << c, "refused" >> \in heard'
           \/ \E q \in Procs : on'[q] = c /\ ToTell(todo'[q])
  BY <1>1, <1>2 DEF InHand
<1>. QED
  BY <1>3, <1>4, <1>5, <1>6 DEF InHand

\* The agenda of a fresh instance begins with its transition.
LEMMA IngestHandsOn ==
  ASSUME IInv, NEW p \in Workers, NEW d \in Conts, Ingest(p, d), NEW c \in Conts, InHand(c)
  PROVE  InHand(c)'
<1>. DEFINE e == << Plain("pass") >>
            fresh == inst[d] = "none"
            W == (IF fresh THEN << Move("materializing"), Plain("condition") >> ELSE << >>) \o e
            H0 == IF fresh THEN << Plain("receive") >>
                  ELSE IF inst[d] = "waiting_owner" THEN << Item("receive", "waiting_owner", 0) >>
                  ELSE << >>
            A == (IF fresh THEN << Move("waiting_owner") >> ELSE << >>) \o Ask(d) \o e
            R == (IF fresh THEN << Move("waiting_owner") >> ELSE << >>) \o H0 \o e
<1>1. p \in Procs /\ UNCHANGED << steps, outbox >> /\ (Begin(p, d, W) \/ Begin(p, d, A) \/ Begin(p, d, R))
      /\ inst' = IF fresh THEN [inst EXCEPT ![d] = "detected"] ELSE inst
  BY DEF Procs, Ingest
<1>2. inst'[c] = inst[c] \/ (c = d /\ inst[c] = "none" /\ inst'[c] = "detected" /\ fresh)
  BY <1>1 DEF IInv, TypeOK
<1>3. e \in Seq(Items) /\ Passing(e) /\ e # << >>
  BY PassAgenda
<1>4. W \in Seq(Items) /\ W # << >> /\ (fresh => ToAsk(W))
  <2>1. W \in Seq(Items) /\ (IF fresh THEN Registering(W) ELSE W = e)
    BY <1>3, WaitAgendas
  <2>. QED
    BY <1>3, <2>1 DEF ToAsk, Registering, Moves, Stands
<1>5. A \in Seq(Items) /\ A # << >> /\ (fresh => ToAsk(A))
  <2>1. A \in Seq(Items) /\ (IF fresh THEN Asking(A) ELSE Casing(A))
    BY OwnerAgendas
  <2>. HIDE DEF A
  <2>. QED
    BY <2>1 DEF ToAsk, Asking, Casing, Moves, Does, Stands
<1>6. R \in Seq(Items) /\ R # << >> /\ (fresh => ToAsk(R))
  <2>1. R \in Seq(Items) /\ (IF fresh THEN Asking(R) ELSE Receiving(R) \/ Passing(R))
    <3>1. CASE fresh
      BY <3>1, OwnerAgendas
    <3>2. CASE inst[d] = "waiting_owner"
      BY <3>2, OwnerAgendas
    <3>3. CASE ~ fresh /\ inst[d] # "waiting_owner"
      BY <1>3, <3>3, OwnerAgendas
    <3>. QED
      BY <3>1, <3>2, <3>3
  <2>. HIDE DEF R
  <2>. QED
    BY <2>1 DEF ToAsk, Asking, Receiving, Passing, Moves, Does, Stands
<1>. HIDE DEF W, A, R, fresh
<1>. QED
  BY <1>1, <1>2, <1>4, <1>5, <1>6, BeginHandsOn

\* Who is alive now was never dead.
LEMMA NobodyDied ==
  ASSUME IInv, [Next]_vars, crashes' = 0
  PROVE  crashes = 0
<1>1. ASSUME NEW p \in Procs, Crash(p) PROVE FALSE
  BY <1>1, CrashGoes
<1>2. ASSUME NEW p \in Procs, Execute(p) PROVE crashes' = crashes
  <2>1. PICK t : Goes(p, t)
    BY <1>2, ExecuteTurns
  <2>. QED
    BY <2>1 DEF Goes
<1>3. CASE Next
  BY <1>1, <1>2, <1>3, NextTells DEF Ingest, Submit, Reply, Replay, Poll,
     AdvanceAfterMaterialization, AdvanceAfterReview, Begin
<1>. QED
  BY <1>3 DEF vars

\* Nothing is forgotten while nobody dies.
LEMMA AskKeeps ==
  ASSUME IInv, WInv, AInv, [Next]_vars
  PROVE  AInv'
<1>. SUFFICES ASSUME crashes' = 0, NEW c \in Conts PROVE InHand(c)'
  BY DEF AInv
<1>1. crashes = 0
  BY NobodyDied
<1>2. InHand(c)
  BY <1>1 DEF AInv
<1>3. ASSUME NEW p \in Procs, Execute(p) PROVE InHand(c)'
  BY <1>2, <1>3, ExecuteHandsOn
<1>4. ASSUME NEW p \in Procs, Crash(p) PROVE FALSE
  BY <1>1, <1>4, CrashGoes
<1>5. ASSUME NEW p \in Workers, NEW d \in Conts, Ingest(p, d) PROVE InHand(c)'
  BY <1>2, <1>5, IngestHandsOn
<1>6. ASSUME NEW p \in Procs, NEW d \in Conts,
             \/ Submit(p, d) \/ Reply(p, d) \/ Replay(p, d) \/ Poll(p, d)
             \/ \E verdict \in { "GO", "BLOCK" } :
                  AdvanceAfterMaterialization(p, d, verdict) \/ AdvanceAfterReview(p, d, verdict)
      PROVE  InHand(c)'
  <2>1. PICK a \in Seq(Items) : a # << >> /\ Begin(p, d, a)
    BY <1>6, BeginsBacked
  <2>2. UNCHANGED << inst, steps, outbox >>
    BY <1>6 DEF Submit, Reply, Replay, Poll, AdvanceAfterMaterialization, AdvanceAfterReview, store
  <2>. QED
    BY <1>2, <2>1, <2>2, BeginHandsOn
<1>7. CASE UNCHANGED vars
  <2>1. UNCHANGED << inst, steps, outbox, heard, on, todo >>
    BY <1>7 DEF vars, store
  <2>2. HasAnchor(c)' <=> HasAnchor(c)
    BY <2>1 DEF HasAnchor, HasRow
  <2>. QED
    BY <1>2, <2>1, <2>2 DEF InHand
<1>. QED
  BY <1>3, <1>4, <1>5, <1>6, <1>7, NextTells

\* As long as nobody dies, an event behind the cursor whose owner is waited for
\* has its anchor in the outbox, unless an automatic receipt was refused, and
\* none is left in detected, where no answer is accepted: somebody is at the
\* question from the creation of the instance on (OwnerInputHandler.plan,
\* _owner_input_like), and a process that finds the step of the anchor added
\* leaves it to the one that added it.
THEOREM AskedOnce == Spec => []AskedOnceHandled
<1>1. Init => IInv /\ WInv /\ AInv
  <2>1. Init => AInv
    BY DEF Init, AInv, InHand
  <2>. QED
    BY <2>1, InitHolds, WorkBegins
<1>2. IInv /\ WInv /\ AInv /\ [Next]_vars => (IInv /\ WInv /\ AInv)'
  BY NextKeeps, WorkKeeps, AskKeeps
<1>3. IInv /\ WInv /\ AInv => AskedOnceHandled
  <2>. SUFFICES ASSUME AInv, IInv, NEW c \in passed, crashes = 0, AtRest(c)
                PROVE  /\ inst[c] # "detected"
                       /\ inst[c] = "waiting_owner" => Enqueued0(c, "owner_anchor") \/ << c, "refused" >> \in heard
    BY DEF AskedOnceHandled
  <2>1. InHand(c)
    BY DEF AInv, IInv, TypeOK
  <2>. QED
    BY <2>1 DEF InHand, AtRest, HasAnchor, HasRow, Enqueued0
<1>. QED
  BY <1>1, <1>2, <1>3, PTL DEF Spec

-----------------------------------------------------------------------------
(***************************************************************************)
(* A condition and its instance, however many processes poll.              *)
(***************************************************************************)
Settled == { "satisfied", "failed_permanent" }

\* Where a process of a condition is once the condition is registered.
Polling(s) == Passing(s) \/ Judging(s) \/ Satisfying(s) \/ Resumed(s) \/ Failing(s)

\* Whoever moves the instance, and wherever it stands, an answer says so.
Said(c) ==
  /\ inst[c] \in { "resumable", "resumed" } => << c, "satisfied" >> \in heard
  /\ inst[c] = "failed_retryable" => << c, "failed_permanent" >> \in heard
  /\ \A q \in Procs : on[q] = c =>
       /\ Satisfying(todo[q]) \/ Resumed(todo[q]) => << c, "satisfied" >> \in heard
       /\ Failing(todo[q]) => << c, "failed_permanent" >> \in heard

Quiet(c) == \A q \in Procs : on[q] = c => Passing(todo[q])

\* The process that registers the condition is alone with it.
Between(c, p) ==
  /\ on[p] = c
  /\ \A q \in Procs : on[q] = c => q = p \/ Passing(todo[q])
  /\ \/ Registering(todo[p]) /\ inst[c] = "detected"
     \/ Conditioning(todo[p]) /\ inst[c] = "materializing"

\* While nobody has died: what is settled and not moved, or half moved, is in
\* the hands of a process that moves it.
Told(c) ==
  \/ wait[c] = "none" /\ inst[c] = "none" /\ Quiet(c)
  \/ wait[c] = "none" /\ \E p \in Procs : Between(c, p)
  \/ /\ wait[c] = "pending" /\ inst[c] = "materializing"
     /\ \A q \in Procs : on[q] = c => Passing(todo[q]) \/ Judging(todo[q])
  \/ /\ wait[c] \in Settled
     /\ inst[c] \in { "materializing", "resumable", "resumed", "failed_retryable" }
     /\ \A q \in Procs : on[q] = c => Polling(todo[q])
     /\ inst[c] = "materializing"
          => \E q \in Procs : on[q] = c /\ (Satisfying(todo[q]) \/ Failing(todo[q]))
     /\ inst[c] = "resumable" => \E q \in Procs : on[q] = c /\ Resumed(todo[q])

TInv == \A c \in Conts : kind[c] = "wait" => Said(c) /\ (crashes = 0 => Told(c))

\* The places of a condition's agendas exclude each other.
LEMMA WaitPlaces ==
  ASSUME NEW s
  PROVE  /\ Passing(s) => /\ ~ Registering(s) /\ ~ Conditioning(s) /\ ~ Judging(s)
                          /\ ~ Satisfying(s) /\ ~ Resumed(s) /\ ~ Failing(s)
         /\ Judging(s) => /\ ~ Registering(s) /\ ~ Conditioning(s)
                          /\ ~ Satisfying(s) /\ ~ Resumed(s) /\ ~ Failing(s)
         /\ Conditioning(s) => ~ Registering(s) /\ ~ Satisfying(s) /\ ~ Resumed(s) /\ ~ Failing(s)
         /\ Registering(s) => ~ Satisfying(s) /\ ~ Resumed(s) /\ ~ Failing(s)
         /\ Satisfying(s) => ~ Resumed(s) /\ ~ Failing(s)
         /\ Resumed(s) => ~ Failing(s)
         /\ Head(s).do \in Moving => ~ Passing(s) /\ ~ Judging(s) /\ ~ Conditioning(s)
BY PlaceTells DEF Moving

\* A step elsewhere.
LEMMA ToldElsewhere ==
  ASSUME NEW c \in Conts, Said(c), NEW p \in Procs, on[p] # c, on'[p] # c,
         \A q \in Procs \ { p } : todo'[q] = todo[q] /\ on'[q] = on[q],
         inst'[c] = inst[c], wait'[c] = wait[c], heard \subseteq heard'
  PROVE  Said(c)' /\ (Told(c) => Told(c)')
<1>1. \A q \in Procs : (on'[q] = c <=> on[q] = c) /\ (on[q] = c => todo'[q] = todo[q])
  OBVIOUS
<1>2. Quiet(c)' <=> Quiet(c)
  BY <1>1 DEF Quiet
<1>3. \A q \in Procs : Between(c, q) => Between(c, q)'
  BY <1>1 DEF Between
<1>4. Said(c)'
  BY <1>1 DEF Said
<1>. QED
  BY <1>1, <1>2, <1>3, <1>4 DEF Told

\* One process steps at a settled condition and leaves the instance to itself
\* or to another.
LEMMA StaysSettled ==
  ASSUME NEW c \in Conts, NEW p \in Procs, on[p] = c,
         \A q \in Procs \ { p } : todo'[q] = todo[q] /\ on'[q] = on[q],
         \A q \in Procs : on[q] = c => Polling(todo[q]),
         on'[p] = c => Polling(todo'[p]), wait'[c] \in Settled,
         inst'[c] \in { "materializing", "resumable", "resumed", "failed_retryable" },
         inst'[c] = "materializing" =>
           \/ on'[p] = c /\ (Satisfying(todo'[p]) \/ Failing(todo'[p]))
           \/ \E q \in Procs \ { p } : on[q] = c /\ (Satisfying(todo[q]) \/ Failing(todo[q])),
         inst'[c] = "resumable" =>
           \/ on'[p] = c /\ Resumed(todo'[p])
           \/ \E q \in Procs \ { p } : on[q] = c /\ Resumed(todo[q])
  PROVE  Told(c)'
<1>1. \A q \in Procs : on'[q] = c => Polling(todo'[q])
  OBVIOUS
<1>2. inst'[c] = "materializing"
        => \E q \in Procs : on'[q] = c /\ (Satisfying(todo'[q]) \/ Failing(todo'[q]))
  OBVIOUS
<1>3. inst'[c] = "resumable" => \E q \in Procs : on'[q] = c /\ Resumed(todo'[q])
  OBVIOUS
<1>. QED
  BY <1>1, <1>2, <1>3 DEF Told, Polling

\* What transition reads, of a condition that is told of.
LEMMA ReadTells ==
  ASSUME IInv, NEW p \in Procs, MoveRead(p), NEW c \in Conts, on[p] = c, WaitAgenda(todo[p]),
         NEW t, Goes(p, t), Said(c)
  PROVE  Said(c)' /\ (Told(c) => Told(c)')
<1>. DEFINE s == todo[p]
<1>1. /\ s # << >> /\ todo'[p] = t /\ on'[p] = (IF t = << >> THEN NoCont ELSE c) /\ NoCont # c
      /\ \A q \in Procs \ { p } : todo'[q] = todo[q] /\ on'[q] = on[q]
      /\ \A u : Goes(p, u) => u = t
  BY GoesAlone, MoveReadTurns, OwnerAssumption
<1>2. Head(s).do = "move" /\ UNCHANGED << inst, wait, heard >>
      /\ IF Legal(inst[c], Head(s).what) THEN Rewritten(s, t) ELSE t = Tail(s)
  BY <1>1, MoveReadTurns DEF MoveRead, store
<1>3. Registering(s) \/ Satisfying(s) \/ Resumed(s) \/ Failing(s)
  BY <1>2, WaitPlaces DEF Moving, WaitAgenda
<1>4. Rewritten(s, t) => /\ Registering(t) <=> Registering(s)
                         /\ Satisfying(t) <=> Satisfying(s)
                         /\ Resumed(t) <=> Resumed(s)
                         /\ Failing(t) <=> Failing(s)
                         /\ t # << >>
  BY <1>1, SamePlace DEF Rewritten
<1>5. /\ Registering(s) => Conditioning(Tail(s))
      /\ Satisfying(s) => Resumed(Tail(s)) /\ Tail(s) # << >>
      /\ Resumed(s) \/ Failing(s) => Tail(s) = << >>
  BY DEF Registering, Satisfying, Resumed, Failing, Moves, Stands
<1>6. Said(c)'
  <2>1. on'[p] = c => /\ Satisfying(t) \/ Resumed(t) => << c, "satisfied" >> \in heard
                      /\ Failing(t) => << c, "failed_permanent" >> \in heard
    <3>1. CASE Rewritten(s, t)
      BY <1>4, <3>1 DEF Said
    <3>2. CASE t = Tail(s)
      BY <1>1, <1>3, <1>5, <3>2, WaitPlaces DEF Said
    <3>. QED
      BY <1>2, <3>1, <3>2
  <2>. QED
    BY <1>1, <1>2, <2>1 DEF Said
<1>7. ASSUME Told(c) PROVE Told(c)'
  <2>1. ~ Passing(s) /\ ~ Judging(s) /\ ~ Conditioning(s)
    BY <1>2, WaitPlaces DEF Moving
  <2>2. CASE Between(c, p) /\ wait[c] = "none"
    <3>1. Registering(s) /\ inst[c] = "detected"
      BY <2>1, <2>2 DEF Between
    <3>2. Legal(inst[c], Head(s).what)
      BY <3>1, PlaceTells DEF Legal, TERMINAL_STATES, ALLOWED_TRANSITIONS, ContinuationState
    <3>3. Registering(t) /\ on'[p] = c
      BY <1>1, <1>2, <1>4, <3>1, <3>2
    <3>4. Between(c, p)'
      BY <1>1, <1>2, <2>2, <3>1, <3>3 DEF Between
    <3>. QED
      BY <1>2, <2>2, <3>4 DEF Told
  <2>3. CASE wait[c] \in Settled
    <3>1. /\ \A q \in Procs : on[q] = c => Polling(todo[q])
          /\ inst[c] \in { "materializing", "resumable", "resumed", "failed_retryable" }
          /\ inst[c] = "materializing"
               => \E q \in Procs : on[q] = c /\ (Satisfying(todo[q]) \/ Failing(todo[q]))
          /\ inst[c] = "resumable" => \E q \in Procs : on[q] = c /\ Resumed(todo[q])
      BY <1>7, <2>3 DEF Told, Settled
    <3>2. Satisfying(s) \/ Resumed(s) \/ Failing(s)
      BY <2>1, <3>1 DEF Polling
    <3>3. on'[p] = c => Polling(t)
      BY <1>1, <1>2, <1>4, <1>5, <3>2 DEF Polling
    <3>4. inst[c] = "materializing" /\ (Satisfying(s) \/ Failing(s))
            => on'[p] = c /\ (Satisfying(t) \/ Failing(t))
      BY <1>1, <1>2, <1>4, PlaceTells DEF Legal, TERMINAL_STATES, ALLOWED_TRANSITIONS, ContinuationState
    <3>5. inst[c] = "resumable" /\ Resumed(s) => on'[p] = c /\ Resumed(t)
      BY <1>1, <1>2, <1>4, PlaceTells DEF Legal, TERMINAL_STATES, ALLOWED_TRANSITIONS, ContinuationState
    <3>. QED
      BY <1>1, <1>2, <2>3, <3>1, <3>3, <3>4, <3>5, StaysSettled
  <2>. QED
    BY <1>7, <2>1, <2>2, <2>3 DEF Told, Quiet, Between
<1>. QED
  BY <1>6, <1>7

\* What transition writes.
LEMMA WriteTells ==
  ASSUME IInv, NEW p \in Procs, MoveWrite(p), NEW c \in Conts, on[p] = c, WaitAgenda(todo[p]),
         NEW t, Goes(p, t), Said(c)
  PROVE  Said(c)' /\ (Told(c) => Told(c)')
<1>. DEFINE s == todo[p]
<1>1. /\ s # << >> /\ todo'[p] = t /\ on'[p] = (IF t = << >> THEN NoCont ELSE c) /\ NoCont # c
      /\ \A q \in Procs \ { p } : todo'[q] = todo[q] /\ on'[q] = on[q]
      /\ \A u : Goes(p, u) => u = t
  BY GoesAlone, MoveWriteTurns, OwnerAssumption
<1>2. inst \in [Conts -> ContinuationState \union { "none" }]
  BY DEF IInv, TypeOK
<1>3. Head(s).do = "write" /\ UNCHANGED << wait, heard >> /\ inst'[c] = Head(s).what /\ t = Tail(s)
  BY <1>1, <1>2, MoveWriteTurns DEF MoveWrite
<1>4. Registering(s) \/ Satisfying(s) \/ Resumed(s) \/ Failing(s)
  BY <1>3, WaitPlaces DEF Moving, WaitAgenda
<1>5. /\ Registering(s) => inst'[c] = "materializing" /\ Conditioning(t) /\ t # << >>
      /\ Satisfying(s) => inst'[c] = "resumable" /\ Resumed(t) /\ t # << >>
      /\ Resumed(s) => inst'[c] = "resumed" /\ t = << >>
      /\ Failing(s) => inst'[c] = "failed_retryable" /\ t = << >>
  BY <1>3, PlaceTells DEF Registering, Conditioning, Satisfying, Resumed, Failing, Moves, Does, Stands
<1>6. Said(c)'
  <2>1. on'[p] = c => /\ Satisfying(t) \/ Resumed(t) => << c, "satisfied" >> \in heard
                      /\ Failing(t) => << c, "failed_permanent" >> \in heard
    BY <1>1, <1>4, <1>5, WaitPlaces DEF Said
  <2>2. /\ inst'[c] \in { "resumable", "resumed" } => << c, "satisfied" >> \in heard
        /\ inst'[c] = "failed_retryable" => << c, "failed_permanent" >> \in heard
    BY <1>4, <1>5 DEF Said
  <2>. QED
    BY <1>1, <1>3, <2>1, <2>2 DEF Said
<1>7. ASSUME Told(c) PROVE Told(c)'
  <2>1. ~ Passing(s) /\ ~ Judging(s) /\ ~ Conditioning(s)
    BY <1>3, WaitPlaces DEF Moving
  <2>2. CASE Between(c, p) /\ wait[c] = "none"
    <3>1. Registering(s)
      BY <2>1, <2>2 DEF Between
    <3>2. Between(c, p)'
      BY <1>1, <1>5, <2>2, <3>1 DEF Between
    <3>. QED
      BY <1>3, <2>2, <3>2 DEF Told
  <2>3. CASE wait[c] \in Settled
    <3>1. \A q \in Procs : on[q] = c => Polling(todo[q])
      BY <1>7, <2>3 DEF Told, Settled
    <3>2. Satisfying(s) \/ Resumed(s) \/ Failing(s)
      BY <2>1, <3>1 DEF Polling
    <3>3. on'[p] = c => Polling(t)
      BY <1>1, <1>5, <3>2 DEF Polling
    <3>. QED
      BY <1>1, <1>3, <1>5, <2>3, <3>1, <3>2, <3>3, StaysSettled
  <2>. QED
    BY <1>7, <2>1, <2>2, <2>3 DEF Told, Quiet, Between
<1>. QED
  BY <1>6, <1>7

\* What the poll commits of the checker's answer.
LEMMA JudgeTells ==
  ASSUME IInv, NEW p \in Procs, Judge(p), NEW c \in Conts, on[p] = c, NEW t, Goes(p, t), Said(c)
  PROVE  Said(c)' /\ (Told(c) => Told(c)')
<1>. DEFINE s == todo[p]
<1>1. /\ s # << >> /\ todo'[p] = t /\ on'[p] = (IF t = << >> THEN NoCont ELSE c) /\ NoCont # c
      /\ \A q \in Procs \ { p } : todo'[q] = todo[q] /\ on'[q] = on[q]
      /\ \A u : Goes(p, u) => u = t
  BY GoesAlone, JudgeTurns, OwnerAssumption
<1>2. wait \in [Conts -> { "none", "pending", "satisfied", "failed_permanent" }]
  BY DEF IInv, TypeOK
<1>3. /\ Judging(s) /\ inst' = inst
      /\ \/ /\ Satisfying(t) /\ wait'[c] = "satisfied"
            /\ heard' = heard \union {<< c, "satisfied" >>}
         \/ /\ Failing(t) /\ wait'[c] = "failed_permanent"
            /\ heard' = heard \union {<< c, "failed_permanent" >>}
         \/ t = << >> /\ UNCHANGED << wait, heard >>
  BY <1>1, <1>2, JudgeTurns DEF Judge
<1>4. /\ Satisfying(t) => t # << >> /\ ~ Failing(t) /\ ~ Resumed(t)
      /\ Failing(t) => t # << >> /\ ~ Satisfying(t) /\ ~ Resumed(t)
  BY WaitPlaces DEF Satisfying, Failing, Moves, Stands
<1>5. Said(c)'
  <2>1. heard \subseteq heard'
    BY <1>3
  <2>2. on'[p] = c => /\ Satisfying(t) \/ Resumed(t) => << c, "satisfied" >> \in heard'
                      /\ Failing(t) => << c, "failed_permanent" >> \in heard'
    BY <1>1, <1>3, <1>4
  <2>. QED
    BY <1>1, <1>3, <2>1, <2>2 DEF Said
<1>6. ASSUME Told(c) PROVE Told(c)'
  <2>1. ~ Passing(s) /\ ~ Registering(s) /\ ~ Conditioning(s)
        /\ ~ Satisfying(s) /\ ~ Resumed(s) /\ ~ Failing(s)
    BY <1>3, WaitPlaces
  <2>2. CASE /\ wait[c] = "pending" /\ inst[c] = "materializing"
             /\ \A q \in Procs : on[q] = c => Passing(todo[q]) \/ Judging(todo[q])
    <3>1. CASE t = << >> /\ UNCHANGED << wait, heard >>
      BY <1>1, <1>3, <2>2, <3>1 DEF Told
    <3>2. CASE (Satisfying(t) \/ Failing(t)) /\ wait'[c] \in Settled
      <4>1. Polling(t) /\ on'[p] = c /\ \A q \in Procs : on[q] = c => Polling(todo[q])
        BY <1>1, <1>4, <2>2, <3>2 DEF Polling
      <4>. QED
        BY <1>1, <1>3, <2>2, <3>2, <4>1, StaysSettled
    <3>. QED
      BY <1>3, <3>1, <3>2 DEF Settled
  <2>3. CASE wait[c] \in Settled
    <3>1. /\ \A q \in Procs : on[q] = c => Polling(todo[q])
          /\ inst[c] \in { "materializing", "resumable", "resumed", "failed_retryable" }
          /\ inst[c] = "materializing"
               => \E q \in Procs : on[q] = c /\ (Satisfying(todo[q]) \/ Failing(todo[q]))
          /\ inst[c] = "resumable" => \E q \in Procs : on[q] = c /\ Resumed(todo[q])
      BY <1>6, <2>3 DEF Told, Settled
    <3>2. wait'[c] \in Settled /\ (on'[p] = c => Polling(t))
      BY <1>1, <1>3, <2>3 DEF Settled, Polling
    <3>. QED
      BY <1>1, <1>3, <2>1, <3>1, <3>2, StaysSettled
  <2>. QED
    BY <1>6, <2>1, <2>2, <2>3 DEF Told, Quiet, Between
<1>. QED
  BY <1>5, <1>6

\* The items of a condition's agenda: each finds the place that is its own.
LEMMA ExecuteTells ==
  ASSUME IInv, NEW p \in Procs, Execute(p), NEW c \in Conts, on[p] = c, kind[c] = "wait", Said(c)
  PROVE  Said(c)' /\ (Told(c) => Told(c)')
<1>. DEFINE s == todo[p]
<1>1. PICK t : Goes(p, t)
  BY ExecuteTurns
<1>2. /\ s # << >> /\ todo'[p] = t /\ on'[p] = (IF t = << >> THEN NoCont ELSE c) /\ NoCont # c
      /\ WaitAgenda(s)
      /\ \A q \in Procs \ { p } : todo'[q] = todo[q] /\ on'[q] = on[q]
      /\ \A u : Goes(p, u) => u = t
  BY <1>1, ExecuteTurns, GoesAlone, Busy, OwnerAssumption
<1>3. wait \in [Conts -> { "none", "pending", "satisfied", "failed_permanent" }]
  BY DEF IInv, TypeOK
<1>4. Head(s).do \in { "move", "write", "condition", "pass", "judge" }
  BY <1>2, KindTells
<1>5. MoveRead(p) \/ MoveWrite(p) \/ Register(p) \/ Judge(p) \/ Pass(p)
  BY <1>4 DEF Execute, AddStep, Enqueue, Call, MarkApplied, MarkFailed, MarkStep,
     Receive, AddReceipt, CloseAnchor, OpenCase, At
<1>6. CASE MoveRead(p) \/ MoveWrite(p) \/ Judge(p)
  BY <1>1, <1>2, <1>6, ReadTells, WriteTells, JudgeTells
<1>7. CASE Register(p)
  <2>1. Conditioning(s) /\ t = Tail(s) /\ UNCHANGED << inst, heard >>
        /\ wait'[c] = IF wait[c] = "none" THEN "pending" ELSE wait[c]
    BY <1>2, <1>3, <1>7, OneTurns DEF Register
  <2>2. Passing(t) /\ ~ Satisfying(t) /\ ~ Resumed(t) /\ ~ Failing(t)
    BY <2>1, WaitPlaces DEF Conditioning
  <2>3. Said(c)'
    BY <1>2, <2>1, <2>2 DEF Said
  <2>4. ASSUME Told(c) PROVE Told(c)'
    <3>1. Between(c, p) /\ wait[c] = "none" /\ inst[c] = "materializing"
      BY <1>2, <2>1, <2>4, WaitPlaces DEF Told, Quiet, Between, Polling
    <3>. QED
      BY <1>2, <2>1, <2>2, <3>1 DEF Told, Between
  <2>. QED
    BY <2>3, <2>4
<1>8. CASE Pass(p)
  <2>1. Passing(s) /\ t = Tail(s) /\ UNCHANGED << inst, wait, heard >>
    BY <1>2, <1>8, OneTurns DEF Pass
  <2>2. on'[p] # c
    BY <1>2, <2>1 DEF Passing
  <2>3. Said(c)'
    BY <1>2, <2>1, <2>2 DEF Said
  <2>4. (Quiet(c) => Quiet(c)') /\ \A q \in Procs : Between(c, q) => Between(c, q)'
    <3>1. \A q \in Procs : Between(c, q) => q # p
      BY <2>1, WaitPlaces DEF Between
    <3>. QED
      BY <1>2, <2>1, <2>2, <3>1 DEF Quiet, Between
  <2>5. ~ Satisfying(s) /\ ~ Resumed(s) /\ ~ Failing(s)
    BY <2>1, WaitPlaces
  <2>6. Told(c) => Told(c)'
    BY <1>2, <2>1, <2>2, <2>4, <2>5 DEF Told, Polling
  <2>. QED
    BY <2>3, <2>6
<1>. QED
  BY <1>5, <1>6, <1>7, <1>8

\* The ingestion registers once, and the poll judges what is pending.
LEMMA BeginTells ==
  ASSUME IInv, NEW p \in Procs, NEW c \in Conts, kind[c] = "wait", Said(c), wait' = wait,
         NEW a \in Seq(Items), a # << >>, Begin(p, c, a),
         \/ inst[c] = "none" /\ inst'[c] = "detected" /\ Registering(a)
         \/ inst[c] # "none" /\ inst'[c] = inst[c] /\ Passing(a)
         \/ inst'[c] = inst[c] /\ wait[c] = "pending" /\ Judging(a)
  PROVE  Said(c)' /\ (Told(c) => Told(c)')
<1>1. /\ on[p] = NoCont /\ NoCont # c /\ todo'[p] = a /\ on'[p] = c /\ heard' = heard
      /\ \A q \in Procs \ { p } : todo'[q] = todo[q] /\ on'[q] = on[q]
  BY BeginGoes, OwnerAssumption DEF Idle
<1>2. ~ Satisfying(a) /\ ~ Resumed(a) /\ ~ Failing(a)
  BY WaitPlaces
<1>3. Said(c)'
  BY <1>1, <1>2 DEF Said
<1>4. CASE inst[c] = "none" /\ inst'[c] = "detected" /\ Registering(a)
  <2>1. wait[c] = "none" /\ \A q \in Procs : on[q] # c
    BY <1>4 DEF IInv, Order, AtRest
  <2>2. Between(c, p)'
    BY <1>1, <1>4, <2>1 DEF Between
  <2>. QED
    BY <1>3, <2>1, <2>2 DEF Told
<1>5. CASE inst[c] # "none" /\ inst'[c] = inst[c] /\ Passing(a)
  <2>1. (Quiet(c) => Quiet(c)') /\ \A q \in Procs : Between(c, q) => Between(c, q)'
    BY <1>1, <1>5 DEF Quiet, Between
  <2>. QED
    BY <1>1, <1>3, <1>5, <2>1 DEF Told, Polling
<1>6. CASE inst'[c] = inst[c] /\ wait[c] = "pending" /\ Judging(a)
  BY <1>1, <1>3, <1>6 DEF Told, Settled
<1>. QED
  BY <1>4, <1>5, <1>6

\* A registered condition, and an event ingested again.
LEMMA IngestTells ==
  ASSUME IInv, NEW p \in Workers, NEW d \in Conts, Ingest(p, d),
         NEW c \in Conts, kind[c] = "wait", Said(c)
  PROVE  Said(c)' /\ (Told(c) => Told(c)')
<1>. DEFINE e == << Plain("pass") >>
            fresh == inst[d] = "none"
            W == (IF fresh THEN << Move("materializing"), Plain("condition") >> ELSE << >>) \o e
<1>1. p \in Procs /\ wait' = wait
      /\ inst' = (IF fresh THEN [inst EXCEPT ![d] = "detected"] ELSE inst)
  BY DEF Procs, Ingest
<1>2. e \in Seq(Items) /\ Passing(e)
  BY PassAgenda
<1>3. W \in Seq(Items) /\ (IF fresh THEN Registering(W) ELSE Passing(W))
  BY <1>2, WaitAgendas
<1>4. kind[d] = "wait" => Begin(p, d, W)
  BY DEF Ingest
<1>. HIDE DEF W
<1>5. inst \in [Conts -> ContinuationState \union { "none" }]
  BY DEF IInv, TypeOK
<1>6. CASE d = c
  <2>1. W # << >>
    BY <1>3 DEF Registering, Passing, Moves, Does, Stands
  <2>. QED
    BY <1>1, <1>3, <1>4, <1>5, <1>6, <2>1, BeginTells
<1>7. CASE d # c
  <2>1. heard' = heard /\ on[p] # c /\ on'[p] # c /\ \A q \in Procs \ { p } : todo'[q] = todo[q] /\ on'[q] = on[q]
    BY <1>1, <1>7, OwnerAssumption DEF Ingest, Begin, Idle, IInv, TypeOK
  <2>. QED
    BY <1>1, <1>5, <1>7, <2>1, ToldElsewhere
<1>. QED
  BY <1>6, <1>7

\* What reads the store and begins: only the poll is about a condition.
LEMMA ReadersTell ==
  ASSUME IInv, NEW p \in Procs, NEW d \in Conts,
         \/ Submit(p, d) \/ Reply(p, d) \/ Replay(p, d) \/ Poll(p, d)
         \/ \E verdict \in { "GO", "BLOCK" } :
              AdvanceAfterMaterialization(p, d, verdict) \/ AdvanceAfterReview(p, d, verdict),
         NEW c \in Conts, kind[c] = "wait", Said(c)
  PROVE  Said(c)' /\ (Told(c) => Told(c)')
<1>1. UNCHANGED << inst, wait >>
  BY DEF Submit, Reply, Replay, Poll, AdvanceAfterMaterialization, AdvanceAfterReview, store
<1>2. \E a : Begin(p, d, a)
  BY DEF Submit, Reply, Replay, Poll, AdvanceAfterMaterialization, AdvanceAfterReview
<1>3. CASE d = c
  <2>1. Poll(p, c)
    <3>1. Separate(c)
      BY DEF IInv
    <3>2. << "materialization", 0 >> \in Keys /\ << "review", 0 >> \in Keys
      BY ItemsAreTyped DEF StepKinds
    <3>3. \A k \in Keys : outbox[c][k].state = "absent" /\ << c, k >> \notin board
      BY <3>1 DEF Separate, HasRow
    <3>4. inst[c] # "waiting_owner"
      BY <3>1 DEF Separate
    <3>. QED
      BY <1>3, <3>2, <3>3, <3>4
         DEF Submit, Reply, Replay, AdvanceAfterMaterialization, AdvanceAfterReview, Retryable
  <2>. DEFINE a == << Plain("judge") >>
  <2>2. a \in Seq(Items) /\ Judging(a)
    BY WaitAgendas
  <2>3. wait[c] = "pending" /\ Begin(p, c, a)
    BY <2>1 DEF Poll
  <2>. HIDE DEF a
  <2>4. a # << >>
    BY <2>2 DEF Judging, Does, Stands
  <2>. QED
    BY <1>1, <2>1, <2>2, <2>3, <2>4, BeginTells
<1>4. CASE d # c
  <2>1. heard' = heard /\ on[p] # c /\ on'[p] # c /\ \A q \in Procs \ { p } : todo'[q] = todo[q] /\ on'[q] = on[q]
    BY <1>2, <1>4, OwnerAssumption DEF Begin, Idle, IInv, TypeOK
  <2>. QED
    BY <1>1, <2>1, ToldElsewhere
<1>. QED
  BY <1>3, <1>4

LEMMA TellKeeps ==
  ASSUME IInv, TInv, [Next]_vars
  PROVE  TInv'
<1>1. kind' = kind
  <2>1. ASSUME NEW p \in Procs, Execute(p) PROVE kind' = kind
    BY <2>1, ExecuteTurns DEF Goes
  <2>. QED
    BY <2>1, NextTells, CrashGoes DEF vars, Ingest, Submit, Reply, Replay, Poll,
       AdvanceAfterMaterialization, AdvanceAfterReview, Begin
<1>. SUFFICES ASSUME NEW c \in Conts, kind[c] = "wait" PROVE Said(c)' /\ (crashes' = 0 => Told(c)')
  BY <1>1 DEF TInv
<1>2. Said(c) /\ (crashes' = 0 => Told(c))
  BY NobodyDied DEF TInv
<1>3. ASSUME NEW p \in Procs, Execute(p) PROVE Said(c)' /\ (Told(c) => Told(c)')
  <2>1. CASE on[p] = c
    BY <1>2, <1>3, <2>1, ExecuteTells
  <2>2. CASE on[p] # c
    <3>1. PICK t : Goes(p, t)
      BY <1>3, ExecuteTurns
    <3>2. on'[p] # c /\ \A q \in Procs \ { p } : todo'[q] = todo[q] /\ on'[q] = on[q]
      BY <2>2, <3>1, GoesAlone, OwnerAssumption
    <3>3. inst'[c] = inst[c] /\ wait'[c] = wait[c]
      BY <1>3, <2>2 DEF IInv, TypeOK, Execute, MoveRead, MoveWrite, AddStep, Enqueue, Call, MarkApplied,
         MarkFailed, MarkStep, Receive, AddReceipt, CloseAnchor, OpenCase, Register, Judge, Pass, store
    <3>4. heard \subseteq heard'
      BY <1>3, RowsStay
    <3>. QED
      BY <1>2, <2>2, <3>2, <3>3, <3>4, ToldElsewhere
  <2>. QED
    BY <2>1, <2>2
<1>4. ASSUME NEW p \in Procs, Crash(p) PROVE Said(c)' /\ crashes' # 0
  <2>1. /\ on'[p] # c /\ \A q \in Procs \ { p } : todo'[q] = todo[q] /\ on'[q] = on[q]
        /\ UNCHANGED << inst, heard >> /\ crashes' # 0
    BY <1>4, CrashGoes, OwnerAssumption DEF store
  <2>. QED
    BY <1>2, <2>1 DEF Said
<1>5. ASSUME NEW p \in Workers, NEW d \in Conts, Ingest(p, d) PROVE Said(c)' /\ (Told(c) => Told(c)')
  BY <1>2, <1>5, IngestTells
<1>6. ASSUME NEW p \in Procs, NEW d \in Conts,
             \/ Submit(p, d) \/ Reply(p, d) \/ Replay(p, d) \/ Poll(p, d)
             \/ \E verdict \in { "GO", "BLOCK" } :
                  AdvanceAfterMaterialization(p, d, verdict) \/ AdvanceAfterReview(p, d, verdict)
      PROVE  Said(c)' /\ (Told(c) => Told(c)')
  BY <1>2, <1>6, ReadersTell
<1>7. CASE UNCHANGED vars
  BY <1>2, <1>7 DEF vars, store, Told, Said, Quiet, Between
<1>. QED
  BY <1>2, <1>3, <1>4, <1>5, <1>6, <1>7, NextTells

\* However many processes poll and wherever they die, an instance stands
\* resumed or failed only on an answer of the checker; and as long as nobody
\* dies, a pending condition has its instance waiting and a settled one is never
\* left half moved.  A poll that finds the condition settled over its head still
\* writes its own answer and moves on a stale read, but what it leaves unmoved
\* another poll has moved or is about to move.
THEOREM WaitsAreCarriedOut == Spec => []WaitFollowsItsCondition
<1>1. Init => IInv /\ TInv
  <2>1. ASSUME Init PROVE TInv
    <3>1. \A c \in Conts : inst[c] = "none" /\ wait[c] = "none" /\ \A q \in Procs : on[q] # c
      BY <2>1, OwnerAssumption DEF Init
    <3>. QED
      BY <3>1 DEF TInv, Told, Said, Quiet
  <2>. QED
    BY <2>1, InitHolds
<1>2. IInv /\ TInv /\ [Next]_vars => (IInv /\ TInv)'
  BY NextKeeps, TellKeeps
<1>3. IInv /\ TInv => WaitFollowsItsCondition
  BY DEF TInv, Told, Said, Between, Settled, AtRest, WaitFollowsItsCondition
<1>. QED
  BY <1>1, <1>2, <1>3, PTL DEF Spec

-----------------------------------------------------------------------------
(***************************************************************************)
(* One answer is carried out, as long as nobody dies and one process        *)
(* reports verdicts.                                                       *)
(***************************************************************************)
Answering(s) == Accepting(s) \/ Closing(s) \/ Materializing(s) \/ Materialized(s)
Deciding(s)  == \/ ToReview(s) \/ (Reviewing(s) /\ Head(s).do = "step") \/ Resuming(s)
                \/ Rerunning(s) \/ Resumed(s) \/ Failing(s)

\* No receipt yet.
Unanswered(c) ==
  /\ \A q \in Procs : on[q] = c => ~ Answering(todo[q]) /\ ~ Deciding(todo[q])
  /\ << c, "materialization" >> \notin steps /\ << c, "review" >> \notin steps
  /\ << c, "packet_rerun" >> \notin steps
  /\ inst[c] \in Untold

\* The one who recorded the receipt is at work.
Answer(c, p) ==
  /\ on[p] = c
  /\ \A q \in Procs : on[q] = c => ~ Deciding(todo[q]) /\ (Answering(todo[q]) => q = p)
  /\ inst[c] = IF Accepting(todo[p]) THEN "waiting_owner" ELSE "input_accepted"
  /\ << c, "review" >> \notin steps /\ << c, "packet_rerun" >> \notin steps
  /\ \/ << c, "materialization" >> \notin steps
        /\ \/ Accepting(todo[p]) \/ Closing(todo[p])
           \/ Materializing(todo[p]) /\ Head(todo[p]).do = "step"
     \/ Materializing(todo[p]) /\ Head(todo[p]).do = "op"
     \/ /\ HasRow(c, << "materialization", 0 >>)
        /\ \/ Materializing(todo[p]) /\ Head(todo[p]).do # "step"
           \/ Materialized(todo[p])

\* Where a verdict stands.
Agrees(c, s) ==
  \/ ToReview(s) /\ inst[c] = "materializing"
  \/ Reviewing(s) /\ inst[c] = "waiting_review"
  \/ Resuming(s) /\ inst[c] = "waiting_review"
  \/ Failing(s) /\ inst[c] \in { "materializing", "waiting_review" }
  \/ /\ Rerunning(s) /\ inst[c] = "resumable"
     /\ Head(s).do # "step" => << c, "packet_rerun" >> \in steps
  \/ Resumed(s) /\ inst[c] = "resumable" /\ << c, "packet_rerun" >> \in steps

\* The materialization task is enqueued, and verdicts are reported one by one.
Judged(c) ==
  /\ HasRow(c, << "materialization", 0 >>)
  /\ \/ /\ inst[c] = "materializing"
        /\ << c, "review" >> \notin steps /\ << c, "packet_rerun" >> \notin steps
     \/ inst[c] \in { "waiting_review", "failed_retryable" } /\ << c, "packet_rerun" >> \notin steps
     \/ inst[c] = "resumable" /\ \E r \in Procs : on[r] = c /\ (Rerunning(todo[r]) \/ Resumed(todo[r]))
     \/ inst[c] = "resumed" /\ << c, "packet_rerun" >> \in steps
  /\ \A q \in Procs : on[q] = c =>
       /\ ~ Answering(todo[q])
       /\ Deciding(todo[q]) => q \in Reviewers /\ Agrees(c, todo[q])

XInv ==
  crashes = 0 => \A c \in Conts : kind[c] = "owner" =>
    /\ receipts[c] = 0 => Unanswered(c)
    /\ receipts[c] = 1 => Judged(c) \/ \E p \in Procs : Answer(c, p)

\* The places of the answer and of the verdicts exclude the others.
LEMMA Apart ==
  ASSUME NEW s
  PROVE  /\ Answering(s) => ~ Deciding(s)
         /\ Asking(s) \/ Casing(s) \/ Anchoring(s) \/ Subscribing(s) \/ Passing(s) \/ Replaying(s)
              \/ Receiving(s) \/ Receipting(s) => ~ Answering(s) /\ ~ Deciding(s)
         /\ OwnerAgenda(s) /\ ~ Answering(s) /\ ~ Deciding(s)
              => \/ Asking(s) \/ Casing(s) \/ Anchoring(s) \/ Subscribing(s) \/ Passing(s) \/ Replaying(s)
                 \/ Receiving(s) \/ Receipting(s) \/ (Reviewing(s) /\ Head(s).do # "step")
<1>1. Answering(s) => ~ Deciding(s)
  BY PlaceTells DEF Answering, Deciding, Moving, Working
<1>2. Replaying(s) => ~ Answering(s) /\ ~ Deciding(s)
  <2>1. Replaying(s) => Tail(s) = << >> /\ Head(s).do \in { "call", "applied", "failed", "task" }
    BY PlaceTells DEF Replaying
  <2>2. Closing(s) \/ Materializing(s) \/ Rerunning(s) => Tail(s) # << >>
    BY DEF Closing, Materializing, Materialized, Rerunning, Resumed, Moves, Works, Stands
  <2>3. Accepting(s) \/ Materialized(s) \/ ToReview(s) \/ Resuming(s) \/ Resumed(s) \/ Failing(s)
          => Head(s).do \in Moving
    BY PlaceTells
  <2>. QED
    BY <2>1, <2>2, <2>3 DEF Answering, Deciding, Moving
<1>3. Asking(s) \/ Casing(s) \/ Anchoring(s) \/ Subscribing(s) \/ Passing(s) \/ Receiving(s) \/ Receipting(s)
        => ~ Answering(s) /\ ~ Deciding(s)
  BY PlaceTells DEF Answering, Deciding, Moving, Working
<1>4. OwnerAgenda(s) /\ ~ Answering(s) /\ ~ Deciding(s)
        => \/ Asking(s) \/ Casing(s) \/ Anchoring(s) \/ Subscribing(s) \/ Passing(s) \/ Replaying(s)
           \/ Receiving(s) \/ Receipting(s) \/ (Reviewing(s) /\ Head(s).do # "step")
  BY DEF OwnerAgenda, Open, Planning, Answered, Verdict, Answering, Deciding
<1>. QED
  BY <1>1, <1>2, <1>3, <1>4

\* Nobody comes into an answer or a verdict by the end of another item.
LEMMA StaysApart ==
  ASSUME NEW s, OwnerAgenda(s), ~ Answering(s), ~ Deciding(s), NEW t, t # << >>, Dropped(s, t) \/ Rewritten(s, t)
  PROVE  ~ Answering(t) /\ ~ Deciding(t)
<1>1. s # << >>
  BY NotOver DEF Answering, Deciding, OwnerAgenda
<1>2. CASE Rewritten(s, t)
  <2>1. Answering(t) <=> Answering(s)
    BY <1>1, <1>2, SamePlace DEF Answering
  <2>2. Head(t).do # "step"
    BY <1>2 DEF Rewritten, Moving
  <2>3. Deciding(t) => Deciding(s)
    BY <1>1, <1>2, <2>2, SamePlace DEF Deciding
  <2>. QED
    BY <2>1, <2>3
<1>3. CASE Dropped(s, t)
  <2>1. /\ Closing(t) => Accepting(s)
        /\ Materializing(t) => Accepting(s) \/ Closing(s)
        /\ Reviewing(t) => ToReview(s)
        /\ Rerunning(t) => Resuming(s)
        /\ ~ Accepting(t) /\ ~ ToReview(t) /\ ~ Resuming(t)
    BY <1>3, AfterHead
  <2>2. Asking(s) \/ Casing(s) \/ Anchoring(s) \/ Subscribing(s) \/ Passing(s) \/ Replaying(s)
          \/ Receiving(s) \/ Receipting(s) \/ (Reviewing(s) /\ Head(s).do # "step")
    BY Apart
  <2>3. ~ Materialized(t) /\ ~ Resumed(t) /\ ~ Failing(t)
    <3>1. Materialized(t) \/ Resumed(t) \/ Failing(t) => Head(t).do \in Moving /\ Head(t).what # "waiting_owner"
      BY PlaceTells
    <3>2. CASE Asking(s)
      <4>1. Casing(Tail(s)) \/ Receiving(Tail(s))
        BY <3>2 DEF Asking
      <4>2. Head(Tail(s)).do \in { "case", "receive" } /\ Head(Tail(s)).what # "subscribe"
        BY <4>1, PlaceTells
      <4>. QED
        BY <1>3, <3>1, <4>2 DEF Dropped, Moving
    <3>3. CASE Casing(s)
      <4>1. Anchoring(Tail(s))
        BY <3>3 DEF Casing
      <4>2. Head(Tail(s)).do \in Working /\ Head(Tail(s)).what # "subscribe"
        BY <4>1, PlaceTells
      <4>. QED
        BY <1>3, <3>1, <4>2 DEF Dropped, Moving, Working
    <3>4. CASE Anchoring(s)
      <4>1. Subscribing(Tail(s)) \/ Passing(Tail(s))
        BY <3>4 DEF Anchoring
      <4>2. Head(Tail(s)).do \in Working \cup { "pass" }
        BY <4>1, PlaceTells
      <4>3. Head(Tail(s)).what = "subscribe" => Head(Tail(Tail(s))).do = "pass"
        BY <4>1, PlaceTells DEF Subscribing
      <4>. QED
        BY <1>3, <3>1, <4>2, <4>3 DEF Dropped, Moving, Working
    <3>5. CASE Subscribing(s) \/ Receiving(s)
      <4>1. Passing(Tail(s))
        BY <3>5 DEF Subscribing, Receiving
      <4>2. Head(Tail(s)).do = "pass" /\ Head(Tail(s)).what # "subscribe"
        BY <4>1, PlaceTells
      <4>. QED
        BY <1>3, <3>1, <4>2 DEF Dropped, Moving
    <3>6. CASE Receipting(s)
      <4>1. Tail(s) = << >> \/ Passing(Tail(s))
        BY <3>6 DEF Receipting, Ending
      <4>2. Tail(s) # << >> => Head(Tail(s)).do = "pass" /\ Head(Tail(s)).what # "subscribe"
        BY <4>1, PlaceTells
      <4>. QED
        BY <1>3, <3>1, <4>2 DEF Dropped, Moving
    <3>7. CASE Passing(s) \/ Replaying(s) \/ Reviewing(s)
      BY <1>3, <3>7 DEF Passing, Replaying, Reviewing, Dropped
    <3>. QED
      BY <2>2, <3>2, <3>3, <3>4, <3>5, <3>6, <3>7
  <2>. QED
    BY <2>1, <2>3 DEF Answering, Deciding
<1>. QED
  BY <1>2, <1>3

\* Whoever is neither at the answer nor at a verdict only asks, replays and
\* records receipts.
LEMMA AsideTurns ==
  ASSUME IInv, NEW p \in Procs, Execute(p), NEW c \in Conts, on[p] = c, kind[c] = "owner",
         ~ Answering(todo[p]), ~ Deciding(todo[p])
  PROVE  \/ /\ receipts'[c] = receipts[c] + 1 /\ UNCHANGED << inst, steps >>
            /\ on'[p] = c /\ Receipting(todo[p]) /\ Accepting(todo'[p])
         \/ /\ receipts' = receipts
            /\ on'[p] = c => ~ Answering(todo'[p]) /\ ~ Deciding(todo'[p])
            /\ \A k \in { "materialization", "review", "packet_rerun" } : << c, k >> \in steps' <=> << c, k >> \in steps
            /\ inst'[c] = inst[c] \/ (inst[c] = "detected" /\ inst'[c] = "waiting_owner")
<1>. DEFINE s == todo[p]
<1>1. PICK t : Goes(p, t)
  BY ExecuteTurns
<1>2. /\ s # << >> /\ todo'[p] = t /\ on'[p] = (IF t = << >> THEN NoCont ELSE c) /\ NoCont # c
      /\ OwnerAgenda(s) /\ \A u : Goes(p, u) => u = t
  BY <1>1, ExecuteTurns, GoesAlone, Busy, OwnerAssumption
<1>3. inst \in [Conts -> ContinuationState \union { "none" }] /\ receipts \in [Conts -> 0 .. MaxReceipts]
  BY DEF IInv, TypeOK
<1>4. Asking(s) \/ Casing(s) \/ Anchoring(s) \/ Subscribing(s) \/ Passing(s) \/ Replaying(s)
        \/ Receiving(s) \/ Receipting(s) \/ (Reviewing(s) /\ Head(s).do # "step")
  BY <1>2, Apart
<1>5. CASE AddReceipt(p)
  <2>1. receipts'[c] = receipts[c] + 1 /\ Receipting(s) /\ Accepting(t)
    BY <1>2, <1>3, <1>5, AddReceiptTurns
  <2>2. t # << >>
    BY <2>1 DEF Accepting, Moves, Stands
  <2>. QED
    BY <1>2, <1>5, <2>1, <2>2 DEF AddReceipt
<1>6. CASE ~ AddReceipt(p)
  <2>1. receipts' = receipts
    BY <1>6 DEF Execute, MoveRead, MoveWrite, AddStep, Enqueue, Call, MarkApplied,
       MarkFailed, MarkStep, Receive, CloseAnchor, OpenCase, Register, Judge, Pass, store
  <2>2. ~ CloseAnchor(p) /\ ~ Judge(p)
    <3>1. Head(s).do # "close" /\ Head(s).do # "judge"
      BY <1>4, PlaceTells DEF Moving, Working
    <3>. QED
      BY <3>1 DEF CloseAnchor, Judge, At
  <2>3. Rewritten(s, t) \/ Dropped(s, t) \/ Receipting(t)
    <3>1. CASE MoveRead(p)
      BY <1>2, <3>1, MoveReadTurns DEF Dropped
    <3>2. CASE MoveWrite(p)
      BY <1>2, <3>2, MoveWriteTurns DEF Dropped
    <3>3. CASE AddStep(p)
      BY <1>2, <3>3, AddStepTurns
    <3>4. CASE Enqueue(p)
      BY <1>2, <3>4, EnqueueTurns
    <3>5. CASE Call(p)
      BY <1>2, <3>5, CallTurns
    <3>6. CASE MarkApplied(p) \/ MarkFailed(p) \/ MarkStep(p)
      BY <1>2, <3>6, MarkTurns
    <3>7. CASE Receive(p)
      BY <1>2, <3>7, ReceiveTurns DEF Dropped
    <3>8. CASE OpenCase(p) \/ Register(p) \/ Pass(p)
      BY <1>2, <3>8, OneTurns DEF Dropped
    <3>. QED
      BY <1>6, <2>2, <3>1, <3>2, <3>3, <3>4, <3>5, <3>6, <3>7, <3>8 DEF Execute
  <2>4. on'[p] = c => ~ Answering(t) /\ ~ Deciding(t)
    BY <1>2, <2>3, StaysApart, Apart
  <2>5. \A k \in { "materialization", "review", "packet_rerun" } : << c, k >> \in steps' <=> << c, k >> \in steps
    <3>1. CASE AddStep(p)
      <4>1. Head(s).do = "step" /\ steps' = steps \union {<< c, Head(s).what >>} /\ Head(s).what \in StepKinds
        BY <3>1, AddStepTurns
      <4>2. Head(s).what = "owner_anchor"
        BY <1>4, <4>1, PlaceTells DEF Moving, StepKinds
      <4>. QED
        BY <4>1, <4>2
    <3>2. CASE ~ AddStep(p)
      BY <1>6, <3>2 DEF Execute, MoveRead, MoveWrite, Enqueue, Call, MarkApplied,
         MarkFailed, MarkStep, Receive, CloseAnchor, OpenCase, Register, Judge, Pass, store
    <3>. QED
      BY <3>1, <3>2
  <2>6. inst'[c] = inst[c] \/ (inst[c] = "detected" /\ inst'[c] = "waiting_owner")
    <3>1. CASE MoveWrite(p)
      <4>1. Head(s).do = "write" /\ inst'[c] = Head(s).what
        BY <1>2, <1>3, <3>1, MoveWriteTurns
      <4>2. Asking(s)
        BY <1>4, <4>1, PlaceTells DEF Working
      <4>3. Head(s).what = "waiting_owner" /\ inst[c] = "detected"
        BY <4>2, PlaceTells DEF IInv, Order
      <4>. QED
        BY <4>1, <4>3
    <3>2. CASE ~ MoveWrite(p)
      BY <1>6, <3>2 DEF Execute, MoveRead, AddStep, Enqueue, Call, MarkApplied,
         MarkFailed, MarkStep, Receive, CloseAnchor, OpenCase, Register, Judge, Pass, store
    <3>. QED
      BY <3>1, <3>2
  <2>. QED
    BY <1>2, <2>1, <2>4, <2>5, <2>6
<1>. QED
  BY <1>5, <1>6

\* A step beside the answer and the verdicts.
LEMMA SideStep ==
  ASSUME NEW p \in Procs, NEW c \in Conts,
         \A q \in Procs \ { p } : todo'[q] = todo[q] /\ on'[q] = on[q],
         on[p] = c => ~ Answering(todo[p]) /\ ~ Deciding(todo[p]),
         on'[p] = c => ~ Answering(todo'[p]) /\ ~ Deciding(todo'[p]),
         \A k \in { "materialization", "review", "packet_rerun" } : << c, k >> \in steps' <=> << c, k >> \in steps,
         HasRow(c, << "materialization", 0 >>) => HasRow(c, << "materialization", 0 >>)',
         \/ inst'[c] = inst[c]
         \/ inst[c] \in { "none", "detected" } /\ inst'[c] \in Untold
  PROVE  /\ Unanswered(c) => Unanswered(c)'
         /\ Judged(c) => Judged(c)'
         /\ \A r \in Procs : Answer(c, r) => Answer(c, r)'
<1>1. Unanswered(c) => Unanswered(c)'
  BY DEF Unanswered
<1>2. ASSUME Judged(c) PROVE Judged(c)'
  <2>1. inst'[c] = inst[c] /\ HasRow(c, << "materialization", 0 >>)'
    BY <1>2 DEF Judged
  <2>2. \A r \in Procs : on[r] = c /\ (Rerunning(todo[r]) \/ Resumed(todo[r]))
          => on'[r] = c /\ (Rerunning(todo'[r]) \/ Resumed(todo'[r]))
    BY DEF Deciding
  <2>3. ASSUME NEW q \in Procs, on'[q] = c
        PROVE  /\ ~ Answering(todo'[q])
               /\ Deciding(todo'[q]) => q \in Reviewers /\ Agrees(c, todo[q]) /\ todo'[q] = todo[q]
    BY <1>2, <2>3 DEF Judged
  <2>4. \A q \in Procs : Agrees(c, todo[q]) /\ todo'[q] = todo[q] => Agrees(c, todo[q])'
    BY <2>1 DEF Agrees
  <2>. QED
    BY <1>2, <2>1, <2>2, <2>3, <2>4 DEF Judged
<1>3. ASSUME NEW r \in Procs, Answer(c, r) PROVE Answer(c, r)'
  <2>1. Answering(todo[r]) /\ on[r] = c
    BY <1>3 DEF Answer, Answering
  <2>2. r # p /\ on'[r] = c /\ todo'[r] = todo[r]
    BY <2>1
  <2>3. inst'[c] = inst[c]
    BY <1>3 DEF Answer
  <2>. QED
    BY <1>3, <2>2, <2>3 DEF Answer
<1>. QED
  BY <1>1, <1>2, <1>3

\* A row stays.
LEMMA RowStays ==
  ASSUME IInv, NEW p \in Procs, Execute(p), NEW c \in Conts, NEW k \in Keys, HasRow(c, k)
  PROVE  HasRow(c, k)'
<1>1. CASE UNCHANGED outbox
  BY <1>1 DEF HasRow
<1>2. CASE ~ UNCHANGED outbox
  <2>. DEFINE j == Key(Head(todo[p]))
  <2>1. /\ \A d \in Conts, i \in Keys : << d, i >> # << on[p], j >> => outbox'[d][i] = outbox[d][i]
        /\ outbox'[on[p]][j].state # "absent"
    BY <1>2, ExecuteWrites
  <2>. HIDE DEF j
  <2>. QED
    BY <2>1 DEF HasRow
<1>. QED
  BY <1>1, <1>2

\* The one who recorded the receipt goes on, alone, to the last transition.
LEMMA AnswerTurns ==
  ASSUME IInv, NEW p \in Procs, Execute(p), NEW c \in Conts, kind[c] = "owner", Answer(c, p)
  PROVE  Answer(c, p)' \/ Judged(c)'
<1>. DEFINE s == todo[p]
            m == << "materialization", 0 >>
<1>1. PICK t : Goes(p, t)
  BY ExecuteTurns
<1>2. /\ s # << >> /\ todo'[p] = t /\ on'[p] = (IF t = << >> THEN NoCont ELSE c) /\ NoCont # c
      /\ on[p] = c /\ OwnerAgenda(s)
      /\ \A q \in Procs \ { p } : todo'[q] = todo[q] /\ on'[q] = on[q]
      /\ \A u : Goes(p, u) => u = t
  BY <1>1, ExecuteTurns, GoesAlone, Busy, OwnerAssumption DEF Answer
<1>3. inst \in [Conts -> ContinuationState \union { "none" }]
  BY DEF IInv, TypeOK
<1>4. m \in Keys /\ "materialization" \in StepKinds
  BY ItemsAreTyped DEF StepKinds
<1>5. Answering(s)
  BY DEF Answer, Answering
<1>6. HasRow(c, m) => HasRow(c, m)'
  BY <1>4, RowStays
<1>7. \A q \in Procs \ { p } : on'[q] = c => ~ Answering(todo'[q]) /\ ~ Deciding(todo'[q])
  BY <1>2 DEF Answer
<1>8. /\ ~ AddStep(p) => steps' = steps
      /\ ~ MoveWrite(p) => inst' = inst
  BY DEF Execute, MoveRead, MoveWrite, AddStep, Enqueue, Call, MarkApplied, MarkFailed, MarkStep, Receive,
     AddReceipt, CloseAnchor, OpenCase, Register, Judge, Pass, store
\* What has to be shown of a process that is still at it.
<1>9. ASSUME t # << >>, Answering(t),
             inst'[c] = IF Accepting(t) THEN "waiting_owner" ELSE "input_accepted",
             << c, "review" >> \notin steps', << c, "packet_rerun" >> \notin steps',
             \/ << c, "materialization" >> \notin steps'
                /\ \/ Accepting(t) \/ Closing(t)
                   \/ Materializing(t) /\ Head(t).do = "step"
             \/ Materializing(t) /\ Head(t).do = "op"
             \/ /\ HasRow(c, m)'
                /\ \/ Materializing(t) /\ Head(t).do # "step"
                   \/ Materialized(t)
      PROVE  Answer(c, p)'
  <2>1. ~ Deciding(t)
    BY <1>9, Apart
  <2>2. on'[p] = c
    BY <1>2, <1>9
  <2>. QED
    BY <1>2, <1>7, <1>9, <2>1, <2>2 DEF Answer
<1>10. CASE Accepting(s)
  <2>1. Head(s).do \in Moving /\ Head(s).what = "input_accepted" /\ inst[c] = "waiting_owner"
    BY <1>10, PlaceTells DEF Answer
  <2>2. << c, "materialization" >> \notin steps
    <3>1. ~ Materializing(s) /\ ~ Materialized(s)
      BY <2>1, PlaceTells DEF Moving, Working
    <3>. QED
      BY <3>1 DEF Answer
  <2>3. MoveRead(p) \/ MoveWrite(p)
    BY <2>1 DEF Moving, Execute, AddStep, Enqueue, Call, MarkApplied, MarkFailed, MarkStep, Receive,
       AddReceipt, CloseAnchor, OpenCase, Register, Judge, Pass, At
  <2>4. steps' = steps
    BY <2>3 DEF MoveRead, MoveWrite, store
  <2>5. CASE MoveRead(p)
    <3>1. Legal(inst[c], Head(s).what)
      BY <2>1 DEF Legal, TERMINAL_STATES, ALLOWED_TRANSITIONS, ContinuationState
    <3>2. Rewritten(s, t) /\ inst' = inst
      BY <1>2, <2>5, <3>1, MoveReadTurns DEF MoveRead, store
    <3>3. Accepting(t) /\ t # << >>
      BY <1>2, <1>10, <3>2, SamePlace DEF Rewritten
    <3>. QED
      BY <1>9, <2>1, <2>2, <2>4, <3>2, <3>3 DEF Answering, Answer
  <2>6. CASE MoveWrite(p)
    <3>1. t = Tail(s) /\ inst'[c] = "input_accepted"
      BY <1>2, <1>3, <2>1, <2>6, MoveWriteTurns
    <3>2. (Closing(t) \/ Materializing(t)) /\ Fresh(t) /\ t # << >>
      BY <1>10, <3>1 DEF Accepting, Closing, Materializing, Does, Works, Moves, Stands
    <3>3. ~ Accepting(t)
      BY <3>2, PlaceTells DEF Moving, Working
    <3>4. Materializing(t) => Head(t).do = "step"
      BY <3>2, PlaceTells DEF Fresh, Working
    <3>. QED
      BY <1>9, <2>2, <2>4, <3>1, <3>2, <3>3, <3>4 DEF Answering, Answer
  <2>. QED
    BY <2>3, <2>5, <2>6
<1>11. CASE Closing(s)
  <2>1. \/ Head(s).do = "close"
        \/ Head(s).do \in Working \ { "step", "task" } /\ Works(s, "complete_owner_anchor")
             /\ Head(s).what = "complete_owner_anchor"
    <3>1. Works(s, "complete_owner_anchor") => Head(s).do \in Working \ { "step", "task" } /\ Head(s).what = "complete_owner_anchor"
      BY DEF Works, Stands, StepKinds
    <3>. QED
      BY <1>11, <3>1 DEF Closing, Does, Stands
  <2>2. ~ Accepting(s) /\ ~ Materializing(s) /\ ~ Materialized(s)
    BY <2>1, PlaceTells DEF Moving, Working
  <2>3. inst[c] = "input_accepted" /\ << c, "materialization" >> \notin steps
    BY <2>2 DEF Answer
  <2>4. CloseAnchor(p) \/ Enqueue(p) \/ Call(p) \/ MarkApplied(p) \/ MarkFailed(p)
    BY <2>1 DEF Working, Execute, AddStep, MoveRead, MoveWrite, MarkStep, Receive,
       AddReceipt, OpenCase, Register, Judge, Pass, At
  <2>5. UNCHANGED << inst, steps >>
    BY <2>4 DEF CloseAnchor, Enqueue, Call, MarkApplied, MarkFailed, store
  <2>6. Materializing(Tail(s)) /\ Fresh(Tail(s)) /\ Tail(s) # << >> /\ Head(Tail(s)).do = "step"
        /\ Head(Tail(s)).what = "materialization"
    <3>1. Materializing(Tail(s)) /\ Fresh(Tail(s)) /\ Tail(s) # << >>
      BY <1>11 DEF Closing, Does, Works, Materializing, Stands
    <3>. QED
      BY <3>1, PlaceTells DEF Fresh, Working
  <2>7. Closing(t) \/ t = Tail(s)
    <3>1. CASE CloseAnchor(p)
      BY <1>2, <3>1, CloseTurns
    <3>2. CASE Enqueue(p)
      BY <1>2, <1>11, <2>6, <3>2, EnqueueTurns, SamePlace DEF Dropped
    <3>3. CASE Call(p)
      BY <1>2, <1>11, <2>6, <3>3, CallTurns, SamePlace DEF Dropped
    <3>4. CASE MarkApplied(p) \/ MarkFailed(p)
      BY <1>2, <1>11, <2>6, <3>4, MarkTurns, SamePlace DEF Dropped
    <3>. QED
      BY <2>4, <3>1, <3>2, <3>3, <3>4
  <2>8. t # << >> /\ ~ Accepting(t)
    <3>1. Closing(t) => t # << >>
      BY DEF Closing, Does, Works, Stands
    <3>. QED
      BY <2>6, <2>7, <3>1, PlaceTells DEF Moving, Working
  <2>. QED
    BY <1>9, <2>3, <2>5, <2>6, <2>7, <2>8 DEF Answering, Answer
<1>12. CASE Materializing(s)
  <2>1. Head(s).do \in Working /\ Head(s).what = "materialization" /\ Key(Head(s)) = m
    <3>1. Head(s).do \in Working /\ Head(s).what = "materialization"
      BY <1>12, PlaceTells
    <3>2. Key(Head(s)) = << Head(s).what, 0 >>
      BY <1>2, <1>4, <3>1, WorkTells
    <3>. QED
      BY <3>1, <3>2
  <2>2. ~ Accepting(s) /\ ~ Closing(s) /\ ~ Materialized(s) /\ inst[c] = "input_accepted"
    <3>1. ~ Accepting(s) /\ ~ Closing(s) /\ ~ Materialized(s)
      BY <2>1, PlaceTells DEF Moving, Working
    <3>. QED
      BY <3>1 DEF Answer
  <2>3. Materialized(Tail(s)) /\ Tail(s) # << >> /\ Head(Tail(s)).what = "materializing"
    BY <1>12, PlaceTells DEF Materializing, Materialized, Moves, Stands
  <2>4. AddStep(p) \/ Enqueue(p) \/ Call(p) \/ MarkApplied(p) \/ MarkFailed(p) \/ MarkStep(p)
    BY <2>1 DEF Working, Execute, MoveRead, MoveWrite, Receive, AddReceipt, CloseAnchor, OpenCase, Register,
       Judge, Pass, At
  <2>5. inst' = inst
    BY <2>4 DEF AddStep, Enqueue, Call, MarkApplied, MarkFailed, MarkStep, store
  <2>6. ASSUME Rewritten(s, t) PROVE Materializing(t) /\ t # << >> /\ Head(t).do # "step" /\ ~ Accepting(t)
    <3>1. Materializing(t) /\ t # << >> /\ Head(t).do # "step"
      BY <1>2, <1>12, <2>1, <2>6, SamePlace DEF Rewritten, Moving, Working
    <3>. QED
      BY <3>1, PlaceTells DEF Moving, Working
  <2>7. ~ Accepting(Tail(s))
    BY <2>3, PlaceTells
  <2>8. CASE AddStep(p)
    <3>1. /\ Head(s).do = "step" /\ steps' = steps \union {<< c, "materialization" >>}
          /\ \/ << c, "materialization" >> \notin steps /\ Rewritten(s, t) /\ Head(t).do = "op"
             \/ << c, "materialization" >> \in steps
      BY <1>2, <2>1, <2>8, AddStepTurns
    <3>2. << c, "materialization" >> \notin steps
      BY <2>2, <3>1 DEF Answer
    <3>3. << c, "review" >> \notin steps' /\ << c, "packet_rerun" >> \notin steps'
      BY <3>1 DEF Answer
    <3>. QED
      BY <1>9, <2>2, <2>5, <2>6, <3>1, <3>2, <3>3 DEF Answering
  <2>9. CASE ~ AddStep(p)
    <3>1. steps' = steps /\ Head(s).do # "step"
      BY <1>8, <2>4, <2>9 DEF Enqueue, Call, MarkApplied, MarkFailed, MarkStep, At
    <3>2. HasRow(c, m)'
      <4>1. CASE Head(s).do = "op"
        <5>1. Enqueue(p)
          BY <2>4, <4>1 DEF AddStep, Call, MarkApplied, MarkFailed, MarkStep, At
        <5>. DEFINE row == Enqueued(outbox[c][m])
        <5>2. outbox' = [outbox EXCEPT ![c][m] = row]
          BY <1>2, <2>1, <5>1, EnqueueTurns
        <5>3. row.state # "absent"
          <6>1. outbox[c][m] \in Row
            BY <1>4 DEF IInv, TypeOK
          <6>. QED
            BY <6>1, RowsAreTyped
        <5>. HIDE DEF row
        <5>4. outbox'[c][m] = row
          BY <1>4, <5>2 DEF IInv, TypeOK
        <5>. QED
          BY <5>3, <5>4 DEF HasRow
      <4>2. CASE Head(s).do # "op"
        <5>1. HasRow(c, m)
          BY <2>2, <3>1, <4>2 DEF Answer
        <5>. QED
          BY <1>6, <5>1
      <4>. QED
        BY <4>1, <4>2
    <3>3. Rewritten(s, t) \/ t = Tail(s)
      <4>1. CASE Enqueue(p)
        BY <1>2, <2>3, <4>1, EnqueueTurns DEF Dropped
      <4>2. CASE Call(p)
        BY <1>2, <2>3, <4>2, CallTurns DEF Dropped
      <4>3. CASE MarkApplied(p) \/ MarkFailed(p) \/ MarkStep(p)
        BY <1>2, <2>3, <4>3, MarkTurns DEF Dropped
      <4>. QED
        BY <2>4, <2>9, <4>1, <4>2, <4>3
    <3>4. << c, "review" >> \notin steps' /\ << c, "packet_rerun" >> \notin steps' /\ inst'[c] = "input_accepted"
      BY <2>2, <2>5, <3>1 DEF Answer
    <3>5. CASE Rewritten(s, t)
      BY <1>9, <2>6, <3>2, <3>4, <3>5 DEF Answering
    <3>6. CASE t = Tail(s)
      BY <1>9, <2>3, <2>7, <3>2, <3>4, <3>6 DEF Answering
    <3>. QED
      BY <3>3, <3>5, <3>6
  <2>. QED
    BY <2>8, <2>9
<1>13. CASE Materialized(s)
  <2>1. Head(s).do \in Moving /\ Head(s).what = "materializing"
    BY <1>13, PlaceTells
  <2>2. ~ Accepting(s) /\ ~ Closing(s) /\ ~ Materializing(s)
    BY <2>1, PlaceTells DEF Moving, Working
  <2>3. inst[c] = "input_accepted" /\ HasRow(c, m)
    BY <2>2 DEF Answer
  <2>4. MoveRead(p) \/ MoveWrite(p)
    BY <2>1 DEF Moving, Execute, AddStep, Enqueue, Call, MarkApplied, MarkFailed, MarkStep, Receive,
       AddReceipt, CloseAnchor, OpenCase, Register, Judge, Pass, At
  <2>5. steps' = steps
    BY <2>4 DEF MoveRead, MoveWrite, store
  <2>6. CASE MoveRead(p)
    <3>1. Legal(inst[c], Head(s).what)
      BY <2>1, <2>3 DEF Legal, TERMINAL_STATES, ALLOWED_TRANSITIONS, ContinuationState
    <3>2. Rewritten(s, t) /\ inst' = inst
      BY <1>2, <2>6, <3>1, MoveReadTurns DEF MoveRead, store
    <3>3. Materialized(t) /\ t # << >> /\ ~ Accepting(t)
      <4>1. Materialized(t) /\ t # << >>
        BY <1>2, <1>13, <3>2, SamePlace DEF Rewritten
      <4>. QED
        BY <4>1, PlaceTells
    <3>. QED
      BY <1>6, <1>9, <2>3, <2>5, <3>2, <3>3 DEF Answering, Answer
  <2>7. CASE MoveWrite(p)
    <3>1. t = Tail(s) /\ inst'[c] = "materializing"
      BY <1>2, <1>3, <2>1, <2>7, MoveWriteTurns
    <3>2. t = << >> \/ Passing(t)
      BY <1>13, <3>1 DEF Materialized, Ending
    <3>3. \A q \in Procs : on'[q] = c => ~ Answering(todo'[q]) /\ ~ Deciding(todo'[q])
      BY <1>2, <1>7, <3>2, Apart
    <3>4. << c, "review" >> \notin steps' /\ << c, "packet_rerun" >> \notin steps'
      BY <2>5 DEF Answer
    <3>. QED
      BY <1>6, <2>3, <3>1, <3>3, <3>4 DEF Judged
  <2>. QED
    BY <2>4, <2>6, <2>7
<1>. QED
  BY <1>5, <1>10, <1>11, <1>12, <1>13 DEF Answering

\* The one who reports the verdicts, at the transitions and the steps of one.
LEMMA DecidingTurns ==
  ASSUME IInv, \A r, q \in Reviewers : r = q, NEW p \in Procs, Execute(p),
         NEW c \in Conts, on[p] = c, kind[c] = "owner", Judged(c), Deciding(todo[p])
  PROVE  Judged(c)'
<1>. DEFINE s == todo[p]
            m == << "materialization", 0 >>
<1>1. PICK t : Goes(p, t)
  BY ExecuteTurns
<1>2. /\ s # << >> /\ todo'[p] = t /\ on'[p] = (IF t = << >> THEN NoCont ELSE c) /\ NoCont # c
      /\ OwnerAgenda(s)
      /\ \A q \in Procs \ { p } : todo'[q] = todo[q] /\ on'[q] = on[q]
      /\ \A u : Goes(p, u) => u = t
  BY <1>1, ExecuteTurns, GoesAlone, Busy, OwnerAssumption
<1>3. inst \in [Conts -> ContinuationState \union { "none" }]
  BY DEF IInv, TypeOK
<1>4. HasRow(c, m)'
  BY RowStays, ItemsAreTyped DEF Judged, StepKinds
<1>5. p \in Reviewers /\ Agrees(c, s)
  BY DEF Judged
<1>6. \A q \in Procs \ { p } : on'[q] = c => ~ Answering(todo'[q]) /\ ~ Deciding(todo'[q])
  BY <1>2, <1>5 DEF Judged
\* What has to be shown of the process and the instance.
<1>7. ASSUME t # << >> => ~ Answering(t) /\ (Deciding(t) => Agrees(c, t)'),
             \/ /\ inst'[c] = "materializing"
                /\ << c, "review" >> \notin steps' /\ << c, "packet_rerun" >> \notin steps'
             \/ inst'[c] \in { "waiting_review", "failed_retryable" } /\ << c, "packet_rerun" >> \notin steps'
             \/ inst'[c] = "resumable" /\ t # << >> /\ (Rerunning(t) \/ Resumed(t))
             \/ inst'[c] = "resumed" /\ << c, "packet_rerun" >> \in steps'
      PROVE  Judged(c)'
  <2>1. ASSUME NEW q \in Procs, on'[q] = c
        PROVE  ~ Answering(todo'[q]) /\ (Deciding(todo'[q]) => q \in Reviewers /\ Agrees(c, todo[q])')
    <3>1. CASE q = p
      BY <1>2, <1>5, <1>7, <2>1, <3>1
    <3>2. CASE q # p
      BY <1>6, <2>1, <3>2
    <3>. QED
      BY <3>1, <3>2
  <2>2. inst'[c] = "resumable" /\ t # << >> /\ (Rerunning(t) \/ Resumed(t))
          => \E r \in Procs : on'[r] = c /\ (Rerunning(todo'[r]) \/ Resumed(todo'[r]))
    BY <1>2
  <2>. QED
    BY <1>4, <1>7, <2>1, <2>2 DEF Judged
<1>8. /\ Head(s).do \in Moving => MoveRead(p) \/ MoveWrite(p)
      /\ Head(s).do = "step" => AddStep(p)
      /\ Head(s).do \in Working \ { "step" } => Enqueue(p) \/ Call(p) \/ MarkApplied(p) \/ MarkFailed(p) \/ MarkStep(p)
  BY DEF Moving, Working, Execute, MoveRead, MoveWrite, AddStep, Enqueue, Call, MarkApplied, MarkFailed,
     MarkStep, Receive, AddReceipt, CloseAnchor, OpenCase, Register, Judge, Pass, At
\* The transitions of a verdict are legal where they are written.
<1>9. ASSUME Head(s).do \in Moving
      PROVE  /\ steps' = steps
             /\ \/ Rewritten(s, t) /\ inst' = inst
                \/ t = Tail(s) /\ inst'[c] = Head(s).what
  <2>1. Legal(inst[c], Head(s).what)
    <3>1. ~ Reviewing(s) /\ ~ Rerunning(s)
      BY <1>9, PlaceTells DEF Moving, Working
    <3>2. \/ Head(s).what = "waiting_review" /\ inst[c] = "materializing"
          \/ Head(s).what = "resumable" /\ inst[c] = "waiting_review"
          \/ Head(s).what = "failed_retryable" /\ inst[c] \in { "materializing", "waiting_review" }
          \/ Head(s).what = "resumed" /\ inst[c] = "resumable"
      BY <1>5, <3>1, PlaceTells DEF Agrees
    <3>. QED
      BY <3>2 DEF Legal, TERMINAL_STATES, ALLOWED_TRANSITIONS, ContinuationState
  <2>2. CASE MoveRead(p)
    BY <1>2, <2>1, <2>2, MoveReadTurns DEF MoveRead, store
  <2>3. CASE MoveWrite(p)
    BY <1>2, <1>3, <2>3, MoveWriteTurns DEF MoveWrite
  <2>. QED
    BY <1>8, <1>9, <2>2, <2>3
<1>10. ~ Answering(s)
  BY Apart
<1>11. ASSUME Rewritten(s, t), inst' = inst, steps' = steps, Head(s).do # "step" PROVE Judged(c)'
  <2>1. /\ t # << >> /\ ~ Answering(t) /\ Head(t).do # "step"
        /\ ToReview(t) <=> ToReview(s)
        /\ Reviewing(t) <=> Reviewing(s)
        /\ Resuming(t) <=> Resuming(s)
        /\ Rerunning(t) <=> Rerunning(s)
        /\ Resumed(t) <=> Resumed(s)
        /\ Failing(t) <=> Failing(s)
    BY <1>2, <1>10, <1>11, SamePlace DEF Rewritten, Answering, Moving
  <2>2. Agrees(c, t)'
    BY <1>5, <1>11, <2>1 DEF Agrees
  <2>3. inst[c] = "resumable" => Rerunning(t) \/ Resumed(t)
    BY <1>5, <2>1 DEF Agrees
  <2>4. inst'[c] = inst[c]
    BY <1>11
  <2>. QED
    BY <1>7, <1>11, <2>1, <2>2, <2>3, <2>4 DEF Judged
<1>12. CASE ToReview(s)
  <2>1. Head(s).do \in Moving /\ Head(s).what = "waiting_review" /\ inst[c] = "materializing"
    BY <1>5, <1>12, PlaceTells DEF Agrees, Moving, Working
  <2>2. CASE Rewritten(s, t) /\ inst' = inst
    BY <1>9, <1>11, <2>1, <2>2 DEF Moving
  <2>3. CASE t = Tail(s) /\ inst'[c] = Head(s).what
    <3>1. Reviewing(t) /\ ~ Answering(t) /\ t # << >>
      <4>1. Reviewing(t) /\ t # << >>
        BY <1>12, <2>3 DEF ToReview, Reviewing, Works, Stands
      <4>. QED
        BY <4>1, PlaceTells DEF Answering, Moving, Working
    <3>2. Agrees(c, t)'
      BY <2>1, <2>3, <3>1 DEF Agrees
    <3>3. << c, "packet_rerun" >> \notin steps'
      BY <1>9, <2>1 DEF Judged
    <3>. QED
      BY <1>7, <2>1, <2>3, <3>1, <3>2, <3>3
  <2>. QED
    BY <1>9, <2>1, <2>2, <2>3
<1>13. CASE Reviewing(s) /\ Head(s).do = "step"
  <2>1. Head(s).what = "review" /\ inst[c] = "waiting_review" /\ << c, "packet_rerun" >> \notin steps
    <3>1. Head(s).what = "review"
      BY <1>13, PlaceTells
    <3>2. inst[c] = "waiting_review"
      BY <1>5, <1>13, <3>1, PlaceTells DEF Agrees, Moving, Working
    <3>. QED
      BY <3>1, <3>2 DEF Judged
  <2>2. AddStep(p)
    BY <1>8, <1>13
  <2>3. inst' = inst /\ steps' = steps \union {<< c, "review" >>}
        /\ ((Rewritten(s, t) /\ Head(t).do = "op") \/ Dropped(s, t))
    BY <1>2, <2>1, <2>2, AddStepTurns DEF AddStep
  <2>4. Dropped(s, t) => t = << >>
    BY <1>13 DEF Reviewing, Dropped
  <2>5. ASSUME Rewritten(s, t), Head(t).do = "op" PROVE ~ Answering(t) /\ Agrees(c, t)'
    <3>1. Reviewing(t) /\ ~ Answering(t)
      BY <1>2, <1>10, <1>13, <2>5, SamePlace DEF Answering
    <3>. QED
      BY <2>1, <2>3, <3>1 DEF Agrees
  <2>6. << c, "packet_rerun" >> \notin steps'
    BY <2>1, <2>3
  <2>. QED
    BY <1>7, <2>1, <2>3, <2>4, <2>5, <2>6
<1>14. CASE Resuming(s)
  <2>1. Head(s).do \in Moving /\ Head(s).what = "resumable" /\ inst[c] = "waiting_review"
    BY <1>5, <1>14, PlaceTells DEF Agrees, Moving, Working
  <2>2. CASE Rewritten(s, t) /\ inst' = inst
    BY <1>9, <1>11, <2>1, <2>2 DEF Moving
  <2>3. CASE t = Tail(s) /\ inst'[c] = Head(s).what
    <3>1. Rerunning(t) /\ Fresh(t) /\ t # << >>
      BY <1>14, <2>3 DEF Resuming, Rerunning, Moves, Works, Stands
    <3>2. Head(t).do = "step" /\ ~ Answering(t)
      BY <3>1, PlaceTells DEF Fresh, Answering, Moving, Working
    <3>3. Agrees(c, t)'
      BY <2>1, <2>3, <3>1, <3>2 DEF Agrees
    <3>. QED
      BY <1>7, <2>1, <2>3, <3>1, <3>2, <3>3
  <2>. QED
    BY <1>9, <2>1, <2>2, <2>3
<1>15. CASE Rerunning(s)
  <2>1. /\ Head(s).do \in Working /\ Head(s).what = "packet_rerun" /\ inst[c] = "resumable"
        /\ Head(s).do # "step" => << c, "packet_rerun" >> \in steps
    <3>1. Head(s).do \in Working /\ Head(s).what = "packet_rerun"
      BY <1>15, PlaceTells
    <3>. QED
      BY <1>5, <3>1, PlaceTells DEF Agrees, Moving, Working
  <2>2. inst' = inst /\ << c, "packet_rerun" >> \in steps' /\ (Rewritten(s, t) \/ Dropped(s, t))
    <3>1. CASE AddStep(p)
      BY <1>2, <2>1, <3>1, AddStepTurns DEF AddStep
    <3>2. CASE Enqueue(p) \/ Call(p) \/ MarkApplied(p) \/ MarkFailed(p) \/ MarkStep(p)
      <4>1. UNCHANGED << inst, steps >> /\ Head(s).do # "step"
        BY <3>2 DEF Enqueue, Call, MarkApplied, MarkFailed, MarkStep, At, store
      <4>2. Rewritten(s, t) \/ Dropped(s, t)
        BY <1>2, <3>2, EnqueueTurns, CallTurns, MarkTurns
      <4>. QED
        BY <2>1, <4>1, <4>2
    <3>. QED
      BY <1>8, <2>1, <3>1, <3>2
  <2>3. Resumed(Tail(s)) /\ Tail(s) # << >> /\ Head(Tail(s)).what = "resumed" /\ Head(Tail(s)).do \in Moving
    BY <1>15, PlaceTells DEF Rerunning, Resumed, Moves, Stands
  <2>4. CASE Rewritten(s, t)
    <3>1. Rerunning(t) /\ t # << >> /\ ~ Answering(t)
      BY <1>2, <1>10, <1>15, <2>4, SamePlace DEF Rewritten, Answering
    <3>2. Agrees(c, t)'
      BY <2>1, <2>2, <3>1 DEF Agrees
    <3>. QED
      BY <1>7, <2>1, <2>2, <3>1, <3>2
  <2>5. CASE Dropped(s, t)
    <3>1. t = Tail(s)
      BY <2>3, <2>5 DEF Dropped
    <3>2. Agrees(c, t)' /\ ~ Answering(t)
      <4>1. Agrees(c, t)'
        BY <2>1, <2>2, <2>3, <3>1 DEF Agrees
      <4>2. Deciding(t)
        BY <2>3, <3>1 DEF Deciding
      <4>. QED
        BY <4>1, <4>2, Apart
    <3>. QED
      BY <1>7, <2>1, <2>2, <2>3, <3>1, <3>2
  <2>. QED
    BY <2>2, <2>4, <2>5
<1>16. CASE Resumed(s)
  <2>1. Head(s).do \in Moving /\ Head(s).what = "resumed" /\ << c, "packet_rerun" >> \in steps
    BY <1>5, <1>16, PlaceTells DEF Agrees, Moving, Working
  <2>2. CASE Rewritten(s, t) /\ inst' = inst
    BY <1>9, <1>11, <2>1, <2>2 DEF Moving
  <2>3. CASE t = Tail(s) /\ inst'[c] = Head(s).what
    <3>1. t = << >>
      BY <1>16, <2>3 DEF Resumed
    <3>. QED
      BY <1>7, <1>9, <2>1, <2>3, <3>1
  <2>. QED
    BY <1>9, <2>1, <2>2, <2>3
<1>17. CASE Failing(s)
  <2>1. Head(s).do \in Moving /\ Head(s).what = "failed_retryable" /\ inst[c] \in { "materializing", "waiting_review" }
    BY <1>5, <1>17, PlaceTells DEF Agrees, Moving, Working
  <2>2. CASE Rewritten(s, t) /\ inst' = inst
    BY <1>9, <1>11, <2>1, <2>2 DEF Moving
  <2>3. CASE t = Tail(s) /\ inst'[c] = Head(s).what
    <3>1. t = << >>
      BY <1>17, <2>3 DEF Failing
    <3>2. << c, "packet_rerun" >> \notin steps'
      BY <1>9, <2>1 DEF Judged
    <3>. QED
      BY <1>7, <2>1, <2>3, <3>1, <3>2
  <2>. QED
    BY <1>9, <2>1, <2>2, <2>3
<1>. QED
  BY <1>12, <1>13, <1>14, <1>15, <1>16, <1>17 DEF Deciding

\* What begins beside the answer and the verdicts.
LEMMA BeginsAside ==
  ASSUME IInv, NEW p \in Procs, NEW c \in Conts, kind[c] = "owner",
         \/ p \in Workers /\ Ingest(p, c)
         \/ Submit(p, c) \/ Reply(p, c) \/ Replay(p, c) \/ Poll(p, c)
  PROVE  \E a \in Seq(Items) : a # << >> /\ Begin(p, c, a) /\ ~ Answering(a) /\ ~ Deciding(a)
<1>1. ASSUME NEW a \in Seq(Items), Begin(p, c, a),
             Asking(a) \/ Casing(a) \/ Passing(a) \/ Replaying(a) \/ Receiving(a) \/ Receipting(a)
      PROVE  \E u \in Seq(Items) : u # << >> /\ Begin(p, c, u) /\ ~ Answering(u) /\ ~ Deciding(u)
  <2>1. a # << >>
    BY <1>1 DEF Asking, Casing, Passing, Replaying, Receiving, Receipting, Moves, Does, Works, Stands
  <2>. QED
    BY <1>1, <2>1, Apart
<1>2. CASE Ingest(p, c)
  <2>. DEFINE e == << Plain("pass") >>
              fresh == inst[c] = "none"
              H0 == IF fresh THEN << Plain("receive") >>
                    ELSE IF inst[c] = "waiting_owner" THEN << Item("receive", "waiting_owner", 0) >>
                    ELSE << >>
              A == (IF fresh THEN << Move("waiting_owner") >> ELSE << >>) \o Ask(c) \o e
              R == (IF fresh THEN << Move("waiting_owner") >> ELSE << >>) \o H0 \o e
  <2>1. Begin(p, c, A) \/ Begin(p, c, R)
    BY <1>2 DEF Ingest
  <2>2. e \in Seq(Items) /\ Passing(e)
    BY PassAgenda
  <2>3. A \in Seq(Items) /\ (Asking(A) \/ Casing(A))
    BY OwnerAgendas
  <2>4. R \in Seq(Items) /\ (Asking(R) \/ Receiving(R) \/ Passing(R))
    <3>1. CASE fresh
      BY <3>1, OwnerAgendas
    <3>2. CASE inst[c] = "waiting_owner"
      BY <3>2, OwnerAgendas
    <3>3. CASE ~ fresh /\ inst[c] # "waiting_owner"
      BY <2>2, <3>3, OwnerAgendas
    <3>. QED
      BY <3>1, <3>2, <3>3
  <2>. HIDE DEF A, R
  <2>. QED
    BY <1>1, <2>1, <2>3, <2>4
<1>3. CASE Submit(p, c) \/ Reply(p, c)
  BY <1>1, <1>3, ReceiptAgenda DEF Submit, Reply
<1>4. CASE Replay(p, c)
  <2>1. PICK k \in Keys : Retryable(outbox[c][k]) /\ Begin(p, c, << Item("call", k[1], k[2]) >>)
    BY <1>4 DEF Replay
  <2>. DEFINE a == << Item("call", k[1], k[2]) >>
  <2>2. a \in Seq(Items) /\ Replaying(a) /\ Begin(p, c, a)
    BY <2>1, VerdictAgendas
  <2>. HIDE DEF a
  <2>. QED
    BY <1>1, <2>2
<1>5. ~ Poll(p, c)
  BY DEF Poll, IInv, Separate
<1>. QED
  BY <1>2, <1>3, <1>4, <1>5

\* A verdict is taken up only after the answer, and where the instance stands.
LEMMA VerdictBegins ==
  ASSUME IInv, NEW p \in Reviewers, NEW c \in Conts, NEW verdict \in { "GO", "BLOCK" },
         AdvanceAfterMaterialization(p, c, verdict) \/ AdvanceAfterReview(p, c, verdict)
  PROVE  ~ Unanswered(c) /\ (\A r : ~ Answer(c, r)) /\ (Judged(c) => Judged(c)')
<1>. DEFINE w == << Move("waiting_review"), Step("review") >>
            r == << Move("resumable"), Step("packet_rerun"), Move("resumed") >>
            f == << Move("failed_retryable") >>
<1>1. inst[c] \in { "materializing", "waiting_review" } /\ UNCHANGED store /\ p \in Procs
  BY DEF AdvanceAfterMaterialization, AdvanceAfterReview, Procs
<1>2. ~ Unanswered(c) /\ \A q : ~ Answer(c, q)
  BY <1>1 DEF Unanswered, Untold, Answer
<1>3. \/ Begin(p, c, w) /\ inst[c] = "materializing"
      \/ Begin(p, c, r) /\ inst[c] = "waiting_review"
      \/ Begin(p, c, f)
  BY DEF AdvanceAfterMaterialization, AdvanceAfterReview
<1>4. w \in Seq(Items) /\ ToReview(w) /\ r \in Seq(Items) /\ Resuming(r) /\ f \in Seq(Items) /\ Failing(f)
  BY VerdictAgendas
<1>. HIDE DEF w, r, f
<1>5. PICK a \in Seq(Items) : /\ Begin(p, c, a) /\ a # << >> /\ Agrees(c, a) /\ Deciding(a)
  <2>1. w # << >> /\ r # << >> /\ f # << >>
    BY <1>4 DEF ToReview, Resuming, Failing, Moves, Stands
  <2>. QED
    BY <1>1, <1>3, <1>4, <2>1 DEF Agrees, Deciding
<1>6. /\ on[p] = NoCont /\ NoCont # c /\ todo'[p] = a /\ on'[p] = c
      /\ \A q \in Procs \ { p } : todo'[q] = todo[q] /\ on'[q] = on[q]
  BY <1>1, <1>5, BeginGoes, OwnerAssumption DEF Idle
<1>7. UNCHANGED << inst, steps, outbox >>
  BY <1>1 DEF store
<1>8. ASSUME Judged(c) PROVE Judged(c)'
  <2>1. HasRow(c, << "materialization", 0 >>)'
    BY <1>7, <1>8 DEF Judged, HasRow
  <2>2. ASSUME NEW q \in Procs, on'[q] = c
        PROVE  ~ Answering(todo'[q]) /\ (Deciding(todo'[q]) => q \in Reviewers /\ Agrees(c, todo[q])')
    <3>1. CASE q = p
      BY <1>5, <1>6, <1>7, <3>1, Apart DEF Agrees
    <3>2. CASE q # p
      BY <1>6, <1>7, <1>8, <2>2, <3>2 DEF Judged, Agrees
    <3>. QED
      BY <3>1, <3>2
  <2>3. inst[c] # "resumable"
    BY <1>1
  <2>. QED
    BY <1>7, <1>8, <2>1, <2>2, <2>3 DEF Judged
<1>. QED
  BY <1>2, <1>8

\* One step of a process.
LEMMA ExecuteCarriesOn ==
  ASSUME IInv, \A r, q \in Reviewers : r = q, NEW p \in Procs, Execute(p),
         NEW c \in Conts, kind[c] = "owner",
         receipts[c] = 0 => Unanswered(c),
         receipts[c] = 1 => Judged(c) \/ \E q \in Procs : Answer(c, q)
  PROVE  /\ receipts'[c] = 0 => Unanswered(c)'
         /\ receipts'[c] = 1 => Judged(c)' \/ \E q \in Procs : Answer(c, q)'
<1>. DEFINE s == todo[p]
<1>1. PICK t : Goes(p, t)
  BY ExecuteTurns
<1>2. /\ s # << >> /\ todo'[p] = t /\ on'[p] = (IF t = << >> THEN NoCont ELSE on[p]) /\ NoCont # c
      /\ \A q \in Procs \ { p } : todo'[q] = todo[q] /\ on'[q] = on[q]
  BY <1>1, ExecuteTurns, GoesAlone, OwnerAssumption
<1>3. receipts \in [Conts -> 0 .. MaxReceipts] /\ MaxReceipts \in Nat /\ receipts[c] \in Nat
      /\ inst \in [Conts -> ContinuationState \union { "none" }]
  BY BoundsAreTyped DEF IInv, TypeOK
<1>4. HasRow(c, << "materialization", 0 >>) => HasRow(c, << "materialization", 0 >>)'
  BY RowStays, ItemsAreTyped DEF StepKinds
<1>5. ASSUME on[p] = c, Answering(s) \/ Deciding(s) PROVE receipts'[c] = receipts[c]
  <2>1. ~ Receipting(s)
    BY <1>5, Apart
  <2>2. ~ AddReceipt(p)
    BY <2>1, AddReceiptTurns
  <2>. QED
    BY <2>2 DEF Execute, MoveRead, MoveWrite, AddStep, Enqueue, Call, MarkApplied,
       MarkFailed, MarkStep, Receive, CloseAnchor, OpenCase, Register, Judge, Pass, store
<1>6. CASE on[p] # c
  <2>1. inst'[c] = inst[c] /\ receipts'[c] = receipts[c]
    BY <1>3, <1>6 DEF Execute, MoveRead, MoveWrite, AddStep, Enqueue, Call, MarkApplied,
       MarkFailed, MarkStep, Receive, AddReceipt, CloseAnchor, OpenCase, Register, Judge, Pass, store
  <2>2. \A k : << c, k >> \in steps' <=> << c, k >> \in steps
    <3>1. steps' = steps \/ steps' = steps \union {<< on[p], Head(s).what >>}
      BY DEF Execute, MoveRead, MoveWrite, AddStep, Enqueue, Call, MarkApplied,
         MarkFailed, MarkStep, Receive, AddReceipt, CloseAnchor, OpenCase, Register, Judge, Pass, store
    <3>. QED
      BY <1>6, <3>1
  <2>3. on'[p] # c
    BY <1>2, <1>6
  <2>4. /\ Unanswered(c) => Unanswered(c)'
        /\ Judged(c) => Judged(c)'
        /\ \A r \in Procs : Answer(c, r) => Answer(c, r)'
    BY <1>2, <1>4, <1>6, <2>1, <2>2, <2>3, SideStep
  <2>. QED
    BY <2>1, <2>4
<1>7. CASE on[p] = c /\ Deciding(s)
  <2>1. ~ Unanswered(c) /\ \A q : ~ Answer(c, q)
    BY <1>7 DEF Unanswered, Answer
  <2>2. Judged(c) => Judged(c)'
    BY <1>7, DecidingTurns
  <2>. QED
    BY <1>5, <1>7, <2>1, <2>2
<1>8. CASE on[p] = c /\ Answering(s)
  <2>1. ~ Unanswered(c) /\ ~ Judged(c) /\ \A q : Answer(c, q) => q = p
    BY <1>8 DEF Unanswered, Judged, Answer
  <2>2. Answer(c, p) => Answer(c, p)' \/ Judged(c)'
    BY AnswerTurns
  <2>. QED
    BY <1>5, <1>8, <2>1, <2>2
<1>9. CASE on[p] = c /\ ~ Deciding(s) /\ ~ Answering(s)
  <2>1. CASE /\ receipts'[c] = receipts[c] + 1 /\ UNCHANGED << inst, steps >>
             /\ on'[p] = c /\ Receipting(s) /\ Accepting(t)
    <3>1. CASE receipts[c] = 0
      <4>1. Unanswered(c)
        BY <3>1
      <4>2. inst[c] = "waiting_owner"
        <5>1. inst[c] # "none"
          BY <1>9 DEF IInv, Order, AtRest
        <5>2. inst[c] # "detected"
          <6>1. ~ Early(s)
            BY <2>1, PlaceTells DEF Early, Planning, Moving, Working
          <6>. QED
            BY <1>9, <6>1 DEF IInv, Order
        <5>. QED
          BY <4>1, <5>1, <5>2 DEF Unanswered, Untold
      <4>3. ~ Deciding(t)
        BY <2>1, Apart DEF Answering
      <4>4. Answer(c, p)'
        BY <1>2, <2>1, <4>1, <4>2, <4>3 DEF Answer, Unanswered
      <4>. QED
        BY <2>1, <3>1, <4>4
    <3>2. CASE receipts[c] # 0
      BY <1>3, <2>1, <3>2
    <3>. QED
      BY <3>1, <3>2
  <2>2. CASE /\ receipts' = receipts
             /\ on'[p] = c => ~ Answering(t) /\ ~ Deciding(t)
             /\ \A k \in { "materialization", "review", "packet_rerun" } : << c, k >> \in steps' <=> << c, k >> \in steps
             /\ inst'[c] = inst[c] \/ (inst[c] = "detected" /\ inst'[c] = "waiting_owner")
    <3>1. /\ Unanswered(c) => Unanswered(c)'
          /\ Judged(c) => Judged(c)'
          /\ \A r \in Procs : Answer(c, r) => Answer(c, r)'
      BY <1>2, <1>4, <1>9, <2>2, SideStep DEF Untold
    <3>. QED
      BY <2>2, <3>1
  <2>. QED
    BY <1>2, <1>9, <2>1, <2>2, AsideTurns
<1>. QED
  BY <1>6, <1>7, <1>8, <1>9

\* The beginning of a handler.
LEMMA BeginCarriesOn ==
  ASSUME IInv, NEW p \in Procs, NEW d \in Conts,
         \/ p \in Workers /\ Ingest(p, d)
         \/ Submit(p, d) \/ Reply(p, d) \/ Replay(p, d) \/ Poll(p, d)
         \/ /\ p \in Reviewers
            /\ \E verdict \in { "GO", "BLOCK" } :
                 AdvanceAfterMaterialization(p, d, verdict) \/ AdvanceAfterReview(p, d, verdict),
         NEW c \in Conts, kind[c] = "owner"
  PROVE  /\ UNCHANGED receipts
         /\ Unanswered(c) => Unanswered(c)'
         /\ Judged(c) => Judged(c)'
         /\ \A r \in Procs : Answer(c, r) => Answer(c, r)'
<1>1. /\ UNCHANGED << receipts, steps, outbox >>
      /\ inst' = inst \/ (inst[d] = "none" /\ inst' = [inst EXCEPT ![d] = "detected"])
  BY DEF Ingest, Submit, Reply, Replay, Poll, AdvanceAfterMaterialization, AdvanceAfterReview, store
<1>2. /\ HasRow(c, << "materialization", 0 >>)' <=> HasRow(c, << "materialization", 0 >>)
      /\ inst'[c] = inst[c] \/ (inst[c] = "none" /\ inst'[c] \in Untold)
  BY <1>1 DEF HasRow, IInv, TypeOK, Untold
<1>3. \E a : Begin(p, d, a)
  BY DEF Ingest, Submit, Reply, Replay, Poll, AdvanceAfterMaterialization, AdvanceAfterReview
<1>4. /\ on[p] = NoCont /\ NoCont # c /\ on'[p] = d
      /\ \A q \in Procs \ { p } : todo'[q] = todo[q] /\ on'[q] = on[q]
  BY <1>3, OwnerAssumption DEF Begin, Idle, IInv, TypeOK
<1>5. CASE d # c
  BY <1>1, <1>2, <1>4, <1>5, SideStep
<1>6. CASE /\ d = c
           /\ \/ p \in Workers /\ Ingest(p, d)
              \/ Submit(p, d) \/ Reply(p, d) \/ Replay(p, d) \/ Poll(p, d)
  <2>1. PICK a \in Seq(Items) : a # << >> /\ Begin(p, c, a) /\ ~ Answering(a) /\ ~ Deciding(a)
    BY <1>6, BeginsAside
  <2>2. todo'[p] = a
    BY <2>1, BeginGoes
  <2>. QED
    BY <1>1, <1>2, <1>4, <2>1, <2>2, SideStep
<1>7. CASE /\ d = c /\ p \in Reviewers
           /\ \E verdict \in { "GO", "BLOCK" } :
                AdvanceAfterMaterialization(p, d, verdict) \/ AdvanceAfterReview(p, d, verdict)
  BY <1>1, <1>7, VerdictBegins
<1>. QED
  BY <1>5, <1>6, <1>7

\* One answer, and then one verdict after another.
LEMMA CarryKeeps ==
  ASSUME IInv, XInv, [Next]_vars, \A r, q \in Reviewers : r = q
  PROVE  XInv'
<1>1. kind' = kind
  <2>1. ASSUME NEW p \in Procs, Execute(p) PROVE kind' = kind
    BY <2>1, ExecuteTurns DEF Goes
  <2>. QED
    BY <2>1, NextTells, CrashGoes DEF vars, Ingest, Submit, Reply, Replay, Poll,
       AdvanceAfterMaterialization, AdvanceAfterReview, Begin
<1>. SUFFICES ASSUME crashes' = 0, NEW c \in Conts, kind[c] = "owner"
              PROVE  /\ receipts'[c] = 0 => Unanswered(c)'
                     /\ receipts'[c] = 1 => Judged(c)' \/ \E q \in Procs : Answer(c, q)'
  BY <1>1 DEF XInv
<1>2. /\ crashes = 0
      /\ receipts[c] = 0 => Unanswered(c)
      /\ receipts[c] = 1 => Judged(c) \/ \E q \in Procs : Answer(c, q)
  BY NobodyDied DEF XInv
<1>3. ASSUME NEW p \in Procs, Execute(p)
      PROVE  /\ receipts'[c] = 0 => Unanswered(c)'
             /\ receipts'[c] = 1 => Judged(c)' \/ \E q \in Procs : Answer(c, q)'
  BY <1>2, <1>3, ExecuteCarriesOn
<1>4. ASSUME NEW p \in Procs, Crash(p) PROVE FALSE
  BY <1>2, <1>4, CrashGoes
<1>5. ASSUME NEW p \in Procs, NEW d \in Conts,
             \/ p \in Workers /\ Ingest(p, d)
             \/ Submit(p, d) \/ Reply(p, d) \/ Replay(p, d) \/ Poll(p, d)
             \/ /\ p \in Reviewers
                /\ \E verdict \in { "GO", "BLOCK" } :
                     AdvanceAfterMaterialization(p, d, verdict) \/ AdvanceAfterReview(p, d, verdict)
      PROVE  /\ receipts'[c] = 0 => Unanswered(c)'
             /\ receipts'[c] = 1 => Judged(c)' \/ \E q \in Procs : Answer(c, q)'
  BY <1>2, <1>5, BeginCarriesOn
<1>6. CASE UNCHANGED vars
  BY <1>2, <1>6 DEF vars, store, Unanswered, Judged, Answer, Agrees, HasRow
<1>7. /\ Workers \subseteq Procs /\ Daemons \subseteq Procs /\ Submitters \subseteq Procs
      /\ Plugins \subseteq Procs /\ Reviewers \subseteq Procs
  BY OwnerAssumption DEF Procs
<1>. QED
  BY <1>3, <1>4, <1>5, <1>6, <1>7 DEF Next

\* As long as nobody dies and one process reports verdicts, an answer given once
\* has had all its consequences whenever no handler is at it, although
\* on_receipt and advance_after_* spread them over transactions and calls of
\* their own and ignore what the transitions return: from the receipt on one
\* process is at it, alone, until the materialization task is enqueued and the
\* instance is in materializing, and then one verdict is taken up at a time, each
\* where the instance stands.
THEOREM AnswersAreCarriedOut ==
  (\A p, q \in Reviewers : p = q) /\ Spec => []AnswerIsCarriedOut
<1>. DEFINE OneReports == \A p, q \in Reviewers : p = q
<1>1. Init => IInv /\ XInv
  <2>1. ASSUME Init PROVE XInv
    <3>1. \A c \in Conts : receipts[c] = 0 /\ inst[c] = "none" /\ steps = {} /\ \A q \in Procs : on[q] # c
      BY <2>1, OwnerAssumption DEF Init
    <3>. QED
      BY <3>1 DEF XInv, Unanswered, Untold
  <2>. QED
    BY <2>1, InitHolds
<1>2. OneReports /\ IInv /\ XInv /\ [Next]_vars => (IInv /\ XInv)'
  BY NextKeeps, CarryKeeps
<1>3. IInv /\ XInv => AnswerIsCarriedOut
  <2>. SUFFICES ASSUME IInv, XInv, NEW c \in Conts, crashes = 0, AtRest(c), receipts[c] = 1
                PROVE  /\ Enqueued0(c, "materialization")
                       /\ inst[c] \in { "materializing", "waiting_review", "failed_retryable", "resumed" }
                       /\ inst[c] = "resumed" <=> << c, "packet_rerun" >> \in steps
                       /\ << c, "review" >> \in steps => inst[c] # "materializing"
    BY DEF AnswerIsCarriedOut
  <2>1. kind[c] = "owner"
    BY DEF IInv, TypeOK, Separate
  <2>2. \A p \in Procs : ~ Answer(c, p)
    BY DEF AtRest, Answer
  <2>3. Judged(c)
    BY <2>1, <2>2 DEF XInv
  <2>. QED
    BY <2>3 DEF Judged, AtRest, Enqueued0, HasRow
<1>4. OneReports /\ Spec => [](IInv /\ XInv)
  <2>1. CASE OneReports
    <3>1. IInv /\ XInv /\ [Next]_vars => (IInv /\ XInv)'
      BY <1>2, <2>1
    <3>. QED
      BY <1>1, <3>1, PTL DEF Spec
  <2>. QED
    BY <2>1
<1>. QED
  BY <1>3, <1>4, PTL

=============================================================================
