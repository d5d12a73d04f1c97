--------------------------- MODULE LoopSupervisor ---------------------------
(***************************************************************************)
(* evaluate_loop_event (loop_supervisor.py): one loop event after another is *)
(* judged against the receipts of the earlier ones.  A BLOCK with an         *)
(* allowlisted blocker gets fix, review and final cards from the graph        *)
(* creator (graph_creator.py), a GO of a remediation review supersedes a      *)
(* stale final, everything else is refused, and each judgement leaves one     *)
(* receipt.                                                                *)
(*                                                                         *)
(* The receipts of earlier calls are handed to the next (roadmap watch keeps   *)
(* one ledger, loop evaluate reads them from its input file).  The policy is   *)
(* read anew in each call, and occurred_at comes with the event, so neither   *)
(* the stance nor the time follows from the previous call.                    *)
(***************************************************************************)
EXTENDS Naturals, Sequences, FiniteSets

CONSTANTS
  MaxEvents,                 \* bound: events judged, numbered as they come
  MaxTime,                   \* bound: values of occurred_at
  Graphs,                    \* source_graph_id
  Finals, Reviews,           \* stale finals and remediation reviews
  Inputs,                    \* bound: the events that may come, but for their id
  Allowlisted,               \* policy.allowlisted_blockers
  max_rounds, max_same_blocker, cooldown_seconds,
  max_tasks_per_graph, max_auto_creates_per_run

\* The blocker classes of remediation.py and the cards of each, in the order
\* they are looked for (_BLOCKER_PATTERNS, _candidate_sequence).
Steps == << << "stale_inline_route", "fix" >>, << "stale_inline_route", "review" >>,
            << "stale_inline_route", "final-vN" >>,
            << "stale_trust_grant_wording", "fix" >>, << "stale_trust_grant_wording", "review" >>,
            << "missing_subscription", "fix" >>, << "missing_subscription", "review" >>,
            << "missing_subscription", "final-vN" >>,
            << "stale_final_fanin", "fix" >>, << "stale_final_fanin", "review" >>,
            << "stale_final_fanin", "final-vN" >> >>

Blockers == { "stale_inline_route", "stale_trust_grant_wording",
              "missing_subscription", "stale_final_fanin" }
Fanin     == "stale_final_fanin"
NoBlocker == "none"

ASSUME SupervisorAssumption ==
  /\ { MaxEvents, MaxTime, max_rounds, max_same_blocker, cooldown_seconds,
       max_tasks_per_graph, max_auto_creates_per_run } \subseteq Nat
  /\ Allowlisted \subseteq Blockers

VARIABLES
  receipts,   \* the receipts of the ledger
  cards       \* what the board holds, by idempotency key

vars == << receipts, cards >>

-----------------------------------------------------------------------------
(* Events, policies, receipts.                                             *)

Events == 1 .. MaxEvents
Times  == 1 .. MaxTime

\* What a policy amounts to: malformed, the kill switch, or active_mode with
\* apply_enabled ("apply_disabled" is apply mode that is not enabled).
Stances == { "malformed_policy", "kill_switch", "disabled", "observe_only",
             "request_only", "apply_disabled", "apply" }

\* The first provenance check an event fails, if any.
Gates == { "ok", "foreign_origin", "policy_resolution_missing", "subscription_unverified" }

\* blocker: the class the event names, or the first its summary names.  named:
\* the classes the summary names, none when it is no blocking summary.
\* round_no: what the event claims.  closed: the old final is done or blocked
\* and the review says GO.
Event == [ id : Events, graph : Graphs, at : Times, gate : Gates,
           type : { "verdict", "supersession" },
           verdict : { "GO", "NEED_MORE", "UNKNOWN", "BLOCK" },
           blocker : Blockers \union {NoBlocker}, named : SUBSET Blockers,
           round_no : 0 .. max_rounds, final : Finals, review : Reviews, closed : BOOLEAN ]

ASSUME InputsAssumption == Inputs \subseteq Event

Decisions    == { "noop", "escalate", "stabilize", "propose", "apply", "supersede" }
Remediations == { "propose", "apply" }
Counted      == Remediations \union { "supersede" }

NoKey == << "loop" >>   \* loop:<action>:<graph>:<event>: no other event has it
Keys  == { NoKey } \union (Graphs \X Finals \X Reviews)

Receipt ==
  [ event : Events, graph : Graphs, blocker : Blockers \union {NoBlocker},
    decision : Decisions, round : 0 .. max_rounds, vn : Nat \ {0},
    key : Keys, at : Times, attempts : 0 .. Len(Steps) ]

\* _decision: a receipt carries the event's own round_no and final_vn 1 unless
\* the decision derives them.
Judged(ev, decision, blocker) ==
  [ event |-> ev.id, graph |-> ev.graph, blocker |-> blocker, decision |-> decision,
    round |-> ev.round_no, vn |-> 1, key |-> NoKey, at |-> ev.at, attempts |-> 0 ]

-----------------------------------------------------------------------------
(* What the ledger answers (InMemoryLoopLedger).                           *)

HasEvent(id) == \E r \in receipts : r.event = id
HasKey(key)  == \E r \in receipts : r.key = key

ActionsOn(graph, blocker) ==
  { r \in receipts : r.graph = graph /\ r.blocker = blocker /\ r.decision \in Counted }

\* Mutant of CountBlocker: only applied graphs are counted.
CountApplied(graph, blocker) ==
  Cardinality({ r \in ActionsOn(graph, blocker) : r.decision = "apply" })

CountBlocker(graph, blocker) == Cardinality(ActionsOn(graph, blocker))

\* The largest of some numbers, d if there are none.
Largest(S, d) == IF S = {} THEN d ELSE CHOOSE n \in S : \A m \in S : m <= n

RoundsOf(graph) == { r.round : r \in { q \in receipts : q.graph = graph } }

MaxRound(graph)  == Largest(RoundsOf(graph), 0)
CurrentVn(graph) == Largest({ r.vn : r \in { q \in receipts : q.graph = graph } }, 1)

\* Mutant of Cooling: only an action at the same time is too early.
CoolingNow(ev) == \E r \in ActionsOn(ev.graph, ev.blocker) : ev.at = r.at

\* last_action_time, and now - last < cooldown_seconds: an event that occurred
\* before the last action is always too early.
Cooling(ev) == \E r \in ActionsOn(ev.graph, ev.blocker) : ev.at < r.at + cooldown_seconds

-----------------------------------------------------------------------------
(* The graph creator.  The adapter of a call is a new fake one or the real    *)
(* one, whose list_existing is always empty: creating a card again resolves   *)
(* to the same card, by its key.                                            *)

Cards == DOMAIN Steps

\* The first n of some cards.
FirstOf(S, n) == { i \in S : Cardinality({ j \in S : j <= i }) <= n }

\* The candidates: every blocker the summary names, not only the one the event
\* is judged by, up to the cap per source.
Candidates(ev) == FirstOf({ i \in Cards : Steps[i][1] \in ev.named }, max_tasks_per_graph)

\* Mutant of Attempted: every candidate is tried, not the judged blocker's.
AttemptedAll(ev) == FirstOf(Candidates(ev), max_auto_creates_per_run)

\* The attempts _is_apply_gated lets through: _graph_policy allowlists the
\* judged blocker alone, and the budget counts attempts, failed ones too.
Attempted(ev) ==
  FirstOf({ i \in Candidates(ev) : Steps[i][1] = ev.blocker }, max_auto_creates_per_run)

-----------------------------------------------------------------------------
(* The judgement, in the order of its early returns.                       *)

\* Nothing but a receipt.
Recorded(receipt) ==
  /\ receipts' = receipts \union {receipt}
  /\ cards' = cards

\* Refused before the event is looked at.
Stopped(ev, stance) ==
  \/ stance \in { "malformed_policy", "kill_switch", "disabled" }
  \/ ev.gate = "foreign_origin"

Stop(ev, stance) ==
  /\ Stopped(ev, stance)
  /\ Recorded(Judged(ev, IF stance = "disabled" THEN "noop" ELSE "escalate", NoBlocker))

\* GO, NEED_MORE and unknown verdicts.
Verdict(ev, stance) ==
  /\ ~ Stopped(ev, stance)
  /\ ev.type = "verdict" /\ ev.verdict # "BLOCK"
  /\ Recorded(Judged(ev, IF ev.verdict = "GO" THEN "stabilize" ELSE "escalate", NoBlocker))

Blocked(ev, stance) == ~ Stopped(ev, stance) /\ ev.type = "verdict" /\ ev.verdict = "BLOCK"

Unremediable(ev) == ev.blocker \notin Allowlisted \/ ev.gate # "ok"

Round(ev) == Largest({ ev.round_no, MaxRound(ev.graph) }, 0)

Exhausted(ev) ==
  \/ Round(ev) >= max_rounds
  \/ CountBlocker(ev.graph, ev.blocker) >= max_same_blocker

Escalate(ev, stance) ==
  /\ Blocked(ev, stance)
  /\ \/ Unremediable(ev)
     \/ Exhausted(ev)
     \/ ~ Cooling(ev) /\ stance = "apply_disabled"
  /\ Recorded(Judged(ev, "escalate", ev.blocker))

Postpone(ev, stance) ==
  /\ Blocked(ev, stance) /\ ~ Unremediable(ev) /\ ~ Exhausted(ev)
  /\ Cooling(ev) \/ stance = "observe_only"
  /\ Recorded(Judged(ev, "noop", ev.blocker))

\* Mutant of SpentRound: the receipt keeps the round the event claims.
SpentRoundClaimed(ev) == ev.round_no

SpentRound(ev) == Round(ev) + 1

\* bounded_remediation.  The creator keys its cards by the source task, or by the
\* graph if there is none; here a graph has one source.  armed: apply mode found an
\* adapter.  Each attempt may create its card or fail; the result is not looked at.
Remediate(ev, stance) ==
  /\ Blocked(ev, stance)
  /\ ~ Unremediable(ev) /\ ~ Exhausted(ev) /\ ~ Cooling(ev)
  /\ stance \in { "request_only", "apply" }
  /\ \E armed \in { FALSE, stance = "apply" } :
       LET tried == IF armed THEN Attempted(ev) ELSE {} IN
       /\ receipts' = receipts \union
            { [Judged(ev, IF stance = "apply" THEN "apply" ELSE "propose", ev.blocker)
                 EXCEPT !.round = SpentRound(ev), !.attempts = Cardinality(tried)] }
       /\ \E made \in SUBSET tried :
            cards' = cards \union { << ev.graph, Steps[i][1], Steps[i][2] >> : i \in made }

\* _evaluate_supersession, up to the candidate.
Unsupersedable(ev, stance) ==
  \/ Fanin \notin Allowlisted
  \/ ev.gate # "ok"
  \/ stance = "apply_disabled"

SupersessionKey(ev) == << ev.graph, ev.final, ev.review >>

Superseding(ev, stance) == ~ Stopped(ev, stance) /\ ev.type = "supersession"

\* No candidate: the final is still open or the review has no GO.
RefuseSupersession(ev, stance) ==
  /\ Superseding(ev, stance)
  /\ Unsupersedable(ev, stance) \/ (~ HasKey(SupersessionKey(ev)) /\ ~ ev.closed)
  /\ Recorded(Judged(ev, "escalate", Fanin))

\* existing_supersession: the refusal keeps the key.
AlreadySuperseded(ev, stance) ==
  /\ Superseding(ev, stance) /\ ~ Unsupersedable(ev, stance)
  /\ HasKey(SupersessionKey(ev))
  /\ Recorded([Judged(ev, "noop", Fanin) EXCEPT !.key = SupersessionKey(ev)])

NextVn(ev) == CurrentVn(ev.graph) + 1

\* final_vn_proposal: the card's own key names the old final only.
Supersede(ev, stance) ==
  /\ Superseding(ev, stance) /\ ~ Unsupersedable(ev, stance)
  /\ ~ HasKey(SupersessionKey(ev)) /\ ev.closed
  /\ \E armed \in { FALSE, stance = "apply" /\ max_auto_creates_per_run > 0 } :
       /\ receipts' = receipts \union
            { [Judged(ev, "supersede", Fanin) EXCEPT
                 !.vn = NextVn(ev), !.key = SupersessionKey(ev), !.attempts = IF armed THEN 1 ELSE 0] }
       /\ \E made \in { FALSE, armed } :
            cards' = IF made THEN cards \union {<< ev.final, Fanin, "final-v2" >>} ELSE cards

\* A duplicate_event leaves no receipt.
Evaluate(ev, stance) ==
  /\ ~ HasEvent(ev.id)
  /\ \/ Stop(ev, stance) \/ Verdict(ev, stance)
     \/ Escalate(ev, stance) \/ Postpone(ev, stance) \/ Remediate(ev, stance)
     \/ RefuseSupersession(ev, stance) \/ AlreadySuperseded(ev, stance) \/ Supersede(ev, stance)

-----------------------------------------------------------------------------

Init == receipts = {} /\ cards = {}

\* Events come in any order and may come again; a new one has the next number.
Next == \E ev \in Inputs, stance \in Stances, id \in Events :
          /\ id <= Cardinality(receipts) + 1
          /\ Evaluate([ev EXCEPT !.id = id], stance)

Spec == Init /\ [][Next]_vars

-----------------------------------------------------------------------------
(* Properties.                                                             *)

Board == { << g, Steps[i][1], Steps[i][2] >> : g \in Graphs, i \in Cards }
         \union { << f, Fanin, "final-v2" >> : f \in Finals }

TypeOK ==
  /\ receipts \subseteq Receipt
  /\ cards \subseteq Board

Spent(graph) == { r \in receipts : r.graph = graph /\ r.decision \in Remediations }

\* Every remediation of a graph spends a round of its own within max_rounds,
\* whatever rounds the events claim and whatever was refused in between: no
\* sequence of events gets more than max_rounds remediations.
RoundsAreSpent ==
  \A g \in Graphs : \A r, q \in Spent(g) :
    /\ r.round \in 1 .. max_rounds
    /\ r # q => r.round # q.round

\* Two remediations of one graph for one blocker are cooldown_seconds apart in
\* occurred_at, also when events are judged out of order and when the policy
\* was in another mode in between.
RemediationsAreSpaced ==
  \A g \in Graphs : \A r, q \in Spent(g) :
    r # q /\ r.blocker = q.blocker => \/ r.at >= q.at + cooldown_seconds
                                      \/ q.at >= r.at + cooldown_seconds

\* At most max_same_blocker remediations of one graph for one blocker, in
\* propose and apply mode taken together.
SameBlockerIsBounded ==
  \A g \in Graphs, b \in Blockers :
    Cardinality({ r \in Spent(g) : r.blocker = b }) <= max_same_blocker

\* A remediation card on the board is for an allowlisted blocker its graph was
\* judged by in apply mode, and a final-v2 card for a final that a supersession
\* of apply mode named while stale finals were allowlisted: a summary that names
\* further blockers, and what was judged in another mode, create nothing.
CardsFollowReceipts ==
  /\ \A g \in Graphs : \A c \in { d \in cards : d[1] = g /\ d[3] # "final-v2" } :
       \E r \in Spent(g) : /\ r.decision = "apply" /\ r.attempts > 0
                           /\ r.blocker = c[2] /\ c[2] \in Allowlisted
  /\ \A c \in { d \in cards : d[3] = "final-v2" } :
       \E r \in receipts : /\ r.decision = "supersede" /\ r.attempts > 0
                           /\ r.key[2] = c[1] /\ c[2] \in Allowlisted

=============================================================================
