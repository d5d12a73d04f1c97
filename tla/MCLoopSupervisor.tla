-------------------------- MODULE MCLoopSupervisor --------------------------
(* Model checking of LoopSupervisor: the events that can disturb one another. *)
EXTENDS LoopSupervisor

Allowed == { "stale_inline_route", "stale_final_fanin" }

Plain == [ id |-> 1, graph |-> CHOOSE g \in Graphs : TRUE, at |-> 1, gate |-> "ok",
           type |-> "verdict", verdict |-> "BLOCK", blocker |-> "stale_inline_route",
           named |-> {}, round_no |-> 0, final |-> CHOOSE f \in Finals : TRUE,
           review |-> CHOOSE r \in Reviews : TRUE, closed |-> TRUE ]

\* BLOCKs inside and outside the cooldown of one another, claiming the first
\* or the second round, of one blocker and (the summary names more) of two.
Blocks ==
  { [Plain EXCEPT !.at = t, !.round_no = k] : t \in { 1, 2, 3, 5 }, k \in { 0, 1 } } \union
  { [Plain EXCEPT !.at = t, !.blocker = b, !.named = Blockers] : t \in { 1, 3 }, b \in Allowed }

\* A second graph's BLOCKs, which must not count for the first.
OtherGraph == { [e EXCEPT !.graph = g] : e \in { Plain }, g \in Graphs }

\* Events refused for one reason each, one of them claiming the last round.
Refused ==
  { [Plain EXCEPT !.gate = x] : x \in Gates } \union
  { [Plain EXCEPT !.blocker = "missing_subscription"],
    [Plain EXCEPT !.blocker = NoBlocker, !.round_no = max_rounds] } \union
  { [Plain EXCEPT !.verdict = v] : v \in { "GO", "NEED_MORE", "UNKNOWN" } }

Supersessions ==
  { [Plain EXCEPT !.type = "supersession", !.final = f, !.review = r] : f \in Finals, r \in Reviews } \union
  { [Plain EXCEPT !.type = "supersession", !.closed = FALSE],
    [Plain EXCEPT !.type = "supersession", !.gate = "policy_resolution_missing"] }

MCInputs == Blocks \union OtherGraph \union Refused \union Supersessions

=============================================================================
