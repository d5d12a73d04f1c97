------------------------- MODULE MCRoadmapPromotion -------------------------
(***************************************************************************)
(* Two tasks, one call beside two processes that tick, graphs of two cards.  *)
(* The reports vary the metadata and the markers of a GO and of a BLOCK that   *)
(* has every gate open; one report fails a gate, and one names a transition   *)
(* with more cards than one apply may create.                                *)
(***************************************************************************)
EXTENDS RoadmapPromotion, TLC

Clean ==
  [ meta |-> None, mverdict |-> "GO", mkind |-> "complete", mnext |-> FALSE, mblockers |-> {},
    verdict |-> "GO", marker |-> None, contract |-> FALSE, operator_must |-> FALSE,
    known |-> FALSE, named |-> {}, pending |-> FALSE ]

Metadata ==
  { [Clean EXCEPT !.meta = "structured", !.mkind = k, !.mnext = (k = "roadmap_next")] :
      k \in { "complete", "roadmap_next", "needs_input" } }
  \union { [Clean EXCEPT !.meta = "structured", !.mkind = "roadmap_next"] }
  \union { [Clean EXCEPT !.meta = "flat", !.mblockers = { "unsafe" }],
           [Clean EXCEPT !.meta = "flat", !.mverdict = "BLOCK"],
           [Clean EXCEPT !.meta = "flat", !.mverdict = "BLOCK", !.mblockers = { "unsafe" }] }

Marks ==
  { [Clean EXCEPT !.marker = k, !.contract = TRUE] :
      k \in { "complete", "roadmap_next", "approval_required" } }

\* The text says BLOCK, and the metadata may say otherwise.
Blocked ==
  { [Clean EXCEPT !.meta = m, !.verdict = "BLOCK"] : m \in { None, "structured", "flat" } }

Report(o) == [ outcome |-> o, gate |-> "ok", size |-> 2 ]

Varied ==
  { Report(o) : o \in Metadata \union Marks \union Blocked }
  \union { [Report(Clean) EXCEPT !.gate = "missing_ack_edge"], [Report(Clean) EXCEPT !.size = 3] }

\* One task varies, the other is a clean GO.
MCReports == { [t \in Tasks |-> IF t = 1 THEN r ELSE Report(Clean)] : r \in Varied }

\* The processes that tick are alike.
MCSymmetry == Permutations(Daemons)

=============================================================================
