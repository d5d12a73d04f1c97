--------------------------- MODULE CursorDelivery ---------------------------
(***************************************************************************)
(* What a consumer of a board's event log promises, whatever handlers,       *)
(* outbox and processes it is made of: events enter the log in order, each   *)
(* one becomes protected once and for good, and the cursor only ever moves   *)
(* forward over events that are protected.                                  *)
(***************************************************************************)
EXTENDS Naturals

CONSTANTS
  MaxSeq,      \* bound: events the board ever posts
  Unguarded    \* events that need no protection

VARIABLES posted, protected, cursor

Init == posted = 0 /\ protected = {} /\ cursor = 0

Post ==
  /\ posted < MaxSeq
  /\ posted' = posted + 1
  /\ protected' = protected \union ({posted'} \intersect Unguarded)
  /\ cursor' = cursor

Protect(e) ==
  /\ e \in (1 .. posted) \ protected
  /\ protected' = protected \union {e}
  /\ UNCHANGED << posted, cursor >>

Advance(n) ==
  /\ cursor < n
  /\ (cursor + 1) .. n \subseteq protected
  /\ cursor' = n
  /\ UNCHANGED << posted, protected >>

Next == Post \/ (\E e \in 1 .. posted : Protect(e)) \/ (\E n \in 1 .. posted : Advance(n))

Spec == Init /\ [][Next]_<< posted, protected, cursor >>

=============================================================================
