------------------------- MODULE MCOriginMigration -------------------------
(***************************************************************************)
(* Two events: a callback with an ack for the alias, a wake for the numeric     *)
(* channel.  The first task has receipts under up to three names of its        *)
(* channel that differ in every fact; the second one has none.                 *)
(***************************************************************************)
EXTENDS OriginMigration

MCOperation == << "record_consumer_ack", "schedule_origin_wake" >>
MCEndpoint  == << "research", Target >>
MCStatus    == << "acked", "" >>

MCSeeds == { [legacy |-> 0, canonical |-> 1] }

MCOrigins == { << "#research", "research" >> }

\* What stands under a name: delivered, tried and accepted, acknowledged.
Names == << "#research", "research", Target >>

Kinds == << [Blank EXCEPT !.notify = "delivered", !.wake = "scheduled"],
            [Blank EXCEPT !.notify = "failed", !.wake = "accepted"],
            [Blank EXCEPT !.ack = "acked"] >>

MCReceipts ==
  { << [c \in { Names[i] : i \in DOMAIN f } |-> Kinds[f[CHOOSE i \in 1 .. 3 : Names[i] = c]]],
       [c \in {} |-> Blank] >> :
      f \in { << 1, 2, 3 >>, << 3, 1, 2 >>, << 2, 3 >>, << >> } }

MCSubs == { Events \X {"research"} }

=============================================================================
