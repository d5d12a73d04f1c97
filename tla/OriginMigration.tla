-------------------------- MODULE OriginMigration --------------------------
(***************************************************************************)
(* agentflow origin migrate-discord (origin_migration.py): origins, receipts   *)
(* and subscriptions that name a Discord channel by an alias move to its        *)
(* numeric id in one transaction of the board, then the dead callbacks of the   *)
(* canonical store are repaired one by one.  The board's writers, the daemons   *)
(* and a copy of a legacy store (StoreMigration) go on meanwhile.              *)
(*                                                                         *)
(* There is one board; a task is the number of the event that its callback     *)
(* row is about.  Both databases exist, with the columns of this version.      *)
(***************************************************************************)
EXTENDS StoreMigration

CONSTANTS
  Target,             \* the numeric id of the channel
  Others,             \* bound: other channels, numeric too
  Operation, Endpoint, Status,   \* payload of each event's row
  InitialOrigins, InitialReceipts, InitialSubs,   \* bound: the board at the beginning
  Notified, Woken, Acks,         \* bound: what the board's writers write
  MaxRuns,            \* bound: runs of the command
  MaxWrites           \* bound: writes of others

\* source_match_tokens of either alias, in this order.
Aliases == { "#research", "research" }
Chats == Aliases \union {Target} \union Others

Ops == { "record_consumer_ack", "schedule_origin_wake" }

\* _NOTIFY_RANK, _WAKE_RANK.
NotifyRank == [ none |-> 0, pending |-> 1, queued |-> 1, failed |-> 1, retrying |-> 1,
                delivered |-> 3 ]
WakeRank   == [ none |-> 0, pending |-> 1, scheduled |-> 2, accepted |-> 3, started |-> 4,
                completed |-> 5 ]

Receipt == [ notify : DOMAIN NotifyRank, wake : DOMAIN WakeRank, ack : Acks \union {""} ]
Blank   == [ notify |-> "none", wake |-> "none", ack |-> "" ]

\* The receipts of a task, by channel.
IsReceipts(f) == DOMAIN f \subseteq Chats /\ f \in [DOMAIN f -> Receipt]

ASSUME OriginAssumption ==
  /\ Target \notin Aliases \union Others
  /\ Operation \in [Events -> Ops]
  /\ Endpoint \in [Events -> Chats \ {"#research"}]
  /\ Status \in [Events -> Acks \union {""}]
  /\ InitialOrigins \subseteq [Events -> Chats]
  /\ \A r \in InitialReceipts : /\ r \in [Events -> { r[t] : t \in Events }]
                                 /\ \A t \in Events : IsReceipts(r[t])
  /\ InitialSubs \subseteq SUBSET (Events \X Aliases)
  /\ Notified \subseteq DOMAIN NotifyRank
  /\ Woken \subseteq DOMAIN WakeRank
  /\ { MaxRuns, MaxWrites } \subseteq Nat

VARIABLES
  origin,    \* channel of each task's origin
  receipts,  \* receipts of each task
  subs,      \* subscriptions by an alias
  run,       \* the run of the command
  shown,     \* acks that a task's origin has shown
  runs, writes

boardVars == << origin, receipts, subs, shown >>
vars == << storeVars, boardVars, run, runs, writes >>

\* todo: dead letters that are left.  at: the one being repaired.
Run == [ pc : { "idle", "commit", "repair", "verify", "readback", "mark" },
         todo : SUBSET Events, at : Events \union {0} ]

NoRun == [ pc |-> "idle", todo |-> {}, at |-> 0 ]

\* Mutant of Satisfied: the receipt is looked up without the origin.
SatisfiedUnjoined(t, chat, ack) ==
  /\ chat \in DOMAIN receipts[t]
  /\ receipts[t][chat].ack = ack

\* consumer_ack_satisfied: the receipt joined to the task's origin.
Satisfied(t, chat, ack) ==
  /\ origin[t] = chat
  /\ chat \in DOMAIN receipts[t]
  /\ receipts[t][chat].ack = ack

Showing(o, r) ==
  { << t, r[t][o[t]].ack >> : t \in { u \in Events : o[u] \in DOMAIN r[u] } }

\* Every action that changes the board notes what its origins show.
Note == shown' = shown \union Showing(origin', receipts')

TypeOK ==
  /\ StoreTypeOK
  /\ origin \in [Events -> Chats]
  /\ \A t \in Events : IsReceipts(receipts[t])
  /\ subs \subseteq Events \X Aliases
  /\ run \in Run
  /\ shown \subseteq Events \X (Acks \union {""})
  /\ runs \in 0 .. MaxRuns
  /\ writes \in 0 .. MaxWrites

Init ==
  /\ StoreInit
  /\ origin \in InitialOrigins
  /\ receipts \in InitialReceipts
  /\ subs \in InitialSubs
  /\ shown = Showing(origin, receipts)
  /\ run = NoRun
  /\ runs = 0
  /\ writes = 0

-----------------------------------------------------------------------------
(* The board's other writers.                                              *)

Put(f, chat, receipt) == [c \in DOMAIN f \union {chat} |-> IF c = chat THEN receipt ELSE f[c]]

At(t, chat) == IF chat \in DOMAIN receipts[t] THEN receipts[t][chat] ELSE Blank

\* The gateway delivers to the origin or to a subscription.
Gateway ==
  \E t \in Events, chat \in Chats, n \in Notified, w \in Woken :
    /\ writes < MaxWrites
    /\ writes' = writes + 1
    /\ chat = origin[t] \/ << t, chat >> \in subs
    /\ receipts' = [receipts EXCEPT ![t] =
                      Put(@, chat, [At(t, chat) EXCEPT !.notify = n, !.wake = w])]
    /\ UNCHANGED << storeVars, origin, subs, run, runs >>
    /\ Note

\* A consumer acknowledges the task where it was told of it.
Consumer ==
  \E t \in Events, a \in Acks :
    /\ writes < MaxWrites
    /\ writes' = writes + 1
    /\ receipts' = [receipts EXCEPT ![t] = Put(@, origin[t], [At(t, origin[t]) EXCEPT !.ack = a])]
    /\ UNCHANGED << storeVars, origin, subs, run, runs >>
    /\ Note

\* kanban consumer-ack-origin writes the receipt it is told to, or fails.
AckOrigin(t, chat, ack) ==
  /\ UNCHANGED << origin, subs >>
  /\ \/ /\ receipts' = [receipts EXCEPT ![t] = Put(@, chat, [At(t, chat) EXCEPT !.ack = ack])]
        /\ Note
     \/ UNCHANGED << receipts, shown >>

-----------------------------------------------------------------------------
(* A daemon's callbacks: reconcile_outbox on the row of an event.            *)

\* _DISCORD_CHANNEL_ALIASES: an endpoint by the alias means the numeric id.
Resolved(e) == IF Endpoint[e] \in Aliases THEN Target ELSE Endpoint[e]

Delivered(e) ==
  IF Operation[e] = "record_consumer_ack"
    THEN Satisfied(e, Resolved(e), Status[e])
    ELSE /\ origin[e] = Resolved(e)
         /\ Resolved(e) \in DOMAIN receipts[e]
         /\ WakeRank[receipts[e][Resolved(e)].wake] >= WakeRank["accepted"]

Deliver(st, e) ==
  /\ rows[st][e].state = "pending"
  /\ Delivered(e)
  /\ Mark(st, e, "applied")
  /\ UNCHANGED << boardVars, run, runs, writes >>

\* The attempt that records the ack; the next one finds it.
Attempt(st, e) ==
  /\ rows[st][e].state = "pending"
  /\ Operation[e] = "record_consumer_ack"
  /\ ~ Delivered(e)
  /\ AckOrigin(e, Resolved(e), Status[e])
  /\ UNCHANGED << storeVars, run, runs, writes >>

\* The last of its retries.
GiveUp(st, e) ==
  /\ rows[st][e].state = "pending"
  /\ ~ Delivered(e)
  /\ Mark(st, e, "callback_deadletter")
  /\ UNCHANGED << boardVars, run, runs, writes >>

-----------------------------------------------------------------------------
(* The plan.                                                               *)

\* merge_receipt_facts raises.
Ambiguous(f, alias) ==
  /\ { alias, Target } \subseteq DOMAIN f
  /\ "" \notin { f[alias].ack, f[Target].ack }
  /\ f[alias].ack /= f[Target].ack

InChannel(e) == Endpoint[e] \in Aliases \union {Target}

DeadLetters ==
  { e \in Events : InChannel(e) /\ rows["canonical"][e].state = "callback_deadletter" }

NothingToMigrate ==
  /\ \A t \in Events : origin[t] \notin Aliases /\ Aliases \intersect DOMAIN receipts[t] = {}
  /\ subs = {}

\* build_plan, its two databases read at once, and the backups.  Without a
\* selection all dead letters are taken; a selection that names anything else is
\* refused, as is a plan that is ambiguous.
Plan ==
  \E todo \in SUBSET DeadLetters :
    /\ run.pc = "idle"
    /\ runs < MaxRuns
    /\ runs' = runs + 1
    /\ \A t \in Events, a \in Aliases : ~ Ambiguous(receipts[t], a)
    /\ todo = {} => DeadLetters = {}
    /\ run' = [ pc |-> IF NothingToMigrate THEN "repair" ELSE "commit", todo |-> todo, at |-> 0 ]
    /\ UNCHANGED << storeVars, boardVars, writes >>

-----------------------------------------------------------------------------
(* The board's transaction.                                                *)

\* Mutant of Strongest: the target's value always wins.
StrongestTarget(rank, source, target) == target

\* The target's value wins a tie.
Strongest(rank, source, target) == IF rank[source] > rank[target] THEN source ELSE target

MergedFacts(source, target) ==
  [ notify |-> Strongest(NotifyRank, source.notify, target.notify),
    wake   |-> Strongest(WakeRank, source.wake, target.wake),
    ack    |-> IF target.ack /= "" THEN target.ack ELSE source.ack ]

\* Rekeyed or merged, one alias after the other.
Moved(f, alias) ==
  IF alias \notin DOMAIN f THEN f
  ELSE Put([c \in DOMAIN f \ {alias} |-> f[c]], Target,
           IF Target \in DOMAIN f THEN MergedFacts(f[alias], f[Target]) ELSE f[alias])

Commit ==
  /\ run.pc = "commit"
  /\ \A t \in Events : /\ ~ Ambiguous(receipts[t], "#research")
                       /\ ~ Ambiguous(Moved(receipts[t], "#research"), "research")
  /\ origin' = [t \in Events |-> IF origin[t] \in Aliases THEN Target ELSE origin[t]]
  /\ receipts' = [t \in Events |-> Moved(Moved(receipts[t], "#research"), "research")]
  /\ subs' = {}
  /\ run' = [run EXCEPT !.pc = "repair"]
  /\ UNCHANGED << storeVars, runs, writes >>
  /\ Note

\* active_writers_present, or rolled back because it became ambiguous.
Rollback ==
  /\ run.pc = "commit"
  /\ run' = NoRun
  /\ UNCHANGED << storeVars, boardVars, runs, writes >>

-----------------------------------------------------------------------------
(* The repair of a dead letter, whatever its operation: the ack is recorded at  *)
(* the numeric endpoint, checked by the adapter, read back and marked.          *)

Proceed(pc) == run' = [run EXCEPT !.pc = pc]

\* A partial repair: the letter stays dead.
Drop == run' = [run EXCEPT !.pc = "repair", !.todo = @ \ {run.at}, !.at = 0]

\* sorted by row id, here in any order.
Record ==
  \E e \in run.todo :
    /\ run.pc = "repair"
    /\ AckOrigin(e, Target, Status[e])
    /\ \/ run' = [run EXCEPT !.pc = "verify", !.at = e]
       \/ run' = [run EXCEPT !.todo = @ \ {e}]
    /\ UNCHANGED << storeVars, runs, writes >>

VerifyAck ==
  /\ run.pc = "verify"
  /\ IF Satisfied(run.at, Target, Status[run.at]) THEN Proceed("readback") ELSE Drop
  /\ UNCHANGED << storeVars, boardVars, runs, writes >>

ReadBack ==
  /\ run.pc = "readback"
  /\ IF Satisfied(run.at, Target, Status[run.at]) THEN Proceed("mark") ELSE Drop
  /\ UNCHANGED << storeVars, boardVars, runs, writes >>

MarkApplied ==
  /\ run.pc = "mark"
  /\ Mark("canonical", run.at, "applied")
  /\ Drop
  /\ UNCHANGED << boardVars, runs, writes >>

End ==
  /\ run.pc = "repair"
  /\ run.todo = {}
  /\ run' = NoRun
  /\ UNCHANGED << storeVars, boardVars, runs, writes >>

Crash ==
  /\ run.pc /= "idle"
  /\ run' = NoRun
  /\ UNCHANGED << storeVars, boardVars, runs, writes >>

Next ==
  \/ StoreNext /\ UNCHANGED << boardVars, run, runs, writes >>
  \/ \E st \in Stores, e \in Events : Deliver(st, e) \/ Attempt(st, e) \/ GiveUp(st, e)
  \/ Gateway \/ Consumer
  \/ Plan \/ Commit \/ Rollback
  \/ Record \/ VerifyAck \/ ReadBack \/ MarkApplied \/ End
  \/ Crash

Spec == Init /\ [][Next]_vars

-----------------------------------------------------------------------------
(* Properties.                                                             *)

\* _repair_callback_deadletters: a callback row for an ack is applied in the
\* canonical store, by a daemon, a repair or a copy, only after the origin of
\* its task has shown that ack, however origins moved meanwhile.
AppliedWasShown ==
  \A e \in Events :
    rows["canonical"][e].state = "applied" /\ Operation[e] = "record_consumer_ack"
      => << e, Status[e] >> \in shown

\* What is known of a task in the channel, by whichever of its names.
Facts(f) ==
  LET names == DOMAIN f \intersect (Aliases \union {Target}) IN
  [ notify |-> { k \in 1 .. 3 : \E c \in names : NotifyRank[f[c].notify] >= k },
    wake   |-> { k \in 1 .. 5 : \E c \in names : WakeRank[f[c].wake] >= k },
    acks   |-> { f[c].ack : c \in names } \ {""} ]

\* _apply_board_transaction: the move under one name forgets no fact about a
\* task, neither one of the plan's nor one written since, and invents none.
FactsSurvive ==
  [][run.pc = "commit" /\ run'.pc = "repair" =>
       \A t \in Events : Facts(receipts'[t]) = Facts(receipts[t])]_vars
=============================================================================
