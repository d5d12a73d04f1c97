--------------------------- MODULE StoreMigration ---------------------------
(***************************************************************************)
(* migrate_legacy_store (continuation_store.py): the rows of a store at a     *)
(* legacy path are copied into the canonical one, under the ids that the       *)
(* canonical store gives them.  The daemon of either store may be running.     *)
(* The legacy tables are read one statement after the other, each with its     *)
(* own snapshot; what is written is one transaction of the canonical store.    *)
(*                                                                         *)
(* An event of the board is its number; each is the source of one instance     *)
(* with one callback row, which has no step.                                 *)
(***************************************************************************)
EXTENDS Naturals, FiniteSets

CONSTANTS
  N,           \* bound: events of the board
  Seeds,       \* bound: cursors the daemons may have begun with
  MaxCopies    \* bound: runs of the migration

Events == 1 .. N
Stores == { "legacy", "canonical" }

ASSUME CopyAssumption ==
  /\ { N, MaxCopies } \subseteq Nat
  /\ Seeds \subseteq [Stores -> 0 .. N]

VARIABLES
  ids,       \* id of the instance of each event in each store, 0 if it has none
  rows,      \* callback row of each event in each store
  cursor,    \* the board's cursor in each store
  seed,      \* the cursor each daemon found the board with: it begins behind it
  copy,      \* the run of the migration
  copies

storeVars == << ids, rows, cursor, seed, copy, copies >>

\* owner: the row's continuation_id.
Row == [ owner : Nat, state : { "none", "pending", "callback_deadletter", "applied" } ]
NoRow == [ owner |-> 0, state |-> "none" ]

\* map: the id_map, 0 for an event it does not have.  fresh: the instances the
\* open transaction has inserted.  report: the verification of the last run.
Copy == [ pc : { "idle", "cursor", "rows", "verify" }, map : [Events -> Nat],
          fresh : SUBSET Events, cursor : Nat, report : { "none", "ok", "incomplete" } ]

NoCopy(report) == [ pc |-> "idle", map |-> [e \in Events |-> 0], fresh |-> {},
                    cursor |-> 0, report |-> report ]

StoreTypeOK ==
  /\ ids \in [Stores -> [Events -> Nat]]
  /\ rows \in [Stores -> [Events -> Row]]
  /\ { cursor, seed } \subseteq [Stores -> 0 .. N]
  /\ copy \in Copy
  /\ copies \in 0 .. MaxCopies

StoreInit ==
  /\ ids = [st \in Stores |-> [e \in Events |-> 0]]
  /\ rows = [st \in Stores |-> [e \in Events |-> NoRow]]
  /\ seed \in Seeds
  /\ cursor = seed
  /\ copy = NoCopy("none")
  /\ copies = 0

Held(st)   == { e \in Events : ids[st][e] /= 0 }
NextId(st) == Cardinality(Held(st)) + 1

\* The copy's transaction has the write lock from its first insert on.
Writable(st) ==
  st = "canonical" => copy.pc /= "rows" /\ (copy.pc = "cursor" => copy.fresh = {})

-----------------------------------------------------------------------------
(* A daemon over its store.                                                *)

\* create_instance for the next event.
Detect(st) ==
  LET e == cursor[st] + 1 IN
  /\ Writable(st)
  /\ e \in Events \ Held(st)
  /\ ids' = [ids EXCEPT ![st][e] = NextId(st)]
  /\ UNCHANGED << rows, cursor, seed, copy, copies >>

Enqueue(st) ==
  LET e == cursor[st] + 1 IN
  /\ Writable(st)
  /\ e \in Held(st)
  /\ rows[st][e] = NoRow
  /\ rows' = [rows EXCEPT ![st][e] = [ owner |-> ids[st][e], state |-> "pending" ]]
  /\ UNCHANGED << ids, cursor, seed, copy, copies >>

Advance(st) ==
  LET e == cursor[st] + 1 IN
  /\ Writable(st)
  /\ e \in Events
  /\ rows[st][e] /= NoRow
  /\ cursor' = [cursor EXCEPT ![st] = e]
  /\ UNCHANGED << ids, rows, seed, copy, copies >>

\* outbox_mark.
Mark(st, e, state) ==
  /\ Writable(st)
  /\ rows' = [rows EXCEPT ![st][e].state = state]
  /\ UNCHANGED << ids, cursor, seed, copy, copies >>

-----------------------------------------------------------------------------
(* The copy.                                                               *)

\* The legacy instances in the order of their ids: one whose source tuple the
\* canonical store has keeps that id, the others are inserted.
CopyInstances ==
  LET fresh == Held("legacy") \ Held("canonical")
      NewId(e) == NextId("canonical")
                    + Cardinality({ f \in fresh : ids["legacy"][f] < ids["legacy"][e] })
  IN
  /\ copy.pc = "idle"
  /\ copies < MaxCopies
  /\ copies' = copies + 1
  /\ copy' = [ NoCopy("none") EXCEPT
       !.pc = "cursor", !.fresh = fresh,
       !.map = [e \in Events |-> IF e \in fresh THEN NewId(e)
                                 ELSE IF e \in Held("legacy") THEN ids["canonical"][e] ELSE 0] ]
  /\ UNCHANGED << ids, rows, cursor, seed >>

CopyCursor ==
  /\ copy.pc = "cursor"
  /\ copy' = [copy EXCEPT !.pc = "rows",
       !.cursor = IF cursor["legacy"] > cursor["canonical"] THEN cursor["legacy"]
                  ELSE cursor["canonical"]]
  /\ UNCHANGED << ids, rows, cursor, seed, copies >>

\* Mutant of CopiedRow: the id of the legacy instance is copied as it is.
CopiedRowRaw(e) ==
  IF rows["canonical"][e] /= NoRow \/ rows["legacy"][e] = NoRow \/ copy.map[e] = 0
    THEN rows["canonical"][e]
    ELSE rows["legacy"][e]

\* insert or ignore: a row whose key the canonical store has is left alone.
CopiedRow(e) ==
  IF rows["canonical"][e] /= NoRow \/ rows["legacy"][e] = NoRow \/ copy.map[e] = 0
    THEN rows["canonical"][e]
    ELSE [rows["legacy"][e] EXCEPT !.owner = copy.map[e]]

CopyRows ==
  /\ copy.pc = "rows"
  /\ rows' = [rows EXCEPT !["canonical"] = [e \in Events |-> CopiedRow(e)]]
  /\ ids' = [ids EXCEPT !["canonical"] =
               [e \in Events |-> IF e \in copy.fresh THEN copy.map[e] ELSE ids["canonical"][e]]]
  /\ cursor' = [cursor EXCEPT !["canonical"] = copy.cursor]
  /\ copy' = [copy EXCEPT !.pc = "verify"]
  /\ UNCHANGED << seed, copies >>

\* Mutant of Verified: only what the copy had read is looked for.
VerifiedCopied == \A e \in Events : copy.map[e] /= 0 => e \in Held("canonical")

\* _verify_migration reads the legacy instances again.
Verified == \A e \in Held("legacy") : copy.map[e] /= 0

Verify ==
  /\ copy.pc = "verify"
  /\ copy' = NoCopy(IF Verified THEN "ok" ELSE "incomplete")
  /\ UNCHANGED << ids, rows, cursor, seed, copies >>

\* A killed run rolls its transaction back.
CopyCrash ==
  /\ copy.pc /= "idle"
  /\ copy' = NoCopy("none")
  /\ UNCHANGED << ids, rows, cursor, seed, copies >>

StoreNext ==
  \/ \E st \in Stores : Detect(st) \/ Enqueue(st) \/ Advance(st)
  \/ CopyInstances \/ CopyCursor \/ CopyRows \/ Verify \/ CopyCrash

-----------------------------------------------------------------------------

\* _verify_migration: when the migration has reported success, the canonical
\* cursor, which it may have taken over from a store that was being written,
\* has passed no instance: an event behind it that neither daemon began behind
\* is in the canonical store.
SuccessCoversCursor ==
  copy.report = "ok" =>
    \A e \in 1 .. cursor["canonical"] :
      (\A st \in Stores : e > seed[st]) => e \in Held("canonical")

\* migrate_legacy_store: a row of the canonical store, copied or not, belongs
\* to the instance of its own event, whatever ids the two stores have given.
RowsKeepTheirInstance ==
  \A e \in Events : rows["canonical"][e] /= NoRow =>
    /\ rows["canonical"][e].owner = ids["canonical"][e]
    /\ \A f \in Events \ {e} : ids["canonical"][f] /= rows["canonical"][e].owner
=============================================================================
