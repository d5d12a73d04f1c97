----------------------- MODULE OriginMigrationProofs -----------------------
(***************************************************************************)
(* Proofs about OriginMigration, and with it StoreMigration, for any number    *)
(* of events, copies, runs and writes and any board to begin with.            *)
(***************************************************************************)
EXTENDS OriginMigration, FiniteSetTheorems, TLAPS

-----------------------------------------------------------------------------
(* The two stores.                                                         *)

\* The ids of a store's instances are the numbers up to their count.
Numbered ==
  \A st \in Stores :
    /\ \A e \in Events : ids[st][e] <= Cardinality(Held(st))
    /\ \A e, f \in Held(st) : e # f => ids[st][e] # ids[st][f]

Rooted ==
  /\ \A st \in Stores, e \in Events : rows[st][e].state # "none" => e \in Held(st)
  /\ \A st \in Stores, e \in Events : rows[st][e].state = "none" => rows[st][e] = NoRow

Owned ==
  \A e \in Events : rows["canonical"][e].state # "none"
                      => rows["canonical"][e].owner = ids["canonical"][e]

\* An event that neither daemon began behind.
New(e) == \A st \in Stores : e > seed[st]

Covered ==
  /\ \A e \in Events : New(e) /\ e <= cursor["legacy"] => e \in Held("legacy")
  /\ \A e \in Events : New(e) /\ e <= cursor["canonical"] => e \in Held("legacy") \union Held("canonical")
  /\ copy.pc = "rows" =>
       \A e \in Events : New(e) /\ e <= copy.cursor => e \in Held("legacy") \union Held("canonical")

\* What the open transaction is about to insert.
Mapped ==
  copy.pc \in { "cursor", "rows" } =>
    /\ \A e \in copy.fresh :
         /\ ids["canonical"][e] = 0
         /\ Cardinality(Held("canonical")) < copy.map[e]
         /\ copy.map[e] <= Cardinality(Held("canonical")) + Cardinality(copy.fresh)
    /\ \A e, f \in copy.fresh : e # f => copy.map[e] # copy.map[f]
    /\ \A e \in Events \ copy.fresh : copy.map[e] # 0 => copy.map[e] = ids["canonical"][e]

Copied ==
  copy.pc = "verify" => \A e \in Events : copy.map[e] # 0 => e \in Held("canonical")

Reporting == copy.report = "ok" => copy.pc = "idle"

StoreTypes ==
  /\ ids \in [Stores -> [Events -> Nat]]
  /\ rows \in [Stores -> [Events -> Row]]
  /\ cursor \in [Stores -> 0 .. N]
  /\ seed \in [Stores -> 0 .. N]
  /\ copy \in Copy /\ copy.cursor \in 0 .. N
  /\ copies \in 0 .. MaxCopies

StoreInv ==
  /\ StoreTypes /\ Numbered /\ Rooted /\ Owned /\ Covered /\ Mapped /\ Copied /\ Reporting
  /\ SuccessCoversCursor

-----------------------------------------------------------------------------
LEMMA HeldFacts ==
  ASSUME NEW st
  PROVE  /\ Held(st) \subseteq Events
         /\ IsFiniteSet(Held(st)) /\ Cardinality(Held(st)) \in Nat
<1>1. Held(st) \in SUBSET Events
  BY DEF Held
<1>2. IsFiniteSet(Events)
  BY FS_Interval, CopyAssumption DEF Events
<1>3. IsFiniteSet(Held(st))
  BY <1>1, <1>2, FS_Subset
<1>. QED
  BY <1>1, <1>3, FS_CardinalityType

LEMMA DetectKeeps ==
  ASSUME StoreInv, NEW st \in Stores, Detect(st)
  PROVE  StoreInv'
<1>. DEFINE e == cursor[st] + 1
<1>1. /\ Writable(st) /\ e \in Events /\ e \notin Held(st)
      /\ ids' = [ids EXCEPT ![st][e] = NextId(st)]
      /\ UNCHANGED << rows, cursor, seed, copy, copies >>
  BY DEF Detect
<1>. HIDE DEF e
<1>2. NextId(st) = Cardinality(Held(st)) + 1 /\ NextId(st) \in Nat \ {0} /\ Cardinality(Held(st)) \in Nat
  BY HeldFacts DEF NextId
<1>3. /\ ids' \in [Stores -> [Events -> Nat]]
      /\ ids'[st][e] = NextId(st)
      /\ \A f \in Events \ {e} : ids'[st][f] = ids[st][f]
      /\ \A s \in Stores \ {st} : ids'[s] = ids[s]
  BY <1>1, <1>2 DEF StoreInv, StoreTypes
<1>4. /\ Held(st)' = Held(st) \union {e}
      /\ \A s \in Stores \ {st} : Held(s)' = Held(s)
  BY <1>1, <1>2, <1>3 DEF Held
<1>5. Cardinality(Held(st)') = Cardinality(Held(st)) + 1
  BY <1>1, <1>4, HeldFacts, FS_AddElement
<1>6. StoreTypes'
  BY <1>1, <1>3 DEF StoreInv, StoreTypes
<1>7. Numbered'
  <2>1. ASSUME NEW s \in Stores
        PROVE  /\ \A f \in Events : ids'[s][f] <= Cardinality(Held(s)')
               /\ \A f, g \in Held(s)' : f # g => ids'[s][f] # ids'[s][g]
    <3>1. CASE s = st
      <4>1. \A f \in Events : ids[st][f] \in Nat /\ ids[st][f] <= Cardinality(Held(st))
        BY DEF StoreInv, StoreTypes, Numbered
      <4>2. \A f \in Held(st) : f \in Events /\ f # e
        BY <1>1, HeldFacts
      <4>3. \A f, g \in Held(st) : f # g => ids[st][f] # ids[st][g]
        BY DEF StoreInv, Numbered
      <4>4. \A f \in Events : ids'[st][f] <= Cardinality(Held(st)) + 1
        BY <1>2, <1>3, <4>1
      <4>5. ASSUME NEW f \in Held(st), NEW g \in Held(st)', f # g
            PROVE  ids'[st][f] # ids'[st][g]
        BY <1>2, <1>3, <1>4, <4>1, <4>2, <4>3, <4>5
      <4>. QED
        BY <1>4, <1>5, <3>1, <4>4, <4>5
    <3>2. CASE s # st
      BY <1>3, <1>4, <3>2 DEF StoreInv, Numbered
    <3>. QED
      BY <3>1, <3>2
  <2>. QED
    BY <2>1 DEF Numbered
<1>8. \A s \in Stores : Held(s) \subseteq Held(s)'
  BY <1>4
<1>9. "legacy" \in Stores /\ "canonical" \in Stores
  BY DEF Stores
<1>10. Rooted'
  BY <1>1, <1>8 DEF StoreInv, Rooted
<1>11. Owned'
  <2>1. ASSUME NEW f \in Events, rows["canonical"][f].state # "none"
        PROVE  ids'["canonical"][f] = ids["canonical"][f]
    <3>1. f \in Held("canonical")
      BY <1>9, <2>1 DEF StoreInv, Rooted
    <3>. QED
      BY <1>1, <1>3, <1>9, <3>1
  <2>. QED
    BY <1>1, <2>1 DEF StoreInv, Owned
<1>12. Covered'
  BY <1>1, <1>8, <1>9 DEF StoreInv, Covered, New
<1>13. Mapped'
  <2>1. SUFFICES ASSUME copy.pc \in { "cursor", "rows" } PROVE Mapped'
    BY <1>1 DEF Mapped
  <2>2. CASE st = "canonical"
    <3>1. copy.fresh = {}
      BY <1>1, <2>1, <2>2 DEF Writable
    <3>2. \A f \in Events : copy.map[f] # 0 => copy.map[f] = ids["canonical"][f] /\ f # e
      BY <1>1, <2>1, <2>2, <3>1 DEF StoreInv, Mapped, Held
    <3>. QED
      BY <1>1, <1>3, <2>2, <3>1, <3>2 DEF Mapped
  <2>3. CASE st # "canonical"
    BY <1>1, <1>3, <1>4, <1>9, <2>3 DEF StoreInv, Mapped
  <2>. QED
    BY <2>2, <2>3
<1>14. Copied' /\ Reporting'
  BY <1>1, <1>8, <1>9 DEF StoreInv, Copied, Reporting
<1>15. SuccessCoversCursor'
  BY <1>1, <1>8, <1>9 DEF StoreInv, SuccessCoversCursor
<1>. QED
  BY <1>6, <1>7, <1>10, <1>11, <1>12, <1>13, <1>14, <1>15 DEF StoreInv

LEMMA EnqueueKeeps ==
  ASSUME StoreInv, NEW st \in Stores, Enqueue(st)
  PROVE  StoreInv'
<1>. DEFINE e == cursor[st] + 1
<1>1. /\ e \in Held(st) /\ e \in Events /\ rows[st][e] = NoRow
      /\ rows' = [rows EXCEPT ![st][e] = [ owner |-> ids[st][e], state |-> "pending" ]]
      /\ UNCHANGED << ids, cursor, seed, copy, copies >>
  BY HeldFacts DEF Enqueue
<1>. HIDE DEF e
<1>2. [ owner |-> ids[st][e], state |-> "pending" ] \in Row
  BY <1>1 DEF StoreInv, StoreTypes, Row
<1>3. /\ rows' \in [Stores -> [Events -> Row]]
      /\ rows'[st][e] = [ owner |-> ids[st][e], state |-> "pending" ]
      /\ \A s \in Stores, f \in Events : s # st \/ f # e => rows'[s][f] = rows[s][f]
  BY <1>1, <1>2 DEF StoreInv, StoreTypes
<1>4. \A s \in Stores : Held(s)' = Held(s)
  BY <1>1 DEF Held
<1>5. "legacy" \in Stores /\ "canonical" \in Stores
  BY DEF Stores
<1>6. StoreTypes'
  BY <1>1, <1>3 DEF StoreInv, StoreTypes
<1>7. Rooted' /\ Owned'
  <2>1. ASSUME NEW s \in Stores, NEW f \in Events
        PROVE  /\ rows'[s][f].state # "none" => f \in Held(s)
               /\ rows'[s][f].state = "none" => rows'[s][f] = NoRow
    BY <1>1, <1>3 DEF StoreInv, Rooted
  <2>2. Rooted'
    BY <1>4, <2>1 DEF Rooted
  <2>3. Owned'
    BY <1>1, <1>3, <1>5 DEF StoreInv, Owned
  <2>. QED
    BY <2>2, <2>3
<1>8. Numbered' /\ Covered' /\ Mapped' /\ Copied' /\ Reporting' /\ SuccessCoversCursor'
  BY <1>1, <1>4, <1>5 DEF StoreInv, Numbered, Covered, New, Mapped, Copied, Reporting, SuccessCoversCursor
<1>. QED
  BY <1>6, <1>7, <1>8 DEF StoreInv

LEMMA AdvanceKeeps ==
  ASSUME StoreInv, NEW st \in Stores, Advance(st)
  PROVE  StoreInv'
<1>. DEFINE e == cursor[st] + 1
<1>1. /\ Writable(st) /\ e \in Events /\ rows[st][e] # NoRow
      /\ cursor' = [cursor EXCEPT ![st] = e]
      /\ UNCHANGED << ids, rows, seed, copy, copies >>
  BY DEF Advance
<1>2. e \in Held(st)
  BY <1>1 DEF StoreInv, Rooted
<1>3. cursor[st] \in Nat /\ e \in 0 .. N /\ \A f \in Events : f <= e => f <= cursor[st] \/ f = e
  BY <1>1, CopyAssumption DEF StoreInv, StoreTypes, Events
<1>. HIDE DEF e
<1>4. cursor'[st] = e /\ \A s \in Stores \ {st} : cursor'[s] = cursor[s]
  BY <1>1 DEF StoreInv, StoreTypes
<1>5. \A s \in Stores : Held(s)' = Held(s)
  BY <1>1 DEF Held
<1>6. "legacy" \in Stores /\ "canonical" \in Stores /\ Stores = { "legacy", "canonical" }
  BY DEF Stores
<1>7. StoreTypes'
  BY <1>1, <1>3 DEF StoreInv, StoreTypes
<1>8. Covered'
  <2>1. ASSUME NEW f \in Events, New(f), f <= cursor'["legacy"] PROVE f \in Held("legacy")
    BY <1>2, <1>3, <1>4, <1>6, <2>1 DEF StoreInv, Covered
  <2>2. ASSUME NEW f \in Events, New(f), f <= cursor'["canonical"]
        PROVE  f \in Held("legacy") \union Held("canonical")
    BY <1>2, <1>3, <1>4, <1>6, <2>2 DEF StoreInv, Covered
  <2>. QED
    BY <1>1, <1>5, <1>6, <2>1, <2>2 DEF StoreInv, Covered, New
<1>9. SuccessCoversCursor'
  <2>1. SUFFICES ASSUME copy.report = "ok", NEW f \in 1 .. cursor'["canonical"], New(f)
                 PROVE  f \in Held("canonical")
    BY <1>1, <1>5, <1>6 DEF SuccessCoversCursor, New
  <2>2. CASE st = "canonical"
    <3>1. f \in Events /\ (f <= cursor[st] \/ f = e)
      <4>1. f \in 1 .. e
        BY <1>4, <2>1, <2>2
      <4>2. f \in Events /\ f <= e
        BY <1>1, <4>1, CopyAssumption DEF Events
      <4>. QED
        BY <1>3, <4>2
    <3>2. CASE f <= cursor[st]
      <4>1. f \in 1 .. cursor["canonical"]
        BY <1>3, <2>2, <3>1, <3>2, CopyAssumption DEF Events
      <4>. QED
        BY <2>1, <4>1 DEF StoreInv, SuccessCoversCursor, New
    <3>. QED
      BY <1>2, <2>2, <3>1, <3>2
  <2>3. CASE st # "canonical"
    <3>1. cursor'["canonical"] = cursor["canonical"]
      BY <1>4, <1>6, <2>3
    <3>. QED
      BY <2>1, <3>1 DEF StoreInv, SuccessCoversCursor, New
  <2>. QED
    BY <2>2, <2>3
<1>10. Numbered' /\ Rooted' /\ Owned' /\ Mapped' /\ Copied' /\ Reporting'
  BY <1>1, <1>5, <1>6 DEF StoreInv, Numbered, Rooted, Owned, Mapped, Copied, Reporting
<1>. QED
  BY <1>7, <1>8, <1>9, <1>10 DEF StoreInv

LEMMA MarkKeeps ==
  ASSUME StoreInv, NEW st \in Stores, NEW e \in Events, NEW state \in { "applied", "callback_deadletter" },
         rows[st][e].state # "none", Mark(st, e, state)
  PROVE  StoreInv'
<1>1. /\ rows' = [rows EXCEPT ![st][e].state = state]
      /\ UNCHANGED << ids, cursor, seed, copy, copies >>
  BY DEF Mark
<1>2. /\ rows' \in [Stores -> [Events -> Row]]
      /\ rows'[st][e].owner = rows[st][e].owner /\ rows'[st][e].state = state
      /\ \A s \in Stores, f \in Events : s # st \/ f # e => rows'[s][f] = rows[s][f]
  <2>. DEFINE row == [rows[st][e] EXCEPT !.state = state]
  <2>1. rows \in [Stores -> [Events -> Row]] /\ rows[st][e] \in Row
    BY DEF StoreInv, StoreTypes
  <2>2. row \in Row /\ row.owner = rows[st][e].owner /\ row.state = state
    BY <2>1 DEF Row
  <2>3. rows' = [rows EXCEPT ![st] = [rows[st] EXCEPT ![e] = row]]
    BY <1>1
  <2>. HIDE DEF row
  <2>4. rows' \in [Stores -> [Events -> Row]] /\ rows'[st][e] = row
        /\ \A s \in Stores, f \in Events : s # st \/ f # e => rows'[s][f] = rows[s][f]
    BY <2>1, <2>2, <2>3
  <2>. QED
    BY <2>2, <2>4
<1>3. \A s \in Stores : Held(s)' = Held(s)
  BY <1>1 DEF Held
<1>4. "legacy" \in Stores /\ "canonical" \in Stores
  BY DEF Stores
<1>5. StoreTypes'
  BY <1>1, <1>2 DEF StoreInv, StoreTypes
<1>6. Rooted' /\ Owned'
  <2>1. ASSUME NEW s \in Stores, NEW f \in Events
        PROVE  /\ rows'[s][f].state # "none" => f \in Held(s)
               /\ rows'[s][f].state = "none" => rows'[s][f] = NoRow
    BY <1>2 DEF StoreInv, Rooted
  <2>2. Rooted'
    BY <1>3, <2>1 DEF Rooted
  <2>3. Owned'
    BY <1>1, <1>2, <1>4 DEF StoreInv, Owned
  <2>. QED
    BY <2>2, <2>3
<1>7. Numbered' /\ Covered' /\ Mapped' /\ Copied' /\ Reporting' /\ SuccessCoversCursor'
  BY <1>1, <1>3, <1>4 DEF StoreInv, Numbered, Covered, New, Mapped, Copied, Reporting, SuccessCoversCursor
<1>. QED
  BY <1>5, <1>6, <1>7 DEF StoreInv

\* What a step of the copy that leaves ids, rows and cursors has to keep.
LEMMA CopyKeeps ==
  ASSUME StoreInv, UNCHANGED << ids, rows, cursor, seed >>,
         copy' \in Copy, copy'.cursor \in 0 .. N, copies' \in 0 .. MaxCopies,
         copy'.pc = "rows" => \A e \in Events : New(e) /\ e <= copy'.cursor
                                                  => e \in Held("legacy") \union Held("canonical"),
         Mapped', Copied', Reporting', SuccessCoversCursor'
  PROVE  StoreInv'
<1>1. \A s : Held(s)' = Held(s)
  BY DEF Held
<1>2. StoreTypes' /\ Numbered' /\ Rooted' /\ Owned' /\ Covered'
  BY <1>1 DEF StoreInv, StoreTypes, Numbered, Rooted, Owned, Covered, New
<1>. QED
  BY <1>2 DEF StoreInv

LEMMA NoCopyKeeps ==
  ASSUME StoreInv, NEW report \in { "none", "ok", "incomplete" }, copy' = NoCopy(report),
         UNCHANGED << ids, rows, cursor, seed, copies >>,
         report = "ok" => \A e \in 1 .. cursor["canonical"] : New(e) => e \in Held("canonical")
  PROVE  StoreInv'
<1>1. /\ copy' \in Copy /\ copy'.cursor \in 0 .. N /\ copies' \in 0 .. MaxCopies
      /\ copy'.pc = "idle" /\ copy'.report = report
  BY CopyAssumption DEF NoCopy, Copy, StoreInv, StoreTypes
<1>2. Mapped' /\ Copied' /\ Reporting'
  BY <1>1 DEF Mapped, Copied, Reporting
<1>3. SuccessCoversCursor'
  BY <1>1 DEF SuccessCoversCursor, New, Held
<1>. QED
  BY <1>1, <1>2, <1>3, CopyKeeps

LEMMA VerifyKeeps ==
  ASSUME StoreInv, Verify
  PROVE  StoreInv'
<1>1. /\ copy.pc = "verify"
      /\ copy' = NoCopy(IF Verified THEN "ok" ELSE "incomplete")
      /\ UNCHANGED << ids, rows, cursor, seed, copies >>
  BY DEF Verify
<1>2. ASSUME Verified, NEW e \in 1 .. cursor["canonical"], New(e) PROVE e \in Held("canonical")
  <2>1. cursor["canonical"] \in 0 .. N
    BY DEF StoreInv, StoreTypes, Stores
  <2>2. e \in Events /\ e <= cursor["canonical"]
    BY <1>2, <2>1, CopyAssumption DEF Events
  <2>3. e \in Held("legacy") \union Held("canonical")
    BY <1>2, <2>2 DEF StoreInv, Covered
  <2>4. e \in Held("legacy") => copy.map[e] # 0
    BY <1>2 DEF Verified
  <2>. QED
    BY <1>1, <2>2, <2>3, <2>4 DEF StoreInv, Copied
<1>. QED
  BY <1>1, <1>2, NoCopyKeeps

LEMMA CopyCrashKeeps ==
  ASSUME StoreInv, CopyCrash
  PROVE  StoreInv'
BY NoCopyKeeps DEF CopyCrash

LEMMA CopyCursorKeeps ==
  ASSUME StoreInv, CopyCursor
  PROVE  StoreInv'
<1>. DEFINE c == IF cursor["legacy"] > cursor["canonical"] THEN cursor["legacy"] ELSE cursor["canonical"]
<1>1. /\ copy.pc = "cursor" /\ copy' = [copy EXCEPT !.pc = "rows", !.cursor = c]
      /\ UNCHANGED << ids, rows, cursor, seed, copies >>
  BY DEF CopyCursor
<1>2. c \in 0 .. N /\ (c = cursor["legacy"] \/ c = cursor["canonical"])
  BY DEF StoreInv, StoreTypes, Stores
<1>. HIDE DEF c
<1>3. /\ copy' \in Copy /\ copy'.pc = "rows" /\ copy'.cursor = c /\ copy'.map = copy.map
      /\ copy'.fresh = copy.fresh /\ copy'.report = copy.report
  <2>1. c \in Nat
    BY <1>2, CopyAssumption
  <2>. QED
    BY <1>1, <2>1 DEF StoreInv, StoreTypes, Copy
<1>4. \A e \in Events : New(e) /\ e <= c => e \in Held("legacy") \union Held("canonical")
  BY <1>2 DEF StoreInv, Covered
<1>5. \A s : Held(s)' = Held(s)
  BY <1>1 DEF Held
<1>6. Mapped'
  BY <1>1, <1>3, <1>5 DEF StoreInv, Mapped
<1>7. copy.report # "ok"
  BY <1>1 DEF StoreInv, Reporting
<1>8. Copied' /\ Reporting' /\ SuccessCoversCursor'
  BY <1>3, <1>7 DEF Copied, Reporting, SuccessCoversCursor
<1>9. copies' \in 0 .. MaxCopies
  BY <1>1 DEF StoreInv, StoreTypes
<1>. QED
  BY <1>1, <1>2, <1>3, <1>4, <1>6, <1>8, <1>9, CopyKeeps

\* Counting the smaller ids gives different places to different instances.
LEMMA Places ==
  ASSUME StoreInv, NEW F, F \subseteq Held("legacy"), NEW e \in F
  PROVE  LET Below(x) == { f \in F : ids["legacy"][f] < ids["legacy"][x] } IN
         /\ Cardinality(Below(e)) \in Nat
         /\ Cardinality(Below(e)) < Cardinality(F)
         /\ \A f \in F : ids["legacy"][f] < ids["legacy"][e]
                           => Cardinality(Below(f)) < Cardinality(Below(e))
<1>. DEFINE Below(x) == { f \in F : ids["legacy"][f] < ids["legacy"][x] }
<1>1. IsFiniteSet(F)
  <2>1. F \in SUBSET Held("legacy")
    OBVIOUS
  <2>. QED
    BY <2>1, HeldFacts, FS_Subset
<1>2. \A x \in F : x \in Events /\ ids["legacy"][x] \in Nat
  BY HeldFacts DEF StoreInv, StoreTypes, Stores
<1>3. ASSUME NEW S, NEW T, S \subseteq T, IsFiniteSet(T), S # T
      PROVE  Cardinality(S) \in Nat /\ Cardinality(T) \in Nat /\ Cardinality(S) < Cardinality(T)
  <2>1. S \in SUBSET T
    BY <1>3
  <2>2. IsFiniteSet(S) /\ Cardinality(S) <= Cardinality(T) /\ Cardinality(S) # Cardinality(T)
    BY <1>3, <2>1, FS_Subset
  <2>3. Cardinality(S) \in Nat /\ Cardinality(T) \in Nat
    BY <1>3, <2>2, FS_CardinalityType
  <2>. QED
    BY <2>2, <2>3
<1>4. Below(e) \subseteq F /\ e \notin Below(e)
  BY <1>2
<1>5. ASSUME NEW f \in F, ids["legacy"][f] < ids["legacy"][e]
      PROVE  Cardinality(Below(f)) < Cardinality(Below(e))
  <2>1. Below(f) \subseteq Below(e) /\ f \in Below(e) /\ f \notin Below(f)
    BY <1>2, <1>5
  <2>2. IsFiniteSet(Below(e))
    <3>1. Below(e) \in SUBSET F
      OBVIOUS
    <3>. QED
      BY <1>1, <3>1, FS_Subset
  <2>. HIDE DEF Below
  <2>. QED
    BY <1>3, <2>1, <2>2
<1>. HIDE DEF Below
<1>6. Cardinality(Below(e)) \in Nat /\ Cardinality(Below(e)) < Cardinality(F)
  BY <1>1, <1>3, <1>4
<1>. QED
  BY <1>5, <1>6 DEF Below

LEMMA CopyInstancesKeeps ==
  ASSUME StoreInv, CopyInstances
  PROVE  StoreInv'
<1>. DEFINE fresh == Held("legacy") \ Held("canonical")
            Below(x) == { f \in fresh : ids["legacy"][f] < ids["legacy"][x] }
            NewId(x) == NextId("canonical") + Cardinality(Below(x))
            map == [e \in Events |-> IF e \in fresh THEN NewId(e)
                                     ELSE IF e \in Held("legacy") THEN ids["canonical"][e] ELSE 0]
<1>1. /\ copies < MaxCopies /\ copies' = copies + 1
      /\ copy' = [ NoCopy("none") EXCEPT !.pc = "cursor", !.fresh = fresh, !.map = map ]
      /\ UNCHANGED << ids, rows, cursor, seed >>
  BY DEF CopyInstances
<1>2. fresh \subseteq Held("legacy") /\ fresh \subseteq Events
  BY HeldFacts
<1>3. NextId("canonical") = Cardinality(Held("canonical")) + 1 /\ Cardinality(Held("canonical")) \in Nat
  BY HeldFacts DEF NextId
<1>4. Cardinality(fresh) \in Nat
  <2>1. fresh \in SUBSET Held("legacy")
    BY <1>2
  <2>2. IsFiniteSet(fresh)
    BY <2>1, HeldFacts, FS_Subset
  <2>. QED
    BY <2>2, FS_CardinalityType
<1>5. ASSUME NEW e \in fresh
      PROVE  /\ Cardinality(Below(e)) \in Nat /\ Cardinality(Below(e)) < Cardinality(fresh)
             /\ \A f \in fresh : ids["legacy"][f] < ids["legacy"][e]
                                   => Cardinality(Below(f)) < Cardinality(Below(e))
  <2>. HIDE DEF fresh
  <2>. QED
    BY <1>2, <1>5, Places
<1>6. \A e \in fresh : /\ NewId(e) \in Nat
                       /\ Cardinality(Held("canonical")) < NewId(e)
                       /\ NewId(e) <= Cardinality(Held("canonical")) + Cardinality(fresh)
  <2>. HIDE DEF Below, fresh
  <2>. QED
    BY <1>3, <1>4, <1>5
<1>7. ASSUME NEW e \in fresh, NEW f \in fresh, e # f PROVE NewId(e) # NewId(f)
  <2>1. ids["legacy"][e] \in Nat /\ ids["legacy"][f] \in Nat /\ ids["legacy"][e] # ids["legacy"][f]
    BY <1>2, <1>7 DEF StoreInv, StoreTypes, Numbered, Stores
  <2>2. Cardinality(Below(e)) \in Nat /\ Cardinality(Below(f)) \in Nat
        /\ Cardinality(Below(e)) # Cardinality(Below(f))
    <3>. HIDE DEF Below, fresh
    <3>. QED
      BY <1>5, <1>7, <2>1
  <2>. HIDE DEF Below
  <2>. QED
    BY <1>3, <2>2
<1>8. map \in [Events -> Nat]
  <2>1. \A e \in Events : ids["canonical"][e] \in Nat
    BY DEF StoreInv, StoreTypes, Stores
  <2>. HIDE DEF NewId, fresh
  <2>. QED
    BY <1>6, <2>1
<1>9. /\ \A e \in fresh : map[e] = NewId(e)
      /\ \A e \in Events \ fresh : map[e] # 0 => map[e] = ids["canonical"][e]
      /\ \A e \in fresh : ids["canonical"][e] = 0
  <2>1. \A e \in fresh : e \in Events
    BY <1>2
  <2>2. \A e \in fresh : ids["canonical"][e] = 0
    BY <1>2 DEF Held
  <2>. HIDE DEF NewId, fresh
  <2>. QED
    BY <2>1, <2>2
<1>10. /\ copy' \in Copy /\ copy'.pc = "cursor" /\ copy'.fresh = fresh /\ copy'.map = map
       /\ copy'.report = "none" /\ copy'.cursor = 0
  <2>. HIDE DEF fresh, map
  <2>. QED
    BY <1>1, <1>2, <1>8 DEF NoCopy, Copy
<1>11. copies' \in 0 .. MaxCopies /\ copy'.cursor \in 0 .. N
  BY <1>1, <1>10, CopyAssumption DEF StoreInv, StoreTypes
<1>12. Held("canonical")' = Held("canonical")
  BY <1>1 DEF Held
<1>. HIDE DEF fresh, map, NewId
<1>13. Mapped'
  BY <1>1, <1>6, <1>7, <1>9, <1>10, <1>12 DEF Mapped
<1>14. Copied' /\ Reporting' /\ SuccessCoversCursor'
  BY <1>10 DEF Copied, Reporting, SuccessCoversCursor
<1>. QED
  BY <1>1, <1>10, <1>11, <1>13, <1>14, CopyKeeps

LEMMA CopyRowsKeeps ==
  ASSUME StoreInv, CopyRows
  PROVE  StoreInv'
<1>1. /\ copy.pc = "rows"
      /\ rows' = [rows EXCEPT !["canonical"] = [e \in Events |-> CopiedRow(e)]]
      /\ ids' = [ids EXCEPT !["canonical"] =
                   [e \in Events |-> IF e \in copy.fresh THEN copy.map[e] ELSE ids["canonical"][e]]]
      /\ cursor' = [cursor EXCEPT !["canonical"] = copy.cursor]
      /\ copy' = [copy EXCEPT !.pc = "verify"]
      /\ UNCHANGED << seed, copies >>
  BY DEF CopyRows
<1>2. "legacy" \in Stores /\ "canonical" \in Stores /\ Stores = { "legacy", "canonical" }
  BY DEF Stores
<1>3. /\ copy \in Copy /\ copy.cursor \in 0 .. N /\ copy.fresh \subseteq Events
      /\ copy.map \in [Events -> Nat] /\ copy.report # "ok"
  BY <1>1 DEF StoreInv, StoreTypes, Copy, Reporting
<1>4. /\ copy' \in Copy /\ copy'.pc = "verify" /\ copy'.map = copy.map /\ copy'.cursor = copy.cursor
      /\ copy'.report = copy.report
  BY <1>1, <1>3 DEF Copy
<1>5. /\ ids' \in [Stores -> [Events -> Nat]] /\ ids'["legacy"] = ids["legacy"]
      /\ \A e \in Events : ids'["canonical"][e] =
                             IF e \in copy.fresh THEN copy.map[e] ELSE ids["canonical"][e]
  BY <1>1, <1>2, <1>3 DEF StoreInv, StoreTypes
<1>6. /\ \A e \in copy.fresh : /\ ids["canonical"][e] = 0
                               /\ Cardinality(Held("canonical")) < copy.map[e]
                               /\ copy.map[e] <= Cardinality(Held("canonical")) + Cardinality(copy.fresh)
      /\ \A e, f \in copy.fresh : e # f => copy.map[e] # copy.map[f]
      /\ \A e \in Events \ copy.fresh : copy.map[e] # 0 => copy.map[e] = ids["canonical"][e]
  BY <1>1 DEF StoreInv, Mapped
<1>7. Cardinality(Held("canonical")) \in Nat /\ IsFiniteSet(Held("canonical"))
  BY HeldFacts
<1>8. \A e \in copy.fresh : copy.map[e] \in Nat /\ copy.map[e] # 0 /\ e \in Events
  BY <1>3, <1>6, <1>7
<1>9. Held("legacy")' = Held("legacy") /\ Held("canonical")' = Held("canonical") \union copy.fresh
  BY <1>3, <1>5, <1>8 DEF Held
<1>10. /\ Cardinality(copy.fresh) \in Nat
       /\ Cardinality(Held("canonical") \union copy.fresh)
            = Cardinality(Held("canonical")) + Cardinality(copy.fresh)
  <2>1. IsFiniteSet(copy.fresh)
    <3>1. IsFiniteSet(Events)
      BY FS_Interval, CopyAssumption DEF Events
    <3>2. copy.fresh \in SUBSET Events
      BY <1>3
    <3>. QED
      BY <3>1, <3>2, FS_Subset
  <2>2. Held("canonical") \cap copy.fresh = {} /\ Cardinality({}) = 0
    BY <1>6, FS_EmptySet DEF Held
  <2>3. Cardinality(copy.fresh) \in Nat
    BY <2>1, FS_CardinalityType
  <2>4. Cardinality(Held("canonical") \union copy.fresh)
          = Cardinality(Held("canonical")) + Cardinality(copy.fresh) - 0
    BY <1>7, <2>1, <2>2, FS_Union
  <2>. QED
    BY <1>7, <2>3, <2>4
<1>11. \A e \in Events : ids["canonical"][e] \in Nat /\ ids["canonical"][e] <= Cardinality(Held("canonical"))
  BY <1>2 DEF StoreInv, StoreTypes, Numbered
<1>12. Numbered'
  <2>1. ASSUME NEW e \in Events PROVE ids'["canonical"][e] <= Cardinality(Held("canonical")')
    <3>1. Cardinality(Held("canonical")') = Cardinality(Held("canonical")) + Cardinality(copy.fresh)
      BY <1>9, <1>10
    <3>2. CASE e \in copy.fresh
      <4>1. ids'["canonical"][e] = copy.map[e]
        BY <1>5, <2>1, <3>2
      <4>. QED
        BY <1>6, <3>1, <3>2, <4>1
    <3>3. CASE e \notin copy.fresh
      <4>1. ids'["canonical"][e] = ids["canonical"][e]
        BY <1>5, <2>1, <3>3
      <4>. QED
        BY <1>7, <1>10, <1>11, <3>1, <4>1
    <3>. QED
      BY <3>2, <3>3
  <2>2. ASSUME NEW e \in Held("canonical"), NEW f \in copy.fresh
        PROVE  ids'["canonical"][e] # ids'["canonical"][f]
    <3>1. e \in Events /\ e \notin copy.fresh
      BY <1>6, <2>2 DEF Held
    <3>2. ids'["canonical"][e] = ids["canonical"][e] /\ ids'["canonical"][f] = copy.map[f]
      BY <1>5, <1>8, <2>2, <3>1
    <3>3. /\ ids["canonical"][e] \in Nat /\ ids["canonical"][e] <= Cardinality(Held("canonical"))
          /\ copy.map[f] \in Nat /\ Cardinality(Held("canonical")) < copy.map[f]
      BY <1>6, <1>8, <1>11, <2>2, <3>1
    <3>. QED
      BY <1>7, <3>2, <3>3
  <2>3. ASSUME NEW e \in Held("canonical"), NEW f \in Held("canonical"), e # f
        PROVE  ids'["canonical"][e] # ids'["canonical"][f]
    <3>1. e \in Events /\ e \notin copy.fresh /\ f \in Events /\ f \notin copy.fresh
      BY <1>6 DEF Held
    <3>. QED
      BY <1>2, <1>5, <2>3, <3>1 DEF StoreInv, Numbered
  <2>4. \A e, f \in copy.fresh : e # f => ids'["canonical"][e] # ids'["canonical"][f]
    BY <1>5, <1>6, <1>8
  <2>5. \A e, f \in Held("canonical")' : e # f => ids'["canonical"][e] # ids'["canonical"][f]
    BY <1>9, <2>2, <2>3, <2>4
  <2>. QED
    BY <1>2, <1>5, <1>9, <2>1, <2>5 DEF StoreInv, Numbered
<1>13. ASSUME NEW e \in Events
       PROVE  /\ CopiedRow(e) \in Row
              /\ CopiedRow(e).state # "none" => e \in Held("canonical")'
                                                /\ CopiedRow(e).owner = ids'["canonical"][e]
              /\ CopiedRow(e).state = "none" => CopiedRow(e) = NoRow
  <2>1. /\ rows["canonical"][e] \in Row /\ rows["legacy"][e] \in Row /\ copy.map[e] \in Nat
        /\ rows["canonical"][e].state = "none" => rows["canonical"][e] = NoRow
        /\ rows["legacy"][e].state = "none" => rows["legacy"][e] = NoRow
    BY <1>2, <1>3 DEF StoreInv, StoreTypes, Rooted
  <2>2. CASE rows["canonical"][e] # NoRow \/ rows["legacy"][e] = NoRow \/ copy.map[e] = 0
    <3>1. CopiedRow(e) = rows["canonical"][e]
      BY <2>2 DEF CopiedRow
    <3>2. ASSUME rows["canonical"][e].state # "none"
          PROVE  e \in Held("canonical")' /\ rows["canonical"][e].owner = ids'["canonical"][e]
      <4>1. e \in Held("canonical") /\ rows["canonical"][e].owner = ids["canonical"][e]
        BY <1>2, <3>2 DEF StoreInv, Rooted, Owned
      <4>2. e \notin copy.fresh
        BY <1>6, <4>1 DEF Held
      <4>. QED
        BY <1>5, <1>9, <4>1, <4>2
    <3>. QED
      BY <2>1, <3>1, <3>2
  <2>3. CASE ~ (rows["canonical"][e] # NoRow \/ rows["legacy"][e] = NoRow \/ copy.map[e] = 0)
    <3>1. CopiedRow(e) = [rows["legacy"][e] EXCEPT !.owner = copy.map[e]]
      BY <2>3 DEF CopiedRow
    <3>2. CopiedRow(e) \in Row /\ CopiedRow(e).owner = copy.map[e]
          /\ CopiedRow(e).state = rows["legacy"][e].state
      BY <2>1, <3>1 DEF Row
    <3>3. CopiedRow(e).state # "none"
      BY <2>1, <2>3, <3>2
    <3>4. ids'["canonical"][e] = copy.map[e]
      BY <1>5, <1>6, <2>3
    <3>5. e \in Held("canonical")'
      BY <2>3, <3>4 DEF Held
    <3>. QED
      BY <3>2, <3>3, <3>4, <3>5
  <2>. QED
    BY <2>2, <2>3
<1>14. /\ rows' \in [Stores -> [Events -> Row]] /\ rows'["legacy"] = rows["legacy"]
       /\ \A e \in Events : rows'["canonical"][e] = CopiedRow(e)
  BY <1>1, <1>2, <1>13 DEF StoreInv, StoreTypes
<1>15. Rooted' /\ Owned'
  <2>1. ASSUME NEW e \in Events
        PROVE  /\ rows'["legacy"][e].state # "none" => e \in Held("legacy")'
               /\ rows'["legacy"][e].state = "none" => rows'["legacy"][e] = NoRow
    BY <1>2, <1>9, <1>14 DEF StoreInv, Rooted
  <2>. QED
    BY <1>2, <1>13, <1>14, <2>1 DEF Rooted, Owned
<1>16. /\ cursor' \in [Stores -> 0 .. N] /\ cursor'["legacy"] = cursor["legacy"]
       /\ cursor'["canonical"] = copy.cursor
  BY <1>1, <1>2, <1>3 DEF StoreInv, StoreTypes
<1>17. StoreTypes'
  BY <1>1, <1>3, <1>4, <1>5, <1>14, <1>16 DEF StoreInv, StoreTypes
<1>18. Covered'
  BY <1>1, <1>4, <1>9, <1>16 DEF StoreInv, Covered, New
<1>19. Copied'
  <2>1. ASSUME NEW e \in Events, copy.map[e] # 0 PROVE e \in Held("canonical")'
    <3>1. ids'["canonical"][e] # 0
      BY <1>5, <1>6, <2>1
    <3>. QED
      BY <3>1 DEF Held
  <2>. QED
    BY <1>4, <2>1 DEF Copied
<1>20. Mapped' /\ Reporting' /\ SuccessCoversCursor'
  BY <1>3, <1>4 DEF Mapped, Reporting, SuccessCoversCursor
<1>. QED
  BY <1>12, <1>15, <1>17, <1>18, <1>19, <1>20 DEF StoreInv

LEMMA StoreNextKeeps ==
  ASSUME StoreInv, StoreNext
  PROVE  StoreInv'
BY DetectKeeps, EnqueueKeeps, AdvanceKeeps, CopyInstancesKeeps, CopyCursorKeeps, CopyRowsKeeps,
   VerifyKeeps, CopyCrashKeeps DEF StoreNext

-----------------------------------------------------------------------------
(* The board, the command and the daemons.                                  *)

BoardTypes ==
  /\ origin \in [Events -> Chats]
  /\ receipts = [t \in Events |-> receipts[t]]
  /\ \A t \in Events : IsReceipts(receipts[t])
  /\ subs \subseteq Events \X Aliases
  /\ shown \subseteq Events \X (Acks \union {""})
  /\ runs \in 0 .. MaxRuns
  /\ writes \in 0 .. MaxWrites

\* What the command works on are rows of the canonical store.
Working ==
  /\ run \in Run
  /\ \A e \in run.todo : rows["canonical"][e].state # "none"
  /\ run.pc \in { "verify", "readback", "mark" } =>
       run.at \in Events /\ rows["canonical"][run.at].state # "none"

\* What has been checked was shown, also for a legacy row: a copy may take it.
Checked ==
  /\ Showing(origin, receipts) \subseteq shown
  /\ run.pc = "mark" => << run.at, Status[run.at] >> \in shown
  /\ \A st \in Stores, e \in Events :
       rows[st][e].state = "applied" /\ Operation[e] = "record_consumer_ack"
         => << e, Status[e] >> \in shown

IInv == StoreInv /\ BoardTypes /\ Working /\ Checked

LEMMA RowsStay ==
  ASSUME StoreInv, StoreNext
  PROVE  \A e \in Events :
           /\ rows["canonical"][e].state # "none" => rows'["canonical"][e].state # "none"
           /\ \A st \in Stores : rows'[st][e].state = "applied"
                => \E s \in Stores : rows[s][e].state = "applied"
<1>0. "legacy" \in Stores /\ "canonical" \in Stores /\ Stores = { "legacy", "canonical" }
  BY DEF Stores
<1>1. CASE UNCHANGED rows
  BY <1>1
<1>2. ASSUME NEW st \in Stores, Enqueue(st)
      PROVE  \A e \in Events :
               /\ rows["canonical"][e].state # "none" => rows'["canonical"][e].state # "none"
               /\ \A s \in Stores : rows'[s][e].state = "applied" => rows[s][e].state = "applied"
  <2>1. rows' = [rows EXCEPT ![st][cursor[st] + 1] = [ owner |-> ids[st][cursor[st] + 1], state |-> "pending" ]]
    BY <1>2 DEF Enqueue
  <2>2. rows \in [Stores -> [Events -> Row]]
    BY DEF StoreInv, StoreTypes
  <2>. QED
    BY <1>0, <2>1, <2>2
<1>3. CASE CopyRows
  <2>1. rows' = [rows EXCEPT !["canonical"] = [e \in Events |-> CopiedRow(e)]]
    BY <1>3 DEF CopyRows
  <2>2. rows \in [Stores -> [Events -> Row]]
    BY DEF StoreInv, StoreTypes
  <2>3. rows'["legacy"] = rows["legacy"] /\ \A e \in Events : rows'["canonical"][e] = CopiedRow(e)
    BY <1>0, <2>1, <2>2
  <2>4. ASSUME NEW e \in Events
        PROVE  /\ CopiedRow(e).state = rows["canonical"][e].state
                  \/ (rows["canonical"][e] = NoRow /\ CopiedRow(e).state = rows["legacy"][e].state)
    <3>1. rows["legacy"][e] \in Row
      BY <1>0, <2>2
    <3>. QED
      BY <3>1 DEF CopiedRow, Row
  <2>. QED
    BY <1>0, <2>3, <2>4 DEF NoRow
<1>. QED
  BY <1>1, <1>2, <1>3 DEF StoreNext, Detect, Advance, CopyInstances, CopyCursor, Verify, CopyCrash

LEMMA StoreStepKeeps ==
  ASSUME IInv, StoreNext, UNCHANGED << boardVars, run, runs, writes >>
  PROVE  IInv'
<1>1. StoreInv'
  BY StoreNextKeeps DEF IInv
<1>2. \A e \in Events :
        /\ rows["canonical"][e].state # "none" => rows'["canonical"][e].state # "none"
        /\ \A st \in Stores : rows'[st][e].state = "applied"
             => \E s \in Stores : rows[s][e].state = "applied"
  BY RowsStay DEF IInv
<1>3. BoardTypes' /\ UNCHANGED << origin, receipts, shown, run >>
  BY DEF IInv, BoardTypes, boardVars
<1>4. run \in Run /\ run.todo \subseteq Events
  BY DEF IInv, Working, Run
<1>5. Working'
  BY <1>2, <1>3, <1>4 DEF IInv, Working
<1>6. Checked'
  BY <1>2, <1>3 DEF IInv, Checked, Showing
<1>. QED
  BY <1>1, <1>3, <1>5, <1>6 DEF IInv

LEMMA SatisfiedIsShown ==
  ASSUME IInv, NEW t \in Events, NEW chat, NEW ack, Satisfied(t, chat, ack)
  PROVE  << t, ack >> \in shown
<1>1. << t, receipts[t][origin[t]].ack >> \in Showing(origin, receipts)
  BY DEF Satisfied, Showing
<1>. QED
  BY <1>1 DEF Satisfied, IInv, Checked

\* A row is marked by a daemon or the command.
LEMMA MarkedKeeps ==
  ASSUME IInv, NEW st \in Stores, NEW e \in Events, NEW state \in { "applied", "callback_deadletter" },
         rows[st][e].state # "none", Mark(st, e, state), UNCHANGED << boardVars, runs, writes >>,
         state = "applied" /\ Operation[e] = "record_consumer_ack" => << e, Status[e] >> \in shown,
         run' \in Run, run'.todo \subseteq run.todo,
         (run'.pc = run.pc /\ run'.at = run.at) \/ run'.pc = "repair"
  PROVE  IInv'
<1>1. StoreInv'
  BY MarkKeeps DEF IInv
<1>2. /\ rows' = [rows EXCEPT ![st][e].state = state] /\ rows \in [Stores -> [Events -> Row]]
      /\ UNCHANGED << origin, receipts, shown >> /\ "canonical" \in Stores
  BY DEF Mark, IInv, StoreInv, StoreTypes, boardVars, Stores
<1>3. /\ rows'[st][e].state = state
      /\ \A s \in Stores, f \in Events : s # st \/ f # e => rows'[s][f] = rows[s][f]
  <2>1. rows[st][e] \in Row
    BY <1>2
  <2>2. [rows[st][e] EXCEPT !.state = state].state = state
    BY <2>1 DEF Row
  <2>3. rows' = [rows EXCEPT ![st] = [rows[st] EXCEPT ![e] = [rows[st][e] EXCEPT !.state = state]]]
    BY <1>2
  <2>. QED
    BY <1>2, <2>2, <2>3
<1>4. BoardTypes'
  BY DEF IInv, BoardTypes, boardVars
<1>5. run.todo \subseteq Events
  BY DEF IInv, Working, Run
<1>6. Working'
  BY <1>2, <1>3, <1>5 DEF IInv, Working
<1>7. Checked'
  <2>1. Showing(origin, receipts)' = Showing(origin, receipts)
    BY <1>2 DEF Showing
  <2>2. run'.pc = "mark" => << run'.at, Status[run'.at] >> \in shown
    BY DEF IInv, Checked
  <2>3. ASSUME NEW s \in Stores, NEW f \in Events, rows'[s][f].state = "applied",
               Operation[f] = "record_consumer_ack"
        PROVE  << f, Status[f] >> \in shown
    <3>1. CASE s = st /\ f = e
      BY <1>3, <2>3, <3>1
    <3>2. CASE ~ (s = st /\ f = e)
      BY <1>3, <2>3, <3>2 DEF IInv, Checked
    <3>. QED
      BY <3>1, <3>2
  <2>. QED
    BY <1>2, <2>1, <2>2, <2>3 DEF IInv, Checked
<1>. QED
  BY <1>1, <1>4, <1>6, <1>7 DEF IInv

LEMMA DaemonKeeps ==
  ASSUME IInv, NEW st \in Stores, NEW e \in Events, Deliver(st, e) \/ GiveUp(st, e)
  PROVE  IInv'
<1>1. /\ rows[st][e].state # "none" /\ UNCHANGED << boardVars, runs, writes >> /\ run' = run
      /\ run \in Run
  BY DEF Deliver, GiveUp, IInv, Working
<1>2. CASE Deliver(st, e)
  <2>1. ASSUME Operation[e] = "record_consumer_ack" PROVE << e, Status[e] >> \in shown
    BY <1>2, <2>1, SatisfiedIsShown DEF Deliver, Delivered
  <2>. QED
    BY <1>1, <1>2, <2>1, MarkedKeeps DEF Deliver
<1>3. CASE GiveUp(st, e)
  BY <1>1, <1>3, MarkedKeeps DEF GiveUp
<1>. QED
  BY <1>2, <1>3

\* The store is as it was.
LEMMA StoreSame ==
  ASSUME IInv, UNCHANGED storeVars
  PROVE  StoreInv'
BY DEF IInv, StoreInv, StoreTypes, Numbered, Rooted, Owned, Covered, New, Mapped, Copied, Reporting,
       SuccessCoversCursor, Held, storeVars

\* The command moves on without touching the board.
LEMMA RunKeeps ==
  ASSUME IInv, UNCHANGED << storeVars, boardVars, writes >>, runs' \in 0 .. MaxRuns, run' \in Run,
         \A e \in run'.todo : rows["canonical"][e].state # "none",
         run'.pc \in { "verify", "readback", "mark" } =>
           run'.at \in Events /\ rows["canonical"][run'.at].state # "none",
         run'.pc = "mark" => << run'.at, Status[run'.at] >> \in shown
  PROVE  IInv'
<1>1. StoreInv'
  BY StoreSame
<1>2. UNCHANGED << rows, origin, receipts, shown >>
  BY DEF storeVars, boardVars
<1>3. BoardTypes' /\ Working' /\ Checked'
  BY <1>2 DEF IInv, BoardTypes, Working, Checked, Showing, boardVars
<1>. QED
  BY <1>1, <1>3 DEF IInv

\* The board is written and what it shows is noted.
LEMMA BoardKeeps ==
  ASSUME IInv, UNCHANGED storeVars, Note,
         origin' \in [Events -> Chats], receipts' = [t \in Events |-> receipts'[t]],
         \A t \in Events : IsReceipts(receipts'[t]), subs' \subseteq Events \X Aliases,
         runs' \in 0 .. MaxRuns, writes' \in 0 .. MaxWrites, run' \in Run,
         \A e \in run'.todo : rows["canonical"][e].state # "none",
         run'.pc \in { "verify", "readback", "mark" } =>
           run'.at \in Events /\ rows["canonical"][run'.at].state # "none",
         run'.pc = "mark" => << run'.at, Status[run'.at] >> \in shown
  PROVE  IInv'
<1>1. StoreInv'
  BY StoreSame
<1>2. rows' = rows
  BY DEF storeVars
<1>3. shown \subseteq shown' /\ Showing(origin', receipts') \subseteq shown'
  BY DEF Note
<1>4. Showing(origin', receipts') \subseteq Events \X (Acks \union {""})
  <2>1. ASSUME NEW t \in Events, origin'[t] \in DOMAIN receipts'[t]
        PROVE  receipts'[t][origin'[t]].ack \in Acks \union {""}
    <3>1. receipts'[t][origin'[t]] \in Receipt
      BY <2>1 DEF IsReceipts
    <3>. QED
      BY <3>1 DEF Receipt
  <2>2. ASSUME NEW x \in Showing(origin', receipts') PROVE x \in Events \X (Acks \union {""})
    <3>1. PICK t \in Events : /\ origin'[t] \in DOMAIN receipts'[t]
                              /\ x = << t, receipts'[t][origin'[t]].ack >>
      BY <2>2 DEF Showing
    <3>. QED
      BY <2>1, <3>1
  <2>. QED
    BY <2>2
<1>5. BoardTypes'
  BY <1>4 DEF IInv, BoardTypes, Note
<1>6. Working'
  BY <1>2 DEF Working
<1>7. Checked'
  BY <1>2, <1>3 DEF IInv, Checked
<1>. QED
  BY <1>1, <1>5, <1>6, <1>7 DEF IInv

-----------------------------------------------------------------------------
(* Receipts.                                                               *)

LEMMA Bounds ==
  /\ MaxRuns \in Nat /\ MaxWrites \in Nat
  /\ InitialOrigins \subseteq [Events -> Chats]
  /\ InitialSubs \subseteq SUBSET (Events \X Aliases)
BY OriginAssumption

LEMMA PutIsReceipts ==
  ASSUME NEW f, IsReceipts(f), NEW chat \in Chats, NEW r \in Receipt
  PROVE  IsReceipts(Put(f, chat, r))
<1>1. \A c \in DOMAIN f : f[c] \in Receipt
  BY DEF IsReceipts
<1>. QED
  BY <1>1 DEF IsReceipts, Put

LEMMA AtIsReceipt ==
  ASSUME IInv, NEW t \in Events, NEW chat
  PROVE  At(t, chat) \in Receipt
<1>1. IsReceipts(receipts[t])
  BY DEF IInv, BoardTypes
<1>2. Blank \in Receipt
  BY DEF Blank, Receipt, NotifyRank, WakeRank
<1>. QED
  BY <1>1, <1>2 DEF At, IsReceipts

LEMMA ReceiptWritten ==
  ASSUME IInv, NEW t \in Events, NEW chat \in Chats, NEW r \in Receipt,
         receipts' = [receipts EXCEPT ![t] = Put(@, chat, r)]
  PROVE  /\ receipts' = [u \in Events |-> receipts'[u]]
         /\ \A u \in Events : IsReceipts(receipts'[u])
<1>1. DOMAIN receipts = Events
  BY DEF IInv, BoardTypes
<1>2. receipts' = [u \in Events |-> receipts'[u]]
  BY <1>1
<1>3. \A u \in Events : receipts'[u] = IF u = t THEN Put(receipts[t], chat, r) ELSE receipts[u]
  BY <1>1
<1>4. IsReceipts(Put(receipts[t], chat, r)) /\ \A u \in Events : IsReceipts(receipts[u])
  BY PutIsReceipts DEF IInv, BoardTypes
<1>. QED
  BY <1>2, <1>3, <1>4

LEMMA AckWritten ==
  ASSUME IInv, NEW t \in Events, NEW chat \in Chats, NEW ack \in Acks \union {""},
         receipts' = [receipts EXCEPT ![t] = Put(@, chat, [At(t, chat) EXCEPT !.ack = ack])]
  PROVE  /\ receipts' = [u \in Events |-> receipts'[u]]
         /\ \A u \in Events : IsReceipts(receipts'[u])
<1>1. [At(t, chat) EXCEPT !.ack = ack] \in Receipt
  BY AtIsReceipt DEF Receipt
<1>. QED
  BY <1>1, ReceiptWritten

LEMMA WritersKeep ==
  ASSUME IInv, Gateway \/ Consumer
  PROVE  IInv'
<1>1. /\ writes' \in 0 .. MaxWrites /\ UNCHANGED << storeVars, origin, subs, run, runs >> /\ Note
  <2>1. writes < MaxWrites /\ writes' = writes + 1 /\ writes \in 0 .. MaxWrites
    BY DEF Gateway, Consumer, IInv, BoardTypes
  <2>2. UNCHANGED << storeVars, origin, subs, run, runs >> /\ Note
    BY DEF Gateway, Consumer
  <2>3. writes' \in 0 .. MaxWrites
    BY <2>1, Bounds
  <2>. QED
    BY <2>2, <2>3
<1>2. /\ receipts' = [u \in Events |-> receipts'[u]]
      /\ \A u \in Events : IsReceipts(receipts'[u])
  <2>1. CASE Gateway
    <3>1. PICK t \in Events, chat \in Chats, n \in Notified, w \in Woken :
            receipts' = [receipts EXCEPT ![t] = Put(@, chat, [At(t, chat) EXCEPT !.notify = n, !.wake = w])]
      BY <2>1 DEF Gateway
    <3>2. [At(t, chat) EXCEPT !.notify = n, !.wake = w] \in Receipt
      BY AtIsReceipt, OriginAssumption DEF Receipt
    <3>. QED
      BY <3>1, <3>2, ReceiptWritten
  <2>2. CASE Consumer
    <3>1. PICK t \in Events, a \in Acks :
            receipts' = [receipts EXCEPT ![t] = Put(@, origin[t], [At(t, origin[t]) EXCEPT !.ack = a])]
      BY <2>2 DEF Consumer
    <3>2. origin[t] \in Chats
      BY DEF IInv, BoardTypes
    <3>. QED
      BY <3>1, <3>2, AckWritten
  <2>. QED
    BY <2>1, <2>2
<1>. QED
  BY <1>1, <1>2, BoardKeeps DEF IInv, BoardTypes, Working, Checked

\* An ack at a channel's numeric id is written, or is not.
LEMMA AckKeeps ==
  ASSUME IInv, NEW t \in Events, NEW chat \in Chats, AckOrigin(t, chat, Status[t]),
         UNCHANGED << storeVars, runs, writes >>, run' \in Run,
         \A e \in run'.todo : rows["canonical"][e].state # "none",
         run'.pc \in { "verify", "readback", "mark" } =>
           run'.at \in Events /\ rows["canonical"][run'.at].state # "none",
         run'.pc = "mark" => << run'.at, Status[run'.at] >> \in shown
  PROVE  IInv'
<1>1. Status[t] \in Acks \union {""}
  BY OriginAssumption
<1>2. CASE /\ receipts' = [receipts EXCEPT ![t] = Put(@, chat, [At(t, chat) EXCEPT !.ack = Status[t]])]
           /\ Note
  <2>1. /\ receipts' = [u \in Events |-> receipts'[u]]
        /\ \A u \in Events : IsReceipts(receipts'[u])
    BY <1>1, <1>2, AckWritten
  <2>. QED
    BY <1>2, <2>1, BoardKeeps DEF AckOrigin, IInv, BoardTypes
<1>3. CASE UNCHANGED << receipts, shown >>
  BY <1>3, RunKeeps DEF AckOrigin, IInv, BoardTypes, boardVars
<1>. QED
  BY <1>2, <1>3 DEF AckOrigin

LEMMA AttemptKeeps ==
  ASSUME IInv, NEW st \in Stores, NEW e \in Events, Attempt(st, e)
  PROVE  IInv'
<1>1. Resolved(e) \in Chats
  BY OriginAssumption DEF Resolved, Chats
<1>. QED
  BY <1>1, AckKeeps DEF Attempt, IInv, Working, Checked

-----------------------------------------------------------------------------
(* The command.                                                            *)

LEMMA PlanKeeps ==
  ASSUME IInv, Plan
  PROVE  IInv'
<1>1. PICK todo \in SUBSET DeadLetters :
        run' = [ pc |-> IF NothingToMigrate THEN "repair" ELSE "commit", todo |-> todo, at |-> 0 ]
  BY DEF Plan
<1>2. UNCHANGED << storeVars, boardVars, writes >> /\ runs' \in 0 .. MaxRuns
  <2>1. runs < MaxRuns /\ runs' = runs + 1 /\ runs \in 0 .. MaxRuns
    BY DEF Plan, IInv, BoardTypes
  <2>2. UNCHANGED << storeVars, boardVars, writes >>
    BY DEF Plan
  <2>3. runs' \in 0 .. MaxRuns
    BY <2>1, Bounds
  <2>. QED
    BY <2>2, <2>3
<1>3. run' \in Run /\ run'.pc \notin { "verify", "readback", "mark" }
      /\ \A e \in run'.todo : rows["canonical"][e].state # "none"
  BY <1>1 DEF Run, DeadLetters
<1>. QED
  BY <1>2, <1>3, RunKeeps

\* Merging keeps the ranks' names.
LEMMA MovedIsReceipts ==
  ASSUME NEW f, IsReceipts(f), NEW alias
  PROVE  IsReceipts(Moved(f, alias))
<1>. DEFINE g == [c \in DOMAIN f \ {alias} |-> f[c]]
            r == IF Target \in DOMAIN f THEN MergedFacts(f[alias], f[Target]) ELSE f[alias]
<1>1. CASE alias \notin DOMAIN f
  BY <1>1 DEF Moved
<1>2. CASE alias \in DOMAIN f
  <2>1. \A c \in DOMAIN f : f[c] \in Receipt /\ DOMAIN f \subseteq Chats
    BY DEF IsReceipts
  <2>2. IsReceipts(g)
    BY <2>1 DEF IsReceipts
  <2>3. r \in Receipt
    <3>1. CASE Target \in DOMAIN f
      <4>1. f[alias] \in Receipt /\ f[Target] \in Receipt
        BY <1>2, <2>1, <3>1
      <4>2. MergedFacts(f[alias], f[Target]) \in Receipt
        BY <4>1 DEF MergedFacts, Strongest, Receipt
      <4>. QED
        BY <3>1, <4>2
    <3>2. CASE Target \notin DOMAIN f
      BY <1>2, <2>1, <3>2
    <3>. QED
      BY <3>1, <3>2
  <2>4. Target \in Chats
    BY DEF Chats
  <2>5. Moved(f, alias) = Put(g, Target, r)
    BY <1>2 DEF Moved
  <2>. HIDE DEF g, r
  <2>. QED
    BY <2>2, <2>3, <2>4, <2>5, PutIsReceipts
<1>. QED
  BY <1>1, <1>2

LEMMA CommitKeeps ==
  ASSUME IInv, Commit
  PROVE  IInv'
<1>1. /\ origin' = [t \in Events |-> IF origin[t] \in Aliases THEN Target ELSE origin[t]]
      /\ receipts' = [t \in Events |-> Moved(Moved(receipts[t], "#research"), "research")]
      /\ subs' = {} /\ run' = [run EXCEPT !.pc = "repair"]
      /\ UNCHANGED << storeVars, runs, writes >> /\ Note
  BY DEF Commit
<1>2. origin' \in [Events -> Chats]
  BY <1>1 DEF IInv, BoardTypes, Chats
<1>3. receipts' = [t \in Events |-> receipts'[t]]
  BY <1>1
<1>4. ASSUME NEW t \in Events PROVE IsReceipts(receipts'[t])
  <2>1. IsReceipts(receipts[t])
    BY DEF IInv, BoardTypes
  <2>. QED
    BY <1>1, <2>1, MovedIsReceipts
<1>5. run' \in Run /\ run'.pc = "repair" /\ run'.todo = run.todo
  BY <1>1 DEF IInv, Working, Run
<1>. QED
  BY <1>1, <1>2, <1>3, <1>4, <1>5, BoardKeeps DEF IInv, BoardTypes, Working

LEMMA DropFacts ==
  ASSUME IInv, Drop
  PROVE  run' \in Run /\ run'.pc = "repair" /\ run'.todo \subseteq run.todo
BY DEF Drop, IInv, Working, Run

LEMMA ProceedFacts ==
  ASSUME IInv, NEW pc \in { "readback", "mark" }, Proceed(pc)
  PROVE  run' \in Run /\ run'.pc = pc /\ run'.todo = run.todo /\ run'.at = run.at
BY DEF Proceed, IInv, Working, Run

LEMMA RecordKeeps ==
  ASSUME IInv, Record
  PROVE  IInv'
<1>1. PICK e \in run.todo :
        /\ AckOrigin(e, Target, Status[e])
        /\ \/ run' = [run EXCEPT !.pc = "verify", !.at = e]
           \/ run' = [run EXCEPT !.todo = @ \ {e}]
        /\ run.pc = "repair" /\ UNCHANGED << storeVars, runs, writes >>
  BY DEF Record
<1>2. e \in Events /\ Target \in Chats /\ rows["canonical"][e].state # "none"
  BY DEF IInv, Working, Run, Chats
<1>3. /\ run' \in Run /\ run'.pc \in { "verify", "repair" } /\ run'.todo \subseteq run.todo
      /\ run'.pc = "verify" => run'.at = e
  BY <1>1, <1>2 DEF IInv, Working, Run
<1>. QED
  BY <1>1, <1>2, <1>3, AckKeeps DEF IInv, Working

LEMMA CheckKeeps ==
  ASSUME IInv, VerifyAck \/ ReadBack
  PROVE  IInv'
<1>1. /\ UNCHANGED << storeVars, boardVars, runs, writes >>
      /\ run.at \in Events /\ rows["canonical"][run.at].state # "none"
      /\ \A e \in run.todo : rows["canonical"][e].state # "none"
      /\ runs' \in 0 .. MaxRuns
  BY DEF VerifyAck, ReadBack, IInv, Working, BoardTypes
<1>2. CASE Satisfied(run.at, Target, Status[run.at])
  <2>1. \E pc \in { "readback", "mark" } : Proceed(pc)
    BY <1>2 DEF VerifyAck, ReadBack
  <2>2. << run.at, Status[run.at] >> \in shown
    BY <1>1, <1>2, SatisfiedIsShown
  <2>. QED
    BY <1>1, <2>1, <2>2, ProceedFacts, RunKeeps
<1>3. CASE ~ Satisfied(run.at, Target, Status[run.at])
  <2>1. Drop
    BY <1>3 DEF VerifyAck, ReadBack
  <2>. QED
    BY <1>1, <2>1, DropFacts, RunKeeps
<1>. QED
  BY <1>2, <1>3

LEMMA MarkAppliedKeeps ==
  ASSUME IInv, MarkApplied
  PROVE  IInv'
<1>1. /\ run.pc = "mark" /\ Mark("canonical", run.at, "applied") /\ Drop
      /\ UNCHANGED << boardVars, runs, writes >>
  BY DEF MarkApplied
<1>2. /\ run.at \in Events /\ rows["canonical"][run.at].state # "none"
      /\ << run.at, Status[run.at] >> \in shown /\ "canonical" \in Stores
  BY <1>1 DEF IInv, Working, Checked, Stores
<1>. QED
  BY <1>1, <1>2, DropFacts, MarkedKeeps

LEMMA StopKeeps ==
  ASSUME IInv, Rollback \/ End \/ Crash
  PROVE  IInv'
<1>1. run' = NoRun /\ UNCHANGED << storeVars, boardVars, runs, writes >>
  BY DEF Rollback, End, Crash
<1>2. run' \in Run /\ run'.todo = {} /\ run'.pc = "idle"
  BY <1>1 DEF NoRun, Run
<1>. QED
  BY <1>1, <1>2, RunKeeps DEF IInv, BoardTypes

-----------------------------------------------------------------------------
LEMMA InitIsGood ==
  ASSUME Init
  PROVE  IInv
<1>1. StoreInv
  <2>1. /\ ids = [st \in Stores |-> [e \in Events |-> 0]]
        /\ rows = [st \in Stores |-> [e \in Events |-> NoRow]]
        /\ seed \in [Stores -> 0 .. N] /\ cursor = seed
        /\ copy = NoCopy("none") /\ copies = 0
    BY CopyAssumption DEF Init, StoreInit
  <2>2. copy \in Copy /\ copy.cursor = 0 /\ copy.pc = "idle" /\ copy.report = "none"
    BY <2>1 DEF NoCopy, Copy
  <2>3. StoreTypes
    BY <2>1, <2>2, CopyAssumption DEF StoreTypes, NoRow, Row
  <2>4. \A st \in Stores : Held(st) = {} /\ Cardinality(Held(st)) = 0
    BY <2>1, FS_EmptySet DEF Held
  <2>5. Numbered
    BY <2>1, <2>4 DEF Numbered
  <2>6. Rooted /\ Owned
    BY <2>1 DEF Rooted, Owned, NoRow, Stores
  <2>7. Covered
    <3>1. ASSUME NEW e \in Events, NEW st \in Stores, New(e), e <= cursor[st] PROVE FALSE
      <4>1. e > seed[st] /\ seed[st] \in 0 .. N /\ cursor[st] = seed[st] /\ e \in Int
        BY <2>1, <3>1, CopyAssumption DEF New, Events
      <4>. QED
        BY <3>1, <4>1, CopyAssumption
    <3>. QED
      BY <2>2, <3>1 DEF Covered, Stores
  <2>. QED
    BY <2>2, <2>3, <2>5, <2>6, <2>7 DEF StoreInv, Mapped, Copied, Reporting, SuccessCoversCursor
<1>2. BoardTypes
  <2>1. receipts = [t \in Events |-> receipts[t]] /\ \A t \in Events : IsReceipts(receipts[t])
    BY OriginAssumption DEF Init
  <2>2. shown \subseteq Events \X (Acks \union {""})
    <3>1. ASSUME NEW t \in Events, origin[t] \in DOMAIN receipts[t]
          PROVE  receipts[t][origin[t]].ack \in Acks \union {""}
      <4>1. receipts[t][origin[t]] \in Receipt
        BY <2>1, <3>1 DEF IsReceipts
      <4>. QED
        BY <4>1 DEF Receipt
    <3>2. ASSUME NEW x \in Showing(origin, receipts) PROVE x \in Events \X (Acks \union {""})
      <4>1. PICK t \in Events : origin[t] \in DOMAIN receipts[t] /\ x = << t, receipts[t][origin[t]].ack >>
        BY <3>2 DEF Showing
      <4>. QED
        BY <3>1, <4>1
    <3>. QED
      BY <3>2 DEF Init
  <2>3. origin \in [Events -> Chats] /\ subs \subseteq Events \X Aliases
    BY Bounds DEF Init
  <2>4. runs \in 0 .. MaxRuns /\ writes \in 0 .. MaxWrites
    BY Bounds DEF Init
  <2>. QED
    BY <2>1, <2>2, <2>3, <2>4 DEF BoardTypes
<1>3. Working /\ Checked
  <2>1. run = NoRun /\ shown = Showing(origin, receipts)
    BY DEF Init
  <2>2. \A st \in Stores, e \in Events : rows[st][e].state = "none"
    BY DEF Init, StoreInit, NoRow
  <2>. QED
    BY <2>1, <2>2 DEF Working, Checked, NoRun, Run
<1>. QED
  BY <1>1, <1>2, <1>3 DEF IInv

LEMMA StepIsGood ==
  ASSUME IInv, [Next]_vars
  PROVE  IInv'
<1>1. CASE StoreNext /\ UNCHANGED << boardVars, run, runs, writes >>
  BY <1>1, StoreStepKeeps
<1>2. ASSUME NEW st \in Stores, NEW e \in Events, Deliver(st, e) \/ Attempt(st, e) \/ GiveUp(st, e)
      PROVE  IInv'
  BY <1>2, DaemonKeeps, AttemptKeeps
<1>3. CASE Gateway \/ Consumer
  BY <1>3, WritersKeep
<1>4. CASE Plan \/ Commit \/ Rollback \/ Record \/ VerifyAck \/ ReadBack \/ MarkApplied \/ End \/ Crash
  BY <1>4, PlanKeeps, CommitKeeps, RecordKeeps, CheckKeeps, MarkAppliedKeeps, StopKeeps
<1>5. CASE UNCHANGED vars
  <2>1. UNCHANGED << storeVars, boardVars, run, runs, writes >>
    BY <1>5 DEF vars
  <2>. QED
    BY <2>1, RunKeeps DEF IInv, BoardTypes, Working, Checked
<1>. QED
  BY <1>1, <1>2, <1>3, <1>4, <1>5 DEF Next

\* With any interleaving of the daemons, the copy, the board's writers and the
\* command, every reachable state satisfies the parts above.
THEOREM Inductive == Spec => []IInv
BY InitIsGood, StepIsGood, PTL DEF Spec

\* Ids, rows and cursors of both stores, the board's channels and receipts and
\* the position of the command keep their sorts.
THEOREM TypeCorrect == Spec => []TypeOK
<1>1. IInv => TypeOK
  BY DEF IInv, StoreInv, StoreTypes, BoardTypes, Working, TypeOK, StoreTypeOK
<1>. QED
  BY <1>1, Inductive, PTL

\* migrate_legacy_store: once _verify_migration has reported success, the cursor
\* taken over from the legacy store has passed no instance that was not copied.
THEOREM SuccessIsComplete == Spec => []SuccessCoversCursor
<1>1. IInv => SuccessCoversCursor
  BY DEF IInv, StoreInv
<1>. QED
  BY <1>1, Inductive, PTL

\* migrate_legacy_store: whatever ids the two stores have given, a row of the
\* canonical store belongs to the instance of its own event.
THEOREM CopiedRowsKeepTheirInstance == Spec => []RowsKeepTheirInstance
<1>1. IInv => RowsKeepTheirInstance
  <2>1. SUFFICES ASSUME IInv, NEW e \in Events, rows["canonical"][e] # NoRow
                 PROVE  /\ rows["canonical"][e].owner = ids["canonical"][e]
                        /\ \A f \in Events \ {e} : ids["canonical"][f] # rows["canonical"][e].owner
    BY DEF RowsKeepTheirInstance
  <2>2. "canonical" \in Stores
    BY DEF Stores
  <2>3. rows["canonical"][e].state # "none"
    BY <2>1, <2>2 DEF IInv, StoreInv, Rooted
  <2>4. rows["canonical"][e].owner = ids["canonical"][e] /\ e \in Held("canonical")
    BY <2>1, <2>2, <2>3 DEF IInv, StoreInv, Rooted, Owned
  <2>5. ASSUME NEW f \in Events \ {e} PROVE ids["canonical"][f] # ids["canonical"][e]
    <3>1. CASE f \in Held("canonical")
      BY <2>1, <2>2, <2>4, <2>5, <3>1 DEF IInv, StoreInv, Numbered
    <3>2. CASE f \notin Held("canonical")
      BY <2>4, <2>5, <3>2 DEF Held
    <3>. QED
      BY <3>1, <3>2
  <2>. QED
    BY <2>4, <2>5
<1>. QED
  BY <1>1, Inductive, PTL

\* _repair_callback_deadletters, reconcile_outbox: an ack's callback is applied
\* only after the origin of its task has shown that ack.
THEOREM AppliedAcksWereShown == Spec => []AppliedWasShown
<1>1. IInv => AppliedWasShown
  BY DEF IInv, Checked, AppliedWasShown, Stores
<1>. QED
  BY <1>1, Inductive, PTL

-----------------------------------------------------------------------------
(* The move forgets nothing.                                                *)

LEMMA RanksAreNumbers ==
  /\ \A n \in DOMAIN NotifyRank : NotifyRank[n] \in Int
  /\ \A w \in DOMAIN WakeRank : WakeRank[w] \in Int
BY DEF NotifyRank, WakeRank

LEMMA StrongestIsStronger ==
  ASSUME NEW rank, NEW a, NEW b, rank[a] \in Int, rank[b] \in Int, NEW k \in Int
  PROVE  rank[Strongest(rank, a, b)] >= k <=> rank[a] >= k \/ rank[b] >= k
<1>1. CASE rank[a] > rank[b]
  BY <1>1 DEF Strongest
<1>2. CASE ~ (rank[a] > rank[b])
  BY <1>2 DEF Strongest
<1>. QED
  BY <1>1, <1>2

\* merge_receipt_facts, for two receipts whose acks do not differ.
LEMMA MergeFacts ==
  ASSUME NEW s \in Receipt, NEW t \in Receipt, s.ack = "" \/ t.ack = "" \/ s.ack = t.ack
  PROVE  /\ \A k \in Int : NotifyRank[MergedFacts(s, t).notify] >= k
                             <=> NotifyRank[s.notify] >= k \/ NotifyRank[t.notify] >= k
         /\ \A k \in Int : WakeRank[MergedFacts(s, t).wake] >= k
                             <=> WakeRank[s.wake] >= k \/ WakeRank[t.wake] >= k
         /\ { MergedFacts(s, t).ack } \ {""} = { s.ack, t.ack } \ {""}
<1>. DEFINE r == MergedFacts(s, t)
<1>1. /\ NotifyRank[s.notify] \in Int /\ NotifyRank[t.notify] \in Int
      /\ WakeRank[s.wake] \in Int /\ WakeRank[t.wake] \in Int
  BY RanksAreNumbers DEF Receipt
<1>2. /\ r.notify = Strongest(NotifyRank, s.notify, t.notify)
      /\ r.wake = Strongest(WakeRank, s.wake, t.wake)
      /\ r.ack = IF t.ack # "" THEN t.ack ELSE s.ack
  BY DEF MergedFacts
<1>. HIDE DEF r
<1>3. ASSUME NEW k \in Int
      PROVE  NotifyRank[r.notify] >= k <=> NotifyRank[s.notify] >= k \/ NotifyRank[t.notify] >= k
  <2>1. NotifyRank[Strongest(NotifyRank, s.notify, t.notify)] >= k
          <=> NotifyRank[s.notify] >= k \/ NotifyRank[t.notify] >= k
    BY <1>1, StrongestIsStronger
  <2>. QED
    BY <2>1, <1>2
<1>4. ASSUME NEW k \in Int
      PROVE  WakeRank[r.wake] >= k <=> WakeRank[s.wake] >= k \/ WakeRank[t.wake] >= k
  <2>1. WakeRank[Strongest(WakeRank, s.wake, t.wake)] >= k
          <=> WakeRank[s.wake] >= k \/ WakeRank[t.wake] >= k
    BY <1>1, StrongestIsStronger
  <2>. QED
    BY <2>1, <1>2
<1>5. { r.ack } \ {""} = { s.ack, t.ack } \ {""}
  BY <1>2
<1>. QED
  BY <1>3, <1>4, <1>5 DEF r

LEMMA MovedKeepsFacts ==
  ASSUME NEW f, IsReceipts(f), NEW alias \in Aliases, ~ Ambiguous(f, alias)
  PROVE  Facts(Moved(f, alias)) = Facts(f)
<1>1. CASE alias \notin DOMAIN f
  BY <1>1 DEF Moved
<1>2. CASE alias \in DOMAIN f
  <2>. DEFINE g == Moved(f, alias)
              names == DOMAIN f \intersect (Aliases \union {Target})
              after == DOMAIN g \intersect (Aliases \union {Target})
              rest == names \ { alias, Target }
              both == Target \in DOMAIN f
  <2>1. alias # Target
    BY OriginAssumption
  <2>2. /\ \A c \in DOMAIN f : f[c] \in Receipt
        /\ both => f[alias].ack = "" \/ f[Target].ack = "" \/ f[alias].ack = f[Target].ack
    BY <1>2 DEF IsReceipts, Ambiguous
  <2>3. /\ DOMAIN g = (DOMAIN f \ {alias}) \union {Target}
        /\ g[Target] = IF both THEN MergedFacts(f[alias], f[Target]) ELSE f[alias]
        /\ \A c \in DOMAIN f \ { alias, Target } : g[c] = f[c]
    BY <1>2, <2>1 DEF Moved, Put
  <2>. HIDE DEF g
  <2>4. /\ after = rest \union {Target} /\ Target \notin rest
        /\ names = rest \union {alias} \union (IF both THEN {Target} ELSE {})
        /\ \A c \in rest : g[c] = f[c] /\ f[c] \in Receipt
    BY <1>2, <2>1, <2>2, <2>3
  <2>5. /\ \A k \in Int : NotifyRank[g[Target].notify] >= k
                            <=> NotifyRank[f[alias].notify] >= k \/ (both /\ NotifyRank[f[Target].notify] >= k)
        /\ \A k \in Int : WakeRank[g[Target].wake] >= k
                            <=> WakeRank[f[alias].wake] >= k \/ (both /\ WakeRank[f[Target].wake] >= k)
        /\ { g[Target].ack } \ {""} = ({ f[alias].ack } \union (IF both THEN { f[Target].ack } ELSE {})) \ {""}
    <3>1. CASE both
      <4>1. f[alias] \in Receipt /\ f[Target] \in Receipt
        BY <1>2, <2>2, <3>1
      <4>2. g[Target] = MergedFacts(f[alias], f[Target])
        BY <2>3, <3>1
      <4>3. f[alias].ack = "" \/ f[Target].ack = "" \/ f[alias].ack = f[Target].ack
        BY <2>2, <3>1
      <4>4. { f[alias].ack, f[Target].ack } = { f[alias].ack } \union { f[Target].ack }
        OBVIOUS
      <4>5. /\ \A k \in Int : NotifyRank[MergedFacts(f[alias], f[Target]).notify] >= k
                                <=> NotifyRank[f[alias].notify] >= k \/ NotifyRank[f[Target].notify] >= k
            /\ \A k \in Int : WakeRank[MergedFacts(f[alias], f[Target]).wake] >= k
                                <=> WakeRank[f[alias].wake] >= k \/ WakeRank[f[Target].wake] >= k
            /\ { MergedFacts(f[alias], f[Target]).ack } \ {""} = { f[alias].ack, f[Target].ack } \ {""}
        BY <4>1, <4>3, MergeFacts
      <4>. HIDE DEF both
      <4>6. \A k \in Int : NotifyRank[g[Target].notify] >= k
                             <=> NotifyRank[f[alias].notify] >= k \/ (both /\ NotifyRank[f[Target].notify] >= k)
        BY <3>1, <4>2, <4>5, Zenon
      <4>7. \A k \in Int : WakeRank[g[Target].wake] >= k
                             <=> WakeRank[f[alias].wake] >= k \/ (both /\ WakeRank[f[Target].wake] >= k)
        BY <3>1, <4>2, <4>5, Zenon
      <4>. QED
        BY <3>1, <4>2, <4>4, <4>5, <4>6, <4>7
    <3>2. CASE ~ both
      BY <2>3, <3>2
    <3>. QED
      BY <3>1, <3>2
  <2>. HIDE DEF names, after, rest, both
  <2>6. ASSUME NEW k \in Int
        PROVE  /\ (\E c \in after : NotifyRank[g[c].notify] >= k) <=> (\E c \in names : NotifyRank[f[c].notify] >= k)
               /\ (\E c \in after : WakeRank[g[c].wake] >= k) <=> (\E c \in names : WakeRank[f[c].wake] >= k)
    <3>1. CASE both
      <4>1. /\ names = rest \union {alias, Target} /\ after = rest \union {Target}
            /\ NotifyRank[g[Target].notify] >= k
                 <=> NotifyRank[f[alias].notify] >= k \/ NotifyRank[f[Target].notify] >= k
            /\ WakeRank[g[Target].wake] >= k
                 <=> WakeRank[f[alias].wake] >= k \/ WakeRank[f[Target].wake] >= k
        BY <2>4, <2>5, <2>6, <3>1
      <4>2. \A c \in rest : g[c] = f[c]
        BY <2>4
      <4>. QED
        BY <4>1, <4>2, Zenon
    <3>2. CASE ~ both
      <4>1. /\ names = rest \union {alias} /\ after = rest \union {Target}
            /\ NotifyRank[g[Target].notify] >= k <=> NotifyRank[f[alias].notify] >= k
            /\ WakeRank[g[Target].wake] >= k <=> WakeRank[f[alias].wake] >= k
        BY <2>4, <2>5, <2>6, <3>2
      <4>2. \A c \in rest : g[c] = f[c]
        BY <2>4
      <4>. QED
        BY <4>1, <4>2, Zenon
    <3>. QED
      BY <3>1, <3>2
  <2>8. { g[c].ack : c \in after } \ {""} = { f[c].ack : c \in names } \ {""}
    <3>1. { g[c].ack : c \in after } = { f[c].ack : c \in rest } \union { g[Target].ack }
      BY <2>4
    <3>2. { f[c].ack : c \in names } = { f[c].ack : c \in rest } \union { f[alias].ack }
                                        \union (IF both THEN { f[Target].ack } ELSE {})
      BY <2>4
    <3>. QED
      BY <2>5, <3>1, <3>2
  <2>9. { k \in 1 .. 3 : \E c \in after : NotifyRank[g[c].notify] >= k }
          = { k \in 1 .. 3 : \E c \in names : NotifyRank[f[c].notify] >= k }
        /\ { k \in 1 .. 5 : \E c \in after : WakeRank[g[c].wake] >= k }
          = { k \in 1 .. 5 : \E c \in names : WakeRank[f[c].wake] >= k }
    BY <2>6
  <2>. QED
    BY <2>8, <2>9 DEF Facts, names, after, g
<1>. QED
  BY <1>1, <1>2

\* _apply_board_transaction: the move of a task's receipts to the numeric id
\* forgets no fact about it, and invents none.
THEOREM MoveForgetsNothing == Spec => FactsSurvive
<1>. DEFINE Kept == run.pc = "commit" /\ run'.pc = "repair" =>
                      \A t \in Events : Facts(receipts'[t]) = Facts(receipts[t])
<1>1. ASSUME IInv, [Next]_vars PROVE [Kept]_vars
  <2>1. SUFFICES ASSUME run.pc = "commit", run'.pc = "repair", NEW t \in Events
                 PROVE  Facts(receipts'[t]) = Facts(receipts[t])
    OBVIOUS
  <2>2. CASE Commit
    <3>1. /\ receipts'[t] = Moved(Moved(receipts[t], "#research"), "research")
          /\ ~ Ambiguous(receipts[t], "#research")
          /\ ~ Ambiguous(Moved(receipts[t], "#research"), "research")
      BY <2>2 DEF Commit
    <3>2. IsReceipts(receipts[t]) /\ IsReceipts(Moved(receipts[t], "#research"))
      BY <1>1, MovedIsReceipts DEF IInv, BoardTypes
    <3>. QED
      BY <3>1, <3>2, MovedKeepsFacts DEF Aliases
  <2>3. CASE run' = run
    BY <2>1, <2>3
  <2>4. CASE run' = NoRun
    BY <2>1, <2>4 DEF NoRun
  <2>. QED
    BY <1>1, <2>1, <2>2, <2>3, <2>4
       DEF Next, vars, Deliver, Attempt, GiveUp, Gateway, Consumer, Plan, Rollback, Record,
           VerifyAck, ReadBack, MarkApplied, End, Crash
<1>2. Spec => [][Kept]_vars
  BY <1>1, Inductive, PTL DEF Spec
<1>. QED
  BY <1>2 DEF FactsSurvive

=============================================================================
