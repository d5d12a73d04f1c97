-------------------------- MODULE OutcomeCompiler --------------------------
(***************************************************************************)
(* compile_outcome (outcome_compiler.py, outcome.py): what a done event       *)
(* asks for.  Structured run metadata decides alone; flat reviewer metadata   *)
(* comes second, the text of the summary third, and the model stage, which   *)
(* declines unless a compiler is injected, last.  A text is the set of the    *)
(* grammar's marks it carries.                                              *)
(***************************************************************************)
EXTENDS FiniteSets

Verdicts == { "GO", "BLOCK", "NEED_MORE", "UNKNOWN" }
Blocking == { "BLOCK", "NEED_MORE" }
Kinds    == { "complete", "roadmap_next", "code_fix", "needs_input", "approval_required",
              "external_wait", "semantic_refusal", "unknown" }
None     == "none"

\* What a blocker is about: something a fix can be made for, a category that
\* is never remediated automatically, or neither.
Phrases == { "concrete", "unsafe", "vague" }

\* meta: the run metadata, with mverdict, mkind ("malformed" is a value no enum
\* has), mnext (names a transition) and mblockers.  The rest is the summary:
\* its verdict, the Outcome-Kind marker, a contract, "operator must", a known
\* blocker class, the blockers it names, "pending the owner's ...".
Outcome == [ meta : { None, "structured", "flat" }, mverdict : Verdicts,
             mkind : Kinds \union {"malformed"}, mnext : BOOLEAN, mblockers : SUBSET Phrases,
             verdict : Verdicts, marker : Kinds \union {None}, contract : BOOLEAN,
             operator_must : BOOLEAN, known : BOOLEAN, named : SUBSET Phrases,
             pending : BOOLEAN ]

\* An envelope of kind k may be built: a GO asks for no fix, a next slice has a
\* transition.  (needs_input always gets the generic contract.)
Valid(verdict, k, next) ==
  /\ ~ (verdict = "GO" /\ k = "code_fix")
  /\ k = "roadmap_next" => next

Structured(o) ==
  IF o.mkind \in Kinds /\ Valid(o.mverdict, o.mkind, o.mnext) THEN o.mkind ELSE "unknown"

\* The kind for blockers of which one may be unsafe.
Remedy(blockers) == IF "unsafe" \in blockers THEN "semantic_refusal" ELSE "code_fix"

\* None: the metadata is not flat, or names no blocker for its BLOCK.
Flat(o) ==
  IF o.meta # "flat" THEN None
  ELSE IF o.mverdict = "GO" THEN "complete"
  ELSE IF o.mverdict \in Blocking /\ o.mblockers # {} THEN Remedy(o.mblockers)
  ELSE None

\* The marker counts with a contract, needs_input without one too.
Marked(o) == o.marker # None /\ (o.contract \/ o.marker = "needs_input")

FromText(o) ==
  IF Marked(o) THEN (IF Valid(o.verdict, o.marker, FALSE) THEN o.marker ELSE "unknown")
  ELSE IF o.verdict \in Blocking /\ o.operator_must THEN "needs_input"
  ELSE IF o.verdict = "BLOCK" /\ o.known THEN "code_fix"
  ELSE IF o.verdict = "GO" THEN "complete"
  ELSE "unknown"

\* The grammars for prose, tried when the markers say nothing.  They look for the
\* verdict with patterns of their own; here a text has one verdict for all readers.
FromProse(o) ==
  IF o.verdict \in Blocking /\ o.named \intersect { "concrete", "unsafe" } # {} THEN Remedy(o.named)
  ELSE IF o.verdict \in Blocking /\ o.pending THEN "needs_input"
  ELSE "unknown"

\* Mutant of Compile: the text is read before the metadata.
CompileTextFirst(o) ==
  IF FromText(o) # "unknown" THEN FromText(o)
  ELSE IF o.meta = "structured" THEN Structured(o)
  ELSE IF Flat(o) # None THEN Flat(o)
  ELSE FromProse(o)

Compile(o) ==
  IF o.meta = "structured" THEN Structured(o)
  ELSE IF Flat(o) # None THEN Flat(o)
  ELSE IF FromText(o) # "unknown" THEN FromText(o)
  ELSE FromProse(o)

=============================================================================
