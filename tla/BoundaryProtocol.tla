-------------------------- MODULE BoundaryProtocol --------------------------
(***************************************************************************)
(* What an agent has to hand over with a boundary, and the work surface    *)
(* operations it may ask for (harness/src/boundary-protocol/index.ts).     *)
(*                                                                         *)
(* A form is the parameters of a boundary: [summary, evidence, reason,     *)
(* fix_result, operations], NULL for what is missing.  A text is its class *)
(* only: a placeholder such as "<summary>", plain, or one with a verb of   *)
(* mutation, with a noun of the work surface, or with both, a claim.       *)
(*                                                                         *)
(* An operation is [source, item, status, expect]: the fields it sets and  *)
(* the fields it expects afterwards are a status.  As the agent wrote it,  *)
(* a part may be missing or a placeholder.                                 *)
(***************************************************************************)
EXTENDS TaskBugRow, Sequences

Texts == {"placeholder", "plain", "verb", "noun", "claim"}

\* isPlaceholderString, and a text at all.
Concrete(text) == text \notin {NULL, "placeholder"}

\* normalizeWorkSurfaceOperation and normalizeChangedRecord keep an operation
\* only when it is whole; without verify fields it expects what it sets.
Whole(raw) ==
  /\ Concrete(raw.source) /\ Concrete(raw.item) /\ Concrete(raw.status)
  /\ raw.expect # "placeholder"

Normalized(raw) == [raw EXCEPT !.expect = IF @ = NULL THEN raw.status ELSE @]

\* hasInvalidStructuredOperations
Malformed(form) == \E k \in DOMAIN form.operations : ~Whole(form.operations[k])

\* extractWorkSurfaceOperations of a form none of whose operations is malformed.
Operations(form) == [k \in DOMAIN form.operations |-> Normalized(form.operations[k])]

\* claimsWorkSurfaceMutation looks for the verb and the noun in both texts.
ClaimsMutation(form) ==
  LET texts == {form.summary, form.evidence}
  IN "claim" \in texts \/ {"verb", "noun"} \subseteq texts

\* What a completion has to carry, whatever it completes.
Proven(form) ==
  /\ Concrete(form.summary) /\ Concrete(form.evidence)
  /\ ~Malformed(form)
  /\ ClaimsMutation(form) => form.operations # <<>>

\* Mutant: the evidence is not asked for.
AcceptableBySummary(action, form, kinds) ==
  /\ kinds # {}
  /\ \/ /\ action = "complete"
        /\ Concrete(form.summary) /\ ~Malformed(form)
        /\ ClaimsMutation(form) => form.operations # <<>>
        /\ "bug" \in kinds => form.fix_result \in FixResults
     \/ action \in {"review", "review_request", "blocked"} /\ form.reason # NULL

\* validateBoundaryResult, for a boundary whose records and work items are of
\* the kinds given.
Acceptable(action, form, kinds) ==
  /\ kinds # {}
  /\ \/ /\ action = "complete"
        /\ Proven(form)
        /\ "bug" \in kinds => form.fix_result \in FixResults
     \/ action \in {"review", "review_request", "blocked"} /\ form.reason # NULL
=============================================================================
