-------------------------- MODULE SignalPromotion --------------------------
(***************************************************************************)
(* What a handled message signals and who is told                          *)
(* (core/src/routing/signal-promotion.ts).                                 *)
(*                                                                         *)
(* An outcome is the service result or the delivery result of a message:   *)
(*   [from, status, escalate, hints, complete, text]                       *)
(* from is "service" or "delivery", escalate is needs_escalation, hints is *)
(* the set of keywords in deriveSignalReason (block, review, and human for *)
(* any of hasHumanDecisionHint), complete is whether work_surface_action   *)
(* is complete, and text whether there is a reply or a summary.  A route   *)
(* that safe-fails never gets here, so the escalation reason of a decision *)
(* is not an input.                                                        *)
(***************************************************************************)
EXTENDS Naturals

Hints == {"block", "review", "human"}

SignalKinds == {"none", "blocked", "review_request", "high_signal_completion",
                "service_error"}

Undelivered(outcome) ==
  outcome.from = "delivery" /\ outcome.status \in {"failed", "unresolved_binding"}

EscalationKind(hints) ==
  IF "review" \in hints /\ "block" \notin hints THEN "review_request" ELSE "blocked"

\* deriveProjectSessionSignalKind; dm is whether the completion policy of the
\* writeback is dm_on_completion_boundary.
SignalKind(source, outcome, dm) ==
  IF Undelivered(outcome) THEN "blocked"
  ELSE IF outcome.from = "delivery" THEN "none"
  ELSE IF outcome.status = "error" THEN "service_error"
  ELSE IF outcome.escalate THEN EscalationKind(outcome.hints)
  ELSE IF outcome.status = "ok"
          /\ ((outcome.complete /\ dm) \/ (outcome.text /\ source = "automation"))
    THEN "high_signal_completion"
  ELSE "none"

\* decideSignalPromotion: every kind but "none" is notified, and some escalate.
MainSessionEscalation(kind, outcome) ==
  kind \in {"review_request", "blocked", "service_error"} /\ "human" \in outcome.hints
=============================================================================
