----------------------------- MODULE TaskBugRow -----------------------------
(***************************************************************************)
(* What one ACR result does to one Task or Bug row of the work surface     *)
(* (adapters/feishu/src/task-bug-writeback.ts): the patch a service result *)
(* stands for, and the plan it becomes for a row as it was read.           *)
(*                                                                         *)
(* An envelope is [action, decision, workflow, fix_result], a service      *)
(* result [status, result_kind, action, needs_escalation, mentions_review] *)
(* where action is work_surface_action and mentions_review the regular     *)
(* expression on its reason and summary.  Free text is left out.           *)
(***************************************************************************)
CONSTANT NULL

Kinds == {"task", "bug"}
FixResults == {"Fixed", "Won't fix", "Can't rep"}

InProgressStatus(kind) == IF kind = "task" THEN "Doing" ELSE "Fixing"
FinalStatus(kind) == IF kind = "task" THEN "Done" ELSE "Fixed"
TerminalStatuses(kind) == {FinalStatus(kind), "Archived"}
Statuses(kind) == {"Todo", InProgressStatus(kind), "Reviewing"} \cup TerminalStatuses(kind)
RowStatuses == UNION {Statuses(kind) : kind \in Kinds}

EffectiveAction(envelope, result) ==
  IF result.action # NULL THEN result.action ELSE envelope.action

Patch(phase, status, step, outcome) ==
  [phase |-> phase, status |-> status, current_step |-> step, step_result |-> outcome,
   fix_result |-> NULL, set_started_at |-> FALSE]

ErrorPatch == Patch("error", NULL, "REPORT", "failed")

ResolutionPatch(kind, decision) ==
  IF decision = "accepted"
  THEN Patch("resolution_boundary", FinalStatus(kind), "COMPLETE", "accepted")
  ELSE IF decision = "rejected" THEN Patch("resolution_boundary", "Todo", "REPLAN", "rejected")
  ELSE ErrorPatch

ReviewLike(envelope, result) ==
  \/ EffectiveAction(envelope, result) \in {"review", "review_request"}
  \/ envelope.workflow = "review"
  \/ result.mentions_review

Waits(envelope, result) ==
  \/ EffectiveAction(envelope, result) \in {"review", "review_request", "blocked"}
  \/ envelope.workflow = "review"
  \/ result.needs_escalation
  \/ result.status = "needs_escalation"

CompletionPatch(kind, fixResult, acceptanceMode) ==
  IF kind = "bug" /\ fixResult = NULL THEN ErrorPatch
  ELSE LET patch == IF acceptanceMode = "agent_can_finalize"
                    THEN Patch("completion_boundary", FinalStatus(kind), "COMPLETE", "accepted")
                    ELSE Patch("completion_boundary", "Reviewing", "REVIEW_WAIT", "need_review")
       IN [patch EXCEPT !.fix_result = IF kind = "bug" THEN fixResult ELSE NULL]

\* deriveWritebackPatch; the order of the cases is the order of its returns.
WritebackPatch(kind, envelope, result, acceptanceMode) ==
  LET action == EffectiveAction(envelope, result)
  IN IF action = "review_resolution" THEN ResolutionPatch(kind, envelope.decision)
     ELSE IF result.status = "error" \/ result.result_kind = "rejected" THEN ErrorPatch
     ELSE IF Waits(envelope, result)
     THEN Patch("review_boundary", "Reviewing", "REVIEW_WAIT",
                IF ReviewLike(envelope, result) THEN "need_review" ELSE "blocked")
     ELSE IF action = "complete"
     THEN CompletionPatch(kind, envelope.fix_result, acceptanceMode)
     ELSE [Patch("in_progress", InProgressStatus(kind), "EXECUTE", "in_progress")
             EXCEPT !.set_started_at = TRUE]

\* resolveTaskBugPolicy: the row overrides the router, which overrides manual.
AcceptanceMode(rowOverride, routerDefault) ==
  IF rowOverride # "inherit" THEN rowOverride
  ELSE IF routerDefault # NULL THEN routerDefault ELSE "manual_acceptance"

\* Mutant: a row in review is not protected from work that starts.
NoopTerminalOnly(kind, status, patch, action) ==
  IF action = "review_resolution" THEN status = "Archived"
  ELSE status \in TerminalStatuses(kind)

\* shouldNoopForStatus, for the status the plan read.
Noop(kind, status, patch, action) ==
  IF action = "review_resolution" THEN status = "Archived"
  ELSE \/ status \in TerminalStatuses(kind)
       \/ status = "Reviewing" /\ patch.phase = "in_progress"

\* planWriteback for one row: NULL for a noop, otherwise the fields to write.
\* A status is written only when it differs from the one that was read.
Plan(kind, row, envelope, result, routerDefault) ==
  LET patch == WritebackPatch(kind, envelope, result,
                              AcceptanceMode(row.acceptance_mode, routerDefault))
  IN IF Noop(kind, row.status, patch, EffectiveAction(envelope, result)) THEN NULL
     ELSE [status |-> IF patch.status = row.status THEN NULL ELSE patch.status,
           current_step |-> patch.current_step,
           step_result |-> patch.step_result,
           started |-> patch.set_started_at /\ ~row.started,
           fix_result |-> patch.fix_result,
           phase |-> patch.phase]

\* applyWriteback: what the update leaves in a row, which may have changed
\* since the plan read it.
Written(row, plan) ==
  [row EXCEPT !.status = IF plan.status = NULL THEN @ ELSE plan.status,
              !.current_step = plan.current_step,
              !.step_result = plan.step_result,
              !.started = @ \/ plan.started,
              !.fix_result = IF plan.fix_result = NULL THEN @ ELSE plan.fix_result]
=============================================================================
