---------------------------- MODULE SessionState ----------------------------
(***************************************************************************)
(* The value of one session of the session project store, and the pure     *)
(* functions the store and its callers apply to it                         *)
(* (core/src/state/session-project-store.ts, current-project-binding.ts).  *)
(*                                                                         *)
(* A session is a record over Fields.  A patch is a record over any subset *)
(* of Fields: a field the caller leaves undefined is not in its domain,    *)
(* and null is NULL.  The three timestamps are left to the modules that    *)
(* have a clock.                                                           *)
(***************************************************************************)
EXTENDS Naturals

CONSTANT NULL

\* Fields the code merges with ??: a null in the patch does not override.
CoalescedFields == {"current_project_id", "selected_via"}

\* Fields the code merges with !== undefined: a null in the patch clears.
ClearableFields == {"current_workflow", "last_route_trace",
                    "pending_save_mode", "pending_save_draft",
                    "pending_semantic_execution"}

\* What invalidate drops unless the patch says otherwise.
PendingFields == {"pending_save_mode", "pending_save_draft",
                  "pending_semantic_execution"}

Fields == CoalescedFields \cup ClearableFields

\* The defaults at the end of every ?? chain of set.
FreshSession == [f \in Fields |-> IF f = "selected_via" THEN "manual" ELSE NULL]

Existing(session) == IF session = NULL THEN FreshSession ELSE session

Overrides(patch, f) ==
  /\ f \in DOMAIN patch
  /\ f \in CoalescedFields => patch[f] # NULL

SetPatch(session, patch) ==
  [f \in Fields |-> IF Overrides(patch, f) THEN patch[f] ELSE Existing(session)[f]]

\* The store's invalidate: the binding goes, and with it every pending field;
\* a session that did not exist gets selected_via "route".
InvalidatePatch(session, patch) ==
  [f \in Fields |->
     IF f = "current_project_id" THEN NULL
     ELSE IF Overrides(patch, f) THEN patch[f]
     ELSE IF f \in PendingFields THEN NULL
     ELSE IF f = "selected_via" /\ session = NULL THEN "route"
     ELSE Existing(session)[f]]

\* createCurrentProjectBindingPatch: workflow and trace are always written,
\* the pending save only when the caller asks, and the pending semantic
\* execution never.
BindingPatch(project, via, workflow, trace, clearPendingSave) ==
  LET written == {"current_project_id", "selected_via", "current_workflow",
                  "last_route_trace"}
      cleared == IF clearPendingSave
                 THEN {"pending_save_mode", "pending_save_draft"} ELSE {}
  IN [f \in written \cup cleared |->
        IF f = "current_project_id" THEN project
        ELSE IF f = "selected_via" THEN via
        ELSE IF f = "current_workflow" THEN workflow
        ELSE IF f = "last_route_trace" THEN trace ELSE NULL]

\* readCurrentProjectBinding(session)?.project_id
Binding(session) ==
  IF session = NULL THEN NULL ELSE session.current_project_id

BindingMatches(session, project) == Binding(session) = project
=============================================================================
