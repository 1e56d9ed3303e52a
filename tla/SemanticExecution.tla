------------------------- MODULE SemanticExecution -------------------------
(***************************************************************************)
(* The life of a piece of semantic work: an ingress message names a row of *)
(* the work surface, the plugin queues an event for the main session of    *)
(* the target and stores a pending semantic execution there, an agent of   *)
(* that session answers with a boundary, and both the message and the      *)
(* boundary are written back to the row, recorded in the project lane and  *)
(* promoted (adapters/openclaw/plugin/src/index.ts,                        *)
(* adapters/openclaw/runtime/src/feishu-task-bug-semantic-executor.ts,     *)
(* adapters/feishu/src/task-bug-semantic-service-bridge.ts).               *)
(*                                                                         *)
(* Every job is one asynchronous handler: a message is a run of            *)
(* before_dispatch, a turn is a run of llm_output.  One action is the code *)
(* between two awaits.  Calls of the session store are atomic, which is    *)
(* what SessionProjectStore shows of it.                                   *)
(***************************************************************************)
EXTENDS BoundaryProtocol, Naturals

CONSTANTS
  Sessions,   \* canonical main sessions
  Projects,   \* entries of the project registry
  Items,      \* rows of the work surface
  Messages,   \* identities of ingress messages; also of their dispatches
  Turns,      \* identities of agent turns
  KindOf,     \* the table each row is in
  TargetOf,   \* the session the service binding of each project names
  RouterDefault,    \* the acceptance mode the router configuration of each project names
  BoundaryActions,  \* actions an agent closes its work with
  Forms,            \* what a boundary hands over
  Namings,          \* the project and the records it may name
  ServiceActions,   \* actions that the router configuration sends to a service
  AcceptanceModes,  \* overrides a row may carry
  MaxFaults, MaxHumanSteps, MaxCrashes   \* bounds

MessageActions == {"dispatch", "complete", "review_request", "blocked", "review_resolution"}
Decisions == {"accepted", "rejected"}

ASSUME ItemsAssumption ==
  /\ KindOf \in [Items -> Kinds]
  /\ TargetOf \in [Projects -> Sessions]
  /\ RouterDefault \in [Projects -> {"manual_acceptance", "agent_can_finalize", NULL}]
  /\ BoundaryActions \subseteq {"complete", "review_request", "blocked"}
  /\ Namings \subseteq [project : Projects \cup {NULL}, records : SUBSET Items]
  /\ \A naming \in Namings : \A i, k \in naming.records : KindOf[i] = KindOf[k] => i = k
  /\ ServiceActions \subseteq MessageActions
  /\ AcceptanceModes \subseteq {"inherit", "manual_acceptance", "agent_can_finalize"}

\* As an agent or a caller writes them: any part may be missing.
RawOperations == [source : {"feishu_base", "elsewhere", "placeholder", NULL},
                  item : Items \cup {"placeholder", NULL},
                  status : RowStatuses \cup {"placeholder", NULL},
                  expect : RowStatuses \cup {"placeholder", NULL}]

ASSUME FormsAssumption ==
  Forms \subseteq [summary : Texts \cup {NULL}, evidence : Texts \cup {NULL},
                   reason : Texts \cup {NULL},
                   fix_result : FixResults \cup {"misspelt", NULL},
                   operations : Seq(RawOperations)]

ASSUME JobsAssumption == Messages \cap Turns = {}

ASSUME NullAssumption ==
  NULL \notin Projects \cup Messages \cup Items \cup MessageActions \cup RowStatuses

Jobs == Messages \cup Turns

VARIABLES
  session,   \* the binding and the pending execution of each main session
  row,       \* the rows of the work surface
  events,    \* dispatches whose system event waits in the runtime
  pc,        \* where each job is
  about,     \* the row a message names, the dispatch a turn works on
  project,   \* the project each message was routed to, whatever row it names
  action,    \* the action of each job
  decision,  \* the decision of a review_resolution
  named,     \* the project and the records a boundary names, of any project
  form,      \* what each job hands over
  captured,  \* the pending execution a turn was matched with
  targets,   \* rows that are still to be planned
  undone,    \* operations of a completion that are not over
  planned,   \* row updates that are planned or under way
  outcome,   \* the service result, as far as it is known
  accepted,  \* dispatches whose event the runtime accepted
  lane,      \* jobs recorded in a project lane
  promoted,  \* jobs whose signal was promoted
  faults, humanSteps, crashes

jobVars == <<about, project, action, decision, named, form, captured>>
budget  == <<faults, humanSteps, crashes>>
vars == <<session, row, events, pc, jobVars, targets, undone, planned, outcome,
          accepted, lane, promoted, budget>>

Init ==
  /\ session = [s \in Sessions |-> [current_project_id |-> NULL,
                                    pending_semantic_execution |-> NULL]]
  /\ \E mode \in [Items -> AcceptanceModes] :
       row = [i \in Items |-> [status |-> "Todo", current_step |-> NULL,
                               step_result |-> NULL, started |-> FALSE,
                               fix_result |-> NULL, acceptance_mode |-> mode[i]]]
  /\ events = {}
  /\ pc = [j \in Jobs |-> "idle"]
  /\ about = [j \in Jobs |-> NULL]
  /\ project = [m \in Messages |-> NULL]
  /\ action = [j \in Jobs |-> NULL]
  /\ decision = [j \in Jobs |-> NULL]
  /\ named = [j \in Jobs |-> NULL]
  /\ form = [j \in Jobs |-> NULL]
  /\ captured = [j \in Jobs |-> NULL]
  /\ targets = [j \in Jobs |-> {}]
  /\ undone = [j \in Jobs |-> <<>>]
  /\ planned = [j \in Jobs |-> {}]
  /\ outcome = [j \in Jobs |-> NULL]
  /\ accepted = {}
  /\ lane = {}
  /\ promoted = {}
  /\ faults = 0 /\ humanSteps = 0 /\ crashes = 0

Goto(j, label) == pc' = [pc EXCEPT ![j] = label]

Fault == faults < MaxFaults /\ faults' = faults + 1 /\ UNCHANGED <<humanSteps, crashes>>

\* normalizeBugFixResult: a result it does not know is none.
FixResult(j) ==
  IF form[j] # NULL /\ form[j].fix_result \in FixResults THEN form[j].fix_result ELSE NULL

Project(d) == project[d]
Target(d) == TargetOf[Project(d)]
Pending(s) == session[s].pending_semantic_execution

\* The configuration a job works with is that of its project.
DefaultMode(j) == RouterDefault[Project(IF j \in Turns THEN captured[j] ELSE j)]
-----------------------------------------------------------------------------
(* The semantic service bridge, for messages and for boundaries alike. *)

\* Only a boundary of an agent, or a message that stands for one, has a form.
HandsOver(a) == a \notin {"dispatch", "review_resolution"}

\* before_dispatch routed a message to its service.
Receive(m) ==
  /\ pc[m] = "idle"
  /\ \E i \in Items, p \in Projects, a \in ServiceActions, d \in Decisions, f \in Forms :
       /\ about' = [about EXCEPT ![m] = i]
       /\ project' = [project EXCEPT ![m] = p]
       /\ action' = [action EXCEPT ![m] = a]
       /\ form' = [form EXCEPT ![m] = IF HandsOver(a) THEN f ELSE NULL]
       /\ decision' = [decision EXCEPT ![m] = IF a = "review_resolution" THEN d ELSE NULL]
       /\ targets' = [targets EXCEPT ![m] = {i}]
  /\ Goto(m, "service")
  /\ UNCHANGED <<session, row, events, named, captured, undone, planned, outcome,
                 accepted, lane, promoted, budget>>

Answer(j, result) == outcome' = [outcome EXCEPT ![j] = result] /\ Goto(j, "writeback")

\* loadFeishuTaskBugExecutionContexts throws: contextLoadFailedResult.
LoadContextsFails(j) ==
  /\ pc[j] = "service"
  /\ Answer(j, "blocked")
  /\ Fault
  /\ UNCHANGED <<session, row, events, jobVars, targets, undone, planned,
                 accepted, lane, promoted>>

\* The executor passes a review resolution through.  Any other boundary it
\* validates against the rows it loaded; one that does not hold waits for a
\* human, and one about a review says so (mentionsReview).
Judgement(j) ==
  IF action[j] = "review_resolution" THEN action[j]
  ELSE IF Acceptable(action[j], form[j], {KindOf[i] : i \in targets[j]}) THEN action[j]
  ELSE IF action[j] = "review_request" THEN "invalid_review" ELSE "blocked"

\* Operations that are left are carried out before the result is known.
Proceed(j, operations) ==
  /\ undone' = [undone EXCEPT ![j] = operations]
  /\ Goto(j, IF operations = <<>> THEN "writeback" ELSE "effects")

\* extractWorkSurfaceOperations, for a completion that is accepted.
Passthrough(j) ==
  /\ pc[j] = "service"
  /\ action[j] # "dispatch"
  /\ outcome' = [outcome EXCEPT ![j] = Judgement(j)]
  /\ Proceed(j, IF Judgement(j) = "complete" THEN Operations(form[j]) ELSE <<>>)
  /\ UNCHANGED <<session, row, events, jobVars, targets, planned,
                 accepted, lane, promoted, budget>>

\* The work surface has the table, and the table the option.
Fits(operation) ==
  operation.source = "feishu_base" /\ operation.status \in Statuses(KindOf[operation.item])

\* applyAndVerifyWorkSurfaceOperations: an operation that does not fit is an
\* error, and the next one is tried; after one error the result is blocked.
SkipOperation(j) ==
  /\ pc[j] = "effects"
  /\ ~Fits(Head(undone[j]))
  /\ outcome' = [outcome EXCEPT ![j] = "blocked"]
  /\ Proceed(j, Tail(undone[j]))
  /\ UNCHANGED <<session, row, events, jobVars, targets, planned,
                 accepted, lane, promoted, budget>>

\* Any other one is written, whatever row it names and whatever is there ...
ApplyOperation(j) ==
  /\ pc[j] = "effects"
  /\ LET operation == Head(undone[j])
     IN /\ Fits(operation)
        /\ row' = [row EXCEPT ![operation.item].status = operation.status]
  /\ Goto(j, "verify")
  /\ UNCHANGED <<session, events, jobVars, targets, undone, planned, outcome,
                 accepted, lane, promoted, budget>>

\* ... and the row is read again: another value is an error.
VerifyOperation(j) ==
  /\ pc[j] = "verify"
  /\ LET operation == Head(undone[j])
     IN outcome' = [outcome EXCEPT ![j] =
                      IF row[operation.item].status = operation.expect THEN @ ELSE "blocked"]
  /\ Proceed(j, Tail(undone[j]))
  /\ UNCHANGED <<session, row, events, jobVars, targets, planned,
                 accepted, lane, promoted, budget>>

\* The client throws: executorFailedResult, for an operation written or not.
OperationThrows(j) ==
  /\ pc[j] \in {"effects", "verify"}
  /\ Answer(j, "rejected")
  /\ undone' = [undone EXCEPT ![j] = <<>>]
  /\ Fault
  /\ UNCHANGED <<session, row, events, jobVars, targets, planned,
                 accepted, lane, promoted>>

\* The pending execution of a session replaces the one before it, and the binding
\* becomes the project of the message.
Bound(m, pending) ==
  session' = [session EXCEPT ![Target(m)] =
                [current_project_id |-> Project(m), pending_semantic_execution |-> pending]]

\* Mutant: the row is stored instead of the dispatch.
EnqueueRow(m) ==
  /\ pc[m] = "service"
  /\ action[m] = "dispatch"
  /\ events' = events \cup {m}
  /\ accepted' = accepted \cup {m}
  /\ Bound(m, about[m])
  /\ Goto(m, "wake")
  /\ UNCHANGED <<row, jobVars, targets, undone, planned, outcome, lane, promoted, budget>>

\* The runtime accepts the event for the target session, and store.set is called:
\* the queue of the store serves it before any call of a later turn.
Enqueue(m) ==
  /\ pc[m] = "service"
  /\ action[m] = "dispatch"
  /\ events' = events \cup {m}
  /\ accepted' = accepted \cup {m}
  /\ Bound(m, m)
  /\ Goto(m, "wake")
  /\ UNCHANGED <<row, jobVars, targets, undone, planned, outcome, lane, promoted, budget>>

\* The same with a store.set that rejects, or that the process does not live to see.
EnqueueUnstored(m) ==
  /\ pc[m] = "service"
  /\ action[m] = "dispatch"
  /\ events' = events \cup {m}
  /\ accepted' = accepted \cup {m}
  /\ Goto(m, "store")
  /\ Fault
  /\ UNCHANGED <<session, row, jobVars, targets, undone, planned, outcome, lane, promoted>>

\* Mutant: a refusal is not noticed.
EnqueueUnchecked(m) ==
  /\ pc[m] = "service"
  /\ action[m] = "dispatch"
  /\ Bound(m, m)
  /\ Goto(m, "wake")
  /\ Fault
  /\ UNCHANGED <<row, events, jobVars, targets, undone, planned, outcome,
                 accepted, lane, promoted>>

\* The runtime refuses the event, or the executor throws before that.
EnqueueRefused(m) ==
  /\ pc[m] = "service"
  /\ action[m] = "dispatch"
  /\ \E result \in {"blocked", "rejected"} : Answer(m, result)
  /\ Fault
  /\ UNCHANGED <<session, row, events, jobVars, targets, undone, planned,
                 accepted, lane, promoted>>

\* The store has rejected after the event was accepted: executorFailedResult.
StorePendingFails(m) ==
  /\ pc[m] = "store"
  /\ Answer(m, "rejected")
  /\ UNCHANGED <<session, row, events, jobVars, targets, undone, planned,
                 accepted, lane, promoted, budget>>

\* wakeTargetSession, when the pending execution is stored ...
Wake(m) ==
  /\ pc[m] = "wake"
  /\ Answer(m, "dispatch")
  /\ UNCHANGED <<session, row, events, jobVars, targets, undone, planned,
                 accepted, lane, promoted, budget>>

\* ... may throw: executorFailedResult, although the work is pending.
WakeFails(m) ==
  /\ pc[m] = "wake"
  /\ Answer(m, "rejected")
  /\ Fault
  /\ UNCHANGED <<session, row, events, jobVars, targets, undone, planned,
                 accepted, lane, promoted>>
-----------------------------------------------------------------------------
(* An agent turn and the llm_output hook. *)

\* The runtime hands the agent an event of its session.  The agent works on
\* it and answers with a boundary that names what it chooses to name.
StartTurn(t) ==
  /\ pc[t] = "idle"
  /\ \E d \in events, a \in BoundaryActions, naming \in Namings, f \in Forms :
       /\ events' = events \ {d}
       /\ about' = [about EXCEPT ![t] = d]
       /\ action' = [action EXCEPT ![t] = a]
       /\ named' = [named EXCEPT ![t] = naming]
       /\ form' = [form EXCEPT ![t] = f]
  /\ Goto(t, "output")
  /\ UNCHANGED <<session, row, project, decision, captured, targets, undone, planned, outcome,
                 accepted, lane, promoted, budget>>

\* Events are delivered to the session they were queued for.
Home(t) == Target(about[t])

\* The row of one kind that the envelope of turn t carries: the record the boundary
\* names, of whatever project it is, wins over that of the pending execution.
Anchor(t, d, kind) ==
  LET own == {i \in named[t].records : KindOf[i] = kind}
  IN IF own # {} THEN own ELSE {i \in {about[d]} : KindOf[i] = kind}

MergedRows(t, d) == Anchor(t, d, "task") \cup Anchor(t, d, "bug")

\* Mutant: no mismatch is seen.
MatchesAnything(t, d) == TRUE

\* mergePendingSemanticBoundaryEnvelope: only a named project can mismatch.
Matches(t, d) == named[t].project \in {NULL, Project(d)}

\* validateBoundaryResult, with the merged records and the work items of the
\* pending execution.
Valid(t, d) ==
  Acceptable(action[t], form[t], {KindOf[i] : i \in MergedRows(t, d) \cup {about[d]}})

Routed(t) == action[t] \in ServiceActions

\* Mutant: the pending execution is cleared when it is matched.
CaptureAndClear(t) ==
  /\ pc[t] = "output"
  /\ LET d == Pending(Home(t))
     IN /\ d # NULL
        /\ Matches(t, d) /\ Valid(t, d) /\ Routed(t)
        /\ captured' = [captured EXCEPT ![t] = d]
        /\ targets' = [targets EXCEPT ![t] = MergedRows(t, d)]
  /\ session' = [session EXCEPT ![Home(t)].pending_semantic_execution = NULL]
  /\ Goto(t, "service")
  /\ UNCHANGED <<row, events, about, project, action, decision, named, form,
                 undone, planned, outcome, accepted, lane, promoted, budget>>

\* The handler matches, validates and routes the boundary.
Capture(t) ==
  /\ pc[t] = "output"
  /\ LET d == Pending(Home(t))
     IN /\ d # NULL
        /\ Matches(t, d) /\ Valid(t, d) /\ Routed(t)
        /\ captured' = [captured EXCEPT ![t] = d]
        /\ targets' = [targets EXCEPT ![t] = MergedRows(t, d)]
  /\ Goto(t, "service")
  /\ UNCHANGED <<session, row, events, about, project, action, decision, named, form,
                 undone, planned, outcome, accepted, lane, promoted, budget>>

\* No pending execution, one of another project, one that makes the boundary
\* invalid, or an action that is routed to no service: what is pending stays.
Ignore(t) ==
  /\ pc[t] = "output"
  /\ LET d == Pending(Home(t))
     IN d # NULL => ~(Matches(t, d) /\ Valid(t, d) /\ Routed(t))
  /\ Goto(t, "ignored")
  /\ UNCHANGED <<session, row, events, jobVars, targets, undone, planned, outcome,
                 accepted, lane, promoted, budget>>

\* The text has no wrapper, or its boundary is malformed: the pending execution
\* stays and the event is gone.
RejectOutput(t) ==
  /\ pc[t] = "output"
  /\ Pending(Home(t)) # NULL
  /\ Goto(t, "ignored")
  /\ Fault
  /\ UNCHANGED <<session, row, events, jobVars, targets, undone, planned, outcome,
                 accepted, lane, promoted>>
-----------------------------------------------------------------------------
(* Writeback, lane and promotion, for messages and for boundaries alike. *)

Envelope(j) ==
  [action |-> action[j], decision |-> decision[j], workflow |-> NULL,
   fix_result |-> FixResult(j)]

\* The service result behind each outcome.
Result(result) ==
  LET waits == result \in {"blocked", "review_request", "invalid_review"}
  IN [status |-> IF waits THEN "needs_escalation"
                 ELSE IF result = "rejected" THEN "error" ELSE "ok",
      result_kind |-> IF waits THEN "needs_escalation"
                      ELSE IF result = "dispatch" THEN "queued"
                      ELSE IF result = "rejected" THEN "rejected" ELSE "accepted",
      action |-> IF result \in {"rejected", "invalid_review"} THEN "blocked" ELSE result,
      needs_escalation |-> waits,
      mentions_review |-> result \in {"review_request", "invalid_review"}]

\* planWriteback for the next target: the row is read here ...
PlanRow(j) ==
  /\ pc[j] = "writeback"
  /\ \E i \in targets[j] :
       LET plan == Plan(KindOf[i], row[i], Envelope(j), Result(outcome[j]), DefaultMode(j))
       IN /\ targets' = [targets EXCEPT ![j] = @ \ {i}]
          /\ planned' = [planned EXCEPT ![j] = IF plan = NULL THEN @
                           ELSE @ \cup {[item |-> i, read |-> row[i].status, plan |-> plan]}]
  /\ UNCHANGED <<session, row, events, pc, jobVars, undone, outcome, accepted, lane, promoted,
                 budget>>

\* ... and a read that fails ends the writeback before any update.
PlanFails(j) ==
  /\ pc[j] = "writeback"
  /\ targets[j] # {}
  /\ targets' = [targets EXCEPT ![j] = {}]
  /\ planned' = [planned EXCEPT ![j] = {}]
  /\ Goto(j, "lane")
  /\ Fault
  /\ UNCHANGED <<session, row, events, jobVars, undone, outcome, accepted, lane, promoted>>

\* When every target is planned the updates run together, each unconditional;
\* one may still be under way after the handler has given up on another.
UpdateRow(j) ==
  /\ targets[j] = {}
  /\ \E u \in planned[j] :
       /\ row' = [row EXCEPT ![u.item] = Written(@, u.plan)]
       /\ planned' = [planned EXCEPT ![j] = @ \ {u}]
  /\ UNCHANGED <<session, events, pc, jobVars, targets, undone, outcome, accepted, lane,
                 promoted, budget>>

\* Promise.all rejects with the first update that fails.
UpdateFails(j) ==
  /\ pc[j] = "writeback"
  /\ targets[j] = {}
  /\ \E u \in planned[j] : planned' = [planned EXCEPT ![j] = @ \ {u}]
  /\ Goto(j, "lane")
  /\ Fault
  /\ UNCHANGED <<session, row, events, jobVars, targets, undone, outcome, accepted, lane,
                 promoted>>

\* Mutant: the exception of a failed writeback is nobody's.
WritebackDrained(j) == pc[j] = "writeback" /\ targets[j] = {} /\ planned[j] = {}

\* The writeback is over when it has failed or nothing is left of it.
WritebackOver(j) ==
  \/ pc[j] = "lane"
  \/ pc[j] = "writeback" /\ targets[j] = {} /\ planned[j] = {}

\* Mutant: a job whose writeback failed is not recorded.
AppendLaneOnSuccess(j) ==
  /\ WritebackOver(j)
  /\ lane' = IF pc[j] = "lane" THEN lane ELSE lane \cup {j}
  /\ Goto(j, "promote")
  /\ UNCHANGED <<session, row, events, jobVars, targets, undone, planned, outcome,
                 accepted, promoted, budget>>

\* appendTurn, with the result of the service and of the writeback.
AppendLane(j) ==
  /\ WritebackOver(j)
  /\ lane' = lane \cup {j}
  /\ Goto(j, "promote")
  /\ UNCHANGED <<session, row, events, jobVars, targets, undone, planned, outcome,
                 accepted, promoted, budget>>

\* recordSignalPromotion; only a boundary has a pending execution to clear.
Promote(j) ==
  /\ pc[j] = "promote"
  /\ promoted' = promoted \cup {j}
  /\ Goto(j, IF j \in Turns THEN "clear" ELSE "done")
  /\ UNCHANGED <<session, row, events, jobVars, targets, undone, planned, outcome,
                 accepted, lane, budget>>

\* Mutant: the pending execution is not cleared.
KeepPending(t) ==
  /\ pc[t] = "clear"
  /\ Goto(t, "done")
  /\ UNCHANGED <<session, row, events, jobVars, targets, undone, planned, outcome, accepted, lane,
                 promoted, budget>>

\* store.set with pending_semantic_execution null, whatever is pending now.
ClearPending(t) ==
  /\ pc[t] = "clear"
  /\ session' = [session EXCEPT ![Home(t)].pending_semantic_execution = NULL]
  /\ Goto(t, "done")
  /\ UNCHANGED <<row, events, jobVars, targets, undone, planned, outcome, accepted, lane,
                 promoted, budget>>

\* The registry, the lane, a projection, an escalation or the session store
\* fails outside the bridge: the exception leaves the handler.
Abort(j) ==
  /\ pc[j] \in {"service", "promote", "clear"} \/ WritebackOver(j)
  /\ Goto(j, "failed")
  /\ Fault
  /\ UNCHANGED <<session, row, events, jobVars, targets, undone, planned, outcome,
                 accepted, lane, promoted>>
-----------------------------------------------------------------------------
(* Humans and crashes. *)

HumanStep ==
  humanSteps < MaxHumanSteps /\ humanSteps' = humanSteps + 1 /\ UNCHANGED <<faults, crashes>>

\* /project: the pending semantic execution is not in the patch.
SwitchProject(s) ==
  /\ HumanStep
  /\ \E p \in Projects : session' = [session EXCEPT ![s].current_project_id = p]
  /\ UNCHANGED <<row, events, pc, jobVars, targets, undone, planned, outcome, accepted, lane, promoted>>

\* The session expired, a call of the store could not read its file, or the bound
\* project has left the registry or cannot be rendered (store.invalidate).
ForgetSession(s) ==
  /\ session[s].current_project_id # NULL
  /\ session' = [session EXCEPT ![s] = [current_project_id |-> NULL,
                                        pending_semantic_execution |-> NULL]]
  /\ Fault
  /\ UNCHANGED <<row, events, pc, jobVars, targets, undone, planned, outcome, accepted, lane, promoted>>

\* A human moves a card.
EditRow(i) ==
  /\ HumanStep
  /\ \E status \in Statuses(KindOf[i]) \ {row[i].status} : row' = [row EXCEPT ![i].status = status]
  /\ UNCHANGED <<session, events, pc, jobVars, targets, undone, planned, outcome, accepted, lane, promoted>>

Running(j) == pc[j] \notin {"idle", "done", "failed", "ignored", "lost"}

\* The process dies: its handlers go, and with them the updates and, if the
\* runtime keeps them in memory, the events.
Crash ==
  /\ crashes < MaxCrashes
  /\ crashes' = crashes + 1
  /\ pc' = [j \in Jobs |-> IF Running(j) THEN "lost" ELSE pc[j]]
  /\ planned' = [j \in Jobs |-> {}]
  /\ \/ UNCHANGED events
     \/ events' = {}
  /\ UNCHANGED <<session, row, jobVars, targets, undone, outcome, accepted, lane, promoted,
                 faults, humanSteps>>
-----------------------------------------------------------------------------
MessageStep(m) ==
  \/ Enqueue(m) \/ EnqueueUnstored(m) \/ EnqueueRefused(m)
  \/ StorePendingFails(m) \/ Wake(m) \/ WakeFails(m)

TurnStep(t) ==
  Capture(t) \/ Ignore(t) \/ RejectOutput(t) \/ ClearPending(t)

JobStep(j) ==
  \/ LoadContextsFails(j) \/ Passthrough(j)
  \/ SkipOperation(j) \/ ApplyOperation(j) \/ VerifyOperation(j) \/ OperationThrows(j)
  \/ PlanRow(j) \/ PlanFails(j) \/ UpdateRow(j) \/ UpdateFails(j)
  \/ AppendLane(j) \/ Promote(j) \/ Abort(j)

Next ==
  \/ \E m \in Messages : Receive(m) \/ MessageStep(m)
  \/ \E t \in Turns : StartTurn(t) \/ TurnStep(t)
  \/ \E j \in Jobs : JobStep(j)
  \/ \E s \in Sessions : SwitchProject(s) \/ ForgetSession(s)
  \/ \E i \in Items : EditRow(i)
  \/ Crash

\* The event loop resumes every handler whose await has an answer.  Nothing
\* obliges a human, an agent or an ingress channel to act.
Fairness ==
  /\ \A m \in Messages : WF_vars(MessageStep(m))
  /\ \A t \in Turns : WF_vars(TurnStep(t))
  /\ \A j \in Jobs : WF_vars(JobStep(j))

Spec == Init /\ [][Next]_vars
FairSpec == Spec /\ Fairness
-----------------------------------------------------------------------------
(* Properties. *)

Labels == {"idle", "service", "effects", "verify", "store", "wake", "output", "writeback", "lane",
           "promote", "clear", "done", "failed", "ignored", "lost"}
Outcomes == MessageActions \cup {"rejected", "invalid_review"}
OperationType == [source : {"feishu_base", "elsewhere"}, item : Items,
                  status : RowStatuses, expect : RowStatuses]
Steps == {"REPORT", "COMPLETE", "REPLAN", "REVIEW_WAIT", "EXECUTE"}
StepResults == {"failed", "accepted", "rejected", "need_review", "blocked", "in_progress"}
Phases == {"error", "resolution_boundary", "review_boundary", "completion_boundary",
           "in_progress"}

SessionType == [current_project_id : Projects \cup {NULL},
                pending_semantic_execution : Messages \cup {NULL}]
RowType == [status : RowStatuses, current_step : Steps \cup {NULL},
            step_result : StepResults \cup {NULL}, started : BOOLEAN,
            fix_result : FixResults \cup {NULL}, acceptance_mode : AcceptanceModes]
PlanType == [status : RowStatuses \cup {NULL}, current_step : Steps,
             step_result : StepResults, started : BOOLEAN,
             fix_result : FixResults \cup {NULL}, phase : Phases]
UpdateType == [item : Items, read : RowStatuses, plan : PlanType]

TypeOK ==
  /\ session \in [Sessions -> SessionType]
  /\ row \in [Items -> RowType]
  /\ events \subseteq Messages
  /\ pc \in [Jobs -> Labels]
  /\ about \in [Jobs -> Items \cup Messages \cup {NULL}]
  /\ project \in [Messages -> Projects \cup {NULL}]
  /\ action \in [Jobs -> MessageActions \cup {NULL}]
  /\ decision \in [Jobs -> Decisions \cup {NULL}]
  /\ named \in [Jobs -> Namings \cup {NULL}]
  /\ form \in [Jobs -> Forms \cup {NULL}]
  /\ captured \in [Jobs -> Messages \cup {NULL}]
  /\ targets \in [Jobs -> SUBSET Items]
  /\ undone \in [Jobs -> Seq(OperationType)]
  /\ planned \in [Jobs -> SUBSET UpdateType]
  /\ outcome \in [Jobs -> Outcomes \cup {NULL}]
  /\ accepted \subseteq Messages
  /\ lane \subseteq Jobs
  /\ promoted \subseteq Jobs
  /\ faults \in Nat /\ humanSteps \in Nat /\ crashes \in Nat

\* What a session holds as pending was accepted by the runtime for that very
\* session, and no dispatch the runtime refused is pending: an agent answers for work
\* that was handed to it, although the row of this work shows an error when the
\* session could not be woken (feishu-task-bug-semantic-executor.ts 407-483).
PendingIsQueuedWork ==
  \A s \in Sessions :
    Pending(s) # NULL =>
      /\ Pending(s) \in accepted
      /\ Target(Pending(s)) = s
      /\ outcome[Pending(s)] \in {NULL, "dispatch", "rejected"}

\* When a turn has run to its end, the execution it was matched with is not
\* pending anywhere and never will be again, so no later turn writes the same
\* boundary twice (index.ts 993-998, 1148-1155).
ClosedForGood ==
  \A t \in Turns, s \in Sessions :
    pc[t] = "done" => Pending(s) # captured[t]

\* The writeback of a boundary changes the records it names, whatever project they
\* are of, and beside them only the row of the execution it was matched with: one of
\* the project the boundary names, if it names one, and of a kind of which it names
\* no record.  So it is also when the pending execution changed under the agent
\* (mergePendingSemanticBoundaryEnvelope, resolveTargets).
WritesOwnOrMatchedRows ==
  \A t \in Turns : \A u \in planned[t] :
    \/ u.item \in named[t].records
    \/ /\ u.item = about[captured[t]]
       /\ named[t].project \in {NULL, Project(captured[t])}
       /\ \A i \in named[t].records : KindOf[i] # KindOf[u.item]

\* A pending execution disappears only together with the binding, or when a
\* boundary of that session is in the lane and promoted: an exception, a
\* refused boundary or a crash in between leaves it in place
\* (handleSemanticBoundaryLlmOutput).
PendingEndsRecorded ==
  [][\A s \in Sessions :
       Pending(s) # NULL /\ Pending(s)' = NULL =>
         \/ session'[s].current_project_id = NULL
         \/ \E t \in lane \cap promoted : t \in Turns /\ Home(t) = s /\ captured[t] # NULL]_vars

Terminal(i) == row[i].status \in TerminalStatuses(KindOf[i])

\* A row goes back, from a terminal status or from Reviewing to work, only by
\* a human, by a review resolution, by an operation an agent asked for, or by an
\* update whose plan read another status than the one it overwrites
\* (shouldNoopForStatus, applyWriteback).
Regresses(i) ==
  \/ Terminal(i) /\ row'[i].status # row[i].status
  \/ row[i].status = "Reviewing" /\ row'[i].status = InProgressStatus(KindOf[i])

\* A completion that carries all it has to writes the row itself.
Operated(i) ==
  \E j \in Jobs :
    /\ pc[j] = "effects" /\ pc'[j] = "verify"
    /\ action[j] = "complete" /\ Proven(form[j])
    /\ Head(undone[j]).item = i /\ Head(undone[j]).status = row'[i].status

RegressionOnlyFromStalePlan ==
  [][\A i \in Items : Regresses(i) =>
       \/ humanSteps' # humanSteps
       \/ Operated(i)
       \/ \E j \in Jobs : \E u \in planned[j] \ planned'[j] :
            u.item = i /\ (u.read # row[i].status \/ outcome[j] = "review_resolution")]_vars

\* A row reaches its final status only by a human, by a review that accepts it,
\* by an operation, or by a completion whose operations are all there; a
\* completion of either kind carries concrete evidence, and one that is planned
\* needs a row that says agent_can_finalize, or one that says nothing in a project
\* whose router configuration says so (validateBoundaryResult, the executor,
\* applySideEffectsIfNeeded, resolveTaskBugPolicy).
Finished(i) == row[i].status = FinalStatus(KindOf[i])

ClosedWithEvidence ==
  [][\A i \in Items : ~Finished(i) /\ Finished(i)' =>
       \/ humanSteps' # humanSteps
       \/ Operated(i)
       \/ \E j \in Jobs : \E u \in planned[j] \ planned'[j] :
            /\ u.item = i
            /\ \/ outcome[j] = "review_resolution" /\ decision[j] = "accepted"
               \/ /\ outcome[j] = "complete" /\ undone[j] = <<>>
                  /\ Proven(form[j])
                  /\ AcceptanceMode(row[i].acceptance_mode, DefaultMode(j)) = "agent_can_finalize"
                  /\ KindOf[i] = "bug" => FixResult(j) # NULL]_vars

\* Every handler comes to an end, also when calls it makes fail.
EveryJobEnds == \A j \in Jobs : Running(j) ~> ~Running(j)

\* A dispatch the runtime accepted is recorded in the lane of its project,
\* unless the lane cannot be written or the process dies.
AcceptedWorkIsRecorded ==
  \A m \in Messages : m \in accepted ~> m \in lane \/ pc[m] \in {"failed", "lost"}

\* The handlers implement PendingWork: a dispatch is handed out, and with it stored in
\* the slot of its session, when the runtime accepts its event, and an answer is on
\* record when its boundary is in the lane and promoted.
Work == INSTANCE PendingWork WITH
  Works    <- Messages,
  Answers  <- Turns,
  slot     <- [s \in Sessions |-> Pending(s)],
  target   <- [m \in Messages |-> IF m \in accepted THEN Target(m) ELSE NULL],
  stage    <- [m \in Messages |->
                 IF m \notin accepted THEN "new"
                 ELSE IF \E s \in Sessions : Pending(s) = m THEN "pending" ELSE "gone"],
  match    <- [t \in Turns |-> captured[t]],
  recorded <- lane \cap promoted \cap Turns,
  over     <- [t \in Turns |->
                 IF captured[t] = NULL THEN "open"
                 ELSE IF pc[t] = "done" THEN "closed"
                 ELSE IF pc[t] \in {"failed", "lost"} THEN "lost" ELSE "open"]

ImplementsPendingWork == Work!Spec

(* Properties the documentation states. *)

\* "route decision and automation ingress must not silently modify the binding": a
\* session that is bound to a project comes to another only by a human.
BindingChangesOnlyByHuman ==
  [][\A s \in Sessions :
       LET old == session[s].current_project_id
           new == session'[s].current_project_id
       IN old # NULL /\ new \notin {NULL, old} => humanSteps' # humanSteps]_vars
=============================================================================
