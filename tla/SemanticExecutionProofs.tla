---------------------- MODULE SemanticExecutionProofs ----------------------
(* Proofs about SemanticExecution, for any sets of sessions, projects, rows, *)
(* messages and turns, and any bounds.                                       *)
EXTENDS SemanticExecution, TLAPS

-----------------------------------------------------------------------------
(* What the operators of TaskBugRow return. *)

\* The envelopes the handlers build.
EnvelopeType == [action : MessageActions \cup {NULL}, decision : Decisions \cup {NULL},
                 workflow : {NULL}, fix_result : FixResults \cup {NULL}]

PatchType == [phase : Phases, status : RowStatuses \cup {NULL}, current_step : Steps,
              step_result : StepResults, fix_result : FixResults \cup {NULL},
              set_started_at : BOOLEAN]

\* The statuses of a row, by name.
LEMMA StatusNames ==
  RowStatuses = {"Todo", "Doing", "Fixing", "Reviewing", "Done", "Fixed", "Archived"}
BY DEF RowStatuses, Statuses, Kinds, InProgressStatus, TerminalStatuses, FinalStatus

\* A patch built from the right parts has the right type.
LEMMA PatchParts ==
  ASSUME NEW phase \in Phases, NEW status \in RowStatuses \cup {NULL},
         NEW step \in Steps, NEW stepResult \in StepResults
  PROVE  Patch(phase, status, step, stepResult) \in PatchType
BY DEF Patch, PatchType

\* deriveWritebackPatch always returns a patch of the right type.
LEMMA PatchTyped ==
  ASSUME NEW kind \in Kinds, NEW e \in EnvelopeType, NEW result, NEW mode
  PROVE  WritebackPatch(kind, e, result, mode) \in PatchType
<1> USE StatusNames DEF Phases, Steps, StepResults
<1>1. ErrorPatch \in PatchType
  BY PatchParts DEF ErrorPatch
<1>2. ResolutionPatch(kind, e.decision) \in PatchType
  <2>1. Patch("resolution_boundary", FinalStatus(kind), "COMPLETE", "accepted") \in PatchType
    BY PatchParts DEF FinalStatus
  <2>2. Patch("resolution_boundary", "Todo", "REPLAN", "rejected") \in PatchType
    BY PatchParts
  <2>3. QED
    BY <1>1, <2>1, <2>2 DEF ResolutionPatch
<1>3. \A x \in {"need_review", "blocked"} :
        Patch("review_boundary", "Reviewing", "REVIEW_WAIT", x) \in PatchType
  BY PatchParts
<1>4. CompletionPatch(kind, e.fix_result, mode) \in PatchType
  <2> DEFINE final == Patch("completion_boundary", FinalStatus(kind), "COMPLETE", "accepted")
             review == Patch("completion_boundary", "Reviewing", "REVIEW_WAIT", "need_review")
             fix == IF kind = "bug" THEN e.fix_result ELSE NULL
  <2>1. final \in PatchType /\ review \in PatchType
    BY PatchParts DEF FinalStatus
  <2>2. fix \in FixResults \cup {NULL}
    BY DEF EnvelopeType
  <2> HIDE DEF final, review, fix
  <2>3. \A p \in PatchType : [p EXCEPT !.fix_result = fix] \in PatchType
    BY <2>2 DEF PatchType
  <2>4. QED
    BY <1>1, <2>1, <2>3 DEF CompletionPatch, final, review, fix
<1>5. [Patch("in_progress", InProgressStatus(kind), "EXECUTE", "in_progress")
         EXCEPT !.set_started_at = TRUE] \in PatchType
  <2>1. Patch("in_progress", InProgressStatus(kind), "EXECUTE", "in_progress") \in PatchType
    BY PatchParts DEF InProgressStatus
  <2>2. \A p \in PatchType : [p EXCEPT !.set_started_at = TRUE] \in PatchType
    BY DEF PatchType
  <2>3. QED
    BY <2>1, <2>2
<1>6. QED
  BY <1>1, <1>2, <1>3, <1>4, <1>5 DEF WritebackPatch

\* planWriteback returns nothing or an update of the right type.
LEMMA PlanTyped ==
  ASSUME NEW kind \in Kinds, NEW r \in RowType, NEW e \in EnvelopeType, NEW result,
         NEW default
  PROVE  LET p == Plan(kind, r, e, result, default) IN p = NULL \/ p \in PlanType
<1> DEFINE patch == WritebackPatch(kind, e, result, AcceptanceMode(r.acceptance_mode, default))
<1>1. patch \in PatchType
  BY PatchTyped
<1> HIDE DEF patch
<1>2. QED
  BY <1>1 DEF Plan, PlanType, RowType, PatchType, patch

\* applyWriteback leaves a row a row.
LEMMA WrittenTyped ==
  ASSUME NEW r \in RowType, NEW p \in PlanType
  PROVE  Written(r, p) \in RowType
BY DEF Written, RowType, PlanType

-----------------------------------------------------------------------------
(* Types. *)

\* The envelope of a job that has a row is an envelope.
LEMMA EnvelopeTyped ==
  ASSUME TypeOK, NEW j \in Jobs
  PROVE  Envelope(j) \in EnvelopeType
BY DEF TypeOK, Envelope, EnvelopeType, FixResult, FixResults

\* Whatever has begun, was accepted or is pending leads to a row and a project.  TypeOK
\* is not inductive without it: Enqueue stores the project of the message.
Linked ==
  /\ \A m \in Messages : pc[m] # "idle" => about[m] \in Items /\ project[m] \in Projects
  /\ \A t \in Turns : pc[t] # "idle" =>
       about[t] \in Messages /\ pc[about[t]] # "idle" /\ named[t] \in Namings
  /\ \A m \in accepted : pc[m] # "idle"
  /\ events \subseteq accepted
  /\ \A s \in Sessions : Pending(s) # NULL => pc[Pending(s)] # "idle"
  /\ \A j \in Jobs : pc[j] # "idle" /\ HandsOver(action[j]) => form[j] \in Forms

\* A job carries out operations only for a completion that was accepted.
Operating ==
  \A j \in Jobs : pc[j] \in {"effects", "verify"} =>
    /\ undone[j] # <<>>
    /\ action[j] = "complete" /\ Proven(form[j])
    /\ outcome[j] \in {"complete", "blocked"}

\* The operations of a form that is not malformed are operations.
LEMMA OperationsTyped ==
  ASSUME NEW f \in Forms, ~Malformed(f)
  PROVE  Operations(f) \in Seq(OperationType)
<1>1. f.operations \in Seq(RawOperations)
  BY FormsAssumption
<1>2. \A raw \in RawOperations : Whole(raw) => Normalized(raw) \in OperationType
  BY NullAssumption DEF RawOperations, Whole, Concrete, Normalized, OperationType
<1>3. \A k \in DOMAIN f.operations : Normalized(f.operations[k]) \in OperationType
  BY <1>1, <1>2 DEF Malformed
<1>4. QED
  BY <1>1, <1>3 DEF Operations

\* What the executor may answer, and when it answers with a completion.
LEMMA JudgementTyped ==
  ASSUME TypeOK, Linked, NEW j \in Jobs, pc[j] # "idle", action[j] \in MessageActions \ {"dispatch"}
  PROVE  /\ Judgement(j) \in Outcomes
         /\ Judgement(j) = "complete" =>
              action[j] = "complete" /\ form[j] \in Forms /\ Proven(form[j])
BY DEF Judgement, Acceptable, Linked, HandsOver, Outcomes, MessageActions

\* The steps of the bridge for what is not a dispatch.
Bridging == {"service", "effects", "verify"}

BridgeStep(j) ==
  LoadContextsFails(j) \/ Passthrough(j) \/ SkipOperation(j) \/ ApplyOperation(j)
    \/ VerifyOperation(j) \/ OperationThrows(j)

\* What such a step moves, and what it leaves alone.
LEMMA BridgeMoves ==
  ASSUME TypeOK, NEW j \in Jobs, BridgeStep(j)
  PROVE  /\ pc[j] \in Bridging
         /\ \E label \in {"effects", "verify", "writeback"} : pc' = [pc EXCEPT ![j] = label]
         /\ \A x \in Jobs : x # j => outcome'[x] = outcome[x] /\ undone'[x] = undone[x]
         /\ UNCHANGED <<session, events, jobVars, targets, planned, accepted, lane, promoted,
                       humanSteps>>
<1>1. /\ pc[j] \in Bridging
      /\ \E label \in {"effects", "verify", "writeback"} : pc' = [pc EXCEPT ![j] = label]
  BY DEF BridgeStep, LoadContextsFails, Passthrough, SkipOperation, ApplyOperation,
         VerifyOperation, OperationThrows, Answer, Proceed, Goto, Bridging
<1>2. UNCHANGED <<session, events, jobVars, targets, planned, accepted, lane, promoted,
                  humanSteps>>
  BY DEF BridgeStep, LoadContextsFails, Passthrough, SkipOperation, ApplyOperation,
         VerifyOperation, OperationThrows, Fault, budget
<1>3. \A x \in Jobs : x # j => outcome'[x] = outcome[x] /\ undone'[x] = undone[x]
  BY DEF BridgeStep, LoadContextsFails, Passthrough, SkipOperation, ApplyOperation,
         VerifyOperation, OperationThrows, Answer, Proceed, TypeOK
<1>4. QED
  BY <1>1, <1>2, <1>3

\* The target of a message that has begun is a session.
LEMMA TargetTyped ==
  ASSUME Linked, NEW m \in Messages, pc[m] # "idle"
  PROVE  Project(m) \in Projects /\ Target(m) \in Sessions
BY ItemsAssumption DEF Linked, Project, Target

\* The session of a turn that has begun is a session, and what is pending there
\* leads to a row.
LEMMA HomeTyped ==
  ASSUME TypeOK, Linked, NEW t \in Turns, pc[t] # "idle"
  PROVE  /\ about[t] \in Messages /\ about[about[t]] \in Items
         /\ Home(t) \in Sessions
         /\ Pending(Home(t)) # NULL =>
              Pending(Home(t)) \in Messages /\ about[Pending(Home(t))] \in Items
<1>1. about[t] \in Messages /\ about[about[t]] \in Items /\ pc[about[t]] # "idle"
  BY DEF Linked
<1>2. Home(t) \in Sessions
  BY <1>1, TargetTyped DEF Home
<1>3. Pending(Home(t)) \in Messages \cup {NULL}
  BY <1>2 DEF TypeOK, SessionType, Pending
<1>4. QED
  BY <1>1, <1>2, <1>3 DEF Linked

\* The rows of a boundary are rows.
LEMMA MergedRowsTyped ==
  ASSUME TypeOK, Linked, NEW t \in Turns, pc[t] # "idle", Pending(Home(t)) # NULL
  PROVE  MergedRows(t, Pending(Home(t))) \subseteq Items
BY HomeTyped, ItemsAssumption DEF MergedRows, Anchor, Linked

\* Every step keeps every variable typed.
LEMMA TypingStep == TypeOK /\ Linked /\ Operating /\ [Next]_vars => TypeOK'
<1> SUFFICES ASSUME TypeOK, Linked, Operating, [Next]_vars PROVE TypeOK'
  OBVIOUS
<1> USE ItemsAssumption DEF TypeOK, Jobs, Goto, Fault, HumanStep, jobVars, budget
<1>1. ASSUME NEW m \in Messages, Receive(m) PROVE TypeOK'
  BY <1>1 DEF Receive, Labels, Decisions
<1>2. ASSUME NEW m \in Messages, Enqueue(m) PROVE TypeOK'
  <2>1. Project(m) \in Projects
    BY <1>2, TargetTyped DEF Enqueue
  <2>2. [current_project_id |-> Project(m), pending_semantic_execution |-> m] \in SessionType
    BY <2>1 DEF SessionType
  <2>3. session' \in [Sessions -> SessionType]
    BY <1>2, <2>2 DEF Enqueue, Bound
  <2>4. QED
    BY <1>2, <2>3 DEF Enqueue, Labels
<1>3. ASSUME NEW m \in Messages, EnqueueRefused(m) PROVE TypeOK'
  BY <1>3 DEF EnqueueRefused, Answer, Labels, Outcomes, MessageActions
<1>4. ASSUME NEW m \in Messages, EnqueueUnstored(m) PROVE TypeOK'
  BY <1>4 DEF EnqueueUnstored, Labels
<1>5. ASSUME NEW m \in Messages, StorePendingFails(m) \/ Wake(m) \/ WakeFails(m) PROVE TypeOK'
  <2>1. CASE StorePendingFails(m)
    BY <2>1 DEF StorePendingFails, Answer, Labels, Outcomes
  <2>2. CASE Wake(m)
    BY <2>2 DEF Wake, Answer, Labels, Outcomes, MessageActions
  <2>3. CASE WakeFails(m)
    BY <2>3 DEF WakeFails, Answer, Labels, Outcomes
  <2>4. QED
    BY <1>5, <2>1, <2>2, <2>3
<1>6. ASSUME NEW t \in Turns, StartTurn(t) PROVE TypeOK'
  BY <1>6 DEF StartTurn, Labels, MessageActions
<1>7. ASSUME NEW t \in Turns, Capture(t) PROVE TypeOK'
  <2>1. Pending(Home(t)) \in Messages /\ MergedRows(t, Pending(Home(t))) \subseteq Items
    BY <1>7, HomeTyped, MergedRowsTyped DEF Capture
  <2>2. captured' \in [Jobs -> Messages \cup {NULL}] /\ targets' \in [Jobs -> SUBSET Items]
    BY <1>7, <2>1 DEF Capture
  <2>3. pc' \in [Jobs -> Labels]
    BY <1>7 DEF Capture, Labels
  <2>4. QED
    BY <1>7, <2>2, <2>3 DEF Capture
<1>8. ASSUME NEW t \in Turns, Ignore(t) \/ RejectOutput(t) PROVE TypeOK'
  <2>1. CASE Ignore(t)
    BY <2>1 DEF Ignore, Labels
  <2>2. CASE RejectOutput(t)
    BY <2>2 DEF RejectOutput, Labels
  <2>3. QED
    BY <1>8, <2>1, <2>2
<1>9. ASSUME NEW t \in Turns, ClearPending(t) PROVE TypeOK'
  <2>1. \A r \in SessionType : [r EXCEPT !.pending_semantic_execution = NULL] \in SessionType
    BY DEF SessionType
  <2>2. session' \in [Sessions -> SessionType]
    BY <1>9, <2>1 DEF ClearPending
  <2>3. QED
    BY <1>9, <2>2 DEF ClearPending, Labels
<1>10. ASSUME NEW j \in Jobs, BridgeStep(j) PROVE TypeOK'
  <2>1. /\ outcome' \in [Jobs -> Outcomes \cup {NULL}]
        /\ undone' \in [Jobs -> Seq(OperationType)]
        /\ row' \in [Items -> RowType]
    <3>1. CASE LoadContextsFails(j)
      BY <3>1 DEF LoadContextsFails, Answer, Outcomes, MessageActions
    <3>2. CASE Passthrough(j)
      <4>1. Judgement(j) \in Outcomes \cup {NULL}
        BY <3>2 DEF Judgement, Acceptable, Outcomes, MessageActions
      <4>2. Judgement(j) = "complete" => Operations(form[j]) \in Seq(OperationType)
        <5>1. SUFFICES ASSUME Judgement(j) = "complete"
                       PROVE  Operations(form[j]) \in Seq(OperationType)
          OBVIOUS
        <5>2. action[j] = "complete" /\ Proven(form[j])
          BY <5>1 DEF Judgement, Acceptable
        <5>3. form[j] \in Forms
          BY <3>2, <5>2 DEF Passthrough, Linked, HandsOver
        <5>4. QED
          BY <5>2, <5>3, OperationsTyped DEF Proven
      <4>3. (IF Judgement(j) = "complete" THEN Operations(form[j]) ELSE <<>>) \in Seq(OperationType)
        BY <4>2
      <4>4. QED
        BY <3>2, <4>1, <4>3 DEF Passthrough, Proceed
    <3>3. CASE SkipOperation(j) \/ VerifyOperation(j)
      <4>1. undone[j] \in Seq(OperationType) /\ undone[j] # <<>>
        BY <3>3 DEF SkipOperation, VerifyOperation, Operating
      <4>2. Tail(undone[j]) \in Seq(OperationType)
        BY <4>1
      <4>3. row' = row /\ undone' = [undone EXCEPT ![j] = Tail(undone[j])]
        BY <3>3 DEF SkipOperation, VerifyOperation, Proceed
      <4>4. outcome' \in [Jobs -> Outcomes \cup {NULL}]
        BY <3>3 DEF SkipOperation, VerifyOperation, Outcomes, MessageActions
      <4>5. QED
        BY <4>2, <4>3, <4>4
    <3>4. CASE ApplyOperation(j)
      <4>1. undone[j] \in Seq(OperationType) /\ undone[j] # <<>>
        BY <3>4 DEF ApplyOperation, Operating
      <4>2. Head(undone[j]) \in OperationType
        BY <4>1
      <4> DEFINE operation == Head(undone[j])
      <4>3. row' = [row EXCEPT ![operation.item].status = operation.status]
        BY <3>4 DEF ApplyOperation
      <4>4. operation.status \in RowStatuses
        BY <4>2 DEF OperationType
      <4> HIDE DEF operation
      <4>5. \A r \in RowType : [r EXCEPT !.status = operation.status] \in RowType
        BY <4>4 DEF RowType
      <4>6. row' \in [Items -> RowType]
        BY <4>3, <4>5
      <4>7. QED
        BY <3>4, <4>6 DEF ApplyOperation
    <3>5. CASE OperationThrows(j)
      BY <3>5 DEF OperationThrows, Answer, Outcomes
    <3>6. QED
      BY <1>10, <3>1, <3>2, <3>3, <3>4, <3>5 DEF BridgeStep
  <2>2. /\ \E label \in {"effects", "verify", "writeback"} : pc' = [pc EXCEPT ![j] = label]
        /\ UNCHANGED <<session, events, jobVars, targets, planned, accepted, lane, promoted,
                      humanSteps>>
    BY <1>10, BridgeMoves
  <2>3. faults' \in Nat /\ crashes' \in Nat
    BY <1>10 DEF BridgeStep, LoadContextsFails, Passthrough, SkipOperation, ApplyOperation,
                 VerifyOperation, OperationThrows
  <2>4. QED
    BY <2>1, <2>2, <2>3 DEF Labels
<1>11. ASSUME NEW j \in Jobs, PlanRow(j) PROVE TypeOK'
  <2>1. PICK i \in targets[j] :
          LET plan == Plan(KindOf[i], row[i], Envelope(j), Result(outcome[j]), DefaultMode(j))
          IN /\ targets' = [targets EXCEPT ![j] = @ \ {i}]
             /\ planned' = [planned EXCEPT ![j] = IF plan = NULL THEN @
                              ELSE @ \cup {[item |-> i, read |-> row[i].status, plan |-> plan]}]
    BY <1>11 DEF PlanRow
  <2> DEFINE plan == Plan(KindOf[i], row[i], Envelope(j), Result(outcome[j]), DefaultMode(j))
  <2>2. i \in Items /\ KindOf[i] \in Kinds /\ row[i] \in RowType
    OBVIOUS
  <2>3. plan = NULL \/ plan \in PlanType
    BY <2>2, PlanTyped, EnvelopeTyped
  <2> HIDE DEF plan
  <2>4. plan # NULL => [item |-> i, read |-> row[i].status, plan |-> plan] \in UpdateType
    BY <2>2, <2>3 DEF UpdateType, RowType
  <2>5. planned' \in [Jobs -> SUBSET UpdateType] /\ targets' \in [Jobs -> SUBSET Items]
    BY <2>1, <2>4 DEF plan
  <2>6. QED
    BY <1>11, <2>5 DEF PlanRow
<1>12. ASSUME NEW j \in Jobs, UpdateRow(j) PROVE TypeOK'
  <2>1. PICK u \in planned[j] :
          /\ row' = [row EXCEPT ![u.item] = Written(@, u.plan)]
          /\ planned' = [planned EXCEPT ![j] = @ \ {u}]
    BY <1>12 DEF UpdateRow
  <2>2. u.item \in Items /\ Written(row[u.item], u.plan) \in RowType
    BY WrittenTyped DEF UpdateType
  <2>3. row' \in [Items -> RowType] /\ planned' \in [Jobs -> SUBSET UpdateType]
    BY <2>1, <2>2
  <2>4. QED
    BY <1>12, <2>3 DEF UpdateRow
<1>13. ASSUME NEW j \in Jobs, PlanFails(j) \/ UpdateFails(j) PROVE TypeOK'
  <2>1. CASE PlanFails(j)
    BY <2>1 DEF PlanFails, Labels
  <2>2. CASE UpdateFails(j)
    <3>1. planned' \in [Jobs -> SUBSET UpdateType]
      BY <2>2 DEF UpdateFails
    <3>2. QED
      BY <2>2, <3>1 DEF UpdateFails, Labels
  <2>3. QED
    BY <1>13, <2>1, <2>2
<1>14. ASSUME NEW j \in Jobs, AppendLane(j) \/ Promote(j) \/ Abort(j) PROVE TypeOK'
  <2>1. CASE AppendLane(j)
    BY <2>1 DEF AppendLane, Labels
  <2>2. CASE Promote(j)
    BY <2>2 DEF Promote, Labels
  <2>3. CASE Abort(j)
    BY <2>3 DEF Abort, Labels
  <2>4. QED
    BY <1>14, <2>1, <2>2, <2>3
<1>15. ASSUME NEW s \in Sessions, SwitchProject(s) \/ ForgetSession(s) PROVE TypeOK'
  <2>1. /\ \A r \in SessionType, p \in Projects : [r EXCEPT !.current_project_id = p] \in SessionType
        /\ [current_project_id |-> NULL, pending_semantic_execution |-> NULL] \in SessionType
    BY DEF SessionType
  <2>2. session' \in [Sessions -> SessionType]
    <3>1. CASE SwitchProject(s)
      BY <2>1, <3>1 DEF SwitchProject
    <3>2. CASE ForgetSession(s)
      BY <2>1, <3>2 DEF ForgetSession
    <3>3. QED
      BY <1>15, <3>1, <3>2
  <2>3. QED
    BY <1>15, <2>2 DEF SwitchProject, ForgetSession
<1>16. ASSUME NEW i \in Items, EditRow(i) PROVE TypeOK'
  <2>1. PICK status \in Statuses(KindOf[i]) : row' = [row EXCEPT ![i].status = status]
    BY <1>16 DEF EditRow
  <2>2. status \in RowStatuses
    BY <2>1 DEF RowStatuses
  <2>3. \A r \in RowType : [r EXCEPT !.status = status] \in RowType
    BY <2>2 DEF RowType
  <2>4. row' \in [Items -> RowType]
    BY <2>1, <2>3
  <2>5. QED
    BY <1>16, <2>4 DEF EditRow
<1>17. ASSUME Crash PROVE TypeOK'
  BY <1>17 DEF Crash, Labels
<1>18. CASE UNCHANGED vars
  BY <1>18 DEF vars
<1>19. QED
  BY <1>1, <1>2, <1>3, <1>4, <1>5, <1>6, <1>7, <1>8, <1>9, <1>10, <1>11, <1>12, <1>13,
     <1>14, <1>15, <1>16, <1>17, <1>18
     DEF Next, MessageStep, TurnStep, JobStep, BridgeStep

\* What a step that starts no job and stores nothing pending has to keep.
Continues ==
  /\ about' = about /\ accepted' = accepted /\ events' \subseteq events
  /\ action' = action /\ form' = form /\ project' = project /\ named' = named
  /\ \A j \in Jobs : pc'[j] = "idle" <=> pc[j] = "idle"
  /\ \A s \in Sessions : Pending(s)' \in {NULL, Pending(s)}

LEMMA ContinuesLinked == TypeOK /\ Linked /\ Continues => Linked'
<1> SUFFICES ASSUME TypeOK, Linked, Continues PROVE Linked'
  OBVIOUS
<1>1. \A s \in Sessions : Pending(s) \in Messages \cup {NULL}
  BY DEF TypeOK, SessionType, Pending
<1>2. \A s \in Sessions : Pending(s)' # NULL => pc'[Pending(s)'] # "idle"
  BY <1>1 DEF Continues, Linked, Jobs
<1>3. accepted \subseteq Messages
  BY DEF TypeOK
<1>4. QED
  BY <1>2, <1>3 DEF Continues, Linked, Jobs

\* Every step keeps what is known linked to a row.
LEMMA LinkedStep == TypeOK /\ Linked /\ [Next]_vars => Linked'
<1> SUFFICES ASSUME TypeOK, Linked, [Next]_vars PROVE Linked'
  OBVIOUS
<1>1. /\ pc \in [Jobs -> Labels]
      /\ about \in [Jobs -> Items \cup Messages \cup {NULL}]
      /\ action \in [Jobs -> MessageActions \cup {NULL}]
      /\ form \in [Jobs -> Forms \cup {NULL}]
      /\ project \in [Messages -> Projects \cup {NULL}]
      /\ named \in [Jobs -> Namings \cup {NULL}]
      /\ session \in [Sessions -> SessionType]
      /\ events \subseteq Messages /\ accepted \subseteq Messages
  BY DEF TypeOK
<1> USE <1>1, JobsAssumption, NullAssumption DEF Jobs, Goto, Pending
<1>2. ASSUME NEW m \in Messages, Receive(m) PROVE Linked'
  BY <1>2 DEF Receive, Linked
<1>3. ASSUME NEW m \in Messages, Enqueue(m) \/ EnqueueUnstored(m) PROVE Linked'
  <2>1. \A s \in Sessions : Pending(s)' \in {m, Pending(s)}
    BY <1>3 DEF Enqueue, EnqueueUnstored, Bound
  <2>2. /\ pc[m] = "service" /\ pc' \in {[pc EXCEPT ![m] = "wake"], [pc EXCEPT ![m] = "store"]}
        /\ events' = events \cup {m} /\ accepted' = accepted \cup {m}
        /\ UNCHANGED <<about, project, action, named, form>>
    BY <1>3 DEF Enqueue, EnqueueUnstored, jobVars
  <2>3. \A j \in Jobs : pc'[j] = "idle" <=> pc[j] = "idle"
    BY <2>2
  <2>4. \A s \in Sessions : Pending(s)' # NULL => pc'[Pending(s)'] # "idle"
    <3>1. \A s \in Sessions : Pending(s) # NULL => Pending(s) \in Jobs /\ pc[Pending(s)] # "idle"
      BY DEF Linked, SessionType
    <3>2. QED
      BY <2>1, <2>2, <2>3, <3>1
  <2> HIDE DEF Pending
  <2>5. QED
    BY <2>2, <2>3, <2>4 DEF Linked
<1>4. ASSUME NEW m \in Messages, EnqueueRefused(m) PROVE Continues
  BY <1>4 DEF EnqueueRefused, Answer, Continues, jobVars
<1>5. ASSUME NEW m \in Messages, StorePendingFails(m) \/ Wake(m) \/ WakeFails(m) PROVE Continues
  BY <1>5 DEF StorePendingFails, Wake, WakeFails, Answer, Continues, jobVars
<1>6. ASSUME NEW t \in Turns, StartTurn(t) PROVE Linked'
  BY <1>6 DEF StartTurn, Linked
<1>7. ASSUME NEW t \in Turns, Capture(t) \/ Ignore(t) \/ RejectOutput(t) PROVE Continues
  BY <1>7 DEF Capture, Ignore, RejectOutput, Continues, jobVars
<1>8. ASSUME NEW t \in Turns, ClearPending(t) PROVE Continues
  <2>1. \A s \in Sessions : Pending(s)' \in {NULL, Pending(s)}
    BY <1>8 DEF ClearPending, SessionType
  <2>2. QED
    BY <1>8, <2>1 DEF ClearPending, Continues, jobVars
<1>9. ASSUME NEW j \in Jobs, BridgeStep(j) PROVE Continues
  BY <1>9, BridgeMoves DEF Bridging, Continues, jobVars
<1>10. ASSUME NEW j \in Jobs, PlanRow(j) \/ UpdateRow(j) PROVE Continues
  BY <1>10 DEF PlanRow, UpdateRow, Continues, jobVars
<1>11. ASSUME NEW j \in Jobs, PlanFails(j) \/ UpdateFails(j) PROVE Continues
  BY <1>11 DEF PlanFails, UpdateFails, Continues, jobVars
<1>12. ASSUME NEW j \in Jobs, AppendLane(j) \/ Promote(j) \/ Abort(j) PROVE Continues
  BY <1>12 DEF AppendLane, Promote, Abort, WritebackOver, Continues, jobVars
<1>13. ASSUME NEW s \in Sessions, SwitchProject(s) \/ ForgetSession(s) PROVE Continues
  <2>1. \A x \in Sessions : Pending(x)' \in {NULL, Pending(x)}
    BY <1>13 DEF SwitchProject, ForgetSession, SessionType
  <2>2. QED
    BY <1>13, <2>1 DEF SwitchProject, ForgetSession, Continues, jobVars
<1>14. ASSUME NEW i \in Items, EditRow(i) PROVE Continues
  BY <1>14 DEF EditRow, Continues, jobVars
<1>15. ASSUME Crash PROVE Continues
  BY <1>15 DEF Crash, Running, Continues, jobVars
<1>16. ASSUME UNCHANGED vars PROVE Continues
  BY <1>16 DEF vars, Continues, jobVars
<1>17. QED
  BY ContinuesLinked, <1>2, <1>3, <1>4, <1>5, <1>6, <1>7, <1>8, <1>9, <1>10, <1>11,
     <1>12, <1>13, <1>14, <1>15, <1>16
     DEF Next, MessageStep, TurnStep, JobStep, BridgeStep

\* What a step of anything but the bridge keeps.
Elsewhere ==
  \A j \in Jobs : pc'[j] \in {"effects", "verify"} =>
    /\ pc[j] \in {"effects", "verify"}
    /\ undone'[j] = undone[j] /\ action'[j] = action[j] /\ form'[j] = form[j]
    /\ outcome'[j] = outcome[j]

LEMMA ElsewhereOperating == Operating /\ Elsewhere => Operating'
BY DEF Operating, Elsewhere, Proven, Concrete, Malformed, ClaimsMutation

LEMMA OperatingStep == TypeOK /\ Linked /\ Operating /\ [Next]_vars => Operating'
<1> SUFFICES ASSUME TypeOK, Linked, Operating, [Next]_vars PROVE Operating'
  OBVIOUS
<1>1. /\ pc \in [Jobs -> Labels]
      /\ action \in [Jobs -> MessageActions \cup {NULL}]
      /\ form \in [Jobs -> Forms \cup {NULL}]
      /\ outcome \in [Jobs -> Outcomes \cup {NULL}]
      /\ undone \in [Jobs -> Seq(OperationType)]
  BY DEF TypeOK
<1> USE <1>1, JobsAssumption DEF Jobs, Goto
<1>2. ASSUME NEW m \in Messages, Receive(m) \/ MessageStep(m) PROVE Elsewhere
  BY <1>2 DEF Receive, MessageStep, Enqueue, EnqueueUnstored, EnqueueRefused,
              StorePendingFails, Wake, WakeFails, Bound, Answer, Elsewhere, jobVars
<1>3. ASSUME NEW t \in Turns, StartTurn(t) \/ TurnStep(t) PROVE Elsewhere
  BY <1>3 DEF StartTurn, TurnStep, Capture, Ignore, RejectOutput, ClearPending, Elsewhere,
              jobVars
<1>4. ASSUME NEW j \in Jobs, BridgeStep(j) PROVE Operating'
  <2>1. /\ \A x \in Jobs : x # j => /\ pc'[x] = pc[x] /\ outcome'[x] = outcome[x]
                                    /\ undone'[x] = undone[x]
        /\ action' = action /\ form' = form
    BY <1>4, BridgeMoves DEF jobVars
  <2>2. ASSUME pc'[j] \in {"effects", "verify"}
        PROVE  /\ undone'[j] # <<>> /\ action[j] = "complete" /\ Proven(form[j])
               /\ outcome'[j] \in {"complete", "blocked"}
    <3>1. CASE LoadContextsFails(j) \/ OperationThrows(j)
      BY <2>2, <3>1 DEF LoadContextsFails, OperationThrows, Answer
    <3>2. CASE Passthrough(j)
      <4>1. Judgement(j) = "complete" /\ undone'[j] # <<>> /\ outcome'[j] = "complete"
        BY <2>2, <3>2 DEF Passthrough, Proceed
      <4>2. QED
        BY <4>1 DEF Judgement, Acceptable
    <3>3. CASE SkipOperation(j) \/ VerifyOperation(j)
      BY <2>2, <3>3 DEF SkipOperation, VerifyOperation, Proceed, Operating
    <3>4. CASE ApplyOperation(j)
      BY <3>4 DEF ApplyOperation, Operating
    <3>5. QED
      BY <1>4, <3>1, <3>2, <3>3, <3>4 DEF BridgeStep
  <2>3. QED
    BY <2>1, <2>2 DEF Operating
<1>5. ASSUME NEW j \in Jobs, PlanRow(j) \/ PlanFails(j) \/ UpdateRow(j) \/ UpdateFails(j)
      PROVE  Elsewhere
  BY <1>5 DEF PlanRow, PlanFails, UpdateRow, UpdateFails, Elsewhere, jobVars
<1>6. ASSUME NEW j \in Jobs, AppendLane(j) \/ Promote(j) \/ Abort(j) PROVE Elsewhere
  BY <1>6 DEF AppendLane, Promote, Abort, Elsewhere, jobVars
<1>7. ASSUME NEW s \in Sessions, SwitchProject(s) \/ ForgetSession(s) PROVE Elsewhere
  BY <1>7 DEF SwitchProject, ForgetSession, Elsewhere, jobVars
<1>8. ASSUME NEW i \in Items, EditRow(i) PROVE Elsewhere
  BY <1>8 DEF EditRow, Elsewhere, jobVars
<1>9. ASSUME Crash PROVE Elsewhere
  BY <1>9 DEF Crash, Running, Elsewhere, jobVars
<1>10. ASSUME UNCHANGED vars PROVE Elsewhere
  BY <1>10 DEF vars, Elsewhere, jobVars
<1>11. QED
  BY ElsewhereOperating, <1>2, <1>3, <1>4, <1>5, <1>6, <1>7, <1>8, <1>9, <1>10
     DEF Next, JobStep, BridgeStep

\* Every variable keeps its type (the values index.ts and the executor store).
THEOREM Typing == Spec => [](TypeOK /\ Linked /\ Operating)
<1>1. Init => TypeOK /\ Linked /\ Operating
  BY StatusNames, NullAssumption, ItemsAssumption
     DEF Init, TypeOK, Linked, Operating, Pending, Jobs, SessionType, RowType, Labels
<1>2. TypeOK /\ Linked /\ Operating /\ [Next]_vars => (TypeOK /\ Linked /\ Operating)'
  BY TypingStep, LinkedStep, OperatingStep
<1>3. QED
  BY <1>1, <1>2, PTL DEF Spec
-----------------------------------------------------------------------------
(* What is pending was accepted, for that session. *)

Early == {"idle", "store"} \cup Bridging

\* PendingIsQueuedWork and what makes it inductive: a message that is accepted has left
\* the calls that can still report it as blocked, has no result until its session is
\* woken, and is never pending when the store has rejected it.
Queued ==
  /\ \A m \in accepted : pc[m] \notin {"idle"} \cup Bridging
  /\ \A m \in Messages : pc[m] \in {"store", "wake"} => m \in accepted
  /\ \A m \in Messages : pc[m] \in {"idle", "service"} => outcome[m] = NULL
  /\ \A s \in Sessions : Pending(s) # NULL => pc[Pending(s)] \notin Early
  /\ PendingIsQueuedWork

\* What a step that neither receives nor enqueues keeps.
Onward ==
  /\ accepted' = accepted
  /\ \A m \in Messages : \/ pc'[m] = pc[m] /\ outcome'[m] = outcome[m]
                         \/ pc'[m] \notin Early \cup {"wake"}
                         \/ pc[m] \in Bridging /\ pc'[m] \in {"effects", "verify"}
  /\ \A m \in Messages : pc[m] \notin Early =>
       /\ project'[m] = project[m]
       /\ outcome'[m] \in {outcome[m], "dispatch", "rejected"}
  /\ \A s \in Sessions : Pending(s)' \in {NULL, Pending(s)}

LEMMA OnwardQueued == TypeOK /\ Queued /\ Onward => Queued'
<1> SUFFICES ASSUME TypeOK, Queued, Onward PROVE Queued'
  OBVIOUS
<1>1. /\ accepted \subseteq Messages
      /\ \A s \in Sessions : Pending(s) \in Messages \cup {NULL}
  BY DEF TypeOK, SessionType, Pending
<1>2. \A m \in accepted' : pc'[m] \notin {"idle"} \cup Bridging
  BY <1>1 DEF Onward, Queued, Early, Bridging
<1>3. \A m \in Messages : pc'[m] \in {"store", "wake"} => m \in accepted'
  BY DEF Onward, Queued, Early, Bridging
<1>4. \A m \in Messages : pc'[m] \in {"idle", "service"} => outcome'[m] = NULL
  BY DEF Onward, Queued, Early, Bridging
<1>5. ASSUME NEW s \in Sessions, Pending(s)' # NULL
      PROVE  /\ pc'[Pending(s)'] \notin Early
             /\ Pending(s)' \in accepted'
             /\ Target(Pending(s))' = s
             /\ outcome'[Pending(s)'] \in {NULL, "dispatch", "rejected"}
  <2>1. Pending(s)' = Pending(s) /\ Pending(s) \in Messages /\ pc[Pending(s)] \notin Early
    BY <1>1, <1>5 DEF Onward, Queued
  <2>2. /\ outcome'[Pending(s)] \in {NULL, "dispatch", "rejected"}
        /\ Target(Pending(s))' = s
    BY <1>5, <2>1 DEF Onward, Queued, PendingIsQueuedWork, Target, Project
  <2>3. pc'[Pending(s)] \notin Early
    BY <2>1 DEF Onward, Early, Bridging
  <2>4. QED
    BY <1>5, <2>1, <2>2, <2>3 DEF Onward, Queued, PendingIsQueuedWork
<1>6. QED
  BY <1>2, <1>3, <1>4, <1>5 DEF Queued, PendingIsQueuedWork

LEMMA QueuedStep == TypeOK /\ Linked /\ Queued /\ [Next]_vars => Queued'
<1> SUFFICES ASSUME TypeOK, Linked, Queued, [Next]_vars PROVE Queued'
  OBVIOUS
<1>1. /\ pc \in [Jobs -> Labels]
      /\ project \in [Messages -> Projects \cup {NULL}]
      /\ outcome \in [Jobs -> Outcomes \cup {NULL}]
      /\ session \in [Sessions -> SessionType]
      /\ accepted \subseteq Messages
      /\ \A s \in Sessions : Pending(s) \in Messages \cup {NULL}
  BY DEF TypeOK, SessionType, Pending
<1> USE <1>1, JobsAssumption, NullAssumption DEF Jobs, Goto, Bridging
<1>2. ASSUME NEW m \in Messages, Receive(m) PROVE Queued'
  <2>1. \A s \in Sessions : Pending(s)' = Pending(s) /\ Pending(s) # m
    BY <1>2 DEF Receive, Pending, Queued, Early
  <2>2. \A x \in Messages : x # m => project'[x] = project[x] /\ pc'[x] = pc[x]
    BY <1>2 DEF Receive
  <2>3. /\ outcome' = outcome /\ accepted' = accepted /\ pc'[m] = "service" /\ m \notin accepted
        /\ outcome[m] = NULL
    BY <1>2 DEF Receive, Queued
  <2>4. PendingIsQueuedWork'
    BY <2>1, <2>2, <2>3 DEF Queued, PendingIsQueuedWork, Target, Project
  <2>5. QED
    BY <2>1, <2>2, <2>3, <2>4 DEF Queued, Early
<1>3. ASSUME NEW m \in Messages, EnqueueUnstored(m) PROVE Queued'
  <2>1. \A s \in Sessions : Pending(s)' = Pending(s) /\ Pending(s) # m
    BY <1>3 DEF EnqueueUnstored, Pending, Queued, Early
  <2>2. \A x \in Messages : x # m => pc'[x] = pc[x]
    BY <1>3 DEF EnqueueUnstored
  <2>3. /\ outcome' = outcome /\ project' = project /\ accepted' = accepted \cup {m}
        /\ pc'[m] = "store"
    BY <1>3 DEF EnqueueUnstored, jobVars
  <2>4. PendingIsQueuedWork'
    BY <2>1, <2>3 DEF Queued, PendingIsQueuedWork, Target, Project
  <2>5. QED
    BY <2>1, <2>2, <2>3, <2>4 DEF Queued, Early
<1>4. ASSUME NEW m \in Messages, Enqueue(m) PROVE Queued'
  <2>1. outcome[m] = NULL /\ Target(m) \in Sessions
    BY <1>4, TargetTyped DEF Enqueue, Queued
  <2>2. \A s \in Sessions : Pending(s)' = IF s = Target(m) THEN m ELSE Pending(s)
    BY <1>4, <2>1 DEF Enqueue, Bound, Pending
  <2>3. /\ \A x \in Messages : x # m => pc'[x] = pc[x]
        /\ pc'[m] = "wake" /\ outcome' = outcome
        /\ project' = project /\ accepted' = accepted \cup {m}
    BY <1>4 DEF Enqueue, jobVars
  <2>4. PendingIsQueuedWork'
    BY <2>1, <2>2, <2>3 DEF Queued, PendingIsQueuedWork, Target, Project
  <2>5. QED
    BY <2>1, <2>2, <2>3, <2>4 DEF Queued, Early
<1>5. ASSUME NEW m \in Messages,
             EnqueueRefused(m) \/ StorePendingFails(m) \/ Wake(m) \/ WakeFails(m)
      PROVE  Onward
  <2>1. /\ pc[m] \in {"service", "store", "wake"} /\ pc' = [pc EXCEPT ![m] = "writeback"]
        /\ \E result : /\ outcome' = [outcome EXCEPT ![m] = result]
                       /\ pc[m] = "wake" => result \in {"dispatch", "rejected"}
        /\ UNCHANGED <<session, project, accepted>>
    BY <1>5 DEF EnqueueRefused, StorePendingFails, Wake, WakeFails, Answer, jobVars
  <2>2. QED
    BY <2>1 DEF Onward, Early, Pending
<1>6. ASSUME NEW t \in Turns, StartTurn(t) PROVE Onward
  BY <1>6 DEF StartTurn, Onward, Early, Pending
<1>7. ASSUME NEW t \in Turns, Capture(t) \/ Ignore(t) \/ RejectOutput(t) PROVE Onward
  BY <1>7 DEF Capture, Ignore, RejectOutput, Onward, Early, Pending, jobVars
<1>8. ASSUME NEW t \in Turns, ClearPending(t) PROVE Onward
  <2>1. \A s \in Sessions : Pending(s)' \in {NULL, Pending(s)}
    BY <1>8 DEF ClearPending, SessionType, Pending
  <2>2. QED
    BY <1>8, <2>1 DEF ClearPending, Onward, Early, jobVars
<1>9. ASSUME NEW j \in Jobs, BridgeStep(j) PROVE Onward
  BY <1>9, BridgeMoves DEF Onward, Early, Pending, jobVars
<1>10. ASSUME NEW j \in Jobs, PlanRow(j) \/ UpdateRow(j) PROVE Onward
  BY <1>10 DEF PlanRow, UpdateRow, Onward, Pending, jobVars
<1>11. ASSUME NEW j \in Jobs, PlanFails(j) \/ UpdateFails(j) PROVE Onward
  BY <1>11 DEF PlanFails, UpdateFails, Onward, Early, Pending, jobVars
<1>12. ASSUME NEW j \in Jobs, AppendLane(j) \/ Promote(j) \/ Abort(j) PROVE Onward
  BY <1>12 DEF AppendLane, Promote, Abort, Onward, Early, Pending, jobVars
<1>13. ASSUME NEW s \in Sessions, SwitchProject(s) \/ ForgetSession(s) PROVE Onward
  <2>1. \A x \in Sessions : Pending(x)' \in {NULL, Pending(x)}
    BY <1>13 DEF SwitchProject, ForgetSession, SessionType, Pending
  <2>2. QED
    BY <1>13, <2>1 DEF SwitchProject, ForgetSession, Onward, jobVars
<1>14. ASSUME NEW i \in Items, EditRow(i) PROVE Onward
  BY <1>14 DEF EditRow, Onward, Pending, jobVars
<1>15. ASSUME Crash PROVE Onward
  BY <1>15 DEF Crash, Running, Onward, Early, Pending, jobVars
<1>16. ASSUME UNCHANGED vars PROVE Onward
  BY <1>16 DEF vars, Onward, Pending, jobVars
<1>17. QED
  BY OnwardQueued, <1>2, <1>3, <1>4, <1>5, <1>6, <1>7, <1>8, <1>9, <1>10, <1>11,
     <1>12, <1>13, <1>14, <1>15, <1>16
     DEF Next, MessageStep, TurnStep, JobStep, BridgeStep

LEMMA QueuedAlways == Spec => []Queued
<1>1. Init => Queued
  BY NullAssumption DEF Init, Queued, PendingIsQueuedWork, Pending, Jobs
<1>2. TypeOK /\ Linked /\ Queued /\ [Next]_vars => Queued'
  BY QueuedStep
<1>3. QED
  BY <1>1, <1>2, Typing, PTL DEF Spec

\* What a session holds as pending is work the runtime accepted for it
\* (feishu-task-bug-semantic-executor.ts, execute).
THEOREM PendingIsQueued == Spec => []PendingIsQueuedWork
<1>1. Queued => PendingIsQueuedWork
  BY DEF Queued
<1>2. QED
  BY <1>1, QueuedAlways, PTL
-----------------------------------------------------------------------------
(* How a pending execution ends. *)

\* ClosedForGood and what makes it inductive: the execution a turn is matched
\* with has left the store and is work of the session of the turn, so what the
\* turn clears is the only place it can be pending in; and a turn that may
\* clear has been recorded.
Closing ==
  /\ \A t \in Turns : captured[t] # NULL =>
       /\ captured[t] \in Messages /\ pc[captured[t]] \notin Early
       /\ Target(captured[t]) = Home(t)
       /\ pc[t] \notin {"idle", "output"}
  /\ \A t \in Turns :
       pc[t] \in Bridging \cup {"writeback", "lane", "promote", "clear", "done"} =>
         captured[t] # NULL
  /\ \A t \in Turns : pc[t] \notin {"store", "wake"}
  /\ \A j \in Jobs : pc[j] = "promote" => j \in lane
  /\ \A t \in Turns : pc[t] = "clear" => t \in lane \cap promoted
  /\ ClosedForGood

\* What a step that matches, clears, records and promotes nothing keeps.
Steady ==
  /\ captured' = captured /\ lane' = lane /\ promoted' = promoted
  /\ \A t \in Turns : captured[t] # NULL => Home(t)' = Home(t)
  /\ \A m \in Messages : pc[m] \notin Early =>
       pc'[m] \notin Early /\ Target(m)' = Target(m)
  /\ \A t \in Turns : \/ pc'[t] = pc[t]
                      \/ pc'[t] \in {"output", "ignored"} /\ captured[t] = NULL
                      \/ pc'[t] \in {"failed", "lost"}
                      \/ /\ pc'[t] \in {"effects", "verify", "writeback", "lane"}
                         /\ pc[t] \in Bridging \cup {"writeback"}
  /\ \A m \in Messages : pc'[m] = "promote" => pc[m] = "promote"
  /\ \A s \in Sessions : \/ Pending(s)' \in {NULL, Pending(s)}
                         \/ pc[Pending(s)'] = "service" /\ Pending(s)' \in Messages

LEMMA SteadyClosing == TypeOK /\ Closing /\ Steady => Closing'
<1> SUFFICES ASSUME TypeOK, Closing, Steady PROVE Closing'
  OBVIOUS
<1>1. \A t \in Turns : captured'[t] # NULL =>
        /\ captured'[t] \in Messages /\ pc'[captured'[t]] \notin Early
        /\ Target(captured[t])' = Home(t)'
        /\ pc'[t] \notin {"idle", "output"}
  BY DEF Closing, Steady, Bridging
<1>2. \A t \in Turns :
        pc'[t] \in Bridging \cup {"writeback", "lane", "promote", "clear", "done"} =>
          captured'[t] # NULL
  BY DEF Closing, Steady, Bridging
<1>3. \A t \in Turns : pc'[t] \notin {"store", "wake"}
  BY DEF Closing, Steady, Bridging
<1>4. \A j \in Jobs : pc'[j] = "promote" => j \in lane'
  BY DEF Closing, Steady, Bridging, Jobs
<1>5. \A t \in Turns : pc'[t] = "clear" => t \in lane' \cap promoted'
  BY DEF Closing, Steady, Bridging
<1>6. \A t \in Turns, s \in Sessions : pc'[t] = "done" => Pending(s)' # captured'[t]
  <2> SUFFICES ASSUME NEW t \in Turns, NEW s \in Sessions, pc'[t] = "done",
                      Pending(s)' = captured'[t]
               PROVE FALSE
    OBVIOUS
  <2>1. pc[t] = "done" /\ captured[t] # NULL /\ pc[captured[t]] \notin Early
    BY DEF Closing, Steady, Bridging
  <2>2. Pending(s)' = Pending(s)
    BY <2>1 DEF Steady, Early, Bridging
  <2>3. QED
    BY <2>1, <2>2 DEF Closing, ClosedForGood, Steady
<1>7. QED
  BY <1>1, <1>2, <1>3, <1>4, <1>5, <1>6 DEF Closing, ClosedForGood

LEMMA ClosingStep == TypeOK /\ Linked /\ Queued /\ Closing /\ [Next]_vars => Closing'
<1> SUFFICES ASSUME TypeOK, Linked, Queued, Closing, [Next]_vars PROVE Closing'
  OBVIOUS
<1>1. /\ pc \in [Jobs -> Labels]
      /\ about \in [Jobs -> Items \cup Messages \cup {NULL}]
      /\ captured \in [Jobs -> Messages \cup {NULL}]
      /\ session \in [Sessions -> SessionType]
      /\ events \subseteq Messages
      /\ \A s \in Sessions : Pending(s) \in Messages \cup {NULL}
  BY DEF TypeOK, SessionType, Pending
<1> USE <1>1, JobsAssumption, NullAssumption DEF Jobs, Goto, Bridging
<1>2. ASSUME NEW m \in Messages, Receive(m) PROVE Steady
  <2>1. \A x \in Messages : x # m => pc'[x] = pc[x] /\ project'[x] = project[x]
    BY <1>2 DEF Receive
  <2>2. \A t \in Turns : pc'[t] = pc[t] /\ about'[t] = about[t]
    BY <1>2 DEF Receive
  <2>3. /\ pc[m] = "idle" /\ pc'[m] = "service"
        /\ session' = session /\ captured' = captured /\ lane' = lane /\ promoted' = promoted
    BY <1>2 DEF Receive
  <2>4. \A t \in Turns : captured[t] # NULL => about[t] \in Messages /\ about[t] # m
    BY <2>3 DEF Closing, Linked
  <2>5. QED
    BY <2>1, <2>2, <2>3, <2>4 DEF Steady, Early, Target, Project, Home, Pending
<1>3. ASSUME NEW m \in Messages, Enqueue(m) PROVE Steady
  <2>1. \A s \in Sessions : Pending(s)' \in {m, Pending(s)}
    BY <1>3 DEF Enqueue, Bound, Pending
  <2>2. QED
    BY <1>3, <2>1 DEF Enqueue, Steady, Early, Target, Project, Home, jobVars
<1>4. ASSUME NEW m \in Messages, MessageStep(m), ~Enqueue(m) PROVE Steady
  BY <1>4 DEF MessageStep, EnqueueUnstored, EnqueueRefused, StorePendingFails, Wake, WakeFails,
              Answer, Steady, Early, Target, Project, Home, Pending, jobVars
<1>5. ASSUME NEW t \in Turns, StartTurn(t) PROVE Steady
  <2>1. captured[t] = NULL /\ pc'[t] = "output"
    BY <1>5 DEF StartTurn, Closing
  <2>2. \A x \in Jobs : x # t => pc'[x] = pc[x] /\ about'[x] = about[x]
    BY <1>5 DEF StartTurn
  <2>3. /\ captured' = captured /\ lane' = lane /\ promoted' = promoted /\ session' = session
        /\ project' = project
    BY <1>5 DEF StartTurn
  <2>4. \A x \in Turns : captured[x] # NULL => Home(x)' = Home(x)
    BY <2>1, <2>2, <2>3 DEF Closing, Linked, Home, Target, Project
  <2>5. QED
    BY <2>1, <2>2, <2>3, <2>4 DEF Steady, Target, Project, Pending
<1>6. ASSUME NEW t \in Turns, Ignore(t) \/ RejectOutput(t) PROVE Steady
  BY <1>6 DEF Ignore, RejectOutput, Closing, Steady, Early, Target, Project, Home, Pending,
              jobVars
<1>7. ASSUME NEW t \in Turns, Capture(t) PROVE Closing'
  <2> DEFINE d == Pending(Home(t))
  <2>1. d \in Messages /\ pc[d] \notin Early /\ Target(d) = Home(t)
    BY <1>7, HomeTyped DEF Capture, Queued, PendingIsQueuedWork
  <2>2. /\ \A x \in Jobs : x # t => pc'[x] = pc[x] /\ captured'[x] = captured[x]
        /\ pc'[t] = "service" /\ captured'[t] = d
        /\ about' = about /\ project' = project /\ session' = session
        /\ lane' = lane /\ promoted' = promoted
    BY <1>7, <2>1 DEF Capture
  <2> HIDE DEF d
  <2>3. QED
    BY <2>1, <2>2 DEF Closing, ClosedForGood, Early, Target, Project, Home, Pending
<1>8. ASSUME NEW t \in Turns, ClearPending(t) PROVE Closing'
  <2>1. Home(t) \in Sessions /\ t \in lane \cap promoted /\ captured[t] # NULL
    BY <1>8, HomeTyped DEF ClearPending, Closing
  <2>2. \A s \in Sessions : Pending(s)' = IF s = Home(t) THEN NULL ELSE Pending(s)
    BY <1>8 DEF ClearPending, SessionType, Pending
  <2>3. /\ \A x \in Jobs : x # t => pc'[x] = pc[x]
        /\ pc'[t] = "done"
        /\ UNCHANGED <<about, project, captured, lane, promoted>>
    BY <1>8 DEF ClearPending, jobVars
  <2>4. \A s \in Sessions : Pending(s)' # captured[t]
    BY <2>1, <2>2 DEF Closing, Queued, PendingIsQueuedWork
  <2>5. QED
    BY <2>1, <2>2, <2>3, <2>4 DEF Closing, ClosedForGood, Early, Target, Project, Home
<1>9. ASSUME NEW j \in Jobs, BridgeStep(j) PROVE Steady
  BY <1>9, BridgeMoves DEF Steady, Early, Target, Project, Home, Pending, jobVars
<1>10. ASSUME NEW j \in Jobs, PlanRow(j) \/ UpdateRow(j) PROVE Steady
  BY <1>10 DEF PlanRow, UpdateRow, Steady, Target, Project, Home, Pending, jobVars
<1>11. ASSUME NEW j \in Jobs, PlanFails(j) \/ UpdateFails(j) PROVE Steady
  BY <1>11 DEF PlanFails, UpdateFails, Steady, Early, Target, Project, Home, Pending, jobVars
<1>12. ASSUME NEW j \in Jobs, AppendLane(j) PROVE Closing'
  BY <1>12 DEF AppendLane, WritebackOver, Closing, ClosedForGood, Early, Target, Project,
               Home, Pending, jobVars
<1>13. ASSUME NEW j \in Jobs, Promote(j) PROVE Closing'
  BY <1>13 DEF Promote, Closing, ClosedForGood, Early, Target, Project, Home, Pending, jobVars
<1>14. ASSUME NEW j \in Jobs, Abort(j) PROVE Steady
  BY <1>14 DEF Abort, Steady, Early, Target, Project, Home, Pending, jobVars
<1>15. ASSUME NEW s \in Sessions, SwitchProject(s) \/ ForgetSession(s) PROVE Steady
  <2>1. \A x \in Sessions : Pending(x)' \in {NULL, Pending(x)}
    BY <1>15 DEF SwitchProject, ForgetSession, SessionType, Pending
  <2>2. QED
    BY <1>15, <2>1 DEF SwitchProject, ForgetSession, Steady, Target, Project, Home, jobVars
<1>16. ASSUME NEW i \in Items, EditRow(i) PROVE Steady
  BY <1>16 DEF EditRow, Steady, Target, Project, Home, Pending, jobVars
<1>17. ASSUME Crash PROVE Steady
  BY <1>17 DEF Crash, Running, Steady, Early, Target, Project, Home, Pending, jobVars
<1>18. ASSUME UNCHANGED vars PROVE Steady
  BY <1>18 DEF vars, Steady, Target, Project, Home, Pending, jobVars
<1>19. QED
  BY SteadyClosing, <1>2, <1>3, <1>4, <1>5, <1>6, <1>7, <1>8, <1>9, <1>10, <1>11, <1>12,
     <1>13, <1>14, <1>15, <1>16, <1>17, <1>18
     DEF Next, TurnStep, JobStep, BridgeStep

LEMMA ClosingAlways == Spec => []Closing
<1>1. Init => Closing
  BY DEF Init, Closing, ClosedForGood, Bridging, Jobs
<1>2. TypeOK /\ Linked /\ Queued /\ Closing /\ [Next]_vars => Closing'
  BY ClosingStep
<1>3. QED
  BY <1>1, <1>2, Typing, QueuedAlways, PTL DEF Spec

\* No execution is pending again after the turn that was matched with it has
\* run to its end (index.ts, handleSemanticBoundaryLlmOutput).
THEOREM ClosedStaysClosed == Spec => []ClosedForGood
<1>1. Closing => ClosedForGood
  BY DEF Closing
<1>2. QED
  BY <1>1, ClosingAlways, PTL

\* A pending execution disappears with the binding or after its boundary is
\* recorded (index.ts, handleSemanticBoundaryLlmOutput).
THEOREM PendingEnds == Spec => PendingEndsRecorded
<1> DEFINE Ends == \A s \in Sessions :
             Pending(s) # NULL /\ Pending(s)' = NULL =>
               \/ session'[s].current_project_id = NULL
               \/ \E t \in lane \cap promoted :
                    t \in Turns /\ Home(t) = s /\ captured[t] # NULL
<1>1. TypeOK /\ Linked /\ Closing /\ [Next]_vars => Ends
  <2> SUFFICES ASSUME TypeOK, Linked, Closing, [Next]_vars,
                      NEW s \in Sessions, Pending(s) # NULL, Pending(s)' = NULL
               PROVE  \/ session'[s].current_project_id = NULL
                      \/ \E t \in lane \cap promoted :
                           t \in Turns /\ Home(t) = s /\ captured[t] # NULL
    OBVIOUS
  <2>1. session' # session /\ session \in [Sessions -> SessionType]
    BY DEF Pending, TypeOK
  <2>2. ASSUME NEW t \in Turns, ClearPending(t)
        PROVE  t \in lane \cap promoted /\ Home(t) = s /\ captured[t] # NULL
    <3>1. Home(t) = s
      BY <2>1, <2>2 DEF ClearPending, Pending
    <3>2. QED
      BY <2>2, <3>1 DEF ClearPending, Closing
  <2>3. ASSUME NEW m \in Messages, Enqueue(m) PROVE FALSE
    BY <2>1, <2>3, NullAssumption DEF Enqueue, Bound, Pending
  <2>4. ASSUME NEW x \in Sessions, SwitchProject(x) PROVE FALSE
    BY <2>1, <2>4 DEF SwitchProject, Pending, SessionType
  <2>5. ASSUME NEW x \in Sessions, ForgetSession(x) PROVE session'[s].current_project_id = NULL
    BY <2>1, <2>5 DEF ForgetSession, Pending
  <2>6. (\E t \in Turns : ClearPending(t)) \/ (\E x \in Sessions : ForgetSession(x))
    BY <2>1, <2>3, <2>4 DEF Next, MessageStep, TurnStep, JobStep, Receive,
       EnqueueUnstored, EnqueueRefused, StorePendingFails, Wake, WakeFails, StartTurn,
       Capture, Ignore, RejectOutput, LoadContextsFails, Passthrough, SkipOperation, ApplyOperation, VerifyOperation,
       OperationThrows, PlanRow, PlanFails, UpdateRow, UpdateFails, AppendLane, Promote,
       Abort, EditRow, Crash, vars
  <2>7. QED
    BY <2>2, <2>5, <2>6
<1>2. QED
  BY <1>1, Typing, ClosingAlways, PTL DEF Spec, PendingEndsRecorded
-----------------------------------------------------------------------------
(* What a boundary may write. *)

\* A row that turn t named, or the row of the work it was matched with.
Allowed(t, i) ==
  \/ i \in named[t].records
  \/ /\ i = about[captured[t]]
     /\ named[t].project \in {NULL, Project(captured[t])}
     /\ \A k \in named[t].records : KindOf[k] # KindOf[i]

\* WritesOwnOrMatchedRows and what makes it inductive: it holds of the targets as
\* well, and a turn without a match has neither.
Confined ==
  \A t \in Turns :
    /\ targets[t] # {} \/ planned[t] # {} => captured[t] # NULL
    /\ \A i \in targets[t] : Allowed(t, i)
    /\ \A u \in planned[t] : Allowed(t, u.item)

\* What a step that matches nothing keeps.
Narrowing ==
  \A t \in Turns :
    /\ targets'[t] \subseteq targets[t]
    /\ \A u \in planned'[t] : u \in planned[t] \/ u.item \in targets[t]
    /\ captured'[t] = captured[t]
    /\ captured[t] # NULL =>
         /\ named'[t] = named[t]
         /\ about'[captured[t]] = about[captured[t]] /\ project'[captured[t]] = project[captured[t]]

LEMMA NarrowingConfined == Confined /\ Narrowing => Confined'
<1> SUFFICES ASSUME Confined, Narrowing, NEW t \in Turns
             PROVE  /\ targets'[t] # {} \/ planned'[t] # {} => captured'[t] # NULL
                    /\ \A i \in targets'[t] : Allowed(t, i)'
                    /\ \A u \in planned'[t] : Allowed(t, u.item)'
  BY DEF Confined
<1>1. targets'[t] # {} \/ planned'[t] # {} => captured[t] # NULL /\ captured'[t] = captured[t]
  BY DEF Confined, Narrowing
<1>2. ASSUME NEW i, i \in targets'[t] \/ \E u \in planned'[t] : u.item = i
      PROVE  Allowed(t, i)'
  <2>1. Allowed(t, i)
    BY <1>2 DEF Confined, Narrowing
  <2>2. /\ captured'[t] = captured[t] /\ named'[t] = named[t]
        /\ about'[captured[t]] = about[captured[t]] /\ project'[captured[t]] = project[captured[t]]
    BY <1>1, <1>2 DEF Narrowing
  <2>3. QED
    BY <2>1, <2>2 DEF Allowed, Project
<1>3. QED
  BY <1>1, <1>2

LEMMA ConfinedStep == TypeOK /\ Closing /\ Confined /\ [Next]_vars => Confined'
<1> SUFFICES ASSUME TypeOK, Closing, Confined, [Next]_vars PROVE Confined'
  OBVIOUS
<1>1. /\ pc \in [Jobs -> Labels]
      /\ about \in [Jobs -> Items \cup Messages \cup {NULL}]
      /\ project \in [Messages -> Projects \cup {NULL}]
      /\ captured \in [Jobs -> Messages \cup {NULL}]
      /\ targets \in [Jobs -> SUBSET Items]
      /\ planned \in [Jobs -> SUBSET UpdateType]
      /\ named \in [Jobs -> Namings \cup {NULL}]
      /\ events \subseteq Messages
  BY DEF TypeOK
<1>a. \A t \in Turns : captured[t] # NULL =>
        /\ captured[t] \in Messages /\ pc[captured[t]] # "idle"
        /\ pc[t] \notin {"idle", "output"}
  BY DEF Closing, Early
<1> USE <1>1, JobsAssumption DEF Jobs, Goto
<1>2. ASSUME NEW m \in Messages, Receive(m) PROVE Narrowing
  <2>1. /\ pc[m] = "idle" /\ named' = named /\ planned' = planned /\ captured' = captured
        /\ \A x \in Jobs : x # m => about'[x] = about[x] /\ targets'[x] = targets[x]
        /\ \A x \in Messages : x # m => project'[x] = project[x]
    BY <1>2 DEF Receive
  <2>2. QED
    BY <1>a, <2>1 DEF Narrowing
<1>3. ASSUME NEW m \in Messages, MessageStep(m) PROVE Narrowing
  BY <1>3 DEF MessageStep, Enqueue, EnqueueUnstored, EnqueueRefused,
              StorePendingFails, Wake, WakeFails, Bound, Answer, Narrowing, jobVars
<1>4. ASSUME NEW t \in Turns, StartTurn(t) PROVE Narrowing
  <2>1. /\ captured[t] = NULL /\ targets' = targets /\ planned' = planned
        /\ captured' = captured /\ project' = project
        /\ \A x \in Jobs : x # t => about'[x] = about[x] /\ named'[x] = named[x]
    BY <1>4, <1>a DEF StartTurn
  <2>2. QED
    BY <1>a, <2>1 DEF Narrowing
<1>5. ASSUME NEW t \in Turns, Capture(t) PROVE Confined'
  <2> DEFINE d == Pending(Home(t))
  <2>1. /\ captured[t] = NULL /\ targets[t] = {} /\ planned[t] = {}
        /\ planned' = planned /\ about' = about /\ project' = project /\ named' = named
        /\ d # NULL /\ Matches(t, d)
        /\ targets' = [targets EXCEPT ![t] = MergedRows(t, d)]
        /\ captured' = [captured EXCEPT ![t] = d]
    BY <1>5, <1>a DEF Capture, Confined
  <2>2. ASSUME NEW i \in MergedRows(t, d)
        PROVE  \/ i \in named[t].records
               \/ i = about[d] /\ \A k \in named[t].records : KindOf[k] # KindOf[i]
    BY <2>2 DEF MergedRows, Anchor
  <2>3. \A i \in targets'[t] : Allowed(t, i)'
    BY <2>1, <2>2 DEF Allowed, Matches, Project
  <2> HIDE DEF d
  <2>4. /\ \A x \in Turns : x # t => targets'[x] = targets[x] /\ captured'[x] = captured[x]
        /\ captured'[t] = d /\ planned'[t] = {}
    BY <2>1
  <2>5. \A x \in Turns : \A i : x # t => Allowed(x, i)' = Allowed(x, i)
    BY <2>1, <2>4 DEF Allowed, Project
  <2>6. QED
    BY <2>1, <2>3, <2>4, <2>5 DEF Confined
<1>6. ASSUME NEW t \in Turns, Ignore(t) \/ RejectOutput(t) \/ ClearPending(t) PROVE Narrowing
  BY <1>6 DEF Ignore, RejectOutput, ClearPending, Narrowing, jobVars
<1>7. ASSUME NEW j \in Jobs, BridgeStep(j) PROVE Narrowing
  BY <1>7, BridgeMoves DEF Narrowing, jobVars
<1>8. ASSUME NEW j \in Jobs, PlanRow(j) PROVE Narrowing
  <2>1. PICK i \in targets[j] :
          LET plan == Plan(KindOf[i], row[i], Envelope(j), Result(outcome[j]), DefaultMode(j))
          IN /\ targets' = [targets EXCEPT ![j] = @ \ {i}]
             /\ planned' = [planned EXCEPT ![j] = IF plan = NULL THEN @
                              ELSE @ \cup {[item |-> i, read |-> row[i].status, plan |-> plan]}]
    BY <1>8 DEF PlanRow
  <2>2. \A u \in planned'[j] : u \in planned[j] \/ u.item = i
    BY <2>1
  <2>3. QED
    BY <1>8, <2>1, <2>2 DEF PlanRow, Narrowing, jobVars
<1>9. ASSUME NEW j \in Jobs, UpdateRow(j) \/ PlanFails(j) \/ UpdateFails(j) PROVE Narrowing
  BY <1>9 DEF UpdateRow, PlanFails, UpdateFails, Narrowing, jobVars
<1>10. ASSUME NEW j \in Jobs, AppendLane(j) \/ Promote(j) \/ Abort(j) PROVE Narrowing
  BY <1>10 DEF AppendLane, Promote, Abort, Narrowing, jobVars
<1>11. ASSUME NEW s \in Sessions, SwitchProject(s) \/ ForgetSession(s) PROVE Narrowing
  BY <1>11 DEF SwitchProject, ForgetSession, Narrowing, jobVars
<1>12. ASSUME NEW i \in Items, EditRow(i) PROVE Narrowing
  BY <1>12 DEF EditRow, Narrowing, jobVars
<1>13. ASSUME Crash PROVE Narrowing
  BY <1>13 DEF Crash, Narrowing, jobVars
<1>14. ASSUME UNCHANGED vars PROVE Narrowing
  BY <1>14 DEF vars, Narrowing, jobVars
<1>15. QED
  BY NarrowingConfined, <1>2, <1>3, <1>4, <1>5, <1>6, <1>7, <1>8, <1>9, <1>10, <1>11,
     <1>12, <1>13, <1>14
     DEF Next, TurnStep, JobStep, BridgeStep

LEMMA ConfinedAlways == Spec => []Confined
<1>1. Init => Confined
  BY DEF Init, Confined, Jobs
<1>2. TypeOK /\ Closing /\ Confined /\ [Next]_vars => Confined'
  BY ConfinedStep
<1>3. QED
  BY <1>1, <1>2, Typing, ClosingAlways, PTL DEF Spec

\* The writeback of a boundary changes the records it names and, beside them, only the
\* row of the work it was matched with, which is of the project it names if it names one
\* (index.ts, mergePendingSemanticBoundaryEnvelope).
THEOREM WritebackIsConfined == Spec => []WritesOwnOrMatchedRows
<1>1. Confined => WritesOwnOrMatchedRows
  BY DEF Confined, Allowed, WritesOwnOrMatchedRows
<1>2. QED
  BY <1>1, ConfinedAlways, PTL
-----------------------------------------------------------------------------
(* When a row reaches its end. *)

\* A job that has not come to its writeback has planned nothing, and what comes to
\* the writeback has a result.
Planning ==
  /\ \A j \in Jobs : pc[j] \in {"service", "output"} => action[j] \in MessageActions
  /\ \A j \in Jobs : pc[j] \in Early \cup {"wake", "output"} => planned[j] = {}
  /\ \A j \in Jobs : pc[j] \in {"effects", "verify", "writeback"} => outcome[j] \in Outcomes

\* What a step that plans nothing keeps.
Idling ==
  \A j \in Jobs :
    /\ pc'[j] \in {"service", "output"} =>
         \/ action'[j] \in MessageActions
         \/ pc[j] \in {"service", "output"} /\ action'[j] = action[j]
    /\ pc'[j] \in Early \cup {"wake", "output"} => pc[j] \in Early \cup {"wake", "output"}
    /\ pc'[j] \in {"effects", "verify", "writeback"} =>
         \/ outcome'[j] \in Outcomes
         \/ pc[j] \in {"effects", "verify", "writeback"} /\ outcome'[j] = outcome[j]
    /\ planned'[j] \subseteq planned[j]

LEMMA IdlingPlanning == Planning /\ Idling => Planning'
<1> SUFFICES ASSUME Planning, Idling PROVE Planning'
  OBVIOUS
<1>1. ASSUME NEW j \in Jobs, pc'[j] \in Early \cup {"wake", "output"} PROVE planned'[j] = {}
  BY <1>1 DEF Planning, Idling
<1>2. ASSUME NEW j \in Jobs, pc'[j] \in {"effects", "verify", "writeback"}
      PROVE  outcome'[j] \in Outcomes
  BY <1>2 DEF Planning, Idling
<1>3. ASSUME NEW j \in Jobs, pc'[j] \in {"service", "output"} PROVE action'[j] \in MessageActions
  BY <1>3 DEF Planning, Idling
<1>4. QED
  BY <1>1, <1>2, <1>3 DEF Planning

LEMMA PlanningStep == TypeOK /\ Operating /\ Planning /\ [Next]_vars => Planning'
<1> SUFFICES ASSUME TypeOK, Operating, Planning, [Next]_vars PROVE Planning'
  OBVIOUS
<1>1. /\ pc \in [Jobs -> Labels]
      /\ planned \in [Jobs -> SUBSET UpdateType]
      /\ targets \in [Jobs -> SUBSET Items]
      /\ outcome \in [Jobs -> Outcomes \cup {NULL}]
      /\ action \in [Jobs -> MessageActions \cup {NULL}]
  BY DEF TypeOK
<1> USE <1>1 DEF Goto, Bridging
<1>2. ASSUME NEW m \in Messages, Receive(m) \/ Enqueue(m) \/ EnqueueUnstored(m) PROVE Idling
  BY <1>2, ItemsAssumption
     DEF Receive, Enqueue, EnqueueUnstored, Idling, Early, Jobs, jobVars
<1>3. ASSUME NEW m \in Messages,
             EnqueueRefused(m) \/ StorePendingFails(m) \/ Wake(m) \/ WakeFails(m)
      PROVE  Idling
  BY <1>3 DEF EnqueueRefused, StorePendingFails, Wake, WakeFails, Answer, Idling, Early, Jobs,
              Outcomes, MessageActions, jobVars
<1>4. ASSUME NEW t \in Turns, StartTurn(t) \/ TurnStep(t) PROVE Idling
  BY <1>4, ItemsAssumption
     DEF StartTurn, TurnStep, Capture, Ignore, RejectOutput, ClearPending, Idling, Early,
         Jobs, MessageActions, jobVars
<1>5. ASSUME NEW j \in Jobs, BridgeStep(j) PROVE Idling
  <2>1. /\ pc[j] \in Bridging
        /\ \E label \in {"effects", "verify", "writeback"} : pc' = [pc EXCEPT ![j] = label]
        /\ \A x \in Jobs : x # j => outcome'[x] = outcome[x]
        /\ planned' = planned /\ action' = action
    BY <1>5, BridgeMoves DEF jobVars
  <2>2. outcome'[j] \in Outcomes
    BY <1>5 DEF BridgeStep, LoadContextsFails, Passthrough, SkipOperation, VerifyOperation,
                ApplyOperation, OperationThrows, Answer, Judgement, Outcomes, MessageActions,
                Planning
  <2>3. QED
    BY <2>1, <2>2 DEF Idling, Early
<1>6. ASSUME NEW j \in Jobs, PlanRow(j) PROVE Planning'
  <2>1. \A k \in Jobs : k # j => planned'[k] = planned[k]
    BY <1>6 DEF PlanRow
  <2>2. pc[j] = "writeback" /\ pc' = pc /\ outcome' = outcome /\ action' = action
    BY <1>6 DEF PlanRow, jobVars
  <2>3. QED
    BY <2>1, <2>2 DEF Planning, Early
<1>7. ASSUME NEW j \in Jobs, PlanFails(j) \/ UpdateRow(j) \/ UpdateFails(j) PROVE Idling
  BY <1>7 DEF PlanFails, UpdateRow, UpdateFails, Idling, Early, jobVars
<1>8. ASSUME NEW j \in Jobs, AppendLane(j) \/ Promote(j) \/ Abort(j) PROVE Idling
  BY <1>8 DEF AppendLane, Promote, Abort, Idling, Early, jobVars
<1>9. ASSUME NEW s \in Sessions, SwitchProject(s) \/ ForgetSession(s) PROVE Idling
  BY <1>9 DEF SwitchProject, ForgetSession, Idling, jobVars
<1>10. ASSUME NEW i \in Items, EditRow(i) PROVE Idling
  BY <1>10 DEF EditRow, Idling, jobVars
<1>11. ASSUME Crash PROVE Idling
  BY <1>11 DEF Crash, Running, Idling, Early, jobVars
<1>12. ASSUME UNCHANGED vars PROVE Idling
  BY <1>12 DEF vars, Idling, jobVars
<1>13. QED
  BY IdlingPlanning, <1>2, <1>3, <1>4, <1>5, <1>6, <1>7, <1>8, <1>9, <1>10, <1>11, <1>12
     DEF Next, MessageStep, JobStep, BridgeStep

\* The update of a job writes the row it was planned for.
LEMMA UpdateMoves ==
  ASSUME TypeOK, NEW j \in Jobs, UpdateRow(j), NEW i \in Items, row'[i] # row[i]
  PROVE  \E u \in planned[j] \ planned'[j] : u.item = i /\ row'[i] = Written(row[i], u.plan)
<1>1. PICK u \in planned[j] : /\ row' = [row EXCEPT ![u.item] = Written(@, u.plan)]
                              /\ planned' = [planned EXCEPT ![j] = @ \ {u}]
  BY DEF UpdateRow
<1>2. u \notin planned'[j] /\ row \in [Items -> RowType]
  BY <1>1 DEF TypeOK
<1>3. u.item = i /\ row'[i] = Written(row[i], u.plan)
  BY <1>1, <1>2
<1>4. QED
  BY <1>2, <1>3

\* A row is written by a human, by an operation or by an update.
LEMMA WhoWritesRows ==
  ASSUME TypeOK, Operating, [Next]_vars, NEW i \in Items, row'[i] # row[i]
  PROVE  humanSteps' # humanSteps \/ Operated(i) \/ \E j \in Jobs : UpdateRow(j)
<1>1. ASSUME NEW x \in Items, EditRow(x) PROVE humanSteps' # humanSteps
  BY <1>1 DEF EditRow, HumanStep, TypeOK
<1>2. ASSUME NEW j \in Jobs, ApplyOperation(j) PROVE Operated(i)
  <2> DEFINE operation == Head(undone[j])
  <2>1. /\ pc[j] = "effects" /\ pc'[j] = "verify"
        /\ action[j] = "complete" /\ Proven(form[j])
    BY <1>2 DEF ApplyOperation, Goto, Operating, TypeOK
  <2>2. row' = [row EXCEPT ![operation.item].status = operation.status]
    BY <1>2 DEF ApplyOperation
  <2>3. row \in [Items -> RowType]
    BY DEF TypeOK
  <2> HIDE DEF operation
  <2>4. operation.item = i
    BY <2>2, <2>3
  <2>5. row'[i].status = operation.status
    BY <2>2, <2>3, <2>4 DEF RowType
  <2>6. QED
    BY <2>1, <2>4, <2>5 DEF Operated, operation
<1>3. \/ \E j \in Jobs : UpdateRow(j) \/ ApplyOperation(j)
      \/ \E x \in Items : EditRow(x)
  BY DEF Next, MessageStep, TurnStep, JobStep, Receive, Enqueue, EnqueueUnstored,
     EnqueueRefused, StorePendingFails, Wake, WakeFails, StartTurn, Capture, Ignore, RejectOutput,
     ClearPending, LoadContextsFails, Passthrough, SkipOperation, VerifyOperation,
     OperationThrows, PlanRow, PlanFails, UpdateFails, AppendLane, Promote, Abort,
     SwitchProject, ForgetSession, Crash, vars
<1>4. QED
  BY <1>1, <1>2, <1>3

\* What a plan that finishes a row was made of.
LEMMA PlanFinishes ==
  ASSUME NEW kind \in Kinds, NEW r \in RowType, NEW e, NEW result, NEW default,
         Plan(kind, r, e, result, default) # NULL,
         Plan(kind, r, e, result, default).status = FinalStatus(kind)
  PROVE  \/ EffectiveAction(e, result) = "review_resolution" /\ e.decision = "accepted"
         \/ /\ EffectiveAction(e, result) = "complete"
            /\ AcceptanceMode(r.acceptance_mode, default) = "agent_can_finalize"
            /\ kind = "bug" => e.fix_result # NULL
<1> DEFINE mode == AcceptanceMode(r.acceptance_mode, default)
           patch == WritebackPatch(kind, e, result, mode)
<1>1. patch.status = FinalStatus(kind)
  BY StatusNames, NullAssumption DEF Plan, FinalStatus
<1>2. FinalStatus(kind) \in {"Done", "Fixed"} /\ FinalStatus(kind) # InProgressStatus(kind)
  BY DEF FinalStatus, InProgressStatus
<1>3. ErrorPatch.status = NULL /\ NULL # FinalStatus(kind)
  BY <1>2, StatusNames, NullAssumption DEF ErrorPatch, Patch
<1>4. CASE EffectiveAction(e, result) = "review_resolution"
  <2>1. patch = ResolutionPatch(kind, e.decision)
    BY <1>4 DEF WritebackPatch
  <2>2. QED
    BY <1>1, <1>2, <1>3, <1>4, <2>1 DEF ResolutionPatch, Patch
<1>5. CASE EffectiveAction(e, result) = "complete"
  <2>1. patch = CompletionPatch(kind, e.fix_result, mode)
    BY <1>1, <1>2, <1>3, <1>5 DEF WritebackPatch, Patch
  <2> HIDE DEF mode
  <2>2. mode = "agent_can_finalize" /\ (kind = "bug" => e.fix_result # NULL)
    BY <1>1, <1>2, <1>3, <2>1 DEF CompletionPatch, Patch
  <2>3. QED
    BY <1>5, <2>2 DEF mode
<1>6. CASE EffectiveAction(e, result) \notin {"review_resolution", "complete"}
  BY <1>1, <1>2, <1>3, <1>6 DEF WritebackPatch, Patch
<1>7. QED
  BY <1>4, <1>5, <1>6

\* What stands behind an update of job j that finishes its row.
Warranted(j, i) ==
  \/ outcome[j] = "review_resolution" /\ decision[j] = "accepted"
  \/ /\ outcome[j] = "complete" /\ undone[j] = <<>>
     /\ Proven(form[j])
     /\ AcceptanceMode(row[i].acceptance_mode, DefaultMode(j)) = "agent_can_finalize"
     /\ KindOf[i] = "bug" => FixResult(j) # NULL

\* The configuration of a job is that of a project that stays.
LEMMA ModeStands ==
  ASSUME project' = project, captured' = captured
  PROVE  \A j : DefaultMode(j)' = DefaultMode(j)
BY DEF DefaultMode, Project

\* A job comes to its writeback with all operations done, with its evidence when
\* it completes, and every update that finishes a row is warranted.
Concluding ==
  /\ \A j \in Jobs : pc[j] \in {"effects", "verify", "writeback"} /\ outcome[j] = "complete" =>
       Proven(form[j])
  /\ \A j \in Jobs : pc[j] \notin {"effects", "verify", "lost"} => undone[j] = <<>>
  /\ \A j \in Jobs : \A u \in planned[j] :
       u.plan.status = FinalStatus(KindOf[u.item]) => Warranted(j, u.item)

\* What a step of anything but the bridge or a plan keeps.
Calm ==
  /\ \A j \in Jobs : pc'[j] \in {"effects", "verify", "writeback"} =>
       \/ pc[j] \in {"effects", "verify", "writeback"} /\ outcome'[j] = outcome[j] /\ form'[j] = form[j]
       \/ outcome'[j] # "complete"
  /\ \A j \in Jobs : pc'[j] \notin {"effects", "verify", "lost"} =>
       pc[j] \notin {"effects", "verify", "lost"}
  /\ undone' = undone
  /\ \A j \in Jobs : planned'[j] \subseteq planned[j]
  /\ \A j \in Jobs : planned'[j] # {} =>
       /\ outcome'[j] = outcome[j] /\ form'[j] = form[j] /\ decision'[j] = decision[j]
       /\ DefaultMode(j)' = DefaultMode(j)
  /\ \A i \in Items : row'[i].acceptance_mode = row[i].acceptance_mode

LEMMA CalmConcluding == TypeOK /\ Concluding /\ Calm => Concluding'
<1> SUFFICES ASSUME TypeOK, Concluding, Calm PROVE Concluding'
  OBVIOUS
<1>1. ASSUME NEW j \in Jobs, pc'[j] \in {"effects", "verify", "writeback"},
             outcome'[j] = "complete"
      PROVE  Proven(form[j])'
  <2>1. form'[j] = form[j] /\ Proven(form[j])
    BY <1>1 DEF Concluding, Calm
  <2>2. QED
    BY <2>1 DEF Proven, Malformed, ClaimsMutation
<1>2. ASSUME NEW j \in Jobs, pc'[j] \notin {"effects", "verify", "lost"}
      PROVE  undone'[j] = <<>>
  BY <1>2 DEF Concluding, Calm
<1>3. ASSUME NEW j \in Jobs, NEW u \in planned'[j],
             u.plan.status = FinalStatus(KindOf[u.item])
      PROVE  Warranted(j, u.item)'
  <2>1. u \in planned[j] /\ u.item \in Items
    BY <1>3 DEF Calm, TypeOK, UpdateType
  <2>2. Warranted(j, u.item)
    BY <1>3, <2>1 DEF Concluding
  <2>3. /\ outcome'[j] = outcome[j] /\ form'[j] = form[j] /\ decision'[j] = decision[j]
        /\ row'[u.item].acceptance_mode = row[u.item].acceptance_mode
        /\ undone'[j] = undone[j] /\ DefaultMode(j)' = DefaultMode(j)
    BY <1>3, <2>1 DEF Calm
  <2>4. FixResult(j)' = FixResult(j) /\ Proven(form[j])' = Proven(form[j])
    BY <2>3 DEF FixResult, Proven, Malformed, ClaimsMutation
  <2>5. QED
    BY <2>2, <2>3, <2>4 DEF Warranted
<1>4. QED
  BY <1>1, <1>2, <1>3 DEF Concluding

LEMMA ConcludingStep ==
  TypeOK /\ Linked /\ Operating /\ Closing /\ Confined /\ Planning /\ Concluding
    /\ [Next]_vars => Concluding'
<1> SUFFICES ASSUME TypeOK, Linked, Operating, Closing, Confined, Planning, Concluding,
                    [Next]_vars
             PROVE  Concluding'
  OBVIOUS
<1>1. /\ pc \in [Jobs -> Labels]
      /\ form \in [Jobs -> Forms \cup {NULL}]
      /\ captured \in [Jobs -> Messages \cup {NULL}]
      /\ decision \in [Jobs -> Decisions \cup {NULL}]
      /\ outcome \in [Jobs -> Outcomes \cup {NULL}]
      /\ planned \in [Jobs -> SUBSET UpdateType]
      /\ undone \in [Jobs -> Seq(OperationType)]
      /\ row \in [Items -> RowType]
  BY DEF TypeOK
<1> USE <1>1, JobsAssumption DEF Jobs, Goto, Bridging
<1>2. ASSUME NEW m \in Messages, Receive(m) PROVE Calm
  <2>1. /\ pc[m] = "idle" /\ captured' = captured /\ planned' = planned
        /\ \A x \in Messages : x # m => project'[x] = project[x]
    BY <1>2 DEF Receive
  <2>2. ASSUME NEW j \in Jobs, planned'[j] # {} PROVE DefaultMode(j)' = DefaultMode(j)
    <3>1. planned[j] # {} /\ j # m
      BY <2>1, <2>2 DEF Planning, Early
    <3>2. CASE j \in Turns
      <4>1. captured[j] \in Messages /\ captured[j] # m
        BY <2>1, <3>1, <3>2 DEF Confined, Closing, Early
      <4>2. QED
        BY <2>1, <3>2, <4>1 DEF DefaultMode, Project
    <3>3. CASE j \notin Turns
      BY <2>1, <3>1, <3>3 DEF DefaultMode, Project
    <3>4. QED
      BY <3>2, <3>3
  <2>3. QED
    BY <1>2, <2>2 DEF Receive, Calm, Planning, Early
<1>3. ASSUME NEW m \in Messages, MessageStep(m) PROVE Calm
  <2>1. project' = project /\ captured' = captured
    BY <1>3 DEF MessageStep, Enqueue, EnqueueUnstored, EnqueueRefused, StorePendingFails,
                Wake, WakeFails, jobVars
  <2>2. QED
    BY <1>3, <2>1, ModeStands
       DEF MessageStep, Enqueue, EnqueueUnstored, EnqueueRefused, StorePendingFails, Wake,
           WakeFails, Bound, Answer, Calm, Planning, Early, jobVars
<1>4. ASSUME NEW t \in Turns, StartTurn(t) \/ TurnStep(t) PROVE Calm
  <2>1. /\ planned' = planned /\ project' = project
        /\ \A x \in Jobs : x # t => captured'[x] = captured[x]
        /\ captured'[t] = captured[t] \/ planned[t] = {}
    BY <1>4 DEF StartTurn, TurnStep, Capture, Ignore, RejectOutput, ClearPending, Planning,
                jobVars
  <2>2. ASSUME NEW j \in Jobs, planned'[j] # {} PROVE DefaultMode(j)' = DefaultMode(j)
    BY <2>1, <2>2 DEF DefaultMode, Project
  <2>3. QED
    BY <1>4, <2>2 DEF StartTurn, TurnStep, Capture, Ignore, RejectOutput, ClearPending, Calm,
                      Planning, Early, jobVars
<1>5. ASSUME NEW j \in Jobs, BridgeStep(j) PROVE Concluding'
  <2>1. /\ \A x \in Jobs : x # j => /\ pc'[x] = pc[x] /\ outcome'[x] = outcome[x]
                                    /\ undone'[x] = undone[x]
        /\ form' = form /\ decision' = decision /\ planned' = planned
        /\ pc[j] \in Bridging /\ \A x : DefaultMode(x)' = DefaultMode(x)
    BY <1>5, BridgeMoves, ModeStands DEF jobVars
  <2>2. planned[j] = {}
    BY <2>1 DEF Planning, Early
  <2>3. \A i \in Items : row'[i].acceptance_mode = row[i].acceptance_mode
    <3>1. CASE ApplyOperation(j)
      <4> DEFINE operation == Head(undone[j])
      <4>1. row' = [row EXCEPT ![operation.item].status = operation.status]
        BY <3>1 DEF ApplyOperation
      <4> HIDE DEF operation
      <4>2. QED
        BY <4>1 DEF RowType
    <3>2. CASE ~ApplyOperation(j)
      BY <1>5, <3>2 DEF BridgeStep, LoadContextsFails, Passthrough, SkipOperation,
                        VerifyOperation, OperationThrows
    <3>3. QED
      BY <3>1, <3>2
  <2>4. ASSUME pc'[j] \in {"effects", "verify", "writeback"}, outcome'[j] = "complete"
        PROVE  Proven(form[j])
    <3>1. CASE LoadContextsFails(j) \/ SkipOperation(j) \/ OperationThrows(j)
      BY <2>4, <3>1 DEF LoadContextsFails, SkipOperation, OperationThrows, Answer
    <3>2. CASE Passthrough(j)
      BY <2>4, <3>2 DEF Passthrough, Judgement, Acceptable
    <3>3. CASE ApplyOperation(j) \/ VerifyOperation(j)
      BY <3>3 DEF ApplyOperation, VerifyOperation, Operating
    <3>4. QED
      BY <1>5, <3>1, <3>2, <3>3 DEF BridgeStep
  <2>5. ASSUME pc'[j] \notin {"effects", "verify", "lost"} PROVE undone'[j] = <<>>
    <3>1. CASE LoadContextsFails(j)
      BY <3>1 DEF LoadContextsFails, Concluding
    <3>2. CASE Passthrough(j) \/ SkipOperation(j) \/ VerifyOperation(j)
      BY <2>5, <3>2 DEF Passthrough, SkipOperation, VerifyOperation, Proceed
    <3>3. CASE ApplyOperation(j) \/ OperationThrows(j)
      BY <2>5, <3>3 DEF ApplyOperation, OperationThrows
    <3>4. QED
      BY <1>5, <3>1, <3>2, <3>3 DEF BridgeStep
  <2>6. ASSUME NEW x \in Jobs, NEW u \in planned'[x],
               u.plan.status = FinalStatus(KindOf[u.item])
        PROVE  Warranted(x, u.item)'
    <3>1. x # j /\ u \in planned[x] /\ u.item \in Items
      BY <2>1, <2>2, <2>6 DEF UpdateType
    <3>2. Warranted(x, u.item)
      BY <2>6, <3>1 DEF Concluding
    <3>3. FixResult(x)' = FixResult(x)
      BY <2>1 DEF FixResult
    <3>4. QED
      BY <2>1, <2>3, <3>1, <3>2, <3>3 DEF Warranted
  <2>7. QED
    BY <2>1, <2>4, <2>5, <2>6 DEF Concluding
<1>6. ASSUME NEW j \in Jobs, PlanRow(j) PROVE Concluding'
  <2>1. PICK i \in targets[j] :
          LET plan == Plan(KindOf[i], row[i], Envelope(j), Result(outcome[j]), DefaultMode(j))
          IN planned' = [planned EXCEPT ![j] = IF plan = NULL THEN @
                           ELSE @ \cup {[item |-> i, read |-> row[i].status, plan |-> plan]}]
    BY <1>6 DEF PlanRow
  <2> DEFINE plan == Plan(KindOf[i], row[i], Envelope(j), Result(outcome[j]), DefaultMode(j))
             new == [item |-> i, read |-> row[i].status, plan |-> plan]
  <2>2. /\ pc[j] = "writeback" /\ pc' = pc /\ outcome' = outcome /\ form' = form
        /\ decision' = decision /\ undone' = undone /\ row' = row
        /\ project' = project /\ captured' = captured
        /\ i \in Items /\ row[i] \in RowType /\ KindOf[i] \in Kinds
    BY <1>6, ItemsAssumption DEF PlanRow, TypeOK, jobVars
  <2>3. ASSUME plan # NULL, plan.status = FinalStatus(KindOf[i]) PROVE Warranted(j, i)
    <3>1. /\ EffectiveAction(Envelope(j), Result(outcome[j])) \in {"complete", "review_resolution"} =>
               EffectiveAction(Envelope(j), Result(outcome[j])) = outcome[j]
          /\ Envelope(j).decision = decision[j] /\ Envelope(j).fix_result = FixResult(j)
      BY <2>2, NullAssumption
         DEF EffectiveAction, Result, Envelope, Planning, Outcomes, MessageActions
    <3>2. \/ outcome[j] = "review_resolution" /\ decision[j] = "accepted"
          \/ /\ outcome[j] = "complete"
             /\ AcceptanceMode(row[i].acceptance_mode, DefaultMode(j)) = "agent_can_finalize"
             /\ KindOf[i] = "bug" => FixResult(j) # NULL
      BY <2>2, <2>3, <3>1, PlanFinishes
    <3>3. outcome[j] = "complete" => Proven(form[j]) /\ undone[j] = <<>>
      BY <2>2 DEF Concluding
    <3>4. QED
      BY <3>2, <3>3 DEF Warranted
  <2> HIDE DEF plan, new
  <2>4. planned' = [planned EXCEPT ![j] = IF plan = NULL THEN @ ELSE @ \cup {new}]
    BY <2>1 DEF plan, new
  <2>5. new.item = i /\ new.plan = plan
    BY DEF new
  <2>6. ASSUME NEW x \in Jobs, NEW u \in planned'[x],
               u.plan.status = FinalStatus(KindOf[u.item])
        PROVE  Warranted(x, u.item)
    <3>1. u \in planned[x] \/ (x = j /\ plan # NULL /\ u = new)
      BY <2>4, <2>6
    <3>2. QED
      BY <2>3, <2>5, <2>6, <3>1 DEF Concluding
  <2>7. \A x \in Jobs : \A k : Warranted(x, k)' = Warranted(x, k)
    BY <2>2, ModeStands DEF Warranted, FixResult
  <2>8. QED
    BY <2>2, <2>6, <2>7 DEF Concluding
<1>7. ASSUME NEW j \in Jobs, UpdateRow(j) PROVE Calm
  <2>1. PICK u \in planned[j] : /\ row' = [row EXCEPT ![u.item] = Written(@, u.plan)]
                                /\ planned' = [planned EXCEPT ![j] = @ \ {u}]
    BY <1>7 DEF UpdateRow
  <2>2. \A r \in RowType : Written(r, u.plan).acceptance_mode = r.acceptance_mode
    BY DEF Written, RowType
  <2>3. \A i \in Items : row'[i].acceptance_mode = row[i].acceptance_mode
    BY <2>1, <2>2
  <2>4. project' = project /\ captured' = captured
    BY <1>7 DEF UpdateRow, jobVars
  <2>5. QED
    BY <1>7, <2>1, <2>3, <2>4, ModeStands DEF UpdateRow, Calm, jobVars
<1>8. ASSUME NEW j \in Jobs, PlanFails(j) \/ UpdateFails(j) PROVE Calm
  BY <1>8, ModeStands DEF PlanFails, UpdateFails, Calm, jobVars
<1>9. ASSUME NEW j \in Jobs, AppendLane(j) \/ Promote(j) \/ Abort(j) PROVE Calm
  BY <1>9, ModeStands DEF AppendLane, Promote, Abort, WritebackOver, Calm, jobVars
<1>10. ASSUME NEW s \in Sessions, SwitchProject(s) \/ ForgetSession(s) PROVE Calm
  BY <1>10, ModeStands DEF SwitchProject, ForgetSession, Calm, jobVars
<1>11. ASSUME NEW i \in Items, EditRow(i) PROVE Calm
  BY <1>11, ModeStands DEF EditRow, Calm, RowType, jobVars
<1>12. ASSUME Crash PROVE Calm
  BY <1>12, ModeStands DEF Crash, Running, Calm, jobVars
<1>13. ASSUME UNCHANGED vars PROVE Calm
  BY <1>13, ModeStands DEF vars, Calm, jobVars
<1>14. QED
  BY CalmConcluding, <1>2, <1>3, <1>4, <1>5, <1>6, <1>7, <1>8, <1>9, <1>10, <1>11, <1>12, <1>13
     DEF Next, JobStep, BridgeStep

\* A row is finished only by a human, by a review that accepts it, by an
\* operation of a completion, or by a completion with evidence on a row that, by
\* itself or by the configuration of the project, lets the agent finish it
\* (validateBoundaryResult, the executor, applySideEffectsIfNeeded, resolveTaskBugPolicy).
THEOREM EndIsWarranted == Spec => ClosedWithEvidence
<1> DEFINE Ends == \A i \in Items : ~Finished(i) /\ Finished(i)' =>
             \/ humanSteps' # humanSteps
             \/ Operated(i)
             \/ \E j \in Jobs : \E u \in planned[j] \ planned'[j] :
                  u.item = i /\ Warranted(j, i)
<1>1. Init => Planning /\ Concluding
  BY DEF Init, Planning, Concluding, Early, Bridging
<1>2. TypeOK /\ Linked /\ Operating /\ Closing /\ Confined /\ Planning /\ Concluding
        /\ [Next]_vars => (Planning /\ Concluding)'
  BY PlanningStep, ConcludingStep
<1>3. TypeOK /\ Operating /\ Concluding /\ [Next]_vars => Ends
  <2> SUFFICES ASSUME TypeOK, Operating, Concluding, [Next]_vars,
                      NEW i \in Items, ~Finished(i), Finished(i)'
               PROVE  \/ humanSteps' # humanSteps
                      \/ Operated(i)
                      \/ \E j \in Jobs : \E u \in planned[j] \ planned'[j] :
                           u.item = i /\ Warranted(j, i)
    OBVIOUS
  <2>1. row[i].status # FinalStatus(KindOf[i]) /\ row'[i].status = FinalStatus(KindOf[i])
    BY DEF Finished
  <2>2. ASSUME NEW j \in Jobs, UpdateRow(j)
        PROVE  \E u \in planned[j] \ planned'[j] : u.item = i /\ Warranted(j, i)
    <3>1. PICK u \in planned[j] \ planned'[j] : u.item = i /\ row'[i] = Written(row[i], u.plan)
      BY <2>1, <2>2, UpdateMoves
    <3>2. u.plan.status = FinalStatus(KindOf[i])
      BY <2>1, <3>1 DEF Written, TypeOK, RowType
    <3>3. QED
      BY <3>1, <3>2 DEF Concluding
  <2>3. QED
    BY <2>1, <2>2, WhoWritesRows
<1>4. Ends => \A i \in Items : ~Finished(i) /\ Finished(i)' =>
             \/ humanSteps' # humanSteps
             \/ Operated(i)
             \/ \E j \in Jobs : \E u \in planned[j] \ planned'[j] :
                  /\ u.item = i
                  /\ \/ outcome[j] = "review_resolution" /\ decision[j] = "accepted"
                     \/ /\ outcome[j] = "complete" /\ undone[j] = <<>>
                        /\ Proven(form[j])
                        /\ AcceptanceMode(row[i].acceptance_mode, DefaultMode(j)) = "agent_can_finalize"
                        /\ KindOf[i] = "bug" => FixResult(j) # NULL
  BY DEF Warranted
<1>5. QED
  BY <1>1, <1>2, <1>3, <1>4, Typing, ClosingAlways, ConfinedAlways, PTL
     DEF Spec, ClosedWithEvidence
-----------------------------------------------------------------------------
(* The refinement of PendingWork. *)

\* What PendingWork sees of a state: its variables under the refinement.
SlotView == [s \in Sessions |-> Pending(s)]
TargetView == [m \in Messages |-> IF m \in accepted THEN Target(m) ELSE NULL]
StageView ==
  [m \in Messages |->
     IF m \notin accepted THEN "new"
     ELSE IF \E s \in Sessions : Pending(s) = m THEN "pending" ELSE "gone"]
MatchView == [t \in Turns |-> captured[t]]
RecordedView == lane \cap promoted \cap Turns
OverView ==
  [t \in Turns |->
     IF captured[t] = NULL THEN "open"
     ELSE IF pc[t] = "done" THEN "closed"
     ELSE IF pc[t] \in {"failed", "lost"} THEN "lost" ELSE "open"]

\* What a turn was matched with was accepted, and the turn was not ignored.
Matched ==
  \A t \in Turns : captured[t] # NULL => captured[t] \in accepted /\ pc[t] # "ignored"

LEMMA MatchedStep ==
  TypeOK /\ Linked /\ Queued /\ Closing /\ Matched /\ [Next]_vars => Matched'
<1> SUFFICES ASSUME TypeOK, Linked, Queued, Closing, Matched, [Next]_vars PROVE Matched'
  OBVIOUS
<1>1. pc \in [Jobs -> Labels] /\ captured \in [Jobs -> Messages \cup {NULL}]
  BY DEF TypeOK
<1> USE <1>1, JobsAssumption DEF Jobs, Goto
<1> DEFINE Fine == /\ accepted \subseteq accepted' /\ captured' = captured
                   /\ \A t \in Turns : pc'[t] = "ignored" => pc[t] \in {"ignored", "output"}
<1>2. Fine => Matched'
  BY DEF Matched, Closing
<1>3. ASSUME NEW m \in Messages, Receive(m) \/ MessageStep(m) PROVE Fine
  BY <1>3 DEF Receive, MessageStep, Enqueue, EnqueueUnstored, EnqueueRefused,
              StorePendingFails, Wake, WakeFails, Bound, Answer, jobVars
<1>4. ASSUME NEW t \in Turns, StartTurn(t) \/ Ignore(t) \/ RejectOutput(t) \/ ClearPending(t)
      PROVE  Fine
  BY <1>4 DEF StartTurn, Ignore, RejectOutput, ClearPending, jobVars
<1>5. ASSUME NEW t \in Turns, Capture(t) PROVE Matched'
  <2>1. Pending(Home(t)) \in accepted
    BY <1>5, HomeTyped DEF Capture, Queued, PendingIsQueuedWork
  <2>2. /\ captured' = [captured EXCEPT ![t] = Pending(Home(t))]
        /\ pc' = [pc EXCEPT ![t] = "service"] /\ accepted' = accepted
    BY <1>5 DEF Capture
  <2>3. QED
    BY <2>1, <2>2 DEF Matched
<1>6. ASSUME NEW j \in Jobs, BridgeStep(j) PROVE Fine
  BY <1>6, BridgeMoves DEF jobVars
<1>7. ASSUME NEW j \in Jobs, PlanRow(j) \/ UpdateRow(j) PROVE Fine
  BY <1>7 DEF PlanRow, UpdateRow, jobVars
<1>8. ASSUME NEW j \in Jobs,
             PlanFails(j) \/ UpdateFails(j) \/ AppendLane(j) \/ Promote(j) \/ Abort(j)
      PROVE  Fine
  BY <1>8 DEF PlanFails, UpdateFails, AppendLane, Promote, Abort, jobVars
<1>9. CASE \/ \E s \in Sessions : SwitchProject(s) \/ ForgetSession(s)
           \/ \E i \in Items : EditRow(i)
           \/ Crash \/ UNCHANGED vars
  BY <1>2, <1>9 DEF SwitchProject, ForgetSession, EditRow, Crash, vars, jobVars
<1> HIDE DEF Fine
<1>10. QED
  BY <1>2, <1>3, <1>4, <1>5, <1>6, <1>7, <1>8, <1>9 DEF Next, TurnStep, JobStep, BridgeStep

\* A step that hands out, matches, records and closes nothing is not seen.
LEMMA UnseenStep ==
  ASSUME accepted' = accepted, captured' = captured, RecordedView' = RecordedView,
         \A s \in Sessions : Pending(s)' = Pending(s),
         \A m \in accepted : Target(m)' = Target(m),
         \A t \in Turns : \/ captured[t] = NULL
                          \/ pc'[t] = pc[t]
                          \/ {pc[t], pc'[t]} \cap {"done", "failed", "lost"} = {}
  PROVE  UNCHANGED Work!vars
<1>1. SlotView' = SlotView
  BY DEF SlotView
<1>2. TargetView' = TargetView
  BY DEF TargetView
<1>3. StageView' = StageView
  BY DEF StageView
<1>4. MatchView' = MatchView
  BY DEF MatchView
<1>5. OverView' = OverView
  BY DEF OverView
<1>6. QED
  BY <1>1, <1>2, <1>3, <1>4, <1>5
     DEF Work!vars, SlotView, TargetView, StageView, MatchView, RecordedView, OverView

\* A step that changes one slot; what it puts there may be accepted with it.
Replaces(s, next) ==
  /\ \A x \in Sessions : Pending(x)' = IF x = s THEN next ELSE Pending(x)
  /\ next = NULL \/ next \in accepted'
  /\ \A m \in Messages : m # next => (m \in accepted' <=> m \in accepted)

\* What leaves a slot leaves it for good, because it is in no other one.
LEMMA SlotReplaced ==
  ASSUME Queued, NEW s \in Sessions, NEW next, Replaces(s, next)
  PROVE  Work!Replace(s, next)
<1> USE DEF Replaces
<1>0. PendingIsQueuedWork
  BY DEF Queued
<1>1. SlotView' = [SlotView EXCEPT ![s] = next]
  BY DEF SlotView
<1>2. ASSUME NEW m \in Messages
      PROVE  StageView'[m] = IF m = next THEN "pending"
                             ELSE IF m = SlotView[s] THEN "gone" ELSE StageView[m]
  <2>1. CASE m = next
    <3>1. Pending(s)' = m /\ m \in accepted'
      BY <2>1, NullAssumption
    <3>2. QED
      BY <2>1, <3>1 DEF StageView
  <2>2. CASE m # next /\ m = Pending(s)
    <3>1. m \in accepted /\ \A x \in Sessions : Pending(x) = m => x = s
      BY <1>0, <2>2, NullAssumption DEF PendingIsQueuedWork
    <3>2. \A x \in Sessions : Pending(x)' # m
      BY <2>2, <3>1
    <3>3. QED
      BY <2>2, <3>1, <3>2 DEF StageView, SlotView
  <2>3. CASE m # next /\ m # Pending(s)
    <3>1. (\E x \in Sessions : Pending(x)' = m) <=> (\E x \in Sessions : Pending(x) = m)
      BY <2>3
    <3>2. QED
      BY <2>3, <3>1 DEF StageView, SlotView
  <2>4. QED
    BY <2>1, <2>2, <2>3
<1>3. StageView' = [m \in Messages |-> IF m = next THEN "pending"
                                       ELSE IF m = SlotView[s] THEN "gone" ELSE StageView[m]]
  BY <1>2 DEF StageView
<1>4. QED
  BY <1>1, <1>3 DEF Work!Replace, SlotView, StageView

\* A dispatch that is stored with its event is accepted and takes the slot.
LEMMA EnqueueHandsOut ==
  ASSUME TypeOK, Linked, Queued, NEW m \in Messages, Enqueue(m)
  PROVE  \E s \in Sessions : Work!Accept(m, s)
<1> USE JobsAssumption DEF Jobs, Bridging, Goto
<1>1. /\ m \notin accepted /\ accepted' = accepted \cup {m}
      /\ pc \in [Jobs -> Labels] /\ pc' = [pc EXCEPT ![m] = "wake"]
      /\ UNCHANGED <<about, project, captured, lane, promoted>>
  BY DEF Enqueue, Queued, TypeOK, jobVars
<1>2. PICK s \in Sessions : s = Target(m)
  BY TargetTyped DEF Enqueue
<1>3. \A x : Target(x)' = Target(x)
  BY <1>1 DEF Target, Project
<1>4. Work!Replace(s, m)
  <2>1. \A x \in Sessions : Pending(x)' = IF x = s THEN m ELSE Pending(x)
    BY <1>2 DEF Enqueue, Bound, Pending, TypeOK
  <2>2. Replaces(s, m)
    BY <1>1, <2>1 DEF Replaces
  <2>3. QED
    BY <2>2, SlotReplaced
<1>5. StageView[m] = "new"
  BY <1>1 DEF StageView
<1>6. TargetView' = [TargetView EXCEPT ![m] = s]
  BY <1>1, <1>2, <1>3 DEF TargetView
<1>7. MatchView' = MatchView /\ RecordedView' = RecordedView
  BY <1>1 DEF MatchView, RecordedView
<1>8. OverView' = OverView
  BY <1>1 DEF OverView
<1>9. QED
  BY <1>4, <1>5, <1>6, <1>7, <1>8
     DEF Work!Accept, TargetView, StageView, MatchView, RecordedView, OverView

\* A dispatch the store rejects is accepted and never in the slot.
LEMMA UnstoredIsDropped ==
  ASSUME TypeOK, Linked, Queued, NEW m \in Messages, EnqueueUnstored(m)
  PROVE  \E s \in Sessions : Work!Drop(m, s)
<1> USE JobsAssumption DEF Jobs, Bridging, Goto
<1>1. /\ m \notin accepted /\ accepted' = accepted \cup {m} /\ pc[m] = "service"
      /\ pc \in [Jobs -> Labels] /\ pc' = [pc EXCEPT ![m] = "store"]
      /\ UNCHANGED <<session, about, project, captured, lane, promoted>>
  BY DEF EnqueueUnstored, Queued, TypeOK, jobVars
<1>2. PICK s \in Sessions : s = Target(m)
  BY TargetTyped DEF EnqueueUnstored
<1>3. /\ \A x : Target(x)' = Target(x)
      /\ \A x \in Sessions : Pending(x)' = Pending(x) /\ Pending(x) # m
  BY <1>1, NullAssumption DEF Target, Project, Pending, Queued, Early
<1>4. StageView[m] = "new" /\ StageView' = [StageView EXCEPT ![m] = "gone"]
  BY <1>1, <1>3 DEF StageView
<1>5. SlotView' = SlotView /\ TargetView' = [TargetView EXCEPT ![m] = s]
  BY <1>1, <1>2, <1>3 DEF SlotView, TargetView
<1>6. MatchView' = MatchView /\ RecordedView' = RecordedView /\ OverView' = OverView
  BY <1>1 DEF MatchView, RecordedView, OverView
<1>7. QED
  BY <1>4, <1>5, <1>6
     DEF Work!Drop, SlotView, TargetView, StageView, MatchView, RecordedView, OverView

\* A session that is forgotten loses what is in its slot, and nothing else.
LEMMA ForgettingEmptiesSlot ==
  ASSUME TypeOK, Queued, NEW s \in Sessions, ForgetSession(s)
  PROVE  Work!Forget(s)
<1>1. UNCHANGED <<pc, about, project, captured, accepted, lane, promoted>>
  BY DEF ForgetSession, jobVars
<1>2. \A x \in Sessions : Pending(x)' = IF x = s THEN NULL ELSE Pending(x)
  BY DEF ForgetSession, Pending, TypeOK
<1>3. Work!Replace(s, NULL)
  <2>1. Replaces(s, NULL)
    BY <1>1, <1>2, NullAssumption DEF Replaces
  <2>2. QED
    BY <2>1, SlotReplaced
<1>4. TargetView' = TargetView
  BY <1>1 DEF TargetView, Target, Project
<1>5. MatchView' = MatchView /\ RecordedView' = RecordedView /\ OverView' = OverView
  BY <1>1 DEF MatchView, RecordedView, OverView
<1>6. QED
  BY <1>3, <1>4, <1>5
     DEF Work!Forget, SlotView, TargetView, StageView, MatchView, RecordedView, OverView

LEMMA CaptureMatches ==
  ASSUME TypeOK, Linked, Queued, Closing, NEW t \in Turns, Capture(t)
  PROVE  Work!Match(t, Home(t)) /\ Home(t) \in Sessions
<1> USE JobsAssumption DEF Jobs, Goto
<1>1. /\ Home(t) \in Sessions /\ captured[t] = NULL /\ pc[t] = "output"
      /\ Pending(Home(t)) # NULL
      /\ captured \in [Jobs -> Messages \cup {NULL}] /\ pc \in [Jobs -> Labels]
      /\ captured' = [captured EXCEPT ![t] = Pending(Home(t))]
      /\ pc' = [pc EXCEPT ![t] = "service"]
      /\ UNCHANGED <<session, about, project, accepted, lane, promoted>>
  BY HomeTyped DEF Capture, Closing, TypeOK
<1>2. MatchView[t] = NULL /\ MatchView' = [MatchView EXCEPT ![t] = SlotView[Home(t)]]
  BY <1>1 DEF MatchView, SlotView
<1>3. SlotView[Home(t)] # NULL /\ SlotView' = SlotView
  BY <1>1 DEF SlotView, Pending
<1>4. StageView' = StageView
  BY <1>1 DEF StageView, Pending
<1>5. TargetView' = TargetView /\ RecordedView' = RecordedView
  BY <1>1 DEF TargetView, Target, Project, RecordedView
<1>6. OverView' = OverView
  BY <1>1 DEF OverView
<1>7. QED
  BY <1>1, <1>2, <1>3, <1>4, <1>5, <1>6
     DEF Work!Match, SlotView, TargetView, StageView, MatchView, RecordedView, OverView

\* A turn that has been matched and has not ended is under way.
LEMMA MatchedUnderway ==
  ASSUME NEW t \in Turns, captured[t] # NULL, pc[t] \notin {"done", "failed", "lost"}
  PROVE  Work!Underway(t) /\ MatchView[t] = captured[t]
BY DEF Work!Underway, MatchView

\* An answer is on record when it is in the lane and promoted.
LEMMA RecordedOnce ==
  ASSUME TypeOK, Closing, NEW t \in Turns, AppendLane(t) \/ Promote(t)
  PROVE  Work!Record(t) \/ UNCHANGED Work!vars
<1> USE DEF Goto, Jobs
<1>1. /\ pc \in [Jobs -> Labels] /\ captured[t] # NULL
      /\ pc[t] \in {"writeback", "lane", "promote"}
      /\ pc' \in {[pc EXCEPT ![t] = "promote"], [pc EXCEPT ![t] = "clear"]}
      /\ UNCHANGED <<session, about, project, captured, accepted>>
  BY DEF AppendLane, Promote, WritebackOver, Closing, Bridging, TypeOK, jobVars
<1>2. RecordedView' \in {RecordedView, RecordedView \cup {t}}
  BY DEF AppendLane, Promote, RecordedView, Closing
<1>3. \A x \in Turns : \/ captured[x] = NULL
                       \/ pc'[x] = pc[x]
                       \/ {pc[x], pc'[x]} \cap {"done", "failed", "lost"} = {}
  BY <1>1
<1>4. /\ SlotView' = SlotView /\ TargetView' = TargetView /\ StageView' = StageView
      /\ MatchView' = MatchView
  BY <1>1 DEF SlotView, TargetView, StageView, MatchView, Pending, Target, Project
<1>5. OverView' = OverView
  BY <1>1, <1>3 DEF OverView
<1>6. Work!Underway(t)
  BY <1>1, MatchedUnderway
<1>7. CASE RecordedView' = RecordedView
  BY <1>4, <1>5, <1>7
     DEF Work!vars, SlotView, TargetView, StageView, MatchView, RecordedView, OverView
<1>8. CASE RecordedView' = RecordedView \cup {t}
  BY <1>4, <1>5, <1>6, <1>8
     DEF Work!Record, SlotView, TargetView, StageView, MatchView, RecordedView, OverView
<1>9. QED
  BY <1>2, <1>7, <1>8

LEMMA ClearCloses ==
  ASSUME TypeOK, Linked, Queued, Closing, Matched, NEW t \in Turns, ClearPending(t)
  PROVE  Work!Close(t)
<1>1. /\ pc \in [Jobs -> Labels] /\ pc[t] = "clear" /\ pc' = [pc EXCEPT ![t] = "done"]
      /\ captured[t] # NULL /\ captured[t] \in Messages /\ captured[t] \in accepted
      /\ Target(captured[t]) = Home(t) /\ Home(t) \in Sessions /\ t \in lane \cap promoted
      /\ UNCHANGED <<about, project, captured, accepted, lane, promoted>>
  BY HomeTyped DEF ClearPending, Goto, Closing, Matched, TypeOK, jobVars
<1>2. Work!Underway(t) /\ MatchView[t] = captured[t] /\ t \in RecordedView
  BY <1>1, MatchedUnderway DEF RecordedView
<1>3. Work!Replace(TargetView[MatchView[t]], NULL)
  <2>1. PICK s \in Sessions : s = TargetView[MatchView[t]] /\ s = Home(t)
    BY <1>1, <1>2 DEF TargetView
  <2>2. \A x \in Sessions : Pending(x)' = IF x = s THEN NULL ELSE Pending(x)
    BY <2>1 DEF ClearPending, Pending, TypeOK, SessionType
  <2>3. Work!Replace(s, NULL)
    BY <1>1, <2>2, SlotReplaced DEF Replaces
  <2>4. QED
    BY <2>1, <2>3 DEF Work!Replace
<1>4. OverView' = [OverView EXCEPT ![t] = "closed"]
  BY <1>1 DEF OverView, Jobs
<1>5. TargetView' = TargetView /\ MatchView' = MatchView /\ RecordedView' = RecordedView
  BY <1>1 DEF TargetView, MatchView, RecordedView, Target, Project
<1>6. QED
  BY <1>2, <1>3, <1>4, <1>5
     DEF Work!Close, TargetView, MatchView, RecordedView, OverView

LEMMA AbortGivesUp ==
  ASSUME TypeOK, Closing, NEW t \in Turns, Abort(t)
  PROVE  Work!GiveUp(t)
<1> USE JobsAssumption DEF Goto, Jobs
<1>1. /\ pc \in [Jobs -> Labels] /\ captured[t] # NULL
      /\ pc[t] \in {"service", "writeback", "lane", "promote", "clear"}
      /\ pc' = [pc EXCEPT ![t] = "failed"]
      /\ UNCHANGED <<session, about, project, captured, accepted, lane, promoted>>
  BY DEF Abort, WritebackOver, Closing, Bridging, TypeOK, jobVars
<1>2. Work!Underway(t)
  BY <1>1, MatchedUnderway
<1>3. OverView' = [OverView EXCEPT ![t] = "lost"]
  BY <1>1 DEF OverView
<1>4. /\ SlotView' = SlotView /\ TargetView' = TargetView /\ StageView' = StageView
      /\ MatchView' = MatchView /\ RecordedView' = RecordedView
  BY <1>1
     DEF SlotView, TargetView, StageView, MatchView, RecordedView, Pending, Target, Project
<1>5. QED
  BY <1>2, <1>3, <1>4
     DEF Work!GiveUp, SlotView, TargetView, StageView, MatchView, RecordedView, OverView

LEMMA CrashIsSeen ==
  ASSUME TypeOK, Queued, Closing, Matched, Crash
  PROVE  Work!Crash
<1>1. /\ pc \in [Jobs -> Labels]
      /\ pc' = [j \in Jobs |-> IF Running(j) THEN "lost" ELSE pc[j]]
      /\ UNCHANGED <<session, about, project, captured, accepted, lane, promoted>>
  BY DEF Crash, TypeOK, jobVars
<1>2. ASSUME NEW t \in Turns
      PROVE  OverView'[t] = IF MatchView[t] # NULL /\ OverView[t] = "open"
                            THEN "lost" ELSE OverView[t]
  <2>1. CASE captured[t] = NULL
    BY <1>1, <2>1 DEF OverView, MatchView
  <2>2. CASE captured[t] # NULL
    <3>1. pc[t] \notin {"idle", "output", "ignored"} /\ captured'[t] # NULL
      BY <1>1, <2>2 DEF Closing, Matched
    <3>2. pc'[t] = IF pc[t] \in {"done", "failed", "lost"} THEN pc[t] ELSE "lost"
      BY <1>1, <3>1 DEF Running, Jobs
    <3>3. QED
      BY <2>2, <3>1, <3>2 DEF OverView, MatchView
  <2>3. QED
    BY <2>1, <2>2
<1>3. OverView' = [t \in Turns |-> IF MatchView[t] # NULL /\ OverView[t] = "open"
                                   THEN "lost" ELSE OverView[t]]
  BY <1>2 DEF OverView
<1>4. /\ SlotView' = SlotView /\ TargetView' = TargetView /\ StageView' = StageView
      /\ MatchView' = MatchView /\ RecordedView' = RecordedView
  BY <1>1 DEF SlotView, TargetView, StageView, MatchView, RecordedView, Pending, Target, Project
<1>5. QED
  BY <1>3, <1>4
     DEF Work!Crash, Work!Underway, SlotView, TargetView, StageView, MatchView, RecordedView,
         OverView

\* Every step of the handlers is a step of PendingWork or is not seen.
LEMMA WorkStep ==
  TypeOK /\ Linked /\ Queued /\ Closing /\ Matched /\ [Next]_vars => [Work!Next]_(Work!vars)
<1> SUFFICES ASSUME TypeOK, Linked, Queued, Closing, Matched, [Next]_vars
             PROVE  [Work!Next]_(Work!vars)
  OBVIOUS
<1>1. /\ pc \in [Jobs -> Labels] /\ about \in [Jobs -> Items \cup Messages \cup {NULL}]
      /\ accepted \subseteq Messages /\ session \in [Sessions -> SessionType]
  BY DEF TypeOK
<1> DEFINE Unseen == UNCHANGED Work!vars
           Ended == {"done", "failed", "lost"}
\* Steps of messages.
<1>2. ASSUME NEW m \in Messages, Receive(m) PROVE Unseen
  <2>1. /\ m \notin accepted
        /\ UNCHANGED <<session, captured, accepted, lane, promoted>>
        /\ \A x \in Jobs : x # m => pc'[x] = pc[x]
        /\ \A x \in Messages : x # m => project'[x] = project[x]
    BY <1>1, <1>2 DEF Receive, Goto, Linked
  <2>2. /\ \A x \in accepted : Target(x)' = Target(x)
        /\ \A x \in Turns : pc'[x] = pc[x]
    BY <1>1, <2>1, JobsAssumption DEF Target, Project, Jobs
  <2>3. QED
    BY <2>1, <2>2, UnseenStep DEF Pending, RecordedView
<1>3. ASSUME NEW m \in Messages,
             EnqueueRefused(m) \/ StorePendingFails(m) \/ Wake(m) \/ WakeFails(m)
      PROVE  Unseen
  <2>1. /\ UNCHANGED <<session, project, captured, accepted, lane, promoted>>
        /\ \A x \in Turns : pc'[x] = pc[x]
    BY <1>1, <1>3, JobsAssumption
       DEF EnqueueRefused, StorePendingFails, Wake, WakeFails, Answer, Goto, Jobs, jobVars
  <2>2. QED
    BY <2>1, UnseenStep DEF Pending, Target, Project, RecordedView
<1>4. ASSUME NEW m \in Messages, Enqueue(m) PROVE Work!Next
  BY <1>4, EnqueueHandsOut DEF Work!Next
<1>5. ASSUME NEW m \in Messages, EnqueueUnstored(m) PROVE Work!Next
  BY <1>5, UnstoredIsDropped DEF Work!Next
\* Steps of turns.
<1>6. ASSUME NEW t \in Turns, StartTurn(t) \/ Ignore(t) \/ RejectOutput(t) PROVE Unseen
  <2>1. /\ captured[t] = NULL
        /\ UNCHANGED <<session, project, captured, accepted, lane, promoted>>
        /\ \A x \in Jobs : x # t => pc'[x] = pc[x]
    BY <1>1, <1>6 DEF StartTurn, Ignore, RejectOutput, Goto, Closing, jobVars
  <2>2. /\ \A x \in accepted : Target(x)' = Target(x)
        /\ \A x \in Turns : captured[x] = NULL \/ pc'[x] = pc[x]
    BY <1>1, <2>1, JobsAssumption DEF Target, Project, Jobs
  <2>3. QED
    BY <2>1, <2>2, UnseenStep DEF Pending, RecordedView
<1>7. ASSUME NEW t \in Turns, Capture(t) PROVE Work!Next
  <2>1. PICK s \in Sessions : s = Home(t)
    BY <1>7, CaptureMatches
  <2>2. Work!Match(t, s)
    BY <1>7, <2>1, CaptureMatches DEF Work!Match
  <2>3. QED
    BY <2>2 DEF Work!Next
<1>8. ASSUME NEW t \in Turns, ClearPending(t) PROVE Work!Next
  BY <1>8, ClearCloses DEF Work!Next
\* Steps of either.
<1>9. ASSUME NEW j \in Jobs, BridgeStep(j) PROVE Unseen
  <2>1. /\ UNCHANGED <<session, about, project, captured, accepted, lane, promoted>>
        /\ pc[j] \in Bridging
        /\ \E label \in {"effects", "verify", "writeback"} : pc' = [pc EXCEPT ![j] = label]
    BY <1>9, BridgeMoves DEF jobVars
  <2>2. \A x \in Turns : pc'[x] = pc[x] \/ {pc[x], pc'[x]} \cap Ended = {}
    BY <1>1, <2>1 DEF Bridging, Jobs
  <2>3. QED
    BY <2>1, <2>2, UnseenStep DEF Pending, Target, Project, RecordedView
<1>10. ASSUME NEW j \in Jobs, PlanRow(j) \/ UpdateRow(j) PROVE Unseen
  BY <1>10, UnseenStep DEF PlanRow, UpdateRow, Pending, Target, Project, RecordedView, jobVars
<1>11. ASSUME NEW j \in Jobs, PlanFails(j) \/ UpdateFails(j) PROVE Unseen
  <2>1. /\ UNCHANGED <<session, about, project, captured, accepted, lane, promoted>>
        /\ pc[j] = "writeback" /\ pc' = [pc EXCEPT ![j] = "lane"]
    BY <1>11 DEF PlanFails, UpdateFails, Goto, jobVars
  <2>2. \A x \in Turns : pc'[x] = pc[x] \/ {pc[x], pc'[x]} \cap Ended = {}
    BY <1>1, <2>1 DEF Jobs
  <2>3. QED
    BY <2>1, <2>2, UnseenStep DEF Pending, Target, Project, RecordedView
<1>12. ASSUME NEW t \in Turns, AppendLane(t) \/ Promote(t) PROVE [Work!Next]_(Work!vars)
  BY <1>12, RecordedOnce DEF Work!Next
<1>13. ASSUME NEW t \in Turns, Abort(t) PROVE Work!Next
  BY <1>13, AbortGivesUp DEF Work!Next
<1>14. ASSUME NEW m \in Messages, AppendLane(m) \/ Promote(m) \/ Abort(m) PROVE Unseen
  <2>1. /\ UNCHANGED <<session, about, project, captured, accepted>>
        /\ lane \cup {m} = lane' \cup {m} /\ promoted \cup {m} = promoted' \cup {m}
        /\ \E label \in {"promote", "clear", "done", "failed"} : pc' = [pc EXCEPT ![m] = label]
    BY <1>14 DEF AppendLane, Promote, Abort, WritebackOver, Goto, jobVars
  <2>2. \A x \in Turns : pc'[x] = pc[x]
    BY <1>1, <2>1, JobsAssumption DEF Jobs
  <2>3. RecordedView' = RecordedView
    BY <2>1, JobsAssumption DEF RecordedView
  <2>4. QED
    BY <2>1, <2>2, <2>3, UnseenStep DEF Pending, Target, Project
\* Humans and crashes.
<1>15. ASSUME NEW s \in Sessions, SwitchProject(s) PROVE Unseen
  <2>1. \A x \in Sessions : Pending(x)' = Pending(x)
    BY <1>1, <1>15 DEF SwitchProject, Pending, SessionType
  <2>2. QED
    BY <1>15, <2>1, UnseenStep DEF SwitchProject, Target, Project, RecordedView, jobVars
<1>16. ASSUME NEW s \in Sessions, ForgetSession(s) PROVE Work!Next
  BY <1>16, ForgettingEmptiesSlot DEF Work!Next
<1>17. ASSUME NEW i \in Items, EditRow(i) PROVE Unseen
  BY <1>17, UnseenStep DEF EditRow, Pending, Target, Project, RecordedView, jobVars
<1>18. ASSUME Crash PROVE Work!Next
  BY <1>18, CrashIsSeen DEF Work!Next
<1>19. ASSUME UNCHANGED vars PROVE Unseen
  BY <1>19, UnseenStep DEF vars, Pending, Target, Project, RecordedView, jobVars
<1> HIDE DEF Unseen
<1>20. Unseen => [Work!Next]_(Work!vars)
  BY DEF Unseen
<1>21. ASSUME NEW j \in Jobs, JobStep(j) PROVE [Work!Next]_(Work!vars)
  <2>1. CASE BridgeStep(j) \/ PlanRow(j) \/ UpdateRow(j) \/ PlanFails(j) \/ UpdateFails(j)
    BY <1>9, <1>10, <1>11, <1>20, <2>1
  <2>2. CASE AppendLane(j) \/ Promote(j) \/ Abort(j)
    BY <1>12, <1>13, <1>14, <1>20, <2>2 DEF Jobs
  <2>3. QED
    BY <1>21, <2>1, <2>2 DEF JobStep, BridgeStep
<1>22. ASSUME NEW m \in Messages, MessageStep(m) \/ Receive(m) PROVE [Work!Next]_(Work!vars)
  BY <1>2, <1>3, <1>4, <1>5, <1>20, <1>22 DEF MessageStep
<1>23. ASSUME NEW t \in Turns, TurnStep(t) \/ StartTurn(t) PROVE [Work!Next]_(Work!vars)
  BY <1>6, <1>7, <1>8, <1>20, <1>23 DEF TurnStep
<1>24. QED
  BY <1>15, <1>16, <1>17, <1>18, <1>19, <1>20, <1>21, <1>22, <1>23 DEF Next

\* The handlers implement PendingWork: what is handed out is pending at most once, where
\* it was accepted for, and is closed only by an answer on record.
THEOREM WorkIsKept == Spec => ImplementsPendingWork
<1>1. Init => Matched
  BY DEF Init, Matched, Jobs
<1>2. Spec => []Matched
  BY <1>1, MatchedStep, Typing, QueuedAlways, ClosingAlways, PTL DEF Spec
<1>3. Init => Work!Init
  BY DEF Init, Work!Init, Pending, Jobs
<1>4. QED
  BY <1>2, <1>3, WorkStep, Typing, QueuedAlways, ClosingAlways, PTL
     DEF Spec, ImplementsPendingWork, Work!Spec
-----------------------------------------------------------------------------
(* Progress: accepted work is recorded.  That a step whose guard holds can be  *)
(* taken is what ENABLED says, of which the provers know nothing:              *)
(* ReadyMessages is a hypothesis.                                              *)

\* Whoever stores a dispatch, wakes its session, writes it back or gave that up has a step.
ReadyMessages ==
  \A m \in Messages :
    /\ pc[m] \in {"store", "wake"} => ENABLED <<MessageStep(m)>>_vars
    /\ pc[m] \in {"writeback", "lane"} => ENABLED <<JobStep(m)>>_vars

\* A message has one row to plan and then at most one update, and is in the lane
\* once it has come past it.
Singly ==
  \A m \in Messages :
    /\ \E i : targets[m] \subseteq {i}
    /\ \E u : planned[m] \subseteq {u}
    /\ targets[m] # {} \/ pc[m] \in {"idle", "lane"} => planned[m] = {}
    /\ pc[m] = "lane" => targets[m] = {}
    /\ pc[m] \notin {"output", "ignored", "clear"}
    /\ pc[m] \in {"promote", "done"} => m \in lane

\* What a step may do to a message.
Course(m) ==
  \/ UNCHANGED <<pc[m], targets[m], planned[m]>>
  \/ /\ pc[m] = "idle" /\ pc'[m] = "service"
     /\ \E i : targets'[m] = {i}
     /\ planned'[m] = planned[m]
  \/ /\ \/ pc[m] \in Bridging /\ pc'[m] \in {"store", "wake", "writeback"} \cup Bridging
        \/ pc[m] \in {"store", "wake"} /\ pc'[m] = "writeback"
     /\ UNCHANGED <<targets[m], planned[m]>>
  \/ /\ pc[m] = "writeback" /\ pc'[m] = pc[m]
     /\ \E i \in targets[m] : targets'[m] = targets[m] \ {i}
     /\ \E u : planned'[m] \subseteq planned[m] \cup {u}
  \/ /\ pc'[m] = pc[m] /\ targets[m] = {} /\ targets'[m] = {}
     /\ \E u \in planned[m] : planned'[m] = planned[m] \ {u}
  \/ /\ pc[m] = "writeback" /\ pc'[m] = "lane" /\ targets'[m] = {}
     /\ planned'[m] = {} \/ \E u \in planned[m] : planned'[m] = planned[m] \ {u}
  \/ /\ WritebackOver(m) /\ pc'[m] = "promote" /\ m \in lane'
     /\ UNCHANGED <<targets[m], planned[m]>>
  \/ pc[m] = "promote" /\ pc'[m] = "done" /\ UNCHANGED <<targets[m], planned[m]>>
  \/ pc'[m] = "failed" /\ UNCHANGED <<targets[m], planned[m]>>
  \/ pc'[m] \in {pc[m], "lost"} /\ targets'[m] = targets[m] /\ planned'[m] = {}

LEMMA CourseIsKept ==
  ASSUME TypeOK, Closing, [Next]_vars, NEW m \in Messages
  PROVE  Course(m) /\ lane \subseteq lane'
<1> USE JobsAssumption DEF Jobs, jobVars, budget, Goto, Fault
<1>1. /\ pc \in [Jobs -> Labels] /\ targets \in [Jobs -> SUBSET Items]
      /\ planned \in [Jobs -> SUBSET UpdateType] /\ \A t \in Turns : pc[t] \notin {"store", "wake"}
  BY DEF TypeOK, Closing
<1> DEFINE Kept == UNCHANGED <<targets[m], planned[m]>>
           Same == pc'[m] = pc[m] /\ Kept
<1>2. ASSUME NEW x \in Messages, Receive(x) PROVE Course(m) /\ lane' = lane
  <2>1. /\ lane' = lane /\ planned' = planned /\ pc[x] = "idle"
        /\ pc' = [pc EXCEPT ![x] = "service"]
        /\ \E i \in Items : targets' = [targets EXCEPT ![x] = {i}]
    BY <1>2 DEF Receive
  <2>2. CASE x = m
    BY <1>1, <2>1, <2>2 DEF Course
  <2>3. CASE x # m
    BY <1>1, <2>1, <2>3 DEF Course
  <2>4. QED
    BY <2>2, <2>3, <2>1
<1>3. ASSUME NEW x \in Messages, MessageStep(x) PROVE Course(m) /\ lane' = lane
  <2>1. /\ lane' = lane /\ planned' = planned /\ targets' = targets
        /\ \/ /\ pc[x] = "service"
              /\ \E label \in {"store", "wake", "writeback"} : pc' = [pc EXCEPT ![x] = label]
           \/ pc[x] \in {"store", "wake"} /\ pc' = [pc EXCEPT ![x] = "writeback"]
    BY <1>3 DEF MessageStep, Enqueue, EnqueueUnstored, EnqueueRefused,
              StorePendingFails, Wake, WakeFails, Bound, Answer
  <2>2. QED
    BY <1>1, <2>1 DEF Course, Bridging
<1>4. ASSUME NEW t \in Turns, StartTurn(t) \/ TurnStep(t) PROVE Course(m) /\ lane' = lane
  <2>1. /\ lane' = lane /\ planned' = planned /\ targets'[m] = targets[m]
        /\ pc'[m] = pc[m]
    BY <1>1, <1>4 DEF StartTurn, TurnStep, Capture, Ignore, RejectOutput, ClearPending
  <2>2. QED
    BY <2>1 DEF Course
<1>5. ASSUME NEW j \in Jobs, JobStep(j), j # m PROVE Course(m) /\ lane \subseteq lane'
  <2>1. CASE BridgeStep(j)
    <3>1. /\ lane' = lane /\ planned' = planned /\ targets' = targets /\ pc'[m] = pc[m]
      BY <1>1, <1>5, <2>1, BridgeMoves
    <3>2. QED
      BY <3>1 DEF Course
  <2>2. CASE PlanRow(j) \/ PlanFails(j) \/ UpdateRow(j) \/ UpdateFails(j)
    <3>1. lane' = lane /\ planned'[m] = planned[m] /\ targets'[m] = targets[m] /\ pc'[m] = pc[m]
      BY <1>1, <1>5, <2>2 DEF PlanRow, PlanFails, UpdateRow, UpdateFails
    <3>2. QED
      BY <3>1 DEF Course
  <2>3. CASE AppendLane(j) \/ Promote(j) \/ Abort(j)
    <3>1. lane \subseteq lane' /\ planned' = planned /\ targets' = targets /\ pc'[m] = pc[m]
      BY <1>1, <1>5, <2>3 DEF AppendLane, Promote, Abort
    <3>2. QED
      BY <3>1 DEF Course
  <2>4. QED
    BY <1>5, <2>1, <2>2, <2>3 DEF JobStep, BridgeStep
<1>6. ASSUME JobStep(m) PROVE Course(m) /\ lane \subseteq lane'
  <2>1. CASE BridgeStep(m)
    <3>1. /\ lane' = lane /\ planned' = planned /\ targets' = targets /\ pc[m] \in Bridging
          /\ \E label \in {"effects", "verify", "writeback"} : pc' = [pc EXCEPT ![m] = label]
      BY <2>1, BridgeMoves
    <3>2. QED
      BY <1>1, <3>1 DEF Course, Bridging
  <2>2. CASE PlanRow(m)
    <3> DEFINE plan(i) == Plan(KindOf[i], row[i], Envelope(m), Result(outcome[m]), DefaultMode(m))
               update(i) == [item |-> i, read |-> row[i].status, plan |-> plan(i)]
    <3>1. PICK i \in targets[m] :
            /\ targets' = [targets EXCEPT ![m] = @ \ {i}]
            /\ planned' = [planned EXCEPT ![m] = IF plan(i) = NULL THEN @
                                                 ELSE @ \cup {update(i)}]
      BY <2>2 DEF PlanRow
    <3>2. targets'[m] = targets[m] \ {i} /\ planned'[m] \subseteq planned[m] \cup {update(i)}
      BY <1>1, <3>1
    <3>3. pc[m] = "writeback" /\ pc' = pc /\ lane' = lane
      BY <2>2 DEF PlanRow
    <3>4. QED
      BY <3>2, <3>3 DEF Course
  <2>3. CASE PlanFails(m)
    <3>1. /\ lane' = lane /\ pc[m] = "writeback" /\ pc'[m] = "lane"
          /\ targets'[m] = {} /\ planned'[m] = {}
      BY <1>1, <2>3 DEF PlanFails
    <3>2. QED
      BY <3>1 DEF Course
  <2>4. CASE UpdateRow(m)
    <3>1. /\ lane' = lane /\ pc' = pc /\ targets' = targets /\ targets[m] = {}
          /\ \E u \in planned[m] : planned'[m] = planned[m] \ {u}
      BY <1>1, <2>4 DEF UpdateRow
    <3>2. QED
      BY <3>1 DEF Course
  <2>5. CASE UpdateFails(m)
    <3>1. /\ lane' = lane /\ pc[m] = "writeback" /\ pc'[m] = "lane" /\ targets' = targets
          /\ targets[m] = {} /\ \E u \in planned[m] : planned'[m] = planned[m] \ {u}
      BY <1>1, <2>5 DEF UpdateFails
    <3>2. QED
      BY <3>1 DEF Course
  <2>6. CASE AppendLane(m)
    <3>1. /\ WritebackOver(m) /\ lane' = lane \cup {m} /\ pc'[m] = "promote"
          /\ planned' = planned /\ targets' = targets
      BY <1>1, <2>6 DEF AppendLane
    <3>2. QED
      BY <3>1 DEF Course
  <2>7. CASE Promote(m) \/ Abort(m)
    <3>1. /\ lane' = lane /\ planned' = planned /\ targets' = targets
          /\ \/ pc[m] = "promote" /\ pc'[m] = "done"
             \/ pc'[m] = "failed"
      BY <1>1, <2>7 DEF Promote, Abort
    <3>2. QED
      BY <3>1 DEF Course
  <2>8. QED
    BY <1>6, <2>1, <2>2, <2>3, <2>4, <2>5, <2>6, <2>7 DEF JobStep, BridgeStep
<1>7. ASSUME NEW s \in Sessions, SwitchProject(s) \/ ForgetSession(s)
      PROVE  Course(m) /\ lane' = lane
  BY <1>7 DEF SwitchProject, ForgetSession, Course
<1>8. ASSUME NEW i \in Items, EditRow(i) PROVE Course(m) /\ lane' = lane
  BY <1>8 DEF EditRow, Course
<1>9. ASSUME Crash PROVE Course(m) /\ lane' = lane
  BY <1>9 DEF Crash, Course
<1>10. ASSUME UNCHANGED vars PROVE Course(m) /\ lane' = lane
  BY <1>10 DEF vars, Course
<1>11. QED
  BY <1>2, <1>3, <1>4, <1>5, <1>6, <1>7, <1>8, <1>9, <1>10 DEF Next

LEMMA SinglyStep ==
  ASSUME Singly, \A m \in Messages : Course(m) /\ lane \subseteq lane'
  PROVE  Singly'
<1> SUFFICES ASSUME NEW m \in Messages
             PROVE  /\ \E i : targets'[m] \subseteq {i}
                    /\ \E u : planned'[m] \subseteq {u}
                    /\ targets'[m] # {} \/ pc'[m] \in {"idle", "lane"} => planned'[m] = {}
                    /\ pc'[m] = "lane" => targets'[m] = {}
                    /\ pc'[m] \notin {"output", "ignored", "clear"}
                    /\ pc'[m] \in {"promote", "done"} => m \in lane'
  BY DEF Singly
<1>1. PICK i : targets[m] \subseteq {i}
  BY DEF Singly
<1>2. PICK u : planned[m] \subseteq {u}
  BY DEF Singly
<1>3. Course(m) /\ lane \subseteq lane'
  OBVIOUS
<1>4. QED
  BY <1>1, <1>2, <1>3 DEF Singly, Course, WritebackOver, Bridging

LEMMA SinglyAlways == Spec => []Singly
<1>1. Init => Singly
  BY DEF Init, Singly, Jobs
<1>2. ASSUME TypeOK, Closing, Singly, [Next]_vars PROVE Singly'
  <2>1. \A m \in Messages : Course(m) /\ lane \subseteq lane'
    BY <1>2, CourseIsKept
  <2>2. QED
    BY <1>2, <2>1, SinglyStep
<1>3. QED
  BY <1>1, <1>2, Typing, ClosingAlways, PTL DEF Spec

\* The places of an accepted message until it is recorded or comes to nothing.
AtStore(m)  == pc[m] \in {"store", "wake"}
AtPlan(m) == pc[m] = "writeback" /\ targets[m] # {}
AtUpdate(m) == pc[m] = "writeback" /\ targets[m] = {} /\ planned[m] # {}
AtEnd(m)   == pc[m] \in {"writeback", "lane"} /\ targets[m] = {} /\ planned[m] = {}
OnRecord(m) == m \in lane \/ pc[m] \in {"failed", "lost"}

FairMessage(m) == WF_vars(MessageStep(m))
FairJob(j)     == WF_vars(JobStep(j))

LEMMA EachIsFair ==
  Fairness => (\A m \in Messages : FairMessage(m)) /\ (\A j \in Jobs : FairJob(j))
BY PTL DEF Fairness, FairMessage, FairJob

\* An accepted message is at one of these places.
LEMMA AcceptedIsSomewhere ==
  ASSUME TypeOK, Queued, Singly, NEW m \in accepted
  PROVE  m \in Messages /\ (AtStore(m) \/ AtPlan(m) \/ AtUpdate(m) \/ AtEnd(m) \/ OnRecord(m))
<1>1. m \in Messages /\ pc[m] \in Labels /\ pc[m] \notin {"idle"} \cup Bridging
  BY DEF TypeOK, Queued, Jobs
<1>2. QED
  BY <1>1 DEF Singly, Labels, Bridging, AtStore, AtPlan, AtUpdate, AtEnd, OnRecord

\* No step takes a message back.
LEMMA MessageGoesOn ==
  ASSUME TypeOK, Closing, Singly, [Next]_vars, NEW m \in Messages
  PROVE  /\ AtStore(m) => (AtStore(m) \/ AtPlan(m) \/ AtUpdate(m) \/ AtEnd(m) \/ OnRecord(m))'
         /\ AtPlan(m) => (AtPlan(m) \/ AtUpdate(m) \/ AtEnd(m) \/ OnRecord(m))'
         /\ AtUpdate(m) => (AtUpdate(m) \/ AtEnd(m) \/ OnRecord(m))'
         /\ AtEnd(m) => (AtEnd(m) \/ OnRecord(m))'
<1> USE DEF AtStore, AtPlan, AtUpdate, AtEnd, OnRecord
<1>1. Course(m) /\ lane \subseteq lane'
  BY CourseIsKept
<1>2. PICK i : targets[m] \subseteq {i}
  BY DEF Singly
<1>3. PICK u : planned[m] \subseteq {u}
  BY DEF Singly
<1>4. targets[m] # {} => planned[m] = {}
  BY DEF Singly
<1>5. ASSUME AtStore(m)
      PROVE  (AtStore(m) \/ AtPlan(m) \/ AtUpdate(m) \/ AtEnd(m) \/ OnRecord(m))'
  <2>1. pc'[m] \in {"store", "wake", "writeback", "failed", "lost"}
    BY <1>1, <1>5 DEF Course, WritebackOver, Bridging
  <2>2. QED
    BY <2>1
<1>6. ASSUME AtPlan(m) PROVE (AtPlan(m) \/ AtUpdate(m) \/ AtEnd(m) \/ OnRecord(m))'
  BY <1>1, <1>2, <1>4, <1>6 DEF Course, WritebackOver, Bridging
<1>7. ASSUME AtUpdate(m) PROVE (AtUpdate(m) \/ AtEnd(m) \/ OnRecord(m))'
  BY <1>1, <1>3, <1>7 DEF Course, WritebackOver, Bridging
<1>8. ASSUME AtEnd(m) PROVE (AtEnd(m) \/ OnRecord(m))'
  BY <1>1, <1>8 DEF Course, WritebackOver, Bridging
<1>9. QED
  BY <1>5, <1>6, <1>7, <1>8

\* Its own step takes it on.
LEMMA MessageIsTakenOn ==
  ASSUME TypeOK, Closing, Singly, NEW m \in Messages
  PROVE  /\ AtStore(m) /\ MessageStep(m) => (AtPlan(m) \/ AtUpdate(m) \/ AtEnd(m))'
         /\ AtPlan(m) /\ JobStep(m) => (AtUpdate(m) \/ AtEnd(m))'
         /\ AtUpdate(m) /\ JobStep(m) => AtEnd(m)'
         /\ AtEnd(m) /\ JobStep(m) => OnRecord(m)'
<1> USE JobsAssumption DEF AtStore, AtPlan, AtUpdate, AtEnd, OnRecord, Goto, Jobs
<1>1. /\ pc \in [Jobs -> Labels] /\ targets \in [Jobs -> SUBSET Items]
      /\ planned \in [Jobs -> SUBSET UpdateType]
  BY DEF TypeOK
<1>2. PICK i : targets[m] \subseteq {i}
  BY DEF Singly
<1>3. PICK u : planned[m] \subseteq {u}
  BY DEF Singly
<1>4. ASSUME AtStore(m), MessageStep(m) PROVE (AtPlan(m) \/ AtUpdate(m) \/ AtEnd(m))'
  <2>1. pc'[m] = "writeback"
    BY <1>1, <1>4 DEF MessageStep, Enqueue, EnqueueUnstored, EnqueueRefused,
              StorePendingFails, Wake, WakeFails, Bound, Answer
  <2>2. QED
    BY <2>1
<1>5. ASSUME AtPlan(m), JobStep(m) PROVE (AtUpdate(m) \/ AtEnd(m))'
  <2>1. PlanRow(m) \/ PlanFails(m)
    BY <1>5 DEF JobStep, LoadContextsFails, Passthrough, SkipOperation, ApplyOperation,
       VerifyOperation, OperationThrows, UpdateRow, UpdateFails, AppendLane, Promote, Abort,
       WritebackOver
  <2>2. CASE PlanRow(m)
    <3>1. pc' = pc /\ \E x \in targets[m] : targets' = [targets EXCEPT ![m] = @ \ {x}]
      BY <2>2 DEF PlanRow
    <3>2. pc'[m] = "writeback" /\ targets'[m] = {}
      BY <1>1, <1>2, <1>5, <3>1
    <3>3. QED
      BY <3>2
  <2>3. CASE PlanFails(m)
    BY <1>1, <2>3 DEF PlanFails
  <2>4. QED
    BY <2>1, <2>2, <2>3
<1>6. ASSUME AtUpdate(m), JobStep(m) PROVE AtEnd(m)'
  <2>1. UpdateRow(m) \/ UpdateFails(m)
    BY <1>6 DEF JobStep, LoadContextsFails, Passthrough, SkipOperation, ApplyOperation,
       VerifyOperation, OperationThrows, PlanRow, PlanFails, AppendLane, Promote, Abort,
       WritebackOver
  <2>2. /\ targets' = targets /\ pc'[m] \in {"writeback", "lane"}
        /\ \E x \in planned[m] : planned' = [planned EXCEPT ![m] = @ \ {x}]
    BY <1>1, <1>6, <2>1 DEF UpdateRow, UpdateFails
  <2>3. targets'[m] = {} /\ planned'[m] = {}
    BY <1>1, <1>3, <1>6, <2>2
  <2>4. QED
    BY <2>2, <2>3
<1>7. ASSUME AtEnd(m), JobStep(m) PROVE OnRecord(m)'
  <2>1. AppendLane(m) \/ Abort(m)
    BY <1>7 DEF JobStep, LoadContextsFails, Passthrough, SkipOperation, ApplyOperation,
       VerifyOperation, OperationThrows, PlanRow, PlanFails, UpdateRow, UpdateFails, Promote
  <2>2. QED
    BY <1>1, <2>1 DEF AppendLane, Abort
<1>8. QED
  BY <1>4, <1>5, <1>6, <1>7

\* A dispatch that the runtime accepted is recorded in the lane, unless its handler
\* fails or the process dies: nothing else holds up the handler between the event it
\* queued and the entry (before_dispatch, from the executor to appendTurn).
THEOREM AcceptedIsRecorded ==
  FairSpec /\ []ReadyMessages => AcceptedWorkIsRecorded
<1> DEFINE Obliged == FairSpec /\ []ReadyMessages
           Inv == TypeOK /\ Queued /\ Closing /\ Singly
           Arrives(m) == m \in accepted ~> OnRecord(m)
<1>1. ASSUME NEW m \in Messages PROVE Obliged => Arrives(m)
  <2> DEFINE Store == AtStore(m)
             Plan1 == AtPlan(m)
             Update == AtUpdate(m)
             End == AtEnd(m)
             Over == OnRecord(m)
  <2>1. Fairness => FairMessage(m) /\ FairJob(m)
    BY EachIsFair DEF Jobs
  <2>2. ReadyMessages => /\ Store => ENABLED <<MessageStep(m)>>_vars
                         /\ Plan1 \/ Update \/ End => ENABLED <<JobStep(m)>>_vars
    BY DEF ReadyMessages, AtStore, AtPlan, AtUpdate, AtEnd
  <2>3. ASSUME Inv, [Next]_vars
        PROVE  /\ Store => Store' \/ Plan1' \/ Update' \/ End' \/ Over'
               /\ Plan1 => Plan1' \/ Update' \/ End' \/ Over'
               /\ Update => Update' \/ End' \/ Over'
               /\ End => End' \/ Over'
    BY <2>3, MessageGoesOn
  <2>4. ASSUME Inv
        PROVE  /\ Store /\ MessageStep(m) => Plan1' \/ Update' \/ End'
               /\ Plan1 /\ JobStep(m) => Update' \/ End'
               /\ Update /\ JobStep(m) => End'
               /\ End /\ JobStep(m) => Over'
    BY <2>4, MessageIsTakenOn
  <2>5. Inv /\ m \in accepted => Store \/ Plan1 \/ Update \/ End \/ Over
    BY AcceptedIsSomewhere
  <2>6. Spec => []Inv
    BY Typing, QueuedAlways, ClosingAlways, SinglyAlways, PTL
  <2> HIDE DEF Store, Plan1, Update, End, Over, Inv
  <2>7. Obliged => (End ~> Over)
    BY <2>1, <2>2, <2>3, <2>4, <2>6, PTL DEF FairSpec, Spec, FairJob
  <2>8. Obliged => (Update ~> End \/ Over)
    BY <2>1, <2>2, <2>3, <2>4, <2>6, PTL DEF FairSpec, Spec, FairJob
  <2>9. Obliged => (Plan1 ~> Update \/ End \/ Over)
    BY <2>1, <2>2, <2>3, <2>4, <2>6, PTL DEF FairSpec, Spec, FairJob
  <2>10. Obliged => (Store ~> Plan1 \/ Update \/ End \/ Over)
    BY <2>1, <2>2, <2>3, <2>4, <2>6, PTL DEF FairSpec, Spec, FairMessage
  <2>11. Obliged => (m \in accepted ~> Over)
    BY <2>5, <2>6, <2>7, <2>8, <2>9, <2>10, PTL DEF FairSpec
  <2>12. QED
    BY <2>11, PTL DEF Over
<1> HIDE DEF Arrives, Obliged
<1>2. Obliged => \A m \in Messages : Arrives(m)
  BY <1>1
<1>3. (\A m \in Messages : Arrives(m)) => AcceptedWorkIsRecorded
  BY PTL DEF Arrives, OnRecord, AcceptedWorkIsRecorded
<1>4. QED
  BY <1>2, <1>3, PTL DEF Obliged
-----------------------------------------------------------------------------
(* Progress: handlers do not run in circles.                                 *)

\* How far a handler is.
Phase(label) ==
  CASE label = "output"    -> 0
    [] label = "service"   -> 1
    [] label \in {"store", "wake"} -> 2
    [] label \in {"effects", "verify"} -> 3
    [] label = "writeback" -> 4
    [] label = "lane"      -> 5
    [] label = "promote"   -> 6
    [] label = "clear"     -> 7
    [] OTHER               -> 8

\* A handler comes nearer to its end: to a later phase, or within the same one to fewer
\* operations, from writing one to reading it back, to fewer rows, or to fewer updates.
Nearer(j) ==
  \/ Phase(pc[j]) < Phase(pc'[j])
  \/ /\ Phase(pc'[j]) = Phase(pc[j])
     /\ \/ Len(undone'[j]) < Len(undone[j])
        \/ /\ undone'[j] = undone[j]
           /\ \/ pc[j] = "effects" /\ pc'[j] = "verify"
              \/ /\ pc'[j] = pc[j]
                 /\ \/ targets'[j] \subseteq targets[j] /\ targets'[j] # targets[j]
                    \/ /\ targets'[j] = targets[j]
                       /\ planned'[j] \subseteq planned[j] /\ planned'[j] # planned[j]

\* A step of handler j itself.
Own(j) ==
  \/ JobStep(j)
  \/ j \in Messages /\ MessageStep(j)
  \/ j \in Turns /\ TurnStep(j)

\* Every step of a running handler takes it nearer to its end, whatever the calls it makes
\* answer, and a step of anybody else leaves it where it is or ends it with the process:
\* no handler goes round (handleSemanticBoundaryLlmOutput, runSemanticService).
HandlersAdvance ==
  [][\A j \in Jobs : Running(j) =>
       IF Own(j) THEN Nearer(j)
       ELSE \/ UNCHANGED <<pc[j], undone[j], targets[j], planned[j]>>
            \/ pc'[j] = "lost"]_vars

\* What is left of the operations after one is over is shorter.
LEMMA ShorterTail ==
  ASSUME NEW S, NEW s \in Seq(S), s # <<>>
  PROVE  Len(Tail(s)) < Len(s)
<1>1. Len(s) \in Nat /\ Len(s) # 0
  OBVIOUS
<1>2. Len(Tail(s)) = Len(s) - 1
  BY <1>1
<1>3. QED
  BY <1>1, <1>2

\* A step of the bridge writes one operation, reads it back or leaves it behind.
LEMMA BridgeAdvances ==
  ASSUME TypeOK, Operating, NEW j \in Jobs, BridgeStep(j)
  PROVE  Nearer(j)
<1> USE DEF Goto, Answer, Phase, Nearer
<1>1. pc \in [Jobs -> Labels] /\ undone \in [Jobs -> Seq(OperationType)]
  BY DEF TypeOK
<1>2. pc[j] \in {"effects", "verify"} => undone[j] # <<>> /\ undone[j] \in Seq(OperationType)
  BY <1>1 DEF Operating
<1>3. CASE LoadContextsFails(j) \/ Passthrough(j)
  <2>1. pc[j] = "service" /\ pc'[j] \in {"effects", "writeback"}
    BY <1>1, <1>3 DEF LoadContextsFails, Passthrough, Proceed
  <2>2. QED
    BY <2>1
<1>4. CASE ApplyOperation(j)
  <2>1. pc[j] = "effects" /\ pc'[j] = "verify" /\ undone' = undone
    BY <1>1, <1>4 DEF ApplyOperation
  <2>2. QED
    BY <2>1
<1>5. CASE SkipOperation(j) \/ VerifyOperation(j)
  <2>1. /\ pc[j] \in {"effects", "verify"} /\ pc'[j] \in {"effects", "writeback"}
        /\ undone'[j] = Tail(undone[j])
    BY <1>1, <1>5 DEF SkipOperation, VerifyOperation, Proceed
  <2>2. Len(Tail(undone[j])) < Len(undone[j])
    BY <1>2, <2>1, ShorterTail
  <2>3. QED
    BY <2>1, <2>2
<1>6. CASE OperationThrows(j)
  <2>1. pc[j] \in {"effects", "verify"} /\ pc'[j] = "writeback"
    BY <1>1, <1>6 DEF OperationThrows
  <2>2. QED
    BY <2>1
<1>7. QED
  BY <1>3, <1>4, <1>5, <1>6 DEF BridgeStep

\* A step of the writeback plans a row or is over with an update.
LEMMA WritebackAdvances ==
  ASSUME TypeOK, NEW j \in Jobs, Running(j),
         PlanRow(j) \/ PlanFails(j) \/ UpdateRow(j) \/ UpdateFails(j)
  PROVE  Nearer(j)
<1> USE DEF Goto, Phase, Nearer
<1>1. /\ pc \in [Jobs -> Labels] /\ targets \in [Jobs -> SUBSET Items]
      /\ planned \in [Jobs -> SUBSET UpdateType]
  BY DEF TypeOK
<1>2. CASE PlanRow(j)
  <2>1. /\ pc' = pc /\ undone' = undone
        /\ \E i \in targets[j] : targets' = [targets EXCEPT ![j] = @ \ {i}]
    BY <1>2 DEF PlanRow
  <2>2. targets'[j] \subseteq targets[j] /\ targets'[j] # targets[j]
    BY <1>1, <2>1
  <2>3. QED
    BY <2>1, <2>2
<1>3. CASE PlanFails(j) \/ UpdateFails(j)
  <2>1. pc[j] = "writeback" /\ pc'[j] = "lane"
    BY <1>1, <1>3 DEF PlanFails, UpdateFails
  <2>2. QED
    BY <2>1
<1>4. CASE UpdateRow(j)
  <2>1. /\ pc' = pc /\ undone' = undone /\ targets' = targets
        /\ \E u \in planned[j] : planned' = [planned EXCEPT ![j] = @ \ {u}]
    BY <1>4 DEF UpdateRow
  <2>2. planned'[j] \subseteq planned[j] /\ planned'[j] # planned[j]
    BY <1>1, <2>1
  <2>3. QED
    BY <2>1, <2>2
<1>5. QED
  BY <1>2, <1>3, <1>4

\* Every step of a handler takes it nearer to its end.
LEMMA OwnAdvances ==
  ASSUME TypeOK, Operating, NEW j \in Jobs, Running(j), Own(j)
  PROVE  Nearer(j)
<1>1. pc \in [Jobs -> Labels]
  BY DEF TypeOK
<1>2. CASE BridgeStep(j)
  BY <1>2, BridgeAdvances
<1>3. CASE PlanRow(j) \/ PlanFails(j) \/ UpdateRow(j) \/ UpdateFails(j)
  BY <1>3, WritebackAdvances
<1>4. CASE AppendLane(j) \/ Promote(j) \/ Abort(j)
  <2>1. \/ pc[j] \in {"writeback", "lane"} /\ pc'[j] = "promote"
        \/ pc[j] = "promote" /\ pc'[j] \in {"clear", "done"}
        \/ pc[j] \in {"service", "writeback", "lane", "promote", "clear"} /\ pc'[j] = "failed"
    BY <1>1, <1>4 DEF AppendLane, Promote, Abort, WritebackOver, Goto
  <2>2. QED
    BY <2>1 DEF Phase, Nearer
<1>5. CASE j \in Messages /\ MessageStep(j)
  <2>1. \/ pc[j] = "service" /\ pc'[j] \in {"store", "wake", "writeback"}
        \/ pc[j] \in {"store", "wake"} /\ pc'[j] = "writeback"
    BY <1>1, <1>5
       DEF MessageStep, Enqueue, EnqueueUnstored, EnqueueRefused,
              StorePendingFails, Wake, WakeFails, Bound, Answer, Goto
  <2>2. QED
    BY <2>1 DEF Phase, Nearer
<1>6. CASE j \in Turns /\ TurnStep(j)
  <2>1. \/ pc[j] = "output" /\ pc'[j] \in {"service", "ignored"}
        \/ pc[j] = "clear" /\ pc'[j] = "done"
    BY <1>1, <1>6 DEF TurnStep, Capture, Ignore, RejectOutput, ClearPending, Goto
  <2>2. QED
    BY <2>1 DEF Phase, Nearer
<1>7. QED
  BY <1>2, <1>3, <1>4, <1>5, <1>6 DEF Own, JobStep, BridgeStep

\* Nobody else's step moves a handler, but for the end of the process.
LEMMA OthersStandBy ==
  ASSUME TypeOK, NEW j \in Jobs, Running(j), ~Own(j), [Next]_vars
  PROVE  UNCHANGED <<pc[j], undone[j], targets[j], planned[j]>> \/ pc'[j] = "lost"
<1> USE DEF Goto, Answer, jobVars, budget
<1> DEFINE Stands == UNCHANGED <<pc[j], undone[j], targets[j], planned[j]>>
<1>1. /\ pc \in [Jobs -> Labels] /\ targets \in [Jobs -> SUBSET Items]
      /\ planned \in [Jobs -> SUBSET UpdateType] /\ undone \in [Jobs -> Seq(OperationType)]
  BY DEF TypeOK
<1>2. pc[j] # "idle"
  BY DEF Running
<1>3. ASSUME NEW x \in Jobs, BridgeStep(x), x # j PROVE Stands
  BY <1>1, <1>3, BridgeMoves
<1>4. ASSUME NEW x \in Jobs, x # j,
             \/ PlanRow(x) \/ PlanFails(x) \/ UpdateRow(x) \/ UpdateFails(x)
             \/ AppendLane(x) \/ Promote(x) \/ Abort(x)
      PROVE  Stands
  BY <1>1, <1>4 DEF PlanRow, PlanFails, UpdateRow, UpdateFails, AppendLane, Promote, Abort
<1>5. ASSUME NEW m \in Messages, MessageStep(m) PROVE Stands
  <2>1. m # j /\ m \in Jobs
    BY <1>5 DEF Own, Jobs
  <2>2. QED
    BY <1>1, <1>5, <2>1
       DEF MessageStep, Enqueue, EnqueueUnstored, EnqueueRefused, StorePendingFails, Wake,
           WakeFails, Bound
<1>6. ASSUME NEW t \in Turns, TurnStep(t) PROVE Stands
  <2>1. t # j /\ t \in Jobs
    BY <1>6 DEF Own, Jobs
  <2>2. QED
    BY <1>1, <1>6, <2>1 DEF TurnStep, Capture, Ignore, RejectOutput, ClearPending
<1>7. ASSUME NEW m \in Messages, Receive(m) PROVE Stands
  <2>1. m # j /\ m \in Jobs
    BY <1>2, <1>7 DEF Receive, Jobs
  <2>2. QED
    BY <1>1, <1>7, <2>1 DEF Receive
<1>8. ASSUME NEW t \in Turns, StartTurn(t) PROVE Stands
  <2>1. t # j /\ t \in Jobs
    BY <1>2, <1>8 DEF StartTurn, Jobs
  <2>2. QED
    BY <1>1, <1>8, <2>1 DEF StartTurn
<1>9. ASSUME NEW s \in Sessions, SwitchProject(s) \/ ForgetSession(s) PROVE Stands
  BY <1>9 DEF SwitchProject, ForgetSession
<1>10. ASSUME NEW i \in Items, EditRow(i) PROVE Stands
  BY <1>10 DEF EditRow
<1>11. ASSUME Crash PROVE pc'[j] = "lost"
  BY <1>11 DEF Crash
<1>12. ASSUME UNCHANGED vars PROVE Stands
  BY <1>12 DEF vars
<1>13. ASSUME NEW x \in Jobs, JobStep(x) PROVE Stands
  <2>1. x # j
    BY <1>13 DEF Own
  <2>2. QED
    BY <1>3, <1>4, <1>13, <2>1 DEF JobStep, BridgeStep
<1> HIDE DEF Stands
<1>14. Stands \/ pc'[j] = "lost"
  BY <1>5, <1>6, <1>7, <1>8, <1>9, <1>10, <1>11, <1>12, <1>13 DEF Next
<1>15. QED
  BY <1>14 DEF Stands

\* Every step of a handler takes it nearer to its end, and no other step takes it back:
\* with the fairness of its steps, EveryJobEnds, since what it has to do is finite.
THEOREM HandlersDoNotCircle == Spec => HandlersAdvance
<1>1. ASSUME TypeOK, Operating, [Next]_vars
      PROVE  [\A j \in Jobs : Running(j) =>
                IF Own(j) THEN Nearer(j)
                ELSE \/ UNCHANGED <<pc[j], undone[j], targets[j], planned[j]>>
                     \/ pc'[j] = "lost"]_vars
  BY <1>1, OwnAdvances, OthersStandBy
<1>2. QED
  BY <1>1, Typing, PTL DEF Spec, HandlersAdvance
=============================================================================
