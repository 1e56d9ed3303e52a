--------------------------- MODULE SaveFlowProofs ---------------------------
(* Proofs about SaveFlow, for any projects, commands, turns and session keys, *)
(* and any number of rebindings, unregistrations and faults.                  *)
EXTENDS SaveFlow, TLAPS

-----------------------------------------------------------------------------
(* Sessions. *)

LEMMA FieldsAre ==
  Fields = {"current_project_id", "selected_via", "current_workflow", "last_route_trace",
            "pending_save_mode", "pending_save_draft", "pending_semantic_execution"}
BY DEF Fields, CoalescedFields, ClearableFields

LEMMA RecordTyped ==
  ASSUME NEW s, s = [f \in Fields |-> s[f]],
         s.current_project_id \in ProjectOrNull, s.selected_via \in {"manual", "route"},
         s.current_workflow = NULL, s.last_route_trace = NULL,
         s.pending_save_mode \in ProjectOrNull, s.pending_save_draft \in Drafts \cup {NULL},
         s.pending_semantic_execution \in ProjectOrNull
  PROVE  s \in Sessions
BY FieldsAre DEF Sessions

\* The session that a patch adds to.
LEMMA ExistingFacts ==
  ASSUME NEW s \in Sessions \cup {NULL}
  PROVE  /\ Existing(s) \in Sessions
         /\ Existing(s).current_project_id = Binding(s)
         /\ Existing(s).pending_save_draft = Draft(s)
<1>1. CASE s = NULL
  <2>1. FreshSession \in Sessions
    BY FieldsAre, RecordTyped DEF FreshSession, ProjectOrNull
  <2>2. QED
    BY <1>1, <2>1, FieldsAre DEF Existing, FreshSession, Binding, Draft
<1>2. CASE s # NULL
  BY <1>2 DEF Existing, Binding, Draft
<1>3. QED
  BY <1>1, <1>2

\* A patch of this module.
PatchOK(patch) ==
  /\ "current_project_id" \in DOMAIN patch => patch["current_project_id"] \in ProjectOrNull
  /\ "selected_via" \in DOMAIN patch => patch["selected_via"] \in {"manual", "route"}
  /\ "current_workflow" \in DOMAIN patch => patch["current_workflow"] = NULL
  /\ "last_route_trace" \in DOMAIN patch => patch["last_route_trace"] = NULL
  /\ "pending_save_mode" \in DOMAIN patch => patch["pending_save_mode"] \in ProjectOrNull
  /\ "pending_save_draft" \in DOMAIN patch =>
       patch["pending_save_draft"] \in Drafts \cup {NULL}
  /\ "pending_semantic_execution" \in DOMAIN patch =>
       patch["pending_semantic_execution"] \in ProjectOrNull

\* The binding and the draft after a patch of a session.
BindingAfter(s, patch) ==
  IF "current_project_id" \in DOMAIN patch /\ patch["current_project_id"] # NULL
  THEN patch["current_project_id"] ELSE Binding(s)
DraftAfter(s, patch) ==
  IF "pending_save_draft" \in DOMAIN patch THEN patch["pending_save_draft"] ELSE Draft(s)

LEMMA PatchFacts ==
  ASSUME NEW s \in Sessions \cup {NULL}, NEW patch, PatchOK(patch)
  PROVE  /\ SetPatch(s, patch) \in Sessions
         /\ Binding(SetPatch(s, patch)) = BindingAfter(s, patch)
         /\ Draft(SetPatch(s, patch)) = DraftAfter(s, patch)
<1> DEFINE old == Existing(s)
           new == SetPatch(s, patch)
<1>1. /\ old \in Sessions
      /\ old.current_project_id = Binding(s) /\ old.pending_save_draft = Draft(s)
  BY ExistingFacts
<1>2. new = [f \in Fields |-> IF Overrides(patch, f) THEN patch[f] ELSE old[f]]
  BY DEF SetPatch
<1> HIDE DEF old, new
<1>3. new = [f \in Fields |-> new[f]]
  BY <1>2
<1>4. \A f \in Fields : new[f] = IF f \in DOMAIN patch /\ (f \in CoalescedFields => patch[f] # NULL)
                                THEN patch[f] ELSE old[f]
  BY <1>2 DEF Overrides
<1>5. /\ new.current_project_id =
           IF "current_project_id" \in DOMAIN patch /\ patch["current_project_id"] # NULL
           THEN patch["current_project_id"] ELSE old.current_project_id
      /\ new.pending_save_draft = IF "pending_save_draft" \in DOMAIN patch
                                  THEN patch["pending_save_draft"] ELSE old.pending_save_draft
  BY <1>4, FieldsAre DEF CoalescedFields
<1>6. /\ new.current_project_id \in ProjectOrNull /\ new.selected_via \in {"manual", "route"}
      /\ new.current_workflow = NULL /\ new.last_route_trace = NULL
      /\ new.pending_save_mode \in ProjectOrNull /\ new.pending_save_draft \in Drafts \cup {NULL}
      /\ new.pending_semantic_execution \in ProjectOrNull
  BY <1>1, <1>4, FieldsAre DEF Sessions, PatchOK
<1>7. new \in Sessions
  BY <1>3, <1>6, RecordTyped
<1>8. new # NULL
  BY <1>7, SaveAssumption
<1>9. QED
  BY <1>1, <1>5, <1>7, <1>8 DEF new, Binding, Draft, BindingAfter, DraftAfter

\* An invalidated session has neither binding nor draft.
LEMMA InvalidateFacts ==
  ASSUME NEW s \in Sessions \cup {NULL}
  PROVE  LET new == InvalidatePatch(s, [f \in {} |-> NULL])
         IN new \in Sessions /\ Binding(new) = NULL /\ Draft(new) = NULL
<1> DEFINE old == Existing(s)
           new == InvalidatePatch(s, [f \in {} |-> NULL])
<1>1. old \in Sessions
  BY ExistingFacts
<1>2. new = [f \in Fields |->
               IF f = "current_project_id" \/ f \in PendingFields THEN NULL
               ELSE IF f = "selected_via" /\ s = NULL THEN "route" ELSE old[f]]
  BY DEF InvalidatePatch, Overrides
<1> HIDE DEF old, new
<1>3. new = [f \in Fields |-> new[f]]
  BY <1>2
<1>4. /\ new.current_project_id = NULL /\ new.selected_via \in {"manual", "route"}
      /\ new.current_workflow = NULL /\ new.last_route_trace = NULL
      /\ new.pending_save_mode = NULL /\ new.pending_save_draft = NULL
      /\ new.pending_semantic_execution = NULL
  BY <1>1, <1>2, FieldsAre DEF Sessions, PendingFields
<1>5. new \in Sessions
  BY <1>3, <1>4, RecordTyped DEF ProjectOrNull
<1>6. QED
  BY <1>4, <1>5 DEF new, Binding, Draft
-----------------------------------------------------------------------------
(* Types. *)

Writing == {"resume", "fillResume", "status", "fillStatus"}
CommandLabels ==
  {"idle", "switch", "get", "lookup", "set", "done", "failed"} \cup Writing
TurnLabels ==
  {"idle", "resolve", "invalidate", "frame", "drop", "thinking", "capture", "done"}

\* Where an apply has its draft in hand.
Applying == {"lookup", "set"} \cup Writing

\* What a command and a turn have where they are.
CommandPlaced(c) ==
  /\ pc[c] \in CommandLabels
  /\ pc[c] \in {"idle", "switch", "get"} => seen[c] = NULL
  /\ pc[c] = "switch" => arg[c] \in Projects
  /\ pc[c] \in Applying \cup {"get"} => kind[c] \in CommandKinds \ {"switch"}
  /\ pc[c] \in Writing => kind[c] = "apply"
  /\ pc[c] \in Applying /\ kind[c] = "apply" => Draft(seen[c]) # NULL
TurnPlaced(t) ==
  /\ pc[t] \in TurnLabels
  /\ pc[t] = "capture" => Mode(seen[t]) # NULL
  /\ pc[t] = "drop" => arg[t] \in Keys
  /\ captured[t] # NULL => pc[t] = "done" /\ captured[t].turn = t

Placed == (\A c \in Commands : CommandPlaced(c)) /\ (\A t \in Turns : TurnPlaced(t))

LEMMA DraftTyped ==
  ASSUME NEW s \in Sessions \cup {NULL}
  PROVE  Draft(s) \in Drafts \cup {NULL}
BY DEF Draft, Sessions

\* What a call of the store finds of session k: what there is, or nothing.
Found(k, s) == s = session[k] \/ (Lost /\ s = NULL)

\* A call writes back what it has found, of session k with a binding and a draft.
Becomes(k, binding, draft) ==
  /\ session' \in [Keys -> Sessions \cup {NULL}]
  /\ Binding(session'[k]) = binding /\ Draft(session'[k]) = draft
  /\ \A other \in Keys \ {k} : Found(other, session'[other])

LEMMA FoundTyped ==
  ASSUME TypeOK, NEW k \in Keys, NEW s, Found(k, s)
  PROVE  s \in Sessions \cup {NULL} /\ Draft(s) \in {NULL, Draft(session[k])}
BY DEF TypeOK, Found, Draft

LEMMA LossFacts ==
  ASSUME TypeOK, NEW lost \in SUBSET Live, Reads(lost)
  PROVE  /\ faults' \in Nat /\ Without(lost) \in [Keys -> Sessions \cup {NULL}]
         /\ \A k \in Keys : Found(k, Without(lost)[k])
BY DEF TypeOK, Reads, Fault, Without, Found, Lost

LEMMA PruneFacts ==
  ASSUME TypeOK, Prune
  PROVE  /\ faults' \in Nat /\ session' \in [Keys -> Sessions \cup {NULL}]
         /\ \A k \in Keys : Found(k, session'[k])
BY LossFacts DEF Prune

\* store.set.
LEMMA SetFacts ==
  ASSUME TypeOK, NEW k \in Keys, NEW patch, PatchOK(patch), Set(k, patch)
  PROVE  /\ faults' \in Nat
         /\ \E old : /\ Found(k, old)
                     /\ Becomes(k, BindingAfter(old, patch), DraftAfter(old, patch))
<1>1. PICK lost \in SUBSET Live :
        Reads(lost) /\ session' = [Without(lost) EXCEPT ![k] = SetPatch(@, patch)]
  BY DEF Set
<1> DEFINE old == Without(lost)[k]
<1>2. /\ faults' \in Nat /\ Without(lost) \in [Keys -> Sessions \cup {NULL}]
      /\ \A j \in Keys : Found(j, Without(lost)[j])
  BY <1>1, LossFacts
<1>3. /\ SetPatch(old, patch) \in Sessions
      /\ Binding(SetPatch(old, patch)) = BindingAfter(old, patch)
      /\ Draft(SetPatch(old, patch)) = DraftAfter(old, patch)
  BY <1>2, PatchFacts
<1>4. /\ session' \in [Keys -> Sessions \cup {NULL}] /\ session'[k] = SetPatch(old, patch)
      /\ \A other \in Keys \ {k} : Found(other, session'[other])
  BY <1>1, <1>2, <1>3
<1>5. QED
  BY <1>2, <1>3, <1>4 DEF Becomes

LEMMA SwitchFacts ==
  ASSUME TypeOK, Placed, NEW c \in Commands, Switch(c)
  PROVE  faults' \in Nat /\ Becomes(Main, arg[c], NULL)
<1> DEFINE patch == BindingPatch(arg[c], "manual", NULL, NULL, TRUE)
<1>1. Main \in Keys /\ arg[c] \in Projects /\ arg[c] # NULL
  BY SaveAssumption DEF Switch, Placed, CommandPlaced, TypeOK
<1>2. /\ DOMAIN patch = {"current_project_id", "selected_via", "current_workflow",
                         "last_route_trace", "pending_save_mode", "pending_save_draft"}
      /\ patch["current_project_id"] = arg[c] /\ patch["selected_via"] = "manual"
      /\ patch["current_workflow"] = NULL /\ patch["last_route_trace"] = NULL
      /\ patch["pending_save_mode"] = NULL /\ patch["pending_save_draft"] = NULL
  BY DEF BindingPatch
<1>3. Set(Main, patch)
  BY DEF Switch
<1> HIDE DEF patch
<1>4. PatchOK(patch) /\ \A s : BindingAfter(s, patch) = arg[c] /\ DraftAfter(s, patch) = NULL
  BY <1>1, <1>2 DEF PatchOK, BindingAfter, DraftAfter, ProjectOrNull
<1>5. QED
  BY <1>1, <1>3, <1>4, SetFacts

\* Only a dry run keeps the draft.
LEMMA FinishFacts ==
  ASSUME TypeOK, NEW c \in Commands, Finish(c)
  PROVE  /\ faults' \in Nat
         /\ \E old : /\ Found(Main, old)
                     /\ Becomes(Main, Binding(old),
                                IF kind[c] = "dry-run" THEN Draft(old) ELSE NULL)
<1> DEFINE patch == CommandPatch(c)
<1>1. Main \in Keys /\ seen[c] \in Sessions \cup {NULL}
  BY SaveAssumption DEF TypeOK, Jobs
<1>2. Binding(seen[c]) \in ProjectOrNull
  BY <1>1 DEF Binding, Sessions, ProjectOrNull
<1>3. /\ DOMAIN patch \subseteq {"pending_save_mode", "pending_save_draft"}
      /\ "pending_save_draft" \in DOMAIN patch <=> kind[c] # "dry-run"
      /\ "pending_save_draft" \in DOMAIN patch => patch["pending_save_draft"] = NULL
      /\ "pending_save_mode" \in DOMAIN patch => patch["pending_save_mode"] \in ProjectOrNull
  BY <1>2 DEF CommandPatch, ProjectOrNull
<1>4. Set(Main, patch)
  BY DEF Finish
<1> HIDE DEF patch
<1>5. /\ PatchOK(patch)
      /\ \A s : /\ BindingAfter(s, patch) = Binding(s)
                /\ DraftAfter(s, patch) = IF kind[c] = "dry-run" THEN Draft(s) ELSE NULL
  BY <1>3 DEF PatchOK, BindingAfter, DraftAfter
<1>6. QED
  BY <1>1, <1>4, <1>5, SetFacts

LEMMA InvalidateStep ==
  ASSUME TypeOK, NEW t \in Turns, Invalidate(t)
  PROVE  faults' \in Nat /\ Becomes(Main, NULL, NULL)
<1>1. PICK lost \in SUBSET Live :
        /\ Reads(lost)
        /\ session' = [Without(lost) EXCEPT ![Main] = InvalidatePatch(@, [f \in {} |-> NULL])]
  BY DEF Invalidate
<1> DEFINE new == InvalidatePatch(Without(lost)[Main], [f \in {} |-> NULL])
<1>2. /\ faults' \in Nat /\ Without(lost) \in [Keys -> Sessions \cup {NULL}]
      /\ \A j \in Keys : Found(j, Without(lost)[j])
  BY <1>1, LossFacts
<1>3. Main \in Keys /\ new \in Sessions /\ Binding(new) = NULL /\ Draft(new) = NULL
  BY <1>2, SaveAssumption, InvalidateFacts
<1> HIDE DEF new
<1>4. /\ session' \in [Keys -> Sessions \cup {NULL}] /\ session'[Main] = new
      /\ \A other \in Keys \ {Main} : Found(other, session'[other])
  BY <1>1, <1>2, <1>3 DEF new
<1>5. QED
  BY <1>2, <1>3, <1>4 DEF Becomes

LEMMA DropModeFacts ==
  ASSUME TypeOK, Placed, NEW t \in Turns, DropMode(t)
  PROVE  /\ faults' \in Nat /\ arg[t] \in Keys
         /\ \E old : Found(arg[t], old) /\ Becomes(arg[t], Binding(old), Draft(old))
<1> DEFINE patch == [pending_save_mode |-> NULL]
<1>1. arg[t] \in Keys
  BY DEF DropMode, Placed, TurnPlaced
<1>2. Set(arg[t], patch)
  BY DEF DropMode
<1>3. PatchOK(patch) /\ \A s : BindingAfter(s, patch) = Binding(s) /\ DraftAfter(s, patch) = Draft(s)
  BY DEF PatchOK, BindingAfter, DraftAfter, ProjectOrNull
<1> HIDE DEF patch
<1>4. QED
  BY <1>1, <1>2, <1>3, SetFacts

LEMMA RebindFacts ==
  ASSUME TypeOK, Rebind
  PROVE  /\ faults' \in Nat
         /\ \E p \in Projects : \E old : Found(Main, old) /\ Becomes(Main, p, Draft(old))
<1>1. PICK p \in registry :
        Set(Main, [current_project_id |-> p, selected_via |-> "route",
                   current_workflow |-> NULL, pending_semantic_execution |-> p])
  BY DEF Rebind
<1> DEFINE patch == [current_project_id |-> p, selected_via |-> "route",
                     current_workflow |-> NULL, pending_semantic_execution |-> p]
<1>2. Main \in Keys /\ p \in Projects /\ p # NULL
  BY SaveAssumption DEF TypeOK
<1>3. PatchOK(patch) /\ \A s : BindingAfter(s, patch) = p /\ DraftAfter(s, patch) = Draft(s)
  BY <1>2 DEF PatchOK, BindingAfter, DraftAfter, ProjectOrNull
<1>4. Set(Main, patch)
  BY <1>1
<1> HIDE DEF patch
<1>5. QED
  BY <1>2, <1>3, <1>4, SetFacts

\* A turn leaves the draft alone, or makes one of its own.
LEMMA CaptureFacts ==
  ASSUME TypeOK, Placed, NEW t \in Turns, Capture(t)
  PROVE  /\ faults' \in Nat
         /\ \E old :
              /\ Found(Main, old)
              /\ \/ captured' = captured /\ Becomes(Main, Binding(old), Draft(old))
                 \/ \E d \in Drafts : /\ d.turn = t /\ captured' = [captured EXCEPT ![t] = d]
                                      /\ Becomes(Main, Binding(old), d)
<1>1. Main \in Keys /\ seen[t] \in Sessions \cup {NULL} /\ Mode(seen[t]) # NULL
  BY SaveAssumption DEF TypeOK, Jobs, Capture, Placed, TurnPlaced
<1>2. ASSUME NEW parts \in Texts PROVE DraftOf(t, parts) \in Drafts /\ DraftOf(t, parts).turn = t
  BY <1>1 DEF DraftOf, Drafts, Mode, Sessions, ProjectOrNull
<1>3. CASE captured' = captured /\ Set(Main, [pending_save_mode |-> NULL])
  <2> DEFINE patch == [pending_save_mode |-> NULL]
  <2>1. Set(Main, patch)
    BY <1>3
  <2>2. /\ PatchOK(patch)
        /\ \A s : BindingAfter(s, patch) = Binding(s) /\ DraftAfter(s, patch) = Draft(s)
    BY DEF PatchOK, BindingAfter, DraftAfter, ProjectOrNull
  <2> HIDE DEF patch
  <2>3. QED
    BY <1>1, <1>3, <2>1, <2>2, SetFacts
<1>4. ASSUME NEW parts \in Texts,
             Set(Main, [pending_save_mode |-> NULL, pending_save_draft |-> DraftOf(t, parts)]),
             captured' = [captured EXCEPT ![t] = DraftOf(t, parts)]
      PROVE  /\ faults' \in Nat
             /\ \E old : /\ Found(Main, old)
                         /\ \E d \in Drafts : /\ d.turn = t
                                              /\ captured' = [captured EXCEPT ![t] = d]
                                              /\ Becomes(Main, Binding(old), d)
  <2> DEFINE d == DraftOf(t, parts)
             patch == [pending_save_mode |-> NULL, pending_save_draft |-> d]
  <2>1. Set(Main, patch)
    BY <1>4
  <2>2. d \in Drafts /\ d.turn = t /\ captured' = [captured EXCEPT ![t] = d]
    BY <1>2, <1>4
  <2> HIDE DEF d
  <2>3. PatchOK(patch) /\ \A s : BindingAfter(s, patch) = Binding(s) /\ DraftAfter(s, patch) = d
    BY <2>2 DEF PatchOK, BindingAfter, DraftAfter, ProjectOrNull
  <2> HIDE DEF patch
  <2>4. /\ faults' \in Nat
        /\ \E old : Found(Main, old) /\ Becomes(Main, Binding(old), d)
    BY <1>1, <2>1, <2>3, SetFacts
  <2>5. QED
    BY <2>2, <2>4
<1>5. QED
  BY <1>3, <1>4 DEF Capture

\* What a stored session may be is one without a draft.
LEMMA InitFacts ==
  ASSUME Init
  PROVE  /\ session \in [Keys -> Sessions \cup {NULL}]
         /\ \A k \in Keys : Draft(session[k]) = NULL
<1>1. ASSUME NEW p \in Projects, NEW mode \in Projects \cup {NULL}
      PROVE  LET s == SetPatch(NULL, [current_project_id |-> p, pending_save_mode |-> mode])
             IN s \in Sessions /\ Draft(s) = NULL
  <2> DEFINE patch == [current_project_id |-> p, pending_save_mode |-> mode]
  <2>1. PatchOK(patch) /\ DraftAfter(NULL, patch) = Draft(NULL)
    BY DEF PatchOK, DraftAfter, ProjectOrNull
  <2> HIDE DEF patch
  <2>2. SetPatch(NULL, patch) \in Sessions /\ Draft(SetPatch(NULL, patch)) = Draft(NULL)
    BY <2>1, PatchFacts
  <2>3. QED
    BY <2>2 DEF patch, Draft
<1>2. PICK s \in Stored : session = [k \in Keys |-> IF k = Main THEN s ELSE NULL]
  BY DEF Init
<1>3. s \in Sessions \cup {NULL} /\ Draft(s) = NULL
  <2>1. CASE s = NULL
    BY <2>1 DEF Draft
  <2>2. CASE s # NULL
    <3>1. PICK p \in Projects, mode \in Projects \cup {NULL} :
            s = SetPatch(NULL, [current_project_id |-> p, pending_save_mode |-> mode])
      BY <2>2 DEF Stored
    <3>2. QED
      BY <1>1, <3>1
  <2>3. QED
    BY <2>1, <2>2
<1>4. QED
  BY <1>2, <1>3 DEF Draft

LEMMA CommandTyped ==
  ASSUME TypeOK, Placed, NEW c \in Commands, Issue(c) \/ CommandStep(c)
  PROVE  (TypeOK /\ Placed)'
<1> USE DEF TypeOK, Placed, CommandPlaced, TurnPlaced, CommandLabels, TurnLabels, Labels, Goto,
            jobVars, budget, Jobs, Applying, Writing, Documents
<1>1. /\ c \in Jobs /\ c \notin Turns /\ Main \in Keys
      /\ seen[c] \in Sessions \cup {NULL} /\ session[Main] \in Sessions \cup {NULL}
  BY SaveAssumption
<1>2. \A s \in Sessions \cup {NULL} : Draft(s) \in Drafts \cup {NULL}
  BY DraftTyped
<1>3. pc[c] \in Writing => Scope(c) \in Projects /\ Draft(seen[c]) \in Drafts
  BY <1>1, <1>2 DEF Scope, Drafts
<1>4. ASSUME NEW part \in Documents, NEW text \in Drafts \cup {NULL, EMPTY, TORN},
             pc[c] \in Writing, Put(Scope(c), part, text)
      PROVE  host' \in [Projects -> [Documents -> Drafts \cup {NULL, EMPTY, TORN}]]
  BY <1>3, <1>4 DEF Put
<1>5. CASE Issue(c)
  <2>1. PICK k \in Kinds :
          /\ kind' = [kind EXCEPT ![c] = k]
          /\ \/ /\ \E p \in registry : arg' = [arg EXCEPT ![c] = p]
                /\ pc' = [pc EXCEPT ![c] = "switch"]
             \/ k # "switch" /\ UNCHANGED arg /\ pc' = [pc EXCEPT ![c] = "get"]
    BY <1>5 DEF Issue
  <2>2. k \in CommandKinds
    BY SaveAssumption
  <2>3. pc[c] = "idle" /\ UNCHANGED <<session, registry, host, seen, captured, budget>>
    BY <1>5 DEF Issue
  <2>4. TypeOK'
    BY <1>1, <2>1, <2>2, <2>3
  <2>5. Placed'
    BY <1>1, <2>1, <2>2, <2>3
  <2>6. QED
    BY <2>4, <2>5
<1>6. CASE Switch(c)
  <2>1. session' \in [Keys -> Sessions \cup {NULL}] /\ faults' \in Nat
    BY <1>6, SwitchFacts DEF Becomes
  <2>2. TypeOK'
    BY <1>6, <2>1 DEF Switch
  <2>3. Placed'
    BY <1>1, <1>6 DEF Switch
  <2>4. QED
    BY <2>2, <2>3
<1>7. CASE Read(c)
  <2>1. /\ session' \in [Keys -> Sessions \cup {NULL}] /\ faults' \in Nat
        /\ session'[Main] \in Sessions \cup {NULL}
    BY <1>1, <1>7, PruneFacts DEF Read
  <2>2. /\ pc[c] = "get"
        /\ UNCHANGED <<registry, host, kind, arg, captured, rebinds, unregisters>>
    BY <1>7 DEF Read
  <2>3. PICK label \in {"done", "lookup", "set"}, s \in Sessions \cup {NULL} :
          /\ pc' = [pc EXCEPT ![c] = label] /\ seen' = [seen EXCEPT ![c] = s]
          /\ label # "done" /\ kind[c] = "apply" => Draft(s) # NULL
    BY <1>7, <2>1 DEF Read, Hold, Accepts
  <2>4. TypeOK'
    BY <1>1, <2>1, <2>2, <2>3
  <2>5. Placed'
    BY <1>1, <2>2, <2>3
  <2>6. QED
    BY <2>4, <2>5
<1>8. CASE Lookup(c)
  <2>1. TypeOK'
    BY <1>1, <1>8 DEF Lookup, Hold
  <2>2. Placed'
    BY <1>1, <1>8 DEF Lookup, Hold
  <2>3. QED
    BY <2>1, <2>2
<1>9. ASSUME NEW part \in Documents, Open(c, part) \/ Fill(c, part) \/ WriteFails(c, part)
      PROVE  (TypeOK /\ Placed)'
  <2>1. pc[c] \in Writing
    BY <1>9 DEF Open, Fill, WriteFails, Filling
  <2>2. PICK label \in Writing \cup {"set", "failed"} : pc' = [pc EXCEPT ![c] = label]
    BY <1>9 DEF Open, Fill, WriteFails, AfterWrite, Filling
  <2>3. host' \in [Projects -> [Documents -> Drafts \cup {NULL, EMPTY, TORN}]]
    <3>1. \A text : Overwritten(text, Draft(seen[c])) \subseteq Drafts \cup {TORN}
      BY <1>3, <2>1 DEF Overwritten
    <3>2. host' = host \/ \E text \in Drafts \cup {EMPTY, TORN} : Put(Scope(c), part, text)
      BY <1>9, <3>1 DEF Open, Fill, WriteFails
    <3>3. QED
      BY <1>4, <2>1, <3>2
  <2>4. faults' \in Nat /\ UNCHANGED <<session, registry, jobVars, seen, rebinds, unregisters>>
    BY <1>9 DEF Open, Fill, WriteFails, Fault
  <2>5. TypeOK'
    BY <1>1, <2>2, <2>3, <2>4
  <2>6. Placed'
    BY <1>1, <2>1, <2>2, <2>4
  <2>7. QED
    BY <2>5, <2>6
<1>10. CASE Finish(c)
  <2>1. session' \in [Keys -> Sessions \cup {NULL}] /\ faults' \in Nat
    BY <1>10, FinishFacts DEF Becomes
  <2>2. TypeOK'
    BY <1>10, <2>1 DEF Finish, Hold
  <2>3. Placed'
    BY <1>1, <1>10 DEF Finish, Hold
  <2>4. QED
    BY <2>2, <2>3
<1>11. QED
  BY <1>5, <1>6, <1>7, <1>8, <1>9, <1>10 DEF CommandStep

LEMMA TurnTyped ==
  ASSUME TypeOK, Placed, NEW t \in Turns, StartTurn(t) \/ TurnStep(t)
  PROVE  (TypeOK /\ Placed)'
<1> USE DEF TypeOK, Placed, CommandPlaced, TurnPlaced, CommandLabels, TurnLabels, Labels, Goto,
            jobVars, budget, Jobs, Applying, Writing
<1>1. t \in Jobs /\ t \notin Commands /\ Main \in Keys
  BY SaveAssumption
<1>2. Prune => /\ session' \in [Keys -> Sessions \cup {NULL}] /\ faults' \in Nat
               /\ session'[Main] \in Sessions \cup {NULL}
  BY <1>1, PruneFacts
<1>3. CASE StartTurn(t)
  <2>1. TypeOK'
    BY <1>1, <1>2, <1>3 DEF StartTurn, Hold
  <2>2. Placed'
    BY <1>1, <1>3 DEF StartTurn, Hold
  <2>3. QED
    BY <2>1, <2>2
<1>4. CASE Resolve(t)
  <2>1. TypeOK'
    BY <1>1, <1>4 DEF Resolve, Hold
  <2>2. Placed'
    BY <1>1, <1>4 DEF Resolve, Hold
  <2>3. QED
    BY <2>1, <2>2
<1>5. CASE Invalidate(t)
  <2>1. session' \in [Keys -> Sessions \cup {NULL}] /\ faults' \in Nat
    BY <1>5, InvalidateStep DEF Becomes
  <2>2. TypeOK'
    BY <1>5, <2>1 DEF Invalidate, Hold
  <2>3. Placed'
    BY <1>1, <1>5 DEF Invalidate, Hold
  <2>4. QED
    BY <2>2, <2>3
<1>6. CASE Frame(t)
  <2>1. PICK k \in Keys :
          \/ arg' = [arg EXCEPT ![t] = k] /\ pc' = [pc EXCEPT ![t] = "drop"]
          \/ UNCHANGED arg /\ pc' = [pc EXCEPT ![t] = "thinking"]
    BY <1>6 DEF Frame
  <2>2. /\ pc[t] = "frame" /\ Prune
        /\ UNCHANGED <<registry, host, kind, captured, seen, rebinds, unregisters>>
    BY <1>6 DEF Frame
  <2>3. TypeOK'
    BY <1>1, <1>2, <2>1, <2>2
  <2>4. Placed'
    BY <1>1, <2>1, <2>2
  <2>5. QED
    BY <2>3, <2>4
<1>7. CASE DropMode(t)
  <2>1. session' \in [Keys -> Sessions \cup {NULL}] /\ faults' \in Nat
    BY <1>7, DropModeFacts DEF Becomes
  <2>2. TypeOK'
    BY <1>7, <2>1 DEF DropMode
  <2>3. Placed'
    BY <1>1, <1>7 DEF DropMode
  <2>4. QED
    BY <2>2, <2>3
<1>8. CASE Output(t)
  <2>1. TypeOK'
    BY <1>1, <1>2, <1>8 DEF Output, Hold
  <2>2. Placed'
    BY <1>1, <1>8 DEF Output, Hold
  <2>3. QED
    BY <2>1, <2>2
<1>9. CASE Capture(t)
  <2>1. session' \in [Keys -> Sessions \cup {NULL}] /\ faults' \in Nat
    BY <1>9, CaptureFacts DEF Becomes
  <2>2. \/ captured' = captured
        \/ \E d \in Drafts : d.turn = t /\ captured' = [captured EXCEPT ![t] = d]
    BY <1>9, CaptureFacts
  <2>3. /\ pc[t] = "capture" /\ pc' = [pc EXCEPT ![t] = "done"]
        /\ seen' = [seen EXCEPT ![t] = NULL]
        /\ UNCHANGED <<registry, host, kind, arg, rebinds, unregisters>>
    BY <1>9 DEF Capture, Hold
  <2>4. TypeOK'
    BY <1>1, <2>1, <2>2, <2>3
  <2>5. Placed'
    BY <1>1, <2>2, <2>3
  <2>6. QED
    BY <2>4, <2>5
<1>10. QED
  BY <1>3, <1>4, <1>5, <1>6, <1>7, <1>8, <1>9 DEF TurnStep

LEMMA RestTyped ==
  ASSUME TypeOK, Placed, Rebind \/ Unregister \/ OtherCall \/ UNCHANGED vars
  PROVE  (TypeOK /\ Placed)'
<1>1. CASE Rebind
  <2>1. session' \in [Keys -> Sessions \cup {NULL}] /\ faults' \in Nat
    BY <1>1, RebindFacts DEF Becomes
  <2>2. QED
    BY <1>1, <2>1 DEF Rebind, TypeOK, Placed, CommandPlaced, TurnPlaced, jobVars
<1>2. CASE Unregister
  BY <1>2 DEF Unregister, TypeOK, Placed, CommandPlaced, TurnPlaced, jobVars
<1>3. CASE OtherCall
  <2>1. session' \in [Keys -> Sessions \cup {NULL}] /\ faults' \in Nat
    BY <1>3, PruneFacts DEF OtherCall
  <2>2. QED
    BY <1>3, <2>1 DEF OtherCall, TypeOK, Placed, CommandPlaced, TurnPlaced, jobVars
<1>4. CASE UNCHANGED vars
  BY <1>4 DEF vars, TypeOK, Placed, CommandPlaced, TurnPlaced, jobVars, budget
<1>5. QED
  BY <1>1, <1>2, <1>3, <1>4

\* The types of the model, with what each job has where it is.
THEOREM Typing == Spec => [](TypeOK /\ Placed)
<1>1. Init => TypeOK /\ Placed
  <2> SUFFICES ASSUME Init PROVE TypeOK /\ Placed
    OBVIOUS
  <2>1. session \in [Keys -> Sessions \cup {NULL}]
    BY InitFacts
  <2>2. TypeOK
    BY <2>1 DEF Init, TypeOK, Labels
  <2>3. Placed
    BY DEF Init, Placed, CommandPlaced, TurnPlaced, CommandLabels, TurnLabels, Applying,
       Writing, Jobs
  <2>4. QED
    BY <2>2, <2>3
<1>2. TypeOK /\ Placed /\ [Next]_vars => (TypeOK /\ Placed)'
  BY CommandTyped, TurnTyped, RestTyped DEF Next
<1>3. QED
  BY <1>1, <1>2, PTL DEF Spec

\* Every variable keeps its type, in whatever order commands, turns, rebinding
\* dispatches and faults come.
THEOREM TypeCorrect == Spec => []TypeOK
BY Typing, PTL
-----------------------------------------------------------------------------
(* Where the drafts come from. *)

\* What a turn has captured stays as it is.
LEMMA CapturedStays ==
  ASSUME TypeOK, Placed, [Next]_vars, NEW t \in Turns, captured[t] # NULL
  PROVE  captured'[t] = captured[t]
<1>1. ASSUME NEW u \in Turns, Capture(u) PROVE captured'[t] = captured[t]
  <2>1. pc[u] = "capture" /\ captured[u] = NULL
    BY <1>1 DEF Capture, Placed, TurnPlaced
  <2>2. \/ captured' = captured
        \/ \E e \in Drafts : captured' = [captured EXCEPT ![u] = e]
    BY <1>1, CaptureFacts
  <2>3. QED
    BY <2>1, <2>2 DEF TypeOK
<1>2. ASSUME ~\E u \in Turns : Capture(u) PROVE captured' = captured
  BY <1>2 DEF Next, CommandStep, TurnStep, Issue, Switch, Read, Lookup, Open, Fill,
     WriteFails, Finish, StartTurn, Resolve, Invalidate, Frame, DropMode, Output, Rebind,
     Unregister, OtherCall, vars, jobVars
<1>3. QED
  BY <1>1, <1>2

\* What changes the session, and how.
Caught(t, d) ==
  /\ Capture(t) /\ captured[t] = NULL
  /\ d \in Drafts /\ d.turn = t /\ captured'[t] = d

\* The session with the key k stays as it is found, in binding and draft.
Stays(k) ==
  \E old : Found(k, old) /\ Binding(session'[k]) = Binding(old) /\ Draft(session'[k]) = Draft(old)

LEMMA FoundStays ==
  ASSUME NEW k, Found(k, session'[k])
  PROVE  Stays(k)
BY DEF Stays

LEMMA CommandMoves ==
  ASSUME TypeOK, Placed, NEW c \in Commands, Issue(c) \/ CommandStep(c), NEW k \in Keys
  PROVE  \/ Stays(k)
         \/ Switch(c) /\ k = Main /\ Draft(session'[k]) = NULL
         \/ /\ Finish(c) /\ k = Main /\ kind[c] # "dry-run" /\ Draft(session'[k]) = NULL
            /\ \E old : Found(k, old) /\ Binding(session'[k]) = Binding(old)
<1>1. Main \in Keys
  BY SaveAssumption
<1>2. CASE Switch(c)
  BY <1>1, <1>2, SwitchFacts, FoundStays DEF Becomes
<1>3. CASE Finish(c)
  <2>1. PICK old : /\ Found(Main, old)
                   /\ Becomes(Main, Binding(old), IF kind[c] = "dry-run" THEN Draft(old) ELSE NULL)
    BY <1>3, FinishFacts
  <2>2. CASE k # Main
    BY <1>1, <2>1, <2>2, FoundStays DEF Becomes
  <2>3. CASE k = Main
    BY <1>3, <2>1, <2>3 DEF Becomes, Stays
  <2>4. QED
    BY <2>2, <2>3
<1>4. CASE Read(c)
  BY <1>4, PruneFacts, FoundStays DEF Read
<1>5. ASSUME ~Switch(c), ~Finish(c), ~Read(c) PROVE Stays(k)
  <2>1. session' = session
    BY <1>5 DEF CommandStep, Issue, Lookup, Open, Fill, WriteFails
  <2>2. QED
    BY <2>1, FoundStays DEF Found
<1>6. QED
  BY <1>2, <1>3, <1>4, <1>5

LEMMA TurnMoves ==
  ASSUME TypeOK, Placed, NEW t \in Turns, StartTurn(t) \/ TurnStep(t), NEW k \in Keys
  PROVE  \/ Stays(k)
         \/ Invalidate(t) /\ k = Main /\ Draft(session'[k]) = NULL
         \/ /\ Caught(t, Draft(session'[k])) /\ k = Main
            /\ \E old : Found(k, old) /\ Binding(session'[k]) = Binding(old)
<1>1. Main \in Keys
  BY SaveAssumption
<1>2. CASE Invalidate(t)
  BY <1>1, <1>2, InvalidateStep, FoundStays DEF Becomes
<1>3. CASE DropMode(t)
  <2>1. arg[t] \in Keys /\ \E old : Found(arg[t], old) /\ Becomes(arg[t], Binding(old), Draft(old))
    BY <1>3, DropModeFacts
  <2>2. QED
    BY <2>1, FoundStays DEF Becomes, Stays
<1>4. CASE Capture(t)
  <2>1. captured[t] = NULL
    BY <1>4 DEF Capture, Placed, TurnPlaced
  <2>2. PICK old :
          /\ Found(Main, old)
          /\ \/ captured' = captured /\ Becomes(Main, Binding(old), Draft(old))
             \/ \E d \in Drafts : /\ d.turn = t /\ captured' = [captured EXCEPT ![t] = d]
                                  /\ Becomes(Main, Binding(old), d)
    BY <1>4, CaptureFacts
  <2>3. CASE k # Main
    BY <1>1, <2>2, <2>3, FoundStays DEF Becomes
  <2>4. CASE k = Main /\ Becomes(Main, Binding(old), Draft(old))
    BY <2>2, <2>4 DEF Becomes, Stays
  <2>5. ASSUME k = Main, NEW d \in Drafts, d.turn = t, captured' = [captured EXCEPT ![t] = d],
               Becomes(Main, Binding(old), d)
        PROVE  /\ Caught(t, Draft(session'[k]))
               /\ Found(k, old) /\ Binding(session'[k]) = Binding(old)
    BY <1>4, <2>1, <2>2, <2>5 DEF Becomes, Caught, TypeOK
  <2>6. QED
    BY <2>2, <2>3, <2>4, <2>5
<1>5. CASE StartTurn(t) \/ Frame(t) \/ Output(t)
  BY <1>5, PruneFacts, FoundStays DEF StartTurn, Frame, Output
<1>6. CASE Resolve(t)
  <2>1. session' = session
    BY <1>6 DEF Resolve
  <2>2. QED
    BY <2>1, FoundStays DEF Found
<1>7. QED
  BY <1>2, <1>3, <1>4, <1>5, <1>6 DEF TurnStep

\* What a step does to a binding and a draft.
LEMMA SessionStep ==
  ASSUME TypeOK, Placed, [Next]_vars, NEW k \in Keys
  PROVE  \/ Stays(k)
         \/ k = Main /\ (\E c \in Commands : Switch(c)) /\ Draft(session'[k]) = NULL
         \/ k = Main /\ (\E t \in Turns : Invalidate(t)) /\ Draft(session'[k]) = NULL
         \/ /\ k = Main /\ (\E c \in Commands : Finish(c) /\ kind[c] # "dry-run")
            /\ Draft(session'[k]) = NULL
            /\ \E old : Found(k, old) /\ Binding(session'[k]) = Binding(old)
         \/ /\ k = Main /\ (\E t \in Turns : Caught(t, Draft(session'[k])))
            /\ \E old : Found(k, old) /\ Binding(session'[k]) = Binding(old)
         \/ /\ k = Main /\ Rebind
            /\ \E old : Found(k, old) /\ Draft(session'[k]) = Draft(old)
<1>1. CASE Rebind
  <2>1. PICK p \in Projects : \E old : Found(Main, old) /\ Becomes(Main, p, Draft(old))
    BY <1>1, RebindFacts
  <2>2. PICK old : Found(Main, old) /\ Becomes(Main, p, Draft(old))
    BY <2>1
  <2>3. CASE k # Main
    BY <2>2, <2>3, FoundStays DEF Becomes
  <2>4. CASE k = Main
    BY <1>1, <2>2, <2>4 DEF Becomes
  <2>5. QED
    BY <2>3, <2>4
<1>2. CASE OtherCall
  BY <1>2, PruneFacts, FoundStays DEF OtherCall
<1>3. CASE Unregister \/ UNCHANGED vars
  <2>1. session' = session
    BY <1>3 DEF Unregister, vars
  <2>2. QED
    BY <2>1, FoundStays DEF Found
<1>4. QED
  BY <1>1, <1>2, <1>3, CommandMoves, TurnMoves DEF Next

\* A draft appears in a session only when its turn is captured.
LEMMA DraftStep ==
  ASSUME TypeOK, Placed, [Next]_vars, NEW k \in Keys
  PROVE  \/ Draft(session'[k]) \in {NULL, Draft(session[k])}
         \/ k = Main /\ \E t \in Turns : Caught(t, Draft(session'[k]))
<1>1. \A s : Found(k, s) => Draft(s) \in {NULL, Draft(session[k])}
  BY FoundTyped
<1>2. QED
  BY <1>1, SessionStep DEF Stays

\* A pending draft, also one that a job has read, is what its turn was captured as.
Known(d) == d # NULL => captured[d.turn] = d

LEMMA KnownStays ==
  ASSUME TypeOK, Placed, [Next]_vars, NEW d \in Drafts \cup {NULL}, Known(d)
  PROVE  d # NULL => captured'[d.turn] = d
<1>1. CASE d # NULL
  BY <1>1, CapturedStays DEF Known, Drafts
<1>2. QED
  BY <1>1

Remembered ==
  /\ \A k \in Keys : Known(Draft(session[k]))
  /\ \A j \in Jobs : Known(Draft(seen[j]))

LEMMA SessionsKnown ==
  ASSUME TypeOK, Placed, Remembered, [Next]_vars, NEW k \in Keys
  PROVE  Known(Draft(session[k]))'
<1>1. Draft(session[k]) \in Drafts \cup {NULL}
  BY DraftTyped DEF TypeOK
<1>2. Known(Draft(session[k]))
  BY DEF Remembered
<1>3. Draft(session[k]) # NULL => captured'[Draft(session[k]).turn] = Draft(session[k])
  BY <1>1, <1>2, KnownStays
<1>4. QED
  BY <1>3, DraftStep DEF Known, Caught, Draft

\* What a job has read is what it had read, nothing, or the main session as a call
\* has found it.
LEMMA SeenStep ==
  ASSUME TypeOK, [Next]_vars, NEW j \in Jobs
  PROVE  seen'[j] \in {seen[j], NULL, session'[Main]}
<1> USE DEF TypeOK, Hold, Jobs
<1>1. ASSUME NEW c \in Commands, Issue(c) \/ CommandStep(c)
      PROVE  seen'[j] \in {seen[j], NULL, session'[Main]}
  BY <1>1 DEF Issue, CommandStep, Switch, Read, Lookup, Open, Fill, WriteFails, Finish
<1>2. ASSUME NEW t \in Turns, StartTurn(t) \/ TurnStep(t)
      PROVE  seen'[j] \in {seen[j], NULL, session'[Main]}
  BY <1>2 DEF TurnStep, StartTurn, Resolve, Invalidate, Frame, DropMode, Output, Capture
<1>3. ASSUME Rebind \/ Unregister \/ OtherCall \/ UNCHANGED vars PROVE seen' = seen
  BY <1>3 DEF Rebind, Unregister, OtherCall, vars
<1>4. QED
  BY <1>1, <1>2, <1>3 DEF Next

LEMMA SeenKnown ==
  ASSUME TypeOK, Placed, Remembered, [Next]_vars, NEW j \in Jobs
  PROVE  Known(Draft(seen[j]))'
<1>1. Main \in Keys /\ Draft(seen[j]) \in Drafts \cup {NULL}
  BY SaveAssumption, DraftTyped DEF TypeOK
<1>2. Known(Draft(seen[j]))
  BY DEF Remembered
<1>3. Draft(seen[j]) # NULL => captured'[Draft(seen[j]).turn] = Draft(seen[j])
  BY <1>1, <1>2, KnownStays
<1>4. Draft(session'[Main]) # NULL => captured'[Draft(session'[Main]).turn] = Draft(session'[Main])
  BY <1>1, SessionsKnown DEF Known, Draft
<1>5. QED
  BY <1>3, <1>4, SeenStep DEF Known, Draft

LEMMA RememberedAlways == Spec => [](TypeOK /\ Placed /\ Remembered)
<1>1. Init => Remembered
  BY InitFacts DEF Init, Remembered, Known, Draft
<1>2. TypeOK /\ Placed /\ Remembered /\ [Next]_vars => Remembered'
  BY SessionsKnown, SeenKnown DEF Remembered
<1>3. QED
  BY <1>1, <1>2, Typing, PTL DEF Spec

\* A draft that is gone stays gone, whatever commands and turns have read before.
THEOREM DraftsStayAway == Spec => DraftsDoNotReturn
<1>1. TypeOK /\ Placed /\ [Next]_vars => [\A t \in Turns : StaysAway(t)]_vars
  <2> SUFFICES ASSUME TypeOK, Placed, [Next]_vars, NEW t \in Turns, captured[t] # NULL,
                      Draft(session[Main]) # captured[t]
               PROVE  Draft(session'[Main]) # captured[t]
    BY DEF StaysAway
  <2>1. captured[t].turn = t /\ Main \in Keys
    BY SaveAssumption DEF Placed, TurnPlaced
  <2>2. QED
    BY <2>1, DraftStep DEF Caught
<1>2. QED
  BY <1>1, Typing, PTL DEF Spec, DraftsDoNotReturn
-----------------------------------------------------------------------------
(* Where the text of a document comes from. *)

\* An apply of project p that has come to its documents, where it keeps its draft.
Past == Writing \cup {"set", "done", "failed"}
Writes(c, p) == Applies(c, p) /\ pc[c] \in Past

\* A step of an apply with a document.
WriteStep(c, part) == Open(c, part) \/ Fill(c, part) \/ WriteFails(c, part)

LEMMA DocumentNames ==
  /\ Filling("resume") = "fillResume" /\ Filling("status") = "fillStatus"
  /\ \A part \in Documents : Filling(part) \in Writing /\ part \in Writing
BY DEF Filling, Documents, Writing

LEMMA WriterSteps ==
  ASSUME TypeOK, Placed, [Next]_vars, NEW c \in Commands, pc[c] \in Past, kind[c] = "apply",
         Draft(seen[c]) # NULL
  PROVE  /\ seen'[c] = seen[c] /\ kind'[c] = "apply"
         /\ \/ pc'[c] = pc[c] \/ Finish(c)
            \/ \E part \in Documents : WriteStep(c, part)
<1> USE DEF TypeOK, Jobs, Goto, Hold, Past, Writing
<1>1. c \notin Turns
  BY SaveAssumption
<1>2. ASSUME NEW x \in Commands, Issue(x)
      PROVE  seen'[c] = seen[c] /\ kind'[c] = kind[c] /\ pc'[c] = pc[c]
  BY <1>2 DEF Issue
<1>3. ASSUME NEW x \in Commands, CommandStep(x), x # c
      PROVE  seen'[c] = seen[c] /\ kind'[c] = kind[c] /\ pc'[c] = pc[c]
  <2>1. \E label : pc' = [pc EXCEPT ![x] = label]
    BY <1>3 DEF CommandStep, Switch, Read, Lookup, Open, Fill, WriteFails, Finish
  <2>2. seen' = seen \/ \E s : seen' = [seen EXCEPT ![x] = s]
    BY <1>3 DEF CommandStep, Switch, Read, Lookup, Open, Fill, WriteFails, Finish
  <2>3. kind' = kind
    BY <1>3 DEF CommandStep, Switch, Read, Lookup, Open, Fill, WriteFails, Finish, jobVars
  <2>4. QED
    BY <1>3, <2>1, <2>2, <2>3
<1>4. ASSUME CommandStep(c)
      PROVE  /\ seen'[c] = seen[c] /\ kind'[c] = kind[c]
             /\ Finish(c) \/ \E part \in Documents : WriteStep(c, part)
  <2>1. ~Switch(c) /\ ~Read(c) /\ ~Lookup(c)
    BY DEF Switch, Read, Lookup
  <2>2. Finish(c) \/ \E part \in Documents : WriteStep(c, part)
    BY <1>4, <2>1 DEF CommandStep, WriteStep
  <2>3. UNCHANGED <<seen, kind>>
    BY <2>2 DEF Finish, WriteStep, Open, Fill, WriteFails, jobVars
  <2>4. QED
    BY <2>2, <2>3
<1>5. ASSUME NEW t \in Turns, StartTurn(t) \/ TurnStep(t)
      PROVE  seen'[c] = seen[c] /\ kind'[c] = kind[c] /\ pc'[c] = pc[c]
  <2>1. \E label : pc' = [pc EXCEPT ![t] = label]
    BY <1>5 DEF TurnStep, StartTurn, Resolve, Invalidate, Frame, DropMode, Output, Capture
  <2>2. seen' = seen \/ \E s : seen' = [seen EXCEPT ![t] = s]
    BY <1>5 DEF TurnStep, StartTurn, Resolve, Invalidate, Frame, DropMode, Output, Capture
  <2>3. kind' = kind
    BY <1>5 DEF TurnStep, StartTurn, Resolve, Invalidate, Frame, DropMode, Output, Capture,
       jobVars
  <2>4. QED
    BY <1>1, <2>1, <2>2, <2>3
<1>6. ASSUME Rebind \/ Unregister \/ OtherCall \/ UNCHANGED vars
      PROVE  seen'[c] = seen[c] /\ kind'[c] = kind[c] /\ pc'[c] = pc[c]
  BY <1>6 DEF Rebind, Unregister, OtherCall, vars, jobVars
<1>7. QED
  BY <1>2, <1>3, <1>4, <1>5, <1>6 DEF Next

\* An apply that has come to its documents keeps its draft; one that has failed
\* stays so; one that has truncated a document fills it or fails.
LEMMA WriterStays ==
  ASSUME TypeOK, Placed, [Next]_vars, NEW c \in Commands, NEW p, Writes(c, p)
  PROVE  /\ Writes(c, p)' /\ seen'[c] = seen[c] /\ kind'[c] = kind[c]
         /\ pc[c] = "failed" => pc'[c] = "failed"
         /\ \A part \in Documents : pc[c] = Filling(part) =>
              pc'[c] \in {Filling(part), "failed"} \/ Fill(c, part)
<1>1. /\ pc[c] \in Past /\ kind[c] = "apply" /\ Draft(seen[c]) # NULL
      /\ Draft(seen[c]).project = p
  BY DEF Writes, Applies
<1>2. /\ seen'[c] = seen[c] /\ kind'[c] = "apply"
      /\ \/ pc'[c] = pc[c] \/ Finish(c)
         \/ \E part \in Documents : WriteStep(c, part)
  BY <1>1, WriterSteps
<1>3. pc[c] \in Labels /\ (Finish(c) => pc[c] = "set" /\ pc'[c] = "done")
  BY <1>1, <1>2 DEF Finish, Goto, TypeOK, Jobs
<1>4. ASSUME NEW part \in Documents, WriteStep(c, part)
      PROVE  /\ pc[c] \in {part, Filling(part)} /\ pc'[c] \in Past
             /\ pc[c] = Filling(part) => pc'[c] = "failed" \/ Fill(c, part)
  <2>1. part # Filling(part)
    BY DEF Documents, Filling
  <2>2. CASE Open(c, part)
    BY <2>1, <2>2, DocumentNames DEF Open, Goto, TypeOK, Jobs, Past
  <2>3. CASE Fill(c, part)
    BY <2>3 DEF Fill, Goto, TypeOK, Jobs, Past, AfterWrite, Writing
  <2>4. CASE WriteFails(c, part)
    BY <2>4 DEF WriteFails, Goto, TypeOK, Jobs, Past
  <2>5. QED
    BY <1>4, <2>2, <2>3, <2>4 DEF WriteStep
<1>5. pc'[c] \in Past
  BY <1>1, <1>2, <1>3, <1>4 DEF Past
<1>6. pc[c] = "failed" => pc'[c] = "failed"
  BY <1>2, <1>3, <1>4 DEF Documents, Filling
<1>7. ASSUME NEW part \in Documents, pc[c] = Filling(part)
      PROVE  pc'[c] \in {Filling(part), "failed"} \/ Fill(c, part)
  <2>1. \A other \in Documents : pc[c] \in {other, Filling(other)} => other = part
    BY <1>7 DEF Documents, Filling
  <2>2. pc[c] # "set"
    BY <1>7 DEF Documents, Filling
  <2>3. QED
    BY <1>2, <1>3, <1>4, <1>7, <2>1, <2>2
<1>8. Writes(c, p)'
  BY <1>1, <1>2, <1>5 DEF Writes, Applies, Draft
<1>9. QED
  BY <1>1, <1>2, <1>6, <1>7, <1>8

\* A step with a document.
LEMMA WritingFacts ==
  ASSUME TypeOK, Placed, NEW c \in Commands, NEW part \in Documents, WriteStep(c, part)
  PROVE  /\ Scope(c) \in Projects /\ Draft(seen[c]) \in Drafts /\ Writes(c, Scope(c))
         /\ \A p \in Projects, other \in Documents :
              <<p, other>> # <<Scope(c), part>> => host'[p][other] = host[p][other]
         /\ \/ host'[Scope(c)][part] = host[Scope(c)][part] /\ pc'[c] = "failed"
            \/ host'[Scope(c)][part] = TORN /\ pc'[c] = "failed"
            \/ host'[Scope(c)][part] = EMPTY /\ pc'[c] = Filling(part)
            \/ /\ pc'[c] = AfterWrite(c, part)
               /\ pc[c] = Filling(part)
               /\ host'[Scope(c)][part] \in Overwritten(host[Scope(c)][part], Draft(seen[c]))
<1>1. pc[c] \in {part, Filling(part)} /\ pc[c] \in Writing
  BY DocumentNames DEF WriteStep, Open, Fill, WriteFails
<1>2. kind[c] = "apply" /\ Draft(seen[c]) # NULL /\ seen[c] \in Sessions \cup {NULL}
  BY <1>1 DEF Placed, CommandPlaced, Applying, TypeOK, Jobs
<1>3. Draft(seen[c]) \in Drafts
  BY <1>2, DraftTyped
<1>4. Scope(c) = Draft(seen[c]).project /\ Scope(c) \in Projects /\ Writes(c, Scope(c))
  BY <1>1, <1>2, <1>3 DEF Scope, Drafts, Writes, Applies, Past
<1>5. ASSUME NEW text, Put(Scope(c), part, text)
      PROVE  /\ host'[Scope(c)][part] = text
             /\ \A p \in Projects, other \in Documents :
                  <<p, other>> # <<Scope(c), part>> => host'[p][other] = host[p][other]
  BY <1>4, <1>5 DEF Put, TypeOK
<1>6. c \in Jobs
  BY DEF Jobs
<1>7. CASE Open(c, part)
  BY <1>3, <1>4, <1>5, <1>6, <1>7 DEF Open, Goto, TypeOK
<1>8. CASE Fill(c, part)
  BY <1>3, <1>4, <1>5, <1>6, <1>8 DEF Fill, Goto, TypeOK
<1>9. CASE WriteFails(c, part)
  BY <1>3, <1>4, <1>5, <1>6, <1>9 DEF WriteFails, Goto, TypeOK
<1>10. QED
  BY <1>7, <1>8, <1>9 DEF WriteStep

LEMMA HostStep ==
  ASSUME [Next]_vars
  PROVE  host' = host \/ \E c \in Commands, part \in Documents : WriteStep(c, part)
BY DEF Next, CommandStep, TurnStep, Issue, Switch, Read, Lookup, Finish, StartTurn, Resolve,
   Invalidate, Frame, DropMode, Output, Capture, Rebind, Unregister, OtherCall, vars, WriteStep

\* How a document changes.
LEMMA TextStep ==
  ASSUME TypeOK, Placed, [Next]_vars, NEW p \in Projects, NEW part \in Documents
  PROVE  \/ host'[p][part] = host[p][part]
         \/ \E c \in Commands :
              /\ Writes(c, p) /\ Draft(seen[c]) \in Drafts
              /\ \/ host'[p][part] = TORN /\ pc'[c] = "failed"
                 \/ host'[p][part] = EMPTY /\ pc'[c] = Filling(part)
                 \/ /\ pc[c] = Filling(part)
                    /\ host'[p][part] \in Overwritten(host[p][part], Draft(seen[c]))
<1>1. CASE host' = host
  BY <1>1
<1>2. ASSUME NEW c \in Commands, NEW other \in Documents, WriteStep(c, other),
             <<p, part>> = <<Scope(c), other>>
      PROVE  \/ host'[p][part] = host[p][part]
             \/ /\ Writes(c, p) /\ Draft(seen[c]) \in Drafts
                /\ \/ host'[p][part] = TORN /\ pc'[c] = "failed"
                   \/ host'[p][part] = EMPTY /\ pc'[c] = Filling(part)
                   \/ /\ pc[c] = Filling(part)
                      /\ host'[p][part] \in Overwritten(host[p][part], Draft(seen[c]))
  BY <1>2, WritingFacts
<1>3. ASSUME NEW c \in Commands, NEW other \in Documents, WriteStep(c, other),
             <<p, part>> # <<Scope(c), other>>
      PROVE  host'[p][part] = host[p][part]
  BY <1>3, WritingFacts
<1>4. QED
  BY <1>1, <1>2, <1>3, HostStep

\* A command comes to fill a document when it has opened it.
LEMMA FillingStep ==
  ASSUME TypeOK, Placed, [Next]_vars, NEW c \in Commands, NEW p, NEW part \in Documents,
         Writes(c, p)', pc'[c] = Filling(part)
  PROVE  \/ pc[c] = Filling(part) /\ Writes(c, p)
         \/ Open(c, part) /\ Scope(c) = p
<1> USE DEF TypeOK, Jobs, Goto, Hold
<1>1. c \notin Turns /\ Filling(part) \in {"fillResume", "fillStatus"}
  BY SaveAssumption DEF Filling
<1>2. pc'[c] = pc[c] \/ \E other \in Documents : WriteStep(c, other)
  <2>1. ASSUME NEW x \in Commands, Issue(x) \/ CommandStep(x), x # c PROVE pc'[c] = pc[c]
    BY <2>1 DEF Issue, CommandStep, Switch, Read, Lookup, Open, Fill, WriteFails, Finish
  <2>2. ASSUME Issue(c) \/ CommandStep(c) PROVE \E other \in Documents : WriteStep(c, other)
    BY <1>1, <2>2 DEF Issue, CommandStep, Switch, Read, Lookup, Finish, WriteStep
  <2>3. ASSUME NEW t \in Turns, StartTurn(t) \/ TurnStep(t) PROVE pc'[c] = pc[c]
    BY <1>1, <2>3 DEF TurnStep, StartTurn, Resolve, Invalidate, Frame, DropMode, Output, Capture
  <2>4. ASSUME Rebind \/ Unregister \/ OtherCall \/ UNCHANGED vars PROVE pc'[c] = pc[c]
    BY <2>4 DEF Rebind, Unregister, OtherCall, vars
  <2>5. QED
    BY <2>1, <2>2, <2>3, <2>4 DEF Next
<1>3. pc[c] = Filling(part) \/ Open(c, part)
  <2>1. ASSUME NEW other \in Documents, WriteStep(c, other) PROVE Open(c, part)
    BY <1>1, <2>1 DEF WriteStep, Open, Fill, WriteFails, AfterWrite, Filling, Documents
  <2>2. QED
    BY <1>2, <2>1
<1>4. /\ pc[c] \in Past /\ kind[c] = "apply" /\ Draft(seen[c]) # NULL
      /\ Scope(c) = Draft(seen[c]).project
  <2>1. pc[c] \in Writing
    BY <1>3, DocumentNames DEF Open
  <2>2. QED
    BY <2>1 DEF Placed, CommandPlaced, Applying, Past, Scope
<1>5. seen'[c] = seen[c]
  BY <1>4, WriterSteps
<1>6. Draft(seen[c]).project = p
  BY <1>5 DEF Writes, Applies, Draft
<1>7. QED
  BY <1>3, <1>4, <1>6 DEF Writes, Applies

\* The text of a document is of an apply that keeps it in hand; a truncated text
\* or a mixture has the applies that made it.
Sourced(p, part) ==
  LET text == host[p][part]
  IN /\ text \in Drafts => \E c \in Commands : Writes(c, p) /\ Draft(seen[c]) = text
     /\ text = EMPTY =>
          \E c \in Commands : Writes(c, p) /\ pc[c] \in {Filling(part), "failed"}
     /\ text = TORN =>
          \E c, other \in Commands :
            /\ Writes(c, p) /\ Writes(other, p)
            /\ pc[c] = "failed" \/ Draft(seen[c]) # Draft(seen[other])
     /\ text = NULL => \A c \in Commands : Writes(c, p) => pc[c] # Filling(part)
AllSourced == \A p \in Projects, part \in Documents : Sourced(p, part)

\* What an apply finds beside the truncated text and its own draft is of another
\* draft, or of an apply that failed.
LEMMA Mixture ==
  ASSUME TypeOK, NEW p \in Projects, NEW part \in Documents, Sourced(p, part),
         NEW c \in Commands, Writes(c, p), pc[c] = Filling(part),
         host[p][part] \notin {EMPTY, Draft(seen[c])}
  PROVE  \E other \in Commands :
           Writes(other, p) /\ (Draft(seen[other]) # Draft(seen[c]) \/ pc[other] = "failed")
<1>1. host[p][part] \in Drafts \cup {NULL, EMPTY, TORN}
  BY DEF TypeOK
<1>2. host[p][part] # NULL
  BY DEF Sourced
<1>3. QED
  BY <1>1, <1>2 DEF Sourced

LEMMA SourcedStays ==
  ASSUME TypeOK, Placed, [Next]_vars, NEW p \in Projects, NEW part \in Documents,
         Sourced(p, part)
  PROVE  Sourced(p, part)'
<1> DEFINE text == host[p][part]
           new == host'[p][part]
<1>1. /\ \A c \in Commands : Writes(c, p) =>
           /\ Writes(c, p)' /\ seen'[c] = seen[c]
           /\ pc[c] = "failed" => pc'[c] = "failed"
           /\ pc[c] = Filling(part) => pc'[c] \in {Filling(part), "failed"} \/ Fill(c, part)
  BY WriterStays
<1>2. \A s : (EMPTY \notin Overwritten(text, s) /\ NULL \notin Overwritten(text, s)) \/ s \notin Drafts
  BY SaveAssumption DEF Overwritten
<1>3. EMPTY \notin Drafts /\ TORN \notin Drafts /\ NULL \notin Drafts /\ EMPTY # TORN
      /\ EMPTY # NULL /\ TORN # NULL
  BY SaveAssumption
<1>4. \/ new = text
      \/ \E c \in Commands :
           /\ Writes(c, p) /\ Draft(seen[c]) \in Drafts
           /\ \/ new = TORN /\ pc'[c] = "failed"
              \/ new = EMPTY /\ pc'[c] = Filling(part)
              \/ pc[c] = Filling(part) /\ new \in Overwritten(text, Draft(seen[c]))
  BY TextStep
<1>5. ASSUME new \in Drafts
      PROVE  \E c \in Commands : Writes(c, p)' /\ Draft(seen'[c]) = new
  <2>1. CASE new = text
    BY <1>1, <1>5, <2>1 DEF Sourced
  <2>2. CASE new # text
    <3>1. PICK c \in Commands : Writes(c, p) /\ new \in Overwritten(text, Draft(seen[c]))
      BY <1>3, <1>4, <1>5, <2>2
    <3>2. new = Draft(seen[c])
      BY <1>3, <1>5, <3>1 DEF Overwritten
    <3>3. QED
      BY <1>1, <3>1, <3>2
  <2>3. QED
    BY <2>1, <2>2
<1>6. ASSUME new = EMPTY
      PROVE  \E c \in Commands : Writes(c, p)' /\ pc'[c] \in {Filling(part), "failed"}
  <2>1. CASE text # EMPTY
    BY <1>1, <1>2, <1>3, <1>4, <1>6, <2>1
  <2>2. CASE text = EMPTY
    <3>1. PICK c \in Commands : Writes(c, p) /\ pc[c] \in {Filling(part), "failed"}
      BY <2>2 DEF Sourced
    <3>2. ~Fill(c, part)
      <4>1. ASSUME Fill(c, part) PROVE FALSE
        <5>1. Scope(c) = p
          BY <3>1, <4>1, DocumentNames DEF Writes, Applies, Scope
        <5>2. WriteStep(c, part) /\ pc[c] = Filling(part) /\ pc'[c] # "failed"
          BY <4>1 DEF WriteStep, Fill, AfterWrite, Goto, TypeOK, Jobs
        <5>3. pc'[c] # Filling(part)
          BY <4>1 DEF Fill, AfterWrite, Goto, TypeOK, Jobs, Documents, Filling
        <5>4. new \in Overwritten(text, Draft(seen[c])) /\ Draft(seen[c]) \in Drafts
          BY <5>1, <5>2, <5>3, WritingFacts
        <5>5. QED
          BY <1>2, <1>6, <5>4
      <4>2. QED
        BY <4>1
    <3>3. QED
      BY <1>1, <3>1, <3>2
  <2>3. QED
    BY <2>1, <2>2
<1>7. ASSUME new = TORN
      PROVE  \E c, other \in Commands :
               /\ Writes(c, p)' /\ Writes(other, p)'
               /\ pc'[c] = "failed" \/ Draft(seen'[c]) # Draft(seen'[other])
  <2>1. CASE text = TORN
    <3>1. PICK c, other \in Commands :
            /\ Writes(c, p) /\ Writes(other, p)
            /\ pc[c] = "failed" \/ Draft(seen[c]) # Draft(seen[other])
      BY <2>1 DEF Sourced
    <3>2. QED
      BY <1>1, <3>1
  <2>2. CASE text # TORN
    <3>1. PICK c \in Commands :
            /\ Writes(c, p) /\ Draft(seen[c]) \in Drafts
            /\ \/ pc'[c] = "failed"
               \/ pc[c] = Filling(part) /\ TORN \in Overwritten(text, Draft(seen[c]))
      BY <1>3, <1>4, <1>7, <2>2
    <3>2. CASE pc'[c] = "failed"
      BY <1>1, <3>1, <3>2
    <3>3. CASE pc[c] = Filling(part) /\ TORN \in Overwritten(text, Draft(seen[c]))
      <4>1. text \notin {EMPTY, Draft(seen[c])}
        BY <1>3, <3>1, <3>3 DEF Overwritten
      <4>2. PICK other \in Commands :
              Writes(other, p) /\ (Draft(seen[other]) # Draft(seen[c]) \/ pc[other] = "failed")
        BY <3>1, <3>3, <4>1, Mixture
      <4>3. QED
        BY <1>1, <3>1, <4>2
    <3>4. QED
      BY <3>1, <3>2, <3>3
  <2>3. QED
    BY <2>1, <2>2
<1>8. ASSUME new = NULL, NEW c \in Commands, Writes(c, p)', pc'[c] = Filling(part)
      PROVE  FALSE
  <2>1. text = NULL
    BY <1>2, <1>3, <1>4, <1>8
  <2>2. \/ pc[c] = Filling(part) /\ Writes(c, p)
        \/ Open(c, part) /\ Scope(c) = p
    BY <1>8, FillingStep
  <2>3. CASE Open(c, part) /\ Scope(c) = p
    <3>1. WriteStep(c, part) /\ pc'[c] = Filling(part) /\ host'[p][part] = EMPTY
      BY <2>3 DEF WriteStep, Open, Put, Goto, TypeOK, Jobs
    <3>2. QED
      BY <1>3, <1>8, <3>1
  <2>4. QED
    BY <2>1, <2>2, <2>3 DEF Sourced
<1>9. QED
  BY <1>5, <1>6, <1>7, <1>8 DEF Sourced

LEMMA SourcedAlways == Spec => [](TypeOK /\ Placed /\ Remembered /\ AllSourced)
<1>1. Init => AllSourced
  BY SaveAssumption DEF Init, AllSourced, Sourced, Writes, Past, Writing, Jobs
<1>2. TypeOK /\ Placed /\ Remembered /\ AllSourced /\ [Next]_vars => AllSourced'
  BY SourcedStays DEF AllSourced
<1>3. QED
  BY <1>1, <1>2, RememberedAlways, PTL DEF Spec

\* Nothing gets into RESUME or STATUS that was not pending as a draft of that very
\* project before, whatever the session is bound to when an apply reaches its
\* documents; they are empty or a mixture only by an apply that is at it or failed,
\* or by two of different drafts.
THEOREM HostsAreOwn == Spec => []HostsHoldOwnDrafts
<1>1. TypeOK /\ Remembered /\ AllSourced => HostsHoldOwnDrafts
  <2> SUFFICES ASSUME TypeOK, Remembered, AllSourced, NEW p \in Projects, NEW part \in Documents
               PROVE  LET text == host[p][part]
                      IN /\ text \in Drafts => text.project = p /\ captured[text.turn] = text
                         /\ text = EMPTY =>
                              \E c \in Commands :
                                Applies(c, p) /\ pc[c] \in {Filling(part), "failed"}
                         /\ text = TORN =>
                              \E c, other \in Commands :
                                /\ Applies(c, p) /\ Applies(other, p)
                                /\ pc[c] = "failed" \/ Draft(seen[c]) # Draft(seen[other])
    BY DEF HostsHoldOwnDrafts
  <2>1. Sourced(p, part)
    BY DEF AllSourced
  <2>2. ASSUME host[p][part] \in Drafts
        PROVE  host[p][part].project = p /\ captured[host[p][part].turn] = host[p][part]
    <3>1. PICK c \in Commands : Writes(c, p) /\ Draft(seen[c]) = host[p][part]
      BY <2>1, <2>2 DEF Sourced
    <3>2. Known(Draft(seen[c])) /\ host[p][part] # NULL
      BY <2>2, SaveAssumption DEF Remembered, Jobs
    <3>3. QED
      BY <3>1, <3>2 DEF Known, Writes, Applies
  <2>3. QED
    BY <2>1, <2>2 DEF Sourced, Writes
<1>2. QED
  BY <1>1, SourcedAlways, PTL
-----------------------------------------------------------------------------
(* What is saved is saved whole. *)

\* Another draft of the project is applied, or a document of it is cut short.
Upset(d, part) ==
  \E c \in Commands :
    /\ Writes(c, d.project)
    /\ Draft(seen[c]) # d \/ pc[c] \in {Filling(part), "failed"}
Has(d, part) == host[d.project][part] = d \/ Upset(d, part)

\* How far an apply is with its draft.
Whole(c) ==
  Writes(c, Draft(seen[c]).project) =>
    /\ pc[c] \in {"status", "fillStatus", "set"} => Has(Draft(seen[c]), "resume")
    /\ pc[c] = "set" /\ Draft(seen[c]).status => Has(Draft(seen[c]), "status")

\* Once an apply has got to fill a document with draft d, it stays so, or another
\* apply is in the way.
LEMMA Filled ==
  ASSUME TypeOK, Placed, AllSourced, [Next]_vars, NEW d \in Drafts, NEW part \in Documents,
         NEW c \in Commands, Writes(c, d.project), Draft(seen[c]) = d, Fill(c, part)
  PROVE  Has(d, part)'
<1>1. /\ d.project \in Projects /\ Scope(c) = d.project /\ d # NULL /\ d # EMPTY
      /\ pc[c] = Filling(part) /\ WriteStep(c, part)
  <2>1. d.project \in Projects /\ d # NULL /\ d # EMPTY
    BY SaveAssumption DEF Drafts
  <2>2. pc[c] = Filling(part) /\ WriteStep(c, part)
    BY DEF Fill, WriteStep
  <2>3. kind[c] = "apply"
    BY DEF Writes, Applies
  <2>4. QED
    BY <2>1, <2>2, <2>3 DEF Scope
<1>2. host'[d.project][part] \in Overwritten(host[d.project][part], d)
  BY <1>1 DEF Fill, Put, TypeOK
<1>3. CASE host[d.project][part] \in {EMPTY, d}
  BY <1>2, <1>3 DEF Overwritten, Has
<1>4. CASE host[d.project][part] \notin {EMPTY, d}
  <2>1. Sourced(d.project, part)
    BY <1>1 DEF AllSourced
  <2>2. PICK other \in Commands :
          Writes(other, d.project) /\ (Draft(seen[other]) # d \/ pc[other] = "failed")
    BY <1>1, <1>4, <2>1, Mixture
  <2>3. /\ Writes(other, d.project)' /\ seen'[other] = seen[other]
        /\ pc[other] = "failed" => pc'[other] = "failed"
    BY <2>2, WriterStays
  <2>4. QED
    BY <2>2, <2>3 DEF Has, Upset, Draft
<1>5. QED
  BY <1>3, <1>4

LEMMA HasStays ==
  ASSUME TypeOK, Placed, AllSourced, [Next]_vars, NEW d \in Drafts, NEW part \in Documents,
         Has(d, part)
  PROVE  Has(d, part)'
<1>1. d.project \in Projects
  BY DEF Drafts
<1>2. ASSUME NEW c \in Commands, Writes(c, d.project),
             \/ Draft(seen[c]) # d
             \/ pc'[c] \in {Filling(part), "failed"}
      PROVE  Upset(d, part)'
  <2>1. Writes(c, d.project)' /\ seen'[c] = seen[c]
    BY <1>2, WriterStays
  <2>2. QED
    BY <1>2, <2>1 DEF Upset, Draft
<1>3. CASE Upset(d, part)
  <2>1. PICK c \in Commands :
          /\ Writes(c, d.project)
          /\ Draft(seen[c]) # d \/ pc[c] \in {Filling(part), "failed"}
    BY <1>3 DEF Upset
  <2>2. CASE Draft(seen[c]) # d \/ pc'[c] \in {Filling(part), "failed"}
    BY <1>2, <2>1, <2>2 DEF Has
  <2>3. CASE Draft(seen[c]) = d /\ pc'[c] \notin {Filling(part), "failed"}
    <3>1. Fill(c, part)
      BY <2>1, <2>3, WriterStays
    <3>2. QED
      BY <2>1, <2>3, <3>1, Filled
  <2>4. QED
    BY <2>2, <2>3
<1>4. CASE host[d.project][part] = d
  <2>1. CASE host'[d.project][part] = host[d.project][part]
    BY <1>4, <2>1 DEF Has
  <2>2. ASSUME NEW c \in Commands, Writes(c, d.project),
               \/ host'[d.project][part] = TORN /\ pc'[c] = "failed"
               \/ host'[d.project][part] = EMPTY /\ pc'[c] = Filling(part)
               \/ /\ pc[c] = Filling(part)
                  /\ host'[d.project][part] \in Overwritten(host[d.project][part], Draft(seen[c]))
        PROVE  Has(d, part)'
    <3>1. CASE Draft(seen[c]) # d \/ pc'[c] \in {Filling(part), "failed"}
      BY <1>2, <2>2, <3>1 DEF Has
    <3>2. CASE Draft(seen[c]) = d /\ pc'[c] \notin {Filling(part), "failed"}
      BY <1>4, <2>2, <3>2 DEF Has, Overwritten
    <3>3. QED
      BY <3>1, <3>2
  <2>3. QED
    BY <1>1, <2>1, <2>2, TextStep
<1>5. QED
  BY <1>3, <1>4 DEF Has

\* An apply gets past its RESUME by writing it.
LEMMA ApplyStep ==
  ASSUME TypeOK, Placed, [Next]_vars, NEW c \in Commands, kind'[c] = "apply",
         pc'[c] \in {"status", "fillStatus", "set"}
  PROVE  /\ pc[c] \in Past /\ kind[c] = "apply" /\ seen'[c] = seen[c]
         /\ Draft(seen[c]) \in Drafts /\ Draft(seen[c]) # NULL
         /\ \/ pc'[c] = pc[c]
            \/ Open(c, "status") /\ pc[c] = "status" /\ pc'[c] = "fillStatus"
            \/ /\ Fill(c, "resume") /\ pc[c] = "fillResume"
               /\ pc'[c] = IF Draft(seen[c]).status THEN "status" ELSE "set"
            \/ Fill(c, "status") /\ pc[c] = "fillStatus" /\ pc'[c] = "set"
<1> USE DEF TypeOK, Jobs, Goto, Hold
<1>1. c \notin Turns
  BY SaveAssumption
<1>2. ASSUME NEW x \in Commands, Issue(x)
      PROVE  pc'[c] = pc[c] /\ kind'[c] = kind[c]
  <2>1. \E label \in {"switch", "get"} : pc' = [pc EXCEPT ![x] = label]
    BY <1>2 DEF Issue
  <2>2. x # c
    BY <2>1
  <2>3. QED
    BY <1>2, <2>1, <2>2 DEF Issue
<1>3. ASSUME NEW x \in Commands, CommandStep(x)
      PROVE  /\ kind'[c] = kind[c]
             /\ pc'[c] = pc[c] \/ \E part \in Documents : WriteStep(c, part)
  <2>1. kind' = kind
    BY <1>3 DEF CommandStep, Switch, Read, Lookup, Open, Fill, WriteFails, Finish, jobVars
  <2>2. ~Read(c) /\ ~Lookup(c) /\ ~Switch(c) /\ ~Finish(c)
    BY <2>1 DEF Read, Lookup, Switch, Finish
  <2>3. CASE x = c
    BY <1>3, <2>1, <2>2, <2>3 DEF CommandStep, WriteStep
  <2>4. CASE x # c
    BY <1>3, <2>1, <2>4 DEF CommandStep, Switch, Read, Lookup, Open, Fill, WriteFails, Finish
  <2>5. QED
    BY <2>3, <2>4
<1>4. ASSUME NEW t \in Turns, StartTurn(t) \/ TurnStep(t)
      PROVE  pc'[c] = pc[c] /\ kind'[c] = kind[c]
  BY <1>1, <1>4 DEF TurnStep, StartTurn, Resolve, Invalidate, Frame, DropMode, Output, Capture,
     jobVars
<1>5. ASSUME Rebind \/ Unregister \/ OtherCall \/ UNCHANGED vars
      PROVE  pc'[c] = pc[c] /\ kind'[c] = kind[c]
  BY <1>5 DEF Rebind, Unregister, OtherCall, vars, jobVars
<1>6. /\ kind[c] = "apply"
      /\ pc'[c] = pc[c] \/ \E part \in Documents : WriteStep(c, part)
  BY <1>2, <1>3, <1>4, <1>5 DEF Next
<1>7. ASSUME NEW part \in Documents, WriteStep(c, part)
      PROVE  /\ pc[c] \in Writing
             /\ \/ Open(c, "status") /\ pc[c] = "status" /\ pc'[c] = "fillStatus"
                \/ /\ Fill(c, "resume") /\ pc[c] = "fillResume"
                   /\ pc'[c] = IF Draft(seen[c]).status THEN "status" ELSE "set"
                \/ Fill(c, "status") /\ pc[c] = "fillStatus" /\ pc'[c] = "set"
  <2>1. part \in {"resume", "status"}
    BY DEF Documents
  <2>2. CASE Open(c, part)
    BY <1>7, <2>1, <2>2 DEF Open, Filling, Writing
  <2>3. CASE Fill(c, part)
    BY <1>7, <2>1, <2>3 DEF Fill, Filling, Writing, AfterWrite
  <2>4. ~WriteFails(c, part)
    BY DEF WriteFails
  <2>5. QED
    BY <1>7, <2>2, <2>3, <2>4 DEF WriteStep
<1>8. pc[c] \in Applying /\ pc[c] \in Past
  BY <1>6, <1>7 DEF Applying, Writing, Past
<1>9. Draft(seen[c]) # NULL /\ seen[c] \in Sessions \cup {NULL}
  BY <1>6, <1>8 DEF Placed, CommandPlaced
<1>10. Draft(seen[c]) \in Drafts
  BY <1>9, DraftTyped
<1>11. seen'[c] = seen[c]
  BY <1>6, <1>8, <1>9, WriterSteps
<1>12. QED
  BY <1>6, <1>7, <1>8, <1>9, <1>10, <1>11

LEMMA WholeStays ==
  ASSUME TypeOK, Placed, AllSourced, [Next]_vars, NEW c \in Commands, Whole(c)
  PROVE  Whole(c)'
<1> SUFFICES ASSUME kind'[c] = "apply", pc'[c] \in {"status", "fillStatus", "set"}
             PROVE  /\ Has(Draft(seen[c]), "resume")'
                    /\ pc'[c] = "set" /\ Draft(seen'[c]).status => Has(Draft(seen[c]), "status")'
  BY DEF Whole, Writes, Applies, Draft
<1>1. /\ pc[c] \in Past /\ kind[c] = "apply" /\ seen'[c] = seen[c]
      /\ Draft(seen[c]) \in Drafts /\ Draft(seen[c]) # NULL
      /\ \/ pc'[c] = pc[c]
         \/ Open(c, "status") /\ pc[c] = "status" /\ pc'[c] = "fillStatus"
         \/ /\ Fill(c, "resume") /\ pc[c] = "fillResume"
            /\ pc'[c] = IF Draft(seen[c]).status THEN "status" ELSE "set"
         \/ Fill(c, "status") /\ pc[c] = "fillStatus" /\ pc'[c] = "set"
  BY ApplyStep
<1>2. PICK d \in Drafts : d = Draft(seen[c])
  BY <1>1
<1>3. d = Draft(seen'[c]) /\ Writes(c, d.project)
  BY <1>1, <1>2 DEF Writes, Applies
<1>4. \A part : Has(d, part)' => Has(Draft(seen[c]), part)'
  BY <1>3 DEF Has, Upset, Draft
<1>5. {"resume", "status"} = Documents
  BY DEF Documents
<1>6. \A part \in Documents : Has(d, part) => Has(d, part)'
  BY HasStays
<1>7. \A part \in Documents : Fill(c, part) => Has(d, part)'
  BY <1>2, <1>3, Filled
<1>8. /\ pc[c] \in {"status", "fillStatus", "set"} => Has(d, "resume")
      /\ pc[c] = "set" /\ d.status => Has(d, "status")
  BY <1>2, <1>3 DEF Whole
<1>9. Has(d, "resume")'
  BY <1>1, <1>5, <1>6, <1>7, <1>8
<1>10. pc'[c] = "set" /\ d.status => Has(d, "status")'
  BY <1>1, <1>2, <1>5, <1>6, <1>7, <1>8
<1>11. QED
  BY <1>3, <1>4, <1>9, <1>10

AllWhole == \A c \in Commands : Whole(c)

LEMMA WholeAlways == Spec => [](TypeOK /\ Placed /\ AllSourced /\ AllWhole)
<1>1. Init => AllWhole
  BY DEF Init, AllWhole, Whole, Writes, Past, Writing, Jobs
<1>2. TypeOK /\ Placed /\ AllSourced /\ AllWhole /\ [Next]_vars => AllWhole'
  BY WholeStays DEF AllWhole
<1>3. QED
  BY <1>1, <1>2, SourcedAlways, PTL DEF Spec

LEMMA WholeMeans ==
  ASSUME Placed, AllWhole, NEW c \in Commands, pc[c] = "set", kind[c] = "apply"
  PROVE  \/ Saved(Draft(seen[c]))
         \/ \E other \in Commands \ {c} : Disturbs(other, Draft(seen[c]))
<1> DEFINE d == Draft(seen[c])
<1>1. Writes(c, d.project)
  BY DEF Placed, CommandPlaced, Applying, Writes, Applies, Past
<1>2. Has(d, "resume") /\ (d.status => Has(d, "status"))
  BY <1>1 DEF AllWhole, Whole
<1>3. ASSUME NEW part \in Documents, Upset(d, part)
      PROVE  \E other \in Commands \ {c} : Disturbs(other, d)
  <2>1. PICK other \in Commands :
          /\ Writes(other, d.project)
          /\ Draft(seen[other]) # d \/ pc[other] \in {Filling(part), "failed"}
    BY <1>3 DEF Upset
  <2>2. other # c
    BY <2>1 DEF Filling
  <2>3. Disturbs(other, d)
    BY <2>1 DEF Disturbs, Writes, Filling
  <2>4. QED
    BY <2>2, <2>3
<1>4. QED
  BY <1>2, <1>3 DEF Has, Saved, Documents

\* When an apply drops its draft, both documents hold all of it, unless another
\* apply of the project has another draft, or has truncated a document and not
\* filled it: a write of its own that fails keeps the draft pending.
THEOREM SavesAreWhole == Spec => []SaveIsWhole
<1>1. Placed /\ AllWhole => SaveIsWhole
  BY WholeMeans DEF SaveIsWhole
<1>2. QED
  BY <1>1, WholeAlways, PTL
-----------------------------------------------------------------------------
(* What a step does to the binding and the draft. *)

\* A turn gives up only a binding that it has found dead.
Dead == \A t \in Turns : pc[t] = "invalidate" => Binding(seen[t]) \notin registry

LEMMA DeadStays ==
  ASSUME TypeOK, Placed, Dead, [Next]_vars
  PROVE  Dead'
<1> SUFFICES ASSUME NEW t \in Turns, pc'[t] = "invalidate"
             PROVE  Binding(seen'[t]) \notin registry'
  BY DEF Dead, Binding
<1> USE DEF Goto, Hold, TypeOK, Jobs
<1>1. t \notin Commands
  BY SaveAssumption
<1>2. ASSUME NEW c \in Commands, Issue(c) \/ CommandStep(c)
      PROVE  pc'[t] = pc[t] /\ seen'[t] = seen[t] /\ registry' = registry
  BY <1>1, <1>2 DEF Issue, CommandStep, Switch, Read, Lookup, Open, Fill, WriteFails, Finish
<1>3. ASSUME NEW u \in Turns, u # t, StartTurn(u) \/ TurnStep(u)
      PROVE  pc'[t] = pc[t] /\ seen'[t] = seen[t] /\ registry' = registry
  BY <1>3 DEF TurnStep, StartTurn, Resolve, Invalidate, Frame, DropMode, Output, Capture
<1>4. CASE StartTurn(t) \/ TurnStep(t)
  <2>1. Resolve(t)
    BY <1>4 DEF TurnStep, StartTurn, Invalidate, Frame, DropMode, Output, Capture
  <2>2. QED
    BY <2>1 DEF Resolve
<1>5. ASSUME Rebind \/ OtherCall \/ UNCHANGED vars
      PROVE  pc'[t] = pc[t] /\ seen'[t] = seen[t] /\ registry' = registry
  BY <1>5 DEF Rebind, OtherCall, vars
<1>6. CASE Unregister
  BY <1>6 DEF Unregister, Dead
<1>7. QED
  BY <1>2, <1>3, <1>4, <1>5, <1>6 DEF Next, Dead

LEMMA DeadAlways == Spec => [](TypeOK /\ Placed /\ Dead)
<1>1. Init => Dead
  BY DEF Init, Dead, Jobs
<1>2. TypeOK /\ Placed /\ Dead /\ [Next]_vars => Dead'
  BY DeadStays
<1>3. QED
  BY <1>1, <1>2, Typing, PTL DEF Spec

\* How the jobs that change a binding or drop a draft move.
LEMMA JobMoves ==
  ASSUME TypeOK, Dead
  PROVE  /\ (\E c \in Commands : Switch(c)) => Switched
         /\ (\E t \in Turns : Invalidate(t)) => GivenUp
         /\ \A c \in Commands : Finish(c) => pc[c] = "set" /\ pc'[c] = "done"
         /\ \A t \in Turns : Capture(t) => pc[t] = "capture"
         /\ Rebind => rebinds' # rebinds
<1> USE DEF TypeOK, Jobs, Goto, Hold
<1>1. (\E c \in Commands : Switch(c)) => Switched
  BY DEF Switch, Switched
<1>2. \A c \in Commands : Finish(c) => pc[c] = "set" /\ pc'[c] = "done"
  BY DEF Finish
<1>3. (\E t \in Turns : Invalidate(t)) => GivenUp
  BY DEF Invalidate, GivenUp, Dead
<1>4. \A t \in Turns : Capture(t) => pc[t] = "capture"
  BY DEF Capture
<1>5. Rebind => rebinds' # rebinds
  BY DEF Rebind
<1>6. QED
  BY <1>1, <1>2, <1>3, <1>4, <1>5

\* What a call finds of the binding and the draft is what there was, or nothing.
LEMMA FoundMeans ==
  ASSUME NEW k, NEW s, Found(k, s)
  PROVE  /\ Binding(s) # Binding(session[k]) => Lost /\ Binding(s) = NULL
         /\ Draft(s) # Draft(session[k]) => Lost /\ Draft(s) = NULL
BY DEF Found, Binding, Draft

\* The save flow leaves the binding alone, except where a turn gives up one that it
\* has found dead, or where a call loses the session with all that is in it.
THEOREM BindingKept == Spec => SaveKeepsBinding
<1>1. TypeOK /\ Placed /\ Dead /\ [Next]_vars => [BindingStays]_vars
  <2> SUFFICES ASSUME TypeOK, Placed, Dead, [Next]_vars,
                      Binding(session'[Main]) # Binding(session[Main])
               PROVE  \/ Switched \/ GivenUp \/ rebinds' # rebinds
                      \/ Lost /\ Binding(session'[Main]) = NULL
    BY DEF BindingStays
  <2>1. Main \in Keys
    BY SaveAssumption
  <2>2. \/ \E c \in Commands : Switch(c)
        \/ \E t \in Turns : Invalidate(t)
        \/ Rebind
        \/ \E old : Found(Main, old) /\ Binding(session'[Main]) = Binding(old)
    BY <2>1, SessionStep DEF Stays
  <2>3. QED
    BY <2>2, JobMoves, FoundMeans
<1>2. QED
  BY <1>1, DeadAlways, PTL DEF Spec, SaveKeepsBinding

\* A draft that the user was shown does not vanish by itself: it is dismissed, saved,
\* given up with its binding, or lost with the whole session.
THEOREM DraftsDoNotVanish == Spec => NoDraftVanishes
<1>1. TypeOK /\ Placed /\ Dead /\ AllWhole /\ [Next]_vars => [DraftStays(Draft(session[Main]))]_vars
  <2> DEFINE d == Draft(session[Main])
  <2> SUFFICES ASSUME TypeOK, Placed, Dead, AllWhole, [Next]_vars,
                      d # NULL, Draft(session'[Main]) # d
               PROVE  \/ Switched \/ GivenUp \/ Dismissed(d)
                      \/ \E t \in Turns : /\ pc[t] = "capture"
                                          /\ captured'[t] = Draft(session'[Main])
                      \/ Lost /\ Draft(session'[Main]) = NULL
    BY DEF DraftStays
  <2>1. Main \in Keys
    BY SaveAssumption
  <2>2. \/ \E c \in Commands : Switch(c)
        \/ \E t \in Turns : Invalidate(t)
        \/ \E t \in Turns : Capture(t) /\ captured'[t] = Draft(session'[Main])
        \/ \E c \in Commands : Finish(c) /\ kind[c] # "dry-run"
        \/ \E old : Found(Main, old) /\ Draft(session'[Main]) = Draft(old)
    BY <2>1, SessionStep DEF Caught, Stays
  <2>3. ASSUME NEW c \in Commands, Finish(c), kind[c] # "dry-run" PROVE Dismissed(d)
    <3>1. pc[c] = "set" /\ pc'[c] = "done"
      BY <2>3, JobMoves
    <3>2. kind[c] \in {"arm", "apply", "cancel"}
      BY <2>3, <3>1 DEF Placed, CommandPlaced, Applying, CommandKinds
    <3>3. CASE kind[c] = "apply"
      <4>1. \/ Saved(Draft(seen[c]))
            \/ \E other \in Commands \ {c} : Disturbs(other, Draft(seen[c]))
        BY <3>1, <3>3, WholeMeans
      <4>2. CASE Draft(seen[c]) = d
        BY <3>1, <3>3, <4>1, <4>2 DEF Dismissed
      <4>3. CASE Draft(seen[c]) # d
        BY <3>1, <3>3, <4>3 DEF Dismissed
      <4>4. QED
        BY <4>2, <4>3
    <3>4. CASE kind[c] \in {"arm", "cancel"}
      BY <3>1, <3>4 DEF Dismissed
    <3>5. QED
      BY <3>2, <3>3, <3>4
  <2>4. QED
    BY <2>2, <2>3, JobMoves, FoundMeans
<1>2. QED
  BY <1>1, DeadAlways, WholeAlways, PTL DEF Spec, NoDraftVanishes
=============================================================================
