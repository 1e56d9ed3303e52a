------------------------ MODULE IngressRoutingProofs ------------------------
(* Proofs about IngressRouting, for any sets of messages, sessions, projects *)
(* and actions, any envelopes, configurations and service results, and any   *)
(* bounds.                                                                   *)
EXTENDS IngressRouting, TLAPS

-----------------------------------------------------------------------------
(* Frames: what a step leaves alone. *)

\* Every message has its entry in every table, and every session in the store.
Shape ==
  /\ DOMAIN session = Sessions
  /\ DOMAIN pc = Messages
  /\ DOMAIN envelope = Messages /\ DOMAIN seen = Messages
  /\ DOMAIN config = Messages /\ DOMAIN decision = Messages
  /\ DOMAIN work = Messages /\ DOMAIN outcome = Messages /\ DOMAIN dm = Messages
  /\ DOMAIN fd = Messages /\ DOMAIN content = Messages
  /\ DOMAIN tmp = Projects /\ DOMAIN snapshot = Projects

LEMMA ShapeStep == Shape /\ [Next]_vars => Shape'
<1> SUFFICES ASSUME Shape, [Next]_vars PROVE Shape'
  OBVIOUS
<1> USE DEF Shape, Goto, Set, Without, Work, turnVars, workVars, fileVars, signalVars, budget
<1>1. ASSUME NEW m \in Messages, Handle(m) PROVE Shape'
  BY <1>1 DEF Handle, Receive, Lookup, Get, Configure, Decide, Trace, Enqueue, Heartbeat,
     Execute, Writeback, AppendLane, Retrace, OpenTmp, FillTmp, RenameTmp, Notify, Deliver,
     Escalate, CallFails
<1>2. ASSUME Prune \/ \E k \in Sessions : Rebind(k) PROVE Shape'
  BY <1>2 DEF Rebind, Prune
<1>3. CASE UNCHANGED vars
  BY <1>3 DEF vars
<1>4. QED
  BY <1>1, <1>2, <1>3 DEF Next

\* A step of one message is none of another.
Apart(n) ==
  /\ pc'[n] = pc[n] /\ envelope'[n] = envelope[n] /\ seen'[n] = seen[n]
  /\ config'[n] = config[n] /\ decision'[n] = decision[n] /\ work'[n] = work[n]
  /\ outcome'[n] = outcome[n] /\ dm'[n] = dm[n] /\ fd'[n] = fd[n]

LEMMA OthersApart ==
  ASSUME Shape, NEW m \in Messages, Handle(m), NEW n \in Messages, n # m
  PROVE  Apart(n)
BY DEF Shape, Goto, Work, turnVars, workVars, fileVars, signalVars, budget, Apart,
   Handle, Receive, Lookup, Get, Configure, Decide, Trace, Enqueue, Heartbeat, Execute,
   Writeback, AppendLane, Retrace, OpenTmp, FillTmp, RenameTmp, Notify, Deliver, Escalate,
   CallFails

LEMMA RestApart ==
  ASSUME Shape, NEW n \in Messages,
         Prune \/ (\E k \in Sessions : Rebind(k)) \/ UNCHANGED vars
  PROVE  Apart(n)
BY DEF turnVars, workVars, fileVars, Apart, Rebind, Prune, vars

\* Where a message has no decision yet.
Undecided == {"idle", "lookup", "get", "configure"}

\* Where what came of a message is known.
Told == {"lane", "retrace", "open", "fill", "rename", "notify", "deliver", "escalate",
         "done", "failed"}

\* Once a message is decided, that is final.
Decided(n) ==
  pc[n] \notin Undecided =>
    /\ pc'[n] \notin Undecided
    /\ envelope'[n] = envelope[n] /\ seen'[n] = seen[n]
    /\ config'[n] = config[n] /\ decision'[n] = decision[n]

\* And once it is known what came of it, that is.
Final(n) ==
  pc[n] \in Told => pc'[n] \in Told /\ outcome'[n] = outcome[n] /\ dm'[n] = dm[n]

LEMMA StaysFinal ==
  ASSUME Shape, [Next]_vars, NEW n \in Messages
  PROVE  Decided(n) /\ Final(n)
<1> USE DEF Shape, Undecided, Told, Decided, Final
<1>1. ASSUME Handle(n) PROVE Decided(n) /\ Final(n)
  BY <1>1 DEF Goto, Work, turnVars, workVars, Handle, Receive, Lookup, Get, Configure,
     Trace, Enqueue, Heartbeat, Execute, Writeback, AppendLane, Retrace, OpenTmp, FillTmp,
     RenameTmp, Notify, Deliver, Escalate, CallFails, AfterDecision, AfterLane, Promotion,
     AfterDelivery
<1>2. ASSUME Apart(n) PROVE Decided(n) /\ Final(n)
  BY <1>2 DEF Apart
<1>3. QED
  BY <1>1, <1>2, OthersApart, RestApart DEF Next
-----------------------------------------------------------------------------
(* Types. *)

LEMMA KindTyped == ASSUME NEW m PROVE Kind(m) \in SignalKinds
BY DEF Kind, SignalKind, EscalationKind, SignalKinds

\* What the patches of this module leave of a session.
LEMMA TracePatchKeeps ==
  ASSUME NEW s, NEW patch, DOMAIN patch \subseteq {"current_workflow", "last_route_trace"},
         NEW f \in Fields \ {"current_workflow", "last_route_trace"}
  PROVE  SetPatch(s, patch)[f] = Existing(s)[f]
BY DEF SetPatch, Overrides

\* A value the store may hold for a session.
SessionOK(s) ==
  /\ Binding(s) \in Projects \cup {NULL}
  /\ s # NULL => s.last_route_trace \in Messages \cup {NULL}

LEMMA TracePatchTyped ==
  ASSUME NEW s, SessionOK(s), NEW patch, NEW m \in Messages,
         DOMAIN patch \in {{"last_route_trace"}, {"current_workflow", "last_route_trace"}},
         patch.last_route_trace = m
  PROVE  SessionOK(SetPatch(s, patch))
BY DEF SessionOK, Binding, SetPatch, Overrides, Existing, FreshSession, Fields,
   CoalescedFields, ClearableFields

LEMMA BoundPatchTyped ==
  ASSUME NEW s, NEW p \in Projects, NEW patch,
         "current_project_id" \in DOMAIN patch, patch["current_project_id"] = p,
         "last_route_trace" \in DOMAIN patch, patch["last_route_trace"] = NULL
  PROVE  SessionOK(SetPatch(s, patch))
<1>1. p # NULL
  BY IngressAssumption
<1>2. QED
  BY <1>1 DEF SessionOK, Binding, SetPatch, Overrides, Fields, CoalescedFields,
     ClearableFields

LEMMA BindingPatchTyped ==
  ASSUME NEW s, NEW p \in Projects
  PROVE  SessionOK(SetPatch(s, BindingPatch(p, "manual", NULL, NULL, TRUE)))
<1> DEFINE patch == BindingPatch(p, "manual", NULL, NULL, TRUE)
<1>1. /\ "current_project_id" \in DOMAIN patch /\ patch["current_project_id"] = p
      /\ "last_route_trace" \in DOMAIN patch /\ patch["last_route_trace"] = NULL
  BY DEF BindingPatch
<1>2. QED
  BY <1>1, BoundPatchTyped

LEMMA InvalidateTyped ==
  ASSUME NEW s
  PROVE  SessionOK(InvalidatePatch(s, [last_route_trace |-> NULL]))
BY DEF SessionOK, Binding, InvalidatePatch, Overrides, Fields, CoalescedFields,
   ClearableFields

\* From here on a message has a project.
Settled == {"enqueue", "heartbeat", "writeback", "lane", "retrace", "open", "fill",
            "rename", "notify", "deliver", "escalate"}

Signalling == {"open", "fill", "rename", "notify", "deliver", "escalate"}

\* What its place says of a message: TypeOK is not inductive without it, since
\* what is recorded of a message depends on what was tested awaits ago.
Placed(m) ==
  /\ pc[m] \in Places
  /\ pc[m] = "idle" => envelope[m] = NULL
  /\ pc[m] # "idle" => /\ DOMAIN envelope[m] = EnvelopeFields
                       /\ envelope[m].project \in Registered \cup {NULL}
                       /\ envelope[m].session \in Sessions \cup {NULL}
  /\ pc[m] \in {"get", "trace", "retrace", "escalate"} => envelope[m].session # NULL
  /\ SessionOK(seen[m])
  /\ pc[m] \in {"trace", "execute"} => decision[m].project \in Projects \cup {NULL}
  /\ pc[m] \in Settled => decision[m].project \in Projects
  /\ pc[m] \in Signalling => Kind(m) # "none"
  /\ pc[m] = "escalate" => Escalates(m)
  /\ pc[m] \in {"fill", "rename"} => fd[m] \in Messages

StoreOK == \A k \in Sessions : SessionOK(session[k])

Typed == TypeOK /\ Shape /\ StoreOK /\ \A m \in Messages : Placed(m)

\* What Trace stores.
TracePatch(m) ==
  [current_workflow |->
     Coalesce(decision[m].workflow, IF seen[m] = NULL THEN NULL ELSE seen[m].current_workflow),
   last_route_trace |-> m]

Unbind(s) == InvalidatePatch(s, [last_route_trace |-> NULL])

\* What a step makes of a session that was found as old.
Moves(k, old) ==
  \/ session'[k] = old
  \/ \E m \in Messages : /\ Trace(m) /\ envelope[m].session = k
                          /\ session'[k] = SetPatch(old, TracePatch(m))
  \/ \E m \in Messages : session'[k] = SetPatch(old, [last_route_trace |-> m])
  \/ /\ switches' # switches
     /\ \/ \E p \in Registered :
             session'[k] = SetPatch(old, BindingPatch(p, "manual", NULL, NULL, TRUE))
        \/ session'[k] = Unbind(old)

\* A session is found as it is, or is lost to a call that found it expired or could
\* not read the file.
LEMMA StoreMoves ==
  ASSUME Typed, [Next]_vars, NEW k \in Sessions
  PROVE  \E old \in {session[k]} \cup (IF faults' = faults THEN {} ELSE {NULL}) : Moves(k, old)
<1>1. DOMAIN session = Sessions /\ switches \in Nat /\ faults \in Nat
  BY IngressAssumption DEF Typed, TypeOK, Shape
<1>2. ASSUME NEW lost \in SUBSET Live, Reads(lost)
      PROVE  /\ Without(lost)[k] \in {session[k]} \cup (IF faults' = faults THEN {} ELSE {NULL})
             /\ DOMAIN Without(lost) = Sessions
  BY <1>1, <1>2 DEF Reads, Without, Fault
<1>3. ASSUME NEW m \in Messages, Trace(m)
      PROVE  \E old \in {session[k]} \cup (IF faults' = faults THEN {} ELSE {NULL}) : Moves(k, old)
  <2>1. Set(envelope[m].session, TracePatch(m))
    BY <1>3 DEF Trace, TracePatch
  <2>2. PICK lost \in SUBSET Live :
          /\ Reads(lost)
          /\ session' = [Without(lost) EXCEPT ![envelope[m].session] = SetPatch(@, TracePatch(m))]
    BY <2>1 DEF Set
  <2>3. QED
    BY <1>2, <1>3, <2>2 DEF Moves
<1>4. ASSUME NEW m \in Messages, Retrace(m)
      PROVE  \E old \in {session[k]} \cup (IF faults' = faults THEN {} ELSE {NULL}) : Moves(k, old)
  <2>1. PICK lost \in SUBSET Live :
          /\ Reads(lost)
          /\ session' = [Without(lost) EXCEPT
                           ![envelope[m].session] = SetPatch(@, [last_route_trace |-> m])]
    BY <1>4 DEF Retrace, Set
  <2>2. QED
    BY <1>2, <2>1 DEF Moves
<1>5. ASSUME NEW x \in Sessions, Rebind(x)
      PROVE  \E old \in {session[k]} \cup (IF faults' = faults THEN {} ELSE {NULL}) : Moves(k, old)
  <2>1. switches' # switches
    BY <1>1, <1>5 DEF Rebind
  <2>2. PICK lost \in SUBSET Live :
          /\ Reads(lost)
          /\ \/ \E p \in Registered : session' =
                  [Without(lost) EXCEPT ![x] =
                     SetPatch(@, BindingPatch(p, "manual", NULL, NULL, TRUE))]
             \/ session' = [Without(lost) EXCEPT ![x] = Unbind(@)]
    BY <1>5 DEF Rebind, Set, Unbind
  <2>3. QED
    BY <1>2, <2>1, <2>2 DEF Moves
<1>6. ASSUME NEW lost \in SUBSET Live, Reads(lost), session' = Without(lost)
      PROVE  \E old \in {session[k]} \cup (IF faults' = faults THEN {} ELSE {NULL}) : Moves(k, old)
  BY <1>2, <1>6 DEF Moves
<1>7. ASSUME UNCHANGED session
      PROVE  \E old \in {session[k]} \cup (IF faults' = faults THEN {} ELSE {NULL}) : Moves(k, old)
  BY <1>7 DEF Moves
<1>8. ASSUME NEW m \in Messages, Handle(m), ~Trace(m), ~Retrace(m)
      PROVE  \/ UNCHANGED session
             \/ \E lost \in SUBSET Live : Reads(lost) /\ session' = Without(lost)
  BY <1>8 DEF Handle, Receive, Lookup, Get, Configure, Enqueue, Heartbeat, Execute,
     Writeback, AppendLane, OpenTmp, FillTmp, RenameTmp, Notify, Deliver, Escalate, CallFails
<1>9. QED
  BY <1>3, <1>4, <1>5, <1>6, <1>7, <1>8 DEF Next, Prune, vars

LEMMA StoreStep == Typed /\ [Next]_vars => StoreOK'
<1> SUFFICES ASSUME Typed, [Next]_vars, NEW k \in Sessions PROVE SessionOK(session'[k])
  BY DEF StoreOK
<1>1. PICK old \in {session[k], NULL} : Moves(k, old)
  BY StoreMoves
<1>2. SessionOK(old)
  BY DEF Typed, StoreOK, SessionOK, Binding
<1>3. ASSUME NEW m \in Messages
      PROVE  /\ SessionOK(SetPatch(old, TracePatch(m)))
             /\ SessionOK(SetPatch(old, [last_route_trace |-> m]))
  BY <1>2, TracePatchTyped DEF TracePatch
<1>4. ASSUME NEW p \in Registered
      PROVE  SessionOK(SetPatch(old, BindingPatch(p, "manual", NULL, NULL, TRUE)))
  BY BindingPatchTyped, IngressAssumption
<1>5. SessionOK(Unbind(old))
  BY InvalidateTyped DEF Unbind
<1>6. QED
  BY <1>1, <1>2, <1>3, <1>4, <1>5 DEF Moves

LEMMA PlacedApart ==
  ASSUME NEW m, Placed(m), Apart(m)
  PROVE  Placed(m)'
BY DEF Placed, Apart, Kind, Escalates

LEMMA RouteTyped ==
  ASSUME NEW e, NEW s, NEW route, NEW available,
         e.project \in Registered \cup {NULL}, SessionOK(s)
  PROVE  DecideRoute(e, s, route, available).project \in Projects \cup {NULL}
BY IngressAssumption DEF DecideRoute, RoutedProject, Coalesce, SessionOK

LEMMA PlacedStep ==
  ASSUME Typed, NEW m \in Messages, Handle(m)
  PROVE  Placed(m)'
<1>1. Shape /\ Placed(m)
  BY DEF Typed
<1>2. pc'[m] \in Told /\ pc[m] \in Told => Kind(m)' = Kind(m) /\ (Escalates(m)' <=> Escalates(m))
  BY <1>1, StaysFinal DEF Next, Decided, Final, Kind, Escalates, Undecided, Told
<1> USE <1>1 DEF Shape, Placed, Goto, Places, Settled, Signalling
<1>3. CASE Receive(m)
  <2>1. PICK e \in Inbox : /\ envelope'[m] = e
                           /\ Goto(m, IF e.source = "human" THEN "done"
                                      ELSE IF e.named # NULL THEN "lookup"
                                      ELSE IF e.session # NULL THEN "get" ELSE "configure")
    BY <1>3 DEF Receive
  <2>2. DOMAIN e = EnvelopeFields /\ e.project = NULL /\ e.session \in Sessions \cup {NULL}
    BY IngressAssumption
  <2>3. seen' = seen
    BY <1>3 DEF Receive
  <2>4. QED
    BY <2>1, <2>2, <2>3
<1>4. CASE Lookup(m)
  <2> DEFINE found == IF envelope[m].named \in Registered THEN envelope[m].named ELSE NULL
  <2>1. /\ DOMAIN envelope[m] = EnvelopeFields
        /\ envelope[m].session \in Sessions \cup {NULL}
    BY <1>4 DEF Lookup
  <2>2. envelope'[m] = [envelope[m] EXCEPT !.project = found]
    BY <1>4 DEF Lookup
  <2>3. found \in Registered \cup {NULL}
    OBVIOUS
  <2> HIDE DEF found
  <2>4. /\ DOMAIN envelope'[m] = EnvelopeFields
        /\ envelope'[m].session = envelope[m].session
        /\ envelope'[m].project = found
    BY <2>1, <2>2 DEF EnvelopeFields
  <2>5. QED
    BY <1>4, <2>1, <2>3, <2>4 DEF Lookup
<1>5. CASE Get(m)
  <2>1. envelope[m].session \in Sessions
    BY <1>5 DEF Get
  <2>2. \A lost : SessionOK(Without(lost)[envelope[m].session])
    BY <2>1 DEF Typed, StoreOK, Without, SessionOK, Binding
  <2>3. QED
    BY <1>5, <2>2 DEF Get
<1>6. CASE Configure(m)
  <2>1. PICK c : Decide(m, c)
    BY <1>6 DEF Configure
  <2>2. decision'[m].project \in Projects \cup {NULL}
    BY <1>6, <2>1, RouteTyped DEF Configure, Decide
  <2>3. pc'[m] \in Settled => decision'[m].project # NULL
    BY <2>1 DEF Decide, AfterDecision
  <2>4. UNCHANGED <<envelope, seen>> /\ pc[m] = "configure"
    BY <1>6 DEF Configure
  <2>5. pc'[m] \in {"trace", "execute", "enqueue", "lane", "done"}
    BY <2>1 DEF Decide, AfterDecision
  <2>6. pc'[m] = "trace" => envelope[m].session # NULL
    BY <2>1 DEF Decide, AfterDecision
  <2>7. QED
    BY <2>2, <2>3, <2>4, <2>5, <2>6
<1>7. CASE Trace(m)
  <2>1. pc'[m] \in {"execute", "enqueue", "lane", "done"} /\ pc[m] = "trace"
    BY <1>7 DEF Trace, AfterDecision
  <2>2. pc'[m] \in Settled => decision[m].project # NULL
    BY <1>7 DEF Trace, AfterDecision
  <2>3. UNCHANGED turnVars
    BY <1>7 DEF Trace
  <2>4. QED
    BY <2>1, <2>2, <2>3 DEF turnVars
<1>8. CASE Enqueue(m) \/ Heartbeat(m) \/ Execute(m) \/ Writeback(m)
  BY <1>8 DEF Enqueue, Heartbeat, Execute, Writeback, turnVars
<1>9. CASE AppendLane(m) \/ Retrace(m)
  BY <1>2, <1>9 DEF AppendLane, Retrace, AfterLane, Promotion, Told, turnVars
<1>10. CASE OpenTmp(m) \/ FillTmp(m) \/ RenameTmp(m)
  BY <1>2, <1>10, IngressAssumption DEF OpenTmp, FillTmp, RenameTmp, Coalesce, Told,
     turnVars, Typed, TypeOK
<1>11. CASE Notify(m) \/ Deliver(m) \/ Escalate(m)
  BY <1>2, <1>11 DEF Notify, Deliver, Escalate, AfterDelivery, Escalates, Told, turnVars
<1>12. CASE CallFails(m)
  BY <1>12 DEF CallFails, turnVars
<1>13. QED
  BY <1>3, <1>4, <1>5, <1>6, <1>7, <1>8, <1>9, <1>10, <1>11, <1>12 DEF Handle

\* Two parts of TypeOK by name.
FilesTyped ==
  /\ \A m \in Messages : fd[m] \in Messages \cup {NULL} /\ content[m] \subseteq Messages
  /\ tmp \in [Projects -> Messages \cup {NULL}]
  /\ snapshot \in [Projects -> Messages \cup {NULL}]

SignalsTyped ==
  /\ notifications \subseteq Records
  /\ \A e \in escalations : e.session \in Sessions /\ e.message \in Messages

\* Every variable keeps its type, and every message stays where it is placed.
LEMMA TypingStep == Typed /\ [Next]_vars => Typed'
<1> SUFFICES ASSUME Typed, [Next]_vars PROVE Typed'
  OBVIOUS
<1>1. TypeOK /\ Shape /\ StoreOK /\ \A m \in Messages : Placed(m)
  BY DEF Typed
<1>2. Shape' /\ StoreOK'
  BY <1>1, ShapeStep, StoreStep
<1>3. \A m \in Messages : Placed(m)'
  BY <1>1, PlacedStep, PlacedApart, OthersApart, RestApart DEF Next
<1>4. pc' \in [Messages -> Places]
  <2>1. \A m \in Messages : pc'[m] \in Places
    BY <1>3 DEF Placed
  <2>2. ASSUME NEW m \in Messages, Handle(m) PROVE \E x : Goto(m, x)
    <3>1. CASE Receive(m) \/ Lookup(m) \/ Get(m) \/ Configure(m) \/ Trace(m)
      BY <3>1 DEF Receive, Lookup, Get, Configure, Decide, Trace
    <3>2. CASE Enqueue(m) \/ Heartbeat(m) \/ Execute(m) \/ Writeback(m) \/ AppendLane(m)
      BY <3>2 DEF Enqueue, Heartbeat, Execute, Writeback, AppendLane
    <3>3. CASE Retrace(m) \/ OpenTmp(m) \/ FillTmp(m) \/ RenameTmp(m)
      BY <3>3 DEF Retrace, OpenTmp, FillTmp, RenameTmp
    <3>4. CASE Notify(m) \/ Deliver(m) \/ Escalate(m) \/ CallFails(m)
      BY <3>4 DEF Notify, Deliver, Escalate, CallFails
    <3>5. QED
      BY <2>2, <3>1, <3>2, <3>3, <3>4 DEF Handle
  <2>3. UNCHANGED pc \/ \E m \in Messages : \E x : Goto(m, x)
    BY <2>2 DEF Next, vars, Rebind, Prune
  <2>4. QED
    BY <1>1, <2>1, <2>3 DEF TypeOK, Goto
<1>5. \A k \in Sessions :
        session'[k] # NULL => /\ Binding(session'[k]) \in Projects \cup {NULL}
                              /\ session'[k].last_route_trace \in Messages \cup {NULL}
  BY <1>2 DEF StoreOK, SessionOK
<1>6. \A m \in Messages : envelope'[m] # NULL => envelope'[m].project \in Registered \cup {NULL}
  BY <1>3 DEF Placed
<1>7. \A m \in Messages : decision'[m].project \in Projects \cup {NULL}
  <2>1. ASSUME NEW m \in Messages, Configure(m)
        PROVE  decision'[m].project \in Projects \cup {NULL}
    <3>1. PICK c : Decide(m, c)
      BY <2>1 DEF Configure
    <3>2. QED
      BY <1>1, <2>1, <3>1, RouteTyped DEF Configure, Decide, Placed, Shape
  <2>2. ASSUME NEW m \in Messages, Handle(m), ~Configure(m) PROVE UNCHANGED decision
    BY <2>2 DEF Handle, Receive, Lookup, Get, Trace, Enqueue, Heartbeat, Execute, Writeback,
       AppendLane, Retrace, OpenTmp, FillTmp, RenameTmp, Notify, Deliver, Escalate, CallFails,
       turnVars
  <2>3. ASSUME Prune \/ \E k \in Sessions : Rebind(k) PROVE UNCHANGED decision
    BY <2>3 DEF Rebind, Prune, turnVars
  <2>4. \A m \in Messages : decision[m].project \in Projects \cup {NULL}
    BY <1>1 DEF TypeOK
  <2>5. ASSUME NEW m \in Messages, Configure(m), NEW n \in Messages, n # m
        PROVE  decision'[n] = decision[n]
    BY <1>1, <2>5, OthersApart DEF Apart, Handle
  <2>6. QED
    BY <2>1, <2>2, <2>3, <2>4, <2>5 DEF Next, vars, turnVars
<1>8. FilesTyped'
  <2>1. FilesTyped
    BY <1>1 DEF FilesTyped, TypeOK
  <2> USE <2>1 DEF FilesTyped
  <2>2. ASSUME NEW m \in Messages, OpenTmp(m) PROVE FilesTyped'
    <3>1. decision[m].project \in Projects
      BY <1>1, <2>2 DEF OpenTmp, Placed, Settled
    <3>2. QED
      BY <1>1, <2>2, <3>1 DEF OpenTmp, Coalesce, Shape
  <2>3. ASSUME NEW m \in Messages, FillTmp(m) PROVE FilesTyped'
    BY <1>1, <2>3 DEF FillTmp, Shape
  <2>4. ASSUME NEW m \in Messages, RenameTmp(m) PROVE FilesTyped'
    <3>1. decision[m].project \in Projects
      BY <1>1, <2>4 DEF RenameTmp, Placed, Settled
    <3>2. QED
      BY <2>4, <3>1 DEF RenameTmp
  <2>5. ASSUME NEW m \in Messages, Handle(m), ~OpenTmp(m), ~FillTmp(m), ~RenameTmp(m)
        PROVE  UNCHANGED fileVars
    BY <2>5 DEF Handle, Receive, Lookup, Get, Configure, Trace, Enqueue, Heartbeat, Execute,
       Writeback, AppendLane, Retrace, Notify, Deliver, Escalate, CallFails
  <2>6. ASSUME UNCHANGED fileVars PROVE FilesTyped'
    BY <2>6 DEF fileVars
  <2>7. QED
    BY <2>2, <2>3, <2>4, <2>5, <2>6 DEF Next, Rebind, Prune, vars
<1>9. SignalsTyped'
  <2>1. SignalsTyped
    BY <1>1 DEF SignalsTyped, TypeOK
  <2>2. ASSUME NEW m \in Messages, Notify(m) PROVE SignalsTyped'
    <3>1. Record(m, decision[m].project) \in Records
      BY <1>1, <2>2, KindTyped DEF Notify, Record, Records, Placed, Settled, Signalling
    <3>2. QED
      BY <2>1, <2>2, <3>1 DEF Notify, Notified, SignalsTyped
  <2>3. ASSUME NEW m \in Messages, Escalate(m) PROVE SignalsTyped'
    <3>1. Escalation(m).session \in Sessions /\ Escalation(m).message \in Messages
      BY <1>1, <2>3 DEF Escalate, Escalation, Placed
    <3>2. escalations' \subseteq escalations \cup {Escalation(m)}
      BY <2>3 DEF Escalate, Upsert
    <3>3. QED
      BY <2>1, <2>3, <3>1, <3>2 DEF Escalate, SignalsTyped
  <2>4. ASSUME NEW m \in Messages, Handle(m), ~Notify(m), ~Escalate(m)
        PROVE  UNCHANGED signalVars
    BY <2>4 DEF Handle, Receive, Lookup, Get, Configure, Trace, Enqueue, Heartbeat, Execute,
       Writeback, AppendLane, Retrace, OpenTmp, FillTmp, RenameTmp, Deliver, CallFails
  <2>5. ASSUME UNCHANGED signalVars PROVE SignalsTyped'
    BY <2>1, <2>5 DEF signalVars, SignalsTyped
  <2>6. QED
    BY <2>2, <2>3, <2>4, <2>5 DEF Next, Rebind, Prune, vars
<1>10. switches' \in 0..MaxSwitches /\ faults' \in 0..MaxFaults
  <2>1. switches \in 0..MaxSwitches /\ faults \in 0..MaxFaults
    BY <1>1 DEF TypeOK
  <2>2. ASSUME NEW m \in Messages, Handle(m)
        PROVE  UNCHANGED switches /\ (UNCHANGED faults \/ Fault)
    BY <2>2 DEF Handle, Receive, Lookup, Get, Configure, Trace, Enqueue, Heartbeat, Execute,
       Writeback, AppendLane, Retrace, OpenTmp, FillTmp, RenameTmp, Notify, Deliver, Escalate,
       CallFails, Set, Reads, budget
  <2>3. ASSUME NEW k \in Sessions, Rebind(k)
        PROVE  switches < MaxSwitches /\ switches' = switches + 1 /\ (UNCHANGED faults \/ Fault)
    BY <2>3 DEF Rebind, Set, Reads
  <2>4. ASSUME Prune PROVE UNCHANGED switches /\ (UNCHANGED faults \/ Fault)
    BY <2>4 DEF Prune, Reads
  <2>5. CASE UNCHANGED vars
    BY <2>1, <2>5 DEF vars, budget
  <2>6. QED
    BY <2>1, <2>2, <2>3, <2>4, <2>5, IngressAssumption DEF Next, Fault
<1>11. TypeOK'
  BY <1>4, <1>5, <1>6, <1>7, <1>8, <1>9, <1>10 DEF TypeOK, FilesTyped, SignalsTyped
<1>12. QED
  BY <1>2, <1>3, <1>11 DEF Typed

LEMMA InitTyped == Init => Typed
<1> SUFFICES ASSUME Init PROVE Typed
  OBVIOUS
<1>1. \A s \in Stored : SessionOK(s)
  BY DEF Stored, SessionOK, Binding, SetPatch, Overrides, Existing, FreshSession, Fields,
     CoalescedFields, ClearableFields
<1>2. StoreOK
  BY <1>1 DEF Init, StoreOK
<1>3. Shape
  BY DEF Init, Shape
<1>4. \A m \in Messages : Placed(m)
  BY DEF Init, Placed, Places, Settled, Signalling, SessionOK, Binding
<1>5. TypeOK
  BY <1>2, IngressAssumption DEF Init, NoDecision, TypeOK, StoreOK, SessionOK, Places, Records
<1>6. QED
  BY <1>2, <1>3, <1>4, <1>5 DEF Typed

LEMMA TypedAlways == Spec => []Typed
BY InitTyped, TypingStep, PTL DEF Spec

\* Every reachable state of before_dispatch is typed: the store holds sessions,
\* a message has an envelope, a decision and files of the right kind, and what
\* is notified or escalated is a signal of a project.
THEOREM RoutingTyping == Spec => []TypeOK
<1>1. Typed => TypeOK
  BY DEF Typed
<1>2. QED
  BY <1>1, TypedAlways, PTL
-----------------------------------------------------------------------------
(* The session. *)

\* Routing changes the workflow and the trace of the session and nothing else,
\* however stale what it read is: the trace is stored as a patch of the session
\* as it is by then.  A call that finds the session expired, or cannot read its
\* file, loses it whole, and nothing of it comes back.
THEOREM RoutingSparesSession == Spec => RoutingKeepsSession
<1>1. Typed /\ [Next]_vars => (switches' = switches => \A k \in Sessions : Spares(k))
  <2> SUFFICES ASSUME Typed, [Next]_vars, switches' = switches, NEW k \in Sessions
               PROVE  Spares(k)
    OBVIOUS
  <2>1. PICK old \in {session[k]} \cup (IF faults' = faults THEN {} ELSE {NULL}) : Moves(k, old)
    BY StoreMoves
  <2>2. CASE session'[k] = old
    BY <2>1, <2>2 DEF Spares
  <2>3. CASE session'[k] # old
    <3>1. PICK m : session'[k] \in {SetPatch(old, TracePatch(m)),
                                   SetPatch(old, [last_route_trace |-> m])}
      BY <2>1, <2>3 DEF Moves
    <3>2. \A f \in Fields \ {"current_workflow", "last_route_trace"} :
            session'[k][f] = Existing(old)[f]
      BY <3>1, TracePatchKeeps DEF TracePatch
    <3>3. QED
      BY <2>1, <3>2 DEF Spares
  <2>4. QED
    BY <2>2, <2>3
<1>2. QED
  BY <1>1, TypedAlways, PTL DEF Spec, RoutingKeepsSession
-----------------------------------------------------------------------------
(* The workflow of a session. *)

\* Somebody has decided workflow w for session k.
DecidedFor(k, w) ==
  \E n \in Messages : pc[n] \notin Undecided /\ envelope[n].session = k /\ decision[n].workflow = w

\* Where a workflow can be: in a session, or in what a message has read of its own.
Origins ==
  /\ \A k \in Sessions : Workflow(session[k]) # NULL => DecidedFor(k, Workflow(session[k]))
  /\ \A m \in Messages :
       /\ pc[m] \in {"idle", "lookup", "get"} => seen[m] = NULL
       /\ Workflow(seen[m]) # NULL => DecidedFor(envelope[m].session, Workflow(seen[m]))

LEMMA DecidedStays ==
  ASSUME Shape, [Next]_vars, NEW k, NEW w, DecidedFor(k, w)
  PROVE  DecidedFor(k, w)'
<1>1. PICK n \in Messages :
        pc[n] \notin Undecided /\ envelope[n].session = k /\ decision[n].workflow = w
  BY DEF DecidedFor
<1>2. QED
  BY <1>1, StaysFinal DEF Decided, DecidedFor

\* What the patches do to binding and workflow.
LEMMA PatchWorkflow ==
  ASSUME NEW s, NEW patch, NEW m
  PROVE  /\ DOMAIN patch = {"current_workflow", "last_route_trace"} =>
              Workflow(SetPatch(s, patch)) \in {NULL, patch.current_workflow}
         /\ Workflow(SetPatch(s, [last_route_trace |-> m])) \in {NULL, Workflow(s)}
         /\ Workflow(Unbind(s)) \in {NULL, Workflow(s)}
         /\ DOMAIN patch \subseteq {"current_workflow", "last_route_trace"} =>
              Binding(SetPatch(s, patch)) \in {NULL, Binding(s)}
         /\ Binding(Unbind(s)) = NULL
BY DEF Workflow, Binding, SetPatch, Unbind, InvalidatePatch, PendingFields, Overrides, Existing,
   FreshSession, Fields, CoalescedFields, ClearableFields

LEMMA SwitchWorkflow ==
  ASSUME NEW s, NEW p
  PROVE  Workflow(SetPatch(s, BindingPatch(p, "manual", NULL, NULL, TRUE))) = NULL
<1> DEFINE patch == BindingPatch(p, "manual", NULL, NULL, TRUE)
<1>1. "current_workflow" \in DOMAIN patch /\ patch["current_workflow"] = NULL
  BY DEF BindingPatch
<1> HIDE DEF patch
<1>2. Overrides(patch, "current_workflow")
  BY <1>1 DEF Overrides, CoalescedFields
<1>3. SetPatch(s, patch)["current_workflow"] = NULL
  BY <1>1, <1>2 DEF SetPatch, Fields, ClearableFields
<1>4. QED
  BY <1>3 DEF Workflow, patch

\* How a step changes the workflow and the binding of a session.
Traced(m, k) ==
  /\ pc[m] = "trace" /\ pc'[m] # "trace"
  /\ envelope[m].session = k
  /\ Workflow(session'[k]) \in {decision[m].workflow, Workflow(seen[m])}

Follows(k) ==
  /\ Workflow(session'[k]) \in {NULL, Workflow(session[k])} \/ \E m \in Messages : Traced(m, k)
  /\ Binding(session'[k]) \notin {NULL, Binding(session[k])} => Workflow(session'[k]) = NULL

LEMMA WorkflowMoves ==
  ASSUME Typed, [Next]_vars, NEW k \in Sessions
  PROVE  Follows(k)
<1>1. PICK old \in {session[k], NULL} : Moves(k, old)
  BY StoreMoves
<1>2. Workflow(old) \in {NULL, Workflow(session[k])} /\ Binding(old) \in {NULL, Binding(session[k])}
  BY DEF Workflow, Binding
<1>3. CASE session'[k] = old
  BY <1>2, <1>3 DEF Follows
<1>4. ASSUME NEW m \in Messages, Trace(m), envelope[m].session = k,
             session'[k] = SetPatch(old, TracePatch(m))
      PROVE  Follows(k)
  <2>1. pc[m] = "trace" /\ pc'[m] # "trace"
    BY <1>4 DEF Trace, Goto, AfterDecision, Typed, Shape
  <2>2. Workflow(session'[k]) \in {NULL, TracePatch(m).current_workflow}
    BY <1>4, PatchWorkflow DEF TracePatch
  <2>3. TracePatch(m).current_workflow \in {decision[m].workflow, Workflow(seen[m])}
    BY DEF TracePatch, Coalesce, Workflow
  <2>4. Binding(session'[k]) \in {NULL, Binding(old)}
    BY <1>4, PatchWorkflow DEF TracePatch
  <2>5. QED
    BY <1>2, <1>4, <2>1, <2>2, <2>3, <2>4 DEF Follows, Traced
<1>5. ASSUME NEW m \in Messages, session'[k] = SetPatch(old, [last_route_trace |-> m])
      PROVE  Follows(k)
  <2>1. /\ Workflow(session'[k]) \in {NULL, Workflow(old)}
        /\ Binding(session'[k]) \in {NULL, Binding(old)}
    BY <1>5, PatchWorkflow
  <2>2. QED
    BY <1>2, <2>1 DEF Follows
<1>6. ASSUME NEW p, session'[k] = SetPatch(old, BindingPatch(p, "manual", NULL, NULL, TRUE))
      PROVE  Follows(k)
  BY <1>6, SwitchWorkflow DEF Follows
<1>7. CASE session'[k] = Unbind(old)
  <2>1. Workflow(session'[k]) \in {NULL, Workflow(old)} /\ Binding(session'[k]) = NULL
    BY <1>7, PatchWorkflow
  <2>2. QED
    BY <1>2, <2>1 DEF Follows
<1>8. QED
  BY <1>1, <1>3, <1>4, <1>5, <1>6, <1>7 DEF Moves

\* A message that stores a workflow has one that was decided for its session.
LEMMA TracedIsDecided ==
  ASSUME Typed, Origins, NEW m \in Messages, NEW k \in Sessions, Traced(m, k),
         Workflow(session'[k]) # NULL
  PROVE  DecidedFor(k, Workflow(session'[k]))
<1>1. CASE Workflow(session'[k]) = decision[m].workflow
  BY <1>1 DEF Traced, DecidedFor, Undecided
<1>2. CASE Workflow(session'[k]) = Workflow(seen[m])
  BY <1>2 DEF Traced, Origins
<1>3. QED
  BY <1>1, <1>2 DEF Traced

\* What a message has read, it keeps, or it reads it now.
LEMMA SeenMoves ==
  ASSUME Typed, Origins, [Next]_vars, NEW m \in Messages
  PROVE  \/ seen'[m] = seen[m] /\ (pc'[m] \in {"idle", "lookup", "get"} => seen[m] = NULL)
            /\ (seen[m] # NULL => envelope'[m] = envelope[m])
         \/ /\ envelope[m].session \in Sessions
            /\ seen'[m] \in {session[envelope[m].session], NULL}
            /\ envelope'[m] = envelope[m] /\ pc'[m] = "configure"
<1> USE DEF Goto
<1>1. Shape /\ Placed(m)
  BY DEF Typed
<1>2. pc[m] \in {"idle", "lookup", "get"} => seen[m] = NULL
  BY DEF Origins
<1>3. CASE Apart(m)
  BY <1>2, <1>3 DEF Apart
<1>4. CASE Receive(m) \/ Lookup(m)
  <2>1. seen'[m] = seen[m] /\ seen[m] = NULL
    BY <1>2, <1>4 DEF Receive, Lookup
  <2>2. QED
    BY <2>1
<1>5. CASE Get(m)
  BY <1>1, <1>5 DEF Get, Without, Placed, Shape
<1>6. CASE Handle(m) /\ ~(Receive(m) \/ Lookup(m) \/ Get(m))
  <2>1. UNCHANGED <<seen, envelope>>
    BY <1>6 DEF Handle, Configure, Trace, Enqueue, Heartbeat, Execute, Writeback, AppendLane,
       Retrace, OpenTmp, FillTmp, RenameTmp, Notify, Deliver, Escalate, CallFails, Decide,
       turnVars
  <2>2. pc'[m] \notin {"idle", "lookup", "get"}
    BY <1>1, <1>6 DEF Shape, Handle, Configure, Decide, Trace, Enqueue, Heartbeat, Execute,
       Writeback, AppendLane, Retrace, OpenTmp, FillTmp, RenameTmp, Notify, Deliver, Escalate,
       CallFails, AfterDecision, AfterLane, Promotion, AfterDelivery
  <2>3. QED
    BY <2>1, <2>2
<1>7. QED
  BY <1>1, <1>3, <1>4, <1>5, <1>6, OthersApart, RestApart DEF Next

LEMMA OriginsStep == Typed /\ Origins /\ [Next]_vars => Origins'
<1> SUFFICES ASSUME Typed, Origins, [Next]_vars PROVE Origins'
  OBVIOUS
<1>1. Shape
  BY DEF Typed
<1>2. ASSUME NEW k \in Sessions, Workflow(session'[k]) # NULL
      PROVE  DecidedFor(k, Workflow(session[k]))'
  <2>1. PICK w : w = Workflow(session'[k])
    OBVIOUS
  <2>2. DecidedFor(k, w)
    BY <1>2, <2>1, WorkflowMoves, TracedIsDecided DEF Follows, Origins
  <2>3. DecidedFor(k, w)'
    BY <1>1, <2>2, DecidedStays
  <2>4. QED
    BY <2>1, <2>3 DEF DecidedFor
<1>3. ASSUME NEW m \in Messages
      PROVE  /\ pc'[m] \in {"idle", "lookup", "get"} => seen'[m] = NULL
             /\ Workflow(seen'[m]) # NULL => DecidedFor(envelope[m].session, Workflow(seen[m]))'
  <2>1. pc'[m] \in {"idle", "lookup", "get"} => seen'[m] = NULL
    BY SeenMoves
  <2>2. ASSUME Workflow(seen'[m]) # NULL
        PROVE  DecidedFor(envelope[m].session, Workflow(seen[m]))'
    <3>1. seen'[m] # NULL
      BY <2>2 DEF Workflow
    <3>2. PICK k, w : k = envelope[m].session /\ w = Workflow(seen'[m])
      OBVIOUS
    <3>3. envelope'[m] = envelope[m] /\ DecidedFor(k, w)
      BY <2>2, <3>1, <3>2, SeenMoves DEF Origins
    <3>4. DecidedFor(k, w)'
      BY <1>1, <3>3, DecidedStays
    <3>5. QED
      BY <3>2, <3>3, <3>4 DEF DecidedFor
  <2>3. QED
    BY <2>1, <2>2
<1>4. QED
  BY <1>2, <1>3 DEF Origins

LEMMA OriginsAlways == Spec => [](Typed /\ Origins)
<1>1. Init => Origins
  <2> SUFFICES ASSUME Init PROVE Origins
    OBVIOUS
  <2>1. \A m \in Messages : seen[m] = NULL
    BY DEF Init
  <2>2. \A p : Workflow(SetPatch(NULL, [current_project_id |-> p])) = NULL
    BY DEF Workflow, SetPatch, Overrides, Existing, FreshSession, Fields, CoalescedFields,
       ClearableFields
  <2>3. \A k \in Sessions : Workflow(session[k]) = NULL
    BY <2>2 DEF Init, Stored, Workflow
  <2>4. QED
    BY <2>1, <2>3 DEF Origins, Workflow
<1>2. QED
  BY <1>1, OriginsStep, TypedAlways, PTL DEF Spec

\* A switch ends the workflow with the binding it was decided under, and a workflow
\* that appears in a session was decided by a message of that session, whatever the
\* message that stores it had read before the switch.
THEOREM WorkflowsEnd == Spec => WorkflowEndsWithBinding
<1> DEFINE Ends(k) ==
      LET w == Workflow(session'[k])
      IN /\ Binding(session'[k]) \notin {Binding(session[k]), NULL} => w = NULL
         /\ w \notin {Workflow(session[k]), NULL} =>
              \E m, n \in Messages :
                /\ pc[m] = "trace" /\ pc'[m] # "trace"
                /\ envelope[m].session = k /\ envelope[n].session = k
                /\ decision[n].workflow = w
                /\ w \in {decision[m].workflow, Workflow(seen[m])}
<1>1. ASSUME Typed, Origins, [Next]_vars, NEW k \in Sessions PROVE Ends(k)
  <2>1. Follows(k)
    BY <1>1, WorkflowMoves
  <2>2. ASSUME Workflow(session'[k]) \notin {Workflow(session[k]), NULL}
        PROVE  \E m, n \in Messages :
                 /\ pc[m] = "trace" /\ pc'[m] # "trace"
                 /\ envelope[m].session = k /\ envelope[n].session = k
                 /\ decision[n].workflow = Workflow(session'[k])
                 /\ Workflow(session'[k]) \in {decision[m].workflow, Workflow(seen[m])}
    <3>1. PICK m \in Messages : Traced(m, k)
      BY <2>1, <2>2 DEF Follows
    <3>2. DecidedFor(k, Workflow(session'[k]))
      BY <1>1, <2>2, <3>1, TracedIsDecided
    <3>3. QED
      BY <3>1, <3>2 DEF Traced, DecidedFor
  <2>3. QED
    BY <2>1, <2>2 DEF Follows
<1>2. Typed /\ Origins /\ [Next]_vars => [\A k \in Sessions : Ends(k)]_vars
  BY <1>1
<1>3. QED
  BY <1>2, OriginsAlways, PTL DEF Spec, WorkflowEndsWithBinding
-----------------------------------------------------------------------------
(* One project per message. *)

\* The project a message is about, by its name or by the session it read.
Due(m) ==
  IF envelope[m].named \in Registered THEN envelope[m].named ELSE Binding(seen[m])

\* What OneProjectPerMessage has to become to be inductive.  A decision is for
\* the due project, everything recorded says so, and a file belongs to one
\* project: that of the message it is named after, of those that write to it,
\* and of the path it is found under.
Looked(m) ==
  pc[m] \in {"get", "configure"} =>
    envelope[m].project =
      IF envelope[m].named \in Registered THEN envelope[m].named ELSE NULL

Aims(m) == pc[m] \in Settled \cup {"trace", "execute"} => decision[m].project = Due(m)

\* m has left a mark of project p.
Marks(m, p) == pc[m] \notin Undecided /\ p = Due(m)

Marked ==
  /\ \A r \in lane \cup notifications \cup escalations :
       r.message \in Messages /\ Marks(r.message, r.project)
  /\ \A m \in Messages : work[m] # NULL => Marks(m, work[m].project)

Filed ==
  /\ \A m \in Messages : fd[m] # NULL => Marks(m, Due(fd[m])) /\ Marks(fd[m], Due(m))
  /\ \A f \in Messages : \A m \in content[f] : Marks(m, Due(f)) /\ Marks(f, Due(m))
  /\ \A p \in Projects : tmp[p] # NULL => Marks(tmp[p], p)
  /\ \A p \in Projects : snapshot[p] # NULL => Marks(snapshot[p], p)

OneProject == Marked /\ Filed /\ \A m \in Messages : Looked(m) /\ Aims(m)

\* Marks are for good.
LEMMA MarksStay ==
  ASSUME Shape, [Next]_vars, NEW m \in Messages, NEW p, Marks(m, p)
  PROVE  Marks(m, p)' /\ Due(m)' = Due(m)
BY StaysFinal DEF Decided, Marks, Due

LEMMA AimsStep ==
  ASSUME Typed, NEW m \in Messages, Looked(m), Aims(m), Handle(m)
  PROVE  Looked(m)' /\ Aims(m)'
<1>1. Shape /\ Placed(m)
  BY DEF Typed
<1> USE <1>1 DEF Shape, Looked, Aims, Goto
<1>2. CASE Receive(m)
  <2>1. PICK e \in Inbox : /\ envelope'[m] = e
                           /\ Goto(m, IF e.source = "human" THEN "done"
                                      ELSE IF e.named # NULL THEN "lookup"
                                      ELSE IF e.session # NULL THEN "get" ELSE "configure")
    BY <1>2 DEF Receive
  <2>2. e.project = NULL /\ NULL \notin Registered
    BY IngressAssumption
  <2>3. QED
    BY <2>1, <2>2 DEF Settled
<1>3. CASE Lookup(m)
  <2> DEFINE found == IF envelope[m].named \in Registered THEN envelope[m].named ELSE NULL
  <2>1. DOMAIN envelope[m] = EnvelopeFields
    BY <1>3 DEF Lookup, Placed
  <2>2. envelope'[m] = [envelope[m] EXCEPT !.project = found]
    BY <1>3 DEF Lookup
  <2> HIDE DEF found
  <2>3. envelope'[m].named = envelope[m].named /\ envelope'[m].project = found
    BY <2>1, <2>2 DEF EnvelopeFields
  <2>4. pc'[m] \in {"get", "configure"}
    BY <1>3 DEF Lookup
  <2>5. QED
    BY <2>3, <2>4 DEF Settled, found
<1>4. CASE Get(m)
  BY <1>4 DEF Get, Settled
<1>5. CASE Configure(m)
  <2>1. PICK c : Decide(m, c)
    BY <1>5 DEF Configure
  <2>2. decision'[m].project = RoutedProject(envelope[m], seen[m])
    BY <2>1 DEF Decide, DecideRoute
  <2>3. RoutedProject(envelope[m], seen[m]) = Due(m)
    BY <1>5, IngressAssumption DEF Configure, RoutedProject, Coalesce, Due
  <2>4. UNCHANGED <<envelope, seen>>
    BY <1>5 DEF Configure
  <2>5. pc'[m] \notin {"get", "configure"}
    BY <2>1 DEF Decide, AfterDecision
  <2>6. QED
    BY <2>2, <2>3, <2>4, <2>5 DEF Due
<1>6. CASE CallFails(m)
  BY <1>6 DEF CallFails, Settled
<1>7. CASE pc[m] \in Settled \cup {"trace", "execute"}
  <2>1. pc[m] \notin Undecided
    BY <1>7 DEF Settled, Undecided
  <2>2. Decided(m)
    BY StaysFinal DEF Next
  <2>3. QED
    BY <1>7, <2>1, <2>2 DEF Decided, Undecided, Due
<1>8. QED
  BY <1>2, <1>3, <1>4, <1>5, <1>6, <1>7 DEF Handle, Settled, Trace, Enqueue, Heartbeat,
     Execute, Writeback, AppendLane, Retrace, OpenTmp, FillTmp, RenameTmp, Notify, Deliver,
     Escalate

\* What a step adds is for the project its message is decided for.
LEMMA Added ==
  ASSUME Shape, NEW m \in Messages, Handle(m)
  PROVE  /\ \A r \in (lane' \cup notifications' \cup escalations')
                       \ (lane \cup notifications \cup escalations) :
              r.message = m /\ r.project = decision[m].project /\ pc[m] \in Settled
         /\ \A n \in Messages : work'[n] # work[n] =>
              /\ n = m /\ pc[m] \in Settled \cup {"execute"}
              /\ work'[n].project = decision[m].project
<1> USE DEF Settled
<1>1. CASE AppendLane(m) \/ Notify(m)
  BY <1>1 DEF AppendLane, Notify, Notified, Record, signalVars, workVars
<1>2. CASE Escalate(m)
  <2>1. escalations' \subseteq escalations \cup {Escalation(m)}
    BY <1>2 DEF Escalate, Upsert
  <2>2. QED
    BY <1>2, <2>1 DEF Escalate, Escalation, workVars
<1>3. CASE Enqueue(m) \/ Execute(m)
  BY <1>3 DEF Enqueue, Execute, Work, signalVars, Shape
<1>4. CASE Receive(m) \/ Lookup(m) \/ Get(m) \/ Configure(m) \/ Trace(m) \/ Heartbeat(m)
           \/ Writeback(m) \/ Retrace(m) \/ OpenTmp(m) \/ FillTmp(m) \/ RenameTmp(m)
           \/ Deliver(m) \/ CallFails(m)
  BY <1>4 DEF Receive, Lookup, Get, Configure, Trace, Heartbeat, Writeback, Retrace,
     OpenTmp, FillTmp, RenameTmp, Deliver, CallFails, workVars, signalVars
<1>5. QED
  BY <1>1, <1>2, <1>3, <1>4 DEF Handle

LEMMA MarkedStep ==
  ASSUME Typed, Marked, \A m \in Messages : Aims(m), [Next]_vars
  PROVE  Marked'
<1>1. Shape
  BY DEF Typed
<1>2. \A m \in Messages : \A p : Marks(m, p) => Marks(m, p)'
  BY <1>1, MarksStay
<1>3. ASSUME NEW m \in Messages, Handle(m) PROVE Marked'
  <2>1. pc[m] \in Settled \cup {"execute"} => Marks(m, decision[m].project)
    BY DEF Aims, Marks, Settled, Undecided
  <2>2. \A r \in lane' \cup notifications' \cup escalations' :
          r.message \in Messages /\ Marks(r.message, r.project)
    BY <1>1, <1>3, <2>1, Added DEF Marked
  <2>3. \A n \in Messages : work'[n] # NULL => Marks(n, work'[n].project)
    BY <1>1, <1>3, <2>1, Added DEF Marked
  <2>4. QED
    BY <1>2, <2>2, <2>3 DEF Marked
<1>4. CASE UNCHANGED <<lane, notifications, escalations, work>>
  BY <1>2, <1>4 DEF Marked
<1>5. QED
  BY <1>3, <1>4 DEF Next, Rebind, Prune, vars, signalVars, workVars

LEMMA FiledStep ==
  ASSUME Typed, Filed, \A m \in Messages : Aims(m), [Next]_vars
  PROVE  Filed'
<1>1. /\ Shape
      /\ \A m \in Messages : fd[m] \in Messages \cup {NULL} /\ content[m] \subseteq Messages
      /\ \A p \in Projects : /\ tmp[p] \in Messages \cup {NULL}
                             /\ snapshot[p] \in Messages \cup {NULL}
  BY DEF Typed, TypeOK
<1>2. \A m \in Messages : \A p : Marks(m, p) => Marks(m, p)' /\ Due(m)' = Due(m)
  BY <1>1, MarksStay
<1>3. ASSUME NEW m \in Messages, OpenTmp(m) PROVE Filed'
  <2> DEFINE p == decision[m].project
             file == Coalesce(tmp[p], m)
  <2>1. p \in Projects /\ p = Due(m) /\ Marks(m, p)
    BY <1>3 DEF OpenTmp, Typed, Placed, Aims, Marks, Settled, Undecided
  <2>2. file \in Messages /\ Marks(file, p) /\ p = Due(file)
    BY <1>1, <2>1 DEF Filed, Coalesce, Marks
  <2>3. /\ tmp' = [tmp EXCEPT ![p] = file] /\ fd' = [fd EXCEPT ![m] = file]
        /\ content' = [content EXCEPT ![file] = {}] /\ snapshot' = snapshot
    BY <1>3 DEF OpenTmp
  <2> HIDE DEF p, file
  <2>4. QED
    BY <1>1, <1>2, <2>1, <2>2, <2>3 DEF Filed, Shape
<1>4. ASSUME NEW m \in Messages, FillTmp(m) PROVE Filed'
  <2>1. fd[m] \in Messages /\ Marks(m, Due(fd[m])) /\ Marks(fd[m], Due(m))
    BY <1>4, IngressAssumption DEF FillTmp, Typed, Placed, Filed
  <2>2. /\ content' = [content EXCEPT ![fd[m]] = @ \cup {m}]
        /\ UNCHANGED <<fd, tmp, snapshot>>
    BY <1>4 DEF FillTmp
  <2>3. QED
    BY <1>1, <1>2, <2>1, <2>2 DEF Filed, Shape
<1>5. ASSUME NEW m \in Messages, RenameTmp(m) PROVE Filed'
  <2>1. PICK p : /\ \/ UNCHANGED <<tmp, snapshot>>
                    \/ /\ snapshot' = [snapshot EXCEPT ![p] = tmp[p]]
                       /\ tmp' = [tmp EXCEPT ![p] = NULL]
                 /\ UNCHANGED <<fd, content>>
    BY <1>5 DEF RenameTmp
  <2>2. QED
    BY <1>1, <1>2, <2>1 DEF Filed, Shape
<1>6. ASSUME UNCHANGED fileVars PROVE Filed'
  BY <1>1, <1>2, <1>6 DEF Filed, fileVars
<1>7. ASSUME NEW m \in Messages, Handle(m), ~OpenTmp(m), ~FillTmp(m), ~RenameTmp(m)
      PROVE  UNCHANGED fileVars
  BY <1>7 DEF Handle, Receive, Lookup, Get, Configure, Trace, Enqueue, Heartbeat, Execute,
     Writeback, AppendLane, Retrace, Notify, Deliver, Escalate, CallFails
<1>8. QED
  BY <1>3, <1>4, <1>5, <1>6, <1>7 DEF Next, Rebind, Prune, vars

LEMMA OneProjectAlways == Spec => []OneProject
<1>1. Init => OneProject
  BY DEF Init, OneProject, Marked, Filed, Looked, Aims, Settled
<1>2. Typed /\ OneProject /\ [Next]_vars => OneProject'
  <2> SUFFICES ASSUME Typed, OneProject, [Next]_vars PROVE OneProject'
    OBVIOUS
  <2>1. Marked' /\ Filed'
    BY MarkedStep, FiledStep DEF OneProject
  <2>2. ASSUME NEW m \in Messages, Apart(m) PROVE Looked(m)' /\ Aims(m)'
    BY <2>2 DEF OneProject, Looked, Aims, Apart, Due
  <2>3. \A m \in Messages : Looked(m)' /\ Aims(m)'
    BY <2>2, AimsStep, OthersApart, RestApart DEF OneProject, Typed, Next
  <2>4. QED
    BY <2>1, <2>3 DEF OneProject
<1>3. QED
  BY <1>1, <1>2, TypedAlways, PTL DEF Spec

\* A message is about one project from the service call to the escalation: the
\* one it names, if that is registered, and otherwise the one its session was
\* bound to when it was read, however often the human has switched since.
THEOREM MessageIsOfOneProject == Spec => []OneProjectPerMessage
<1>1. Typed /\ OneProject => OneProjectPerMessage
  <2> SUFFICES ASSUME Typed, OneProject, NEW m \in Messages, NEW p \in Touched(m)
               PROVE  p = Due(m)
    BY DEF OneProjectPerMessage, Due
  <2>1. CASE \E r \in lane \cup notifications \cup escalations :
               r.message = m /\ r.project = p
    BY <2>1 DEF OneProject, Marked, Marks
  <2>2. CASE p \in Projects /\ snapshot[p] # NULL /\ m \in content[snapshot[p]]
    <3>1. snapshot[p] \in Messages
      BY <2>2 DEF Typed, TypeOK
    <3>2. QED
      BY <2>2, <3>1 DEF OneProject, Filed, Marks
  <2>3. CASE work[m] # NULL /\ p = work[m].project
    BY <2>3 DEF OneProject, Marked, Marks
  <2>4. QED
    BY <2>1, <2>2, <2>3 DEF Touched
<1>2. QED
  BY <1>1, TypedAlways, OneProjectAlways, PTL
-----------------------------------------------------------------------------
(* Who is told. *)

\* The entry of m in the lane and in the notification log.
Entry(m) == Record(m, decision[m].project)

\* What the order of the steps leaves behind: who signals is in the lane, who
\* delivers or escalates is notified, and the lane has no entry but those of
\* messages that are past it.
Reported(m) ==
  /\ pc[m] \in Signalling \cup {"retrace"} => Entry(m) \in lane
  /\ pc[m] \in {"deliver", "escalate"} => Entry(m) \in notifications

Logged ==
  \A r \in lane : /\ r.message \in Messages
                  /\ r = Entry(r.message)
                  /\ pc[r.message] \in Signalling \cup {"retrace", "done", "failed"}

Reports == Logged /\ \A m \in Messages : Reported(m)

LEMMA EntryStays ==
  ASSUME Shape, [Next]_vars, NEW m \in Messages, pc[m] \in Told
  PROVE  /\ pc'[m] \in Told /\ Entry(m)' = Entry(m) /\ Kind(m)' = Kind(m)
         /\ (Escalates(m)' <=> Escalates(m)) /\ Escalation(m)' = Escalation(m)
<1>1. /\ pc'[m] \in Told /\ outcome'[m] = outcome[m] /\ dm'[m] = dm[m]
      /\ envelope'[m] = envelope[m] /\ decision'[m] = decision[m]
  BY StaysFinal DEF Decided, Final, Told, Undecided
<1>2. QED
  BY <1>1 DEF Entry, Record, Kind, Escalates, Escalation

\* The two logs are append only, and the lane grows at its one step.
LEMMA LogsGrow ==
  ASSUME [Next]_vars
  PROVE  /\ lane \subseteq lane' /\ notifications \subseteq notifications'
         /\ \/ lane' = lane
            \/ \E m \in Messages : AppendLane(m) /\ lane' = lane \cup {Entry(m)}
<1>1. ASSUME NEW m \in Messages, Handle(m), ~AppendLane(m), ~Notify(m)
      PROVE  UNCHANGED <<lane, notifications>>
  BY <1>1 DEF Handle, Receive, Lookup, Get, Configure, Trace, Enqueue, Heartbeat, Execute,
     Writeback, Retrace, OpenTmp, FillTmp, RenameTmp, Deliver, Escalate, CallFails, signalVars
<1>2. ASSUME NEW m \in Messages, AppendLane(m)
      PROVE  lane' = lane \cup {Entry(m)} /\ UNCHANGED notifications
  BY <1>2 DEF AppendLane, Entry, signalVars
<1>3. ASSUME NEW m \in Messages, Notify(m)
      PROVE  lane' = lane /\ notifications \subseteq notifications'
  BY <1>3 DEF Notify, Notified
<1>4. QED
  BY <1>1, <1>2, <1>3 DEF Next, Rebind, Prune, vars, signalVars

LEMMA ReportedStep ==
  ASSUME Typed, NEW m \in Messages, Reported(m), Handle(m)
  PROVE  Reported(m)'
<1>1. Shape /\ Placed(m) /\ [Next]_vars
  BY DEF Typed, Next
<1>2. lane \subseteq lane' /\ notifications \subseteq notifications'
  BY <1>1, LogsGrow
<1>3. CASE AppendLane(m)
  <2>1. Entry(m)' = Entry(m) /\ Entry(m) \in lane'
    BY <1>1, <1>3, EntryStays DEF AppendLane, Told, Entry
  <2>2. pc'[m] \notin {"deliver", "escalate"}
    BY <1>1, <1>3 DEF AppendLane, Goto, Shape, AfterLane, Promotion
  <2>3. QED
    BY <2>1, <2>2 DEF Reported
<1>4. CASE pc[m] \in Signalling \cup {"retrace"}
  <2>1. Entry(m)' = Entry(m)
    BY <1>1, <1>4, EntryStays DEF Signalling, Told
  <2>2. pc'[m] \in {"deliver", "escalate"} =>
          pc[m] \in {"deliver", "escalate"} \/ Entry(m) \in notifications'
    BY <1>1, <1>4 DEF Handle, Receive, Lookup, Get, Configure, Trace, Enqueue, Heartbeat,
       Execute, Writeback, AppendLane, Retrace, OpenTmp, FillTmp, RenameTmp, Notify, Notified,
       Deliver, Escalate, CallFails, Goto, Shape, Promotion, Entry, Signalling
  <2>3. QED
    BY <1>2, <1>4, <2>1, <2>2 DEF Reported
<1>5. CASE ~AppendLane(m) /\ pc[m] \notin Signalling \cup {"retrace"}
  <2>1. pc'[m] \notin Signalling \cup {"retrace"}
    BY <1>1, <1>5 DEF Handle, Receive, Lookup, Get, Configure, Decide, Trace, Enqueue,
       Heartbeat, Execute, Writeback, Retrace, OpenTmp, FillTmp, RenameTmp, Notify,
       Deliver, Escalate, CallFails, Goto, Shape, AfterDecision, Signalling
  <2>2. QED
    BY <2>1 DEF Reported, Signalling
<1>6. QED
  BY <1>3, <1>4, <1>5

LEMMA LoggedStep ==
  ASSUME Typed, Logged, [Next]_vars
  PROVE  Logged'
<1>1. Shape
  BY DEF Typed
<1> DEFINE Past == Signalling \cup {"retrace", "done", "failed"}
<1>2. ASSUME NEW m \in Messages, pc[m] \in Past
      PROVE  pc'[m] \in Past /\ Entry(m)' = Entry(m)
  <2>1. Entry(m)' = Entry(m)
    BY <1>1, <1>2, EntryStays DEF Signalling, Told
  <2>2. ASSUME Handle(m) PROVE pc'[m] \in Past
    BY <1>1, <1>2, <2>2 DEF Handle, Receive, Lookup, Get, Configure, Trace, Enqueue, Heartbeat,
       Execute, Writeback, AppendLane, Retrace, OpenTmp, FillTmp, RenameTmp, Notify,
       Deliver, Escalate, CallFails, Goto, Shape, Promotion, AfterDelivery, Signalling
  <2>3. QED
    BY <1>1, <1>2, <2>1, <2>2, OthersApart, RestApart DEF Next, Apart
<1>3. ASSUME NEW m \in Messages, AppendLane(m)
      PROVE  pc'[m] \in Past /\ Entry(m)' = Entry(m) /\ Entry(m).message = m
  <2>1. Entry(m)' = Entry(m) /\ Entry(m).message = m
    BY <1>1, <1>3, EntryStays DEF AppendLane, Told, Entry, Record
  <2>2. QED
    BY <1>1, <1>3, <2>1 DEF AppendLane, Goto, Shape, AfterLane, Promotion, Signalling
<1> HIDE DEF Past
<1>4. \A r \in lane : r.message \in Messages /\ r = Entry(r.message) /\ pc[r.message] \in Past
  BY DEF Logged, Past
<1>5. \A r \in lane' : r.message \in Messages /\ r = Entry(r.message)' /\ pc'[r.message] \in Past
  BY <1>2, <1>3, <1>4, LogsGrow
<1>6. QED
  BY <1>5 DEF Logged, Past

LEMMA ReportsAlways == Spec => []Reports
<1>1. Init => Reports
  BY DEF Init, Reports, Logged, Reported, Signalling
<1>2. Typed /\ Reports /\ [Next]_vars => Reports'
  <2> SUFFICES ASSUME Typed, Reports, [Next]_vars PROVE Reports'
    OBVIOUS
  <2>1. ASSUME NEW m \in Messages, Apart(m) PROVE Reported(m)'
    <3>1. Entry(m)' = Entry(m)
      BY <2>1 DEF Apart, Entry, Record, Kind
    <3>2. QED
      BY <2>1, <3>1, LogsGrow DEF Apart, Reports, Reported
  <2>2. \A m \in Messages : Reported(m)'
    BY <2>1, ReportedStep, OthersApart, RestApart DEF Reports, Typed, Next
  <2>3. QED
    BY <2>2, LoggedStep DEF Reports
<1>3. QED
  BY <1>1, <1>2, TypedAlways, PTL DEF Spec

\* The main session is asked to decide only what the lane of the project and
\* its notification log show too, with the same signal.
THEOREM EscalationsBacked == Spec => []EscalationsAreBacked
<1>1. Init => EscalationsAreBacked
  BY DEF Init, EscalationsAreBacked
<1>2. Typed /\ Reports /\ EscalationsAreBacked /\ [Next]_vars => EscalationsAreBacked'
  <2> SUFFICES ASSUME Typed, Reports, EscalationsAreBacked, [Next]_vars
               PROVE  EscalationsAreBacked'
    OBVIOUS
  <2>1. lane \subseteq lane' /\ notifications \subseteq notifications'
    BY LogsGrow
  <2>2. \A e \in escalations' : e \in escalations \/
          \E m \in Messages : Escalate(m) /\ e = Escalation(m)
    BY DEF Next, Rebind, Prune, vars, signalVars, Handle, Receive, Lookup, Get, Configure, Trace,
       Enqueue, Heartbeat, Execute, Writeback, AppendLane, Retrace, OpenTmp, FillTmp, RenameTmp,
       Notify, Deliver, Escalate, Upsert, CallFails
  <2>3. ASSUME NEW m \in Messages, Escalate(m)
        PROVE  \E r \in lane \cap notifications :
                 /\ r.message = Escalation(m).message /\ r.project = Escalation(m).project
                 /\ r.kind = Escalation(m).kind
    <3>1. Entry(m) \in lane \cap notifications
      BY <2>3 DEF Escalate, Reports, Reported, Signalling
    <3>2. QED
      BY <3>1 DEF Entry, Record, Escalation
  <2>4. QED
    BY <2>1, <2>2, <2>3 DEF EscalationsAreBacked
<1>3. QED
  BY <1>1, <1>2, TypedAlways, ReportsAlways, PTL DEF Spec

LEMMA UpsertKeepsKeys ==
  ASSUME NEW records, NEW e \in records, NEW x
  PROVE  \E y \in Upsert(records, x) : Key(y) = Key(e)
<1>1. CASE Key(e) = Key(x)
  BY <1>1 DEF Upsert
<1>2. CASE Key(e) # Key(x)
  BY <1>2 DEF Upsert
<1>3. QED
  BY <1>1, <1>2

\* An escalation that is open stays open for its key, until a read of the file
\* fails.
LEMMA KeysStay ==
  ASSUME [Next]_vars, ~forgotten'
  PROVE  ~forgotten /\ \A e \in escalations : \E x \in escalations' : Key(x) = Key(e)
<1>1. ASSUME NEW m \in Messages, Escalate(m), ~forgotten'
      PROVE  escalations' = Upsert(escalations, Escalation(m)) /\ UNCHANGED forgotten
  BY <1>1 DEF Escalate
<1>2. ASSUME NEW m \in Messages, Handle(m), ~Escalate(m)
      PROVE  UNCHANGED <<escalations, forgotten>>
  BY <1>2 DEF Handle, Receive, Lookup, Get, Configure, Trace, Enqueue, Heartbeat, Execute,
     Writeback, AppendLane, Retrace, OpenTmp, FillTmp, RenameTmp, Notify, Deliver, CallFails,
     signalVars
<1>3. CASE \E m \in Messages : Escalate(m)
  BY <1>1, <1>3, UpsertKeepsKeys
<1>4. CASE UNCHANGED <<escalations, forgotten>>
  BY <1>4
<1>5. QED
  BY <1>2, <1>3, <1>4 DEF Next, Rebind, Prune, vars, signalVars

\* A handler that ends without an exception has told everybody: its signal is
\* in the notification log, and if it needs a human the session has an open
\* escalation with its key, unless the escalation file could not be read once.
THEOREM SignalsAreKept == Spec => []HandledSignalsAreKept
<1>1. Init => HandledSignalsAreKept
  BY DEF Init, HandledSignalsAreKept
<1>2. ASSUME Typed, Reports, Reports', HandledSignalsAreKept, [Next]_vars
      PROVE  HandledSignalsAreKept'
  <2> SUFFICES ASSUME NEW r \in lane', NEW m \in Messages, m = r.message,
                      pc'[m] = "done", r.kind # "none"
               PROVE  /\ r \in notifications'
                      /\ Escalates(m)' /\ ~forgotten' =>
                           \E e \in escalations' : Key(e) = Key(Escalation(m)')
    BY <1>2 DEF HandledSignalsAreKept, Reports, Logged
  <2>1. Shape /\ Reported(m) /\ r = Entry(m)' /\ r.kind = Kind(m)'
    BY <1>2 DEF Typed, Reports, Logged, Entry, Record
  <2>2. CASE pc[m] = "done"
    <3>1. r \in lane
      <4>1. ~ AppendLane(m)
        BY <2>2 DEF AppendLane
      <4>2. ASSUME NEW n \in Messages, n # m PROVE Entry(n) # r
        BY <4>2 DEF Entry, Record
      <4>3. QED
        BY <1>2, <4>1, <4>2, LogsGrow
    <3>2. Escalation(m)' = Escalation(m) /\ (Escalates(m)' <=> Escalates(m))
      BY <1>2, <2>1, <2>2, EntryStays DEF Told
    <3>3. /\ r \in notifications
          /\ Escalates(m) /\ ~forgotten =>
               \E e \in escalations : Key(e) = Key(Escalation(m))
      BY <1>2, <2>2, <3>1 DEF HandledSignalsAreKept
    <3>4. r \in notifications'
      BY <1>2, <3>3, LogsGrow
    <3>5. Escalates(m) /\ ~forgotten' =>
            \E e \in escalations' : Key(e) = Key(Escalation(m))
      BY <1>2, <3>3, KeysStay
    <3>6. QED
      BY <3>2, <3>4, <3>5
  <2>3. CASE pc[m] # "done"
    <3>1. Handle(m)
      BY <1>2, <2>1, <2>3, OthersApart, RestApart DEF Next, Apart
    <3>2. pc[m] \in Told
      <4>1. r \in lane \/ AppendLane(m)
        <5>1. ASSUME NEW n \in Messages, n # m PROVE Entry(n) # r
          BY <5>1 DEF Entry, Record
        <5>2. QED
          BY <1>2, <5>1, LogsGrow
      <4>2. QED
        BY <1>2, <4>1 DEF Reports, Logged, Signalling, Told, AppendLane
    <3>3. /\ Entry(m)' = Entry(m) /\ Kind(m)' = Kind(m)
          /\ (Escalates(m)' <=> Escalates(m)) /\ Escalation(m)' = Escalation(m)
      BY <1>2, <2>1, <3>2, EntryStays
    <3>4. Deliver(m) \/ Escalate(m)
      BY <2>1, <2>3, <3>1, <3>2, <3>3 DEF Handle, Receive, Lookup, Get, Configure, Trace, Enqueue,
         Heartbeat, Execute, Writeback, AppendLane, Retrace, OpenTmp, FillTmp, RenameTmp,
         Notify, CallFails, Goto, Shape, AfterLane, Promotion, Told
    <3>5. Entry(m) \in notifications
      BY <2>1, <3>4 DEF Deliver, Escalate, Reported
    <3>6. Deliver(m) => ~Escalates(m)
      BY <2>1 DEF Deliver, Goto, Shape, AfterDelivery
    <3>7. Escalate(m) => Escalation(m) \in escalations'
      BY DEF Escalate, Upsert
    <3>8. QED
      BY <1>2, <2>1, <3>3, <3>4, <3>5, <3>6, <3>7, LogsGrow
  <2>4. QED
    BY <2>2, <2>3
<1>3. QED
  BY <1>1, <1>2, TypedAlways, ReportsAlways, PTL DEF Spec
-----------------------------------------------------------------------------
(* The projection snapshot. *)

\* Who may still come back to the path, or has failed there.
Unfinished == {"fill", "rename", "failed"}

\* The files behind TornSnapshotIsNoticed.  A file exists once its creator has
\* opened it, only its openers write to it, a published file is no temporary
\* file any more, nobody who has opened a temporary file is past his rename,
\* and a message whose text is gone from its file has met somebody there.
Held ==
  /\ \A m \in Messages : fd[m] # NULL =>
       /\ fd[fd[m]] = fd[m]
       /\ pc[m] \in Unfinished \cup {"notify", "deliver", "escalate", "done"}
  /\ \A p \in Projects : tmp[p] # NULL => fd[tmp[p]] = tmp[p]
  /\ \A p \in Projects : snapshot[p] # NULL => fd[snapshot[p]] = snapshot[p]
  /\ \A p, q \in Projects : snapshot[p] # NULL => tmp[q] # snapshot[p]
  /\ \A p \in Projects : \A m \in Messages :
       tmp[p] # NULL /\ fd[m] = tmp[p] => pc[m] \in Unfinished
  /\ \A f \in Messages : \A m \in content[f] : fd[m] = f
  /\ \A m \in Messages : pc[m] = "rename" =>
       m \in content[fd[m]] \/ \E n \in Messages : n # m /\ fd[n] = fd[m]

\* The part of OneProject that Held rests on.
OneFilePerPath ==
  /\ \A p, q \in Projects : tmp[p] # NULL /\ tmp[p] = tmp[q] => p = q
  /\ \A m \in Messages : \A p \in Projects :
       pc[m] = "rename" /\ fd[m] # NULL /\ fd[m] \in {tmp[p], snapshot[p]} =>
         p = decision[m].project

LEMMA PathsApart == Typed /\ OneProject => OneFilePerPath
<1> SUFFICES ASSUME Typed, OneProject PROVE OneFilePerPath
  OBVIOUS
<1>1. \A p \in Projects : /\ tmp[p] # NULL => p = Due(tmp[p])
                          /\ snapshot[p] # NULL => p = Due(snapshot[p])
  BY DEF OneProject, Filed, Marks
<1>2. \A m \in Messages : pc[m] = "rename" /\ fd[m] # NULL =>
        decision[m].project = Due(fd[m])
  BY DEF OneProject, Filed, Marks, Aims, Settled
<1>3. QED
  BY <1>1, <1>2 DEF OneFilePerPath

\* What is known of the file tables, for short.
LEMMA FilesOf ==
  ASSUME Typed
  PROVE  /\ Shape /\ FilesTyped /\ NULL \notin Messages
         /\ \A m \in Messages : pc[m] \in {"fill", "rename"} => fd[m] \in Messages
         /\ \A m \in Messages : pc[m] \in {"open", "rename"} => decision[m].project \in Projects
BY IngressAssumption DEF Typed, TypeOK, FilesTyped, Placed, Settled

LEMMA HeldOpen ==
  ASSUME Typed, Held, NEW m \in Messages, OpenTmp(m)
  PROVE  Held'
<1> DEFINE p == decision[m].project
           file == Coalesce(tmp[p], m)
<1>1. /\ Shape /\ FilesTyped /\ NULL \notin Messages /\ p \in Projects
      /\ \A n \in Messages : pc[n] \in {"fill", "rename"} => fd[n] \in Messages
  BY FilesOf DEF OpenTmp
<1>2. /\ tmp' = [tmp EXCEPT ![p] = file] /\ fd' = [fd EXCEPT ![m] = file]
      /\ content' = [content EXCEPT ![file] = {}] /\ snapshot' = snapshot
      /\ pc' = [pc EXCEPT ![m] = "fill"] /\ pc[m] = "open"
  BY DEF OpenTmp, Goto
<1>3. fd[m] = NULL
  BY <1>1, <1>2 DEF Held, FilesTyped, Unfinished
<1>4. file \in Messages /\ (file = m \/ (file # m /\ file = tmp[p] /\ fd[file] = file))
  BY <1>1, <1>3 DEF Coalesce, FilesTyped, Held
<1>5. \A n \in Messages : fd[n] # m
  BY <1>1, <1>3 DEF Held
<1> HIDE DEF p, file
<1> USE <1>1, <1>2, <1>3, <1>4, <1>5 DEF Held, Shape, FilesTyped, Unfinished
<1>6. \A n \in Messages : fd'[n] # NULL =>
        /\ fd'[fd'[n]] = fd'[n]
        /\ pc'[n] \in Unfinished \cup {"notify", "deliver", "escalate", "done"}
  OBVIOUS
<1>7. /\ \A q \in Projects : tmp'[q] # NULL => fd'[tmp'[q]] = tmp'[q]
      /\ \A q \in Projects : snapshot'[q] # NULL => fd'[snapshot'[q]] = snapshot'[q]
  OBVIOUS
<1>8. \A q, x \in Projects : snapshot'[q] # NULL => tmp'[x] # snapshot'[q]
  OBVIOUS
<1>9. \A q \in Projects : \A n \in Messages :
        tmp'[q] # NULL /\ fd'[n] = tmp'[q] => pc'[n] \in Unfinished
  OBVIOUS
<1>10. \A f \in Messages : \A n \in content'[f] : fd'[n] = f
  OBVIOUS
<1>11. \A n \in Messages : pc'[n] = "rename" =>
         n \in content'[fd'[n]] \/ \E x \in Messages : x # n /\ fd'[x] = fd'[n]
  OBVIOUS
<1>12. QED
  BY <1>6, <1>7, <1>8, <1>9, <1>10, <1>11

LEMMA HeldFill ==
  ASSUME Typed, Held, NEW m \in Messages, FillTmp(m)
  PROVE  Held'
<1>1. Shape /\ FilesTyped /\ fd[m] \in Messages
  BY FilesOf DEF FillTmp
<1>2. /\ content' = [content EXCEPT ![fd[m]] = @ \cup {m}] /\ pc[m] = "fill"
      /\ pc' = [pc EXCEPT ![m] = "rename"] /\ UNCHANGED <<fd, tmp, snapshot>>
  BY DEF FillTmp, Goto
<1>3. QED
  BY <1>1, <1>2 DEF Held, Shape, FilesTyped, Unfinished

LEMMA HeldRename ==
  ASSUME Typed, OneFilePerPath, Held, NEW m \in Messages, RenameTmp(m)
  PROVE  Held'
<1> DEFINE p == decision[m].project
<1>1. Shape /\ FilesTyped /\ fd[m] \in Messages /\ p \in Projects /\ NULL \notin Messages
  BY FilesOf DEF RenameTmp
<1>2. pc[m] = "rename" /\ UNCHANGED <<fd, content>>
  BY DEF RenameTmp
<1>3. CASE tmp[p] = NULL
  <2>1. pc' = [pc EXCEPT ![m] = "failed"] /\ UNCHANGED <<tmp, snapshot>>
    BY <1>3 DEF RenameTmp, Goto
  <2>2. QED
    BY <1>1, <1>2, <2>1 DEF Held, Shape, Unfinished
<1>4. CASE tmp[p] # NULL
  <2>1. /\ snapshot' = [snapshot EXCEPT ![p] = tmp[p]] /\ tmp' = [tmp EXCEPT ![p] = NULL]
        /\ pc' = [pc EXCEPT ![m] = "notify"]
    BY <1>4 DEF RenameTmp, Goto
  <2>2. \A q \in Projects : fd[m] = tmp[q] => q = p
    BY <1>1, <1>2 DEF OneFilePerPath
  <2>3. \A q \in Projects : tmp[q] = tmp[p] => q = p
    BY <1>1, <1>4 DEF OneFilePerPath
  <2> HIDE DEF p
  <2>4. QED
    BY <1>1, <1>2, <1>4, <2>1, <2>2, <2>3 DEF Held, Shape, Unfinished
<1>5. QED
  BY <1>3, <1>4

\* Steps that leave the files alone.
Idles == UNCHANGED fileVars /\ \A m \in Messages :
           /\ fd[m] # NULL /\ pc'[m] # pc[m] =>
                /\ pc'[m] \in Unfinished \cup {"notify", "deliver", "escalate", "done"}
                /\ pc[m] \in Unfinished => pc'[m] = "failed"
           /\ pc'[m] = "rename" => pc[m] = "rename"

LEMMA HeldIdles ==
  ASSUME Held, Idles
  PROVE  Held'
BY DEF Held, Idles, fileVars, Unfinished

LEMMA OthersIdle ==
  ASSUME Typed, Held, [Next]_vars,
         \A m \in Messages : ~OpenTmp(m) /\ ~FillTmp(m) /\ ~RenameTmp(m)
  PROVE  Idles
<1>1. Shape
  BY DEF Typed
<1>2. ASSUME NEW m \in Messages, Handle(m) PROVE Idles
  <2>1. UNCHANGED fileVars
    BY <1>2 DEF Handle, Receive, Lookup, Get, Configure, Trace, Enqueue, Heartbeat, Execute,
       Writeback, AppendLane, Retrace, Notify, Deliver, Escalate, CallFails
  <2>2. \A n \in Messages : n # m => pc'[n] = pc[n]
    BY <1>1, <1>2, OthersApart DEF Apart
  <2>3. pc'[m] # "rename"
    BY <1>1, <1>2 DEF Handle, Receive, Lookup, Get, Configure, Decide, Trace, Enqueue,
       Heartbeat, Execute, Writeback, AppendLane, Retrace, Notify, Deliver, Escalate, CallFails,
       Goto, Shape, AfterDecision, AfterLane, Promotion, AfterDelivery
  <2>4. fd[m] # NULL => pc[m] \in Unfinished \cup {"notify", "deliver", "escalate", "done"}
    BY DEF Held
  <2>5. pc[m] \in Unfinished => pc'[m] = "failed"
    BY <1>1, <1>2 DEF Handle, Receive, Lookup, Get, Configure, Trace, Enqueue, Heartbeat,
       Execute, Writeback, AppendLane, Retrace, Notify, Deliver, Escalate, CallFails, Goto,
       Shape, Unfinished
  <2>6. pc[m] \in {"notify", "deliver", "escalate", "done"} =>
          pc'[m] \in {"failed", "deliver", "escalate", "done"}
    BY <1>1, <1>2 DEF Handle, Receive, Lookup, Get, Configure, Trace, Enqueue, Heartbeat,
       Execute, Writeback, AppendLane, Retrace, Notify, Deliver, Escalate, CallFails, Goto,
       Shape, AfterDelivery
  <2>7. QED
    BY <2>1, <2>2, <2>3, <2>4, <2>5, <2>6 DEF Idles, Unfinished
<1>3. CASE UNCHANGED <<pc, fileVars>>
  BY <1>3 DEF Idles
<1>4. QED
  BY <1>2, <1>3 DEF Next, Rebind, Prune, vars

LEMMA HeldStep ==
  ASSUME Typed, OneProject, Held, [Next]_vars
  PROVE  Held'
BY HeldOpen, HeldFill, HeldRename, PathsApart, OthersIdle, HeldIdles DEF Next, Rebind, Prune, vars

\* A snapshot stays noticed.
LEMMA NoticedStep ==
  ASSUME Typed, OneProject, Held, TornSnapshotIsNoticed, [Next]_vars
  PROVE  TornSnapshotIsNoticed'
<1>1. Shape /\ FilesTyped /\ NULL \notin Messages /\ OneFilePerPath
  BY FilesOf, PathsApart
<1> DEFINE Noticed(f) == \/ \E m \in Messages : content[f] = {m}
                         \/ \E m \in Messages : fd[m] = f /\ pc[m] \in Unfinished
           NoticedNext(f) == \/ \E m \in Messages : content'[f] = {m}
                             \/ \E m \in Messages : fd'[m] = f /\ pc'[m] \in Unfinished
<1>2. \A p \in Projects : snapshot[p] # NULL => Noticed(snapshot[p])
  BY DEF TornSnapshotIsNoticed, Unfinished
<1>3. SUFFICES \A p \in Projects : snapshot'[p] # NULL => NoticedNext(snapshot'[p])
  BY DEF TornSnapshotIsNoticed, Unfinished
<1>4. ASSUME NEW m \in Messages, OpenTmp(m), NEW p \in Projects, snapshot'[p] # NULL
      PROVE  NoticedNext(snapshot'[p])
  <2> DEFINE file == Coalesce(tmp[decision[m].project], m)
             f == snapshot[p]
  <2>1. /\ fd' = [fd EXCEPT ![m] = file] /\ content' = [content EXCEPT ![file] = {}]
        /\ snapshot' = snapshot /\ pc' = [pc EXCEPT ![m] = "fill"] /\ pc[m] = "open"
    BY <1>4 DEF OpenTmp, Goto
  <2>2. fd[m] = NULL
    BY <1>1, <2>1 DEF Held, FilesTyped, Unfinished
  <2>3. decision[m].project \in Projects
    BY <2>1, FilesOf
  <2>4. f # file /\ f # NULL
    BY <1>4, <2>1, <2>2, <2>3 DEF Held, Coalesce
  <2> HIDE DEF file
  <2>5. content'[f] = content[f] /\ \A n \in Messages : fd[n] = f => fd'[n] = f /\ pc'[n] = pc[n]
    BY <1>1, <2>1, <2>2, <2>4 DEF Shape, FilesTyped
  <2>6. QED
    BY <1>2, <2>1, <2>4, <2>5
<1>5. ASSUME NEW m \in Messages, FillTmp(m), NEW p \in Projects, snapshot'[p] # NULL
      PROVE  NoticedNext(snapshot'[p])
  BY <1>1, <1>2, <1>5 DEF FillTmp, Goto, Shape, Unfinished
<1>6. ASSUME NEW m \in Messages, RenameTmp(m), NEW p \in Projects, snapshot'[p] # NULL
      PROVE  NoticedNext(snapshot'[p])
  <2> DEFINE q == decision[m].project
  <2>1. /\ q \in Projects /\ fd[m] \in Messages /\ pc[m] = "rename"
        /\ UNCHANGED <<fd, content>>
    BY <1>6, FilesOf DEF RenameTmp
  <2>2. CASE tmp[q] = NULL
    <3>1. pc' = [pc EXCEPT ![m] = "failed"] /\ UNCHANGED <<tmp, snapshot>>
      BY <1>6, <2>2 DEF RenameTmp, Goto
    <3>2. QED
      BY <1>1, <1>2, <1>6, <2>1, <3>1 DEF Shape, Unfinished
  <2>3. CASE tmp[q] # NULL
    <3>1. /\ snapshot' = [snapshot EXCEPT ![q] = tmp[q]] /\ tmp' = [tmp EXCEPT ![q] = NULL]
          /\ pc' = [pc EXCEPT ![m] = "notify"]
      BY <1>6, <2>3 DEF RenameTmp, Goto
    <3>2. CASE p = q
      <4> DEFINE f == tmp[q]
      <4>1. f \in Messages /\ snapshot'[p] = f /\ fd[f] = f
        BY <1>1, <2>1, <2>3, <3>1, <3>2 DEF Held, Shape, FilesTyped
      <4>2. \A n \in Messages : fd[n] = f => pc[n] \in Unfinished
        BY <2>1, <2>3 DEF Held
      <4> HIDE DEF f
      <4>3. CASE \E n \in Messages : n # m /\ fd[n] = f
        BY <1>1, <2>1, <3>1, <4>1, <4>2, <4>3 DEF Shape
      <4>4. CASE \A n \in Messages : fd[n] = f => n = m
        <5>1. f = m /\ fd[m] = f
          BY <4>1, <4>4
        <5>2. m \in content[f]
          BY <2>1, <4>4, <5>1 DEF Held
        <5>3. content[f] = {m}
          BY <1>1, <4>1, <4>4, <5>2 DEF Held, FilesTyped
        <5>4. QED
          BY <2>1, <4>1, <5>3
      <4>5. QED
        BY <4>3, <4>4
    <3>3. CASE p # q
      <4>1. snapshot'[p] = snapshot[p] /\ fd[m] # snapshot[p]
        BY <1>1, <1>6, <2>1, <3>1, <3>3 DEF OneFilePerPath, Shape
      <4>2. QED
        BY <1>1, <1>2, <1>6, <2>1, <3>1, <4>1 DEF Shape
    <3>4. QED
      BY <3>2, <3>3
  <2>4. QED
    BY <2>2, <2>3
<1>7. ASSUME Idles, NEW p \in Projects, snapshot'[p] # NULL
      PROVE  NoticedNext(snapshot'[p])
  BY <1>1, <1>2, <1>7 DEF Idles, fileVars, Unfinished, FilesTyped
<1>8. QED
  BY <1>4, <1>5, <1>6, <1>7, OthersIdle DEF Next, Rebind, Prune, vars

\* Two messages of a project may write the same temporary file at once.  A
\* snapshot that mixes them or is empty does not go unnoticed: one of its
\* writers has failed, or still has to come back to the path.
THEOREM TornIsNoticed == Spec => []TornSnapshotIsNoticed
<1>1. Init => Held /\ TornSnapshotIsNoticed
  BY DEF Init, Held, TornSnapshotIsNoticed
<1>2. Typed /\ OneProject /\ Held /\ TornSnapshotIsNoticed /\ [Next]_vars
        => (Held /\ TornSnapshotIsNoticed)'
  BY HeldStep, NoticedStep
<1>3. QED
  BY <1>1, <1>2, TypedAlways, OneProjectAlways, PTL DEF Spec
=============================================================================
