--------------------------- MODULE IngressRouting ---------------------------
(***************************************************************************)
(* Automation messages on their way through before_dispatch                *)
(* (adapters/openclaw/plugin/src/index.ts): the decision, the work it      *)
(* leads to, the lane of the project, and the promotion of what came of it *)
(* to notifications and escalations.                                       *)
(*                                                                         *)
(* One action is the code between two awaits.  A call of the session store *)
(* or of the escalation store is one step: both serialise their calls      *)
(* (SessionProjectStore).  The projection snapshot of a project is written *)
(* without such a queue, to one temporary path per project, so its file    *)
(* operations are steps of their own.  The service is abstract: any        *)
(* outcome of ServiceResults; SemanticExecution has the real one.  No      *)
(* action is a crash: it is a handler that takes no further step, and      *)
(* nothing here is kept in memory but handlers.                            *)
(***************************************************************************)
EXTENDS RouteDecision, SignalPromotion

CONSTANTS
  Messages,       \* identities of messages, redelivered ones included
  Sessions,       \* canonical keys of main sessions
  Projects,       \* project ids a session can be bound to
  Registered,     \* those that are in the registry
  Actions,        \* action names
  Inbox,          \* the envelopes that may arrive
  Base, Override, \* router.yaml of the plugin, and of each project
  Handlers,       \* registered service handlers
  ServiceResults, \* what a service may answer
  MaxSwitches, MaxFaults   \* bounds

EnvelopeFields == {"source", "named", "project", "action", "workflow", "session"}

ASSUME IngressAssumption ==
  /\ MaxSwitches \in Nat /\ MaxFaults \in Nat
  /\ Registered \subseteq Projects
  /\ NULL \notin Projects \cup Sessions \cup Actions \cup Messages
  /\ \A e \in Inbox : /\ DOMAIN e = EnvelopeFields
                      /\ e.project = NULL
                      /\ e.session \in Sessions \cup {NULL}
                      /\ e.action \in Actions \cup {NULL}
  /\ \A r \in ServiceResults : r.from = "service" /\ r.hints \subseteq Hints

VARIABLES
  session,        \* the session store
  pc,             \* where the handler of each message is
  envelope,       \* its envelope
  seen,           \* the session it read
  config,         \* the router configuration it read
  decision,       \* its final decision
  work,           \* what it set in motion: a service call or a session event
  outcome,        \* what came of it
  dm,             \* whether the writeback asks for a direct message
  lane,           \* entries of the project lanes
  fd,             \* the file each message writes its snapshot into
  content,        \* what each such file holds
  tmp, snapshot,  \* the files behind the two paths of a project
  notifications,  \* the notification logs
  escalations,    \* open escalations
  forgotten,      \* whether a read of the escalation store failed
  switches, faults

turnVars    == <<envelope, seen, config, decision>>
workVars    == <<work, outcome, dm>>
fileVars    == <<fd, content, tmp, snapshot>>
signalVars  == <<notifications, escalations, forgotten>>
budget      == <<switches, faults>>
vars == <<session, pc, turnVars, workVars, lane, fileVars, signalVars, budget>>

\* The store outlives the plugin, and a bound project may have left the
\* registry since.
Stored ==
  {NULL} \cup { SetPatch(NULL, [current_project_id |-> p]) : p \in Projects }

NoDecision == [target |-> NULL, project |-> NULL, workflow |-> NULL]

Init ==
  /\ session \in [Sessions -> Stored]
  /\ pc = [m \in Messages |-> "idle"]
  /\ envelope = [m \in Messages |-> NULL]
  /\ seen = [m \in Messages |-> NULL]
  /\ config = [m \in Messages |-> NULL]
  /\ decision = [m \in Messages |-> NoDecision]
  /\ work = [m \in Messages |-> NULL]
  /\ outcome = [m \in Messages |-> NULL]
  /\ dm = [m \in Messages |-> FALSE]
  /\ lane = {}
  /\ fd = [m \in Messages |-> NULL]
  /\ content = [m \in Messages |-> {}]
  /\ tmp = [p \in Projects |-> NULL]
  /\ snapshot = [p \in Projects |-> NULL]
  /\ notifications = {} /\ escalations = {} /\ forgotten = FALSE
  /\ switches = 0 /\ faults = 0

Goto(m, label) == pc' = [pc EXCEPT ![m] = label]

Fault == faults < MaxFaults /\ faults' = faults + 1

\* What a call of the session store does not find: the sessions that have expired,
\* and all of them if the file cannot be read.  It writes the rest back.
Live == {k \in Sessions : session[k] # NULL}
Without(lost) == [k \in Sessions |-> IF k \in lost THEN NULL ELSE session[k]]

Reads(lost) == IF lost = {} THEN UNCHANGED faults ELSE Fault

\* store.set
Set(k, patch) ==
  \E lost \in SUBSET Live :
    Reads(lost) /\ session' = [Without(lost) EXCEPT ![k] = SetPatch(@, patch)]
-----------------------------------------------------------------------------
(* The decision. *)

\* A message that is no structured workflow goes on to the model.
Receive(m) ==
  /\ pc[m] = "idle"
  /\ \E e \in Inbox :
       /\ envelope' = [envelope EXCEPT ![m] = e]
       /\ Goto(m, IF e.source = "human" THEN "done"
                  ELSE IF e.named # NULL THEN "lookup"
                  ELSE IF e.session # NULL THEN "get" ELSE "configure")
  /\ UNCHANGED <<session, seen, config, decision, workVars, lane, fileVars,
                 signalVars, budget>>

\* getProjectById for the project the message names.
Lookup(m) ==
  /\ pc[m] = "lookup"
  /\ LET named == envelope[m].named
     IN envelope' = [envelope EXCEPT ![m].project =
                       IF named \in Registered THEN named ELSE NULL]
  /\ Goto(m, IF envelope[m].session # NULL THEN "get" ELSE "configure")
  /\ UNCHANGED <<session, seen, config, decision, workVars, lane, fileVars,
                 signalVars, budget>>

\* store.get
Get(m) ==
  /\ pc[m] = "get"
  /\ \E lost \in SUBSET Live :
       /\ Reads(lost)
       /\ session' = Without(lost)
       /\ seen' = [seen EXCEPT ![m] = Without(lost)[envelope[m].session]]
  /\ Goto(m, "configure")
  /\ UNCHANGED <<envelope, config, decision, workVars, lane, fileVars, signalVars,
                 switches>>

\* What a message leads to once it is decided and traced.
AfterDecision(c, d) ==
  IF d.target = "service" THEN "execute"
  ELSE IF d.target = "project_session" /\ d.project # NULL
    THEN IF c.project_session_binding # NULL THEN "enqueue" ELSE "lane"
  ELSE "done"

\* Without a binding the delivery result is made up on the spot.
Unbound == [from |-> "delivery", status |-> "unresolved_binding", escalate |-> FALSE,
            hints |-> {}, complete |-> FALSE, text |-> FALSE]

Decide(m, c) ==
  LET e == envelope[m]
      d == DecideRoute(e, seen[m], RouteOf(c, e.action),
             ServiceAvailable(Handlers, c, e.action, RoutedProject(e, seen[m])))
      next == AfterDecision(c, d)
  IN /\ config' = [config EXCEPT ![m] = c]
     /\ decision' = [decision EXCEPT ![m] = d]
     /\ outcome' = [outcome EXCEPT ![m] = IF next = "lane" THEN Unbound ELSE NULL]
     /\ Goto(m, IF e.session # NULL THEN "trace" ELSE next)

\* The router.yaml of the project, if it is registered; one that cannot be
\* read or parsed counts as empty.
Configure(m) ==
  /\ pc[m] = "configure"
  /\ LET p == RoutedProject(envelope[m], seen[m])
     IN \/ /\ Decide(m, IF p \in Registered THEN MergeConfigs(Base, Override[p]) ELSE Base)
           /\ UNCHANGED faults
        \/ p \in Registered /\ Decide(m, Base) /\ Fault
  /\ UNCHANGED <<session, envelope, seen, work, dm, lane, fileVars, signalVars,
                 switches>>

\* Mutant: the session as it was read is stored again.
TraceWholeSession(m) ==
  /\ pc[m] = "trace"
  /\ Set(envelope[m].session,
         IF seen[m] = NULL THEN [last_route_trace |-> m]
         ELSE [seen[m] EXCEPT !.last_route_trace = m])
  /\ Goto(m, AfterDecision(config[m], decision[m]))
  /\ UNCHANGED <<turnVars, workVars, lane, fileVars, signalVars, switches>>

\* store.set of the workflow and the trace.  A trace is its message.
Trace(m) ==
  /\ pc[m] = "trace"
  /\ Set(envelope[m].session,
         [current_workflow |->
            Coalesce(decision[m].workflow,
                     IF seen[m] = NULL THEN NULL ELSE seen[m].current_workflow),
          last_route_trace |-> m])
  /\ Goto(m, AfterDecision(config[m], decision[m]))
  /\ UNCHANGED <<turnVars, workVars, lane, fileVars, signalVars, switches>>
-----------------------------------------------------------------------------
(* The work. *)

Delivery(status, hints) ==
  [from |-> "delivery", status |-> status, escalate |-> FALSE, hints |-> hints,
   complete |-> FALSE, text |-> FALSE]

Work(m, kind) ==
  work' = [work EXCEPT ![m] = [kind |-> kind, project |-> decision[m].project]]

\* enqueueSystemEvent: accepted, refused (no adapter, no target or no runtime
\* included), or thrown, with a message that may hint at a human.
Enqueue(m) ==
  /\ pc[m] = "enqueue"
  /\ \/ /\ Work(m, "event")
        /\ Goto(m, "heartbeat")
        /\ UNCHANGED <<outcome, faults>>
     \/ /\ \E h \in SUBSET {"human"} :
             /\ outcome' = [outcome EXCEPT ![m] = Delivery("failed", h)]
             /\ IF h = {} THEN UNCHANGED faults ELSE Fault
        /\ Goto(m, "lane")
        /\ UNCHANGED work
  /\ UNCHANGED <<session, turnVars, dm, lane, fileVars, signalVars, switches>>

\* runHeartbeatOnce: it ran, it did not, or it threw.
Heartbeat(m) ==
  /\ pc[m] = "heartbeat"
  /\ \/ /\ \E s \in {"delivered", "queued"} :
             outcome' = [outcome EXCEPT ![m] = Delivery(s, {})]
        /\ UNCHANGED faults
     \/ /\ Fault
        /\ \E h \in SUBSET {"human"} : outcome' = [outcome EXCEPT ![m] = Delivery("failed", h)]
  /\ Goto(m, "lane")
  /\ UNCHANGED <<session, turnVars, work, dm, lane, fileVars, signalVars,
                 switches>>

\* The handler, or the bridge of the service binding.  Without a project
\* nothing more is recorded.
Execute(m) ==
  /\ pc[m] = "execute"
  /\ Work(m, "service")
  /\ \/ /\ \E r \in ServiceResults : outcome' = [outcome EXCEPT ![m] = r]
        /\ Goto(m, IF decision[m].project = NULL THEN "done" ELSE "writeback")
        /\ UNCHANGED faults
     \/ Fault /\ Goto(m, "failed") /\ UNCHANGED outcome
  /\ UNCHANGED <<session, turnVars, dm, lane, fileVars, signalVars, switches>>

\* taskBugWritebackObserver, whose exceptions are swallowed.
Writeback(m) ==
  /\ pc[m] = "writeback"
  /\ \E d \in BOOLEAN : /\ d => outcome[m].complete
                        /\ dm' = [dm EXCEPT ![m] = d]
  /\ Goto(m, "lane")
  /\ UNCHANGED <<session, turnVars, work, outcome, lane, fileVars, signalVars, budget>>
-----------------------------------------------------------------------------
(* The lane. *)

Kind(m) == SignalKind(envelope[m].source, outcome[m], dm[m])

Record(m, p) == [message |-> m, project |-> p, kind |-> Kind(m)]

\* Mutant: every handled message is promoted.
PromotionOfAll(m) == "open"

\* recordSignalPromotion builds a snapshot for every signal but none.
Promotion(m) == IF Kind(m) = "none" THEN "done" ELSE "open"

AfterLane(m) ==
  IF decision[m].target = "project_session" /\ envelope[m].session # NULL
  THEN "retrace" ELSE Promotion(m)

\* Mutant: the project the session is bound to by now.
AppendLaneOfBound(m) ==
  /\ pc[m] = "lane"
  /\ LET k == envelope[m].session
         p == IF k # NULL /\ Binding(session[k]) # NULL
              THEN Binding(session[k]) ELSE decision[m].project
     IN lane' = lane \cup {Record(m, p)}
  /\ Goto(m, AfterLane(m))
  /\ UNCHANGED <<session, turnVars, workVars, fileVars, signalVars, budget>>

\* appendProjectSessionEvent
AppendLane(m) ==
  /\ pc[m] = "lane"
  /\ lane' = lane \cup {Record(m, decision[m].project)}
  /\ Goto(m, AfterLane(m))
  /\ UNCHANGED <<session, turnVars, workVars, fileVars, signalVars, budget>>

\* The trace again, now with the delivery.
Retrace(m) ==
  /\ pc[m] = "retrace"
  /\ Set(envelope[m].session, [last_route_trace |-> m])
  /\ Goto(m, Promotion(m))
  /\ UNCHANGED <<turnVars, workVars, lane, fileVars, signalVars, switches>>
-----------------------------------------------------------------------------
(* The projection snapshot: writeFile of the temporary path, and rename.   *)
(* A file is named after the message that created it and holds the         *)
(* messages that wrote to it since it was truncated.                       *)

OpenTmp(m) ==
  /\ pc[m] = "open"
  /\ LET p == decision[m].project
         file == Coalesce(tmp[p], m)
     IN /\ tmp' = [tmp EXCEPT ![p] = file]
        /\ fd' = [fd EXCEPT ![m] = file]
        /\ content' = [content EXCEPT ![file] = {}]
  /\ Goto(m, "fill")
  /\ UNCHANGED <<session, turnVars, workVars, lane, snapshot, signalVars, budget>>

FillTmp(m) ==
  /\ pc[m] = "fill"
  /\ content' = [content EXCEPT ![fd[m]] = @ \cup {m}]
  /\ Goto(m, "rename")
  /\ UNCHANGED <<session, turnVars, workVars, lane, fd, tmp, snapshot, signalVars,
                 budget>>

\* Mutant: a temporary path that is gone is no error.
RenameTolerant(m) ==
  /\ pc[m] = "rename"
  /\ LET p == decision[m].project
     IN IF tmp[p] = NULL THEN UNCHANGED <<tmp, snapshot>>
        ELSE /\ snapshot' = [snapshot EXCEPT ![p] = tmp[p]]
             /\ tmp' = [tmp EXCEPT ![p] = NULL]
  /\ Goto(m, "notify")
  /\ UNCHANGED <<session, turnVars, workVars, lane, fd, content, signalVars, budget>>

\* The path is gone when another message of the project has renamed it.
RenameTmp(m) ==
  /\ pc[m] = "rename"
  /\ LET p == decision[m].project
     IN IF tmp[p] = NULL
        THEN Goto(m, "failed") /\ UNCHANGED <<tmp, snapshot>>
        ELSE /\ snapshot' = [snapshot EXCEPT ![p] = tmp[p]]
             /\ tmp' = [tmp EXCEPT ![p] = NULL]
             /\ Goto(m, "notify")
  /\ UNCHANGED <<session, turnVars, workVars, lane, fd, content, signalVars, budget>>
-----------------------------------------------------------------------------
(* Notification and escalation. *)

Notified(m) == notifications' = notifications \cup {Record(m, decision[m].project)}

\* Mutant: a notification that cannot be recorded is skipped.
NotifyBestEffort(m) ==
  /\ pc[m] = "notify"
  /\ \/ Notified(m) /\ UNCHANGED faults
     \/ Fault /\ UNCHANGED notifications
  /\ Goto(m, "deliver")
  /\ UNCHANGED <<session, turnVars, workVars, lane, fileVars, escalations, forgotten,
                 switches>>

\* appendBusinessNotificationRecord
Notify(m) ==
  /\ pc[m] = "notify"
  /\ Notified(m)
  /\ Goto(m, "deliver")
  /\ UNCHANGED <<session, turnVars, workVars, lane, fileVars, escalations, forgotten,
                 budget>>

Escalates(m) ==
  /\ envelope[m].session # NULL
  /\ MainSessionEscalation(Kind(m), outcome[m])

AfterDelivery(m) == IF Escalates(m) THEN "escalate" ELSE "done"

\* businessNotificationDeliveryObserver, whose exceptions are swallowed.
Deliver(m) ==
  /\ pc[m] = "deliver"
  /\ Goto(m, AfterDelivery(m))
  /\ UNCHANGED <<session, turnVars, workVars, lane, fileVars, signalVars, budget>>

Escalation(m) ==
  [session |-> envelope[m].session, project |-> decision[m].project, kind |-> Kind(m),
   action |-> envelope[m].action, reason |-> outcome[m].hints, message |-> m]

\* deriveEscalationDedupKey.  Its parts are kept apart here; that stableId replaces
\* what it does not like in their text is left out.
Key(e) == <<e.session, e.project, e.kind, e.action, e.reason>>

\* Mutant: one open escalation per project and kind.
UpsertByKind(records, e) ==
  {r \in records : <<r.project, r.kind>> # <<e.project, e.kind>>} \cup {e}

\* upsertOpen on the records it read.
Upsert(records, e) == {r \in records : Key(r) # Key(e)} \cup {e}

\* upsertOpen; a file that cannot be read counts as empty.  What its observer
\* does is swallowed and changes nothing here.
Escalate(m) ==
  /\ pc[m] = "escalate"
  /\ \/ /\ escalations' = Upsert(escalations, Escalation(m))
        /\ UNCHANGED <<faults, forgotten>>
     \/ /\ Fault
        /\ escalations' = Upsert({}, Escalation(m))
        /\ forgotten' = TRUE
  /\ Goto(m, "done")
  /\ UNCHANGED <<session, turnVars, workVars, lane, fileVars, notifications,
                 switches>>

\* A call of a store, a file operation or a registry lookup rejects; nothing
\* catches the exception.  A lookup in "configure" is one of the bound project.
CallFails(m) ==
  /\ \/ pc[m] \in {"lookup", "get", "trace", "lane", "retrace", "open", "fill",
                   "rename", "notify", "escalate"}
     \/ pc[m] = "configure" /\ envelope[m].project = NULL /\ Binding(seen[m]) # NULL
  /\ Fault
  /\ Goto(m, "failed")
  /\ UNCHANGED <<session, turnVars, workVars, lane, fileVars, signalVars,
                 switches>>
-----------------------------------------------------------------------------
(* The environment. *)

\* Mutant: a switch keeps the workflow of the session.
RebindKeepsWorkflow(k) ==
  /\ switches < MaxSwitches
  /\ switches' = switches + 1
  /\ \E p \in Registered : Set(k, BindingPatch(p, "manual", Existing(session[k]).current_workflow, NULL, TRUE))
  /\ UNCHANGED <<pc, turnVars, workVars, lane, fileVars, signalVars>>

\* /project <id>, and the prompt hook that drops a dead binding.
Rebind(k) ==
  /\ switches < MaxSwitches
  /\ switches' = switches + 1
  /\ \/ \E p \in Registered : Set(k, BindingPatch(p, "manual", NULL, NULL, TRUE))
     \/ /\ Binding(session[k]) \notin Registered \cup {NULL}
        /\ \E lost \in SUBSET Live :
             /\ Reads(lost)
             /\ session' = [Without(lost) EXCEPT ![k] =
                              InvalidatePatch(@, [last_route_trace |-> NULL])]
  /\ UNCHANGED <<pc, turnVars, workVars, lane, fileVars, signalVars>>

\* Any other call of the store prunes and writes back what it reads.
Prune ==
  /\ \E lost \in SUBSET Live : Reads(lost) /\ session' = Without(lost)
  /\ UNCHANGED <<pc, turnVars, workVars, lane, fileVars, signalVars, switches>>

Handle(m) ==
  \/ Receive(m) \/ Lookup(m) \/ Get(m) \/ Configure(m) \/ Trace(m)
  \/ Enqueue(m) \/ Heartbeat(m) \/ Execute(m) \/ Writeback(m)
  \/ AppendLane(m) \/ Retrace(m)
  \/ OpenTmp(m) \/ FillTmp(m) \/ RenameTmp(m)
  \/ Notify(m) \/ Deliver(m) \/ Escalate(m) \/ CallFails(m)

Next ==
  \/ \E m \in Messages : Handle(m)
  \/ \E k \in Sessions : Rebind(k)
  \/ Prune

Spec == Init /\ [][Next]_vars
-----------------------------------------------------------------------------
(* Properties. *)

Places == {"idle", "lookup", "get", "configure", "trace", "enqueue", "heartbeat",
           "execute", "writeback", "lane", "retrace", "open", "fill", "rename",
           "notify", "deliver", "escalate", "done", "failed"}

Records == [message : Messages, project : Projects, kind : SignalKinds \ {"none"}]

\* Every message is somewhere in before_dispatch, what it decided and recorded
\* has the shape the code gives it, and a signal that is notified or escalated
\* is one and has a project.
TypeOK ==
  /\ pc \in [Messages -> Places]
  /\ \A k \in Sessions :
       session[k] # NULL => /\ Binding(session[k]) \in Projects \cup {NULL}
                            /\ session[k].last_route_trace \in Messages \cup {NULL}
  /\ \A m \in Messages :
       /\ envelope[m] # NULL => envelope[m].project \in Registered \cup {NULL}
       /\ decision[m].project \in Projects \cup {NULL}
       /\ fd[m] \in Messages \cup {NULL}
       /\ content[m] \subseteq Messages
  /\ tmp \in [Projects -> Messages \cup {NULL}]
  /\ snapshot \in [Projects -> Messages \cup {NULL}]
  /\ notifications \subseteq Records
  /\ \A e \in escalations : e.session \in Sessions /\ e.message \in Messages
  /\ switches \in 0..MaxSwitches /\ faults \in 0..MaxFaults

\* The fields that routing does not own are those of the session as it was, or
\* of a new one when the session is lost.
Spares(k) ==
  \E old \in {session[k]} \cup (IF faults' = faults THEN {} ELSE {NULL}) :
    \/ session'[k] = old
    \/ \A f \in Fields \ {"current_workflow", "last_route_trace"} :
         session'[k][f] = Existing(old)[f]

\* Routing works on the session it read several awaits ago and shares the
\* session with commands, turns and other messages: it changes the workflow and
\* the trace, and never the binding, a draft or pending work, however stale
\* what it read is.  Only a call of the store that finds the session expired, or
\* cannot read its file, loses it, and then whole: nothing of it comes back.
RoutingKeepsSession == [][switches' = switches => \A k \in Sessions : Spares(k)]_vars

Workflow(s) == IF s = NULL THEN NULL ELSE s.current_workflow

\* The workflow a session shows ends with the binding it was decided under.
\* One that appears was decided by a message of that session and is stored by
\* a message under way, which may be one that read the session before the
\* switch (the store.set after resolveStructuredDecision).
WorkflowEndsWithBinding ==
  [][\A k \in Sessions :
       LET w == Workflow(session'[k])
       IN /\ Binding(session'[k]) \notin {Binding(session[k]), NULL} => w = NULL
          /\ w \notin {Workflow(session[k]), NULL} =>
               \E m, n \in Messages :
                 /\ pc[m] = "trace" /\ pc'[m] # "trace"
                 /\ envelope[m].session = k /\ envelope[n].session = k
                 /\ decision[n].workflow = w
                 /\ w \in {decision[m].workflow, Workflow(seen[m])}]_vars

\* All projects in which message m left something.
Touched(m) ==
  {r.project : r \in {x \in lane \cup notifications : x.message = m}}
    \cup {e.project : e \in {x \in escalations : x.message = m}}
    \cup {p \in Projects : snapshot[p] # NULL /\ m \in content[snapshot[p]]}
    \cup (IF work[m] = NULL THEN {} ELSE {work[m].project} \ {NULL})

\* A message is about one project from the service call to the escalation: the
\* one it names, if that is registered, and otherwise the one its session was
\* bound to when it was read, even if the human has switched since.
OneProjectPerMessage ==
  \A m \in Messages : \A p \in Touched(m) :
    p = IF envelope[m].named \in Registered THEN envelope[m].named
        ELSE Binding(seen[m])

\* The main session is asked to decide only what the lane of the project and
\* its notification log show too, with the same signal.
EscalationsAreBacked ==
  \A e \in escalations :
    \E r \in lane \cap notifications :
      r.message = e.message /\ r.project = e.project /\ r.kind = e.kind

\* A handler that ends without an exception has told everybody: the signal it
\* put into the lane is in the notification log, and if it needs a human the
\* session has an open escalation for it, its own or a later one with its key.
HandledSignalsAreKept ==
  \A r \in lane : pc[r.message] = "done" /\ r.kind # "none" =>
    /\ r \in notifications
    /\ Escalates(r.message) /\ ~forgotten =>
         \E e \in escalations : Key(e) = Key(Escalation(r.message))

\* Two messages of a project may write the same temporary file.  A snapshot
\* that mixes them or is empty does not go unnoticed: one of its writers has
\* failed, or still has to come back to the path.
TornSnapshotIsNoticed ==
  \A p \in Projects : snapshot[p] # NULL =>
    \/ \E m \in Messages : content[snapshot[p]] = {m}
    \/ \E m \in Messages : fd[m] = snapshot[p] /\ pc[m] \in {"fill", "rename", "failed"}

\* Cut 4B: a signal that asks for a notification gets its record.  Nothing
\* fails but what the messages do to each other.
SignalsReachPeople ==
  faults = 0 =>
    \A r \in lane : pc[r.message] \in {"done", "failed"} /\ r.kind # "none" =>
      r \in notifications
=============================================================================
