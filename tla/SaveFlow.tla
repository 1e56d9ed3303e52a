------------------------------ MODULE SaveFlow ------------------------------
(***************************************************************************)
(* /project --save and what runs beside it on the same main session        *)
(* (adapters/openclaw/plugin/src/commands/save.ts, commands/project.ts,    *)
(* hooks/save-mode.ts, hooks/before-prompt-build.ts).                      *)
(*                                                                         *)
(* A command arms a save mode, a turn of the agent is shown the save frame *)
(* before it starts, its output becomes the pending draft, and another     *)
(* command writes the draft to the RESUME and STATUS of its project.  Each *)
(* of these reads the session, awaits, and patches the session: one action *)
(* is the code between two awaits.  Calls of the session store are atomic, *)
(* which is what SessionProjectStore shows of it, and may find a session   *)
(* expired or fail to read the file.  The documents are written in place,  *)
(* without a lock.  No action is a crash: it is a job that takes no        *)
(* further step, and no job has to take one.                               *)
(*                                                                         *)
(* A draft is the turn it came from, its project, and whether it has a     *)
(* STATUS part.  A pending save mode is its project.                       *)
(***************************************************************************)
EXTENDS SessionState

CONSTANTS
  Projects,     \* project ids
  Commands,     \* identities of slash commands
  Turns,        \* identities of agent turns
  Keys,         \* session keys that the runtime hands to the hooks
  Main,         \* the canonical session key; the other keys are its aliases
  Kinds,        \* the commands a human gives
  EMPTY, TORN,  \* a truncated document; a mixture or a part of a text
  MaxRebinds, MaxUnregisters, MaxFaults   \* bounds

CommandKinds == {"arm", "apply", "cancel", "dry-run", "switch"}

Documents == {"resume", "status"}

Drafts == [project : Projects, turn : Turns, status : BOOLEAN]
ProjectOrNull == Projects \cup {NULL}
Sessions ==
  [current_project_id : ProjectOrNull, selected_via : {"manual", "route"},
   current_workflow : {NULL}, last_route_trace : {NULL}, pending_save_mode : ProjectOrNull,
   pending_save_draft : Drafts \cup {NULL}, pending_semantic_execution : ProjectOrNull]

ASSUME SaveAssumption ==
  /\ Main \in Keys
  /\ Kinds \subseteq CommandKinds
  /\ NULL \notin Projects \cup Turns \cup Keys \cup Drafts \cup Sessions
  /\ {EMPTY, TORN} \cap (Drafts \cup {NULL}) = {} /\ EMPTY # TORN
  /\ MaxFaults \in Nat
  /\ Commands \cap Turns = {}

VARIABLES
  session,   \* the session store
  registry,  \* projects that resolve, with a context that renders
  host,      \* the documents of each project
  pc,        \* where each job is
  kind,      \* what each command does
  arg,       \* the project of a switch, the session key of a turn
  seen,      \* the session each job read last
  captured,  \* the draft a turn left in the session
  rebinds, unregisters, faults

jobVars == <<kind, arg, captured>>
budget  == <<rebinds, unregisters, faults>>
vars    == <<session, registry, host, pc, jobVars, seen, budget>>

Jobs == Commands \cup Turns

\* The store outlives the plugin, which may find no session, a bound one or one
\* with a save mode.
Stored ==
  {NULL} \cup { SetPatch(NULL, [current_project_id |-> p, pending_save_mode |-> mode]) :
                 p \in Projects, mode \in Projects \cup {NULL} }

Init ==
  /\ \E s \in Stored :
       /\ s # NULL => s.pending_save_mode \in {NULL, s.current_project_id}
       /\ session = [k \in Keys |-> IF k = Main THEN s ELSE NULL]
  /\ registry = Projects
  /\ host = [p \in Projects |-> [part \in Documents |-> NULL]]
  /\ pc = [j \in Jobs |-> "idle"]
  /\ kind = [c \in Commands |-> NULL]
  /\ arg = [j \in Jobs |-> NULL]
  /\ seen = [j \in Jobs |-> NULL]
  /\ captured = [t \in Turns |-> NULL]
  /\ rebinds = 0 /\ unregisters = 0 /\ faults = 0

Goto(j, label) == pc' = [pc EXCEPT ![j] = label]

Mode(s) == IF s = NULL THEN NULL ELSE s.pending_save_mode
Draft(s) == IF s = NULL THEN NULL ELSE s.pending_save_draft

Fault == faults < MaxFaults /\ faults' = faults + 1

\* What a call of the session store does not find: the sessions that have expired,
\* and all of them if the file cannot be read.  It writes the rest back.
Live == {k \in Keys : session[k] # NULL}
Without(lost) == [k \in Keys |-> IF k \in lost THEN NULL ELSE session[k]]

Reads(lost) == IF lost = {} THEN UNCHANGED faults ELSE Fault

\* Any call of the store, a get too, prunes and writes back what it reads.
Prune == \E lost \in SUBSET Live : Reads(lost) /\ session' = Without(lost)

\* Job j has read s and goes on with it, or has no more use for it.
Hold(j, s, label) ==
  /\ seen' = [seen EXCEPT ![j] = IF label \in {"thinking", "done"} THEN NULL ELSE s]
  /\ Goto(j, label)

\* store.set
Set(k, patch) ==
  \E lost \in SUBSET Live :
    Reads(lost) /\ session' = [Without(lost) EXCEPT ![k] = SetPatch(@, patch)]
-----------------------------------------------------------------------------
(* Commands. *)

Issue(c) ==
  /\ pc[c] = "idle"
  /\ \E k \in Kinds :
       /\ kind' = [kind EXCEPT ![c] = k]
       /\ IF k = "switch"
          THEN /\ \E p \in registry : arg' = [arg EXCEPT ![c] = p]
               /\ Goto(c, "switch")
          ELSE UNCHANGED arg /\ Goto(c, "get")
  /\ UNCHANGED <<session, registry, host, seen, captured, budget>>

\* handleProjectCommand found the project: the binding, and with it every
\* pending save, is replaced.
Switch(c) ==
  /\ pc[c] = "switch"
  /\ Set(Main, BindingPatch(arg[c], "manual", NULL, NULL, TRUE))
  /\ Goto(c, "done")
  /\ UNCHANGED <<registry, host, jobVars, seen, rebinds, unregisters>>

\* Whether the command goes on after store.get.
Accepts(k, s) ==
  \/ k = "cancel" /\ (Draft(s) # NULL \/ Mode(s) # NULL)
  \/ k \in {"arm", "dry-run"} /\ Binding(s) # NULL
  \/ k = "apply" /\ Draft(s) # NULL /\ BindingMatches(s, Draft(s).project)

Read(c) ==
  /\ pc[c] = "get"
  /\ Prune
  /\ Hold(c, session'[Main],
          IF ~Accepts(kind[c], session'[Main]) THEN "done"
          ELSE IF kind[c] \in {"apply", "dry-run"} THEN "lookup" ELSE "set")
  /\ UNCHANGED <<registry, host, jobVars, rebinds, unregisters>>

\* The project an apply or a dry run is about.
Scope(c) == IF kind[c] = "apply" THEN Draft(seen[c]).project ELSE Binding(seen[c])

\* getProjectById.
Lookup(c) ==
  /\ pc[c] = "lookup"
  /\ IF Scope(c) \notin registry THEN Hold(c, NULL, "done")
     ELSE Hold(c, seen[c], IF kind[c] = "apply" THEN "resume" ELSE "set")
  /\ UNCHANGED <<session, registry, host, jobVars, budget>>

\* The text of a document is written in place: open, which truncates ...
Filling(part) == IF part = "resume" THEN "fillResume" ELSE "fillStatus"

Put(p, part, text) == host' = [host EXCEPT ![p] = [@ EXCEPT ![part] = text]]

Open(c, part) ==
  /\ pc[c] = part
  /\ Put(Scope(c), part, EMPTY)
  /\ Goto(c, Filling(part))
  /\ UNCHANGED <<session, registry, jobVars, seen, budget>>

\* ... and write: over the text of another apply, of which the end may remain.
Overwritten(text, draft) ==
  {draft} \cup (IF text \in {EMPTY, draft} THEN {} ELSE {TORN})

\* Mutant: the draft is dropped although STATUS was not written.
AfterResume(c, part) == "set"

\* RESUME comes first, then STATUS when the draft has one.
AfterWrite(c, part) ==
  IF part = "resume" /\ Draft(seen[c]).status THEN "status" ELSE "set"

\* Mutant: the documents of the project that is bound when the text is written.
FillOfBound(c, part) ==
  /\ pc[c] = Filling(part)
  /\ Binding(session[Main]) # NULL
  /\ Put(Binding(session[Main]), part, Draft(seen[c]))
  /\ Goto(c, AfterWrite(c, part))
  /\ UNCHANGED <<session, registry, jobVars, seen, budget>>

Fill(c, part) ==
  /\ pc[c] = Filling(part)
  /\ \E text \in Overwritten(host[Scope(c)][part], Draft(seen[c])) : Put(Scope(c), part, text)
  /\ Goto(c, AfterWrite(c, part))
  /\ UNCHANGED <<session, registry, jobVars, seen, budget>>

\* writeFile throws: the command ends, the draft stays pending, and the document
\* is what is left of it.
WriteFails(c, part) ==
  /\ \/ pc[c] \in {part, Filling(part)} /\ UNCHANGED host
     \/ pc[c] = Filling(part) /\ Put(Scope(c), part, TORN)
  /\ Fault
  /\ Goto(c, "failed")
  /\ UNCHANGED <<session, registry, jobVars, seen, rebinds, unregisters>>

\* Mutant: a dry run starts from a clean session, as arming does.
DryRunClears(c) ==
  IF kind[c] = "cancel" THEN [pending_save_mode |-> NULL, pending_save_draft |-> NULL]
  ELSE IF kind[c] \in {"arm", "dry-run"}
  THEN [pending_save_mode |-> Binding(seen[c]), pending_save_draft |-> NULL]
  ELSE [pending_save_draft |-> NULL]

\* What the last store.set of each command says.
CommandPatch(c) ==
  IF kind[c] = "cancel" THEN [pending_save_mode |-> NULL, pending_save_draft |-> NULL]
  ELSE IF kind[c] = "arm"
  THEN [pending_save_mode |-> Binding(seen[c]), pending_save_draft |-> NULL]
  ELSE IF kind[c] = "dry-run" THEN [pending_save_mode |-> Binding(seen[c])]
  ELSE [pending_save_draft |-> NULL]

\* Mutant: the command stores the session it read, changed, instead of a patch.
FinishWhole(c) ==
  /\ pc[c] = "set"
  /\ session' = [session EXCEPT ![Main] = SetPatch(seen[c], CommandPatch(c))]
  /\ Goto(c, "done")
  /\ UNCHANGED <<registry, host, jobVars, seen, budget>>

Finish(c) ==
  /\ pc[c] = "set"
  /\ Set(Main, CommandPatch(c))
  /\ IF kind[c] = "apply" THEN Goto(c, "done") /\ UNCHANGED seen ELSE Hold(c, NULL, "done")
  /\ UNCHANGED <<registry, host, jobVars, rebinds, unregisters>>
-----------------------------------------------------------------------------
(* Turns of the agent: before_prompt_build, then llm_output. *)

\* The prompt hook reads the binding under the canonical key.
StartTurn(t) ==
  /\ pc[t] = "idle"
  /\ Prune
  /\ Hold(t, session'[Main], IF Binding(session'[Main]) = NULL THEN "thinking" ELSE "resolve")
  /\ UNCHANGED <<registry, host, jobVars, rebinds, unregisters>>

\* getProjectById and loadProjectContext for the binding that was read.
Resolve(t) ==
  /\ pc[t] = "resolve"
  /\ IF Binding(seen[t]) \in registry THEN Hold(t, NULL, "frame")
     ELSE Goto(t, "invalidate") /\ UNCHANGED seen
  /\ UNCHANGED <<session, registry, host, jobVars, budget>>

Invalidate(t) ==
  /\ pc[t] = "invalidate"
  /\ \E lost \in SUBSET Live :
       /\ Reads(lost)
       /\ session' = [Without(lost) EXCEPT ![Main] = InvalidatePatch(@, [f \in {} |-> NULL])]
  /\ Hold(t, NULL, "thinking")
  /\ UNCHANGED <<registry, host, jobVars, rebinds, unregisters>>

\* The save mode hook reads the session under the key that the turn came with.
Frame(t) ==
  /\ pc[t] = "frame"
  /\ Prune
  /\ \E k \in Keys :
       LET s == session'[k]
           applies == Mode(s) # NULL /\ Binding(s) # NULL
       IN IF applies /\ ~BindingMatches(s, Mode(s))
          THEN arg' = [arg EXCEPT ![t] = k] /\ Goto(t, "drop")
          ELSE UNCHANGED arg /\ Goto(t, "thinking")
  /\ UNCHANGED <<registry, host, kind, captured, seen, rebinds, unregisters>>

\* The mode is of another project than the binding.
DropMode(t) ==
  /\ pc[t] = "drop"
  /\ Set(arg[t], [pending_save_mode |-> NULL])
  /\ Goto(t, "thinking")
  /\ UNCHANGED <<registry, host, jobVars, seen, rebinds, unregisters>>

\* Mutant: any output is captured, in save mode or not.
OutputUnguarded(t) ==
  /\ pc[t] = "thinking"
  /\ Prune
  /\ Hold(t, session'[Main], "capture")
  /\ UNCHANGED <<registry, host, jobVars, rebinds, unregisters>>

\* The output hook reads under the canonical key; it asks neither whether the
\* mode matches the binding nor whether this turn was shown the frame.
Output(t) ==
  /\ pc[t] = "thinking"
  /\ Prune
  /\ LET s == session'[Main]
     IN Hold(t, s, IF Mode(s) = NULL \/ Binding(s) = NULL THEN "done" ELSE "capture")
  /\ UNCHANGED <<registry, host, jobVars, rebinds, unregisters>>

\* What the text of the turn has of a draft.
Texts == {"none", "resume", "both"}

DraftOf(t, parts) == [project |-> Mode(seen[t]), turn |-> t, status |-> parts = "both"]

\* Without a RESUME part the mode ends, with one it becomes a draft.
Capture(t) ==
  /\ pc[t] = "capture"
  /\ \E parts \in Texts :
       IF parts = "none"
       THEN Set(Main, [pending_save_mode |-> NULL]) /\ UNCHANGED captured
       ELSE /\ Set(Main, [pending_save_mode |-> NULL,
                          pending_save_draft |-> DraftOf(t, parts)])
            /\ captured' = [captured EXCEPT ![t] = DraftOf(t, parts)]
  /\ Hold(t, NULL, "done")
  /\ UNCHANGED <<registry, host, kind, arg, rebinds, unregisters>>
-----------------------------------------------------------------------------
(* What else happens to the session, the registry and the process. *)

\* The semantic executor stores a dispatch in the main session (SemanticExecution).
Rebind ==
  /\ rebinds < MaxRebinds
  /\ rebinds' = rebinds + 1
  /\ \E p \in registry :
       Set(Main, [current_project_id |-> p, selected_via |-> "route",
                  current_workflow |-> NULL, pending_semantic_execution |-> p])
  /\ UNCHANGED <<registry, host, pc, jobVars, seen, unregisters>>

\* A project leaves the registry, or its documents do not render any more.
Unregister ==
  /\ unregisters < MaxUnregisters
  /\ unregisters' = unregisters + 1
  /\ \E p \in registry : registry' = registry \ {p}
  /\ UNCHANGED <<session, host, pc, jobVars, seen, rebinds, faults>>

\* Some other call of the store.
OtherCall ==
  /\ Prune
  /\ UNCHANGED <<registry, host, pc, jobVars, seen, rebinds, unregisters>>

CommandStep(c) ==
  \/ Switch(c) \/ Read(c) \/ Lookup(c) \/ Finish(c)
  \/ \E part \in Documents : Open(c, part) \/ Fill(c, part) \/ WriteFails(c, part)

TurnStep(t) ==
  \/ Resolve(t) \/ Invalidate(t) \/ Frame(t) \/ DropMode(t) \/ Output(t) \/ Capture(t)

Next ==
  \/ \E c \in Commands : Issue(c) \/ CommandStep(c)
  \/ \E t \in Turns : StartTurn(t) \/ TurnStep(t)
  \/ Rebind \/ Unregister \/ OtherCall

Spec == Init /\ [][Next]_vars
-----------------------------------------------------------------------------
(* Properties. *)

Labels == {"idle", "switch", "get", "lookup", "resume", "fillResume", "status",
           "fillStatus", "set", "resolve", "invalidate", "frame", "drop", "thinking",
           "capture", "done", "failed"}

TypeOK ==
  /\ session \in [Keys -> Sessions \cup {NULL}]
  /\ registry \subseteq Projects
  /\ host \in [Projects -> [Documents -> Drafts \cup {NULL, EMPTY, TORN}]]
  /\ pc \in [Jobs -> Labels]
  /\ kind \in [Commands -> CommandKinds \cup {NULL}]
  /\ arg \in [Jobs -> Projects \cup Keys \cup {NULL}]
  /\ seen \in [Jobs -> Sessions \cup {NULL}]
  /\ captured \in [Turns -> Drafts \cup {NULL}]
  /\ rebinds \in Nat /\ unregisters \in Nat /\ faults \in Nat

\* Command c has read a draft of p to apply.
Applies(c, p) ==
  kind[c] = "apply" /\ Draft(seen[c]) # NULL /\ Draft(seen[c]).project = p

\* RESUME and STATUS of a project hold only what was pending in a session
\* before, as a draft of that very project: whatever the session is bound to by
\* the time an apply reaches its files, nothing unseen and nothing of another
\* project gets into them (handleSaveCommand, apply).  They are written in place:
\* one is empty only while an apply writes it or after one failed, and a mixture
\* only after one failed or when two drafts of the project were applied.
HostsHoldOwnDrafts ==
  \A p \in Projects : \A part \in Documents :
    LET text == host[p][part]
    IN /\ text \in Drafts => text.project = p /\ captured[text.turn] = text
       /\ text = EMPTY =>
            \E c \in Commands : Applies(c, p) /\ pc[c] \in {Filling(part), "failed"}
       /\ text = TORN =>
            \E c, other \in Commands :
              /\ Applies(c, p) /\ Applies(other, p)
              /\ pc[c] = "failed" \/ Draft(seen[c]) # Draft(seen[other])

\* The documents hold all of draft d.
Saved(d) ==
  /\ host[d.project]["resume"] = d
  /\ d.status => host[d.project]["status"] = d

\* Another apply writes another draft of the project, or has truncated a document
\* and not filled it.
Disturbs(other, d) ==
  /\ Applies(other, d.project)
  /\ Draft(seen[other]) # d \/ pc[other] \in {"fillResume", "fillStatus", "failed"}

\* When an apply is about to drop its draft, the documents hold all of it, unless
\* another apply of the project ran beside it, with another draft or in the middle
\* of a write: a write of its own that fails keeps the draft for another try
\* (handleSaveCommand, apply).
SaveIsWhole ==
  \A c \in Commands : pc[c] = "set" /\ kind[c] = "apply" =>
    \/ Saved(Draft(seen[c]))
    \/ \E other \in Commands \ {c} : Disturbs(other, Draft(seen[c]))

\* The draft of turn t does not come back.
StaysAway(t) ==
  captured[t] # NULL /\ Draft(session[Main]) # captured[t] =>
    Draft(session'[Main]) # captured[t]

\* A draft that was applied, cancelled, replaced or dropped with its binding is
\* never pending again, although commands and turns patch the session on the
\* strength of what they read long before (every store.set of the flow).
DraftsDoNotReturn == [][\A t \in Turns : StaysAway(t)]_vars

\* A call of the store finds the session expired or cannot read the file.
Lost == faults' # faults

\* A human switches; a turn gives up a binding that it found dead.
Switched == \E c \in Commands : pc[c] = "switch" /\ pc'[c] = "done"
GivenUp ==
  \E t \in Turns : /\ pc[t] = "invalidate" /\ pc'[t] = "thinking"
                   /\ Binding(seen[t]) \notin registry

BindingStays ==
  Binding(session'[Main]) # Binding(session[Main]) =>
    \/ Switched \/ GivenUp \/ rebinds' # rebinds
    \/ Lost /\ Binding(session'[Main]) = NULL

\* Arming, capturing, applying and cancelling leave the binding alone, also when
\* it changed while they waited.  A session loses its binding, which may be a
\* newer one by then, only to a turn that has read one that does not resolve
\* (beforePromptBuild), or with everything else, when it has expired or the file
\* of the store cannot be read.
SaveKeepsBinding == [][BindingStays]_vars

\* The end of a command that may drop draft d.
Dismissed(d) ==
  \E c \in Commands :
    /\ pc[c] = "set" /\ pc'[c] = "done"
    /\ \/ kind[c] \in {"cancel", "arm"}
       \/ /\ kind[c] = "apply"
          /\ \/ Draft(seen[c]) # d \/ Saved(d)
             \/ \E other \in Commands \ {c} : Disturbs(other, d)

DraftStays(d) ==
  d # NULL /\ Draft(session'[Main]) # d =>
    \/ Switched \/ GivenUp \/ Dismissed(d)
    \/ \E t \in Turns : pc[t] = "capture" /\ captured'[t] = Draft(session'[Main])
    \/ Lost /\ Draft(session'[Main]) = NULL

\* A draft the user was shown does not vanish by itself: it goes with a
\* switch, with a binding that was found dead or with the whole session, by a
\* command that says so, for the draft of a later turn, or once it is saved.  The
\* exception are two applies that overlap: one that finishes after a newer draft
\* was captured drops it without having written it (the store.set at the end of an
\* apply names no draft), and one may truncate what the other has written.
NoDraftVanishes == [][DraftStays(Draft(session[Main]))]_vars
=============================================================================
