# Verification of the assistant context router

The assistant context router (ACR) is an OpenClaw plugin. It binds a main
session to a project, routes ingress messages, hands semantic work to the agent
of the main session, writes what comes of it back to a Feishu work surface, and
tells people about it. This directory holds TLA+ models of its stateful core,
TLC configurations that check them on small instances, and TLAPS proofs.

Everything runs in one Node.js process, so two pieces of code never run at the
same instant. What is hard is everything between two `await`s: handlers of
different messages and turns interleave there, calls fail there, and the process
may die there. In every module **one action is the code between two awaits**.

Paths below are relative to `src/implementation/`.

## 1. Inventory

| Component | State it keeps | Operations | Hard behaviour | What makes it correct |
|---|---|---|---|---|
| Session project store `core/src/state/session-project-store.ts` | one JSON file of sessions, a temporary file, a promise queue | `get` `set` `clear` `invalidate` `cleanup` | overlapping calls, rejected calls, torn files, expiry, crash | a call is atomic, in submission order; a session leaves only by expiry or `clear`; every call settles |
| Current project binding `core/src/state/current-project-binding.ts` | fields of a session | read, match, patch | patches computed from stale reads | only the listed writers change it |
| Semantic execution `adapters/openclaw/plugin/src/index.ts` 942-1160 and 1528-1858, `adapters/openclaw/runtime/src/feishu-task-bug-semantic-executor.ts` | `pending_semantic_execution` of the main session, events in the runtime | dispatch, capture of a boundary, clearing | a store or a wake that fails after the event, one slot per session for many dispatches, records of any project, swallowed failures, crash | what is pending was accepted; it ends recorded; a closed execution stays closed |
| Task and bug writeback `adapters/feishu/src/task-bug-writeback.ts` | rows of the work surface (remote) | plan, apply | plan from a stale status, parallel updates of which one fails | a terminal or reviewed row is not reopened by late work |
| Semantic service bridge `adapters/feishu/src/task-bug-semantic-service-bridge.ts` | none | load contexts, execute, write back | each stage may fail | every message gets an outcome |
| Boundary protocol `harness/src/boundary-protocol/index.ts` | none | parse, validate, extract the operations a completion asks for | validity depends on what is pending; operations write rows before the boundary does | only valid boundaries reach a row; none is finished without evidence |
| Save flow `adapters/openclaw/plugin/src/commands/save.ts`, `hooks/save-mode.ts` | `pending_save_mode`, `pending_save_draft`, RESUME and STATUS files | arm, capture, dry run, apply, cancel | commands race with turns and switches, two documents written in place, a session that is lost meanwhile, alias keys | hosts hold drafts of their own project; a gone draft stays gone |
| Delivery outboxes `core/src/state/*-delivery-outbox.ts` with the observers in `index.ts` 304-425 | one JSON file of delivery records each | choose a target, upsert, mark, list | a new outbox (and queue) per call on one file and one temporary path, crash between delivery and mark | the audit says only what happened, and says it |
| Delivery adapters `adapters/openclaw/runtime/src/*-delivery.ts` | none | Feishu, WeChat with session fallback, session event | an error after the message arrived | their answer is their effect; a call does not repeat itself |
| Escalation store `core/src/state/main-session-escalation-store.ts` | one JSON file of escalations | `upsertOpen`, `resolve`, `listOpen` | dedup and reopening; `resolve` has no caller | one open record per dedup key |
| Signal promotion `core/src/routing/signal-promotion.ts`, `signal-records.ts`, `index.ts` 795-885 | notification log (append only), escalation store | classify, record, notify | several records of which one fails | every escalation reaches its store and its observers |
| Route decision `core/src/routing/decision.ts`, `ingress.ts`, `config.ts`, `services.ts` | none; a trace | decide a service, a project or the model | decides on a session read before awaits | the binding is a fallback and never changed |
| Project lane `core/src/routing/project-session-lane.ts`, `work-surface-projection.ts` | JSONL file per project, projection snapshot | append, summarise, replace the snapshot | snapshot written without a lock | what was accepted is in the lane |
| Project commands `adapters/openclaw/plugin/src/commands/` | none of their own | `/project`, `/projects`, `/project --save`, listings | write the session after awaits | see binding and save flow |
| Prompt hook `hooks/before-prompt-build.ts`, `core/src/context/project-context-loader.ts` | none | render context, invalidate a dead binding | invalidates what it read two file reads ago | invalidates only what does not resolve |
| Runtime bindings, configuration, registry `runtime/src/bindings.ts`, `workflow-bindings.ts`, `adapters/feishu/src/config-host.ts`, `core/src/projects/registry.ts`, `core/src/lib/simple-yaml.ts` | read-only files | lookups of sessions, channels and targets; aliases to canonical sessions | read again by every call, so two calls may see two configurations | one person under one key, however written |
| Work surface and catalogue sync `adapters/work-surfaces/feishu/src`, `adapters/feishu/src/project-catalog-sync.ts` | remote tables | find, then create or update | two synchronisations between find and create, an answer that is lost, empty or without a record id | no second row, as far as one call can tell |
| Harness text building, ingress parsers, scripts | none | build text, select files | none | pure |

How they interact. There is one session store and one escalation store per
plugin runtime (`createRuntimeContextLoader`, lazily, once). Hooks and commands
call the stores; the executor calls the session store and the runtime's event
queue; the bridge calls the executor and then the writeback; `index.ts` then
appends to the lane and promotes the signal, and the promotion calls the stores
and the observers, whose exceptions are swallowed. The agent is reached only
through events and answers only through `llm_output`. The router configuration
of the repository sends every project to the main session `agent:main:main`, so
one session serves many projects: the instances do too.

Four habits of the code run through all components, and the modules have them
wherever they bite.

* **A state file that cannot be read is an empty state.** The session store, both
  outboxes and the escalation store catch any error but the missing file and go on
  with nothing, and the next write makes it so (`session-project-store.ts` 60-62,
  the outboxes 54-56). So one failed read takes every session or every record.
* **Any call of the session store may take any session.** `get` prunes and writes
  like the others, after seven days without an update. A session goes as a whole.
* **Not every file is written through a temporary one.** State files and snapshots
  are, RESUME and STATUS are truncated and filled in place.
* **An answer of lark-cli is trusted if it is JSON and not `ok: false`.** A listing
  in a form that the client does not know is an empty table, and the report of a
  new row may be without its id.

## 2. Modules

| Module | Models | EXTENDS / INSTANCE |
|---|---|---|
| `SessionState` | one session: `set`, `invalidate`, binding patches | |
| `StoreCalls` | what a call does to the state it read: prune, merge, expire | `SessionState` |
| `AtomicSessionStore` | what the store promises (abstract) | `StoreCalls` |
| `SessionProjectStore` | queue, clock, files, failures, crash | `StoreCalls`, instance of `AtomicSessionStore` |
| `SessionProjectStoreProofs` | its theorems, with the refinement | `SessionProjectStore` |
| `TaskBugRow` | one row: derived patch, policy, noop rule, plan, update | |
| `BoundaryProtocol` | what a boundary has to hand over, and the operations in it | `TaskBugRow` |
| `PendingWork` | what the handlers promise of the work they hand out (abstract) | |
| `SemanticExecution` | messages, turns, rows, pending executions, lane, promotion | `BoundaryProtocol`, instance of `PendingWork` |
| `SemanticExecutionProofs` | its theorems | `SemanticExecution` |
| `SaveFlow` | commands and turns around drafts | `SessionState` |
| `SaveFlowProofs` | its theorems | `SaveFlow` |
| `DeliveryTargets` | whom a notice or an escalation is for, and where the adapters find them | |
| `DeliveryOutbox` | observer calls, files of both outboxes, adapters | `DeliveryTargets` |
| `DeliveryOutboxProofs` | its theorems | `DeliveryOutbox` |
| `RouteDecision` | merge of configurations, `decideRoute` | `SessionState` |
| `SignalPromotion` | which outcome is a signal, and for whom | |
| `IngressRouting` | automation messages from the decision to the escalation | `RouteDecision`, `SignalPromotion` |
| `IngressRoutingProofs` | its theorems | `IngressRouting` |
| `WorkSurfaceSync` | catalogue and surface synchronisation on remote tables | |
| `WorkSurfaceSyncProofs` | its theorems | `WorkSurfaceSync` |
| `MC*` | instances for TLC | |

### SessionProjectStore

`queue` is the promise chain of `withLock`; `pc[c]` is the await a call is at.
`Begin` reads the clock, `Read`/`ReadFails` the file (a file that exists but
cannot be read or parsed is an empty state, as `catch` has it), `Open`, `Fill`
and `Rename` are the three file operations of `writeStateFile`, `Settle` and
`WriteFails` the two ends of the promise. `cleanup` reads the clock after the
file and the others before it, which `WorkTime` keeps. Every call prunes and
writes, `get` included. `set` merges two fields with `??` and five with
`!== undefined`; `SetPatch` keeps the difference, which decides whether a null
clears. The three timestamps that nobody decides on are left out, and so is the
optional metadata adapter, which the plugin never passes.

`AtomicSessionStore` has one step per effect: `Commit` at some instant between
submission and answer, `Forget` for a read that failed, `Answer`, `Crash`. The
refinement maps a call to "effective" from its rename on.

### SemanticExecution

A message is a run of `before_dispatch`, a turn a run of `llm_output`; both walk
through the same bridge, so they share `LoadContextsFails`, `Passthrough`,
`PlanRow`, `UpdateRow`, `AppendLane`, `Promote`. A turn starts with an event of its
session, and `Capture` is the synchronous part of
`handleSemanticBoundaryLlmOutput`: reading the session, merging anchors
(`Anchor`, `MergedRows`), matching (`Matches`), validating (`Valid`) and routing
(`Routed`). `ClearPending` clears whatever is pending by then.

* `Enqueue` is `enqueueSystemEvent` together with `store.set`, which also overwrites
  the binding. No `await` lies between the two calls, and the store serves its calls
  in the order they came in, so no turn can read the session between them, although
  the handler learns only later what became of the call. `EnqueueUnstored` is the
  same with a store that rejects, which `StorePendingFails` finds out.
* `Wake` is `wakeTargetSession`, once the store has answered. It may throw
  (`WakeFails`): the bridge then reports the dispatch as rejected and the row shows an
  error, while the work is pending and its event waits.
* The project of a message (`project`) is the one its request was resolved to. What
  row it names (`about`) is another matter: nothing in the code compares the project
  of a row with that of the message or the boundary. A boundary may name any project
  and one record of each table, of any project (`Namings`); what it leaves out comes
  from whatever is pending.
* A row that inherits its acceptance mode has that of the router configuration of
  the project (`RouterDefault`, `DefaultMode`), and `manual_acceptance` if that says
  nothing either.

What a boundary hands over is its `form`, and `BoundaryProtocol` says what
`validateBoundaryResult` asks of it: a summary and evidence that are no
placeholder, operations that are whole, at least one of them when the texts claim
that something was changed, a fix result for a bug, a reason for anything but a
completion. A text is its class only, which is what the regular expressions of the
code tell apart. A message that reports a completion itself has a form too.

A completion may ask for operations on the work surface. The bridge writes them
one after another and reads each back (`ApplyOperation`, `VerifyOperation`, with
`SkipOperation` for what is not there or of another source, and `OperationThrows`),
all of them before it writes the boundary; one that fails makes the result
`blocked` and leaves the earlier ones in place. `undone` holds those to come.

A call of the session store is one step here. That is what the refinement of
`AtomicSessionStore` entitles to. `ForgetSession` is every way a session goes: expiry,
a failed read, an invalidation. Free text, summaries, option ids, field maps
and the metadata of the service result are left out; a row
keeps its status, step, step result, start, fix result and acceptance override, and
an operation sets its status.

`PendingWork` is what is left of this for somebody who looks at the slots of the
sessions only: work is accepted for a session and put into its slot at once
(`Accept`) or never (`Drop`), and leaves it for good when other work takes its
place, the session is forgotten or an answer closes it; an answer is matched with what it finds in a slot, is put on record
before it closes anything and closes once, whatever the slot holds by then. The
refinement takes the life of a dispatch from `accepted`, its place and the slots, and
the record from lane and promotion together; rows, plans, operations and failures of
calls are stutters or ends of it.

### SaveFlow

Jobs are slash commands and turns. `seen[j]` is the session a job read last:
everything it writes afterwards depends on `seen`, never on the session as it
is. `Frame` reads under whatever key the runtime gave the hook, the other hook
steps under the canonical one, as in the code. A draft is its turn, its project
and whether it has a STATUS part. A crash needs no action: it is a job that
takes no further step, which the specification always allows, and nothing here
is kept in memory but jobs.

* Every call of the store may find sessions expired, or none at all when the file
  cannot be read (`Live`, `Without`, `Reads`), and writes back the rest: `Prune` for a
  `get`, `Set` for a patch, which then starts from nothing, `OtherCall` for calls of
  the rest of the plugin.
* `save --apply` writes RESUME and then STATUS with `fs.writeFile`: `Open` truncates
  the document, `Fill` writes the text. If another apply has written meanwhile, the
  result is the text or a mixture (`Overwritten`). A write that fails
  (`WriteFails`) leaves what is there by then: the old text, an empty document or a part of the new
  one.

### DeliveryTargets and DeliveryOutbox

`DeliveryTargets` is the choice of a target: the governance target of the
configuration or of the environment, the reply target of the message, the default
of its workflow (with the surface `general` behind the others), or nobody
(`RecordOnly`); and what the adapters then find, the session behind an alias
(`SessionKey`) or the account of a channel (`ChannelAddress`). A written reference
is a model value, and `Reference` says what the code's prefixes and expressions
make of it.

`DeliveryOutbox` has both outboxes, whose code differs in names, keys and adapters.
A call reads the two files of bindings when it starts, so `Files` is what they may
hold: `Start` with a target, `StartWithoutTarget` (the observer of escalations
returns), `StartFails` (a Feishu configuration that cannot be read, or names a
variable that is not set). An outbox object is created per call, so its queue orders
nothing between two calls.

Files are inodes behind two paths per outbox because that is where the hazard is: a
call may fill an inode that another call has already renamed. `Read` holds the whole
change of `upsertPending` or `markDelivery`, on what it sees of the file, which is
nothing if the read fails (`Sees`), `Open`, `Fill`, `Rename` the file
operations, `Sent`, `SendFails`, `Enqueue`, `Heartbeat` the adapters. A write
into an inode that another call writes leaves either text or a mixture, which
reads as an empty state. `sends` counts what reached somebody, with Feishu dropping
what comes under a key it knows; `disturbed` is a history variable that says of an
outbox whether two of its calls ever ran at once, or a read of its file failed.

### IngressRouting

A message walks through `before_dispatch` of `index.ts`: `Receive` (the
envelope), `Lookup` (the project it names, in the registry), `Get` (the
session), `Configure` (the configuration of the project, and the decision),
`Trace` (workflow and trace into the session), then the work (`Enqueue` and
`Heartbeat` for the project session, `Execute` and `Writeback` for a service),
`AppendLane`, `Retrace`, the snapshot (`OpenTmp`, `FillTmp`, `RenameTmp`),
`Notify`, `Deliver`, `Escalate`. `envelope`, `seen`, `config` and `decision` are
the locals of the handler: what it tested awaits ago. `RouteDecision` is
`decideRoute` with its inputs, `SignalPromotion` the table that turns an outcome
into a signal and its recipients; both are plain operators, used by the actions
above.

* A project configuration that exists but cannot be read or parsed counts as
  empty, as the `catch` in `config.ts` has it: the second disjunct of `Configure`.
* What a service does is abstract: `Execute` takes any outcome of
  `ServiceResults`. The one service of the repository is `SemanticExecution`.
* Every call of the session store may find sessions expired or the file unreadable
  and writes back the rest, as in `SaveFlow` (`Prune`, `Get`, `Set`): a message that
  stores its trace may thereby leave a session with nothing but the trace.
* The projection snapshot has one temporary path per project and no queue.
  Files are inodes, named by the message that created them; `content` says whose
  text is in an inode since it was last truncated. An open of a path that exists
  truncates the same inode, also while another message fills it.
* `upsertOpen` is one step, since the escalation store serialises its calls. A
  read that fails is an empty file, so everything open is forgotten; `forgotten`
  remembers that. The key of an escalation is the tuple of its parts: that `stableId`
  makes one string of them, without the empty ones and with `_` for most signs, is
  left out.
* A crash needs no action, as in `SaveFlow`. What `upsertOpen`'s observer and the
  notification observer do is in `DeliveryOutbox`; their exceptions are swallowed.

### WorkSurfaceSync

A job is a synchronisation: of the catalogue (`/project --catalog-sync`: `ReadEntry`,
`ReadDetail`, `Find`, `WriteCatalog`) or of the surface (`/project --surface-sync`
or the projection observer: `ReadSnapshot`, `FindAnchor`, `Match`, and both again
before `WriteSurface`, since `upsertSnapshot` makes a plan of its own). Between any
two of them other jobs, messages (`Publish`) and humans (`EditFile`, `EditTable`)
act. `local`, `anchor` and `found` are what a job has read.

* A listing is the whole table, or some page of it: `listRecords` asks for 1000
  records of the catalogue in one synchronisation and 500 in the other, and never
  for a second page. `Listings` has any full page, since the order is the server's.
* A listing that is answered in no known form, or by nothing, counts as an empty
  table (`Sees`): the synchronisation goes on and creates a row. `misled` remembers
  whose last listing missed rows of the table.
* A write whose answer is lost (`Answered`) has taken effect and fails. Whoever
  repeats the command is another job. An answer without a record id is a success:
  the report then names the row of the plan, or none for a new row.
* The five fields that the catalogue sync writes change together, so they are one
  `title`; the surface row keeps its relation and the number of its snapshot. The
  observer is there in the code and not installed by default: `Publish` may or may
  not start a job, which writes or does not.
* Record ids are not used again; a write to a deleted row fails (`RowIsGone`).
  Both are assumptions about the Feishu Base.
* Nothing prevents overlapping synchronisations, so four of the properties speak
  of one that nobody overtook since it began to read, and those about new rows of one
  that was not misled. `overtaken` and `misled` are history variables that no action
  reads.

## 3. What the runs check

| Run | Bounds | States | Shows |
|---|---|---|---|
| `session_store` | 2 sessions, 2 calls out of 7 requests, clock 0..2 with ttl 1, 1 read fault, 2 write faults, 1 crash | 580 thousand | the store refines `AtomicSessionStore`, publishes only its own temporary file, loses no session, settles every call |
| `semantic_faults` | 1 session for 2 projects, a task and a bug, 2 messages of any row and project, 1 turn that names nothing or a project and a bug of any work, 1 failing call, 1 crash, a form that is proven and one that is not | 4.0 million | what is pending was accepted for its session, ends only recorded, the handlers implement `PendingWork`, and a boundary writes the records it names and the row it was matched with |
| `semantic_turns` | 1 project whose router configuration lets an agent finish, 1 row that inherits that or asks for a human, 2 messages with all five actions, 2 turns, forms with and without evidence and with an operation, 1 human step | 2.4 million | a row goes back only by a human, a resolution, an operation or a stale plan, and is finished only with evidence where that is allowed |
| `semantic_live` | 1 project, 1 row, 2 messages, 1 turn, a form with two operations, 1 failing call, 1 crash | 314 thousand | handlers end; accepted work is recorded |
| `save_flow` | 2 projects, a session with an alias, 2 commands, 2 turns, 1 rebinding, 1 project that disappears, 2 lost sessions, failed reads or failing writes | 2.5 million | hosts hold own drafts, an apply is whole, drafts neither return nor vanish, the flow keeps the binding, with the exceptions that in-place writes and lost sessions make |
| `delivery_outbox` | 3 requests and 2 configurations, which make 4 deliveries (Feishu, WeChat, nobody, a session) over 2 outboxes, 3 calls of one of them, 2 at once, 1 failed read, failing step or crash | 3.5 million | the audit is true, a call does not repeat its delivery, and as long as calls of an outbox do not overlap and its file can be read the audit is complete, keeps its records and leaves none pending |
| `ingress_routing` | 1 main session, 2 registered projects and one that is gone, 2 messages out of 9 envelopes, 5 service results, 1 rebinding, 1 failing call, lost session or failed read | 5.5 million | a message is about one project, escalations are backed, handled signals are kept, torn snapshots are noticed, the session keeps its binding and drafts or is lost as a whole, its workflow ends with its binding |
| `work_surface_sync` | 2 jobs, 2 projects, 3 records a table, of which the catalogue has none, one or two of one project at first, pages of 2 and 1, 3 publications or human edits, 1 failing call, lost answer or listing that is not understood | 4.1 million | no second row, no step back, no revived archive and no false report by a job that is not overtaken or misled; rows always hang on their own project |

Why the bounds are enough to be interesting. Two calls are enough for any
overlap in the store because the queue orders all others. Two messages are the
smallest number for a pending execution that is replaced, two turns for one that
is closed and answered again, two projects for a rebinding. Two commands are
needed for an apply beside a switch or another apply, and two turns for a draft
that replaces another. Of three observer calls, two race and the third finds
what they left; with two configurations two calls may send one notice to two places.
A boundary with two operations is the least of which the second can fail, one with
text only and one without evidence are the two that end otherwise. A boundary that
names a bug of any project, for a message about any row of the other, meets every
way in which the row, the message and the boundary can be of different projects. Two messages of
one project are the smallest number that shares the temporary path of a snapshot,
and a rebinding while they wait makes what they read stale; the nine envelopes reach every target of `decideRoute` (a project
named, gone, or left to the binding; a route that needs a project or not; a
service, a handler, a project session or none; no session at all), the five
results every signal. In `save_flow` a second fault lets a write fail beside a session that is lost. Elsewhere
one fault suffices for every failure path, a failed read, an expiry and a listing
that is not understood among them; the second write
fault of the store makes a failed call follow a failed call. A clock that passes
the ttl and one more lets a session expire while a call waits. Two synchronisations suffice for any
overlap and for a retry; pages of two and one record make the two listings differ
and let a table of three outgrow both.

The two outboxes share no file, so `MCDeliveryOutbox` has a state constraint
(`OneOutbox`) that stops a behaviour once it has called both.

Symmetry is declared only for identities of jobs and messages (for projects too in
`save_flow`, and for record ids in `work_surface_sync` and `two_rows`, where the one
`CHOOSE` among records is of a single one), never in a run with liveness properties. `CHECK_DEADLOCK FALSE`
stands in every configuration because every instance ends: its jobs are finite.

### Fairness

Weak fairness of each call's, message's and turn's own steps (`FairSpec`). It
says that the event loop resumes a handler whose awaited promise has settled,
and that file operations and runtime calls answer, with a result or an error.
Nothing obliges a human, a message, an agent or a crash to happen: `Submit`,
`Receive`, `StartTurn`, `HumanStep`s and `Crash` have no fairness. The safety
runs use the specification without it.

### Properties that the documents state and the code does not have

Four runs each show one, with a counterexample TLC prints. Three of them need two calls
of one kind, the fourth a message, a human and nothing that fails.

| Run | Document | Code |
|---|---|---|
| `binding_changes` | automation ingress must not change the binding | a human binds the session to another project while a message waits, and the executor's `store.set` binds it to that of the message |
| `outbox_loses_record` | a target that cannot be reached leaves a record | overlapping calls replace each other's state file |
| `signal_lost` | a signal that asks for a notification gets its record | the snapshot comes first, on a temporary path without a lock: the rename of one of two overlapping messages fails and ends its handler |
| `two_rows` | Work Surface Snapshots has one row per project (`feishu-work-surface-adapter-scope-note.md` 93-94) | two synchronisations look up the row, find none and both create one |

More were met while modelling and have no run of their own.

* An update planned while a row was `Todo` overwrites a `Reviewing` written since
  (`feishu-task-bug-ownership-acceptance-contract.md` 242;
  `RegressionOnlyFromStalePlan` says exactly when this happens).
* A boundary is captured for a *matching* pending execution
  (`semantic-execution-bridge-contract.md` 172), but only a named project is
  compared and missing anchors come from whatever is pending: after a second
  dispatch the boundary of the first writes both rows. And a record a boundary
  names may be of any project, whichever project it names.
  `WritesOwnOrMatchedRows` says what holds.
* A dispatch whose wake throws shows an error in its row, and the bridge reports it
  as rejected, while it stays pending and its event waits: the agent works on it
  all the same (`feishu-task-bug-semantic-executor.ts` 457-461, bridge 1084;
  `PendingIsQueuedWork` admits it).
* The operations of a completion write whatever record they name: no project is
  compared, the noop rule and the acceptance mode of the row are not asked, and they
  stay in place when a later one fails and the result becomes `blocked`
  (`feishu-task-bug-ownership-acceptance-contract.md` 481-490;
  `semantic-execution-bridge-contract.md` 184-185, 241-243 and 338).
  `RegressionOnlyFromStalePlan` and `ClosedWithEvidence` have a case for them.
* A catalogue row whose fields differ from the project files is to be left to a
  human (`feishu-project-catalog-sync-contract.md` 303), and `planProjectSync`
  plans an update of it, as the same contract has it further up. The model does
  what the code does.
* The prompt hook invalidates whatever is bound by the time its lookup of an older
  binding has failed (`current-project-binding-contract.md` 49; `SaveKeepsBinding`
  admits it).
* The output hook captures the answer of a turn that was never shown the save
  frame, because it asks only whether a mode is pending
  (`save-preview-apply-contract.md` 30).
* `save --apply` compares the draft with the binding once and then awaits, so a
  switch in between lets it write hosts of a project that is bound no more
  (`save-preview-apply-contract.md` 75; `HostsHoldOwnDrafts` says what still holds).
* `upsertPending` makes the record of an escalation pending again, and the
  observer delivers every time, so an unresolved escalation is delivered twice
  (`feishu-escalation-surface-contract.md` 325-326).
* A message that names a project which is not registered is routed to the project
  of the binding (`decision.ts` 26, against
  `route-resolution-trace-safe-fail-contract.md` 77-80 and 104 and
  `feishu-action-ingress-contract.md` 434-436). `OneProjectPerMessage` states what
  the code does; that nothing is guessed is not so, and no run claims it.
* `Trace` writes the workflow of the binding it read, also after a switch to
  another project.

## 4. What is proved

### SemanticExecution

`SemanticExecutionProofs` proves, for any sets of sessions, projects, rows,
messages and turns, any routing and any bounds, under the assumptions of
`SemanticExecution` (the constants have their types, forms included; messages and
turns are distinct; NULL is none of them):

| Theorem | Property |
|---|---|
| `Typing` | `TypeOK` |
| `PendingIsQueued` | `PendingIsQueuedWork` |
| `ClosedStaysClosed` | `ClosedForGood`, which no run states: `ImplementsPendingWork` is stronger |
| `PendingEnds` | `PendingEndsRecorded` |
| `WritebackIsConfined` | `WritesOwnOrMatchedRows` |
| `EndIsWarranted` | `ClosedWithEvidence` |
| `WorkIsKept` | `ImplementsPendingWork`, the refinement |
| `AcceptedIsRecorded` | `AcceptedWorkIsRecorded`, under `ReadyMessages` |
| `HandlersDoNotCircle` | `HandlersAdvance`: every step of a handler takes it nearer to its end |

The argument is a chain of inductive invariants, each relative to those before.

* `TypeOK /\ Linked`. `Enqueue` stores the project of a message in its session, so the
  type of a session needs that every job that began, every accepted dispatch and
  everything pending leads to a row and a project. That is `Linked`.
* `Queued`. That what is pending was accepted is not inductive: a dispatch could
  be stored and then be answered as blocked. `Queued` adds where such a message
  can be: once accepted it has left the calls that may report it as blocked, it has
  no result until its session is woken, and one whose store was rejected is never
  pending. A wake that throws is in it: the result is then `rejected`, which the
  property allows, since the work is handed out.
* `Closing`. A turn clears its own session only. So the execution it was matched
  with must be work of that session and must have left the store for good: `Closing`
  says both, that turns are never at the store or the wake, and that a turn that may
  clear is recorded. From it also follows the action property `PendingEndsRecorded`.
* `Confined`. `WritesOwnOrMatchedRows` speaks of planned updates; the strengthening
  says the same (`Allowed`) of the targets that are still to be planned, and that a
  turn without a match has neither.
* `Operating` says of a job that is writing operations that it was asked to by a
  completion, which was proven, and that there is one left to write; `Planning` that
  nothing is planned before the writeback, and that what comes to it has a result. On
  them rests `Concluding`, the invariant of `EndIsWarranted`: a job that has come to
  the writeback as a completion was proven and has no operation left, and a planned
  update that finishes a row was derived from such an outcome and from the
  acceptance mode of the row and of its project, which no step changes (`ModeStands`).
* The refinement of `PendingWork` has one lemma per abstract action: `Enqueue` is
  `Accept` (`EnqueueHandsOut`), `EnqueueUnstored` is `Drop` (`UnstoredIsDropped`), and
  so on. `SlotReplaced` is its centre: whoever writes a slot moves the work that was in it to "gone" and
  the work that comes to "pending", which holds because nothing is pending in two
  slots (`PendingIsQueuedWork`) or on its way to be stored again (`Queued`). A turn
  that clears is recorded and its match is work of its own session (`Closing`).
  Every step that touches neither slots nor matches is a stutter (`UnseenStep`).
* `Singly` and `Course` follow one message: it has one row to plan and then at most
  one update, and past the lane it is in the lane. So from the store or the wake to the lane there
  are four places (`AtStore`, `AtPlan`, `AtUpdate`, `AtEnd`), no step leads back
  (`MessageGoesOn`) and its own leads on (`MessageIsTakenOn`), and weak fairness
  carries it from one to the next. Weak fairness speaks of steps that are enabled.
  That a message at one of the places has a step is `ReadyMessages`; it contains
  `ENABLED`, which no prover here expands, so it is a hypothesis of the theorem, and
  TLC finds it true, as an invariant, in every reachable state of the instance of
  `semantic_live`.
* `HandlersDoNotCircle` orders what a handler has before it: its place, the
  operations that are left, whether the first of them is written, the rows to plan,
  the updates. Each part is finite, so a handler whose steps are taken ends.

Steps that do not touch what an invariant speaks of are dealt with once, by a
frame condition (`Continues`, `Onward`, `Steady`, `Narrowing`) and a lemma that
the frame keeps the invariant; the step lemmas then have one case per action.

### IngressRouting

`IngressRoutingProofs` proves, for any messages, sessions, projects, envelopes,
configurations, handlers, service results and bounds, under `IngressAssumption`
(an envelope has its fields, a session and an action or none, and no project yet;
service results come from a service with known hints; registered projects are
projects; the bounds are natural numbers; NULL is nobody's name):

| Theorem | Property |
|---|---|
| `RoutingTyping` | `TypeOK` |
| `RoutingSparesSession` | `RoutingKeepsSession` |
| `WorkflowsEnd` | `WorkflowEndsWithBinding` |
| `MessageIsOfOneProject` | `OneProjectPerMessage` |
| `EscalationsBacked` | `EscalationsAreBacked` |
| `SignalsAreKept` | `HandledSignalsAreKept` |
| `TornIsNoticed` | `TornSnapshotIsNoticed` |

* Frames first. A step finds each session as it is or lost, and changes at most
  one of them in a few ways (`Moves`, `StoreMoves`); a step of one message leaves the locals of the others alone
  (`Apart`), a decision stands once it is taken (`Decided`), and so does an
  outcome (`Final`). Lemma `StaysFinal` proves it once, and the rest of the proofs
  carry what was recorded from step to step with it.
* `Typed` adds to `TypeOK` what the handler tested awaits ago and relies on
  since (`Placed`): a message that has come to the lane has a project, one that
  signals has a signal, one that fills has a file.
* `OneProject`. The property speaks of what a message left in five places, one of
  them a file that others write. `Aims` says that the decision is for the project
  that is due, `Marked` that everything recorded is, and `Filed` that all who
  share a file are due to the same project, which is what makes the text in a
  snapshot a message of its project.
* `Origins` follows a workflow back through what messages have read: every workflow
  that a session has, or that a message read in its session, is the decision of some
  message of that session. Decisions stand, so it remains true while a switch resets
  the session and a message stores again what it had read before.
* `Reports` follows the order of the promotion: `Reported` says what is written
  by the time a message has come to a place, `Logged` that what is in the lane is
  of a message past that step. An escalation is then backed by both logs, and a
  message that is done has passed them. `KeysStay` shows that `upsertOpen` never
  closes a key, until a read of the file fails.
* `Held` is the invariant of the files: a published file is no temporary file any
  more, nobody who opened a temporary file is past his rename, and a message whose
  text is gone from its file has met somebody there. It rests on `OneFilePerPath`,
  which follows from `OneProject`.

### WorkSurfaceSync

`WorkSurfaceSyncProofs` proves all six properties of the run, for any projects,
jobs, titles, pages, initial catalogues and bounds, and any finite set of record
ids, under `SyncAssumption` (the ids are finite, the pages and bounds natural
numbers, NULL is nobody's name, and a catalogue holds rows):

| Theorem | Property |
|---|---|
| `Typing` | `TypeOK` |
| `RowsAreAnchored` | `SurfaceIsAnchored` |
| `SurfaceForward` | `SurfaceGoesForward` |
| `OneRow` | `CreatesOnlyWhatIsMissing` |
| `ArchiveStands` | `ArchivedStaysArchived` |
| `ReportsAreTrue` | `ReportIsTrue` |

* `Typed` adds to `TypeOK` which kind of job can be at which place, and that the
  number of a snapshot counts publications.
* `Anchored` adds to `SurfaceIsAnchored` that what a job holds for its next write
  is of its project. It needs no history: records stay in the catalogue under
  their project (`CatalogStays`) and snapshots only go forward (`SnapshotsStay`).
* `Matched` says that a row a job has found is of its project. With it, lemma
  `StandsStill` is the heart of the rest: whoever is not overtaken by a step of
  somebody else keeps every row of its project, in both tables, as it was.
* Then what a job saw when it read is still so when it writes: nothing newer than
  its snapshot (`Ahead`), and no row if it found none (`Missing`). `Missing` needs
  that a listing which was understood, of a table that fits into a page, is the whole
  table (`ListsAll`, an argument about cardinalities) and that a table which fits now has always fitted
  (`FitBack`). A synchronisation that was misled is out of `Missing`, and of the two
  theorems that rest on it.
* `RowsStand`: no step brings an archived or deleted row back. That is the first half of
  `ArchiveStands`, which holds of every job; the second, about new rows, rests on
  `Missing`.
* `Reported` says that the row of a finished synchronisation is the one its report
  names, or, if the answer had no id, that it has created it (`Named`).

### SessionProjectStore

`SessionProjectStoreProofs` proves every safety property of the run and four facts
beside them, for any sessions, requests, lifetime, calls, failures and crashes, under the assumptions of
`StoreCalls` and `SessionProjectStore` (requests are calls with patches of known
fields; NULL is neither a session nor an entry, and a torn file is no state):

| Theorem | Property |
|---|---|
| `TypeCorrect` | `TypeOK` |
| `TmpIsOwn` | `TmpBelongsToWriter` |
| `SessionsKept` | `SessionsLeaveOnlyByExpiryOrClear` |
| `AtomicStore` | `ImplementsAtomicStore`, the refinement |
| `UpdatesKept` | `UpdatesMeet`: a field changes only by a call that writes it, by expiry or by a failed read |
| `QuietCalls` | a `get` or `cleanup` leaves no trace in what later calls write |
| `OldestSettles` | the call at the head of the queue is answered, under `ReadyCalls` |
| `LineIsKept` | who waits stands in the queue, and nobody comes to stand before it |

* `Serial` is what the promise queue gives: it holds no call twice and none that has
  settled, and a call under way is its head. With it the shared temporary path is
  harmless: nobody else can open it before the rename (`TmpStays`).
* `Current` is what makes a call atomic: what a call that writes holds in memory is
  its work on the file *as it still is*, at an instant between its submission and
  now. A rename is then a `Commit` of the abstract store, and every session that is
  missing afterwards had expired, was cleared, or was not read (`WorkFacts`).
* The refinement maps `ReadFails` to `Forget`, `Rename` to `Commit`, `Settle` and
  `WriteFails` to `Answer`, and `Begin`, `Read`, `Open` and `Fill` to stuttering
  (`HiddenStep`), with one lemma for each. It is what entitles the other modules to
  take a call of the store as one step.
* `QuietCalls` entitles them to take a `get` as a read, although it prunes and writes
  the file: later calls prune at a later time and come to the same state. With
  `UpdatesKept` two callers that write different fields of a session, a trace and a
  pending execution say, need not know of each other.
* `OldestSettles` walks a call through its six places by weak fairness of its steps;
  `Serial` says that nobody else can move it. As above, that a ready call has a step is a
  hypothesis, `ReadyCalls`, true in every reachable state of the run's instance.
  `EveryCallSettles` is `OldestSettles` as often as there are calls before the one that
  waits, and `LineIsKept` shows that no more of them can come. Only that repetition,
  an induction over a temporal formula, is left to TLC.

### SaveFlow

`SaveFlowProofs` proves all six properties of the run, for any projects, commands,
turns, session keys and bounds, under `SaveAssumption` (commands and turns are
distinct, NULL is none of the values, a truncated and a torn document are no drafts, and
the bound on faults is a natural number):

| Theorem | Property |
|---|---|
| `TypeCorrect` | `TypeOK` |
| `HostsAreOwn` | `HostsHoldOwnDrafts` |
| `SavesAreWhole` | `SaveIsWhole` |
| `DraftsStayAway` | `DraftsDoNotReturn` |
| `BindingKept` | `SaveKeepsBinding` |
| `DraftsDoNotVanish` | `NoDraftVanishes` |

* `Placed` says what a job has read where it is: an apply past its test has a draft
  in hand whose project is the one it was bound to.
* `Found` is what a call of the store finds of a session: what is there, or nothing
  once it has lost it. Every step of the module that touches a session touches what
  it found, so binding and draft of the main session change in few ways (`Becomes`).
* `Remembered` says that a draft, in the session or in what a job has read, is what its
  turn was captured as (`Known`), and `captured` never changes again. That gone drafts
  stay away follows from it.
* `Sourced` says where the text of a document comes from: a draft from an apply that
  keeps it in hand, an empty document from one that is about to fill it or has failed,
  a mixture from one that has failed or from two with different drafts. With
  `Remembered` this is `HostsHoldOwnDrafts`.
* `Whole` follows an apply through its two documents: whoever is past one has filled
  it, unless another apply of the project has another draft, is just writing it or has failed
  (`Upset`). Both documents of `SaveIsWhole`, and the case of `NoDraftVanishes` that
  a draft is saved, follow.
* `Dead` says that a turn about to invalidate found its binding dead, which remains
  true because a project that is gone stays gone.

### DeliveryOutbox

`DeliveryOutboxProofs` proves every property of the run, for any requests,
configurations, bindings, calls and bounds, under `TargetsAssumption`
and `OutboxAssumption` (targets are targets, NULL and the two damaged contents are
no states):

| Theorem | Property |
|---|---|
| `TypeCorrect` | `TypeOK` |
| `AuditTells` | `AuditIsTrue` |
| `SentRecorded` | `SentIsRecorded` |
| `PendingUnfinished` | `PendingIsUnfinished` |
| `RecordsKept` | `RecordsStay` |
| `RepeatsCounted` | `RepeatsAreCalls` |

* `Audited` is the invariant of `AuditIsTrue`, with overlapping calls: a claim can
  come from the content of any inode, from what a call holds in memory and from the
  answer it will write, and in each of them it is of a delivery that went out.
* `Structure` is about who has which inode: the two outboxes share none, an update
  has a name for its own only after it opened one, and the state file is never the
  temporary one.
* `Orderly` says of an outbox that is not `disturbed` (no overlap, no failed read) that at most one of its calls runs,
  that this call has what it read, with its own record written, in memory and then in
  the temporary file, and that what went out is recorded. `SentRecorded`,
  `PendingUnfinished` and `RecordsKept` follow from it.
* `Counted` bounds what went out under a key by the calls of that key that are past the
  channel (`PastChannel`) and past the event (`PastEvent`): a call that sends joins one
  of these sets in the same step. Only finitely many calls have ever started, so the
  sets have cardinalities. `RouteOfKey` shows that the key decides the route: it has
  the reference and the mode of a target but not its channel, but
  `ModeOfRoute` shows that the mode tells it: WeChat is written to directly, Feishu in
  its own three modes, and nobody in none.

### What is only model-checked

`RegressionOnlyFromStalePlan`, a local rule about the status a plan has read, which
`semantic_turns` shows on its instance.

`EveryCallSettles` and `EveryJobEnds`, liveness of whole runs. Each is fairness plus an
induction over temporal formulas, whose rule takes an operator the provers cannot
instantiate. Their safety halves are theorems: `LineIsKept` and `HandlersDoNotCircle`
say that what lies before a call or a handler only becomes less.

`ENABLED`: `AcceptedIsRecorded` and `OldestSettles` have as a hypothesis that whoever is
at a place with a step can take it. The guards in the model say so, and TLC finds it in
every reachable state, but no prover here expands `ENABLED`.

## 5. What is not modelled

* Rendering and parsing of text (contexts, drafts, events, summaries, YAML):
  their failure is an outcome (`RejectOutput`, `Texts`, `ReadFails`), their
  wording is not a property.
* Configuration files and the registry after start: read-only. A project that
  stops resolving is `Unregister` in `SaveFlow`, `ForgetSession` in
  `SemanticExecution`.
* The text of escalation keys: `stableId` drops empty parts and replaces signs, so two
  keys that differ only there are one in the code and two in `IngressRouting`.
* In `SemanticExecution` promotion is one step that may fail; `IngressRouting` has its
  steps.
* Field maps and option ids of the work surface: an operation sets a status, other
  fields of a row have no bearing on the properties.
* Retention of the outboxes: they have none, so records are never removed.
* `resolve` of the escalation store: nothing in the repository calls it.
* Scripts and the validation harness: not part of the running system.

## 6. Plan

Done, in this order: `SessionProjectStore` with `AtomicSessionStore`, because
everything else rests on atomic calls; `SemanticExecution` with `TaskBugRow`, and
its proofs; `SaveFlow`; `DeliveryOutbox`; `RouteDecision` and `SignalPromotion`,
composed in `IngressRouting`, and its proofs; `WorkSurfaceSync`, and its proofs;
`BoundaryProtocol` inside `SemanticExecution`; `DeliveryTargets` and the second
outbox; the proofs of `DeliveryOutbox`, `SaveFlow` and `SessionProjectStore`; the
proof of `RepeatsAreCalls`, `PendingWork` with its refinement, and the progress
theorems. Then a pass over what the first versions took for granted: lost sessions in
`SaveFlow` and `IngressRouting` and failed reads in `DeliveryOutbox`, documents that are
written in place, the wake as a step of its own, the project of a request apart from
that of its row, the acceptance mode of the router configuration, and listings and
answers of lark-cli that say nothing; the proofs followed.

Left, in this order:

1. `IngressRouting` over `SemanticExecution` in place of `ServiceResults`, on an
   instance small enough for both.
2. A theorem for `RegressionOnlyFromStalePlan`, if it can be made to say more than the
   rule it restates.
3. An abstract specification of the delivery outboxes, as a ledger of what was sent,
   which `DeliveryOutbox` implements as long as calls do not overlap.
