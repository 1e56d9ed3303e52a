--------------------------- MODULE DeliveryOutbox ---------------------------
(***************************************************************************)
(* The two delivery outboxes and the observer calls that use them          *)
(* (core/src/state/governance-delivery-outbox.ts and its twin for business *)
(* notifications, the two default observers of                             *)
(* adapters/openclaw/plugin/src/index.ts, and the delivery adapters of     *)
(* adapters/openclaw/runtime/src).                                         *)
(*                                                                         *)
(* A call looks up whom to deliver to, upserts a pending record, hands it  *)
(* to a delivery adapter and marks the record with the answer.  Every call *)
(* creates an outbox object of its own, so the promise queue inside it     *)
(* orders nothing between two calls: those of one outbox share its state   *)
(* file and the path of its temporary file.                                *)
(* Files are inodes behind paths, because a call may fill an inode that    *)
(* another one has already renamed.                                        *)
(***************************************************************************)
EXTENDS DeliveryTargets, FiniteSets

CONSTANTS
  EMPTY, TORN,  \* a truncated file; a mixture of two writes
  Requests,     \* what the observers are called with
  Files,        \* what the two files of bindings may hold when a call reads them
  Jobs,         \* identities of observer calls
  MaxRunning,   \* bound on calls that overlap
  MaxFaults     \* bound on failing calls and crashes

Outboxes == {"governance", "business"}

\* What a request becomes under the files that the call reads: the seed of a
\* delivery.  Without a governance target an escalation has none.
Delivery(request, bound) ==
  LET governance == GovernanceTarget(bound.governance)
      default == WorkflowDefault(request.workflow, bound.workflows)
      target == IF request.outbox = "governance" THEN governance
                ELSE Plan(request.completion, request.reply, governance, default)
  IN IF target = NULL THEN NULL
     ELSE [outbox |-> request.outbox, subject |-> request.subject, target |-> target]

Deliveries == {Delivery(r, f) : r \in Requests, f \in Files} \ {NULL}

\* The key of a delivery: a notice with its reference and mode, an escalation with
\* all of its target.
Id(d) ==
  <<d.outbox, d.subject,
    IF d.outbox = "business" THEN <<d.target.ref, d.target.mode>> ELSE d.target>>

Ids == {Id(d) : d \in Deliveries}

\* The adapter: Feishu messages, WeChat messages that fall back on the session,
\* events of a main session for every escalation, and none at all.
Route(d) ==
  IF d.outbox = "governance" THEN "session"
  ELSE IF d.target.channel = NULL THEN "none" ELSE d.target.channel

\* Whether the channel of a delivery has somebody to send to.
Addressed(d) == Route(d) = "feishu" \/ ChannelAddress(d.target) # NULL

Phases == {"upsert", "mark"}
Inodes == Jobs \X Phases

Outcomes == {"delivered", "queued", "failed"}
Statuses == {"pending", "record_only"} \cup Outcomes
States == [Ids -> Statuses \cup {NULL}]

EmptyState == [d \in Ids |-> NULL]

ASSUME OutboxAssumption ==
  /\ NULL \notin Statuses \cup Inodes /\ EMPTY \notin States /\ TORN \notin States
  /\ \A r \in Requests : r.outbox \in Outboxes
  /\ Files \subseteq [governance : Targets, workflows : [Surfaces -> Targets \cup {NULL}]]
  /\ MaxRunning \in Nat /\ MaxFaults \in Nat

VARIABLES
  file, tmp,  \* the inodes the two paths of each outbox name
  content,    \* what each inode holds
  pc,         \* where each call is
  phase,      \* which of its two updates it is in
  about,      \* its delivery
  fd,         \* the inode it has open
  state,      \* the state it holds in memory
  outcome,    \* what it will mark
  sends,      \* how often each delivery reached somebody
  disturbed,  \* history: outboxes of which two calls ran at once, or a read failed
  faults

files == <<file, tmp, content>>
vars  == <<files, pc, phase, about, fd, state, outcome, sends, disturbed, faults>>

Init ==
  /\ file = [o \in Outboxes |-> NULL] /\ tmp = [o \in Outboxes |-> NULL]
  /\ content = [i \in Inodes |-> EMPTY]
  /\ pc = [j \in Jobs |-> "idle"]
  /\ phase = [j \in Jobs |-> "upsert"]
  /\ about = [j \in Jobs |-> NULL]
  /\ fd = [j \in Jobs |-> NULL]
  /\ state = [j \in Jobs |-> EmptyState]
  /\ outcome = [j \in Jobs |-> NULL]
  /\ sends = [d \in Ids |-> 0]
  /\ disturbed = [o \in Outboxes |-> FALSE]
  /\ faults = 0

Goto(j, label) == pc' = [pc EXCEPT ![j] = label]

Path(j) == about[j].outbox

\* A call that is over holds nothing.
Ends(j, label) ==
  /\ Goto(j, label)
  /\ phase' = [phase EXCEPT ![j] = "upsert"] /\ outcome' = [outcome EXCEPT ![j] = NULL]

\* The update of j is over, and what it held in memory is gone.
Release(j) == fd' = [fd EXCEPT ![j] = NULL] /\ state' = [state EXCEPT ![j] = EmptyState]

Running(j) == pc[j] \notin {"idle", "done", "failed", "lost"}

\* No file, a truncated one and one that does not parse are an empty state.
Records(inode) ==
  IF inode = NULL THEN EmptyState
  ELSE IF content[inode] \in {EMPTY, TORN} THEN EmptyState ELSE content[inode]

\* A call of a delivery begins at a label.
Begins(j, d, label) ==
  /\ about' = [about EXCEPT ![j] = d]
  /\ disturbed' =
       [disturbed EXCEPT ![d.outbox] =
          @ \/ \E k \in Jobs : Running(k) /\ about[k].outbox = d.outbox]
  /\ Goto(j, label)

CanStart(j) ==
  /\ pc[j] = "idle"
  /\ Cardinality({k \in Jobs : Running(k)}) < MaxRunning

\* Mutant: an event comes first, and its record after it.
StartWithSend(j) ==
  /\ CanStart(j)
  /\ \E d \in Deliveries : Route(d) = "session" /\ Begins(j, d, "enqueue")
  /\ phase' = [phase EXCEPT ![j] = "mark"]
  /\ UNCHANGED <<files, fd, state, outcome, sends, faults>>

\* recordSignalPromotion calls an observer, which looks up the target.
Start(j) ==
  /\ CanStart(j)
  /\ \E r \in Requests, f \in Files :
       /\ Delivery(r, f) # NULL
       /\ Begins(j, Delivery(r, f), "read")
  /\ UNCHANGED <<files, phase, fd, state, outcome, sends, faults>>

\* Without a governance target, the observer of escalations returns.
StartWithoutTarget(j) ==
  /\ CanStart(j)
  /\ \E r \in Requests, f \in Files : Delivery(r, f) = NULL
  /\ Goto(j, "done")
  /\ UNCHANGED <<files, phase, about, fd, state, outcome, sends, disturbed, faults>>

\* A Feishu configuration that cannot be read, or that names a variable which is
\* not set, is an error where the governance target is looked up.
StartFails(j) ==
  /\ CanStart(j)
  /\ \E r \in Requests : r.outbox = "governance" \/ r.completion
  /\ faults < MaxFaults
  /\ faults' = faults + 1
  /\ Goto(j, "failed")
  /\ UNCHANGED <<files, phase, about, fd, state, outcome, sends, disturbed>>

\* readStateFile: a read that fails, for whatever reason, is an empty state.
Sees(j, records) ==
  IF records = Records(file[Path(j)]) THEN UNCHANGED <<disturbed, faults>>
  ELSE /\ faults < MaxFaults
       /\ faults' = faults + 1
       /\ disturbed' = [disturbed EXCEPT ![Path(j)] = TRUE]

\* The change of upsertPending, which makes a record that is already there pending
\* again, or of markDelivery, which ends when there is no record to mark.
Read(j) ==
  /\ pc[j] = "read"
  /\ \E records \in {Records(file[Path(j)]), EmptyState} :
       /\ Sees(j, records)
       /\ LET id == Id(about[j])
              status == IF phase[j] = "upsert" THEN "pending" ELSE outcome[j]
          IN IF phase[j] = "mark" /\ records[id] = NULL
             THEN Ends(j, "done") /\ UNCHANGED state
             ELSE /\ state' = [state EXCEPT ![j] = [records EXCEPT ![id] = status]]
                  /\ Goto(j, "open")
                  /\ UNCHANGED <<phase, outcome>>
  /\ UNCHANGED <<files, about, fd, sends>>

\* Mutant: the state file itself is truncated.
OpenInPlace(j) ==
  /\ pc[j] = "open"
  /\ LET inode == IF file[Path(j)] = NULL THEN <<j, phase[j]>> ELSE file[Path(j)]
     IN /\ tmp' = [tmp EXCEPT ![Path(j)] = inode]
        /\ fd' = [fd EXCEPT ![j] = inode]
        /\ content' = [content EXCEPT ![inode] = EMPTY]
  /\ Goto(j, "fill")
  /\ UNCHANGED <<file, phase, about, state, outcome, sends, disturbed, faults>>

\* writeFile creates the temporary file or truncates the one that is there ...
Open(j) ==
  /\ pc[j] = "open"
  /\ LET inode == IF tmp[Path(j)] = NULL THEN <<j, phase[j]>> ELSE tmp[Path(j)]
     IN /\ tmp' = [tmp EXCEPT ![Path(j)] = inode]
        /\ fd' = [fd EXCEPT ![j] = inode]
        /\ content' = [content EXCEPT ![inode] = EMPTY]
  /\ Goto(j, "fill")
  /\ UNCHANGED <<file, phase, about, state, outcome, sends, disturbed, faults>>

\* ... and fills it: over another call's text, of which the end may remain.
Fill(j) ==
  /\ pc[j] = "fill"
  /\ \E text \in {state[j]} \cup (IF content[fd[j]] = EMPTY THEN {} ELSE {TORN}) :
       content' = [content EXCEPT ![fd[j]] = text]
  /\ Goto(j, "rename")
  /\ UNCHANGED <<file, tmp, phase, about, fd, state, outcome, sends, disturbed, faults>>

\* Where a call goes with a pending record.
Adapter(d) ==
  IF Route(d) \in {"feishu", "wechat"} THEN "channel"
  ELSE IF Route(d) = "session" THEN "enqueue" ELSE "read"

\* Mutant: a record without a target is marked with nothing.
ContinueWithoutOutcome(j) ==
  IF phase[j] = "mark" THEN Ends(j, "done")
  ELSE /\ phase' = [phase EXCEPT ![j] = "mark"]
       /\ Goto(j, Adapter(about[j]))
       /\ UNCHANGED outcome

\* Mutant: a record without a target is left as it is.
ContinueUnmarked(j) ==
  IF phase[j] = "mark" \/ Route(about[j]) = "none" THEN Ends(j, "done")
  ELSE /\ phase' = [phase EXCEPT ![j] = "mark"]
       /\ Goto(j, Adapter(about[j]))
       /\ UNCHANGED outcome

\* What follows a completed update: a record without a target is marked at once.
Continue(j) ==
  IF phase[j] = "mark" THEN Ends(j, "done")
  ELSE /\ phase' = [phase EXCEPT ![j] = "mark"]
       /\ outcome' = IF Route(about[j]) = "none"
                     THEN [outcome EXCEPT ![j] = "record_only"] ELSE outcome
       /\ Goto(j, Adapter(about[j]))

\* Whatever inode the temporary path names by now becomes the state file; the
\* one it replaces has no name any more.
Rename(j) ==
  /\ pc[j] = "rename"
  /\ tmp[Path(j)] # NULL
  /\ file' = [file EXCEPT ![Path(j)] = tmp[Path(j)]]
  /\ tmp' = [tmp EXCEPT ![Path(j)] = NULL]
  /\ content' = IF file[Path(j)] = NULL THEN content
                ELSE [content EXCEPT ![file[Path(j)]] = EMPTY]
  /\ Continue(j)
  /\ Release(j)
  /\ UNCHANGED <<about, sends, disturbed, faults>>

\* ENOENT: another call has renamed it.  The observer's wrapper swallows it.
RenameFindsNothing(j) ==
  /\ pc[j] = "rename"
  /\ tmp[Path(j)] = NULL
  /\ Ends(j, "failed")
  /\ Release(j)
  /\ UNCHANGED <<files, about, sends, disturbed, faults>>

\* The adapter returns, and the record will be marked with its answer.
Answer(j, o) == outcome' = [outcome EXCEPT ![j] = o] /\ Goto(j, "read")

\* Feishu drops what comes with an idempotency key that it knows; the key is
\* derived from the id of the delivery.
Arrive(d) ==
  sends' = [sends EXCEPT ![Id(d)] = IF Route(d) = "feishu" THEN 1 ELSE @ + 1]

\* lark-cli or the WeChat channel takes the message.
Sent(j) ==
  /\ pc[j] = "channel"
  /\ Addressed(about[j])
  /\ Arrive(about[j])
  /\ Answer(j, "delivered")
  /\ UNCHANGED <<files, phase, about, fd, state, disturbed, faults>>

\* Mutant: a message of which the channel reported an error is sent again.
SendFailsAndRetries(j) ==
  /\ pc[j] = "channel"
  /\ (Addressed(about[j]) /\ Arrive(about[j])) \/ UNCHANGED sends
  /\ \/ Goto(j, "channel") /\ UNCHANGED outcome
     \/ Answer(j, "failed")
  /\ UNCHANGED <<files, phase, about, fd, state, disturbed, faults>>

\* It reports an error, although the message may have arrived, or there is no
\* channel to send on.  A WeChat message is then tried as an event of the session.
SendFails(j) ==
  /\ pc[j] = "channel"
  /\ (Addressed(about[j]) /\ Arrive(about[j])) \/ UNCHANGED sends
  /\ IF Route(about[j]) = "wechat"
     THEN Goto(j, "enqueue") /\ UNCHANGED outcome ELSE Answer(j, "failed")
  /\ UNCHANGED <<files, phase, about, fd, state, disturbed, faults>>

\* Mutant: whether the runtime accepts the event is not looked at.
EnqueueUnchecked(j) ==
  /\ pc[j] = "enqueue"
  /\ Arrive(about[j]) \/ UNCHANGED sends
  /\ Goto(j, "heartbeat")
  /\ UNCHANGED <<files, phase, about, fd, state, outcome, disturbed, faults>>

\* enqueueSystemEvent accepts or refuses, or there is no session to address.
Enqueue(j) ==
  /\ pc[j] = "enqueue"
  /\ \/ /\ SessionKey(about[j].target.ref) # NULL
        /\ Arrive(about[j]) /\ Goto(j, "heartbeat") /\ UNCHANGED outcome
     \/ Answer(j, "failed") /\ UNCHANGED sends
  /\ UNCHANGED <<files, phase, about, fd, state, disturbed, faults>>

\* runHeartbeatOnce ran the session, or left the event for its next turn.
Heartbeat(j) ==
  /\ pc[j] = "heartbeat"
  /\ \E o \in {"delivered", "queued"} : Answer(j, o)
  /\ UNCHANGED <<files, phase, about, fd, state, sends, disturbed, faults>>

\* A file operation or a call of the runtime throws; the observer's wrapper
\* swallows it.  Only lark-cli has a catch of its own.
Fails(j) ==
  /\ \/ pc[j] \in {"open", "fill", "rename", "enqueue", "heartbeat"}
     \/ pc[j] = "channel" /\ Route(about[j]) = "wechat"
  /\ faults < MaxFaults
  /\ faults' = faults + 1
  /\ Ends(j, "failed")
  /\ Release(j)
  /\ UNCHANGED <<files, about, sends, disturbed>>

\* The process dies with its calls; the files stay as they are.
Crash ==
  /\ faults < MaxFaults
  /\ faults' = faults + 1
  /\ pc' = [j \in Jobs |-> IF Running(j) THEN "lost" ELSE pc[j]]
  /\ phase' = [j \in Jobs |-> "upsert"]
  /\ fd' = [j \in Jobs |-> NULL]
  /\ state' = [j \in Jobs |-> EmptyState]
  /\ outcome' = [j \in Jobs |-> NULL]
  /\ UNCHANGED <<files, about, sends, disturbed>>

Step(j) ==
  \/ Read(j) \/ Open(j) \/ Fill(j) \/ Rename(j) \/ RenameFindsNothing(j)
  \/ Sent(j) \/ SendFails(j) \/ Enqueue(j) \/ Heartbeat(j) \/ Fails(j)

Next ==
  \/ \E j \in Jobs :
       Start(j) \/ StartWithoutTarget(j) \/ StartFails(j) \/ Step(j)
  \/ Crash

Spec == Init /\ [][Next]_vars
-----------------------------------------------------------------------------
(* Properties. *)

TypeOK ==
  /\ file \in [Outboxes -> Inodes \cup {NULL}] /\ tmp \in [Outboxes -> Inodes \cup {NULL}]
  /\ content \in [Inodes -> States \cup {EMPTY, TORN}]
  /\ pc \in [Jobs -> {"idle", "read", "open", "fill", "rename", "channel", "enqueue",
                      "heartbeat", "done", "failed", "lost"}]
  /\ phase \in [Jobs -> Phases]
  /\ about \in [Jobs -> Deliveries \cup {NULL}]
  /\ fd \in [Jobs -> Inodes \cup {NULL}]
  /\ state \in [Jobs -> States]
  /\ outcome \in [Jobs -> Statuses \cup {NULL}]
  /\ \A j \in Jobs : phase[j] = "mark" /\ Running(j) /\ outcome[j] = NULL =>
       pc[j] \in {"channel", "enqueue", "heartbeat"}
  /\ sends \in [Ids -> Nat]
  /\ disturbed \in [Outboxes -> BOOLEAN]
  /\ faults \in Nat

\* What the audit says of a delivery.
Status(d) == Records(file[d.outbox])[Id(d)]

\* The audit does not invent a delivery: a record that says delivered or queued
\* is of a delivery that went out, whatever two calls do to each other's files.
AuditIsTrue ==
  \A d \in Deliveries : Status(d) \in {"delivered", "queued"} => sends[Id(d)] > 0

\* As long as no calls of an outbox overlap and its file can be read, what went out
\* is in the audit, also after a failed write and a crash between the delivery and
\* the mark.
SentIsRecorded ==
  \A d \in Deliveries : ~disturbed[d.outbox] /\ sends[Id(d)] > 0 => Status(d) # NULL

\* As long as no calls of an outbox overlap and its file can be read, a record never
\* leaves the file, whatever else fails.
RecordsStay ==
  [][\A d \in Deliveries :
       ~disturbed'[d.outbox] /\ Status(d) # NULL => Status(d)' # NULL]_vars

\* As long as no calls of an outbox overlap and its file can be read, a record is
\* pending only while its call runs or after the call broke off: no finished call
\* leaves one behind, and no other call puts one back.
PendingIsUnfinished ==
  \A d \in Deliveries : ~disturbed[d.outbox] /\ Status(d) = "pending" =>
    \E j \in Jobs : /\ about[j] # NULL /\ pc[j] # "done"
                   /\ Id(about[j]) = Id(d)

\* What is promoted again is delivered again, but no call repeats its delivery by
\* itself: there are as many events of a session as calls, over WeChat at most one
\* message and one event for each call, and over Feishu one message for all of
\* them, also of calls that took the same target from different places.
RepeatsAreCalls ==
  \A d \in Deliveries :
    LET calls == Cardinality({j \in Jobs : about[j] # NULL /\ Id(about[j]) = Id(d)})
    IN sends[Id(d)] <= IF Route(d) = "feishu" THEN 1
                       ELSE IF Route(d) = "wechat" THEN 2 * calls ELSE calls

(* Properties the documentation states. *)

\* "a delivery outbox record is left".
CallLeavesRecord ==
  \A j \in Jobs : pc[j] = "done" /\ about[j] # NULL => Status(about[j]) # NULL
=============================================================================
