------------------------ MODULE DeliveryOutboxProofs ------------------------
(* Proofs about DeliveryOutbox, for any requests, files of bindings and      *)
(* observer calls, any number of them at once and any number of faults.      *)
EXTENDS DeliveryOutbox, FiniteSetTheorems, TLAPS

-----------------------------------------------------------------------------
(* Deliveries. *)

\* What a request becomes is a delivery of its outbox, which one of the adapters
\* serves.
LEMMA DeliveryServed ==
  ASSUME NEW d \in Deliveries
  PROVE  d.outbox \in Outboxes /\ Route(d) \in {"feishu", "wechat", "session", "none"}
<1>1. PICK r \in Requests, f \in Files : d = Delivery(r, f) /\ d # NULL
  BY DEF Deliveries
<1> DEFINE governance == GovernanceTarget(f.governance)
           default == WorkflowDefault(r.workflow, f.workflows)
           plan == Plan(r.completion, r.reply, governance, default)
           target == IF r.outbox = "governance" THEN governance ELSE plan
<1>2. d = [outbox |-> r.outbox, subject |-> r.subject, target |-> target]
  BY <1>1 DEF Delivery
<1>3. r.outbox \in Outboxes
  BY OutboxAssumption
<1>4. ASSUME NEW reply PROVE FromReplyTarget(reply).channel \in {"feishu", NULL}
  BY DEF FromReplyTarget, RecordOnly
<1>5. ASSUME NEW binding
      PROVE  FromBinding(binding).channel \in {"feishu", "wechat", NULL}
  BY DEF FromBinding, RecordOnly
<1>6. plan.channel \in {"feishu", "wechat", NULL}
  <2> HIDE DEF governance, default
  <2> QED
    BY <1>4, <1>5 DEF Plan, RecordOnly
<1> HIDE DEF governance, default, plan
<1>7. QED
  BY <1>2, <1>3, <1>6 DEF Route

LEMMA IdTyped == ASSUME NEW d \in Deliveries PROVE Id(d) \in Ids
BY DEF Ids

\* Two deliveries with one key are of one outbox.
LEMMA IdOfOutbox ==
  ASSUME NEW d, NEW e, Id(d) = Id(e)
  PROVE  d.outbox = e.outbox
BY DEF Id
-----------------------------------------------------------------------------
(* Types. *)

\* Where a call is under way.
Busy == {"read", "open", "fill", "rename", "channel", "enqueue", "heartbeat"}

\* What a call has where it is.
Equipped(j) ==
  /\ pc[j] = "idle" => about[j] = NULL /\ phase[j] = "upsert" /\ outcome[j] = NULL
  /\ pc[j] \in Busy => about[j] \in Deliveries
  /\ pc[j] \in {"fill", "rename"} => fd[j] \in Inodes
  /\ pc[j] \in {"channel", "enqueue", "heartbeat"} => phase[j] = "mark"
  /\ pc[j] \in {"read", "open", "fill", "rename"} /\ phase[j] = "mark" =>
       outcome[j] \in Outcomes \cup {"record_only"}

Placed == \A j \in Jobs : Equipped(j)

LEMMA RecordsTyped ==
  ASSUME TypeOK, NEW inode \in Inodes \cup {NULL}
  PROVE  Records(inode) \in States
<1>1. EmptyState \in States
  BY DEF EmptyState, States
<1>2. QED
  BY <1>1 DEF Records, TypeOK

LEMMA EmptyTyped == EmptyState \in States
BY DEF EmptyState, States

\* What a call reads: the records of its file, or none when the outbox is disturbed.
LEMMA ReadFacts ==
  ASSUME TypeOK, Placed, NEW j \in Jobs, Read(j)
  PROVE  /\ pc[j] = "read" /\ about[j] \in Deliveries
         /\ Path(j) \in Outboxes /\ Id(about[j]) \in Ids
         /\ UNCHANGED <<files, about, fd, sends>>
         /\ disturbed' \in [Outboxes -> BOOLEAN] /\ faults' \in Nat
         /\ \A o \in Outboxes : ~disturbed'[o] => ~disturbed[o]
         /\ \E records \in States :
              /\ records \in {Records(file[Path(j)]), EmptyState}
              /\ ~disturbed'[Path(j)] => records = Records(file[Path(j)])
              /\ \/ /\ phase[j] = "mark" /\ records[Id(about[j])] = NULL
                    /\ Ends(j, "done") /\ UNCHANGED state
                 \/ /\ state' = [state EXCEPT ![j] = [records EXCEPT ![Id(about[j])] =
                          IF phase[j] = "upsert" THEN "pending" ELSE outcome[j]]]
                    /\ Goto(j, "open") /\ UNCHANGED <<phase, outcome>>
<1>1. pc[j] = "read" /\ about[j] \in Deliveries /\ Path(j) \in Outboxes
      /\ Id(about[j]) \in Ids /\ UNCHANGED <<files, about, fd, sends>>
  BY DeliveryServed, IdTyped DEF Read, Placed, Equipped, Busy, Path
<1>2. PICK records \in {Records(file[Path(j)]), EmptyState} :
        /\ Sees(j, records)
        /\ \/ /\ phase[j] = "mark" /\ records[Id(about[j])] = NULL
              /\ Ends(j, "done") /\ UNCHANGED state
           \/ /\ state' = [state EXCEPT ![j] = [records EXCEPT ![Id(about[j])] =
                    IF phase[j] = "upsert" THEN "pending" ELSE outcome[j]]]
              /\ Goto(j, "open") /\ UNCHANGED <<phase, outcome>>
  BY DEF Read
<1>0. disturbed \in [Outboxes -> BOOLEAN] /\ faults \in Nat
  BY DEF TypeOK
<1>3. /\ disturbed' \in [Outboxes -> BOOLEAN] /\ faults' \in Nat
      /\ \A o \in Outboxes : ~disturbed'[o] => ~disturbed[o]
      /\ ~disturbed'[Path(j)] => records = Records(file[Path(j)])
  <2>1. CASE records = Records(file[Path(j)])
    BY <1>0, <1>2, <2>1 DEF Sees
  <2>2. CASE records # Records(file[Path(j)])
    <3>1. faults' = faults + 1 /\ disturbed' = [disturbed EXCEPT ![Path(j)] = TRUE]
      BY <1>2, <2>2 DEF Sees
    <3>2. disturbed'[Path(j)]
      BY <1>0, <1>1, <3>1
    <3>3. QED
      BY <1>0, <1>1, <3>1, <3>2
  <2>3. QED
    BY <2>1, <2>2
<1>4. records \in States
  BY <1>1, RecordsTyped, EmptyTyped DEF TypeOK
<1>5. QED
  BY <1>1, <1>2, <1>3, <1>4

LEMMA ReadTyped ==
  ASSUME TypeOK, Placed, NEW j \in Jobs, Read(j)
  PROVE  (TypeOK /\ Placed)'
<1> USE DEF TypeOK, Goto, Ends, files, Busy, Running, Equipped, Phases
<1>1. PICK records \in States :
        \/ /\ phase[j] = "mark" /\ records[Id(about[j])] = NULL
           /\ Ends(j, "done") /\ UNCHANGED state
        \/ /\ state' = [state EXCEPT ![j] = [records EXCEPT ![Id(about[j])] =
                 IF phase[j] = "upsert" THEN "pending" ELSE outcome[j]]]
           /\ Goto(j, "open") /\ UNCHANGED <<phase, outcome>>
  BY ReadFacts
<1>2. /\ pc[j] = "read" /\ UNCHANGED <<files, about, fd, sends>> /\ Id(about[j]) \in Ids
      /\ disturbed' \in [Outboxes -> BOOLEAN] /\ faults' \in Nat
  BY ReadFacts
<1>3. [records EXCEPT ![Id(about[j])] =
         IF phase[j] = "upsert" THEN "pending" ELSE outcome[j]] \in States
  BY DEF States, Statuses
<1>4. CASE Ends(j, "done") /\ UNCHANGED state
  BY <1>2, <1>4 DEF Placed
<1>5. CASE /\ state' = [state EXCEPT ![j] = [records EXCEPT ![Id(about[j])] =
                IF phase[j] = "upsert" THEN "pending" ELSE outcome[j]]]
           /\ Goto(j, "open") /\ UNCHANGED <<phase, outcome>>
  <2>1. state' \in [Jobs -> States]
    BY <1>3, <1>5
  <2>2. TypeOK'
    BY <1>2, <1>5, <2>1 DEF Placed
  <2>3. Placed'
    BY <1>2, <1>5 DEF Placed
  <2>4. QED
    BY <2>2, <2>3
<1>6. QED
  BY <1>1, <1>4, <1>5

LEMMA RenameTyped ==
  ASSUME TypeOK, Placed, NEW j \in Jobs, Rename(j)
  PROVE  (TypeOK /\ Placed)'
<1> USE DEF TypeOK, Rename, Goto, Ends, Release, Busy, Running, Equipped, Phases
<1>1. about[j] \in Deliveries /\ Path(j) \in Outboxes
      /\ Route(about[j]) \in {"feishu", "wechat", "session", "none"}
  BY DeliveryServed DEF Placed, Path
<1>2. /\ file' \in [Outboxes -> Inodes \cup {NULL}] /\ tmp' \in [Outboxes -> Inodes \cup {NULL}]
      /\ content' \in [Inodes -> States \cup {EMPTY, TORN}]
      /\ fd' \in [Jobs -> Inodes \cup {NULL}]
  BY <1>1
<1>3. state' \in [Jobs -> States]
  BY EmptyTyped
<1>4. CASE phase[j] = "mark"
  BY <1>2, <1>3, <1>4 DEF Continue, Placed
<1>5. CASE phase[j] # "mark"
  <2>1. /\ phase' = [phase EXCEPT ![j] = "mark"]
        /\ outcome' = IF Route(about[j]) = "none"
                      THEN [outcome EXCEPT ![j] = "record_only"] ELSE outcome
        /\ pc' = [pc EXCEPT ![j] = Adapter(about[j])]
    BY <1>5 DEF Continue
  <2>2. /\ Adapter(about[j]) \in {"channel", "enqueue", "read"}
        /\ Adapter(about[j]) = "read" => Route(about[j]) = "none"
    BY <1>1 DEF Adapter
  <2>3. TypeOK'
    BY <1>2, <1>3, <2>1, <2>2, OutboxAssumption DEF Statuses, Outcomes
  <2>4. Placed'
    BY <2>1, <2>2 DEF Placed
  <2>5. QED
    BY <2>3, <2>4
<1>6. QED
  BY <1>4, <1>5

LEMMA StartTyped ==
  ASSUME TypeOK, Placed, NEW j \in Jobs,
         Start(j) \/ StartWithoutTarget(j) \/ StartFails(j)
  PROVE  (TypeOK /\ Placed)'
<1> USE DEF TypeOK, CanStart, Goto, files, Busy, Running, Equipped
<1>1. ASSUME NEW d \in Deliveries, CanStart(j), Begins(j, d, "read"),
             UNCHANGED <<files, phase, fd, state, outcome, sends, faults>>
      PROVE  (TypeOK /\ Placed)'
  <2>1. d.outbox \in Outboxes
    BY DeliveryServed
  <2>2. disturbed' \in [Outboxes -> BOOLEAN]
    <3> DEFINE busy == disturbed[d.outbox] \/ \E k \in Jobs : Running(k) /\ about[k].outbox = d.outbox
    <3>1. busy \in BOOLEAN
      OBVIOUS
    <3>2. disturbed' = [disturbed EXCEPT ![d.outbox] = busy]
      BY <1>1 DEF Begins
    <3> HIDE DEF busy
    <3>3. QED
      BY <2>1, <3>1, <3>2
  <2>3. /\ pc[j] = "idle" /\ pc' = [pc EXCEPT ![j] = "read"]
        /\ about' = [about EXCEPT ![j] = d]
        /\ UNCHANGED <<file, tmp, content, phase, fd, state, outcome, sends, faults>>
    BY <1>1 DEF Begins
  <2>4. Placed'
    BY <2>3 DEF Placed
  <2>5. \A k \in Jobs : phase'[k] = "mark" /\ pc'[k] \notin {"idle", "done", "failed", "lost"}
                         /\ outcome'[k] = NULL => pc'[k] \in {"channel", "enqueue", "heartbeat"}
    BY <2>3 DEF Placed
  <2>6. TypeOK'
    BY <2>2, <2>3, <2>5
  <2>7. QED
    BY <2>4, <2>6
<1>2. CASE Start(j)
  BY <1>1, <1>2 DEF Start, Deliveries
<1>3. CASE StartWithoutTarget(j)
  <2>1. TypeOK'
    BY <1>3 DEF StartWithoutTarget
  <2>2. Placed'
    BY <1>3 DEF StartWithoutTarget, Placed
  <2>3. QED
    BY <2>1, <2>2
<1>4. CASE StartFails(j)
  <2>1. TypeOK'
    BY <1>4 DEF StartFails
  <2>2. Placed'
    BY <1>4 DEF StartFails, Placed
  <2>3. QED
    BY <2>1, <2>2
<1>5. QED
  BY <1>2, <1>3, <1>4

LEMMA WriteTyped ==
  ASSUME TypeOK, Placed, NEW j \in Jobs,
         Open(j) \/ Fill(j) \/ RenameFindsNothing(j) \/ Fails(j)
  PROVE  (TypeOK /\ Placed)'
<1> USE DEF TypeOK, Goto, Ends, Release, files, Busy, Running, Equipped
<1>1. CASE Open(j)
  <2>1. Path(j) \in Outboxes
    BY <1>1, DeliveryServed DEF Placed, Path, Open
  <2> DEFINE inode == IF tmp[Path(j)] = NULL THEN <<j, phase[j]>> ELSE tmp[Path(j)]
  <2>2. inode \in Inodes
    BY <2>1 DEF Inodes
  <2>3. /\ tmp' = [tmp EXCEPT ![Path(j)] = inode] /\ fd' = [fd EXCEPT ![j] = inode]
        /\ content' = [content EXCEPT ![inode] = EMPTY]
        /\ pc[j] = "open" /\ pc' = [pc EXCEPT ![j] = "fill"]
        /\ UNCHANGED <<file, phase, about, state, outcome, sends, disturbed, faults>>
    BY <1>1 DEF Open
  <2> HIDE DEF inode
  <2>4. TypeOK'
    BY <2>2, <2>3
  <2>5. Placed'
    BY <2>2, <2>3 DEF Placed
  <2>6. QED
    BY <2>4, <2>5
<1>2. CASE Fill(j)
  <2>1. PICK text \in {state[j]} \cup (IF content[fd[j]] = EMPTY THEN {} ELSE {TORN}) :
          content' = [content EXCEPT ![fd[j]] = text]
    BY <1>2 DEF Fill
  <2>2. text \in States \cup {EMPTY, TORN}
    BY <2>1
  <2>3. content' \in [Inodes -> States \cup {EMPTY, TORN}]
    BY <2>1, <2>2
  <2>4. TypeOK'
    BY <1>2, <2>3 DEF Fill
  <2>5. Placed'
    BY <1>2 DEF Fill, Placed
  <2>6. QED
    BY <2>4, <2>5
<1>3. CASE RenameFindsNothing(j)
  <2>1. TypeOK'
    BY <1>3, EmptyTyped DEF RenameFindsNothing, Phases
  <2>2. Placed'
    BY <1>3 DEF RenameFindsNothing, Placed
  <2>3. QED
    BY <2>1, <2>2
<1>4. CASE Fails(j)
  <2>1. TypeOK'
    BY <1>4, EmptyTyped DEF Fails, Phases
  <2>2. Placed'
    BY <1>4 DEF Fails, Placed
  <2>3. QED
    BY <2>1, <2>2
<1>5. QED
  BY <1>1, <1>2, <1>3, <1>4

\* A delivery that reaches somebody is counted.
LEMMA ArriveCounts ==
  ASSUME TypeOK, NEW d \in Deliveries, Arrive(d)
  PROVE  /\ sends' \in [Ids -> Nat] /\ sends'[Id(d)] > 0
         /\ \A i \in Ids : sends'[i] >= sends[i] \/ (i = Id(d) /\ sends[i] > 0)
<1>1. Id(d) \in Ids /\ sends[Id(d)] \in Nat
  BY IdTyped DEF TypeOK
<1>2. QED
  BY <1>1 DEF Arrive, TypeOK

LEMMA SendTyped ==
  ASSUME TypeOK, Placed, NEW j \in Jobs,
         Sent(j) \/ SendFails(j) \/ Enqueue(j) \/ Heartbeat(j)
  PROVE  (TypeOK /\ Placed)'
<1>1. about[j] \in Deliveries
  BY DEF Placed, Equipped, Busy, Sent, SendFails, Enqueue, Heartbeat
<1>2. sends' \in [Ids -> Nat]
  BY <1>1, ArriveCounts DEF TypeOK, Sent, SendFails, Enqueue, Heartbeat
<1> USE DEF Goto, Answer, files, Busy, Running, Equipped, Outcomes, Statuses
<1>3. TypeOK'
  BY <1>2, OutboxAssumption DEF TypeOK, Sent, SendFails, Enqueue, Heartbeat
<1>4. Placed'
  BY DEF TypeOK, Placed, Sent, SendFails, Enqueue, Heartbeat
<1>5. QED
  BY <1>3, <1>4

LEMMA CrashTyped ==
  ASSUME TypeOK, Placed, Crash
  PROVE  (TypeOK /\ Placed)'
<1> USE DEF TypeOK, Crash, files, Busy, Running, Equipped, Phases
<1>1. TypeOK'
  BY EmptyTyped
<1>2. Placed'
  BY DEF Placed
<1>3. QED
  BY <1>1, <1>2

\* The types of the model, with what a call has where it is.
THEOREM Typing == Spec => [](TypeOK /\ Placed)
<1>1. Init => TypeOK /\ Placed
  BY EmptyTyped, OutboxAssumption
     DEF Init, TypeOK, Placed, Equipped, Busy, Running, Phases, Statuses
<1>2. TypeOK /\ Placed /\ [Next]_vars => (TypeOK /\ Placed)'
  <2> SUFFICES ASSUME TypeOK, Placed, [Next]_vars PROVE (TypeOK /\ Placed)'
    OBVIOUS
  <2>1. CASE UNCHANGED vars
    BY <2>1 DEF vars, files, TypeOK, Placed, Equipped, Running
  <2>2. QED
    BY <2>1, StartTyped, ReadTyped, WriteTyped, RenameTyped, SendTyped, CrashTyped
       DEF Next, Step
<1>3. QED
  BY <1>1, <1>2, PTL DEF Spec

\* Every variable keeps its type, in whatever order calls, failures and crashes come.
THEOREM TypeCorrect == Spec => []TypeOK
BY Typing, PTL
-----------------------------------------------------------------------------
(* The audit is true. *)

\* A state that claims no delivery but those that are counted.
Honest(records, counts) ==
  \A i \in Ids : records[i] \in {"delivered", "queued"} => counts[i] > 0

Accepted == {"delivered", "queued"}

\* Where a claim can come from: the files, what calls hold of them, and the answers
\* they will write.
Audited ==
  /\ \A n \in Inodes : content[n] \notin {EMPTY, TORN} => Honest(content[n], sends)
  /\ \A j \in Jobs : Honest(state[j], sends)
  /\ \A j \in Jobs : about[j] # NULL /\ (outcome[j] \in Accepted \/ pc[j] = "heartbeat") =>
       sends[Id(about[j])] > 0

\* What went out once has gone out.
LEMMA SendsStay ==
  ASSUME TypeOK, Placed, [Next]_vars, NEW i \in Ids, sends[i] > 0
  PROVE  sends'[i] > 0
<1>1. CASE UNCHANGED sends
  BY <1>1
<1>2. ASSUME NEW d \in Deliveries, Arrive(d) PROVE sends'[i] > 0
  <2>1. sends'[i] >= sends[i] \/ sends'[i] > 0
    BY <1>2, ArriveCounts
  <2>2. sends[i] \in Nat /\ sends'[i] \in Nat
    BY <1>2, ArriveCounts DEF TypeOK
  <2>3. QED
    BY <2>1, <2>2
<1>3. ASSUME NEW j \in Jobs, pc[j] \in Busy, Arrive(about[j]) PROVE sends'[i] > 0
  BY <1>2, <1>3 DEF Placed, Equipped
<1>4. QED
  BY <1>1, <1>3 DEF Next, Step, Start, StartWithoutTarget, StartFails, Read, Open, Fill, Rename,
     RenameFindsNothing, Sent, SendFails, Enqueue, Heartbeat, Fails, Crash, vars, Busy

LEMMA HonestStays ==
  ASSUME TypeOK, Placed, [Next]_vars, NEW records, Honest(records, sends)
  PROVE  Honest(records, sends')
BY SendsStay DEF Honest

LEMMA EmptyHonest == Honest(EmptyState, sends)
BY OutboxAssumption DEF Honest, EmptyState, Statuses, Outcomes

LEMMA RecordsHonest ==
  ASSUME TypeOK, Audited, NEW n \in Inodes \cup {NULL}
  PROVE  Honest(Records(n), sends)
BY EmptyHonest DEF Records, Audited

\* What a step leaves in the files, in the memory of the calls, and what they will
\* write.
LEMMA ContentHonest ==
  ASSUME TypeOK, Placed, Audited, [Next]_vars
  PROVE  \A n \in Inodes : content'[n] \notin {EMPTY, TORN} => Honest(content'[n], sends')
<1> SUFFICES ASSUME NEW n \in Inodes, content'[n] \notin {EMPTY, TORN}
             PROVE  Honest(content'[n], sends)
  BY HonestStays
<1>1. content[n] \notin {EMPTY, TORN} => Honest(content[n], sends)
  BY DEF Audited
<1>2. CASE content'[n] = content[n]
  BY <1>1, <1>2
<1>3. ASSUME NEW j \in Jobs, Fill(j) PROVE Honest(content'[n], sends)
  <2>1. fd[j] \in Inodes /\ Honest(state[j], sends)
    BY <1>3 DEF Placed, Equipped, Fill, Audited
  <2>2. content'[n] \in {state[j], TORN, content[n]}
    BY <1>3, <2>1 DEF Fill, TypeOK
  <2>3. QED
    BY <1>1, <2>1, <2>2
<1>4. ASSUME NEW j \in Jobs, Open(j) \/ Rename(j) PROVE Honest(content'[n], sends)
  <2>1. content'[n] \in {EMPTY, content[n]}
    BY <1>4 DEF Open, Rename, TypeOK
  <2>2. QED
    BY <1>1, <2>1
<1>5. QED
  BY <1>2, <1>3, <1>4 DEF Next, Step, Start, StartWithoutTarget, StartFails, Read,
     RenameFindsNothing, Sent, SendFails, Enqueue, Heartbeat, Fails, Crash, files, vars

LEMMA MemoryHonest ==
  ASSUME TypeOK, Placed, Audited, [Next]_vars
  PROVE  \A k \in Jobs : Honest(state'[k], sends')
<1> SUFFICES ASSUME NEW k \in Jobs PROVE Honest(state'[k], sends)
  BY HonestStays
<1>1. Honest(state[k], sends)
  BY DEF Audited
<1>2. CASE state'[k] \in {state[k], EmptyState}
  BY <1>1, <1>2, EmptyHonest
<1>3. ASSUME NEW j \in Jobs, Read(j) PROVE Honest(state'[k], sends)
  <2> DEFINE status == IF phase[j] = "upsert" THEN "pending" ELSE outcome[j]
             id == Id(about[j])
  <2>1. /\ about[j] \in Deliveries /\ about[j] # NULL
        /\ id \in Ids /\ file[Path(j)] \in Inodes \cup {NULL}
    BY <1>3, ReadFacts DEF Deliveries, TypeOK
  <2>2. PICK records \in States :
          /\ records \in {Records(file[Path(j)]), EmptyState}
          /\ state'[k] \in {state[k], [records EXCEPT ![id] = status]}
    BY <1>3, ReadFacts DEF TypeOK
  <2>3. status \in Accepted => sends[id] > 0
    BY <2>1 DEF Audited, Accepted
  <2>4. Honest(records, sends)
    BY <2>1, <2>2, RecordsHonest, EmptyHonest
  <2> HIDE DEF status, id
  <2>5. Honest([records EXCEPT ![id] = status], sends)
    BY <2>1, <2>2, <2>3, <2>4 DEF Honest, Accepted, States
  <2>6. QED
    BY <1>1, <2>2, <2>5
<1>4. ASSUME NEW j \in Jobs, Rename(j) \/ RenameFindsNothing(j) \/ Fails(j)
      PROVE  state'[k] \in {state[k], EmptyState}
  BY <1>4 DEF Rename, RenameFindsNothing, Fails, Release, TypeOK
<1>5. ASSUME Crash PROVE state'[k] \in {state[k], EmptyState}
  BY <1>5 DEF Crash
<1>6. QED
  BY <1>2, <1>3, <1>4, <1>5 DEF Next, Step, Start, StartWithoutTarget, StartFails, Open, Fill,
     Sent, SendFails, Enqueue, Heartbeat, vars

LEMMA AnswersHonest ==
  ASSUME TypeOK, Placed, Audited, [Next]_vars
  PROVE  \A k \in Jobs :
           about'[k] # NULL /\ (outcome'[k] \in Accepted \/ pc'[k] = "heartbeat") =>
             sends'[Id(about'[k])] > 0
<1> SUFFICES ASSUME NEW k \in Jobs, about'[k] # NULL,
                    outcome'[k] \in Accepted \/ pc'[k] = "heartbeat"
             PROVE  sends'[Id(about'[k])] > 0
  OBVIOUS
<1> USE DEF Accepted
<1>1. ASSUME about'[k] = about[k], outcome[k] \in Accepted \/ pc[k] = "heartbeat"
      PROVE  sends'[Id(about'[k])] > 0
  <2>1. about[k] \in Deliveries /\ sends[Id(about[k])] > 0
    BY <1>1 DEF Audited, TypeOK
  <2>2. QED
    BY <1>1, <2>1, SendsStay, IdTyped
<1>2. ASSUME Arrive(about[k]), about'[k] = about[k] PROVE sends'[Id(about'[k])] > 0
  BY <1>2, ArriveCounts DEF TypeOK
<1>3. NULL \notin Accepted /\ "failed" \notin Accepted /\ "record_only" \notin Accepted
  BY OutboxAssumption DEF Statuses, Outcomes
<1> USE DEF TypeOK, Goto, Ends
<1>4. ASSUME NEW j \in Jobs, Start(j) \/ StartWithoutTarget(j) \/ StartFails(j)
      PROVE  sends'[Id(about'[k])] > 0
  <2>1. outcome'[k] = outcome[k] /\ (pc'[k] = "heartbeat" => pc[k] = "heartbeat")
    BY <1>4 DEF Start, StartWithoutTarget, StartFails, Begins
  <2>2. CASE k # j
    BY <1>1, <1>4, <2>1, <2>2 DEF Start, StartWithoutTarget, StartFails, Begins
  <2>3. CASE k = j
    BY <1>3, <1>4, <2>1, <2>3 DEF Start, StartWithoutTarget, StartFails, CanStart, Placed,
       Equipped
  <2>4. QED
    BY <2>2, <2>3
<1>5. ASSUME NEW j \in Jobs,
             Read(j) \/ Open(j) \/ Fill(j) \/ RenameFindsNothing(j) \/ Fails(j)
      PROVE  sends'[Id(about'[k])] > 0
  <2>1. about'[k] = about[k]
    BY <1>5 DEF Read, Open, Fill, RenameFindsNothing, Fails
  <2>2. outcome'[k] \in {outcome[k], NULL} /\ (pc'[k] = "heartbeat" => pc[k] = "heartbeat")
    BY <1>5 DEF Read, Open, Fill, RenameFindsNothing, Fails
  <2>3. QED
    BY <1>1, <1>3, <2>1, <2>2
<1>6. ASSUME NEW j \in Jobs, Rename(j) PROVE sends'[Id(about'[k])] > 0
  <2>1. about'[k] = about[k]
    BY <1>6 DEF Rename
  <2>2. /\ outcome'[k] \in {outcome[k], NULL, "record_only"}
        /\ pc'[k] = "heartbeat" => pc[k] = "heartbeat"
    BY <1>6 DEF Rename, Continue, Adapter
  <2>3. QED
    BY <1>1, <1>3, <2>1, <2>2
<1>7. ASSUME NEW j \in Jobs, Sent(j) \/ SendFails(j) \/ Enqueue(j) \/ Heartbeat(j)
      PROVE  sends'[Id(about'[k])] > 0
  <2>1. about' = about
    BY <1>7 DEF Sent, SendFails, Enqueue, Heartbeat
  <2>2. CASE k # j
    BY <1>1, <1>7, <2>1, <2>2 DEF Sent, SendFails, Enqueue, Heartbeat, Answer
  <2>3. CASE k = j
    BY <1>1, <1>2, <1>3, <1>7, <2>1, <2>3 DEF Sent, SendFails, Enqueue, Heartbeat, Answer
  <2>4. QED
    BY <2>2, <2>3
<1>8. CASE Crash
  BY <1>3, <1>1, <1>8 DEF Crash
<1>9. CASE UNCHANGED vars
  BY <1>1, <1>9 DEF vars
<1>10. QED
  BY <1>4, <1>5, <1>6, <1>7, <1>8, <1>9 DEF Next, Step

LEMMA AuditedAlways == Spec => [](TypeOK /\ Placed /\ Audited)
<1>1. Init => Audited
  BY EmptyHonest DEF Init, Audited
<1>2. TypeOK /\ Placed /\ Audited /\ [Next]_vars => Audited'
  <2> SUFFICES ASSUME TypeOK, Placed, Audited, [Next]_vars PROVE Audited'
    OBVIOUS
  <2>1. QED
    BY ContentHonest, MemoryHonest, AnswersHonest DEF Audited
<1>3. QED
  BY <1>1, <1>2, Typing, PTL DEF Spec

\* The audit does not invent a delivery: whatever calls do to each other's files,
\* and wherever they fail, a record that says delivered or queued is of a delivery
\* that went out.
THEOREM AuditTells == Spec => []AuditIsTrue
<1>1. TypeOK /\ Audited => AuditIsTrue
  <2> SUFFICES ASSUME TypeOK, Audited, NEW d \in Deliveries,
                      Status(d) \in {"delivered", "queued"}
               PROVE  sends[Id(d)] > 0
    BY DEF AuditIsTrue
  <2>1. file[d.outbox] \in Inodes \cup {NULL}
    BY DeliveryServed DEF TypeOK
  <2>2. QED
    BY <2>1, RecordsHonest, IdTyped DEF Honest, Status
<1>2. QED
  BY <1>1, AuditedAlways, PTL
-----------------------------------------------------------------------------
(* Whose files they are. *)

\* A call, and an inode it created, of an outbox.
In(o, j) == about[j] # NULL /\ about[j].outbox = o
InodeOf(o, n) == n \in Inodes /\ In(o, n[1])

\* Two outboxes share no inode, also not one that a call still has open.
OwnedPaths(o) ==
  /\ file[o] # NULL => InodeOf(o, file[o])
  /\ tmp[o] # NULL => InodeOf(o, tmp[o])
OwnedOpen(j) == pc[j] \in {"fill", "rename"} => InodeOf(Path(j), fd[j])
Owned == (\A o \in Outboxes : OwnedPaths(o)) /\ (\A j \in Jobs : OwnedOpen(j))

\* The inode of an update has no name before the update opens it.
Nameless(n) == \A o \in Outboxes : file[o] # n /\ tmp[o] # n
BeforeOpen(j, update) ==
  \/ pc[j] = "idle"
  \/ pc[j] \in Busy /\ phase[j] = "upsert" /\ update = "mark"
  \/ pc[j] \in Busy \ {"fill", "rename"} /\ phase[j] = update
Unopened == \A j \in Jobs, u \in Phases : BeforeOpen(j, u) => Nameless(<<j, u>>)

\* The state file is never the temporary one.
Distinct == \A o \in Outboxes : file[o] # NULL => file[o] # tmp[o]

Structure == Owned /\ Unopened /\ Distinct

LEMMA InStays ==
  ASSUME TypeOK, Placed, [Next]_vars, NEW o \in Outboxes, NEW k \in Jobs, In(o, k)
  PROVE  In(o, k)' /\ about'[k] = about[k]
<1>1. ASSUME NEW j \in Jobs, NEW d, CanStart(j), Begins(j, d, "read")
      PROVE  about'[k] = about[k]
  BY <1>1 DEF CanStart, Begins, Placed, Equipped, In, TypeOK
<1>2. about'[k] = about[k]
  BY <1>1 DEF Next, Step, Start, StartWithoutTarget, StartFails, Read, Open, Fill, Rename,
     RenameFindsNothing, Sent, SendFails, Enqueue, Heartbeat, Fails, Crash, vars
<1>3. QED
  BY <1>2 DEF In

\* Opening the temporary file gives the call an inode of its outbox.
LEMMA OpenFacts ==
  ASSUME TypeOK, Placed, Structure, NEW j \in Jobs, Open(j)
  PROVE  /\ pc[j] = "open" /\ about[j] \in Deliveries /\ Path(j) \in Outboxes
         /\ In(Path(j), j)
         /\ \E n \in Inodes :
              /\ InodeOf(Path(j), n) /\ n # file[Path(j)]
              /\ n = tmp[Path(j)] \/ n = <<j, phase[j]>>
              /\ tmp' = [tmp EXCEPT ![Path(j)] = n] /\ fd' = [fd EXCEPT ![j] = n]
              /\ content' = [content EXCEPT ![n] = EMPTY]
<1>1. pc[j] = "open" /\ about[j] \in Deliveries /\ Path(j) \in Outboxes /\ In(Path(j), j)
  BY DeliveryServed DEF Open, Placed, Equipped, Busy, Path, In, Deliveries
<1> DEFINE n == IF tmp[Path(j)] = NULL THEN <<j, phase[j]>> ELSE tmp[Path(j)]
<1>2. phase[j] \in Phases /\ <<j, phase[j]>> \in Inodes /\ <<j, phase[j]>>[1] = j
  BY DEF TypeOK, Inodes
<1>3. n \in Inodes /\ InodeOf(Path(j), n)
  BY <1>1, <1>2 DEF Structure, Owned, OwnedPaths, OwnedOpen, InodeOf, TypeOK
<1>4. BeforeOpen(j, phase[j])
  BY <1>1 DEF BeforeOpen, Busy
<1>5. n # file[Path(j)]
  BY <1>1, <1>2, <1>4 DEF Structure, Distinct, Unopened, Nameless
<1>6. QED
  BY <1>1, <1>3, <1>5 DEF Open

LEMMA OwnedStays ==
  ASSUME TypeOK, Placed, Structure, [Next]_vars
  PROVE  Owned'
<1>1. SUFFICES (\A o \in Outboxes : OwnedPaths(o)') /\ (\A k \in Jobs : OwnedOpen(k)')
  BY DEF Owned
<1>2. ASSUME NEW o \in Outboxes, NEW n \in Inodes, InodeOf(o, n)
      PROVE  n[1] \in Jobs /\ In(o, n[1])' /\ about'[n[1]] = about[n[1]]
  BY <1>2, InStays DEF InodeOf, Inodes
<1>3. ASSUME NEW o \in Outboxes, file' = file, tmp' = tmp PROVE OwnedPaths(o)'
  BY <1>2, <1>3 DEF Structure, Owned, OwnedPaths, InodeOf, TypeOK
<1>4. ASSUME NEW k \in Jobs, pc[k] \in {"fill", "rename"}, fd'[k] = fd[k]
      PROVE  OwnedOpen(k)'
  <2>1. /\ about[k] \in Deliveries /\ Path(k) \in Outboxes /\ In(Path(k), k)
        /\ InodeOf(Path(k), fd[k]) /\ fd[k] \in Inodes
    BY <1>4, DeliveryServed
       DEF Placed, Equipped, Busy, Path, Structure, Owned, OwnedOpen, InodeOf, In, Deliveries
  <2>2. about'[k] = about[k] /\ about'[fd[k][1]] = about[fd[k][1]]
    BY <2>1, <1>2, InStays
  <2>3. QED
    BY <1>4, <2>1, <2>2 DEF OwnedOpen, InodeOf, Path, In
<1>5. ASSUME file' = file /\ tmp' = tmp,
             \A k \in Jobs : pc'[k] \in {"fill", "rename"} =>
                             pc[k] \in {"fill", "rename"} /\ fd'[k] = fd[k]
      PROVE  (\A o \in Outboxes : OwnedPaths(o)') /\ (\A k \in Jobs : OwnedOpen(k)')
  <2>1. ASSUME NEW k \in Jobs PROVE OwnedOpen(k)'
    BY <1>4, <1>5 DEF OwnedOpen
  <2>2. QED
    BY <1>3, <1>5, <2>1
<1>6. ASSUME NEW j \in Jobs, Open(j)
      PROVE  (\A o \in Outboxes : OwnedPaths(o)') /\ (\A k \in Jobs : OwnedOpen(k)')
  <2>1. PICK n \in Inodes :
          /\ InodeOf(Path(j), n)
          /\ tmp' = [tmp EXCEPT ![Path(j)] = n] /\ fd' = [fd EXCEPT ![j] = n]
    BY <1>6, OpenFacts
  <2>2. /\ Path(j) \in Outboxes /\ In(Path(j), j) /\ pc[j] = "open"
        /\ file' = file /\ about' = about /\ pc' = [pc EXCEPT ![j] = "fill"]
    BY <1>6, OpenFacts DEF Open, Goto
  <2>3. ASSUME NEW o \in Outboxes PROVE OwnedPaths(o)'
    BY <2>1, <2>2, <1>2 DEF Structure, Owned, OwnedPaths, InodeOf, In, TypeOK
  <2>4. ASSUME NEW k \in Jobs PROVE OwnedOpen(k)'
    <3>1. CASE k = j
      BY <2>1, <2>2, <1>2, <3>1 DEF OwnedOpen, InodeOf, In, Path, TypeOK
    <3>2. CASE k # j
      <4>1. pc'[k] = pc[k] /\ fd'[k] = fd[k]
        BY <2>1, <2>2, <3>2 DEF TypeOK
      <4>2. QED
        BY <1>4, <4>1 DEF OwnedOpen
    <3>3. QED
      BY <3>1, <3>2
  <2>5. QED
    BY <2>3, <2>4
<1>7. ASSUME NEW j \in Jobs, Rename(j)
      PROVE  (\A o \in Outboxes : OwnedPaths(o)') /\ (\A k \in Jobs : OwnedOpen(k)')
  <2>1. Path(j) \in Outboxes /\ about' = about
    BY <1>7, DeliveryServed DEF Rename, Placed, Equipped, Busy, Path
  <2>2. ASSUME NEW o \in Outboxes PROVE OwnedPaths(o)'
    BY <1>7, <2>1 DEF Rename, Structure, Owned, OwnedPaths, InodeOf, In, TypeOK
  <2>3. \A k \in Jobs : pc'[k] \in {"fill", "rename"} =>
                         pc[k] \in {"fill", "rename"} /\ fd'[k] = fd[k]
    BY <1>7 DEF Rename, Continue, Ends, Goto, Adapter, Release, TypeOK
  <2>4. ASSUME NEW k \in Jobs PROVE OwnedOpen(k)'
    BY <2>3, <1>4 DEF OwnedOpen
  <2>5. QED
    BY <2>2, <2>4
<1>8. ASSUME NEW j \in Jobs, ~Open(j), ~Rename(j),
             Start(j) \/ StartWithoutTarget(j) \/ StartFails(j) \/ Step(j)
      PROVE  /\ file' = file /\ tmp' = tmp
             /\ \A k \in Jobs : pc'[k] \in {"fill", "rename"} =>
                                pc[k] \in {"fill", "rename"} /\ fd'[k] = fd[k]
  BY <1>8 DEF Step, Start, StartWithoutTarget, StartFails, Begins, Read, Fill, RenameFindsNothing,
     Sent, SendFails, Enqueue, Heartbeat, Fails, Answer, Ends, Goto, Release, files, TypeOK
<1>9. ASSUME Crash \/ UNCHANGED vars
      PROVE  /\ file' = file /\ tmp' = tmp
             /\ \A k \in Jobs : pc'[k] \in {"fill", "rename"} =>
                                pc[k] \in {"fill", "rename"} /\ fd'[k] = fd[k]
  BY <1>9 DEF Crash, Running, files, vars, TypeOK
<1>10. QED
  BY <1>5, <1>6, <1>7, <1>8, <1>9 DEF Next

\* Only opening the temporary file, or renaming it, changes what the paths name.
LEMMA PathsStay ==
  ASSUME [Next]_vars, \A j \in Jobs : ~Open(j) /\ ~Rename(j)
  PROVE  file' = file /\ tmp' = tmp
BY DEF Next, Step, Start, StartWithoutTarget, StartFails, Read, Fill, RenameFindsNothing, Sent,
   SendFails, Enqueue, Heartbeat, Fails, Crash, files, vars

LEMMA BeforeOpenGoes ==
  ASSUME TypeOK, Placed, [Next]_vars, NEW k \in Jobs, NEW u \in Phases, BeforeOpen(k, u)'
  PROVE  BeforeOpen(k, u)
<1> USE DEF BeforeOpen, Busy, Goto, Ends, TypeOK, Phases
<1>1. ASSUME NEW j \in Jobs, Start(j) PROVE BeforeOpen(k, u)
  <2>1. PICK d : CanStart(j) /\ Begins(j, d, "read") /\ UNCHANGED phase
    BY <1>1 DEF Start
  <2>2. QED
    BY <2>1 DEF CanStart, Begins
<1>2. ASSUME NEW j \in Jobs,
             StartWithoutTarget(j) \/ StartFails(j) \/ RenameFindsNothing(j) \/ Fails(j)
      PROVE  BeforeOpen(k, u)
  BY <1>2 DEF StartWithoutTarget, StartFails, RenameFindsNothing, Fails, CanStart
<1>3. ASSUME NEW j \in Jobs, Read(j) PROVE BeforeOpen(k, u)
  <2>1. /\ pc[j] = "read"
        /\ \/ Goto(j, "open") /\ UNCHANGED phase
           \/ Ends(j, "done")
    BY <1>3 DEF Read
  <2>2. QED
    BY <2>1
<1>4. ASSUME NEW j \in Jobs, Open(j) \/ Fill(j) PROVE BeforeOpen(k, u)
  BY <1>4 DEF Open, Fill
<1>5. ASSUME NEW j \in Jobs, Rename(j) PROVE BeforeOpen(k, u)
  <2>1. /\ pc[j] = "rename"
        /\ \/ phase[j] = "mark" /\ Ends(j, "done")
           \/ /\ phase[j] = "upsert" /\ phase' = [phase EXCEPT ![j] = "mark"]
              /\ Goto(j, Adapter(about[j]))
    BY <1>5 DEF Rename, Continue
  <2>2. Adapter(about[j]) \in {"channel", "enqueue", "read"}
    BY DEF Adapter
  <2>3. QED
    BY <2>1, <2>2
<1>6. ASSUME NEW j \in Jobs, Sent(j) \/ SendFails(j) \/ Enqueue(j) \/ Heartbeat(j)
      PROVE  BeforeOpen(k, u)
  <2>1. /\ pc[j] \in {"channel", "enqueue", "heartbeat"} /\ UNCHANGED phase
        /\ \E label \in {"read", "enqueue", "heartbeat"} : Goto(j, label)
    BY <1>6 DEF Sent, SendFails, Enqueue, Heartbeat, Answer
  <2>2. QED
    BY <2>1
<1>7. CASE Crash
  BY <1>7 DEF Crash, Running
<1>8. CASE UNCHANGED vars
  BY <1>8 DEF vars
<1>9. QED
  BY <1>1, <1>2, <1>3, <1>4, <1>5, <1>6, <1>7, <1>8 DEF Next, Step

LEMMA UnopenedStays ==
  ASSUME TypeOK, Placed, Structure, [Next]_vars
  PROVE  Unopened'
<1> SUFFICES ASSUME NEW k \in Jobs, NEW u \in Phases, BeforeOpen(k, u)'
             PROVE  Nameless(<<k, u>>)'
  BY DEF Unopened
<1>1. Nameless(<<k, u>>)
  BY BeforeOpenGoes DEF Structure, Unopened
<1>2. ASSUME NEW j \in Jobs, Open(j) PROVE Nameless(<<k, u>>)'
  <2>1. PICK n \in Inodes : /\ n = tmp[Path(j)] \/ n = <<j, phase[j]>>
                            /\ tmp' = [tmp EXCEPT ![Path(j)] = n]
    BY <1>2, OpenFacts
  <2>2. Path(j) \in Outboxes /\ file' = file /\ phase' = phase /\ pc'[j] = "fill"
    BY <1>2, OpenFacts DEF Open, Goto, TypeOK
  <2>3. <<k, u>> # <<j, phase[j]>>
    BY <2>2 DEF BeforeOpen, TypeOK, Phases, Busy
  <2>4. QED
    BY <1>1, <2>1, <2>2, <2>3 DEF Nameless, TypeOK
<1>3. ASSUME NEW j \in Jobs, Rename(j) PROVE Nameless(<<k, u>>)'
  <2>1. Path(j) \in Outboxes
    BY <1>3, DeliveryServed DEF Rename, Placed, Equipped, Busy, Path
  <2>2. <<k, u>> # NULL
    BY OutboxAssumption DEF Inodes
  <2>3. QED
    BY <1>1, <1>3, <2>1, <2>2 DEF Rename, Nameless, TypeOK
<1>4. QED
  BY <1>1, <1>2, <1>3, PathsStay DEF Nameless

LEMMA DistinctStays ==
  ASSUME TypeOK, Placed, Structure, [Next]_vars
  PROVE  Distinct'
<1>1. ASSUME NEW j \in Jobs, Open(j) PROVE Distinct'
  <2>1. PICK n \in Inodes : n # file[Path(j)] /\ tmp' = [tmp EXCEPT ![Path(j)] = n]
    BY <1>1, OpenFacts
  <2>2. QED
    BY <1>1, <2>1 DEF Open, Structure, Distinct, TypeOK
<1>2. ASSUME NEW j \in Jobs, Rename(j) PROVE Distinct'
  BY <1>2 DEF Rename, Structure, Distinct, TypeOK
<1>3. QED
  BY <1>1, <1>2, PathsStay DEF Structure, Distinct

LEMMA StructureAlways == Spec => [](TypeOK /\ Placed /\ Structure)
<1>1. Init => Structure
  BY OutboxAssumption DEF Init, Structure, Owned, OwnedPaths, OwnedOpen, Unopened, Nameless,
     Distinct, Inodes, Phases
<1>2. TypeOK /\ Placed /\ Structure /\ [Next]_vars => Structure'
  BY OwnedStays, UnopenedStays, DistinctStays DEF Structure
<1>3. QED
  BY <1>1, <1>2, Typing, PTL DEF Spec
-----------------------------------------------------------------------------
(* Calls of an outbox one at a time. *)

BusyIn(o, j) == pc[j] \in Busy /\ about[j].outbox = o

\* What the update of a call writes for its delivery.
Written(j) == IF phase[j] = "upsert" THEN "pending" ELSE outcome[j]

\* What a call of an outbox can rely on from one step to the next.
Steady(o, j) ==
  /\ pc[j] \in {"fill", "rename"} => fd[j] = tmp[o]
  /\ pc[j] = "fill" => content[fd[j]] = EMPTY
  /\ pc[j] = "rename" => content[fd[j]] = state[j]
  /\ pc[j] \in {"open", "fill", "rename"} =>
       state[j] = [Records(file[o]) EXCEPT ![Id(about[j])] = Written(j)]
  /\ phase[j] = "mark" => Records(file[o])[Id(about[j])] # NULL

Single(o) == \A j, k \in Jobs : BusyIn(o, j) /\ BusyIn(o, k) => j = k
SteadyCalls(o) == \A j \in Jobs : BusyIn(o, j) => Steady(o, j)
Recorded(o) == \A i \in Ids : i[1] = o /\ sends[i] > 0 => Records(file[o])[i] # NULL
Claimed(o) ==
  \A i \in Ids : i[1] = o /\ Records(file[o])[i] = "pending" =>
    \E j \in Jobs : about[j] # NULL /\ pc[j] # "done" /\ Id(about[j]) = i

Orderly(o) == ~disturbed[o] => Single(o) /\ SteadyCalls(o) /\ Recorded(o) /\ Claimed(o)

\* A delivery has the outbox of its key.
LEMMA KeyOfOutbox == ASSUME NEW d PROVE Id(d)[1] = d.outbox
BY DEF Id

\* A call that starts in an outbox that nothing has disturbed is alone there.
LEMMA StartFacts ==
  ASSUME TypeOK, Placed, NEW j \in Jobs, Start(j)
  PROVE  \E d \in Deliveries :
           /\ pc[j] = "idle" /\ phase[j] = "upsert" /\ about[j] = NULL
           /\ pc' = [pc EXCEPT ![j] = "read"] /\ about' = [about EXCEPT ![j] = d]
           /\ UNCHANGED <<file, tmp, content, phase, fd, state, outcome, sends>>
           /\ \A o \in Outboxes :
                ~disturbed'[o] =>
                  /\ ~disturbed[o]
                  /\ d.outbox = o => \A k \in Jobs : ~BusyIn(o, k)
<1>1. PICK d \in Deliveries : CanStart(j) /\ Begins(j, d, "read")
                             /\ UNCHANGED <<files, phase, fd, state, outcome, sends, faults>>
  BY DEF Start, Deliveries
<1> DEFINE others == \E k \in Jobs : Running(k) /\ about[k].outbox = d.outbox
           busy == disturbed[d.outbox] \/ others
<1>2. disturbed' = [disturbed EXCEPT ![d.outbox] = busy] /\ busy \in BOOLEAN
  BY <1>1 DEF Begins
<1>3. ASSUME NEW o \in Outboxes, ~disturbed'[o]
      PROVE  ~disturbed[o] /\ (d.outbox = o => ~others)
  <2>1. CASE o = d.outbox
    <3>1. disturbed'[o] = busy
      <4> HIDE DEF busy
      <4> QED
        BY <1>2, <2>1 DEF TypeOK
    <3>2. QED
      BY <1>3, <2>1, <3>1
  <2>2. CASE o # d.outbox
    <3>1. disturbed'[o] = disturbed[o]
      <4> HIDE DEF busy
      <4> QED
        BY <1>2, <2>2 DEF TypeOK
    <3>2. QED
      BY <1>3, <2>2, <3>1
  <2>3. QED
    BY <2>1, <2>2
<1>4. \A o \in Outboxes : ~disturbed'[o] =>
        /\ ~disturbed[o]
        /\ d.outbox = o => \A k \in Jobs : ~BusyIn(o, k)
  BY <1>3 DEF BusyIn, Running, Busy
<1>5. QED
  BY <1>1, <1>4 DEF CanStart, Begins, Goto, files, Placed, Equipped

LEMMA CalmBefore ==
  ASSUME TypeOK, Placed, [Next]_vars, NEW o \in Outboxes, ~disturbed'[o]
  PROVE  ~disturbed[o]
<1>1. ASSUME NEW j \in Jobs, Start(j) PROVE ~disturbed[o]
  BY <1>1, StartFacts
<1>2. ASSUME NEW j \in Jobs, ~Start(j), ~Read(j),
             StartWithoutTarget(j) \/ StartFails(j) \/ Step(j)
      PROVE  disturbed' = disturbed
  BY <1>2 DEF StartWithoutTarget, StartFails, Step, Open, Fill, Rename, RenameFindsNothing,
     Sent, SendFails, Enqueue, Heartbeat, Fails
<1>3. ASSUME Crash \/ UNCHANGED vars PROVE disturbed' = disturbed
  BY <1>3 DEF Crash, vars
<1>4. ASSUME NEW j \in Jobs, Read(j) PROVE ~disturbed[o]
  BY <1>4, ReadFacts
<1>5. QED
  BY <1>1, <1>2, <1>3, <1>4 DEF Next

\* A step of one call leaves alone what the other calls hold.
LEMMA OthersKeep ==
  ASSUME TypeOK, [Next]_vars, NEW k \in Jobs, ~Start(k), ~Step(k), pc'[k] \in Busy
  PROVE  /\ pc'[k] = pc[k] /\ phase'[k] = phase[k] /\ about'[k] = about[k]
         /\ fd'[k] = fd[k] /\ state'[k] = state[k] /\ outcome'[k] = outcome[k]
<1> USE DEF TypeOK, Goto, Ends, Release, Answer, Busy
<1>1. ASSUME NEW j \in Jobs, j # k, Start(j)
      PROVE  /\ pc'[k] = pc[k] /\ phase'[k] = phase[k] /\ about'[k] = about[k]
             /\ fd'[k] = fd[k] /\ state'[k] = state[k] /\ outcome'[k] = outcome[k]
  <2>1. PICK d : Begins(j, d, "read") /\ UNCHANGED <<phase, fd, state, outcome>>
    BY <1>1 DEF Start
  <2>2. QED
    BY <1>1, <2>1 DEF Begins
<1>2. ASSUME NEW j \in Jobs, StartWithoutTarget(j) \/ StartFails(j)
      PROVE  /\ pc'[k] = pc[k] /\ phase'[k] = phase[k] /\ about'[k] = about[k]
             /\ fd'[k] = fd[k] /\ state'[k] = state[k] /\ outcome'[k] = outcome[k]
  BY <1>2 DEF StartWithoutTarget, StartFails
<1>3. ASSUME NEW j \in Jobs, j # k, Step(j)
      PROVE  /\ pc'[k] = pc[k] /\ phase'[k] = phase[k] /\ about'[k] = about[k]
             /\ fd'[k] = fd[k] /\ state'[k] = state[k] /\ outcome'[k] = outcome[k]
  <2>1. CASE Read(j)
    BY <1>3, <2>1 DEF Read
  <2>2. CASE Open(j) \/ Fill(j) \/ RenameFindsNothing(j) \/ Fails(j)
    BY <1>3, <2>2 DEF Open, Fill, RenameFindsNothing, Fails
  <2>3. CASE Rename(j)
    BY <1>3, <2>3 DEF Rename, Continue
  <2>4. CASE Sent(j) \/ SendFails(j) \/ Enqueue(j) \/ Heartbeat(j)
    BY <1>3, <2>4 DEF Sent, SendFails, Enqueue, Heartbeat
  <2>5. QED
    BY <1>3, <2>1, <2>2, <2>3, <2>4 DEF Step
<1>4. CASE Crash
  BY <1>4 DEF Crash, Running
<1>5. CASE UNCHANGED vars
  BY <1>5 DEF vars
<1>6. QED
  BY <1>1, <1>2, <1>3, <1>4, <1>5 DEF Next

\* The calls of one outbox do not touch the files of the other.
LEMMA OutboxesApart ==
  ASSUME TypeOK, Placed, Structure, [Next]_vars, NEW o \in Outboxes,
         \A j \in Jobs : BusyIn(o, j) => ~Open(j) /\ ~Fill(j) /\ ~Rename(j)
  PROVE  /\ file'[o] = file[o] /\ tmp'[o] = tmp[o]
         /\ \A n \in Inodes : InodeOf(o, n) => content'[n] = content[n]
<1> DEFINE Kept == /\ file'[o] = file[o] /\ tmp'[o] = tmp[o]
                   /\ \A n \in Inodes : InodeOf(o, n) => content'[n] = content[n]
<1>1. ASSUME NEW p, NEW q, NEW n, InodeOf(p, n), InodeOf(q, n) PROVE p = q
  BY <1>1 DEF InodeOf, In
<1>2. ASSUME NEW j \in Jobs, Open(j) \/ Fill(j) \/ Rename(j)
      PROVE  Path(j) \in Outboxes /\ Path(j) # o
  BY <1>2, DeliveryServed DEF Open, Fill, Rename, Placed, Equipped, Busy, BusyIn, Path
<1>0. DOMAIN file = Outboxes /\ DOMAIN tmp = Outboxes /\ DOMAIN content = Inodes
  BY DEF TypeOK
\* Whoever writes into an inode of another outbox leaves the contents of this one.
<1>10. ASSUME NEW p, p # o, NEW m, InodeOf(p, m), NEW text,
              content' = [content EXCEPT ![m] = text]
       PROVE  \A n \in Inodes : InodeOf(o, n) => content'[n] = content[n]
  <2>1. ASSUME NEW n \in Inodes, InodeOf(o, n) PROVE n # m
    BY <1>1, <1>10, <2>1
  <2>2. QED
    BY <1>0, <1>10, <2>1
<1>3. ASSUME NEW j \in Jobs, Open(j) PROVE Kept
  <2>1. PICK n \in Inodes : /\ InodeOf(Path(j), n)
                            /\ tmp' = [tmp EXCEPT ![Path(j)] = n]
                            /\ content' = [content EXCEPT ![n] = EMPTY]
    BY <1>3, OpenFacts
  <2>2. Path(j) # o /\ file' = file
    BY <1>2, <1>3 DEF Open
  <2>3. file'[o] = file[o] /\ tmp'[o] = tmp[o]
    BY <1>0, <2>1, <2>2
  <2>4. \A x \in Inodes : InodeOf(o, x) => content'[x] = content[x]
    BY <1>10, <2>1, <2>2
  <2>5. QED
    BY <2>3, <2>4
<1>4. ASSUME NEW j \in Jobs, Fill(j) PROVE Kept
  <2>1. InodeOf(Path(j), fd[j])
    BY <1>4 DEF Structure, Owned, OwnedOpen, Fill
  <2>2. PICK text : content' = [content EXCEPT ![fd[j]] = text]
    BY <1>4 DEF Fill
  <2>3. Path(j) # o /\ file' = file /\ tmp' = tmp
    BY <1>2, <1>4 DEF Fill
  <2>4. \A n \in Inodes : InodeOf(o, n) => content'[n] = content[n]
    BY <1>10, <2>1, <2>2, <2>3
  <2>5. QED
    BY <2>3, <2>4
<1>5. ASSUME NEW j \in Jobs, Rename(j) PROVE Kept
  <2>1. file[Path(j)] # NULL => InodeOf(Path(j), file[Path(j)])
    BY <1>2, <1>5 DEF Structure, Owned, OwnedPaths
  <2>2. /\ Path(j) # o
        /\ file' = [file EXCEPT ![Path(j)] = tmp[Path(j)]]
        /\ tmp' = [tmp EXCEPT ![Path(j)] = NULL]
        /\ content' = IF file[Path(j)] = NULL THEN content
                      ELSE [content EXCEPT ![file[Path(j)]] = EMPTY]
    BY <1>2, <1>5 DEF Rename
  <2>3. file'[o] = file[o] /\ tmp'[o] = tmp[o]
    BY <1>0, <2>2
  <2>4. \A n \in Inodes : InodeOf(o, n) => content'[n] = content[n]
    <3>1. CASE file[Path(j)] = NULL
      BY <2>2, <3>1
    <3>2. CASE file[Path(j)] # NULL
      <4>1. content' = [content EXCEPT ![file[Path(j)]] = EMPTY]
        BY <2>2, <3>2
      <4>2. QED
        BY <1>10, <2>1, <2>2, <3>2, <4>1
    <3>3. QED
      BY <3>1, <3>2
  <2>5. QED
    BY <2>3, <2>4
<1>6. ASSUME NEW j \in Jobs, ~Open(j), ~Fill(j), ~Rename(j),
             Start(j) \/ StartWithoutTarget(j) \/ StartFails(j) \/ Step(j)
      PROVE  UNCHANGED files
  BY <1>6 DEF Start, StartWithoutTarget, StartFails, Step, Read, RenameFindsNothing, Sent,
     SendFails, Enqueue, Heartbeat, Fails, files
<1>7. ASSUME Crash \/ UNCHANGED vars PROVE UNCHANGED files
  BY <1>7 DEF Crash, vars
<1>8. UNCHANGED files => Kept
  BY DEF files
<1>9. QED
  BY <1>3, <1>4, <1>5, <1>6, <1>7, <1>8 DEF Next

LEMMA RecordsDependOn ==
  ASSUME TypeOK, NEW o \in Outboxes, file'[o] = file[o],
         file[o] # NULL => content'[file[o]] = content[file[o]]
  PROVE  Records(file[o])' = Records(file[o])
BY DEF Records

\* What an update leaves in the state file of a call that is alone.
LEMMA RenameFacts ==
  ASSUME TypeOK, Placed, Structure, NEW o \in Outboxes, SteadyCalls(o),
         NEW j \in Jobs, BusyIn(o, j), Rename(j)
  PROVE  /\ Records(file[o])' = [Records(file[o]) EXCEPT ![Id(about[j])] = Written(j)]
         /\ Written(j) # NULL /\ (phase[j] = "mark" => Written(j) # "pending")
         /\ Records(file[o]) \in States /\ Id(about[j]) \in Ids
<1>1. /\ Path(j) = o /\ about[j] \in Deliveries /\ pc[j] = "rename" /\ Steady(o, j)
  BY DEF SteadyCalls, Rename, BusyIn, Path, Placed, Equipped, Busy
<1>2. /\ fd[j] = tmp[o] /\ content[tmp[o]] = state[j] /\ tmp[o] # NULL
      /\ state[j] = [Records(file[o]) EXCEPT ![Id(about[j])] = Written(j)]
  BY <1>1 DEF Steady, Rename
<1>3. file'[o] = tmp[o] /\ content'[tmp[o]] = content[tmp[o]]
  BY <1>1, <1>2 DEF Rename, Structure, Distinct, TypeOK
<1>4. state[j] \in States /\ EMPTY \notin States /\ TORN \notin States
  BY OutboxAssumption DEF TypeOK
<1>5. Records(file[o])' = state[j]
  BY <1>2, <1>3, <1>4 DEF Records
<1>6. Written(j) # NULL /\ (phase[j] = "mark" => Written(j) # "pending")
  <2>1. NULL \notin Statuses
    BY OutboxAssumption
  <2>2. phase[j] = "mark" => outcome[j] \in Outcomes \cup {"record_only"}
    BY <1>1 DEF Placed, Equipped
  <2>3. phase[j] \in {"upsert", "mark"}
    BY DEF TypeOK, Phases
  <2>4. QED
    BY <2>1, <2>2, <2>3 DEF Written, Statuses, Outcomes
<1>7. QED
  BY <1>1, <1>2, <1>5, <1>6, RecordsTyped, IdTyped DEF TypeOK

\* Nothing but the end of an update changes the records of an outbox.
LEMMA RecordsStep ==
  ASSUME TypeOK, Placed, Structure, [Next]_vars, NEW o \in Outboxes, SteadyCalls(o),
         \A j \in Jobs : BusyIn(o, j) => ~Rename(j)
  PROVE  Records(file[o])' = Records(file[o])
<1>1. file[o] # NULL => InodeOf(o, file[o]) /\ file[o] \in Inodes
  BY DEF Structure, Owned, OwnedPaths, InodeOf
<1>2. CASE \A j \in Jobs : BusyIn(o, j) => ~Open(j) /\ ~Fill(j)
  BY <1>1, <1>2, OutboxesApart, RecordsDependOn
<1>3. ASSUME NEW j \in Jobs, BusyIn(o, j), Open(j)
      PROVE  Records(file[o])' = Records(file[o])
  <2>1. PICK n \in Inodes : n # file[o] /\ content' = [content EXCEPT ![n] = EMPTY]
    BY <1>3, OpenFacts DEF BusyIn, Path
  <2>2. QED
    BY <1>1, <1>3, <2>1, RecordsDependOn DEF Open, TypeOK
<1>4. ASSUME NEW j \in Jobs, BusyIn(o, j), Fill(j)
      PROVE  Records(file[o])' = Records(file[o])
  <2>1. fd[j] = tmp[o] /\ fd[j] \in Inodes
    BY <1>4 DEF SteadyCalls, Steady, Fill, Placed, Equipped
  <2>2. PICK text : content' = [content EXCEPT ![fd[j]] = text]
    BY <1>4 DEF Fill
  <2>3. file[o] # NULL => content'[file[o]] = content[file[o]]
    BY <1>1, <2>1, <2>2 DEF Structure, Distinct, TypeOK
  <2>4. QED
    BY <1>4, <2>3, RecordsDependOn DEF Fill
<1>5. QED
  BY <1>2, <1>3, <1>4

\* A call that is busy after a step was busy before, or it starts.
LEMMA BusyBefore ==
  ASSUME TypeOK, Placed, [Next]_vars, NEW o \in Outboxes, NEW k \in Jobs, BusyIn(o, k)',
         ~Start(k)
  PROVE  BusyIn(o, k) /\ about'[k] = about[k]
<1>1. CASE Step(k)
  <2>1. pc[k] \in Busy /\ about' = about
    BY <1>1 DEF Step, Read, Open, Fill, Rename, RenameFindsNothing, Sent, SendFails, Enqueue,
       Heartbeat, Fails, Busy
  <2>2. QED
    BY <2>1 DEF BusyIn
<1>2. CASE ~Step(k)
  BY <1>2, OthersKeep DEF BusyIn
<1>3. QED
  BY <1>1, <1>2

LEMMA SingleStays ==
  ASSUME TypeOK, Placed, [Next]_vars, NEW o \in Outboxes, Single(o), ~disturbed'[o]
  PROVE  Single(o)'
<1>1. ASSUME NEW j \in Jobs, NEW k \in Jobs, BusyIn(o, j)', BusyIn(o, k)', Start(j)
      PROVE  j = k
  <2>1. PICK d \in Deliveries :
          /\ pc' = [pc EXCEPT ![j] = "read"] /\ about' = [about EXCEPT ![j] = d]
          /\ d.outbox = o => \A i \in Jobs : ~BusyIn(o, i)
    BY <1>1, StartFacts
  <2>2. d.outbox = o
    BY <1>1, <2>1 DEF BusyIn, TypeOK
  <2>3. QED
    BY <1>1, <2>1, <2>2 DEF BusyIn, TypeOK
<1>2. SUFFICES ASSUME NEW j \in Jobs, NEW k \in Jobs, BusyIn(o, j)', BusyIn(o, k)'
               PROVE  j = k
  BY DEF Single
<1>3. CASE Start(j) \/ Start(k)
  BY <1>1, <1>2, <1>3
<1>4. CASE ~Start(j) /\ ~Start(k)
  BY <1>2, <1>4, BusyBefore DEF Single
<1>5. QED
  BY <1>3, <1>4

\* A step of another outbox, or of a call that starts in another one, leaves a call
\* what it relies on.
LEMMA SteadyBesideOthers ==
  ASSUME TypeOK, Placed, Structure, [Next]_vars, NEW o \in Outboxes, Single(o),
         SteadyCalls(o), NEW k \in Jobs, BusyIn(o, k)', ~Start(k), ~Step(k)
  PROVE  Steady(o, k)'
<1>1. /\ BusyIn(o, k) /\ Steady(o, k) /\ pc'[k] = pc[k] /\ phase'[k] = phase[k]
      /\ about'[k] = about[k] /\ fd'[k] = fd[k] /\ state'[k] = state[k]
      /\ outcome'[k] = outcome[k]
  BY BusyBefore, OthersKeep DEF BusyIn, SteadyCalls
<1>2. \A j \in Jobs : BusyIn(o, j) => ~Open(j) /\ ~Fill(j) /\ ~Rename(j)
  BY <1>1 DEF Single, Step
<1>3. /\ tmp'[o] = tmp[o] /\ Records(file[o])' = Records(file[o])
      /\ \A n \in Inodes : InodeOf(o, n) => content'[n] = content[n]
  BY <1>2, OutboxesApart, RecordsStep
<1>4. pc[k] \in {"fill", "rename"} => content'[fd[k]] = content[fd[k]]
  BY <1>1, <1>3 DEF Structure, Owned, OwnedOpen, InodeOf, BusyIn, Path
<1>5. Written(k)' = Written(k)
  BY <1>1 DEF Written
<1>6. QED
  BY <1>1, <1>3, <1>4, <1>5 DEF Steady

LEMMA SteadyStep ==
  ASSUME TypeOK, Placed, Structure, [Next]_vars, NEW o \in Outboxes, Single(o),
         SteadyCalls(o), ~disturbed'[o], NEW k \in Jobs, BusyIn(o, k)', Step(k), ~Start(k)
  PROVE  Steady(o, k)'
<1> USE DEF Goto, Answer
<1>1. /\ BusyIn(o, k) /\ Steady(o, k) /\ Path(k) = o /\ about' = about
      /\ about[k] \in Deliveries /\ phase[k] \in Phases
  BY BusyBefore DEF SteadyCalls, BusyIn, Path, Placed, Equipped, Step, Read, Open, Fill, Rename,
     RenameFindsNothing, Sent, SendFails, Enqueue, Heartbeat, Fails, TypeOK
<1>2. ~Rename(k) => Records(file[o])' = Records(file[o])
  BY <1>1, RecordsStep DEF Single
<1>3. CASE Read(k)
  <2>1. /\ state' = [state EXCEPT ![k] = [Records(file[o]) EXCEPT ![Id(about[k])] = Written(k)]]
        /\ pc' = [pc EXCEPT ![k] = "open"] /\ UNCHANGED <<phase, outcome>>
    BY <1>1, <1>3, ReadFacts DEF BusyIn, Busy, Ends, TypeOK, Written
  <2>2. Written(k)' = Written(k) /\ pc'[k] = "open"
    BY <2>1 DEF Written, TypeOK
  <2>3. ~Rename(k)
    BY <1>3 DEF Read, Rename
  <2>4. QED
    BY <1>1, <1>2, <2>1, <2>2, <2>3 DEF Steady, TypeOK
<1>4. CASE Open(k)
  <2>1. PICK n \in Inodes : /\ tmp' = [tmp EXCEPT ![o] = n] /\ fd' = [fd EXCEPT ![k] = n]
                            /\ content' = [content EXCEPT ![n] = EMPTY]
    BY <1>1, <1>4, OpenFacts
  <2>2. /\ pc'[k] = "fill" /\ pc[k] = "open" /\ UNCHANGED <<phase, state, outcome>>
    BY <1>4 DEF Open, TypeOK
  <2>3. fd'[k] = tmp'[o] /\ content'[fd'[k]] = EMPTY
    BY <2>1 DEF TypeOK
  <2>4. Written(k)' = Written(k) /\ ~Rename(k)
    BY <2>2 DEF Written, Rename
  <2>5. QED
    BY <1>1, <1>2, <2>2, <2>3, <2>4 DEF Steady
<1>5. CASE Fill(k)
  <2>1. /\ content' = [content EXCEPT ![fd[k]] = state[k]] /\ fd[k] \in Inodes
        /\ pc[k] = "fill" /\ pc'[k] = "rename" /\ fd[k] = tmp[o]
        /\ UNCHANGED <<file, tmp, phase, fd, state, outcome>>
    BY <1>1, <1>5 DEF Fill, Steady, Placed, Equipped, TypeOK
  <2>2. content'[fd'[k]] = state'[k]
    BY <2>1 DEF TypeOK
  <2>3. Written(k)' = Written(k) /\ ~Rename(k)
    BY <2>1 DEF Written, Rename
  <2>4. QED
    BY <1>1, <1>2, <2>1, <2>2, <2>3 DEF Steady
<1>6. CASE Rename(k)
  <2>1. /\ Records(file[o])' = [Records(file[o]) EXCEPT ![Id(about[k])] = Written(k)]
        /\ Written(k) # NULL /\ Records(file[o]) \in States /\ Id(about[k]) \in Ids
    BY <1>1, <1>6, RenameFacts
  <2>2. Records(file[o])'[Id(about[k])] # NULL
    BY <2>1 DEF States
  <2>3. pc'[k] \in {"channel", "enqueue", "read"}
    BY <1>1, <1>6 DEF Rename, Continue, Ends, Adapter, BusyIn, Busy, TypeOK
  <2>4. QED
    BY <1>1, <2>2, <2>3 DEF Steady
<1>7. CASE RenameFindsNothing(k) \/ Fails(k)
  BY <1>7 DEF RenameFindsNothing, Fails, Ends, BusyIn, Busy, TypeOK
<1>8. CASE Sent(k) \/ SendFails(k) \/ Enqueue(k) \/ Heartbeat(k)
  <2>1. /\ pc[k] \in {"channel", "enqueue", "heartbeat"} /\ UNCHANGED phase
        /\ pc'[k] \in {"read", "enqueue", "heartbeat"}
    BY <1>8 DEF Sent, SendFails, Enqueue, Heartbeat, TypeOK
  <2>2. QED
    BY <1>1, <1>2, <2>1 DEF Steady, Rename
<1>9. QED
  BY <1>3, <1>4, <1>5, <1>6, <1>7, <1>8 DEF Step

LEMMA SteadyStays ==
  ASSUME TypeOK, Placed, Structure, [Next]_vars, NEW o \in Outboxes, Single(o), SteadyCalls(o),
         ~disturbed'[o]
  PROVE  SteadyCalls(o)'
<1> SUFFICES ASSUME NEW k \in Jobs, BusyIn(o, k)' PROVE Steady(o, k)'
  BY DEF SteadyCalls
<1>1. CASE Start(k)
  <2>1. PICK d : pc[k] = "idle" /\ phase[k] = "upsert"
                 /\ pc' = [pc EXCEPT ![k] = "read"] /\ phase' = phase
    BY <1>1, StartFacts
  <2>2. QED
    BY <2>1 DEF Steady, TypeOK
<1>2. CASE ~Start(k)
  BY <1>2, SteadyBesideOthers, SteadyStep
<1>3. QED
  BY <1>1, <1>2

\* The records of an outbox change by one record that is written, if at all.
LEMMA RecordChanges ==
  ASSUME TypeOK, Placed, Structure, [Next]_vars, NEW o \in Outboxes, SteadyCalls(o)
  PROVE  \/ Records(file[o])' = Records(file[o]) /\ \A j \in Jobs : BusyIn(o, j) => ~Rename(j)
         \/ \E j \in Jobs :
              /\ BusyIn(o, j) /\ Rename(j)
              /\ Written(j) # NULL /\ (phase[j] = "mark" => Written(j) # "pending")
              /\ Records(file[o])' = [Records(file[o]) EXCEPT ![Id(about[j])] = Written(j)]
              /\ Records(file[o]) \in States /\ Id(about[j]) \in Ids
<1>1. CASE \A j \in Jobs : BusyIn(o, j) => ~Rename(j)
  BY <1>1, RecordsStep
<1>2. CASE \E j \in Jobs : BusyIn(o, j) /\ Rename(j)
  BY <1>2, RenameFacts
<1>3. QED
  BY <1>1, <1>2

LEMMA RecordStays ==
  ASSUME TypeOK, Placed, Structure, [Next]_vars, NEW o \in Outboxes, SteadyCalls(o),
         NEW i \in Ids, Records(file[o])[i] # NULL
  PROVE  Records(file[o])'[i] # NULL
<1>1. CASE Records(file[o])' = Records(file[o])
  BY <1>1
<1>2. CASE Records(file[o])' # Records(file[o])
  <2>1. PICK j \in Jobs :
          /\ Written(j) # NULL /\ Records(file[o]) \in States
          /\ Records(file[o])' = [Records(file[o]) EXCEPT ![Id(about[j])] = Written(j)]
    BY <1>2, RecordChanges
  <2>2. QED
    BY <2>1 DEF States
<1>3. QED
  BY <1>1, <1>2

LEMMA RecordedStays ==
  ASSUME TypeOK, Placed, Structure, [Next]_vars, NEW o \in Outboxes, SteadyCalls(o),
         Recorded(o)
  PROVE  Recorded(o)'
<1> SUFFICES ASSUME NEW i \in Ids, i[1] = o, sends'[i] > 0 PROVE Records(file[o])'[i] # NULL
  BY DEF Recorded
<1>1. CASE sends[i] > 0
  BY <1>1, RecordStays DEF Recorded
<1>2. CASE ~(sends[i] > 0)
  <2>1. \E j \in Jobs : /\ pc[j] \in {"channel", "enqueue"} /\ Arrive(about[j])
    BY <1>2 DEF Next, Step, Start, StartWithoutTarget, StartFails, Read, Open, Fill, Rename,
       RenameFindsNothing, Sent, SendFails, Enqueue, Heartbeat, Fails, Crash, vars
  <2>2. PICK j \in Jobs : pc[j] \in {"channel", "enqueue"} /\ Arrive(about[j])
    BY <2>1
  <2>3. Id(about[j]) = i
    BY <1>2, <2>2 DEF Arrive, TypeOK
  <2>4. BusyIn(o, j) /\ phase[j] = "mark"
    BY <2>2, <2>3, KeyOfOutbox DEF BusyIn, Busy, Placed, Equipped
  <2>5. Records(file[o])[i] # NULL
    BY <2>3, <2>4 DEF SteadyCalls, Steady
  <2>6. QED
    BY <2>5, RecordStays
<1>3. QED
  BY <1>1, <1>2

\* A call ends well only with its record marked, or without a delivery.
LEMMA DoneIsMarked ==
  ASSUME TypeOK, Placed, [Next]_vars, NEW k \in Jobs, about[k] # NULL,
         pc[k] # "done", pc'[k] = "done", ~disturbed'[Path(k)]
  PROVE  \/ Read(k) /\ phase[k] = "mark" /\ Records(file[Path(k)])[Id(about[k])] = NULL
         \/ Rename(k) /\ phase[k] = "mark"
<1> USE DEF Goto, Ends, Answer, TypeOK, Adapter
<1>1. ASSUME NEW j \in Jobs, Read(j)
      PROVE  j = k /\ phase[k] = "mark" /\ Records(file[Path(k)])[Id(about[k])] = NULL
  BY <1>1, ReadFacts
<1>2. ASSUME NEW j \in Jobs, Rename(j) PROVE j = k /\ phase[k] = "mark"
  BY <1>2 DEF Rename, Continue
<1>3. ASSUME NEW j \in Jobs, Start(j) PROVE FALSE
  BY <1>3, StartFacts
<1>4. ASSUME NEW j \in Jobs, StartWithoutTarget(j) \/ StartFails(j) PROVE FALSE
  BY <1>4 DEF StartWithoutTarget, StartFails, CanStart, Placed, Equipped
<1>5. ASSUME NEW j \in Jobs, Open(j) \/ Fill(j) \/ RenameFindsNothing(j) \/ Fails(j)
      PROVE  FALSE
  BY <1>5 DEF Open, Fill, RenameFindsNothing, Fails
<1>6. ASSUME NEW j \in Jobs, Sent(j) \/ SendFails(j) \/ Enqueue(j) \/ Heartbeat(j)
      PROVE  FALSE
  BY <1>6 DEF Sent, SendFails, Enqueue, Heartbeat
<1>7. ~Crash /\ ~UNCHANGED vars
  BY DEF Crash, Running, vars
<1>8. QED
  BY <1>1, <1>2, <1>3, <1>4, <1>5, <1>6, <1>7 DEF Next, Step

LEMMA AboutStays ==
  ASSUME TypeOK, Placed, [Next]_vars, NEW k \in Jobs, about[k] # NULL
  PROVE  about'[k] = about[k]
BY InStays, DeliveryServed DEF In, TypeOK

LEMMA ClaimedStays ==
  ASSUME TypeOK, Placed, Structure, [Next]_vars, NEW o \in Outboxes, SteadyCalls(o),
         Claimed(o), ~disturbed'[o]
  PROVE  Claimed(o)'
<1> SUFFICES ASSUME NEW i \in Ids, i[1] = o, Records(file[o])'[i] = "pending"
             PROVE  \E k \in Jobs : about'[k] # NULL /\ pc'[k] # "done" /\ Id(about'[k]) = i
  BY DEF Claimed
<1>1. ASSUME NEW k \in Jobs, about[k] # NULL, Id(about[k]) = i, pc[k] # "done",
             pc'[k] = "done"
      PROVE  Path(k) = o /\ (Records(file[o])[i] = NULL \/ (Rename(k) /\ phase[k] = "mark"))
  BY <1>1, DoneIsMarked, KeyOfOutbox DEF Path
<1>2. CASE Records(file[o])' = Records(file[o]) /\ \A j \in Jobs : BusyIn(o, j) => ~Rename(j)
  <2>1. PICK k \in Jobs : about[k] # NULL /\ pc[k] # "done" /\ Id(about[k]) = i
    BY <1>2 DEF Claimed
  <2>2. pc'[k] # "done"
    <3> SUFFICES ASSUME pc'[k] = "done" PROVE FALSE
      OBVIOUS
    <3>1. Records(file[o])[i] # NULL
      BY <1>2, OutboxAssumption DEF Statuses
    <3>2. Rename(k) /\ BusyIn(o, k)
      BY <1>1, <2>1, <3>1 DEF Rename, BusyIn, Busy, Path
    <3>3. QED
      BY <1>2, <3>2
  <2>3. QED
    BY <2>1, <2>2, AboutStays
<1>3. ASSUME NEW j \in Jobs, BusyIn(o, j), Rename(j), Written(j) # NULL,
             phase[j] = "mark" => Written(j) # "pending",
             Records(file[o])' = [Records(file[o]) EXCEPT ![Id(about[j])] = Written(j)],
             Records(file[o]) \in States, Id(about[j]) \in Ids
      PROVE  \E k \in Jobs : about'[k] # NULL /\ pc'[k] # "done" /\ Id(about'[k]) = i
  <2>1. about[j] # NULL /\ about' = about
    BY <1>3, OutboxAssumption, DeliveryServed DEF Rename, BusyIn, Placed, Equipped, Deliveries
  <2>2. CASE Id(about[j]) = i
    <3>1. phase[j] # "mark"
      BY <1>3, <2>2 DEF States
    <3>2. pc'[j] # "done"
      BY <1>3, <3>1 DEF Rename, Continue, Adapter, Goto, TypeOK
    <3>3. QED
      BY <2>1, <2>2, <3>2
  <2>3. CASE Id(about[j]) # i
    <3>1. Records(file[o])[i] = "pending"
      BY <1>3, <2>3 DEF States
    <3>2. PICK k \in Jobs : about[k] # NULL /\ pc[k] # "done" /\ Id(about[k]) = i
      BY <3>1 DEF Claimed
    <3>3. k # j /\ pc'[k] = pc[k]
      BY <1>3, <2>3, <3>2 DEF Rename, Continue, Ends, Goto, TypeOK
    <3>4. QED
      BY <2>1, <3>2, <3>3
  <2>4. QED
    BY <2>2, <2>3
<1>4. QED
  BY <1>2, <1>3, RecordChanges

Order == TypeOK /\ Placed /\ Structure /\ \A o \in Outboxes : Orderly(o)

LEMMA OrderAlways == Spec => []Order
<1>1. Init => \A o \in Outboxes : Orderly(o)
  <2> SUFFICES ASSUME Init, NEW o \in Outboxes
               PROVE  Single(o) /\ SteadyCalls(o) /\ Recorded(o) /\ Claimed(o)
    BY DEF Orderly
  <2>1. \A j \in Jobs : ~BusyIn(o, j)
    BY DEF Init, BusyIn, Busy
  <2>2. \A i \in Ids : sends[i] = 0 /\ Records(file[o])[i] # "pending"
    BY OutboxAssumption DEF Init, Records, EmptyState, Statuses
  <2>3. QED
    BY <2>1, <2>2 DEF Single, SteadyCalls, Recorded, Claimed
<1>2. Order /\ [Next]_vars => (\A o \in Outboxes : Orderly(o))'
  <2> SUFFICES ASSUME Order, [Next]_vars, NEW o \in Outboxes, ~disturbed'[o]
               PROVE  (Single(o) /\ SteadyCalls(o) /\ Recorded(o) /\ Claimed(o))'
    BY DEF Orderly
  <2>1. Single(o) /\ SteadyCalls(o) /\ Recorded(o) /\ Claimed(o)
    BY CalmBefore DEF Order, Orderly
  <2>2. QED
    BY <2>1, SingleStays, SteadyStays, RecordedStays, ClaimedStays DEF Order
<1>3. QED
  BY <1>1, <1>2, StructureAlways, PTL DEF Order, Spec

\* What went out is in the audit, as long as calls of the outbox do not overlap and
\* its file can be read: also after a write that failed and a crash between the delivery and the mark, since a
\* delivery begins with its record in the state file and no update removes one.
THEOREM SentRecorded == Spec => []SentIsRecorded
<1>1. Order => SentIsRecorded
  <2> SUFFICES ASSUME Order, NEW d \in Deliveries, ~disturbed[d.outbox], sends[Id(d)] > 0
               PROVE  Status(d) # NULL
    BY DEF SentIsRecorded
  <2>1. Recorded(d.outbox) /\ Id(d) \in Ids /\ Id(d)[1] = d.outbox
    BY DeliveryServed, IdTyped, KeyOfOutbox DEF Order, Orderly
  <2>2. QED
    BY <2>1 DEF Recorded, Status
<1>2. QED
  BY <1>1, OrderAlways, PTL

\* As long as calls of an outbox do not overlap and its file can be read, a record is
\* pending only while its call runs or after it broke off.
THEOREM PendingUnfinished == Spec => []PendingIsUnfinished
<1>1. Order => PendingIsUnfinished
  <2> SUFFICES ASSUME Order, NEW d \in Deliveries, ~disturbed[d.outbox],
                      Status(d) = "pending"
               PROVE  \E j \in Jobs : about[j] # NULL /\ pc[j] # "done" /\ Id(about[j]) = Id(d)
    BY DEF PendingIsUnfinished
  <2>1. Claimed(d.outbox) /\ Id(d) \in Ids /\ Id(d)[1] = d.outbox
    BY DeliveryServed, IdTyped, KeyOfOutbox DEF Order, Orderly
  <2>2. QED
    BY <2>1 DEF Claimed, Status
<1>2. QED
  BY <1>1, OrderAlways, PTL

\* As long as calls of an outbox do not overlap and its file can be read, a record
\* never leaves the file.
THEOREM RecordsKept == Spec => RecordsStay
<1>1. Order /\ [Next]_vars =>
        [\A d \in Deliveries :
           ~disturbed'[d.outbox] /\ Status(d) # NULL => Status(d)' # NULL]_vars
  <2> SUFFICES ASSUME Order, [Next]_vars, NEW d \in Deliveries,
                      ~disturbed'[d.outbox], Status(d) # NULL
               PROVE  Status(d)' # NULL
    OBVIOUS
  <2>1. d.outbox \in Outboxes /\ Id(d) \in Ids /\ SteadyCalls(d.outbox)
    BY DeliveryServed, IdTyped, CalmBefore DEF Order, Orderly
  <2>2. QED
    BY <2>1, RecordStays DEF Order, Status
<1>2. QED
  BY <1>1, OrderAlways, PTL DEF Spec, RecordsStay
-----------------------------------------------------------------------------
(* Repeats are calls. *)

\* The mode of a notice tells its channel: WeChat is written to directly, Feishu in
\* its own modes, and nobody in none.
LEMMA ModeOfRoute ==
  ASSUME NEW d \in Deliveries, d.outbox # "governance"
  PROVE  Route(d) = IF d.target.mode = "direct" THEN "wechat"
                    ELSE IF d.target.mode = NULL THEN "none" ELSE "feishu"
<1> DEFINE FeishuModes == {"channel_message", "reply", "thread_reply"}
           Fits(t) == \/ t.channel = "feishu" /\ t.mode \in FeishuModes
                      \/ t.channel = "wechat" /\ t.mode = "direct"
                      \/ t.channel = NULL /\ t.mode = NULL
<1>1. PICK r \in Requests, f \in Files : d = Delivery(r, f) /\ d # NULL
  BY DEF Deliveries
<1> DEFINE governance == GovernanceTarget(f.governance)
           default == WorkflowDefault(r.workflow, f.workflows)
           plan == Plan(r.completion, r.reply, governance, default)
           target == IF r.outbox = "governance" THEN governance ELSE plan
<1>2. d = [outbox |-> r.outbox, subject |-> r.subject, target |-> target]
  BY <1>1 DEF Delivery
<1>3. ASSUME NEW ref PROVE Fits(RecordOnly(ref))
  BY DEF RecordOnly
<1>4. ASSUME NEW reply PROVE Fits(FromReplyTarget(reply))
  <2>1. ASSUME NEW shape \in DOMAIN FeishuForm PROVE FeishuForm[shape][2] \in FeishuModes
    BY DEF FeishuForm
  <2> HIDE DEF Fits
  <2>2. CASE FromReplyTarget(reply) = RecordOnly(reply.ref)
    BY <1>3, <2>2
  <2>3. CASE FromReplyTarget(reply) # RecordOnly(reply.ref)
    <3> DEFINE form == FeishuForm[Reference[reply.ref].shape]
    <3>1. /\ Reference[reply.ref].shape \in DOMAIN FeishuForm
          /\ FromReplyTarget(reply) = [channel |-> "feishu", kind |-> form[1],
                                       ref |-> Reference[reply.ref].names, mode |-> form[2]]
      BY <2>3 DEF FromReplyTarget
    <3>2. form[2] \in FeishuModes
      BY <2>1, <3>1
    <3> HIDE DEF form
    <3>3. QED
      BY <3>1, <3>2 DEF Fits
  <2>4. QED
    BY <2>2, <2>3
<1>5. ASSUME NEW binding PROVE Fits(FromBinding(binding))
  BY <1>3 DEF FromBinding
<1>6. Fits(plan)
  <2> HIDE DEF governance, default, Fits
  <2> QED
    BY <1>3, <1>4, <1>5 DEF Plan
<1>7. d.target = plan
  BY <1>2
<1> HIDE DEF plan, governance, default
<1>8. NULL \notin FeishuModes \cup {"direct", "feishu", "wechat"}
  BY TargetsAssumption DEF Modes, Channels
<1>9. QED
  BY <1>6, <1>7, <1>8 DEF Route

\* The key of a delivery determines its route, although the channel is no part of it.
LEMMA RouteOfKey ==
  ASSUME NEW d \in Deliveries, NEW e \in Deliveries, Id(d) = Id(e)
  PROVE  Route(d) = Route(e)
<1>1. d.outbox = e.outbox
  BY IdOfOutbox
<1>2. CASE d.outbox = "governance"
  BY <1>1, <1>2 DEF Route
<1>3. CASE d.outbox # "governance"
  <2>1. d.outbox = "business" /\ e.outbox = "business"
    BY <1>1, <1>3, DeliveryServed DEF Outboxes
  <2>2. d.target.mode = e.target.mode
    BY <2>1 DEF Id
  <2>3. QED
    BY <1>1, <1>3, <2>2, ModeOfRoute
<1>4. QED
  BY <1>2, <1>3

\* The calls of a key; those that have asked a channel, or fell before they could; and
\* those that have raised an event, or never will.
Called(i) == {j \in Jobs : about[j] # NULL /\ Id(about[j]) = i}

Ahead(j) == phase[j] = "upsert" /\ pc[j] \in {"read", "open", "fill", "rename"}

PastChannel(i) == {j \in Called(i) : ~Ahead(j) /\ pc[j] # "channel"}

PastEvent(i) == {j \in PastChannel(i) : pc[j] # "enqueue"}

\* What the calls of a delivery can have sent so far.
Budget(d) ==
  IF Route(d) = "feishu" THEN 1
  ELSE IF Route(d) = "wechat"
  THEN Cardinality(PastChannel(Id(d))) + Cardinality(PastEvent(Id(d)))
  ELSE Cardinality(PastEvent(Id(d)))

\* A call is where its route takes it.
Routed ==
  \A j \in Jobs :
    /\ pc[j] = "channel" => Route(about[j]) \in {"feishu", "wechat"}
    /\ pc[j] = "enqueue" => Route(about[j]) \in {"session", "wechat"}

\* Besides, finitely many calls have started, and what went out is within the budget.
Counted ==
  /\ Routed
  /\ IsFiniteSet({j \in Jobs : about[j] # NULL})
  /\ \A d \in Deliveries : sends[Id(d)] <= Budget(d)

LEMMA FiniteCalls ==
  ASSUME IsFiniteSet({j \in Jobs : about[j] # NULL}), NEW i
  PROVE  /\ IsFiniteSet(Called(i)) /\ IsFiniteSet(PastChannel(i)) /\ IsFiniteSet(PastEvent(i))
         /\ Cardinality(Called(i)) \in Nat
         /\ Cardinality(PastChannel(i)) \in Nat /\ Cardinality(PastEvent(i)) \in Nat
         /\ Cardinality(PastChannel(i)) <= Cardinality(Called(i))
         /\ Cardinality(PastEvent(i)) <= Cardinality(Called(i))
<1>1. Called(i) \subseteq {j \in Jobs : about[j] # NULL}
  BY DEF Called
<1>2. IsFiniteSet(Called(i))
  BY <1>1, FS_Subset
<1>3. PastChannel(i) \subseteq Called(i) /\ PastEvent(i) \subseteq Called(i)
  BY DEF PastChannel, PastEvent
<1>4. /\ IsFiniteSet(PastChannel(i)) /\ Cardinality(PastChannel(i)) <= Cardinality(Called(i))
      /\ IsFiniteSet(PastEvent(i)) /\ Cardinality(PastEvent(i)) <= Cardinality(Called(i))
  BY <1>2, <1>3, FS_Subset
<1>5. QED
  BY <1>2, <1>4, FS_CardinalityType

\* The budget is no more than what the property allows.
LEMMA BudgetIsCalls == TypeOK /\ Counted => RepeatsAreCalls
<1> DEFINE Allowed(d) ==
             LET calls == Cardinality({j \in Jobs : about[j] # NULL /\ Id(about[j]) = Id(d)})
             IN IF Route(d) = "feishu" THEN 1
                ELSE IF Route(d) = "wechat" THEN 2 * calls ELSE calls
<1>1. ASSUME TypeOK, Counted, NEW d \in Deliveries
      PROVE  sends[Id(d)] <= Allowed(d)
  <2>1. sends[Id(d)] \in Nat /\ sends[Id(d)] <= Budget(d)
    BY <1>1, IdTyped DEF TypeOK, Counted
  <2> DEFINE calls == Cardinality(Called(Id(d)))
             channel == Cardinality(PastChannel(Id(d)))
             event == Cardinality(PastEvent(Id(d)))
  <2>2. calls \in Nat /\ channel \in Nat /\ event \in Nat /\ channel <= calls /\ event <= calls
    BY <1>1, FiniteCalls DEF Counted
  <2>3. Budget(d) = IF Route(d) = "feishu" THEN 1
                    ELSE IF Route(d) = "wechat" THEN channel + event ELSE event
    BY DEF Budget
  <2>4. Allowed(d) = IF Route(d) = "feishu" THEN 1
                     ELSE IF Route(d) = "wechat" THEN 2 * calls ELSE calls
    BY Zenon DEF Called
  <2> HIDE DEF calls, channel, event, Allowed
  <2>5. QED
    BY <2>1, <2>2, <2>3, <2>4
<1>2. RepeatsAreCalls = \A d \in Deliveries : sends[Id(d)] <= Allowed(d)
  BY Zenon DEF RepeatsAreCalls
<1> HIDE DEF Allowed
<1>3. QED
  BY <1>1, <1>2

\* A call keeps its delivery, and what it is past it stays past.
Further(k) ==
  about[k] # NULL =>
    /\ about'[k] = about[k]
    /\ ~Ahead(k) /\ pc[k] # "channel" =>
         ~Ahead(k)' /\ pc'[k] # "channel" /\ (pc[k] # "enqueue" => pc'[k] # "enqueue")

\* At most one call starts.
Starting == \E j \in Jobs : \A k \in Jobs \ {j} : about'[k] # NULL => about[k] # NULL

LEMMA StartGoesOn ==
  ASSUME TypeOK, Placed, Counted, NEW j \in Jobs,
         Start(j) \/ StartWithoutTarget(j) \/ StartFails(j)
  PROVE  /\ \A k \in Jobs : Further(k)
         /\ Starting /\ Routed' /\ sends' = sends
<1> USE DEF TypeOK, Goto
<1>1. about[j] = NULL
  BY DEF Placed, Equipped, Start, StartWithoutTarget, StartFails, CanStart
<1>2. PICK label \in {"read", "done", "failed"} :
         /\ pc' = [pc EXCEPT ![j] = label]
         /\ phase' = phase /\ sends' = sends
         /\ \A k \in Jobs : k # j => about'[k] = about[k]
  <2>1. CASE Start(j)
    BY <2>1 DEF Start, Begins
  <2>2. CASE StartWithoutTarget(j)
    BY <2>2 DEF StartWithoutTarget
  <2>3. CASE StartFails(j)
    BY <2>3 DEF StartFails
  <2>4. QED
    BY <2>1, <2>2, <2>3
<1>3. \A k \in Jobs : Further(k)
  BY <1>1, <1>2 DEF Further, Ahead
<1>4. Starting
  BY <1>2 DEF Starting
<1>5. Routed'
  BY <1>2 DEF Routed, Counted
<1>6. QED
  BY <1>2, <1>3, <1>4, <1>5

LEMMA StepGoesOn ==
  ASSUME TypeOK, Placed, Counted, NEW j \in Jobs, Step(j)
  PROVE  /\ \A k \in Jobs : Further(k)
         /\ Starting /\ Routed'
<1> USE DEF TypeOK, Goto, Phases
<1>1. about' = about /\ \A k \in Jobs : k # j => pc'[k] = pc[k] /\ phase'[k] = phase[k]
  BY DEF Step, Read, Open, Fill, Rename, RenameFindsNothing, Sent, SendFails, Enqueue,
         Heartbeat, Fails, Ends, Continue, Answer
<1>2. Starting
  BY <1>1 DEF Starting
<1>3. /\ about[j] # NULL /\ about[j] \in Deliveries
      /\ Route(about[j]) \in {"feishu", "wechat", "session", "none"}
  <2>1. pc[j] \in Busy
    BY DEF Step, Read, Open, Fill, Rename, RenameFindsNothing, Sent, SendFails, Enqueue,
           Heartbeat, Fails, Busy
  <2>2. QED
    BY <2>1, DeliveryServed DEF Placed, Equipped, Deliveries
<1> DEFINE Fine ==
      /\ ~Ahead(j) /\ pc[j] # "channel" =>
           ~Ahead(j)' /\ pc'[j] # "channel" /\ (pc[j] # "enqueue" => pc'[j] # "enqueue")
      /\ pc'[j] = "channel" => Route(about[j]) \in {"feishu", "wechat"}
      /\ pc'[j] = "enqueue" => Route(about[j]) \in {"session", "wechat"}
<1>4. ASSUME pc'[j] \in {"done", "failed", "heartbeat"} PROVE Fine
  BY <1>4 DEF Ahead
<1>5. Fine
  <2>1. CASE Read(j)
    <3>1. \/ pc'[j] = "done"
          \/ pc[j] = "read" /\ pc'[j] = "open" /\ phase' = phase
      BY <2>1 DEF Read, Ends
    <3>2. QED
      BY <1>4, <3>1 DEF Ahead
  <2>2. CASE Open(j)
    BY <2>2 DEF Open, Ahead
  <2>3. CASE Fill(j)
    BY <2>3 DEF Fill, Ahead
  <2>4. CASE Rename(j)
    <3>1. CASE phase[j] = "mark"
      BY <1>4, <2>4, <3>1 DEF Rename, Continue, Ends
    <3>2. CASE phase[j] = "upsert"
      BY <1>3, <2>4, <3>2 DEF Rename, Continue, Adapter, Ahead
    <3>3. QED
      BY <3>1, <3>2
  <2>5. CASE RenameFindsNothing(j)
    BY <1>4, <2>5 DEF RenameFindsNothing, Ends
  <2>6. CASE Sent(j)
    BY <2>6 DEF Sent, Answer
  <2>7. CASE SendFails(j)
    BY <2>7 DEF SendFails, Answer
  <2>8. CASE Enqueue(j)
    <3>1. /\ pc[j] = "enqueue" /\ phase[j] = "mark" /\ phase' = phase
          /\ pc'[j] \in {"heartbeat", "read"}
      BY <2>8 DEF Enqueue, Answer, Placed, Equipped
    <3>2. QED
      BY <3>1 DEF Ahead
  <2>9. CASE Heartbeat(j)
    <3>1. /\ pc[j] = "heartbeat" /\ phase[j] = "mark" /\ phase' = phase /\ pc'[j] = "read"
      BY <2>9 DEF Heartbeat, Answer, Placed, Equipped
    <3>2. QED
      BY <3>1 DEF Ahead
  <2>10. CASE Fails(j)
    BY <1>4, <2>10 DEF Fails, Ends
  <2>11. QED
    BY <2>1, <2>2, <2>3, <2>4, <2>5, <2>6, <2>7, <2>8, <2>9, <2>10 DEF Step
<1>6. Further(j)
  BY <1>1, <1>5 DEF Further
<1>7. \A k \in Jobs : Further(k)
  BY <1>1, <1>6 DEF Further, Ahead
<1>8. Routed'
  BY <1>1, <1>5 DEF Routed, Counted
<1>9. QED
  BY <1>2, <1>7, <1>8

LEMMA CrashGoesOn ==
  ASSUME TypeOK, Placed, Counted, Crash \/ UNCHANGED vars
  PROVE  /\ \A k \in Jobs : Further(k)
         /\ Starting \/ about' = about
         /\ Routed' /\ sends' = sends
<1>1. /\ about' = about /\ sends' = sends
      /\ \A k \in Jobs : \/ pc'[k] = pc[k] /\ (phase'[k] = phase[k] \/ pc[k] \in {"idle", "done", "failed", "lost"})
                         \/ pc'[k] = "lost"
  BY DEF Crash, vars, files, Running, TypeOK
<1>2. \A k \in Jobs : Further(k)
  BY <1>1 DEF Further, Ahead
<1>3. Routed'
  BY <1>1 DEF Routed, Counted
<1>4. QED
  BY <1>1, <1>2, <1>3

\* What is past stays past, and the calls that have started remain finitely many.
LEMMA PastGrows ==
  ASSUME IsFiniteSet({j \in Jobs : about[j] # NULL}),
         \A k \in Jobs : Further(k), Starting \/ about' = about
  PROVE  /\ IsFiniteSet({j \in Jobs : about[j] # NULL})'
         /\ \A i : /\ PastChannel(i) \subseteq PastChannel(i)' /\ IsFiniteSet(PastChannel(i)')
                   /\ PastEvent(i) \subseteq PastEvent(i)' /\ IsFiniteSet(PastEvent(i)')
<1> DEFINE started == {j \in Jobs : about[j] # NULL}
<1>1. IsFiniteSet(started')
  <2>1. CASE about' = about
    BY <2>1
  <2>2. CASE Starting
    <3>1. PICK j \in Jobs : \A k \in Jobs \ {j} : about'[k] # NULL => about[k] # NULL
      BY <2>2 DEF Starting
    <3>2. IsFiniteSet(started \cup {j})
      BY FS_AddElement
    <3>3. started' \subseteq started \cup {j}
      BY <3>1
    <3>4. QED
      BY <3>2, <3>3, FS_Subset
  <2>3. QED
    BY <2>1, <2>2
<1>2. \A i : PastChannel(i) \subseteq PastChannel(i)' /\ PastEvent(i) \subseteq PastEvent(i)'
  BY DEF Further, PastChannel, PastEvent, Called
<1>3. \A i : PastChannel(i)' \subseteq started' /\ PastEvent(i)' \subseteq started'
  BY DEF PastChannel, PastEvent, Called
<1>4. \A i : IsFiniteSet(PastChannel(i)') /\ IsFiniteSet(PastEvent(i)')
  BY <1>1, <1>3, FS_Subset
<1>5. QED
  BY <1>1, <1>2, <1>4

\* So neither the numbers of those that are past nor the budget become less.
LEMMA NumbersGrow ==
  ASSUME Counted, \A k \in Jobs : Further(k), Starting \/ about' = about, NEW i
  PROVE  /\ Cardinality(PastChannel(i)) \in Nat /\ Cardinality(PastChannel(i)') \in Nat
         /\ Cardinality(PastEvent(i)) \in Nat /\ Cardinality(PastEvent(i)') \in Nat
         /\ Cardinality(PastChannel(i)) <= Cardinality(PastChannel(i)')
         /\ Cardinality(PastEvent(i)) <= Cardinality(PastEvent(i)')
<1>1. /\ PastChannel(i) \subseteq PastChannel(i)' /\ IsFiniteSet(PastChannel(i)')
      /\ PastEvent(i) \subseteq PastEvent(i)' /\ IsFiniteSet(PastEvent(i)')
  BY PastGrows DEF Counted
<1>2. QED
  BY <1>1, FS_Subset, FS_CardinalityType

LEMMA BudgetGrows ==
  ASSUME Counted, \A k \in Jobs : Further(k), Starting \/ about' = about, NEW d \in Deliveries
  PROVE  Budget(d) \in Nat /\ Budget(d)' \in Nat /\ Budget(d) <= Budget(d)'
<1> DEFINE i == Id(d)
           channel == Cardinality(PastChannel(i))
           event == Cardinality(PastEvent(i))
<1>1. /\ channel \in Nat /\ channel' \in Nat /\ channel <= channel'
      /\ event \in Nat /\ event' \in Nat /\ event <= event'
  BY NumbersGrow
<1> HIDE DEF channel, event
<1>2. QED
  BY <1>1 DEF Budget, channel, event

\* A step after which nothing more went out keeps the count.
LEMMA QuietStep ==
  ASSUME TypeOK, Counted, \A k \in Jobs : Further(k), Starting \/ about' = about,
         Routed', sends' = sends
  PROVE  Counted'
<1>1. ASSUME NEW d \in Deliveries PROVE sends'[Id(d)] <= Budget(d)'
  <2>1. sends[Id(d)] \in Nat /\ sends[Id(d)] <= Budget(d)
    BY IdTyped DEF TypeOK, Counted
  <2>2. Budget(d) \in Nat /\ Budget(d)' \in Nat /\ Budget(d) <= Budget(d)'
    BY BudgetGrows
  <2>3. QED
    BY <2>1, <2>2
<1>2. IsFiniteSet({j \in Jobs : about[j] # NULL})'
  BY PastGrows DEF Counted
<1>3. QED
  BY <1>1, <1>2 DEF Counted

\* A call that passes its channel, or its event, is one more that has.
LEMMA OneMorePast ==
  ASSUME Counted, \A k \in Jobs : Further(k), Starting \/ about' = about,
         NEW j \in Jobs, about[j] # NULL, about'[j] = about[j], NEW i, Id(about[j]) = i
  PROVE  /\ pc[j] = "channel" /\ ~Ahead(j)' /\ pc'[j] # "channel" =>
              Cardinality(PastChannel(i)') >= Cardinality(PastChannel(i)) + 1
         /\ pc[j] = "enqueue" /\ ~Ahead(j)' /\ pc'[j] \notin {"channel", "enqueue"} =>
              Cardinality(PastEvent(i)') >= Cardinality(PastEvent(i)) + 1
<1>1. /\ PastChannel(i) \subseteq PastChannel(i)' /\ IsFiniteSet(PastChannel(i)')
      /\ PastEvent(i) \subseteq PastEvent(i)' /\ IsFiniteSet(PastEvent(i)')
  BY PastGrows DEF Counted
<1>2. IsFiniteSet(PastChannel(i)) /\ IsFiniteSet(PastEvent(i))
  BY FiniteCalls DEF Counted
<1>3. ASSUME NEW S, NEW T, IsFiniteSet(S), IsFiniteSet(T), S \subseteq T, j \in T, j \notin S
      PROVE  Cardinality(T) >= Cardinality(S) + 1
  <2>1. IsFiniteSet(S \cup {j}) /\ Cardinality(S \cup {j}) = Cardinality(S) + 1
    BY <1>3, FS_AddElement
  <2>2. S \cup {j} \subseteq T
    BY <1>3
  <2>3. Cardinality(S \cup {j}) <= Cardinality(T)
    BY <1>3, <2>2, FS_Subset
  <2>4. Cardinality(S) \in Nat /\ Cardinality(T) \in Nat
    BY <1>3, FS_CardinalityType
  <2>5. QED
    BY <2>1, <2>3, <2>4
<1>4. ASSUME pc[j] = "channel", ~Ahead(j)', pc'[j] # "channel"
      PROVE  Cardinality(PastChannel(i)') >= Cardinality(PastChannel(i)) + 1
  <2>1. j \in PastChannel(i)' /\ j \notin PastChannel(i)
    BY <1>4 DEF PastChannel, Called
  <2>2. QED
    BY <1>1, <1>2, <1>3, <2>1
<1>5. ASSUME pc[j] = "enqueue", ~Ahead(j)', pc'[j] \notin {"channel", "enqueue"}
      PROVE  Cardinality(PastEvent(i)') >= Cardinality(PastEvent(i)) + 1
  <2>1. j \in PastEvent(i)' /\ j \notin PastEvent(i)
    BY <1>5 DEF PastEvent, PastChannel, Called
  <2>2. QED
    BY <1>1, <1>2, <1>3, <2>1
<1>6. QED
  BY <1>4, <1>5

\* A step after which a delivery has arrived keeps the count: it uses up the channel or
\* the event of its call.
LEMMA ArrivingStep ==
  ASSUME TypeOK, Placed, Counted, \A k \in Jobs : Further(k), Starting \/ about' = about,
         Routed', NEW j \in Jobs, about[j] \in Deliveries, about' = about, Arrive(about[j]),
         ~Ahead(j)',
         \/ pc[j] = "channel" /\ pc'[j] # "channel"
         \/ pc[j] = "enqueue" /\ pc'[j] \notin {"channel", "enqueue"}
  PROVE  Counted'
<1> DEFINE i == Id(about[j])
<1>1. about[j] # NULL
  BY DEF Deliveries
<1>2. /\ pc[j] = "channel" => Route(about[j]) \in {"feishu", "wechat"}
      /\ pc[j] = "enqueue" => Route(about[j]) \in {"session", "wechat"}
  BY DEF Counted, Routed
<1>3. i \in Ids /\ sends \in [Ids -> Nat]
      /\ sends' = [sends EXCEPT ![i] = IF Route(about[j]) = "feishu" THEN 1 ELSE @ + 1]
  BY IdTyped DEF TypeOK, Arrive
<1>4. ASSUME NEW d \in Deliveries PROVE sends'[Id(d)] <= Budget(d)'
  <2>1. sends[Id(d)] \in Nat /\ sends[Id(d)] <= Budget(d)
    BY IdTyped DEF TypeOK, Counted
  <2>2. Budget(d) \in Nat /\ Budget(d)' \in Nat /\ Budget(d) <= Budget(d)'
    BY BudgetGrows
  <2>3. CASE Id(d) # i
    <3>1. sends'[Id(d)] = sends[Id(d)]
      BY <1>3, <2>3, IdTyped
    <3>2. QED
      BY <2>1, <2>2, <3>1
  <2>4. CASE Id(d) = i
    <3>1. Route(d) = Route(about[j])
      BY <2>4, RouteOfKey
    <3>2. CASE Route(d) = "feishu"
      <4>1. sends'[Id(d)] = 1
        BY <1>3, <2>4, <3>1, <3>2
      <4>2. Budget(d)' = 1
        BY <3>2 DEF Budget
      <4>3. QED
        BY <4>1, <4>2
    <3>3. CASE Route(d) # "feishu"
      <4> DEFINE channel == Cardinality(PastChannel(i))
                 event == Cardinality(PastEvent(i))
      <4>1. sends'[Id(d)] = sends[Id(d)] + 1
        BY <1>3, <2>4, <3>1, <3>3
      <4>2. /\ pc[j] = "channel" => channel' >= channel + 1
            /\ pc[j] = "enqueue" => event' >= event + 1
        BY <1>1, OneMorePast
      <4>3. /\ channel \in Nat /\ channel' \in Nat /\ channel' >= channel
            /\ event \in Nat /\ event' \in Nat /\ event' >= event
        BY NumbersGrow
      <4>4. CASE Route(d) = "wechat"
        <5>1. Budget(d) = channel + event /\ Budget(d)' = channel' + event'
          BY <2>4, <4>4 DEF Budget
        <5> HIDE DEF channel, event
        <5>2. QED
          BY <2>1, <4>1, <4>2, <4>3, <5>1
      <4>5. CASE Route(d) # "wechat"
        <5>1. Budget(d) = event /\ Budget(d)' = event'
          BY <2>4, <3>3, <4>5 DEF Budget
        <5>2. pc[j] = "enqueue"
          BY <1>2, <3>1, <3>3, <4>5
        <5> HIDE DEF channel, event
        <5>3. QED
          BY <2>1, <4>1, <4>2, <4>3, <5>1, <5>2
      <4>6. QED
        BY <4>4, <4>5
    <3>4. QED
      BY <3>2, <3>3
  <2>5. QED
    BY <2>3, <2>4
<1>5. IsFiniteSet({k \in Jobs : about[k] # NULL})'
  BY PastGrows DEF Counted
<1>6. QED
  BY <1>4, <1>5 DEF Counted

LEMMA CountedStep == TypeOK /\ Placed /\ Counted /\ [Next]_vars => Counted'
<1> SUFFICES ASSUME TypeOK, Placed, Counted, [Next]_vars PROVE Counted'
  OBVIOUS
<1>1. CASE Crash \/ UNCHANGED vars
  BY <1>1, CrashGoesOn, QuietStep
<1>2. ASSUME NEW j \in Jobs, Start(j) \/ StartWithoutTarget(j) \/ StartFails(j)
      PROVE  Counted'
  BY <1>2, StartGoesOn, QuietStep
<1>3. ASSUME NEW j \in Jobs, Step(j)
      PROVE  Counted'
  <2>1. (\A k \in Jobs : Further(k)) /\ Starting /\ Routed'
    BY <1>3, StepGoesOn
  <2>2. CASE sends' = sends
    BY <2>1, <2>2, QuietStep
  <2>3. CASE sends' # sends
    <3>1. /\ Sent(j) \/ SendFails(j) \/ Enqueue(j)
          /\ Arrive(about[j]) /\ about' = about
      BY <1>3, <2>3 DEF Step, Read, Open, Fill, Rename, RenameFindsNothing, Sent, SendFails,
                        Enqueue, Heartbeat, Fails
    <3>2. about[j] \in Deliveries /\ phase[j] = "mark"
      BY <3>1 DEF Placed, Equipped, Busy, Sent, SendFails, Enqueue
    <3>3. /\ ~Ahead(j)'
          /\ \/ pc[j] = "channel" /\ pc'[j] # "channel"
             \/ pc[j] = "enqueue" /\ pc'[j] \notin {"channel", "enqueue"}
      BY <3>1, <3>2 DEF Ahead, Sent, SendFails, Enqueue, Answer, Goto, TypeOK
    <3>4. QED
      BY <2>1, <3>1, <3>2, <3>3, ArrivingStep
  <2>4. QED
    BY <2>2, <2>3
<1>4. QED
  BY <1>1, <1>2, <1>3 DEF Next

\* What is promoted again is delivered again, but no call repeats its delivery by
\* itself, whatever fails and whenever the process dies.
THEOREM RepeatsCounted == Spec => []RepeatsAreCalls
<1>1. Init => Counted
  <2> SUFFICES ASSUME Init PROVE Counted
    OBVIOUS
  <2>1. Routed
    BY DEF Init, Routed
  <2>2. {j \in Jobs : about[j] # NULL} = {}
    BY DEF Init
  <2>3. IsFiniteSet({j \in Jobs : about[j] # NULL})
    BY <2>2, FS_EmptySet
  <2>4. ASSUME NEW d \in Deliveries PROVE sends[Id(d)] <= Budget(d)
    <3>1. sends[Id(d)] = 0
      BY IdTyped DEF Init
    <3>2. Cardinality(PastChannel(Id(d))) \in Nat /\ Cardinality(PastEvent(Id(d))) \in Nat
      BY <2>3, FiniteCalls
    <3>3. QED
      BY <3>1, <3>2 DEF Budget
  <2>5. QED
    BY <2>1, <2>3, <2>4 DEF Counted
<1>2. QED
  BY <1>1, CountedStep, BudgetIsCalls, Typing, PTL DEF Spec
=============================================================================
