---------------------- MODULE SessionProjectStoreProofs ----------------------
(* Proofs about SessionProjectStore, for any sessions, calls and requests,   *)
(* any lifetime of a session, and any number of failures and crashes.        *)
EXTENDS SessionProjectStore, TLAPS

-----------------------------------------------------------------------------
(* What a call computes. *)

LEMMA FieldsAre ==
  Fields = {"current_project_id", "selected_via", "current_workflow", "last_route_trace",
            "pending_save_mode", "pending_save_draft", "pending_semantic_execution"}
BY DEF Fields, CoalescedFields, ClearableFields

LEMMA EmptyTyped == EmptyState \in States
BY DEF EmptyState, States

LEMMA PatchedTyped ==
  ASSUME NEW old \in Sessions \cup {NULL}, NEW r \in Requests
  PROVE  /\ SetPatch(old, r.patch) \in Sessions
         /\ InvalidatePatch(old, r.patch) \in Sessions
<1>1. NULL \in Values /\ "manual" \in Values /\ "route" \in Values
  BY ValuesAssumption
<1>2. \A f \in DOMAIN r.patch : r.patch[f] \in Values
  BY RequestsAssumption
<1>3. Existing(old) \in Sessions
  BY <1>1 DEF Existing, FreshSession, Sessions
<1>4. \A f \in Fields : Existing(old)[f] \in Values
  BY <1>3 DEF Sessions
<1>5. SetPatch(old, r.patch) \in Sessions
  BY <1>2, <1>4 DEF SetPatch, Overrides, Sessions
<1>6. InvalidatePatch(old, r.patch) \in Sessions
  BY <1>1, <1>2, <1>4 DEF InvalidatePatch, Overrides, Sessions
<1>7. QED
  BY <1>5, <1>6

\* A call writes a state, in which a session is missing only because it has expired,
\* because it was not there, or because it was cleared.
LEMMA WorkFacts ==
  ASSUME NEW base \in States, NEW r \in Requests, NEW t \in Nat
  PROVE  /\ Work(base, r, t) \in States
         /\ \A k \in Keys :
              Work(base, r, t)[k] = NULL =>
                \/ base[k] = NULL
                \/ base[k].expires < t
                \/ r.op = "clear" /\ r.key = k
<1> DEFINE Entries == [session : Sessions, expires : Nat]
           live == PruneExpired(base, t)
           old == SessionOf(live[r.key])
<1>1. r.op \in Ops /\ r.key \in Keys
  BY RequestsAssumption
<1>2. live \in States /\ \A k \in Keys : live[k] = NULL => base[k] = NULL \/ base[k].expires < t
  BY DEF PruneExpired, States
<1>3. old \in Sessions \cup {NULL}
  BY <1>1, <1>2 DEF SessionOf, States
<1> HIDE DEF live, old
<1>4. ASSUME NEW s \in Sessions PROVE Entry(s, t) \in Entries /\ Entry(s, t) # NULL
  <2>1. t + Ttl \in Nat
    BY TtlAssumption
  <2>2. Entry(s, t) \in Entries
    BY <2>1 DEF Entry
  <2>3. QED
    BY <2>2, NullAssumption
<1>5. CASE r.op = "set"
  <2>1. Work(base, r, t) = [live EXCEPT ![r.key] = Entry(SetPatch(old, r.patch), t)]
    BY <1>5 DEF Work, live, old
  <2>2. QED
    BY <1>1, <1>2, <1>3, <1>4, <2>1, PatchedTyped DEF States
<1>6. CASE r.op = "invalidate"
  <2>1. Work(base, r, t) = [live EXCEPT ![r.key] = Entry(InvalidatePatch(old, r.patch), t)]
    BY <1>6 DEF Work, live, old
  <2>2. QED
    BY <1>1, <1>2, <1>3, <1>4, <2>1, PatchedTyped DEF States
<1>7. CASE r.op = "clear"
  <2>1. Work(base, r, t) = [live EXCEPT ![r.key] = NULL]
    BY <1>7 DEF Work, live
  <2>2. QED
    BY <1>1, <1>2, <1>7, <2>1 DEF States
<1>8. CASE r.op \notin {"set", "invalidate", "clear"}
  BY <1>2, <1>8 DEF Work, live
<1>9. QED
  BY <1>5, <1>6, <1>7, <1>8
-----------------------------------------------------------------------------
(* Types, and who holds the queue. *)

\* What a call has where it is.
Placed ==
  \A c \in Calls :
    /\ pc[c] # "idle" => request[c] \in [call : Requests, since : Nat]
    /\ pc[c] \in {"idle", "queued", "begun"} => blind[c] = FALSE

\* The queue holds no call twice and none that has settled, and only its oldest
\* call is under way.
Serial ==
  /\ \A i, j \in 1 .. Len(queue) : queue[i] = queue[j] => i = j
  /\ \A i \in 1 .. Len(queue) : pc[queue[i]] \in {"queued"} \cup Started
  /\ \A c \in Calls : pc[c] \in Started => queue # <<>> /\ queue[1] = c

LEMMA AppendFacts ==
  ASSUME NEW s \in Seq(Calls), NEW c \in Calls
  PROVE  /\ Append(s, c) \in Seq(Calls) /\ Len(Append(s, c)) = Len(s) + 1
         /\ \A i \in 1 .. Len(s) : Append(s, c)[i] = s[i]
         /\ Append(s, c)[Len(s) + 1] = c
         /\ Append(s, c) # <<>> /\ (s # <<>> => Len(s) > 0)
OBVIOUS

LEMMA TailFacts ==
  ASSUME NEW s \in Seq(Calls), s # <<>>
  PROVE  /\ Tail(s) \in Seq(Calls) /\ Len(s) > 0 /\ Len(Tail(s)) = Len(s) - 1
         /\ \A i \in 1 .. Len(Tail(s)) : i + 1 \in 1 .. Len(s) /\ Tail(s)[i] = s[i + 1]
OBVIOUS

\* A step of the oldest call that keeps it under way leaves the queue in order.
LEMMA SerialInside ==
  ASSUME TypeOK, Serial, NEW c \in Calls, queue # <<>>, queue[1] = c,
         NEW label \in Started, Goto(c, label), queue' = queue
  PROVE  Serial'
BY DEF Serial, Goto, TypeOK, Started, Writing, Settled

\* The oldest call that settles leaves the queue to the next one.
LEMMA SerialDequeue ==
  ASSUME TypeOK, Serial, NEW c \in Calls, pc[c] \in Started, queue' = Tail(queue),
         NEW label \in Settled, Goto(c, label)
  PROVE  queue' \in Seq(Calls) /\ Serial'
<1> USE DEF TypeOK, Started, Writing, Settled, Goto
<1>1. queue # <<>> /\ queue[1] = c /\ \A d \in Calls : pc[d] \in Started => d = c
  BY DEF Serial
<1>2. /\ queue' \in Seq(Calls) /\ Len(queue) > 0 /\ Len(queue') = Len(queue) - 1
      /\ \A i \in 1 .. Len(queue') : i + 1 \in 1 .. Len(queue) /\ queue'[i] = queue[i + 1]
  BY <1>1, TailFacts
<1>3. \A i \in 1 .. Len(queue') : queue'[i] # c
  BY <1>1, <1>2 DEF Serial
<1>4. \A i, j \in 1 .. Len(queue') : queue'[i] = queue'[j] => i = j
  BY <1>2 DEF Serial
<1>5. \A i \in 1 .. Len(queue') : pc'[queue'[i]] \in {"queued"} \cup Started
  <2> SUFFICES ASSUME NEW i \in 1 .. Len(queue')
               PROVE  pc'[queue'[i]] \in {"queued"} \cup Started
    OBVIOUS
  <2>1. queue'[i] \in Calls /\ queue'[i] # c /\ i + 1 \in 1 .. Len(queue)
        /\ queue'[i] = queue[i + 1]
    BY <1>2, <1>3
  <2>2. pc'[queue'[i]] = pc[queue[i + 1]]
    BY <2>1
  <2>3. QED
    BY <2>1, <2>2 DEF Serial
<1>6. \A d \in Calls : pc'[d] \notin Started
  BY <1>1
<1>7. QED
  BY <1>2, <1>4, <1>5, <1>6 DEF Serial

LEMMA ReadTyped == ASSUME TypeOK PROVE ReadStateFile(file) = file
BY TornAssumption DEF ReadStateFile, TypeOK

LEMMA WorkTimeTyped == ASSUME TypeOK, NEW c \in Calls PROVE WorkTime(c) \in Nat
BY DEF WorkTime, TypeOK

LEMMA SubmitTyped ==
  ASSUME TypeOK, Placed, Serial, NEW c \in Calls, Submit(c)
  PROVE  (TypeOK /\ Placed /\ Serial)'
<1> USE DEF TypeOK, Submit, Goto, Started, Writing, Settled, faultVars
<1>1. PICK r \in Requests : request' = [request EXCEPT ![c] = [call |-> r, since |-> now]]
  OBVIOUS
<1>2. TypeOK'
  BY <1>1, AppendFacts
<1>3. Placed'
  BY <1>1 DEF Placed
<1>4. Serial'
  <2>1. /\ queue' \in Seq(Calls) /\ Len(queue') = Len(queue) + 1 /\ Len(queue) \in Nat
        /\ \A i \in 1 .. Len(queue) : queue'[i] = queue[i]
        /\ queue'[Len(queue) + 1] = c /\ queue' # <<>> /\ (queue # <<>> => Len(queue) > 0)
    BY AppendFacts
  <2>2. \A i \in 1 .. Len(queue) : queue[i] # c
    BY DEF Serial
  <2>3. \A i, j \in 1 .. Len(queue') : queue'[i] = queue'[j] => i = j
    BY <2>1, <2>2 DEF Serial
  <2>4. \A i \in 1 .. Len(queue') : pc'[queue'[i]] \in {"queued"} \cup Started
    BY <2>1, <2>2 DEF Serial
  <2>5. \A d \in Calls : pc'[d] \in Started => queue' # <<>> /\ queue'[1] = d
    BY <2>1 DEF Serial
  <2>6. QED
    BY <2>3, <2>4, <2>5 DEF Serial
<1>5. QED
  BY <1>2, <1>3, <1>4

\* What a call holds once it has read the file, or failed to.
LEMMA ReadFacts ==
  ASSUME TypeOK, Placed, NEW c \in Calls, Read(c) \/ ReadFails(c)
  PROVE  /\ pc[c] = "begun" /\ request[c] \in [call : Requests, since : Nat]
         /\ \E base \in {file, EmptyState} :
              /\ base = IF ReadFails(c) THEN EmptyState ELSE file
              /\ Work(base, request[c].call, WorkTime(c)) \in States
              /\ state' = [state EXCEPT ![c] = Work(base, request[c].call, WorkTime(c))]
         /\ pc' = [pc EXCEPT ![c] = "write"]
         /\ \/ Read(c) /\ ~ReadFails(c) /\ UNCHANGED <<blind, readFaults>>
            \/ ReadFails(c) /\ blind' = [blind EXCEPT ![c] = TRUE] /\ readFaults' = readFaults + 1
         /\ UNCHANGED <<now, file, tmp, queue, request, current, writeFaults, crashes>>
<1>1. pc[c] = "begun" /\ request[c] \in [call : Requests, since : Nat]
  BY DEF Read, ReadFails, Placed
<1>2. \A base \in States : Work(base, request[c].call, WorkTime(c)) \in States
  BY <1>1, WorkTimeTyped, WorkFacts
<1>3. file \in States /\ ReadStateFile(file) = file /\ EmptyState \in States
  BY ReadTyped, EmptyTyped DEF TypeOK
<1>4. Read(c) => ~ReadFails(c)
  BY DEF Read, ReadFails, TypeOK, faultVars
<1>5. CASE Read(c)
  BY <1>1, <1>2, <1>3, <1>4, <1>5 DEF Read, Goto, faultVars
<1>6. CASE ReadFails(c)
  BY <1>1, <1>2, <1>3, <1>4, <1>6 DEF ReadFails, Goto
<1>7. QED
  BY <1>5, <1>6

LEMMA StepTyped ==
  ASSUME TypeOK, Placed, Serial, TmpBelongsToWriter, NEW c \in Calls, Step(c)
  PROVE  (TypeOK /\ Placed /\ Serial)'
<1> USE DEF Goto, Started, Writing, Settled, callVars, faultVars
<1>1. pc[c] \in Started => queue # <<>> /\ queue[1] = c
  BY DEF Serial
<1>2. CASE Begin(c)
  <2>1. queue # <<>> /\ queue[1] = c
    BY <1>2 DEF Begin, Turn, TypeOK
  <2>2. TypeOK' /\ Placed'
    BY <1>2 DEF Begin, TypeOK, Placed
  <2>3. Serial'
    BY <1>2, <2>1, SerialInside DEF Begin
  <2>4. QED
    BY <2>2, <2>3
<1>3. CASE Read(c) \/ ReadFails(c)
  <2>1. /\ pc[c] = "begun" /\ pc' = [pc EXCEPT ![c] = "write"]
        /\ UNCHANGED <<now, file, tmp, queue, request, current, writeFaults, crashes>>
        /\ \/ UNCHANGED <<blind, readFaults>>
           \/ blind' = [blind EXCEPT ![c] = TRUE] /\ readFaults' = readFaults + 1
    BY <1>3, ReadFacts
  <2>2. PICK work \in States : state' = [state EXCEPT ![c] = work]
    BY <1>3, ReadFacts
  <2>3. TypeOK'
    <3>1. pc' \in [Calls -> {"idle", "queued"} \cup Started \cup Settled]
      BY <2>1 DEF TypeOK
    <3>2. state' \in [Calls -> States]
      BY <2>2 DEF TypeOK
    <3>3. readFaults' \in Nat
      BY <2>1 DEF TypeOK
    <3>4. blind' \in [Calls -> BOOLEAN]
      <4>1. CASE blind' = blind
        BY <4>1 DEF TypeOK
      <4>2. CASE blind' = [blind EXCEPT ![c] = TRUE]
        BY <4>2 DEF TypeOK
      <4>3. QED
        BY <2>1, <4>1, <4>2
    <3>5. QED
      BY <2>1, <3>1, <3>2, <3>3, <3>4 DEF TypeOK
  <2>4. Placed'
    BY <2>1 DEF Placed, TypeOK
  <2>5. Serial'
    BY <1>1, <2>1, SerialInside
  <2>6. QED
    BY <2>3, <2>4, <2>5
<1>4. CASE Open(c) \/ Fill(c) \/ Rename(c)
  <2>1. pc[c] = "rename" => tmp \in States
    BY DEF TypeOK, TmpBelongsToWriter
  <2>2. TypeOK'
    <3>1. pc' \in [Calls -> {"idle", "queued"} \cup Started \cup Settled]
      BY <1>4 DEF Open, Fill, Rename, TypeOK
    <3>2. file' \in States /\ tmp' \in States \cup {TORN}
      BY <1>4, <2>1 DEF Open, Fill, Rename, TypeOK
    <3>3. UNCHANGED <<now, queue, callVars, faultVars>>
      BY <1>4 DEF Open, Fill, Rename
    <3>4. QED
      BY <3>1, <3>2, <3>3 DEF TypeOK
  <2>3. Placed'
    BY <1>4 DEF Open, Fill, Rename, Placed, TypeOK
  <2>4. Serial'
    BY <1>1, <1>4, SerialInside DEF Open, Fill, Rename
  <2>5. QED
    BY <2>2, <2>3, <2>4
<1>5. CASE Settle(c) \/ WriteFails(c)
  <2>1. queue' \in Seq(Calls) /\ Serial'
    BY <1>5, SerialDequeue DEF Settle, WriteFails, Dequeue, DequeueRejected
  <2>2. TypeOK'
    <3>1. \E label \in Settled : pc' = [pc EXCEPT ![c] = label]
      BY <1>5 DEF Settle, WriteFails
    <3>2. pc' \in [Calls -> {"idle", "queued"} \cup Started \cup Settled]
      BY <3>1 DEF TypeOK
    <3>3. writeFaults' = writeFaults \/ writeFaults' = writeFaults + 1
      BY <1>5 DEF Settle, WriteFails
    <3>4. UNCHANGED <<now, file, tmp, callVars, readFaults, crashes>>
      BY <1>5 DEF Settle, WriteFails
    <3>5. QED
      BY <2>1, <3>2, <3>3, <3>4 DEF TypeOK
  <2>3. Placed'
    BY <1>5 DEF Settle, WriteFails, Placed, TypeOK
  <2>4. QED
    BY <2>1, <2>2, <2>3
<1>6. QED
  BY <1>2, <1>3, <1>4, <1>5 DEF Step

LEMMA RestTyped ==
  ASSUME TypeOK, Placed, Serial, Crash \/ Tick \/ UNCHANGED vars
  PROVE  (TypeOK /\ Placed /\ Serial)'
<1> USE DEF Started, Writing, Settled, callVars, faultVars
<1>1. CASE Crash
  <2>1. TypeOK'
    BY <1>1 DEF Crash, TypeOK
  <2>2. Placed'
    BY <1>1 DEF Crash, Placed, TypeOK
  <2>3. Serial'
    BY <1>1 DEF Crash, Serial, TypeOK
  <2>4. QED
    BY <2>1, <2>2, <2>3
<1>2. CASE Tick
  BY <1>2 DEF Tick, TypeOK, Placed, Serial
<1>3. CASE UNCHANGED vars
  BY <1>3 DEF vars, TypeOK, Placed, Serial
<1>4. QED
  BY <1>1, <1>2, <1>3

LEMMA TmpStays ==
  ASSUME TypeOK, Placed, Serial, TmpBelongsToWriter, [Next]_vars
  PROVE  TmpBelongsToWriter'
<1> SUFFICES ASSUME NEW d \in Calls, pc'[d] = "rename" PROVE tmp' = state'[d]
  BY DEF TmpBelongsToWriter
<1> USE DEF TypeOK, Goto, Started, Writing, Settled, callVars, faultVars
<1>1. \A c \in Calls : pc[c] \in Started /\ pc[d] \in Started => c = d
  BY DEF Serial
<1>2. ASSUME NEW c \in Calls, Open(c) \/ Fill(c) PROVE tmp' = state'[d]
  BY <1>1, <1>2 DEF Open, Fill
<1>3. ASSUME NEW c \in Calls, Read(c) \/ ReadFails(c) PROVE tmp' = state'[d]
  <2>1. pc[c] = "begun" /\ pc' = [pc EXCEPT ![c] = "write"] /\ tmp' = tmp
    BY <1>3, ReadFacts
  <2>2. PICK work : state' = [state EXCEPT ![c] = work]
    BY <1>3, ReadFacts
  <2>3. QED
    BY <2>1, <2>2 DEF TmpBelongsToWriter
<1>4. ASSUME NEW c \in Calls, Submit(c) \/ Begin(c) \/ Rename(c) \/ Settle(c) \/ WriteFails(c)
      PROVE  tmp' = state'[d]
  BY <1>4 DEF Submit, Begin, Rename, Settle, WriteFails, TmpBelongsToWriter
<1>5. CASE Crash \/ Tick \/ UNCHANGED vars
  BY <1>5 DEF Crash, Tick, vars, TmpBelongsToWriter
<1>6. QED
  BY <1>2, <1>3, <1>4, <1>5 DEF Next, Step

Ordered == TypeOK /\ Placed /\ Serial /\ TmpBelongsToWriter

LEMMA OrderedAlways == Spec => []Ordered
<1>1. Init => Ordered
  BY EmptyTyped DEF Init, Ordered, TypeOK, Placed, Serial, TmpBelongsToWriter, Started, Writing,
     Settled
<1>2. Ordered /\ [Next]_vars => Ordered'
  BY SubmitTyped, StepTyped, RestTyped, TmpStays DEF Ordered, Next
<1>3. QED
  BY <1>1, <1>2, PTL DEF Spec

\* Every variable keeps its type: what the state file holds is a whole state,
\* whatever fails and whenever the process dies.
THEOREM TypeCorrect == Spec => []TypeOK
<1>1. Ordered => TypeOK
  BY DEF Ordered
<1>2. QED
  BY <1>1, OrderedAlways, PTL

\* The call that is about to rename the temporary file finds in it what it wrote
\* itself, because the queue starts a call only when its predecessor has settled.
THEOREM TmpIsOwn == Spec => []TmpBelongsToWriter
<1>1. Ordered => TmpBelongsToWriter
  BY DEF Ordered
<1>2. QED
  BY <1>1, OrderedAlways, PTL
-----------------------------------------------------------------------------
(* What the oldest call holds in memory: the file as it still is, worked on  *)
(* at some instant since the call was submitted.                             *)

Base(c) == IF blind[c] THEN EmptyState ELSE file

Current ==
  \A c \in Calls :
    /\ pc[c] # "idle" => request[c].since <= now
    /\ pc[c] \in Started => request[c].since <= current[c] /\ current[c] <= now
    /\ pc[c] \in Writing =>
         \E t \in request[c].since .. now :
           state[c] = Work(Base(c), request[c].call, t)

LEMMA CurrentSubmit ==
  ASSUME Ordered, Current, NEW c \in Calls, Submit(c)
  PROVE  Current'
<1> USE DEF Ordered, TypeOK, Started, Writing, Goto
<1>1. PICK r \in Requests : request' = [request EXCEPT ![c] = [call |-> r, since |-> now]]
  BY DEF Submit
<1>2. pc' = [pc EXCEPT ![c] = "queued"] /\ UNCHANGED <<now, file, current, state, blind>>
  BY DEF Submit
<1>3. SUFFICES ASSUME NEW d \in Calls
      PROVE  /\ pc'[d] # "idle" => request'[d].since <= now
             /\ pc'[d] \in Started => request'[d].since <= current[d] /\ current[d] <= now
             /\ pc'[d] \in Writing =>
                  \E t \in request'[d].since .. now :
                    state[d] = Work(Base(d), request'[d].call, t)
  BY <1>2 DEF Current, Base
<1>4. CASE d = c
  BY <1>1, <1>2, <1>4
<1>5. CASE d # c
  <2>1. pc'[d] = pc[d] /\ request'[d] = request[d]
    BY <1>1, <1>2, <1>5
  <2>2. QED
    BY <2>1 DEF Current
<1>6. QED
  BY <1>4, <1>5

\* A step that changes neither the file nor what the calls hold.
LEMMA CurrentMoves ==
  ASSUME Ordered, Current, NEW c \in Calls, UNCHANGED <<now, file, request, state, blind>>,
         NEW label, pc' = [pc EXCEPT ![c] = label], pc[c] # "idle",
         \/ current' = current
         \/ current' = [current EXCEPT ![c] = now],
         label \in Started => pc[c] \in Started \/ current'[c] = now,
         label \in Writing => pc[c] \in Writing
  PROVE  Current'
<1> USE DEF Ordered, TypeOK
<1>1. SUFFICES ASSUME NEW d \in Calls
      PROVE  /\ pc'[d] # "idle" => request[d].since <= now
             /\ pc'[d] \in Started => request[d].since <= current'[d] /\ current'[d] <= now
             /\ pc'[d] \in Writing =>
                  \E t \in request[d].since .. now :
                    state[d] = Work(Base(d), request[d].call, t)
  BY DEF Current, Base
<1>2. CASE d = c
  <2>1. pc'[d] = label
    BY <1>2
  <2>2. current'[d] = current[d] \/ current'[d] = now
    BY <1>2
  <2>3. request[d].since <= now
    BY <1>2 DEF Current
  <2>4. QED
    BY <1>2, <2>1, <2>2, <2>3 DEF Current
<1>3. CASE d # c
  <2>1. pc'[d] = pc[d] /\ current'[d] = current[d]
    BY <1>3
  <2>2. QED
    BY <2>1 DEF Current
<1>4. QED
  BY <1>2, <1>3

LEMMA CurrentRead ==
  ASSUME Ordered, Current, NEW c \in Calls, Read(c) \/ ReadFails(c)
  PROVE  Current'
<1> USE DEF Started, Writing
<1>1. TypeOK /\ Placed
  BY DEF Ordered
<1>2. PICK base \in {file, EmptyState} :
        /\ base = IF ReadFails(c) THEN EmptyState ELSE file
        /\ state' = [state EXCEPT ![c] = Work(base, request[c].call, WorkTime(c))]
  BY <1>1, ReadFacts
<1>3. /\ pc[c] = "begun" /\ pc' = [pc EXCEPT ![c] = "write"]
      /\ UNCHANGED <<now, file, request, current>>
      /\ \/ ~ReadFails(c) /\ blind' = blind
         \/ ReadFails(c) /\ blind' = [blind EXCEPT ![c] = TRUE]
  BY <1>1, ReadFacts
<1>4. ~blind[c]
  BY <1>1, <1>3 DEF Placed
<1>5. base = IF blind'[c] THEN EmptyState ELSE file
  <2>1. CASE ReadFails(c)
    BY <1>1, <1>2, <1>3, <2>1 DEF TypeOK
  <2>2. CASE ~ReadFails(c)
    BY <1>2, <1>3, <1>4, <2>2
  <2>3. QED
    BY <2>1, <2>2
<1>6. /\ now \in Nat /\ current[c] \in Nat /\ request[c].since \in Nat
      /\ request[c].since <= current[c] /\ current[c] <= now
  BY <1>1, <1>3 DEF TypeOK, Placed, Current
<1>7. WorkTime(c) \in request[c].since .. now
  BY <1>6 DEF WorkTime
<1>8. state'[c] = Work(base, request[c].call, WorkTime(c))
  BY <1>1, <1>2 DEF TypeOK
<1>9. SUFFICES ASSUME NEW d \in Calls
      PROVE  /\ pc'[d] # "idle" => request[d].since <= now
             /\ pc'[d] \in Started => request[d].since <= current[d] /\ current[d] <= now
             /\ pc'[d] \in Writing =>
                  \E t \in request[d].since .. now :
                    state'[d] = Work(IF blind'[d] THEN EmptyState ELSE file,
                                     request[d].call, t)
  BY <1>3 DEF Current, Base
<1>10. CASE d = c
  BY <1>3, <1>5, <1>6, <1>7, <1>8, <1>10 
<1>11. CASE d # c
  <2>1. pc'[d] = pc[d] /\ state'[d] = state[d]
    BY <1>1, <1>2, <1>3, <1>11 DEF TypeOK
  <2>2. blind'[d] = blind[d]
    BY <1>1, <1>3, <1>11 DEF TypeOK
  <2>3. QED
    BY <2>1, <2>2 DEF Current, Base
<1>12. QED
  BY <1>10, <1>11

\* The file changes under no call but the one that renames.
LEMMA CurrentRename ==
  ASSUME Ordered, Current, NEW c \in Calls, Rename(c)
  PROVE  Current'
<1> USE DEF Ordered, TypeOK, Started, Writing
<1>1. /\ pc[c] = "rename" /\ pc' = [pc EXCEPT ![c] = "settle"]
      /\ UNCHANGED <<now, request, current, state, blind>>
  BY DEF Rename, Goto, callVars
<1>2. \A d \in Calls : pc[d] \in Started => d = c
  BY <1>1 DEF Serial
<1>3. \A d \in Calls : pc'[d] \notin Writing
  BY <1>1, <1>2
<1>4. \A d \in Calls : pc'[d] # "idle" => pc[d] # "idle"
  BY <1>1
<1>5. \A d \in Calls : pc'[d] \in Started => pc[d] \in Started
  BY <1>1
<1>6. QED
  BY <1>1, <1>3, <1>4, <1>5 DEF Current

LEMMA CurrentRest ==
  ASSUME Ordered, Current, Crash \/ Tick \/ UNCHANGED vars
  PROVE  Current'
<1> USE DEF Started, Writing
<1>1. CASE Crash
  BY <1>1 DEF Ordered, TypeOK, Crash, Current, callVars
<1>2. CASE Tick
  <2>1. /\ now \in Nat /\ now' = now + 1
        /\ UNCHANGED <<file, pc, request, current, state, blind>>
    BY <1>2 DEF Tick, Ordered, TypeOK, callVars
  <2>2. SUFFICES ASSUME NEW d \in Calls
        PROVE  /\ pc[d] # "idle" => request[d].since <= now'
               /\ pc[d] \in Started => request[d].since <= current[d] /\ current[d] <= now'
               /\ pc[d] \in Writing =>
                    \E t \in request[d].since .. now' :
                      state[d] = Work(Base(d), request[d].call, t)
    BY <2>1 DEF Current, Base
  <2>3. pc[d] # "idle" => request[d].since \in Nat
    BY DEF Ordered, Placed
  <2>4. current[d] \in Nat
    BY DEF Ordered, TypeOK
  <2>5. QED
    BY <2>1, <2>3, <2>4 DEF Current
<1>3. CASE UNCHANGED vars
  BY <1>3 DEF vars, Current, Base
<1>4. QED
  BY <1>1, <1>2, <1>3

LEMMA CurrentAlways == Spec => [](Ordered /\ Current)
<1>1. Init => Current
  BY DEF Init, Current, Started, Writing
<1>2. Ordered /\ Current /\ [Next]_vars => Current'
  <2> SUFFICES ASSUME Ordered, Current, [Next]_vars PROVE Current'
    OBVIOUS
  <2> USE DEF Started, Writing
  <2>1. ASSUME NEW c \in Calls, Begin(c) PROVE Current'
    <3>1. pc[c] = "queued" /\ current'[c] = now
      BY <2>1 DEF Begin, Ordered, TypeOK
    <3>2. QED
      BY <2>1, <3>1, CurrentMoves DEF Begin, Goto
  <2>2. ASSUME NEW c \in Calls, Open(c) \/ Fill(c) PROVE Current'
    BY <2>2, CurrentMoves DEF Open, Fill, Goto, callVars
  <2>3. ASSUME NEW c \in Calls, Settle(c) \/ WriteFails(c) PROVE Current'
    BY <2>3, CurrentMoves DEF Settle, WriteFails, Goto, callVars
  <2>4. QED
    BY <2>1, <2>2, <2>3, CurrentSubmit, CurrentRead, CurrentRename, CurrentRest DEF Next, Step
<1>3. QED
  BY <1>1, <1>2, OrderedAlways, PTL DEF Spec

\* What a rename publishes.
LEMMA RenameFacts ==
  ASSUME Ordered, Current, NEW c \in Calls, Rename(c)
  PROVE  /\ pc[c] = "rename" /\ pc' = [pc EXCEPT ![c] = "settle"] /\ pc'[c] = "settle"
         /\ queue # <<>> /\ queue[1] = c
         /\ request[c] \in [call : Requests, since : Nat]
         /\ \E t \in request[c].since .. now : file' = Work(Base(c), request[c].call, t)
         /\ UNCHANGED <<now, queue, request, blind, readFaults>>
<1> USE DEF Started, Writing
<1>1. pc[c] = "rename" /\ pc' = [pc EXCEPT ![c] = "settle"] /\ file' = tmp
  BY DEF Rename, Goto
<1>2. tmp = state[c] /\ queue # <<>> /\ queue[1] = c
      /\ request[c] \in [call : Requests, since : Nat]
  BY <1>1 DEF Ordered, TmpBelongsToWriter, Serial, Placed
<1>3. \E t \in request[c].since .. now : state[c] = Work(Base(c), request[c].call, t)
  BY <1>1 DEF Current
<1>4. QED
  BY <1>1, <1>2, <1>3 DEF Rename, callVars, faultVars, Ordered, TypeOK

\* Nothing but a rename touches the file.
LEMMA OnlyRename ==
  ASSUME [Next]_vars, ~\E c \in Calls : Rename(c)
  PROVE  file' = file
BY DEF Next, Step, Submit, Begin, Read, ReadFails, Open, Fill, Settle, WriteFails, Crash, Tick,
   vars

\* A stored session leaves the file only because it expired, because the call
\* that writes was asked to clear it, or because that call could not read the
\* file: no other call, no failed write and no crash loses it.
THEOREM SessionsKept == Spec => SessionsLeaveOnlyByExpiryOrClear
<1> DEFINE Kept(k) ==
      ReadStateFile(file)[k] # NULL /\ ReadStateFile(file')[k] = NULL =>
        \/ file[k].expires < now
        \/ \E c \in Calls :
             /\ pc[c] = "rename" /\ pc'[c] = "settle"
             /\ \/ blind[c]
                \/ request[c].call.op = "clear" /\ request[c].call.key = k
<1>1. ASSUME Ordered, Ordered', Current, [Next]_vars, NEW k \in Keys PROVE Kept(k)
  <2>1. ReadStateFile(file) = file /\ ReadStateFile(file') = file'
    BY <1>1, TornAssumption DEF Ordered, TypeOK, ReadStateFile
  <2>2. CASE ~\E c \in Calls : Rename(c)
    BY <1>1, <2>1, <2>2, OnlyRename
  <2>3. ASSUME NEW c \in Calls, Rename(c) PROVE Kept(k)
    <3>1. /\ pc[c] = "rename" /\ pc'[c] = "settle"
          /\ request[c] \in [call : Requests, since : Nat]
      BY <1>1, <2>3, RenameFacts
    <3>2. PICK t \in request[c].since .. now : file' = Work(Base(c), request[c].call, t)
      BY <1>1, <2>3, RenameFacts
    <3>3. now \in Nat /\ file \in States
      BY <1>1 DEF Ordered, TypeOK
    <3>4. t \in Nat /\ t <= now
      BY <3>1, <3>3
    <3>5. CASE blind[c]
      BY <3>1, <3>5
    <3>6. CASE ~blind[c]
      <4>1. file' = Work(file, request[c].call, t)
        BY <3>2, <3>6 DEF Base
      <4>2. file'[k] = NULL =>
              \/ file[k] = NULL
              \/ file[k].expires < t
              \/ request[c].call.op = "clear" /\ request[c].call.key = k
        BY <3>1, <3>3, <3>4, <4>1, WorkFacts
      <4>3. file[k] # NULL => file[k].expires \in Nat
        BY <3>3 DEF States
      <4>4. QED
        BY <2>1, <3>1, <3>3, <3>4, <4>2, <4>3
    <3>7. QED
      BY <3>5, <3>6
  <2>4. QED
    BY <2>2, <2>3
<1>2. (Ordered /\ Current) /\ (Ordered /\ Current)' /\ [Next]_vars
        => [\A k \in Keys : Kept(k)]_vars
  BY <1>1
<1>3. QED
  BY <1>2, CurrentAlways, PTL DEF Spec, SessionsLeaveOnlyByExpiryOrClear
-----------------------------------------------------------------------------
(* The store implements AtomicSessionStore. *)

\* What a caller sees of a call.
View == [c \in Calls |->
           IF pc[c] = "settle" THEN "effective"
           ELSE IF pc[c] \in {"queued", "begun"} \cup Writing
           THEN IF blind[c] THEN "forgetful" ELSE "waiting"
           ELSE pc[c]]

\* The specification of the atomic store computes with the same functions.
LEMMA SameWork ==
  /\ Abstract!EmptyState = EmptyState
  /\ \A base, r, t : Abstract!Work(base, r, t) = Work(base, r, t)
<1>1. \A base, t : Abstract!PruneExpired(base, t) = PruneExpired(base, t)
  BY DEF Abstract!PruneExpired, PruneExpired
<1>2. \A entry : Abstract!SessionOf(entry) = SessionOf(entry)
  BY DEF Abstract!SessionOf, SessionOf
<1>3. \A session, t : Abstract!Entry(session, t) = Entry(session, t)
  BY DEF Abstract!Entry, Entry
<1>4. \A old, patch : Abstract!SetPatch(old, patch) = SetPatch(old, patch)
  BY DEF Abstract!SetPatch, SetPatch, Abstract!Overrides, Overrides, Abstract!Existing, Existing,
     Abstract!FreshSession, FreshSession, Abstract!Fields, Fields, Abstract!CoalescedFields,
     CoalescedFields, Abstract!ClearableFields, ClearableFields
<1>5. \A old, patch : Abstract!InvalidatePatch(old, patch) = InvalidatePatch(old, patch)
  BY DEF Abstract!InvalidatePatch, InvalidatePatch, Abstract!PendingFields,
     PendingFields, Abstract!Overrides, Overrides,
     Abstract!Existing, Existing, Abstract!FreshSession, FreshSession, Abstract!Fields, Fields,
     Abstract!CoalescedFields, CoalescedFields, Abstract!ClearableFields, ClearableFields
<1>6. ASSUME NEW base, NEW r, NEW t
      PROVE  Abstract!Work(base, r, t) = Work(base, r, t)
  <2> DEFINE live == PruneExpired(base, t)
             old  == SessionOf(live[r.key])
  <2>1. Abstract!PruneExpired(base, t) = live
    BY <1>1
  <2>2. Abstract!SessionOf(live[r.key]) = old
    BY <1>2
  <2>3. Abstract!Entry(Abstract!SetPatch(old, r.patch), t) = Entry(SetPatch(old, r.patch), t)
    BY <1>3, <1>4
  <2>4. Abstract!Entry(Abstract!InvalidatePatch(old, r.patch), t) =
          Entry(InvalidatePatch(old, r.patch), t)
    BY <1>3, <1>5
  <2>5. QED
    BY <2>1, <2>2, <2>3, <2>4 DEF Abstract!Work, Work
<1>7. QED
  BY <1>6 DEF Abstract!EmptyState, EmptyState

\* A step of the oldest call that its caller does not see.
LEMMA HiddenStep ==
  ASSUME Ordered, NEW c \in Calls, Begin(c) \/ Read(c) \/ Open(c) \/ Fill(c)
  PROVE  View' = View /\ UNCHANGED <<now, file, queue, request, readFaults>>
<1> USE DEF Started, Writing
<1>1. /\ UNCHANGED <<now, file, queue, request, readFaults>>
      /\ blind' = blind
      /\ pc[c] \in {"queued", "begun"} \cup Writing
      /\ \E label \in {"queued", "begun"} \cup Writing : pc' = [pc EXCEPT ![c] = label]
  BY DEF Begin, Read, Open, Fill, Goto, callVars, faultVars
<1>2. \A d \in Calls : pc'[d] = pc[d] \/ (d = c /\ pc'[d] \in {"queued", "begun"} \cup Writing)
  BY <1>1 DEF Ordered, TypeOK
<1>3. QED
  BY <1>1, <1>2 DEF View

LEMMA SubmitMaps ==
  ASSUME Ordered, NEW c \in Calls, Submit(c)
  PROVE  Abstract!Submit(c)
<1>1. /\ pc[c] = "idle" /\ pc' = [pc EXCEPT ![c] = "queued"] /\ blind' = blind
      /\ \E r \in Requests : request' = [request EXCEPT ![c] = [call |-> r, since |-> now]]
      /\ queue' = Append(queue, c) /\ UNCHANGED <<now, file, readFaults>>
  BY DEF Submit, Goto, faultVars
<1>2. ~blind[c]
  BY <1>1 DEF Ordered, Placed
<1>3. View[c] = "idle"
  BY <1>1 DEF View, Writing
<1>4. View' = [View EXCEPT ![c] = "waiting"]
  BY <1>1, <1>2 DEF View, Writing, Ordered, TypeOK
<1>5. QED
  BY <1>1, <1>3, <1>4 DEF Abstract!Submit, View

LEMMA ReadFailsMaps ==
  ASSUME Ordered, NEW c \in Calls, ReadFails(c)
  PROVE  Abstract!Forget(c)
<1> USE DEF Started, Writing
<1>1. /\ pc[c] = "begun" /\ pc' = [pc EXCEPT ![c] = "write"]
      /\ blind' = [blind EXCEPT ![c] = TRUE]
      /\ readFaults < MaxReadFaults /\ readFaults' = readFaults + 1
      /\ UNCHANGED <<now, file, queue, request>>
  BY DEF ReadFails, Goto
<1>2. ~blind[c] /\ queue # <<>> /\ queue[1] = c
  BY <1>1 DEF Ordered, Placed, Serial
<1>3. View[c] = "waiting"
  BY <1>1, <1>2 DEF View
<1>4. View' = [View EXCEPT ![c] = "forgetful"]
  <2>1. \A d \in Calls : d # c => pc'[d] = pc[d] /\ blind'[d] = blind[d]
    BY <1>1 DEF Ordered, TypeOK
  <2>2. pc'[c] = "write" /\ blind'[c]
    BY <1>1 DEF Ordered, TypeOK
  <2>3. QED
    BY <2>1, <2>2 DEF View
<1>5. Abstract!Oldest(c)
  BY <1>2 DEF Abstract!Oldest, Ordered, TypeOK
<1>6. QED
  BY <1>1, <1>3, <1>4, <1>5 DEF Abstract!Forget, View

LEMMA RenameMaps ==
  ASSUME Ordered, Current, NEW c \in Calls, Rename(c)
  PROVE  Abstract!Commit(c)
<1> USE DEF Started, Writing
<1>1. /\ pc[c] = "rename" /\ pc' = [pc EXCEPT ![c] = "settle"]
      /\ queue # <<>> /\ queue[1] = c
      /\ UNCHANGED <<now, queue, request, blind, readFaults>>
  BY RenameFacts
<1>2. PICK t \in request[c].since .. now : file' = Work(Base(c), request[c].call, t)
  BY RenameFacts
<1>3. View[c] = IF blind[c] THEN "forgetful" ELSE "waiting"
  BY <1>1 DEF View
<1>4. View' = [View EXCEPT ![c] = "effective"]
  BY <1>1 DEF View, Ordered, TypeOK
<1>5. Base(c) = IF View[c] = "forgetful" THEN Abstract!EmptyState ELSE file
  BY <1>3, SameWork DEF Base
<1>6. file' = Abstract!Work(IF View[c] = "forgetful" THEN Abstract!EmptyState ELSE file,
                            request[c].call, t)
  BY <1>2, <1>5, SameWork
<1>7. Abstract!Oldest(c)
  BY <1>1 DEF Abstract!Oldest, Ordered, TypeOK
<1>8. View[c] \in {"waiting", "forgetful"}
  BY <1>3
<1>9. QED
  BY <1>1, <1>4, <1>6, <1>7, <1>8 DEF Abstract!Commit, View

LEMMA AnswerMaps ==
  ASSUME Ordered, NEW c \in Calls, Settle(c) \/ WriteFails(c)
  PROVE  Abstract!Answer(c)
<1> USE DEF Started, Writing
<1>1. /\ pc[c] \in Started /\ queue' = Tail(queue) /\ blind' = blind
      /\ UNCHANGED <<now, file, request, readFaults>>
  BY DEF Settle, WriteFails, Dequeue, DequeueRejected, callVars, faultVars
<1>2. Abstract!Oldest(c)
  BY <1>1 DEF Abstract!Oldest, Ordered, TypeOK, Serial
<1>3. CASE Settle(c)
  <2>1. pc[c] = "settle" /\ pc' = [pc EXCEPT ![c] = "done"]
    BY <1>3 DEF Settle, Goto
  <2>2. View[c] = "effective"
    BY <2>1 DEF View
  <2>3. View' = [View EXCEPT ![c] = "done"]
    BY <1>1, <2>1 DEF View, Ordered, TypeOK
  <2>4. QED
    BY <1>1, <1>2, <2>2, <2>3 DEF Abstract!Answer, View
<1>4. CASE WriteFails(c)
  <2>1. pc[c] \in Writing /\ pc' = [pc EXCEPT ![c] = "failed"]
    BY <1>4 DEF WriteFails, Goto
  <2>2. View[c] # "effective"
    BY <2>1 DEF View
  <2>3. View' = [View EXCEPT ![c] = "failed"]
    BY <1>1, <2>1 DEF View, Ordered, TypeOK
  <2>4. QED
    BY <1>1, <1>2, <2>2, <2>3 DEF Abstract!Answer, View
<1>5. QED
  BY <1>3, <1>4

LEMMA CrashMaps ==
  ASSUME Ordered, Crash
  PROVE  Abstract!Crash
<1> USE DEF Started, Writing
<1>1. /\ pc' = [c \in Calls |-> IF pc[c] \in {"queued"} \cup Started THEN "lost" ELSE pc[c]]
      /\ queue' = <<>> /\ UNCHANGED <<now, file, request, blind, readFaults>>
  BY DEF Crash, callVars
<1>2. \A c \in Calls :
        View[c] \in {"waiting", "forgetful", "effective"} <=> pc[c] \in {"queued"} \cup Started
  BY DEF View, Ordered, TypeOK, Settled
<1>3. \A c \in Calls : pc[c] \notin {"queued"} \cup Started => View[c] = pc[c]
  BY DEF View
<1>4. View' = [c \in Calls |-> IF View[c] \in {"waiting", "forgetful", "effective"}
                               THEN "lost" ELSE View[c]]
  BY <1>1, <1>2, <1>3 DEF View
<1>5. QED
  BY <1>1, <1>4 DEF Abstract!Crash, Abstract!Unanswered, View

\* The promise queue and the temporary file give every caller what the atomic
\* store promises: calls take effect one at a time, in order, each at one instant
\* between its submission and its answer, whatever fails and whenever the
\* process dies (the five operations and enqueue, lines 54-105).
THEOREM AtomicStore == Spec => ImplementsAtomicStore
<1>1. Init => Abstract!Init
  BY SameWork DEF Init, Abstract!Init, Writing
<1>2. ASSUME Ordered, Current, [Next]_vars PROVE [Abstract!Next]_(Abstract!vars)
  <2>1. ASSUME View' = View, UNCHANGED <<now, file, queue, request, readFaults>>
        PROVE  UNCHANGED Abstract!vars
    BY <2>1 DEF Abstract!vars, View
  <2>2. ASSUME NEW c \in Calls, Begin(c) \/ Read(c) \/ Open(c) \/ Fill(c)
        PROVE  UNCHANGED Abstract!vars
    BY <1>2, <2>1, <2>2, HiddenStep
  <2>3. ASSUME NEW c \in Calls, Submit(c) PROVE Abstract!Next
    BY <1>2, <2>3, SubmitMaps DEF Abstract!Next
  <2>4. ASSUME NEW c \in Calls, ReadFails(c) PROVE Abstract!Next
    BY <1>2, <2>4, ReadFailsMaps DEF Abstract!Next
  <2>5. ASSUME NEW c \in Calls, Rename(c) PROVE Abstract!Next
    BY <1>2, <2>5, RenameMaps DEF Abstract!Next
  <2>6. ASSUME NEW c \in Calls, Settle(c) \/ WriteFails(c) PROVE Abstract!Next
    BY <1>2, <2>6, AnswerMaps DEF Abstract!Next
  <2>7. CASE Crash
    BY <1>2, <2>7, CrashMaps DEF Abstract!Next
  <2>8. CASE Tick
    <3>1. View' = View
      BY <2>8 DEF Tick, callVars, View
    <3>2. Abstract!Tick
      BY <2>8, <3>1 DEF Tick, callVars, faultVars, Abstract!Tick, View
    <3>3. QED
      BY <3>2 DEF Abstract!Next
  <2>9. CASE UNCHANGED vars
    BY <2>1, <2>9 DEF vars, View
  <2>10. QED
    BY <1>2, <2>2, <2>3, <2>4, <2>5, <2>6, <2>7, <2>8, <2>9 DEF Next, Step
<1>3. QED
  BY <1>1, <1>2, CurrentAlways, PTL DEF Spec, ImplementsAtomicStore, Abstract!Spec
-----------------------------------------------------------------------------
(* Progress: a call at the head of the queue is answered, and every call comes *)
(* there.  That a step whose guard holds can be taken is what ENABLED says, of  *)
(* which the provers know nothing: ReadyCalls is a hypothesis.                   *)

\* Where a call is that the queue lets go on.
Ready(c) == (Turn(c) /\ pc[c] = "queued") \/ pc[c] \in Started

\* Whoever is ready has a step: the guards of Begin to Settle.
ReadyCalls == \A c \in Calls : Ready(c) => ENABLED <<Step(c)>>_vars

\* From one place of a call to the next.
Path == {<<"queued", "begun">>, <<"begun", "write">>, <<"write", "fill">>,
         <<"fill", "rename">>, <<"rename", "settle">>}

Moves(c) == <<pc[c], pc'[c]>> \in Path \/ pc'[c] \in Settled

LEMMA HeadFacts ==
  ASSUME NEW s \in Seq(Calls), s # <<>>
  PROVE  Head(s) = s[1] /\ 1 \in 1 .. Len(s)
OBVIOUS

\* A ready call stays where it is until its own next step, unless the process dies.
LEMMA ReadyGoesOn ==
  ASSUME Ordered, [Next]_vars, NEW c \in Calls, Ready(c)
  PROVE  /\ Ready(c)' \/ pc'[c] \in Settled
         /\ pc'[c] = pc[c] \/ Moves(c)
         /\ Step(c) => Moves(c)
<1> USE DEF Started, Writing, Settled, Goto
<1>1. queue \in Seq(Calls) /\ pc \in [Calls -> {"idle", "queued"} \cup Started \cup Settled]
  BY DEF Ordered, TypeOK
<1>2. /\ queue # <<>> /\ queue[1] = c /\ \A d \in Calls : pc[d] \in Started => d = c
      /\ pc[c] \in {"queued"} \cup Started
  BY <1>1 DEF Ordered, Serial, Turn, Ready
<1>3. ASSUME NEW d \in Calls, Submit(d)
      PROVE  pc'[c] = pc[c] /\ queue' # <<>> /\ queue'[1] = c
  <2>1. pc[d] = "idle" /\ pc' = [pc EXCEPT ![d] = "queued"] /\ queue' = Append(queue, d)
    BY <1>3 DEF Submit
  <2>2. Len(queue) > 0
    BY <1>1, <1>2, AppendFacts
  <2>3. QED
    BY <1>1, <1>2, <2>1, <2>2, AppendFacts
<1>4. ASSUME NEW d \in Calls, Step(d) PROVE d = c
  BY <1>1, <1>2, <1>4 DEF Step, Begin, Read, ReadFails, Open, Fill, Rename, Settle, WriteFails, Turn
<1>5. ASSUME Step(c) PROVE Moves(c)
  BY <1>1, <1>5
     DEF Step, Begin, Read, ReadFails, Open, Fill, Rename, Settle, WriteFails, Moves, Path
<1>6. Moves(c) => Ready(c)' \/ pc'[c] \in Settled
  BY DEF Moves, Path, Ready
<1>7. ASSUME Crash PROVE pc'[c] \in Settled
  BY <1>1, <1>2, <1>7 DEF Crash
<1>8. ASSUME Tick \/ UNCHANGED vars PROVE pc'[c] = pc[c] /\ queue' = queue
  BY <1>8 DEF Tick, vars, callVars, faultVars
<1>9. pc'[c] = pc[c] /\ queue' # <<>> /\ queue'[1] = c => Ready(c)'
  BY <1>2 DEF Ready, Turn
<1>10. ASSUME NEW d \in Calls, Submit(d) PROVE ~Step(c)
  <2>1. pc'[c] = pc[c] /\ pc[c] \in {"queued"} \cup Started
    BY <1>2, <1>3, <1>10
  <2>2. Step(c) => Moves(c)
    BY <1>5
  <2>3. QED
    BY <2>1, <2>2 DEF Moves, Path
<1>11. CASE Step(c)
  BY <1>5, <1>6, <1>11
<1>12. CASE ~Step(c)
  <2>1. \/ pc'[c] = pc[c] /\ queue' # <<>> /\ queue'[1] = c
        \/ pc'[c] \in Settled
    BY <1>2, <1>3, <1>4, <1>7, <1>8, <1>12 DEF Next
  <2>2. QED
    BY <1>9, <1>12, <2>1 DEF Moves
<1>13. QED
  BY <1>11, <1>12

Fair(c) == WF_vars(Step(c))

LEMMA EachIsFair == Fairness => \A c \in Calls : Fair(c)
BY PTL DEF Fairness, Fair

\* The oldest call is answered unless the process dies first: it passes one place after
\* the other, and nobody can take its turn (withLock, lines 54-63).
THEOREM OldestSettles ==
  ASSUME NEW c \in Calls
  PROVE  FairSpec /\ []ReadyCalls => (Turn(c) ~> pc[c] \in Settled)
<1> DEFINE At(place) == Ready(c) /\ pc[c] = place
           Over == pc[c] \in Settled
           Obliged == FairSpec /\ []ReadyCalls
<1>1. Fairness => Fair(c)
  BY EachIsFair
<1>2. ReadyCalls /\ Ready(c) => ENABLED <<Step(c)>>_vars
  BY DEF ReadyCalls
<1>3. /\ At("queued") => Ready(c)
      /\ At("begun") => Ready(c)
      /\ At("write") => Ready(c)
      /\ At("fill") => Ready(c)
      /\ At("rename") => Ready(c)
      /\ At("settle") => Ready(c)
  OBVIOUS
<1>4. ASSUME Ordered, [Next]_vars
      PROVE  /\ At("queued") => At("queued")' \/ At("begun")' \/ Over'
             /\ At("begun") => At("begun")' \/ At("write")' \/ Over'
             /\ At("write") => At("write")' \/ At("fill")' \/ Over'
             /\ At("fill") => At("fill")' \/ At("rename")' \/ Over'
             /\ At("rename") => At("rename")' \/ At("settle")' \/ Over'
             /\ At("settle") => At("settle")' \/ Over'
  BY <1>4, ReadyGoesOn DEF Moves, Path, Started, Writing, Settled
<1>5. ASSUME Ordered, [Next]_vars, Step(c)
      PROVE  /\ At("queued") => At("begun")' \/ Over'
             /\ At("begun") => At("write")' \/ Over'
             /\ At("write") => At("fill")' \/ Over'
             /\ At("fill") => At("rename")' \/ Over'
             /\ At("rename") => At("settle")' \/ Over'
             /\ At("settle") => Over'
  BY <1>5, ReadyGoesOn DEF Moves, Path, Started, Writing, Settled
<1> HIDE DEF At, Over
<1>6. Obliged => (At("queued") ~> At("begun") \/ Over)
  BY <1>1, <1>2, <1>3, <1>4, <1>5, OrderedAlways, PTL DEF FairSpec, Spec, Fair
<1>7. Obliged => (At("begun") ~> At("write") \/ Over)
  BY <1>1, <1>2, <1>3, <1>4, <1>5, OrderedAlways, PTL DEF FairSpec, Spec, Fair
<1>8. Obliged => (At("write") ~> At("fill") \/ Over)
  BY <1>1, <1>2, <1>3, <1>4, <1>5, OrderedAlways, PTL DEF FairSpec, Spec, Fair
<1>9. Obliged => (At("fill") ~> At("rename") \/ Over)
  BY <1>1, <1>2, <1>3, <1>4, <1>5, OrderedAlways, PTL DEF FairSpec, Spec, Fair
<1>10. Obliged => (At("rename") ~> At("settle") \/ Over)
  BY <1>1, <1>2, <1>3, <1>4, <1>5, OrderedAlways, PTL DEF FairSpec, Spec, Fair
<1>11. Obliged => (At("settle") ~> Over)
  BY <1>1, <1>2, <1>3, <1>4, <1>5, OrderedAlways, PTL DEF FairSpec, Spec, Fair
<1>12. Ordered /\ Turn(c) =>
         At("queued") \/ At("begun") \/ At("write") \/ At("fill") \/ At("rename") \/ At("settle")
  BY HeadFacts DEF At, Ready, Ordered, TypeOK, Serial, Turn, Started, Writing
<1>13. QED
  BY <1>6, <1>7, <1>8, <1>9, <1>10, <1>11, <1>12, OrderedAlways, PTL
     DEF FairSpec, Spec, Over

\* Whoever waits stands in line.
Enlisted == \A c \in Calls : pc[c] = "queued" => \E i \in 1 .. Len(queue) : queue[i] = c

Before(d, c) == \E i, j \in 1 .. Len(queue) : i < j /\ queue[i] = d /\ queue[j] = c

\* Nobody comes to stand before a call that waits.
NobodyOvertakes ==
  [][\A c, d \in Calls : pc[c] # "idle" /\ Before(d, c)' => Before(d, c)]_vars

\* What a step does to the queue.
LEMMA QueueSteps ==
  ASSUME Ordered, [Next]_vars
  PROVE  \/ \E c \in Calls : /\ pc[c] = "idle" /\ pc' = [pc EXCEPT ![c] = "queued"]
                             /\ queue' = Append(queue, c)
         \/ \E c \in Calls : /\ queue # <<>> /\ queue[1] = c /\ queue' = Tail(queue)
                             /\ \E label \in Settled : pc' = [pc EXCEPT ![c] = label]
         \/ /\ queue' = queue
            /\ pc' = pc \/ \E c \in Calls, label \in Started : pc' = [pc EXCEPT ![c] = label]
         \/ queue' = <<>> /\ \A c \in Calls : pc'[c] # "queued"
<1> USE DEF Goto
<1>1. pc \in [Calls -> {"idle", "queued"} \cup Started \cup Settled]
  BY DEF Ordered, TypeOK
<1>2. \A c \in Calls : pc[c] \in Started => queue # <<>> /\ queue[1] = c
  BY DEF Ordered, Serial
<1>3. ASSUME NEW c \in Calls, Submit(c)
      PROVE  /\ pc[c] = "idle" /\ pc' = [pc EXCEPT ![c] = "queued"]
             /\ queue' = Append(queue, c)
  BY <1>3 DEF Submit
<1>4. ASSUME NEW c \in Calls, Settle(c) \/ WriteFails(c)
      PROVE  /\ queue # <<>> /\ queue[1] = c /\ queue' = Tail(queue)
             /\ \E label \in Settled : pc' = [pc EXCEPT ![c] = label]
  BY <1>2, <1>4 DEF Settle, WriteFails, Dequeue, DequeueRejected, Started, Writing, Settled
<1>5. ASSUME NEW c \in Calls,
             Begin(c) \/ Read(c) \/ ReadFails(c) \/ Open(c) \/ Fill(c) \/ Rename(c)
      PROVE  queue' = queue /\ \E label \in Started : pc' = [pc EXCEPT ![c] = label]
  BY <1>5 DEF Begin, Read, ReadFails, Open, Fill, Rename, Started, Writing
<1>6. ASSUME Crash PROVE queue' = <<>> /\ \A c \in Calls : pc'[c] # "queued"
  BY <1>1, <1>6 DEF Crash
<1>7. ASSUME Tick \/ UNCHANGED vars PROVE queue' = queue /\ pc' = pc
  BY <1>7 DEF Tick, vars
<1>8. QED
  BY <1>3, <1>4, <1>5, <1>6, <1>7 DEF Next, Step

LEMMA LineStep ==
  ASSUME Ordered, Enlisted, [Next]_vars
  PROVE  /\ Enlisted'
         /\ \A c, d \in Calls : pc[c] # "idle" /\ Before(d, c)' => Before(d, c)
<1>1. queue \in Seq(Calls) /\ pc \in [Calls -> {"idle", "queued"} \cup Started \cup Settled]
  BY DEF Ordered, TypeOK
<1>2. ASSUME NEW e \in Calls, pc[e] = "idle", pc' = [pc EXCEPT ![e] = "queued"],
             queue' = Append(queue, e)
      PROVE  /\ Enlisted'
             /\ \A c, d \in Calls : pc[c] # "idle" /\ Before(d, c)' => Before(d, c)
  <2>1. /\ queue' \in Seq(Calls) /\ Len(queue') = Len(queue) + 1 /\ Len(queue) \in Nat
        /\ \A i \in 1 .. Len(queue) : queue'[i] = queue[i]
        /\ queue'[Len(queue) + 1] = e
    BY <1>1, <1>2, AppendFacts
  <2>2. Enlisted'
    <3> SUFFICES ASSUME NEW c \in Calls, pc'[c] = "queued"
                 PROVE  \E i \in 1 .. Len(queue') : queue'[i] = c
      BY DEF Enlisted
    <3>1. CASE c = e
      BY <2>1, <3>1
    <3>2. CASE c # e
      <4>1. PICK i \in 1 .. Len(queue) : queue[i] = c
        BY <1>1, <1>2, <3>2 DEF Enlisted
      <4>2. QED
        BY <2>1, <4>1
    <3>3. QED
      BY <3>1, <3>2
  <2>3. ASSUME NEW c \in Calls, NEW d \in Calls, pc[c] # "idle", Before(d, c)'
        PROVE  Before(d, c)
    <3>1. PICK i, j \in 1 .. Len(queue') : i < j /\ queue'[i] = d /\ queue'[j] = c
      BY <2>3 DEF Before
    <3>2. i \in 1 .. Len(queue) /\ j \in 1 .. Len(queue)
      BY <1>2, <2>1, <2>3, <3>1
    <3>3. QED
      BY <2>1, <3>1, <3>2 DEF Before
  <2>4. QED
    BY <2>2, <2>3
<1>3. ASSUME NEW e \in Calls, queue # <<>>, queue[1] = e, queue' = Tail(queue),
             NEW label \in Settled, pc' = [pc EXCEPT ![e] = label]
      PROVE  /\ Enlisted'
             /\ \A c, d \in Calls : pc[c] # "idle" /\ Before(d, c)' => Before(d, c)
  <2>1. /\ Len(queue) \in Nat /\ Len(queue) > 0 /\ Len(queue') = Len(queue) - 1
        /\ \A i \in 1 .. Len(queue') : i + 1 \in 1 .. Len(queue) /\ queue'[i] = queue[i + 1]
    BY <1>1, <1>3, TailFacts
  <2>2. Enlisted'
    <3> SUFFICES ASSUME NEW c \in Calls, pc'[c] = "queued"
                 PROVE  \E i \in 1 .. Len(queue') : queue'[i] = c
      BY DEF Enlisted
    <3>1. c # e /\ pc[c] = "queued"
      BY <1>1, <1>3 DEF Settled
    <3>2. PICK i \in 1 .. Len(queue) : queue[i] = c
      BY <3>1 DEF Enlisted
    <3>3. i # 1
      BY <1>3, <3>1, <3>2
    <3>4. i - 1 \in 1 .. Len(queue') /\ queue'[i - 1] = c
      <4>1. i - 1 \in 1 .. Len(queue')
        BY <2>1, <3>2, <3>3
      <4>2. queue'[i - 1] = queue[(i - 1) + 1]
        BY <2>1, <4>1
      <4>3. QED
        BY <3>2, <4>1, <4>2
    <3>5. QED
      BY <3>4
  <2>3. ASSUME NEW c \in Calls, NEW d \in Calls, pc[c] # "idle", Before(d, c)'
        PROVE  Before(d, c)
    <3>1. PICK i, j \in 1 .. Len(queue') : i < j /\ queue'[i] = d /\ queue'[j] = c
      BY <2>3 DEF Before
    <3>2. /\ i + 1 \in 1 .. Len(queue) /\ queue[i + 1] = d
          /\ j + 1 \in 1 .. Len(queue) /\ queue[j + 1] = c
      BY <2>1, <3>1
    <3>3. i + 1 < j + 1
      BY <3>1
    <3>4. QED
      BY <3>2, <3>3 DEF Before
  <2>4. QED
    BY <2>2, <2>3
<1>4. ASSUME queue' = queue,
             pc' = pc \/ \E c \in Calls, label \in Started : pc' = [pc EXCEPT ![c] = label]
      PROVE  /\ Enlisted'
             /\ \A c, d \in Calls : pc[c] # "idle" /\ Before(d, c)' => Before(d, c)
  <2>1. \A c \in Calls : pc'[c] = "queued" => pc[c] = "queued"
    BY <1>1, <1>4 DEF Started, Writing
  <2>2. QED
    BY <1>4, <2>1 DEF Enlisted, Before
<1>5. ASSUME queue' = <<>>, \A c \in Calls : pc'[c] # "queued"
      PROVE  /\ Enlisted'
             /\ \A c, d \in Calls : pc[c] # "idle" /\ Before(d, c)' => Before(d, c)
  BY <1>5 DEF Enlisted, Before
<1>6. QED
  BY <1>2, <1>3, <1>4, <1>5, QueueSteps

\* Whoever waits stands in line, and keeps its place there: with OldestSettles, every call
\* comes to its turn (EveryCallSettles), by an induction on who stands before it.
THEOREM LineIsKept == Spec => []Enlisted /\ NobodyOvertakes
<1>1. Init => Enlisted
  BY DEF Init, Enlisted
<1>2. Ordered /\ Enlisted /\ [Next]_vars => Enlisted'
  BY LineStep
<1>3. ASSUME Ordered, Enlisted, [Next]_vars
      PROVE  [\A c, d \in Calls : pc[c] # "idle" /\ Before(d, c)' => Before(d, c)]_vars
  BY <1>3, LineStep
<1>4. QED
  BY <1>1, <1>2, <1>3, OrderedAlways, PTL DEF Spec, NobodyOvertakes
-----------------------------------------------------------------------------
(* What calls do to each other. *)

\* A call that only prunes leaves no trace in what later calls write: the models that treat
\* get as a read of the state lose nothing by it.
THEOREM QuietCalls ==
  ASSUME NEW s \in States, NEW quiet \in Requests, NEW r \in Requests,
         quiet.op \in {"get", "cleanup"},
         NEW earlier \in Nat, NEW later \in Nat, earlier <= later
  PROVE  Work(Work(s, quiet, earlier), r, later) = Work(s, r, later)
<1>1. Work(s, quiet, earlier) = PruneExpired(s, earlier)
  BY DEF Work
<1>2. ASSUME NEW k \in Keys
      PROVE  PruneExpired(PruneExpired(s, earlier), later)[k] = PruneExpired(s, later)[k]
  <2>1. s[k] # NULL => s[k].expires \in Nat
    BY DEF States
  <2>2. QED
    BY <2>1 DEF PruneExpired
<1>3. PruneExpired(PruneExpired(s, earlier), later) = PruneExpired(s, later)
  <2> DEFINE once == PruneExpired(s, later)
             twice == PruneExpired(PruneExpired(s, earlier), later)
  <2>1. once = [k \in Keys |-> once[k]] /\ twice = [k \in Keys |-> twice[k]]
    BY DEF PruneExpired
  <2>2. \A k \in Keys : twice[k] = once[k]
    BY <1>2
  <2> HIDE DEF once, twice
  <2>3. once = twice
    BY <2>1, <2>2
  <2>4. QED
    BY <2>3 DEF once, twice
<1>4. QED
  BY <1>1, <1>3 DEF Work

\* Why a field of session k may get another value: its caller wrote it, or invalidated it.
Asked(r, k, f) ==
  /\ r.key = k
  /\ \/ r.op \in {"set", "invalidate"} /\ f \in DOMAIN r.patch
     \/ r.op = "invalidate" /\ f \in PendingFields \cup {"current_project_id"}

\* A field of a stored session changes only by a call that names the session and writes
\* that very field, by expiry, or by a call that could not read the file: callers that
\* write different fields of one session, each without knowing of the other, all keep
\* their updates, in whatever order their calls meet in the queue.
UpdatesMeet ==
  [][\A k \in Keys, f \in Fields :
       /\ file[k] # NULL /\ file'[k] # NULL
       /\ file'[k].session[f] # file[k].session[f]
       => \/ file[k].expires < now
          \/ \E c \in Calls :
               /\ pc[c] = "rename" /\ pc'[c] = "settle"
               /\ blind[c] \/ Asked(request[c].call, k, f)]_vars

\* What a call does to a field of a session that has not expired.
LEMMA FieldFacts ==
  ASSUME NEW s \in States, NEW r \in Requests, NEW t \in Nat, NEW k \in Keys, NEW f \in Fields,
         s[k] # NULL, ~(s[k].expires < t), Work(s, r, t)[k] # NULL, ~Asked(r, k, f)
  PROVE  Work(s, r, t)[k].session[f] = s[k].session[f]
<1> DEFINE live == PruneExpired(s, t)
           old == s[k].session
<1>1. live = [x \in Keys |-> live[x]] /\ live[k] = s[k]
  BY DEF PruneExpired
<1>2. r.op \in Ops /\ r.key \in Keys
  BY RequestsAssumption
<1>3. old \in Sessions /\ old # NULL /\ SessionOf(s[k]) = old
  <2>1. s[k] \in [session : Sessions, expires : Nat]
    BY DEF States
  <2>2. s[k].session \in Sessions
    BY <2>1
  <2>3. QED
    BY <2>2, NullAssumption DEF SessionOf
<1> HIDE DEF live
<1>4. CASE r.key # k
  BY <1>1, <1>2, <1>4 DEF Work, live
<1>5. CASE r.key = k /\ r.op \in {"get", "cleanup"}
  BY <1>1, <1>5 DEF Work, live
<1>6. CASE r.key = k /\ r.op = "clear"
  BY <1>1, <1>6 DEF Work, live
<1>7. CASE r.key = k /\ r.op = "set"
  <2>1. Work(s, r, t)[k].session = SetPatch(old, r.patch)
    BY <1>1, <1>3, <1>7 DEF Work, live, Entry
  <2>2. SetPatch(old, r.patch)[f] = old[f]
    BY <1>3, <1>7 DEF Asked, SetPatch, Overrides, Existing
  <2>3. QED
    BY <2>1, <2>2
<1>8. CASE r.key = k /\ r.op = "invalidate"
  <2>1. Work(s, r, t)[k].session = InvalidatePatch(old, r.patch)
    BY <1>1, <1>3, <1>8 DEF Work, live, Entry
  <2>2. InvalidatePatch(old, r.patch)[f] = old[f]
    BY <1>3, <1>8 DEF Asked, InvalidatePatch, Overrides, Existing
  <2>3. QED
    BY <2>1, <2>2
<1>9. QED
  BY <1>2, <1>4, <1>5, <1>6, <1>7, <1>8 DEF Ops

\* No update of a field is lost to a call that writes another field.
THEOREM UpdatesKept == Spec => UpdatesMeet
<1> DEFINE Meets(k, f) ==
      /\ file[k] # NULL /\ file'[k] # NULL
      /\ file'[k].session[f] # file[k].session[f]
      => \/ file[k].expires < now
         \/ \E c \in Calls :
              /\ pc[c] = "rename" /\ pc'[c] = "settle"
              /\ blind[c] \/ Asked(request[c].call, k, f)
<1>1. ASSUME Ordered, Current, [Next]_vars, NEW k \in Keys, NEW f \in Fields PROVE Meets(k, f)
  <2>1. CASE ~\E c \in Calls : Rename(c)
    BY <1>1, <2>1, OnlyRename
  <2>2. ASSUME NEW c \in Calls, Rename(c) PROVE Meets(k, f)
    <3>1. /\ pc[c] = "rename" /\ pc'[c] = "settle"
          /\ request[c] \in [call : Requests, since : Nat]
      BY <1>1, <2>2, RenameFacts
    <3>2. PICK t \in request[c].since .. now : file' = Work(Base(c), request[c].call, t)
      BY <1>1, <2>2, RenameFacts
    <3>3. now \in Nat /\ file \in States
      BY <1>1 DEF Ordered, TypeOK
    <3>4. t \in Nat /\ t <= now
      BY <3>1, <3>3
    <3>5. SUFFICES ASSUME file[k] # NULL, file'[k] # NULL, ~(file[k].expires < now),
                          ~blind[c], ~Asked(request[c].call, k, f)
                   PROVE  file'[k].session[f] = file[k].session[f]
      BY <3>1
    <3>6. file' = Work(file, request[c].call, t)
      BY <3>2, <3>5 DEF Base
    <3>7. file[k].expires \in Nat
      BY <3>3, <3>5 DEF States
    <3>8. ~(file[k].expires < t)
      BY <3>3, <3>4, <3>5, <3>7
    <3>9. QED
      BY <3>1, <3>3, <3>4, <3>5, <3>6, <3>8, FieldFacts
  <2>3. QED
    BY <2>1, <2>2
<1>2. (Ordered /\ Current) /\ [Next]_vars => [\A k \in Keys, f \in Fields : Meets(k, f)]_vars
  BY <1>1
<1>3. QED
  BY <1>2, CurrentAlways, PTL DEF Spec, UpdatesMeet
=============================================================================
