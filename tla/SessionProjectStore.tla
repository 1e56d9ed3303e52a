------------------------ MODULE SessionProjectStore ------------------------
(***************************************************************************)
(* createSessionProjectStore (core/src/state/session-project-store.ts):    *)
(* one process, one promise queue, one JSON file replaced through a        *)
(* temporary file.                                                         *)
(*                                                                         *)
(* A call waits in the queue, and when every earlier call has settled it   *)
(* reads the clock, reads the file, computes the next state, creates and   *)
(* truncates the temporary file, fills it, renames it over the state file, *)
(* and settles; every await between two of these is a point where the      *)
(* process may die and where other calls may be submitted.                 *)
(***************************************************************************)
EXTENDS StoreCalls, Sequences

CONSTANTS Calls,           \* identities of calls
          TORN,            \* the content of a file that is being written
          MaxNow,          \* bound on the clock
          MaxReadFaults,   \* bound on reads of an existing file that fail
          MaxWriteFaults,  \* bound on mkdir, writeFile and rename that fail
          MaxCrashes       \* bound on crashes of the process

ASSUME BoundsAssumption ==
  /\ MaxNow \in Nat /\ MaxReadFaults \in Nat
  /\ MaxWriteFaults \in Nat /\ MaxCrashes \in Nat

ASSUME TornAssumption == TORN \notin States

VARIABLES now,          \* the clock
          file, tmp,    \* the state file and the temporary file
          queue,        \* calls that have not settled, oldest first
          request,      \* what each call asks for, and since when
          pc,           \* where each call is
          current,      \* the clock each call read
          state,        \* the state each call holds in memory
          blind,        \* whether the call failed to read the file
          readFaults, writeFaults, crashes

vars == <<now, file, tmp, queue, request, pc, current, state, blind,
          readFaults, writeFaults, crashes>>

callVars  == <<request, current, state, blind>>
faultVars == <<readFaults, writeFaults, crashes>>

Writing == {"write", "fill", "rename"}
Started == {"begun", "settle"} \cup Writing
Settled == {"done", "failed", "lost"}

Init ==
  /\ now = 0
  /\ file = EmptyState
  /\ tmp = EmptyState
  /\ queue = <<>>
  /\ request = [c \in Calls |-> NULL]
  /\ pc = [c \in Calls |-> "idle"]
  /\ current = [c \in Calls |-> 0]
  /\ state = [c \in Calls |-> EmptyState]
  /\ blind = [c \in Calls |-> FALSE]
  /\ readFaults = 0 /\ writeFaults = 0 /\ crashes = 0

Goto(c, label) == pc' = [pc EXCEPT ![c] = label]

(* The promise queue. *)

\* A caller calls get, set, clear, invalidate or cleanup.
Submit(c) ==
  /\ pc[c] = "idle"
  /\ \E r \in Requests :
       request' = [request EXCEPT ![c] = [call |-> r, since |-> now]]
  /\ Goto(c, "queued")
  /\ queue' = Append(queue, c)
  /\ UNCHANGED <<now, file, tmp, current, state, blind, faultVars>>

\* Mutant: the work starts at once.
AnyTurn(c) == queue # <<>>

\* queue.then(work, work): the work starts when its predecessor has settled.
Turn(c) == queue # <<>> /\ Head(queue) = c

Begin(c) ==
  /\ Turn(c)
  /\ pc[c] = "queued"
  /\ current' = [current EXCEPT ![c] = now]
  /\ Goto(c, "begun")
  /\ UNCHANGED <<now, file, tmp, queue, request, state, blind, faultVars>>

\* Mutant: a rejected call stays at the head of the queue.
StaysQueued == queue

\* queue = next.then(() => undefined, () => undefined): resolved or rejected,
\* the call makes room for the next one.
Dequeue == Tail(queue)
DequeueRejected == Tail(queue)

(* The body of a call. *)

\* A file that does not parse is an empty state.
ReadStateFile(content) == IF content = TORN THEN EmptyState ELSE content

\* cleanup reads the clock after the file, the others before it.
WorkTime(c) == IF request[c].call.op = "cleanup" THEN now ELSE current[c]

Read(c) ==
  /\ pc[c] = "begun"
  /\ state' = [state EXCEPT ![c] =
                 Work(ReadStateFile(file), request[c].call, WorkTime(c))]
  /\ Goto(c, "write")
  /\ UNCHANGED <<now, file, tmp, queue, request, current, blind, faultVars>>

\* readFile or JSON.parse throws although the file is there: catch returns
\* emptyState(), and the call goes on as if no session had ever been stored.
ReadFails(c) ==
  /\ pc[c] = "begun"
  /\ readFaults < MaxReadFaults
  /\ state' = [state EXCEPT ![c] = Work(EmptyState, request[c].call, WorkTime(c))]
  /\ blind' = [blind EXCEPT ![c] = TRUE]
  /\ readFaults' = readFaults + 1
  /\ Goto(c, "write")
  /\ UNCHANGED <<now, file, tmp, queue, request, current, writeFaults, crashes>>

\* Mutant: the state file itself is opened and truncated.
OpenInPlace(c) ==
  /\ pc[c] = "write"
  /\ file' = TORN
  /\ tmp' = TORN
  /\ Goto(c, "fill")
  /\ UNCHANGED <<now, queue, callVars, faultVars>>

\* writeFile opens the temporary file with O_TRUNC ...
Open(c) ==
  /\ pc[c] = "write"
  /\ tmp' = TORN
  /\ Goto(c, "fill")
  /\ UNCHANGED <<now, file, queue, callVars, faultVars>>

\* ... and fills it.
Fill(c) ==
  /\ pc[c] = "fill"
  /\ tmp' = state[c]
  /\ Goto(c, "rename")
  /\ UNCHANGED <<now, file, queue, callVars, faultVars>>

Rename(c) ==
  /\ pc[c] = "rename"
  /\ file' = tmp
  /\ Goto(c, "settle")
  /\ UNCHANGED <<now, tmp, queue, callVars, faultVars>>

Settle(c) ==
  /\ pc[c] = "settle"
  /\ queue' = Dequeue
  /\ Goto(c, "done")
  /\ UNCHANGED <<now, file, tmp, callVars, faultVars>>

\* mkdir, writeFile or rename throws: the caller sees a rejection.
WriteFails(c) ==
  /\ pc[c] \in Writing
  /\ writeFaults < MaxWriteFaults
  /\ writeFaults' = writeFaults + 1
  /\ queue' = DequeueRejected
  /\ Goto(c, "failed")
  /\ UNCHANGED <<now, file, tmp, callVars, readFaults, crashes>>

(* The environment. *)

\* The process dies and starts again: the queue is gone, the files stay.
Crash ==
  /\ crashes < MaxCrashes
  /\ crashes' = crashes + 1
  /\ pc' = [c \in Calls |-> IF pc[c] \in {"queued"} \cup Started
                            THEN "lost" ELSE pc[c]]
  /\ queue' = <<>>
  /\ UNCHANGED <<now, file, tmp, callVars, readFaults, writeFaults>>

Tick ==
  /\ now < MaxNow
  /\ now' = now + 1
  /\ UNCHANGED <<file, tmp, queue, pc, callVars, faultVars>>

Step(c) ==
  \/ Begin(c) \/ Read(c) \/ ReadFails(c)
  \/ Open(c) \/ Fill(c) \/ Rename(c) \/ Settle(c) \/ WriteFails(c)

Next ==
  \/ \E c \in Calls : Submit(c) \/ Step(c)
  \/ Crash
  \/ Tick

\* The event loop runs every continuation that is ready, and the file system
\* answers every operation, with a result or an error.
Fairness == \A c \in Calls : WF_vars(Step(c))

Spec == Init /\ [][Next]_vars
FairSpec == Spec /\ Fairness
-----------------------------------------------------------------------------
(* Properties. *)

TypeOK ==
  /\ now \in Nat
  /\ file \in States
  /\ tmp \in States \cup {TORN}
  /\ queue \in Seq(Calls)
  /\ request \in [Calls -> [call : Requests, since : Nat] \cup {NULL}]
  /\ pc \in [Calls -> {"idle", "queued"} \cup Started \cup Settled]
  /\ current \in [Calls -> Nat]
  /\ state \in [Calls -> States]
  /\ blind \in [Calls -> BOOLEAN]
  /\ readFaults \in Nat /\ writeFaults \in Nat /\ crashes \in Nat

\* All calls share one temporary path.  The call about to rename it finds what
\* it wrote itself, whatever other calls, failures and crashes came between,
\* so the bytes published are those of exactly one call (lines 65-73, 88-97).
TmpBelongsToWriter == \A c \in Calls : pc[c] = "rename" => tmp = state[c]

\* A stored session leaves the file only because it expired, because the call
\* that writes was asked to clear it, or because that call could not read the
\* file: no other call, no failed write and no crash in the middle of one
\* loses it.
SessionsLeaveOnlyByExpiryOrClear ==
  [][\A k \in Keys :
       ReadStateFile(file)[k] # NULL /\ ReadStateFile(file')[k] = NULL =>
         \/ file[k].expires < now
         \/ \E c \in Calls :
              /\ pc[c] = "rename" /\ pc'[c] = "settle"
              /\ \/ blind[c]
                 \/ request[c].call.op = "clear" /\ request[c].call.key = k]_vars

\* Every call submitted is answered, also behind calls that fail, unless the
\* process dies first (both arguments of queue.then and of next.then).
EveryCallSettles ==
  \A c \in Calls : pc[c] = "queued" ~> pc[c] \in Settled

\* The store implements AtomicSessionStore: a call takes effect at its rename.
Abstract == INSTANCE AtomicSessionStore WITH
  entries <- file,
  waiting <- queue,
  faults  <- readFaults,
  status  <- [c \in Calls |->
                IF pc[c] = "settle" THEN "effective"
                ELSE IF pc[c] \in {"queued", "begun"} \cup Writing
                THEN IF blind[c] THEN "forgetful" ELSE "waiting"
                ELSE pc[c]]

ImplementsAtomicStore == Abstract!Spec
=============================================================================
