------------------------- MODULE AtomicSessionStore -------------------------
(***************************************************************************)
(* What the session project store promises its callers: calls take effect  *)
(* one at a time, each at one instant between its submission and its       *)
(* answer, in the order they were submitted.  A call may fail without any  *)
(* effect.  A crash takes the calls that have no answer, each of which     *)
(* either took effect entirely or not at all, and nothing else; only a     *)
(* file that could not be read makes the store forget.                     *)
(***************************************************************************)
EXTENDS StoreCalls, Sequences

CONSTANTS Calls,          \* identities of calls
          MaxReadFaults   \* reads of the state file that may fail

VARIABLES now,       \* the clock
          entries,   \* the state of the store
          waiting,   \* calls without an answer, oldest first
          request,   \* what each call asks for, and since when
          status,    \* the caller's view of each call
          faults     \* reads that failed so far

vars == <<now, entries, waiting, request, status, faults>>

Unanswered == {"waiting", "forgetful", "effective"}

Init ==
  /\ now = 0
  /\ entries = EmptyState
  /\ waiting = <<>>
  /\ request = [c \in Calls |-> NULL]
  /\ status = [c \in Calls |-> "idle"]
  /\ faults = 0

Submit(c) ==
  /\ status[c] = "idle"
  /\ \E r \in Requests :
       request' = [request EXCEPT ![c] = [call |-> r, since |-> now]]
  /\ status' = [status EXCEPT ![c] = "waiting"]
  /\ waiting' = Append(waiting, c)
  /\ UNCHANGED <<now, entries, faults>>

Oldest(c) == waiting # <<>> /\ Head(waiting) = c

\* The state file could not be read for c, which works on an empty state.
Forget(c) ==
  /\ faults < MaxReadFaults
  /\ Oldest(c)
  /\ status[c] = "waiting"
  /\ status' = [status EXCEPT ![c] = "forgetful"]
  /\ faults' = faults + 1
  /\ UNCHANGED <<now, entries, waiting, request>>

Commit(c) ==
  /\ Oldest(c)
  /\ status[c] \in {"waiting", "forgetful"}
  /\ LET base == IF status[c] = "forgetful" THEN EmptyState ELSE entries
     IN \E t \in request[c].since .. now : entries' = Work(base, request[c].call, t)
  /\ status' = [status EXCEPT ![c] = "effective"]
  /\ UNCHANGED <<now, waiting, request, faults>>

Answer(c) ==
  /\ Oldest(c)
  /\ status' = [status EXCEPT ![c] = IF @ = "effective" THEN "done" ELSE "failed"]
  /\ waiting' = Tail(waiting)
  /\ UNCHANGED <<now, entries, request, faults>>

Crash ==
  /\ status' = [c \in Calls |-> IF status[c] \in Unanswered THEN "lost" ELSE status[c]]
  /\ waiting' = <<>>
  /\ UNCHANGED <<now, entries, request, faults>>

Tick == now' = now + 1 /\ UNCHANGED <<entries, waiting, request, status, faults>>

Next ==
  \/ \E c \in Calls : Submit(c) \/ Forget(c) \/ Commit(c) \/ Answer(c)
  \/ Crash
  \/ Tick

Spec == Init /\ [][Next]_vars
=============================================================================
