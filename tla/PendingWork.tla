----------------------------- MODULE PendingWork -----------------------------
(***************************************************************************)
(* What the handlers of SemanticExecution promise of the work they hand    *)
(* out.  Each session has one slot.  A piece of work that is accepted for  *)
(* a session is put into its slot at once or never: it leaves the slot     *)
(* when other work takes its place, when the session is forgotten or when  *)
(* an answer closes it, and never comes back.                              *)
(*                                                                         *)
(* An answer is matched with the work it finds in a slot.  It is recorded  *)
(* before it closes anything, and closes once.  What it closes is the slot *)
(* of the work it was matched with, whatever is in there by then.          *)
(***************************************************************************)
CONSTANTS
  NULL,
  Sessions,   \* those who do the work
  Works,      \* identities of pieces of work
  Answers     \* identities of answers

VARIABLES
  slot,      \* the work each session holds
  target,    \* the session each piece of work was accepted for
  stage,     \* the life of each piece of work
  match,     \* the work each answer was matched with
  recorded,  \* answers that are on record
  over       \* whether and how each answer ended

vars == <<slot, target, stage, match, recorded, over>>

Init ==
  /\ slot = [s \in Sessions |-> NULL]
  /\ target = [w \in Works |-> NULL]
  /\ stage = [w \in Works |-> "new"]
  /\ match = [a \in Answers |-> NULL]
  /\ recorded = {}
  /\ over = [a \in Answers |-> "open"]

\* The work that is in a slot leaves it for good, and other work, or none, takes its
\* place.
Replace(s, next) ==
  /\ slot' = [slot EXCEPT ![s] = next]
  /\ stage' = [w \in Works |-> IF w = next THEN "pending"
                               ELSE IF w = slot[s] THEN "gone" ELSE stage[w]]

Accept(w, s) ==
  /\ stage[w] = "new"
  /\ target' = [target EXCEPT ![w] = s]
  /\ Replace(s, w)
  /\ UNCHANGED <<match, recorded, over>>

\* The work is accepted and does not get into the slot.
Drop(w, s) ==
  /\ stage[w] = "new"
  /\ target' = [target EXCEPT ![w] = s]
  /\ stage' = [stage EXCEPT ![w] = "gone"]
  /\ UNCHANGED <<slot, match, recorded, over>>

Forget(s) ==
  /\ Replace(s, NULL)
  /\ UNCHANGED <<target, match, recorded, over>>

Match(a, s) ==
  /\ match[a] = NULL
  /\ slot[s] # NULL
  /\ match' = [match EXCEPT ![a] = slot[s]]
  /\ UNCHANGED <<slot, target, stage, recorded, over>>

Underway(a) == match[a] # NULL /\ over[a] = "open"

Record(a) ==
  /\ Underway(a)
  /\ recorded' = recorded \cup {a}
  /\ UNCHANGED <<slot, target, stage, match, over>>

Close(a) ==
  /\ Underway(a)
  /\ a \in recorded
  /\ Replace(target[match[a]], NULL)
  /\ over' = [over EXCEPT ![a] = "closed"]
  /\ UNCHANGED <<target, match, recorded>>

\* An answer comes to nothing, recorded or not.
GiveUp(a) ==
  /\ Underway(a)
  /\ over' = [over EXCEPT ![a] = "lost"]
  /\ UNCHANGED <<slot, target, stage, match, recorded>>

\* The process dies: what is in a slot stays there.
Crash ==
  /\ over' = [a \in Answers |-> IF Underway(a) THEN "lost" ELSE over[a]]
  /\ UNCHANGED <<slot, target, stage, match, recorded>>

Next ==
  \/ \E w \in Works, s \in Sessions : Accept(w, s) \/ Drop(w, s)
  \/ \E s \in Sessions : Forget(s)
  \/ \E a \in Answers : Record(a) \/ Close(a) \/ GiveUp(a) \/ \E s \in Sessions : Match(a, s)
  \/ Crash

Spec == Init /\ [][Next]_vars
=============================================================================
