----------------------------- MODULE StoreCalls -----------------------------
(***************************************************************************)
(* What one call of the session project store does to the state it read:   *)
(* the bodies of get, set, clear, invalidate and cleanup                   *)
(* (core/src/state/session-project-store.ts), without the queue and the    *)
(* file that SessionProjectStore puts around them.                         *)
(*                                                                         *)
(* A state is a function from session keys to entries; an absent key is    *)
(* NULL.  An entry is a session with the time it expires at.               *)
(***************************************************************************)
EXTENDS SessionState

CONSTANTS Keys,       \* session keys
          Values,     \* what a field of a session holds
          Requests,   \* the calls callers make
          Ttl         \* ttlMs

Ops == {"get", "set", "clear", "invalidate", "cleanup"}

ASSUME TtlAssumption == Ttl \in Nat

ASSUME ValuesAssumption == {NULL, "manual", "route"} \subseteq Values

ASSUME RequestsAssumption ==
  \A r \in Requests :
    /\ r.op \in Ops /\ r.key \in Keys
    /\ DOMAIN r.patch \subseteq Fields
    /\ \A f \in DOMAIN r.patch : r.patch[f] \in Values

Sessions == [Fields -> Values]

\* What NULL is not is left to the instances: neither a session nor an entry is NULL.
ASSUME NullAssumption ==
  NULL \notin Sessions /\ NULL \notin [session : Sessions, expires : Nat]

States == [Keys -> [session : Sessions, expires : Nat] \cup {NULL}]

EmptyState == [k \in Keys |-> NULL]

SessionOf(entry) == IF entry = NULL THEN NULL ELSE entry.session

PruneExpired(state, current) ==
  [k \in Keys |-> IF state[k] # NULL /\ state[k].expires < current
                  THEN NULL ELSE state[k]]

Entry(session, current) == [session |-> session, expires |-> current + Ttl]

\* The state a call writes back.  Every call prunes, get and cleanup included.
Work(state, request, current) ==
  LET live == PruneExpired(state, current)
      key == request.key
      old == SessionOf(live[key])
  IN IF request.op = "set"
     THEN [live EXCEPT ![key] = Entry(SetPatch(old, request.patch), current)]
     ELSE IF request.op = "invalidate"
     THEN [live EXCEPT ![key] = Entry(InvalidatePatch(old, request.patch), current)]
     ELSE IF request.op = "clear" THEN [live EXCEPT ![key] = NULL]
     ELSE live
=============================================================================
