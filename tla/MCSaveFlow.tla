----------------------------- MODULE MCSaveFlow -----------------------------
(* Instance of SaveFlow for TLC: two projects, one main session with an     *)
(* alias.                                                                   *)
EXTENDS SaveFlow, TLC

CONSTANTS p1, p2, c1, c2, a1, a2, main, alias

MCProjects == {p1, p2}
MCCommands == {c1, c2}
MCTurns == {a1, a2}
MCKeys == {main, alias}
AllKinds == CommandKinds

Symmetry == Permutations(MCProjects) \cup Permutations(MCCommands)
              \cup Permutations(MCTurns)
=============================================================================
