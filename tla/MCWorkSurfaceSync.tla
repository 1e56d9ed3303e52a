-------------------------- MODULE MCWorkSurfaceSync --------------------------
(* Instance of WorkSurfaceSync for TLC: the catalogue is empty, or has one or *)
(* two rows of one project.                                                   *)
EXTENDS WorkSurfaceSync, TLC

CONSTANTS j1, j2, p1, p2, r1, r2, r3

MCJobs == {j1, j2}
MCProjects == {p1, p2}
MCIds == {r1, r2, r3}
MCTitles == {"old", "new"}

OldRow(p) == [project |-> p, title |-> "old", archived |-> FALSE, live |-> TRUE]
Nothing == [r \in MCIds |-> NULL]
One == { [Nothing EXCEPT ![r] = OldRow(p1)] : r \in MCIds }
Two == UNION { { [c EXCEPT ![r] = OldRow(p1)] : r \in {i \in MCIds : c[i] = NULL} } : c \in One }
MCCatalogs == {Nothing} \cup One \cup Two

\* Find chooses a row only where there is a single one, so records are alike.
Symmetry == Permutations(MCJobs) \cup Permutations(MCIds)
=============================================================================
