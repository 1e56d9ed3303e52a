------------------------ MODULE MCSemanticExecution ------------------------
(* Instance of SemanticExecution for TLC: one main session that serves two  *)
(* projects, as the router configuration of the repository has it.          *)
EXTENDS SemanticExecution, TLC

CONSTANTS s1, p1, p2, t1, b1, m1, m2, a1, a2

MCSessions == {s1}
MCProjects == {p1, p2}
MCOneProject == {p1}
MCItems == {t1, b1}
MCOneItem == {t1}
MCMessages == {m1, m2}
MCTurns == {a1, a2}
MCKindOf == [i \in Items |-> IF i = b1 THEN "bug" ELSE "task"]
MCTargetOf == [p \in Projects |-> s1]
MCRouterDefault == [p \in Projects |-> IF p = p1 THEN "agent_can_finalize" ELSE NULL]
MCOneMessage == {m1}
MCOneTurn == {a1}
EveryAction == MessageActions
DispatchAndComplete == {"dispatch", "complete"}
Complete == {"complete"}
CompleteOrBlocked == {"complete", "blocked"}
Form(evidence, fixResult, operations) ==
  [summary |-> "claim", evidence |-> evidence, reason |-> NULL, fix_result |-> fixResult,
   operations |-> operations]
Lift(item, status) ==
  [source |-> "feishu_base", item |-> item, status |-> status, expect |-> NULL]
WholeForm == {[Form("plain", "Fixed", <<>>) EXCEPT !.summary = "plain", !.reason = "plain"]}
OperationForm == {Form("plain", NULL, <<Lift(t1, "Fixing"), Lift(t1, "Reviewing")>>)}
UnprovenForm == {Form(NULL, "Fixed", <<Lift(t1, "Done")>>)}
WholeOrUnprovenForm == WholeForm \cup UnprovenForm
FormsOfAnyWorth == WholeOrUnprovenForm \cup {Form("plain", NULL, <<Lift(t1, "Reviewing")>>)}
NamesNothing == {[project |-> NULL, records |-> {}]}
NamesAnything == NamesNothing \cup {[project |-> p1, records |-> {b1}]}
Inherit == {"inherit"}
InheritOrManual == {"inherit", "manual_acceptance"}

JobSymmetry == Permutations(MCMessages) \cup Permutations(MCTurns)
MessageSymmetry == Permutations(MCMessages)
=============================================================================
