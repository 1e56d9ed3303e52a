-------------------------- MODULE MCIngressRouting --------------------------
(* Instance of IngressRouting for TLC: one main session, two registered     *)
(* projects and one that has left the registry.                             *)
EXTENDS IngressRouting, TLC

CONSTANTS m1, m2, main, p1, p2, gone, review, note, ping

MCMessages == {m1, m2}
MCSessions == {main}
MCRegistered == {p1, p2}
MCProjects == {p1, p2, gone}
MCActions == {review, note, ping}

Route(target, workflow, requires) ==
  [target_kind |-> target, workflow |-> workflow, requires_project |-> requires]

NoRoutes == [a \in MCActions |-> NULL]

\* The plugin sends reviews to a service it has no binding for, and notes that
\* need no project to the project session.
MCBase ==
  [actions |-> [NoRoutes EXCEPT ![review] = Route("service", "review", TRUE),
                                ![note] = Route("project_session", NULL, FALSE)],
   service_binding |-> NULL, project_session_binding |-> NULL]

\* p1 binds a service and a session, p2 leaves everything to the plugin.
MCOverride ==
  [p \in MCProjects |->
     [actions |-> NoRoutes,
      service_binding |-> IF p = p1 THEN "semantic" ELSE NULL,
      project_session_binding |-> IF p = p1 THEN "openclaw" ELSE NULL]]

\* p2 has a handler for an action nobody routes.
MCHandlers == {<<p2, ping>>}

Envelope(source, named, action, key) ==
  [source |-> source, named |-> named, project |-> NULL, action |-> action,
   workflow |-> NULL, session |-> key]

MCInbox ==
  { Envelope("automation", named, review, main) : named \in {p1, p2, gone} }
    \cup { Envelope("automation", NULL, ping, main),
           Envelope("automation", gone, note, main), Envelope("automation", p1, review, NULL),
           Envelope("agent", NULL, NULL, main), Envelope("human", NULL, NULL, main) }

Answer(status, escalate, hints, complete, text) ==
  [from |-> "service", status |-> status, escalate |-> escalate, hints |-> hints,
   complete |-> complete, text |-> text]

MCServiceResults ==
  { Answer("ok", FALSE, {}, TRUE, FALSE), Answer("ok", FALSE, {}, FALSE, TRUE),
    Answer("error", FALSE, {"human"}, FALSE, TRUE),
    Answer("needs_escalation", TRUE, {"review"}, FALSE, TRUE),
    Answer("needs_escalation", TRUE, {"human"}, FALSE, TRUE) }

Symmetry == Permutations(MCMessages)
=============================================================================
