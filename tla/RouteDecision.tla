--------------------------- MODULE RouteDecision ---------------------------
(***************************************************************************)
(* Where a message goes (core/src/routing/decision.ts, config.ts, and the  *)
(* availability of a service in adapters/openclaw/plugin/src/index.ts).    *)
(*                                                                         *)
(* An envelope is [source, named, project, action, workflow, session]: the *)
(* project it names and, after the lookup in the registry, the one that    *)
(* was found.  A route is [target_kind, workflow, requires_project], a     *)
(* router configuration [actions, service_binding, project_session_binding]*)
(* where actions holds a route or NULL for every action.  An unresolved    *)
(* project is NULL.                                                        *)
(***************************************************************************)
EXTENDS SessionState

\* a ?? b
Coalesce(a, b) == IF a # NULL THEN a ELSE b

\* {...base.actions, ...override.actions}, and bindings by ??.
MergeConfigs(base, override) ==
  [actions |-> [a \in DOMAIN base.actions |->
                  Coalesce(override.actions[a], base.actions[a])],
   service_binding |-> Coalesce(override.service_binding, base.service_binding),
   project_session_binding |->
     Coalesce(override.project_session_binding, base.project_session_binding)]

RouteOf(config, action) == IF action = NULL THEN NULL ELSE config.actions[action]

\* handlers holds <<project, action>> for a handler of one project and
\* <<NULL, action>> for one of all projects.
HasHandler(handlers, action, project) ==
  {<<project, action>>, <<NULL, action>>} \cap handlers # {}

\* availableServiceActions of the second call of decideRoute.
ServiceAvailable(handlers, config, action, project) ==
  /\ action # NULL
  /\ \/ HasHandler(handlers, action, project)
     \/ /\ config.service_binding # NULL
        /\ RouteOf(config, action) # NULL
        /\ RouteOf(config, action).target_kind = "service"

RoutedProject(envelope, session) == Coalesce(envelope.project, Binding(session))

\* The binding's workflow counts only while there is a binding.
BoundWorkflow(session) ==
  IF Binding(session) = NULL THEN NULL ELSE session.current_workflow

RoutedWorkflow(envelope, session, route) ==
  LET fallback == Coalesce(envelope.workflow, BoundWorkflow(session))
  IN IF route = NULL THEN fallback ELSE Coalesce(route.workflow, fallback)

Structured(envelope) ==
  \/ envelope.source = "automation"
  \/ envelope.source = "agent" /\ envelope.action # NULL

RequiresProject(route) == route = NULL \/ route.requires_project

Prefers(route, target) == route # NULL /\ route.target_kind = target

Target(envelope, session, route, available) ==
  IF ~Structured(envelope) THEN "main_session"
  ELSE IF RequiresProject(route) /\ RoutedProject(envelope, session) = NULL
    THEN "safe_fail"
  ELSE IF Prefers(route, "project_session") THEN "project_session"
  ELSE IF available THEN "service"
  ELSE IF Prefers(route, "service") THEN "safe_fail"
  ELSE "project_session"

\* decideRoute.  A route that safe_fails keeps the project it has.
DecideRoute(envelope, session, route, available) ==
  [target |-> Target(envelope, session, route, available),
   project |-> RoutedProject(envelope, session),
   workflow |-> RoutedWorkflow(envelope, session, route)]
=============================================================================
