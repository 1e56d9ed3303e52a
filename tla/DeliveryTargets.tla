-------------------------- MODULE DeliveryTargets ---------------------------
(***************************************************************************)
(* Whom a notice or an escalation is delivered to:                         *)
(* core/src/routing/business-notification-delivery.ts, the lookups in the  *)
(* configuration of adapters/feishu/src/config-host.ts and                 *)
(* adapters/openclaw/runtime/src/{bindings,workflow-bindings}.ts, and the  *)
(* targets that the adapters beside them find.                             *)
(*                                                                         *)
(* A written reference is a model value; what the code's regular           *)
(* expressions and prefixes make of it is a row of Reference.              *)
(***************************************************************************)
EXTENDS Naturals, Sequences

CONSTANTS
  NULL,              \* no value
  Refs,              \* references, the names in them, session keys and aliases
  Reference,         \* what each of them is written as
  GovernanceEnv,     \* the four ACR_GOVERNANCE_* variables
  MainSessions,      \* runtime bindings: the main sessions with their aliases
  ChannelTargets     \* runtime bindings: the channels with their ids and aliases

\* An identifier of Feishu, also behind "feishu:", a "local:" name, anything else.
Shapes == {"chat", "user", "message", "thread", "local", "other"}
Kinds == {"chat", "user", "message", "dm", "channel", "other"}
Modes == {"channel_message", "reply", "thread_reply", "direct", "other"}
Channels == {"feishu", "wechat", "other"}
Surfaces == {"general", "dispatch", "review"}

Targets == [channel : Channels \cup {NULL}, kind : Kinds \cup {NULL},
            ref : Refs \cup {NULL}, mode : Modes \cup {NULL}]

ASSUME TargetsAssumption ==
  /\ NULL \notin Refs \cup Kinds \cup Modes \cup Channels
  /\ Reference \in [Refs -> [shape : Shapes, names : Refs, symbols : Seq(Refs)]]
  /\ GovernanceEnv \in Targets
  /\ MainSessions \in Seq([key : Refs, aliases : SUBSET Refs])
  /\ ChannelTargets \in Seq([target : Targets, aliases : SUBSET Refs])

\* The code's ??.
Or(a, b) == IF a # NULL THEN a ELSE b

\* The first entry of a list of bindings that fits.
First(list, Fits(_)) ==
  LET hits == {i \in DOMAIN list : Fits(list[i])}
  IN IF hits = {} THEN NULL ELSE list[CHOOSE i \in hits : \A k \in hits : i <= k]

\* A seed without a target: it keeps the reference that led nowhere.
RecordOnly(ref) == [channel |-> NULL, kind |-> NULL, ref |-> ref, mode |-> NULL]

\* The kind and the mode of a Feishu reference.
FeishuForm ==
  [chat    |-> <<"chat", "channel_message">>, user   |-> <<"user", "channel_message">>,
   message |-> <<"message", "reply">>,        thread |-> <<"message", "thread_reply">>]

\* resolveFeishuTargetFromReplyTarget: only the direct reply into a Feishu channel.
FromReplyTarget(reply) ==
  IF /\ reply.channel = "feishu" /\ reply.kind = "channel" /\ reply.mode = "direct"
     /\ reply.ref # NULL
     /\ Reference[reply.ref].shape \in DOMAIN FeishuForm
  THEN LET form == FeishuForm[Reference[reply.ref].shape]
       IN [channel |-> "feishu", kind |-> form[1],
           ref |-> Reference[reply.ref].names, mode |-> form[2]]
  ELSE RecordOnly(reply.ref)

\* resolveTargetFromDeliveryBinding: what is configured, if an adapter serves it.
FromBinding(binding) ==
  IF \/ /\ binding.channel = "feishu"
        /\ binding.kind \in {"chat", "user", "message"}
        /\ binding.mode \in {"channel_message", "reply", "thread_reply"}
     \/ binding.channel = "wechat" /\ binding.kind = "dm" /\ binding.mode = "direct"
  THEN binding ELSE RecordOnly(binding.ref)

\* resolveGovernanceDeliveryBinding: every field by itself from the environment,
\* else from the file, else the default; no reference, no binding.
GovernanceTarget(config) ==
  LET Setting(env, set, default) == Or(env, Or(set, default))
      ref == Or(GovernanceEnv.ref, config.ref)
  IN IF ref = NULL THEN NULL
     ELSE [channel |-> Setting(GovernanceEnv.channel, config.channel, "wechat"),
           kind |-> Setting(GovernanceEnv.kind, config.kind, "dm"),
           ref  |-> ref,
           mode |-> Setting(GovernanceEnv.mode, config.mode, "direct")]

\* resolveWorkflowDefaultReplyTarget: a surface without a target has the general
\* one.  A file that cannot be read or parsed counts as one without any target.
WorkflowDefault(workflow, targets) ==
  Or(targets[IF workflow \in Surfaces THEN workflow ELSE "general"], targets["general"])

\* buildBusinessNotificationDeliveryPlan.  The governance target is asked for at a
\* completion boundary only, and then there is no default of the workflow.
Plan(completion, reply, governance, default) ==
  IF completion /\ governance # NULL THEN FromBinding(governance)
  ELSE IF reply # NULL THEN FromReplyTarget(reply)
  ELSE IF ~completion /\ default # NULL THEN FromReplyTarget(default)
  ELSE RecordOnly(NULL)

\* resolveMainSessionBinding.
MainSession(ref) == First(MainSessions, LAMBDA b : b.key = ref \/ ref \in b.aliases)

\* resolveGovernanceTargetSessionKey: a bound session, under the reference or under
\* what a local name stands for; else the reference itself, unless it is local.
SessionKey(ref) ==
  LET bound == First(<<ref>> \o Reference[ref].symbols, LAMBDA r : MainSession(r) # NULL)
  IN IF bound # NULL THEN MainSession(bound).key
     ELSE IF Reference[ref].shape = "local" THEN NULL ELSE ref

\* resolveRuntimeChannelTarget: the address that the WeChat channel gets.
ChannelAddress(target) ==
  LET names == {target.ref} \cup {Reference[target.ref].symbols[i] :
                                    i \in DOMAIN Reference[target.ref].symbols}
      bound == First(ChannelTargets, LAMBDA b :
                 /\ b.target.channel = target.channel /\ b.target.kind = target.kind
                 /\ b.target.mode = target.mode
                 /\ names \cap ({b.target.ref} \cup b.aliases) # {})
  IN IF bound # NULL THEN bound.target.ref
     ELSE IF Reference[target.ref].shape = "local" THEN NULL ELSE target.ref
=============================================================================
