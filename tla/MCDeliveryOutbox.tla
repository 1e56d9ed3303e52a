-------------------------- MODULE MCDeliveryOutbox --------------------------
(* Instances of DeliveryOutbox for TLC: two notices and an escalation, a    *)
(* Feishu chat that is written in two ways, and a main user under a local   *)
(* name.                                                                    *)
EXTENDS DeliveryOutbox, TLC

CONSTANTS notice, done, escalation, chat, link, user, pm, account, session, j1, j2, j3

MCRefs == {chat, link, user, pm, account, session}

Written(shape, names, symbols) == [shape |-> shape, names |-> names, symbols |-> symbols]
MCReference ==
  chat    :> Written("chat", chat, <<>>) @@
  link    :> Written("chat", chat, <<>>) @@   \* feishu:chat:<chat>
  user    :> Written("local", user, <<pm>>) @@
  pm      :> Written("other", pm, <<>>) @@
  account :> Written("other", account, <<>>) @@
  session :> Written("other", session, <<>>)

Unset == RecordOnly(NULL)
Channel(channel, ref) == [channel |-> channel, kind |-> "channel", ref |-> ref, mode |-> "direct"]
NoTargets == [s \in Surfaces |-> NULL]
Configured ==
  [governance |-> [Unset EXCEPT !.ref = user],
   workflows  |-> [NoTargets EXCEPT !["general"] = Channel("feishu", link)]]
WithoutGovernance == [Configured EXCEPT !.governance = Unset]
WithoutWorkflows == [Configured EXCEPT !.workflows = NoTargets]
WithAndWithoutGovernance == {Configured, WithoutGovernance}
WithAndWithoutWorkflows == {Configured, WithoutWorkflows}
WeChat == [channel |-> "wechat", kind |-> "dm", ref |-> account, mode |-> "direct"]

UserSession == <<[key |-> session, aliases |-> {pm}]>>
UserChannel == <<[target |-> WeChat, aliases |-> {pm}]>>
None == <<>>

Notice(subject, completion, reply, workflow) ==
  [outbox |-> "business", subject |-> subject, completion |-> completion, reply |-> reply,
   workflow |-> workflow]
Escalation ==
  [outbox |-> "governance", subject |-> escalation, completion |-> FALSE, reply |-> NULL,
   workflow |-> NULL]

\* The notice of a dispatch, which goes to the target of its workflow; a completion,
\* which goes to the main user, or nowhere when that one is not configured; an
\* escalation.
MCRequests ==
  {Notice(notice, FALSE, NULL, "dispatch"), Notice(done, TRUE, NULL, NULL), Escalation}
\* Notices for the Feishu chat, as the target of the workflow and as the target of
\* the message, or for nobody: a reply into WeChat, and a workflow without a target.
Unreachable ==
  {Notice(notice, FALSE, NULL, "dispatch"), Notice(notice, FALSE, Channel("feishu", chat), NULL),
   Notice(done, FALSE, Channel("wechat", user), NULL)}

MCJobs == {j1, j2, j3}
MCTwoJobs == {j1, j2}

\* The outboxes share no file: behaviours that mix their calls are left out.
OneOutbox == \E o \in Outboxes : \A j \in MCJobs : about[j] = NULL \/ about[j].outbox = o

Symmetry == Permutations(MCJobs)
=============================================================================
