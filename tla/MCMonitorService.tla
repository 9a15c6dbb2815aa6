-------------------------- MODULE MCMonitorService ---------------------------
EXTENDS MonitorService

Quiet == [type |-> "", case |-> "c", session |-> "", task |-> "", name |-> "", agent |-> "a",
           project |-> "", ref |-> "", says |-> "", why |-> FALSE, trait |-> "", tokens |-> 0,
           model |-> ""]
Usage == [Quiet EXCEPT !.type = "token.cost", !.model = "m", !.tokens = 2]
\* Two cases, two sessions of one of them that share a task, and their approvals.
MCSays ==
  [start |-> [Quiet EXCEPT !.type = "task.started", !.session = "s", !.task = "t"],
   done |-> [Quiet EXCEPT !.type = "task.completed", !.session = "s", !.task = "t"],
   ask |-> [Quiet EXCEPT !.type = "approval.requested", !.session = "s", !.agent = "b"],
   ask2 |-> [Quiet EXCEPT !.type = "approval.requested", !.session = "r", !.why = TRUE],
   yes |-> [Quiet EXCEPT !.type = "approval.resolved", !.session = "s", !.ref = "ask"],
   no |-> [Quiet EXCEPT !.type = "approval.resolved", !.session = "r", !.says = "rejected"],
   use |-> [Usage EXCEPT !.session = "s", !.task = "t"],
   use2 |-> [Usage EXCEPT !.session = "r", !.task = "t", !.project = "p"],
   hand |-> [Quiet EXCEPT !.type = "handoff.created", !.ref = "b"],
   \* what the monitor writes itself
   judged |-> [Quiet EXCEPT !.type = "policy.decision.made", !.case = "d", !.says = "deny"],
   ack |-> [Quiet EXCEPT !.type = "operator.action.recorded", !.case = "", !.agent = "operator",
                          !.ref = "ask", !.says = "resolved"]]
Bare == [path |-> "operator", body |-> "ok", bearer |-> "", limited |-> FALSE, tenant |-> "", event |-> ""]
MCRequest ==
  {[Bare EXCEPT !.event = "ack"], [Bare EXCEPT !.event = "ack", !.body = "large"],
   [Bare EXCEPT !.path = "memory", !.event = "judged", !.bearer = "k", !.tenant = "x"],
   [Bare EXCEPT !.path = "evaluate", !.event = "judged", !.bearer = "q"]}
MCAuth == [enabled |-> TRUE, limits |-> TRUE, token |-> "k", tenants |-> {"x"}]
MonitorSpec == MonitorInit /\ [][MonitorNext]_monitorVars
=============================================================================
