---------------------------- MODULE MCPolicyEngine ---------------------------
EXTENDS PolicyEngine

Policy(risks, evidence, v) == [risks |-> risks, needsEvidence |-> evidence, verdict |-> v]
MCAsked ==
  [words : {{}, {"delegates"}, {"destroys"}}, measures : {{}, {"overCost"}},
   clauses : {{}, {"evidenceFor"}, {"approvalFor"}, {"forbiddenTool"}},
   policies : {<<>>, <<Policy({}, TRUE, "ALLOW_WITH_WARNING")>>,
               <<Policy({"DESTRUCTIVE_ACTION"}, FALSE, "PAUSE")>>, <<Policy({}, FALSE, "STOP_AGENT")>>},
   evidence : BOOLEAN, approved : BOOLEAN, expired : BOOLEAN, failClosed : {FALSE},
   openByDefault : {FALSE}, readsLike : BOOLEAN,
   action : {[kind |-> "shell", operation |-> "run", workspace |-> "inside", sensitive |-> FALSE,
              config |-> FALSE, destroysText |-> b] : b \in BOOLEAN}]
MCProfiles ==
  {[default |-> "ALLOW", rules |-> {[id |-> "r", verdict |-> v, match |-> [destructive |-> {TRUE}]]}] :
     v \in {"PAUSE", "DENY", "FORBID"}}
MCGates == {[mode |-> m, maxRisk |-> "medium", listsCommands |-> FALSE,
             files |-> {[base |-> <<"src">>, ends |-> "below"]}] : m \in {"HITL", "HOTL"}}
MCRuns == [risk : {"medium", "high"}, files : {{}, {<<"src", "a">>}},
           commands : {{}, {[blocked |-> FALSE, chained |-> FALSE, listed |-> FALSE]}},
           mentionsTrigger : BOOLEAN, approved : BOOLEAN]
\* Each question is for one of the policies; the others get the first of theirs.
First(S) == CHOOSE x \in S : TRUE
MCQuestion == [in : MCAsked, profile : MCProfiles, gate : {First(MCGates)}, run : {First(MCRuns)}]
              \cup [in : {First(MCAsked)}, profile : {First(MCProfiles)}, gate : MCGates, run : MCRuns]
=============================================================================
