---------------------------- MODULE MCScenarioRun ----------------------------
EXTENDS ScenarioRun

Plain == [blocked |-> FALSE, listed |-> TRUE, resembles |-> TRUE, chained |-> FALSE, trigger |-> FALSE,
          needsEvidence |-> FALSE, words |-> {}, fails |-> FALSE]
MCCommand ==
  [build |-> [Plain EXCEPT !.fails = TRUE],
   deploy |-> [Plain EXCEPT !.trigger = TRUE, !.words = {"production"}],
   wipe |-> [Plain EXCEPT !.blocked = TRUE, !.listed = FALSE, !.resembles = FALSE],
   drift |-> [Plain EXCEPT !.listed = FALSE, !.resembles = FALSE, !.needsEvidence = TRUE],
   chained |-> [Plain EXCEPT !.listed = FALSE, !.chained = TRUE]]
Calm == [index |-> 0, cost |-> 1, tokens |-> 0, target |-> "in", success |-> FALSE, kind |-> "command",
         cmd |-> "build", evidence |-> FALSE]
MCStep == {Calm, [Calm EXCEPT !.cmd = "deploy"], [Calm EXCEPT !.cmd = "wipe"],
           [Calm EXCEPT !.cmd = "chained"], [Calm EXCEPT !.kind = "file_write", !.cmd = "drift"],
           [Calm EXCEPT !.target = "out"], [Calm EXCEPT !.index = 2], [Calm EXCEPT !.success = TRUE]}
MCCovers == [t |-> "deploy"]
MCAct == {[specialist |-> "coding", task |-> k, plan |-> "p", step |-> "s", tool |-> "terminal",
           environment |-> "staging", target |-> "t", command |-> "c", risky |-> FALSE,
           sensitive |-> FALSE] : k \in {"one", "two"}}
MCEffect == {[class |-> "deploy", environment |-> "production"],
             [class |-> "terminal_execute", environment |-> "production"]}
=============================================================================
