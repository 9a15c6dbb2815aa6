----------------------------- MODULE MCCaseWork ------------------------------
EXTENDS CaseWork

MCPerson == {"ann", "bob"}
MCNameOf == [p \in MCPerson |-> IF p = "ann" THEN "Ann" ELSE "Bob"]
MCIncludes(v, w) == v = w \/ (v = "src/app" /\ w = "src")
MCInherited == [allowed |-> {"src"}, blocked |-> {"deploy"}]
MCContract == {[allowed |-> a, blocked |-> {"deploy"}] : a \in {{}, {"src/app"}, {"docs"}}}
              \cup {[allowed |-> {"src"}, blocked |-> {}]}
MCOption == {[keepId |-> FALSE, record |-> FALSE, roleFits |-> TRUE, receiver |-> Nobody],
             [keepId |-> TRUE, record |-> TRUE, roleFits |-> TRUE, receiver |-> "bob"],
             [keepId |-> FALSE, record |-> TRUE, roleFits |-> FALSE, receiver |-> "bob"]}
=============================================================================
