--------------------------- MODULE MCDaemonService ---------------------------
EXTENDS DaemonService

\* All want one port; the third was given one secret for agents and operator.
MCConfig == <<[port |-> 1, cred |-> "", op |-> ""], [port |-> 1, cred |-> "", op |-> ""],
              [port |-> 1, cred |-> "s", op |-> "s"]>>
MCDoes == [a |-> {"run"}, b |-> {"start", "stop"}, c |-> {"approve"}]
=============================================================================
