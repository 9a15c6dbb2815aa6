---------------------------- MODULE MCWorkLedger ----------------------------
EXTENDS WorkLedger
DisabledByAdapter == [c \in Control |-> [intended |-> "DISABLED", requires |-> TRUE,
                                         consequential |-> TRUE]]
=============================================================================
