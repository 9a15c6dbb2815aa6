----------------------------- MODULE SingleUse -----------------------------
(***************************************************************************)
(* What the atomic claim store promises to the authorities that use it     *)
(* (execution permits, approvals, memory permits), free of files and       *)
(* system calls: while an id is alive, at most one call ever holds it,     *)
(* only the holder is told that it was granted, and once the lifetime of   *)
(* the id is over the store promises nothing more about it.                *)
(***************************************************************************)
CONSTANTS Call,    \* the invocations of the store
          Id,      \* the ids that are claimed
          Nobody   \* the holder of an id that no call has taken

VARIABLES holder,  \* holder[i]: the call that took the id i while it was alive
          lapsed,  \* the ids whose lifetime is over
          granted  \* the holders that were told so

vars == <<holder, lapsed, granted>>

TypeOK == /\ holder \in [Id -> Call \cup {Nobody}]
          /\ lapsed \subseteq Id
          /\ granted \subseteq Call

Init == /\ holder = [i \in Id |-> Nobody]
        /\ lapsed = {}
        /\ granted = {}

Take(c, i) == /\ i \notin lapsed
              /\ holder[i] = Nobody
              /\ holder' = [holder EXCEPT ![i] = c]
              /\ UNCHANGED <<lapsed, granted>>

Report(c, i) == /\ holder[i] = c
                /\ granted' = granted \cup {c}
                /\ UNCHANGED <<holder, lapsed>>

\* One tick of the clock may end several lifetimes.
Lapse(S) == /\ lapsed' = lapsed \cup S
            /\ UNCHANGED <<holder, granted>>

Next == \/ \E c \in Call, i \in Id : Take(c, i) \/ Report(c, i)
        \/ \E S \in SUBSET Id : Lapse(S)

Spec == Init /\ [][Next]_vars
=============================================================================
