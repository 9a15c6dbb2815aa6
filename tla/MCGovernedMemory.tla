-------------------------- MODULE MCGovernedMemory --------------------------
EXTENDS GovernedMemory, TLC

Symmetries == Permutations(Call) \cup Permutations(Permit)

Memo(id, tenant, supersedes, lesson, flaws, ttl) ==
  [memory_id |-> id, tenant |-> tenant, supersedes |-> supersedes,
   lesson |-> lesson, flaws |-> flaws, ttl |-> ttl]

\* Two lessons under one id, one of them poisoned, and a candidate of another
\* tenant that replaces what it knows under that id.
Swapped == {Memo("m1", "t1", {}, "a", {}, None),
            Memo("m1", "t1", {}, "b", {"poisoned"}, None),
            Memo("m2", "t2", {"m1"}, "a", {}, None)}

\* One memory that expires and one that does not.
Lapsing == {Memo("m1", "t1", {}, "a", {}, 1),
            Memo("m2", "t1", {}, "b", {}, None)}
=============================================================================
