--------------------------- MODULE MCClaimStore ---------------------------
(* Instances of the claim store for TLC. *)
EXTENDS ClaimStore

\* One token that lives for one tick.
OneToken == [i \in Id |-> 1]
=============================================================================
