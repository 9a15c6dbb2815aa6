--------------------------- MODULE MCRuntimeCore ---------------------------
(* Instances of the authorization pipeline for TLC. *)
EXTENDS RuntimeCore, TLC

\* The ids are interchangeable.
Ids == Permutations(Session) \cup Permutations(Request)
         \cup Permutations(Approval) \cup Permutations(Permit)

\* "push" is held on any host; "read" is allowed on a clean one and denied once
\* the host has moved.
Mixed == [a \in Action |-> [x \in Context |->
  CASE a = "push" -> "REQUIRE_APPROVAL"
    [] a # "push" /\ x = "clean" -> "ALLOW"
    [] a # "push" /\ x # "clean" -> "DENY"]]

\* Everything is allowed, except for the actions named for what they get.
ByName == [a \in Action |-> [x \in Context |->
  CASE a = "deny" -> "DENY" [] a = "pause" -> "PAUSE" [] OTHER -> "ALLOW"]]
=============================================================================
