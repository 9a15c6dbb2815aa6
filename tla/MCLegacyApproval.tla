-------------------------- MODULE MCLegacyApproval --------------------------
(* Instances of LegacyApproval for TLC.                                    *)
EXTENDS LegacyApproval, TLC

CallSymmetry == Permutations(Call)
=============================================================================
