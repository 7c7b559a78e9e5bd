---------------------------- MODULE MCMembership ----------------------------
(***************************************************************************)
(* The instance of Membership that TLC checks.                             *)
(***************************************************************************)
EXTENDS Membership, TLC

\* Requests are interchangeable.
Symmetry == Permutations(Requests)
=============================================================================
