------------------------------ MODULE MCAccounts ------------------------------
(***************************************************************************)
(* The instances of Accounts that TLC checks: see the .cfg files.          *)
(***************************************************************************)
EXTENDS Accounts, TLC

\* Requests are interchangeable.
Symmetry == Permutations(Requests)
===============================================================================
