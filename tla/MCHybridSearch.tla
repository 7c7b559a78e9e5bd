---------------------------- MODULE MCHybridSearch ----------------------------
(***************************************************************************)
(* The instance of HybridSearch that TLC checks: see the .cfg files.       *)
(***************************************************************************)
EXTENDS HybridSearch
===============================================================================
