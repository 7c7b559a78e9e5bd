------------------------------- MODULE MCListing -------------------------------
(***************************************************************************)
(* The instance of Listing that TLC checks.                                *)
(***************************************************************************)
EXTENDS Listing
===============================================================================
