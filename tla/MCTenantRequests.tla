--------------------------- MODULE MCTenantRequests ---------------------------
(***************************************************************************)
(* The instance of TenantRequests that TLC checks.                         *)
(***************************************************************************)
EXTENDS TenantRequests
===============================================================================
