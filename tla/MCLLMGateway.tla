----------------------------- MODULE MCLLMGateway -----------------------------
(***************************************************************************)
(* The instance of LLMGateway that TLC checks: see the .cfg file.          *)
(***************************************************************************)
EXTENDS LLMGateway
===============================================================================
