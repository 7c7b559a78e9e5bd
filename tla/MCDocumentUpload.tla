--------------------------- MODULE MCDocumentUpload ---------------------------
(***************************************************************************)
(* The instance of DocumentUpload that TLC checks: see the .cfg file.      *)
(***************************************************************************)
EXTENDS DocumentUpload
===============================================================================
