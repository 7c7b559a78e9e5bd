--------------------------- MODULE MCIngestionQueue ---------------------------
(* Two documents; as many workers and attempts as the run's configuration says. *)
EXTENDS IngestionQueue

TwoJobs == {1, 2}
OneJob == {1}
===============================================================================
