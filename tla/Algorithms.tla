------------------------------ MODULE Algorithms ------------------------------
(***************************************************************************)
(* The pure algorithms of ingestion and retrieval, on every input within   *)
(* bounds: a state is an input of one of them with its result.             *)
(***************************************************************************)
EXTENDS TextChunker, RankFusion

vars == <<chunkerVars, fusionVars>>

Init == ChunkerInit /\ FusionInit

Next ==
  \/ found.of = "none" /\ (ChunkText \/ ChunkSentences) /\ UNCHANGED fusionVars
  \/ input.of = "none" /\ FuseRankings /\ UNCHANGED chunkerVars

Spec == Init /\ [][Next]_vars
===============================================================================
