----------------------------- MODULE MCAlgorithms -----------------------------
(***************************************************************************)
(* The instance of Algorithms that TLC checks.                             *)
(***************************************************************************)
EXTENDS Algorithms

AllKinds == {"x", ".", " ", "n"}

\* Words, ends of sentences and a word too long for a chunk.
SomeWords == { <<"x">>, <<"x", ".">>, <<" ">>, <<"x", "x", "x", "x">> }
===============================================================================
