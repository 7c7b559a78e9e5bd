------------------------------ MODULE RankFusion ------------------------------
(***************************************************************************)
(* Reciprocal rank fusion of the two lists of a hybrid search              *)
(* (_reciprocal_rank_fusion, src/retrieval/service.py).  Scores are exact: *)
(* a score is a numerator and a denominator.  A state is what the two      *)
(* branches have found, with the fused list.                               *)
(***************************************************************************)
EXTENDS Integers, Sequences, SequencesExt

CONSTANTS
  Ids, Depth,  \* the chunks in the database, and the length of a branch's list
  Ks           \* values for RRF_K

ASSUME FusionAssumption == Depth \in Nat /\ Ks \subseteq Nat

VARIABLES
  found,  \* the lists of the branches, with top_k and RRF_K
  fused

fusionVars == <<found, fused>>

Rank(c, rows) == CHOOSE i \in DOMAIN rows : rows[i] = c

\* 1 / (k + rank), if the chunk is in the list.
Share(c, rows, k) == IF c \in ToSet(rows) THEN <<1, k + Rank(c, rows)>> ELSE <<0, 1>>

Plus(p, q) == <<p[1] * q[2] + q[1] * p[2], p[2] * q[2]>>
Less(p, q) == p[1] * q[2] < q[1] * p[2]

\* MUTANT: the second list assigns the score instead of adding to it.
Score_Assigned(c, dense, sparse, k) ==
  IF c \in ToSet(sparse) THEN Share(c, sparse, k) ELSE Share(c, dense, k)

Score(c, dense, sparse, k) == Plus(Share(c, dense, k), Share(c, sparse, k))

\* The order in which the keys come into the dictionary of scores.
Inserted(c, dense, sparse) ==
  IF c \in ToSet(dense) THEN Rank(c, dense) ELSE Len(dense) + Rank(c, sparse)

\* sorted() is stable: equal scores keep the order of insertion.
Before(c, d, dense, sparse, k) ==
  LET s == Score(c, dense, sparse, k)
      t == Score(d, dense, sparse, k)
  IN  \/ Less(t, s)
      \/ ~Less(s, t) /\ Inserted(c, dense, sparse) < Inserted(d, dense, sparse)

Found(dense, sparse) == ToSet(dense) \cup ToSet(sparse)

Place(c, dense, sparse, k) ==
  Cardinality({d \in Found(dense, sparse) : Before(d, c, dense, sparse, k)}) + 1

\* The best top_k.
Fuse(dense, sparse, top_k, k) ==
  LET ids == Found(dense, sparse)
      length == IF top_k < Cardinality(ids) THEN top_k ELSE Cardinality(ids)
  IN  [place \in 1 .. length |-> CHOOSE c \in ids : Place(c, dense, sparse, k) = place]

\* The lists that a query can return: each chunk once.
Rankings == {s \in UNION {[1 .. n -> Ids] : n \in 0 .. Depth} : IsInjective(s)}

FusionInit == found = [of |-> "none"] /\ fused = <<>>

FuseRankings ==
  /\ found.of = "none"
  /\ \E dense, sparse \in Rankings, top_k \in 1 .. 2 * Depth, k \in Ks :
       /\ found' = [of |-> "rankings", dense |-> dense, sparse |-> sparse, top_k |-> top_k, k |-> k]
       /\ fused' = Fuse(dense, sparse, top_k, k)

FusionSpec == FusionInit /\ [][FuseRankings]_fusionVars

-------------------------------------------------------------------------------
(* Property. *)

\* c is in the list, and above d if that is there too.
Above(c, d, rows) == c \in ToSet(rows) /\ (d \in ToSet(rows) => Rank(c, rows) < Rank(d, rows))
Beats(c, d, rows) == Above(c, d, rows) \/ {c, d} \cap ToSet(rows) = {}

\* What both branches agree on the fusion keeps: of two chunks the one that no list places
\* lower, and one places higher, comes first, up to the cut at top_k; and as long as no list is
\* longer than RRF_K + 1, what both branches found comes before what one of them found
\* (retrieval/service.py:333-349; a list has up to a hundred rows, and RRF_K is 60).
FusionRespectsBothRankings ==
  found.of = "rankings" =>
    LET both == ToSet(found.dense) \cap ToSet(found.sparse)
        short == Len(found.dense) <= found.k + 1 /\ Len(found.sparse) <= found.k + 1
        ahead(c, d) ==
          d \in ToSet(fused) => c \in ToSet(fused) /\ Rank(c, fused) < Rank(d, fused)
    IN  \A c, d \in Found(found.dense, found.sparse) :
          c # d /\ \/ Beats(c, d, found.dense) /\ Beats(c, d, found.sparse)
                   \/ short /\ c \in both /\ d \notin both
          => ahead(c, d)
===============================================================================
