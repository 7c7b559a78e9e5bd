------------------------------ MODULE TextChunker ------------------------------
(***************************************************************************)
(* The splitting of a document into chunks (src/ingestion/pipeline.py):    *)
(* RecursiveTextChunker and SemanticTextChunker.                           *)
(*                                                                         *)
(* A text is a sequence of characters; a character has its place in the    *)
(* text, so that one can say what became of it, and 0 for one that the     *)
(* chunker has added.  The kinds "x" (a letter), "." , " " and "n" (a new  *)
(* line) are all that the chunkers tell apart.  A state is a text with its *)
(* chunks.                                                                 *)
(***************************************************************************)
EXTENDS Integers, Sequences, SequencesExt

CONSTANTS
  Kinds,       \* the kinds of characters of the texts
  Length,      \* the length of a text for RecursiveTextChunker
  Words,       \* pieces that texts for SemanticTextChunker are made of
  Pieces,      \* how many of them
  Sizes, Overlaps,
  Distances,   \* distances between adjacent sentences, as integers
  Percentile

ASSUME ChunkerAssumption ==
  /\ Length \in Nat /\ Pieces \in Nat /\ Words \subseteq Seq(Kinds)
  /\ Sizes \subseteq Nat \ {0} /\ Overlaps \subseteq Nat

VARIABLES input, output
chunkerVars == <<input, output>>

Separators == << <<"n", "n">>, <<"n">>, <<".", " ">>, <<" ">> >>
White == {" ", "n"}

Chars == [ch : Kinds \cup {".", " ", "n"}, at : Nat]

Added(kinds) == [i \in 1 .. Len(kinds) |-> [ch |-> kinds[i], at |-> 0]]
Start(s, n) == SubSeq(s, 1, IF n < Len(s) THEN n ELSE Len(s))
From(s, n) == SubSeq(s, n, Len(s))
NonWhite(s) == {i \in 1 .. Len(s) : s[i].ch \notin White}

\* str.strip
Strip(s) ==
  LET I == NonWhite(s) IN IF I = {} THEN <<>> ELSE SubSeq(s, Min(I), Max(I))

\* Where the kinds sep begin in s.
Hits(s, sep) ==
  {i \in 1 .. Len(s) - Len(sep) + 1 : \A k \in 1 .. Len(sep) : s[i + k - 1].ch = sep[k]}

\* str.split: the parts from the i-th character on.
Split(s, sep) ==
  LET split[i \in 1 .. Len(s) + 1] ==
        LET later == {h \in Hits(s, sep) : h >= i} IN
        IF later = {} THEN <<From(s, i)>>
        ELSE <<SubSeq(s, i, Min(later) - 1)>> \o split[Min(later) + Len(sep)]
  IN  split[1]

\* sep.join
Join(parts, sep) ==
  FlattenSeq([i \in DOMAIN parts |-> IF i = 1 THEN parts[i] ELSE Added(sep) \o parts[i]])

-------------------------------------------------------------------------------
(* RecursiveTextChunker *)

\* A piece begins an overlap before the end of the one before it.
HardSplit(s, size, overlap) ==
  LET begin(i) == (i - 1) * (size - overlap) + 1
      end(i) == IF begin(i) + size - 1 < Len(s) THEN begin(i) + size - 1 ELSE Len(s)
  IN  [i \in 1 .. Max({j \in 1 .. Len(s) : begin(j) <= Len(s)}) |-> SubSeq(s, begin(i), end(i))]

\* Each chunk but the last gets the beginning of the next one, with nothing between them.
ApplyOverlap(chunks, overlap) ==
  [i \in 1 .. Len(chunks) |->
     IF i < Len(chunks) THEN chunks[i] \o Start(chunks[i + 1], overlap) ELSE chunks[i]]

\* MUTANT: the text before a part that is too large is left out.
Emit_Dropped(chunks, current) == chunks

Emit(chunks, current) == IF current = <<>> THEN chunks ELSE Append(chunks, current)

\* The body of the loop over the parts: finer is what becomes of part if it is too large.
Extend(st, part, finer, sep, size) ==
  LET candidate == IF st.current = <<>> THEN part ELSE st.current \o Added(sep) \o part IN
  IF Len(candidate) <= size THEN [chunks |-> st.chunks, current |-> candidate]
  ELSE IF Len(part) > size
       THEN [chunks |-> Emit(st.chunks, st.current) \o finer, current |-> st.current]
  ELSE [chunks |-> Emit(st.chunks, st.current), current |-> part]

\* The parts put together again, as far as they go into a chunk.
Merge(parts, finer, sep, size) ==
  LET after[i \in 0 .. Len(parts)] ==
        IF i = 0 THEN [chunks |-> <<>>, current |-> <<>>]
        ELSE Extend(after[i - 1], parts[i], finer[i], sep, size)
  IN  Emit(after[Len(parts)].chunks, after[Len(parts)].current)

\* _split, with the separators from the k-th on.  When a part has to be split further, current
\* is emitted before it and keeps its text.
SplitText(s, size, overlap) ==
  LET split[k \in 1 .. Len(Separators) + 1] == [t \in Seq(Chars) |->
        IF Len(t) <= size THEN <<t>>
        ELSE IF k > Len(Separators) THEN HardSplit(t, size, overlap)
        ELSE LET parts == Split(t, Separators[k])
                 finer == [i \in DOMAIN parts |-> split[k + 1][parts[i]]]
             IN  ApplyOverlap(Merge(parts, finer, Separators[k], size), overlap)]
  IN  split[1][s]

NotBlank(chunks) ==
  FlattenSeq([i \in DOMAIN chunks |-> IF NonWhite(chunks[i]) = {} THEN <<>> ELSE <<chunks[i]>>])

\* RecursiveTextChunker.chunk
chunk(text, size, overlap) ==
  IF Strip(text) = <<>> THEN <<>> ELSE NotBlank(SplitText(Strip(text), size, overlap))

-------------------------------------------------------------------------------
(* SemanticTextChunker, for any distances between adjacent sentences that an embedder can     *)
(* come to.                                                                                   *)

EndsSentence(s, e) == s[e].ch = "." /\ s[e + 1].ch \in White
Space == <<" ">>

\* re.split of white space that follows the end of a sentence, without what is blank.
Sentences(s) ==
  LET sentences[i \in 1 .. Len(s) + 1] ==
        LET ends == {e \in i .. Len(s) - 1 : EndsSentence(s, e)} IN
        IF NonWhite(From(s, i)) = {} THEN <<>>
        ELSE IF ends = {} THEN <<Strip(From(s, i))>>
        ELSE <<Strip(SubSeq(s, i, Min(ends)))>> \o sentences[Min(ends) + 1]
  IN  sentences[1]

\* A hundred times the percentile: _percentile interpolates between two distances.
Percentile100(distances, percentile) ==
  LET sorted == SortSeq(distances, <)
      k == (Len(sorted) - 1) * percentile
      f == k \div 100 + 1
      c == IF f < Len(sorted) THEN f + 1 ELSE f
  IN  100 * sorted[f] + (k % 100) * (sorted[c] - sorted[f])

Boundaries(distances, percentile) ==
  {i \in DOMAIN distances : 100 * distances[i] >= Percentile100(distances, percentile)}

\* The sentences between one boundary and the next.
Groups(sentences, bounds) ==
  LET groups[i \in 1 .. Len(sentences) + 1] ==
        LET ends == {e \in bounds : e >= i}
            last == IF ends = {} THEN Len(sentences) ELSE Min(ends)
        IN  IF i > Len(sentences) THEN <<>>
            ELSE <<Join(SubSeq(sentences, i, last), Space)>> \o groups[last + 1]
  IN  groups[1]

\* SemanticTextChunker.chunk
semantic_chunk(text, distances, percentile, size) ==
  LET sentences == Sentences(Strip(text))
      bounds == Boundaries([i \in 1 .. Len(sentences) - 1 |-> distances[i]], percentile)
      groups == Groups(sentences, bounds)
      fit == FlattenSeq([i \in DOMAIN groups |->
                           IF Len(groups[i]) > size THEN chunk(groups[i], size, 0)
                           ELSE <<groups[i]>>])
  IN  IF Len(sentences) <= 1 THEN sentences
      ELSE [i \in 1 .. Len(NotBlank(fit)) |-> Strip(NotBlank(fit)[i])]

-------------------------------------------------------------------------------
(* Every text within bounds. *)

\* The characters of a text at their places.
Placed(kinds) == [i \in 1 .. Len(kinds) |-> [ch |-> kinds[i], at |-> i]]

ChunkerInit == input = [of |-> "none"] /\ output = <<>>

ChunkText ==
  /\ input.of = "none"
  /\ \E kinds \in [1 .. Length -> Kinds], size \in Sizes, overlap \in Overlaps :
       /\ overlap < size
       /\ input' = [of |-> "text", text |-> Placed(kinds), size |-> size, overlap |-> overlap]
       /\ output' = chunk(Placed(kinds), size, overlap)

ChunkSentences ==
  /\ input.of = "none"
  /\ \E words \in [1 .. Pieces -> Words], ds \in [1 .. Pieces \div 2 -> Distances], size \in Sizes :
       LET text == Placed(FlattenSeq(words)) IN
       /\ input' = [of |-> "sentences", text |-> text, size |-> size, distances |-> ds]
       /\ output' = semantic_chunk(text, ds, Percentile, size)

ChunkerSpec == ChunkerInit /\ [][ChunkText \/ ChunkSentences]_chunkerVars

-------------------------------------------------------------------------------
(* Property. *)

Letters(s) == {c \in ToSet(s) : c.ch = "x"}
LettersOf(texts) == UNION {Letters(s) : s \in ToSet(texts)}

\* The letters of a text are in their order, and those of an earlier text before a later one's.
Increasing(s) == \A i, j \in DOMAIN s : i < j /\ s[i].ch = "x" /\ s[j].ch = "x" => s[i].at < s[j].at
InOrder(texts) ==
  /\ \A s \in ToSet(texts) : Increasing(s)
  /\ \A i, j \in DOMAIN texts : i < j =>
       \A c \in Letters(texts[i]), d \in Letters(texts[j]) : c.at < d.at

\* At some separator, a part that is too large follows text that is not.
KeepsStale(s, size) ==
  LET repeats[k \in 1 .. Len(Separators) + 1] == [t \in Seq(Chars) |->
        /\ Len(t) > size /\ k <= Len(Separators)
        /\ LET parts == Split(t, Separators[k]) IN
             \E i \in DOMAIN parts :
               /\ Len(parts[i]) > size
               /\ \/ \E j \in 1 .. i - 1 : parts[j] # <<>> /\ Len(parts[j]) <= size
                  \/ repeats[k + 1][parts[i]]]
  IN  repeats[1][s]

\* Every letter of the text is in at least one chunk, and no other letter is, for both
\* chunkers (letters only: the separator between two chunks is dropped, and with ". " that is
\* a full stop, pipeline.py:140-145); a chunk is longer than chunk_size by at most one overlap
\* for each kind of separator, as each level of the recursion adds its own (162); and without
\* overlap the letters come in the text's order and none twice, except when a part that has to
\* be split further follows other text (149-159).
ChunksKeepTheText ==
  /\ input.of \in {"text", "sentences"} => LettersOf(output) = Letters(input.text)
  /\ input.of = "text" =>
       /\ \A i \in DOMAIN output :
            Len(output[i]) <= input.size + Len(Separators) * input.overlap
       /\ input.overlap = 0 /\ ~KeepsStale(Strip(input.text), input.size) => InOrder(output)
===============================================================================
