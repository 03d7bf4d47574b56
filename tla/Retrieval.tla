----------------------------- MODULE Retrieval -----------------------------
(***************************************************************************)
(* Ranking the chunks of a collection for a question                        *)
(* (pkg/vector/vector_store.go).  How close a chunk is to the question is    *)
(* decided by Milvus and by term weights, so a search may return any order   *)
(* of the chunks it may find; what HybridSearch makes of two such orders is   *)
(* modelled exactly.                                                        *)
(***************************************************************************)
EXTENDS Naturals, Sequences, SequencesExt, FiniteSets, FiniteSetsExt

CONSTANT TopK   \* results asked for

ASSUME TopKAssumption == TopK \in Nat \ {0}

\* The orders of n of the chunks.
Orders(Chunks, n) ==
    {s \in [1 .. n -> Chunks] : \A i, j \in 1 .. n : i # j => s[i] # s[j]}

\* The possible results of Search with a limit: the nearest chunks, each once.
Rankings(Chunks, limit) == Orders(Chunks, Min({limit, Cardinality(Chunks)}))

\* The possible results of KeywordSearch: only chunks with a term of the question.
KeywordRankings(Chunks, limit) ==
    UNION {Orders(Chunks, n) : n \in 0 .. Min({limit, Cardinality(Chunks)})}

\* The scores 1/(60 + rank) of reciprocal rank fusion, times a common denominator.
K == 60
Products ==
    LET product[n \in 0 .. 2 * TopK] == IF n = 0 THEN 1 ELSE product[n - 1] * (K + n)
    IN  product
Denominator == Products[2 * TopK]

\* Mutant of RankScore: the constant that flattens the ranks is left out.
RankScoreSteep(rank) == (Denominator * K) \div rank

RankScore(rank) == Denominator \div (K + rank)

RankOf(id, ranking) == CHOOSE i \in DOMAIN ranking : ranking[i] = id

ScoreIn(id, ranking) == IF id \in ToSet(ranking) THEN RankScore(RankOf(id, ranking)) ELSE 0

FusedScore(id, vec, kw) == ScoreIn(id, vec) + ScoreIn(id, kw)

\* The possible results: sort.Slice is not stable and starts from the order of a map,
\* so equal scores may come in any order, and the cut at topK between them too.
HybridResults(vec, kw) ==
    LET Found == ToSet(vec) \cup ToSet(kw)
        Score == [id \in Found |-> FusedScore(id, vec, kw)]
        Sorted == {s \in SetToSeqs(Found) :
                     \A i \in 1 .. Len(s) - 1 : Score[s[i]] >= Score[s[i + 1]]}
    IN  {SubSeq(s, 1, Min({TopK, Len(s)})) : s \in Sorted}
=============================================================================
