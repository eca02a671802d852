----------------------------- MODULE Retrieval -----------------------------
(***************************************************************************)
(* Rank fusion, as the retrieval pipeline (retrieval/pipeline.py) and the  *)
(* skill selector (skills/selector.py) use it.  The two retrievers are     *)
(* represented by what they return, cut at the callers' top_k: a keyword   *)
(* ranking, of documents sharing a word with the query, and a vector       *)
(* ranking, of any documents.  Scores are in units of 1e-9.                *)
(***************************************************************************)
EXTENDS Integers, Sequences, FiniteSets, SequencesExt, StableSort

CONSTANTS
    Chunks,     \* ids of the indexed chunks
    Boosted,    \* those the reranker favours for their name
    SearchK,    \* chunks each of the two searches returns at most
    TopK,       \* chunks cited in one evidence text
    Skills,     \* names of the skills in the catalog
    None        \* stands for Python's None

ASSUME ChunksAssumption == IsFiniteSet(Chunks) /\ Boosted \subseteq Chunks
ASSUME TopKAssumption == {SearchK, TopK} \subseteq Nat

(* RrfK = 60; the boost is 0.05; fused scores are rounded to six digits. *)
Reciprocal(rank) == 1000000000 \div (60 + rank)
Boost == 50000000
Rounded(score) == ((score + 500) \div 1000) * 1000

Rankings(S) == SetToAllKPermutations(S)

KeywordRankings(S, k) == {ranking \in Rankings(S) : Len(ranking) <= k}

(* Every document has a similarity to the query, if only a low one.        *)
VectorRankings(S, k) ==
    {ranking \in Rankings(S) :
        Len(ranking) = IF k < Cardinality(S) THEN k ELSE Cardinality(S)}

Position(ranking, id) == CHOOSE i \in DOMAIN ranking : ranking[i] = id

Contribution(ranking, id) ==
    IF Contains(ranking, id) THEN Reciprocal(Position(ranking, id)) ELSE 0

Score(keyword, vector, id) ==
    Contribution(keyword, id) + Contribution(vector, id)

(* Insertion order of the score table: the keyword hits first. *)
Candidates(keyword, vector) ==
    LET insert(table, id) == IF Contains(table, id) THEN table ELSE Append(table, id)
        inserted[n \in 0 .. Len(vector)] ==
          IF n = 0 THEN keyword ELSE insert(inserted[n - 1], vector[n])
    IN inserted[Len(vector)]

(* Faulty variant: sorted without reverse, lowest score first. *)
Ascending(ids, score) == HighestFirst(ids, [i \in DOMAIN ids |-> -score[ids[i]]])

Descending(ids, score) == HighestFirst(ids, [i \in DOMAIN ids |-> score[ids[i]]])

Fused(keyword, vector) ==
    Descending(Candidates(keyword, vector),
               [id \in ToSet(Candidates(keyword, vector)) |-> Score(keyword, vector, id)])

(* The fused order decides among equal scores, which rounding may create. *)
Reranked(keyword, vector) ==
    Descending(Fused(keyword, vector),
        [id \in ToSet(Fused(keyword, vector)) |->
            Rounded(Score(keyword, vector, id)) + IF id \in Boosted THEN Boost ELSE 0])

(* execute_pipeline: without keyword hits the best vector score must reach *)
(* vector_only_min_score.                                                  *)
Sufficient(keyword, vector, strong) ==
    keyword # << >> \/ (vector # << >> /\ strong)

(* reranked[:top_k] *)
Cited(keyword, vector) ==
    LET reranked == Reranked(keyword, vector)
    IN SubSeq(reranked, 1, IF Len(reranked) < TopK THEN Len(reranked) ELSE TopK)

(* select_and_activate: the first skill of the catalog the query names,    *)
(* else the best one, if the keyword search finds any; both searches       *)
(* return two at most.                                                     *)
SelectedSkill(catalog, named, keyword, vector) ==
    LET mentioned == SelectSeq(catalog, LAMBDA name : name \in named)
    IN CASE mentioned # << >> -> Head(mentioned)
         [] mentioned = << >> /\ keyword = << >> -> None
         [] OTHER -> Head(Fused(keyword, vector))

-----------------------------------------------------------------------------
(* What a query can lead to: the two searches' rankings, and neither finds *)
(* anything for an empty query.                                            *)

Searches(S, k) ==
    (KeywordRankings(S, k) \X VectorRankings(S, k)) \cup {<< << >>, << >> >>}

Retrievals ==
    {[keyword |-> search[1], vector |-> search[2], cited |-> Cited(search[1], search[2])] :
        search \in Searches(Chunks, SearchK)}

Selections ==
    {SelectedSkill(choice[1], choice[2], choice[3][1], choice[3][2]) :
        choice \in SetToSeqs(Skills) \X (SUBSET Skills) \X Searches(Skills, 2)}

(* For the properties: a ranking that gives id a place no lower than that  *)
(* of the other, if it gives the other one.                                *)
RankedNoLower(ranking, id, other) ==
    Contains(ranking, other) =>
        Contains(ranking, id) /\ Position(ranking, id) <= Position(ranking, other)

=============================================================================
