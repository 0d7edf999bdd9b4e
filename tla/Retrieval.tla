------------------------------- MODULE Retrieval -------------------------------
(***************************************************************************)
(* Search over the index: the lexical half, the await on the embedding     *)
(* model, the semantic half, and their fusion; beside it the embedder that *)
(* keeps the vectors, while sources change what is indexed and who may     *)
(* read it.  One reader searches; a document's permissions are what they   *)
(* say of that reader once its groups are expanded.                        *)
(***************************************************************************)
EXTENDS Naturals, FiniteSets, Sequences, Functions, Orders

CONSTANTS
    Docs,          \* document ids: numbers, for ties are broken by id
    Wordings,         \* positive numbers: what a document may say
    Wordy,         \* texts that hold the query's words
    Near,          \* texts whose vectors clear MIN_SIMILARITY for the query
    Syncs,         \* ingestion runs that may be under way at once
    Models,        \* embedding models a deployment may be configured with
    Limit,         \* results asked for
    MaxChanges     \* bound: changes of the corpus

ASSUME RetrievalAssumption ==
    /\ Docs \subseteq Nat \ {0} /\ IsFiniteSet(Docs) /\ Wordings \subseteq Nat \ {0}
    /\ Wordy \subseteq Wordings /\ Near \subseteq Wordings
    /\ Models # {}
    /\ Limit \in 1..10         \* the search tool's MAX_RESULTS
    /\ MaxChanges \in Nat

VARIABLES
    corpus,      \* DocumentIndex: text (0: not indexed) and whether the reader is permitted
    vectors,     \* VectorIndex: text a vector was made of (0: none), its digest, its model
    embeddings,        \* EmbeddingStore: the row of each document and model
    embedding,   \* per ingestion run: the captured documents still to embed
    space,       \* the configured embedding model
    query,       \* the search: where it is, its lexical hits, its answer
    exposed,     \* documents, with their text, readable at some moment of the search
    changes,
    lapsed,      \* history: documents whose vector may be of another text, and why is below
    unkept       \* history: documents whose row may be of another text than their vector

keeping == <<lapsed, unkept>>
retrievalVars == <<corpus, vectors, embeddings, embedding, space, query, exposed, changes, keeping>>

Absentee == [text |-> 0, open |-> FALSE]
NoVector == [text |-> 0, digest |-> 0, model |-> "none"]
Idle     == [at |-> "idle", of |-> [d \in Docs |-> 0], put |-> 0]
Quiet    == [at |-> "idle", lexical |-> <<>>, close |-> <<>>, hits |-> <<>>, semantic |-> FALSE]

Tasks ==
    [at : {"idle", "embedding", "putting"}, of : [Docs -> Wordings \union {0}], put : Docs \union {0}]

RetrievalTypes ==
    /\ corpus \in [Docs -> [text : Wordings \union {0}, open : BOOLEAN]]
    /\ vectors \in [Docs -> [text : Wordings \union {0}, digest : Wordings \union {0},
                             model : Models \union {"none"}]]
    /\ embedding \in [Syncs -> Tasks]
    /\ query.at \in {"idle", "embedding", "done"} /\ query.semantic \in BOOLEAN
    /\ lapsed \subseteq Docs /\ unkept \subseteq Docs

RetrievalInit ==
    /\ corpus = [d \in Docs |-> Absentee]
    /\ vectors = [d \in Docs |-> NoVector]
    /\ embeddings = [d \in Docs |-> [m \in Models |-> NoVector]]
    /\ embedding = [i \in Syncs |-> Idle]
    /\ space = CHOOSE m \in Models : TRUE
    /\ query = Quiet
    /\ exposed = {}
    /\ changes = 0
    /\ lapsed = {} /\ unkept = {}

-----------------------------------------------------------------------------
(* What the reader may read, and the two rankings.                         *)

Legible(c) == {d \in Docs : c[d].text # 0 /\ c[d].open}
Pages(c)   == {<<d, c[d].text>> : d \in Legible(c)}

(* Each half looks this far; scores are not modelled, so any of the        *)
(* matches may come first, in any order.                                   *)
Half == IF Limit * 2 > 10 THEN Limit * 2 ELSE 10
Rankings(matches) ==
    Injection(1..(IF Cardinality(matches) < Half THEN Cardinality(matches) ELSE Half), matches)

(* DocumentIndex.search, over the readable documents only.                 *)
Lexical == Rankings({p \in Pages(corpus) : p[2] \in Wordy})

(* VectorIndex.search over the ids readable now.                           *)
Neighbours == Rankings({d \in Legible(corpus) : vectors[d].text \in Near})

Enabled == \E d \in Docs : vectors[d] # NoVector

(* fuse: weight / (60 + rank) of each list as a fraction, twice 1 for      *)
(* words and twice 1.5 for meaning; ties by id; the first Limit.           *)
RRF_K == 60
Share(s, d, weight) ==
    IF d \in Range(s)
    THEN [over |-> weight, under |-> RRF_K + CHOOSE r \in DOMAIN s : s[r] = d]
    ELSE [over |-> 0, under |-> 1]
Score(words, meaning, d) ==
    LET w == Share(words, d, 2)
        m == Share(meaning, d, 3)
    IN  [over |-> w.over * m.under + m.over * w.under, under |-> w.under * m.under]
Less(a, b)  == a.over * b.under < b.over * a.under
Level(a, b) == a.over * b.under = b.over * a.under

Ids(hits) == [r \in DOMAIN hits |-> hits[r][1]]
First(s)  == SubSeq(s, 1, IF Len(s) < Limit THEN Len(s) ELSE Limit)

Fused(words, meaning) ==
    LET found == Range(words) \union Range(meaning)
        score == [d \in found |-> Score(words, meaning, d)]
    IN  First(Sorted(found, {ab \in found \X found :
                 \/ Less(score[ab[2]], score[ab[1]])
                 \/ (Level(score[ab[2]], score[ab[1]]) /\ ab[1] < ab[2])}))

(* HybridSearch renders a fused id from its lexical hit, the document as   *)
(* it was found, where there is one; else it asks the index again.         *)
Page(d, lexical) ==
    IF d \in Range(Ids(lexical))
    THEN lexical[CHOOSE r \in DOMAIN lexical : lexical[r][1] = d]
    ELSE <<d, corpus[d].text>>
Rendered(order, lexical) ==
    LET kept   == {r \in DOMAIN order : order[r] \in Range(Ids(lexical)) \union Legible(corpus)}
        places == Sorted(kept, Rising(kept))
    IN  [n \in DOMAIN places |-> Page(order[places[n]], lexical)]

-----------------------------------------------------------------------------
(* The sources.                                                            *)

Reindex(c) ==
    /\ changes < MaxChanges
    /\ changes' = changes + 1
    /\ corpus' = c
    /\ exposed' = IF query.at = "embedding" THEN exposed \union Pages(c) ELSE exposed

(* Ingestor.sync: the batch is indexed, then given to Embedder.sync, which *)
(* leaves out the documents whose vector has their digest.  A document that *)
(* another sync still holds is lapsed: either may put its vector last.     *)
Holds(i, d) == embedding[i].of[d] # 0
Held        == {d \in Docs : \E i \in Syncs : Holds(i, d)}

(* variant: keyed by the document alone, whatever its text *)
IsKnown(d, text)   == vectors[d].digest # 0
IsCurrent(d, text) == vectors[d].digest = text
Take(i) ==
    /\ embedding[i].at = "idle"
    /\ \E batch \in (SUBSET Docs) \ {{}}, text \in [Docs -> Wordings], open \in BOOLEAN :
         LET of == [d \in Docs |-> IF d \in batch /\ ~IsCurrent(d, text[d]) THEN text[d] ELSE 0]
         IN  /\ \A d \in Docs \ batch : text[d] = CHOOSE t \in Wordings : TRUE
             /\ Reindex([d \in Docs |-> IF d \in batch THEN [text |-> text[d], open |-> open]
                                        ELSE corpus[d]])
             /\ embedding' = IF \E d \in Docs : of[d] # 0
                             THEN [embedding EXCEPT ![i] = [Idle EXCEPT !.at = "embedding", !.of = of]]
                             ELSE embedding
             /\ lapsed' = (lapsed \ batch) \union (batch \intersect Held)
             /\ unkept' = unkept \union (batch \intersect Held)
    /\ UNCHANGED <<vectors, embeddings, space, query>>

(* update_acl, and remove: neither touches a vector.                       *)
Permit(d) ==
    /\ corpus[d].text # 0
    /\ Reindex([corpus EXCEPT ![d].open = ~@])
    /\ UNCHANGED <<vectors, embeddings, embedding, space, query, keeping>>
Unlist(d) ==
    /\ corpus[d].text # 0
    /\ Reindex([corpus EXCEPT ![d] = Absentee])
    /\ UNCHANGED <<vectors, embeddings, embedding, space, query, keeping>>

-----------------------------------------------------------------------------
(* The embedder.  A batch whose embedding fails is left for another time.  *)

Embedded(i) ==
    /\ embedding[i].at = "embedding"
    /\ \E failed \in BOOLEAN :
         /\ embedding' = [embedding EXCEPT ![i] = IF failed THEN Idle ELSE [@ EXCEPT !.at = "putting"]]
         /\ lapsed' = IF failed THEN lapsed \union {d \in Docs : Holds(i, d)} ELSE lapsed
    /\ UNCHANGED <<corpus, vectors, embeddings, space, query, exposed, changes, unkept>>

(* The digest is taken of the captured document, not of what is indexed    *)
(* under its id by now.                                                    *)
VectorOf(i, d) ==
    [text |-> embedding[i].of[d], digest |-> embedding[i].of[d], model |-> space]

Put(i, d) ==
    /\ embedding[i].at = "putting" /\ embedding[i].put = 0 /\ embedding[i].of[d] # 0
    /\ vectors' = [vectors EXCEPT ![d] = VectorOf(i, d)]
    /\ embedding' = [embedding EXCEPT ![i].put = d]
    /\ UNCHANGED <<corpus, embeddings, space, query, exposed, changes, keeping>>

(* The row follows the vector, in a transaction of its own; when it fails  *)
(* the rest of the batch is given up.                                      *)
Preserve(i) ==
    LET d    == embedding[i].put
        rest == [embedding[i] EXCEPT !.of[d] = 0, !.put = 0]
    IN  /\ d # 0
        /\ \/ /\ embeddings' = [embeddings EXCEPT ![d][space] = VectorOf(i, d)]
              /\ embedding' = [embedding EXCEPT ![i] =
                                 IF \E e \in Docs : rest.of[e] # 0 THEN rest ELSE Idle]
              /\ unkept' = IF d \in lapsed THEN unkept ELSE unkept \ {d}
              /\ UNCHANGED lapsed
           \/ /\ embedding' = [embedding EXCEPT ![i] = Idle]
              /\ unkept' = unkept \union {d}
              /\ lapsed' = lapsed \union {e \in Docs : rest.of[e] # 0}
              /\ UNCHANGED embeddings
        /\ UNCHANGED <<corpus, vectors, space, query, exposed, changes>>

(* A restart, perhaps with another model: the rows of every other model    *)
(* are purged, and those of this one come back.                            *)
Purged(m)   == [d \in Docs |-> [n \in Models |-> IF n = m THEN embeddings[d][n] ELSE NoVector]]
LoadInto(m) == [d \in Docs |-> embeddings[d][m]]
Reboot(m) ==
    /\ changes < MaxChanges
    /\ changes' = changes + 1
    /\ space' = m
    /\ embeddings' = Purged(m)
    /\ vectors' = LoadInto(m)
    /\ embedding' = [i \in Syncs |-> Idle]
    /\ query' = Quiet
    /\ exposed' = {}
    /\ lapsed' = IF m = space THEN lapsed \union Held \union unkept ELSE Docs
    /\ unkept' = {}
    /\ UNCHANGED corpus

-----------------------------------------------------------------------------
(* The search.                                                             *)

Seek ==
    /\ query.at = "idle"
    /\ exposed' = Pages(corpus)
    /\ \E found \in Lexical :
         query' = IF Enabled
                  THEN [Quiet EXCEPT !.at = "embedding", !.lexical = found]
                  ELSE [Quiet EXCEPT !.at = "done", !.lexical = found, !.hits = First(found)]
    /\ UNCHANGED <<corpus, vectors, embeddings, embedding, space, changes, keeping>>

(* The query's vector comes, or does not and the words must do.            *)
Combine ==
    /\ query.at = "embedding"
    /\ \/ query' = [query EXCEPT !.at = "done", !.hits = First(query.lexical)]
       \/ \E close \in Neighbours :
            query' = [query EXCEPT !.at = "done", !.semantic = TRUE, !.close = close,
                                   !.hits = Rendered(Fused(Ids(query.lexical), close), query.lexical)]
    /\ UNCHANGED <<corpus, vectors, embeddings, embedding, space, exposed, changes, keeping>>

Hand ==
    /\ query.at = "done"
    /\ query' = Quiet
    /\ exposed' = {}
    /\ UNCHANGED <<corpus, vectors, embeddings, embedding, space, changes, keeping>>

RetrievalNext ==
    \/ \E i \in Syncs : Take(i) \/ Embedded(i) \/ Preserve(i) \/ \E d \in Docs : Put(i, d)
    \/ \E d \in Docs : Permit(d) \/ Unlist(d)
    \/ \E m \in Models : Reboot(m)
    \/ Seek \/ Combine \/ Hand

RetrievalSpec == RetrievalInit /\ [][RetrievalNext]_retrievalVars

-----------------------------------------------------------------------------
(* A document the reader could not read at any moment of the search is not *)
(* in its answer, in the text it had then; a text changed while the query  *)
(* was embedded is shown in a version the reader could read.               *)
NothingUnreadable == query.at = "done" => Range(query.hits) \subseteq exposed

(* The embedder keeps the vectors in step with the index: a document that  *)
(* no sync holds has a vector of the text indexed, made by the model       *)
(* configured, and its row survives a restart.  Not if it lapsed: the      *)
(* embedding or a save before it in the batch failed, two syncs held it at *)
(* once, or the program restarted while it was held, with its row not      *)
(* saved, or with another model.  The next sync that has it to itself      *)
(* mends that.                                                             *)
VectorsKeepStep ==
    \A d \in Docs : (corpus[d].text # 0 /\ d \notin Held \union lapsed)
                        => vectors[d].text = corpus[d].text /\ vectors[d].model = space

(* A document found by its meaning alone is not behind one found by its    *)
(* words alone, whatever their ranks: 3/(60 + r) against 2/(60 + q), up to *)
(* the 20 documents a half may find.                                       *)
Places(ids) == {r \in DOMAIN query.hits : query.hits[r][1] \in ids}
MeaningOutweighsWords ==
    query.semantic =>
        LET words == Range(Ids(query.lexical))
            meant == Range(query.close)
        IN  \A r \in Places(meant \ words), q \in Places(words \ meant) : r < q

(* What a search and the vectors behind it promise (knowledge/semantic.py, *)
(* knowledge/index.py).                                                    *)
SearchIsHonest == NothingUnreadable /\ VectorsKeepStep /\ MeaningOutweighsWords

(* The rule semantic.py:21 states, and docs/RETRIEVAL.md after it: two     *)
(* mediocre votes must not beat one excellent vote.  A document that the   *)
(* meaning puts first, and the words do not find, is not behind one that   *)
(* neither half puts first.                                                *)
ExcellentVoteWins ==
    (query.semantic /\ query.close # <<>>) =>
        LET words == Ids(query.lexical)
            best  == query.close[1]
            both  == Range(words) \intersect Range(query.close)
        IN  best \notin Range(words) =>
              \A r \in Places({best}), q \in Places({d \in both : d # words[1]}) : r < q
=============================================================================
