----------------------------- MODULE Retrieval -----------------------------
(***************************************************************************)
(* What one ask retrieves (retrieve_chat_chunks): several variants of the  *)
(* question, each in passes with and without a language and tags, merged   *)
(* and cut several times on the way, and reranked.  A corpus and the        *)
(* settings are chosen, the pipeline is run once, and its result is        *)
(* compared with what one would ask of it directly.                        *)
(*                                                                         *)
(* Scores are whole numbers, one for each variant of the question.  The    *)
(* ask is in Spanish: English is the same without the supplement.          *)
(***************************************************************************)
EXTENDS Integers, FiniteSetsExt

CONSTANTS
  Kinds,         \* chunks there may be: language, whether a tag of the ask is on it, scores
  MaxCorpus,     \* bound on the chunks of a corpus
  TopKs,         \* the values of top_k to consider
  MinScore,      \* min_retrieval_score
  LocaleBoost    \* _LOCALE_SCORE_BOOST

ASSUME RetrievalAssumption ==
  /\ Kinds \subseteq [lang : {"es", "en"}, tag : BOOLEAN, s : Nat \X Nat]
  /\ IsFiniteSet(Kinds)
  /\ MaxCorpus \in Nat
  /\ TopKs \subseteq Nat \ {0}
  /\ MinScore \in Nat /\ LocaleBoost \in Nat

VARIABLES
  corpus,     \* the published chunks
  knob,       \* settings, and what there is to know of the question
  answered,   \* whether the ask is over
  hits        \* what it retrieved

retrievalVars == <<corpus, knob, answered, hits>>

Asked == "es"

Corpora == UNION {kSubset(n, Kinds) : n \in 0..MaxCorpus}

\* queries: the variants of each question, by F42 (one question) and by F81 (several)
Knobs == [topK : TopKs, soft : BOOLEAN, tags : BOOLEAN, esl : BOOLEAN,
          queries : {{{1}}, {{1, 2}}, {{1}, {2}}}, ce : {"off", "tagged", "none"}]

RetrievalTypeOK ==
  /\ corpus \subseteq Kinds
  /\ knob \in Knobs
  /\ answered \in BOOLEAN
  /\ \A h \in hits : h.chunk \in corpus /\ h.score \in {h.chunk.s[v] : v \in {1, 2}}
  /\ \A h, g \in hits : h.chunk = g.chunk => h = g
  /\ Cardinality(hits) <= knob.topK

RetrievalInit ==
  /\ corpus \in Corpora
  /\ knob \in Knobs
  /\ answered = FALSE
  /\ hits = {}

-----------------------------------------------------------------------------
(***************************************************************************)
(* The passes of one variant.                                              *)
(***************************************************************************)
\* what a hit is ranked by, when the language of the ask is worth so much more
Rank(h, boost) == h.score + IF h.chunk.lang = Asked THEN boost ELSE 0

\* the k best of H; which of equals is not said
Top(H, k, boost) ==
  IF Cardinality(H) <= k THEN H
  ELSE CHOOSE T \in SUBSET H :
         Cardinality(T) = k /\ \A t \in T, u \in H \ T : Rank(t, boost) >= Rank(u, boost)

\* with a cross-encoder more candidates are retrieved
RetrieveK == IF knob.ce = "off" THEN knob.topK ELSE 2 * knob.topK

\* retrieve_chunks: the limit is of the query, the threshold comes after it
RetrieveChunks(v, langs, tagged) ==
  LET found == {[chunk |-> c, score |-> c.s[v]] :
                  c \in {d \in corpus : d.lang \in langs /\ (tagged => d.tag)}}
  IN {h \in Top(found, RetrieveK, 0) : h.score >= MinScore}

\* a slip: with tags there is no second pass
NoTagFallback(v, langs) == RetrieveChunks(v, langs, knob.tags)

TagFallback(v, langs) ==
  LET tagged == RetrieveChunks(v, langs, knob.tags)
  IN IF tagged = {} THEN RetrieveChunks(v, langs, FALSE) ELSE tagged

\* a slip: the second pass is not restricted to an empty first one
SoftLanguageAlways(v) == TagFallback(v, IF knob.soft THEN {"es", "en"} ELSE {Asked})

SoftLanguage(v) ==
  LET first == TagFallback(v, {Asked})
  IN IF first = {} /\ knob.soft THEN TagFallback(v, {"es", "en"}) ELSE first

\* merge_es_esl_retrieval_for_r6: two of the first, and the English pages
LanguageLayers(v) ==
  IF knob.esl
  THEN Top(Top(SoftLanguage(v), 2, 0) \cup TagFallback(v, {"en"}), RetrieveK, 0)
  ELSE SoftLanguage(v)

-----------------------------------------------------------------------------
(***************************************************************************)
(* Variants and questions together.                                        *)
(***************************************************************************)
\* a slip: the score of a chunk is one that was seen, not the highest
SomeScore(H) == {h \in H : \A g \in H : g.chunk = h.chunk => g.score >= h.score}

\* merge_multi_query_hits: each chunk once, with its highest score
BestScore(H) == {h \in H : \A g \in H : g.chunk = h.chunk => g.score <= h.score}

\* multi_query_retrieve: a near tie goes to the language of the ask
MultiQuery(variants) ==
  LET merged == IF Cardinality(variants) = 1 THEN UNION {LanguageLayers(v) : v \in variants}
                ELSE Top(BestScore(UNION {LanguageLayers(v) : v \in variants}), 2 * RetrieveK, 0)
  IN Top(merged, RetrieveK, LocaleBoost)

Candidates == Top(BestScore(UNION {MultiQuery(q) : q \in knob.queries}), RetrieveK, 0)

\* what the cross-encoder thinks of a chunk, below the threshold or not
CeLikes(h) == knob.ce = "tagged" /\ h.chunk.tag

\* a slip: all candidates come back when the cross-encoder likes none
RerankUncut(H) ==
  LET liked == {h \in H : CeLikes(h)}
  IN IF liked # {} THEN Top(liked, knob.topK, 0) ELSE H

\* a candidate set of which the cross-encoder likes nothing is used as it is
Rerank(H) ==
  LET liked == {h \in H : CeLikes(h)}
  IN IF knob.ce = "off" THEN H
     ELSE IF liked # {} THEN Top(liked, knob.topK, 0) ELSE Top(H, knob.topK, 0)

RetrieveChat ==
  /\ ~answered
  /\ answered' = TRUE
  /\ hits' = Rerank(Candidates)
  /\ UNCHANGED <<corpus, knob>>

RetrievalNext == RetrieveChat

RetrievalSpec == RetrievalInit /\ [][RetrievalNext]_retrievalVars

-----------------------------------------------------------------------------
(***************************************************************************)
(* What is correct.                                                        *)
(***************************************************************************)
Found(langs) == {c \in corpus : c.lang \in langs /\
                                \E v \in UNION knob.queries : c.s[v] >= MinScore}

Visible == Found({Asked} \cup IF knob.soft \/ knob.esl THEN {"en"} ELSE {})

\* The answer is "no context" only when no variant of the question matches any chunk
\* it may see, whatever was cut, filtered by tags or thrown out by the cross-encoder on
\* the way (BUG-2026-09-09).
EmptyOnlyIfNothing == answered /\ hits = {} => Visible = {}

\* A chunk in another language is a last resort: without the English supplement it is
\* there only when some variant of the question matches nothing in the language of the
\* ask.
OtherLanguageIsLastResort ==
  answered /\ ~knob.esl /\ (\E h \in hits : h.chunk.lang # Asked)
    => knob.soft /\ \E v \in UNION knob.queries :
                      \A c \in corpus : c.lang = Asked => c.s[v] < MinScore

\* No cut loses the best: the best chunk of the corpus, when it is in the language of
\* the ask, has a tag when tags are asked for, and the cross-encoder has no say, is in
\* what is retrieved, and with its own score.
Peak(c) == Max({c.s[v] : v \in UNION knob.queries})

BestIsKept ==
  answered /\ knob.ce = "off" =>
    \A c \in Visible : c.lang = Asked /\ (knob.tags => c.tag)
                       /\ (\A d \in Visible \ {c} : Peak(d) < Peak(c))
      => [chunk |-> c, score |-> Peak(c)] \in hits

\* What the layers of fallbacks, cuts and boosts keep together.
RetrievalPromise == EmptyOnlyIfNothing /\ OtherLanguageIsLastResort /\ BestIsKept
=============================================================================
