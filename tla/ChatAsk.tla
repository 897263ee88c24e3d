------------------------------ MODULE ChatAsk ------------------------------
(***************************************************************************)
(* POST /ask and /ask/stream of the chat backend over the answer cache     *)
(* (F43): exact, semantic and retrieve tiers, then generation.  Asks run   *)
(* in threads of one process and share the cache without a lock; between   *)
(* the steps of one ask (embedding, retrieval, generation are remote) any  *)
(* number of others run.  The two routes do the same to the cache: a       *)
(* stream stores its answer after the last token, and a stream the client  *)
(* closes is an ask that fails.  What is retrieved is Retrieval.           *)
(***************************************************************************)
EXTENDS Integers, FiniteSets

CONSTANTS
  Asks,          \* normalised question and locale: what a cache key is made of
  Threads,       \* asks at a time
  CacheTtl,      \* VECINITA_RAG_CACHE_TTL_S in ticks
  MaxEntries,    \* VECINITA_RAG_CACHE_MAX_ENTRIES
  MaxTurn        \* bound on the ticks an ask takes: the time limits of its calls

ASSUME ChatAssumption ==
  /\ Asks \subseteq STRING \X STRING
  /\ CacheTtl \in Nat \ {0} /\ MaxEntries \in Nat \ {0} /\ MaxTurn \in Nat
  /\ IsFiniteSet(Threads)

VARIABLES
  cache,      \* key -> its entry, for the keys that have one
  older,      \* <<j, k>> when the entry of j was used before that of k: the order of _entries
  asking      \* thread -> its ask and what it does next

chatVars == <<cache, older, asking>>

\* what is served was read from the corpus at most so many whole ticks ago
MaxStale == 2 * (CacheTtl - 1) + 3 * MaxTurn
Ages     == 0..(MaxStale + 1)
Older(a) == IF a > MaxStale THEN a ELSE a + 1
None     == -1

Locale(k) == k[2]

(***************************************************************************)
(* Chunks and answers are the age of the chunks, in ticks; an answer also  *)
(* has the language it was asked for in, which is the locale of its key.   *)
(***************************************************************************)
Entries == [answer : Ages \cup {None}, chunks : Ages \cup {None}, left : 0..CacheTtl]

Places == {"exact", "semantic", "lookup", "retrieve", "putChunks", "generate", "putAnswer", "reply"}

Idle == [at |-> "idle"]
AskRecords == [at : Places, key : Asks, hold : Ages \cup {None},
               lang : {Locale(k) : k \in Asks}, spent : 0..MaxTurn, trim : BOOLEAN]

ChatTypeOK ==
  /\ DOMAIN cache \subseteq Asks /\ cache \in [DOMAIN cache -> Entries]
  /\ \A k \in DOMAIN cache : cache[k].answer # None \/ cache[k].chunks # None
  /\ older \subseteq (DOMAIN cache) \X (DOMAIN cache)
  /\ asking \in [Threads -> AskRecords \cup {Idle}]

ChatInit ==
  /\ cache = [k \in {} |-> 0] /\ older = {}
  /\ asking = [t \in Threads |-> Idle]

Busy(t, l) == asking[t].at = l /\ ~asking[t].trim
SetAsk(t, r) == asking' = [asking EXCEPT ![t] = r]
GoOn(t, l)  == SetAsk(t, [asking[t] EXCEPT !.at = l])
Untouched   == UNCHANGED <<cache, older>>

StartAsk(t, k) ==
  /\ asking[t] = Idle
  /\ SetAsk(t, [at |-> "exact", key |-> k, hold |-> None, lang |-> Locale(k),
               spent |-> 0, trim |-> FALSE])
  /\ Untouched

\* an ask that ends without an answer: a call of it raised, the client left, or two
\* threads dropped the same entry, which raises KeyError in one of them
AskFails(t) ==
  /\ asking[t] # Idle /\ ~asking[t].trim
  /\ SetAsk(t, Idle)
  /\ Untouched

-----------------------------------------------------------------------------
(***************************************************************************)
(* The cache: an expired entry is dropped by whoever meets it.             *)
(***************************************************************************)
Has(k)    == k \in DOMAIN cache
IsLive(k) == Has(k) /\ cache[k].left > 0

Forget(gone) ==
  /\ cache' = [j \in DOMAIN cache \ gone |-> cache[j]]
  /\ older' = {p \in older : p[1] \notin gone /\ p[2] \notin gone}

\* the entry of k is e now, and moves to the end
PutEntry(k, e) ==
  /\ cache' = [j \in DOMAIN cache \cup {k} |-> IF j = k THEN e ELSE cache[j]]
  /\ older' = {p \in older : k \notin {p[1], p[2]}} \cup {<<j, k>> : j \in DOMAIN cache \ {k}}

\* a slip: the time to live starts again with every use
GetLiveSliding(k) == IF IsLive(k) THEN PutEntry(k, [cache[k] EXCEPT !.left = CacheTtl]) ELSE Forget({k})

\* _get_live
GetLive(k) == IF IsLive(k) THEN PutEntry(k, cache[k]) ELSE Forget({k})

LookupExact(t) ==
  LET k == asking[t].key IN
  /\ Busy(t, "exact")
  /\ GetLive(k)
  /\ IF IsLive(k) /\ cache[k].answer # None
     THEN SetAsk(t, [asking[t] EXCEPT !.at = "reply", !.hold = cache[k].answer])
     ELSE GoOn(t, "semantic")

\* a slip: the language of the cached answer is not looked at
SemanticAnyLanguage(t) == {k \in DOMAIN cache : IsLive(k) /\ cache[k].answer # None}

\* a live answer in the language of the ask; whether its question is close enough is
\* up to the embeddings
SemanticMatches(t) ==
  {k \in DOMAIN cache : /\ IsLive(k) /\ cache[k].answer # None
                        /\ Locale(k) = Locale(asking[t].key)}

LookupSemantic(t) ==
  /\ Busy(t, "semantic")
  /\ Forget({k \in DOMAIN cache : ~IsLive(k)})
  /\ \/ GoOn(t, "lookup")
     \/ \E k \in SemanticMatches(t) :
          SetAsk(t, [asking[t] EXCEPT !.at = "reply", !.hold = cache[k].answer, !.lang = Locale(k)])

LookupRetrieve(t) ==
  LET k == asking[t].key IN
  /\ Busy(t, "lookup")
  /\ GetLive(k)
  /\ IF IsLive(k) /\ cache[k].chunks # None
     THEN SetAsk(t, [asking[t] EXCEPT !.at = "generate", !.hold = cache[k].chunks])
     ELSE GoOn(t, "retrieve")

\* a slip: that nothing was found is stored as well (BUG-2026-09-09)
RetrieveNothing(t) ==
  /\ Busy(t, "retrieve")
  /\ \E found \in {0, None} : SetAsk(t, [asking[t] EXCEPT !.at = "putChunks", !.hold = found])
  /\ Untouched

\* chunks are read from the corpus as it is now; when there are none the answer is the
\* no-context message, and nothing is stored
Retrieve(t) ==
  /\ Busy(t, "retrieve")
  /\ \/ SetAsk(t, [asking[t] EXCEPT !.at = "putChunks", !.hold = 0])
     \/ SetAsk(t, Idle)
  /\ Untouched

\* the other half of the entry, expired or not
KeptAnswer(k) == IF Has(k) THEN cache[k].answer ELSE None
KeptChunks(k) == IF Has(k) THEN cache[k].chunks ELSE None

\* store_retrieve
PutChunks(t) ==
  LET k == asking[t].key IN
  /\ Busy(t, "putChunks")
  /\ PutEntry(k, [answer |-> KeptAnswer(k), chunks |-> asking[t].hold, left |-> CacheTtl])
  /\ SetAsk(t, [asking[t] EXCEPT !.at = "generate", !.trim = TRUE])

\* the prompt is built and completed, and verified when that is on
Generate(t) == Busy(t, "generate") /\ GoOn(t, "putAnswer") /\ Untouched

\* store_answer
PutAnswer(t) ==
  LET k == asking[t].key IN
  /\ Busy(t, "putAnswer")
  /\ PutEntry(k, [answer |-> asking[t].hold, chunks |-> KeptChunks(k), left |-> CacheTtl])
  /\ SetAsk(t, [asking[t] EXCEPT !.at = "reply", !.trim = TRUE])

Excess == Cardinality(DOMAIN cache) > MaxEntries
PopOldest == \E k \in DOMAIN cache : /\ \A j \in DOMAIN cache \ {k} : <<k, j>> \in older
                                    /\ Forget({k})

\* a slip: the cache is not trimmed behind chunks
EvictForAnswers(t) ==
  /\ asking[t] # Idle /\ asking[t].trim
  /\ IF Excess /\ asking[t].at = "reply" THEN PopOldest /\ UNCHANGED asking
     ELSE SetAsk(t, [asking[t] EXCEPT !.trim = FALSE]) /\ Untouched

\* _evict_if_needed, one entry at a time
Evict(t) ==
  /\ asking[t] # Idle /\ asking[t].trim
  /\ IF Excess THEN PopOldest /\ UNCHANGED asking
     ELSE SetAsk(t, [asking[t] EXCEPT !.trim = FALSE]) /\ Untouched

Reply(t) ==
  /\ Busy(t, "reply")
  /\ SetAsk(t, Idle)
  /\ Untouched

-----------------------------------------------------------------------------
Passed(r) == IF r = Idle THEN r
             ELSE [r EXCEPT !.spent = @ + 1,
                            !.hold = IF @ = None \/ r.at = "reply" THEN @ ELSE Older(@)]

TimePasses ==
  /\ \A t \in Threads : asking[t] # Idle => asking[t].spent < MaxTurn
  /\ asking' = [t \in Threads |-> Passed(asking[t])]
  /\ cache' = [k \in DOMAIN cache |->
       [cache[k] EXCEPT !.left = IF @ = 0 THEN 0 ELSE @ - 1,
                        !.answer = IF @ = None THEN @ ELSE Older(@),
                        !.chunks = IF @ = None THEN @ ELSE Older(@)]]
  /\ UNCHANGED older

AskStep(t) ==
  \/ LookupExact(t) \/ LookupSemantic(t) \/ LookupRetrieve(t) \/ Retrieve(t) \/ Generate(t)
  \/ PutChunks(t) \/ PutAnswer(t) \/ Evict(t) \/ Reply(t)

ChatNext ==
  \/ TimePasses
  \/ \E t \in Threads : AskStep(t) \/ AskFails(t) \/ \E k \in Asks : StartAsk(t, k)

ChatSpec == ChatInit /\ [][ChatNext]_chatVars

-----------------------------------------------------------------------------
(***************************************************************************)
(* What is correct.                                                        *)
(***************************************************************************)

\* However asks of one question overlap and renew each other's entry, what is served
\* was read from the corpus at most twice the TTL and three asks ago: chunks are read,
\* kept for a TTL, made into an answer that is kept for another, and an ask that
\* started before there was an answer renews it once with chunks of its own.
AnswerNotTooOld ==
  \A t \in Threads : asking[t].at = "reply" => asking[t].hold <= MaxStale

\* An answer is in the language it was asked for in, whatever tier it came from.
AnswerInLanguage ==
  \A t \in Threads : asking[t].at = "reply" => asking[t].lang = Locale(asking[t].key)

\* The cache is over its size only by what threads are about to evict.
CacheWithinSize ==
  Cardinality(DOMAIN cache) <=
    MaxEntries + Cardinality({t \in Threads : asking[t] # Idle /\ asking[t].trim})

\* What the answer cache promises, whoever shares it.
CachePromise == AnswerNotTooOld /\ AnswerInLanguage /\ CacheWithinSize
=============================================================================
