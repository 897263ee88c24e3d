----------------------------- MODULE ChatProofs -----------------------------
(***************************************************************************)
(* The promises of a chat ask: of the answer cache (ChatAsk), for any      *)
(* number of questions, any finite number of threads, any time to live and *)
(* any size, and of what is retrieved (Retrieval), for any finite corpus   *)
(* and any settings.                                                       *)
(*                                                                         *)
(* That an answer is not too old is not inductive: an entry lives as long  *)
(* as it is stored again, and the half that was not stored again keeps its *)
(* age.  What bounds it is that a half is only kept by an ask that did not *)
(* find it while it was live, and such an ask has had a turn at most to    *)
(* come to its store.  So the invariant bounds what each ask holds, and    *)
(* what is in the entry of its question, by how long the ask is at it.     *)
(*                                                                         *)
(* What is retrieved is a function of the corpus and the settings.  Each   *)
(* layer is shown to return only what some variant matches, to return      *)
(* something when something matches, and to keep a hit that leads all      *)
(* others; whichever of equal hits a cut takes.                            *)
(***************************************************************************)
EXTENDS ChatAsk, Retrieval, FiniteSetTheorems, WellFoundedInduction, TLAPS

\* the oldest chunks an ask that has just begun can find in the cache
ChunkAge == MaxTurn + CacheTtl - 1

\* an ask past the exact tier found no answer of its question there, or no live entry
Missed == {"semantic", "lookup", "retrieve", "putChunks"}

\* What an ask holds and will hold is bounded by its own age: chunks that outlive their
\* time to live, because an answer renewed their entry, were still live when it began.
HoldsFresh(r) ==
  /\ r.lang = Locale(r.key)
  /\ r.at \in {"putChunks", "generate", "putAnswer", "reply"} => r.hold # None
  /\ r.at = "putChunks" => r.hold <= r.spent
  /\ r.at \in {"generate", "putAnswer"} => r.hold <= ChunkAge + r.spent
  /\ r.at = "reply" => r.hold <= MaxStale

FindsFresh(r, e) ==
  /\ r.at \in {"semantic", "lookup"} => e.chunks <= ChunkAge + r.spent
  /\ r.at \in Missed => e.answer <= ChunkAge + MaxTurn + r.spent

IsFresh(e) ==
  e.left > 0 => /\ e.answer = None => e.chunks <= MaxTurn + CacheTtl - e.left
                /\ e.answer <= ChunkAge + 2 * MaxTurn + CacheTtl - e.left

Fresh ==
  /\ \A k \in DOMAIN cache : IsFresh(cache[k])
  /\ \A t \in Threads : asking[t] # Idle =>
       /\ HoldsFresh(asking[t])
       /\ asking[t].key \in DOMAIN cache => FindsFresh(asking[t], cache[asking[t].key])

Trimming == {t \in Threads : asking[t] # Idle /\ asking[t].trim}

ChatInv == ChatTypeOK /\ Fresh /\ IsFiniteSet(DOMAIN cache) /\ CacheWithinSize

\* the constants as numbers
LEMMA Numbers ==
  /\ MaxTurn \in Nat /\ CacheTtl \in Nat /\ CacheTtl >= 1 /\ None = -1
  /\ MaxStale = 2 * CacheTtl + 3 * MaxTurn - 2 /\ MaxStale \in Nat /\ Ages = 0..(MaxStale + 1)
  /\ ChunkAge = MaxTurn + CacheTtl - 1 /\ ChunkAge \in Nat
BY ChatAssumption DEF MaxStale, Ages, None, ChunkAge

\* a tick makes an age one more at most
LEMMA OlderByOne ==
  ASSUME NEW a \in Ages
  PROVE  Older(a) \in Ages /\ Older(a) <= a + 1 /\ Older(a) # None
BY Numbers DEF Older

\* a thread at an ask is not idle
LEMMA IdleIsNoRecord == Idle \notin AskRecords /\ Idle.at = "idle"
BY DEF Idle, AskRecords, Places

\* an empty cache and no ask
LEMMA ChatInitInv == ChatInit => ChatInv
<1> SUFFICES ASSUME ChatInit PROVE ChatInv
  OBVIOUS
<1>1. DOMAIN cache = {} /\ cache \in [DOMAIN cache -> Entries] /\ older = {}
  BY DEF ChatInit
<1>2. \A t \in Threads : asking[t] = Idle
  BY DEF ChatInit
<1>3. ChatTypeOK
  BY <1>1 DEF ChatInit, ChatTypeOK
<1>4. Fresh
  BY <1>1, <1>2 DEF Fresh
<1>5. IsFiniteSet(DOMAIN cache) /\ Cardinality(DOMAIN cache) = 0
  BY <1>1, FS_EmptySet
<1>6. {t \in Threads : asking[t] # Idle /\ asking[t].trim} = {}
  BY <1>2
<1>7. CacheWithinSize
  <2>1. Cardinality({t \in Threads : asking[t] # Idle /\ asking[t].trim}) = 0
    BY <1>6, FS_EmptySet
  <2> QED BY <1>5, <2>1, ChatAssumption DEF CacheWithinSize
<1> QED BY <1>3, <1>4, <1>5, <1>7 DEF ChatInv

-----------------------------------------------------------------------------
(***************************************************************************)
(* What a step does to the cache.                                          *)
(***************************************************************************)
CacheTyped ==
  /\ DOMAIN cache \subseteq Asks /\ cache \in [DOMAIN cache -> Entries]
  /\ \A k \in DOMAIN cache : cache[k].answer # None \/ cache[k].chunks # None
  /\ older \subseteq (DOMAIN cache) \X (DOMAIN cache)

\* entries go, none is new or changed
Shrinks ==
  /\ DOMAIN cache' \subseteq DOMAIN cache
  /\ \A j \in DOMAIN cache' : cache'[j] = cache[j]

\* the type invariant in its two halves
LEMMA TypeParts ==
  ChatTypeOK <=> CacheTyped /\ asking \in [Threads -> AskRecords \cup {Idle}]
BY DEF ChatTypeOK, CacheTyped

\* dropping entries changes none of the others
LEMMA ForgetShrinks ==
  ASSUME CacheTyped, NEW gone, Forget(gone)
  PROVE  CacheTyped' /\ Shrinks /\ DOMAIN cache' = DOMAIN cache \ gone
<1>1. DOMAIN cache' = DOMAIN cache \ gone /\ \A j \in DOMAIN cache' : cache'[j] = cache[j]
  BY DEF Forget
<1>2. cache' \in [DOMAIN cache' -> Entries]
  BY <1>1 DEF Forget, CacheTyped
<1>3. older' \subseteq (DOMAIN cache') \X (DOMAIN cache')
  BY <1>1 DEF Forget, CacheTyped
<1> QED BY <1>1, <1>2, <1>3 DEF CacheTyped, Shrinks

\* storing an entry changes none of the others
LEMMA PutTyped ==
  ASSUME CacheTyped, NEW k \in Asks, NEW e \in Entries, e.answer # None \/ e.chunks # None,
         PutEntry(k, e)
  PROVE  /\ CacheTyped' /\ DOMAIN cache' = DOMAIN cache \cup {k} /\ cache'[k] = e
         /\ \A j \in DOMAIN cache \ {k} : cache'[j] = cache[j]
<1>1. /\ DOMAIN cache' = DOMAIN cache \cup {k} /\ cache'[k] = e
      /\ \A j \in DOMAIN cache \ {k} : cache'[j] = cache[j]
  BY DEF PutEntry
<1>2. cache' \in [DOMAIN cache' -> Entries]
  BY <1>1 DEF PutEntry, CacheTyped
<1>3. older' \subseteq (DOMAIN cache') \X (DOMAIN cache')
  BY <1>1 DEF PutEntry, CacheTyped
<1> QED BY <1>1, <1>2, <1>3 DEF CacheTyped

\* A look for a live entry keeps it, and drops one that is expired.
LEMMA GetLiveShrinks ==
  ASSUME CacheTyped, NEW k \in Asks, GetLive(k)
  PROVE  CacheTyped' /\ Shrinks /\ (k \in DOMAIN cache' => IsLive(k))
<1>1. CASE IsLive(k)
  <2>1. k \in DOMAIN cache /\ PutEntry(k, cache[k])
    BY <1>1 DEF GetLive, IsLive, Has
  <2>2. cache[k] \in Entries /\ (cache[k].answer # None \/ cache[k].chunks # None)
    BY <2>1 DEF CacheTyped
  <2>3. /\ CacheTyped' /\ DOMAIN cache' = DOMAIN cache \cup {k} /\ cache'[k] = cache[k]
        /\ \A j \in DOMAIN cache \ {k} : cache'[j] = cache[j]
    BY <2>1, <2>2, PutTyped
  <2> QED BY <1>1, <2>1, <2>3 DEF Shrinks
<1>2. CASE ~IsLive(k)
  BY <1>2, ForgetShrinks DEF GetLive
<1> QED BY <1>1, <1>2

-----------------------------------------------------------------------------
(***************************************************************************)
(* What a step does to one ask.                                            *)
(***************************************************************************)
\* One ask goes on as r while the cache changes: what is left to show is that r, the
\* entries, and what the others find in them are still fresh.
LEMMA OneAsk ==
  ASSUME ChatInv, NEW t \in Threads, NEW r \in AskRecords \cup {Idle}, SetAsk(t, r),
         CacheTyped', \A k \in DOMAIN cache' : IsFresh(cache'[k]),
         r # Idle => HoldsFresh(r) /\ (r.key \in DOMAIN cache' => FindsFresh(r, cache'[r.key])),
         \A u \in Threads \ {t} : asking[u] # Idle /\ asking[u].key \in DOMAIN cache'
           => FindsFresh(asking[u], cache'[asking[u].key])
  PROVE  ChatTypeOK' /\ Fresh'
<1>1. /\ asking' \in [Threads -> AskRecords \cup {Idle}] /\ asking'[t] = r
      /\ \A u \in Threads \ {t} : asking'[u] = asking[u]
  BY DEF SetAsk, ChatInv, ChatTypeOK
<1>2. ChatTypeOK'
  BY <1>1, TypeParts DEF ChatTypeOK, CacheTyped
<1>3. ASSUME NEW u \in Threads, asking'[u] # Idle
      PROVE  /\ HoldsFresh(asking'[u])
             /\ asking'[u].key \in DOMAIN cache' => FindsFresh(asking'[u], cache'[asking'[u].key])
  <2>1. CASE u = t
    BY <1>1, <1>3, <2>1
  <2>2. CASE u # t
    BY <1>1, <1>3, <2>2 DEF ChatInv, Fresh
  <2> QED BY <2>1, <2>2
<1>4. Fresh'
  BY <1>3 DEF Fresh, IsFresh, HoldsFresh, FindsFresh
<1> QED BY <1>2, <1>4

\* no entry is new, and the ask goes on as r
LEMMA AskOverShrunk ==
  ASSUME ChatInv, NEW t \in Threads, NEW r \in AskRecords \cup {Idle}, SetAsk(t, r),
         CacheTyped', Shrinks,
         r # Idle => HoldsFresh(r) /\ (r.key \in DOMAIN cache' => FindsFresh(r, cache[r.key]))
  PROVE  ChatTypeOK' /\ Fresh'
<1>1. \A k \in DOMAIN cache' : IsFresh(cache'[k])
  BY DEF ChatInv, Fresh, Shrinks
<1>2. r # Idle => HoldsFresh(r) /\ (r.key \in DOMAIN cache' => FindsFresh(r, cache'[r.key]))
  BY DEF Shrinks
<1>3. \A u \in Threads \ {t} : asking[u] # Idle /\ asking[u].key \in DOMAIN cache'
           => FindsFresh(asking[u], cache'[asking[u].key])
  BY DEF ChatInv, Fresh, Shrinks
<1> QED BY <1>1, <1>2, <1>3, OneAsk

\* the two sizes as numbers
LEMMA SizeNumbers ==
  ASSUME ChatInv
  PROVE  /\ Cardinality(DOMAIN cache) \in Nat /\ Cardinality(Trimming) \in Nat /\ MaxEntries \in Nat
         /\ IsFiniteSet(Trimming) /\ Cardinality(DOMAIN cache) <= MaxEntries + Cardinality(Trimming)
<1>1. IsFiniteSet(Trimming)
  BY ChatAssumption, FS_Subset DEF Trimming
<1> QED BY <1>1, FS_CardinalityType, ChatAssumption DEF ChatInv, CacheWithinSize, Trimming

\* entries go, and those who trim are still at it
LEMMA SizeShrinks ==
  ASSUME ChatInv, Shrinks, Trimming \subseteq Trimming', Trimming' \subseteq Threads
  PROVE  IsFiniteSet(DOMAIN cache)' /\ CacheWithinSize'
<1>1. /\ IsFiniteSet(DOMAIN cache') /\ Cardinality(DOMAIN cache') <= Cardinality(DOMAIN cache)
      /\ Cardinality(DOMAIN cache') \in Nat
  BY FS_Subset, FS_CardinalityType DEF Shrinks, ChatInv
<1>2. /\ IsFiniteSet(Trimming') /\ Cardinality(Trimming) <= Cardinality(Trimming')
      /\ Cardinality(Trimming') \in Nat
  <2>1. IsFiniteSet(Trimming')
    BY ChatAssumption, FS_Subset
  <2> QED BY <2>1, FS_Subset, FS_CardinalityType
<1>3. Cardinality(DOMAIN cache') <= MaxEntries + Cardinality(Trimming')
  BY <1>1, <1>2, SizeNumbers
<1> QED BY <1>1, <1>3 DEF CacheWithinSize, Trimming

\* one entry more, and one more who trims
LEMMA SizePut ==
  ASSUME ChatInv, NEW k, DOMAIN cache' = DOMAIN cache \cup {k},
         NEW t \in Threads, t \notin Trimming, Trimming' = Trimming \cup {t}
  PROVE  IsFiniteSet(DOMAIN cache)' /\ CacheWithinSize'
<1>1. /\ IsFiniteSet(DOMAIN cache') /\ Cardinality(DOMAIN cache') <= Cardinality(DOMAIN cache) + 1
      /\ Cardinality(DOMAIN cache') \in Nat
  <2>1. /\ IsFiniteSet(DOMAIN cache')
        /\ Cardinality(DOMAIN cache') = IF k \in DOMAIN cache THEN Cardinality(DOMAIN cache)
                                        ELSE Cardinality(DOMAIN cache) + 1
    BY FS_AddElement DEF ChatInv
  <2> QED BY <2>1, SizeNumbers
<1>2. Cardinality(Trimming') = Cardinality(Trimming) + 1
  BY FS_AddElement, SizeNumbers
<1>3. Cardinality(DOMAIN cache') <= MaxEntries + Cardinality(Trimming')
  BY <1>1, <1>2, SizeNumbers
<1> QED BY <1>1, <1>3 DEF CacheWithinSize, Trimming

\* who trims after a step of one thread
LEMMA TrimmingAfter ==
  ASSUME ChatInv, NEW t \in Threads, NEW r \in AskRecords \cup {Idle}, SetAsk(t, r)
  PROVE  /\ Trimming' \subseteq Threads
         /\ r # Idle /\ r.trim => Trimming' = Trimming \cup {t}
         /\ ~(r # Idle /\ r.trim) => Trimming' = Trimming \ {t}
<1>1. /\ asking'[t] = r
      /\ \A u \in Threads \ {t} : asking'[u] = asking[u]
  BY DEF SetAsk, ChatInv, ChatTypeOK
<1> QED BY <1>1 DEF Trimming

-----------------------------------------------------------------------------
(***************************************************************************)
(* The steps.                                                              *)
(***************************************************************************)
\* an ask at a place
LEMMA AskIsTyped ==
  ASSUME ChatInv, NEW t \in Threads, asking[t].at \in Places
  PROVE  /\ asking[t] \in AskRecords /\ asking[t] # Idle /\ asking[t].key \in Asks
         /\ HoldsFresh(asking[t]) /\ asking[t].spent \in 0..MaxTurn /\ asking[t].hold \in Ages \cup {None}
         /\ asking[t].key \in DOMAIN cache => FindsFresh(asking[t], cache[asking[t].key])
BY IdleIsNoRecord DEF ChatInv, ChatTypeOK, Fresh, AskRecords, Places

\* an entry of the cache
LEMMA EntryIsTyped ==
  ASSUME ChatInv, NEW k \in DOMAIN cache
  PROVE  /\ k \in Asks /\ cache[k] \in Entries /\ IsFresh(cache[k])
         /\ cache[k].answer \in Ages \cup {None} /\ cache[k].chunks \in Ages \cup {None}
         /\ cache[k].left \in 0..CacheTtl
         /\ cache[k].answer # None \/ cache[k].chunks # None
BY DEF ChatInv, ChatTypeOK, Fresh, Entries

\* an ask that does not trim goes on as r, or ends, and no entry is new
LEMMA QuietStep ==
  ASSUME ChatInv, NEW t \in Threads, t \notin Trimming, NEW r \in AskRecords \cup {Idle},
         r # Idle => ~r.trim, SetAsk(t, r), CacheTyped', Shrinks,
         r # Idle => HoldsFresh(r) /\ (r.key \in DOMAIN cache' => FindsFresh(r, cache[r.key]))
  PROVE  ChatInv'
<1>1. ChatTypeOK' /\ Fresh'
  BY AskOverShrunk
<1>2. Trimming' = Trimming /\ Trimming' \subseteq Threads
  BY TrimmingAfter
<1>3. IsFiniteSet(DOMAIN cache)' /\ CacheWithinSize'
  BY <1>2, SizeShrinks
<1> QED BY <1>1, <1>3 DEF ChatInv

\* leaving the cache alone makes nothing new
LEMMA UntouchedShrinks ==
  ASSUME ChatInv, Untouched
  PROVE  CacheTyped' /\ Shrinks
BY TypeParts DEF ChatInv, Untouched, CacheTyped, Shrinks

\* an ask that may take its step
LEMMA BusyAsk ==
  ASSUME ChatInv, NEW t \in Threads, NEW l \in Places, Busy(t, l)
  PROVE  /\ asking[t] \in AskRecords /\ asking[t] # Idle /\ asking[t].key \in Asks
         /\ HoldsFresh(asking[t]) /\ asking[t].spent \in 0..MaxTurn /\ asking[t].hold \in Ages \cup {None}
         /\ asking[t].key \in DOMAIN cache => FindsFresh(asking[t], cache[asking[t].key])
         /\ asking[t].at = l /\ ~asking[t].trim /\ t \notin Trimming
BY AskIsTyped DEF Busy, Trimming

\* An answer that is live was renewed less than a TTL ago; an ask that found none, live,
\* knows how old the chunks of its entry are.
LEMMA ExactStep ==
  ASSUME ChatInv, NEW t \in Threads, LookupExact(t)
  PROVE  ChatInv'
<1> DEFINE a == asking[t]
           k == a.key
           served == [a EXCEPT !.at = "reply", !.hold = cache[k].answer]
           missed == [a EXCEPT !.at = "semantic"]
<1>1. Busy(t, "exact") /\ GetLive(k) /\ "exact" \in Places
  BY DEF LookupExact, Places
<1>2. /\ a \in AskRecords /\ k \in Asks /\ HoldsFresh(a) /\ a.spent \in 0..MaxTurn
      /\ a.at = "exact" /\ ~a.trim /\ t \notin Trimming
  BY <1>1, BusyAsk
<1>3. CacheTyped' /\ Shrinks /\ (k \in DOMAIN cache' => IsLive(k))
  BY <1>1, <1>2, GetLiveShrinks, TypeParts DEF ChatInv
<1>4. CASE IsLive(k) /\ cache[k].answer # None
  <2>1. k \in DOMAIN cache /\ cache[k].left > 0
    BY <1>4 DEF IsLive, Has
  <2>2. cache[k].answer \in Ages /\ cache[k].answer <= MaxStale
    <3>1. /\ IsFresh(cache[k]) /\ cache[k].answer \in Ages /\ cache[k].left \in 0..CacheTtl
      BY <1>4, <2>1, EntryIsTyped
    <3>2. cache[k].answer <= ChunkAge + 2 * MaxTurn + CacheTtl - cache[k].left
      BY <2>1, <3>1 DEF IsFresh
    <3> DEFINE x == cache[k].answer
               l == cache[k].left
    <3>3. x \in Ages /\ l \in 0..CacheTtl /\ l > 0 /\ x <= ChunkAge + 2 * MaxTurn + CacheTtl - l
      BY <2>1, <3>1, <3>2
    <3> HIDE DEF x, l
    <3>4. x <= MaxStale
      BY <3>3, Numbers
    <3> QED BY <3>1, <3>4 DEF x
  <2>3. /\ served \in AskRecords /\ ~served.trim /\ served.at = "reply" /\ served.hold = cache[k].answer
        /\ served.key = a.key /\ served.lang = a.lang
    BY <1>2, <2>2 DEF AskRecords, Places
  <2>4. SetAsk(t, served)
    BY <1>4 DEF LookupExact
  <2> HIDE DEF served
  <2>5. HoldsFresh(served) /\ FindsFresh(served, cache[served.key])
    BY <1>2, <1>4, <2>2, <2>3 DEF HoldsFresh, FindsFresh, Missed
  <2> QED BY <1>2, <1>3, <2>3, <2>4, <2>5, QuietStep
<1>5. CASE ~(IsLive(k) /\ cache[k].answer # None)
  <2>1. /\ missed \in AskRecords /\ ~missed.trim /\ missed.at = "semantic" /\ missed.hold = a.hold
        /\ missed.key = a.key /\ missed.lang = a.lang /\ missed.spent = a.spent
    BY <1>2 DEF AskRecords, Places
  <2>2. SetAsk(t, missed)
    BY <1>5 DEF LookupExact, GoOn
  <2> HIDE DEF missed
  <2>3. HoldsFresh(missed)
    BY <1>2, <2>1 DEF HoldsFresh
  <2>4. ASSUME k \in DOMAIN cache' PROVE FindsFresh(missed, cache[k])
    <3>1. k \in DOMAIN cache /\ cache[k].left > 0 /\ cache[k].answer = None
      BY <1>3, <1>5, <2>4 DEF IsLive, Has
    <3>2. cache[k].chunks <= MaxTurn + CacheTtl - cache[k].left /\ cache[k].left \in 0..CacheTtl
          /\ cache[k].chunks \in Ages \cup {None}
      BY <3>1, EntryIsTyped DEF IsFresh
    <3>3. a.spent \in Nat
      BY <1>2, Numbers
    <3> DEFINE e == cache[k]
               s == a.spent
    <3>4. e.chunks \in Int /\ e.left \in Int /\ e.left >= 1 /\ e.answer = -1
          /\ e.chunks <= MaxTurn + CacheTtl - e.left /\ s \in Nat
      BY <3>1, <3>2, <3>3, Numbers
    <3> HIDE DEF e, s
    <3>5. e.chunks <= ChunkAge + s /\ e.answer <= ChunkAge + MaxTurn + s
      BY <3>4, Numbers
    <3> QED BY <2>1, <3>5 DEF FindsFresh, Missed, e, s
  <2>5. HoldsFresh(missed) /\ (missed.key \in DOMAIN cache' => FindsFresh(missed, cache[missed.key]))
    BY <2>1, <2>3, <2>4
  <2> QED BY <1>2, <1>3, <2>1, <2>2, <2>5, QuietStep
<1> QED BY <1>4, <1>5

\* what the semantic tier serves is live and in the language of the ask
LEMMA SemanticStep ==
  ASSUME ChatInv, NEW t \in Threads, LookupSemantic(t)
  PROVE  ChatInv'
<1> DEFINE a == asking[t]
           missed == [a EXCEPT !.at = "lookup"]
<1>1. Busy(t, "semantic") /\ "semantic" \in Places
  BY DEF LookupSemantic, Places
<1>2. /\ a \in AskRecords /\ a.key \in Asks /\ HoldsFresh(a) /\ a.spent \in 0..MaxTurn
      /\ a.at = "semantic" /\ ~a.trim /\ t \notin Trimming
      /\ a.key \in DOMAIN cache => FindsFresh(a, cache[a.key])
  BY <1>1, BusyAsk
<1>3. CacheTyped' /\ Shrinks
  BY ForgetShrinks, TypeParts DEF ChatInv, LookupSemantic
<1>4. CASE SetAsk(t, missed)
  <2>1. /\ missed \in AskRecords /\ ~missed.trim /\ missed.at = "lookup" /\ missed.hold = a.hold
        /\ missed.key = a.key /\ missed.lang = a.lang /\ missed.spent = a.spent
    BY <1>2 DEF AskRecords, Places
  <2> HIDE DEF missed
  <2>2. HoldsFresh(missed) /\ (a.key \in DOMAIN cache => FindsFresh(missed, cache[a.key]))
    BY <1>2, <2>1 DEF HoldsFresh, FindsFresh, Missed
  <2>3. HoldsFresh(missed) /\ (missed.key \in DOMAIN cache' => FindsFresh(missed, cache[missed.key]))
    BY <1>3, <2>1, <2>2 DEF Shrinks
  <2> QED BY <1>2, <1>3, <1>4, <2>1, <2>3, QuietStep
<1>5. ASSUME NEW k \in SemanticMatches(t),
             SetAsk(t, [a EXCEPT !.at = "reply", !.hold = cache[k].answer, !.lang = Locale(k)])
      PROVE  ChatInv'
  <2> DEFINE served == [a EXCEPT !.at = "reply", !.hold = cache[k].answer, !.lang = Locale(k)]
  <2>1. k \in DOMAIN cache /\ cache[k].left > 0 /\ cache[k].answer # None /\ Locale(k) = Locale(a.key)
    BY DEF SemanticMatches, IsLive
  <2>2. cache[k].answer \in Ages /\ cache[k].answer <= MaxStale
    BY <2>1, EntryIsTyped, Numbers DEF IsFresh
  <2>3. /\ served \in AskRecords /\ ~served.trim /\ served.at = "reply" /\ served.hold = cache[k].answer
        /\ served.key = a.key /\ served.lang = Locale(k)
    BY <1>2, <2>1, <2>2 DEF AskRecords, Places
  <2>4. SetAsk(t, served)
    BY <1>5
  <2> HIDE DEF served
  <2>5. HoldsFresh(served) /\ FindsFresh(served, cache[served.key])
    BY <1>2, <2>1, <2>2, <2>3 DEF HoldsFresh, FindsFresh, Missed
  <2> QED BY <1>2, <1>3, <2>3, <2>4, <2>5, QuietStep
<1> QED BY <1>4, <1>5 DEF LookupSemantic, GoOn

\* the chunks that outlive their TTL are bounded by the age of the ask that takes them
LEMMA RetrieveTierStep ==
  ASSUME ChatInv, NEW t \in Threads, LookupRetrieve(t)
  PROVE  ChatInv'
<1> DEFINE a == asking[t]
           k == a.key
           found == [a EXCEPT !.at = "generate", !.hold = cache[k].chunks]
           missed == [a EXCEPT !.at = "retrieve"]
<1>1. Busy(t, "lookup") /\ GetLive(k) /\ "lookup" \in Places
  BY DEF LookupRetrieve, Places
<1>2. /\ a \in AskRecords /\ k \in Asks /\ HoldsFresh(a) /\ a.spent \in 0..MaxTurn
      /\ a.at = "lookup" /\ ~a.trim /\ t \notin Trimming
      /\ k \in DOMAIN cache => FindsFresh(a, cache[k])
  BY <1>1, BusyAsk
<1>3. CacheTyped' /\ Shrinks
  BY <1>1, <1>2, GetLiveShrinks, TypeParts DEF ChatInv
<1>4. CASE IsLive(k) /\ cache[k].chunks # None
  <2>1. k \in DOMAIN cache
    BY <1>4 DEF IsLive, Has
  <2>2. cache[k].chunks \in Ages /\ cache[k].chunks <= ChunkAge + a.spent
    BY <1>2, <1>4, <2>1, EntryIsTyped DEF FindsFresh
  <2>3. /\ found \in AskRecords /\ ~found.trim /\ found.at = "generate" /\ found.hold = cache[k].chunks
        /\ found.key = a.key /\ found.lang = a.lang /\ found.spent = a.spent
    BY <1>2, <2>2 DEF AskRecords, Places
  <2>4. SetAsk(t, found)
    BY <1>4 DEF LookupRetrieve
  <2> HIDE DEF found
  <2>5. HoldsFresh(found) /\ FindsFresh(found, cache[found.key])
    BY <1>2, <1>4, <2>2, <2>3 DEF HoldsFresh, FindsFresh, Missed
  <2> QED BY <1>2, <1>3, <2>3, <2>4, <2>5, QuietStep
<1>5. CASE ~(IsLive(k) /\ cache[k].chunks # None)
  <2>1. /\ missed \in AskRecords /\ ~missed.trim /\ missed.at = "retrieve" /\ missed.hold = a.hold
        /\ missed.key = a.key /\ missed.lang = a.lang /\ missed.spent = a.spent
    BY <1>2 DEF AskRecords, Places
  <2>2. SetAsk(t, missed)
    BY <1>5 DEF LookupRetrieve, GoOn
  <2> HIDE DEF missed
  <2>3. HoldsFresh(missed) /\ (k \in DOMAIN cache => FindsFresh(missed, cache[k]))
    BY <1>2, <2>1 DEF HoldsFresh, FindsFresh, Missed
  <2>4. HoldsFresh(missed) /\ (missed.key \in DOMAIN cache' => FindsFresh(missed, cache[missed.key]))
    BY <1>3, <2>1, <2>3 DEF Shrinks
  <2> QED BY <1>2, <1>3, <2>1, <2>2, <2>4, QuietStep
<1> QED BY <1>4, <1>5

\* an ask ends, or takes a step that leaves the cache alone
LEMMA LeavesStep ==
  ASSUME ChatInv, NEW t \in Threads, Reply(t) \/ AskFails(t)
  PROVE  ChatInv'
<1>1. SetAsk(t, Idle) /\ Untouched /\ t \notin Trimming
  BY DEF Reply, AskFails, Busy, Trimming
<1> QED BY <1>1, UntouchedShrinks, QuietStep

\* an ask that begins holds nothing
LEMMA StartStep ==
  ASSUME ChatInv, NEW t \in Threads, NEW k \in Asks, StartAsk(t, k)
  PROVE  ChatInv'
<1> DEFINE r == [at |-> "exact", key |-> k, hold |-> None, lang |-> Locale(k), spent |-> 0, trim |-> FALSE]
<1>1. SetAsk(t, r) /\ Untouched /\ t \notin Trimming
  BY DEF StartAsk, Trimming
<1>2. r \in AskRecords /\ ~r.trim /\ r.at = "exact" /\ r.lang = Locale(r.key)
  BY Numbers DEF AskRecords, Places
<1> HIDE DEF r
<1>3. HoldsFresh(r) /\ FindsFresh(r, cache[r.key])
  BY <1>2 DEF HoldsFresh, FindsFresh, Missed
<1> QED BY <1>1, <1>2, <1>3, UntouchedShrinks, QuietStep

\* retrieved chunks are new, and generating leaves what is held
LEMMA WorkStep ==
  ASSUME ChatInv, NEW t \in Threads, Retrieve(t) \/ Generate(t)
  PROVE  ChatInv'
<1> DEFINE a == asking[t]
<1>1. PICK l \in {"retrieve", "generate"} : Busy(t, l) /\ l \in Places
  BY DEF Retrieve, Generate, Places
<1>2. /\ a \in AskRecords /\ a.key \in Asks /\ HoldsFresh(a) /\ a.spent \in 0..MaxTurn
      /\ a.at = l /\ ~a.trim /\ t \notin Trimming
  BY <1>1, BusyAsk
<1>3. CacheTyped' /\ Shrinks /\ Untouched
  BY UntouchedShrinks DEF Retrieve, Generate
<1>4. CASE SetAsk(t, Idle)
  BY <1>2, <1>3, <1>4, QuietStep
<1>5. CASE SetAsk(t, [a EXCEPT !.at = "putChunks", !.hold = 0]) /\ l = "retrieve"
  <2> DEFINE r == [a EXCEPT !.at = "putChunks", !.hold = 0]
  <2>0. 0 \in Ages
    BY Numbers
  <2>1. /\ r \in AskRecords /\ ~r.trim /\ r.at = "putChunks" /\ r.hold = 0 /\ r.key = a.key
        /\ r.lang = a.lang /\ r.spent = a.spent
    BY <1>2, <2>0 DEF AskRecords, Places
  <2>2. SetAsk(t, r)
    BY <1>5
  <2> HIDE DEF r
  <2>3. HoldsFresh(r)
    BY <1>2, <2>1, Numbers DEF HoldsFresh
  <2>4. a.key \in DOMAIN cache => FindsFresh(r, cache[a.key])
    <3>1. a.key \in DOMAIN cache => FindsFresh(a, cache[a.key])
      BY <1>1, BusyAsk
    <3> QED BY <1>2, <1>5, <2>1, <3>1 DEF FindsFresh, Missed
  <2>5. HoldsFresh(r) /\ (r.key \in DOMAIN cache' => FindsFresh(r, cache[r.key]))
    BY <1>3, <2>1, <2>3, <2>4 DEF Shrinks
  <2> QED BY <1>2, <1>3, <2>1, <2>2, <2>5, QuietStep
<1>6. CASE SetAsk(t, [a EXCEPT !.at = "putAnswer"]) /\ l = "generate"
  <2> DEFINE r == [a EXCEPT !.at = "putAnswer"]
  <2>1. /\ r \in AskRecords /\ ~r.trim /\ r.at = "putAnswer" /\ r.hold = a.hold /\ r.key = a.key
        /\ r.lang = a.lang /\ r.spent = a.spent
    BY <1>2 DEF AskRecords, Places
  <2>2. SetAsk(t, r)
    BY <1>6
  <2> HIDE DEF r
  <2>3. HoldsFresh(r) /\ FindsFresh(r, cache[r.key])
    BY <1>2, <1>6, <2>1 DEF HoldsFresh, FindsFresh, Missed
  <2> QED BY <1>2, <1>3, <2>1, <2>2, <2>3, QuietStep
<1> QED BY <1>1, <1>2, <1>4, <1>5, <1>6 DEF Retrieve, Generate, GoOn, Busy

-----------------------------------------------------------------------------
\* an ask, wherever it is
LEMMA OtherAsk ==
  ASSUME ChatInv, NEW u \in Threads, asking[u] # Idle
  PROVE  /\ asking[u] \in AskRecords /\ asking[u].spent \in Nat /\ asking[u].spent <= MaxTurn
         /\ asking[u].hold \in Ages \cup {None} /\ HoldsFresh(asking[u])
         /\ asking[u].key \in DOMAIN cache => FindsFresh(asking[u], cache[asking[u].key])
BY Numbers DEF ChatInv, ChatTypeOK, Fresh, AskRecords

\* an ask stores e and is about to trim
LEMMA PutStep ==
  ASSUME ChatInv, NEW t \in Threads, t \notin Trimming,
         NEW k \in Asks, NEW e \in Entries, e.answer # None \/ e.chunks # None, IsFresh(e), PutEntry(k, e),
         NEW r \in AskRecords, r.trim, r.at \in {"generate", "reply"}, HoldsFresh(r), SetAsk(t, r),
         \A u \in Threads : asking[u] # Idle /\ asking[u].key = k => FindsFresh(asking[u], e)
  PROVE  ChatInv'
<1>1. /\ CacheTyped' /\ DOMAIN cache' = DOMAIN cache \cup {k} /\ cache'[k] = e
      /\ \A j \in DOMAIN cache \ {k} : cache'[j] = cache[j]
  BY PutTyped, TypeParts DEF ChatInv
<1>2. \A j \in DOMAIN cache' : IsFresh(cache'[j])
  BY <1>1 DEF ChatInv, Fresh
<1>3. r # Idle
  BY IdleIsNoRecord
<1>4. FindsFresh(r, cache'[r.key])
  BY DEF FindsFresh, Missed
<1>5. ASSUME NEW u \in Threads \ {t}, asking[u] # Idle, asking[u].key \in DOMAIN cache'
      PROVE  FindsFresh(asking[u], cache'[asking[u].key])
  <2>1. CASE asking[u].key = k
    BY <1>1, <1>5, <2>1
  <2>2. CASE asking[u].key # k
    BY <1>1, <1>5, <2>2, OtherAsk
  <2> QED BY <2>1, <2>2
<1>6. ChatTypeOK' /\ Fresh'
  BY <1>1, <1>2, <1>4, <1>5, OneAsk
<1>7. Trimming' = Trimming \cup {t}
  BY <1>3, TrimmingAfter
<1>8. IsFiniteSet(DOMAIN cache)' /\ CacheWithinSize'
  BY <1>1, <1>7, SizePut
<1> QED BY <1>6, <1>8 DEF ChatInv

\* the other half of an entry
LEMMA KeptTyped ==
  ASSUME ChatInv, NEW k
  PROVE  KeptAnswer(k) \in Ages \cup {None} /\ KeptChunks(k) \in Ages \cup {None}
BY EntryIsTyped DEF KeptAnswer, KeptChunks, Has

\* what another ask of the same question may find is what it might have found before
LEMMA KeptFresh ==
  ASSUME ChatInv, NEW u \in Threads, asking[u] # Idle
  PROVE  LET k == asking[u].key IN
         /\ asking[u].at \in {"semantic", "lookup"} => KeptChunks(k) <= ChunkAge + asking[u].spent
         /\ asking[u].at \in Missed => KeptAnswer(k) <= ChunkAge + MaxTurn + asking[u].spent
<1> DEFINE k == asking[u].key
           s == asking[u].spent
<1>1. s \in Nat
  BY OtherAsk
<1>2. CASE k \in DOMAIN cache
  <2>1. FindsFresh(asking[u], cache[k]) /\ KeptChunks(k) = cache[k].chunks /\ KeptAnswer(k) = cache[k].answer
    BY <1>2, OtherAsk DEF KeptChunks, KeptAnswer, Has
  <2> QED BY <2>1 DEF FindsFresh
<1>3. CASE k \notin DOMAIN cache
  <2>1. KeptChunks(k) = -1 /\ KeptAnswer(k) = -1
    BY <1>3, Numbers DEF KeptChunks, KeptAnswer, Has
  <2> HIDE DEF s
  <2>2. -1 <= ChunkAge + s /\ -1 <= ChunkAge + MaxTurn + s
    BY <1>1, Numbers
  <2> QED BY <2>1, <2>2 DEF s
<1> QED BY <1>2, <1>3

\* the answer kept under new chunks is one this ask did not find live
LEMMA PutChunksStep ==
  ASSUME ChatInv, NEW t \in Threads, PutChunks(t)
  PROVE  ChatInv'
<1> DEFINE a == asking[t]
           k == a.key
           h == a.hold
           e == [answer |-> KeptAnswer(k), chunks |-> h, left |-> CacheTtl]
           r == [a EXCEPT !.at = "generate", !.trim = TRUE]
<1>1. Busy(t, "putChunks") /\ "putChunks" \in Places /\ PutEntry(k, e) /\ SetAsk(t, r)
  BY DEF PutChunks, Places
<1>2. /\ a \in AskRecords /\ a # Idle /\ k \in Asks /\ HoldsFresh(a) /\ a.spent \in 0..MaxTurn
      /\ h \in Ages \cup {None} /\ a.at = "putChunks" /\ t \notin Trimming
  BY <1>1, BusyAsk
<1>3. h \in Ages /\ h # None /\ h <= a.spent
  BY <1>2 DEF HoldsFresh
<1>4. h \in Nat /\ h <= MaxTurn /\ h <= ChunkAge /\ h <= ChunkAge + a.spent
  <2> DEFINE s == a.spent
  <2>1. s \in 0..MaxTurn /\ h \in Ages /\ h <= s
    BY <1>2, <1>3
  <2> HIDE DEF h, s
  <2>2. h \in Nat /\ h <= MaxTurn /\ h <= ChunkAge /\ h <= ChunkAge + s
    BY <2>1, Numbers
  <2> QED BY <2>2 DEF s
<1>5. KeptAnswer(k) \in Ages \cup {None} /\ KeptAnswer(k) <= ChunkAge + MaxTurn + a.spent
  BY <1>2, KeptTyped, KeptFresh DEF Missed
<1>6. /\ e \in Entries /\ e.answer = KeptAnswer(k) /\ e.chunks = h /\ e.left = CacheTtl /\ e.chunks # None
  <2>1. CacheTtl \in 0..CacheTtl
    BY Numbers
  <2> QED BY <1>3, <1>5, <2>1 DEF Entries
<1>7. /\ r \in AskRecords /\ r.trim /\ r.at = "generate" /\ r.hold = h
      /\ r.key = k /\ r.lang = a.lang /\ r.spent = a.spent
  BY <1>2 DEF AskRecords, Places
<1>8. HoldsFresh(r)
  BY <1>2, <1>3, <1>4, <1>7 DEF HoldsFresh
<1> HIDE DEF e, r
<1>9. IsFresh(e)
  <2>1. h <= MaxTurn + CacheTtl - CacheTtl
    BY <1>4, Numbers
  <2>2. KeptAnswer(k) <= ChunkAge + 2 * MaxTurn + CacheTtl - CacheTtl
    BY <1>2, <1>5, Numbers
  <2> QED BY <1>6, <2>1, <2>2 DEF IsFresh
<1>10. ASSUME NEW u \in Threads, asking[u] # Idle, asking[u].key = k
       PROVE  FindsFresh(asking[u], e)
  <2>1. h <= ChunkAge + asking[u].spent
    <3> DEFINE s == asking[u].spent
    <3>1. s \in Nat /\ h \in Nat /\ h <= ChunkAge
      BY <1>4, <1>10, OtherAsk
    <3> HIDE DEF h, s
    <3>2. h <= ChunkAge + s
      BY <3>1, Numbers
    <3> QED BY <3>2 DEF s
  <2>2. asking[u].at \in Missed => KeptAnswer(k) <= ChunkAge + MaxTurn + asking[u].spent
    BY <1>10, KeptFresh
  <2> QED BY <1>6, <2>1, <2>2 DEF FindsFresh
<1> HIDE DEF k
<1> QED BY <1>1, <1>2, <1>6, <1>7, <1>8, <1>9, <1>10, PutStep

\* a new answer is as old as the chunks it was made of
LEMMA PutAnswerStep ==
  ASSUME ChatInv, NEW t \in Threads, PutAnswer(t)
  PROVE  ChatInv'
<1> DEFINE a == asking[t]
           k == a.key
           h == a.hold
           e == [answer |-> h, chunks |-> KeptChunks(k), left |-> CacheTtl]
           r == [a EXCEPT !.at = "reply", !.trim = TRUE]
<1>1. Busy(t, "putAnswer") /\ "putAnswer" \in Places /\ PutEntry(k, e) /\ SetAsk(t, r)
  BY DEF PutAnswer, Places
<1>2. /\ a \in AskRecords /\ a # Idle /\ k \in Asks /\ HoldsFresh(a) /\ a.spent \in 0..MaxTurn
      /\ h \in Ages \cup {None} /\ a.at = "putAnswer" /\ t \notin Trimming
  BY <1>1, BusyAsk
<1>3. h \in Ages /\ h # None /\ h <= ChunkAge + a.spent
  BY <1>2 DEF HoldsFresh
<1>4. h \in Nat /\ h <= ChunkAge + MaxTurn /\ h <= MaxStale
  <2> DEFINE s == a.spent
  <2>1. s \in 0..MaxTurn /\ h \in Ages /\ h <= ChunkAge + s
    BY <1>2, <1>3
  <2> HIDE DEF h, s
  <2> QED BY <2>1, Numbers
<1>5. KeptChunks(k) \in Ages \cup {None}
  BY KeptTyped
<1>6. /\ e \in Entries /\ e.answer = h /\ e.chunks = KeptChunks(k) /\ e.left = CacheTtl /\ e.answer # None
  <2>1. CacheTtl \in 0..CacheTtl
    BY Numbers
  <2> QED BY <1>3, <1>5, <2>1 DEF Entries
<1>7. /\ r \in AskRecords /\ r.trim /\ r.at = "reply" /\ r.hold = h
      /\ r.key = k /\ r.lang = a.lang
  BY <1>2 DEF AskRecords, Places
<1>8. HoldsFresh(r)
  BY <1>2, <1>3, <1>4, <1>7 DEF HoldsFresh
<1> HIDE DEF e, r
<1>9. IsFresh(e)
  <2>1. h <= ChunkAge + 2 * MaxTurn + CacheTtl - CacheTtl
    BY <1>4, Numbers
  <2> QED BY <1>6, <2>1 DEF IsFresh
<1>10. ASSUME NEW u \in Threads, asking[u] # Idle, asking[u].key = k
       PROVE  FindsFresh(asking[u], e)
  <2>1. h <= ChunkAge + MaxTurn + asking[u].spent
    <3> DEFINE s == asking[u].spent
    <3>1. s \in Nat /\ h \in Nat /\ h <= ChunkAge + MaxTurn
      BY <1>4, <1>10, OtherAsk
    <3> HIDE DEF h, s
    <3>2. h <= ChunkAge + MaxTurn + s
      BY <3>1, Numbers
    <3> QED BY <3>2 DEF s
  <2>2. asking[u].at \in {"semantic", "lookup"} => KeptChunks(k) <= ChunkAge + asking[u].spent
    BY <1>10, KeptFresh
  <2> QED BY <1>6, <2>1, <2>2 DEF FindsFresh
<1> HIDE DEF k
<1> QED BY <1>1, <1>2, <1>6, <1>7, <1>8, <1>9, <1>10, PutStep

\* eviction drops one entry, or ends when there is room
LEMMA EvictStep ==
  ASSUME ChatInv, NEW t \in Threads, Evict(t)
  PROVE  ChatInv'
<1> DEFINE a == asking[t]
           r == [a EXCEPT !.trim = FALSE]
<1>1. a # Idle /\ a.trim /\ t \in Trimming /\ a \in AskRecords /\ HoldsFresh(a)
      /\ (a.key \in DOMAIN cache => FindsFresh(a, cache[a.key]))
  BY OtherAsk DEF Evict, Trimming
<1>2. CASE Excess
  <2>1. UNCHANGED asking /\ PopOldest
    BY <1>2 DEF Evict
  <2>2. PICK k \in DOMAIN cache : Forget({k})
    BY <2>1 DEF PopOldest
  <2>3. CacheTyped' /\ Shrinks
    BY <2>2, ForgetShrinks, TypeParts DEF ChatInv
  <2>4. SetAsk(t, a)
    BY <2>1 DEF SetAsk, ChatInv, ChatTypeOK
  <2>5. a.key \in DOMAIN cache' => FindsFresh(a, cache[a.key])
    BY <1>1, <2>3 DEF Shrinks
  <2>6. ChatTypeOK' /\ Fresh'
    BY <1>1, <2>3, <2>4, <2>5, AskOverShrunk
  <2>7. Trimming' = Trimming /\ Trimming' \subseteq Threads
    BY <2>1 DEF Trimming
  <2>8. IsFiniteSet(DOMAIN cache)' /\ CacheWithinSize'
    BY <2>3, <2>7, SizeShrinks
  <2> QED BY <2>6, <2>8 DEF ChatInv
<1>3. CASE ~Excess
  <2>1. SetAsk(t, r) /\ Untouched
    BY <1>3 DEF Evict
  <2>2. /\ r \in AskRecords /\ ~r.trim /\ r.at = a.at /\ r.key = a.key /\ r.hold = a.hold
        /\ r.lang = a.lang /\ r.spent = a.spent
    BY <1>1 DEF AskRecords
  <2> HIDE DEF r
  <2>3. CacheTyped' /\ Shrinks
    BY <2>1, UntouchedShrinks
  <2>4. HoldsFresh(r) /\ (r.key \in DOMAIN cache' => FindsFresh(r, cache[r.key]))
    <3>1. HoldsFresh(r)
      BY <1>1, <2>2 DEF HoldsFresh
    <3>2. ASSUME r.key \in DOMAIN cache' PROVE FindsFresh(r, cache[r.key])
      <4>1. FindsFresh(a, cache[a.key])
        BY <1>1, <2>2, <2>3, <3>2 DEF Shrinks
      <4> QED BY <2>2, <4>1 DEF FindsFresh
    <3> QED BY <3>1, <3>2
  <2>5. ChatTypeOK' /\ Fresh'
    BY <2>1, <2>2, <2>3, <2>4, AskOverShrunk
  <2>6. Trimming' = Trimming \ {t}
    BY <2>1, <2>2, TrimmingAfter
  <2>7. IsFiniteSet(DOMAIN cache)' /\ CacheWithinSize'
    <3>1. IsFiniteSet(Trimming') /\ Cardinality(Trimming') \in Nat
      BY <2>6, SizeNumbers, FS_Subset, FS_CardinalityType
    <3>2. Cardinality(DOMAIN cache) <= MaxEntries /\ cache' = cache
      BY <1>3, <2>1, SizeNumbers DEF Excess, Untouched
    <3>3. Cardinality(DOMAIN cache') <= MaxEntries + Cardinality(Trimming')
      BY <3>1, <3>2, SizeNumbers
    <3> QED BY <3>2, <3>3 DEF ChatInv, CacheWithinSize, Trimming
  <2> QED BY <2>5, <2>7 DEF ChatInv
<1> QED BY <1>2, <1>3

-----------------------------------------------------------------------------
(***************************************************************************)
(* Time passes for the cache and for every ask at once.                    *)
(***************************************************************************)
\* an age, or none, a tick later
LEMMA HeldOlder ==
  ASSUME NEW a \in Ages \cup {None}
  PROVE  LET b == IF a = None THEN a ELSE Older(a) IN
         b \in Ages \cup {None} /\ b <= a + 1 /\ (b = None <=> a = None)
<1>1. CASE a = None
  BY <1>1, Numbers
<1>2. CASE a \in Ages /\ a # None
  BY <1>2, OlderByOne
<1> QED BY <1>1, <1>2

\* the entry e a tick later
Aged(e) == [e EXCEPT !.left = IF @ = 0 THEN 0 ELSE @ - 1,
                     !.answer = IF @ = None THEN @ ELSE Older(@),
                     !.chunks = IF @ = None THEN @ ELSE Older(@)]

\* an entry that was fresh is so a tick later, when it lives one tick less
LEMMA AgedEntry ==
  ASSUME NEW e \in Entries, IsFresh(e)
  PROVE  /\ Aged(e) \in Entries /\ IsFresh(Aged(e))
         /\ Aged(e).answer = None <=> e.answer = None
         /\ Aged(e).chunks = None <=> e.chunks = None
         /\ Aged(e).answer <= e.answer + 1 /\ Aged(e).chunks <= e.chunks + 1
<1> DEFINE x == e.answer
           y == e.chunks
           l == e.left
           x2 == IF x = None THEN x ELSE Older(x)
           y2 == IF y = None THEN y ELSE Older(y)
           l2 == IF l = 0 THEN 0 ELSE l - 1
           f == Aged(e)
<1>1. x \in Ages \cup {None} /\ y \in Ages \cup {None} /\ l \in 0..CacheTtl
  BY DEF Entries
<1>2. /\ x2 \in Ages \cup {None} /\ x2 <= x + 1 /\ (x2 = None <=> x = None)
      /\ y2 \in Ages \cup {None} /\ y2 <= y + 1 /\ (y2 = None <=> y = None)
  BY <1>1, HeldOlder
<1>3. l2 \in 0..CacheTtl /\ (l2 > 0 => l > 0 /\ l2 = l - 1)
  <2> HIDE DEF l
  <2> QED BY <1>1, Numbers
<1> HIDE DEF x2, y2, l2
<1>4. f \in Entries /\ f.answer = x2 /\ f.chunks = y2 /\ f.left = l2
  BY <1>2, <1>3 DEF Aged, Entries, x2, y2, l2
<1> HIDE DEF f
<1>5. IsFresh(f)
  <2>1. ASSUME l2 > 0
        PROVE  /\ x2 = None => y2 <= MaxTurn + CacheTtl - l2
               /\ x2 <= ChunkAge + 2 * MaxTurn + CacheTtl - l2
    <3>1. /\ l > 0 /\ l2 = l - 1 /\ l \in Int
          /\ x = None => y <= MaxTurn + CacheTtl - l
          /\ x <= ChunkAge + 2 * MaxTurn + CacheTtl - l
      BY <1>1, <1>3, <2>1 DEF IsFresh
    <3>2. x \in Int /\ y \in Int /\ x2 \in Int /\ y2 \in Int
      BY <1>1, <1>2, Numbers
    <3> HIDE DEF x, y, l
    <3> QED BY <1>2, <3>1, <3>2, Numbers
  <2> QED BY <1>4, <2>1 DEF IsFresh
<1> QED BY <1>2, <1>4, <1>5 DEF f

\* what an ask holds ages as the ask does
LEMMA PassedAsk ==
  ASSUME NEW a \in AskRecords, HoldsFresh(a), a.spent < MaxTurn
  PROVE  /\ Passed(a) \in AskRecords /\ HoldsFresh(Passed(a))
         /\ Passed(a).key = a.key /\ Passed(a).at = a.at /\ Passed(a).trim = a.trim
         /\ Passed(a).spent = a.spent + 1
<1> DEFINE h == a.hold
           s == a.spent
           h2 == IF h = None \/ a.at = "reply" THEN h ELSE Older(h)
           s2 == s + 1
           p == Passed(a)
<1>1. a # Idle /\ h \in Ages \cup {None} /\ s \in 0..MaxTurn
  BY IdleIsNoRecord DEF AskRecords
<1>2. h2 \in Ages \cup {None} /\ h2 <= h + 1 /\ (h2 = None <=> h = None) /\ (a.at = "reply" => h2 = h)
  <2>1. h <= h + 1
    <3>1. h \in Int
      BY <1>1, Numbers
    <3> HIDE DEF h
    <3> QED BY <3>1
  <2> QED BY <1>1, <2>1, HeldOlder
<1>3. s2 \in 0..MaxTurn
  <2>1. s < MaxTurn
    OBVIOUS
  <2> HIDE DEF s
  <2> QED BY <1>1, <2>1, Numbers
<1> HIDE DEF h2, s2
<1>4. /\ p \in AskRecords /\ p.key = a.key /\ p.at = a.at /\ p.trim = a.trim /\ p.lang = a.lang
      /\ p.spent = s2 /\ p.hold = h2
  BY <1>1, <1>2, <1>3 DEF Passed, AskRecords, h2, s2
<1> HIDE DEF p
<1>5. HoldsFresh(p)
  <2>1. /\ h <= s => h2 <= s2
        /\ h <= ChunkAge + s => h2 <= ChunkAge + s2
    <3>1. h \in Int /\ h2 \in Int /\ s \in Int /\ s2 = s + 1
      BY <1>1, <1>2, Numbers DEF s2
    <3> HIDE DEF h, s
    <3> QED BY <1>2, <3>1, Numbers
  <2> QED BY <1>2, <1>4, <2>1 DEF HoldsFresh
<1> QED BY <1>4, <1>5 DEF p, s2

\* a tick
LEMMA TimeStep ==
  ASSUME ChatInv, TimePasses
  PROVE  ChatInv'
<1>1. /\ DOMAIN cache' = DOMAIN cache /\ cache' = [k \in DOMAIN cache |-> Aged(cache[k])]
      /\ \A k \in DOMAIN cache : cache'[k] = Aged(cache[k])
      /\ older' = older
      /\ \A t \in Threads : asking'[t] = Passed(asking[t])
  BY DEF TimePasses, Aged
<1>2. \A k \in DOMAIN cache : cache[k] \in Entries /\ IsFresh(cache[k])
  BY DEF ChatInv, ChatTypeOK, Fresh
<1>3. CacheTyped'
  <2>1. cache' \in [DOMAIN cache' -> Entries]
    BY <1>1, <1>2, AgedEntry
  <2>2. \A k \in DOMAIN cache' : cache'[k].answer # None \/ cache'[k].chunks # None
    BY <1>1, <1>2, AgedEntry DEF ChatInv, ChatTypeOK
  <2> QED BY <1>1, <2>1, <2>2 DEF CacheTyped, ChatInv, ChatTypeOK
<1>4. ASSUME NEW t \in Threads, asking[t] # Idle
      PROVE  /\ asking'[t] \in AskRecords /\ HoldsFresh(asking'[t]) /\ asking'[t].trim = asking[t].trim
             /\ asking'[t].key = asking[t].key /\ asking'[t].at = asking[t].at
             /\ asking'[t].spent = asking[t].spent + 1
  <2>1. asking[t].spent < MaxTurn
    BY <1>4 DEF TimePasses
  <2> QED BY <1>1, <1>4, <2>1, OtherAsk, PassedAsk
<1>5. \A t \in Threads : asking[t] = Idle => asking'[t] = Idle
  BY <1>1 DEF Passed
<1>6. asking' \in [Threads -> AskRecords \cup {Idle}]
  BY <1>4, <1>5 DEF TimePasses
<1>7. ChatTypeOK'
  BY <1>3, <1>6, TypeParts DEF ChatTypeOK, CacheTyped
<1>8. ASSUME NEW t \in Threads, asking'[t] # Idle
      PROVE  /\ HoldsFresh(asking'[t])
             /\ asking'[t].key \in DOMAIN cache' => FindsFresh(asking'[t], cache'[asking'[t].key])
  <2> DEFINE k == asking[t].key
             s == asking[t].spent
             e == cache[k]
             f == Aged(e)
  <2>1. asking[t] # Idle
    BY <1>5, <1>8
  <2>2. ASSUME asking'[t].key \in DOMAIN cache' PROVE FindsFresh(asking'[t], cache'[asking'[t].key])
    <3>1. k \in DOMAIN cache /\ asking'[t].key = k /\ cache'[k] = f /\ e \in Entries /\ IsFresh(e)
      BY <1>1, <1>2, <1>4, <2>1, <2>2
    <3>2. FindsFresh(asking[t], e) /\ s \in Nat
      BY <2>1, <3>1, OtherAsk
    <3>3. f.answer <= e.answer + 1 /\ f.chunks <= e.chunks + 1
      BY <3>1, AgedEntry
    <3>4. f.answer \in Int /\ f.chunks \in Int /\ e.answer \in Int /\ e.chunks \in Int
      <4>1. f \in Entries /\ e \in Entries
        BY <3>1, AgedEntry
      <4>2. \A d \in Entries : d.answer \in Ages \cup {None} /\ d.chunks \in Ages \cup {None}
        BY DEF Entries
      <4> HIDE DEF e, f
      <4> QED BY <4>1, <4>2, Numbers
    <3>5. asking'[t].at = asking[t].at /\ asking'[t].spent = s + 1
      BY <1>4, <2>1
    <3> HIDE DEF f, s, e
    <3>6. /\ e.chunks <= ChunkAge + s => f.chunks <= ChunkAge + (s + 1)
          /\ e.answer <= ChunkAge + MaxTurn + s => f.answer <= ChunkAge + MaxTurn + (s + 1)
      BY <3>2, <3>3, <3>4, Numbers
    <3>7. FindsFresh(asking'[t], f)
      BY <3>2, <3>5, <3>6 DEF FindsFresh, s
    <3> QED BY <3>1, <3>7
  <2> QED BY <1>4, <2>1, <2>2
<1>9. Fresh'
  <2>1. \A k \in DOMAIN cache' : IsFresh(cache'[k])
    BY <1>1, <1>2, AgedEntry
  <2> QED BY <1>8, <2>1 DEF Fresh, IsFresh, HoldsFresh, FindsFresh
<1>10. Trimming' = Trimming
  <2>1. \A t \in Threads : asking'[t] = Idle <=> asking[t] = Idle
    BY <1>4, <1>5, IdleIsNoRecord
  <2> QED BY <1>4, <2>1 DEF Trimming
<1>11. IsFiniteSet(DOMAIN cache)' /\ CacheWithinSize'
  BY <1>1, <1>10 DEF ChatInv, CacheWithinSize, Trimming
<1> QED BY <1>7, <1>9, <1>11 DEF ChatInv

\* every step
LEMMA ChatNextInv == ChatInv /\ [ChatNext]_chatVars => ChatInv'
<1> SUFFICES ASSUME ChatInv, [ChatNext]_chatVars PROVE ChatInv'
  OBVIOUS
<1>1. CASE TimePasses
  BY <1>1, TimeStep
<1>2. ASSUME NEW t \in Threads, AskStep(t) PROVE ChatInv'
  <2>1. LookupExact(t) => ChatInv'
    BY ExactStep
  <2>2. LookupSemantic(t) => ChatInv'
    BY SemanticStep
  <2>3. LookupRetrieve(t) => ChatInv'
    BY RetrieveTierStep
  <2>4. Retrieve(t) \/ Generate(t) => ChatInv'
    BY WorkStep
  <2>5. PutChunks(t) => ChatInv'
    BY PutChunksStep
  <2>6. PutAnswer(t) => ChatInv'
    BY PutAnswerStep
  <2>7. Evict(t) => ChatInv'
    BY EvictStep
  <2>8. Reply(t) => ChatInv'
    BY LeavesStep
  <2> QED BY <1>2, <2>1, <2>2, <2>3, <2>4, <2>5, <2>6, <2>7, <2>8 DEF AskStep
<1>3. ASSUME NEW t \in Threads, AskFails(t) PROVE ChatInv'
  BY <1>3, LeavesStep
<1>4. ASSUME NEW t \in Threads, NEW k \in Asks, StartAsk(t, k) PROVE ChatInv'
  BY <1>4, StartStep
<1>5. CASE UNCHANGED chatVars
  BY <1>5 DEF chatVars, ChatInv, ChatTypeOK, Fresh, IsFresh, HoldsFresh, FindsFresh, CacheWithinSize
<1> QED BY <1>1, <1>2, <1>3, <1>4, <1>5 DEF ChatNext

\* Whatever the asks of a process do to the cache they share, and however time passes, an
\* entry that is live and an ask on its way are no older than the bounds of the invariant.
THEOREM ChatInvariant == ChatSpec => []ChatInv
<1> QED BY ChatInitInv, ChatNextInv, PTL DEF ChatSpec

\* What ask and stream_ask serve was read from the corpus at most twice the TTL and three
\* asks ago, and is in the language it was asked for in, whatever tier it came from; and
\* the cache is over its size only by what threads are about to evict.
THEOREM CacheKeepsPromise == ChatSpec => []CachePromise
<1>1. ChatInv => CachePromise
  <2> SUFFICES ASSUME ChatInv PROVE CachePromise
    OBVIOUS
  <2>1. ASSUME NEW t \in Threads, asking[t].at = "reply" PROVE HoldsFresh(asking[t])
    BY <2>1, AskIsTyped DEF Places
  <2>2. AnswerNotTooOld /\ AnswerInLanguage
    BY <2>1 DEF AnswerNotTooOld, AnswerInLanguage, HoldsFresh
  <2> QED BY <2>2 DEF ChatInv, CachePromise
<1> QED BY <1>1, ChatInvariant, PTL

-----------------------------------------------------------------------------
(***************************************************************************)
(* The best of a finite set of hits.                                       *)
(***************************************************************************)
Hits == [chunk : Kinds, score : Nat]

\* what hits are compared by is a number
LEMMA RankIsNumber ==
  ASSUME NEW h \in Hits, NEW boost \in Nat
  PROVE  Rank(h, boost) \in Nat
BY DEF Hits, Rank

\* of finitely many hits some rank lowest
LEMMA Lowest ==
  ASSUME NEW H \in SUBSET Hits, IsFiniteSet(H), H # {}, NEW boost \in Nat
  PROVE  \E h \in H : \A g \in H : Rank(h, boost) <= Rank(g, boost)
<1> DEFINE Below(h) == {g \in H : Rank(g, boost) < Rank(h, boost)}
           Belows == {Below(h) : h \in H}
<1>1. Belows \subseteq FiniteSubsetsOf(H) /\ Belows # {}
  <2>1. \A h \in H : IsFiniteSet(Below(h)) /\ Below(h) \in SUBSET H
    BY FS_Subset
  <2> HIDE DEF Below
  <2> QED BY <2>1 DEF FiniteSubsetsOf
<1>2. \E x \in Belows : \A y \in Belows : ~ (<<y, x>> \in StrictSubsetOrdering(H))
  BY <1>1, FS_StrictSubsetOrderingWellFounded, WFMin, Zenon
<1>3. PICK h \in H : \A g \in H : ~ (<<Below(g), Below(h)>> \in StrictSubsetOrdering(H))
  BY <1>2
<1>4. ASSUME NEW g \in H, Rank(g, boost) < Rank(h, boost) PROVE FALSE
  <2>1. \A f \in H : Rank(f, boost) \in Nat
    BY RankIsNumber
  <2>2. Below(g) \subseteq Below(h) /\ g \in Below(h) /\ g \notin Below(g)
    BY <1>4, <2>1
  <2>3. Below(g) \in SUBSET H /\ Below(h) \in SUBSET H
    OBVIOUS
  <2> HIDE DEF Below
  <2> QED BY <1>3, <2>2, <2>3 DEF StrictSubsetOrdering
<1>5. \A g \in H : Rank(h, boost) \in Nat /\ Rank(g, boost) \in Nat
  BY RankIsNumber
<1>6. \A g \in H : Rank(h, boost) <= Rank(g, boost)
  BY <1>4, <1>5
<1> QED BY <1>6

Above(T, H, boost) == \A t \in T, u \in H \ T : Rank(t, boost) >= Rank(u, boost)

\* there are k best of more than k hits
LEMMA SomeAreBest ==
  ASSUME NEW H \in SUBSET Hits, IsFiniteSet(H), NEW k \in Nat, NEW boost \in Nat, Cardinality(H) > k
  PROVE  \E T \in SUBSET H : Cardinality(T) = k /\ Above(T, H, boost)
<1> DEFINE Large == {T \in SUBSET H : Cardinality(T) >= k /\ Above(T, H, boost)}
<1>1. \A T \in SUBSET H : IsFiniteSet(T) /\ Cardinality(T) \in Nat
  BY FS_Subset, FS_CardinalityType
<1>2. H \in Large
  BY <1>1 DEF Above
<1>3. Large \subseteq FiniteSubsetsOf(H) /\ Large # {}
  BY <1>1, <1>2 DEF FiniteSubsetsOf
<1>4. \E T \in Large : \A y \in Large : ~ (<<y, T>> \in StrictSubsetOrdering(H))
  <2> HIDE DEF Large
  <2> QED BY <1>3, FS_StrictSubsetOrderingWellFounded, WFMin, Zenon
<1>5. PICK T \in Large : \A y \in Large : ~ (<<y, T>> \in StrictSubsetOrdering(H))
  BY <1>4
<1>6. ASSUME Cardinality(T) # k PROVE FALSE
  <2>1. T \in SUBSET Hits /\ IsFiniteSet(T) /\ Cardinality(T) > k /\ Cardinality(T) \in Nat /\ Above(T, H, boost)
    BY <1>1, <1>5, <1>6
  <2>2. T # {}
    BY <2>1, FS_EmptySet
  <2>3. PICK m \in T : \A g \in T : Rank(m, boost) <= Rank(g, boost)
    BY <2>1, <2>2, Lowest
  <2>4. Cardinality(T \ {m}) = Cardinality(T) - 1
    BY <2>1, FS_RemoveElement
  <2>5. Above(T \ {m}, H, boost)
    <3> SUFFICES ASSUME NEW t \in T \ {m}, NEW u \in H \ (T \ {m})
                 PROVE  Rank(t, boost) >= Rank(u, boost)
      BY DEF Above
    <3>1. Rank(t, boost) \in Nat /\ Rank(u, boost) \in Nat /\ Rank(m, boost) \in Nat
      BY <2>1, RankIsNumber
    <3>2. CASE u = m
      BY <2>3, <3>1, <3>2
    <3>3. CASE u # m
      BY <2>1, <3>3 DEF Above
    <3> QED BY <3>2, <3>3
  <2>6. T \ {m} \in Large
    BY <2>1, <2>4, <2>5
  <2>7. <<T \ {m}, T>> \in StrictSubsetOrdering(H)
    <3>1. T \ {m} \in SUBSET H /\ T \in SUBSET H /\ T \ {m} \subseteq T /\ T \ {m} # T
      BY <2>3
    <3> QED BY <3>1 DEF StrictSubsetOrdering
  <2> QED BY <1>5, <2>6, <2>7
<1> QED BY <1>5, <1>6

\* what Top returns, whichever of equals it takes
LEMMA TopIs ==
  ASSUME NEW H \in SUBSET Hits, IsFiniteSet(H), NEW k \in Nat, NEW boost \in Nat
  PROVE  /\ Top(H, k, boost) \subseteq H
         /\ Above(Top(H, k, boost), H, boost)
         /\ IsFiniteSet(Top(H, k, boost)) /\ Cardinality(Top(H, k, boost)) <= k
         /\ Cardinality(H) <= k => Top(H, k, boost) = H
         /\ Cardinality(H) > k => Cardinality(Top(H, k, boost)) = k
<1>1. Cardinality(H) \in Nat
  BY FS_CardinalityType
<1>2. CASE Cardinality(H) <= k
  <2>1. Top(H, k, boost) = H
    BY <1>2 DEF Top
  <2> QED BY <1>1, <1>2, <2>1 DEF Above
<1>3. CASE Cardinality(H) > k
  <2> DEFINE T == Top(H, k, boost)
  <2>1. T = CHOOSE S \in SUBSET H : Cardinality(S) = k /\ \A t \in S, u \in H \ S : Rank(t, boost) >= Rank(u, boost)
    <3>1. ~(Cardinality(H) <= k)
      BY <1>1, <1>3
    <3> QED BY <3>1, Zenon DEF Top
  <2>2. \E S \in SUBSET H : Cardinality(S) = k /\ \A t \in S, u \in H \ S : Rank(t, boost) >= Rank(u, boost)
    BY <1>3, SomeAreBest DEF Above
  <2> HIDE DEF T
  <2>3. T \in SUBSET H /\ Cardinality(T) = k /\ \A t \in T, u \in H \ T : Rank(t, boost) >= Rank(u, boost)
    BY <2>1, <2>2, Zenon
  <2>4. IsFiniteSet(T)
    BY <2>3, FS_Subset
  <2> QED BY <1>1, <1>3, <2>3, <2>4 DEF T, Above
<1> QED BY <1>1, <1>2, <1>3

\* of one hit or more the best is among the best
LEMMA TopHasBest ==
  ASSUME NEW H \in SUBSET Hits, IsFiniteSet(H), NEW k \in Nat \ {0}, NEW boost \in Nat, NEW h \in H
  PROVE  \E t \in Top(H, k, boost) : Rank(t, boost) >= Rank(h, boost)
<1> DEFINE T == Top(H, k, boost)
<1>1. /\ T \subseteq H /\ Above(T, H, boost) /\ IsFiniteSet(T) /\ Cardinality(H) \in Nat
      /\ Cardinality(H) <= k => T = H
      /\ Cardinality(H) > k => Cardinality(T) = k
  BY TopIs, FS_CardinalityType
<1> HIDE DEF T
<1>2. CASE h \in T
  <2>1. Rank(h, boost) \in Nat
    BY RankIsNumber
  <2> QED BY <1>2, <2>1 DEF T
<1>3. CASE h \notin T
  <2>1. Cardinality(T) = k
    BY <1>1, <1>3
  <2>2. T # {}
    BY <2>1, FS_EmptySet
  <2> QED BY <1>1, <1>3, <2>2 DEF Above, T
<1> QED BY <1>2, <1>3

\* one hit that ranks above all others is among the best
LEMMA TopKeeps ==
  ASSUME NEW H \in SUBSET Hits, IsFiniteSet(H), NEW k \in Nat \ {0}, NEW boost \in Nat, NEW h \in H,
         \A g \in H : g # h => Rank(g, boost) < Rank(h, boost)
  PROVE  h \in Top(H, k, boost)
<1>1. PICK t \in Top(H, k, boost) : Rank(t, boost) >= Rank(h, boost)
  BY TopHasBest
<1>2. t \in H /\ Rank(t, boost) \in Nat /\ Rank(h, boost) \in Nat
  BY TopIs, RankIsNumber
<1> QED BY <1>1, <1>2

-----------------------------------------------------------------------------
(***************************************************************************)
(* The passes of one variant.                                              *)
(***************************************************************************)
Settings == corpus \in Corpora /\ knob \in Knobs
Langs    == {Asked} \cup IF knob.soft \/ knob.esl THEN {"en"} ELSE {}
Variants == UNION knob.queries

Hit(c, v)          == [chunk |-> c, score |-> c.s[v]]
Match(c, v, langs) == c \in corpus /\ c.lang \in langs /\ c.s[v] >= MinScore
AllHits            == {Hit(c, v) : c \in corpus, v \in {1, 2}}

\* the chunks and the settings of an ask
LEMMA SettingsTyped ==
  ASSUME Settings
  PROVE  /\ corpus \in SUBSET Kinds /\ IsFiniteSet(corpus)
         /\ \A c \in corpus : c.lang \in {"es", "en"} /\ c.tag \in BOOLEAN /\ c.s[1] \in Nat /\ c.s[2] \in Nat
         /\ knob.topK \in Nat \ {0} /\ RetrieveK \in Nat \ {0} /\ 2 * RetrieveK \in Nat \ {0}
         /\ MinScore \in Nat /\ LocaleBoost \in Nat
         /\ knob.soft \in BOOLEAN /\ knob.tags \in BOOLEAN /\ knob.esl \in BOOLEAN
         /\ knob.queries \in {{{1}}, {{1, 2}}, {{1}, {2}}} /\ knob.ce \in {"off", "tagged", "none"}
<1>1. corpus \in SUBSET Kinds
  BY DEF Settings, Corpora, kSubset
<1>2. IsFiniteSet(corpus)
  BY <1>1, RetrievalAssumption, FS_Subset
<1>3. \A c \in corpus : c.lang \in {"es", "en"} /\ c.tag \in BOOLEAN /\ c.s[1] \in Nat /\ c.s[2] \in Nat
  BY <1>1, RetrievalAssumption
<1>4. /\ knob.topK \in TopKs /\ knob.soft \in BOOLEAN /\ knob.tags \in BOOLEAN /\ knob.esl \in BOOLEAN
      /\ knob.queries \in {{{1}}, {{1, 2}}, {{1}, {2}}} /\ knob.ce \in {"off", "tagged", "none"}
  BY DEF Settings, Knobs
<1>5. knob.topK \in Nat \ {0}
  BY <1>4, RetrievalAssumption
<1>6. RetrieveK \in Nat \ {0} /\ 2 * RetrieveK \in Nat \ {0}
  BY <1>5 DEF RetrieveK
<1> QED BY <1>1, <1>2, <1>3, <1>4, <1>5, <1>6, RetrievalAssumption

\* a corpus has finitely many hits
LEMMA HitsOfCorpus ==
  ASSUME Settings
  PROVE  /\ AllHits \in SUBSET Hits /\ IsFiniteSet(AllHits)
         /\ \A H \in SUBSET AllHits : H \in SUBSET Hits /\ IsFiniteSet(H)
         /\ \A c \in corpus, v \in {1, 2} : Hit(c, v) \in AllHits /\ Hit(c, v).chunk = c /\ Hit(c, v).score = c.s[v]
<1>1. \A c \in corpus, v \in {1, 2} : Hit(c, v) \in Hits
  BY SettingsTyped DEF Hit, Hits
<1>2. ASSUME NEW v \in {1, 2} PROVE IsFiniteSet({Hit(c, v) : c \in corpus})
  <2> DEFINE T == {Hit(c, v) : c \in corpus}
             f == [c \in corpus |-> Hit(c, v)]
  <2>1. f \in Surjection(corpus, T)
    BY DEF Surjection
  <2> HIDE DEF f, T
  <2>2. IsFiniteSet(T)
    BY <2>1, SettingsTyped, FS_Surjection
  <2> QED BY <2>2 DEF T
<1>3. AllHits = {Hit(c, 1) : c \in corpus} \cup {Hit(c, 2) : c \in corpus}
  BY DEF AllHits
<1>4. IsFiniteSet(AllHits)
  BY <1>2, <1>3, FS_Union
<1>5. \A H \in SUBSET AllHits : H \in SUBSET Hits /\ IsFiniteSet(H)
  <2>1. AllHits \in SUBSET Hits
    BY <1>1 DEF AllHits
  <2> QED BY <1>4, <2>1, FS_Subset
<1>6. AllHits \in SUBSET Hits
  BY <1>1 DEF AllHits
<1>7. \A c \in corpus, v \in {1, 2} : Hit(c, v) \in AllHits /\ Hit(c, v).chunk = c /\ Hit(c, v).score = c.s[v]
  <2> SUFFICES ASSUME NEW c \in corpus, NEW v \in {1, 2}
               PROVE  Hit(c, v) \in AllHits /\ Hit(c, v).chunk = c /\ Hit(c, v).score = c.s[v]
    OBVIOUS
  <2>1. Hit(c, v) \in AllHits
    BY DEF AllHits
  <2>2. Hit(c, v).chunk = c /\ Hit(c, v).score = c.s[v]
    BY DEF Hit
  <2> QED BY <2>1, <2>2
<1> QED BY <1>4, <1>5, <1>6, <1>7

\* one query: what it returns matches, it returns something if something matches, and the best
LEMMA ChunksAre ==
  ASSUME Settings, NEW v \in {1, 2}, NEW langs, NEW tagged \in BOOLEAN
  PROVE  /\ \A h \in RetrieveChunks(v, langs, tagged) : \E c \in corpus : Match(c, v, langs) /\ h = Hit(c, v)
         /\ \A c \in corpus : Match(c, v, langs) /\ (tagged => c.tag) =>
              /\ RetrieveChunks(v, langs, tagged) # {}
              /\ (\A d \in corpus : d # c /\ d.lang \in langs => d.s[v] < c.s[v])
                   => Hit(c, v) \in RetrieveChunks(v, langs, tagged)
<1> DEFINE found == {Hit(c, v) : c \in {d \in corpus : d.lang \in langs /\ (tagged => d.tag)}}
           best == Top(found, RetrieveK, 0)
<1>1. RetrieveChunks(v, langs, tagged) = {h \in best : h.score >= MinScore}
  BY DEF RetrieveChunks, Hit
<1>2. found \in SUBSET AllHits
  BY DEF AllHits
<1>3. found \in SUBSET Hits /\ IsFiniteSet(found) /\ RetrieveK \in Nat \ {0} /\ 0 \in Nat
  BY <1>2, HitsOfCorpus, SettingsTyped
<1>4. best \subseteq found
  <2> HIDE DEF found
  <2> QED BY <1>3, TopIs
<1>5. \A c \in corpus : c.s[v] \in Nat /\ Hit(c, v).chunk = c /\ Hit(c, v).score = c.s[v]
  BY HitsOfCorpus, SettingsTyped
<1>6. \A h \in found : Rank(h, 0) = h.score
  BY <1>3 DEF Rank, Hits
<1>7. ASSUME NEW h \in RetrieveChunks(v, langs, tagged)
      PROVE  \E c \in corpus : Match(c, v, langs) /\ h = Hit(c, v)
  BY <1>1, <1>4, <1>5, <1>7 DEF Match
<1>8. ASSUME NEW c \in corpus, Match(c, v, langs), tagged => c.tag
      PROVE  RetrieveChunks(v, langs, tagged) # {}
  <2>1. Hit(c, v) \in found
    BY <1>8 DEF Match
  <2>2. PICK t \in best : Rank(t, 0) >= Rank(Hit(c, v), 0)
    <3> HIDE DEF found
    <3> QED BY <1>3, <2>1, TopHasBest
  <2>3. t \in found /\ t.score >= c.s[v] /\ t.score \in Nat
    BY <1>3, <1>4, <1>5, <1>6, <2>1, <2>2 DEF Hits
  <2>4. t.score >= MinScore
    BY <1>5, <1>8, <2>3, SettingsTyped DEF Match
  <2> QED BY <1>1, <2>2, <2>4
<1>9. ASSUME NEW c \in corpus, Match(c, v, langs), tagged => c.tag,
             \A d \in corpus : d # c /\ d.lang \in langs => d.s[v] < c.s[v]
      PROVE  Hit(c, v) \in RetrieveChunks(v, langs, tagged)
  <2>1. Hit(c, v) \in found
    BY <1>9 DEF Match
  <2>2. ASSUME NEW g \in found, g # Hit(c, v) PROVE Rank(g, 0) < Rank(Hit(c, v), 0)
    <3>1. PICK d \in corpus : d.lang \in langs /\ g = Hit(d, v)
      OBVIOUS
    <3>2. d # c
      BY <2>2, <3>1
    <3> QED BY <1>5, <1>6, <1>9, <2>1, <3>1, <3>2
  <2>3. Hit(c, v) \in best
    <3> HIDE DEF found
    <3> QED BY <1>3, <2>1, <2>2, TopKeeps
  <2> QED BY <1>1, <1>5, <1>9, <2>3 DEF Match
<1> QED BY <1>7, <1>8, <1>9

\* the same with the second pass that takes no tags
LEMMA FallbackIs ==
  ASSUME Settings, NEW v \in {1, 2}, NEW langs
  PROVE  /\ \A h \in TagFallback(v, langs) : \E c \in corpus : Match(c, v, langs) /\ h = Hit(c, v)
         /\ \A c \in corpus : Match(c, v, langs) =>
              /\ TagFallback(v, langs) # {}
              /\ (knob.tags => c.tag) /\ (\A d \in corpus : d # c /\ d.lang \in langs => d.s[v] < c.s[v])
                   => Hit(c, v) \in TagFallback(v, langs)
<1> DEFINE tagged == RetrieveChunks(v, langs, knob.tags)
           all == RetrieveChunks(v, langs, FALSE)
<1>1. TagFallback(v, langs) = IF tagged = {} THEN all ELSE tagged
  BY DEF TagFallback
<1>2. knob.tags \in BOOLEAN
  BY SettingsTyped
<1>3. /\ \A h \in tagged : \E c \in corpus : Match(c, v, langs) /\ h = Hit(c, v)
      /\ \A c \in corpus : Match(c, v, langs) /\ (knob.tags => c.tag) =>
           /\ tagged # {}
           /\ (\A d \in corpus : d # c /\ d.lang \in langs => d.s[v] < c.s[v]) => Hit(c, v) \in tagged
  BY <1>2, ChunksAre
<1>4. /\ \A h \in all : \E c \in corpus : Match(c, v, langs) /\ h = Hit(c, v)
      /\ \A c \in corpus : Match(c, v, langs) => all # {}
  <2>1. ASSUME NEW tag \in BOOLEAN, ~tag
        PROVE  /\ \A h \in RetrieveChunks(v, langs, tag) : \E c \in corpus : Match(c, v, langs) /\ h = Hit(c, v)
               /\ \A c \in corpus : Match(c, v, langs) => RetrieveChunks(v, langs, tag) # {}
    BY <2>1, ChunksAre
  <2>2. FALSE \in BOOLEAN /\ ~FALSE
    OBVIOUS
  <2> QED BY <2>1, <2>2, Zenon
<1> HIDE DEF tagged, all
<1> QED BY <1>1, <1>3, <1>4

\* another language only if the first pass found nothing
LEMMA SoftIs ==
  ASSUME Settings, NEW v \in {1, 2}
  PROVE  /\ \A h \in SoftLanguage(v) : \E c \in corpus :
              /\ h = Hit(c, v) /\ c.s[v] >= MinScore
              /\ c.lang = Asked \/ (knob.soft /\ \A d \in corpus : ~Match(d, v, {Asked}))
         /\ \A c \in corpus : Match(c, v, IF knob.soft THEN {"es", "en"} ELSE {Asked}) => SoftLanguage(v) # {}
         /\ \A c \in corpus : /\ Match(c, v, {Asked}) /\ (knob.tags => c.tag)
                              /\ \A d \in corpus : d # c /\ d.lang = Asked => d.s[v] < c.s[v]
              => Hit(c, v) \in SoftLanguage(v)
<1> DEFINE first == TagFallback(v, {Asked})
           second == TagFallback(v, {"es", "en"})
<1>1. SoftLanguage(v) = IF first = {} /\ knob.soft THEN second ELSE first
  BY DEF SoftLanguage
<1>2. /\ \A h \in first : \E c \in corpus : Match(c, v, {Asked}) /\ h = Hit(c, v)
      /\ \A c \in corpus : Match(c, v, {Asked}) =>
           /\ first # {}
           /\ (knob.tags => c.tag) /\ (\A d \in corpus : d # c /\ d.lang \in {Asked} => d.s[v] < c.s[v])
                => Hit(c, v) \in first
  BY FallbackIs
<1>3. /\ \A h \in second : \E c \in corpus : Match(c, v, {"es", "en"}) /\ h = Hit(c, v)
      /\ \A c \in corpus : Match(c, v, {"es", "en"}) => second # {}
  BY FallbackIs
<1> HIDE DEF first, second
<1>4. ASSUME NEW h \in SoftLanguage(v)
      PROVE  \E c \in corpus : /\ h = Hit(c, v) /\ c.s[v] >= MinScore
                               /\ c.lang = Asked \/ (knob.soft /\ \A d \in corpus : ~Match(d, v, {Asked}))
  <2>1. CASE first = {} /\ knob.soft
    <3>1. \A d \in corpus : ~Match(d, v, {Asked})
      BY <1>2, <2>1
    <3>2. PICK c \in corpus : Match(c, v, {"es", "en"}) /\ h = Hit(c, v)
      BY <1>1, <1>3, <1>4, <2>1
    <3> QED BY <2>1, <3>1, <3>2 DEF Match
  <2>2. CASE ~(first = {} /\ knob.soft)
    <3>1. PICK c \in corpus : Match(c, v, {Asked}) /\ h = Hit(c, v)
      BY <1>1, <1>2, <1>4, <2>2
    <3> QED BY <3>1 DEF Match
  <2> QED BY <2>1, <2>2
<1>5. ASSUME NEW c \in corpus, Match(c, v, IF knob.soft THEN {"es", "en"} ELSE {Asked})
      PROVE  SoftLanguage(v) # {}
  <2>1. CASE first = {} /\ knob.soft
    BY <1>1, <1>3, <1>5, <2>1
  <2>2. CASE first # {}
    BY <1>1, <2>2
  <2>3. CASE ~knob.soft
    BY <1>1, <1>2, <1>5, <2>3
  <2> QED BY <2>1, <2>2, <2>3
<1>6. ASSUME NEW c \in corpus, Match(c, v, {Asked}), knob.tags => c.tag,
             \A d \in corpus : d # c /\ d.lang = Asked => d.s[v] < c.s[v]
      PROVE  Hit(c, v) \in SoftLanguage(v)
  BY <1>1, <1>2, <1>6
<1> QED BY <1>4, <1>5, <1>6

\* without a boost a hit is ranked by its score
LEMMA RankOfHit ==
  ASSUME Settings, NEW c \in corpus, NEW v \in {1, 2}
  PROVE  /\ Hit(c, v) \in AllHits /\ Hit(c, v) \in Hits /\ Hit(c, v).chunk = c
         /\ Hit(c, v).score = c.s[v] /\ Rank(Hit(c, v), 0) = c.s[v] /\ c.s[v] \in Nat
<1>1. Hit(c, v) \in AllHits /\ Hit(c, v).chunk = c /\ Hit(c, v).score = c.s[v] /\ c.s[v] \in Nat
  BY HitsOfCorpus, SettingsTyped
<1>2. Hit(c, v) \in Hits
  BY <1>1, HitsOfCorpus
<1> QED BY <1>1, <1>2 DEF Rank

\* the same with the English pages
LEMMA LayersAre ==
  ASSUME Settings, NEW v \in {1, 2}
  PROVE  /\ \A h \in LanguageLayers(v) : \E c \in corpus :
              /\ h = Hit(c, v) /\ Match(c, v, Langs)
              /\ c.lang # Asked => knob.esl \/ (knob.soft /\ \A d \in corpus : ~Match(d, v, {Asked}))
         /\ \A c \in corpus : Match(c, v, Langs) => LanguageLayers(v) # {}
         /\ \A c \in corpus : /\ Match(c, v, {Asked}) /\ (knob.tags => c.tag)
                              /\ \A d \in corpus : d # c /\ d.lang \in Langs => d.s[v] < c.s[v]
              => Hit(c, v) \in LanguageLayers(v)
<1> DEFINE soft == SoftLanguage(v)
           a == Top(soft, 2, 0)
           b == TagFallback(v, {"en"})
           ab == a \cup b
           both == Top(ab, RetrieveK, 0)
           Fits(h) == \E c \in corpus :
              /\ h = Hit(c, v) /\ Match(c, v, Langs)
              /\ c.lang # Asked => knob.esl \/ (knob.soft /\ \A d \in corpus : ~Match(d, v, {Asked}))
<1>1. LanguageLayers(v) = IF knob.esl THEN both ELSE soft
  BY DEF LanguageLayers
<1>2. /\ \A h \in soft : \E c \in corpus :
              /\ h = Hit(c, v) /\ c.s[v] >= MinScore
              /\ c.lang = Asked \/ (knob.soft /\ \A d \in corpus : ~Match(d, v, {Asked}))
      /\ \A c \in corpus : Match(c, v, IF knob.soft THEN {"es", "en"} ELSE {Asked}) => soft # {}
      /\ \A c \in corpus : /\ Match(c, v, {Asked}) /\ (knob.tags => c.tag)
                           /\ \A d \in corpus : d # c /\ d.lang = Asked => d.s[v] < c.s[v]
           => Hit(c, v) \in soft
  BY SoftIs
<1>3. /\ \A h \in b : \E c \in corpus : Match(c, v, {"en"}) /\ h = Hit(c, v)
      /\ \A c \in corpus : Match(c, v, {"en"}) => b # {}
  BY FallbackIs
<1>4. /\ Asked = "es" /\ Asked \in Langs /\ (knob.soft \/ knob.esl => "en" \in Langs)
      /\ \A c \in corpus : c.lang \in {"es", "en"}
      /\ RetrieveK \in Nat \ {0} /\ 2 \in Nat \ {0} /\ 0 \in Nat
  BY SettingsTyped DEF Asked, Langs
<1> HIDE DEF soft, b
<1>5. \A h \in soft : Fits(h)
  <2> SUFFICES ASSUME NEW h \in soft PROVE Fits(h)
    OBVIOUS
  <2>1. PICK c \in corpus : /\ h = Hit(c, v) /\ c.s[v] >= MinScore
                            /\ c.lang = Asked \/ (knob.soft /\ \A d \in corpus : ~Match(d, v, {Asked}))
    BY <1>2
  <2>2. Match(c, v, Langs)
    BY <1>4, <2>1 DEF Match
  <2> QED BY <2>1, <2>2
<1>6. knob.esl => \A h \in b : Fits(h)
  <2> SUFFICES ASSUME knob.esl, NEW h \in b PROVE Fits(h)
    OBVIOUS
  <2>1. PICK c \in corpus : Match(c, v, {"en"}) /\ h = Hit(c, v)
    BY <1>3
  <2>2. Match(c, v, Langs)
    BY <1>4, <2>1 DEF Match
  <2> QED BY <2>1, <2>2
<1>7. soft \in SUBSET AllHits /\ b \in SUBSET AllHits
  <2>1. \A c \in corpus : Hit(c, v) \in AllHits
    BY RankOfHit
  <2> QED BY <1>2, <1>3, <2>1
<1>8. soft \in SUBSET Hits /\ IsFiniteSet(soft) /\ a \subseteq soft
  <2>1. soft \in SUBSET Hits /\ IsFiniteSet(soft)
    BY <1>7, HitsOfCorpus
  <2> QED BY <1>4, <2>1, TopIs
<1>9. /\ ab \in SUBSET Hits /\ IsFiniteSet(ab) /\ both \subseteq ab
      /\ knob.esl => \A h \in ab : Fits(h)
  <2>1. ab \in SUBSET AllHits
    BY <1>7, <1>8
  <2>2. ab \in SUBSET Hits /\ IsFiniteSet(ab)
    BY <2>1, HitsOfCorpus
  <2>3. both \subseteq ab
    <3> HIDE DEF ab
    <3> QED BY <1>4, <2>2, TopIs
  <2> QED BY <1>5, <1>6, <1>8, <2>2, <2>3
<1>10. ASSUME NEW h \in LanguageLayers(v) PROVE Fits(h)
  <2> HIDE DEF Fits, ab
  <2> QED BY <1>1, <1>5, <1>9, <1>10
<1>11. ASSUME NEW c \in corpus, Match(c, v, Langs) PROVE LanguageLayers(v) # {}
  <2>1. CASE ~knob.esl
    <3>1. Match(c, v, IF knob.soft THEN {"es", "en"} ELSE {Asked})
      BY <1>4, <1>11, <2>1 DEF Match, Langs
    <3> QED BY <1>1, <1>2, <2>1, <3>1
  <2>2. CASE knob.esl
    <3>1. ab # {}
      <4>1. CASE c.lang = "en"
        <5>1. Match(c, v, {"en"})
          BY <1>11, <4>1 DEF Match
        <5> QED BY <1>3, <5>1
      <4>2. CASE c.lang # "en"
        <5>1. Match(c, v, IF knob.soft THEN {"es", "en"} ELSE {Asked})
          BY <1>4, <1>11, <4>2 DEF Match
        <5>2. PICK h \in soft : TRUE
          BY <1>2, <5>1
        <5>3. \E t \in a : Rank(t, 0) >= Rank(h, 0)
          BY <1>4, <1>8, TopHasBest
        <5> QED BY <5>3
      <4> QED BY <4>1, <4>2
    <3>2. PICK h \in ab : TRUE
      BY <3>1
    <3> HIDE DEF ab
    <3>3. \E t \in both : Rank(t, 0) >= Rank(h, 0)
      BY <1>4, <1>9, TopHasBest
    <3> QED BY <1>1, <2>2, <3>3
  <2> QED BY <2>1, <2>2
<1>12. ASSUME NEW c \in corpus, Match(c, v, {Asked}), knob.tags => c.tag,
              \A d \in corpus : d # c /\ d.lang \in Langs => d.s[v] < c.s[v]
       PROVE  Hit(c, v) \in LanguageLayers(v)
  <2>1. Hit(c, v) \in soft
    BY <1>2, <1>4, <1>12
  <2>2. ASSUME NEW h, Fits(h), h # Hit(c, v) PROVE Rank(h, 0) < Rank(Hit(c, v), 0)
    <3>1. PICK d \in corpus : h = Hit(d, v) /\ Match(d, v, Langs)
      BY <2>2
    <3>2. d # c /\ d.s[v] < c.s[v]
      BY <1>12, <2>2, <3>1 DEF Match
    <3>3. Rank(h, 0) = d.s[v] /\ Rank(Hit(c, v), 0) = c.s[v]
      BY <3>1, RankOfHit
    <3> QED BY <3>2, <3>3
  <2>3. Hit(c, v) \in a
    <3> HIDE DEF Fits
    <3> QED BY <1>4, <1>5, <1>8, <2>1, <2>2, TopKeeps
  <2>4. CASE knob.esl
    <3>1. Hit(c, v) \in ab /\ \A h \in ab : h # Hit(c, v) => Rank(h, 0) < Rank(Hit(c, v), 0)
      <4> HIDE DEF Fits
      <4> QED BY <1>9, <2>2, <2>3, <2>4
    <3> HIDE DEF Fits, ab
    <3>2. Hit(c, v) \in both
      BY <1>4, <1>9, <3>1, TopKeeps
    <3> QED BY <1>1, <2>4, <3>2
  <2>5. CASE ~knob.esl
    BY <1>1, <2>1, <2>5
  <2> QED BY <2>4, <2>5
<1> HIDE DEF Fits
<1>13. \A h \in LanguageLayers(v) : Fits(h)
  BY <1>10
<1> QED BY <1>11, <1>12, <1>13 DEF Fits

-----------------------------------------------------------------------------
(***************************************************************************)
(* Variants and questions together.                                        *)
(***************************************************************************)
\* what the layers may return for some variant
Legit(h) ==
  \E c \in corpus, v \in Variants :
    /\ h = Hit(c, v) /\ Match(c, v, Langs)
    /\ c.lang # Asked => knob.esl \/ (knob.soft /\ \A d \in corpus : ~Match(d, v, {Asked}))

\* b is in the language of the ask and scores more than all else there may be
Leads(b) == /\ Legit(b) /\ b.chunk.lang = Asked
            /\ \A h : Legit(h) /\ h # b => h.score < b.score

\* the variants of all questions
LEMMA VariantsAre ==
  ASSUME Settings
  PROVE  /\ Variants \subseteq {1, 2} /\ 1 \in Variants
         /\ \A q \in knob.queries : q \subseteq Variants
<1>1. CASE knob.queries = {{1}}
  BY <1>1 DEF Variants
<1>2. CASE knob.queries = {{1, 2}}
  BY <1>2 DEF Variants
<1>3. CASE knob.queries = {{1}, {2}}
  BY <1>3 DEF Variants
<1> QED BY <1>1, <1>2, <1>3, SettingsTyped

\* legitimate hits are hits of the corpus
LEMMA LegitIsHit ==
  ASSUME Settings, NEW H, \A h \in H : Legit(h)
  PROVE  H \in SUBSET AllHits /\ H \in SUBSET Hits /\ IsFiniteSet(H)
<1>1. \A h \in H : h \in AllHits
  BY VariantsAre, RankOfHit DEF Legit
<1> QED BY <1>1, HitsOfCorpus

\* one hit that leads is first whatever the language of the ask is worth
LEMMA LeadsRank ==
  ASSUME Settings, NEW b, Leads(b), NEW h, Legit(h), h # b, NEW boost \in Nat
  PROVE  Rank(h, boost) < Rank(b, boost)
<1>1. h \in Hits /\ b \in Hits
  <2>1. \A x \in {h, b} : Legit(x)
    BY DEF Leads
  <2> HIDE DEF Legit
  <2> QED BY <2>1, LegitIsHit
<1>2. h.score \in Nat /\ b.score \in Nat /\ h.score < b.score /\ b.chunk.lang = Asked
  BY <1>1 DEF Leads, Hits
<1> QED BY <1>2 DEF Rank

\* of finitely many hits one ranks highest
LEMMA Highest ==
  ASSUME NEW H \in SUBSET Hits, IsFiniteSet(H), H # {}
  PROVE  \E h \in H : \A g \in H : Rank(h, 0) >= Rank(g, 0)
<1> DEFINE T == Top(H, 1, 0)
<1>1. T \subseteq H /\ IsFiniteSet(T) /\ Cardinality(T) <= 1
  BY TopIs
<1>2. \A g \in H : \E t \in T : Rank(t, 0) >= Rank(g, 0)
  BY TopHasBest
<1> HIDE DEF T
<1>3. T # {} /\ Cardinality(T) \in Nat /\ Cardinality(T) # 0
  BY <1>1, <1>2, FS_EmptySet, FS_CardinalityType
<1>4. PICK t : T = {t}
  <2>1. Cardinality(T) = 1
    BY <1>1, <1>3
  <2> QED BY <1>1, <2>1, FS_Singleton
<1> QED BY <1>1, <1>2, <1>4

\* one score for each chunk: it leaves some, and the one that leads
LEMMA BestScoreIs ==
  ASSUME Settings, NEW H, \A h \in H : Legit(h)
  PROVE  /\ BestScore(H) \subseteq H
         /\ H # {} => BestScore(H) # {}
         /\ \A b \in H : Leads(b) => b \in BestScore(H)
<1>1. H \in SUBSET Hits /\ IsFiniteSet(H)
  BY LegitIsHit
<1>2. \A h \in H : h.score \in Nat /\ Rank(h, 0) = h.score
  BY <1>1 DEF Hits, Rank
<1>3. ASSUME H # {} PROVE BestScore(H) # {}
  <2>1. PICK h \in H : \A g \in H : Rank(h, 0) >= Rank(g, 0)
    BY <1>1, <1>3, Highest
  <2>2. h \in BestScore(H)
    BY <1>2, <2>1 DEF BestScore
  <2> QED BY <2>2
<1>4. ASSUME NEW b \in H, Leads(b) PROVE b \in BestScore(H)
  <2>1. \A g \in H : g # b => g.score < b.score
    BY <1>4 DEF Leads
  <2>2. \A g \in H : g.score <= b.score
    BY <1>2, <2>1
  <2> QED BY <2>2 DEF BestScore
<1> QED BY <1>3, <1>4 DEF BestScore

\* a cut of legitimate hits: it leaves some, and the one that leads
LEMMA CutIs ==
  ASSUME Settings, NEW H, \A h \in H : Legit(h), NEW k \in Nat \ {0}, NEW boost \in Nat
  PROVE  /\ Top(H, k, boost) \subseteq H
         /\ H # {} => Top(H, k, boost) # {}
         /\ \A b \in H : Leads(b) => b \in Top(H, k, boost)
<1>1. H \in SUBSET Hits /\ IsFiniteSet(H)
  BY LegitIsHit
<1>2. Top(H, k, boost) \subseteq H
  BY <1>1, TopIs
<1>3. ASSUME H # {} PROVE Top(H, k, boost) # {}
  <2>1. PICK h \in H : TRUE
    BY <1>3
  <2>2. \E t \in Top(H, k, boost) : Rank(t, boost) >= Rank(h, boost)
    BY <1>1, TopHasBest
  <2> QED BY <2>2
<1>4. ASSUME NEW b \in H, Leads(b) PROVE b \in Top(H, k, boost)
  <2>1. \A g \in H : g # b => Rank(g, boost) < Rank(b, boost)
    BY <1>4, LeadsRank
  <2> QED BY <1>1, <2>1, TopKeeps
<1> QED BY <1>2, <1>3, <1>4

\* what the layers return is legitimate
LEMMA LayersLegit ==
  ASSUME Settings, NEW v \in Variants, NEW h \in LanguageLayers(v)
  PROVE  Legit(h)
<1>1. v \in {1, 2}
  BY VariantsAre
<1> QED BY <1>1, LayersAre DEF Legit

\* the variants of one question together
LEMMA MultiQueryIs ==
  ASSUME Settings, NEW q \in knob.queries
  PROVE  /\ \A h \in MultiQuery(q) : Legit(h)
         /\ \A v \in q : LanguageLayers(v) # {} => MultiQuery(q) # {}
         /\ \A v \in q : \A b \in LanguageLayers(v) : Leads(b) => b \in MultiQuery(q)
<1> DEFINE U == UNION {LanguageLayers(v) : v \in q}
           B == BestScore(U)
           M == Top(B, 2 * RetrieveK, 0)
           merged == IF Cardinality(q) = 1 THEN U ELSE M
<1>1. MultiQuery(q) = Top(merged, RetrieveK, LocaleBoost)
  BY DEF MultiQuery
<1>2. RetrieveK \in Nat \ {0} /\ 2 * RetrieveK \in Nat \ {0} /\ LocaleBoost \in Nat /\ 0 \in Nat
  BY SettingsTyped
<1>3. \A h \in U : Legit(h)
  BY VariantsAre, LayersLegit
<1>4. /\ \A v \in q : LanguageLayers(v) # {} => U # {}
      /\ \A v \in q : \A b \in LanguageLayers(v) : b \in U
  OBVIOUS
<1> HIDE DEF U, Legit, Leads
<1>5. B \subseteq U /\ (U # {} => B # {}) /\ \A b \in U : Leads(b) => b \in B
  BY <1>3, BestScoreIs
<1> HIDE DEF B
<1>6. M \subseteq B /\ (B # {} => M # {}) /\ \A b \in B : Leads(b) => b \in M
  BY <1>2, <1>3, <1>5, CutIs
<1> HIDE DEF M
<1>7. merged \subseteq U /\ (U # {} => merged # {}) /\ \A b \in U : Leads(b) => b \in merged
  BY <1>5, <1>6
<1> HIDE DEF merged
<1>8. /\ Top(merged, RetrieveK, LocaleBoost) \subseteq merged
      /\ merged # {} => Top(merged, RetrieveK, LocaleBoost) # {}
      /\ \A b \in merged : Leads(b) => b \in Top(merged, RetrieveK, LocaleBoost)
  BY <1>2, <1>3, <1>7, CutIs
<1> QED BY <1>1, <1>3, <1>4, <1>7, <1>8

\* one hit of each chunk, all legitimate, and some if any variant had some
LEMMA CandidatesAre ==
  ASSUME Settings
  PROVE  /\ \A h \in Candidates : Legit(h)
         /\ Cardinality(Candidates) <= RetrieveK
         /\ \A h \in Candidates, g \in Candidates : h.chunk = g.chunk => h = g
         /\ \A v \in Variants : LanguageLayers(v) # {} => Candidates # {}
         /\ \A v \in Variants : \A b \in LanguageLayers(v) : Leads(b) => b \in Candidates
<1> DEFINE U == UNION {MultiQuery(q) : q \in knob.queries}
           B == BestScore(U)
<1>1. Candidates = Top(B, RetrieveK, 0)
  BY DEF Candidates
<1>2. RetrieveK \in Nat \ {0} /\ 0 \in Nat
  BY SettingsTyped
<1>3. \A h \in U : Legit(h)
  BY MultiQueryIs
<1>4. \A v \in Variants : \E q \in knob.queries : v \in q
  BY DEF Variants
<1>5. \A v \in Variants : LanguageLayers(v) # {} => U # {}
  BY <1>4, MultiQueryIs
<1>6. \A v \in Variants : \A b \in LanguageLayers(v) : Leads(b) => b \in U
  BY <1>4, MultiQueryIs
<1> HIDE DEF U, Legit, Leads
<1>7. B \subseteq U /\ (U # {} => B # {}) /\ \A b \in U : Leads(b) => b \in B
  BY <1>3, BestScoreIs
<1>8. B \in SUBSET Hits /\ IsFiniteSet(B)
  BY <1>3, <1>7, LegitIsHit
<1>9. \A h \in B, g \in B : h.chunk = g.chunk => h = g
  <2> SUFFICES ASSUME NEW h \in B, NEW g \in B, h.chunk = g.chunk PROVE h = g
    OBVIOUS
  <2>1. h.score <= g.score /\ g.score <= h.score
    BY DEF BestScore
  <2>2. h \in Hits /\ g \in Hits
    BY <1>8
  <2> QED BY <2>1, <2>2 DEF Hits
<1> HIDE DEF B
<1>10. /\ Candidates \subseteq B /\ (B # {} => Candidates # {})
       /\ \A b \in B : Leads(b) => b \in Candidates
  BY <1>1, <1>2, <1>3, <1>7, CutIs
<1>11. Cardinality(Candidates) <= RetrieveK
  BY <1>1, <1>2, <1>8, TopIs
<1> QED BY <1>3, <1>5, <1>6, <1>7, <1>9, <1>10, <1>11

\* what the cross-encoder leaves of the candidates
LEMMA RerankIs ==
  ASSUME Settings
  PROVE  /\ Rerank(Candidates) \subseteq Candidates
         /\ Cardinality(Rerank(Candidates)) <= knob.topK
         /\ Candidates # {} => Rerank(Candidates) # {}
         /\ knob.ce = "off" => Rerank(Candidates) = Candidates
<1> DEFINE liked == {h \in Candidates : CeLikes(h)}
<1>1. Rerank(Candidates) = IF knob.ce = "off" THEN Candidates
        ELSE IF liked # {} THEN Top(liked, knob.topK, 0) ELSE Top(Candidates, knob.topK, 0)
  BY DEF Rerank
<1>2. knob.topK \in Nat \ {0} /\ 0 \in Nat
  BY SettingsTyped
<1>3. /\ \A h \in Candidates : Legit(h)
      /\ Cardinality(Candidates) <= RetrieveK
  BY CandidatesAre
<1>4. \A h \in liked : Legit(h)
  BY <1>3
<1> HIDE DEF liked, Legit
<1>5. liked \in SUBSET Hits /\ IsFiniteSet(liked) /\ Candidates \in SUBSET Hits /\ IsFiniteSet(Candidates)
  BY <1>3, <1>4, LegitIsHit
<1>6. CASE knob.ce = "off"
  BY <1>1, <1>3, <1>6 DEF RetrieveK
<1>7. CASE knob.ce # "off" /\ liked # {}
  <2>1. /\ Top(liked, knob.topK, 0) \subseteq liked /\ Top(liked, knob.topK, 0) # {}
        /\ Cardinality(Top(liked, knob.topK, 0)) <= knob.topK
    BY <1>2, <1>4, <1>5, <1>7, CutIs, TopIs
  <2>2. liked \subseteq Candidates
    BY DEF liked
  <2> QED BY <1>1, <1>7, <2>1, <2>2
<1>8. CASE knob.ce # "off" /\ liked = {}
  <2>1. /\ Top(Candidates, knob.topK, 0) \subseteq Candidates
        /\ Candidates # {} => Top(Candidates, knob.topK, 0) # {}
        /\ Cardinality(Top(Candidates, knob.topK, 0)) <= knob.topK
    BY <1>2, <1>3, <1>5, CutIs, TopIs
  <2> QED BY <1>1, <1>8, <2>1
<1> QED BY <1>6, <1>7, <1>8

-----------------------------------------------------------------------------
(***************************************************************************)
(* The promise.                                                            *)
(***************************************************************************)
\* the highest score of a chunk is one of its scores
LEMMA PeakIs ==
  ASSUME Settings, NEW c \in corpus
  PROVE  /\ \E v \in Variants : Peak(c) = c.s[v]
         /\ \A v \in Variants : c.s[v] <= Peak(c)
<1> DEFINE S == {c.s[v] : v \in Variants}
<1>1. c.s[1] \in Nat /\ c.s[2] \in Nat /\ Variants \subseteq {1, 2} /\ 1 \in Variants
  BY SettingsTyped, VariantsAre
<1>2. \E x \in S : \A y \in S : x >= y
  <2>1. CASE 2 \in Variants /\ c.s[2] >= c.s[1]
    BY <1>1, <2>1
  <2>2. CASE 2 \in Variants /\ ~(c.s[2] >= c.s[1])
    BY <1>1, <2>2
  <2>3. CASE 2 \notin Variants
    BY <1>1, <2>3
  <2> QED BY <2>1, <2>2, <2>3
<1>3. Peak(c) = CHOOSE x \in S : \A y \in S : x >= y
  BY DEF Peak, Max, Variants
<1> HIDE DEF S
<1>4. Peak(c) \in S /\ \A y \in S : Peak(c) >= y
  BY <1>2, <1>3, Zenon
<1>5. \A y \in S : y \in Nat
  BY <1>1 DEF S
<1> QED BY <1>4, <1>5 DEF S

RetrievalInv ==
  /\ Settings /\ answered \in BOOLEAN
  /\ hits = IF answered THEN Rerank(Candidates) ELSE {}

\* what an ask may see is what some variant matches
LEMMA VisibleIs ==
  ASSUME Settings, NEW c
  PROVE  c \in Visible <=> \E v \in Variants : Match(c, v, Langs)
BY DEF Visible, Found, Langs, Variants, Match

\* "no context" only when nothing matches
LEMMA NothingHidden == RetrievalInv => EmptyOnlyIfNothing
<1> SUFFICES ASSUME RetrievalInv, answered, hits = {}, NEW c \in Visible PROVE FALSE
  BY DEF EmptyOnlyIfNothing
<1>1. Settings /\ Rerank(Candidates) = {}
  BY DEF RetrievalInv
<1>2. PICK v \in Variants : Match(c, v, Langs)
  BY <1>1, VisibleIs
<1>3. LanguageLayers(v) # {}
  BY <1>1, <1>2, VariantsAre, LayersAre DEF Match
<1> QED BY <1>1, <1>3, CandidatesAre, RerankIs

\* another language is a last resort
LEMMA LastResort == RetrievalInv => OtherLanguageIsLastResort
<1> SUFFICES ASSUME RetrievalInv, answered, ~knob.esl, NEW h \in hits, h.chunk.lang # Asked
             PROVE  knob.soft /\ \E v \in Variants :
                      \A c \in corpus : c.lang = Asked => c.s[v] < MinScore
  BY DEF OtherLanguageIsLastResort, Variants
<1>1. Settings /\ h \in Candidates
  BY RerankIs DEF RetrievalInv
<1>2. Legit(h)
  BY <1>1, CandidatesAre
<1>3. PICK c \in corpus, v \in Variants :
        /\ h = Hit(c, v)
        /\ c.lang # Asked => knob.esl \/ (knob.soft /\ \A d \in corpus : ~Match(d, v, {Asked}))
  BY <1>2 DEF Legit
<1>4. h.chunk = c
  BY <1>3 DEF Hit
<1>5. knob.soft /\ \A d \in corpus : ~Match(d, v, {Asked})
  BY <1>3, <1>4
<1>6. \A d \in corpus : d.lang = Asked => d.s[v] < MinScore
  <2>1. \A d \in corpus : d.s[v] \in Nat /\ MinScore \in Nat
    BY <1>1, VariantsAre, SettingsTyped
  <2> QED BY <1>5, <2>1 DEF Match
<1> QED BY <1>5, <1>6

\* the best chunk is retrieved
LEMMA BestStays == RetrievalInv => BestIsKept
<1> SUFFICES ASSUME RetrievalInv, answered, knob.ce = "off",
                    NEW c \in Visible, c.lang = Asked, knob.tags => c.tag,
                    \A d \in Visible \ {c} : Peak(d) < Peak(c)
             PROVE  [chunk |-> c, score |-> Peak(c)] \in hits
  BY DEF BestIsKept
<1>1. Settings /\ hits = Candidates
  BY RerankIs DEF RetrievalInv
<1>2. PICK w \in Variants : Match(c, w, Langs)
  BY <1>1, VisibleIs
<1>3. c \in corpus /\ Asked \in Langs
  BY <1>2 DEF Match, Langs
<1>4. PICK v \in Variants : Peak(c) = c.s[v] /\ \A u \in Variants : c.s[u] <= Peak(c)
  BY <1>1, <1>3, PeakIs
<1>5. v \in {1, 2} /\ w \in {1, 2} /\ \A d \in corpus, u \in Variants : d.s[u] \in Nat
  BY <1>1, VariantsAre, SettingsTyped
<1>6. c.s[v] \in Nat /\ c.s[v] >= MinScore /\ MinScore \in Nat
  <2>1. c.s[w] >= MinScore /\ c.s[w] <= c.s[v]
    BY <1>2, <1>4 DEF Match
  <2>2. c.s[v] \in Nat /\ c.s[w] \in Nat /\ MinScore \in Nat
    BY <1>1, <1>3, <1>5, SettingsTyped
  <2> QED BY <2>1, <2>2
<1>7. \A d \in corpus, u \in Variants : d # c /\ d.lang \in Langs => d.s[u] < c.s[v]
  <2> SUFFICES ASSUME NEW d \in corpus, NEW u \in Variants, d # c, d.lang \in Langs PROVE d.s[u] < c.s[v]
    OBVIOUS
  <2>1. d.s[u] \in Nat
    BY <1>5
  <2>2. CASE d.s[u] >= MinScore
    <3>1. d \in Visible
      BY <1>1, <2>2, VisibleIs DEF Match
    <3>2. Peak(d) < c.s[v] /\ d.s[u] <= Peak(d) /\ \E x \in Variants : Peak(d) = d.s[x]
      BY <1>1, <1>4, <3>1, PeakIs
    <3>3. Peak(d) \in Nat
      BY <1>5, <3>2
    <3> QED BY <1>6, <2>1, <3>2, <3>3
  <2>3. CASE ~(d.s[u] >= MinScore)
    BY <1>6, <2>1, <2>3
  <2> QED BY <2>2, <2>3
<1> DEFINE b == Hit(c, v)
<1>8. b \in LanguageLayers(v)
  <2>1. Match(c, v, {Asked})
    BY <1>3, <1>6 DEF Match
  <2>2. \A d \in corpus : d # c /\ d.lang \in Langs => d.s[v] < c.s[v]
    BY <1>7
  <2> QED BY <1>1, <1>3, <1>5, <2>1, <2>2, LayersAre
<1>9. Leads(b)
  <2>1. Legit(b)
    BY <1>1, <1>8, LayersLegit
  <2>2. b.chunk = c /\ b.score = c.s[v]
    BY DEF Hit
  <2>3. ASSUME NEW h, Legit(h), h # b PROVE h.score < b.score
    <3>1. PICK d \in corpus, u \in Variants : h = Hit(d, u) /\ Match(d, u, Langs)
      BY <2>3 DEF Legit
    <3>2. h.score = d.s[u] /\ d.lang \in Langs /\ d.s[u] \in Nat
      BY <1>5, <3>1 DEF Hit, Match
    <3>3. CASE d # c
      BY <1>7, <2>2, <3>2, <3>3
    <3>4. CASE d = c
      <4>1. d.s[u] # c.s[v]
        BY <2>3, <3>1, <3>4 DEF Hit
      <4> QED BY <1>4, <1>6, <2>2, <3>2, <3>4, <4>1
    <3> QED BY <3>3, <3>4
  <2> QED BY <2>1, <2>2, <2>3 DEF Leads
<1>10. b \in Candidates
  <2> HIDE DEF b
  <2> QED BY <1>1, <1>8, <1>9, CandidatesAre
<1> QED BY <1>1, <1>4, <1>10 DEF Hit

\* nothing is retrieved yet
LEMMA RetrievalInitInv == RetrievalInit => RetrievalInv
BY DEF RetrievalInit, RetrievalInv, Settings

\* the corpus and the settings stay
LEMMA RetrievalStepInv == RetrievalInv /\ [RetrievalNext]_retrievalVars => RetrievalInv'
<1> SUFFICES ASSUME RetrievalInv, [RetrievalNext]_retrievalVars PROVE RetrievalInv'
  OBVIOUS
<1> DEFINE r == Rerank(Candidates)
<1>1. corpus' = corpus /\ knob' = knob
  BY DEF RetrievalNext, RetrieveChat, retrievalVars
<1>2. Settings' /\ r' = r
  <2>1. Settings' /\ RetrieveK' = RetrieveK
    BY <1>1 DEF RetrievalInv, Settings, RetrieveK
  <2>2. ASSUME NEW v, NEW langs, NEW tagged
        PROVE  RetrieveChunks(v, langs, tagged)' = RetrieveChunks(v, langs, tagged)
    BY <1>1, <2>1 DEF RetrieveChunks
  <2>3. ASSUME NEW v, NEW langs PROVE TagFallback(v, langs)' = TagFallback(v, langs)
    BY <1>1, <2>2 DEF TagFallback
  <2>4. ASSUME NEW v PROVE SoftLanguage(v)' = SoftLanguage(v)
    BY <1>1, <2>3 DEF SoftLanguage
  <2>5. ASSUME NEW v PROVE LanguageLayers(v)' = LanguageLayers(v)
    BY <1>1, <2>1, <2>3, <2>4 DEF LanguageLayers
  <2>6. ASSUME NEW q PROVE MultiQuery(q)' = MultiQuery(q)
    BY <2>1, <2>5 DEF MultiQuery
  <2>7. Candidates' = Candidates
    BY <1>1, <2>1, <2>6 DEF Candidates
  <2>8. {h \in Candidates : CeLikes(h)}' = {h \in Candidates : CeLikes(h)}
    BY <1>1, <2>7 DEF CeLikes
  <2>9. r' = r
    BY <1>1, <2>7, <2>8 DEF Rerank
  <2> QED BY <2>1, <2>9
<1>3. CASE RetrieveChat
  <2>1. answered' = TRUE /\ hits' = r'
    BY <1>2, <1>3 DEF RetrieveChat
  <2> QED BY <1>2, <2>1 DEF RetrievalInv
<1>4. CASE UNCHANGED retrievalVars
  <2>1. answered' = answered /\ hits' = hits
    BY <1>4 DEF retrievalVars
  <2> HIDE DEF r
  <2>2. answered \in BOOLEAN /\ hits = IF answered THEN r ELSE {}
    BY DEF RetrievalInv, r
  <2>3. hits' = IF answered' THEN r' ELSE {}
    BY <1>2, <2>1, <2>2
  <2> QED BY <1>2, <2>1, <2>2, <2>3 DEF RetrievalInv, r
<1> QED BY <1>3, <1>4 DEF RetrievalNext

\* What an ask retrieved is what the layers leave of the corpus and the settings it began with
THEOREM RetrievalInvariant == RetrievalSpec => []RetrievalInv
<1> QED BY RetrievalInitInv, RetrievalStepInv, PTL DEF RetrievalSpec

\* No chunk is retrieved twice, each has a score of its own, and there are at most top_k
\* (retrieve_chat_chunks), for any finite corpus and any settings.
THEOREM RetrievalTyped == RetrievalSpec => []RetrievalTypeOK
<1>1. RetrievalInv => RetrievalTypeOK
  <2> SUFFICES ASSUME RetrievalInv PROVE RetrievalTypeOK
    OBVIOUS
  <2>1. Settings /\ answered \in BOOLEAN /\ knob \in Knobs /\ corpus \subseteq Kinds /\ knob.topK \in Nat
    BY SettingsTyped DEF RetrievalInv, Settings
  <2>2. CASE ~answered
    BY <2>1, <2>2, FS_EmptySet DEF RetrievalInv, RetrievalTypeOK
  <2>3. CASE answered
    <3>1. hits \subseteq Candidates /\ Cardinality(hits) <= knob.topK
      BY <2>1, <2>3, RerankIs DEF RetrievalInv
    <3>2. \A h \in hits : Legit(h)
      BY <2>1, <3>1, CandidatesAre
    <3>3. \A h \in hits : h.chunk \in corpus /\ h.score \in {h.chunk.s[v] : v \in {1, 2}}
      BY <2>1, <3>2, VariantsAre DEF Legit, Hit
    <3>4. \A h \in hits, g \in hits : h.chunk = g.chunk => h = g
      BY <2>1, <3>1, CandidatesAre
    <3> QED BY <2>1, <3>1, <3>3, <3>4 DEF RetrievalTypeOK
  <2> QED BY <2>2, <2>3
<1> QED BY <1>1, RetrievalInvariant, PTL

\* The answer is "no context" only when nothing matches, another language is a last resort
\* and no cut loses the best (chat_retrieve.py, soft_language.py, multi_query.py, rerank.py),
\* for any finite corpus, any scores, top_k, threshold and boost, whichever of equal hits a
\* cut takes.
THEOREM RetrievalKeepsPromise == RetrievalSpec => []RetrievalPromise
<1>1. RetrievalInv => RetrievalPromise
  BY NothingHidden, LastResort, BestStays DEF RetrievalPromise
<1> QED BY <1>1, RetrievalInvariant, PTL
=============================================================================
