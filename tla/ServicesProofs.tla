--------------------------- MODULE ServicesProofs ---------------------------
(***************************************************************************)
(* What becomes of the content of a page: the windows its text is cut into *)
(* (ChunkWindows), for texts, sizes and overlaps of any length, and its    *)
(* daily check against the site (Freshness), for any number of documents   *)
(* and of jobs.  The last part is about the sum of these and of the parts  *)
(* of AdminProofs, ChatProofs and IngestProofs that TLC explores           *)
(* (MCServices).                                                           *)
(***************************************************************************)
EXTENDS MCServices, AdminProofs, ChatProofs, IngestProofs

(***************************************************************************)
(* The windows.  Between two turns of the loop the windows cover the text  *)
(* up to the end of the last one, and the next one begins overlap tokens   *)
(* before that end: behind the beginning of the last one, since the        *)
(* overlap is less than the size.                                          *)
(***************************************************************************)
NoWindow == last = <<0, 0>> /\ start = 0 /\ covered = {}

SomeWindow ==
  /\ last[1] < start /\ last[2] < len
  /\ last[2] = last[1] + size /\ start = last[2] - overlap
  /\ covered = 0..(last[2] - 1)

ChunkInv ==
  /\ ChunkTypeOK
  /\ pc = "check" => NoWindow
  /\ pc = "loop" => Valid /\ (NoWindow \/ SomeWindow)
  /\ EveryTokenInAWindow

NewWindow ==
  last' # last /\ last # <<0, 0>> =>
    /\ last'[1] > last[1] /\ last'[2] > last[2]
    /\ last[2] - last'[1] = overlap

LEMMA ChunkInitInv == ChunkInit => ChunkInv
BY ChunkAssumption DEF ChunkInit, ChunkInv, ChunkTypeOK, NoWindow, EveryTokenInAWindow

LEMMA WindowInv ==
  ASSUME ChunkInv, Window
  PROVE  ChunkInv' /\ NewWindow
<1>1. /\ len \in Nat /\ size \in Nat \ {0} /\ overlap \in Nat /\ overlap < size
      /\ start \in Nat /\ start < len /\ UNCHANGED <<len, size, overlap>>
      /\ pc = "loop" /\ (NoWindow \/ SomeWindow)
  BY ChunkAssumption DEF Window, ChunkInv, ChunkTypeOK, Valid
<1>2. last \in Nat \X Nat /\ last = <<last[1], last[2]>>
  BY DEF ChunkInv, ChunkTypeOK
<1>3. End \in Nat /\ start < End /\ End <= len /\ (End = len \/ End = start + size)
  BY <1>1 DEF End
<1>4. /\ last' = <<start, End>> /\ last'[1] = start /\ last'[2] = End
      /\ covered' = covered \cup start..(End - 1)
  BY DEF Window
<1>5. covered' = 0..(End - 1)
  <2>1. CASE NoWindow
    <3>1. covered' = start..(End - 1) /\ start = 0
      BY <1>4, <2>1 DEF NoWindow
    <3> QED BY <3>1
  <2>2. CASE SomeWindow
    <3>1. covered = 0..(last[2] - 1) /\ start <= last[2] /\ last[2] <= End
      BY <1>1, <1>2, <1>3, <2>2 DEF SomeWindow
    <3> QED BY <1>1, <1>2, <1>3, <1>4, <3>1
  <2> QED BY <1>1, <2>1, <2>2
<1>6. NewWindow
  <2>1. CASE NoWindow
    BY <2>1 DEF NoWindow, NewWindow
  <2>2. CASE SomeWindow
    <3>1. last[1] \in Nat /\ last[2] \in Nat
      BY <1>2
    <3>2. /\ start > last[1] /\ last[2] < len /\ last[2] = last[1] + size
          /\ start = last[2] - overlap
      BY <2>2, <1>1, <3>1 DEF SomeWindow
    <3>3. last[2] - start = overlap
      BY <1>1, <3>1, <3>2
    <3>4. End > last[2]
      BY <1>1, <1>3, <3>1, <3>2
    <3> QED BY <1>4, <3>2, <3>3, <3>4 DEF NewWindow
  <2> QED BY <1>1, <2>1, <2>2
<1>7. CASE LastWindow
  <2>1. End = len /\ pc' = "done" /\ start' = start
    BY <1>1, <1>3, <1>7 DEF Window, LastWindow
  <2>2. EveryTokenInAWindow'
    BY <1>1, <1>5, <2>1 DEF EveryTokenInAWindow
  <2>3. ChunkTypeOK'
    BY <1>1, <1>3, <1>4, <1>5, <2>1 DEF ChunkInv, ChunkTypeOK
  <2> QED BY <1>6, <2>1, <2>2, <2>3 DEF ChunkInv
<1>8. CASE ~LastWindow
  <2>1. End < len /\ pc' = "loop" /\ start' = start + Step
    BY <1>1, <1>3, <1>8 DEF Window, LastWindow
  <2>2. SomeWindow'
    BY <1>1, <1>3, <1>4, <1>5, <2>1 DEF SomeWindow, Step
  <2>3. ChunkTypeOK'
    BY <1>1, <1>3, <1>4, <1>5, <2>1 DEF ChunkInv, ChunkTypeOK, Step
  <2> QED BY <1>1, <1>6, <2>1, <2>2, <2>3 DEF ChunkInv, EveryTokenInAWindow, Valid
<1> QED BY <1>7, <1>8

LEMMA ChunkStepInv ==
  ASSUME ChunkInv, [ChunkNext]_chunkVars
  PROVE  ChunkInv' /\ NewWindow
<1>1. CASE Validate
  BY <1>1 DEF Validate, ChunkInv, ChunkTypeOK, NoWindow, Valid, EveryTokenInAWindow, NewWindow
<1>2. CASE Window
  BY <1>2, WindowInv
<1>3. CASE NoText
  <2>1. start >= len /\ pc = "loop" /\ pc' = "done" /\ UNCHANGED <<len, size, overlap, start, last, covered>>
    BY <1>3 DEF NoText
  <2>2. NoWindow
    BY <2>1, ChunkAssumption DEF ChunkInv, ChunkTypeOK, Valid, SomeWindow
  <2>3. covered = 0..(len - 1)
    BY <2>1, <2>2, ChunkAssumption DEF NoWindow, ChunkInv, ChunkTypeOK
  <2> QED BY <2>1, <2>3 DEF ChunkInv, ChunkTypeOK, EveryTokenInAWindow, NewWindow
<1>4. CASE UNCHANGED chunkVars
  BY <1>4 DEF chunkVars, ChunkInv, ChunkTypeOK, NoWindow, SomeWindow, Valid, EveryTokenInAWindow, NewWindow
<1> QED BY <1>1, <1>2, <1>3, <1>4 DEF ChunkNext, ChunkStep

\* Nothing of a text is lost between two windows or at its end (chunk.py 133-146).
THEOREM WindowsCoverText == ChunkSpec => []EveryTokenInAWindow
<1>1. ChunkInv /\ [ChunkNext]_chunkVars => ChunkInv'
  BY ChunkStepInv
<1>2. ChunkInv => EveryTokenInAWindow
  BY DEF ChunkInv
<1> QED BY <1>1, <1>2, ChunkInitInv, PTL DEF ChunkSpec

\* Each window brings a new token, and overlaps the one before it as asked for
\* (chunk.py 133-146).
THEOREM WindowsAdvance == ChunkSpec => EveryWindowIsNew
<1>1. ChunkInv /\ [ChunkNext]_chunkVars => ChunkInv'
  BY ChunkStepInv
<1>2. ChunkInv /\ [ChunkNext]_chunkVars =>
        [last' # last /\ last # <<0, 0>> =>
           /\ last'[1] > last[1] /\ last'[2] > last[2]
           /\ last[2] - last'[1] = overlap]_chunkVars
  BY ChunkStepInv DEF NewWindow
<1> QED BY <1>1, <1>2, ChunkInitInv, PTL DEF ChunkSpec, EveryWindowIsNew

-----------------------------------------------------------------------------
(***************************************************************************)
(* The checks.  What a job that is about to mark its document has seen is  *)
(* stored under the url, unless another job of the url has probed and not  *)
(* ended: two of them know of each other from the second one's probe on.   *)
(* The list of a day is no longer than the cap, as its members have fewer  *)
(* than that many before them.                                             *)
(***************************************************************************)
HasText(u, text) == \E r \in RowsOf(u) \cap there : stored[r] = text
UrlOfJob(j) == UrlOf[fjobs[j].doc]

AloneHasStored ==
  \A j \in FreshSlots : fjobs[j].at = "bump" /\ fjobs[j].alone => HasText(UrlOfJob(j), fjobs[j].saw)

AloneIsAlone ==
  \A j, k \in FreshSlots :
    j # k /\ Probed(j) /\ Probed(k) /\ UrlOfJob(j) = UrlOfJob(k) => ~fjobs[j].alone

ListCapped ==
  freshTick.at = "post" => freshTick.enqueued + Cardinality(freshTick.todo) <= MaxEnqueue

FreshInv == FreshTypeOK /\ AloneHasStored /\ AloneIsAlone /\ ListCapped

Marked ==
  \A d \in FreshDocs : age[d] > 0 /\ age'[d] = 0 =>
    \E j \in LiveOn(d) : HasText(UrlOf[d], fjobs[j].saw) \/ ~fjobs[j].alone

LEMMA FreshInitInv == FreshInit => FreshInv
BY FreshnessAssumption DEF FreshInit, FreshInv, FreshTypeOK, AloneHasStored, AloneIsAlone, ListCapped,
   Probed, NoRefresh

\* Those with fewer than n members of a finite set of numbers before them are
\* at most n: their ranks are different and below n.
LEMMA FirstOnesBounded ==
  ASSUME NEW S \in SUBSET Nat, IsFiniteSet(S), NEW n \in Nat
  PROVE  Cardinality({d \in S : Cardinality({c \in S : c < d}) < n}) <= n
<1> DEFINE Below(d) == {c \in S : c < d}
           T == {d \in S : Cardinality(Below(d)) < n}
           rank == [d \in T |-> Cardinality(Below(d))]
<1>1. \A d \in S : IsFiniteSet(Below(d)) /\ Cardinality(Below(d)) \in Nat
  <2> TAKE d \in S
  <2> QED BY FS_Subset, FS_CardinalityType
<1>2. \A c, d \in S : c < d => Cardinality(Below(c)) # Cardinality(Below(d))
  <2> TAKE c, d \in S
  <2> HAVE c < d
  <2>1. c \in Nat /\ d \in Nat /\ \A e \in S : e \in Nat
    OBVIOUS
  <2>2. Below(c) \subseteq Below(d)
    <3>1. \A e \in S : e < c => e < d
      BY <2>1
    <3> QED BY <3>1
  <2>3. c \in Below(d) /\ c \notin Below(c)
    BY <2>1
  <2> QED BY <1>1, <2>2, <2>3, FS_Subset
<1>3. rank \in [T -> 0..(n - 1)]
  <2>1. \A d \in T : Cardinality(Below(d)) \in 0..(n - 1)
    <3> TAKE d \in T
    <3>1. d \in S /\ Cardinality(Below(d)) < n
      OBVIOUS
    <3>2. Cardinality(Below(d)) \in Nat
      BY <1>1, <3>1
    <3> HIDE DEF Below
    <3> QED BY <3>1, <3>2
  <2> HIDE DEF T, Below
  <2> QED BY <2>1
<1>4. \A c, d \in T : rank[c] = rank[d] => c = d
  <2> TAKE c, d \in T
  <2>1. c \in Nat /\ d \in Nat /\ c \in S /\ d \in S
    OBVIOUS
  <2>2. rank[c] = Cardinality(Below(c)) /\ rank[d] = Cardinality(Below(d))
    OBVIOUS
  <2>3. c < d => rank[c] # rank[d]
    BY <1>2, <2>1, <2>2
  <2>4. d < c => rank[c] # rank[d]
    BY <1>2, <2>1, <2>2
  <2> QED BY <2>1, <2>3, <2>4
<1>5. rank \in Injection(T, 0..(n - 1))
  BY <1>3, <1>4 DEF Injection, IsInjective
<1>6. IsFiniteSet(0..(n - 1)) /\ Cardinality(0..(n - 1)) = n
  BY FS_Interval
<1> HIDE DEF T, rank
<1>7. Cardinality(T) <= n
  BY <1>5, <1>6, FS_Injection
<1> QED BY <1>7 DEF T

-----------------------------------------------------------------------------
JobsTyped == fjobs' \in [FreshSlots -> FreshJobs \cup {NoRefresh}]

\* A step after which every job that has probed is as it was
LEMMA OthersGo ==
  ASSUME FreshInv, UNCHANGED <<there, stored>>,
         \A k \in FreshSlots : Probed(k)' => fjobs'[k] = fjobs[k]
  PROVE  AloneHasStored' /\ AloneIsAlone'
<1>1. \A k \in FreshSlots : Probed(k)' => Probed(k) /\ fjobs'[k] = fjobs[k]
  BY DEF Probed
<1>2. AloneHasStored'
  <2> SUFFICES ASSUME NEW j \in FreshSlots, fjobs'[j].at = "bump", fjobs'[j].alone
               PROVE  HasText(UrlOfJob(j), fjobs[j].saw)'
    BY DEF AloneHasStored
  <2>1. fjobs'[j] = fjobs[j]
    BY <1>1 DEF Probed
  <2> QED BY <2>1 DEF FreshInv, AloneHasStored, HasText, UrlOfJob
<1>3. AloneIsAlone'
  <2> SUFFICES ASSUME NEW j \in FreshSlots, NEW k \in FreshSlots, j # k, Probed(j)', Probed(k)',
                      UrlOfJob(j)' = UrlOfJob(k)'
               PROVE  ~fjobs'[j].alone
    BY DEF AloneIsAlone
  <2> QED BY <1>1 DEF FreshInv, AloneIsAlone, UrlOfJob
<1> QED BY <1>2, <1>3

\* A slot gets a job at its gate.
LEMMA EnqueueKeeps ==
  ASSUME FreshInv, NEW d \in FreshDocs, NEW force \in BOOLEAN, NEW on \in BOOLEAN,
         NEW stale \in BOOLEAN, Enqueue(d, force, on, stale), UNCHANGED <<there, stored>>
  PROVE  JobsTyped /\ AloneHasStored' /\ AloneIsAlone'
<1>1. PICK j \in FreshSlots : fjobs' = [fjobs EXCEPT ![j] = FreshJob(d, force, on, stale)]
  BY DEF Enqueue
<1>2. /\ FreshJob(d, force, on, stale) \in FreshJobs
      /\ FreshJob(d, force, on, stale).at = "gate"
  BY FreshnessAssumption DEF FreshJob, FreshJobs
<1>3. fjobs \in [FreshSlots -> FreshJobs \cup {NoRefresh}]
  BY DEF FreshInv, FreshTypeOK
<1>4. \A k \in FreshSlots : fjobs'[k] = IF k = j THEN FreshJob(d, force, on, stale) ELSE fjobs[k]
  BY <1>1, <1>3
<1>5. JobsTyped
  BY <1>1, <1>2, <1>3 DEF JobsTyped
<1>6. \A k \in FreshSlots : Probed(k)' => fjobs'[k] = fjobs[k]
  BY <1>2, <1>4 DEF Probed
<1> QED BY <1>5, <1>6, OthersGo

\* A job ends, or goes on to a place where it has not probed yet.
LEMMA MoveKeeps ==
  ASSUME FreshInv, NEW j \in FreshSlots, UNCHANGED <<there, stored>>,
         EndRefresh(j) \/ (fjobs[j].at = "gate" /\ MoveJob(j, "probe"))
  PROVE  JobsTyped /\ AloneHasStored' /\ AloneIsAlone'
<1>1. fjobs \in [FreshSlots -> FreshJobs \cup {NoRefresh}]
  BY DEF FreshInv, FreshTypeOK
<1>2. CASE EndRefresh(j)
  <2>1. \A k \in FreshSlots : fjobs'[k] = IF k = j THEN NoRefresh ELSE fjobs[k]
    BY <1>1, <1>2 DEF EndRefresh
  <2>2. JobsTyped
    BY <1>1, <1>2 DEF EndRefresh, JobsTyped
  <2>3. \A k \in FreshSlots : Probed(k)' => fjobs'[k] = fjobs[k]
    BY <2>1 DEF Probed, NoRefresh
  <2> QED BY <2>2, <2>3, OthersGo
<1>3. CASE fjobs[j].at = "gate" /\ MoveJob(j, "probe")
  <2>1. fjobs[j] \in FreshJobs
    BY <1>1, <1>3 DEF NoRefresh
  <2>2. [fjobs[j] EXCEPT !.at = "probe"] \in FreshJobs /\ [fjobs[j] EXCEPT !.at = "probe"].at = "probe"
    BY <2>1 DEF FreshJobs
  <2>3. fjobs' = [fjobs EXCEPT ![j] = [fjobs[j] EXCEPT !.at = "probe"]]
    BY <1>3 DEF MoveJob
  <2>4. \A k \in FreshSlots :
          fjobs'[k] = IF k = j THEN [fjobs[j] EXCEPT !.at = "probe"] ELSE fjobs[k]
    BY <1>1, <2>3
  <2>5. JobsTyped
    BY <1>1, <2>2, <2>3 DEF JobsTyped
  <2>6. \A k \in FreshSlots : Probed(k)' => fjobs'[k] = fjobs[k]
    BY <2>2, <2>4 DEF Probed
  <2> QED BY <2>5, <2>6, OthersGo
<1> QED BY <1>2, <1>3

-----------------------------------------------------------------------------
\* The day and its list
LEMMA TickInv ==
  ASSUME FreshInv, TickSteps \/ TickRaises
  PROVE  FreshInv' /\ Marked
<1>1. /\ freshTick \in [at : {"idle", "list", "post"}, todo : SUBSET FreshDocs, enqueued : 0..MaxEnqueue]
      /\ age \in [FreshDocs -> 0..StaleDays] /\ MaxEnqueue \in Nat /\ StaleDays \in Nat \ {0}
      /\ fjobs \in [FreshSlots -> FreshJobs \cup {NoRefresh}]
      /\ freshEvents \in 0..MaxFreshEvents /\ MaxFreshEvents \in Nat
  BY FreshnessAssumption DEF FreshInv, FreshTypeOK
<1>2. ASSUME UNCHANGED <<there, stored, fjobs>> PROVE JobsTyped /\ AloneHasStored' /\ AloneIsAlone'
  BY <1>1, <1>2, OthersGo DEF JobsTyped
<1>3. CASE NewDay
  <2>1. age' \in [FreshDocs -> 0..StaleDays] /\ \A d \in FreshDocs : age'[d] = 0 => age[d] = 0
    BY <1>1, <1>3 DEF NewDay, Stale
  <2>2. Marked
    BY <1>1, <2>1 DEF Marked
  <2>3. FreshTypeOK' /\ ListCapped'
    BY <1>1, <1>2, <1>3, <2>1 DEF NewDay, FreshInv, FreshTypeOK, JobsTyped, ListCapped
  <2> QED BY <1>2, <1>3, <2>2, <2>3 DEF NewDay, FreshInv
<1>4. CASE ListStale
  <2> DEFINE listed == {d \in FreshDocs : Stale(d) /\ refreshOn[d]}
             first == {d \in listed : Cardinality({c \in listed : c < d}) < MaxEnqueue}
  <2>1. freshTick' = [at |-> "post", enqueued |-> 0, todo |-> first]
    BY <1>4 DEF ListStale
  <2>2. listed \in SUBSET Nat /\ IsFiniteSet(listed)
    BY FreshnessAssumption, FS_Subset
  <2>3. first \subseteq FreshDocs
    OBVIOUS
  <2>4. Cardinality(first) <= MaxEnqueue
    <3> HIDE DEF listed
    <3> QED BY <1>1, <2>2, FirstOnesBounded
  <2>5. IsFiniteSet(first)
    BY <2>3, FreshnessAssumption, FS_Subset
  <2>6. Cardinality(first) \in Nat
    BY <2>5, FS_CardinalityType
  <2> HIDE DEF first
  <2>7. ListCapped'
    BY <2>1, <2>4, <2>6, <1>1 DEF ListCapped
  <2>8. freshTick' \in [at : {"idle", "list", "post"}, todo : SUBSET FreshDocs, enqueued : 0..MaxEnqueue]
    BY <1>1, <2>1, <2>3
  <2>9. FreshTypeOK'
    BY <1>2, <1>4, <2>8 DEF ListStale, FreshInv, FreshTypeOK, JobsTyped
  <2> QED BY <1>2, <1>4, <2>7, <2>9 DEF ListStale, FreshInv, Marked
<1>5. CASE PostRefresh
  <2>1. PICK d \in freshTick.todo :
          /\ Enqueue(d, FALSE, TRUE, TRUE)
          /\ freshTick' = [freshTick EXCEPT !.todo = @ \ {d}, !.enqueued = @ + 1]
    BY <1>5 DEF PostRefresh
  <2>2. d \in FreshDocs
    BY <1>1, <2>1
  <2>3. JobsTyped /\ AloneHasStored' /\ AloneIsAlone'
    BY <1>5, <2>1, <2>2, EnqueueKeeps DEF PostRefresh
  <2>4. IsFiniteSet(freshTick.todo)
    BY <1>1, FreshnessAssumption, FS_Subset
  <2>5. /\ Cardinality(freshTick.todo) \in Nat
        /\ Cardinality(freshTick.todo \ {d}) = Cardinality(freshTick.todo) - 1
        /\ Cardinality(freshTick.todo \ {d}) \in Nat
    BY <2>1, <2>4, FS_CardinalityType, FS_RemoveElement
  <2>6. /\ freshTick'.todo = freshTick.todo \ {d} /\ freshTick'.enqueued = freshTick.enqueued + 1
        /\ freshTick'.at = freshTick.at /\ freshTick' = [at |-> freshTick'.at, todo |-> freshTick'.todo, enqueued |-> freshTick'.enqueued]
    BY <1>1, <2>1
  <2>7. freshTick.enqueued + Cardinality(freshTick.todo) <= MaxEnqueue
    BY <1>5 DEF PostRefresh, FreshInv, ListCapped
  <2>8. ListCapped' /\ freshTick'.enqueued \in 0..MaxEnqueue
    BY <1>1, <2>5, <2>6, <2>7 DEF ListCapped
  <2>9. freshTick' \in [at : {"idle", "list", "post"}, todo : SUBSET FreshDocs, enqueued : 0..MaxEnqueue]
    BY <1>1, <2>6, <2>8
  <2>10. FreshTypeOK'
    BY <1>5, <2>3, <2>9 DEF PostRefresh, FreshInv, FreshTypeOK, JobsTyped
  <2> QED BY <1>5, <2>3, <2>8, <2>10 DEF PostRefresh, FreshInv, Marked
<1>6. CASE EndTick \/ TickRaises
  <2>1. /\ freshTick' = [at |-> "idle", todo |-> {}, enqueued |-> 0]
        /\ freshEvents' \in 0..MaxFreshEvents
        /\ UNCHANGED <<there, page, stored, age, refreshOn, fjobs>>
    BY <1>1, <1>6 DEF EndTick, TickRaises, FreshEvent
  <2>2. FreshTypeOK' /\ ListCapped'
    BY <1>1, <1>2, <2>1 DEF FreshInv, FreshTypeOK, JobsTyped, ListCapped
  <2> QED BY <1>2, <2>1, <2>2 DEF FreshInv, Marked
<1> QED BY <1>3, <1>4, <1>5, <1>6 DEF TickSteps

\* The write API
LEMMA WorldInv ==
  ASSUME FreshInv, NEW d \in FreshDocs, RefreshNow(d) \/ SetRefresh(d)
  PROVE  FreshInv' /\ Marked
<1>1. freshEvents' \in 0..MaxFreshEvents /\ UNCHANGED <<there, page, stored, age, freshTick>>
  <2>1. FreshEvent /\ UNCHANGED <<there, page, stored, age, freshTick>>
    BY DEF RefreshNow, SetRefresh
  <2> QED BY <2>1, FreshnessAssumption DEF FreshEvent, FreshInv, FreshTypeOK
<1>2. fjobs \in [FreshSlots -> FreshJobs \cup {NoRefresh}] /\ refreshOn \in [FreshDocs -> BOOLEAN]
      /\ age \in [FreshDocs -> 0..StaleDays] /\ StaleDays \in Nat
  BY FreshnessAssumption DEF FreshInv, FreshTypeOK
<1>3. JobsTyped /\ AloneHasStored' /\ AloneIsAlone' /\ refreshOn' \in [FreshDocs -> BOOLEAN]
  <2>1. CASE RefreshNow(d)
    <3>1. Enqueue(d, TRUE, refreshOn[d], Stale(d)) /\ refreshOn[d] \in BOOLEAN /\ Stale(d) \in BOOLEAN
      BY <1>2, <2>1 DEF RefreshNow, Stale
    <3>2. refreshOn' = refreshOn
      BY <2>1 DEF RefreshNow
    <3> QED BY <1>1, <1>2, <3>1, <3>2, EnqueueKeeps
  <2>2. CASE SetRefresh(d)
    <3>1. (~refreshOn[d]) \in BOOLEAN
      OBVIOUS
    <3>2. refreshOn' \in [FreshDocs -> BOOLEAN] /\ fjobs' = fjobs
      BY <1>2, <2>2, <3>1 DEF SetRefresh
    <3> QED BY <1>1, <1>2, <3>2, OthersGo DEF JobsTyped
  <2> QED BY <2>1, <2>2
<1>4. FreshTypeOK' /\ ListCapped' /\ Marked
  BY <1>1, <1>2, <1>3 DEF FreshInv, FreshTypeOK, JobsTyped, ListCapped, Marked
<1> QED BY <1>3, <1>4 DEF FreshInv

\* The site
LEMMA SiteInv ==
  ASSUME FreshInv, NEW u \in Urls, PageChanges(u)
  PROVE  FreshInv' /\ Marked
<1>1. UNCHANGED <<there, stored, age, refreshOn, freshTick, fjobs, freshEvents>>
  BY DEF PageChanges
<1>2. page' \in [Urls -> 0..MaxPage]
  <2>1. page \in [Urls -> 0..MaxPage] /\ MaxPage \in Nat
    BY FreshnessAssumption DEF FreshInv, FreshTypeOK
  <2>2. page[u] + 1 \in 0..MaxPage
    BY <2>1 DEF PageChanges
  <2> QED BY <2>1, <2>2 DEF PageChanges
<1>3. AloneHasStored' /\ AloneIsAlone'
  BY <1>1, OthersGo
<1>4. age \in [FreshDocs -> 0..StaleDays] /\ StaleDays \in Nat
  BY FreshnessAssumption DEF FreshInv, FreshTypeOK
<1> QED BY <1>1, <1>2, <1>3, <1>4 DEF FreshInv, FreshTypeOK, ListCapped, Marked

-----------------------------------------------------------------------------
\* A job that probes knows of the others that have, and they of it.
LEMMA ProbeInv ==
  ASSUME FreshInv, NEW j \in FreshSlots, Probe(j)
  PROVE  FreshInv' /\ Marked
<1> DEFINE u == UrlOfJob(j)
           others == {k \in FreshSlots \ {j} : Probed(k) /\ UrlOf[fjobs[k].doc] = u}
           next(r) == [fjobs[j] EXCEPT !.saw = page[u], !.alone = (others = {}),
                                       !.at = IF stored[r] = page[u] THEN "bump" ELSE "rechunk"]
<1>1. /\ fjobs \in [FreshSlots -> FreshJobs \cup {NoRefresh}]
      /\ page \in [Urls -> 0..MaxPage] /\ stored \in [FreshDocs -> 0..MaxPage]
  BY DEF FreshInv, FreshTypeOK
<1>2. fjobs[j] \in FreshJobs /\ u \in Urls
  <2>1. fjobs[j].at = "probe"
    BY DEF Probe
  <2>2. fjobs[j] \in FreshJobs
    BY <1>1, <2>1 DEF NoRefresh
  <2> QED BY <2>2, FreshnessAssumption DEF FreshJobs, UrlOfJob
<1>3. PICK r \in RowsOf(u) \cap there : fjobs' = [k \in FreshSlots |->
        CASE k = j -> next(r)
          [] k \in others -> [fjobs[k] EXCEPT !.alone = FALSE]
          [] OTHER -> fjobs[k]]
  BY DEF Probe, UrlOfJob
<1>4. UNCHANGED <<there, page, stored, age, refreshOn, freshTick, freshEvents>>
  BY DEF Probe
<1>5. j \notin others /\ others \subseteq FreshSlots
  OBVIOUS
<1>6. \A k \in FreshSlots \ {j} : k \in others <=> Probed(k) /\ UrlOfJob(k) = u
  BY DEF UrlOfJob
<1> DEFINE new == next(r)
<1>7. /\ new \in FreshJobs /\ new.doc = fjobs[j].doc /\ new.saw = page[u]
      /\ new.alone = (others = {})
      /\ new.at = "bump" => stored[r] = page[u]
  <2>1. page[u] \in 0..MaxPage
    BY <1>1, <1>2
  <2>2. (others = {}) \in BOOLEAN
    OBVIOUS
  <2> HIDE DEF others
  <2> QED BY <1>2, <2>1, <2>2 DEF FreshJobs
<1>8. \A k \in others : /\ fjobs[k] \in FreshJobs /\ [fjobs[k] EXCEPT !.alone = FALSE] \in FreshJobs
                        /\ [fjobs[k] EXCEPT !.alone = FALSE].doc = fjobs[k].doc
                        /\ [fjobs[k] EXCEPT !.alone = FALSE].at = fjobs[k].at
                        /\ ~[fjobs[k] EXCEPT !.alone = FALSE].alone
  <2> TAKE k \in others
  <2>1. fjobs[k] \in FreshJobs
    BY <1>1 DEF Probed, NoRefresh
  <2> QED BY <2>1 DEF FreshJobs
<1> HIDE DEF others, new
<1>9. /\ fjobs'[j] = new
      /\ \A k \in others : fjobs'[k] = [fjobs[k] EXCEPT !.alone = FALSE]
      /\ \A k \in FreshSlots \ ({j} \cup others) : fjobs'[k] = fjobs[k]
  BY <1>3, <1>5 DEF new
<1>10. JobsTyped
  <2>1. DOMAIN fjobs' = FreshSlots /\ fjobs' = [k \in FreshSlots |-> fjobs'[k]]
    <3> HIDE DEF next
    <3> QED BY <1>3
  <2>2. \A k \in FreshSlots : fjobs'[k] \in FreshJobs \cup {NoRefresh}
    BY <1>1, <1>7, <1>8, <1>9
  <2> QED BY <2>1, <2>2 DEF JobsTyped
<1>11. AloneHasStored'
  <2> SUFFICES ASSUME NEW k \in FreshSlots, fjobs'[k].at = "bump", fjobs'[k].alone
               PROVE  HasText(UrlOfJob(k), fjobs[k].saw)'
    BY DEF AloneHasStored
  <2>1. k \notin others
    BY <1>8, <1>9
  <2>2. CASE k = j
    <3>1. stored[r] = fjobs'[k].saw /\ UrlOfJob(k)' = u
      BY <1>7, <1>9, <2>2 DEF UrlOfJob
    <3> HIDE DEF u
    <3> QED BY <1>3, <1>4, <3>1 DEF HasText
  <2>3. CASE k # j
    <3>1. fjobs'[k] = fjobs[k]
      BY <1>9, <2>1, <2>3
    <3> QED BY <1>4, <3>1 DEF FreshInv, AloneHasStored, HasText, UrlOfJob
  <2> QED BY <2>2, <2>3
<1>12. AloneIsAlone'
  <2> SUFFICES ASSUME NEW k \in FreshSlots, NEW m \in FreshSlots, k # m, Probed(k)', Probed(m)',
                      UrlOfJob(k)' = UrlOfJob(m)', fjobs'[k].alone
               PROVE  FALSE
    BY DEF AloneIsAlone
  <2>1. k \notin others
    BY <1>8, <1>9
  <2>2. /\ \A i \in FreshSlots \ {j} : UrlOfJob(i)' = UrlOfJob(i) /\ (Probed(i)' => Probed(i))
        /\ UrlOfJob(j)' = u
    BY <1>7, <1>8, <1>9 DEF Probed, UrlOfJob
  <2> HIDE DEF u
  <2>3. CASE k = j
    <3>1. m \in others
      BY <1>6, <2>2, <2>3
    <3> QED BY <1>7, <1>9, <2>3, <3>1
  <2>4. CASE m = j
    <3>1. k \in others
      BY <1>6, <2>2, <2>4
    <3> QED BY <2>1, <3>1
  <2>5. CASE k # j /\ m # j
    <3>1. fjobs'[k] = fjobs[k] /\ Probed(k) /\ Probed(m) /\ UrlOfJob(k) = UrlOfJob(m)
      BY <1>9, <2>1, <2>2, <2>5
    <3> QED BY <3>1 DEF FreshInv, AloneIsAlone
  <2> QED BY <2>3, <2>4, <2>5
<1>13. FreshTypeOK' /\ ListCapped' /\ Marked
  <2>1. age \in [FreshDocs -> 0..StaleDays] /\ StaleDays \in Nat
    BY FreshnessAssumption DEF FreshInv, FreshTypeOK
  <2> QED BY <1>4, <1>10, <2>1 DEF FreshInv, FreshTypeOK, JobsTyped, ListCapped, Marked
<1> QED BY <1>11, <1>12, <1>13 DEF FreshInv

\* A job stores what it saw; whoever is about to mark the same document is not
\* alone.
LEMMA RechunkInv ==
  ASSUME FreshInv, NEW j \in FreshSlots, Rechunk(j)
  PROVE  FreshInv' /\ Marked
<1> DEFINE u == UrlOfJob(j)
           next == [fjobs[j] EXCEPT !.at = "bump"]
<1>1. /\ fjobs \in [FreshSlots -> FreshJobs \cup {NoRefresh}] /\ fjobs[j].at = "rechunk"
      /\ stored \in [FreshDocs -> 0..MaxPage] /\ there \subseteq FreshDocs
      /\ age \in [FreshDocs -> 0..StaleDays] /\ StaleDays \in Nat \ {0}
  BY FreshnessAssumption DEF Rechunk, FreshInv, FreshTypeOK
<1>2. fjobs[j] \in FreshJobs
  BY <1>1 DEF NoRefresh
<1>3. /\ fjobs[j].saw \in 0..MaxPage /\ next \in FreshJobs
      /\ next.doc = fjobs[j].doc /\ next.saw = fjobs[j].saw /\ next.alone = fjobs[j].alone
      /\ next.at = "bump"
  BY <1>2 DEF FreshJobs
<1>4. PICK r \in RowsOf(u) :
        /\ stored' = [stored EXCEPT ![r] = fjobs[j].saw]
        /\ there' = there \cup {r}
        /\ age' = IF r \in there THEN age ELSE [age EXCEPT ![r] = StaleDays]
  BY DEF Rechunk, UrlOfJob
<1>5. fjobs' = [fjobs EXCEPT ![j] = next] /\ UNCHANGED <<page, refreshOn, freshTick, freshEvents>>
  BY DEF Rechunk, MoveJob
<1>6. r \in FreshDocs /\ UrlOf[r] = u
  BY <1>4 DEF RowsOf
<1> HIDE DEF next
<1>7. /\ \A k \in FreshSlots : fjobs'[k] = IF k = j THEN next ELSE fjobs[k]
      /\ \A e \in FreshDocs : stored'[e] = IF e = r THEN fjobs[j].saw ELSE stored[e]
  BY <1>1, <1>4, <1>5
<1>8. JobsTyped /\ stored' \in [FreshDocs -> 0..MaxPage] /\ there' \subseteq FreshDocs
  BY <1>1, <1>3, <1>4, <1>5, <1>6 DEF JobsTyped
<1>9. age' \in [FreshDocs -> 0..StaleDays] /\ Marked
  <2>1. StaleDays \in 0..StaleDays /\ StaleDays # 0
    BY <1>1
  <2>2. age' \in [FreshDocs -> 0..StaleDays]
    BY <1>1, <1>4, <1>6, <2>1
  <2>3. \A d \in FreshDocs : age'[d] = 0 => age[d] = 0
    BY <1>1, <1>4, <1>6, <2>1
  <2> QED BY <1>1, <2>2, <2>3 DEF Marked
<1>10. \A k \in FreshSlots : /\ UrlOfJob(k)' = UrlOfJob(k) /\ fjobs'[k].alone = fjobs[k].alone
                             /\ Probed(k)' => Probed(k)
  BY <1>1, <1>3, <1>7 DEF Probed, UrlOfJob
<1>11. AloneHasStored'
  <2> SUFFICES ASSUME NEW k \in FreshSlots, fjobs'[k].at = "bump", fjobs'[k].alone
               PROVE  HasText(UrlOfJob(k), fjobs[k].saw)'
    BY DEF AloneHasStored
  <2>1. CASE k = j
    <3>1. stored'[r] = fjobs'[k].saw
      BY <1>3, <1>6, <1>7, <2>1
    <3>4. UrlOfJob(k)' = u
      BY <1>10, <2>1 DEF UrlOfJob
    <3>2. r \in RowsOf(u) /\ r \in there'
      BY <1>4
    <3> HIDE DEF u
    <3> QED BY <3>1, <3>2, <3>4 DEF HasText, RowsOf
  <2>2. CASE k # j
    <3>1. fjobs'[k] = fjobs[k] /\ UrlOfJob(k) # u
      BY <1>1, <1>7, <2>2 DEF Probed, FreshInv, AloneIsAlone
    <3>2. PICK e \in RowsOf(UrlOfJob(k)) \cap there : stored[e] = fjobs[k].saw
      BY <3>1 DEF FreshInv, AloneHasStored, HasText
    <3>3. e \in FreshDocs /\ e # r
      BY <1>6, <3>1, <3>2 DEF RowsOf
    <3>4. stored'[e] = fjobs'[k].saw
      BY <1>7, <3>1, <3>2, <3>3
    <3>5. e \in there' /\ UrlOfJob(k)' = UrlOfJob(k)
      BY <1>4, <1>10, <3>2 DEF UrlOfJob
    <3> QED BY <3>2, <3>4, <3>5 DEF HasText, RowsOf
  <2> QED BY <2>1, <2>2
<1>12. AloneIsAlone'
  <2> SUFFICES ASSUME NEW k \in FreshSlots, NEW m \in FreshSlots, k # m, Probed(k)', Probed(m)',
                      UrlOfJob(k)' = UrlOfJob(m)'
               PROVE  ~fjobs'[k].alone
    BY DEF AloneIsAlone
  <2>1. Probed(k) /\ Probed(m) /\ UrlOfJob(k) = UrlOfJob(m)
    BY <1>10 DEF UrlOfJob, Probed
  <2> QED BY <1>10, <2>1 DEF FreshInv, AloneIsAlone
<1>13. FreshTypeOK' /\ ListCapped'
  BY <1>5, <1>8, <1>9 DEF FreshInv, FreshTypeOK, JobsTyped, ListCapped
<1> QED BY <1>9, <1>11, <1>12, <1>13 DEF FreshInv

\* The other steps of a job: it ends, or passes its gate.
LEMMA JobInv ==
  ASSUME FreshInv, NEW j \in FreshSlots,
         GateRefresh(j) \/ ProbeBlocked(j) \/ BumpLastChecked(j) \/ RefreshFails(j)
  PROVE  FreshInv' /\ Marked
<1>1. JobsTyped /\ AloneHasStored' /\ AloneIsAlone'
  BY MoveKeeps DEF GateRefresh, ProbeBlocked, BumpLastChecked, RefreshFails
<1>2. /\ fjobs \in [FreshSlots -> FreshJobs \cup {NoRefresh}] /\ age \in [FreshDocs -> 0..StaleDays]
      /\ StaleDays \in Nat
  BY FreshnessAssumption DEF FreshInv, FreshTypeOK
<1>3. CASE BumpLastChecked(j)
  <2>1. fjobs[j].at = "bump" /\ age' = [age EXCEPT ![fjobs[j].doc] = 0]
        /\ UNCHANGED <<there, page, stored, refreshOn, freshTick, freshEvents>>
    BY <1>3 DEF BumpLastChecked
  <2>2. fjobs[j] # NoRefresh
    BY <2>1 DEF NoRefresh
  <2>3. Marked
    <3> SUFFICES ASSUME NEW d \in FreshDocs, age[d] > 0, age'[d] = 0
                 PROVE  \E k \in LiveOn(d) : HasText(UrlOf[d], fjobs[k].saw) \/ ~fjobs[k].alone
      BY DEF Marked
    <3>1. d = fjobs[j].doc
      BY <1>2, <2>1
    <3>2. j \in LiveOn(d)
      BY <2>2, <3>1 DEF LiveOn, FreshLive
    <3> QED BY <2>1, <3>1, <3>2 DEF FreshInv, AloneHasStored, UrlOfJob
  <2>4. age' \in [FreshDocs -> 0..StaleDays]
    <3>1. 0 \in 0..StaleDays
      BY <1>2
    <3> QED BY <1>2, <2>1, <3>1
  <2> QED BY <1>1, <2>1, <2>3, <2>4 DEF FreshInv, FreshTypeOK, JobsTyped, ListCapped
<1>4. CASE GateRefresh(j) \/ ProbeBlocked(j) \/ RefreshFails(j)
  <2>1. freshEvents' \in 0..MaxFreshEvents /\ UNCHANGED <<there, page, stored, age, refreshOn, freshTick>>
    BY <1>4, FreshnessAssumption
       DEF GateRefresh, ProbeBlocked, RefreshFails, FreshEvent, FreshInv, FreshTypeOK
  <2> QED BY <1>1, <1>2, <2>1 DEF FreshInv, FreshTypeOK, JobsTyped, ListCapped, Marked
<1> QED BY <1>3, <1>4

LEMMA FreshStep ==
  ASSUME FreshInv, [FreshNext]_freshVars
  PROVE  FreshInv' /\ Marked
<1>1. CASE TickSteps
  BY <1>1, TickInv
<1>2. CASE FreshWorld
  BY <1>2, TickInv, WorldInv, SiteInv, JobInv DEF FreshWorld
<1>3. ASSUME NEW j \in FreshSlots, RefreshSteps(j)
      PROVE  FreshInv' /\ Marked
  BY <1>3, JobInv, ProbeInv, RechunkInv DEF RefreshSteps
<1>4. CASE UNCHANGED freshVars
  <2>1. age \in [FreshDocs -> 0..StaleDays] /\ StaleDays \in Nat
    BY FreshnessAssumption DEF FreshInv, FreshTypeOK
  <2> QED BY <1>4, <2>1 DEF freshVars, FreshInv, FreshTypeOK, AloneHasStored, AloneIsAlone, Probed,
             HasText, UrlOfJob, ListCapped, Marked
<1> QED BY <1>1, <1>2, <1>3, <1>4 DEF FreshNext

-----------------------------------------------------------------------------
\* The variables keep their types, in particular a tick enqueues no more jobs
\* than the cap says (freshness_refresh.py 301-328).
THEOREM TickStaysCapped == FreshSpec => []FreshTypeOK
<1>1. FreshInv /\ [FreshNext]_freshVars => FreshInv'
  BY FreshStep
<1>2. FreshInv => FreshTypeOK
  BY DEF FreshInv
<1> QED BY <1>1, <1>2, FreshInitInv, PTL DEF FreshSpec

\* A document is marked checked when what the job has seen is stored under its
\* url, or when two refreshes of that url overlapped (freshness_refresh.py 180-298).
THEOREM ChecksTellTheTruth == FreshSpec => CheckedIsStored
<1>1. FreshInv /\ [FreshNext]_freshVars => FreshInv'
  BY FreshStep
<1>2. FreshInv /\ [FreshNext]_freshVars =>
        [\A d \in FreshDocs : age[d] > 0 /\ age'[d] = 0 =>
           \E j \in LiveOn(d) :
             \/ \E r \in RowsOf(UrlOf[d]) \cap there : stored[r] = fjobs[j].saw
             \/ ~fjobs[j].alone]_freshVars
  BY FreshStep DEF Marked, HasText
<1> QED BY <1>1, <1>2, FreshInitInv, PTL DEF FreshSpec, CheckedIsStored


-----------------------------------------------------------------------------
(***************************************************************************)
(* The sum TLC explores.  A step of the sum is a step of one part and      *)
(* leaves the variables of the others alone, so what was proved of a part  *)
(* by itself holds of it in the sum.                                       *)
(***************************************************************************)
LEMMA ServicesBegin ==
  ServicesInit => /\ EvalInit /\ FreshInit /\ SseInit /\ ConfigInit /\ ChatInit
                  /\ RetrievalInit /\ IngestInit /\ ChunkInit /\ UserInit
BY DEF ServicesInit

LEMMA ServicesStep ==
  ASSUME [ServicesNext]_servicesVars
  PROVE  /\ [EvalNext]_evalVars /\ [FreshNext]_freshVars /\ [SseNext]_sseVars
         /\ [ConfigNext]_configVars /\ [ChatNext]_chatVars /\ [RetrievalNext]_retrievalVars
         /\ [IngestNext]_ingestVars /\ [ChunkNext]_chunkVars /\ [UserNext]_userVars
<1>1. CASE UNCHANGED servicesVars
  BY <1>1 DEF servicesVars
<1>2. CASE ServicesNext
  BY <1>2 DEF ServicesNext, StepOf
<1> QED BY <1>1, <1>2

\* The sum does nothing a part could not do by itself: each one keeps to its own
\* specification (of a crawl and of the windows, what it says of their steps).
THEOREM ServicesOnTheirOwn ==
  ServicesSpec => /\ EvalSpec /\ FreshSpec /\ SseSpec /\ ConfigSpec /\ ChatSpec
                  /\ RetrievalSpec /\ UserSpec
                  /\ IngestInit /\ [][IngestNext]_ingestVars
                  /\ ChunkInit /\ [][ChunkNext]_chunkVars
<1>1. ServicesSpec => ServicesInit /\ [][ServicesNext]_servicesVars
  BY PTL DEF ServicesSpec
<1> QED BY <1>1, ServicesBegin, ServicesStep, PTL
        DEF EvalSpec, FreshSpec, SseSpec, ConfigSpec, ChatSpec, RetrievalSpec, UserSpec

\* The variables of each part keep their types, whichever part runs.
THEOREM ServicesTyped == ServicesSpec => []ServicesTypeOK
<1>1. IngestInit /\ [][IngestNext]_ingestVars => []IngestInv
  BY IngestInitInv, IngestStepInv, PTL
<1>2. ChunkInit /\ [][ChunkNext]_chunkVars => []ChunkInv
  <2>1. ChunkInv /\ [ChunkNext]_chunkVars => ChunkInv'
    BY ChunkStepInv
  <2> QED BY <2>1, ChunkInitInv, PTL
<1>3. /\ EvalInv => EvalTypeOK
      /\ ChatInv => ChatTypeOK
      /\ IngestInv => IngestTypeOK
      /\ ChunkInv => ChunkTypeOK
      /\ UserInv => UserTypeOK
  BY DEF EvalInv, ChatInv, IngestInv, ChunkInv, UserInv
<1>4. EvalTypeOK /\ FreshTypeOK /\ SseTypeOK /\ ConfigTypeOK /\ ChatTypeOK /\ RetrievalTypeOK
        /\ IngestTypeOK /\ ChunkTypeOK /\ UserTypeOK => ServicesTypeOK
  BY DEF ServicesTypeOK
<1> QED BY <1>1, <1>2, <1>3, <1>4, ServicesOnTheirOwn, EvalInvariant, TickStaysCapped,
           JobEventsTyped, ConfigTyped, ChatInvariant, RetrievalTyped, ReadsHold, PTL
=============================================================================
