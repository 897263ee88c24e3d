-------------------------- MODULE BackgroundProofs --------------------------
(***************************************************************************)
(* What runs beside the requests of a visitor: the catch-up of missing     *)
(* embeddings (Catchup), the tags of a document that several requests      *)
(* write (DocumentTags), downloads of models (ModelPulls) and the engine   *)
(* that serves them (LlmEngine), and what the workers read from the        *)
(* network and send to it (Upstream), for any number of jobs, requests,    *)
(* downloads, calls and chunks.  The last part is about the sum of these   *)
(* parts that TLC explores (MCBackground).                                 *)
(***************************************************************************)
EXTENDS MCBackground, FiniteSetTheorems, SequenceTheorems, WellFoundedInduction, TLAPS

\* Every set of numbers that is not empty has a least one.
LEMMA LeastNumber ==
  ASSUME NEW S \in SUBSET Nat, S # {}
  PROVE  \E n \in S : \A m \in S : n <= m
<1> DEFINE Below == {0..n : n \in S}
<1>1. Below \subseteq FiniteSubsetsOf(Nat) /\ Below # {}
  <2>1. \A n \in S : IsFiniteSet(0..n) /\ 0..n \in SUBSET Nat
    BY FS_Interval
  <2> QED BY <2>1 DEF FiniteSubsetsOf
<1>2. \E x \in Below : \A y \in Below : ~ (<<y, x>> \in StrictSubsetOrdering(Nat))
  BY <1>1, FS_StrictSubsetOrderingWellFounded, WFMin, Zenon
<1>3. PICK n \in S : \A m \in S : ~ (<<0..m, 0..n>> \in StrictSubsetOrdering(Nat))
  BY <1>2
<1>4. ASSUME NEW m \in S, m < n PROVE FALSE
  <2>1. 0..m \subseteq 0..n /\ n \in 0..n /\ n \notin 0..m
    BY <1>4
  <2>2. 0..m \in SUBSET Nat /\ 0..n \in SUBSET Nat
    OBVIOUS
  <2> QED BY <1>3, <2>1, <2>2 DEF StrictSubsetOrdering
<1> QED BY <1>4

(***************************************************************************)
(* What holds of a job and of those it saw at work when it counted: they   *)
(* still are, and they saw no more than it did.  So among jobs that all    *)
(* know of each other one knows all the others, and counted them.          *)
(***************************************************************************)
JobsSound ==
  \A j \in Slots : jobs[j] # Free =>
    /\ jobs[j].at \in {"gate", "start"} => jobs[j].status # "running"
    /\ jobs[j].at = "work" => jobs[j].status = "running"
    /\ jobs[j].at = "start" \/ jobs[j].status = "running" => env.on /\ ~env.kill
    /\ Cardinality(jobs[j].saw) < env.cap
    /\ \A i \in jobs[j].saw : i # j /\ i \in Running /\ jobs[i].saw \subseteq jobs[j].saw

\* A pass that reads its gates knows of no job yet; each job it knows of has kept its
\* place since, and its document revision counts as seen.
KnownSeen ==
  \A s \in Sources :
    /\ pass[s].pc \in {"idle", "gates"} => known[s] = {}
    /\ \A k \in known[s] : jobs[k] # Free /\ Key(jobs[k]) \in pass[s].seen

CatchupInv == TypeOK /\ JobsSound /\ KnownSeen

\* The rest of the state keeps its types.
Around == /\ env \in [on : BOOLEAN, kill : BOOLEAN, cap : Caps] /\ poison \in Poisons
          /\ enabled \in BOOLEAN /\ embed \in [Docs -> {"complete", "missing"}]
          /\ rev \in [Docs -> 0..MaxRev] /\ events \in 0..MaxEvents

LEMMA TypeParts ==
  TypeOK <=> /\ Around /\ pass \in [Sources -> Passes] /\ known \in [Sources -> SUBSET Slots]
             /\ jobs \in [Slots -> JobRecords \cup {Free}]
BY DEF TypeOK, Around

LEMMA FreeIsNoRecord ==
  /\ Free \notin JobRecords /\ Free.status = "free"
  /\ \A r \in JobRecords : r.status \in {"pending", "running", "failed"} /\ r # Free
BY DEF Free, JobRecords

LEMMA CountsAreNumbers ==
  ASSUME CatchupInv
  PROVE  /\ env.cap \in Nat \ {0}
         /\ \A S \in SUBSET Slots : IsFiniteSet(S) /\ Cardinality(S) \in Nat
         /\ Cardinality({}) < env.cap
<1>1. env.cap \in Nat \ {0}
  BY CatchupAssumption DEF CatchupInv, TypeOK
<1>2. \A S \in SUBSET Slots : IsFiniteSet(S) /\ Cardinality(S) \in Nat
  BY CatchupAssumption, FS_Subset, FS_CardinalityType
<1>3. Cardinality({}) = 0
  BY FS_EmptySet
<1> QED BY <1>1, <1>2, <1>3

\* What is decided is to enqueue only when the switches are on, the document has no
\* complete embeddings, it was not seen, and there is room.
LEMMA DecideEnqueues ==
  ASSUME NEW on, NEW kill, NEW status, NEW key, NEW seen, NEW running,
         Decide(on, kill, status, key, seen, running) = "enqueue"
  PROVE  ~kill /\ on /\ status # "complete" /\ key \notin seen /\ ~(running >= env.cap)
BY Zenon DEF Decide

LEMMA FirstIsTarget ==
  ASSUME TypeOK, NEW s \in Sources, pass[s].targets # {}
  PROVE  First(s) \in pass[s].targets
<1>1. pass[s].targets \subseteq Targets
  BY DEF TypeOK, Passes
<1> DEFINE Ids == {t.doc : t \in pass[s].targets}
<1>2. \A t \in pass[s].targets : t.doc \in Nat
  BY <1>1, CatchupAssumption DEF Targets
<1>0. Ids \in SUBSET Nat /\ Ids # {}
  BY <1>2
<1>3. PICK n \in Ids : \A m \in Ids : n <= m
  BY <1>0, LeastNumber
<1>4. \E t \in pass[s].targets : \A u \in pass[s].targets : t.doc <= u.doc
  BY <1>3
<1> QED BY <1>4 DEF First

-----------------------------------------------------------------------------
(***************************************************************************)
(* The two ways a job changes.                                             *)
(***************************************************************************)

\* A job goes on: it stays that of its document revision, and once it runs it goes on
\* running and seeing no more.
LEMMA JobGoesOn ==
  ASSUME CatchupInv, NEW j \in Slots, NEW r \in JobRecords, jobs[j] # Free, SetJob(j, r),
         UNCHANGED <<env, pass>>, Key(r) = Key(jobs[j]),
         r.at \in {"gate", "start"} => r.status # "running",
         r.at = "work" => r.status = "running",
         r.at = "start" \/ r.status = "running" => env.on /\ ~env.kill,
         Cardinality(r.saw) < env.cap,
         \A i \in r.saw : i # j /\ i \in Running /\ jobs[i].saw \subseteq r.saw,
         jobs[j].status = "running" => r.status = "running" /\ r.saw \subseteq jobs[j].saw
  PROVE  /\ jobs' \in [Slots -> JobRecords \cup {Free}] /\ known' \in [Sources -> SUBSET Slots]
         /\ JobsSound' /\ KnownSeen'
<1>1. jobs \in [Slots -> JobRecords \cup {Free}] /\ known' = known
  BY DEF CatchupInv, TypeOK, SetJob
<1>2. jobs' = [jobs EXCEPT ![j] = r]
  BY DEF SetJob
<1>3. jobs'[j] = r /\ \A i \in Slots \ {j} : jobs'[i] = jobs[i]
  BY <1>1, <1>2
<1>4. jobs' \in [Slots -> JobRecords \cup {Free}]
  BY <1>1, <1>2
<1>5. \A i \in Slots : i \in Running => i \in Running'
  BY <1>3 DEF Running, InStore
<1>6. ASSUME NEW k \in Slots, jobs'[k] # Free
      PROVE  /\ jobs'[k].at \in {"gate", "start"} => jobs'[k].status # "running"
             /\ jobs'[k].at = "work" => jobs'[k].status = "running"
             /\ jobs'[k].at = "start" \/ jobs'[k].status = "running" => env'.on /\ ~env'.kill
             /\ Cardinality(jobs'[k].saw) < env'.cap
             /\ \A i \in jobs'[k].saw : i # k /\ i \in Running' /\ jobs'[i].saw \subseteq jobs'[k].saw
  <2>1. CASE k = j
    <3>1. \A i \in r.saw : i \in Slots \ {j}
      BY DEF Running, InStore
    <3> QED BY <1>3, <1>5, <2>1, <3>1
  <2>2. CASE k # j
    <3>1. /\ jobs'[k] = jobs[k]
          /\ \A i \in jobs[k].saw : i # k /\ i \in Running /\ jobs[i].saw \subseteq jobs[k].saw
      BY <1>3, <1>6, <2>2 DEF CatchupInv, JobsSound
    <3>2. \A i \in jobs[k].saw : i \in Slots /\ i \in Running' /\ jobs'[i].saw \subseteq jobs[k].saw
      BY <1>3, <1>5, <3>1 DEF Running, InStore
    <3> QED BY <1>6, <3>1, <3>2 DEF CatchupInv, JobsSound
  <2> QED BY <2>1, <2>2
<1>7. JobsSound'
  BY <1>6 DEF JobsSound
<1>8. KnownSeen'
  <2>1. \A k \in Slots : jobs[k] # Free => jobs'[k] # Free /\ Key(jobs'[k]) = Key(jobs[k])
    BY <1>3, FreeIsNoRecord
  <2>2. \A s \in Sources : known[s] \subseteq Slots
    BY DEF CatchupInv, TypeOK
  <2> QED BY <1>1, <2>1, <2>2 DEF CatchupInv, KnownSeen
<1> QED BY <1>1, <1>4, <1>7, <1>8 DEF CatchupInv, TypeOK

\* A job leaves: nobody who saw it at work sees it any more; its place is free, or it
\* waits there to be tried again.
LEMMA JobLeaves ==
  ASSUME CatchupInv, NEW j \in Slots, NEW r \in JobRecords \cup {Free},
         jobs' = [Unseen(j) EXCEPT ![j] = r], UNCHANGED <<env, pass>>,
         r # Free => /\ jobs[j] # Free /\ Key(r) = Key(jobs[j]) /\ r.at = "gate"
                     /\ r.status = "failed" /\ r.saw = {},
         \/ known' = [s \in Sources |-> known[s] \ {j}]
         \/ r # Free /\ known' = known
  PROVE  /\ jobs' \in [Slots -> JobRecords \cup {Free}] /\ known' \in [Sources -> SUBSET Slots]
         /\ JobsSound' /\ KnownSeen'
<1>1. jobs \in [Slots -> JobRecords \cup {Free}] /\ known \in [Sources -> SUBSET Slots]
  BY DEF CatchupInv, TypeOK
<1>2. ASSUME NEW k \in Slots \ {j}, jobs[k] # Free
      PROVE  /\ jobs'[k] \in JobRecords /\ jobs'[k].saw = jobs[k].saw \ {j}
             /\ jobs'[k].at = jobs[k].at /\ jobs'[k].status = jobs[k].status
             /\ jobs'[k].doc = jobs[k].doc /\ jobs'[k].rev = jobs[k].rev
  <2>1. jobs'[k] = [jobs[k] EXCEPT !.saw = @ \ {j}]
    BY <1>2 DEF Unseen
  <2>2. jobs[k] \in JobRecords
    BY <1>1, <1>2
  <2> QED BY <2>1, <2>2 DEF JobRecords
<1>3. jobs'[j] = r /\ \A k \in Slots \ {j} : jobs[k] = Free => jobs'[k] = Free
  BY DEF Unseen
<1>4. jobs' \in [Slots -> JobRecords \cup {Free}]
  <2>1. \A k \in Slots : jobs'[k] \in JobRecords \cup {Free}
    BY <1>2, <1>3
  <2>2. jobs' = [k \in Slots |-> jobs'[k]]
    BY DEF Unseen
  <2> QED BY <2>1, <2>2
<1>5. \A k \in Slots \ {j} : k \in Running => k \in Running'
  BY <1>1, <1>2, FreeIsNoRecord DEF Running, InStore
<1>6. ASSUME NEW k \in Slots, jobs'[k] # Free
      PROVE  /\ jobs'[k].at \in {"gate", "start"} => jobs'[k].status # "running"
             /\ jobs'[k].at = "work" => jobs'[k].status = "running"
             /\ jobs'[k].at = "start" \/ jobs'[k].status = "running" => env'.on /\ ~env'.kill
             /\ Cardinality(jobs'[k].saw) < env'.cap
             /\ \A i \in jobs'[k].saw : i # k /\ i \in Running' /\ jobs'[i].saw \subseteq jobs'[k].saw
  <2>1. CASE k = j
    BY <1>3, <1>6, <2>1, CountsAreNumbers
  <2>2. CASE k # j
    <3>1. jobs[k] # Free /\ k \in Slots \ {j}
      BY <1>3, <1>6, <2>2
    <3>2. /\ jobs[k].at \in {"gate", "start"} => jobs[k].status # "running"
          /\ jobs[k].at = "work" => jobs[k].status = "running"
          /\ jobs[k].at = "start" \/ jobs[k].status = "running" => env.on /\ ~env.kill
          /\ Cardinality(jobs[k].saw) < env.cap
          /\ \A i \in jobs[k].saw : i # k /\ i \in Running /\ jobs[i].saw \subseteq jobs[k].saw
      BY <3>1 DEF CatchupInv, JobsSound
    <3>3. jobs[k].saw \in SUBSET Slots
      BY <1>1, <3>1 DEF JobRecords
    <3>4. Cardinality(jobs[k].saw \ {j}) < env.cap
      <4>1. IsFiniteSet(jobs[k].saw)
        BY <3>3, CountsAreNumbers
      <4>2. Cardinality(jobs[k].saw \ {j}) <= Cardinality(jobs[k].saw)
        BY <4>1, FS_Subset, jobs[k].saw \ {j} \in SUBSET jobs[k].saw
      <4> QED BY <3>2, <3>3, <4>2, CountsAreNumbers
    <3>5. \A i \in jobs[k].saw \ {j} :
            i # k /\ i \in Running' /\ jobs'[i].saw \subseteq jobs[k].saw \ {j}
      <4> SUFFICES ASSUME NEW i \in jobs[k].saw \ {j}
                   PROVE  i # k /\ i \in Running' /\ jobs'[i].saw \subseteq jobs[k].saw \ {j}
        OBVIOUS
      <4>1. i # k /\ i \in Running /\ jobs[i].saw \subseteq jobs[k].saw /\ i \in Slots \ {j}
        BY <3>2, <3>3
      <4>2. jobs[i] # Free
        BY <4>1, FreeIsNoRecord DEF Running, InStore
      <4>3. jobs'[i].saw = jobs[i].saw \ {j}
        BY <1>2, <4>1, <4>2
      <4> QED BY <1>5, <4>1, <4>3
    <3>6. /\ jobs'[k].saw = jobs[k].saw \ {j}
          /\ jobs'[k].at = jobs[k].at /\ jobs'[k].status = jobs[k].status
      BY <1>2, <3>1
    <3> QED BY <3>2, <3>4, <3>5, <3>6
  <2> QED BY <2>1, <2>2
<1>7. JobsSound'
  BY <1>6 DEF JobsSound
<1>8. ASSUME NEW s \in Sources
      PROVE  /\ known'[s] \subseteq known[s]
             /\ \A k \in known'[s] : k # j \/ r # Free
  BY <1>1
<1>9. KnownSeen'
  <2>1. \A k \in Slots : jobs[k] # Free /\ (k # j \/ r # Free)
                           => jobs'[k] # Free /\ Key(jobs'[k]) = Key(jobs[k])
    BY <1>2, <1>3, FreeIsNoRecord DEF Key
  <2>2. ASSUME NEW s \in Sources
        PROVE  /\ pass'[s].pc \in {"idle", "gates"} => known'[s] = {}
               /\ \A k \in known'[s] : jobs'[k] # Free /\ Key(jobs'[k]) \in pass'[s].seen
    BY <1>1, <1>8, <2>1 DEF CatchupInv, KnownSeen
  <2> QED BY <2>2 DEF KnownSeen
<1>10. known' \in [Sources -> SUBSET Slots]
  BY <1>1
<1> QED BY <1>4, <1>7, <1>9, <1>10

-----------------------------------------------------------------------------
(***************************************************************************)
(* The passes.                                                             *)
(***************************************************************************)

\* A pass that is over has read nothing and knows of nothing.
LEMMA PassRests ==
  ASSUME CatchupInv, NEW s \in Sources, EndPass(s), UNCHANGED <<env, jobs>>
  PROVE  /\ pass' \in [Sources -> Passes] /\ known' \in [Sources -> SUBSET Slots]
         /\ JobsSound' /\ KnownSeen'
<1>1. /\ pass \in [Sources -> Passes] /\ known \in [Sources -> SUBSET Slots]
      /\ pass' = [pass EXCEPT ![s] = Rest] /\ known' = [known EXCEPT ![s] = {}]
  BY DEF CatchupInv, TypeOK, EndPass, Go
<1>2. Rest \in Passes
  BY DEF Rest, Passes
<1>3. JobsSound'
  BY DEF CatchupInv, JobsSound, Running, InStore
<1>4. KnownSeen'
  BY <1>1 DEF CatchupInv, KnownSeen, Key
<1> QED BY <1>1, <1>2, <1>3, <1>4

\* A pass that goes on with what it knows forgets no document revision it has seen, and
\* begins before it knows of anything.
LEMMA PassGoesOn ==
  ASSUME CatchupInv, NEW s \in Sources, NEW p \in Passes, Go(s, p),
         UNCHANGED <<env, jobs, known>>,
         p.pc \in {"idle", "gates"} => pass[s].pc \in {"idle", "gates"},
         pass[s].pc \in {"idle", "gates"} \/ pass[s].seen \subseteq p.seen
  PROVE  /\ pass' \in [Sources -> Passes] /\ known' \in [Sources -> SUBSET Slots]
         /\ JobsSound' /\ KnownSeen'
<1>1. /\ pass \in [Sources -> Passes] /\ known \in [Sources -> SUBSET Slots]
      /\ pass' = [pass EXCEPT ![s] = p]
  BY DEF CatchupInv, TypeOK, Go
<1>2. pass'[s] = p /\ \A q \in Sources \ {s} : pass'[q] = pass[q]
  BY <1>1
<1>3. JobsSound'
  BY DEF CatchupInv, JobsSound, Running, InStore
<1>4. ASSUME NEW q \in Sources
      PROVE  /\ pass'[q].pc \in {"idle", "gates"} => known[q] = {}
             /\ \A k \in known[q] : jobs[k] # Free /\ Key(jobs[k]) \in pass'[q].seen
  <2>1. /\ pass[q].pc \in {"idle", "gates"} => known[q] = {}
        /\ \A k \in known[q] : jobs[k] # Free /\ Key(jobs[k]) \in pass[q].seen
    BY DEF CatchupInv, KnownSeen
  <2> QED BY <1>2, <2>1
<1>5. KnownSeen'
  BY <1>4 DEF KnownSeen, Key
<1> QED BY <1>1, <1>3, <1>5

\* The gates are read: what is live is known, and counts as seen, or neither.
LEMMA GatesRead ==
  ASSUME CatchupInv, NEW s \in Sources, ReadGates(s)
  PROVE  CatchupInv'
<1> DEFINE p == [pass[s] EXCEPT !.pc = IF s = "tick" THEN "list" ELSE "post",
                                !.running = Cardinality(Running),
                                !.seen = IF s \in Keyed THEN SeenKeys ELSE {}]
<1> DEFINE L == IF s \in Keyed THEN Live ELSE {}
<1>1. /\ pass \in [Sources -> Passes] /\ known \in [Sources -> SUBSET Slots]
      /\ jobs \in [Slots -> JobRecords \cup {Free}] /\ Around
  BY TypeParts DEF CatchupInv
<1>2. /\ pass' = [pass EXCEPT ![s] = p] /\ known' = [known EXCEPT ![s] = L]
      /\ UNCHANGED <<env, poison, enabled, embed, rev, jobs, events>>
  BY DEF ReadGates, Go
<1>3. Live \subseteq Slots /\ Running \subseteq Slots /\ \A j \in Live : jobs[j] \in JobRecords
  BY <1>1, FreeIsNoRecord DEF Live, Running, InStore
<1>4. SeenKeys \subseteq Keys
  <2>1. \A j \in Live : Key(jobs[j]) \in Keys
    BY <1>3 DEF Key, Keys, JobRecords
  <2> QED BY <2>1 DEF SeenKeys
<1>5. /\ p \in Passes /\ p.pc \in {"list", "post"}
      /\ p.seen = IF s \in Keyed THEN SeenKeys ELSE {}
  <2>1. Cardinality(Running) \in Nat
    BY <1>3, CountsAreNumbers
  <2> HIDE DEF SeenKeys
  <2> QED BY <1>1, <1>4, <2>1 DEF Passes
<1> HIDE DEF p
<1>6. pass'[s] = p /\ known'[s] = L
      /\ \A q \in Sources \ {s} : pass'[q] = pass[q] /\ known'[q] = known[q]
  BY <1>1, <1>2
<1>7. \A j \in Live : jobs[j] # Free /\ Key(jobs[j]) \in SeenKeys
  BY <1>3, FreeIsNoRecord DEF SeenKeys
<1>8. ASSUME NEW q \in Sources
      PROVE  /\ pass'[q].pc \in {"idle", "gates"} => known'[q] = {}
             /\ \A k \in known'[q] : jobs[k] # Free /\ Key(jobs[k]) \in pass'[q].seen
  <2>1. /\ pass[q].pc \in {"idle", "gates"} => known[q] = {}
        /\ \A k \in known[q] : jobs[k] # Free /\ Key(jobs[k]) \in pass[q].seen
    BY DEF CatchupInv, KnownSeen
  <2> QED BY <1>5, <1>6, <1>7, <2>1
<1>9. KnownSeen'
  BY <1>2, <1>8 DEF KnownSeen, Key
<1>10. JobsSound'
  BY <1>2 DEF CatchupInv, JobsSound, Running, InStore
<1>11. TypeOK'
  BY <1>1, <1>2, <1>3, <1>5 DEF TypeOK, Around
<1> QED BY <1>9, <1>10, <1>11 DEF CatchupInv

\* A pass posts a job for a document revision it has not seen, in a place nobody knows.
LEMMA Posted ==
  ASSUME CatchupInv, NEW s \in Sources, NEW j \in Slots, Post(s, j)
  PROVE  /\ CatchupInv'
         /\ \A k \in known[s] : Key(jobs[k]) # Key(jobs'[j])
<1> DEFINE t == First(s)
           p == [pass[s] EXCEPT !.seen = @ \cup {Key(t)}, !.running = @ + 1]
<1>1. /\ pass \in [Sources -> Passes] /\ known \in [Sources -> SUBSET Slots]
      /\ jobs \in [Slots -> JobRecords \cup {Free}] /\ Around /\ TypeOK
  BY TypeParts DEF CatchupInv
<1>2. /\ pass[s].pc = "post" /\ pass[s].targets # {} /\ Decision(s) = "enqueue" /\ jobs[j] = Free
      /\ jobs' = [jobs EXCEPT ![j] = Job(t)] /\ NextTarget(s, p)
      /\ UNCHANGED <<env, poison, enabled, embed, rev, events>>
  BY DEF Post, FreeSlots
<1>3. t \in pass[s].targets
  BY <1>1, <1>2, FirstIsTarget
<1>4. t \in Targets
  BY <1>1, <1>3 DEF Passes
<1>5. t.embed # "complete" /\ Key(t) \notin pass[s].seen
  BY <1>2, DecideEnqueues DEF Decision
<1> HIDE DEF t
<1>6. /\ Job(t) \in JobRecords /\ Key(Job(t)) = Key(t) /\ Job(t).at = "gate"
      /\ Job(t).status = "pending" /\ Job(t).saw = {}
  BY <1>4, <1>5, CatchupAssumption DEF Job, JobRecords, Targets, Statuses, Key
<1>7. jobs' \in [Slots -> JobRecords \cup {Free}]
  BY <1>1, <1>2, <1>6
<1>8. jobs'[j] = Job(t) /\ \A i \in Slots \ {j} : jobs'[i] = jobs[i]
  BY <1>1, <1>2
<1>9. JobsSound'
  <2>1. \A i \in Slots : i \in Running => i \in Running' /\ i # j
    BY <1>1, <1>2, <1>8, FreeIsNoRecord DEF Running, InStore
  <2>2. ASSUME NEW k \in Slots, jobs'[k] # Free
        PROVE  /\ jobs'[k].at \in {"gate", "start"} => jobs'[k].status # "running"
               /\ jobs'[k].at = "work" => jobs'[k].status = "running"
               /\ jobs'[k].at = "start" \/ jobs'[k].status = "running" => env'.on /\ ~env'.kill
               /\ Cardinality(jobs'[k].saw) < env'.cap
               /\ \A i \in jobs'[k].saw : i # k /\ i \in Running' /\ jobs'[i].saw \subseteq jobs'[k].saw
    <3>1. CASE k = j
      BY <1>2, <1>6, <1>8, <3>1, CountsAreNumbers
    <3>2. CASE k # j
      <4>1. jobs'[k] = jobs[k] /\ jobs[k] # Free
        BY <1>8, <2>2, <3>2
      <4>2. \A i \in jobs[k].saw : i # k /\ i \in Running /\ jobs[i].saw \subseteq jobs[k].saw
        BY <4>1 DEF CatchupInv, JobsSound
      <4>3. \A i \in jobs[k].saw : i \in Running' /\ jobs'[i] = jobs[i]
        BY <1>8, <2>1, <4>2 DEF Running, InStore
      <4> QED BY <1>2, <4>1, <4>2, <4>3 DEF CatchupInv, JobsSound
    <3> QED BY <3>1, <3>2
  <2> QED BY <2>2 DEF JobsSound
<1>10. \A q \in Sources : j \notin known[q] /\ known[q] \subseteq Slots
  BY <1>1, <1>2 DEF CatchupInv, KnownSeen
<1>11. \A k \in known[s] : Key(jobs[k]) # Key(jobs'[j])
  BY <1>5, <1>6, <1>8 DEF CatchupInv, KnownSeen
<1>12. /\ p \in Passes /\ p.pc = "post" /\ pass[s].seen \subseteq p.seen
       /\ [p EXCEPT !.targets = pass[s].targets \ {t}] \in Passes
       /\ [p EXCEPT !.targets = pass[s].targets \ {t}].pc = "post"
       /\ [p EXCEPT !.targets = pass[s].targets \ {t}].seen = p.seen
  <2>1. Key(t) \in Keys
    BY <1>4 DEF Key, Keys, Targets
  <2>2. pass[s] \in Passes
    BY <1>1
  <2>3. pass[s].seen \cup {Key(t)} \in SUBSET Keys /\ pass[s].running + 1 \in Nat
        /\ pass[s].targets \ {t} \in SUBSET Targets
    BY <2>1, <2>2 DEF Passes
  <2> QED BY <1>2, <2>2, <2>3 DEF Passes
<1>13. p.targets = pass[s].targets
  BY <1>1 DEF Passes
<1> HIDE DEF p
<1>14. \/ /\ pass' = [pass EXCEPT ![s] = Rest] /\ known' = [known EXCEPT ![s] = {}]
       \/ \E q \in Passes : /\ pass' = [pass EXCEPT ![s] = q] /\ known' = known
                            /\ q.pc = "post" /\ pass[s].seen \subseteq q.seen
  BY <1>2, <1>12, <1>13 DEF NextTarget, EndPass, Go, t
<1>15. pass' \in [Sources -> Passes] /\ known' \in [Sources -> SUBSET Slots]
  <2>1. Rest \in Passes
    BY DEF Rest, Passes
  <2> QED BY <1>1, <1>14, <2>1
<1>16. ASSUME NEW q \in Sources
       PROVE  /\ pass'[q].pc \in {"idle", "gates"} => known'[q] = {}
              /\ known'[q] \subseteq known[q]
              /\ known'[q] = {} \/ pass[q].seen \subseteq pass'[q].seen
  <2>1. pass[q].pc \in {"idle", "gates"} => known[q] = {}
    BY DEF CatchupInv, KnownSeen
  <2> QED BY <1>1, <1>14, <2>1
<1>17. KnownSeen'
  <2>1. ASSUME NEW q \in Sources, NEW k \in known'[q]
        PROVE  jobs'[k] # Free /\ Key(jobs'[k]) \in pass'[q].seen
    <3>1. k \in known[q] /\ pass[q].seen \subseteq pass'[q].seen
      BY <1>16
    <3>2. jobs[k] # Free /\ Key(jobs[k]) \in pass[q].seen
      BY <3>1 DEF CatchupInv, KnownSeen
    <3> QED BY <1>8, <1>10, <3>1, <3>2
  <2> QED BY <1>16, <2>1 DEF KnownSeen, Key
<1>18. TypeOK'
  BY <1>1, <1>2, <1>7, <1>15 DEF TypeOK, Around
<1> QED BY <1>9, <1>11, <1>17, <1>18 DEF CatchupInv

LEMMA PassesSkip ==
  ASSUME CatchupInv, NEW s \in Sources, Skip(s) \/ PassFails(s)
  PROVE  CatchupInv'
<1>1. /\ pass \in [Sources -> Passes] /\ Around /\ UNCHANGED <<env, poison, enabled, embed, rev, jobs>>
      /\ jobs \in [Slots -> JobRecords \cup {Free}]
  BY TypeParts DEF CatchupInv, Skip, PassFails
<1>2. events' \in 0..MaxEvents
  BY <1>1, CatchupAssumption DEF Around, Skip, PassFails, Event
<1>3. /\ pass' \in [Sources -> Passes] /\ known' \in [Sources -> SUBSET Slots]
      /\ JobsSound' /\ KnownSeen'
  <2>1. CASE EndPass(s)
    BY <1>1, <2>1, PassRests
  <2>2. CASE ~EndPass(s)
    <3> DEFINE p == [pass[s] EXCEPT !.targets = pass[s].targets \ {First(s)}]
    <3>1. Go(s, p) /\ UNCHANGED known /\ pass[s].pc = "post"
      BY <2>2 DEF Skip, PassFails, NextTarget
    <3>2. pass[s] \in Passes /\ pass[s].targets \ {First(s)} \in SUBSET Targets
      BY <1>1 DEF Passes
    <3>3. p \in Passes /\ p.pc = "post" /\ p.seen = pass[s].seen
      BY <3>1, <3>2 DEF Passes
    <3> HIDE DEF p
    <3> QED BY <1>1, <3>1, <3>3, PassGoesOn
  <2> QED BY <2>1, <2>2
<1>4. TypeOK'
  BY <1>1, <1>2, <1>3 DEF TypeOK, Around
<1> QED BY <1>3, <1>4 DEF CatchupInv

LEMMA TickGoesOn ==
  ASSUME CatchupInv, Tick \/ TickList
  PROVE  CatchupInv'
<1>0. "tick" \in Sources
  BY DEF Sources
<1>1. /\ pass \in [Sources -> Passes] /\ Around /\ jobs \in [Slots -> JobRecords \cup {Free}]
      /\ UNCHANGED <<env, poison, enabled, embed, rev, jobs, events>>
  BY TypeParts DEF CatchupInv, Tick, TickList
<1>2. /\ pass' \in [Sources -> Passes] /\ known' \in [Sources -> SUBSET Slots]
      /\ JobsSound' /\ KnownSeen'
  <2>1. CASE Tick
    <3> DEFINE p == [Rest EXCEPT !.pc = "gates"]
    <3>1. p \in Passes /\ p.pc = "gates"
      BY DEF Rest, Passes
    <3>2. Go("tick", p) /\ UNCHANGED known /\ pass["tick"].pc = "idle"
      BY <2>1 DEF Tick
    <3> HIDE DEF p
    <3> QED BY <1>0, <1>1, <3>1, <3>2, PassGoesOn
  <2>2. CASE TickList /\ EndPass("tick")
    BY <1>0, <1>1, <2>2, PassRests
  <2>3. CASE TickList /\ ~EndPass("tick")
    <3> DEFINE p == [pass["tick"] EXCEPT !.pc = "post", !.on = TRUE, !.targets = Residuals]
    <3>1. Go("tick", p) /\ UNCHANGED known
      BY <2>3 DEF TickList
    <3>2. Residuals \subseteq Targets
      BY <1>1 DEF Residuals, Targets, Statuses, Around
    <3>3. pass["tick"] \in Passes
      BY <1>0, <1>1
    <3>4. p \in Passes /\ p.pc = "post" /\ p.seen = pass["tick"].seen
      <4> HIDE DEF Residuals
      <4> QED BY <3>2, <3>3 DEF Passes
    <3> HIDE DEF p
    <3> QED BY <1>0, <1>1, <3>1, <3>4, PassGoesOn
  <2> QED BY <2>1, <2>2, <2>3
<1>3. TypeOK'
  BY <1>1, <1>2 DEF TypeOK, Around
<1> QED BY <1>2, <1>3 DEF CatchupInv

\* A hook begins: an ended job with its failed documents, a write with its document.
LEMMA HookBegins ==
  ASSUME CatchupInv,
         \/ \E D \in SUBSET Docs \ {{}} : JobEnded(D)
         \/ \E d \in Docs : Write(d) \/ WriteUnchanged(d)
  PROVE  CatchupInv'
<1>1. /\ pass \in [Sources -> Passes] /\ Around /\ jobs \in [Slots -> JobRecords \cup {Free}]
      /\ UNCHANGED <<env, poison, enabled, jobs, known>>
  BY TypeParts DEF CatchupInv, JobEnded, Write, WriteUnchanged
<1>2. events' \in 0..MaxEvents
  <2>1. events < MaxEvents /\ events' = events + 1
    BY DEF JobEnded, Write, WriteUnchanged, Event
  <2> QED BY <1>1, <2>1, CatchupAssumption DEF Around
<1>3. embed' \in [Docs -> {"complete", "missing"}] /\ rev' \in [Docs -> 0..MaxRev]
  <2>1. CASE \E D \in SUBSET Docs \ {{}} : JobEnded(D)
    BY <1>1, <2>1 DEF JobEnded, Around
  <2>2. ASSUME NEW d \in Docs, Write(d) PROVE embed' \in [Docs -> {"complete", "missing"}] /\ rev' \in [Docs -> 0..MaxRev]
    BY <1>1, <2>2, CatchupAssumption DEF Write, Around
  <2>3. ASSUME NEW d \in Docs, WriteUnchanged(d) PROVE embed' \in [Docs -> {"complete", "missing"}] /\ rev' \in [Docs -> 0..MaxRev]
    BY <1>1, <2>3 DEF WriteUnchanged, Around
  <2> QED BY <2>1, <2>2, <2>3
<1> DEFINE Begins == \E s \in Sources, b \in BOOLEAN, T \in SUBSET Targets :
             pass[s].pc = "idle" /\ Go(s, [Rest EXCEPT !.pc = "gates", !.on = b, !.targets = T])
<1>4. Begins
  <2>1. "job" \in Sources /\ "crud" \in Sources
    BY DEF Sources
  <2>2. env.on \in BOOLEAN /\ enabled \in BOOLEAN
    BY <1>1 DEF Around
  <2>3. ASSUME NEW D \in SUBSET Docs, JobEnded(D) PROVE Begins
    <3> DEFINE T == {[doc |-> d, rev |-> 0, embed |-> "failed"] : d \in D}
    <3>1. T \in SUBSET Targets
      BY CatchupAssumption DEF Targets, Statuses
    <3>2. pass["job"].pc = "idle" /\ Go("job", [Rest EXCEPT !.pc = "gates", !.on = env.on, !.targets = T])
      BY <2>3 DEF JobEnded
    <3> HIDE DEF T
    <3> QED BY <2>1, <2>2, <3>1, <3>2
  <2>4. ASSUME NEW d \in Docs, NEW r \in 0..MaxRev, NEW has \in BOOLEAN, Hook(d, r, has)
        PROVE Begins
    <3> DEFINE T == {[doc |-> d, rev |-> r, embed |-> EmbedStatus(has)]}
    <3>1. T \in SUBSET Targets
      BY DEF Targets, Statuses, EmbedStatus
    <3>2. pass["crud"].pc = "idle" /\ Go("crud", [Rest EXCEPT !.pc = "gates", !.on = enabled, !.targets = T])
      BY <2>4 DEF Hook
    <3> HIDE DEF T
    <3> QED BY <2>1, <2>2, <3>1, <3>2
  <2>5. ASSUME NEW d \in Docs, Write(d) PROVE Begins
    <3>1. Hook(d, rev[d] + 1, TRUE) /\ rev[d] < MaxRev
      BY <2>5, Zenon DEF Write
    <3>2. rev[d] \in 0..MaxRev
      BY <1>1 DEF Around
    <3>3. rev[d] + 1 \in 0..MaxRev
      BY <3>1, <3>2, CatchupAssumption
    <3> QED BY <2>4, <3>1, <3>3
  <2>6. ASSUME NEW d \in Docs, WriteUnchanged(d) PROVE Begins
    <3>1. Hook(d, rev[d], FALSE) /\ rev[d] \in 0..MaxRev
      BY <1>1, <2>6, CatchupAssumption DEF WriteUnchanged, Around
    <3> QED BY <2>4, <3>1
  <2> QED BY <2>3, <2>5, <2>6
<1>5. PICK s \in Sources, b \in BOOLEAN, T \in SUBSET Targets :
        pass[s].pc = "idle" /\ Go(s, [Rest EXCEPT !.pc = "gates", !.on = b, !.targets = T])
  BY <1>4
<1> DEFINE p == [Rest EXCEPT !.pc = "gates", !.on = b, !.targets = T]
<1>6. p \in Passes /\ p.pc = "gates"
  BY CatchupAssumption DEF Rest, Passes
<1>7. Go(s, p)
  BY <1>5
<1> HIDE DEF p
<1>8. /\ pass' \in [Sources -> Passes] /\ known' \in [Sources -> SUBSET Slots]
      /\ JobsSound' /\ KnownSeen'
  BY <1>1, <1>5, <1>6, <1>7, PassGoesOn
<1>9. TypeOK'
  BY <1>1, <1>2, <1>3, <1>8 DEF TypeOK, Around
<1> QED BY <1>8, <1>9 DEF CatchupInv

-----------------------------------------------------------------------------
(***************************************************************************)
(* The workers.                                                            *)
(***************************************************************************)

\* The hook of the write that a catch-up makes enqueues nothing.
LEMMA ReembedEnds ==
  ASSUME NEW j \in Slots, Reembed(j)
  PROVE  EndJob(j)
<1>1. \A key, seen, running : Decide(enabled, env.kill, EmbedStatus(TRUE), key, seen, running) # "enqueue"
  BY DecideEnqueues DEF EmbedStatus
<1> QED BY <1>1 DEF Reembed

LEMMA EndJobFrees ==
  ASSUME NEW j \in Slots, EndJob(j)
  PROVE  jobs' = [Unseen(j) EXCEPT ![j] = Free] /\ jobs'[j] = Free
BY DEF EndJob, Unseen

LEMMA WorkerEndsJob ==
  ASSUME CatchupInv, NEW j \in Slots, EndJob(j), UNCHANGED <<env, poison, enabled, rev, pass>>,
         embed' \in [Docs -> {"complete", "missing"}], events' \in 0..MaxEvents
  PROVE  CatchupInv'
<1>1. /\ jobs' = [Unseen(j) EXCEPT ![j] = Free] /\ known' = [s \in Sources |-> known[s] \ {j}]
  BY DEF EndJob
<1>2. /\ jobs' \in [Slots -> JobRecords \cup {Free}] /\ known' \in [Sources -> SUBSET Slots]
      /\ JobsSound' /\ KnownSeen'
  BY <1>1, JobLeaves
<1>3. TypeOK'
  BY <1>2 DEF CatchupInv, TypeOK
<1> QED BY <1>2, <1>3 DEF CatchupInv

LEMMA WorkerDecides ==
  ASSUME CatchupInv, NEW j \in Slots, Decided(j)
  PROVE  CatchupInv'
<1> DEFINE others == Running \ {j}
           r == [jobs[j] EXCEPT !.at = "start", !.saw = others]
<1>0. /\ jobs \in [Slots -> JobRecords \cup {Free}] /\ Around
      /\ jobs[j] # Free /\ jobs[j].at = "gate"
      /\ UNCHANGED <<env, poison, enabled, embed, rev, pass, events>>
  BY TypeParts DEF CatchupInv, Decided, At
<1>1. CASE EndJob(j)
  BY <1>0, <1>1, WorkerEndsJob DEF Around
<1>2. CASE Gate(j, others) = "enqueue" /\ SetJob(j, r)
  <2>1. ~env.kill /\ env.on /\ ~(Cardinality(others) >= env.cap)
    BY <1>2, DecideEnqueues DEF Gate
  <2>2. others \in SUBSET Slots
    BY DEF Running, InStore
  <2>3. Cardinality(others) < env.cap
    BY <2>1, <2>2, CountsAreNumbers
  <2>4. jobs[j] \in JobRecords /\ jobs[j].status # "running"
    BY <1>0 DEF CatchupInv, JobsSound
  <2>5. /\ r \in JobRecords /\ r.at = "start" /\ r.saw = others /\ r.status = jobs[j].status
        /\ r.doc = jobs[j].doc /\ r.rev = jobs[j].rev
    <3> HIDE DEF others
    <3> QED BY <2>2, <2>4 DEF JobRecords
  <2>6. \A i \in others : i # j /\ i \in Running /\ jobs[i].saw \subseteq others
    <3> SUFFICES ASSUME NEW i \in others, NEW k \in jobs[i].saw PROVE k \in Running /\ k # j
      OBVIOUS
    <3>1. i \in Slots /\ jobs[i] # Free
      BY FreeIsNoRecord DEF Running, InStore
    <3>2. k \in Running
      BY <3>1 DEF CatchupInv, JobsSound
    <3> QED BY <2>4, <3>2 DEF Running, InStore
  <2>7. Key(r) = Key(jobs[j])
    BY <2>5 DEF Key
  <2> HIDE DEF r
  <2>8. /\ jobs' \in [Slots -> JobRecords \cup {Free}] /\ known' \in [Sources -> SUBSET Slots]
        /\ JobsSound' /\ KnownSeen'
    BY <1>0, <1>2, <2>1, <2>3, <2>4, <2>5, <2>6, <2>7, JobGoesOn
  <2>9. TypeOK'
    BY <1>0, <2>8 DEF CatchupInv, TypeOK, Around
  <2> QED BY <2>8, <2>9 DEF CatchupInv
<1> QED BY <1>1, <1>2 DEF Decided

LEMMA WorkerStarts ==
  ASSUME CatchupInv, NEW j \in Slots, Start(j) \/ WorkerDies(j)
  PROVE  CatchupInv'
<1>0. /\ jobs \in [Slots -> JobRecords \cup {Free}] /\ Around /\ jobs[j] # Free
      /\ UNCHANGED <<env, poison, enabled, embed, rev, pass>>
  BY TypeParts DEF CatchupInv, Start, WorkerDies, At
<1>1. events' \in 0..MaxEvents
  BY <1>0, CatchupAssumption DEF Around, Start, WorkerDies, Event
<1>2. /\ jobs[j] \in JobRecords
      /\ jobs[j].at \in {"gate", "start"} => jobs[j].status # "running"
      /\ jobs[j].at = "work" => jobs[j].status = "running"
      /\ jobs[j].at = "start" \/ jobs[j].status = "running" => env.on /\ ~env.kill
      /\ Cardinality(jobs[j].saw) < env.cap
      /\ \A i \in jobs[j].saw : i # j /\ i \in Running /\ jobs[i].saw \subseteq jobs[j].saw
  BY <1>0 DEF CatchupInv, JobsSound
<1>3. CASE Start(j)
  <2> DEFINE r == [jobs[j] EXCEPT !.at = "work", !.status = "running"]
  <2>1. SetJob(j, r) /\ jobs[j].at = "start"
    BY <1>3 DEF Start, At
  <2>2. /\ r \in JobRecords /\ r.at = "work" /\ r.saw = jobs[j].saw /\ r.status = "running"
        /\ r.doc = jobs[j].doc /\ r.rev = jobs[j].rev
    BY <1>2 DEF JobRecords
  <2>3. Key(r) = Key(jobs[j])
    BY <2>2 DEF Key
  <2> HIDE DEF r
  <2>4. /\ jobs' \in [Slots -> JobRecords \cup {Free}] /\ known' \in [Sources -> SUBSET Slots]
        /\ JobsSound' /\ KnownSeen'
    BY <1>0, <1>2, <2>1, <2>2, <2>3, JobGoesOn
  <2>5. TypeOK'
    BY <1>0, <1>1, <2>4 DEF CatchupInv, TypeOK, Around
  <2> QED BY <2>4, <2>5 DEF CatchupInv
<1>4. CASE WorkerDies(j)
  <2> DEFINE r == [jobs[j] EXCEPT !.at = "dead", !.saw = {}]
  <2>1. SetJob(j, r)
    BY <1>4 DEF WorkerDies
  <2>2. /\ r \in JobRecords /\ r.at = "dead" /\ r.saw = {} /\ r.status = jobs[j].status
        /\ r.doc = jobs[j].doc /\ r.rev = jobs[j].rev
    BY <1>2 DEF JobRecords
  <2>3. Key(r) = Key(jobs[j]) /\ Cardinality(r.saw) < env.cap
    BY <2>2, CountsAreNumbers DEF Key
  <2> HIDE DEF r
  <2>4. /\ jobs' \in [Slots -> JobRecords \cup {Free}] /\ known' \in [Sources -> SUBSET Slots]
        /\ JobsSound' /\ KnownSeen'
    BY <1>0, <1>2, <2>1, <2>2, <2>3, JobGoesOn
  <2>5. TypeOK'
    BY <1>0, <1>1, <2>4 DEF CatchupInv, TypeOK, Around
  <2> QED BY <2>4, <2>5 DEF CatchupInv
<1> QED BY <1>3, <1>4

LEMMA WorkerEnds ==
  ASSUME CatchupInv, NEW j \in Slots,
         Reembed(j) \/ ReembedFails(j) \/ ReembedTransient(j) \/ OperatorClears(j)
  PROVE  CatchupInv'
<1>0. /\ jobs \in [Slots -> JobRecords \cup {Free}] /\ Around /\ jobs[j] # Free
      /\ UNCHANGED <<env, poison, enabled, rev, pass>>
  BY TypeParts DEF CatchupInv, Reembed, ReembedFails, ReembedTransient, OperatorClears, At
<1>1. events' \in 0..MaxEvents /\ embed' \in [Docs -> {"complete", "missing"}]
  <2>1. events' = events \/ (events < MaxEvents /\ events' = events + 1)
    BY DEF Reembed, ReembedFails, ReembedTransient, OperatorClears, Event
  <2>2. embed' = embed \/ embed' = [embed EXCEPT ![jobs[j].doc] = "complete"]
    BY DEF Reembed, ReembedFails, ReembedTransient, OperatorClears
  <2> QED BY <1>0, <2>1, <2>2, CatchupAssumption DEF Around
<1>2. CASE EndJob(j)
  BY <1>0, <1>1, <1>2, WorkerEndsJob
<1>3. CASE ReembedTransient(j) /\ jobs[j].tries < MaxRetries
  <2> DEFINE r == [jobs[j] EXCEPT !.at = "gate", !.status = "failed", !.tries = @ + 1, !.saw = {}]
  <2>1. jobs' = [Unseen(j) EXCEPT ![j] = r] /\ known' = known
    BY <1>3 DEF ReembedTransient
  <2>2. jobs[j] \in JobRecords /\ jobs[j].tries + 1 \in 0..MaxRetries
    BY <1>0, <1>3, CatchupAssumption DEF JobRecords
  <2>3. /\ r \in JobRecords /\ r.at = "gate" /\ r.saw = {} /\ r.status = "failed"
        /\ r.doc = jobs[j].doc /\ r.rev = jobs[j].rev
    BY <2>2 DEF JobRecords
  <2>4. Key(r) = Key(jobs[j])
    BY <2>3 DEF Key
  <2> HIDE DEF r
  <2>5. /\ jobs' \in [Slots -> JobRecords \cup {Free}] /\ known' \in [Sources -> SUBSET Slots]
        /\ JobsSound' /\ KnownSeen'
    BY <1>0, <2>1, <2>3, <2>4, FreeIsNoRecord, JobLeaves
  <2>6. TypeOK'
    BY <1>0, <1>1, <2>5 DEF CatchupInv, TypeOK, Around
  <2> QED BY <2>5, <2>6 DEF CatchupInv
<1> QED BY <1>2, <1>3, ReembedEnds DEF ReembedFails, ReembedTransient, OperatorClears

LEMMA CatchupInit == Init => CatchupInv
<1> SUFFICES ASSUME Init PROVE CatchupInv
  OBVIOUS
<1>1. Rest \in Passes /\ Rest.pc = "idle"
  BY DEF Rest, Passes
<1>2. TypeOK
  BY <1>1, CatchupAssumption DEF Init, TypeOK
<1>3. JobsSound /\ KnownSeen
  BY <1>1 DEF Init, JobsSound, KnownSeen
<1> QED BY <1>2, <1>3 DEF CatchupInv

LEMMA CatchupNext == CatchupInv /\ [Next]_vars => CatchupInv'
<1> SUFFICES ASSUME CatchupInv, [Next]_vars PROVE CatchupInv'
  OBVIOUS
<1>1. CASE UNCHANGED vars
  BY <1>1 DEF vars, CatchupInv, TypeOK, JobsSound, KnownSeen, Running, InStore, Key
<1>2. ASSUME NEW s \in Sources, PassStep(s) PROVE CatchupInv'
  BY <1>2, GatesRead, Posted, PassesSkip DEF PassStep
<1>3. CASE Tick \/ TickList
  BY <1>3, TickGoesOn
<1>4. ASSUME NEW j \in Slots, WorkerStep(j) PROVE CatchupInv'
  BY <1>4, WorkerDecides, WorkerStarts, WorkerEnds DEF WorkerStep
<1>5. CASE Outside
  <2>1. CASE \/ \E D \in SUBSET Docs \ {{}} : JobEnded(D)
             \/ \E d \in Docs : Write(d) \/ WriteUnchanged(d)
    BY <2>1, HookBegins
  <2>2. ASSUME NEW b \in BOOLEAN, SetEnabled(b) PROVE CatchupInv'
    <3>1. /\ enabled' = b /\ UNCHANGED <<env, poison, embed, rev, pass, known, jobs>>
          /\ events < MaxEvents /\ events' = events + 1
      BY <2>2 DEF SetEnabled, Event
    <3>2. TypeOK'
      BY <3>1, CatchupAssumption DEF CatchupInv, TypeOK
    <3>3. JobsSound' /\ KnownSeen'
      BY <3>1 DEF CatchupInv, JobsSound, KnownSeen, Running, InStore, Key
    <3> QED BY <3>2, <3>3 DEF CatchupInv
  <2>3. ASSUME NEW s \in Sources, PassFails(s) PROVE CatchupInv'
    BY <2>3, PassesSkip
  <2>4. ASSUME NEW j \in Slots, ReembedTransient(j) \/ WorkerDies(j) \/ OperatorClears(j)
        PROVE CatchupInv'
    BY <2>4, WorkerStarts, WorkerEnds
  <2> QED BY <1>5, <2>1, <2>2, <2>3, <2>4 DEF Outside
<1> QED BY <1>1, <1>2, <1>3, <1>4, <1>5 DEF Next, TickStep, Sources

\* A job that works passed its gates while they were open, and counted fewer jobs than
\* the cap; those it counted still work.  Code: run_gated_job, run_daily_catchup.
THEOREM CatchupInvariant == Spec => []CatchupInv
BY CatchupInit, CatchupNext, PTL DEF Spec

\* Of jobs that all know of each other, one counted all the others.
LEMMA LastOneCounted ==
  ASSUME CatchupInv, NEW W \in SUBSET AtWork, W # {},
         \A i, j \in W : i = j \/ i \in jobs[j].saw \/ j \in jobs[i].saw
  PROVE  \E j \in W : W \ {j} \subseteq jobs[j].saw
<1> DEFINE Unknown == {W \ jobs[j].saw : j \in W}
<1>0. W \subseteq Slots /\ \A j \in W : jobs[j] # Free
  BY FreeIsNoRecord DEF AtWork, Running, InStore
<1>1. Unknown \subseteq FiniteSubsetsOf(Slots) /\ Unknown # {}
  <2>1. \A j \in W : W \ jobs[j].saw \in SUBSET Slots
    BY <1>0
  <2> QED BY <2>1, CountsAreNumbers DEF FiniteSubsetsOf
<1>2. \E x \in Unknown : \A y \in Unknown : ~ (<<y, x>> \in StrictSubsetOrdering(Slots))
  BY <1>1, FS_StrictSubsetOrderingWellFounded, WFMin, Zenon
<1>3. PICK j \in W : \A i \in W : ~ (<<W \ jobs[i].saw, W \ jobs[j].saw>> \in StrictSubsetOrdering(Slots))
  BY <1>2
<1>4. ASSUME NEW i \in W \ {j}, i \notin jobs[j].saw PROVE FALSE
  <2>1. j \in jobs[i].saw
    BY <1>4
  <2>2. jobs[j].saw \subseteq jobs[i].saw /\ j \notin jobs[j].saw
    BY <1>0, <2>1 DEF CatchupInv, JobsSound
  <2>3. W \ jobs[i].saw \subseteq W \ jobs[j].saw /\ W \ jobs[i].saw # W \ jobs[j].saw
    BY <2>1, <2>2
  <2> QED BY <1>0, <1>3, <2>3 DEF StrictSubsetOrdering
<1> QED BY <1>4

LEMMA CapHolds ==
  ASSUME CatchupInv PROVE CapBrokenOnlyByOverlap
<1> SUFFICES ASSUME Cardinality(AtWork) > env.cap,
                    \A i, j \in AtWork : i = j \/ i \in jobs[j].saw \/ j \in jobs[i].saw
             PROVE  FALSE
  BY DEF CapBrokenOnlyByOverlap
<1>1. AtWork \subseteq Slots /\ \A j \in AtWork : jobs[j] # Free
  BY FreeIsNoRecord DEF AtWork, Running, InStore
<1>2. AtWork # {}
  BY CountsAreNumbers
<1>3. PICK j \in AtWork : AtWork \ {j} \subseteq jobs[j].saw
  BY <1>2, LastOneCounted
<1>4. jobs[j].saw \in SUBSET Slots /\ Cardinality(jobs[j].saw) < env.cap
  BY <1>1 DEF CatchupInv, JobsSound, TypeOK, JobRecords
<1>5. Cardinality(AtWork \ {j}) <= Cardinality(jobs[j].saw)
  BY <1>3, <1>4, FS_Subset, CountsAreNumbers
<1>6. Cardinality(AtWork \ {j}) = Cardinality(AtWork) - 1
  BY <1>1, FS_RemoveElement, CountsAreNumbers
<1>7. Cardinality(AtWork) \in Nat /\ Cardinality(jobs[j].saw) \in Nat /\ env.cap \in Nat
  BY <1>1, <1>4, CountsAreNumbers
<1> QED BY <1>4, <1>5, <1>6, <1>7

\* With the switches off no catch-up job works, and the cap is exceeded only by jobs
\* that counted at the same time, for any number of jobs, documents and switches.
THEOREM GatesAlwaysHold == Spec => []GatesHold
<1>1. CatchupInv => OffMeansNoWork
  <2> SUFFICES ASSUME CatchupInv, env.kill \/ ~env.on, NEW j \in Running PROVE FALSE
    BY DEF OffMeansNoWork
  <2>1. j \in Slots /\ jobs[j].status = "running" /\ jobs[j] # Free
    BY FreeIsNoRecord DEF Running, InStore
  <2> QED BY <2>1 DEF CatchupInv, JobsSound
<1>2. CatchupInv => GatesHold
  BY <1>1, CapHolds DEF GatesHold
<1> QED BY <1>2, CatchupInvariant, PTL

\* The tick and the hook of the jobs never create a job for a revision of a document that
\* has a live job they know of: their duplicates come only from passes that read before
\* the other wrote.  The hook of the write API, which knows of none, is not spoken of.
THEOREM DuplicatesOverlap == Spec => DuplicateNeedsOverlap
<1>1. CatchupInv /\ [Next]_vars =>
        [\A s \in Keyed, j \in Slots : Post(s, j) =>
           \A k \in known[s] : ~(k \in Live /\ Key(jobs[k]) = Key(jobs'[j]))]_vars
  BY Posted DEF Keyed, Sources
<1> QED BY <1>1, CatchupInvariant, PTL DEF Spec, DuplicateNeedsOverlap

\* The write a catch-up makes ends its own job and posts no other, whatever the gates
\* say by then, for any number of jobs.
THEOREM FeedsNothing == Spec => CatchupFeedsNothing
<1>1. [Next]_vars => [\A j \in Slots : Reembed(j) => jobs'[j] = Free]_vars
  BY ReembedEnds, EndJobFrees
<1> QED BY <1>1, PTL DEF Spec, CatchupFeedsNothing

-----------------------------------------------------------------------------
(***************************************************************************)
(* Tags.  A request deletes the rows it sees and inserts its own without a *)
(* lock on the document: what it has in hand stays true until another one  *)
(* commits, and then it is late.                                           *)
(***************************************************************************)
ShownIn(l, rows) == {r.slug : r \in {x \in rows : x.lang = l}}
Replacing == {"delete", "lock", "insert", "number", "version", "commit"}

\* What a request that sets tags has in hand while nothing was committed over it: the
\* language of the document, all of its tags deleted or about to be, and, for a bulk
\* request, the outcome it computed from the tags that are still shown.
InHand(t, l, rows) ==
  /\ t.at = "row" => t.op \in {"batch", "upsert", "meta"}
  /\ t.op \in {"patch", "bulk", "batch"} /\ ~t.late =>
       /\ t.at \in {"tags"} \cup Replacing => t.lang = l
       /\ t.at = "lock" => t.sees = rows
       /\ t.at \in {"insert", "number", "version", "commit"} => t.rows = rows
       /\ t.at \in {"number", "version", "commit"} => t.kept = {}
       /\ t.op = "bulk" /\ t.at \in Replacing => t.final = (ShownIn(l, rows) \ t.remove) \cup t.add

TagInv == TagTypeOK /\ \A w \in TagWriters : InHand(Of(w), lang, tagRows)

LEMMA OverHasType == Langs # {} => Over \in Taggers /\ Over.at = "over" /\ Over.op = "patch"
<1> SUFFICES ASSUME Langs # {} PROVE Over \in Taggers /\ Over.at = "over" /\ Over.op = "patch"
  OBVIOUS
<1> DEFINE l == CHOOSE x \in Langs : TRUE
<1>1. l \in Langs
  OBVIOUS
<1> HIDE DEF l
<1>2. Starts("over", "patch", l) \in Taggers
  BY <1>1 DEF Starts, Taggers
<1>3. Over = Starts("over", "patch", l)
  BY DEF Over, l
<1> QED BY <1>2, <1>3 DEF Starts

LEMMA TagInitInv == TagInit => TagInv
<1> SUFFICES ASSUME TagInit PROVE TagInv
  OBVIOUS
<1>1. lang \in Langs /\ Langs # {}
  BY DEF TagInit
<1>2. PICK S \in SUBSET Slugs : /\ tagRows = {Row(s, lang, Origin) : s \in S}
                                /\ versions = <<[lang |-> lang, tags |-> S]>>
  BY DEF TagInit
<1>3. tagRows \subseteq TagRows
  BY <1>1, <1>2 DEF Row, TagRows
<1>4. versions \in Seq([lang : Langs, tags : SUBSET Slugs])
  <2>1. [lang |-> lang, tags |-> S] \in [lang : Langs, tags : SUBSET Slugs]
    BY <1>1
  <2> QED BY <1>2, <2>1
<1> DEFINE idle == [Over EXCEPT !.at = "idle"]
<1>5. idle \in Taggers /\ idle.at = "idle"
  BY <1>1, OverHasType DEF Taggers
<1> HIDE DEF idle
<1>6. tagger = [w \in TagWriters |-> idle]
  BY DEF TagInit, idle
<1>7. tagger \in [TagWriters -> Taggers] /\ \A w \in TagWriters : Of(w) = idle
  BY <1>5, <1>6 DEF Of
<1>8. InHand(idle, lang, tagRows)
  BY <1>5 DEF InHand, Replacing
<1> QED BY <1>1, <1>3, <1>4, <1>7, <1>8 DEF TagInv, TagTypeOK

\* A step of one request that writes nothing yet keeps the invariant when it leaves
\* that request with something that is still so.
LEMMA OneMoves ==
  ASSUME TagInv, NEW w \in TagWriters, NEW r \in Taggers, InHand(r, lang, tagRows), Becomes(w, r), Unwritten
  PROVE  TagInv'
<1>1. tagger \in [TagWriters -> Taggers] /\ tagger' = [tagger EXCEPT ![w] = r]
  BY DEF TagInv, TagTypeOK, Becomes
<1>2. TagTypeOK'
  BY <1>1 DEF TagInv, TagTypeOK, Unwritten
<1>3. ASSUME NEW q \in TagWriters PROVE InHand(tagger'[q], lang', tagRows')
  <2>1. InHand(tagger'[q], lang, tagRows)
    BY <1>1 DEF TagInv, Of
  <2> QED BY <2>1 DEF Of, InHand, Unwritten
<1> QED BY <1>2, <1>3 DEF TagInv, Of

LEMMA Starting ==
  ASSUME NEW at \in {"delete", "tags", "row"}, NEW op \in {"patch", "bulk", "batch", "upsert", "meta"},
         NEW l \in Langs
  PROVE  LET s == Starts(at, op, l)
         IN s \in Taggers /\ s.at = at /\ s.op = op /\ s.lang = l /\ ~s.late
  BY DEF Starts, Taggers

LEMMA TagNextInv == TagInv /\ [TagNext]_tagVars => TagInv'
<1> SUFFICES ASSUME TagInv, [TagNext]_tagVars PROVE TagInv'
  OBVIOUS
<1>1. CASE UNCHANGED tagVars
  BY <1>1 DEF tagVars, TagInv, TagTypeOK, InHand, Of, ShownIn
<1> SUFFICES ASSUME NEW w \in TagWriters, TagStep(w) PROVE TagInv'
  BY <1>1 DEF TagNext
<1>0. Of(w) \in Taggers /\ InHand(Of(w), lang, tagRows) /\ lang \in Langs /\ tagRows \subseteq TagRows
  BY DEF TagInv, TagTypeOK, Of
<1> DEFINE t == Of(w)
<1>2. ASSUME NEW r \in Taggers, InHand(r, lang, tagRows), Becomes(w, r), Unwritten PROVE TagInv'
  BY <1>2, OneMoves
<1>3. ASSUME Becomes(w, Over), Unwritten PROVE TagInv'
  <2>1. Over \in Taggers /\ InHand(Over, lang, tagRows)
    BY <1>0, OverHasType DEF InHand, Replacing
  <2> QED BY <1>2, <1>3, <2>1
<1>4. CASE StartPatch(w)
  <2>1. PICK S \in SUBSET Slugs : Becomes(w, [Starts("delete", "patch", lang) EXCEPT !.final = S])
    BY <1>4 DEF StartPatch
  <2> DEFINE s == Starts("delete", "patch", lang)
             r == [s EXCEPT !.final = S]
  <2>2. s \in Taggers /\ s.at = "delete" /\ s.op = "patch" /\ s.lang = lang /\ ~s.late
    BY <1>0, Starting
  <2> HIDE DEF s
  <2>3. r \in Taggers /\ r.at = "delete" /\ r.op = "patch" /\ r.lang = lang
    BY <2>2 DEF Taggers
  <2>4. Becomes(w, r) /\ Unwritten
    BY <1>4, <2>1 DEF StartPatch, s
  <2> HIDE DEF r
  <2>5. InHand(r, lang, tagRows)
    BY <2>3 DEF InHand
  <2> QED BY <1>2, <2>3, <2>4, <2>5
<1>5. CASE StartBulk(w)
  <2>1. PICK A \in SUBSET Slugs, R \in SUBSET Slugs :
           Becomes(w, [Starts("tags", "bulk", lang) EXCEPT !.add = A, !.remove = R])
    BY <1>5 DEF StartBulk
  <2> DEFINE s == Starts("tags", "bulk", lang)
             r == [s EXCEPT !.add = A, !.remove = R]
  <2>2. s \in Taggers /\ s.at = "tags" /\ s.op = "bulk" /\ s.lang = lang /\ ~s.late
    BY <1>0, Starting
  <2> HIDE DEF s
  <2>3. r \in Taggers /\ r.at = "tags" /\ r.op = "bulk" /\ r.lang = lang
    BY <2>2 DEF Taggers
  <2>4. Becomes(w, r) /\ Unwritten
    BY <1>5, <2>1 DEF StartBulk, s
  <2> HIDE DEF r
  <2>5. InHand(r, lang, tagRows)
    BY <2>3 DEF InHand, Replacing
  <2> QED BY <1>2, <2>3, <2>4, <2>5
<1>6. CASE ReadTags(w)
  <2> DEFINE current == {r.slug : r \in {x \in tagRows : x.lang = Of(w).lang}}
             final == (current \ Of(w).remove) \cup Of(w).add
             r == [Of(w) EXCEPT !.at = "delete", !.final = final]
  <2>1. Becomes(w, Over) \/ Becomes(w, r)
    BY <1>6 DEF ReadTags
  <2>2. Unwritten /\ Of(w).at = "tags"
    BY <1>6 DEF ReadTags
  <2>3. final \in SUBSET Slugs
    BY <1>0 DEF Taggers, TagRows
  <2>4. Of(w).lang = lang => final = (ShownIn(lang, tagRows) \ Of(w).remove) \cup Of(w).add
    BY DEF Shown, ShownIn
  <2> HIDE DEF final
  <2>5. /\ r \in Taggers /\ r.at = "delete" /\ r.op = t.op /\ r.lang = t.lang /\ r.late = t.late
        /\ r.final = final /\ r.remove = t.remove /\ r.add = t.add
    BY <1>0, <2>3 DEF Taggers
  <2> HIDE DEF r
  <2>6. InHand(r, lang, tagRows)
    BY <1>0, <2>2, <2>4, <2>5 DEF InHand
  <2> QED BY <1>2, <1>3, <2>1, <2>2, <2>5, <2>6
<1>7. CASE StartBatch(w) \/ StartMeta(w)
  <2>1. ASSUME NEW op \in {"batch", "upsert", "meta"}, NEW l \in Langs, NEW S \in SUBSET Slugs,
               Becomes(w, [Starts("row", op, l) EXCEPT !.final = S])
        PROVE  TagInv'
    <3> DEFINE s == Starts("row", op, l)
               r == [s EXCEPT !.final = S]
    <3>2. s \in Taggers /\ s.at = "row" /\ s.op = op /\ ~s.late
      BY Starting
    <3>3. Becomes(w, r) /\ Unwritten
      BY <1>7, <2>1 DEF StartBatch, StartMeta
    <3> HIDE DEF s
    <3>4. r \in Taggers /\ r.at = "row" /\ r.op = op
      BY <3>2 DEF Taggers
    <3> HIDE DEF r
    <3>5. InHand(r, lang, tagRows)
      BY <3>4 DEF InHand, Replacing
    <3> QED BY <1>2, <3>3, <3>4, <3>5
  <2>2. ASSUME NEW op \in {"upsert", "meta"}, NEW l \in Langs, Becomes(w, Starts("row", op, l))
        PROVE  TagInv'
    <3> DEFINE s == Starts("row", op, l)
    <3>1. s \in Taggers /\ s.at = "row" /\ s.op = op
      BY Starting
    <3>2. Becomes(w, s) /\ Unwritten
      BY <1>7, <2>2 DEF StartBatch, StartMeta
    <3> HIDE DEF s
    <3>3. InHand(s, lang, tagRows)
      BY <3>1 DEF InHand, Replacing
    <3> QED BY <1>2, <3>1, <3>2, <3>3
  <2> QED BY <1>0, <1>7, <2>1, <2>2 DEF StartBatch, StartMeta
<1>8. CASE LockRow(w)
  <2> DEFINE r == [Of(w) EXCEPT !.at = IF Of(w).op = "batch" THEN "delete" ELSE "number"]
  <2>1. /\ Unwritten /\ t.at = "row"
        /\ \/ Becomes(w, Over)
           \/ Becomes(w, r) /\ (t.op # "meta" => t.lang = lang)
    BY <1>8 DEF LockRow
  <2>2. /\ r \in Taggers /\ r.at = (IF t.op = "batch" THEN "delete" ELSE "number")
        /\ r.op = t.op /\ r.lang = t.lang
    BY <1>0 DEF Taggers
  <2> HIDE DEF r
  <2>3. (t.op # "meta" => t.lang = lang) => InHand(r, lang, tagRows)
    BY <1>0, <2>1, <2>2 DEF InHand
  <2> QED BY <1>2, <1>3, <2>1, <2>2, <2>3
<1>9. CASE StartDelete(w)
  <2> DEFINE r == [Of(w) EXCEPT !.at = "lock", !.sees = tagRows]
  <2>1. Becomes(w, r) /\ Unwritten /\ t.at = "delete"
    BY <1>9 DEF StartDelete
  <2>2. /\ r \in Taggers /\ r.at = "lock" /\ r.op = t.op /\ r.lang = t.lang /\ r.late = t.late
        /\ r.sees = tagRows /\ r.final = t.final /\ r.remove = t.remove /\ r.add = t.add
    BY <1>0 DEF Taggers
  <2> HIDE DEF r
  <2>3. InHand(r, lang, tagRows)
    BY <1>0, <2>1, <2>2 DEF InHand, Replacing
  <2> QED BY <1>2, <2>1, <2>2, <2>3
<1>10. CASE DeleteTags(w)
  <2> DEFINE r == [Of(w) EXCEPT !.at = "insert", !.rows = Of(w).sees \cap tagRows, !.sees = {}]
  <2>1. Becomes(w, r) /\ Unwritten /\ t.at = "lock"
    BY <1>10 DEF DeleteTags
  <2>2. /\ r \in Taggers /\ r.at = "insert" /\ r.op = t.op /\ r.lang = t.lang /\ r.late = t.late
        /\ r.rows = t.sees \cap tagRows /\ r.final = t.final /\ r.remove = t.remove /\ r.add = t.add
    BY <1>0 DEF Taggers
  <2> HIDE DEF r
  <2>3. InHand(r, lang, tagRows)
    BY <1>0, <2>1, <2>2 DEF InHand, Replacing
  <2> QED BY <1>2, <2>1, <2>2, <2>3
<1>11. CASE InsertTags(w)
  <2> DEFINE keys == {<<s, Of(w).lang>> : s \in Of(w).final}
             kept == {r \in tagRows \ Of(w).rows : <<r.slug, r.lang>> \in keys}
             r == [Of(w) EXCEPT !.at = "number", !.kept = kept]
  <2>1. Becomes(w, r) /\ Unwritten /\ t.at = "insert"
    BY <1>11 DEF InsertTags
  <2>2. kept \subseteq tagRows \ t.rows
    OBVIOUS
  <2> HIDE DEF kept
  <2>3. /\ r \in Taggers /\ r.at = "number" /\ r.op = t.op /\ r.lang = t.lang /\ r.late = t.late
        /\ r.rows = t.rows /\ r.kept = kept /\ r.final = t.final /\ r.remove = t.remove /\ r.add = t.add
    BY <1>0, <2>2 DEF Taggers
  <2> HIDE DEF r
  <2>4. InHand(r, lang, tagRows)
    BY <1>0, <2>1, <2>2, <2>3 DEF InHand, Replacing
  <2> QED BY <1>2, <2>1, <2>3, <2>4
<1>12. CASE NumberVersion(w)
  <2> DEFINE r == [Of(w) EXCEPT !.at = "version", !.number = Len(versions) + 1]
  <2>1. Becomes(w, r) /\ Unwritten /\ t.at = "number"
    BY <1>12 DEF NumberVersion
  <2>2. Len(versions) + 1 \in Nat
    BY LenProperties DEF TagInv, TagTypeOK
  <2>3. /\ r \in Taggers /\ r.at = "version" /\ r.op = t.op /\ r.lang = t.lang /\ r.late = t.late
        /\ r.rows = t.rows /\ r.kept = t.kept /\ r.final = t.final /\ r.remove = t.remove /\ r.add = t.add
    BY <1>0, <2>2 DEF Taggers
  <2> HIDE DEF r
  <2>4. InHand(r, lang, tagRows)
    BY <1>0, <2>1, <2>3 DEF InHand, Replacing
  <2> QED BY <1>2, <2>1, <2>3, <2>4
<1>13. CASE InsertVersion(w)
  <2> DEFINE r == [Of(w) EXCEPT !.at = "commit"]
  <2>1. (Becomes(w, Over) \/ Becomes(w, r)) /\ Unwritten /\ t.at = "version"
    BY <1>13 DEF InsertVersion
  <2>2. /\ r \in Taggers /\ r.at = "commit" /\ r.op = t.op /\ r.lang = t.lang /\ r.late = t.late
        /\ r.rows = t.rows /\ r.kept = t.kept /\ r.final = t.final /\ r.remove = t.remove /\ r.add = t.add
    BY <1>0 DEF Taggers
  <2> HIDE DEF r
  <2>3. InHand(r, lang, tagRows)
    BY <1>0, <2>1, <2>2 DEF InHand, Replacing
  <2> QED BY <1>2, <1>3, <2>1, <2>2, <2>3
<1>14. CASE WriterDies(w)
  BY <1>3, <1>14 DEF WriterDies
<1>15. CASE Commit(w)
  <2>1. /\ tagRows' = (tagRows \ t.rows) \cup Stored(w)
        /\ lang' = IF t.op = "meta" THEN t.lang ELSE lang
        /\ versions' = Append(versions, [lang |-> t.lang, tags |-> t.final])
        /\ tagger' = [q \in TagWriters |-> IF q = w THEN Over
                                          ELSE [Of(q) EXCEPT !.late = @ \/ LooksAway(q)]]
    BY <1>15 DEF Commit
  <2>2. t.lang \in Langs /\ t.final \subseteq Slugs
    BY <1>0 DEF Taggers
  <2>3. Stored(w) \subseteq TagRows
    <3>1. \A s \in t.final : Row(s, t.lang, w) \in TagRows
      BY <2>2 DEF Row, TagRows
    <3> QED BY <3>1 DEF Stored
  <2>4. tagRows' \subseteq TagRows /\ lang' \in Langs
    BY <1>0, <2>1, <2>2, <2>3
  <2>5. versions' \in Seq([lang : Langs, tags : SUBSET Slugs])
    BY <2>1, <2>2, AppendProperties DEF TagInv, TagTypeOK
  <2>6. Over \in Taggers /\ InHand(Over, lang', tagRows')
    BY <1>0, OverHasType DEF InHand, Replacing
  <2>7. ASSUME NEW q \in TagWriters, q # w
        PROVE  tagger'[q] \in Taggers /\ InHand(tagger'[q], lang', tagRows')
    <3> DEFINE away == LooksAway(q)
               r == [Of(q) EXCEPT !.late = @ \/ away]
    <3>1. tagger'[q] = r
      BY <2>1, <2>7
    <3>2. Of(q) \in Taggers /\ InHand(Of(q), lang, tagRows) /\ away \in BOOLEAN
      BY <2>7 DEF TagInv, TagTypeOK, Of, LooksAway
    <3>3. away = ( \/ Of(q).at \notin {"idle", "row", "over"} /\ lang' # lang
                   \/ /\ tagRows' # tagRows
                      /\ \/ Of(q).at \in {"lock", "insert", "number", "version", "commit"}
                         \/ Of(q).at = "delete" /\ Of(q).op = "bulk")
      BY DEF LooksAway
    <3> HIDE DEF away
    <3>4. /\ r \in Taggers /\ r.at = Of(q).at /\ r.op = Of(q).op /\ r.lang = Of(q).lang
          /\ r.late = (Of(q).late \/ away)
          /\ r.sees = Of(q).sees /\ r.rows = Of(q).rows /\ r.kept = Of(q).kept
          /\ r.final = Of(q).final /\ r.remove = Of(q).remove /\ r.add = Of(q).add
      BY <3>2 DEF Taggers
    <3>5. InHand(tagger'[q], lang', tagRows')
      <4>1. CASE r.op \in {"patch", "bulk", "batch"} /\ ~r.late
        <5>1. Of(q).op \in {"patch", "bulk", "batch"} /\ ~Of(q).late /\ ~away
          BY <3>4, <4>1
        <5>2. /\ Of(q).at \in {"tags"} \cup Replacing => lang' = lang
              /\ Of(q).at \in {"lock", "insert", "number", "version", "commit"} => tagRows' = tagRows
              /\ Of(q).op = "bulk" /\ Of(q).at \in Replacing => tagRows' = tagRows /\ lang' = lang
          BY <3>3, <5>1 DEF Replacing
        <5> QED BY <3>1, <3>2, <3>4, <5>1, <5>2 DEF InHand, Replacing
      <4>2. CASE ~(r.op \in {"patch", "bulk", "batch"} /\ ~r.late)
        BY <3>1, <3>2, <3>4, <4>2 DEF InHand
      <4> QED BY <4>1, <4>2
    <3> QED BY <3>1, <3>4, <3>5
  <2>8. tagger' \in [TagWriters -> Taggers]
    BY <2>1, <2>6, <2>7
  <2>9. ASSUME NEW q \in TagWriters PROVE InHand(tagger'[q], lang', tagRows')
    BY <2>1, <2>6, <2>7 DEF Of
  <2> QED BY <2>4, <2>5, <2>8, <2>9 DEF TagInv, TagTypeOK, Of
<1> QED BY <1>4, <1>5, <1>6, <1>7, <1>8, <1>9, <1>10, <1>11, <1>12, <1>13, <1>14, <1>15 DEF TagStep

\* A request that was not overtaken has in hand what it was asked for: the language of
\* the document, all of its rows, and for a bulk request the tags it computed from them.
THEOREM TagInvariant == TagSpec => []TagInv
  BY TagInitInv, TagNextInv, PTL DEF TagSpec

\* What a request that was not late commits is what was asked of it.
LEMMA CommitsAsAsked ==
  ASSUME TagInv, NEW w \in TagWriters, Commit(w), Of(w).op \in {"patch", "bulk", "batch"}, ~Of(w).late
  PROVE  Shown' = IF Of(w).op = "bulk" THEN (Shown \ Of(w).remove) \cup Of(w).add ELSE Of(w).final
<1> DEFINE t == Of(w)
<1>1. t.at = "commit" /\ InHand(t, lang, tagRows)
  BY DEF Commit, TagInv
<1>2. /\ t.lang = lang /\ t.rows = tagRows /\ t.kept = {}
      /\ t.op = "bulk" => t.final = (Shown \ t.remove) \cup t.add
  BY <1>1 DEF InHand, Replacing, Shown, ShownIn
<1>3. lang' = lang /\ tagRows' = Stored(w)
  BY <1>2 DEF Commit
<1>4. Stored(w) = {Row(s, lang, w) : s \in t.final}
  BY <1>2 DEF Stored, RowKeys
<1>5. Shown' = t.final
  <2>1. \A s \in t.final : Row(s, lang, w) \in tagRows' /\ Row(s, lang, w).slug = s
                             /\ Row(s, lang, w).lang = lang
    BY <1>2, <1>3, <1>4 DEF Row
  <2>2. \A x \in tagRows' : x.slug \in t.final
    BY <1>3, <1>4 DEF Row
  <2>3. Shown' = {r.slug : r \in {x \in tagRows' : x.lang = lang'}}
    BY DEF Shown
  <2> QED BY <1>3, <2>1, <2>2, <2>3
<1> QED BY <1>2, <1>5

\* A request that sets tags and was not overtaken leaves exactly the tags it was asked
\* for, for any number of requests, tags and languages.  Code: tags.py 40-84.
THEOREM TagsSetAsAsked == TagSpec => TagsAsAsked
<1>1. ASSUME TagInv, [TagNext]_tagVars
      PROVE  [\A w \in TagWriters :
                Of(w).at = "commit" /\ versions' # versions /\ tagger'[w] = Over
                  /\ Of(w).op \in {"patch", "bulk", "batch"} /\ ~Of(w).late
                => Shown' = IF Of(w).op = "bulk" THEN (Shown \ Of(w).remove) \cup Of(w).add
                            ELSE Of(w).final]_tagVars
  <2> SUFFICES ASSUME NEW w \in TagWriters, Of(w).at = "commit", versions' # versions, tagger'[w] = Over,
                      Of(w).op \in {"patch", "bulk", "batch"}, ~Of(w).late
               PROVE  Shown' = IF Of(w).op = "bulk" THEN (Shown \ Of(w).remove) \cup Of(w).add
                               ELSE Of(w).final
    OBVIOUS
  <2>1. PICK q \in TagWriters : Commit(q)
    <3>1. ~UNCHANGED tagVars
      BY DEF tagVars
    <3>2. PICK q \in TagWriters : TagStep(q)
      BY <1>1, <3>1 DEF TagNext
    <3> QED BY <3>2 DEF TagStep, Unwritten, StartPatch, StartBulk, ReadTags, StartBatch, StartMeta, LockRow,
              StartDelete, DeleteTags, InsertTags, NumberVersion, InsertVersion, WriterDies
  <2>2. q = w
    <3> SUFFICES ASSUME q # w PROVE FALSE
      OBVIOUS
    <3>1. Of(w) \in Taggers /\ lang \in Langs
      BY <1>1 DEF TagInv, TagTypeOK, Of
    <3>2. tagger'[w] = [Of(w) EXCEPT !.late = @ \/ LooksAway(w)]
      BY <2>1 DEF Commit
    <3>3. tagger'[w].at = "commit"
      BY <3>1, <3>2 DEF Taggers
    <3> QED BY <3>1, <3>3, OverHasType
  <2> QED BY <1>1, <2>1, <2>2, CommitsAsAsked
<1> QED BY <1>1, TagInvariant, PTL DEF TagSpec, TagsAsAsked

-----------------------------------------------------------------------------
(***************************************************************************)
(* Downloads.  Success is what a poll reads in a copy of the manifest; the *)
(* copies lag behind the volume, never ahead of it.                        *)
(***************************************************************************)
LoopRecords == [at : {"none", "sent", "spawned", "answered", "timer", "asked", "ready", "waiting",
                      "over"}, tag : Tags \cup {NoTag}, page : BOOLEAN]
PullRecords == [at : {"none", "spawned", "pulling", "staged", "over"}, mount : Listings]
PageRecords == [status : {"idle", "pulling", "success", "timeout", "error"},
                tag : Tags \cup {NoTag}, crossed : BOOLEAN]
SetupRecords == [at : {"idle", "pull", "pulling", "wait", "check", "ready"},
                 tag : Tags \cup {NoTag}, polls : 0..MaxPolls]
Timers == [of : 0..MaxDownloads, on : BOOLEAN, polls : 0..MaxPolls]

\* Whatever copy of the manifest says available, the model is on the volume.
ListingsTrue ==
  \A t \in Tags : t \notin staged =>
    /\ manifest[t] # "available" /\ mount[t] # "available"
    /\ \A d \in Downloads : pull[d].mount[t] # "available"

\* A job works for a request that was made, and has staged what that asked for.
PullsTrue ==
  \A d \in Downloads :
    /\ pull[d].at # "none" => loop[d].at # "none"
    /\ pull[d].at = "staged" => loop[d].tag \in staged
    /\ loop[d].at # "none" => loop[d].tag \in Tags

\* Only the page polls in this way, for a model it has seen listed when it says so; and
\* while a single download of it is alive, that is the one it shows.
LoopsTrue ==
  \A d \in Downloads :
    /\ loop[d].at = "ready" => loop[d].tag \in staged
    /\ loop[d].at \in {"timer", "asked", "ready", "waiting"} => loop[d].page
    /\ Alive(d) => page.tag = loop[d].tag \/ page.crossed

SetupTrue == setup.at # "idle" => setup.tag \in Tags

PullInv == PullTypeOK /\ ListingsTrue /\ PullsTrue /\ LoopsTrue /\ SetupTrue /\ SuccessIsStaged

LEMMA PullTypes ==
  PullTypeOK <=> /\ manifest \in Listings /\ mount \in Listings /\ staged \subseteq Tags
                 /\ pull \in [Downloads -> PullRecords] /\ page \in PageRecords
                 /\ loop \in [Downloads -> LoopRecords] /\ setup \in SetupRecords
                 /\ timer \in Timers
BY DEF PullTypeOK, PullRecords, PageRecords, LoopRecords, SetupRecords, Timers

LEMMA SetupMoves ==
  ASSUME setup \in SetupRecords, PullAssumption,
         NEW at \in {"pull", "pulling", "wait", "check", "ready"}, Setup(at)
  PROVE  setup' \in SetupRecords /\ setup'.at = at /\ setup'.tag = setup.tag
<1>1. setup' = [setup EXCEPT !.at = at, !.polls = 0] /\ 0 \in 0..MaxPolls
  BY PullAssumption DEF Setup
<1>2. setup = [at |-> setup.at, tag |-> setup.tag, polls |-> setup.polls]
  BY DEF SetupRecords
<1>3. setup' = [at |-> at, tag |-> setup.tag, polls |-> 0]
  BY <1>1, <1>2
<1>4. setup.tag \in Tags \cup {NoTag}
  BY DEF SetupRecords
<1> QED BY <1>1, <1>3, <1>4 DEF SetupRecords

LEMMA PullInitInv == PullInit => PullInv
<1> SUFFICES ASSUME PullInit PROVE PullInv
  OBVIOUS
<1>1. /\ manifest \in Listings /\ mount = manifest /\ \A t \in Tags : manifest[t] = "none"
      /\ \A d \in Downloads : pull[d] = [at |-> "none", mount |-> manifest]
      /\ \A d \in Downloads : loop[d] = [at |-> "none", tag |-> NoTag, page |-> TRUE]
      /\ staged = {} /\ page = [status |-> "idle", tag |-> NoTag, crossed |-> FALSE]
      /\ setup = [at |-> "idle", tag |-> NoTag, polls |-> 0]
  BY DEF PullInit, Listings, NoSetup
<1>2. PullTypeOK
  BY <1>1, PullAssumption DEF PullInit, PullTypes, PullTypeOK
<1>3. ListingsTrue /\ PullsTrue /\ LoopsTrue /\ SetupTrue /\ SuccessIsStaged
  BY <1>1 DEF ListingsTrue, PullsTrue, LoopsTrue, SetupTrue, SuccessIsStaged, Alive
<1> QED BY <1>2, <1>3 DEF PullInv

-----------------------------------------------------------------------------
(***************************************************************************)
(* The requests and their polls keep what they are for.                    *)
(***************************************************************************)
Continues ==
  /\ loop' \in [Downloads -> LoopRecords]
  /\ \A e \in Downloads : /\ loop'[e].tag = loop[e].tag /\ loop'[e].page = loop[e].page
                          /\ loop'[e].at = "none" <=> loop[e].at = "none"
                          /\ loop[e].at = "over" => loop'[e].at = "over"

LEMMA GoesContinues ==
  ASSUME loop \in [Downloads -> LoopRecords], NEW d \in Downloads,
         NEW at \in {"spawned", "answered", "timer", "asked", "ready", "waiting", "over"},
         loop[d].at \notin {"none", "over"}, Goes(d, at)
  PROVE  Continues /\ loop'[d].at = at /\ \A e \in Downloads \ {d} : loop'[e] = loop[e]
BY DEF Goes, Continues, LoopRecords

LEMMA ClearContinues ==
  ASSUME loop \in [Downloads -> LoopRecords], NEW d \in Downloads, loop[d].at \notin {"none", "over"},
         ClearPoll(d, "over"), PullAssumption
  PROVE  /\ Continues /\ timer' \in Timers
         /\ \A e \in Downloads : loop'[e] = loop[e] \/ loop'[e].at = "over"
<1>1. loop' = [e \in Downloads |-> IF e = d THEN [loop[e] EXCEPT !.at = "over"]
                                  ELSE IF e = timer.of /\ loop[e].at = "timer"
                                       THEN [loop[e] EXCEPT !.at = "over"] ELSE loop[e]]
  BY DEF ClearPoll
<1>2. ASSUME NEW e \in Downloads
      PROVE  /\ loop'[e] \in LoopRecords
             /\ loop'[e].tag = loop[e].tag /\ loop'[e].page = loop[e].page
             /\ loop'[e].at = "none" <=> loop[e].at = "none"
             /\ loop[e].at = "over" => loop'[e].at = "over"
             /\ loop'[e] = loop[e] \/ loop'[e].at = "over"
  <2>1. (loop'[e] = [loop[e] EXCEPT !.at = "over"] /\ loop[e].at # "none") \/ loop'[e] = loop[e]
    BY <1>1
  <2>2. loop[e] \in LoopRecords
    OBVIOUS
  <2> QED BY <2>1, <2>2 DEF LoopRecords
<1>3. timer' \in Timers
  BY PullAssumption DEF ClearPoll, Timers
<1> QED BY <1>1, <1>2, <1>3 DEF Continues

\* What the requests go on to leaves the rest as it was, as long as a success is
\* announced only of what is staged.
LEMMA PagesTrue ==
  ASSUME PullInv, Continues, UNCHANGED <<manifest, staged, mount, pull>>, page' \in PageRecords,
         timer' \in Timers, setup' \in SetupRecords, SetupTrue',
         setup'.at = "ready" => setup'.tag \in staged,
         page'.status = "success" => page'.tag \in staged \/ page'.crossed,
         \A d \in Downloads : /\ loop'[d].at = "ready" => loop[d].tag \in staged
                              /\ loop'[d].at \in {"timer", "asked", "ready", "waiting"} => loop[d].page
                              /\ Alive(d) => \/ page'.tag = page.tag /\ (page.crossed => page'.crossed)
                                             \/ page'.crossed
  PROVE  PullInv'
<1>1. PullTypeOK'
  BY PullTypes DEF PullInv, Continues, PullTypes, PullTypeOK, PullRecords, PageRecords, LoopRecords,
       SetupRecords, Timers
<1>2. ListingsTrue'
  BY DEF PullInv, ListingsTrue
<1>3. PullsTrue'
  BY DEF PullInv, PullsTrue, Continues
<1>4. LoopsTrue'
  BY DEF PullInv, LoopsTrue, Alive, Continues
<1>5. SuccessIsStaged'
  BY DEF SuccessIsStaged
<1> QED BY <1>1, <1>2, <1>3, <1>4, <1>5 DEF PullInv

-----------------------------------------------------------------------------
\* The routes, the jobs and the mounts.
LEMMA VolumeStep ==
  ASSUME PullInv,
         \/ Remount
         \/ \E d \in Downloads : RouteStep(d) \/ JobStep(d) \/ PullFails(d)
  PROVE  PullInv'
<1>0. /\ manifest \in Listings /\ mount \in Listings /\ staged \subseteq Tags
      /\ pull \in [Downloads -> PullRecords] /\ page \in PageRecords
      /\ loop \in [Downloads -> LoopRecords] /\ setup \in SetupRecords /\ timer \in Timers
  BY PullTypes DEF PullInv
<1>1. UNCHANGED <<page, setup, timer>>
  BY DEF Remount, RouteStep, JobStep, PullFails, SpawnPull, RegisterPending, StartPull, StagePull,
         MarkAvailable, PageVars
<1>2. CASE Remount
  <2>1. mount' = manifest /\ UNCHANGED <<manifest, staged, pull, loop>>
    BY <1>2 DEF Remount
  <2> QED BY <1>0, <1>1, <2>1 DEF PullInv, PullTypeOK, ListingsTrue, PullsTrue, LoopsTrue, SetupTrue,
           SuccessIsStaged, Alive
<1>3. ASSUME NEW d \in Downloads, SpawnPull(d) PROVE PullInv'
  <2>1. Continues /\ loop'[d].at = "spawned" /\ \A e \in Downloads \ {d} : loop'[e] = loop[e]
    BY <1>0, <1>3, GoesContinues DEF SpawnPull
  <2>2. /\ pull' = [pull EXCEPT ![d].at = "spawned"] /\ UNCHANGED <<manifest, staged, mount>>
        /\ loop[d].at = "sent"
    BY <1>3 DEF SpawnPull
  <2>3. /\ pull' \in [Downloads -> PullRecords]
        /\ \A e \in Downloads : /\ pull'[e].mount = pull[e].mount
                                /\ e # d => pull'[e] = pull[e]
                                /\ pull'[d].at = "spawned"
    BY <1>0, <2>2 DEF PullRecords
  <2>4. PullTypeOK'
    BY <1>0, <1>1, <2>1, <2>2, <2>3 DEF PullTypeOK, Continues, PullRecords, PageRecords, LoopRecords,
       SetupRecords, Timers
  <2>5. ListingsTrue' /\ PullsTrue'
    BY <2>1, <2>2, <2>3 DEF PullInv, ListingsTrue, PullsTrue, Continues
  <2>6. LoopsTrue' /\ SetupTrue' /\ SuccessIsStaged'
    BY <1>1, <2>1, <2>2 DEF PullInv, LoopsTrue, SetupTrue, SuccessIsStaged, Alive, Continues
  <2> QED BY <2>4, <2>5, <2>6 DEF PullInv
<1>4. ASSUME NEW d \in Downloads, RegisterPending(d) PROVE PullInv'
  <2>1. Continues /\ loop'[d].at = "answered" /\ \A e \in Downloads \ {d} : loop'[e] = loop[e]
    BY <1>0, <1>4, GoesContinues DEF RegisterPending
  <2>2. UNCHANGED <<pull, staged>> /\ loop[d].at = "spawned" /\ loop[d].tag \in Tags
    BY <1>4 DEF RegisterPending, PullInv, PullsTrue
  <2>3. /\ mount' \in Listings /\ manifest' \in Listings
        /\ \A t \in Tags : mount'[t] = "available" \/ manifest'[t] = "available"
                             => mount[t] = "available" \/ manifest[t] = "available"
    BY <1>0, <1>4, <2>2 DEF RegisterPending, Listings
  <2>4. PullTypeOK'
    BY <1>0, <1>1, <2>1, <2>2, <2>3 DEF PullTypeOK, Continues, PullRecords, PageRecords, LoopRecords,
       SetupRecords, Timers
  <2>5. ListingsTrue' /\ PullsTrue'
    BY <2>1, <2>2, <2>3 DEF PullInv, ListingsTrue, PullsTrue, Continues
  <2>6. LoopsTrue' /\ SetupTrue' /\ SuccessIsStaged'
    BY <1>1, <2>1, <2>2 DEF PullInv, LoopsTrue, SetupTrue, SuccessIsStaged, Alive, Continues
  <2> QED BY <2>4, <2>5, <2>6 DEF PullInv
<1>5. ASSUME NEW d \in Downloads, JobStep(d) \/ PullFails(d) PROVE PullInv'
  <2>1. UNCHANGED <<mount, loop>> /\ staged \subseteq staged'
    BY <1>5 DEF JobStep, PullFails, StartPull, StagePull, MarkAvailable
  <2>2. pull[d].at # "none" /\ loop[d].at # "none" /\ loop[d].tag \in Tags
    BY <1>5 DEF JobStep, PullFails, StartPull, StagePull, MarkAvailable, PullInv, PullsTrue
  <2>3. staged' \subseteq Tags
    BY <1>0, <1>5, <2>2 DEF JobStep, PullFails, StartPull, StagePull, MarkAvailable
  <2>4. /\ manifest' \in Listings
        /\ \A t \in Tags : t \notin staged' => manifest'[t] # "available"
        /\ \E r \in PullRecords :
             /\ pull' = [pull EXCEPT ![d] = r] /\ r.at # "none"
             /\ r.at = "staged" => loop[d].tag \in staged'
             /\ \A t \in Tags : t \notin staged' => r.mount[t] # "available"
    <3>1. CASE StartPull(d)
      <4>1. PICK m \in {manifest} \cup {pull[e].mount : e \in {x \in Downloads : pull[x].at = "over"}} :
              pull' = [pull EXCEPT ![d] = [at |-> "pulling", mount |-> m]]
        BY <3>1 DEF StartPull
      <4>2. m \in Listings /\ \A t \in Tags : t \notin staged => m[t] # "available"
        BY <1>0 DEF PullInv, ListingsTrue, PullRecords
      <4>3. [at |-> "pulling", mount |-> m] \in PullRecords
        BY <4>2 DEF PullRecords
      <4>4. UNCHANGED <<manifest, staged>>
        BY <3>1 DEF StartPull
      <4> QED BY <1>0, <4>1, <4>2, <4>3, <4>4 DEF PullInv, ListingsTrue
    <3>2. CASE StagePull(d)
      <4>1. staged' = staged \cup {loop[d].tag} /\ manifest' = manifest
            /\ pull' = [pull EXCEPT ![d].at = "staged"]
        BY <3>2 DEF StagePull
      <4> DEFINE r == [pull[d] EXCEPT !.at = "staged"]
      <4>2. r \in PullRecords /\ r.at = "staged" /\ r.mount = pull[d].mount
        BY <1>0 DEF PullRecords
      <4>3. pull' = [pull EXCEPT ![d] = r]
        BY <1>0, <4>1
      <4> HIDE DEF r
      <4>4. /\ manifest' \in Listings
            /\ \A t \in Tags : t \notin staged' => manifest'[t] # "available" /\ r.mount[t] # "available"
        BY <1>0, <2>1, <4>1, <4>2 DEF PullInv, ListingsTrue
      <4>5. r.at = "staged" => loop[d].tag \in staged'
        BY <4>1, <4>2
      <4> QED BY <4>2, <4>3, <4>4, <4>5
    <3>3. CASE MarkAvailable(d)
      <4>1. /\ manifest' = [pull[d].mount EXCEPT ![loop[d].tag] = "available"]
            /\ pull' = [pull EXCEPT ![d] = [at |-> "over", mount |-> manifest']]
            /\ staged' = staged /\ pull[d].at = "staged"
        BY <3>3 DEF MarkAvailable
      <4>2. pull[d].mount \in Listings /\ loop[d].tag \in staged
        BY <1>0, <4>1 DEF PullRecords, PullInv, PullsTrue
      <4>3. manifest' \in Listings
        BY <2>2, <4>1, <4>2 DEF Listings
      <4>4. \A t \in Tags : t \notin staged => manifest'[t] # "available"
        BY <4>1, <4>2 DEF PullInv, ListingsTrue, Listings
      <4>5. [at |-> "over", mount |-> manifest'] \in PullRecords
        BY <4>3 DEF PullRecords
      <4> QED BY <4>1, <4>3, <4>4, <4>5
    <3>4. CASE PullFails(d)
      <4>1. UNCHANGED <<manifest, staged>> /\ pull' = [pull EXCEPT ![d].at = "over"]
        BY <3>4 DEF PullFails
      <4> DEFINE r == [pull[d] EXCEPT !.at = "over"]
      <4>2. r \in PullRecords /\ r.at = "over" /\ r.mount = pull[d].mount
        BY <1>0 DEF PullRecords
      <4>3. pull' = [pull EXCEPT ![d] = r]
        BY <1>0, <4>1
      <4> HIDE DEF r
      <4>4. /\ manifest' \in Listings
            /\ \A t \in Tags : t \notin staged' => manifest'[t] # "available" /\ r.mount[t] # "available"
        BY <1>0, <2>1, <4>1, <4>2 DEF PullInv, ListingsTrue
      <4>5. r.at = "staged" => loop[d].tag \in staged'
        BY <4>1, <4>2
      <4> QED BY <4>2, <4>3, <4>4, <4>5
    <3> QED BY <1>5, <3>1, <3>2, <3>3, <3>4 DEF JobStep
  <2>5. PICK r \in PullRecords :
             /\ pull' = [pull EXCEPT ![d] = r] /\ r.at # "none"
             /\ r.at = "staged" => loop[d].tag \in staged'
             /\ \A t \in Tags : t \notin staged' => r.mount[t] # "available"
    BY <2>4
  <2>6. /\ pull' \in [Downloads -> PullRecords] /\ pull'[d] = r
        /\ \A e \in Downloads \ {d} : pull'[e] = pull[e]
    BY <1>0, <2>5
  <2>7. PullTypeOK'
    BY <1>0, <1>1, <2>1, <2>3, <2>4, <2>6 DEF PullTypeOK, PullRecords, PageRecords, LoopRecords,
       SetupRecords, Timers
  <2>8. ListingsTrue' /\ PullsTrue'
    BY <2>1, <2>2, <2>4, <2>5, <2>6 DEF PullInv, ListingsTrue, PullsTrue
  <2>9. LoopsTrue' /\ SetupTrue' /\ SuccessIsStaged'
    BY <1>1, <2>1 DEF PullInv, LoopsTrue, SetupTrue, SuccessIsStaged, Alive
  <2> QED BY <2>7, <2>8, <2>9 DEF PullInv
<1> QED BY <1>2, <1>3, <1>4, <1>5 DEF RouteStep

-----------------------------------------------------------------------------
\* A new request is for a tag; when other downloads of the page are alive, the page
\* is said to be crossed.
LEMMA AsksStep ==
  ASSUME PullInv, NEW d \in Downloads,
         (\E t \in Tags : Download(d, t)) \/ SetupPulls(d)
  PROVE  PullInv'
<1>0. /\ manifest \in Listings /\ mount \in Listings /\ staged \subseteq Tags
      /\ pull \in [Downloads -> PullRecords] /\ page \in PageRecords
      /\ loop \in [Downloads -> LoopRecords] /\ setup \in SetupRecords /\ timer \in Timers
  BY PullTypes DEF PullInv
<1>1. UNCHANGED <<manifest, staged, mount, pull, timer>> /\ loop[d].at = "none"
  BY DEF Download, SetupPulls, Volume, Others, Unused
<1> DEFINE Asks(t, b) ==
             /\ loop' = [loop EXCEPT ![d] = [at |-> "sent", tag |-> t, page |-> b]]
             /\ IF b THEN /\ page' \in PageRecords /\ page'.tag = t /\ page'.status = "pulling"
                          /\ (\E e \in Downloads : Alive(e)) => page'.crossed
                ELSE page' = page
             /\ setup' \in SetupRecords
             /\ setup'.at # "idle" => setup'.tag \in Tags
             /\ setup'.at = "ready" => setup' = setup
<1>2. \E t \in Tags, b \in BOOLEAN : Asks(t, b)
  <2>1. ASSUME NEW t \in Tags, Download(d, t)
        PROVE  /\ loop' = [loop EXCEPT ![d] = [at |-> "sent", tag |-> t, page |-> TRUE]]
               /\ page' = [status |-> "pulling", tag |-> t, crossed |-> \E e \in Downloads : Alive(e)]
               /\ setup' = setup
    BY <2>1 DEF Download, Volume
  <2>2. CASE SetupPulls(d)
    <3>1. /\ loop' = [loop EXCEPT ![d] = [at |-> "sent", tag |-> setup.tag, page |-> FALSE]]
          /\ page' = page /\ setup.at = "pull" /\ Setup("pulling")
      BY <2>2 DEF SetupPulls, Others
    <3>2. setup.tag \in Tags
      BY <3>1 DEF PullInv, SetupTrue
    <3>3. setup' \in SetupRecords /\ setup'.tag = setup.tag /\ setup'.at = "pulling"
      BY <1>0, <3>1, PullAssumption, SetupMoves
    <3>4. Asks(setup.tag, FALSE)
      BY <3>1, <3>2, <3>3
    <3> QED BY <3>2, <3>4
  <2>3. ASSUME NEW t \in Tags, Download(d, t) PROVE Asks(t, TRUE)
    <3>1. /\ page'.tag = t /\ page'.status = "pulling" /\ page' \in PageRecords
          /\ (\E e \in Downloads : Alive(e)) => page'.crossed
      <4> DEFINE c == \E e \in Downloads : Alive(e)
      <4>1. c \in BOOLEAN /\ page' = [status |-> "pulling", tag |-> t, crossed |-> c]
        BY <2>1, <2>3
      <4> HIDE DEF c
      <4>2. page' \in PageRecords /\ page'.tag = t /\ page'.status = "pulling" /\ page'.crossed = c
        BY <4>1 DEF PageRecords
      <4> QED BY <4>2 DEF c
    <3>2. setup'.at # "idle" => setup'.tag \in Tags
      BY <2>1, <2>3 DEF PullInv, SetupTrue
    <3> QED BY <1>0, <2>1, <2>3, <3>1, <3>2
  <2> HIDE DEF Asks
  <2> QED BY <2>2, <2>3
<1>3. PICK t \in Tags, b \in BOOLEAN : Asks(t, b)
  BY <1>2
<1>4. /\ loop' \in [Downloads -> LoopRecords]
      /\ loop'[d] = [at |-> "sent", tag |-> t, page |-> b]
      /\ \A e \in Downloads \ {d} : loop'[e] = loop[e]
  BY <1>0, <1>3 DEF LoopRecords
<1>5. PullTypeOK'
  BY <1>0, <1>1, <1>3, <1>4 DEF PullTypeOK, PullRecords, PageRecords, LoopRecords,
       SetupRecords, Timers
<1>6. ListingsTrue'
  BY <1>1 DEF PullInv, ListingsTrue
<1>7. PullsTrue'
  BY <1>1, <1>4 DEF PullInv, PullsTrue
<1>8. LoopsTrue'
  BY <1>1, <1>3, <1>4 DEF PullInv, LoopsTrue, Alive
<1>9. SetupTrue' /\ SuccessIsStaged'
  BY <1>1, <1>3 DEF PullInv, SetupTrue, SuccessIsStaged
<1> QED BY <1>5, <1>6, <1>7, <1>8, <1>9 DEF PullInv

\* The page polls, and says what it found.
LEMMA PageStep ==
  ASSUME PullInv,
         \/ \E d \in Downloads : PollStep(d) \/ DownloadFails(d) \/ ListFails(d)
         \/ ResetStatus
  PROVE  PullInv'
<1>0. /\ manifest \in Listings /\ mount \in Listings /\ staged \subseteq Tags
      /\ pull \in [Downloads -> PullRecords] /\ page \in PageRecords
      /\ loop \in [Downloads -> LoopRecords] /\ setup \in SetupRecords /\ timer \in Timers
  BY PullTypes DEF PullInv
<1>1. UNCHANGED <<manifest, staged, mount, pull, setup>>
  BY DEF PollStep, DownloadFails, ListFails, ResetStatus, Volume, PageVars, SchedulePoll, PollTimesOut,
         PollEnds, PollList, ListAnswers, ShowSuccess, PollAgain
<1>2. SetupTrue' /\ setup' \in SetupRecords /\ (setup'.at = "ready" => setup'.tag \in staged)
  BY <1>0, <1>1 DEF PullInv, SetupTrue, SuccessIsStaged
<1>3. CASE ResetStatus
  <2>1. /\ page' = [status |-> "idle", tag |-> NoTag, crossed |-> \E d \in Downloads : Alive(d)]
        /\ UNCHANGED <<loop, timer>>
    BY <1>3 DEF ResetStatus
  <2>2. page' \in PageRecords /\ page'.status = "idle" /\ (page'.crossed <=> \E d \in Downloads : Alive(d))
    BY <2>1 DEF PageRecords
  <2>3. Continues
    BY <1>0, <2>1 DEF Continues
  <2>4. \A d \in Downloads : /\ loop'[d].at = "ready" => loop[d].tag \in staged
                             /\ loop'[d].at \in {"timer", "asked", "ready", "waiting"} => loop[d].page
    BY <2>1 DEF PullInv, LoopsTrue
  <2> QED BY <1>0, <1>1, <1>2, <2>1, <2>2, <2>3, <2>4, PagesTrue
<1>4. ASSUME NEW d \in Downloads, NEW status \in {"timeout", "error", "success"},
             loop[d].at \notin {"none", "over"}, ClearPoll(d, "over"), Shows(status),
             status = "success" => Alive(d) /\ loop[d].tag \in staged
      PROVE  PullInv'
  <2>1. /\ Continues /\ timer' \in Timers
        /\ \A e \in Downloads : loop'[e] = loop[e] \/ loop'[e].at = "over"
    BY <1>0, <1>4, PullAssumption, ClearContinues
  <2>2. /\ page' \in PageRecords /\ page'.status = status /\ page'.tag = page.tag
        /\ page'.crossed = page.crossed
    BY <1>0, <1>4 DEF Shows, PageRecords
  <2>3. \A e \in Downloads : /\ loop'[e].at = "ready" => loop[e].tag \in staged
                             /\ loop'[e].at \in {"timer", "asked", "ready", "waiting"} => loop[e].page
    BY <2>1 DEF PullInv, LoopsTrue
  <2>4. status = "success" => page.tag \in staged \/ page.crossed
    BY <1>4 DEF PullInv, LoopsTrue
  <2> QED BY <1>1, <1>2, <2>1, <2>2, <2>3, <2>4, PagesTrue
<1>5. ASSUME NEW d \in Downloads, NEW at \in {"timer", "asked", "ready", "waiting", "over"},
             loop[d].at \notin {"none", "over"}, Goes(d, at), page' = page, timer' \in Timers,
             at \in {"timer", "asked", "ready", "waiting"} => loop[d].page,
             at = "ready" => loop[d].tag \in staged
      PROVE  PullInv'
  <2>1. Continues /\ loop'[d].at = at /\ \A e \in Downloads \ {d} : loop'[e] = loop[e]
    BY <1>0, <1>5, GoesContinues
  <2>2. \A e \in Downloads : /\ loop'[e].at = "ready" => loop[e].tag \in staged
                             /\ loop'[e].at \in {"timer", "asked", "ready", "waiting"} => loop[e].page
    BY <1>5, <2>1 DEF PullInv, LoopsTrue
  <2> QED BY <1>0, <1>1, <1>2, <1>5, <2>1, <2>2, PagesTrue DEF PullInv, SuccessIsStaged
<1>6. ASSUME NEW d \in Downloads, DownloadFails(d) \/ PollTimesOut(d) \/ ListFails(d) PROVE PullInv'
  <2>1. ClearPoll(d, "over") /\ loop[d].at \notin {"none", "over"}
        /\ \E status \in {"timeout", "error"} : Shows(status)
    BY <1>6 DEF DownloadFails, PollTimesOut, ListFails
  <2> QED BY <1>4, <2>1
<1>7. ASSUME NEW d \in Downloads, ShowSuccess(d) PROVE PullInv'
  <2>1. ClearPoll(d, "over") /\ loop[d].at = "ready" /\ Shows("success")
    BY <1>7 DEF ShowSuccess
  <2>2. Alive(d) /\ loop[d].tag \in staged
    BY <2>1 DEF PullInv, LoopsTrue, Alive
  <2> QED BY <1>4, <2>1, <2>2
<1>8. ASSUME NEW d \in Downloads, PollEnds(d) PROVE PullInv'
  <2>1. Goes(d, "over") /\ loop[d].at = "timer" /\ page' = page /\ timer' = timer
    BY <1>8 DEF PollEnds, PageVars
  <2> QED BY <1>0, <1>5, <2>1
<1>9. ASSUME NEW d \in Downloads, PollList(d) PROVE PullInv'
  <2>1. /\ Goes(d, "asked") /\ loop[d].at = "timer" /\ page' = page
        /\ timer' = [timer EXCEPT !.polls = @ + 1] /\ timer.polls < MaxPolls
    BY <1>9 DEF PollList
  <2>2. timer' \in Timers
    BY <1>0, <2>1, PullAssumption DEF Timers
  <2>3. loop[d].page
    BY <2>1 DEF PullInv, LoopsTrue
  <2> QED BY <1>5, <2>1, <2>2, <2>3
<1>10. ASSUME NEW d \in Downloads, ListAnswers(d) PROVE PullInv'
  <2>1. /\ loop[d].at = "asked" /\ page' = page /\ timer' = timer
        /\ Goes(d, IF mount[loop[d].tag] = "available" THEN "ready" ELSE "waiting")
    BY <1>10 DEF ListAnswers, PageVars
  <2>2. loop[d].page /\ loop[d].tag \in Tags
    BY <2>1 DEF PullInv, LoopsTrue, PullsTrue
  <2>3. mount[loop[d].tag] = "available" => loop[d].tag \in staged
    BY <2>2 DEF PullInv, ListingsTrue
  <2> QED BY <1>0, <1>5, <2>1, <2>2, <2>3
<1>11. ASSUME NEW d \in Downloads, PollAgain(d) PROVE PullInv'
  <2>1. /\ loop[d].at = "waiting" /\ Goes(d, "timer") /\ timer' = [timer EXCEPT !.of = d]
        /\ page' = page
    BY <1>11 DEF PollAgain
  <2>2. timer' \in Timers
    BY <1>0, <2>1, PullAssumption DEF Timers, Downloads
  <2>3. loop[d].page
    BY <2>1 DEF PullInv, LoopsTrue
  <2> QED BY <1>5, <2>1, <2>2, <2>3
<1>12. ASSUME NEW d \in Downloads, SchedulePoll(d) PROVE PullInv'
  <2> DEFINE cleared == [e \in Downloads |-> IF e = timer.of /\ loop[e].at = "timer"
                                             THEN [loop[e] EXCEPT !.at = "over"] ELSE loop[e]]
  <2>1. /\ loop' = [cleared EXCEPT ![d].at = "timer"] /\ timer' = [of |-> d, on |-> TRUE, polls |-> 0]
        /\ page' = page /\ loop[d].page /\ loop[d].at = "answered"
    BY <1>12 DEF SchedulePoll
  <2>2. timer' \in Timers
    BY <2>1, PullAssumption DEF Timers, Downloads
  <2>3. ASSUME NEW e \in Downloads
        PROVE  /\ cleared[e] \in LoopRecords
               /\ cleared[e].tag = loop[e].tag /\ cleared[e].page = loop[e].page
               /\ cleared[e].at = "none" <=> loop[e].at = "none"
               /\ loop[e].at = "over" => cleared[e].at = "over"
               /\ cleared[e] = loop[e] \/ cleared[e].at = "over"
    <3>1. (cleared[e] = [loop[e] EXCEPT !.at = "over"] /\ loop[e].at # "none") \/ cleared[e] = loop[e]
      OBVIOUS
    <3>2. loop[e] \in LoopRecords
      BY <1>0
    <3> HIDE DEF cleared
    <3> QED BY <3>1, <3>2 DEF LoopRecords
  <2>4. cleared \in [Downloads -> LoopRecords]
    BY <2>3
  <2>5. cleared[d] = loop[d]
    BY <2>1, <2>3
  <2> HIDE DEF cleared
  <2>6. /\ loop' \in [Downloads -> LoopRecords] /\ loop'[d].at = "timer"
        /\ loop'[d].tag = loop[d].tag /\ loop'[d].page = loop[d].page
        /\ \A e \in Downloads \ {d} : loop'[e] = cleared[e]
    BY <2>1, <2>4, <2>5 DEF LoopRecords
  <2>7. Continues
    BY <2>1, <2>3, <2>6 DEF Continues
  <2>8. \A e \in Downloads : /\ loop'[e].at = "ready" => loop[e].tag \in staged
                             /\ loop'[e].at \in {"timer", "asked", "ready", "waiting"} => loop[e].page
    BY <2>1, <2>3, <2>6 DEF PullInv, LoopsTrue
  <2> QED BY <1>0, <1>1, <1>2, <2>1, <2>2, <2>7, <2>8, PagesTrue DEF PullInv, SuccessIsStaged
<1> QED BY <1>3, <1>6, <1>7, <1>8, <1>9, <1>10, <1>11, <1>12 DEF PollStep

\* The script only goes on to warm a model that it found listed.
LEMMA ScriptStep ==
  ASSUME PullInv, SetupStep \/ SetupRaises \/ \E t \in Tags : StartSetup(t)
  PROVE  PullInv'
<1>0. /\ manifest \in Listings /\ mount \in Listings /\ staged \subseteq Tags
      /\ pull \in [Downloads -> PullRecords] /\ page \in PageRecords
      /\ loop \in [Downloads -> LoopRecords] /\ setup \in SetupRecords /\ timer \in Timers
  BY PullTypes DEF PullInv
<1>1. UNCHANGED <<manifest, staged, mount, page, timer, pull>>
  BY DEF SetupStep, SetupRaises, StartSetup, SetupPolls, SetupChecks, PullAccepted, Others
<1> DEFINE Kept == Continues /\ \A d \in Downloads : loop'[d] = loop[d] \/ loop'[d].at = "over"
<1>2. Kept
  <2>1. CASE loop' = loop
    BY <1>0, <2>1 DEF Continues
  <2>2. ASSUME NEW d \in Downloads, PullAccepted(d) PROVE Kept
    <3>1. Goes(d, "over") /\ loop[d].at = "answered"
      BY <2>2 DEF PullAccepted
    <3> QED BY <1>0, <3>1, GoesContinues
  <2>3. CASE SetupRaises
    <3>1. loop' = [d \in Downloads |-> IF loop[d].page \/ loop[d].at \notin {"sent", "answered"}
                                       THEN loop[d] ELSE [loop[d] EXCEPT !.at = "over"]]
      BY <2>3 DEF SetupRaises
    <3>2. ASSUME NEW e \in Downloads
          PROVE  /\ loop'[e] \in LoopRecords
                 /\ loop'[e].tag = loop[e].tag /\ loop'[e].page = loop[e].page
                 /\ loop'[e].at = "none" <=> loop[e].at = "none"
                 /\ loop[e].at = "over" => loop'[e].at = "over"
                 /\ loop'[e] = loop[e] \/ loop'[e].at = "over"
      <4>1. (loop'[e] = [loop[e] EXCEPT !.at = "over"] /\ loop[e].at # "none") \/ loop'[e] = loop[e]
        BY <3>1
      <4>2. loop[e] \in LoopRecords
        BY <1>0
      <4> QED BY <4>1, <4>2 DEF LoopRecords
    <3> QED BY <3>1, <3>2 DEF Continues
  <2> QED BY <2>1, <2>2, <2>3 DEF SetupStep, StartSetup, SetupPolls, SetupChecks
<1> DEFINE Sound == /\ setup' \in SetupRecords
                    /\ setup'.at # "idle" => setup'.tag \in Tags
                    /\ setup'.at = "ready" => setup'.tag \in staged
<1>3. Sound
  <2>1. ASSUME NEW at \in {"idle", "pulling", "wait", "check", "ready"}, Setup(at),
               setup.at # "idle", at = "ready" => setup.tag \in staged
        PROVE  Sound
    <3>1. CASE at = "idle"
      BY <2>1, <3>1, PullAssumption DEF Setup, NoSetup, SetupRecords, SetupTrue
    <3>2. CASE at # "idle"
      <4>1. setup' \in SetupRecords /\ setup'.at = at /\ setup'.tag = setup.tag
        BY <1>0, <2>1, <3>2, PullAssumption, SetupMoves
      <4> QED BY <2>1, <4>1 DEF PullInv, SetupTrue
    <3> QED BY <3>1, <3>2
  <2>2. \A t \in Tags : Listed(t) => t \in staged
    BY DEF PullInv, ListingsTrue, Listed
  <2>3. ASSUME NEW t \in Tags, StartSetup(t) PROVE Sound
    <3>1. setup' = [at |-> IF Listed(t) THEN "check" ELSE "pull", tag |-> t, polls |-> 0]
      BY <2>3 DEF StartSetup
    <3> QED BY <3>1, PullAssumption DEF SetupRecords, SetupTrue
  <2>4. CASE SetupPolls
    <3>1. CASE setup' = [setup EXCEPT !.polls = @ + 1] /\ setup.polls # MaxPolls
      <4>1. setup' \in SetupRecords /\ setup'.at = setup.at /\ setup'.tag = setup.tag
        BY <1>0, <3>1, PullAssumption DEF SetupRecords
      <4> QED BY <4>1 DEF PullInv, SetupTrue, SuccessIsStaged
    <3>2. CASE Setup("check") \/ Setup("idle")
      BY <2>1, <2>4, <3>2 DEF SetupPolls
    <3> QED BY <2>4, <3>1, <3>2 DEF SetupPolls
  <2>5. CASE SetupChecks
    <3>1. setup.at = "check" /\ setup.tag \in Tags
      BY <2>5 DEF SetupChecks, PullInv, SetupTrue
    <3> QED BY <2>1, <2>2, <2>5, <3>1 DEF SetupChecks
  <2>6. ASSUME NEW d \in Downloads, PullAccepted(d) PROVE Sound
    BY <2>1, <2>6 DEF PullAccepted
  <2>7. CASE SetupRaises
    BY <2>1, <2>7 DEF SetupRaises
  <2> QED BY <2>3, <2>4, <2>5, <2>6, <2>7 DEF SetupStep
<1>4. \A d \in Downloads : /\ loop'[d].at = "ready" => loop[d].tag \in staged
                           /\ loop'[d].at \in {"timer", "asked", "ready", "waiting"} => loop[d].page
  BY <1>2 DEF PullInv, LoopsTrue
<1> QED BY <1>0, <1>1, <1>2, <1>3, <1>4, PagesTrue DEF PullInv, SuccessIsStaged, SetupTrue

LEMMA PullNextInv == PullInv /\ [PullNext]_pullVars => PullInv'
<1> SUFFICES ASSUME PullInv, [PullNext]_pullVars PROVE PullInv'
  OBVIOUS
<1>1. CASE UNCHANGED pullVars
  BY <1>1 DEF pullVars, PullInv, PullTypeOK, ListingsTrue, PullsTrue, LoopsTrue, SetupTrue,
              SuccessIsStaged, Alive
<1>2. CASE PullNext
  BY <1>2, VolumeStep, AsksStep, PageStep, ScriptStep DEF PullNext
<1> QED BY <1>1, <1>2

\* Whatever copy of the manifest lists a model as available, the model is on the volume,
\* and a poll that has seen it listed is for that model.  Code: manifest.py, use-model-pull.
THEOREM PullInvariant == PullSpec => []PullInv
BY PullInitInv, PullNextInv, PTL DEF PullSpec

\* The page reports success, unless two downloads crossed, and the script goes on to
\* warm a model, only when the model is on the volume, for any number of downloads.
THEOREM SuccessMeansStaged == PullSpec => []SuccessIsStaged
BY PullInvariant, PTL DEF PullInv

-----------------------------------------------------------------------------
(***************************************************************************)
(* One call at a time is served, the container is up while it is, and from *)
(* the moment a model is being loaded for it the engine holds the model it *)
(* asked for, with the adapter the container was started with.  What is    *)
(* left of a generate in the engine is of a call that raised.              *)
(***************************************************************************)
ModelOf(c) == IF role = "playground" THEN call[c].model ELSE Pinned

EngineServes ==
  /\ \A c, d \in Calls : Busy(c) /\ Busy(d) => c = d
  /\ \A c \in Calls : Busy(c) => gpu.up
  /\ role # "playground" => gpu.arg = NoArg
  /\ gpu.llm => gpu.lora = gpu.pin
  /\ gpu.keyed => gpu.llm
  /\ \A c \in Calls : call[c].at \in {"load", "warm", "run", "stream"} => gpu.arg.tag = ModelOf(c)
  /\ \A c \in Calls : call[c].at \in {"warm", "run", "stream"} => gpu.llm
  /\ \A r \in gpu.requests : r.no > 0 => call[r.of].at = "raised"

EngineInv == EngineTypeOK /\ EngineServes

CallRecords == [at : {"none", "ensure", "load", "warm", "run", "stream", "over", "raised"},
                kind : {"complete", "stream", "warm"}, model : Models]
Engines == [up : BOOLEAN, pin : MaybeAdapter, llm : BOOLEAN, arg : Args, lora : MaybeAdapter,
            keyed : BOOLEAN, count : Nat, requests : SUBSET EngineRequests]

\* A call that goes on is the same call, and the others stay where they are.
LEMMA TurnsOne ==
  ASSUME call \in [Calls -> CallRecords], NEW c \in Calls,
         NEW at \in {"none", "ensure", "load", "warm", "run", "stream", "over", "raised"},
         Turns(c, at)
  PROVE  /\ call' \in [Calls -> CallRecords]
         /\ call'[c].at = at
         /\ \A d \in Calls : /\ call'[d].model = call[d].model
                             /\ call'[d].kind = call[d].kind
                             /\ d # c => call'[d] = call[d]
BY DEF Turns, CallRecords

\* What is loaded for a call is the model it asked for.
LEMMA ResolvedTag ==
  ASSUME EngineTypeOK, NEW c \in Calls
  PROVE  /\ Resolved(call[c].model) \in Args
         /\ Resolved(call[c].model).tag = ModelOf(c)
         /\ role # "playground" => Resolved(call[c].model) = NoArg
BY EngineAssumption DEF Resolved, Reloads, ModelOf, NoArg, Args, EngineTypeOK

LEMMA DownIsEngine == /\ Down \in Engines /\ Down.arg = NoArg /\ ~Down.llm /\ ~Down.keyed
                      /\ Down.requests = {}
BY EngineAssumption DEF Down, Engines, NoArg, Args, MaybeAdapter

LEMMA EngineInitInv == EngineInit => EngineInv
<1> SUFFICES ASSUME EngineInit PROVE EngineInv
  OBVIOUS
<1>1. gpu \in Engines /\ gpu.arg = NoArg /\ ~gpu.llm /\ ~gpu.keyed /\ gpu.requests = {}
  BY DownIsEngine DEF EngineInit
<1>2. \A c \in Calls : call[c] = [at |-> "none", kind |-> "warm", model |-> Pinned]
  BY DEF EngineInit
<1>3. EngineTypeOK
  BY <1>1, EngineAssumption DEF EngineInit, EngineTypeOK, Engines, MaybeAdapter
<1>4. EngineServes
  BY <1>1, <1>2 DEF EngineServes, Busy
<1> QED BY <1>3, <1>4 DEF EngineInv

\* The container comes up without a call, and goes with the call it serves.
LEMMA ContainerStep ==
  ASSUME EngineInv, Boot \/ Exit
  PROVE  EngineInv'
<1>1. CASE Boot
  <2>1. UNCHANGED <<role, pin, intact, repos, call, text>> /\ ~gpu.up
    BY <1>1 DEF Boot, Volumes
  <2>2. \A c \in Calls : ~Busy(c)
    BY <2>1 DEF EngineInv, EngineServes
  <2>3. /\ gpu' \in Engines /\ gpu'.arg = NoArg /\ gpu'.requests = {}
        /\ gpu'.llm => gpu'.lora = gpu'.pin
        /\ gpu'.keyed => gpu'.llm
    <3>1. Down.requests = {} /\ pin \in MaybeAdapter /\ Down \in Engines /\ Down.arg = NoArg
      BY DownIsEngine DEF EngineInv, EngineTypeOK
    <3> QED BY <1>1, <3>1, DownIsEngine DEF Boot, Engines
  <2>4. EngineTypeOK'
    BY <2>1, <2>3 DEF EngineInv, EngineTypeOK, Engines
  <2>5. \A c \in Calls : call'[c].at \in {"none", "over", "raised"}
    BY <2>1, <2>2 DEF Busy
  <2>6. EngineServes'
    BY <2>3, <2>5, Zenon DEF EngineServes, Busy
  <2> QED BY <2>4, <2>6 DEF EngineInv
<1>2. CASE Exit
  <2>1. UNCHANGED <<role, pin, intact, repos, text>> /\ gpu' = Down
    BY <1>2 DEF Exit, Volumes
  <2>2. \A c \in Calls : call'[c] = IF Busy(c) THEN [call[c] EXCEPT !.at = "over"] ELSE call[c]
    BY <1>2 DEF Exit
  <2>3. \A c \in Calls : call'[c] \in CallRecords /\ call'[c].at \in {"none", "over", "raised"}
    BY <2>2 DEF EngineInv, EngineTypeOK, CallRecords, Busy
  <2>4. call' \in [Calls -> CallRecords]
    BY <1>2, <2>3 DEF Exit
  <2>5. EngineTypeOK'
    BY <2>1, <2>4, DownIsEngine DEF EngineInv, EngineTypeOK, Engines, CallRecords
  <2>6. EngineServes'
    BY <2>1, <2>3, DownIsEngine DEF EngineServes, Busy
  <2> QED BY <2>5, <2>6 DEF EngineInv
<1> QED BY <1>1, <1>2

\* Operators change what containers to come will find, not the one there is.
LEMMA OperatorStep ==
  ASSUME EngineInv,
         \/ \E a \in MaybeAdapter : Promote(a)
         \/ \E a \in Adapters : ReplaceAdapter(a)
         \/ \E m \in Models \ {Pinned} : StageModel(m)
  PROVE  EngineInv'
<1>1. UNCHANGED <<role, gpu, call, text>>
  BY DEF Promote, ReplaceAdapter, StageModel
<1>2. pin' \in MaybeAdapter /\ intact' \subseteq Adapters /\ repos' \subseteq Models
  BY DEF Promote, ReplaceAdapter, StageModel, EngineInv, EngineTypeOK
<1>3. EngineTypeOK'
  BY <1>1, <1>2 DEF EngineInv, EngineTypeOK
<1>4. EngineServes'
  BY <1>1 DEF EngineInv, EngineServes, Busy, ModelOf
<1> QED BY <1>3, <1>4 DEF EngineInv

\* A call begins when no other is served; it is loaded for, or it finds what it asked for.
LEMMA LoadStep ==
  ASSUME EngineInv, NEW c \in Calls, Take(c) \/ Ensure(c) \/ Load(c) \/ Warmed(c)
  PROVE  EngineInv'
<1> DEFINE Served == {"load", "warm", "run", "stream"}
<1>0. /\ call \in [Calls -> CallRecords] /\ gpu \in Engines /\ UNCHANGED <<role, pin, intact, repos, text>>
      /\ EngineTypeOK /\ EngineServes /\ \A r \in gpu.requests : r.of \in Calls
  BY DEF EngineInv, EngineTypeOK, CallRecords, Engines, EngineRequests, Take, Ensure, Load, Warmed,
         Volumes
<1>1. CASE Take(c)
  <2>1. PICK kind \in {"complete", "stream", "warm"}, m \in Models :
          call' = [call EXCEPT ![c] = [at |-> "ensure", kind |-> kind, model |-> m]]
    BY <1>1 DEF Take
  <2>2. /\ call' \in [Calls -> CallRecords] /\ call'[c].at = "ensure"
        /\ \A d \in Calls \ {c} : call'[d] = call[d]
    BY <1>0, <2>1 DEF CallRecords
  <2>3. gpu' = gpu /\ gpu.up /\ \A d \in Calls : ~Busy(d)
    BY <1>1 DEF Take
  <2>4. EngineTypeOK'
    BY <1>0, <2>2, <2>3 DEF EngineTypeOK, CallRecords
  <2>5. \A r \in gpu'.requests : r.no > 0 => call'[r.of].at = "raised"
    <3>1. call[c].at = "none"
      BY <1>1 DEF Take
    <3> QED BY <1>0, <2>2, <2>3, <3>1 DEF EngineServes
  <2>6. EngineServes'
    BY <1>0, <2>2, <2>3, <2>5 DEF EngineServes, Busy, ModelOf
  <2> QED BY <2>4, <2>6 DEF EngineInv
<1>2. CASE Ensure(c)
  <2>1. call[c].at = "ensure" /\ Ready(c) \in {"over", "run"}
    BY <1>2 DEF Ensure, Ready
  <2>2. CASE IsLoaded(c)
    <3>1. Turns(c, Ready(c)) /\ gpu' = gpu
      BY <1>2, <2>2 DEF Ensure
    <3>2. /\ call' \in [Calls -> CallRecords] /\ call'[c].at = Ready(c)
          /\ \A d \in Calls : call'[d].model = call[d].model /\ (d # c => call'[d] = call[d])
      BY <1>0, <2>1, <3>1, TurnsOne
    <3>3. gpu.llm /\ gpu.keyed /\ gpu.arg.tag = ModelOf(c)
      BY <1>0, <2>2, ResolvedTag DEF IsLoaded, EngineServes
    <3>4. EngineTypeOK'
      BY <1>0, <3>1, <3>2 DEF EngineTypeOK, CallRecords
    <3>5. EngineServes'
      BY <1>0, <2>1, <3>1, <3>2, <3>3 DEF EngineServes, Busy, ModelOf
    <3> QED BY <3>4, <3>5 DEF EngineInv
  <2>3. CASE ~IsLoaded(c)
    <3>1. /\ Turns(c, "load")
          /\ gpu' = [Down EXCEPT !.up = TRUE, !.pin = gpu.pin, !.arg = Resolved(call[c].model)]
      BY <1>2, <2>3 DEF Ensure
    <3>2. /\ call' \in [Calls -> CallRecords] /\ call'[c].at = "load"
          /\ \A d \in Calls : call'[d].model = call[d].model /\ (d # c => call'[d] = call[d])
      BY <1>0, <3>1, TurnsOne
    <3>3. /\ gpu' \in Engines /\ gpu'.up /\ ~gpu'.llm /\ ~gpu'.keyed
          /\ gpu'.arg = Resolved(call[c].model) /\ gpu'.requests = {}
      BY <1>0, <3>1, DownIsEngine, ResolvedTag DEF Engines
    <3>4. gpu'.arg.tag = ModelOf(c) /\ (role # "playground" => gpu'.arg = NoArg)
      BY <1>0, <3>3, ResolvedTag
    <3>5. \A d \in Calls : call'[d].at \in Served => d = c
      BY <1>0, <2>1, <3>2 DEF EngineServes, Busy
    <3>6. EngineTypeOK'
      BY <1>0, <3>2, <3>3 DEF EngineTypeOK, CallRecords, Engines
    <3>7. EngineServes'
      BY <1>0, <2>1, <3>2, <3>3, <3>4, <3>5 DEF EngineServes, Busy, ModelOf
    <3> QED BY <3>6, <3>7 DEF EngineInv
  <2> QED BY <2>2, <2>3
<1>3. CASE Load(c)
  <2>1. /\ Turns(c, "warm") /\ call[c].at = "load"
        /\ gpu' = [gpu EXCEPT !.llm = TRUE, !.lora = gpu.pin, !.keyed = TRUE]
    BY <1>3 DEF Load
  <2>2. /\ call' \in [Calls -> CallRecords] /\ call'[c].at = "warm"
        /\ \A d \in Calls : call'[d].model = call[d].model /\ (d # c => call'[d] = call[d])
    BY <1>0, <2>1, TurnsOne
  <2>3. /\ gpu' \in Engines /\ gpu'.llm /\ gpu'.lora = gpu'.pin
        /\ gpu'.up = gpu.up /\ gpu'.arg = gpu.arg /\ gpu'.requests = gpu.requests
    BY <1>0, <2>1 DEF Engines
  <2>4. EngineTypeOK'
    BY <1>0, <2>2, <2>3 DEF EngineTypeOK, CallRecords, Engines
  <2>5. EngineServes'
    BY <1>0, <2>1, <2>2, <2>3 DEF EngineServes, Busy, ModelOf
  <2> QED BY <2>4, <2>5 DEF EngineInv
<1>4. CASE Warmed(c)
  <2>1. /\ Turns(c, Ready(c)) /\ call[c].at = "warm" /\ Ready(c) \in {"over", "run"}
        /\ gpu' = [gpu EXCEPT !.count = @ + 1]
    BY <1>4 DEF Warmed, Ready
  <2>2. /\ call' \in [Calls -> CallRecords] /\ call'[c].at = Ready(c)
        /\ \A d \in Calls : call'[d].model = call[d].model /\ (d # c => call'[d] = call[d])
    BY <1>0, <2>1, TurnsOne
  <2>3. /\ gpu' \in Engines /\ gpu'.up = gpu.up /\ gpu'.pin = gpu.pin /\ gpu'.requests = gpu.requests
        /\ gpu'.llm = gpu.llm /\ gpu'.arg = gpu.arg /\ gpu'.lora = gpu.lora /\ gpu'.keyed = gpu.keyed
    BY <1>0, <2>1 DEF Engines
  <2>4. EngineTypeOK'
    BY <1>0, <2>2, <2>3 DEF EngineTypeOK, CallRecords, Engines
  <2>5. EngineServes'
    BY <1>0, <2>1, <2>2, <2>3 DEF EngineServes, Busy, ModelOf
  <2> QED BY <2>4, <2>5 DEF EngineInv
<1> QED BY <1>1, <1>2, <1>3, <1>4

\* Of the requests of generate in the engine the oldest is one of them.
LEMMA OldestIsThere ==
  ASSUME NEW rs \in SUBSET EngineRequests, rs # {}
  PROVE  Oldest(rs) \in rs
<1>1. {r.no : r \in rs} \in SUBSET Nat /\ {r.no : r \in rs} # {}
  BY DEF EngineRequests
<1>2. PICK n \in {r.no : r \in rs} : \A m \in {r.no : r \in rs} : n <= m
  BY <1>1, LeastNumber
<1>3. \E r \in rs : \A q \in rs : r.no <= q.no
  BY <1>2
<1> QED BY <1>3 DEF Oldest

\* A completion is given the text of its own request or of one a generate left when it
\* raised.
LEMMA GenerateGives ==
  ASSUME EngineInv, NEW c \in Calls, Generate(c)
  PROVE  \/ text' = text
         \/ \E d \in Calls : /\ Gives(c, {Output(d)})
                             /\ \/ d = c
                                \/ /\ call[d].at = "raised"
                                   /\ \E r \in gpu.requests : r.of = d /\ r.no > 0
<1> DEFINE There == gpu.requests \cup {Numbered(c)}
<1>1. gpu.requests \in SUBSET EngineRequests /\ gpu.count \in Nat
  BY DEF EngineInv, EngineTypeOK
<1>2. Numbered(c) \in EngineRequests
  BY <1>1 DEF Numbered, EngineRequests
<1>3. CASE Named = {}
  <2>1. PICK r \in There : r = Oldest(There)
    BY <1>1, <1>2, OldestIsThere
  <2>2. r.of \in Calls /\ Gives(c, {Output(r.of)})
    BY <1>1, <1>2, <1>3, <2>1 DEF Generate, EngineRequests
  <2>3. CASE r = Numbered(c)
    BY <2>2, <2>3 DEF Numbered
  <2>4. CASE r \in gpu.requests
    <3>1. r.no \in Nat /\ r.no # 0
      BY <1>1, <1>3, <2>4 DEF Named, EngineRequests
    <3>2. r.no > 0 /\ call[r.of].at = "raised"
      BY <2>4, <3>1 DEF EngineInv, EngineServes
    <3> QED BY <2>2, <2>4, <3>2
  <2> QED BY <2>1, <2>3, <2>4
<1>4. CASE Named # {}
  BY <1>4 DEF Generate
<1> QED BY <1>3, <1>4

\* While a call runs it only takes requests into the engine and out of it.
LEMMA RunStep ==
  ASSUME EngineInv, NEW c \in Calls,
         Raises(c) \/ Generate(c) \/ AddRequest(c) \/ EngineStep(c) \/ Leave(c)
  PROVE  /\ EngineInv'
         /\ \A e \in Calls : text'[e] # text[e] =>
              /\ e = c /\ call[c].at \in {"run", "stream"}
              /\ \E d \in Calls :
                   /\ text'[c] = {Output(d)}
                   /\ \/ d = c
                      \/ /\ call[c].kind = "complete" /\ call[d].at = "raised"
                         /\ \E r \in gpu.requests : r.of = d /\ r.no > 0
<1>0. /\ call \in [Calls -> CallRecords] /\ gpu \in Engines /\ UNCHANGED <<role, pin, intact, repos>>
      /\ EngineTypeOK /\ EngineServes /\ text \in [Calls -> SUBSET Outputs]
  BY DEF EngineInv, EngineTypeOK, CallRecords, Engines, Raises, Generate, AddRequest, EngineStep,
         Leave, Volumes
<1>1. call[c].at \in {"load", "warm", "run", "stream"}
  BY DEF Raises, Generate, AddRequest, EngineStep, Leave
<1>2. \A d \in Calls : Output(d) \in Outputs
  BY <1>0 DEF Output, Outputs, Engines, Args
<1>3. PICK at \in {"over", "stream", "raised"} :
        /\ Turns(c, at)
        /\ at = "stream" => call[c].at \in {"run", "stream"}
        /\ Raises(c) => at = "raised"
  BY DEF Raises, Generate, AddRequest, EngineStep, Leave
<1>4. /\ call' \in [Calls -> CallRecords] /\ call'[c].at = at
      /\ \A d \in Calls : call'[d].model = call[d].model /\ (d # c => call'[d] = call[d])
  BY <1>0, <1>3, TurnsOne
<1>5. \E rs \in SUBSET EngineRequests, n \in Nat :
        /\ gpu' = [gpu EXCEPT !.requests = rs, !.count = n]
        /\ \A r \in rs : r \in gpu.requests \/ r.no = 0 \/ (r.of = c /\ at = "raised")
  <2>0. gpu.requests \in SUBSET EngineRequests /\ gpu.count \in Nat /\ gpu.count + 1 \in Nat
    BY <1>0 DEF Engines
  <2> SUFFICES \E rs \in SUBSET EngineRequests, n \in {gpu.count, gpu.count + 1} :
                 /\ gpu' = [gpu EXCEPT !.requests = rs, !.count = n]
                 /\ \A r \in rs : r \in gpu.requests \/ r.no = 0 \/ (r.of = c /\ at = "raised")
    BY <2>0
  <2>1. CASE gpu' = gpu
    <3>1. gpu = [gpu EXCEPT !.requests = gpu.requests, !.count = gpu.count]
      BY <1>0 DEF Engines
    <3> QED BY <2>0, <2>1, <3>1
  <2>2. CASE Raises(c) /\ gpu' # gpu
    <3>1. PICK left \in SUBSET (gpu.requests \cup {Numbered(c)}) :
            gpu' = [gpu EXCEPT !.requests = left, !.count = gpu.count + 1]
      BY <2>2 DEF Raises
    <3>2. Numbered(c) \in EngineRequests /\ Numbered(c).of = c
      BY <2>0 DEF Numbered, EngineRequests
    <3>3. left \in SUBSET EngineRequests
      BY <2>0, <3>2
    <3>4. \A r \in left : r \in gpu.requests \/ (r.of = c /\ at = "raised")
      BY <1>3, <2>2, <3>2
    <3> QED BY <2>0, <3>1, <3>3, <3>4
  <2>3. CASE Generate(c)
    <3>1. gpu' = [gpu EXCEPT !.requests = {}, !.count = gpu.count + 1]
      BY <2>3 DEF Generate
    <3> WITNESS {} \in SUBSET EngineRequests, gpu.count + 1 \in {gpu.count, gpu.count + 1}
    <3> QED BY <3>1
  <2>4. CASE AddRequest(c)
    <3>1. gpu' = [gpu EXCEPT !.requests = gpu.requests \cup {Stream(c)}, !.count = gpu.count]
      BY <1>0, <2>4 DEF AddRequest, Engines
    <3>2. Stream(c) \in EngineRequests /\ Stream(c).no = 0
      BY DEF Stream, EngineRequests
    <3>3. gpu.requests \cup {Stream(c)} \in SUBSET EngineRequests
      BY <2>0, <3>2
    <3> WITNESS gpu.requests \cup {Stream(c)} \in SUBSET EngineRequests,
                gpu.count \in {gpu.count, gpu.count + 1}
    <3> QED BY <3>1, <3>2
  <2>5. CASE EngineStep(c)
    <3>0. PICK done : gpu' = [gpu EXCEPT !.requests = @ \ done]
      BY <2>5, Zenon DEF EngineStep
    <3>1. gpu' = [gpu EXCEPT !.requests = gpu.requests \ done, !.count = gpu.count]
      BY <1>0, <3>0 DEF Engines
    <3>2. gpu.requests \ done \in SUBSET EngineRequests
      BY <2>0
    <3> WITNESS gpu.requests \ done \in SUBSET EngineRequests,
                gpu.count \in {gpu.count, gpu.count + 1}
    <3> QED BY <3>1
  <2> QED BY <2>1, <2>2, <2>3, <2>4, <2>5 DEF Leave
<1>6. /\ gpu' \in Engines /\ gpu'.up = gpu.up /\ gpu'.pin = gpu.pin
      /\ gpu'.llm = gpu.llm /\ gpu'.arg = gpu.arg /\ gpu'.lora = gpu.lora /\ gpu'.keyed = gpu.keyed
      /\ \A r \in gpu'.requests : r \in gpu.requests \/ r.no = 0 \/ (r.of = c /\ at = "raised")
  BY <1>0, <1>5 DEF Engines
<1>7. \A r \in gpu'.requests : r.no > 0 => call'[r.of].at = "raised"
  <2> SUFFICES ASSUME NEW r \in gpu'.requests, r.no > 0 PROVE call'[r.of].at = "raised"
    OBVIOUS
  <2>1. r \in gpu.requests \/ (r.of = c /\ at = "raised")
    BY <1>6
  <2>2. r \in gpu.requests => call[r.of].at = "raised" /\ r.of \in Calls
    BY <1>0 DEF EngineServes, Engines, EngineRequests
  <2> QED BY <1>1, <1>4, <2>1, <2>2
<1>8. \/ text' = text
      \/ /\ call[c].at \in {"run", "stream"}
         /\ \E d \in Calls :
              /\ Gives(c, {Output(d)})
              /\ \/ d = c
                 \/ /\ call[c].kind = "complete" /\ call[d].at = "raised"
                    /\ \E r \in gpu.requests : r.of = d /\ r.no > 0
  <2>1. CASE Generate(c)
    BY <2>1, GenerateGives DEF Generate
  <2>2. CASE ~Generate(c)
    BY <2>2 DEF Raises, AddRequest, EngineStep, Leave
  <2> QED BY <2>1, <2>2
<1>9. text' \in [Calls -> SUBSET Outputs]
  BY <1>0, <1>2, <1>8 DEF Gives
<1>10. EngineTypeOK'
  BY <1>0, <1>4, <1>6, <1>9 DEF EngineTypeOK, CallRecords, Engines
<1>11. EngineServes'
  BY <1>0, <1>1, <1>3, <1>4, <1>6, <1>7 DEF EngineServes, Busy, ModelOf
<1>12. EngineInv'
  BY <1>10, <1>11 DEF EngineInv
<1>13. CASE text' = text
  BY <1>12, <1>13
<1>14. CASE text' # text
  <2>1. PICK d \in Calls :
          /\ Gives(c, {Output(d)})
          /\ \/ d = c
             \/ /\ call[c].kind = "complete" /\ call[d].at = "raised"
                /\ \E r \in gpu.requests : r.of = d /\ r.no > 0
    BY <1>8, <1>14
  <2>2. text'[c] = {Output(d)} /\ \A e \in Calls : text'[e] # text[e] => e = c
    BY <1>0, <2>1 DEF Gives
  <2> QED BY <1>8, <1>12, <1>14, <2>1, <2>2
<1> QED BY <1>13, <1>14

\* Every step keeps the invariant, and gives a caller only what it asked for, or what a
\* generate left behind that raised.
LEMMA EngineStepInv ==
  ASSUME EngineInv, [EngineNext]_engineVars
  PROVE  /\ EngineInv'
         /\ \A c \in Calls : text'[c] # text[c] =>
              \E d \in Calls :
                /\ \/ d = c
                   \/ /\ call[c].kind = "complete" /\ call[d].at = "raised"
                      /\ \E r \in gpu.requests : r.of = d /\ r.no > 0
                /\ text'[c] = {[of |-> d, lora |-> gpu.pin, model |-> ModelOf(c)]}
<1>1. CASE UNCHANGED engineVars
  <2>1. EngineTypeOK' /\ EngineServes'
    BY <1>1 DEF engineVars, EngineInv, EngineTypeOK, EngineServes, Busy, ModelOf
  <2> QED BY <1>1, <2>1 DEF engineVars, EngineInv
<1>2. CASE Boot \/ Exit
  BY <1>2, ContainerStep DEF Boot, Exit
<1>3. CASE \/ \E a \in MaybeAdapter : Promote(a)
           \/ \E a \in Adapters : ReplaceAdapter(a)
           \/ \E m \in Models \ {Pinned} : StageModel(m)
  <2>1. text' = text
    BY <1>3 DEF Promote, ReplaceAdapter, StageModel
  <2> QED BY <1>3, <2>1, OperatorStep
<1>4. ASSUME NEW c \in Calls, Take(c) \/ Ensure(c) \/ Load(c) \/ Warmed(c)
      PROVE  EngineInv' /\ text' = text
  BY <1>4, LoadStep DEF Take, Ensure, Load, Warmed
<1>5. ASSUME NEW c \in Calls,
             Raises(c) \/ Generate(c) \/ AddRequest(c) \/ EngineStep(c) \/ Leave(c)
      PROVE  /\ EngineInv'
             /\ \A e \in Calls : text'[e] # text[e] =>
                  \E d \in Calls :
                    /\ \/ d = e
                       \/ /\ call[e].kind = "complete" /\ call[d].at = "raised"
                          /\ \E r \in gpu.requests : r.of = d /\ r.no > 0
                    /\ text'[e] = {[of |-> d, lora |-> gpu.pin, model |-> ModelOf(e)]}
  <2>1. call[c].at \in {"run", "stream"} =>
          \A d \in Calls : Output(d) = [of |-> d, lora |-> gpu.pin, model |-> ModelOf(c)]
    BY DEF EngineInv, EngineServes, Output
  <2> QED BY <1>5, <2>1, RunStep
<1> QED BY <1>1, <1>2, <1>3, <1>4, <1>5 DEF EngineNext, CallStep

\* Whatever order containers are started, stopped and called in, one call at a time is
\* served, by the model it asked for and with the adapter of its container.
\* Code: _ensure_llm, generate and stream of the model services.
THEOREM EngineInvariant == EngineSpec => []EngineInv
<1>1. EngineInit => EngineInv
  BY EngineInitInv
<1>2. EngineInv /\ [EngineNext]_engineVars => EngineInv'
  BY EngineStepInv
<1> QED BY <1>1, <1>2, PTL DEF EngineSpec

\* No caller is given the tokens of another model or adapter, nor of another caller but
\* those of a generate that raised and left its request in the engine, for any number
\* of calls, models and adapters.
THEOREM GivenAsAsked == EngineSpec => AnswersAsAsked
<1>1. EngineInv /\ [EngineNext]_engineVars =>
        [\A c \in Calls : text'[c] # text[c] =>
           \E d \in Calls :
             /\ \/ d = c
                \/ /\ call[c].kind = "complete" /\ call[d].at = "raised"
                   /\ \E r \in gpu.requests : r.of = d /\ r.no > 0
             /\ text'[c] = {[of |-> d, lora |-> gpu.pin,
                             model |-> IF role = "playground" THEN call[c].model
                                       ELSE Pinned]}]_engineVars
  BY EngineStepInv DEF ModelOf
<1> QED BY <1>1, EngineInvariant, PTL DEF EngineSpec, AnswersAsAsked
-----------------------------------------------------------------------------
(***************************************************************************)
(* What the workers read from the network and send to it.  Each request    *)
(* for a URL was sent before the one that is next, and the vectors of a    *)
(* document are those of its chunks from the first one on.                 *)
(***************************************************************************)
Exchanges == [host : 1..2, agent : 1..3, export : BOOLEAN, reply : Replies]

\* e was sent before the request that is next
Earlier(e) == e.host < try.host \/ (e.host = try.host /\ e.agent < try.agent)

Distinct == \A i, j \in DOMAIN log :
              log[i].host = log[j].host /\ log[i].agent = log[j].agent => i = j

\* While a URL is not settled every request was sent before the one that is next, the
\* hosts before this one are exhausted, and this one has refused the identities before.
Asking ==
  fetched = "none" =>
    /\ \A i \in DOMAIN log : Earlier(log[i])
    /\ \A h \in 1..2 : h < try.host => Exhausted(h)
    /\ \A a \in 1..3 : a < try.agent =>
         \E i \in DOMAIN log : log[i].host = try.host /\ log[i].agent = a /\ log[i].reply \in Refused

FetchInv == FetchTypeOK /\ Asking /\ FetchPromise

LEMMA FetchInitInv == FetchInit => FetchInv
<1> SUFFICES ASSUME FetchInit PROVE FetchInv
  OBVIOUS
<1>1. FetchTypeOK
  BY DEF FetchInit, FetchTypeOK, Requests, Shapes
<1>2. Asking /\ FetchPromise
  BY DEF FetchInit, Asking, FetchPromise
<1> QED BY <1>1, <1>2 DEF FetchInv

\* One more request: the log grows by it, and it is another one than those before it.
LEMMA OneMore ==
  ASSUME FetchInv, NEW r \in Replies, MayAsk, Sent(r)
  PROVE  /\ log' \in Seq(Exchanges) /\ Len(log') = Len(log) + 1
         /\ DOMAIN log = 1..Len(log) /\ DOMAIN log' = 1..(Len(log) + 1) /\ Len(log) \in Nat
         /\ \A i \in DOMAIN log : log'[i] = log[i]
         /\ log'[Len(log) + 1].host = try.host /\ log'[Len(log) + 1].agent = try.agent
         /\ log'[Len(log) + 1].reply = r
         /\ Distinct'
         /\ try \in Requests
<1> DEFINE e == [host |-> try.host, agent |-> try.agent, export |-> IsDrive /\ IsFirst, reply |-> r]
<1>1. fetched = "none" /\ try \in Requests /\ log \in Seq(Exchanges)
  BY DEF FetchInv, FetchTypeOK, MayAsk, Left, Requests, Exchanges
<1>2. e \in Exchanges /\ e.host = try.host /\ e.agent = try.agent /\ e.reply = r
  <2> DEFINE x == IsDrive /\ IsFirst
  <2>1. x \in BOOLEAN
    BY DEF IsDrive, IsFirst
  <2> HIDE DEF x
  <2> QED BY <1>1, <2>1 DEF Exchanges, Requests
<1>3. log' = Append(log, e)
  BY DEF Sent
<1> HIDE DEF e
<1>4. /\ log' \in Seq(Exchanges) /\ Len(log') = Len(log) + 1
      /\ \A i \in 1..Len(log) : log'[i] = log[i]
      /\ log'[Len(log) + 1] = e
  BY <1>1, <1>2, <1>3, AppendProperties
<1>5. DOMAIN log = 1..Len(log) /\ DOMAIN log' = 1..(Len(log) + 1) /\ Len(log) \in Nat
  BY <1>1, <1>4, LenProperties
<1>6. \A i \in DOMAIN log : ~(log[i].host = e.host /\ log[i].agent = e.agent)
  <2>1. \A i \in DOMAIN log : Earlier(log[i]) /\ log[i] \in Exchanges
    BY <1>1, <1>5, ElementOfSeq DEF FetchInv, Asking
  <2> QED BY <1>1, <1>2, <2>1 DEF Earlier, Exchanges, Requests
<1>7. Distinct'
  <2>1. Distinct
    BY DEF FetchInv, FetchPromise, Distinct
  <2>2. ASSUME NEW i \in 1..(Len(log) + 1), NEW j \in 1..(Len(log) + 1),
               log'[i].host = log'[j].host, log'[i].agent = log'[j].agent
        PROVE  i = j
    <3>1. i \in 1..Len(log) \/ i = Len(log) + 1
      BY <1>5
    <3>2. j \in 1..Len(log) \/ j = Len(log) + 1
      BY <1>5
    <3> QED BY <1>4, <1>5, <1>6, <2>1, <2>2, <3>1, <3>2 DEF Distinct
  <2> QED BY <1>5, <2>2 DEF Distinct
<1> QED BY <1>1, <1>2, <1>4, <1>5, <1>7

\* A host that is exhausted stays so while another one is asked.
LEMMA StaysExhausted ==
  ASSUME FetchInv, NEW r \in Replies, MayAsk, Sent(r), NEW h \in 1..2, h # try.host, Exhausted(h)
  PROVE  Exhausted(h)'
<1>1. /\ DOMAIN log = 1..Len(log) /\ DOMAIN log' = 1..(Len(log) + 1) /\ Len(log) \in Nat
      /\ \A i \in DOMAIN log : log'[i] = log[i]
      /\ log'[Len(log) + 1].host = try.host
  BY OneMore
<1>2. CASE \A a \in DOMAIN Agents :
             \E i \in DOMAIN log : log[i].host = h /\ log[i].agent = a /\ log[i].reply \in Refused
  BY <1>1, <1>2 DEF Exhausted
<1>3. CASE \E i \in DOMAIN log :
             /\ log[i].host = h /\ log[i].reply = "no_connection"
             /\ \A j \in DOMAIN log : log[j].host = h => j <= i
  <2>1. PICK i \in DOMAIN log :
             /\ log[i].host = h /\ log[i].reply = "no_connection"
             /\ \A j \in DOMAIN log : log[j].host = h => j <= i
    BY <1>3
  <2>2. i \in DOMAIN log' /\ log'[i] = log[i]
    BY <1>1
  <2>3. \A j \in DOMAIN log' : log'[j].host = h => j <= i
    <3> SUFFICES ASSUME NEW j \in 1..(Len(log) + 1), log'[j].host = h PROVE j <= i
      BY <1>1
    <3>1. j # Len(log) + 1
      BY <1>1
    <3>2. j \in DOMAIN log
      BY <1>1, <3>1
    <3> QED BY <1>1, <2>1, <3>2
  <2> QED BY <2>1, <2>2, <2>3 DEF Exhausted
<1> QED BY <1>2, <1>3 DEF Exhausted

LEMMA FetchNextInv == FetchInv /\ [FetchNext]_fetchVars => FetchInv'
<1> SUFFICES ASSUME FetchInv, [FetchNext]_fetchVars PROVE FetchInv'
  OBVIOUS
<1>1. CASE UNCHANGED fetchVars
  <2>1. FetchTypeOK' /\ Asking' /\ FetchPromise'
    BY <1>1 DEF fetchVars, FetchInv, FetchTypeOK, Asking, Earlier, FetchPromise, Exhausted, Seen
  <2> QED BY <2>1 DEF FetchInv
<1>2. CASE NoExport
  <2>1. fetched' = "drive_unsupported" /\ UNCHANGED <<target, try, log>>
    BY <1>2 DEF NoExport, Ends
  <2>2. FetchTypeOK' /\ Asking' /\ FetchPromise'
    BY <2>1 DEF FetchInv, FetchTypeOK, Errors, Asking, FetchPromise
  <2> QED BY <2>2 DEF FetchInv
<1>3. ASSUME NEW r \in Replies, MayAsk, Sent(r), NEW w \in {"document", "raised", "drive_auth_required",
                 "drive_unsupported", "pdf_extract_failed"}, Ends(w)
      PROVE  FetchInv'
  <2>1. fetched' = w /\ UNCHANGED <<target, try>> /\ log' \in Seq(Exchanges) /\ Distinct'
    BY <1>3, OneMore DEF Ends
  <2>2. FetchTypeOK'
    BY <2>1 DEF FetchInv, FetchTypeOK, Errors, Exchanges
  <2>3. Asking' /\ FetchPromise'
    BY <2>1 DEF Asking, FetchPromise, Distinct
  <2> QED BY <2>2, <2>3 DEF FetchInv
<1>4. CASE PageServed
  <2>1. PICK r \in {"page", "shell", "pdf", "empty_pdf"} : MayAsk /\ Sent(r) /\ Ends(Document(r))
    BY <1>4 DEF PageServed
  <2>2. Document(r) \in {"document", "drive_auth_required", "drive_unsupported", "pdf_extract_failed"}
    BY Zenon DEF Document
  <2>3. r \in Replies
    BY DEF Replies
  <2> QED BY <1>3, <2>1, <2>2, <2>3
<1>5. CASE OtherFailure
  <2>1. MayAsk /\ Sent("other") /\ Ends("raised") /\ "other" \in Replies
    BY <1>5 DEF OtherFailure, Replies
  <2> QED BY <1>3, <2>1
<1>6. CASE RefusedBy \/ NotReached
  <2>1. PICK r \in Refused \cup {"no_connection"} :
          /\ MayAsk /\ Sent(r) /\ UNCHANGED <<target, fetched>>
          /\ try' = IF r \in Refused /\ try.agent < 3 THEN [try EXCEPT !.agent = @ + 1] ELSE NextHost
    BY <1>6 DEF RefusedBy, NotReached, Refused, Agents
  <2>2. r \in Replies
    BY DEF Replies, Refused
  <2>3. /\ log' \in Seq(Exchanges) /\ Len(log') = Len(log) + 1
        /\ DOMAIN log = 1..Len(log) /\ DOMAIN log' = 1..(Len(log) + 1) /\ Len(log) \in Nat
        /\ \A i \in DOMAIN log : log'[i] = log[i]
        /\ log'[Len(log) + 1].host = try.host /\ log'[Len(log) + 1].agent = try.agent
        /\ log'[Len(log) + 1].reply = r
        /\ Distinct'
        /\ try \in Requests
    BY <2>1, <2>2, OneMore
  <2>4. fetched = "none" /\ fetched' = "none"
    BY <2>1 DEF MayAsk, Left
  <2>5. /\ try.host \in 1..2 /\ try.agent \in 1..3
        /\ \/ /\ r \in Refused /\ try.agent < 3
              /\ try'.host = try.host /\ try'.agent = try.agent + 1
           \/ /\ r = "no_connection" \/ try.agent = 3
              /\ try'.host = try.host + 1 /\ try'.agent = 1
        /\ try' \in Requests \cup {[host |-> 3, agent |-> 1]}
    <3>1. try.host \in 1..2 /\ try.agent \in 1..3
      BY <2>3 DEF Requests
    <3>2. CASE r \in Refused /\ try.agent < 3
      <4>1. try' = [try EXCEPT !.agent = @ + 1]
        BY <2>1, <3>2
      <4>2. try'.host = try.host /\ try'.agent = try.agent + 1 /\ try' \in Requests
        BY <2>3, <3>1, <3>2, <4>1 DEF Requests
      <4> QED BY <3>1, <3>2, <4>2
    <3>3. CASE ~(r \in Refused /\ try.agent < 3)
      <4>1. try' = [host |-> try.host + 1, agent |-> 1]
        BY <2>1, <3>3 DEF NextHost
      <4>2. try' \in Requests \cup {[host |-> 3, agent |-> 1]}
        BY <3>1, <4>1 DEF Requests
      <4> QED BY <3>1, <3>3, <4>1, <4>2
    <3> QED BY <3>2, <3>3
  <2>6. FetchTypeOK'
    BY <2>1, <2>3, <2>5 DEF FetchInv, FetchTypeOK, Exchanges
  <2>7. /\ \A i \in DOMAIN log : Earlier(log[i]) /\ log[i] \in Exchanges
        /\ \A h \in 1..2 : h < try.host => Exhausted(h)
        /\ \A a \in 1..3 : a < try.agent =>
             \E i \in DOMAIN log : log[i].host = try.host /\ log[i].agent = a /\ log[i].reply \in Refused
    BY <2>3, <2>4, ElementOfSeq DEF FetchInv, FetchTypeOK, Asking, Exchanges
  <2>8. \A i \in DOMAIN log' : Earlier(log[i])'
    <3> DEFINE Before(x) == x.host < try'.host \/ (x.host = try'.host /\ x.agent < try'.agent)
    <3>1. ASSUME NEW i \in DOMAIN log PROVE Before(log[i])
      <4>1. log[i].host \in 1..2 /\ log[i].agent \in 1..3
        BY <2>7 DEF Exchanges
      <4>2. log[i].host < try.host \/ (log[i].host = try.host /\ log[i].agent < try.agent)
        BY <2>7 DEF Earlier
      <4> QED BY <2>5, <4>1, <4>2
    <3>2. Before(log'[Len(log) + 1])
      BY <2>3, <2>5
    <3>3. \A i \in 1..(Len(log) + 1) : i \in DOMAIN log \/ i = Len(log) + 1
      BY <2>3
    <3>4. \A i \in DOMAIN log' : Before(log'[i])
      BY <2>3, <3>1, <3>2, <3>3
    <3> QED BY <3>4 DEF Earlier
  <2>9. \A a \in 1..3 : a < try'.agent =>
          \E i \in DOMAIN log' : log'[i].host = try'.host /\ log'[i].agent = a /\ log'[i].reply \in Refused
    <3> SUFFICES ASSUME NEW a \in 1..3, a < try'.agent
                 PROVE  \E i \in DOMAIN log' : /\ log'[i].host = try'.host /\ log'[i].agent = a
                                               /\ log'[i].reply \in Refused
      OBVIOUS
    <3>1. r \in Refused /\ try'.host = try.host /\ try'.agent = try.agent + 1
      BY <2>5
    <3>2. CASE a = try.agent
      <4>1. Len(log) + 1 \in DOMAIN log'
        BY <2>3
      <4> QED BY <2>3, <3>1, <3>2, <4>1
    <3>3. CASE a < try.agent
      <4>1. PICK i \in DOMAIN log : log[i].host = try.host /\ log[i].agent = a /\ log[i].reply \in Refused
        BY <2>7, <3>3
      <4>2. i \in DOMAIN log' /\ log'[i] = log[i]
        BY <2>3
      <4> QED BY <3>1, <4>1, <4>2
    <3> QED BY <2>5, <3>1, <3>2, <3>3
  <2>10. \A h \in 1..2 : h < try'.host => Exhausted(h)'
    <3> SUFFICES ASSUME NEW h \in 1..2, h < try'.host PROVE Exhausted(h)'
      OBVIOUS
    <3>1. CASE h < try.host
      BY <2>1, <2>2, <2>5, <2>7, <3>1, StaysExhausted
    <3>2. CASE h = try.host /\ r = "no_connection"
      <4>1. Len(log) + 1 \in DOMAIN log' /\ \A j \in DOMAIN log' : j <= Len(log) + 1
        BY <2>3
      <4> QED BY <2>3, <3>2, <4>1 DEF Exhausted
    <3>3. CASE h = try.host /\ r \in Refused
      <4>1. try.agent = 3
        BY <2>5, <3>3 DEF Refused
      <4>2. ASSUME NEW a \in 1..3
            PROVE  \E i \in DOMAIN log' : log'[i].host = h /\ log'[i].agent = a /\ log'[i].reply \in Refused
        <5>1. CASE a = 3
          <6>1. Len(log) + 1 \in DOMAIN log'
            BY <2>3
          <6> QED BY <2>3, <3>3, <4>1, <5>1, <6>1
        <5>2. CASE a < 3
          <6>1. PICK i \in DOMAIN log : log[i].host = try.host /\ log[i].agent = a /\ log[i].reply \in Refused
            BY <2>7, <4>1, <5>2
          <6>2. i \in DOMAIN log' /\ log'[i] = log[i]
            BY <2>3
          <6> QED BY <3>3, <6>1, <6>2
        <5> QED BY <5>1, <5>2
      <4>3. DOMAIN Agents = 1..3
        BY DEF Agents
      <4> QED BY <4>2, <4>3 DEF Exhausted
    <3> QED BY <2>5, <3>1, <3>2, <3>3
  <2>11. Asking'
    BY <2>8, <2>9, <2>10 DEF Asking
  <2>12. FetchPromise'
    BY <2>3, <2>4 DEF FetchPromise, Distinct
  <2> QED BY <2>6, <2>11, <2>12 DEF FetchInv
<1>7. CASE GiveUp
  <2>1. /\ fetched = "none" /\ UNCHANGED <<target, try, log>>
        /\ ~(try.host <= IF target.apex THEN 2 ELSE 1)
        /\ fetched' = IF Seen(Refused) THEN "host_waf_blocked" ELSE "tls_handshake_failed"
    BY <1>7 DEF GiveUp, Ends, Left
  <2>2. \A h \in 1..(IF target.apex THEN 2 ELSE 1) : h \in 1..2 /\ h < try.host
    BY <2>1 DEF FetchInv, FetchTypeOK, Requests
  <2>3. \A h \in 1..(IF target.apex THEN 2 ELSE 1) : Exhausted(h)
    BY <2>1, <2>2 DEF FetchInv, Asking
  <2>4. FetchTypeOK' /\ Asking'
    BY <2>1 DEF FetchInv, FetchTypeOK, Errors, Asking
  <2>5. FetchPromise'
    BY <2>1, <2>3 DEF FetchInv, FetchPromise, Exhausted, Seen
  <2> QED BY <2>4, <2>5 DEF FetchInv
<1> QED BY <1>1, <1>2, <1>4, <1>5, <1>6, <1>7 DEF FetchNext

-----------------------------------------------------------------------------
LEMMA PowersOfTwo == 2 ^ 0 = 1 /\ \A n \in 0..9 : 2 ^ (n + 1) = 2 * 2 ^ n /\ 2 ^ n \in Nat
<1>1. /\ 2 ^ 0 = 1 /\ 2 ^ 1 = 2 /\ 2 ^ 2 = 4 /\ 2 ^ 3 = 8 /\ 2 ^ 4 = 16 /\ 2 ^ 5 = 32 /\ 2 ^ 6 = 64
      /\ 2 ^ 7 = 128 /\ 2 ^ 8 = 256 /\ 2 ^ 9 = 512 /\ 2 ^ 10 = 1024
  OBVIOUS
<1> QED BY <1>1

LEMMA PowersGrow == \A m, n \in 0..10 : m <= n => 2 ^ m \in Nat /\ 2 ^ n \in Nat /\ 2 ^ m <= 2 ^ n
<1> DEFINE f == [k \in 0..10 |-> 2 ^ k]
<1>1. /\ f[0] = 1 /\ f[1] = 2 /\ f[2] = 4 /\ f[3] = 8 /\ f[4] = 16 /\ f[5] = 32 /\ f[6] = 64
      /\ f[7] = 128 /\ f[8] = 256 /\ f[9] = 512 /\ f[10] = 1024
  OBVIOUS
<1>2. \A k \in 0..10 : f[k] = 2 ^ k
  BY Zenon
<1> HIDE DEF f
<1>3. \A k \in 0..10 : k = 0 \/ k = 1 \/ k = 2 \/ k = 3 \/ k = 4 \/ k = 5 \/ k = 6 \/ k = 7 \/ k = 8
                       \/ k = 9 \/ k = 10
  OBVIOUS
<1>4. \A m, n \in 0..10 : m <= n => f[m] \in Nat /\ f[n] \in Nat /\ f[m] <= f[n]
  BY <1>1, <1>3
<1> QED BY <1>2, <1>4, Zenon

EmbedInv == /\ chunks \in Nat /\ vectors \in Seq(Nat) /\ Got <= chunks
            /\ attempt \in 0..EmbedRetries /\ waited \in Nat
            /\ chunks \in ChunkCounts
            /\ embedded \in {"sending", "done"} \cup Passing \cup Final
            /\ EmbedPromise

LEMMA EmbedNextInv == EmbedInv /\ [EmbedNext]_embedVars => EmbedInv'
<1> SUFFICES ASSUME EmbedInv, [EmbedNext]_embedVars PROVE EmbedInv'
  OBVIOUS
<1>0. Got \in Nat /\ EmbedRetries \in 0..10 /\ BatchSize \in 1..256
  BY EmbeddingAssumption, LenProperties DEF EmbedInv, Got
<1>1. CASE UNCHANGED embedVars
  BY <1>1 DEF embedVars, EmbedInv, EmbedPromise, Got
<1>2. CASE BatchEmbedded
  <2> DEFINE n == Upto(BatchSize, chunks - Got)
  <2>1. /\ vectors' = vectors \o Texts /\ attempt' = 0 /\ waited' = 0
        /\ UNCHANGED <<chunks, embedded>> /\ Got < chunks /\ embedded = "sending"
    BY <1>2 DEF BatchEmbedded, Embeddings, Sending
  <2>2. n \in Nat /\ n <= chunks - Got
    BY <1>0, <2>1 DEF Upto, EmbedInv
  <2>3. Texts = [i \in 1..n |-> Got + i]
    BY DEF Texts
  <2> HIDE DEF n
  <2>4. Texts \in Seq(Nat) /\ Len(Texts) = n /\ \A i \in 1..n : Texts[i] = Got + i
    BY <1>0, <2>2, <2>3
  <2>5. /\ vectors' \in Seq(Nat) /\ Len(vectors') = Got + n
        /\ \A i \in 1..(Got + n) : vectors'[i] = IF i <= Got THEN vectors[i] ELSE Texts[i - Got]
    BY <2>1, <2>4, ConcatProperties DEF EmbedInv, Got
  <2>6. \A i \in 1..(Got + n) : vectors'[i] = i
    <3> SUFFICES ASSUME NEW i \in 1..(Got + n) PROVE vectors'[i] = i
      OBVIOUS
    <3>1. CASE i <= Got
      <4>1. vectors = [k \in 1..Got |-> k] /\ i \in 1..Got
        BY <1>0, <2>2, <3>1 DEF EmbedInv, EmbedPromise
      <4> QED BY <2>5, <3>1, <4>1
    <3>2. CASE ~(i <= Got)
      <4>1. i - Got \in 1..n
        BY <1>0, <2>2, <3>2
      <4>2. vectors'[i] = Texts[i - Got] /\ Texts[i - Got] = Got + (i - Got)
        BY <2>4, <2>5, <3>2, <4>1
      <4> QED BY <1>0, <4>2
    <3> QED BY <3>1, <3>2
  <2>7. vectors' = [i \in 1..Got' |-> i]
    <3>1. DOMAIN vectors' = 1..Got' /\ vectors' = [i \in DOMAIN vectors' |-> vectors'[i]] /\ Got' = Got + n
      BY <2>5, LenProperties DEF Got
    <3> QED BY <2>6, <3>1
  <2>8. Got' <= chunks' /\ embedded' # "done"
    BY <1>0, <2>1, <2>2, <2>5 DEF Got, EmbedInv
  <2>9. waited' = 2 ^ attempt' - 1
    BY <2>1, PowersOfTwo
  <2>10. EmbedPromise'
    BY <2>1, <2>7, <2>8, <2>9 DEF EmbedPromise
  <2> QED BY <1>0, <2>1, <2>5, <2>8, <2>10 DEF EmbedInv
<1>3. CASE TryAgain
  <2>1. /\ attempt' = attempt + 1 /\ waited' = waited + 2 ^ attempt /\ attempt < EmbedRetries
        /\ UNCHANGED <<chunks, vectors, embedded>>
    BY <1>3 DEF TryAgain
  <2>2. attempt \in 0..9 /\ attempt' \in 0..EmbedRetries
    BY <1>0, <2>1 DEF EmbedInv
  <2>3. waited = 2 ^ attempt - 1 /\ 2 ^ attempt \in Nat /\ 2 ^ (attempt + 1) = 2 * 2 ^ attempt
    BY <2>2, PowersOfTwo DEF EmbedInv, EmbedPromise
  <2>4. waited' = 2 ^ attempt' - 1 /\ waited' \in Nat
    BY <2>1, <2>3 DEF EmbedInv
  <2> QED BY <2>1, <2>2, <2>4 DEF EmbedInv, EmbedPromise, Got
<1>4. CASE EmbeddingFails
  <2>1. /\ UNCHANGED <<chunks, vectors, attempt, waited>> /\ embedded' # "done"
        /\ embedded' \in Passing \cup Final
    BY <1>4 DEF EmbeddingFails, Passing, Final
  <2> QED BY <2>1 DEF EmbedInv, EmbedPromise, Got
<1>5. CASE AllEmbedded
  BY <1>5 DEF AllEmbedded, EmbedInv, EmbedPromise, Got
<1> QED BY <1>1, <1>2, <1>3, <1>4, <1>5 DEF EmbedNext

LEMMA EmbedInitInv == EmbedInit => EmbedInv
<1> SUFFICES ASSUME EmbedInit PROVE EmbedInv
  OBVIOUS
<1>1. Got = 0 /\ vectors = [i \in 1..Got |-> i]
  BY DEF EmbedInit, Got
<1> QED BY <1>1, PowersOfTwo, EmbeddingAssumption DEF EmbedInit, EmbedInv, EmbedPromise

LEMMA EmbedInvTyped == EmbedInv => EmbedTypeOK
<1> SUFFICES ASSUME EmbedInv PROVE EmbedTypeOK
  OBVIOUS
<1>1. Got \in Nat /\ EmbedRetries \in 0..10 /\ chunks \in Nat /\ Got <= chunks
  BY EmbeddingAssumption, LenProperties DEF EmbedInv, Got
<1>2. vectors \in Seq(1..chunks)
  <2> DEFINE n == Got
  <2>1. vectors = [i \in 1..n |-> i] /\ n \in Nat /\ \A i \in 1..n : i \in 1..chunks
    BY <1>1 DEF EmbedInv, EmbedPromise
  <2> HIDE DEF n
  <2> QED BY <2>1
<1>3. waited \in 0..(2 ^ EmbedRetries - 1)
  <2>1. attempt \in 0..10 /\ attempt <= EmbedRetries /\ waited = 2 ^ attempt - 1 /\ waited \in Nat
    BY <1>1 DEF EmbedInv, EmbedPromise
  <2>2. 2 ^ attempt \in Nat /\ 2 ^ EmbedRetries \in Nat /\ 2 ^ attempt <= 2 ^ EmbedRetries
    BY <1>1, <2>1, PowersGrow
  <2> QED BY <2>1, <2>2
<1> QED BY <1>2, <1>3 DEF EmbedInv, EmbedTypeOK

\* The log of the requests and the vectors are well typed: every vector is the number of
\* a chunk there is, and the pauses of a sub-batch add up to no more than its retries allow.
THEOREM UpstreamTyped == UpstreamSpec => [](FetchTypeOK /\ EmbedTypeOK)
<1>1. FetchSpec => []FetchInv
  BY FetchInitInv, FetchNextInv, PTL DEF FetchSpec
<1>2. EmbedSpec => []EmbedInv
  BY EmbedInitInv, EmbedNextInv, PTL DEF EmbedSpec
<1>3. FetchInv /\ EmbedInv => FetchTypeOK /\ EmbedTypeOK
  BY EmbedInvTyped DEF FetchInv
<1> QED BY <1>1, <1>2, <1>3, PTL DEF UpstreamSpec

\* A URL is given up only when every host was tried to the end, no request is repeated,
\* and each vector belongs to its chunk, for any number of chunks and size of batch.
THEOREM UpstreamKeepsPromise == UpstreamSpec => []UpstreamPromise
<1>1. FetchSpec => []FetchInv
  BY FetchInitInv, FetchNextInv, PTL DEF FetchSpec
<1>2. EmbedSpec => []EmbedInv
  BY EmbedInitInv, EmbedNextInv, PTL DEF EmbedSpec
<1>3. FetchInv /\ EmbedInv => UpstreamPromise
  BY DEF FetchInv, EmbedInv, UpstreamPromise
<1> QED BY <1>1, <1>2, <1>3, PTL DEF UpstreamSpec


-----------------------------------------------------------------------------
(***************************************************************************)
(* The sum TLC explores.  A step of the sum is a step of one part and      *)
(* leaves the variables of the others alone, so what was proved of a part  *)
(* by itself holds of it in the sum.                                       *)
(***************************************************************************)
LEMMA PartsBegin ==
  BackgroundInit => Init /\ TagInit /\ PullInit /\ EngineInit /\ FetchInit /\ EmbedInit
BY DEF BackgroundInit

LEMMA PartsStep ==
  ASSUME [BackgroundNext]_backgroundVars
  PROVE  /\ [Next]_vars /\ [TagNext]_tagVars /\ [PullNext]_pullVars
         /\ [EngineNext]_engineVars /\ [FetchNext]_fetchVars /\ [EmbedNext]_embedVars
<1>1. CASE UNCHANGED backgroundVars
  BY <1>1 DEF backgroundVars
<1>2. CASE BackgroundNext
  BY <1>2 DEF BackgroundNext, StepOf
<1> QED BY <1>1, <1>2

\* The sum does nothing a part could not do by itself: each one keeps to its own
\* specification (of the downloads, what it says of their steps) in every behaviour.
THEOREM PartsOnTheirOwn ==
  BackgroundSpec => /\ Spec /\ TagSpec /\ EngineSpec /\ UpstreamSpec
                    /\ PullInit /\ [][PullNext]_pullVars
<1>1. BackgroundSpec => BackgroundInit /\ [][BackgroundNext]_backgroundVars
  BY PTL DEF BackgroundSpec
<1> QED BY <1>1, PartsBegin, PartsStep, PTL
        DEF Spec, TagSpec, EngineSpec, UpstreamSpec, FetchSpec, EmbedSpec

\* The variables of each part keep their types, whichever part runs.
THEOREM BackgroundTyped == BackgroundSpec => []BackgroundTypeOK
<1>1. PullInit /\ [][PullNext]_pullVars => []PullInv
  BY PullInitInv, PullNextInv, PTL
<1>2. /\ CatchupInv => TypeOK
      /\ TagInv => TagTypeOK
      /\ PullInv => PullTypeOK
      /\ EngineInv => EngineTypeOK
  BY DEF CatchupInv, TagInv, PullInv, EngineInv
<1>3. TypeOK /\ TagTypeOK /\ PullTypeOK /\ EngineTypeOK /\ FetchTypeOK /\ EmbedTypeOK
        => BackgroundTypeOK
  BY DEF BackgroundTypeOK
<1> QED BY <1>1, <1>2, <1>3, PartsOnTheirOwn, CatchupInvariant, TagInvariant, EngineInvariant,
           UpstreamTyped, PTL
=============================================================================
