---------------------------- MODULE CorpusProofs ----------------------------
(***************************************************************************)
(* Safety of Corpus for any number of workers, runs, contents and chunks.  *)
(*                                                                         *)
(* What is said of the rows is inductive, because every transaction keeps  *)
(* it by itself.  What is said of the runs is not: it needs that a run     *)
(* belongs to one job, and is running until that job completes it.         *)
(***************************************************************************)
EXTENDS Corpus, SequenceTheorems, TLAPS

(***************************************************************************)
(* Texts and chunks.                                                       *)
(***************************************************************************)
\* the two languages are each other's other
LEMMA Others ==
  ASSUME NEW l \in Langs
  PROVE  Other(l) \in Langs /\ Other(l) # l
BY DEF Other, Langs

\* a function on 1..n is a sequence
LEMMA Sequences ==
  ASSUME NEW n \in Nat, NEW S, NEW f \in [1..n -> S]
  PROVE  f \in Seq(S)
BY SeqDef

\* chunk_text returns chunks
LEMMA ChunksTyped ==
  ASSUME NEW t \in Texts
  PROVE  ChunksOf(t) \in Seq(Texts)
<1>1. ChunkCount(t.lang) \in Nat
  BY CorpusAssumption DEF ChunkCount
<1>2. ChunksOf(t) \in [1..ChunkCount(t.lang) -> Texts]
  BY DEF ChunksOf
<1> QED
  BY <1>1, <1>2, Sequences

\* an upsert by chunk index into chunks gives chunks
LEMMA OverlayTyped ==
  ASSUME NEW old \in Seq(Texts), NEW new \in Seq(Texts)
  PROVE  Overlay(old, new) \in Seq(Texts)
<1> DEFINE n == IF Len(old) > Len(new) THEN Len(old) ELSE Len(new)
<1>1. n \in Nat /\ Len(old) \in Nat /\ Len(new) \in Nat
  OBVIOUS
<1>2. ASSUME NEW i \in 1..n
      PROVE  (IF i <= Len(new) THEN new[i] ELSE old[i]) \in Texts
  <2>1. CASE i <= Len(new)
    BY <1>1, <2>1, ElementOfSeq
  <2>2. CASE ~(i <= Len(new))
    <3>1. i \in 1..Len(old)
      BY <1>1, <2>2
    <3> QED
      BY <2>2, <3>1, ElementOfSeq
  <2> QED
    BY <2>1, <2>2
<1>3. Overlay(old, new) \in [1..n -> Texts]
  BY <1>2 DEF Overlay
<1> QED
  BY <1>1, <1>3, Sequences

(***************************************************************************)
(* Rows.                                                                   *)
(***************************************************************************)
\* what get_document_detail returns
LEMMA DetailTyped ==
  ASSUME TypeOK, NEW l \in Langs
  PROVE  Detail(l) \in MaybeText
<1>1. doc[l] \in Rows
  BY DEF TypeOK
<1>2. CASE doc[l].body # NoText
  BY <1>1, <1>2 DEF Detail, Rows
<1>3. CASE doc[l].body = NoText /\ doc[l].chunks = <<>>
  BY <1>3 DEF Detail, MaybeText
<1>4. CASE doc[l].body = NoText /\ doc[l].chunks # <<>>
  <2>1. doc[l].chunks \in Seq(Texts)
    BY <1>1 DEF Rows
  <2>2. 1 \in 1..Len(doc[l].chunks)
    BY <1>4, <2>1
  <2>3. doc[l].chunks[1] \in Texts
    BY <2>1, <2>2, ElementOfSeq
  <2>4. [doc[l].chunks[1] EXCEPT !.form = "joined"] \in Texts
    BY <2>3 DEF Texts
  <2> QED
    BY <1>4, <2>4 DEF Detail, MaybeText
<1> QED
  BY <1>2, <1>3, <1>4

\* the hash look-up returns the hash of some row, or none
LEMMA HashesTyped ==
  ASSUME TypeOK
  PROVE  StoredHashes \subseteq MaybeText
BY DEF TypeOK, StoredHashes, LiveRows, Rows, MaybeText

\* the batch upsert
LEMMA UpsertTyped ==
  ASSUME TypeOK, NEW batch \in Batches, Upsert(batch)
  PROVE  doc' \in [Langs -> Rows] /\ revs' \in [Langs -> SUBSET Revisions]
<1>1. ASSUME NEW l \in Langs, batch[l] # NoUpsert
      PROVE  Upserted(doc[l], batch[l]) \in Rows
  <2>1. doc[l] \in Rows /\ batch[l] \in Upserts
    BY <1>1 DEF TypeOK, Batches
  <2> QED
    BY <2>1 DEF Upserted, Rows, Upserts, MaybeText
<1>2. ASSUME NEW l \in Langs, batch[l] # NoUpsert
      PROVE  [body |-> batch[l].text, run |-> NoRun] \in Revisions
  BY <1>2 DEF Batches, Revisions, Upserts, MaybeText
<1>3. doc' \in [Langs -> Rows]
  BY <1>1 DEF Upsert, TypeOK
<1>4. revs' \in [Langs -> SUBSET Revisions]
  BY <1>2 DEF Upsert, TypeOK
<1> QED
  BY <1>3, <1>4

LEMMA EmptyTyped ==
  /\ <<>> \in Seq(Texts)
  /\ NoText \in MaybeText
  /\ NoBatch \in Batches
  /\ NoRow \in Rows
  /\ NoTask \in Tasks
<1>1. <<>> \in Seq(Texts) /\ NoText \in MaybeText
  BY DEF MaybeText
<1>3. NoBatch \in Batches
  BY DEF NoBatch, Batches
<1>4. NoRow \in Rows
  BY <1>1 DEF NoRow, Rows
<1>5. NoTask \in Tasks
  BY <1>1, <1>3 DEF NoTask, Tasks, AllKinds
<1> QED
  BY <1>1, <1>3, <1>4, <1>5

\* the shadow batch
LEMMA ShadowTyped ==
  ASSUME TypeOK, NEW r \in Runs, NEW batch \in Batches, WriteShadow(r, batch)
  PROVE  /\ run' \in [Runs -> RunRecords]
         /\ \A s \in Runs : run'[s].status = run[s].status
         /\ \A s \in Runs \ {r} : run'[s] = run[s]
<1>1. PICK at \in [Langs -> LiveRows], first \in Langs :
        run' = [run EXCEPT ![r].shadow =
          [d \in Langs |->
             Overlay(Overlay(@[d], IF batch[first] # NoUpsert /\ at[first] = d
                                     THEN batch[first].chunks ELSE <<>>),
                     IF batch[Other(first)] # NoUpsert /\ at[Other(first)] = d
                       THEN batch[Other(first)].chunks ELSE <<>>)]]
  BY DEF WriteShadow
<1>2. ASSUME NEW l \in Langs, NEW d \in Langs
      PROVE  (IF batch[l] # NoUpsert /\ at[l] = d THEN batch[l].chunks ELSE <<>>) \in Seq(Texts)
  BY EmptyTyped DEF Batches, Upserts
<1>3. run[r] \in RunRecords
  BY DEF TypeOK
<1>4. ASSUME NEW d \in Langs
      PROVE  run[r].shadow[d] \in Seq(Texts)
  BY <1>3 DEF RunRecords
<1> DEFINE one(d) == Overlay(run[r].shadow[d], IF batch[first] # NoUpsert /\ at[first] = d
                                     THEN batch[first].chunks ELSE <<>>)
           two(d) == Overlay(one(d), IF batch[Other(first)] # NoUpsert /\ at[Other(first)] = d
                       THEN batch[Other(first)].chunks ELSE <<>>)
<1>5. ASSUME NEW d \in Langs
      PROVE  two(d) \in Seq(Texts)
  <2>1. one(d) \in Seq(Texts)
    BY <1>2, <1>4, OverlayTyped
  <2> HIDE DEF one
  <2> QED
    BY <1>2, <2>1, Others, OverlayTyped
<1>6. run' = [run EXCEPT ![r].shadow = [d \in Langs |-> two(d)]]
  BY <1>1
<1> HIDE DEF one, two
<1>7. [d \in Langs |-> two(d)] \in [Langs -> Seq(Texts)]
  BY <1>5
<1> QED
  BY <1>3, <1>6, <1>7 DEF TypeOK, RunRecords

\* what a promotion records
LEMMA RevisionsTyped ==
  ASSUME TypeOK, NEW l \in Langs, NEW r \in Runs
  PROVE  RevisionsAfter(l, r) \in SUBSET Revisions
<1>1. doc[l] \in Rows /\ revs[l] \in SUBSET Revisions
  BY DEF TypeOK
<1> QED
  BY <1>1 DEF RevisionsAfter, Revisions, Rows

-----------------------------------------------------------------------------
(***************************************************************************)
(* Operators keep the types.                                               *)
(***************************************************************************)
LEMMA PromoteTyped ==
  ASSUME TypeOK, NEW r \in Runs, Promote(r)
  PROVE  TypeOK'
<1>1. doc' \in [Langs -> Rows]
  <2>1. ASSUME NEW l \in Langs
        PROVE  [doc[l] EXCEPT !.chunks = run[r].shadow[l]] \in Rows
    <3>1. doc[l] \in Rows /\ run[r] \in RunRecords
      BY DEF TypeOK
    <3>2. run[r].shadow[l] \in Seq(Texts)
      BY <3>1 DEF RunRecords
    <3> QED
      BY <3>1, <3>2 DEF Rows
  <2> QED
    BY <2>1 DEF Promote, TypeOK
<1>2. revs' \in [Langs -> SUBSET Revisions]
  BY RevisionsTyped DEF Promote, TypeOK
<1>3. run' \in [Runs -> RunRecords]
  BY DEF Promote, TypeOK, RunRecords, RunStatuses
<1> QED
  BY <1>1, <1>2, <1>3 DEF Promote, TypeOK

LEMMA PatchTyped ==
  ASSUME TypeOK, NEW l \in Langs, NEW lang \in Langs, NEW draft \in BOOLEAN,
         PatchDocument(l, lang, draft)
  PROVE  TypeOK'
<1> DEFINE at(x) == IF lang = l THEN x ELSE Other(x)
<1>1. ASSUME NEW x \in Langs
      PROVE  at(x) \in Langs
  BY <1>1, Others
<1>a. /\ doc' = [x \in Langs |-> IF x = lang THEN [doc[l] EXCEPT !.draft = draft] ELSE doc[at(x)]]
      /\ revs' = [x \in Langs |-> revs[at(x)]]
      /\ run' = [r \in Runs |-> [run[r] EXCEPT !.shadow = [x \in Langs |-> @[at(x)]],
                                               !.scope = {at(x) : x \in @}]]
      /\ task' = [w \in Workers |-> [task[w] EXCEPT !.todo = {at(x) : x \in @}]]
      /\ UNCHANGED <<page, copied, pc>>
  BY DEF PatchDocument
<1> HIDE DEF at
<1>2. doc' \in [Langs -> Rows]
  <2>1. [doc[l] EXCEPT !.draft = draft] \in Rows
    BY DEF TypeOK, Rows
  <2> QED
    BY <1>1, <1>a, <2>1 DEF TypeOK
<1>3. revs' \in [Langs -> SUBSET Revisions]
  BY <1>1, <1>a DEF TypeOK
<1>4. ASSUME NEW r \in Runs
      PROVE  run'[r] \in RunRecords
  <2>1. run[r] \in RunRecords
    BY DEF TypeOK
  <2>2. [x \in Langs |-> run[r].shadow[at(x)]] \in [Langs -> Seq(Texts)]
    BY <1>1, <2>1 DEF RunRecords
  <2>3. {at(x) : x \in run[r].scope} \in SUBSET Langs
    BY <1>1, <2>1 DEF RunRecords
  <2>4. run'[r] = [run[r] EXCEPT !.shadow = [x \in Langs |-> run[r].shadow[at(x)]],
                                 !.scope = {at(x) : x \in run[r].scope}]
    BY <1>a, <2>1 DEF RunRecords
  <2> QED
    BY <2>1, <2>2, <2>3, <2>4 DEF RunRecords
<1>5. run' \in [Runs -> RunRecords]
  BY <1>4, <1>a
<1>6. ASSUME NEW w \in Workers
      PROVE  task'[w] \in Tasks /\ task'[w].run = task[w].run /\ task'[w].text = task[w].text
  <2>1. task[w] \in Tasks
    BY DEF TypeOK
  <2>2. {at(x) : x \in task[w].todo} \in SUBSET Langs
    BY <1>1, <2>1 DEF Tasks
  <2>3. task'[w] = [task[w] EXCEPT !.todo = {at(x) : x \in task[w].todo}]
    BY <1>a
  <2> QED
    BY <2>1, <2>2, <2>3 DEF Tasks
<1>7. task' \in [Workers -> Tasks]
  BY <1>6, <1>a
<1> QED
  BY <1>2, <1>3, <1>5, <1>6, <1>7, <1>a DEF TypeOK

LEMMA DeleteTyped ==
  ASSUME TypeOK, NEW l \in Langs, DeleteDocument(l)
  PROVE  TypeOK'
<1>1. doc' \in [Langs -> Rows] /\ revs' \in [Langs -> SUBSET Revisions]
  BY EmptyTyped DEF DeleteDocument, TypeOK
<1>2. ASSUME NEW r \in Runs
      PROVE  run'[r] \in RunRecords
  <2>1. run'[r] = [run[r] EXCEPT !.shadow = [@ EXCEPT ![l] = <<>>]]
    BY DEF DeleteDocument
  <2>2. run[r] \in RunRecords
    BY DEF TypeOK
  <2>3. [run[r].shadow EXCEPT ![l] = <<>>] \in [Langs -> Seq(Texts)]
    BY <2>2, EmptyTyped DEF RunRecords
  <2> QED
    BY <2>1, <2>2, <2>3 DEF RunRecords
<1>3. run' \in [Runs -> RunRecords]
  BY <1>2 DEF DeleteDocument
<1> QED
  BY <1>1, <1>3 DEF DeleteDocument, TypeOK

-----------------------------------------------------------------------------
(***************************************************************************)
(* Jobs keep the types.                                                    *)
(***************************************************************************)
\* a job that goes on at p with the task t
LEMMA JobTyped ==
  ASSUME TypeOK, NEW w \in Workers, NEW p \in Pcs, NEW t \in Tasks,
         p = "lookup" => t.text # NoText, p = "complete" => t.run # NoRun,
         UNCHANGED <<page, copied>>,
         doc' \in [Langs -> Rows], revs' \in [Langs -> SUBSET Revisions],
         run' \in [Runs -> RunRecords],
         pc' = [pc EXCEPT ![w] = p], task' = [task EXCEPT ![w] = t]
  PROVE  TypeOK'
BY DEF TypeOK

LEMMA PublishedTyped ==
  ASSUME NEW t \in Texts, NEW cs \in Seq(Texts)
  PROVE  Published(t, cs) \in Upserts
BY DEF Published, Upserts

\* one more document in the batch of a job
LEMMA BatchTyped ==
  ASSUME TypeOK, NEW w \in Workers, NEW l \in Langs, NEW u \in Upserts
  PROVE  [task[w] EXCEPT !.batch[l] = u] \in Tasks
<1>1. task[w] \in Tasks
  BY DEF TypeOK
<1>2. [task[w].batch EXCEPT ![l] = u] \in Batches
  BY <1>1 DEF Tasks, Batches
<1>3. [task[w] EXCEPT !.batch = [task[w].batch EXCEPT ![l] = u]] \in Tasks
  BY <1>1, <1>2 DEF Tasks
<1> QED
  BY <1>3

LEMMA LeaveTyped ==
  ASSUME TypeOK, NEW w \in Workers, Leave(w), UNCHANGED <<page, copied>>,
         doc' \in [Langs -> Rows], revs' \in [Langs -> SUBSET Revisions],
         run' \in [Runs -> RunRecords]
  PROVE  TypeOK'
<1>1. "idle" \in Pcs
  BY DEF Pcs
<1> QED
  BY <1>1, EmptyTyped, JobTyped DEF Leave

LEMMA StartTyped ==
  ASSUME TypeOK, NEW w \in Workers, Start(w)
  PROVE  TypeOK'
<1>1. doc \in [Langs -> Rows] /\ revs \in [Langs -> SUBSET Revisions] /\ run \in [Runs -> RunRecords]
  BY DEF TypeOK
<1>2. ASSUME NEW force \in BOOLEAN, NEW locales \in SUBSET Locales, StartIngest(w, force, locales)
      PROVE  TypeOK'
  <2>1. [NoTask EXCEPT !.force = force, !.locales = locales] \in Tasks
    BY EmptyTyped, CorpusAssumption DEF Tasks
  <2>2. "fetch" \in Pcs
    BY DEF Pcs
  <2> QED
    BY <1>1, <1>2, <2>1, <2>2, JobTyped DEF StartIngest, Begin, corpusVars
<1>3. ASSUME NEW l \in Langs, StartRefresh(w, l)
      PROVE  TypeOK'
  <2>1. PICK h \in StoredHashes :
          Begin(w, "refetch", [NoTask EXCEPT !.kind = "refresh", !.hash = h])
    BY <1>3 DEF StartRefresh
  <2>2. [NoTask EXCEPT !.kind = "refresh", !.hash = h] \in Tasks
    <3>1. h \in MaybeText
      BY HashesTyped
    <3> QED
      BY <3>1, EmptyTyped DEF Tasks, AllKinds
  <2>3. "refetch" \in Pcs
    BY DEF Pcs
  <2> QED
    BY <1>1, <1>3, <2>1, <2>2, <2>3, JobTyped DEF StartRefresh, Begin, corpusVars
<1>4. ASSUME NEW scope \in SUBSET Langs, NEW source \in Sources, NEW r \in Runs \cup {NoRun},
             StartRebuild(w, scope, source, r)
      PROVE  TypeOK'
  <2>1. [NoTask EXCEPT !.kind = "rebuild", !.source = source, !.todo = scope, !.run = r] \in Tasks
    BY EmptyTyped, CorpusAssumption DEF Tasks, AllKinds
  <2>2. NextPc(scope) \in Pcs /\ NextPc(scope) \notin {"lookup", "complete"}
    BY DEF NextPc, Pcs
  <2>3. run' \in [Runs -> RunRecords]
    <3>1. CASE r = NoRun
      BY <1>1, <1>4, <3>1 DEF StartRebuild
    <3>2. CASE r # NoRun
      <4>1. run[r] \in RunRecords
        BY <1>1, <3>2
      <4>2. [run[r] EXCEPT !.status = "running", !.scope = scope] \in RunRecords
        BY <4>1 DEF RunRecords, RunStatuses
      <4> QED
        BY <1>1, <1>4, <3>2, <4>2 DEF StartRebuild
    <3> QED
      BY <3>1, <3>2
  <2> QED
    BY <1>1, <1>4, <2>1, <2>2, <2>3, JobTyped DEF StartRebuild, Begin
<1>5. ASSUME NEW scope \in SUBSET Langs, NEW source \in Sources, StartBackfill(w, scope, source)
      PROVE  TypeOK'
  <2>1. [NoTask EXCEPT !.kind = "backfill", !.source = source, !.todo = scope] \in Tasks
    BY EmptyTyped, CorpusAssumption DEF Tasks, AllKinds
  <2>2. NextPc(scope) \in Pcs /\ NextPc(scope) \notin {"lookup", "complete"}
    BY DEF NextPc, Pcs
  <2> QED
    BY <1>1, <1>5, <2>1, <2>2, JobTyped DEF StartBackfill, Begin, corpusVars
<1> QED
  BY <1>2, <1>3, <1>4, <1>5 DEF Start

LEMMA ReadTyped ==
  ASSUME TypeOK, NEW w \in Workers, NEW l \in Langs, Read(w, l)
  PROVE  TypeOK'
<1> DEFINE store == task[w].source = "store"
           t     == IF store THEN Detail(l) ELSE page
           lang  == IF store THEN l ELSE page.lang
           cs    == IF task[w].kind = "backfill" THEN <<>> ELSE ChunksOf(t)
<1>1. t \in Texts /\ lang \in Langs
  <2>1. t # NoText
    BY DEF Read
  <2>2. Detail(l) \in MaybeText /\ page \in Texts
    BY DetailTyped DEF TypeOK
  <2> QED
    BY <2>1, <2>2 DEF MaybeText, Texts
<1>2. Published(t, cs) \in Upserts
  <2> HIDE DEF t
  <2>1. cs \in Seq(Texts)
    BY <1>1, ChunksTyped, EmptyTyped
  <2> QED
    BY <1>1, <2>1, PublishedTyped
<1>3. /\ task' = [task EXCEPT ![w].todo = @ \ {l}, ![w].batch[lang] = Published(t, cs)]
      /\ pc' = [pc EXCEPT ![w] = NextPc(task[w].todo \ {l})]
      /\ UNCHANGED corpusVars
  BY DEF Read, Goto
<1> HIDE DEF t, lang, cs
<1> DEFINE rest == [[task[w] EXCEPT !.batch[lang] = Published(t, cs)] EXCEPT !.todo = @ \ {l}]
<1>4. rest \in Tasks
  <2> DEFINE full == [task[w] EXCEPT !.batch[lang] = Published(t, cs)]
  <2>1. full \in Tasks
    BY <1>1, <1>2, BatchTyped
  <2>2. full.todo \ {l} \in SUBSET Langs
    BY <2>1 DEF Tasks
  <2> HIDE DEF full
  <2>3. [full EXCEPT !.todo = full.todo \ {l}] \in Tasks
    BY <2>1, <2>2 DEF Tasks
  <2> QED
    BY <2>3 DEF full
<1>5. task[w] \in Tasks
  BY DEF TypeOK
<1>6. task' = [task EXCEPT ![w] = rest]
  BY <1>3, <1>5 DEF Tasks, TypeOK
<1>7. NextPc(task[w].todo \ {l}) \in Pcs /\ NextPc(task[w].todo \ {l}) \notin {"lookup", "complete"}
  BY DEF NextPc, Pcs
<1> QED
  BY <1>3, <1>4, <1>6, <1>7, JobTyped DEF corpusVars, TypeOK

LEMMA LookupTyped ==
  ASSUME TypeOK, NEW w \in Workers, Lookup(w)
  PROVE  TypeOK'
<1> DEFINE t == task[w].text
<1>0. t \in Texts
  <2>1. pc[w] = "lookup"
    BY DEF Lookup
  <2>2. task[w] \in Tasks /\ t # NoText
    BY <2>1 DEF TypeOK
  <2> QED
    BY <2>2 DEF Tasks, MaybeText
<1>1. PICK hash \in StoredHashes :
        task' = [task EXCEPT ![w].batch[t.lang] =
                    Published(t, IF Skips(t, hash, task[w].force) THEN <<>> ELSE ChunksOf(t)),
                             ![w].text = NoText, ![w].force = FALSE]
  BY DEF Lookup
<1> DEFINE u == Published(t, IF Skips(t, hash, task[w].force) THEN <<>> ELSE ChunksOf(t))
<1>2. u \in Upserts
  BY <1>0, ChunksTyped, EmptyTyped, PublishedTyped
<1>3. t.lang \in Langs
  BY <1>0 DEF Texts
<1>4. task[w] \in Tasks
  BY DEF TypeOK
<1>5. task' = [task EXCEPT ![w].batch[t.lang] = u, ![w].text = NoText, ![w].force = FALSE]
  BY <1>1
<1> HIDE DEF u
<1> DEFINE rest == [[task[w] EXCEPT !.batch[t.lang] = u] EXCEPT !.text = NoText, !.force = FALSE]
<1>6. rest \in Tasks
  <2>1. [task[w] EXCEPT !.batch[t.lang] = u] \in Tasks
    BY <1>2, <1>3, BatchTyped
  <2> QED
    BY <2>1, EmptyTyped DEF Tasks
<1>7. task' = [task EXCEPT ![w] = rest]
  BY <1>4, <1>5 DEF Tasks, TypeOK
<1>8. "write" \in Pcs
  BY DEF Pcs
<1> QED
  BY <1>6, <1>7, <1>8, JobTyped DEF Lookup, Goto, corpusVars, TypeOK

LEMMA RefetchTyped ==
  ASSUME TypeOK, NEW w \in Workers, Refetch(w)
  PROVE  TypeOK'
<1>0. /\ UNCHANGED <<page, copied>>
      /\ doc' \in [Langs -> Rows] /\ revs' \in [Langs -> SUBSET Revisions]
      /\ run' \in [Runs -> RunRecords]
  BY DEF Refetch, corpusVars, TypeOK
<1>1. CASE Leave(w)
  BY <1>0, <1>1, LeaveTyped
<1>2. CASE ~Leave(w)
  <2> DEFINE u == Published(page, ChunksOf(page))
             rest == [[task[w] EXCEPT !.batch[page.lang] = u] EXCEPT !.hash = NoText]
  <2>1. /\ task' = [task EXCEPT ![w].batch[page.lang] = u, ![w].hash = NoText]
        /\ pc' = [pc EXCEPT ![w] = "write"]
    BY <1>2 DEF Refetch, Goto
  <2>2. page \in Texts /\ page.lang \in Langs /\ task[w] \in Tasks
    BY DEF TypeOK, Texts
  <2>3. u \in Upserts
    BY <2>2, ChunksTyped, PublishedTyped
  <2> HIDE DEF u
  <2>4. rest \in Tasks
    <3>1. [task[w] EXCEPT !.batch[page.lang] = u] \in Tasks
      BY <2>2, <2>3, BatchTyped
    <3> QED
      BY <3>1, EmptyTyped DEF Tasks
  <2>5. task' = [task EXCEPT ![w] = rest]
    BY <2>1, <2>2 DEF Tasks, TypeOK
  <2>6. "write" \in Pcs
    BY DEF Pcs
  <2> QED
    BY <1>0, <2>1, <2>4, <2>5, <2>6, JobTyped
<1> QED
  BY <1>1, <1>2

\* what a translation writes is a batch
LEMMA TranslatedBatch ==
  ASSUME TypeOK, NEW w \in Workers, Translate(w)
  PROVE  \E batch \in Batches : Upsert(batch)
<1>1. PICK l \in Langs :
        /\ task[w].batch[l] # NoUpsert
        /\ LET t == Translation(task[w].batch[l].text)
           IN  Upsert([NoBatch EXCEPT ![t.lang] =
                         [text |-> t, chunks |-> [i \in 1..ChunkCount(l) |-> t], draft |-> TRUE]])
  BY DEF Translate
<1> DEFINE t == Translation(task[w].batch[l].text)
           u == [text |-> t, chunks |-> [i \in 1..ChunkCount(l) |-> t], draft |-> TRUE]
<1>2. t \in Texts
  <2>1. task[w].batch[l].text \in Texts
    BY <1>1 DEF TypeOK, Tasks, Batches, Upserts
  <2> QED
    BY <2>1, Others DEF Translation, Texts
<1> HIDE DEF t
<1>3. u \in Upserts
  <2>1. ChunkCount(l) \in Nat
    BY CorpusAssumption DEF ChunkCount
  <2>2. [i \in 1..ChunkCount(l) |-> t] \in Seq(Texts)
    BY <1>2, <2>1, Sequences
  <2> QED
    BY <1>2, <2>2 DEF Upserts
<1>4. [NoBatch EXCEPT ![t.lang] = u] \in Batches
  BY <1>3, EmptyTyped DEF Batches
<1>5. Upsert([NoBatch EXCEPT ![t.lang] = u])
  BY <1>1 DEF t
<1> QED
  BY <1>4, <1>5

LEMMA TranslateTyped ==
  ASSUME TypeOK, NEW w \in Workers, Translate(w)
  PROVE  TypeOK'
<1>1. PICK batch \in Batches : Upsert(batch)
  BY TranslatedBatch
<1>2. /\ doc' \in [Langs -> Rows] /\ revs' \in [Langs -> SUBSET Revisions]
      /\ run' \in [Runs -> RunRecords]
  BY <1>1, UpsertTyped DEF Translate, TypeOK
<1> QED
  BY <1>2, LeaveTyped DEF Translate

LEMMA WriteLiveTyped ==
  ASSUME TypeOK, NEW w \in Workers, WriteLive(w)
  PROVE  TypeOK'
<1>1. task[w] \in Tasks
  BY DEF TypeOK
<1>2. /\ doc' \in [Langs -> Rows] /\ revs' \in [Langs -> SUBSET Revisions]
      /\ run' \in [Runs -> RunRecords]
  <2>1. task[w].batch \in Batches
    BY <1>1 DEF Tasks
  <2> QED
    BY <2>1, UpsertTyped DEF WriteLive, TypeOK
<1>3. CASE Translates(w)
  <2>1. task' = [task EXCEPT ![w] = task[w]] /\ pc' = [pc EXCEPT ![w] = "translate"]
    BY <1>3 DEF WriteLive, Goto, TypeOK
  <2>2. "translate" \in Pcs
    BY DEF Pcs
  <2> QED
    BY <1>1, <1>2, <2>1, <2>2, JobTyped DEF WriteLive
<1>4. CASE ~Translates(w)
  BY <1>2, <1>4, LeaveTyped DEF WriteLive
<1> QED
  BY <1>3, <1>4

LEMMA WriteDryRunTyped ==
  ASSUME TypeOK, NEW w \in Workers, WriteDryRun(w)
  PROVE  TypeOK'
<1>1. task[w] \in Tasks
  BY DEF TypeOK
<1>2. task[w].batch \in Batches /\ task[w].run \in Runs
  BY <1>1 DEF WriteDryRun, Tasks
<1>3. run' \in [Runs -> RunRecords]
  BY <1>2, ShadowTyped DEF WriteDryRun, TypeOK
<1>4. task' = [task EXCEPT ![w] = task[w]] /\ pc' = [pc EXCEPT ![w] = "complete"]
  BY DEF WriteDryRun, Goto, TypeOK
<1>5. "complete" \in Pcs
  BY DEF Pcs
<1> QED
  BY <1>1, <1>3, <1>4, <1>5, JobTyped DEF WriteDryRun, TypeOK

LEMMA StatusTyped ==
  ASSUME TypeOK, NEW r \in Runs, NEW s \in RunStatuses
  PROVE  [run EXCEPT ![r].status = s] \in [Runs -> RunRecords]
<1>1. run[r] \in RunRecords
  BY DEF TypeOK
<1>2. [run[r] EXCEPT !.status = s] \in RunRecords
  BY <1>1 DEF RunRecords
<1> QED
  BY <1>2 DEF TypeOK

LEMMA StepTyped ==
  ASSUME TypeOK, NEW w \in Workers, Step(w)
  PROVE  TypeOK'
<1>0. /\ task[w] \in Tasks /\ page \in Texts
      /\ doc \in [Langs -> Rows] /\ revs \in [Langs -> SUBSET Revisions]
      /\ run \in [Runs -> RunRecords]
  BY DEF TypeOK
<1>1. CASE Fetch(w)
  <2>1. [task[w] EXCEPT !.text = page] \in Tasks /\ page # NoText
    BY <1>0, NoTextAssumption DEF Tasks, MaybeText
  <2>2. "lookup" \in Pcs
    BY DEF Pcs
  <2>3. [task[w] EXCEPT !.text = page].text = page
    BY <1>0 DEF Tasks
  <2> QED
    BY <1>0, <1>1, <2>1, <2>2, <2>3, JobTyped DEF Fetch, Goto, corpusVars
<1>2. CASE Complete(w)
  <2>1. task[w].run \in Runs
    <3>1. task[w].run # NoRun
      <4>1. pc[w] = "complete"
        BY <1>2 DEF Complete
      <4> QED
        BY <4>1 DEF TypeOK
    <3> QED
      BY <1>0, <3>1 DEF Tasks
  <2>2. run' \in [Runs -> RunRecords]
    BY <1>2, <2>1, StatusTyped DEF Complete, RunStatuses
  <2>3. task' = [task EXCEPT ![w] = task[w]] /\ pc' = [pc EXCEPT ![w] = "finish"]
    BY <1>2 DEF Complete, Goto, TypeOK
  <2>4. "finish" \in Pcs
    BY DEF Pcs
  <2> QED
    BY <1>0, <1>2, <2>2, <2>3, <2>4, JobTyped DEF Complete
<1>3. CASE Finish(w)
  BY <1>0, <1>3, LeaveTyped DEF Finish, corpusVars
<1>4. CASE Fail(w)
  <2>1. task[w].run # NoRun => task[w].run \in Runs
    BY <1>0 DEF Tasks
  <2>2. run' \in [Runs -> RunRecords]
    BY <1>0, <1>4, <2>1, StatusTyped DEF Fail, RunStatuses
  <2> QED
    BY <1>0, <1>4, <2>2, LeaveTyped DEF Fail
<1> QED
  BY <1>1, <1>2, <1>3, <1>4, ReadTyped, LookupTyped, RefetchTyped, TranslateTyped,
     WriteLiveTyped, WriteDryRunTyped DEF Step

-----------------------------------------------------------------------------
LEMMA InitTyped == Init => TypeOK
<1> SUFFICES ASSUME Init PROVE TypeOK
  OBVIOUS
<1>1. LegacyText \in Texts
  BY CorpusAssumption DEF LegacyText, Texts, Langs
<1>2. LegacyRow \in Rows
  <2>1. ChunksOf(LegacyText) \in Seq(Texts)
    BY <1>1, ChunksTyped
  <2> QED
    BY <1>1, <2>1, EmptyTyped DEF LegacyRow, Rows, MaybeText
<1>3. doc \in [Langs -> Rows]
  BY <1>2, EmptyTyped DEF Init
<1>4. NoRunRecord \in RunRecords
  BY EmptyTyped DEF NoRunRecord, RunRecords, RunStatuses
<1> QED
  BY <1>1, <1>3, <1>4, EmptyTyped DEF Init, TypeOK, Pcs

LEMMA NextTyped == TypeOK /\ [Next]_vars => TypeOK'
<1> SUFFICES ASSUME TypeOK, [Next]_vars PROVE TypeOK'
  OBVIOUS
<1>1. CASE Operator
  <2>1. \A l \in Langs : {l} \cup Relabels \subseteq Langs
    BY CorpusAssumption
  <2> QED
    BY <1>1, <2>1, PromoteTyped, DeleteTyped, PatchTyped DEF Operator
<1>2. CASE PageChanges
  BY <1>2, CorpusAssumption DEF PageChanges, TypeOK, Texts
<1>3. CASE \E w \in Workers : Start(w) \/ Step(w)
  BY <1>3, StartTyped, StepTyped
<1>4. CASE UNCHANGED vars
  BY <1>4 DEF vars, TypeOK
<1> QED
  BY <1>1, <1>2, <1>3, <1>4 DEF Next

(***************************************************************************)
(* Every reachable state is well typed: documents, revisions and runs hold *)
(* texts, an ingest looks up the hash of a text it fetched, and only a dry *)
(* run completes a run.                                                    *)
(***************************************************************************)
THEOREM CorpusTypeCorrect == Spec => []TypeOK
  BY InitTyped, NextTyped, PTL DEF Spec

-----------------------------------------------------------------------------

OneJobPerRun ==
  \A w, v \in Workers : task[w].run # NoRun /\ task[v].run = task[w].run => w = v

RunningTillComplete ==
  \A w \in Workers : task[w].run # NoRun =>
    run[task[w].run].status \in (IF pc[w] = "finish" THEN {"completed", "promoted"} ELSE {"running"})

CopiedIsOver == \A r \in copied : run[r].status \in {"promoted", "failed"}

RunsInv == OneJobPerRun /\ RunningTillComplete /\ CopiedIsOver

-----------------------------------------------------------------------------
(***************************************************************************)
(* The rows.                                                               *)
(***************************************************************************)
\* every step leaves the rows alone or is one transaction of the write API
LEMMA RowsEffect ==
  ASSUME TypeOK, [Next]_vars
  PROVE  \/ UNCHANGED <<doc, revs>>
         \/ \E batch \in Batches : Upsert(batch)
         \/ \E r \in Runs : Promote(r)
         \/ \E l \in Langs : DeleteDocument(l)
         \/ \E l, lang \in Langs, draft \in BOOLEAN : PatchDocument(l, lang, draft)
<1>1. ASSUME NEW w \in Workers, WriteLive(w)
      PROVE  \E batch \in Batches : Upsert(batch)
  <2>1. task[w].batch \in Batches
    <3>1. task[w] \in Tasks
      BY DEF TypeOK
    <3> QED
      BY <3>1 DEF Tasks
  <2> QED
    BY <1>1, <2>1 DEF WriteLive
<1>2. ASSUME NEW w \in Workers, Translate(w)
      PROVE  \E batch \in Batches : Upsert(batch)
  BY <1>2, TranslatedBatch
<1>3. ASSUME NEW w \in Workers, Start(w)
      PROVE  UNCHANGED <<doc, revs>>
  BY <1>3 DEF Start, StartIngest, StartRefresh, StartRebuild, StartBackfill, corpusVars
<1>4. ASSUME NEW w \in Workers, Step(w), ~WriteLive(w), ~Translate(w)
      PROVE  UNCHANGED <<doc, revs>>
  BY <1>4 DEF Step, Fetch, Lookup, Refetch, Read, WriteDryRun, Complete, Finish, Fail, corpusVars
<1>5. CASE Operator
  <2>1. \A l \in Langs : {l} \cup Relabels \subseteq Langs
    BY CorpusAssumption
  <2> QED
    BY <1>5, <2>1 DEF Operator
<1> QED
  BY <1>1, <1>2, <1>3, <1>4, <1>5 DEF Next, PageChanges, vars

LEMMA UpsertKeepsRows ==
  ASSUME TypeOK, RowsAgree, NEW batch \in Batches, Upsert(batch)
  PROVE  RowsAgree'
<1> SUFFICES ASSUME NEW l \in Langs
             PROVE  /\ doc'[l].body # NoText => doc'[l].hash = doc'[l].body
                    /\ doc'[l].body # NoText => \E v \in revs'[l] : v.body = doc'[l].body
                    /\ \A v \in revs'[l] : v.run # NoRun => \E u \in revs'[l] : u.run = NoRun
  BY DEF RowsAgree, HashMatchesBody, BodyIsRevision, PriorRevisionKept
<1>1. CASE batch[l] = NoUpsert
  <2>1. doc'[l] = doc[l] /\ revs'[l] = revs[l]
    BY <1>1 DEF Upsert
  <2> QED
    BY <2>1 DEF RowsAgree, HashMatchesBody, BodyIsRevision, PriorRevisionKept
<1>2. CASE batch[l] # NoUpsert
  <2> DEFINE new == [body |-> batch[l].text, run |-> NoRun]
  <2>1. doc'[l] = Upserted(doc[l], batch[l]) /\ revs'[l] = revs[l] \cup {new}
    BY <1>2 DEF Upsert
  <2>2. doc'[l].body = batch[l].text /\ doc'[l].hash = batch[l].text
    BY <2>1 DEF Upserted
  <2>3. new \in revs'[l] /\ new.body = batch[l].text /\ new.run = NoRun
    BY <2>1
  <2> HIDE DEF new
  <2> QED
    BY <2>2, <2>3
<1> QED
  BY <1>1, <1>2

LEMMA PromoteKeepsRows ==
  ASSUME TypeOK, RowsAgree, NEW r \in Runs, Promote(r)
  PROVE  RowsAgree'
<1> SUFFICES ASSUME NEW l \in Langs
             PROVE  /\ doc'[l].body # NoText => doc'[l].hash = doc'[l].body
                    /\ doc'[l].body # NoText => \E v \in revs'[l] : v.body = doc'[l].body
                    /\ \A v \in revs'[l] : v.run # NoRun => \E u \in revs'[l] : u.run = NoRun
  BY DEF RowsAgree, HashMatchesBody, BodyIsRevision, PriorRevisionKept
<1>1. doc[l] \in Rows
  BY DEF TypeOK
<1>2. CASE l \notin ScopedRows(r)
  <2>1. doc'[l] = doc[l] /\ revs'[l] = revs[l]
    BY <1>2 DEF Promote
  <2> QED
    BY <2>1 DEF RowsAgree, HashMatchesBody, BodyIsRevision, PriorRevisionKept
<1>3. CASE l \in ScopedRows(r)
  <2>1. doc'[l].body = doc[l].body /\ doc'[l].hash = doc[l].hash
    BY <1>1, <1>3 DEF Promote, Rows
  <2>2. revs'[l] = RevisionsAfter(l, r)
    BY <1>3 DEF Promote
  <2>3. \E v \in revs'[l] : v.body = doc'[l].body
    BY <2>1, <2>2 DEF RevisionsAfter
  <2>4. \E u \in revs'[l] : u.run = NoRun
    <3>1. CASE revs[l] = {}
      BY <2>2, <3>1 DEF RevisionsAfter
    <3>2. CASE revs[l] # {}
      <4>1. PICK u \in revs[l] : u.run = NoRun
        BY <3>2 DEF RowsAgree, PriorRevisionKept
      <4> QED
        BY <2>2, <4>1 DEF RevisionsAfter
    <3> QED
      BY <3>1, <3>2
  <2> QED
    BY <2>1, <2>3, <2>4 DEF RowsAgree, HashMatchesBody
<1> QED
  BY <1>2, <1>3

LEMMA PatchKeepsRows ==
  ASSUME TypeOK, RowsAgree, NEW l \in Langs, NEW lang \in Langs, NEW draft \in BOOLEAN,
         PatchDocument(l, lang, draft)
  PROVE  RowsAgree'
<1> SUFFICES ASSUME NEW x \in Langs
             PROVE  \E y \in Langs : /\ doc'[x].body = doc[y].body /\ doc'[x].hash = doc[y].hash
                                     /\ revs'[x] = revs[y]
  BY DEF RowsAgree, HashMatchesBody, BodyIsRevision, PriorRevisionKept
<1> DEFINE y == IF lang = l THEN x ELSE Other(x)
<1>1. y \in Langs
  BY Others
<1>2. revs'[x] = revs[y]
  BY DEF PatchDocument
<1>3. CASE x = lang
  <2>1. y = l
    <3>1. CASE lang = l
      BY <1>3, <3>1
    <3>2. CASE lang # l
      BY <1>3, <3>2, Others DEF Langs
    <3> QED
      BY <3>1, <3>2
  <2>2. doc'[x] = [doc[l] EXCEPT !.draft = draft] /\ doc[l] \in Rows
    BY <1>3 DEF PatchDocument, TypeOK
  <2> QED
    BY <1>2, <2>1, <2>2 DEF Rows
<1>4. CASE x # lang
  BY <1>1, <1>2, <1>4 DEF PatchDocument
<1> QED
  BY <1>3, <1>4

LEMMA DeleteKeepsRows ==
  ASSUME TypeOK, RowsAgree, NEW l \in Langs, DeleteDocument(l)
  PROVE  RowsAgree'
<1> SUFFICES ASSUME NEW x \in Langs
             PROVE  \/ doc'[x] = doc[x] /\ revs'[x] = revs[x]
                    \/ doc'[x].body = NoText /\ revs'[x] = {}
  BY DEF RowsAgree, HashMatchesBody, BodyIsRevision, PriorRevisionKept
<1> QED
  BY DEF DeleteDocument, TypeOK, NoRow

LEMMA RowsKept ==
  ASSUME TypeOK, RowsAgree, [Next]_vars
  PROVE  RowsAgree'
<1>1. CASE UNCHANGED <<doc, revs>>
  BY <1>1 DEF RowsAgree, HashMatchesBody, BodyIsRevision, PriorRevisionKept
<1> QED
  BY <1>1, RowsEffect, UpsertKeepsRows, PromoteKeepsRows, PatchKeepsRows, DeleteKeepsRows

LEMMA RowsInit == Init => RowsAgree
<1> SUFFICES ASSUME Init PROVE RowsAgree
  OBVIOUS
<1>1. ASSUME NEW l \in Langs
      PROVE  doc[l].body = NoText /\ revs[l] = {}
  <2>1. revs[l] = {}
    BY DEF Init
  <2>2. doc[l] \in {NoRow, LegacyRow}
    <3>1. \/ doc = [x \in Langs |-> NoRow]
          \/ doc = [x \in Langs |-> IF x = "en" THEN LegacyRow ELSE NoRow]
      BY DEF Init
    <3> QED
      BY <3>1
  <2> QED
    <3>1. NoRow.body = NoText /\ LegacyRow.body = NoText
      BY DEF LegacyRow, NoRow
    <3> QED
      BY <2>1, <2>2, <3>1
<1> QED
  BY <1>1 DEF RowsAgree, HashMatchesBody, BodyIsRevision, PriorRevisionKept

-----------------------------------------------------------------------------
(***************************************************************************)
(* The runs.                                                               *)
(***************************************************************************)
\* the job of w goes on without touching its run, or gives it up
LEMMA RunsLeftAlone ==
  ASSUME TypeOK, RunsInv, NEW w \in Workers, UNCHANGED copied,
         \A r \in Runs : run'[r].status = run[r].status,
         \A v \in Workers \ {w} : pc'[v] = pc[v] /\ task'[v].run = task[v].run,
         \/ task'[w].run = NoRun
         \/ task'[w].run = task[w].run /\ pc[w] # "finish" /\ pc'[w] # "finish"
  PROVE  RunsInv'
<1>1. \A v \in Workers : task[v].run \in Runs \cup {NoRun}
  BY DEF TypeOK, Tasks
<1>2. OneJobPerRun'
  BY DEF RunsInv, OneJobPerRun
<1>3. RunningTillComplete'
  <2> SUFFICES ASSUME NEW v \in Workers, task'[v].run # NoRun
               PROVE  run'[task'[v].run].status \in
                        (IF pc'[v] = "finish" THEN {"completed", "promoted"} ELSE {"running"})
    BY DEF RunningTillComplete
  <2>1. task'[v].run = task[v].run /\ task[v].run \in Runs
    BY <1>1
  <2>2. pc'[v] = "finish" <=> pc[v] = "finish"
    OBVIOUS
  <2> QED
    BY <2>1, <2>2 DEF RunsInv, RunningTillComplete
<1>4. CopiedIsOver'
  BY DEF TypeOK, RunsInv, CopiedIsOver
<1> QED
  BY <1>2, <1>3, <1>4 DEF RunsInv

\* the job of w sets the status of its run
LEMMA RunsAdvance ==
  ASSUME TypeOK, RunsInv, NEW w \in Workers, UNCHANGED copied, NEW r \in Runs,
         NEW s \in RunStatuses,
         \A q \in Runs : run'[q].status = (IF q = r THEN s ELSE run[q].status),
         \A v \in Workers \ {w} :
           pc'[v] = pc[v] /\ task'[v].run = task[v].run /\ task[v].run # r,
         task'[w].run \in {r, NoRun},
         task'[w].run = r =>
           s \in (IF pc'[w] = "finish" THEN {"completed", "promoted"} ELSE {"running"}),
         r \in copied => s \in {"promoted", "failed"}
  PROVE  RunsInv'
<1>1. \A v \in Workers : task[v].run \in Runs \cup {NoRun}
  BY DEF TypeOK, Tasks
<1>2. OneJobPerRun'
  BY DEF RunsInv, OneJobPerRun
<1>3. RunningTillComplete'
  <2> SUFFICES ASSUME NEW v \in Workers, task'[v].run # NoRun
               PROVE  run'[task'[v].run].status \in
                        (IF pc'[v] = "finish" THEN {"completed", "promoted"} ELSE {"running"})
    BY DEF RunningTillComplete
  <2>1. CASE v = w
    BY <2>1
  <2>2. CASE v # w
    <3>1. task'[v].run = task[v].run /\ task[v].run \in Runs \ {r} /\ pc'[v] = pc[v]
      BY <1>1, <2>2
    <3> QED
      BY <3>1 DEF RunsInv, RunningTillComplete
  <2> QED
    BY <2>1, <2>2
<1>4. CopiedIsOver'
  BY DEF TypeOK, RunsInv, CopiedIsOver
<1> QED
  BY <1>2, <1>3, <1>4 DEF RunsInv

LEMMA StartKeepsRuns ==
  ASSUME TypeOK, RunsInv, NEW w \in Workers, Start(w)
  PROVE  RunsInv'
<1>1. NoTask.run = NoRun /\ task \in [Workers -> Tasks] /\ pc \in [Workers -> Pcs]
  BY DEF NoTask, TypeOK
<1>2. ASSUME NEW force \in BOOLEAN, NEW locales \in SUBSET Locales, StartIngest(w, force, locales)
      PROVE  RunsInv'
  <2>1. task'[w].run = NoRun /\ \A v \in Workers \ {w} : pc'[v] = pc[v] /\ task'[v] = task[v]
    BY <1>1, <1>2 DEF StartIngest, Begin, NoTask
  <2> QED
    BY <1>2, <2>1, RunsLeftAlone DEF StartIngest, corpusVars
<1>3. ASSUME NEW l \in Langs, StartRefresh(w, l)
      PROVE  RunsInv'
  <2>1. task'[w].run = NoRun /\ \A v \in Workers \ {w} : pc'[v] = pc[v] /\ task'[v] = task[v]
    BY <1>1, <1>3 DEF StartRefresh, Begin, NoTask
  <2> QED
    BY <1>3, <2>1, RunsLeftAlone DEF StartRefresh, corpusVars
<1>4. ASSUME NEW scope \in SUBSET Langs, NEW source \in Sources, StartBackfill(w, scope, source)
      PROVE  RunsInv'
  <2>1. task'[w].run = NoRun /\ \A v \in Workers \ {w} : pc'[v] = pc[v] /\ task'[v] = task[v]
    BY <1>1, <1>4 DEF StartBackfill, Begin, NoTask
  <2> QED
    BY <1>4, <2>1, RunsLeftAlone DEF StartBackfill, corpusVars
<1>5. ASSUME NEW scope \in SUBSET Langs, NEW source \in Sources, NEW r \in Runs \cup {NoRun},
             StartRebuild(w, scope, source, r)
      PROVE  RunsInv'
  <2>1. /\ task'[w].run = r /\ \A v \in Workers \ {w} : pc'[v] = pc[v] /\ task'[v] = task[v]
        /\ pc'[w] # "finish"
    BY <1>1, <1>5 DEF StartRebuild, Begin, NoTask, NextPc
  <2>2. CASE r = NoRun
    <3>1. UNCHANGED <<run, copied>>
      BY <1>5, <2>2 DEF StartRebuild
    <3> QED
      BY <2>1, <2>2, <3>1, RunsLeftAlone
  <2>3. CASE r # NoRun
    <3>1. /\ run[r].status = "none" /\ UNCHANGED copied
          /\ run' = [run EXCEPT ![r].status = "running", ![r].scope = scope]
      BY <1>5, <2>3 DEF StartRebuild
    <3>2. r \in Runs /\ "running" \in RunStatuses
      BY <2>3 DEF RunStatuses
    <3>3. \A q \in Runs : run'[q].status = (IF q = r THEN "running" ELSE run[q].status)
      <4>1. run \in [Runs -> RunRecords]
        BY DEF TypeOK
      <4> QED
        BY <3>1, <3>2, <4>1 DEF RunRecords
    <3>4. \A v \in Workers : task[v].run # r
      BY <2>3, <3>1 DEF RunsInv, RunningTillComplete
    <3>5. r \notin copied
      BY <3>1 DEF RunsInv, CopiedIsOver
    <3>6. \A v \in Workers \ {w} :
            pc'[v] = pc[v] /\ task'[v].run = task[v].run /\ task[v].run # r
      BY <2>1, <3>4
    <3>7. /\ "running" \in (IF pc'[w] = "finish" THEN {"completed", "promoted"} ELSE {"running"})
          /\ task'[w].run \in {r, NoRun}
      BY <2>1
    <3>8. UNCHANGED copied
      BY <3>1
    <3> QED
      BY <3>2, <3>3, <3>5, <3>6, <3>7, <3>8, RunsAdvance
  <2> QED
    BY <2>2, <2>3
<1> QED
  BY <1>2, <1>3, <1>4, <1>5 DEF Start

LEMMA StepKeepsRuns ==
  ASSUME TypeOK, RunsInv, NEW w \in Workers, Step(w)
  PROVE  RunsInv'
<1>0. /\ NoTask.run = NoRun /\ task \in [Workers -> Tasks] /\ pc \in [Workers -> Pcs]
      /\ run \in [Runs -> RunRecords]
      /\ task[w].run \in Runs \cup {NoRun}
  BY DEF NoTask, TypeOK, Tasks
<1>1. ASSUME Leave(w)
      PROVE  /\ task'[w].run = NoRun
             /\ \A v \in Workers \ {w} : pc'[v] = pc[v] /\ task'[v].run = task[v].run
  BY <1>0, <1>1 DEF Leave
<1>2. ASSUME UNCHANGED task, NEW p \in Pcs, Goto(w, p)
      PROVE  /\ task'[w].run = task[w].run /\ pc'[w] = p
             /\ \A v \in Workers \ {w} : pc'[v] = pc[v] /\ task'[v].run = task[v].run
  BY <1>0, <1>2 DEF Goto
<1>3. ASSUME Leave(w), UNCHANGED <<run, copied>>
      PROVE  RunsInv'
  BY <1>1, <1>3, RunsLeftAlone
<1>4. CASE Fetch(w) \/ Lookup(w) \/ \E l \in Langs : Read(w, l)
  <2>1. /\ UNCHANGED <<run, copied>> /\ pc[w] # "finish" /\ pc'[w] # "finish"
        /\ task'[w].run = task[w].run
        /\ \A v \in Workers \ {w} : pc'[v] = pc[v] /\ task'[v].run = task[v].run
    <3>1. CASE Fetch(w)
      BY <1>0, <3>1 DEF Fetch, Goto, corpusVars, Tasks
    <3>2. CASE Lookup(w)
      BY <1>0, <3>2 DEF Lookup, Goto, corpusVars, Tasks
    <3>3. ASSUME NEW l \in Langs, Read(w, l)
          PROVE  /\ UNCHANGED <<run, copied>> /\ pc[w] # "finish" /\ pc'[w] # "finish"
                 /\ task'[w].run = task[w].run
                 /\ \A v \in Workers \ {w} : pc'[v] = pc[v] /\ task'[v].run = task[v].run
      <4>1. /\ UNCHANGED <<run, copied>> /\ pc[w] = "read"
            /\ pc' = [pc EXCEPT ![w] = NextPc(task[w].todo \ {l})]
        BY <3>3 DEF Read, Goto, corpusVars
      <4>2. PICK lang, u : task' = [task EXCEPT ![w].todo = @ \ {l}, ![w].batch[lang] = u]
        BY <3>3 DEF Read
      <4> QED
        BY <1>0, <4>1, <4>2 DEF NextPc, Tasks
    <3> QED
      BY <1>4, <3>1, <3>2, <3>3
  <2> QED
    BY <2>1, RunsLeftAlone
<1>5. CASE Refetch(w)
  <2>1. CASE Leave(w)
    BY <1>3, <1>5, <2>1 DEF Refetch, corpusVars
  <2>2. CASE ~Leave(w)
    <3>1. /\ UNCHANGED <<run, copied>> /\ pc[w] # "finish" /\ pc'[w] # "finish"
          /\ task'[w].run = task[w].run
          /\ \A v \in Workers \ {w} : pc'[v] = pc[v] /\ task'[v].run = task[v].run
      BY <1>0, <1>5, <2>2 DEF Refetch, Goto, corpusVars, Tasks
    <3> QED
      BY <3>1, RunsLeftAlone
  <2> QED
    BY <2>1, <2>2
<1>6. CASE Translate(w)
  BY <1>3, <1>6 DEF Translate
<1>7. CASE WriteLive(w)
  <2>1. CASE Leave(w)
    BY <1>3, <1>7, <2>1 DEF WriteLive
  <2>2. CASE ~Leave(w)
    <3>1. /\ UNCHANGED <<run, copied, task>> /\ pc[w] = "write" /\ Goto(w, "translate")
          /\ "translate" \in Pcs
      BY <1>7, <2>2 DEF WriteLive, Pcs
    <3> QED
      BY <1>2, <3>1, RunsLeftAlone
  <2> QED
    BY <2>1, <2>2
<1>8. CASE WriteDryRun(w)
  <2>1. UNCHANGED <<copied, task>> /\ pc[w] = "write" /\ Goto(w, "complete") /\ "complete" \in Pcs
    BY <1>8 DEF WriteDryRun, Pcs
  <2>2. \A r \in Runs : run'[r].status = run[r].status
    <3>1. task[w].batch \in Batches /\ task[w].run \in Runs
      BY <1>0, <1>8 DEF WriteDryRun, Tasks
    <3> QED
      BY <1>8, <3>1, ShadowTyped DEF WriteDryRun
  <2> QED
    BY <1>2, <2>1, <2>2, RunsLeftAlone
<1>9. CASE Complete(w)
  <2>1. /\ UNCHANGED <<copied, task>> /\ pc[w] = "complete" /\ Goto(w, "finish")
        /\ "finish" \in Pcs /\ "completed" \in RunStatuses
        /\ run' = [run EXCEPT ![task[w].run].status = "completed"]
    BY <1>9 DEF Complete, Pcs, RunStatuses
  <2>2. task[w].run # NoRun
    BY <2>1 DEF TypeOK
  <2>3. task[w].run \in Runs
    BY <1>0, <2>2
  <2>4. \A q \in Runs : run'[q].status = (IF q = task[w].run THEN "completed" ELSE run[q].status)
    BY <1>0, <2>1, <2>3 DEF RunRecords
  <2>5. \A v \in Workers \ {w} : task[v].run # task[w].run
    BY <2>2 DEF RunsInv, OneJobPerRun
  <2>6. task[w].run \notin copied
    <3>1. run[task[w].run].status = "running"
      BY <2>1, <2>2 DEF RunsInv, RunningTillComplete
    <3> QED
      BY <3>1 DEF RunsInv, CopiedIsOver
  <2>7. /\ task'[w].run = task[w].run /\ pc'[w] = "finish"
        /\ \A v \in Workers \ {w} : pc'[v] = pc[v] /\ task'[v].run = task[v].run
    BY <1>2, <2>1
  <2>8. /\ \A v \in Workers \ {w} :
             pc'[v] = pc[v] /\ task'[v].run = task[v].run /\ task[v].run # task[w].run
        /\ "completed" \in (IF pc'[w] = "finish" THEN {"completed", "promoted"} ELSE {"running"})
        /\ task'[w].run \in {task[w].run, NoRun}
        /\ UNCHANGED copied
    BY <2>1, <2>5, <2>7
  <2> QED
    BY <2>1, <2>3, <2>4, <2>6, <2>8, RunsAdvance
<1>10. CASE Finish(w)
  BY <1>3, <1>10 DEF Finish, corpusVars
<1>11. CASE Fail(w)
  <2>1. Leave(w) /\ UNCHANGED copied
    BY <1>11 DEF Fail
  <2>2. CASE UNCHANGED run
    BY <1>3, <2>1, <2>2
  <2>3. CASE task[w].run # NoRun /\ run' = [run EXCEPT ![task[w].run].status = "failed"]
    <3>1. task[w].run \in Runs /\ "failed" \in RunStatuses
      BY <1>0, <2>3 DEF RunStatuses
    <3>2. \A q \in Runs : run'[q].status = (IF q = task[w].run THEN "failed" ELSE run[q].status)
      BY <1>0, <2>3, <3>1 DEF RunRecords
    <3>3. /\ \A v \in Workers \ {w} :
               pc'[v] = pc[v] /\ task'[v].run = task[v].run /\ task[v].run # task[w].run
          /\ task'[w].run = NoRun
      BY <1>1, <2>1, <2>3 DEF RunsInv, OneJobPerRun
    <3>4. task'[w].run # task[w].run /\ task'[w].run \in {task[w].run, NoRun}
      BY <2>3, <3>3
    <3> QED
      BY <2>1, <3>1, <3>2, <3>3, <3>4, RunsAdvance
  <2> QED
    BY <1>11, <2>2, <2>3 DEF Fail
<1> QED
  BY <1>4, <1>5, <1>6, <1>7, <1>8, <1>9, <1>10, <1>11 DEF Step

\* neither the status of a run nor who works on it changes
LEMMA RunsUntouched ==
  ASSUME TypeOK, RunsInv, UNCHANGED <<copied, pc>>,
         \A r \in Runs : run'[r].status = run[r].status,
         \A w \in Workers : task'[w].run = task[w].run
  PROVE  RunsInv'
<1>1. \A w \in Workers : task[w].run \in Runs \cup {NoRun}
  BY DEF TypeOK, Tasks
<1>2. OneJobPerRun'
  BY DEF RunsInv, OneJobPerRun
<1>3. RunningTillComplete'
  BY <1>1 DEF RunsInv, RunningTillComplete
<1>4. CopiedIsOver'
  BY DEF TypeOK, RunsInv, CopiedIsOver
<1> QED
  BY <1>2, <1>3, <1>4 DEF RunsInv

LEMMA PromoteKeepsRuns ==
  ASSUME TypeOK, RunsInv, NEW r \in Runs, Promote(r)
  PROVE  RunsInv'
<1>1. /\ run[r].status = "completed" /\ UNCHANGED <<pc, task>> /\ copied' = copied \cup {r}
      /\ run' = [run EXCEPT ![r].status = "promoted"]
  BY DEF Promote, Promotable
<1>2. \A q \in Runs : run'[q].status = (IF q = r THEN "promoted" ELSE run[q].status)
  <2>1. run \in [Runs -> RunRecords]
    BY DEF TypeOK
  <2> QED
    BY <1>1, <2>1 DEF RunRecords
<1>3. \A w \in Workers : task[w].run \in Runs \cup {NoRun}
  BY DEF TypeOK, Tasks
<1>4. OneJobPerRun'
  BY <1>1 DEF RunsInv, OneJobPerRun
<1>5. RunningTillComplete'
  BY <1>1, <1>2, <1>3 DEF RunsInv, RunningTillComplete
<1>6. CopiedIsOver'
  BY <1>1, <1>2 DEF TypeOK, RunsInv, CopiedIsOver
<1> QED
  BY <1>4, <1>5, <1>6 DEF RunsInv

LEMMA RunsKept ==
  ASSUME TypeOK, RunsInv, [Next]_vars
  PROVE  RunsInv'
<1>1. ASSUME NEW l \in Langs, DeleteDocument(l)
      PROVE  RunsInv'
  <2>1. \A r \in Runs : run'[r].status = run[r].status
    <3>1. run \in [Runs -> RunRecords]
      BY DEF TypeOK
    <3> QED
      BY <1>1, <3>1 DEF DeleteDocument, RunRecords
  <2> QED
    BY <1>1, <2>1, RunsUntouched DEF DeleteDocument
<1>2. ASSUME NEW l \in Langs, NEW lang \in Langs, NEW draft \in BOOLEAN,
             PatchDocument(l, lang, draft)
      PROVE  RunsInv'
  <2>1. run \in [Runs -> RunRecords] /\ task \in [Workers -> Tasks]
    BY DEF TypeOK
  <2>2. \A r \in Runs : run'[r].status = run[r].status
    BY <1>2, <2>1 DEF PatchDocument, RunRecords
  <2>3. \A w \in Workers : task'[w].run = task[w].run
    BY <1>2, <2>1 DEF PatchDocument, Tasks
  <2> QED
    BY <1>2, <2>2, <2>3, RunsUntouched DEF PatchDocument
<1>3. CASE Operator
  <2>1. \A l \in Langs : {l} \cup Relabels \subseteq Langs
    BY CorpusAssumption
  <2> QED
    BY <1>1, <1>2, <1>3, <2>1, PromoteKeepsRuns DEF Operator
<1>4. CASE PageChanges \/ UNCHANGED vars
  BY <1>4, RunsUntouched DEF PageChanges, vars
<1> QED
  BY <1>3, <1>4, StartKeepsRuns, StepKeepsRuns DEF Next

LEMMA RunsInit == Init => RunsInv
  BY DEF Init, NoTask, RunsInv, OneJobPerRun, RunningTillComplete, CopiedIsOver

-----------------------------------------------------------------------------
(***************************************************************************)
(* The shadow chunks of a run whose job has completed it.                  *)
(***************************************************************************)
Over(r) == run[r].status \in {"completed", "promoted"}

\* what there is in shadow chunks was there before, if under another key
Frozen(r) ==
  \A l \in Langs : run'[r].shadow[l] # <<>> =>
    \E x \in Langs : run[r].shadow[x] = run'[r].shadow[l]

\* whoever moves or drops rows
LEMMA OperatorFreezes ==
  ASSUME TypeOK, Operator, NEW r \in Runs
  PROVE  Frozen(r)
<1>1. run \in [Runs -> RunRecords] /\ run[r] \in RunRecords
  BY DEF TypeOK
<1>2. ASSUME NEW q \in Runs, Promote(q)
      PROVE  Frozen(r)
  BY <1>1, <1>2 DEF Promote, RunRecords, Frozen
<1>3. ASSUME NEW l \in Langs, DeleteDocument(l)
      PROVE  Frozen(r)
  <2>1. run'[r].shadow = [run[r].shadow EXCEPT ![l] = <<>>]
    BY <1>1, <1>3 DEF DeleteDocument, RunRecords
  <2> QED
    BY <1>1, <2>1 DEF RunRecords, Frozen
<1>4. ASSUME NEW l \in Langs, NEW lang \in Langs, NEW draft \in BOOLEAN,
             PatchDocument(l, lang, draft)
      PROVE  Frozen(r)
  <2>1. run'[r].shadow =
          [x \in Langs |-> run[r].shadow[IF lang = l THEN x ELSE Other(x)]]
    BY <1>1, <1>4 DEF PatchDocument, RunRecords
  <2> QED
    BY <2>1, Others DEF Frozen
<1>5. \A l \in Langs : {l} \cup Relabels \subseteq Langs
  BY CorpusAssumption
<1> QED
  BY <1>2, <1>3, <1>4, <1>5 DEF Operator

\* a job writes shadow chunks only into a run that is still running
LEMMA JobFreezes ==
  ASSUME TypeOK, RunsInv, NEW w \in Workers, Start(w) \/ Step(w), NEW r \in Runs, Over(r)
  PROVE  Frozen(r)
<1>1. run \in [Runs -> RunRecords] /\ run[r] \in RunRecords /\ task[w] \in Tasks
  BY DEF TypeOK
<1>2. SUFFICES ASSUME run'[r].shadow # run[r].shadow
               PROVE  FALSE
  BY DEF Frozen
<1>3. CASE Start(w)
  <2>1. PICK scope \in SUBSET Langs, source \in Sources, q \in Runs \cup {NoRun} :
          StartRebuild(w, scope, source, q)
    BY <1>2, <1>3 DEF Start, StartIngest, StartRefresh, StartBackfill, corpusVars
  <2> QED
    BY <1>1, <1>2, <2>1 DEF StartRebuild, Over, RunRecords
<1>4. CASE Step(w)
  <2>1. CASE WriteDryRun(w)
    <3>1. pc[w] = "write" /\ task[w].run # NoRun
      BY <2>1 DEF WriteDryRun
    <3>2. run[task[w].run].status = "running"
      BY <3>1 DEF RunsInv, RunningTillComplete
    <3>3. r # task[w].run
      BY <3>2 DEF Over
    <3>4. task[w].batch \in Batches /\ task[w].run \in Runs
      BY <1>1, <3>1 DEF Tasks
    <3> QED
      BY <1>2, <2>1, <3>3, <3>4, ShadowTyped DEF WriteDryRun
  <2>2. CASE Complete(w)
    <3>1. run' = [run EXCEPT ![task[w].run].status = "completed"]
      BY <2>2 DEF Complete
    <3> QED
      BY <1>1, <1>2, <3>1 DEF RunRecords
  <2>3. CASE Fail(w)
    <3>1. CASE UNCHANGED run
      BY <1>2, <3>1
    <3>2. CASE run' = [run EXCEPT ![task[w].run].status = "failed"]
      BY <1>1, <1>2, <3>2 DEF RunRecords
    <3> QED
      BY <2>3, <3>1, <3>2 DEF Fail
  <2> QED
    BY <1>2, <1>4, <2>1, <2>2, <2>3
       DEF Step, Fetch, Lookup, Translate, Refetch, Read, WriteLive, Finish, corpusVars
<1> QED
  BY <1>3, <1>4

LEMMA StepFreezes ==
  ASSUME TypeOK, RunsInv, [Next]_vars, NEW r \in Runs, Over(r)
  PROVE  Frozen(r)
<1>1. CASE PageChanges \/ UNCHANGED vars
  BY <1>1 DEF PageChanges, vars, Frozen
<1> QED
  BY <1>1, OperatorFreezes, JobFreezes DEF Next

-----------------------------------------------------------------------------
(***************************************************************************)
(* The results.                                                            *)
(***************************************************************************)
CorpusInv == TypeOK /\ RowsAgree /\ RunsInv

(***************************************************************************)
(* The inductive invariant: rows agree with their hashes and revisions,    *)
(* and a run belongs to one job until that job has completed it.           *)
(***************************************************************************)
THEOREM CorpusInvariant == Spec => []CorpusInv
<1>1. Init => CorpusInv
  BY InitTyped, RowsInit, RunsInit DEF CorpusInv
<1>2. CorpusInv /\ [Next]_vars => CorpusInv'
  BY NextTyped, RowsKept, RunsKept DEF CorpusInv
<1> QED
  BY <1>1, <1>2, PTL DEF Spec

(***************************************************************************)
(* Whatever jobs, promotions and relabellings overlap, the hash the ingest *)
(* skip compares with is that of the stored body, the stored body is among *)
(* its revisions, so what one job overwrites of another can be found       *)
(* again, and a promotion never leaves a row with the promoted one alone.  *)
(***************************************************************************)
THEOREM RowsAlwaysAgree == Spec => []RowsAgree
<1>1. CorpusInv => RowsAgree
  BY DEF CorpusInv
<1> QED
  BY <1>1, CorpusInvariant, PTL

(***************************************************************************)
(* The shadow chunks of a run are copied into the live rows once, also     *)
(* when its worker marks the run failed after the promotion.               *)
(***************************************************************************)
THEOREM PromotedOnce == Spec => CopiedOnce
<1>1. CorpusInv => (\A r \in Runs : Promote(r) => r \notin copied)
  BY DEF CorpusInv, RunsInv, CopiedIsOver, Promote, Promotable
<1> QED
  BY <1>1, CorpusInvariant, PTL DEF CopiedOnce

(***************************************************************************)
(* What was evaluated is what gets promoted: once its job has completed a  *)
(* run, no worker changes its shadow chunks again.                         *)
(***************************************************************************)
THEOREM ShadowFrozen == Spec => CompletedIsFrozen
<1>1. CorpusInv /\ [Next]_vars =>
        \A r \in Runs : run[r].status \in {"completed", "promoted"} =>
          \A l \in Langs : run'[r].shadow[l] # <<>> =>
            \E x \in Langs : run[r].shadow[x] = run'[r].shadow[l]
  BY StepFreezes DEF CorpusInv, Over, Frozen
<1> QED
  BY <1>1, CorpusInvariant, PTL DEF Spec, CompletedIsFrozen

-----------------------------------------------------------------------------
(***************************************************************************)
(* The chunks and the body of a row, when one job is at work at a time.    *)
(***************************************************************************)
ChunksAre(chunks, t) == \A i \in 1..Len(chunks) : chunks[i] = t

\* a row without a hash is empty, any other is cut from the text of its hash
Cut(row, l) ==
  IF row.hash = NoText THEN row.body = NoText /\ row.chunks = <<>>
  ELSE row.hash.lang = l /\ ChunksAre(row.chunks, row.hash)

\* what a job is about to write into a row with these chunks: its own chunks are
\* cut from its text, and if it has none those of the row are
Fits(u, l, chunks) ==
  u # NoUpsert => /\ u.text.lang = l
                  /\ ChunksAre(u.chunks, u.text)
                  /\ u.chunks = <<>> => ChunksAre(chunks, u.text)

OneJobInv ==
  /\ \A l \in Langs : Cut(doc[l], l)
  /\ \A w \in Workers : /\ task[w].kind # "backfill"
                        /\ \A l \in Langs : Fits(task[w].batch[l], l, doc[l].chunks)

LEMMA ChunksOfText ==
  ASSUME NEW t \in Texts, NEW n \in Nat \ {0}
  PROVE  /\ ChunksAre([i \in 1..n |-> t], t)
         /\ [i \in 1..n |-> t] # <<>>
<1> DEFINE cs == [i \in 1..n |-> t]
<1>1. cs \in Seq(Texts)
  BY Sequences
<1>2. Len(cs) = n
  <2>1. DOMAIN cs = 1..n
    OBVIOUS
  <2> HIDE DEF cs
  <2>2. Len(cs) \in Nat /\ 1..Len(cs) = 1..n
    BY <1>1, <2>1
  <2> QED
    BY <2>2
<1>3. \A i \in 1..n : cs[i] = t
  OBVIOUS
<1> HIDE DEF cs
<1>4. ChunksAre(cs, t) /\ cs # <<>>
  BY <1>2, <1>3 DEF ChunksAre
<1> QED
  BY <1>4 DEF cs

LEMMA PublishedFits ==
  ASSUME NEW t \in Texts, NEW chunks
  PROVE  Fits(Published(t, ChunksOf(t)), t.lang, chunks)
<1>1. ChunkCount(t.lang) \in Nat \ {0}
  BY CorpusAssumption DEF ChunkCount
<1>2. ChunksAre(ChunksOf(t), t) /\ ChunksOf(t) # <<>>
  BY <1>1, ChunksOfText DEF ChunksOf
<1> QED
  BY <1>2 DEF Fits, Published

\* a write of texts that fit leaves rows cut from their hashes, and still fits
LEMMA UpsertFits ==
  ASSUME TypeOK, \A l \in Langs : Cut(doc[l], l), NEW batch \in Batches, Upsert(batch),
         \A l \in Langs : Fits(batch[l], l, doc[l].chunks)
  PROVE  \A l \in Langs : Cut(doc'[l], l) /\ Fits(batch[l], l, doc'[l].chunks)
<1> SUFFICES ASSUME NEW l \in Langs
             PROVE  Cut(doc'[l], l) /\ Fits(batch[l], l, doc'[l].chunks)
  OBVIOUS
<1>1. CASE batch[l] = NoUpsert
  <2>1. doc'[l] = doc[l]
    BY <1>1 DEF Upsert
  <2> QED
    BY <1>1, <2>1 DEF Fits
<1>2. CASE batch[l] # NoUpsert
  <2>1. batch[l].text # NoText
    BY <1>2, NoTextAssumption DEF Batches, Upserts
  <2>2. /\ doc'[l].hash = batch[l].text
        /\ doc'[l].chunks = IF batch[l].chunks = <<>> THEN doc[l].chunks ELSE batch[l].chunks
    BY <1>2 DEF Upsert, Upserted
  <2>3. batch[l].text.lang = l /\ ChunksAre(doc'[l].chunks, batch[l].text)
    BY <1>2, <2>2 DEF Fits
  <2> QED
    BY <1>2, <2>1, <2>2, <2>3 DEF Cut, Fits
<1> QED
  BY <1>1, <1>2

\* a job goes on with the task t, and writes nothing yet
LEMMA JobFits ==
  ASSUME TypeOK, OneJobInv, NEW w \in Workers, NEW t, UNCHANGED doc,
         task' = [task EXCEPT ![w] = t], t.kind # "backfill",
         \A l \in Langs : Fits(t.batch[l], l, doc[l].chunks)
  PROVE  OneJobInv'
BY DEF OneJobInv, TypeOK

\* one more document in its batch
LEMMA ReadFits ==
  ASSUME TypeOK, OneJobInv, NEW w \in Workers, UNCHANGED doc,
         NEW k \in Langs, NEW u, Fits(u, k, doc[k].chunks),
         task'[w].kind = task[w].kind, task'[w].batch = [task[w].batch EXCEPT ![k] = u],
         \A v \in Workers \ {w} : task'[v] = task[v]
  PROVE  OneJobInv'
<1>1. task[w].batch \in Batches
  BY DEF TypeOK, Tasks
<1>2. \A l \in Langs : Fits(task'[w].batch[l], l, doc[l].chunks)
  <2> SUFFICES ASSUME NEW l \in Langs PROVE Fits(task'[w].batch[l], l, doc[l].chunks)
    OBVIOUS
  <2>1. CASE l = k
    BY <1>1, <2>1 DEF Batches
  <2>2. CASE l # k
    BY <1>1, <2>2 DEF Batches, OneJobInv
  <2> QED
    BY <2>1, <2>2
<1> QED
  BY <1>2 DEF OneJobInv

LEMMA EmptyFits ==
  /\ NoTask.kind # "backfill"
  /\ \A l \in Langs : NoTask.batch[l] = NoUpsert
BY DEF NoTask, NoBatch

LEMMA LeaveFits ==
  ASSUME TypeOK, OneJobInv, NEW w \in Workers, UNCHANGED doc, Leave(w)
  PROVE  OneJobInv'
BY EmptyFits, JobFits DEF Leave, Fits

LEMMA StartFits ==
  ASSUME TypeOK, OneJobInv, NEW w \in Workers, Start(w), "backfill" \notin Kinds
  PROVE  OneJobInv'
<1>1. ASSUME NEW force, NEW locales, StartIngest(w, force, locales)
      PROVE  OneJobInv'
  <2> DEFINE t == [NoTask EXCEPT !.force = force, !.locales = locales]
  <2>1. t.kind = NoTask.kind /\ t.batch = NoTask.batch
    BY DEF NoTask
  <2> QED
    <3>1. task' = [task EXCEPT ![w] = t] /\ UNCHANGED doc
      BY <1>1 DEF StartIngest, Begin, corpusVars
    <3> HIDE DEF t
    <3>2. \A x \in Langs : Fits(t.batch[x], x, doc[x].chunks)
      BY <2>1, EmptyFits DEF Fits
    <3> QED
      BY <2>1, <3>1, <3>2, EmptyFits, JobFits
<1>2. ASSUME NEW l, StartRefresh(w, l)
      PROVE  OneJobInv'
  <2>1. PICK h \in StoredHashes :
          Begin(w, "refetch", [NoTask EXCEPT !.kind = "refresh", !.hash = h])
    BY <1>2 DEF StartRefresh
  <2> DEFINE t == [NoTask EXCEPT !.kind = "refresh", !.hash = h]
  <2>2. t.kind = "refresh" /\ t.batch = NoTask.batch
    BY DEF NoTask
  <2> QED
    <3>1. task' = [task EXCEPT ![w] = t] /\ UNCHANGED doc
      BY <1>2, <2>1 DEF StartRefresh, Begin, corpusVars
    <3> HIDE DEF t
    <3>2. \A x \in Langs : Fits(t.batch[x], x, doc[x].chunks)
      BY <2>2, EmptyFits DEF Fits
    <3> QED
      BY <2>2, <3>1, <3>2, JobFits
<1>3. ASSUME NEW scope, NEW source, NEW r, StartRebuild(w, scope, source, r)
      PROVE  OneJobInv'
  <2> DEFINE t == [NoTask EXCEPT !.kind = "rebuild", !.source = source, !.todo = scope, !.run = r]
  <2>1. t.kind = "rebuild" /\ t.batch = NoTask.batch
    BY DEF NoTask
  <2> QED
    <3>1. task' = [task EXCEPT ![w] = t] /\ UNCHANGED doc
      BY <1>3 DEF StartRebuild, Begin
    <3> HIDE DEF t
    <3>2. \A x \in Langs : Fits(t.batch[x], x, doc[x].chunks)
      BY <2>1, EmptyFits DEF Fits
    <3> QED
      BY <2>1, <3>1, <3>2, JobFits
<1> QED
  BY <1>1, <1>2, <1>3 DEF Start, StartBackfill

LEMMA StepFits ==
  ASSUME TypeOK, RowsAgree, OneJobInv, NEW w \in Workers, Step(w), \A v \in Workers : v = w
  PROVE  OneJobInv'
<1>0. /\ task \in [Workers -> Tasks] /\ task[w] \in Tasks /\ task[w].batch \in Batches
      /\ page \in Texts /\ page.lang \in Langs
      /\ \A l \in Langs : Cut(doc[l], l) /\ Fits(task[w].batch[l], l, doc[l].chunks)
      /\ task[w].kind # "backfill"
  BY DEF TypeOK, Tasks, Texts, OneJobInv
<1>1. CASE Fetch(w)
  <2>1. task'[w].kind = task[w].kind /\ task'[w].batch = task[w].batch
        /\ UNCHANGED doc
    BY <1>0, <1>1 DEF Fetch, Tasks, corpusVars
  <2> QED
    BY <2>1, <1>0 DEF OneJobInv
<1>2. CASE Lookup(w)
  <2> DEFINE t == task[w].text
  <2>1. t \in Texts /\ t.lang \in Langs /\ t # NoText
    BY <1>0, <1>2 DEF Lookup, TypeOK, Tasks, MaybeText, Texts
  <2>2. PICK hash \in StoredHashes :
          task' = [task EXCEPT ![w].batch[t.lang] =
                      Published(t, IF Skips(t, hash, task[w].force) THEN <<>> ELSE ChunksOf(t)),
                               ![w].text = NoText, ![w].force = FALSE]
    BY <1>2 DEF Lookup
  <2> DEFINE u == Published(t, IF Skips(t, hash, task[w].force) THEN <<>> ELSE ChunksOf(t))
  <2>3. Fits(u, t.lang, doc[t.lang].chunks)
    <3>1. CASE Skips(t, hash, task[w].force)
      <4>1. hash = t /\ u = Published(t, <<>>)
        BY <3>1 DEF Skips
      <4>2. PICK l \in Langs : doc[l].hash = t
        BY <2>1, <4>1 DEF StoredHashes, LiveRows
      <4>3. l = t.lang /\ ChunksAre(doc[l].chunks, t)
        BY <1>0, <2>1, <4>2 DEF Cut
      <4> HIDE DEF t, u
      <4> QED
        BY <4>1, <4>3 DEF Fits, Published, ChunksAre
    <3>2. CASE ~Skips(t, hash, task[w].force)
      BY <2>1, <3>2, PublishedFits
    <3> QED
      BY <3>1, <3>2
  <2> HIDE DEF u
  <2>4. /\ task'[w].kind = task[w].kind /\ task'[w].batch = [task[w].batch EXCEPT ![t.lang] = u]
        /\ UNCHANGED doc
    BY <1>0, <1>2, <2>2 DEF Tasks, u, Lookup, corpusVars
  <2> QED
    BY <2>1, <2>3, <2>4, ReadFits
<1>3. CASE Refetch(w)
  <2>1. CASE Leave(w)
    BY <1>3, <2>1, LeaveFits DEF Refetch, corpusVars
  <2>2. CASE ~Leave(w)
    <3> DEFINE u == Published(page, ChunksOf(page))
    <3>1. Fits(u, page.lang, doc[page.lang].chunks)
      BY <1>0, PublishedFits
    <3>2. task' = [task EXCEPT ![w].batch[page.lang] = u, ![w].hash = NoText] /\ UNCHANGED doc
      BY <1>3, <2>2 DEF Refetch, corpusVars
    <3> HIDE DEF u
    <3>3. task'[w].kind = task[w].kind /\ task'[w].batch = [task[w].batch EXCEPT ![page.lang] = u]
      BY <1>0, <3>2 DEF Tasks
    <3> QED
      BY <1>0, <3>1, <3>2, <3>3, ReadFits
  <2> QED
    BY <2>1, <2>2
<1>4. ASSUME NEW l \in Langs, Read(w, l)
      PROVE  OneJobInv'
  <2> DEFINE store == task[w].source = "store"
             t     == IF store THEN Detail(l) ELSE page
             lang  == IF store THEN l ELSE page.lang
             u     == Published(t, ChunksOf(t))
  <2>1. t \in Texts
    <3>1. t # NoText
      BY <1>4 DEF Read
    <3> QED
      BY <1>0, <3>1, DetailTyped DEF MaybeText
  <2>2. t.lang = lang /\ lang \in Langs
    <3>1. CASE store
      <4>1. CASE doc[l].body # NoText
        <5>1. doc[l].hash = doc[l].body /\ Detail(l) = doc[l].body
          BY <4>1 DEF Detail, RowsAgree, HashMatchesBody
        <5> QED
          BY <1>0, <3>1, <4>1, <5>1 DEF Cut
      <4>2. CASE doc[l].body = NoText
        <5>1. /\ doc[l].chunks # <<>> /\ doc[l].chunks \in Seq(Texts)
              /\ Detail(l) = [doc[l].chunks[1] EXCEPT !.form = "joined"]
          <6>1. Detail(l) # NoText
            BY <2>1, <3>1, NoTextAssumption
          <6> QED
            BY <4>2, <6>1 DEF Detail, TypeOK, Rows
        <5>2. 1 \in 1..Len(doc[l].chunks) /\ doc[l].chunks[1] \in Texts
          BY <5>1, ElementOfSeq
        <5>3. doc[l].chunks[1].lang = l
          BY <1>0, <5>1, <5>2 DEF Cut, ChunksAre
        <5>4. Detail(l).lang = l
          BY <5>1, <5>2, <5>3 DEF Texts
        <5> QED
          BY <3>1, <5>4
      <4> QED
        BY <4>1, <4>2
    <3>2. CASE ~store
      BY <1>0, <3>2
    <3> QED
      BY <3>1, <3>2
  <2>3. /\ task' = [task EXCEPT ![w].todo = @ \ {l}, ![w].batch[lang] = u]
        /\ UNCHANGED doc
    BY <1>0, <1>4 DEF Read, corpusVars
  <2>4. Fits(u, lang, doc[lang].chunks)
    BY <2>1, <2>2, PublishedFits
  <2> HIDE DEF t, lang, u
  <2>5. task'[w].kind = task[w].kind /\ task'[w].batch = [task[w].batch EXCEPT ![lang] = u]
    BY <1>0, <2>3 DEF Tasks
  <2> QED
    BY <2>2, <2>3, <2>4, <2>5, ReadFits
<1>5. CASE Translate(w)
  <2>1. PICK l \in Langs :
          /\ task[w].batch[l] # NoUpsert
          /\ LET t == Translation(task[w].batch[l].text)
             IN  Upsert([NoBatch EXCEPT ![t.lang] =
                           [text |-> t, chunks |-> [i \in 1..ChunkCount(l) |-> t], draft |-> TRUE]])
    BY <1>5 DEF Translate
  <2> DEFINE t == Translation(task[w].batch[l].text)
             u == [text |-> t, chunks |-> [i \in 1..ChunkCount(l) |-> t], draft |-> TRUE]
             batch == [NoBatch EXCEPT ![t.lang] = u]
  <2>2. t \in Texts /\ t.lang \in Langs
    <3>1. task[w].batch[l].text \in Texts
      BY <1>0, <2>1 DEF Batches, Upserts
    <3> QED
      BY <3>1, Others DEF Translation, Texts
  <2>3. ChunkCount(l) \in Nat \ {0}
    BY CorpusAssumption DEF ChunkCount
  <2> HIDE DEF t
  <2>4. \A chunks : Fits(u, t.lang, chunks)
    BY <2>2, <2>3, ChunksOfText DEF Fits
  <2>5. batch \in Batches
    <3>1. u \in Upserts
      BY <2>2, <2>3, Sequences DEF Upserts
    <3> QED
      BY <3>1, EmptyTyped DEF Batches
  <2> HIDE DEF u
  <2>6. \A x \in Langs : Fits(batch[x], x, doc[x].chunks)
    BY <2>2, <2>4 DEF NoBatch, Fits
  <2>7. Upsert(batch)
    BY <2>1 DEF t, u
  <2> HIDE DEF batch
  <2>8. \A x \in Langs : Cut(doc'[x], x)
    BY <1>0, <2>5, <2>6, <2>7, UpsertFits
  <2>9. task'[w] = NoTask
    BY <1>0, <1>5 DEF Translate, Leave
  <2> QED
    BY <2>8, <2>9, EmptyFits DEF OneJobInv, Fits
<1>6. CASE WriteLive(w)
  <2>1. \A x \in Langs : Cut(doc'[x], x) /\ Fits(task[w].batch[x], x, doc'[x].chunks)
    BY <1>0, <1>6, UpsertFits DEF WriteLive
  <2>2. task'[w] = NoTask \/ task'[w] = task[w]
    BY <1>0, <1>6 DEF WriteLive, Leave
  <2> QED
    BY <1>0, <2>1, <2>2, EmptyFits DEF OneJobInv, Fits
<1>7. CASE WriteDryRun(w) \/ Complete(w)
  BY <1>7 DEF WriteDryRun, Complete, OneJobInv
<1>8. CASE Finish(w) \/ Fail(w)
  BY <1>8, LeaveFits DEF Finish, Fail, corpusVars
<1> QED
  BY <1>1, <1>2, <1>3, <1>4, <1>5, <1>6, <1>7, <1>8 DEF Step

LEMMA OperatorFits ==
  ASSUME TypeOK, OneJobInv, Operator, Runs = {}, Relabels = {}
  PROVE  OneJobInv'
<1>1. ASSUME NEW l \in Langs, DeleteDocument(l)
      PROVE  OneJobInv'
  <2>1. UNCHANGED task
    BY <1>1 DEF DeleteDocument
  <2>2. ASSUME NEW x \in Langs
        PROVE  doc'[x] = doc[x] \/ doc'[x] = NoRow
    BY <1>1, <2>2 DEF DeleteDocument, TypeOK
  <2>3. Cut(NoRow, "en") /\ Cut(NoRow, "es")
    BY DEF Cut, NoRow
  <2>4. \A x \in Langs : Cut(doc'[x], x)
    BY <2>2, <2>3 DEF OneJobInv, Langs
  <2>5. ASSUME NEW w \in Workers, NEW x \in Langs
        PROVE  Fits(task[w].batch[x], x, doc'[x].chunks)
    <3>1. Fits(task[w].batch[x], x, doc[x].chunks)
      BY DEF OneJobInv
    <3>2. ChunksAre(NoRow.chunks, task[w].batch[x].text)
      BY DEF NoRow, ChunksAre
    <3> QED
      BY <2>2, <3>1, <3>2 DEF Fits
  <2> QED
    BY <2>1, <2>4, <2>5 DEF OneJobInv
<1>2. ASSUME NEW l \in Langs, NEW draft \in BOOLEAN, PatchDocument(l, l, draft)
      PROVE  OneJobInv'
  <2>1. task \in [Workers -> Tasks] /\ doc \in [Langs -> Rows]
    BY DEF TypeOK
  <2>2. \A w \in Workers : task'[w].kind = task[w].kind /\ task'[w].batch = task[w].batch
    BY <1>2, <2>1 DEF PatchDocument, Tasks
  <2>3. \A x \in Langs : /\ doc'[x].hash = doc[x].hash /\ doc'[x].body = doc[x].body
                         /\ doc'[x].chunks = doc[x].chunks
    BY <1>2, <2>1 DEF PatchDocument, Rows
  <2> QED
    BY <2>2, <2>3 DEF OneJobInv, Cut
<1> QED
  BY <1>1, <1>2 DEF Operator

LEMMA OneJobInit == Init => OneJobInv
<1> SUFFICES ASSUME Init PROVE OneJobInv
  OBVIOUS
<1>1. \A w \in Workers : task[w] = NoTask
  BY DEF Init
<1>2. ASSUME NEW l \in Langs
      PROVE  Cut(doc[l], l)
  <2>1. doc[l] = NoRow \/ (l = "en" /\ doc[l] = LegacyRow)
    BY DEF Init
  <2>2. Cut(NoRow, l)
    BY DEF Cut, NoRow
  <2>3. Cut(LegacyRow, "en")
    <3>1. LegacyText \in Texts
      BY CorpusAssumption DEF LegacyText, Texts, Langs
    <3>2. ChunksAre(ChunksOf(LegacyText), LegacyText)
      BY <3>1, CorpusAssumption, ChunksOfText DEF ChunksOf, ChunkCount
    <3>3. LegacyRow.hash = LegacyText /\ LegacyRow.chunks = ChunksOf(LegacyText)
      BY DEF LegacyRow, NoRow
    <3>4. LegacyText.lang = "en" /\ LegacyText # NoText
      BY <3>1, NoTextAssumption DEF LegacyText
    <3> QED
      BY <3>2, <3>3, <3>4 DEF Cut
  <2> QED
    BY <2>1, <2>2, <2>3
<1> QED
  BY <1>1, <1>2, EmptyFits DEF OneJobInv, Fits

(***************************************************************************)
(* Where the hash skip is right: with one job at a time, no backfill,      *)
(* nothing promoted and no document relabelled, the live chunks of a row   *)
(* are cut from its stored body, for any contents, languages, deletions    *)
(* and failures.  Each of the four is needed: without any one of them TLC  *)
(* finds a counterexample.                                                 *)
(***************************************************************************)
THEOREM ChunksFollowBody ==
  ASSUME \A v, w \in Workers : v = w, Runs = {}, Relabels = {}, "backfill" \notin Kinds
  PROVE  Spec => []ChunksMatchBody
<1>1. Init => OneJobInv
  BY OneJobInit
<1>2. CorpusInv /\ OneJobInv /\ [Next]_vars => OneJobInv'
  <2> SUFFICES ASSUME TypeOK, RowsAgree, OneJobInv, [Next]_vars PROVE OneJobInv'
    BY DEF CorpusInv
  <2>1. CASE PageChanges \/ UNCHANGED vars
    BY <2>1 DEF PageChanges, vars, OneJobInv
  <2> QED
    BY <2>1, OperatorFits, StartFits, StepFits DEF Next
<1>3. CorpusInv /\ OneJobInv => ChunksMatchBody
  BY DEF CorpusInv, RowsAgree, HashMatchesBody, OneJobInv, Cut, ChunksAre, ChunksMatchBody
<1> QED
  BY <1>1, <1>2, <1>3, CorpusInvariant, PTL DEF Spec
=============================================================================
