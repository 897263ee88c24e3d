-------------------------------- MODULE Corpus --------------------------------
(***************************************************************************)
(* One page of the corpus: the document rows of its two languages, what    *)
(* the write API does to them in one transaction each, and the jobs that   *)
(* read the page or a row, spend minutes on chunking and embedding, and    *)
(* write back: ingest, freshness refresh, rebuild and re-embed (live or as *)
(* a dry run into shadow chunks), backfill.  Jobs of one page run at the   *)
(* same time, in workers of their own; a dry run that completed can be     *)
(* promoted, once, into the live rows.                                     *)
(*                                                                         *)
(* A row is keyed by (url, language), so a page and its translation share  *)
(* a url.  The look-ups that only have the url (the hash skip, the shadow  *)
(* batch) take whichever row the database returns first.                   *)
(***************************************************************************)
EXTENDS Naturals, Sequences

CONSTANTS
  Workers,     \* worker functions at work at one time
  Runs,        \* rebuild run ids
  NoRun, NoText,
  Kinds,       \* the job kinds considered, a subset of AllKinds
  Sources,     \* where rebuilds and backfills take the text: "store", "page"
  PageLangs,   \* languages the page has been published in
  Locales,     \* languages an ingest can be asked to translate into
  Relabels,    \* languages an operator may set on a document
  MaxVersion,  \* how many contents the page has had in each language
  EnChunks,    \* how many chunks an English text is cut into
  EsChunks     \* ... and a Spanish one

AllKinds == {"ingest", "refresh", "rebuild", "backfill"}
Langs    == {"en", "es"}
Other(l) == CHOOSE x \in Langs : x # l

ASSUME CorpusAssumption ==
  /\ NoRun \notin Runs
  /\ Kinds \subseteq AllKinds
  /\ Sources \subseteq {"store", "page"}
  /\ PageLangs \cup Locales \cup Relabels \subseteq Langs
  /\ MaxVersion \in Nat
  /\ EnChunks \in Nat \ {0}
  /\ EsChunks \in Nat \ {0}

(***************************************************************************)
(* A text is known by what it was made from: version 0 is what the page    *)
(* said before bodies were stored; "joined" is what comes of joining the   *)
(* overlapping chunks of a text again, "translated" of translating it.     *)
(* Its hash is a sha256 and stands for the text.                           *)
(***************************************************************************)
Texts == [version : 0..MaxVersion, lang : Langs, form : {"page", "joined", "translated"}]

ASSUME NoTextAssumption == NoText \notin Texts

MaybeText == Texts \cup {NoText}

VARIABLES
  page,    \* the text the page shows now
  doc,     \* language -> document row and its live chunks
  revs,    \* language -> revisions of the row
  run,     \* rebuild run -> status, scope asked for, shadow chunks
  copied,  \* runs whose shadow chunks were copied into the live rows
  pc,      \* what each worker does next
  task     \* what it works on and has read

vars == <<page, doc, revs, run, copied, pc, task>>

Rows == [live : BOOLEAN, body : MaybeText, hash : MaybeText, chunks : Seq(Texts), draft : BOOLEAN]
NoRow == [live |-> FALSE, body |-> NoText, hash |-> NoText, chunks |-> <<>>, draft |-> FALSE]

Revisions == [body : MaybeText, run : Runs \cup {NoRun}]

RunStatuses == {"none", "running", "completed", "failed", "promoted"}
RunRecords  == [status : RunStatuses, scope : SUBSET Langs, shadow : [Langs -> Seq(Texts)]]
NoRunRecord == [status |-> "none", scope |-> {}, shadow |-> [l \in Langs |-> <<>>]]

Upserts  == [text : Texts, chunks : Seq(Texts), draft : BOOLEAN]
NoUpsert == [text |-> NoText, chunks |-> <<>>, draft |-> FALSE]
Batches  == [Langs -> Upserts \cup {NoUpsert}]
NoBatch  == [l \in Langs |-> NoUpsert]

Tasks == [kind : AllKinds, source : {"store", "page"}, force : BOOLEAN, locales : SUBSET Langs,
          todo : SUBSET Langs, text : MaybeText, hash : MaybeText,
          batch : Batches, run : Runs \cup {NoRun}]
NoTask == [kind |-> "ingest", source |-> "page", force |-> FALSE, locales |-> {},
           todo |-> {}, text |-> NoText, hash |-> NoText, batch |-> NoBatch, run |-> NoRun]

Pcs == {"idle", "fetch", "lookup", "refetch", "read", "write", "translate", "complete", "finish"}

TypeOK ==
  /\ page \in Texts
  /\ doc \in [Langs -> Rows]
  /\ revs \in [Langs -> SUBSET Revisions]
  /\ run \in [Runs -> RunRecords]
  /\ copied \subseteq Runs
  /\ pc \in [Workers -> Pcs]
  /\ task \in [Workers -> Tasks]
  /\ \A w \in Workers : pc[w] = "lookup" => task[w].text # NoText
  /\ \A w \in Workers : pc[w] = "complete" => task[w].run # NoRun

-----------------------------------------------------------------------------
(***************************************************************************)
(* Chunks.                                                                 *)
(***************************************************************************)
ChunkCount(l) == IF l = "en" THEN EnChunks ELSE EsChunks

ChunksOf(t) == [i \in 1..ChunkCount(t.lang) |-> t]

\* get_document_detail: the stored body, or else the joined chunks
Detail(l) == IF doc[l].body # NoText THEN doc[l].body
             ELSE IF doc[l].chunks = <<>> THEN NoText
             ELSE [doc[l].chunks[1] EXCEPT !.form = "joined"]

LiveRows == {l \in Langs : doc[l].live}

\* get_document_content_hash: by url, LIMIT 1, no ORDER BY
StoredHashes == IF LiveRows = {} THEN {NoText} ELSE {doc[l].hash : l \in LiveRows}

(***************************************************************************)
(* The corpus is empty, or the page was ingested in English before bodies  *)
(* and revisions were stored.                                              *)
(***************************************************************************)
LegacyText == [version |-> 0, lang |-> "en", form |-> "page"]
LegacyRow  == [NoRow EXCEPT !.live = TRUE, !.hash = LegacyText, !.chunks = ChunksOf(LegacyText)]

Init ==
  /\ page = LegacyText
  /\ doc \in {[l \in Langs |-> NoRow],
              [l \in Langs |-> IF l = "en" THEN LegacyRow ELSE NoRow]}
  /\ revs = [l \in Langs |-> {}]
  /\ run = [r \in Runs |-> NoRunRecord]
  /\ copied = {}
  /\ pc = [w \in Workers |-> "idle"]
  /\ task = [w \in Workers |-> NoTask]

-----------------------------------------------------------------------------
(***************************************************************************)
(* The write API.  Each of these is one transaction.                       *)
(***************************************************************************)
\* a slip: like the body, the hash of a known row is kept
UpsertedKeepsHash(row, u) ==
  [live |-> TRUE, body |-> u.text, hash |-> IF row.live THEN row.hash ELSE u.text,
   chunks |-> IF u.chunks = <<>> THEN row.chunks ELSE u.chunks, draft |-> u.draft]

\* every document of a batch carries its text, and a publish status: published,
\* unless the job sets draft
Upserted(row, u) ==
  [live |-> TRUE, body |-> u.text, hash |-> u.text,
   chunks |-> IF u.chunks = <<>> THEN row.chunks ELSE u.chunks, draft |-> u.draft]

\* a slip: a revision is only recorded when chunks are replaced
UpsertRevisesChunked(batch) ==
  /\ doc' = [l \in Langs |-> IF batch[l] = NoUpsert THEN doc[l] ELSE Upserted(doc[l], batch[l])]
  /\ revs' = [l \in Langs |-> IF batch[l].chunks = <<>> THEN revs[l]
                              ELSE revs[l] \cup {[body |-> batch[l].text, run |-> NoRun]}]

Upsert(batch) ==
  /\ doc' = [l \in Langs |-> IF batch[l] = NoUpsert THEN doc[l] ELSE Upserted(doc[l], batch[l])]
  /\ revs' = [l \in Langs |-> IF batch[l] = NoUpsert THEN revs[l]
                              ELSE revs[l] \cup {[body |-> batch[l].text, run |-> NoRun]}]

(***************************************************************************)
(* upsert_shadow_batch: each document of the batch goes to the row at[l]   *)
(* its url resolves to; where two of them meet in one row the later one    *)
(* replaces the chunks whose index it has, and only those.                 *)
(***************************************************************************)
Overlay(old, new) ==
  [i \in 1..(IF Len(old) > Len(new) THEN Len(old) ELSE Len(new)) |->
     IF i <= Len(new) THEN new[i] ELSE old[i]]

WriteShadow(r, batch) ==
  \E at \in [Langs -> LiveRows], first \in Langs :
    LET sent(l, d) == IF batch[l] # NoUpsert /\ at[l] = d THEN batch[l].chunks ELSE <<>>
    IN  run' = [run EXCEPT ![r].shadow =
                  [d \in Langs |-> Overlay(Overlay(@[d], sent(first, d)), sent(Other(first), d))]]

ScopedRows(r) == {l \in Langs : run[r].shadow[l] # <<>>}

\* a slip: the revision of what was live before is not kept
RevisionsAfterForgetful(l, r) == revs[l] \cup {[body |-> doc[l].body, run |-> r]}

\* a row without any revision first gets one for what was live so far
RevisionsAfter(l, r) ==
  revs[l] \cup (IF revs[l] = {} THEN {[body |-> doc[l].body, run |-> NoRun]} ELSE {})
          \cup {[body |-> doc[l].body, run |-> r]}

\* a slip: the status is not tested
PromotableAgain(r) ==
  /\ run[r].status \in {"completed", "promoted"}
  /\ ScopedRows(r) # {}

\* any other status is refused or, when promoted, answered without a change
Promotable(r) ==
  /\ run[r].status = "completed"
  /\ ScopedRows(r) # {}

Promote(r) ==
  /\ Promotable(r)
  /\ doc' = [l \in Langs |-> IF l \in ScopedRows(r) THEN [doc[l] EXCEPT !.chunks = run[r].shadow[l]]
                             ELSE doc[l]]
  /\ revs' = [l \in Langs |-> IF l \in ScopedRows(r) THEN RevisionsAfter(l, r) ELSE revs[l]]
  /\ run' = [run EXCEPT ![r].status = "promoted"]
  /\ copied' = copied \cup {r}
  /\ UNCHANGED <<page, pc, task>>

(***************************************************************************)
(* The operator's PATCH sets the publish status, or the language unless    *)
(* there is a row in it already.  The row keeps its id: revisions, shadow  *)
(* chunks and what jobs have to read of it move with it to the other key.  *)
(***************************************************************************)
PatchDocument(l, lang, draft) ==
  LET at(x) == IF lang = l THEN x ELSE Other(x)
  IN  /\ doc[l].live
      /\ lang # l => ~doc[lang].live
      /\ doc' = [x \in Langs |-> IF x = lang THEN [doc[l] EXCEPT !.draft = draft] ELSE doc[at(x)]]
      /\ revs' = [x \in Langs |-> revs[at(x)]]
      /\ run' = [r \in Runs |-> [run[r] EXCEPT !.shadow = [x \in Langs |-> @[at(x)]],
                                               !.scope = {at(x) : x \in @}]]
      /\ task' = [w \in Workers |-> [task[w] EXCEPT !.todo = {at(x) : x \in @}]]
      /\ UNCHANGED <<page, copied, pc>>

\* chunks, revisions and shadow chunks go with the row
DeleteDocument(l) ==
  /\ doc[l].live
  /\ doc' = [doc EXCEPT ![l] = NoRow]
  /\ revs' = [revs EXCEPT ![l] = {}]
  /\ run' = [r \in Runs |-> [run[r] EXCEPT !.shadow[l] = <<>>]]
  /\ UNCHANGED <<page, copied, pc, task>>

PageChanges ==
  /\ page' \in [version : 1..MaxVersion, lang : PageLangs, form : {"page"}]
  /\ page' # page
  /\ UNCHANGED <<doc, revs, run, copied, pc, task>>

-----------------------------------------------------------------------------
(***************************************************************************)
(* The jobs.                                                               *)
(***************************************************************************)
corpusVars == <<page, doc, revs, run, copied>>

Begin(w, l, t) ==
  /\ pc[w] = "idle"
  /\ pc' = [pc EXCEPT ![w] = l]
  /\ task' = [task EXCEPT ![w] = t]

Goto(w, l) == pc' = [pc EXCEPT ![w] = l]

Leave(w) ==
  /\ pc' = [pc EXCEPT ![w] = "idle"]
  /\ task' = [task EXCEPT ![w] = NoTask]

Published(t, cs) == [text |-> t, chunks |-> cs, draft |-> FALSE]

(***************************************************************************)
(* Ingest: fetch the page, look its hash up, cut and embed unless it is    *)
(* the stored one, write, and write a translation if one was asked for.    *)
(***************************************************************************)
StartIngest(w, force, locales) ==
  /\ "ingest" \in Kinds
  /\ Begin(w, "fetch", [NoTask EXCEPT !.force = force, !.locales = locales])
  /\ UNCHANGED corpusVars

Fetch(w) ==
  /\ pc[w] = "fetch"
  /\ task' = [task EXCEPT ![w].text = page]
  /\ Goto(w, "lookup")
  /\ UNCHANGED corpusVars

\* a slip: any stored hash will do
SkipsKnown(text, hash, force) == hash # NoText /\ ~force

Skips(text, hash, force) == hash = text /\ ~force

Lookup(w) ==
  /\ pc[w] = "lookup"
  /\ \E hash \in StoredHashes :
       LET t == task[w].text
           cs == IF Skips(t, hash, task[w].force) THEN <<>> ELSE ChunksOf(t)
       IN  task' = [task EXCEPT ![w].batch[t.lang] = Published(t, cs),
                                ![w].text = NoText, ![w].force = FALSE]
  /\ Goto(w, "write")
  /\ UNCHANGED corpusVars

\* a draft sibling in the other language, from the chunks just written; a
\* translation that fails is left out, as if the job ended here
Translation(t) == [t EXCEPT !.lang = Other(t.lang), !.form = "translated"]

Translate(w) ==
  /\ pc[w] = "translate"
  /\ \E l \in Langs :
       /\ task[w].batch[l] # NoUpsert
       /\ LET t == Translation(task[w].batch[l].text)
          IN  Upsert([NoBatch EXCEPT ![t.lang] =
                        [text |-> t, chunks |-> [i \in 1..ChunkCount(l) |-> t], draft |-> TRUE]])
  /\ Leave(w)
  /\ UNCHANGED <<page, run, copied>>

(***************************************************************************)
(* Freshness refresh: the stored hash is read before the page is fetched.  *)
(***************************************************************************)
StartRefresh(w, l) ==
  /\ "refresh" \in Kinds
  /\ doc[l].live
  /\ \E h \in StoredHashes : Begin(w, "refetch", [NoTask EXCEPT !.kind = "refresh", !.hash = h])
  /\ UNCHANGED corpusVars

Refetch(w) ==
  /\ pc[w] = "refetch"
  /\ IF Skips(page, task[w].hash, FALSE)
       THEN Leave(w)
       ELSE /\ task' = [task EXCEPT ![w].batch[page.lang] = Published(page, ChunksOf(page)),
                                 ![w].hash = NoText]
            /\ Goto(w, "write")
  /\ UNCHANGED corpusVars

(***************************************************************************)
(* Rebuild, with the documents listed or all of them.  A live rebuild of   *)
(* one row from the store is also what the automatic catch-up runs.        *)
(***************************************************************************)
NextPc(todo) == IF todo = {} THEN "write" ELSE "read"

\* a slip: the run is created in the status it should end in
StartRebuildCompleted(w, scope, source, r) ==
  /\ "rebuild" \in Kinds
  /\ r # NoRun => run[r].status = "none"
  /\ Begin(w, NextPc(scope), [NoTask EXCEPT !.kind = "rebuild", !.source = source,
                                            !.todo = scope, !.run = r])
  /\ run' = IF r = NoRun THEN run
            ELSE [run EXCEPT ![r].status = "completed", ![r].scope = scope]
  /\ UNCHANGED <<page, doc, revs, copied>>

StartRebuild(w, scope, source, r) ==
  /\ "rebuild" \in Kinds
  /\ r # NoRun => run[r].status = "none"
  /\ Begin(w, NextPc(scope), [NoTask EXCEPT !.kind = "rebuild", !.source = source,
                                            !.todo = scope, !.run = r])
  /\ run' = IF r = NoRun THEN run
            ELSE [run EXCEPT ![r].status = "running", ![r].scope = scope]
  /\ UNCHANGED <<page, doc, revs, copied>>

\* Populates bodies; the documents are listed, or those without one
StartBackfill(w, scope, source) ==
  /\ "backfill" \in Kinds
  /\ Begin(w, NextPc(scope), [NoTask EXCEPT !.kind = "backfill", !.source = source, !.todo = scope])
  /\ UNCHANGED corpusVars

\* one document: its row from the store, or the page again; a backfill cuts nothing
Read(w, l) ==
  /\ pc[w] = "read"
  /\ l \in task[w].todo
  /\ doc[l].live
  /\ LET store == task[w].source = "store"
         t    == IF store THEN Detail(l) ELSE page
         lang == IF store THEN l ELSE page.lang
         cs   == IF task[w].kind = "backfill" THEN <<>> ELSE ChunksOf(t)
     IN  /\ t # NoText
         /\ task' = [task EXCEPT ![w].todo = @ \ {l}, ![w].batch[lang] = Published(t, cs)]
  /\ Goto(w, NextPc(task[w].todo \ {l}))
  /\ UNCHANGED corpusVars

\* asked to, and not skipped as unchanged
Translates(w) ==
  \E l \in Langs : task[w].locales \ {l} # {} /\ task[w].batch[l].chunks # <<>>

\* a slip: a live rebuild completes the run it does not have
WriteLiveCompletes(w) ==
  /\ pc[w] = "write"
  /\ task[w].run = NoRun
  /\ Upsert(task[w].batch)
  /\ Goto(w, "complete")
  /\ UNCHANGED <<page, run, copied, task>>

WriteLive(w) ==
  /\ pc[w] = "write"
  /\ task[w].run = NoRun
  /\ Upsert(task[w].batch)
  /\ IF Translates(w) THEN Goto(w, "translate") /\ UNCHANGED task ELSE Leave(w)
  /\ UNCHANGED <<page, run, copied>>

WriteDryRun(w) ==
  /\ pc[w] = "write"
  /\ task[w].run # NoRun
  /\ IF task[w].batch = NoBatch THEN UNCHANGED run
                                ELSE WriteShadow(task[w].run, task[w].batch)
  /\ Goto(w, "complete")
  /\ UNCHANGED <<page, doc, revs, copied, task>>

Complete(w) ==
  /\ pc[w] = "complete"
  /\ run' = [run EXCEPT ![task[w].run].status = "completed"]
  /\ Goto(w, "finish")
  /\ UNCHANGED <<page, doc, revs, copied, task>>

\* the job itself is marked completed
Finish(w) ==
  /\ pc[w] = "finish"
  /\ Leave(w)
  /\ UNCHANGED corpusVars

(***************************************************************************)
(* The job fails (a fetch, an embedding, a row that is gone, the update of *)
(* its own record) or its worker is killed: a dry run is marked failed,    *)
(* whatever its status, if that call still gets through.                   *)
(***************************************************************************)
Fail(w) ==
  /\ pc[w] # "idle"
  /\ \/ UNCHANGED run
     \/ /\ task[w].run # NoRun
        /\ run' = [run EXCEPT ![task[w].run].status = "failed"]
  /\ Leave(w)
  /\ UNCHANGED <<page, doc, revs, copied>>

-----------------------------------------------------------------------------
Operator ==
  \/ \E r \in Runs : Promote(r)
  \/ \E l \in Langs :
       \/ DeleteDocument(l)
       \/ \E lang \in {l} \cup Relabels, draft \in BOOLEAN : PatchDocument(l, lang, draft)

Start(w) ==
  \/ \E force \in BOOLEAN, locales \in SUBSET Locales : StartIngest(w, force, locales)
  \/ \E l \in Langs : StartRefresh(w, l)
  \/ \E scope \in SUBSET Langs, source \in Sources :
       \/ \E r \in Runs \cup {NoRun} : StartRebuild(w, scope, source, r)
       \/ StartBackfill(w, scope, source)

Step(w) ==
  \/ Fetch(w) \/ Lookup(w) \/ Translate(w) \/ Refetch(w)
  \/ \E l \in Langs : Read(w, l)
  \/ WriteLive(w) \/ WriteDryRun(w) \/ Complete(w) \/ Finish(w) \/ Fail(w)

Next ==
  \/ Operator
  \/ PageChanges
  \/ \E w \in Workers : Start(w) \/ Step(w)

Spec == Init /\ [][Next]_vars

-----------------------------------------------------------------------------
(***************************************************************************)
(* Properties.                                                             *)
(***************************************************************************)

(***************************************************************************)
(* The hash the ingest skip compares with is that of the stored body       *)
(* (TC-163), whatever jobs overlapped.                                     *)
(***************************************************************************)
HashMatchesBody == \A l \in Langs : doc[l].body # NoText => doc[l].hash = doc[l].body

(***************************************************************************)
(* The revisions are a full history: the stored body of a row is always    *)
(* one of them.                                                            *)
(***************************************************************************)
BodyIsRevision ==
  \A l \in Langs : doc[l].body # NoText => \E v \in revs[l] : v.body = doc[l].body

(***************************************************************************)
(* A promoted row keeps a revision of what was live before (TC-165,        *)
(* TC-239): the one the promotion adds is never alone.                     *)
(***************************************************************************)
PriorRevisionKept ==
  \A l \in Langs : \A v \in revs[l] : v.run # NoRun => \E u \in revs[l] : u.run = NoRun

(***************************************************************************)
(* What a row says of itself: its hash, its history, and what was live     *)
(* before a promotion.                                                     *)
(***************************************************************************)
RowsAgree == HashMatchesBody /\ BodyIsRevision /\ PriorRevisionKept

(***************************************************************************)
(* The shadow chunks of a run are copied into the live rows once: neither  *)
(* a repeated request nor a late update of the status by the worker makes  *)
(* a promotion undo what was ingested since (staging-runbook).             *)
(***************************************************************************)
CopiedOnce == [][\A r \in Runs : Promote(r) => r \notin copied]_vars

(***************************************************************************)
(* What was evaluated is what gets promoted: from its completion on, the   *)
(* shadow chunks of a run go away with their documents and never change.   *)
(***************************************************************************)
CompletedIsFrozen ==
  [][\A r \in Runs : run[r].status \in {"completed", "promoted"} =>
       \A l \in Langs : run'[r].shadow[l] # <<>> =>
         \E x \in Langs : run[r].shadow[x] = run'[r].shadow[l]]_vars

(***************************************************************************)
(* The live chunks of a row are cut from its stored body.  The hash skip   *)
(* relies on it: it leaves the chunks of a page alone because the page has *)
(* the hash of the body.  Backfills and promotions break it, and so do two *)
(* jobs at the same time.                                                  *)
(***************************************************************************)
ChunksMatchBody ==
  \A l \in Langs : doc[l].body # NoText =>
    \A i \in 1..Len(doc[l].chunks) : doc[l].chunks[i] = doc[l].body

-----------------------------------------------------------------------------
(***************************************************************************)
(* What the documents say and the code does not do.                        *)
(***************************************************************************)

Translations == {t \in Texts : t.form = "translated"}

(***************************************************************************)
(* feature-list.md, F75: a translation is a draft until an operator        *)
(* promotes it with a PATCH; only published rows are retrieved.            *)
(***************************************************************************)
DraftUntilPatched ==
  [][\A l \in Langs :
       doc[l].draft /\ doc[l].body \in Translations /\ doc'[l].live /\ ~doc'[l].draft
         => PatchDocument(l, l, FALSE)]_vars

(***************************************************************************)
(* test-plan.md, TC-166: only the listed documents are rebuilt, the others *)
(* are left untouched.                                                     *)
(***************************************************************************)
OnlyListedRebuilt ==
  [][\A r \in Runs : Promote(r) =>
       \A l \in Langs \ run[r].scope : doc'[l] = doc[l]]_vars
===============================================================================
