# Vecinita: TLA+ models, checks and proofs

Vecinita answers questions over a corpus of community documents. Operators fill
the corpus through a data-management app whose jobs run in serverless workers;
a write API owns the database; a chat service retrieves from it. This directory
models the parts of that program whose correctness depends on the order of
steps taken by several actors, checks the models with TLC and proves their main
safety properties with TLAPS. Every definition is translated from the Python
source; `PROJECT.json` (`map`) names the lines behind each.

## 1. The system

| Part | Keeps | Operations | Talks to |
|---|---|---|---|
| Job store (`data-management-backend/store.py`) | job records: status, errors, options, remote call id | create, get, list, update, delete; production: a shared `modal.Dict`; local: memory under a lock | routes and workers |
| Job routes (`app.py`) | nothing of their own | create, cancel, approve, retry, delete, dispatch | store; spawns and cancels remote calls; write API (eval runs) |
| Worker wrapper (`jobs.py`, `infra/modal/data_management_app.py`) | nothing | `run_job`: handler by type, retries, failure fallback, audit | store, write API, embedding and LLM services |
| Runners (`packages/ingest/.../pipeline.py`, `finetune_train.py`, `automation_catchup.py`, `freshness_refresh.py`) | local snapshots of documents | ingest, retag, rebuild, eval, backfill, train, catch-up, refresh | write API |
| Automation triggers (`catchup_triggers.py`, `schedule_*.py`, write API `catchup_crud.py`, `jobs_client.py`) | none, they read gates from the job list | decide and enqueue catch-ups and refreshes | job routes |
| Job events (`job_events.py`) | per container: event list, sequence, fingerprints | sync from the store, replay after an id | store, browsers |
| Corpus writes (write API `document_batch.py`, `document_crud.py`) | documents, chunks, embeddings, revisions, versions, tags | batch upsert, edit, delete, restore | Postgres; enqueues catch-ups |
| Rebuild (`rebuild_service.py`, `rebuild_promote.py`) | runs, shadow chunks | create, write shadow, complete, promote | Postgres |
| Eval runs (`eval_run_crud.py`, `eval_run_execute.py`) | runs, items | create, execute, delete | job routes, chat service |
| Configuration (`rag_production_config_service.py`, presets, criteria, `finetune_promote.py`) | one active row and its history | edit, promote | Postgres; read by the chat service |
| Chat RAG (`chat-rag-backend`, `packages/rag`) | caches of answers and retrievals | ask, stream, browse | Postgres, models |
| Front ends, model services, clients | sessions / none | | the routes above |

Hard behaviour, by part: the job store loses updates between containers; a
spawn reply may be lost; a worker may be cancelled, killed or overtaken by a
delete; catch-ups are decided on stale counts; documents are read, embedded for
minutes and written back; a promotion may be repeated or overtaken.
`PROJECT.json` (`hazards`) lists each at its line.

What makes each part correct:

| Part | Properties |
|---|---|
| Job store, routes, worker | a job comes to rest, with a terminal status that was sent to the audit trail; error fields say how it ended; one worker per job; no training without an approval of that job; a cancel stops its own worker; a deleted job stays deleted |
| Corpus writes and runners | the stored hash is that of the stored body; every body is kept as a revision; the hash skip never leaves chunks of another text; the tags are those that were asked for |
| Rebuild | what was completed is what is promoted, once, and what it replaces is kept; a dry run touches what it was asked to |
| Automations | the cap and the switches hold for whatever runs; the tick and the hook of the jobs add no second catch-up for a revision; what is left without embeddings gets them; a document is marked checked only when what was fetched is stored, and a stale one is checked some day |
| Eval runs | a completed run shows a summary whose rows are stored; a removed job leaves a deleted run; a result is not undone by a late error; a run does not stay pending unless its job failed or was cancelled |
| Job events | the page ends with what the store says of the jobs that there are |
| Configuration | one active row at every moment, never an older one; an edit leaves the other columns alone |
| Answer cache, retrieval | no answer outlives its lifetime by more than renewals explain; a question with a match gets an answer, in its language if there is one, and with the best chunk |
| Ingest | near pages first, the reason a crawl stopped is true, every URL is accounted for; the windows cover the text, overlap as asked and advance |
| Users | the team keeps an admin |
| Model services | a model reported as ready is on the volume; whoever waits for a download gets an answer; text is of the caller's model and adapter, and of its prompt but after a generate that raised |

## 2. Modules

| Module | Models | Explored by |
|---|---|---|
| `JobLifecycle` | job store, routes, `run_job`, the status protocol of all runners | `MCJobs` |
| `JobPromise` | what the store promises of one job; `JobLifecycle` implements it | `MCJobs` |
| `Corpus` | what the corpus jobs write, rebuild runs and promotion | `MCCorpus` |
| `Catchup` | the tick, both hooks and the workers of the catch-up automation | `MCBackground` |
| `DocumentTags` | transactions on the tags and versions of a document | `MCBackground` |
| `ModelPulls` | the manifest of models, pulls, the page and the script that wait for them | `MCBackground` |
| `LlmEngine` | a GPU container of the language model | `MCBackground` |
| `Fetching`, `Embedding` | the requests for one page; the sub-batches of one document's chunks | `MCBackground` |
| `Upstream` | these two together: what a worker may rely on | `MCBackground` |
| `EvalRuns` | an evaluation run, its job and its executions | `MCServices` |
| `Freshness` | the daily tick, Refresh now and the refresh workers | `MCServices` |
| `JobEvents` | event lists per container, streams, the page of the jobs | `MCServices` |
| `ActiveConfig`, `ConfigRows` | what a promotion promises, and the statements that implement it; edits of a preset | `MCServices` |
| `ChatAsk` | an ask over the answer cache, in threads | `MCServices` |
| `Retrieval` | one retrieval with its fallbacks, merges and cuts | `MCServices` |
| `Ingest`, `ChunkWindows` | one ingest with its crawl; the windows of a text | `MCServices`, `MCIngest` |
| `UserAdmin` | the routes under `/admin/users` | `MCServices` |

The theorems are in `JobSafetyProofs` and `JobEndProofs` (`JobLifecycle`),
`CorpusProofs`, `AdminProofs` (`ConfigRows`, `UserAdmin`, `EvalRuns`, `JobEvents`),
`BackgroundProofs` (`Catchup`, `DocumentTags`, `ModelPulls`, `LlmEngine`, `Upstream`
and their sum), `IngestProofs` (`Ingest`), `ChatProofs` (`ChatAsk`, `Retrieval`) and
`ServicesProofs` (`ChunkWindows`, `Freshness` and the sum of the services).

`MCServices` and `MCBackground` are sums: the components they extend share no
state, so in one behaviour a single one runs (`part`) and the others stay as they
are. The states of a sum are those of its parts added up, not multiplied, and
each part is explored as by a run of its own. Where two components do meet, one
module has both: the write API and the job store in `EvalRuns` and `Catchup`, the
page and the containers in `JobEvents`, the browser, the script, the routes and the
jobs in `ModelPulls`. `part # "x" => ...` in `ServicesInit` and `BackgroundInit`
gives a part that does not run a single initial state. `PartsOnTheirOwn` and
`ServicesOnTheirOwn` prove that a sum adds nothing: in each of its behaviours every part
keeps to its own specification, so what is proved of a part holds in the sum.

What could come next: the cap of the fine-tunes over two jobs; the volume of the
adapters; the kill of a container at its timeout as a step of its own in the modules
other than `JobLifecycle`.

## 3. JobLifecycle

One action per step between two accesses to shared state.

| State | Code |
|---|---|
| `store` | the records of `DictJobStore` / `InMemoryJobStore`; "absent" is no entry |
| `backing` | which of the two stores the app was built with |
| `snap` | the payload between the get and the put of `DictJobStore.update_job` |
| `pc`, `job`, `handle` | where a request or worker is, on which job, the call id it holds |
| `tries`, `outcome`, `audit` | attempts of an automation, what its work came to, the events posted or lost |
| `used`, `granted`, `doomed` | history: ids handed out, approvals accepted, calls cancelled |

`CreateJob`, `RetryJob`, `CancelJob`, `ApproveJob`, `DeleteJob` are the first
step of a route, up to its next write or remote call. `Spawn`, `SpawnReplyLost`,
`SpawnRaises`, `RunInBackground` are the outcomes of `_dispatch_job`; `SetCall`
and `SpawnFailed` what it writes then. A worker goes `StartJob` (the handler by
job type), its gate (`GateFinetune`, `GateAutomation`, `EnterSingle`),
`SetRunning`, `Body`, and `SetCompleted` or `SetFailed`; `RetryAttempt`,
`Raised`, `Recheck`, `Fallback`, `Report`, `Finish` are what `run_job` does around
it. `Post` sends the end to the audit trail of the write API, which takes it or
loses it: every error of that request is swallowed (jobs.py:93). `Fetch` is the get of
every `update_job` over the dict; over memory the get and the put are one step, under
the lock. `HandlerDies` and `WorkerDies` stop a
container anywhere, over the dict.

Abstracted: urls, options, metrics, log metadata and timestamps of a record; the
five job types that are attempted once are one; a fine-tune's day does not end.

| Run | Bounds | Shows |
|---|---|---|
| `jobs_store` | one job, two requests, two calls, one retry, both stores | over both stores: error fields match, one worker per job. Over memory: the job settles in a terminal status that was sent to the audit trail, ends once and always comes to rest |
| `jobs_retry` | a job and its retry, two requests, two calls, fine-tunes | no approval or call id reaches the retry. Over memory: each of the two jobs, taken by itself, lives the life `JobPromise` draws |
| `jobs_cancelled` | as the first | a cancelled job is run (finding) |
| `jobs_lost_update` | as the first, dict only | an ended job reads pending again (finding) |

`JobPromise` is the abstract specification: a job is new, open (worked on), waiting (for
an approval), at one of the ends, or gone. It moves from waiting to open, from open to an
end, from anywhere to gone, and never back. `Where` is the refinement mapping; it takes
the job for open as long as some request or worker is at it (`Quiet`), because until then
its status may be written again: a cancellation that crosses the worker's completion shows
`cancelled`, then `completed`, in one rest. Over the dict the mapping is constant: a
lost update breaks the promise, which `jobs_lost_update` shows. `MCJobs` has two jobs in
the run that checks it, so a step that touches both would be no move.

Two requests and two workers are every kind of overlap of two writers: the
properties speak of one record, and an update is lost between two writers.
Two jobs are needed only where one is made from the other; in that run states that
differ in the audit trail only are taken for one (`VIEW`), as nothing reads it and none
of the run's properties is about it. Job ids run out, so
a run may end with nothing left to do: deadlock is not checked there.

Fairness: weak, for each request and each worker that is at work. A request that
was accepted is executed by the web server, and a spawned call by the platform;
nothing is assumed of clients or of the platform's kills. The liveness property
speaks of the in-memory store, where nothing is killed: over the dict a killed
worker leaves its job running for ever, and the code has nothing that finds it.

## 4. Corpus

| State | Code |
|---|---|
| `page` | what the url shows now |
| `doc`, `revs` | rows of `documents` with their `chunks`, and of `document_revisions`, by language |
| `run` | `rebuild_runs` and `shadow_chunks`; `scope` is the option `document_ids` |
| `pc`, `task` | where a runner is and what it holds: text, stored hash, batch to write |
| `copied` | history: runs that were promoted |

The write API runs each of `Upsert`, `WriteShadow`, `Promote`, `PatchDocument`,
`DeleteDocument` in one transaction, so each is one step. Between them the
runners read and compute: `StartIngest`, `Fetch`, `Lookup`, `WriteLive`,
`Translate` are an ingest; `StartRefresh`, `Refetch` a freshness refresh;
`StartRebuild`, `Read` (per document), `WriteLive` or `WriteDryRun`, `Complete`,
`Finish` a rebuild (a live one of a single row is what a catch-up runs);
`StartBackfill` starts one that writes bodies without chunks. `Fail` ends any of
them anywhere.

A text is a version, a language and a form: as on the page, joined from chunks,
or translated; the hash stands for the text. Rows are keyed by language, so a
document deleted and created again is taken for the old one by a job that
listed it before: such a job would get a 404 and fail, here it may also go on.
A call that times out has been executed or has not; none arrives later than the
next one of the same job. Two documents of one rebuild that turn out to be the
same page are written once. Abstracted: titles, tags, versions, stamps of models
and sizes, `last_checked_at`, embeddings (one per chunk, written with it).

| Run | Bounds | Shows |
|---|---|---|
| `corpus_overlap` | two workers, one page with two contents, one dry run; ingest, rebuild, backfill from the store | hash, body and revisions agree (`RowsAgree`); a promotion keeps what was live, is made once, and copies what was completed |
| `corpus_siblings` | one worker, a page and its translation, relabelled | the same when two rows share a url |
| `corpus_sequential` | one worker, two languages, two contents; ingest, refresh, live rebuild | the chunks of a row are cut from its body, whatever the hash look-up by url returns |
| `corpus_draft` | one worker, no dry run | a draft is published by a rebuild (finding) |
| `corpus_scope` | one worker, one dry run | a promotion changes a row that was not listed (finding) |

Two workers are enough for one job to write between the read and the write of
another. An English text has two chunks and a Spanish one has one, so that chunks of
one can survive under those of the other. `ChunksMatchBody` is checked for one job
at a time: a rescraping backfill, a promotion, a change of language under a job
or an overlap with a skip breaks it, and the code has no rule against that;
`Corpus` says so at the property.

## 5. The parts of MCBackground

### Catchup

| State | Code |
|---|---|
| `env`, `poison`, `enabled` | the switches and the cap of the deployment, the documents that can never be embedded, `automation_settings.enabled` |
| `embed`, `rev` | embedding status and revision of a document, as `list_catchup_residuals` derives them |
| `pass`, `known` | an enqueuer (the tick, the hook of the jobs, the hook of the writes): its step, the gates it read, the jobs that were live then |
| `jobs` | catch-up jobs: target, status, the step of the worker, the jobs it counted |

`Tick`, `TickList`, `JobEnded`, `Hook` start a pass; `ReadGates` copies live jobs
and running count; `Post` and `Skip` decide each target against the copy
(`decide_catchup_enqueue`). The hook of the writes asks for the list over HTTP, in
which a job has no revision, so it gets the count and no keys (`Keyed` are the other
two). A worker decides again (`Gate`, `Decided`), only then sets running (`Start`) and
embeds. Writes, ended jobs, faults and deaths count
against `MaxEvents`; jobs live in slots that are taken and freed, so a loop of the
automation feeding itself would go on for ever.

`GatesHold`: the cap is exceeded only by workers that did not see each other, and
nothing embeds with the deployment switched off. `saw` is what a worker counted and
what has been at work without a break since: a counted job that failed and is tried
again has left the count, and two that stay may then exceed a cap of two with a third
that none of them counted, so the property asks for jobs that still know of each
other. `DuplicateNeedsOverlap` is about the passes that read keys; two
writes of one document, one after the other, do enqueue two jobs (section 8).
`CatchupFeedsNothing`, and the liveness `ResidualIsCaughtUp`: a document without
embeddings gets them, although poisoned ones are listed first every day, while
they are fewer than the cap and no dead worker's record keeps a place.

### DocumentTags

A request (`PATCH tags`, bulk tag, batch upsert, metadata edit) is one transaction at
READ COMMITTED. `tagRows`, `lang`, `versions` are what is committed; `tagger`
holds what each request has read, deleted and kept. Postgres is modelled by its
rules: a DELETE waits for the holder of a row it sees and looks again, an INSERT
waits for an uncommitted equal key, writers of tags and versions share the key
of the document's row that an upsert or a language edit holds. `TagsAsAsked`: what
a request leaves is what it was asked for, except for what was committed after it had
looked (`late`).

### ModelPulls

| State | Code |
|---|---|
| `manifest`, `staged` | `manifest.json` as committed, repositories on the volume |
| `mount`, `pull` | the manifest as the routes' container sees it; each `pull_model_job` with the mount of its container |
| `page`, `loop`, `timer` | download status, each request with its poll, the shared timer and start time |
| `setup` | `ensure_model_ready` of the script, one model after the other |

A container writes the whole manifest it sees, so a stale mount takes
availability away again; `Remount` is a container being replaced. `SuccessIsStaged`
says that a success is never shown early all the same, `PullingEnds` that page and
script stop waiting even when the job is lost or two polls share one clock.

### LlmEngine

`gpu` is a container: its adapter pin, its engine, what it was loaded for and the
requests vLLM has not finished; `call` and `text` are the callers. `Boot` is
`load_model`, or the restore of a snapshot with the adapter verified; `Ensure`,
`Load`, `Warmed` are `_ensure_model_loaded`, `Generate` and `EngineStep` the two
ways to generate, `Leave` a reader that goes away. A generate that `Raises` leaves in
the engine any of the requests its steps had not finished, its own or that of the
warm-up; the next one runs them too and returns the first output by number.
`AnswersAsAsked`: whatever an abandoned stream, a half-done load, a pull or a promotion
left behind, a caller gets text of the model it asked for and the adapter of the
container, and of its own prompt; only a completion may get that of a request which a
generate that raised has left there.

### Fetching and Embedding

A worker's view of a site and of the embedding service, which may answer each request
as they like. `try` is the place in the two loops of `fetch_url` (the host as given
and with `www.`, the bot and two browsers), `log` what was sent and what came back;
`PageServed`, `RefusedBy`, `NotReached`, `OtherFailure` are the replies, `NoExport` a
Drive folder, `GiveUp` the end of the loops. `vectors`, `attempt`, `waited` are the
loops of `embed_batch` and `_post_with_retry`. `UpstreamPromise`: the error of a URL
is true of what was tried (the quarantine of the freshness refresh hangs on it), no
host is asked twice in one guise, and vectors stay beside their chunks.

### Bounds and fairness

Two documents, two slots, caps of one and two; two overlapping requests, two
slugs, two languages, a cap of one; two pulls of two models; two calls of two
models and one adapter; all of the six requests for a page; documents of up to three
sub-batches, with two retries each. Every property is about at most two actors that overlap,
and the cap of catch-ups is reached with one and with two. Tags of models and
languages are interchangeable, so the first download is of the first model and the
document starts in the first language. The page and the script are explored one
at a time, each against two pulls: they meet only in the manifest.

Weak fairness: the tick fires every day and a pass that was started goes on; a
spawned worker runs; the routes answer and the timers of an open page fire. No
fairness for writes, failures, operators, deaths, for a pull job (`.spawn` is
fire and forget) or for the replacement of a container.

## 6. The parts of MCServices

**EvalRuns.** `evalRun` and `items` are the row and its results in Postgres,
`evalJobs` the job store, `execs` the executing requests: three processes. The
creator inserts the run and asks for a job; the reply may be lost after the job was
made. The worker's call gives up after 600 s while the execution goes on, and the job
may be retried beside it. `CancelEvalJob` stops the worker, or fails to, and
`WriteCancelled` overwrites the status; a cancelled job may be retried as a failed one.
`RecordsAgree`, `ResultNotUndone`, `PendingEnds`: a run leaves "pending" unless it is
deleted, its creator got no answer, or its job failed or was cancelled. Two
jobs (a run and its retry) and one fault, beside cancels and deletes, which are none: a
late error of the enqueue, or an abandoned call whose retry overlaps it.

**Freshness.** `page` is what the site of a url shows, `there` the rows that exist,
`stored` what was embedded for each, `age` the days since its `last_checked_at`, up to
`StaleDays`, when it is due. The tick lists due documents newest first and enqueues up
to the cap, a blocked document coming back every day; a job compares, replaces, marks
checked in three requests. A url has a row for each language: the hash that is compared
is that of any of them (`RowsOf`), the chunks go into the row of the language that is
detected, which is inserted if need be, and the mark is set on the document of the job.
`CheckedIsStored` therefore says that what was fetched is stored under the url,
`StaleIsChecked` that no document waits for ever. Three documents, two of one url and
one blocked, a cap of two: fewer places than documents, which is when order matters; a
page changes once after the ingest and once more, and one request fails, is made by hand
or changes a flag. Other writers of `stored` (ingest, rebuild) are in `Corpus`; rows
are not deleted here.

**JobEvents.** Each container has an event list (`broker`) that every stream fills
from the store before it sends what is behind its cursor; `jobsPage` is the page with
its polling. `DeleteJob` removes the record and leaves the events. `PageCatchesUp` says that
the page ends with what the store says of the jobs that it has, unless its stream ended
without an error or a list overtook newer events, the two cases the front end leaves
open; a row of a deleted job may come back (section 8). Two containers and two streams
are enough for an event to be numbered differently, one fault for a reconnect to the
other container.

**ActiveConfig, ConfigRows.** `ActiveConfig` says what a promotion promises: one
active row, replaced at once by a newer one. `ConfigRows` has the transaction
statement by statement (read the version, deactivate what it sees, insert, commit)
at READ COMMITTED, with the unique index on the version.
`PromotionIsAtomic == Readers!PromotionSpec` is the refinement, where
`Readers == INSTANCE ActiveConfig WITH active <- Active`. `EditsOwnColumn` is about
presets, which are read in one transaction and written whole in another.

**ChatAsk.** `cache` is the LRU list with ages, `asking` a thread at each remote
step of an ask. `CachePromise`: what is served is at most two TTLs and three asks
old (an answer lives a TTL and was made of chunks that had lived one), in the language
asked for, and the cache exceeds its size only by what is about to be evicted. Two
threads and two locales of one question, room for one entry: every hit, renewal
and eviction overlaps another.

**Retrieval.** A corpus of up to three chunks, all settings and variants; the
pipeline runs once. `RetrievalPromise`: empty only if nothing matches, another
language as a last resort, the best chunk is kept with its own score. Three chunks of
two languages with three score vectors are enough for each cut to lose one.

**Ingest.** `links`, `inScope`, `plan` are a site and a job's options, `queue`,
`urls`, `reason` the crawl, `outcomes` what became of the URLs, one after the other.
`IngestPromise`: near pages first, a true reason, each URL accounted for. All sites of four pages from a
set of chains, diamonds and cycles; four pages have two ways of different length to
one page. `crawl_soft_fail` is the same with a page that does not answer.

**ChunkWindows.** One window per step. `EveryTokenInAWindow`, `EveryWindowIsNew`, for
all texts of up to eleven tokens, sizes 2 to 5 and all overlaps, and by proof for all.

**UserAdmin.** Each request to Supabase is a step: read the target, count the
admins, change. `LastAdminKept` says that the last admin is lost only to a request
that was overtaken, or through the two routes on invitations that have no guard.
Three accounts and two requests at a time: two admins who remove each other.

Fairness: requests and workers go on, the tick fires, the page's effect runs and
the server answers open streams; nobody has to promote, ask, publish, fail or open
a stream. Time passing in `ChatAsk` is not fair, and nothing there needs it.

## 7. Proofs

Every invariant, every action property and both refinements of the passing runs are
theorems, of the component's specification or, for the types, of the sum: the run shows
them on a small instance, the theorem for every value of the constants. The assumptions
are those the modules name, and no more: bounds are naturals, the values that stand
for "none" are none of the others, and where a component walks through a set (the
pages of a site, the chunks of a corpus, the slots of the catch-ups) the set is
finite. `ChunksFollowBody` alone has hypotheses of its own. The inductive invariants
that strengthen a property were model-checked on the bounds of the runs first.

### Jobs

`JobSafetyProofs` proves what holds over the lossy dict. None of the properties is
inductive as it stands: an update in flight carries an old record that will be put
back. The invariant

    SafetyInv == TypeOK /\ RecordsInv /\ RequestsInv /\ Trainings

says of the payloads in flight (`snap`) what it says of the records in the
store: the type is the record's, the errors agree with the status, an approval is a
granted one, a call id is that of the job's own worker. A stale payload may undo a
status, never these. `RequestsInv` adds that a job about to be dispatched has no
worker and no second dispatcher, `Trainings` that a worker past its gate is
approved. `ErrorsMatchStatus`, `OnlyApprovedTrain`, `OneWorkerPerJob`
and `CancelsItsOwn` follow.

Its last part bounds the work. `Left(p)` counts what a process has still to do: the lines
before it, a read before a write, and 32 for each attempt an automation has left (an
attempt is at most 14 lines of two steps). `WorkIsBounded` proves that it is a natural
number and that every step but a request lowers it for one process and raises it for
none, over either store, whatever is retried, lost, deleted or stopped. So between two
requests there are finitely many steps. This is the half of `JobsComeToRest` that is
within the prover's reach; that a process with work left has a step it can take needs
ENABLED and stays with TLC.

`JobEndProofs` proves how a job ends over the in-memory store. "Settled once nobody
is at it" speaks of the last process of a job, whichever that is, so `EndInv` names
one: a job that has not ended has a process that will end it (`OpenIsDriven`,
`WillEnd` lists its lines), and one that has ended has a worker that has told the audit
trail or is about to (`EndIsTold`), whether the event arrives or is lost. When nobody
is left it has been told, and `JobsSettle` follows. `FirstRunAt`, a job tried once has not ended before
its worker has run, gives `SinglesEndOnce`.

`PromiseKept` is the refinement, for any number of jobs, requests and workers over
the in-memory store. The proof goes through two descriptions of a step: `Touches(i)`, it
leaves everything of the other jobs as it is, so their place in the view is the same
(`OthersStay`); and `WorksOn(p, i)`, what a process may do to the job it is at, from which
the move of that job follows (`MoveOf`). That a job at rest does not open again needs
`EndInv`, and `ApprovedAtWork`: nobody but an operator's request is at a fine-tune that
waits for its approval. That a deleted job stays away is a part of it: a late write of a
worker finds no record, and ids are not used twice.

### Corpus

    CorpusInv == TypeOK /\ RowsAgree /\ RunsInv

`RowsAgree` is `HashMatchesBody`, `BodyIsRevision` and `PriorRevisionKept`: every
transaction of the write API keeps them by itself, whatever a job has read before,
so no overlap of jobs can break them. `PriorRevisionKept` rests on the order inside
a promotion: the revision of what was live comes first. `RunsInv` is what the
properties of a run need and the code nowhere tests: a run belongs to one job
(`OneJobPerRun`), it is running until that job completes it
(`RunningTillComplete`), and once copied it is promoted or failed (`CopiedIsOver`).
From it `CopiedOnce` follows because a failed run is not promotable, and
`CompletedIsFrozen` because the only writer of shadow chunks belongs to a run that
is still running.

`ChunksFollowBody` proves `ChunksMatchBody` for one worker, no dry runs, no
relabelled documents and no backfills, the four conditions under which the hash skip
is right; TLC finds a counterexample without any one of them. What it needs
(`OneJobInv`) is that a batch in the runner's hand still fits the row when it is
written: it has chunks of its own text, or the row's chunks are of that text.

### Administration

`PromotionsAtomic` is the refinement, for any number of overlapping and failing
promotions. The invariant says that the row a transaction has deactivated stays
the committed active one until it commits (its row lock), that no two hold the
same, and that one transaction at most is past its INSERT; a commit is then a step
of `ActiveConfig`, and every other step a stutter. `EditInv` is its counterpart for
presets: an edit nobody overtook still has in hand the row as it is, so
`EditsKeepToTheirColumn`. `ConfigTyped` needs that some row has the highest version
(`HasHighest`), which each commit keeps.

`LastAdminStays`, for any number of accounts and requests: what a
request has read of its target and of the number of admins is still so unless it is
marked stale, so a request that is not stale cannot remove the last admin.

`RecordsStayInStep` and `ResultStays` need that an execution has stored its rows
before it completes the run, that a delete has deleted the run before the record,
and that nothing is there before the run is created.

`JobEventsTyped`: a list of events only grows, so a cursor stays within the list of its
container, whichever streams publish into it, and a copy of the store has a record for
every job still to be published.

### Background

*Catch-ups.* `JobsSound`: whoever is past its gate passed open ones, counted
fewer jobs than the cap, each of which is still at work, and saw no more than it did.
So among jobs that all know of each other the last to count counted all others, which is
`GatesAlwaysHold`. `KnownSeen`, a job that a pass of the tick or of the job hook has read
keeps its key among the seen, gives `DuplicatesOverlap`. `FeedsNothing` needs only types.

*Tags.* `InHand`: a request that nobody overtook has the language of the document
and has all its rows deleted, or about to be, and a bulk request has computed its
outcome from what is still shown. A commit marks every other request late, which is
why it is kept.

*Downloads.* `ListingsTrue`: no copy of the manifest is ahead of the volume, however
stale and whoever writes it whole. `PullsTrue` and `LoopsTrue` tie a poll that has seen
"available" to a model that is staged, and the page to the one download it shows.

*Engine.* `EngineServes`: one call at a time is served, and from its load on the
engine holds the model it asked for with the adapter of its container, although
requests of callers that left, or raised, are still in it. A numbered request that is left
is of a call that raised, which is what `GivenAsAsked` allows a completion to return.

*Requests.* `UpstreamKeepsPromise` proves the promises of both parts, `UpstreamTyped` their types, for
any number of chunks, sub-batches and retries. `Asking` says that of the hosts before the
present one each was tried to the end and that whatever was sent came before the request
that is next, so that none is repeated; the vectors so far are always those of the first
chunks.

`BackgroundTyped` and `ServicesTyped` state the type invariants of the two sums. A step of
a sum is a step of one part that leaves the variables of the others alone, so each part
keeps to its own specification and the invariants of the parts apply.

### Crawling

`IngestKeepsPromise` is the crawl, for any finite set of pages, any links and any
limits. The reason "frontier exhausted" and "near pages first" speak of distances, so
the invariant compares the queue with the breadth-first levels of the graph
(`Within[d]`): `Level(d)` says that while depth d is visited everything nearer has been,
what is within d has been visited or waits at depth d, and the queue is sorted by depth;
of a visited page every link in scope is visited or waits, unless d is the greatest
depth. The rest of the module is about `Within` and about sequences: it is monotone and
closed once two levels are equal, which must happen before the number of pages is
reached.

### Chat

`CacheKeepsPromise` bounds the age of what is served. That an answer is not too old is
not inductive: an entry lives as long as it is stored again, and the half of it that
was not stored again keeps its age. A half is only kept by an ask that missed it while it
was live, and such an ask has at most its turn left to store, so `Fresh` bounds what an ask
holds and what it may find by how long it has been at it.

`RetrievalKeepsPromise`, for any finite corpus, any scores and settings: each layer
(fallbacks, the merge of the variants, the reranking, the cut) returns only what some
variant matches, something if anything does, and keeps a hit that leads all others,
whichever of equal hits it takes. `RetrievalTyped` adds that no chunk comes twice and
top_k holds.

### Windows and freshness

`WindowsCoverText` and `WindowsAdvance`, for texts, sizes and overlaps of any length: the
windows so far cover everything up to the end of the last one, and the next begins
`overlap` before it. `TickStaysCapped`, for any number of documents: each enqueue uses
one rank of the list, and the ranks up to the cap run out. `ChecksTellTheTruth`, for any
number of documents, urls and jobs: of a job that has probed, and that no other of its url
has overlapped since, some row of the url holds what it saw.

### What the proofs changed

- `StopDiscovery` and `Decide` were a CASE with overlapping guards. TLC takes the first
  that holds, TLA+ any of them, and the code is an if/elif chain: they are IF/ELSE now,
  and the guards of `Document` exclude each other.
- The crawl kept a tally by kind; that each URL is accounted for is now said of a
  sequence of outcomes. `Children` and `Top` are first-order, `Corpora` and `Given` are
  parameters, the cache is a function with an order beside it.
- `GatesHold` was false for three jobs and a cap of two (section 5), which no run had
  bounds for.

### What is only model-checked

- `JobsComeToRest`, `ResidualIsCaughtUp`, `PullingEnds`, `PendingEnds`,
  `StaleIsChecked`, `PageCatchesUp`: liveness under fairness is out of the prover's
  reach, and so is ENABLED. Of the first, `WorkIsBounded` proves that the steps run out.
- The five expected violations, which are single behaviours.

## 8. Where the code and the documents disagree

Each of these is a run that is expected to fail:

- A job cancelled before its worker starts is run (`jobs_cancelled`; ADR-038).
- Over the shared dict an ended job can read pending or running again
  (`jobs_lost_update`; docs/data-flow.md).
- A live rebuild or catch-up publishes a draft translation (`corpus_draft`;
  feature-list F75, ADR-052).
- A scoped dry run can be promoted into a document that was not listed
  (`corpus_scope`; test-plan TC-166).
- A page that does not answer while links are discovered fails the crawl
  (`crawl_soft_fail`; docs/spec.md:132).

These were met while modelling and are in the models, without a run of their own:

- The hook of the jobs and the worker read the switch of the environment only; the
  switch of the admin UI does not stop them (catchup_triggers.py:127; AC-AU1).
- The answer cache is never busted: nothing calls `bust` (cache.py:116; spec.md:82,
  ADR-042), so an answer outlives a rebuild by up to its lifetime.
- Configuration and document versions are MAX + 1 without a lock: an overlapping
  promotion, or a bulk request, fails on the unique key (ADR-035, ADR-017).
- Overlapping replacements of tags add up, past the cap of ten
  (tags.py:48; api-contract.md:692).
- A metadata edit writes a version whose tags are empty, although the document has
  tags (document_crud.py:232; user-journeys.md:573 wants an accurate snapshot), and
  the history of a deleted document answers 404.
- The last admin can be removed by two requests that overlap (ADR-030 section 4).
- A stream of job events that ends without an error is neither opened again nor
  replaced by polling (jobs.ts:158; api-contract.md:432).
- `crawl_scope` is not read (api-contract.md:337).
- A pull that was marked available can be listed as pending again, when a
  container with an older mount writes the manifest (llm_app.py:294; AC-E30).
- With `--no-wait` a missing model ends the script with an error instead of skipping
  the warm-up (playground_setup.py:210; the help text of the script).
- After a stream that its reader left, the next completion on that container
  raises inside vLLM, once.
- The export address of a Drive file is used for the first request only: after a
  refusal the browsers ask for the share page (scrape.py:344).
- The hook of the writes decides with no keys: `GET /jobs` answers without options, so two
  writes of a document enqueue two catch-ups of one revision (jobs_client.py:174; ADR-052
  line 44 wants real keys, data-flow.md:967 "idempotent document_id+revision").
- After a generate that raised, a completion may return the text of the request it left
  in the engine (llm_service_core.py:276).
- An eval job that is cancelled before its run was executed leaves the run pending
  (app.py:374): a retry of the job is the only way on.
- A refresh marks a document checked although its own row holds older text, when the hash
  or the chunks were those of a row of another language (freshness_refresh.py:138,
  document_crud.py:52, document_batch.py:66).
- The row of a deleted job comes back on the page of the jobs with the next connection:
  the events of the container are sent again (job_events.py:58, JobsPage.tsx:156).
- The playground container mounts no secret that could set its candidate adapter.

## 9. Not modelled

Left out, with the reason in `PROJECT.json` (`components`): queries, statistics,
metrics and the job tree, which only read; audit, feedback, reviews and reports,
which insert in one statement; schemas and routes without state; prompts,
verification, scoring and ranking formulas, computations of one request; the
parsing of a page; HTTP clients but for the embedding client, which send one
request that succeeds, fails or is executed without an answer; the front ends but for the page of the jobs and
the download of models; the training of an adapter.

Outside the program proper, and a large share of the lines in the repository:
one-off experiments under `docs/sessions`, deployment, security and maintenance
scripts, editor hooks, seeds and migrations (of which only the constraints that the
write API relies on are used). They run by hand, one at a time, and keep no
state that the services see. The models cover most of the code that changes shared
state; they would cover little more by describing what is straight-line
computation, which a unit test reaches better.
