------------------------------ MODULE Catchup ------------------------------
(***************************************************************************)
(* The catch-up automation (F78): documents without complete embeddings    *)
(* are embedded again by automation_catchup jobs.  Three places enqueue    *)
(* such jobs, each from a copy of the gates it read some steps before: the *)
(* daily tick, the hook that follows a job of the data-management app, and *)
(* the hook that follows a document write of the write API.  The worker of *)
(* a job decides once more, and sets running only after that.  Nothing     *)
(* locks: reads, decisions and writes of all of them interleave.           *)
(*                                                                         *)
(* Jobs are slots that are taken and freed, so that a loop in which the    *)
(* automation feeds itself could go on for ever.  What a job record goes   *)
(* through otherwise is JobLifecycle.                                      *)
(***************************************************************************)
EXTENDS Naturals, FiniteSets

CONSTANTS
  Docs,           \* document ids, numbers: the residual list is in this order
  Poisons,        \* sets of documents to consider that can never be embedded
  Slots,          \* places for catch-up jobs, numbers: the least free one is taken
  Caps,           \* the values of VECINITA_AUTOMATIONS_MAX_CONCURRENT to consider
  MaxRetries,     \* VECINITA_AUTOMATION_JOB_MAX_RETRIES
  MaxRev,         \* bound on the revisions of a document; 0 is "no hash"
  MaxEvents       \* bound on writes, ended jobs, faults and deaths together

ASSUME CatchupAssumption ==
  /\ Docs \subseteq Nat
  /\ Poisons \subseteq SUBSET Docs
  /\ Slots \subseteq Nat /\ IsFiniteSet(Slots)
  /\ Caps \subseteq Nat \ {0}
  /\ MaxRetries \in Nat
  /\ MaxRev \in Nat
  /\ MaxEvents \in Nat

VARIABLES
  env,      \* VECINITA_AUTOMATIONS_ENABLED, _KILL_SWITCH, _MAX_CONCURRENT
  poison,   \* the documents that can never be embedded, one of Poisons
  enabled,  \* automation_settings.enabled, the switch of the admin UI
  embed,    \* document -> the state of its embeddings
  rev,      \* document -> its revision
  pass,     \* what each of the three enqueuers does next and has read
  known,    \* the jobs that were live when it read their keys
  jobs,     \* slot -> catch-up job
  events    \* external events so far

vars == <<env, poison, enabled, embed, rev, pass, known, jobs, events>>

Sources  == {"tick", "job", "crud"}
Keyed    == {"tick", "job"}      \* those that can read what a job is for
Statuses == {"complete", "missing", "failed"}   \* EmbedStatus; partial is as missing
Keys     == Docs \X (0..MaxRev)
Targets  == [doc : Docs, rev : 0..MaxRev, embed : Statuses]

Passes == [pc : {"idle", "gates", "list", "post"}, targets : SUBSET Targets,
           running : Nat, seen : SUBSET Keys, on : BOOLEAN]

\* status is what the store says, at what the worker does next, saw the jobs
\* that were running when it counted and have been since
JobRecords == [doc : Docs, rev : 0..MaxRev, embed : {"missing", "failed"},
               status : {"pending", "running", "failed"},
               at : {"gate", "start", "work", "dead"},
               tries : 0..MaxRetries, saw : SUBSET Slots]

Free == [status |-> "free"]
Rest == [pc |-> "idle", targets |-> {}, running |-> 0, seen |-> {}, on |-> FALSE]

TypeOK ==
  /\ env \in [on : BOOLEAN, kill : BOOLEAN, cap : Caps]
  /\ poison \in Poisons
  /\ enabled \in BOOLEAN
  /\ embed \in [Docs -> {"complete", "missing"}]
  /\ rev \in [Docs -> 0..MaxRev]
  /\ pass \in [Sources -> Passes]
  /\ known \in [Sources -> SUBSET Slots]
  /\ jobs \in [Slots -> JobRecords \cup {Free}]
  /\ events \in 0..MaxEvents

Init ==
  /\ env \in [on : BOOLEAN, kill : BOOLEAN, cap : Caps]
  /\ poison \in Poisons
  /\ enabled \in BOOLEAN
  /\ embed \in [Docs -> {"complete", "missing"}]
  /\ rev = [d \in Docs |-> 0]
  /\ pass = [s \in Sources |-> Rest]
  /\ known = [s \in Sources |-> {}]
  /\ jobs = [j \in Slots |-> Free]
  /\ events = 0

Event == events < MaxEvents /\ events' = events + 1

-----------------------------------------------------------------------------
(***************************************************************************)
(* The gates and the decision.                                             *)
(***************************************************************************)
InStore(st) == {j \in Slots : jobs[j].status \in st}
Live    == InStore({"pending", "running"})
Running == InStore({"running"})
Key(t)  == <<t.doc, t.rev>>

\* a slip: only running jobs count as seen
SeenKeysRunning == {Key(jobs[j]) : j \in Running}

SeenKeys == {Key(jobs[j]) : j \in Live}

\* a slip: a complete document is not told apart
DecideIgnoringStatus(on, kill, status, key, seen, running) ==
  IF kill THEN "skip_kill_switch"
  ELSE IF ~on THEN "skip_disabled"
  ELSE IF key \in seen THEN "skip_duplicate"
  ELSE IF running >= env.cap THEN "skip_at_capacity"
  ELSE "enqueue"

Decide(on, kill, status, key, seen, running) ==
  IF kill THEN "skip_kill_switch"
  ELSE IF ~on THEN "skip_disabled"
  ELSE IF status = "complete" THEN "skip_complete"
  ELSE IF key \in seen THEN "skip_duplicate"
  ELSE IF running >= env.cap THEN "skip_at_capacity"
  ELSE "enqueue"

\* a job as POST /jobs creates it for target t
Job(t) == [doc |-> t.doc, rev |-> t.rev, embed |-> t.embed,
           status |-> "pending", at |-> "gate", tries |-> 0, saw |-> {}]

Go(s, p) == pass' = [pass EXCEPT ![s] = p]

\* The hook of the write API reads the jobs through GET /jobs, whose answer has neither
\* options nor a revision: it can count the running ones, and has seen no key.
ReadGates(s) ==
  /\ pass[s].pc = "gates"
  /\ Go(s, [pass[s] EXCEPT !.pc = IF s = "tick" THEN "list" ELSE "post",
                           !.running = Cardinality(Running),
                           !.seen = IF s \in Keyed THEN SeenKeys ELSE {}])
  /\ known' = [known EXCEPT ![s] = IF s \in Keyed THEN Live ELSE {}]
  /\ UNCHANGED <<env, poison, enabled, embed, rev, jobs, events>>

EndPass(s) == Go(s, Rest) /\ known' = [known EXCEPT ![s] = {}]

(***************************************************************************)
(* The loop of enqueue_catchup_targets, one target at a time; the hook of  *)
(* the write API has a single target.                                      *)
(***************************************************************************)
FreeSlots == {j \in Slots : jobs[j] = Free}

First(s) == CHOOSE t \in pass[s].targets : \A u \in pass[s].targets : t.doc <= u.doc

Decision(s) ==
  Decide(pass[s].on, env.kill, First(s).embed, Key(First(s)), pass[s].seen, pass[s].running)

NextTarget(s, p) ==
  IF Cardinality(pass[s].targets) = 1 THEN EndPass(s)
  ELSE Go(s, [p EXCEPT !.targets = @ \ {First(s)}]) /\ UNCHANGED known

Post(s, j) ==
  /\ pass[s].pc = "post" /\ pass[s].targets # {} /\ Decision(s) = "enqueue"
  /\ j \in FreeSlots /\ \A i \in FreeSlots : j <= i
  /\ jobs' = [jobs EXCEPT ![j] = Job(First(s))]
  /\ NextTarget(s, [pass[s] EXCEPT !.seen = @ \cup {Key(First(s))}, !.running = @ + 1])
  /\ UNCHANGED <<env, poison, enabled, embed, rev, events>>

Skip(s) ==
  /\ pass[s].pc = "post" /\ pass[s].targets # {} /\ Decision(s) # "enqueue"
  /\ NextTarget(s, pass[s])
  /\ UNCHANGED <<env, poison, enabled, embed, rev, jobs, events>>

\* a read or a POST raises: the rest of the pass is given up
PassFails(s) ==
  /\ pass[s].pc # "idle"
  /\ Event
  /\ EndPass(s)
  /\ UNCHANGED <<env, poison, enabled, embed, rev, jobs>>

-----------------------------------------------------------------------------
(***************************************************************************)
(* The daily tick.                                                         *)
(***************************************************************************)
Tick ==
  /\ pass["tick"].pc = "idle"
  /\ Go("tick", [Rest EXCEPT !.pc = "gates"])
  /\ UNCHANGED <<env, poison, enabled, embed, rev, known, jobs, events>>

\* a slip: the list is cut at its first document
ResidualsFirst == {[doc |-> d, rev |-> rev[d], embed |-> "missing"] :
                     d \in {e \in Docs : embed[e] # "complete" /\
                                         \A f \in Docs : embed[f] # "complete" => e <= f}}

Residuals == {[doc |-> d, rev |-> rev[d], embed |-> "missing"] :
                d \in {e \in Docs : embed[e] # "complete"}}

\* the switch of the admin UI and the residual list, both read after the gates
TickList ==
  /\ pass["tick"].pc = "list"
  /\ IF env.kill \/ ~env.on \/ ~enabled \/ Residuals = {} THEN EndPass("tick")
     ELSE /\ Go("tick", [pass["tick"] EXCEPT !.pc = "post", !.on = TRUE, !.targets = Residuals])
          /\ UNCHANGED known
  /\ UNCHANGED <<env, poison, enabled, embed, rev, jobs, events>>

(***************************************************************************)
(* An ingest, retag, rebuild or eval job ended with documents that failed: *)
(* no revision is known.  The switch of the admin UI is not read.          *)
(***************************************************************************)
JobEnded(D) ==
  /\ pass["job"].pc = "idle"
  /\ Event
  /\ Go("job", [Rest EXCEPT !.pc = "gates", !.on = env.on,
                  !.targets = {[doc |-> d, rev |-> 0, embed |-> "failed"] : d \in D}])
  /\ UNCHANGED <<env, poison, enabled, embed, rev, known, jobs>>

\* a slip: a write of chunks is reported as residual too
EmbedStatusAlwaysMissing(chunks) == "missing"

\* what a write reports of the document: the chunks it carried, not those stored
EmbedStatus(chunks) == IF chunks THEN "complete" ELSE "missing"

\* the hook of the write API, still inside the request
Hook(d, r, chunks) ==
  /\ pass["crud"].pc = "idle"
  /\ Go("crud", [Rest EXCEPT !.pc = "gates", !.on = enabled,
                !.targets = {[doc |-> d, rev |-> r, embed |-> EmbedStatus(chunks)]}])

\* an ingest stores new content with its chunks and embeddings
Write(d) ==
  /\ rev[d] < MaxRev
  /\ Event
  /\ rev' = [rev EXCEPT ![d] = @ + 1]
  /\ embed' = [embed EXCEPT ![d] = "complete"]
  /\ Hook(d, rev[d] + 1, TRUE)
  /\ UNCHANGED <<env, poison, enabled, known, jobs>>

\* an ingest found the hash unchanged: it writes the row and no chunks; when the
\* document was deleted since, that makes one without any
WriteUnchanged(d) ==
  /\ Event
  /\ \/ embed' = embed
     \/ embed' = [embed EXCEPT ![d] = "missing"]
  /\ Hook(d, rev[d], FALSE)
  /\ UNCHANGED <<env, poison, enabled, rev, known, jobs>>

SetEnabled(b) ==
  /\ b # enabled
  /\ Event
  /\ enabled' = b
  /\ UNCHANGED <<env, poison, embed, rev, pass, known, jobs>>

-----------------------------------------------------------------------------
(***************************************************************************)
(* The worker of a job.                                                    *)
(***************************************************************************)
At(j, l) == jobs[j] # Free /\ jobs[j].at = l

SetJob(j, r) == jobs' = [jobs EXCEPT ![j] = r] /\ UNCHANGED known

\* j is not at work any more: who saw it there saw an earlier try of it
Unseen(j) == [i \in Slots |-> IF jobs[i] = Free THEN Free
                              ELSE [jobs[i] EXCEPT !.saw = @ \ {j}]]

EndJob(j) ==
  /\ jobs' = [Unseen(j) EXCEPT ![j] = Free]
  /\ known' = [s \in Sources |-> known[s] \ {j}]

\* two slips: the count admits one more; the master switch is not read again
GateOneMore(j, others) ==
  Decide(env.on, env.kill, jobs[j].embed, Key(jobs[j]), {}, Cardinality(others) - 1)
GateAlwaysOn(j, others) ==
  Decide(TRUE, env.kill, jobs[j].embed, Key(jobs[j]), {}, Cardinality(others))

Gate(j, others) ==
  Decide(env.on, env.kill, jobs[j].embed, Key(jobs[j]), {}, Cardinality(others))

\* the decision; a job that is not to run is completed at once
Decided(j) ==
  /\ At(j, "gate")
  /\ LET others == Running \ {j} IN
     IF Gate(j, others) = "enqueue"
     THEN SetJob(j, [jobs[j] EXCEPT !.at = "start", !.saw = others])
     ELSE EndJob(j)
  /\ UNCHANGED <<env, poison, enabled, embed, rev, pass, events>>

Start(j) ==
  /\ At(j, "start")
  /\ SetJob(j, [jobs[j] EXCEPT !.at = "work", !.status = "running"])
  /\ UNCHANGED <<env, poison, enabled, embed, rev, pass, events>>

(***************************************************************************)
(* reembed_documents writes through the write API, whose hook runs as for  *)
(* any write.  It is one step here: what it reports decides before any of  *)
(* the gates does.  A job it enqueued would take the place of this one.    *)
(***************************************************************************)
Reembed(j) ==
  LET d == jobs[j].doc
      hook == Decide(enabled, env.kill, EmbedStatus(TRUE), <<d, rev[d]>>,
                     {}, Cardinality(Running)) IN
  /\ At(j, "work") /\ d \notin poison
  /\ embed' = [embed EXCEPT ![d] = "complete"]
  /\ IF hook = "enqueue" THEN SetJob(j, Job([doc |-> d, rev |-> rev[d], embed |-> "missing"]))
     ELSE EndJob(j)
  /\ UNCHANGED <<env, poison, enabled, rev, pass, events>>

\* nothing of this document can be embedded: no retry helps
ReembedFails(j) ==
  /\ At(j, "work") /\ jobs[j].doc \in poison
  /\ EndJob(j)
  /\ UNCHANGED <<env, poison, enabled, embed, rev, pass, events>>

\* a transport error: the worker marks the job failed and tries it again
ReembedTransient(j) ==
  /\ At(j, "work")
  /\ Event
  /\ IF jobs[j].tries < MaxRetries
     THEN /\ jobs' = [Unseen(j) EXCEPT ![j] = [jobs[j] EXCEPT !.at = "gate", !.status = "failed",
                                                             !.tries = @ + 1, !.saw = {}]]
          /\ UNCHANGED known
     ELSE EndJob(j)
  /\ UNCHANGED <<env, poison, enabled, embed, rev, pass>>

\* the container is killed: the record stays as it is, for good
WorkerDies(j) ==
  /\ jobs[j] # Free /\ jobs[j].at # "dead"
  /\ Event
  /\ SetJob(j, [jobs[j] EXCEPT !.at = "dead", !.saw = {}])
  /\ UNCHANGED <<env, poison, enabled, embed, rev, pass>>

\* ... until an operator cancels or deletes it
OperatorClears(j) ==
  /\ At(j, "dead")
  /\ EndJob(j)
  /\ UNCHANGED <<env, poison, enabled, embed, rev, pass, events>>

-----------------------------------------------------------------------------
PassStep(s) == ReadGates(s) \/ (\E j \in Slots : Post(s, j)) \/ Skip(s)

TickStep == Tick \/ TickList \/ PassStep("tick")

WorkerStep(j) == Decided(j) \/ Start(j) \/ Reembed(j) \/ ReembedFails(j)

Outside ==
  \/ \E D \in SUBSET Docs \ {{}} : JobEnded(D)
  \/ \E d \in Docs : Write(d) \/ WriteUnchanged(d)
  \/ \E b \in BOOLEAN : SetEnabled(b)
  \/ \E s \in Sources : PassFails(s)
  \/ \E j \in Slots : ReembedTransient(j) \/ WorkerDies(j) \/ OperatorClears(j)

Next ==
  \/ TickStep \/ PassStep("job") \/ PassStep("crud")
  \/ \E j \in Slots : WorkerStep(j)
  \/ Outside

Spec == Init /\ [][Next]_vars

(***************************************************************************)
(* The schedule fires every day, requests are served and spawned workers   *)
(* run; nobody has to write, to fail or to clear a dead job.               *)
(***************************************************************************)
Fairness ==
  /\ WF_vars(TickStep) /\ WF_vars(PassStep("job")) /\ WF_vars(PassStep("crud"))
  /\ \A j \in Slots : WF_vars(WorkerStep(j))

FairSpec == Spec /\ Fairness

-----------------------------------------------------------------------------
(***************************************************************************)
(* More catch-ups than the cap are at work only when two of them decided   *)
(* before either had set running: the check and the act are two steps      *)
(* (automation_catchup.py), and that overlap is the only way around it.    *)
(***************************************************************************)
AtWork == {j \in Running : jobs[j].at # "dead"}

CapBrokenOnlyByOverlap ==
  Cardinality(AtWork) > env.cap =>
    \E i, j \in AtWork : i # j /\ i \notin jobs[j].saw /\ j \notin jobs[i].saw

(***************************************************************************)
(* With the master switch of the deployment off, or its kill switch on, no *)
(* document is ever embedded again, although the write API goes on         *)
(* enqueueing for the switch of the admin UI.                              *)
(***************************************************************************)
OffMeansNoWork == env.kill \/ ~env.on => Running = {}

(***************************************************************************)
(* The gates hold for whatever runs, though each is read some steps before *)
(* it is relied on: the cap and the switches of the deployment.            *)
(***************************************************************************)
GatesHold == CapBrokenOnlyByOverlap /\ OffMeansNoWork

(***************************************************************************)
(* A second live job for one document revision comes only from the hook of *)
(* the write API, which cannot tell what the live jobs are for, or from a  *)
(* pass that read its gates before the first was posted: to the tick and   *)
(* to the hook of the jobs a pending job blocks as much as a running one.  *)
(***************************************************************************)
DuplicateNeedsOverlap ==
  [][\A s \in Keyed, j \in Slots : Post(s, j) =>
       \A k \in known[s] : ~(k \in Live /\ Key(jobs[k]) = Key(jobs'[j]))]_vars

(***************************************************************************)
(* The automation does not feed itself: the write a catch-up makes never   *)
(* leads to another catch-up, whatever the gates say by then.              *)
(***************************************************************************)
CatchupFeedsNothing ==
  [][\A j \in Slots : Reembed(j) => jobs'[j] = Free]_vars

(***************************************************************************)
(* A document without embeddings gets them, although others fail for good  *)
(* (fewer than the cap) and jobs are skipped, retried and duplicated: the  *)
(* tick comes back for it.  Excepted are an automation that is switched    *)
(* off and a dead worker, whose record blocks its document and keeps its   *)
(* share of the cap until somebody clears it.                              *)
(***************************************************************************)
Stuck == env.kill \/ ~env.on \/ ~enabled \/ \E j \in Slots : At(j, "dead")

ResidualIsCaughtUp ==
  \A d \in Docs :
    embed[d] = "missing" /\ d \notin poison /\ Cardinality(poison) < env.cap
      ~> embed[d] = "complete" \/ Stuck
=============================================================================
