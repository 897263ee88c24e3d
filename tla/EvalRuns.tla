----------------------------- MODULE EvalRuns ------------------------------
(***************************************************************************)
(* An evaluation run (F40): a row of eval_runs that the write API inserts, *)
(* an eval job of the data-management app that asks the write API to       *)
(* execute it, and the executions of that request.  The row, the job store *)
(* and the executing request live in three processes: a reply may be lost, *)
(* a caller gives up while the request goes on, and a retried job runs     *)
(* beside the execution of the first.  One run is modelled; runs share     *)
(* nothing.                                                                *)
(***************************************************************************)
EXTENDS Naturals, FiniteSets

CONSTANTS
  EvalJobs,        \* job records for the run: the first and those of retries
  NoJob,
  MaxEvalFaults    \* bound on errors, lost replies, timeouts and deaths together

ASSUME EvalAssumption == NoJob \notin EvalJobs /\ MaxEvalFaults \in Nat

VARIABLES
  evalRun,    \* the row: status, deleted_at, whose summary it shows
  items,      \* the jobs whose executions have rows in eval_run_items
  creator,    \* what POST /eval/runs does next
  evalJobs,   \* job -> its record and the point its worker is at
  deleter,    \* the job whose run DELETE /jobs/{id} has deleted, and is to remove
  canceller,  \* the job whose call POST /jobs/{id}/cancel has dealt with, and is to write
  execs,      \* job -> what the execution it asked for does next
  evalFaults

evalVars == <<evalRun, items, creator, evalJobs, deleter, canceller, execs, evalFaults>>

RunRows  == [status : {"none", "pending", "running", "completed", "failed"},
             deleted : BOOLEAN, shows : EvalJobs \cup {NoJob}]
EvalRecs == [status : {"none", "pending", "running", "completed", "failed", "cancelled", "gone"},
             at : {"idle", "queued", "call", "wait"}]
ExecSteps == {"none", "load", "setup", "start", "work", "persist", "complete", "fail", "over"}

EvalTypeOK ==
  /\ evalRun \in RunRows
  /\ items \subseteq EvalJobs
  /\ creator \in {"idle", "enqueue", "failing", "over", "lost"}
  /\ evalJobs \in [EvalJobs -> EvalRecs]
  /\ deleter \in EvalJobs \cup {NoJob} /\ canceller \in EvalJobs \cup {NoJob}
  /\ execs \in [EvalJobs -> ExecSteps]
  /\ evalFaults \in 0..MaxEvalFaults

EvalInit ==
  /\ evalRun = [status |-> "none", deleted |-> FALSE, shows |-> NoJob]
  /\ items = {}
  /\ creator = "idle"
  /\ evalJobs = [j \in EvalJobs |-> [status |-> "none", at |-> "idle"]]
  /\ deleter = NoJob /\ canceller = NoJob
  /\ execs = [j \in EvalJobs |-> "none"]
  /\ evalFaults = 0

EvalFault == evalFaults < MaxEvalFaults /\ evalFaults' = evalFaults + 1

-----------------------------------------------------------------------------
(***************************************************************************)
(* POST /eval/runs of the write API.                                       *)
(***************************************************************************)

\* the row is committed before the job is asked for; no job client: 503
CreateEvalRun ==
  /\ creator = "idle"
  /\ creator' \in {"enqueue", "failing"}
  /\ evalRun' = [evalRun EXCEPT !.status = "pending"]
  /\ UNCHANGED <<items, evalJobs, deleter, canceller, execs, evalFaults>>

Put(j, status, at) == evalJobs' = [evalJobs EXCEPT ![j] = [status |-> status, at |-> at]]

\* POST /jobs answers that the job was created
EvalJobCreated(j) ==
  /\ creator = "enqueue"
  /\ evalJobs[j].status = "none"
  /\ Put(j, "pending", "queued")
  /\ creator' = "over"
  /\ UNCHANGED <<evalRun, items, deleter, canceller, execs, evalFaults>>

\* an HTTP error: before a record is there, after its spawn failed, or from
\* a gateway although the job is there and will run
EvalJobRefused ==
  /\ creator = "enqueue"
  /\ \/ UNCHANGED evalJobs
     \/ \E j \in EvalJobs : evalJobs[j].status = "none" /\ Put(j, "failed", "idle")
     \/ \E j \in EvalJobs : evalJobs[j].status = "none" /\ Put(j, "pending", "queued")
  /\ creator' = "failing"
  /\ EvalFault
  /\ UNCHANGED <<evalRun, items, deleter, canceller, execs>>

\* no HTTP answer: the transport's exception is none that the route catches,
\* and the process may die as well
EvalReplyLost ==
  /\ creator \in {"enqueue", "failing"}
  /\ \/ UNCHANGED evalJobs
     \/ \E j \in EvalJobs : /\ creator = "enqueue"
                            /\ evalJobs[j].status = "none"
                            /\ Put(j, "pending", "queued")
  /\ creator' = "lost"
  /\ EvalFault
  /\ UNCHANGED <<evalRun, items, deleter, canceller, execs>>

\* slips: a run that left pending is failed too; nothing is written
FailDispatchAnyStatus ==
  /\ creator = "failing"
  /\ evalRun' = IF ~evalRun.deleted THEN [evalRun EXCEPT !.status = "failed"] ELSE evalRun
  /\ creator' = "over"
  /\ UNCHANGED <<items, evalJobs, deleter, canceller, execs, evalFaults>>

FailDispatchForgotten ==
  creator = "failing" /\ creator' = "over"
                      /\ UNCHANGED <<evalRun, items, evalJobs, deleter, canceller, execs, evalFaults>>

FailEvalRunDispatch ==
  /\ creator = "failing"
  /\ evalRun' = IF evalRun.status = "pending" /\ ~evalRun.deleted
                THEN [evalRun EXCEPT !.status = "failed"] ELSE evalRun
  /\ creator' = "over"
  /\ UNCHANGED <<items, evalJobs, deleter, canceller, execs, evalFaults>>

SoftDeleteEvalRun ==
  /\ evalRun.status # "none"
  /\ ~evalRun.deleted
  /\ evalRun' = [evalRun EXCEPT !.deleted = TRUE]
  /\ UNCHANGED <<items, creator, evalJobs, deleter, canceller, execs, evalFaults>>

-----------------------------------------------------------------------------
(***************************************************************************)
(* The eval job.                                                           *)
(***************************************************************************)

\* the worker's update of a record; a record that is gone makes it raise,
\* and then there is none to write the failure to either
UpdateEvalJob(j, status, at) ==
  evalJobs' = [evalJobs EXCEPT ![j] =
    IF @.status = "gone" THEN [@ EXCEPT !.at = "idle"] ELSE [status |-> status, at |-> at]]

StartEvalJob(j) ==
  /\ evalJobs[j].at = "queued"
  /\ UpdateEvalJob(j, "running", "call")
  /\ UNCHANGED <<evalRun, items, creator, deleter, canceller, execs, evalFaults>>

CallExecute(j) ==
  /\ evalJobs[j].at = "call"
  /\ execs' = [execs EXCEPT ![j] = "load"]
  /\ evalJobs' = [evalJobs EXCEPT ![j].at = "wait"]
  /\ UNCHANGED <<evalRun, items, creator, deleter, canceller, evalFaults>>

\* the caller waits 600 s; the execution knows nothing of it
ExecuteTimesOut(j) ==
  /\ evalJobs[j].at = "wait"
  /\ UpdateEvalJob(j, "failed", "idle")
  /\ EvalFault
  /\ UNCHANGED <<evalRun, items, creator, deleter, canceller, execs>>

\* POST /jobs/{id}/cancel reads the status and cancels the call: the worker is stopped,
\* queued or not, but for a call id that is not stored yet or a cancel that fails
CancelEvalJob(j) ==
  /\ canceller = NoJob
  /\ evalJobs[j].status \in {"pending", "running"}
  /\ canceller' = j
  /\ \/ evalJobs' = [evalJobs EXCEPT ![j].at = "idle"]
     \/ UNCHANGED evalJobs
  /\ UNCHANGED <<evalRun, items, creator, deleter, execs, evalFaults>>

\* and then writes the status over whatever is there; a record that is gone makes it raise
WriteCancelled ==
  /\ canceller # NoJob
  /\ canceller' = NoJob
  /\ evalJobs' = [evalJobs EXCEPT ![canceller].status = IF @ = "gone" THEN @ ELSE "cancelled"]
  /\ UNCHANGED <<evalRun, items, creator, deleter, execs, evalFaults>>

CancellerDies ==
  /\ canceller # NoJob
  /\ canceller' = NoJob
  /\ EvalFault
  /\ UNCHANGED <<evalRun, items, creator, evalJobs, deleter, execs>>

\* POST /jobs/{id}/retry: a new record with the options of the one that ended
RetryEvalJob(j, k) ==
  /\ evalJobs[j].status \in {"failed", "cancelled"}
  /\ evalJobs[k].status = "none"
  /\ Put(k, "pending", "queued")
  /\ UNCHANGED <<evalRun, items, creator, deleter, canceller, execs, evalFaults>>

\* a slip: the record first, the run's deletion when the fault leaves time for it
DeleteRecordFirst(j) ==
  /\ deleter = NoJob
  /\ evalJobs[j].status \notin {"none", "gone"}
  /\ deleter' = j
  /\ evalJobs' = [evalJobs EXCEPT ![j].status = "gone"]
  /\ UNCHANGED <<evalRun, items, creator, canceller, execs, evalFaults>>

\* DELETE /jobs/{id} first deletes the run over HTTP, which is refused (404, told
\* as 502) when the run is deleted already, and then removes the record
DeleteEvalJob(j) ==
  /\ deleter = NoJob
  /\ evalJobs[j].status \notin {"none", "gone"}
  /\ ~evalRun.deleted
  /\ evalRun' = [evalRun EXCEPT !.deleted = TRUE]
  /\ deleter' = j
  /\ UNCHANGED <<items, creator, evalJobs, canceller, execs, evalFaults>>

RemoveEvalRecord ==
  /\ deleter # NoJob
  /\ deleter' = NoJob
  /\ evalJobs' = [evalJobs EXCEPT ![deleter].status = "gone"]
  /\ UNCHANGED <<evalRun, items, creator, canceller, execs, evalFaults>>

DeleterDies ==
  /\ deleter # NoJob
  /\ deleter' = NoJob
  /\ EvalFault
  /\ UNCHANGED <<evalRun, items, creator, evalJobs, canceller, execs>>

-----------------------------------------------------------------------------
(***************************************************************************)
(* execute_eval_run in the write API.                                      *)
(***************************************************************************)
Goto(j, pc) == execs' = [execs EXCEPT ![j] = pc]

\* the answer reaches the worker if it still waits
Answer(j, status) ==
  /\ Goto(j, "over")
  /\ IF evalJobs[j].at = "wait" THEN UpdateEvalJob(j, status, "idle") ELSE UNCHANGED evalJobs

SetRun(status) == evalRun' = [evalRun EXCEPT !.status = status]

LoadEvalRun(j) ==
  /\ execs[j] = "load"
  /\ IF evalRun.deleted THEN Answer(j, "failed") ELSE Goto(j, "setup") /\ UNCHANGED evalJobs
  /\ UNCHANGED <<evalRun, items, creator, deleter, canceller, evalFaults>>

ResolveRuntime(j) ==
  /\ execs[j] = "setup"
  /\ Goto(j, "start")
  /\ UNCHANGED <<evalRun, items, creator, evalJobs, deleter, canceller, evalFaults>>

\* before the try: the row is not touched
ResolveRaises(j) ==
  /\ execs[j] = "setup"
  /\ Answer(j, "failed")
  /\ EvalFault
  /\ UNCHANGED <<evalRun, items, creator, deleter, canceller>>

SetRunRunning(j) ==
  /\ execs[j] = "start"
  /\ SetRun("running")
  /\ Goto(j, "work")
  /\ UNCHANGED <<items, creator, evalJobs, deleter, canceller, evalFaults>>

RunCases(j) ==
  /\ execs[j] = "work"
  /\ Goto(j, "persist")
  /\ UNCHANGED <<evalRun, items, creator, evalJobs, deleter, canceller, evalFaults>>

\* a slip: the rows are written in the background, after the summary
PersistLater(j) ==
  /\ execs[j] = "persist"
  /\ Goto(j, "complete")
  /\ UNCHANGED <<evalRun, items, creator, evalJobs, deleter, canceller, evalFaults>>

PersistResults(j) ==
  /\ execs[j] = "persist"
  /\ items' = items \cup {j}
  /\ Goto(j, "complete")
  /\ UNCHANGED <<evalRun, creator, evalJobs, deleter, canceller, evalFaults>>

CompleteRun(j) ==
  /\ execs[j] = "complete"
  /\ evalRun' = [evalRun EXCEPT !.status = "completed", !.shows = j]
  /\ Answer(j, "completed")
  /\ UNCHANGED <<items, creator, deleter, canceller, evalFaults>>

ExecuteRaises(j) ==
  /\ execs[j] \in {"start", "work", "persist", "complete"}
  /\ Goto(j, "fail")
  /\ EvalFault
  /\ UNCHANGED <<evalRun, items, creator, evalJobs, deleter, canceller>>

FailRun(j) ==
  /\ execs[j] = "fail"
  /\ SetRun("failed")
  /\ Answer(j, "failed")
  /\ UNCHANGED <<items, creator, deleter, canceller, evalFaults>>

\* the write API's process is restarted: the caller sees an error, the row stays
ExecutionDies(j) ==
  /\ execs[j] \notin {"none", "over"}
  /\ Answer(j, "failed")
  /\ EvalFault
  /\ UNCHANGED <<evalRun, items, creator, deleter, canceller>>

-----------------------------------------------------------------------------
CreatorStep == \/ CreateEvalRun \/ EvalJobRefused \/ EvalReplyLost \/ FailEvalRunDispatch
               \/ \E j \in EvalJobs : EvalJobCreated(j)
EvalJobStep(j) == StartEvalJob(j) \/ CallExecute(j)
ExecStep(j) ==
  \/ LoadEvalRun(j) \/ ResolveRuntime(j) \/ ResolveRaises(j) \/ SetRunRunning(j) \/ RunCases(j)
  \/ PersistResults(j) \/ CompleteRun(j) \/ ExecuteRaises(j) \/ FailRun(j) \/ ExecutionDies(j)
OperatorStep ==
  \/ SoftDeleteEvalRun \/ RemoveEvalRecord \/ DeleterDies \/ WriteCancelled \/ CancellerDies
  \/ \E j \in EvalJobs : \/ DeleteEvalJob(j) \/ CancelEvalJob(j) \/ ExecuteTimesOut(j)
                         \/ \E k \in EvalJobs : RetryEvalJob(j, k)

EvalNext == CreatorStep \/ OperatorStep \/ \E j \in EvalJobs : EvalJobStep(j) \/ ExecStep(j)

EvalSpec == EvalInit /\ [][EvalNext]_evalVars

-----------------------------------------------------------------------------
(***************************************************************************)
(* What is correct.                                                        *)
(***************************************************************************)

\* The summary a completed run shows is of an execution whose rows are stored:
\* no chart points at a run without its questions, however many executions of
\* a retried run overlap (eval_run_execute.py:189-202).
SummaryHasItems == evalRun.status = "completed" => evalRun.shows \in items

\* A job record that DELETE /jobs/{id} removed left a deleted run behind,
\* though the two are deleted in two processes and either step may be the last
\* (TP-S013-03).
DeletedJobDeletedRun ==
  \A j \in EvalJobs : evalJobs[j].status = "gone" => evalRun.deleted

\* What the tables of the evaluation and the job store say of one another.
RecordsAgree == SummaryHasItems /\ DeletedJobDeletedRun

\* Only an execution takes a run out of completed: an error of the request that
\* created the run, told late, does not undo a result (fail_eval_run_dispatch
\* touches a pending row only).
ResultNotUndone ==
  [][evalRun.status = "completed" /\ evalRun'.status # "completed"
       => \E j \in EvalJobs : execs[j] \in {"start", "fail"}]_evalVars

\* A call that an operator stopped while its record is, or stays, live
Stopped(j) == evalJobs[j].at = "idle" /\ evalJobs[j].status \in {"pending", "running"}

\* A run does not stay pending for ever: an enqueue that was refused is recorded
\* on the run (BUG-2026-09-09).  What the code leaves out is what the last lines
\* say: the creator got no answer at all, the job ended before its execution set the
\* run to running, or its call was stopped by a cancel, which tells the run nothing
\* (app.py:374-384), whether or not the cancel was written to the record.
PendingEnds ==
  evalRun.status = "pending" ~>
    \/ evalRun.status # "pending" \/ evalRun.deleted
    \/ creator = "lost"
    \/ \E j \in EvalJobs : evalJobs[j].status \in {"failed", "cancelled"} \/ Stopped(j)
=============================================================================
