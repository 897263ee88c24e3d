----------------------------- MODULE JobEvents -----------------------------
(***************************************************************************)
(* How the Jobs page learns what the job store says: the server-sent       *)
(* events of GET /jobs/events, and GET /jobs as a fallback.  Each          *)
(* container of the data-management app keeps its own list of events;      *)
(* every open stream first copies the store into the list and then sends   *)
(* what is behind its cursor, and the streams of a container share the     *)
(* list.  One stream is the page's, the others are other viewers'.         *)
(***************************************************************************)
EXTENDS Naturals, Sequences

CONSTANTS
  SseJobs,         \* job ids
  Streams,         \* streams that are open
  PageStream,      \* the one of the page
  Containers,      \* containers of the app
  MaxUpdates,      \* bound on the updates of a job
  MaxSseFaults     \* bound on streams that break or end and responses that fail

ASSUME SseAssumption == /\ PageStream \in Streams
                        /\ MaxUpdates \in Nat /\ MaxSseFaults \in Nat

VARIABLES
  jobRev,     \* job -> how often its record was updated: its status and updated_at;
              \* Absent when the record was deleted
  broker,     \* container -> the events and the last fingerprint of each job
  stream,     \* stream -> its container, cursor and what it does next
  jobsPage,   \* what the page shows, and the state of its effect
  sseFaults

sseVars == <<jobRev, broker, stream, jobsPage, sseFaults>>

\* no record, no fingerprint or no row, behind all revisions there are
Absent  == MaxUpdates + 1
Events  == [job : SseJobs, rev : 0..MaxUpdates]
Closed  == [at |-> "closed"]

SseTypeOK ==
  /\ jobRev \in [SseJobs -> 0..Absent]
  /\ \A c \in Containers :
       /\ broker[c].events \in Seq(Events)
       /\ broker[c].print \in [SseJobs -> 0..Absent]
  /\ \A s \in Streams :
       \/ stream[s] = Closed
       \/ /\ stream[s].at \in {"list", "publish", "send"}
          /\ stream[s].on \in Containers
          /\ stream[s].cursor \in 0..Len(broker[stream[s].on].events)
          /\ stream[s].copy \in [stream[s].todo -> 0..MaxUpdates]
          /\ stream[s].todo \subseteq SseJobs
  /\ jobsPage.shows \in [SseJobs -> 0..Absent]
  /\ jobsPage.sse \in {"open", "wait", "ended"}
  /\ jobsPage.poll \in BOOLEAN
  /\ jobsPage.answer \in [SseJobs -> 0..Absent] \cup {<<>>}
  /\ jobsPage.overtaken \in BOOLEAN
  /\ sseFaults \in 0..MaxSseFaults

\* a stream of a client that sends no Last-Event-ID: from the start of the list
Open(c) == [at |-> "list", on |-> c, cursor |-> 0, todo |-> {}, copy |-> <<>>]

SseInit ==
  /\ jobRev = [j \in SseJobs |-> 0]
  /\ broker = [c \in Containers |-> [events |-> <<>>, print |-> [j \in SseJobs |-> Absent]]]
  /\ stream = [s \in Streams |-> Closed]
  /\ jobsPage = [shows |-> jobRev, sse |-> "wait", poll |-> FALSE, answer |-> <<>>, overtaken |-> FALSE]
  /\ sseFaults = 0

SseFault == sseFaults < MaxSseFaults /\ sseFaults' = sseFaults + 1

UpdateJob(j) ==
  /\ jobRev[j] < MaxUpdates
  /\ jobRev' = [jobRev EXCEPT ![j] = @ + 1]
  /\ UNCHANGED <<broker, stream, jobsPage, sseFaults>>

\* DELETE /jobs/{id}: the record goes, the events of the containers stay
DeleteJob(j) ==
  /\ jobRev[j] # Absent
  /\ jobRev' = [jobRev EXCEPT ![j] = Absent]
  /\ UNCHANGED <<broker, stream, jobsPage, sseFaults>>

-----------------------------------------------------------------------------
(***************************************************************************)
(* The server: iter_job_sse over JobEventBroker.                           *)
(***************************************************************************)
OtherConnects(s) ==
  /\ s # PageStream
  /\ stream[s] = Closed
  /\ \E c \in Containers : stream' = [stream EXCEPT ![s] = Open(c)]
  /\ UNCHANGED <<jobRev, broker, jobsPage, sseFaults>>

\* store.list_jobs(): the records are read before any of them is published
Recorded == {j \in SseJobs : jobRev[j] # Absent}

ListJobs(s) ==
  /\ stream[s].at = "list"
  /\ stream' = [stream EXCEPT ![s].at = IF Recorded = {} THEN "send" ELSE "publish",
                              ![s].copy = [j \in Recorded |-> jobRev[j]],
                              ![s].todo = Recorded]
  /\ UNCHANGED <<jobRev, broker, jobsPage, sseFaults>>

\* the stream s goes on with the rest of its copy, or to send what is in the list
Without(st, j) ==
  [st EXCEPT !.todo = @ \ {j}, !.at = IF st.todo = {j} THEN "send" ELSE "publish",
             !.copy = [k \in st.todo \ {j} |-> st.copy[k]]]

\* a slip: a job that was published once is not published again
PublishNewJobs(s) ==
  /\ stream[s].at = "publish"
  /\ \E j \in stream[s].todo :
       LET c == stream[s].on  rev == stream[s].copy[j] IN
       /\ broker' = IF broker[c].print[j] # Absent THEN broker
                    ELSE [broker EXCEPT ![c].events = Append(@, [job |-> j, rev |-> rev]),
                                        ![c].print[j] = rev]
       /\ stream' = [stream EXCEPT ![s] = Without(@, j)]
  /\ UNCHANGED <<jobRev, jobsPage, sseFaults>>

\* _maybe_publish, under the lock, for one record of the copy: another stream may
\* have published a later one meanwhile
MaybePublish(s) ==
  /\ stream[s].at = "publish"
  /\ \E j \in stream[s].todo :
       LET c == stream[s].on  rev == stream[s].copy[j] IN
       /\ broker' = IF broker[c].print[j] = rev THEN broker
                    ELSE [broker EXCEPT ![c].events = Append(@, [job |-> j, rev |-> rev]),
                                        ![c].print[j] = rev]
       /\ stream' = [stream EXCEPT ![s] = Without(@, j)]
  /\ UNCHANGED <<jobRev, jobsPage, sseFaults>>

\* onJob of the page: the row is replaced, or put in when there is none; polling stops
Shown(e) == [jobsPage EXCEPT !.shows[e.job] = e.rev, !.poll = FALSE]

\* one event is sent; behind the last one the loop sleeps and starts again
SendEvent(s) ==
  LET sent == broker[stream[s].on].events IN
  /\ stream[s].at = "send"
  /\ IF stream[s].cursor < Len(sent)
     THEN /\ stream' = [stream EXCEPT ![s].cursor = @ + 1]
          /\ jobsPage' = IF s = PageStream THEN Shown(sent[stream[s].cursor + 1]) ELSE jobsPage
     ELSE stream' = [stream EXCEPT ![s].at = "list"] /\ UNCHANGED jobsPage
  /\ UNCHANGED <<jobRev, broker, sseFaults>>

-----------------------------------------------------------------------------
(***************************************************************************)
(* The page.                                                               *)
(***************************************************************************)
Connect ==
  /\ jobsPage.sse = "wait"
  /\ \E c \in Containers : stream' = [stream EXCEPT ![PageStream] = Open(c)]
  /\ jobsPage' = [jobsPage EXCEPT !.sse = "open"]
  /\ UNCHANGED <<jobRev, broker, sseFaults>>

\* GET /jobs, by the first effect, the refresh button and the poll timer; one at a
\* time is a bound of this model
AskList == IF jobsPage.answer = <<>> THEN jobRev ELSE jobsPage.answer

RequestList ==
  /\ jobsPage.answer = <<>>
  /\ jobsPage' = [jobsPage EXCEPT !.answer = AskList]
  /\ UNCHANGED <<jobRev, broker, stream, sseFaults>>

PollTimer == jobsPage.poll /\ RequestList
UserRefresh == SseFault /\ jobsPage.answer = <<>>
                        /\ jobsPage' = [jobsPage EXCEPT !.answer = AskList]
                        /\ UNCHANGED <<jobRev, broker, stream>>

\* the answer replaces the whole list, whatever events came in since it was asked for
ListArrives ==
  /\ jobsPage.answer # <<>>
  /\ jobsPage' = [jobsPage EXCEPT !.shows = jobsPage.answer, !.answer = <<>>,
       !.overtaken = @ \/ \E j \in SseJobs : jobsPage.answer[j] < jobsPage.shows[j]]
  /\ UNCHANGED <<jobRev, broker, stream, sseFaults>>

ListFails ==
  /\ jobsPage.answer # <<>>
  /\ SseFault
  /\ jobsPage' = [jobsPage EXCEPT !.answer = <<>>]
  /\ UNCHANGED <<jobRev, broker, stream>>

\* onError: poll at once and every 4 s, connect again after a delay
StreamBreaks ==
  /\ jobsPage.sse = "open"
  /\ SseFault
  /\ stream' = [stream EXCEPT ![PageStream] = Closed]
  /\ jobsPage' = [jobsPage EXCEPT !.sse = "wait", !.poll = TRUE, !.answer = AskList]
  /\ UNCHANGED <<jobRev, broker>>

\* the response body ends without an error (the function of the app has 600 s): the
\* reader returns, nothing polls and nothing connects again
StreamEnds ==
  /\ jobsPage.sse = "open"
  /\ SseFault
  /\ stream' = [stream EXCEPT ![PageStream] = Closed]
  /\ jobsPage' = [jobsPage EXCEPT !.sse = "ended"]
  /\ UNCHANGED <<jobRev, broker>>

-----------------------------------------------------------------------------
ServerStep(s) == ListJobs(s) \/ MaybePublish(s) \/ SendEvent(s)
PageStep      == Connect \/ PollTimer \/ ListArrives
SseWorld      == \/ UserRefresh \/ ListFails \/ StreamBreaks \/ StreamEnds
                 \/ \E j \in SseJobs : UpdateJob(j) \/ DeleteJob(j)
                 \/ \E s \in Streams : OtherConnects(s)

SseNext == PageStep \/ SseWorld \/ \E s \in Streams : ServerStep(s)

SseSpec == SseInit /\ [][SseNext]_sseVars

-----------------------------------------------------------------------------
(***************************************************************************)
(* What is correct.                                                        *)
(***************************************************************************)

\* When the jobs have come to rest the page shows those that there are as they are,
\* though streams break, containers have lists of their own, streams publish old copies
\* behind new ones and the whole list is sent again on each connection (RD-173).  Two
\* cases are left out by the code: a stream that ended without an error, and a list that
\* arrived after events that are newer than it.  Nothing is said of a job that was
\* deleted: its events are sent again on each connection and put its row back
\* (job_events.py:58-62, JobsPage.tsx:156-158).
PageCatchesUp ==
  <>[](\/ \A j \in SseJobs : jobRev[j] \in {Absent, jobsPage.shows[j]}
       \/ jobsPage.sse = "ended" \/ jobsPage.overtaken)
=============================================================================
