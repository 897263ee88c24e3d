----------------------------- MODULE ModelPulls -----------------------------
(***************************************************************************)
(* Downloads of playground models: the manifest on a shared volume, the    *)
(* route that lists and pulls, its background jobs, the page that polls    *)
(* the list, and the script that makes a model ready for an evaluation.  A *)
(* container reads the volume as it was when it was mounted and commits    *)
(* the whole manifest; nothing reloads a mount, so it sees what others     *)
(* committed only by being replaced.                                       *)
(***************************************************************************)
EXTENDS Naturals

CONSTANTS
  Tags,          \* model tags with a repository
  NoTag,
  MaxDownloads,  \* pulls that are asked for
  MaxPolls       \* polls in MODEL_PULL_TIMEOUT_MS, and in the script's timeout_s

ASSUME PullAssumption == MaxPolls \in Nat /\ MaxDownloads \in Nat /\ NoTag \notin Tags

Downloads == 1..MaxDownloads

VARIABLES
  manifest,      \* /models/manifest.json as committed: tag -> how it is listed
  staged,        \* tags whose repository was downloaded
  mount,         \* the manifest as the container of the routes sees it
  pull,          \* download -> its pull_model_job, and the mount of its container
  page,          \* what the page shows; it was asked for beside another download when crossed
  loop,          \* download -> its request, then its poll
  setup,         \* the script's ensure_model_ready
  timer          \* which poll downloadPollTimer is of, whether downloadPollStartedAt is
                 \* set, and the polls since it was

pullVars == <<manifest, staged, mount, pull, page, loop, setup, timer>>

Listings == [Tags -> {"none", "pending", "available"}]

NoSetup == [at |-> "idle", tag |-> NoTag, polls |-> 0]

PullTypeOK ==
  /\ manifest \in Listings /\ mount \in Listings /\ staged \subseteq Tags
  /\ pull \in [Downloads -> [at : {"none", "spawned", "pulling", "staged", "over"},
                             mount : Listings]]
  /\ page \in [status : {"idle", "pulling", "success", "timeout", "error"},
               tag : Tags \cup {NoTag}, crossed : BOOLEAN]
  /\ loop \in [Downloads -> [at : {"none", "sent", "spawned", "answered", "timer", "asked",
                                   "ready", "waiting", "over"},
                             tag : Tags \cup {NoTag}, page : BOOLEAN]]
  /\ setup \in [at : {"idle", "pull", "pulling", "wait", "check", "ready"},
                tag : Tags \cup {NoTag}, polls : 0..MaxPolls]
  /\ timer \in [of : 0..MaxDownloads, on : BOOLEAN, polls : 0..MaxPolls]

PullInit ==
  /\ manifest = [t \in Tags |-> "none"] /\ mount = manifest /\ staged = {}
  /\ pull = [d \in Downloads |-> [at |-> "none", mount |-> manifest]]
  /\ page = [status |-> "idle", tag |-> NoTag, crossed |-> FALSE]
  /\ loop = [d \in Downloads |-> [at |-> "none", tag |-> NoTag, page |-> TRUE]]
  /\ setup = NoSetup
  /\ timer = [of |-> 0, on |-> FALSE, polls |-> 0]

-----------------------------------------------------------------------------
(***************************************************************************)
(* The routes and the jobs.                                                *)
(***************************************************************************)
PageVars == <<page, setup, timer>>
Unused(d) == loop[d].at = "none" /\ \A e \in 1..(d - 1) : loop[e].at # "none"
Goes(d, at) == loop' = [loop EXCEPT ![d].at = at]

\* pull_model spawns the job and then registers the tag
SpawnPull(d) ==
  /\ loop[d].at = "sent"
  /\ Goes(d, "spawned") /\ pull' = [pull EXCEPT ![d].at = "spawned"]
  /\ UNCHANGED <<manifest, staged, mount, PageVars>>

\* _register_pending_model: a tag the mount does not list is added to it
RegisterPending(d) ==
  /\ loop[d].at = "spawned"
  /\ IF mount[loop[d].tag] = "none"
     THEN mount' = [mount EXCEPT ![loop[d].tag] = "pending"] /\ manifest' = mount'
     ELSE UNCHANGED <<mount, manifest>>
  /\ Goes(d, "answered")
  /\ UNCHANGED <<staged, pull, PageVars>>

\* a new container, or one that has run another job
StartPull(d) ==
  /\ pull[d].at = "spawned"
  /\ \E m \in {manifest} \cup {pull[e].mount : e \in {x \in Downloads : pull[x].at = "over"}} :
       pull' = [pull EXCEPT ![d] = [at |-> "pulling", mount |-> m]]
  /\ UNCHANGED <<manifest, staged, mount, loop, PageVars>>

StagePull(d) ==
  /\ pull[d].at = "pulling"
  /\ staged' = staged \cup {loop[d].tag}
  /\ pull' = [pull EXCEPT ![d].at = "staged"]
  /\ UNCHANGED <<manifest, mount, loop, PageVars>>

\* a slip: marked before the repository is there
MarkAtStart(d) ==
  /\ pull[d].at \in {"pulling", "staged"}
  /\ manifest' = [pull[d].mount EXCEPT ![loop[d].tag] = "available"]
  /\ pull' = [pull EXCEPT ![d] = [at |-> "over", mount |-> manifest']]
  /\ UNCHANGED <<staged, mount, loop, PageVars>>

\* _mark_model_available, in the manifest of its mount
MarkAvailable(d) ==
  /\ pull[d].at = "staged"
  /\ manifest' = [pull[d].mount EXCEPT ![loop[d].tag] = "available"]
  /\ pull' = [pull EXCEPT ![d] = [at |-> "over", mount |-> manifest']]
  /\ UNCHANGED <<staged, mount, loop, PageVars>>

\* the download raises, or the container is killed at its timeout
PullFails(d) ==
  /\ pull[d].at \in {"spawned", "pulling", "staged"}
  /\ pull' = [pull EXCEPT ![d].at = "over"]
  /\ UNCHANGED <<manifest, staged, mount, loop, PageVars>>

\* the container of the routes is replaced
Remount ==
  /\ mount # manifest /\ mount' = manifest
  /\ UNCHANGED <<manifest, staged, pull, loop, PageVars>>

-----------------------------------------------------------------------------
(***************************************************************************)
(* The page.                                                               *)
(***************************************************************************)
Volume == <<manifest, staged, mount, pull, setup>>
Alive(d) == loop[d].page /\ loop[d].at \notin {"none", "over"}
Shows(status) == page' = [page EXCEPT !.status = status]

\* clearDownloadPoll: the timer it knows, not the other ones nor a poll that waits
\* for its answer
ClearPoll(d, at) ==
  /\ timer' = [of |-> 0, on |-> FALSE, polls |-> 0]
  /\ loop' = [e \in Downloads |-> IF e = d THEN [loop[e] EXCEPT !.at = at]
                                  ELSE IF e = timer.of /\ loop[e].at = "timer"
                                       THEN [loop[e] EXCEPT !.at = "over"] ELSE loop[e]]

\* downloadModel: the buttons of the other tags stay enabled
Download(d, t) ==
  /\ Unused(d)
  /\ page.status # "pulling" \/ page.tag # t
  /\ page' = [status |-> "pulling", tag |-> t, crossed |-> \E e \in Downloads : Alive(e)]
  /\ loop' = [loop EXCEPT ![d] = [at |-> "sent", tag |-> t, page |-> TRUE]]
  /\ UNCHANGED <<Volume, timer>>

DownloadFails(d) ==
  /\ loop[d].page /\ loop[d].at \in {"sent", "spawned", "answered"}
  /\ ClearPoll(d, "over") /\ Shows("error")
  /\ UNCHANGED Volume

\* scheduleDownloadPoll
SchedulePoll(d) ==
  /\ loop[d].page /\ loop[d].at = "answered"
  /\ LET cleared == [e \in Downloads |-> IF e = timer.of /\ loop[e].at = "timer"
                                         THEN [loop[e] EXCEPT !.at = "over"] ELSE loop[e]]
     IN loop' = [cleared EXCEPT ![d].at = "timer"]
  /\ timer' = [of |-> d, on |-> TRUE, polls |-> 0]
  /\ UNCHANGED <<Volume, page>>

PollTimesOut(d) ==
  /\ loop[d].at = "timer" /\ timer.on /\ timer.polls = MaxPolls
  /\ ClearPoll(d, "over") /\ Shows("timeout")
  /\ UNCHANGED Volume

PollEnds(d) ==
  /\ loop[d].at = "timer" /\ ~timer.on
  /\ Goes(d, "over") /\ UNCHANGED <<Volume, PageVars>>

PollList(d) ==
  /\ loop[d].at = "timer" /\ timer.on /\ timer.polls < MaxPolls
  /\ Goes(d, "asked") /\ timer' = [timer EXCEPT !.polls = @ + 1]
  /\ UNCHANGED <<Volume, page>>

\* the answer is kept while the tags of the open families are loaded again
ListAnswers(d) ==
  /\ loop[d].at = "asked"
  /\ Goes(d, IF mount[loop[d].tag] = "available" THEN "ready" ELSE "waiting")
  /\ UNCHANGED <<Volume, PageVars>>

ListFails(d) ==
  /\ loop[d].at = "asked"
  /\ ClearPoll(d, "over") /\ Shows("error")
  /\ UNCHANGED Volume

ShowSuccess(d) ==
  /\ loop[d].at = "ready"
  /\ ClearPoll(d, "over") /\ Shows("success")
  /\ UNCHANGED Volume

\* a slip: the clock starts again with every poll
PollAgainAfresh(d) ==
  /\ loop[d].at = "waiting"
  /\ Goes(d, "timer") /\ timer' = [of |-> d, on |-> TRUE, polls |-> 0]
  /\ UNCHANGED <<Volume, page>>

PollAgain(d) ==
  /\ loop[d].at = "waiting"
  /\ Goes(d, "timer") /\ timer' = [timer EXCEPT !.of = d]
  /\ UNCHANGED <<Volume, page>>

\* resetDownloadStatus: the polls go on
ResetStatus ==
  /\ page.status \notin {"idle", "pulling"}
  /\ page' = [status |-> "idle", tag |-> NoTag, crossed |-> \E d \in Downloads : Alive(d)]
  /\ UNCHANGED <<Volume, loop, timer>>

-----------------------------------------------------------------------------
(***************************************************************************)
(* The script, for one model after the other.  Any of its requests may     *)
(* raise and end it.                                                       *)
(***************************************************************************)
Others == <<manifest, staged, mount, page, timer>>
Setup(at) == setup' = IF at = "idle" THEN NoSetup ELSE [setup EXCEPT !.at = at, !.polls = 0]
Listed(t) == mount[t] = "available"

\* _pull_if_needed
StartSetup(t) ==
  /\ setup.at \in {"idle", "ready"}
  /\ setup' = [at |-> IF Listed(t) THEN "check" ELSE "pull", tag |-> t, polls |-> 0]
  /\ UNCHANGED <<Others, pull, loop>>

SetupPulls(d) ==
  /\ setup.at = "pull" /\ Unused(d)
  /\ Setup("pulling")
  /\ loop' = [loop EXCEPT ![d] = [at |-> "sent", tag |-> setup.tag, page |-> FALSE]]
  /\ UNCHANGED <<Others, pull>>

\* with --no-wait the list is not polled
PullAccepted(d) ==
  /\ setup.at = "pulling" /\ ~loop[d].page /\ loop[d].at = "answered"
  /\ \A e \in (d + 1)..MaxDownloads : loop[e].at = "none" \/ loop[e].page
  /\ Setup("wait") \/ Setup("check")
  /\ Goes(d, "over")
  /\ UNCHANGED <<Others, pull>>

\* _wait_until_available looks before it tests the deadline
SetupPolls ==
  /\ setup.at = "wait"
  /\ IF Listed(setup.tag) THEN Setup("check")
     ELSE IF setup.polls = MaxPolls THEN Setup("idle")
     ELSE setup' = [setup EXCEPT !.polls = @ + 1]
  /\ UNCHANGED <<Others, pull, loop>>

\* a slip: the models are not listed again
SetupTrustsWait ==
  /\ setup.at = "check"
  /\ Setup("ready")
  /\ UNCHANGED <<Others, pull, loop>>

\* the list is read once more before the model is warmed
SetupChecks ==
  /\ setup.at = "check"
  /\ Setup(IF Listed(setup.tag) THEN "ready" ELSE "idle")
  /\ UNCHANGED <<Others, pull, loop>>

\* a request that raises may have been served
SetupRaises ==
  /\ setup.at \in {"pull", "pulling", "wait", "check"}
  /\ Setup("idle")
  /\ loop' = [d \in Downloads |-> IF loop[d].page \/ loop[d].at \notin {"sent", "answered"}
                                  THEN loop[d] ELSE [loop[d] EXCEPT !.at = "over"]]
  /\ UNCHANGED <<Others, pull>>

-----------------------------------------------------------------------------
RouteStep(d) == SpawnPull(d) \/ RegisterPending(d)
JobStep(d) == StartPull(d) \/ StagePull(d) \/ MarkAvailable(d)
PollStep(d) == \/ SchedulePoll(d) \/ PollTimesOut(d) \/ PollEnds(d) \/ PollList(d)
               \/ ListAnswers(d) \/ ShowSuccess(d) \/ PollAgain(d)
SetupStep == \/ SetupPolls \/ SetupChecks
             \/ \E d \in Downloads : PullAccepted(d)

PullNext ==
  \/ Remount \/ ResetStatus \/ SetupStep \/ SetupRaises
  \/ \E t \in Tags : StartSetup(t)
  \/ \E d \in Downloads : \/ \E t \in Tags : Download(d, t)
                          \/ RouteStep(d) \/ JobStep(d) \/ PullFails(d) \/ SetupPulls(d)
                          \/ PollStep(d) \/ DownloadFails(d) \/ ListFails(d)

\* requests are served and timers fire; nobody has to ask, and a pull may never start
PullFairness ==
  /\ \A d \in Downloads : WF_pullVars(RouteStep(d)) /\ WF_pullVars(PollStep(d))
  /\ WF_pullVars(SetupStep)

PullSpec == PullInit /\ [][PullNext]_pullVars /\ PullFairness

-----------------------------------------------------------------------------
(***************************************************************************)
(* What is correct.                                                        *)
(***************************************************************************)

\* A download is shown as a success, and the script goes on to warm a model, only
\* when the model is on the volume: the manifest says available after the download
\* alone, whatever mounts it was written from.  A download that was asked for while
\* the poll of another one was alive may be ended by that poll: the status and the
\* timer are shared (playground-model-download-context.ts 195-280).
SuccessIsStaged ==
  /\ page.status = "success" => page.tag \in staged \/ page.crossed
  /\ setup.at = "ready" => setup.tag \in staged

\* Neither the page nor the script waits for ever: the model is listed, a request
\* fails or the time is over, also when the job is lost, the container of the routes
\* never sees the new manifest, or two polls share the timer.
PullingEnds ==
  /\ page.status = "pulling" ~> page.status # "pulling"
  /\ setup.at = "wait" ~> setup.at # "wait"
=============================================================================
