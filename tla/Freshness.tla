----------------------------- MODULE Freshness -----------------------------
(***************************************************************************)
(* The freshness automation (F79): once a day a tick lists the documents   *)
(* that were not checked for FRESHNESS_STALE_DAYS, newest document first,  *)
(* and enqueues a freshness_refresh job for the first of them; "Refresh    *)
(* now" enqueues one at any time.  A job fetches the page, compares its    *)
(* hash with a stored one, replaces the chunks when they differ, and marks *)
(* its document checked: three requests that others may come between.      *)
(* A url may have a row for each language.  The list, the flags and the    *)
(* mark are of a row; the hash is looked up by the url alone, and the      *)
(* chunks go to the row of the language found in the page.                 *)
(***************************************************************************)
EXTENDS Naturals, FiniteSets

CONSTANTS
  FreshDocs,       \* document ids, numbers: the list is in this order
  Urls,            \* what they were taken from
  UrlOf,           \* document -> its url
  WafUrls,         \* those whose host always blocks the fetch
  FreshSlots,      \* places for live refresh jobs
  MaxEnqueue,      \* VECINITA_FRESHNESS_MAX_ENQUEUE_PER_TICK
  StaleDays,       \* VECINITA_FRESHNESS_STALE_DAYS
  MaxPage,         \* bound on the changes of a page
  MaxFreshEvents   \* bound on edits of the flag, manual refreshes and faults together

ASSUME FreshnessAssumption ==
  /\ FreshDocs \subseteq Nat /\ IsFiniteSet(FreshDocs)
  /\ UrlOf \in [FreshDocs -> Urls]
  /\ MaxEnqueue \in Nat \ {0}
  /\ StaleDays \in Nat \ {0}
  /\ MaxPage \in Nat \ {0}
  /\ MaxFreshEvents \in Nat

VARIABLES
  there,        \* the documents that have a row
  page,         \* url -> what its site shows now
  stored,       \* document -> the content whose chunks and hash are stored
  age,          \* document -> days since last_checked_at, up to StaleDays; StaleDays: never
  refreshOn,    \* document -> refresh_enabled
  freshTick,    \* the daily function: what it does next and its list
  fjobs,        \* slot -> live freshness_refresh job
  freshEvents

freshVars == <<there, page, stored, age, refreshOn, freshTick, fjobs, freshEvents>>

NoRefresh == [at |-> "free"]
FreshJob(d, force, on, stale) ==
  [doc |-> d, force |-> force, on |-> on, stale |-> stale, at |-> "gate", saw |-> 0, alone |-> TRUE]

FreshJobs == [doc : FreshDocs, force : BOOLEAN, on : BOOLEAN, stale : BOOLEAN,
              at : {"gate", "probe", "rechunk", "bump"}, saw : 0..MaxPage, alone : BOOLEAN]

FreshTypeOK ==
  /\ there \subseteq FreshDocs
  /\ page \in [Urls -> 0..MaxPage]
  /\ stored \in [FreshDocs -> 0..MaxPage]
  /\ age \in [FreshDocs -> 0..StaleDays]
  /\ refreshOn \in [FreshDocs -> BOOLEAN]
  /\ freshTick \in [at : {"idle", "list", "post"}, todo : SUBSET FreshDocs, enqueued : 0..MaxEnqueue]
  /\ fjobs \in [FreshSlots -> FreshJobs \cup {NoRefresh}]
  /\ freshEvents \in 0..MaxFreshEvents

FreshInit ==
  /\ \E d \in FreshDocs : there = {c \in FreshDocs : d <= c}   \* newer ones are yet to come
  /\ page = [u \in Urls |-> 1]                 \* changed since the ingest
  /\ stored = [d \in FreshDocs |-> 0]
  /\ age = [d \in FreshDocs |-> 0]             \* those that are there were checked today
  /\ refreshOn = [d \in FreshDocs |-> TRUE]
  /\ freshTick = [at |-> "idle", todo |-> {}, enqueued |-> 0]
  /\ fjobs = [j \in FreshSlots |-> NoRefresh]
  /\ freshEvents = 0

FreshEvent == freshEvents < MaxFreshEvents /\ freshEvents' = freshEvents + 1

Stale(d)  == age[d] = StaleDays
FreshLive == {j \in FreshSlots : fjobs[j] # NoRefresh}
LiveOn(d) == {j \in FreshLive : fjobs[j].doc = d}
RowsOf(u) == {d \in FreshDocs : UrlOf[d] = u}

\* decide_freshness_enqueue with the master enable on and the kill switch off:
\* both are of the container's environment, and when they say no nothing is
\* enqueued and a job that is queued ends without a fetch
Decides(force, on, stale) == on /\ (force \/ stale)

-----------------------------------------------------------------------------
(***************************************************************************)
(* The tick.  A day is over when the tick and the jobs of the day are: the *)
(* function has 600 s, a worker 3600 s.                                    *)
(***************************************************************************)
NewDay ==
  /\ freshTick.at = "idle"
  /\ FreshLive = {}
  /\ age' = [d \in FreshDocs |-> IF Stale(d) \/ d \notin there THEN age[d] ELSE age[d] + 1]
  /\ freshTick' = [freshTick EXCEPT !.at = "list"]
  /\ UNCHANGED <<there, page, stored, refreshOn, fjobs, freshEvents>>

\* a slip: the cap is not applied
ListUncapped ==
  /\ freshTick.at = "list"
  /\ freshTick' = [at |-> "post", enqueued |-> 0, todo |-> {d \in FreshDocs : Stale(d) /\ refreshOn[d]}]
  /\ UNCHANGED <<there, page, stored, age, refreshOn, fjobs, freshEvents>>

\* the pages of the list are read first; a source with its refresh off is skipped,
\* and so is everything behind the first MaxEnqueue others
ListStale ==
  /\ freshTick.at = "list"
  /\ LET listed == {d \in FreshDocs : Stale(d) /\ refreshOn[d]}
     IN freshTick' = [at |-> "post", enqueued |-> 0,
          todo |-> {d \in listed : Cardinality({c \in listed : c < d}) < MaxEnqueue}]
  /\ UNCHANGED <<there, page, stored, age, refreshOn, fjobs, freshEvents>>

Enqueue(d, force, on, stale) ==
  \E j \in FreshSlots : /\ fjobs[j] = NoRefresh
                        /\ fjobs' = [fjobs EXCEPT ![j] = FreshJob(d, force, on, stale)]

\* in the order of the list
PostRefresh ==
  /\ freshTick.at = "post"
  /\ \E d \in freshTick.todo :
       /\ \A c \in freshTick.todo : d <= c
       /\ Enqueue(d, FALSE, TRUE, TRUE)
       /\ freshTick' = [freshTick EXCEPT !.todo = @ \ {d}, !.enqueued = @ + 1]
  /\ UNCHANGED <<there, page, stored, age, refreshOn, freshEvents>>

EndTick ==
  /\ freshTick.at = "post"
  /\ freshTick.todo = {}
  /\ freshTick' = [at |-> "idle", todo |-> {}, enqueued |-> 0]
  /\ UNCHANGED <<there, page, stored, age, refreshOn, fjobs, freshEvents>>

\* a list or a POST that fails ends the branch; the rest waits for the next day
TickRaises ==
  /\ freshTick.at \in {"list", "post"}
  /\ FreshEvent
  /\ freshTick' = [at |-> "idle", todo |-> {}, enqueued |-> 0]
  /\ UNCHANGED <<there, page, stored, age, refreshOn, fjobs>>

-----------------------------------------------------------------------------
(***************************************************************************)
(* The write API, and the world.                                           *)
(***************************************************************************)
RefreshNow(d) ==
  /\ d \in there
  /\ FreshEvent
  /\ Decides(TRUE, refreshOn[d], Stale(d))
  /\ Enqueue(d, TRUE, refreshOn[d], Stale(d))
  /\ UNCHANGED <<there, page, stored, age, refreshOn, freshTick>>

SetRefresh(d) ==
  /\ d \in there
  /\ FreshEvent
  /\ refreshOn' = [refreshOn EXCEPT ![d] = ~@]
  /\ UNCHANGED <<there, page, stored, age, freshTick, fjobs>>

\* (what a walled page shows is never read)
PageChanges(u) ==
  /\ u \notin WafUrls
  /\ page[u] < MaxPage
  /\ page' = [page EXCEPT ![u] = @ + 1]
  /\ UNCHANGED <<there, stored, age, refreshOn, freshTick, fjobs, freshEvents>>

-----------------------------------------------------------------------------
(***************************************************************************)
(* The worker of a job.                                                    *)
(***************************************************************************)
Probed(j)       == fjobs[j].at \in {"rechunk", "bump"}
MoveJob(j, at)  == fjobs' = [fjobs EXCEPT ![j].at = at]
EndRefresh(j)   == fjobs' = [fjobs EXCEPT ![j] = NoRefresh]

GateRefresh(j) ==
  /\ fjobs[j].at = "gate"
  /\ IF Decides(fjobs[j].force, fjobs[j].on, fjobs[j].stale) THEN MoveJob(j, "probe") ELSE EndRefresh(j)
  /\ UNCHANGED <<there, page, stored, age, refreshOn, freshTick, freshEvents>>

\* a slip: an unchanged page is not marked checked
ProbeNoBump(j) ==
  LET u == UrlOf[fjobs[j].doc]
  IN /\ fjobs[j].at = "probe"
     /\ u \notin WafUrls
     /\ \E r \in RowsOf(u) \cap there :
          fjobs' = [fjobs EXCEPT ![j] =
            IF stored[r] = page[u] THEN NoRefresh ELSE [@ EXCEPT !.at = "rechunk", !.saw = page[u]]]
     /\ UNCHANGED <<there, page, stored, age, refreshOn, freshTick, freshEvents>>

\* the page's hash is compared with that of any row of the url (LIMIT 1, in no order);
\* alone: no other job of the url has probed and not ended
Probe(j) ==
  LET u == UrlOf[fjobs[j].doc]
      others == {k \in FreshSlots \ {j} : Probed(k) /\ UrlOf[fjobs[k].doc] = u}
  IN /\ fjobs[j].at = "probe"
     /\ u \notin WafUrls
     /\ \E r \in RowsOf(u) \cap there :
          fjobs' = [k \in FreshSlots |->
            CASE k = j -> [fjobs[j] EXCEPT !.saw = page[u], !.alone = (others = {}),
                                           !.at = IF stored[r] = page[u] THEN "bump" ELSE "rechunk"]
              [] k \in others -> [fjobs[k] EXCEPT !.alone = FALSE]
              [] OTHER -> fjobs[k]]
     /\ UNCHANGED <<there, page, stored, age, refreshOn, freshTick, freshEvents>>

\* the host blocks: a quarantined skip, completed, or a failed job; either way
\* the document is not marked checked
ProbeBlocked(j) ==
  /\ fjobs[j].at = "probe"
  /\ UrlOf[fjobs[j].doc] \in WafUrls
  /\ EndRefresh(j)
  /\ UNCHANGED <<there, page, stored, age, refreshOn, freshTick, freshEvents>>

\* a slip: marked checked before the chunks are replaced
RechunkAfterBump(j) ==
  /\ fjobs[j].at = "rechunk"
  /\ age' = [age EXCEPT ![fjobs[j].doc] = 0]
  /\ MoveJob(j, "bump")
  /\ UNCHANGED <<there, page, stored, refreshOn, freshTick, freshEvents>>

\* ON CONFLICT (url, language): into the row of the language that is detected, whichever
\* that is; a row that was not there is inserted, and was never checked
Rechunk(j) ==
  /\ fjobs[j].at = "rechunk"
  /\ \E r \in RowsOf(UrlOf[fjobs[j].doc]) :
       /\ stored' = [stored EXCEPT ![r] = fjobs[j].saw]
       /\ there' = there \cup {r}
       /\ age' = IF r \in there THEN age ELSE [age EXCEPT ![r] = StaleDays]
  /\ MoveJob(j, "bump")
  /\ UNCHANGED <<page, refreshOn, freshTick, freshEvents>>

BumpLastChecked(j) ==
  /\ fjobs[j].at = "bump"
  /\ age' = [age EXCEPT ![fjobs[j].doc] = 0]
  /\ EndRefresh(j)
  /\ UNCHANGED <<there, page, stored, refreshOn, freshTick, freshEvents>>

\* any request fails, or the worker dies
RefreshFails(j) ==
  /\ fjobs[j] # NoRefresh
  /\ FreshEvent
  /\ EndRefresh(j)
  /\ UNCHANGED <<there, page, stored, age, refreshOn, freshTick>>

-----------------------------------------------------------------------------
TickSteps == NewDay \/ ListStale \/ PostRefresh \/ EndTick
RefreshSteps(j) == GateRefresh(j) \/ Probe(j) \/ ProbeBlocked(j) \/ Rechunk(j) \/ BumpLastChecked(j)
FreshWorld == \/ TickRaises
              \/ \E d \in FreshDocs : RefreshNow(d) \/ SetRefresh(d)
              \/ \E u \in Urls : PageChanges(u)
              \/ \E j \in FreshSlots : RefreshFails(j)

FreshNext == TickSteps \/ FreshWorld \/ \E j \in FreshSlots : RefreshSteps(j)

FreshSpec == FreshInit /\ [][FreshNext]_freshVars

-----------------------------------------------------------------------------
(***************************************************************************)
(* What is correct.                                                        *)
(***************************************************************************)

\* A document is marked checked only when what the job that marks it has fetched
\* is stored under its url, unless two refreshes of that url overlapped: nothing
\* keeps a second job out, and then the slower may have put older content back
\* (AC-FR2).  A failure between the requests never marks it.  It is stored in the
\* document itself when the url has no other row; with a sibling it may be in that.
CheckedIsStored ==
  [][\A d \in FreshDocs : age[d] > 0 /\ age'[d] = 0 =>
       \E j \in LiveOn(d) :
         \/ \E r \in RowsOf(UrlOf[d]) \cap there : stored[r] = fjobs[j].saw
         \/ ~fjobs[j].alone]_freshVars

\* The cap and the fixed order of the list do not starve the documents at its
\* end: with at most as many documents as the cap, less the blocked ones that
\* take a place in it every day, serves while the first of them become stale
\* again, each stale document is checked in the end unless its refresh is off.
Blocked == {d \in FreshDocs : UrlOf[d] \in WafUrls}
Serves == Cardinality(FreshDocs \ Blocked) <= (MaxEnqueue - Cardinality(Blocked)) * StaleDays

StaleIsChecked ==
  Serves => \A d \in FreshDocs \ Blocked : Stale(d) ~> ~Stale(d) \/ ~refreshOn[d]
=============================================================================
