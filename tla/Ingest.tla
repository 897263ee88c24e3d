------------------------------- MODULE Ingest -------------------------------
(***************************************************************************)
(* One ingest job inside the worker: run_ingest_job.  With options.crawl   *)
(* the seed is first expanded, breadth first, into the pages of its site;  *)
(* then each URL is scraped, chunked, tagged and embedded on its own, and  *)
(* all documents are written by one batch at the end.                      *)
(*                                                                         *)
(* A page answers a request or not, and differently to the two requests a  *)
(* crawled page gets: one of the discovery, one of the scrape.             *)
(***************************************************************************)
EXTENDS Naturals, FiniteSets, Sequences, SequencesExt

CONSTANTS
  Pages,       \* normalized URLs; numbers
  Seed,        \* the first URL of the job
  Sites,       \* sites to consider: page -> the pages it links to, in order
  Scopes,      \* sets of pages under the path prefix of the seed to consider
  Plans,       \* crawl, max_depth, max_pages and translate_to of the jobs to consider
  Given        \* the URLs of a job without crawl, as they were posted

ASSUME IngestAssumption ==
  /\ IsFiniteSet(Pages) /\ Given \in Seq(Pages)
  /\ Sites \subseteq [Pages -> Seq(Pages)]
  /\ Scopes \subseteq {ps \in SUBSET Pages : Seed \in ps}
  /\ Plans \subseteq [crawl : BOOLEAN, depth : Nat, cap : Nat \ {0}, translate : BOOLEAN]

VARIABLES
  links,     \* page -> the pages it links to, in the order of its anchors
  inScope,   \* the pages under the path prefix of the seed
  plan,      \* the options of the job
  stage,     \* what the worker does
  queue,     \* discovery: pages to visit with their depth
  urls,      \* the pages visited, or the URLs of the job
  cut,       \* hit_max_depth
  reason,    \* crawl_stopped_reason
  outcomes,  \* what became of the URLs so far, in their order
  failure    \* the error the job failed with

ingestVars == <<links, inScope, plan, stage, queue, urls, cut, reason, outcomes, failure>>

Stages   == {"discover", "pages", "write", "translate", "completed", "failed"}
Reasons  == {"none", "complete", "max_depth", "max_pages"}
Failures == {"none", "discovery", "embed", "no_document", "write"}

IngestTypeOK ==
  /\ links \in Sites /\ inScope \in Scopes /\ plan \in Plans
  /\ stage \in Stages
  /\ queue \in Seq(Pages \X (0..plan.depth))
  /\ urls \in Seq(Pages)
  /\ plan.crawl => IsInjective(urls) /\ Len(urls) <= plan.cap
  /\ cut \in BOOLEAN
  /\ reason \in Reasons
  /\ outcomes \in Seq({"batch", "failed"})
  /\ failure \in Failures

\* A job without crawl brings its URLs and follows no link
IngestInit ==
  /\ links \in Sites /\ inScope \in Scopes /\ plan \in Plans
  /\ ~plan.crawl => \A p \in Pages : links[p] = <<>>
  /\ stage = IF plan.crawl THEN "discover" ELSE "pages"
  /\ queue = IF plan.crawl THEN <<<<Seed, 0>>>> ELSE <<>>
  /\ urls = IF plan.crawl THEN <<>> ELSE Given
  /\ cut = FALSE
  /\ reason = "none"
  /\ outcomes = <<>>
  /\ failure = "none"

Fixed == UNCHANGED <<links, inScope, plan>>

Fail(why) == stage' = "failed" /\ failure' = why

-----------------------------------------------------------------------------
(***************************************************************************)
(* discover_crawl_urls: a page is marked when it is taken from the queue,  *)
(* so that a page may stand in the queue more than once.                   *)
(***************************************************************************)
\* a slip: one page too many
VisitingOneMore == stage = "discover" /\ queue # <<>> /\ Len(urls) <= plan.cap
Visiting == stage = "discover" /\ queue # <<>> /\ Len(urls) < plan.cap

Known(p) == p \in ToSet(urls)

\* the entry taken from the queue, and what stays in it; a slip takes the last
TakeLast == <<Last(queue), Front(queue)>>
Take     == <<Head(queue), Tail(queue)>>
Dequeued == Take[1]

IsNew(p, q) == q \in inScope /\ ~Known(q) /\ q # p

\* links of the page that are new and in scope, as queue entries; Of[n] is of the first n
Children(p, depth) ==
  LET Of[n \in 0..Len(links[p])] ==
        IF n = 0 THEN <<>>
        ELSE IF IsNew(p, links[p][n]) THEN Append(Of[n - 1], <<links[p][n], depth + 1>>)
        ELSE Of[n - 1]
  IN Of[Len(links[p])]

SkipSeen ==
  /\ Visiting /\ Known(Dequeued[1])
  /\ queue' = Take[2]
  /\ Fixed /\ UNCHANGED <<stage, urls, cut, reason, outcomes, failure>>

\* a slip: what the limit cuts off is told only when the page has links
VisitAtMaxDepthSilent ==
  /\ Visiting /\ ~Known(Dequeued[1]) /\ Dequeued[2] >= plan.depth
  /\ queue' = Take[2]
  /\ urls' = Append(urls, Dequeued[1])
  /\ Fixed /\ UNCHANGED <<stage, cut, reason, outcomes, failure>>

\* A page at the greatest depth is not read for links: it may have none
VisitAtMaxDepth ==
  /\ Visiting /\ ~Known(Dequeued[1]) /\ Dequeued[2] >= plan.depth
  /\ queue' = Take[2]
  /\ urls' = Append(urls, Dequeued[1])
  /\ cut' = TRUE
  /\ Fixed /\ UNCHANGED <<stage, reason, outcomes, failure>>

VisitAndFollow ==
  /\ Visiting /\ ~Known(Dequeued[1]) /\ Dequeued[2] < plan.depth
  /\ queue' = Take[2] \o Children(Dequeued[1], Dequeued[2])
  /\ urls' = Append(urls, Dequeued[1])
  /\ Fixed /\ UNCHANGED <<stage, cut, reason, outcomes, failure>>

\* _default_fetch_html raises; _enqueue_children catches a KeyError only
VisitRaises ==
  /\ Visiting /\ ~Known(Dequeued[1]) /\ Dequeued[2] < plan.depth
  /\ Fail("discovery")
  /\ urls' = <<>>            \* the record still has its seed, the pages are lost
  /\ Fixed /\ UNCHANGED <<queue, cut, reason, outcomes>>

StopDiscovery ==
  /\ stage = "discover" /\ ~Visiting
  /\ reason' = IF queue # <<>> THEN "max_pages" ELSE IF cut THEN "max_depth" ELSE "complete"
  /\ stage' = "pages"
  /\ Fixed /\ UNCHANGED <<queue, urls, cut, outcomes, failure>>

-----------------------------------------------------------------------------
(***************************************************************************)
(* The URLs one by one, and the batch at the end.                          *)
(***************************************************************************)
Working  == stage = "pages" /\ Len(outcomes) < Len(urls)
Count(f) == outcomes' = Append(outcomes, f)
Wrote    == "batch" \in ToSet(outcomes)

Rest2 == Fixed /\ UNCHANGED <<queue, urls, cut, reason>>

\* scraped, chunked and embedded; or unchanged, a document without chunks
IngestUrl ==
  /\ Working
  /\ Count("batch")
  /\ Rest2 /\ UNCHANGED <<stage, failure>>

ScrapeFails ==
  /\ Working
  /\ Count("failed")
  /\ Rest2 /\ UNCHANGED <<stage, failure>>

\* Soft only for a crawl; otherwise the documents of the URLs before it go too
EmbedFails ==
  /\ Working
  /\ IF plan.crawl THEN Count("failed") /\ UNCHANGED <<stage, failure>>
     ELSE Fail("embed") /\ UNCHANGED outcomes
  /\ Rest2

\* a slip: a job without a document is completed, crawl or not
EndOfPagesLenient ==
  /\ stage = "pages" /\ Len(outcomes) = Len(urls)
  /\ stage' = IF Wrote THEN "write" ELSE "completed"
  /\ UNCHANGED failure
  /\ Rest2 /\ UNCHANGED outcomes

EndOfPages ==
  /\ stage = "pages" /\ Len(outcomes) = Len(urls)
  /\ IF Wrote THEN stage' = "write" /\ UNCHANGED failure
     ELSE IF plan.crawl THEN stage' = "completed" /\ UNCHANGED failure
     ELSE Fail("no_document")
  /\ Rest2 /\ UNCHANGED outcomes

\* the documents, and then a second batch with their translations
WriteBatch ==
  /\ stage = "write"
  /\ stage' = IF plan.translate THEN "translate" ELSE "completed"
  /\ Rest2 /\ UNCHANGED <<outcomes, failure>>

Translate == stage = "translate" /\ stage' = "completed" /\ Rest2 /\ UNCHANGED <<outcomes, failure>>

BatchFails == stage \in {"write", "translate"} /\ Fail("write") /\ Rest2 /\ UNCHANGED outcomes

IngestStep ==
  \/ SkipSeen \/ VisitAtMaxDepth \/ VisitAndFollow \/ VisitRaises \/ StopDiscovery
  \/ IngestUrl \/ ScrapeFails \/ EmbedFails \/ EndOfPages
  \/ WriteBatch \/ Translate \/ BatchFails

IngestNext == IngestStep

-----------------------------------------------------------------------------
(***************************************************************************)
(* Properties.                                                             *)
(***************************************************************************)
\* the pages of the site at most k links away from the seed
Within[k \in 0..Cardinality(Pages)] ==
  IF k = 0 THEN {Seed}
  ELSE LET near == Within[k - 1]
       IN near \cup {q \in inScope : \E p \in near : q \in ToSet(links[p])}

\* A crawl visits near pages first: no page is visited while a page nearer to
\* the seed has not been.  max_pages keeps the pages closest to the seed, and a
\* page first seen on a long path still has its own links followed.
\* Code: the queue of discover_crawl_urls, marked when taken (crawl.py 153-164).
NearestFirst ==
  plan.crawl => \A k \in 0..Cardinality(Pages) :
    ToSet(urls) \subseteq Within[k] \/ Within[k] \subseteq ToSet(urls)

\* The reason a crawl reports is true: "complete" means that every page of the
\* scope that links lead to was visited, "max_depth" that every page within
\* max_depth was.  Code: crawl.py 166-170.
ReasonIsTrue ==
  /\ reason = "complete" => ToSet(urls) = Within[Cardinality(Pages)]
  /\ reason = "max_depth" =>
       \A k \in 0..Cardinality(Pages) : k <= plan.depth => Within[k] \subseteq ToSet(urls)

\* A completed job has an outcome for each of its URLs, and one without crawl
\* completes only if it wrote a document.  Code: pipeline.py 445-538.
CompletedIsAccounted ==
  stage = "completed" =>
    /\ Len(outcomes) = Len(urls)
    /\ ~plan.crawl => Wrote

\* What an ingest job promises of the URLs it was given or found.
IngestPromise == NearestFirst /\ ReasonIsTrue /\ CompletedIsAccounted

\* "per-page soft fail - continue crawl; record page errors in job metrics"
\* (docs/spec.md): no single page makes a crawl fail.
PageNeverFailsCrawl == plan.crawl => failure \in {"none", "write"}

IngestSpec == IngestInit /\ [][IngestNext]_ingestVars /\ WF_ingestVars(IngestStep)
=============================================================================
