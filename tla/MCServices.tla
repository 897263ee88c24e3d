----------------------------- MODULE MCServices -----------------------------
(***************************************************************************)
(* Bounds for TLC, and the sum of parts that share no state: in one        *)
(* behaviour a single part runs and the others stay as they are, so that   *)
(* one run explores each of them by itself.                                *)
(***************************************************************************)
EXTENDS EvalRuns, Freshness, JobEvents, ConfigRows, ChatAsk, Retrieval, Ingest,
        ChunkWindows, UserAdmin, TLC

VARIABLE part

servicesVars == <<part, evalVars, freshVars, sseVars, configVars, chatVars,
                  retrievalVars, ingestVars, chunkVars, userVars>>

Parts == {"eval", "fresh", "sse", "config", "chat", "retrieval", "ingest", "chunk",
          "users"}

\* A part with several initial states has one of them when it does not run
ServicesInit ==
  /\ part \in Parts
  /\ part # "fresh" => there = FreshDocs
  /\ part # "retrieval" => corpus = {} /\ knob = CHOOSE k \in Knobs : TRUE
  /\ part # "ingest" =>
       /\ links = [p \in Pages |-> <<>>] /\ inScope = Pages
       /\ plan = CHOOSE p \in Plans : ~p.crawl
  /\ part # "chunk" => len = 0 /\ size = 0 /\ overlap = 0
  /\ part # "users" => account = CHOOSE team \in Teams : TRUE
  /\ EvalInit /\ FreshInit /\ SseInit /\ ConfigInit /\ ChatInit
  /\ RetrievalInit /\ IngestInit /\ ChunkInit /\ UserInit

StepOf(p) ==
  \/ p = "eval" /\ EvalNext
  \/ p = "fresh" /\ FreshNext
  \/ p = "sse" /\ SseNext
  \/ p = "config" /\ ConfigNext
  \/ p = "chat" /\ ChatNext
  \/ p = "retrieval" /\ RetrievalNext
  \/ p = "ingest" /\ IngestNext
  \/ p = "chunk" /\ ChunkNext
  \/ p = "users" /\ UserNext

ServicesNext ==
  /\ UNCHANGED part
  /\ StepOf(part)
  /\ part # "eval" => UNCHANGED evalVars
  /\ part # "fresh" => UNCHANGED freshVars
  /\ part # "sse" => UNCHANGED sseVars
  /\ part # "config" => UNCHANGED configVars
  /\ part # "chat" => UNCHANGED chatVars
  /\ part # "retrieval" => UNCHANGED retrievalVars
  /\ part # "ingest" => UNCHANGED ingestVars
  /\ part # "chunk" => UNCHANGED chunkVars
  /\ part # "users" => UNCHANGED userVars

(***************************************************************************)
(* The schedule fires every day, requests are served, spawned workers run  *)
(* and the timers of an open page fire; nobody has to write, to fail, to   *)
(* publish or to open a stream.                                            *)
(***************************************************************************)
ServicesFairness ==
  /\ WF_evalVars(part = "eval" /\ CreatorStep)
  /\ \A j \in EvalJobs : /\ WF_evalVars(part = "eval" /\ EvalJobStep(j))
                         /\ WF_evalVars(part = "eval" /\ ExecStep(j))
  /\ WF_freshVars(part = "fresh" /\ TickSteps)
  /\ \A j \in FreshSlots : WF_freshVars(part = "fresh" /\ RefreshSteps(j))
  /\ WF_sseVars(part = "sse" /\ PageStep)
  /\ \A s \in Streams : WF_sseVars(part = "sse" /\ ServerStep(s))

ServicesSpec == ServicesInit /\ [][ServicesNext]_servicesVars /\ ServicesFairness

-----------------------------------------------------------------------------
\* Chunks: a language, with or without a tag, and their scores for two variants
MCKinds == [lang : {"es", "en"}, tag : BOOLEAN, s : {<<1, 0>>, <<2, 3>>, <<3, 2>>}]

\* Two rows of one url around the row of another
MCUrlOf == [d \in {1, 2, 3} |-> IF d = 2 THEN "walled" ELSE "open"]

\* One question asked in two languages
MCAsks == {<<"q1", "en">>, <<"q1", "es">>}

\* Sites of four pages: chains, diamonds and cycles, links in any order
Few(ps) == {q \in BoundedSeq(ps, 2) : IsInjective(q)}
MCSites == {<<<<>>, <<>>, <<>>, <<>>>>} \cup
  {<<a, b, c, d>> : a \in Few({2, 3}), b \in Few({3, 4}), c \in Few({2, 4}), d \in {<<>>, <<1>>}}
MCGiven == <<1, 2, 3, 2>>
MCScopes == {{1, 2, 3, 4}, {1, 3, 4}}
MCPlans ==
  {[crawl |-> TRUE, depth |-> d, cap |-> c, translate |-> FALSE] : d \in 1..2, c \in 3..4}
    \cup {[crawl |-> TRUE, depth |-> 0, cap |-> 4, translate |-> FALSE],
          [crawl |-> FALSE, depth |-> 0, cap |-> 1, translate |-> TRUE]}

\* Two admins and nobody else, or a second one who is of another role, or invited
Team(a, b, c) == [u1 |-> a, u2 |-> b, u3 |-> c]
Is(role, status) == [role |-> role, status |-> status]
MCTeams == {Team(Is("admin", "active"), Is("admin", "active"), Gone),
            Team(Is("admin", "active"), Is("super-admin", "active"), Is("admin", "invited"))}

\* The variables of the part that runs have their types; the others keep theirs.
ServicesTypeOK ==
  /\ part = "eval" => EvalTypeOK
  /\ part = "fresh" => FreshTypeOK
  /\ part = "sse" => SseTypeOK
  /\ part = "config" => ConfigTypeOK
  /\ part = "chat" => ChatTypeOK
  /\ part = "retrieval" => RetrievalTypeOK
  /\ part = "ingest" => IngestTypeOK
  /\ part = "chunk" => ChunkTypeOK
  /\ part = "users" => UserTypeOK
=============================================================================
