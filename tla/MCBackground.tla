---------------------------- MODULE MCBackground ----------------------------
(***************************************************************************)
(* Bounds for TLC, and the sum of parts that share no state: in one        *)
(* behaviour a single part runs and the others stay as they are.  The      *)
(* downloads are explored twice: those of the page, and those of the       *)
(* script, which may have left one running when it starts again.           *)
(***************************************************************************)
EXTENDS Catchup, DocumentTags, ModelPulls, LlmEngine, Upstream, TLC

VARIABLE part

backgroundVars == <<part, vars, tagVars, pullVars, engineVars, fetchVars, embedVars>>

Parts == {"catchup", "tags", "pulls", "setup", "engine", "fetch", "embed"}

\* A part with several initial states has one of them when it does not run
BackgroundInit ==
  /\ part \in Parts
  /\ part # "catchup" =>
       /\ env = [on |-> FALSE, kill |-> FALSE, cap |-> CHOOSE n \in Caps : TRUE]
       /\ poison = CHOOSE p \in Poisons : TRUE
       /\ enabled = FALSE /\ embed = [d \in Docs |-> "complete"]
  /\ lang = CHOOSE l \in Langs : TRUE
  /\ part # "tags" => tagRows = {} /\ versions = <<[lang |-> lang, tags |-> {}]>>
  /\ part # "engine" => role = "prod"
  /\ part # "fetch" => target = [shape |-> "site", apex |-> TRUE]
  /\ part # "embed" => chunks = 0
  /\ Init /\ TagInit /\ PullInit /\ EngineInit /\ FetchInit /\ EmbedInit

\* Tags and languages are interchangeable
FirstIsFirst == loop'[1].tag \in {NoTag, CHOOSE t \in Tags : TRUE}

StepOf(p) ==
  \/ p = "catchup" /\ Next
  \/ p = "tags" /\ TagNext
  \/ p = "pulls" /\ UNCHANGED setup /\ PullNext /\ FirstIsFirst
  \/ p = "setup" /\ UNCHANGED <<page, timer>> /\ PullNext /\ FirstIsFirst
  \/ p = "engine" /\ EngineNext
  \/ p = "fetch" /\ FetchNext
  \/ p = "embed" /\ EmbedNext

BackgroundNext ==
  /\ UNCHANGED part
  /\ StepOf(part)
  /\ part # "catchup" => UNCHANGED vars
  /\ part # "tags" => UNCHANGED tagVars
  /\ part \notin {"pulls", "setup"} => UNCHANGED pullVars
  /\ part # "engine" => UNCHANGED engineVars
  /\ part # "fetch" => UNCHANGED fetchVars
  /\ part # "embed" => UNCHANGED embedVars

(***************************************************************************)
(* The schedule fires every day, requests are served, spawned workers run  *)
(* and the timers of an open page fire; nobody has to write, to fail, to   *)
(* clear a dead job or to ask, and a pull may never start.                 *)
(***************************************************************************)
BackgroundFairness ==
  /\ WF_vars(part = "catchup" /\ TickStep)
  /\ WF_vars(part = "catchup" /\ PassStep("job")) /\ WF_vars(part = "catchup" /\ PassStep("crud"))
  /\ \A j \in Slots : WF_vars(part = "catchup" /\ WorkerStep(j))
  /\ \A d \in Downloads : /\ WF_pullVars(part \in {"pulls", "setup"} /\ RouteStep(d))
                          /\ WF_pullVars(part \in {"pulls", "setup"} /\ PollStep(d))
  /\ WF_pullVars(part = "setup" /\ SetupStep)

BackgroundSpec == BackgroundInit /\ [][BackgroundNext]_backgroundVars /\ BackgroundFairness

\* The variables of the part that runs have their types; the others keep theirs.
BackgroundTypeOK ==
  /\ part = "catchup" => TypeOK
  /\ part = "tags" => TagTypeOK
  /\ part \in {"pulls", "setup"} => PullTypeOK
  /\ part = "engine" => EngineTypeOK
  /\ part = "fetch" => FetchTypeOK
  /\ part = "embed" => EmbedTypeOK
=============================================================================
