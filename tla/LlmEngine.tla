----------------------------- MODULE LlmEngine ------------------------------
(***************************************************************************)
(* A GPU container of the language model: LlmServiceCore over one vLLM     *)
(* engine.  The container takes one call at a time, but what a call leaves *)
(* in the engine, or leaves undone, meets the next one: a model that was   *)
(* half loaded, a stream whose reader went away, a prompt whose generate   *)
(* raised.                                                                 *)
(***************************************************************************)
EXTENDS FiniteSets, Naturals

CONSTANTS
  Calls,         \* calls of complete, stream_tokens and warm_model
  Models,        \* model tags that resolve to a repository
  Pinned,        \* MODEL_ID, the default tag
  Adapters,      \* LoRA adapters
  Base           \* no adapter

ASSUME EngineAssumption == Pinned \in Models /\ Base \notin Adapters

VARIABLES
  role,          \* the app: "prod", "snapshot" (prod with the GPU snapshot) or "playground"
  pin,           \* the adapter pinned for containers to come
  intact,        \* adapters on the volume that have the pinned hash
  repos,        \* models downloaded to the volume
  gpu,           \* the container: its pin, its engine and what it was loaded, or is loading, for
  call,          \* what each call asks for, and what it does next
  text           \* what each caller was last given: whose text, of which model and adapter

engineVars == <<role, pin, intact, repos, gpu, call, text>>

MaybeAdapter == Adapters \cup {Base}
Args    == [tag : Models, local : BOOLEAN]      \* _resolve_vllm_model_arg
NoArg   == [tag |-> Pinned, local |-> FALSE]
Outputs == [of : Calls, model : Models, lora : MaybeAdapter]

\* what the engine still has to do: the requests of generate are numbered from 1, in its
\* order; a stream gives its request a name (no = 0)
EngineRequests == [of : Calls, no : Nat]

\* the adapter is what LoRARequest names; count numbers the requests, and requests are
\* those the engine has not finished
Down == [up |-> FALSE, pin |-> Base, llm |-> FALSE, arg |-> NoArg, lora |-> Base,
         keyed |-> FALSE, count |-> 0, requests |-> {}]

EngineTypeOK ==
  /\ role \in {"prod", "snapshot", "playground"}
  /\ pin \in MaybeAdapter /\ intact \subseteq Adapters /\ repos \subseteq Models
  /\ gpu \in [up : BOOLEAN, pin : MaybeAdapter, llm : BOOLEAN, arg : Args, lora : MaybeAdapter,
              keyed : BOOLEAN, count : Nat, requests : SUBSET EngineRequests]
  /\ call \in [Calls -> [at : {"none", "ensure", "load", "warm", "run", "stream", "over",
                               "raised"},
                         kind : {"complete", "stream", "warm"}, model : Models]]
  /\ text \in [Calls -> SUBSET Outputs]

EngineInit ==
  /\ role \in {"prod", "snapshot", "playground"}
  /\ pin = Base /\ intact = Adapters /\ repos = {} /\ gpu = Down
  /\ call = [c \in Calls |-> [at |-> "none", kind |-> "warm", model |-> Pinned]]
  /\ text = [c \in Calls |-> {}]

-----------------------------------------------------------------------------
(***************************************************************************)
(* The container and what is around it.                                    *)
(***************************************************************************)
Volumes == <<role, pin, intact, repos>>
Busy(c) == call[c].at \notin {"none", "over", "raised"}
Turns(c, at) == call' = [call EXCEPT ![c].at = at]

\* load_model; or a restored snapshot of the base model, whose adapter is bound after
\* its hash was verified, and which does not come up without
Boot ==
  /\ ~gpu.up
  /\ IF role = "snapshot"
     THEN /\ pin # Base => pin \in intact
          /\ gpu' = [Down EXCEPT !.up = TRUE, !.pin = pin, !.llm = TRUE, !.lora = pin,
                                 !.keyed = TRUE]
     ELSE gpu' = [Down EXCEPT !.up = TRUE, !.pin = pin]
  /\ UNCHANGED <<Volumes, call, text>>

\* unload_model, or the container is killed: with the call it serves
Exit ==
  /\ gpu.up
  /\ gpu' = Down
  /\ call' = [c \in Calls |-> IF Busy(c) THEN [call[c] EXCEPT !.at = "over"] ELSE call[c]]
  /\ UNCHANGED <<Volumes, text>>

\* an operator promotes or rolls back: the environment of new containers
Promote(a) ==
  /\ pin' = a
  /\ UNCHANGED <<role, intact, repos, gpu, call, text>>

ReplaceAdapter(a) ==
  /\ intact' = intact \ {a}
  /\ UNCHANGED <<role, pin, repos, gpu, call, text>>

StageModel(m) ==
  /\ repos' = repos \cup {m}
  /\ UNCHANGED <<role, pin, intact, gpu, call, text>>

-----------------------------------------------------------------------------
(***************************************************************************)
(* _ensure_model_loaded.                                                   *)
(***************************************************************************)
Reloads == role = "playground"
Resolved(m) == IF ~Reloads \/ m = Pinned THEN NoArg ELSE [tag |-> m, local |-> m \in repos]
IsLoaded(c) == gpu.llm /\ gpu.keyed /\ (role = "snapshot" \/ gpu.arg = Resolved(call[c].model))
Ready(c) == IF call[c].kind = "warm" THEN "over" ELSE "run"

Take(c) ==
  /\ gpu.up /\ call[c].at = "none"
  /\ \A d \in Calls : ~Busy(d)
  /\ \E kind \in {"complete", "stream", "warm"}, m \in Models :
       call' = [call EXCEPT ![c] = [at |-> "ensure", kind |-> kind, model |-> m]]
  /\ UNCHANGED <<Volumes, gpu, text>>

\* a slip: an engine is kept as long as its adapter is the right one
EnsureAdapterOnly(c) ==
  /\ call[c].at = "ensure"
  /\ IF gpu.llm /\ gpu.keyed THEN Turns(c, Ready(c)) /\ UNCHANGED gpu
     ELSE /\ Turns(c, "load")
          /\ gpu' = [Down EXCEPT !.up = TRUE, !.pin = gpu.pin, !.arg = Resolved(call[c].model)]
  /\ UNCHANGED <<Volumes, text>>

\* what is loaded is dropped with all the engine was doing
Ensure(c) ==
  /\ call[c].at = "ensure"
  /\ IF IsLoaded(c) THEN Turns(c, Ready(c)) /\ UNCHANGED gpu
     ELSE /\ Turns(c, "load")
          /\ gpu' = [Down EXCEPT !.up = TRUE, !.pin = gpu.pin, !.arg = Resolved(call[c].model)]
  /\ UNCHANGED <<Volumes, text>>

\* with the adapter; the key is set before the warm-up
Load(c) ==
  /\ call[c].at = "load"
  /\ gpu' = [gpu EXCEPT !.llm = TRUE, !.lora = gpu.pin, !.keyed = TRUE]
  /\ Turns(c, "warm")
  /\ UNCHANGED <<Volumes, text>>

Warmed(c) ==
  /\ call[c].at = "warm"
  /\ Turns(c, Ready(c))
  /\ gpu' = [gpu EXCEPT !.count = @ + 1]
  /\ UNCHANGED <<Volumes, text>>

Numbered(c) == [of |-> c, no |-> gpu.count + 1]
Generating(c) == call[c].at = "warm" \/ (call[c].at = "run" /\ call[c].kind = "complete")

\* the engine does not start, the warm-up, a step or the adapter fails; a generate that
\* raises leaves in the engine what its steps had not finished, its own request too
Raises(c) ==
  /\ call[c].at \in {"load", "warm", "run", "stream"}
  /\ Turns(c, "raised")
  /\ IF Generating(c)
     THEN \E left \in SUBSET (gpu.requests \cup {Numbered(c)}) :
            gpu' = [gpu EXCEPT !.requests = left, !.count = @ + 1]
     ELSE UNCHANGED gpu
  /\ UNCHANGED <<Volumes, text>>

-----------------------------------------------------------------------------
(***************************************************************************)
(* _generate_text and _stream_text_deltas.                                 *)
(***************************************************************************)
Output(c) == [of |-> c, model |-> gpu.arg.tag, lora |-> gpu.lora]
Gives(c, outputs) == text' = [text EXCEPT ![c] = outputs]

Named     == {r \in gpu.requests : r.no = 0}
Oldest(rs) == CHOOSE r \in rs : \A q \in rs : r.no <= q.no

\* generate runs the engine until nothing is left in it and sorts what was finished by
\* number: it raises over the name of a stream, and the first output is what the call
\* returns, also when it is of a request that was left there
Generate(c) ==
  /\ call[c].at = "run" /\ call[c].kind = "complete"
  /\ gpu' = [gpu EXCEPT !.requests = {}, !.count = @ + 1]
  /\ IF Named = {}
     THEN /\ Gives(c, {Output(Oldest(gpu.requests \cup {Numbered(c)}).of)})
          /\ Turns(c, "over")
     ELSE Turns(c, "raised") /\ UNCHANGED text
  /\ UNCHANGED Volumes

Stream(c) == [of |-> c, no |-> 0]

AddRequest(c) ==
  /\ call[c].at = "run" /\ call[c].kind = "stream"
  /\ gpu' = [gpu EXCEPT !.requests = @ \cup {Stream(c)}]
  /\ Turns(c, "stream")
  /\ UNCHANGED <<Volumes, text>>

\* a slip: every delta of a step is yielded
StepUnfiltered(c) ==
  /\ call[c].at = "stream"
  /\ \E out \in (SUBSET gpu.requests) \ {{}} : \E done \in SUBSET out :
       /\ gpu' = [gpu EXCEPT !.requests = @ \ done]
       /\ Gives(c, {Output(r.of) : r \in out})
       /\ Turns(c, IF Stream(c) \in done THEN "over" ELSE "stream")
  /\ UNCHANGED Volumes

\* a step has outputs of some requests, and finishes some of these; only those of the
\* call are yielded
EngineStep(c) ==
  /\ call[c].at = "stream"
  /\ \E out \in (SUBSET gpu.requests) \ {{}} : \E done \in SUBSET out :
       /\ gpu' = [gpu EXCEPT !.requests = @ \ done]
       /\ IF Stream(c) \in out THEN Gives(c, {Output(c)}) ELSE UNCHANGED text
       /\ Turns(c, IF Stream(c) \in done THEN "over" ELSE "stream")
  /\ UNCHANGED Volumes

\* the reader goes away: the generator is closed, its request stays in the engine
Leave(c) ==
  /\ call[c].at = "stream"
  /\ Turns(c, "over")
  /\ UNCHANGED <<Volumes, gpu, text>>

-----------------------------------------------------------------------------
CallStep(c) == \/ Take(c) \/ Ensure(c) \/ Load(c) \/ Warmed(c) \/ Raises(c)
               \/ Generate(c) \/ AddRequest(c) \/ EngineStep(c) \/ Leave(c)

EngineNext ==
  \/ Boot \/ Exit
  \/ \E a \in MaybeAdapter : Promote(a)
  \/ \E a \in Adapters : ReplaceAdapter(a)
  \/ \E m \in Models \ {Pinned} : StageModel(m)
  \/ \E c \in Calls : CallStep(c)

EngineSpec == EngineInit /\ [][EngineNext]_engineVars

-----------------------------------------------------------------------------
(***************************************************************************)
(* What is correct.                                                        *)
(***************************************************************************)

\* A stream is only ever given text of its own prompt, by the model it asked for (the
\* pinned one in production, whatever was asked: RD-169) and with the adapter of the
\* container: after a load that failed half way, a model that was pulled meanwhile, a
\* stream that was left in the engine, a promotion between snapshot and restore.  So is
\* a completion, but for one case: while a request of a generate that raised is left in
\* the engine it is given the text of that one, as the first of the outputs is returned
\* (llm_service_core.py:276).
AnswersAsAsked ==
  [][\A c \in Calls : text'[c] # text[c] =>
       \E d \in Calls :
         /\ \/ d = c
            \/ /\ call[c].kind = "complete" /\ call[d].at = "raised"
               /\ \E r \in gpu.requests : r.of = d /\ r.no > 0
         /\ text'[c] = {[of |-> d, lora |-> gpu.pin,
                         model |-> IF role = "playground" THEN call[c].model
                                   ELSE Pinned]}]_engineVars
=============================================================================
