----------------------------- MODULE Embedding ------------------------------
(***************************************************************************)
(* The chunks of a document on their way through EmbeddingClient: sent in  *)
(* sub-batches, each tried again after a failure that may pass, with a     *)
(* longer pause each time.  A chunk and the vector made of it are the      *)
(* number of the chunk.                                                    *)
(***************************************************************************)
EXTENDS Integers, Sequences, SequencesExt

CONSTANTS
  ChunkCounts,    \* numbers of chunks of a document to consider
  BatchSize,      \* VECINITA_EMBED_BATCH_SIZE
  EmbedRetries    \* VECINITA_EMBED_MAX_RETRIES

ASSUME EmbeddingAssumption ==
  ChunkCounts \subseteq Nat /\ BatchSize \in 1..256 /\ EmbedRetries \in 0..10

VARIABLES
  chunks,     \* how many chunks there are
  vectors,    \* the vectors of the sub-batches before this one
  attempt,    \* failed requests of this sub-batch
  waited,     \* what _backoff has slept for this sub-batch, in its unit
  embedded    \* "sending", "done" or the error that was raised

embedVars == <<chunks, vectors, attempt, waited, embedded>>

\* "transport": no response, or not in time; "server": 5xx; "client": another status
\* from 400; "bad": no list, or a vector of another dimension
Passing == {"transport", "server"}
Final   == {"client", "bad"}

EmbedTypeOK ==
  /\ chunks \in ChunkCounts
  /\ vectors \in Seq(1..chunks)
  /\ attempt \in 0..EmbedRetries
  /\ waited \in 0..(2 ^ EmbedRetries - 1)
  /\ embedded \in {"sending", "done"} \cup Passing \cup Final

EmbedInit ==
  /\ chunks \in ChunkCounts
  /\ vectors = <<>> /\ attempt = 0 /\ waited = 0
  /\ embedded = "sending"

Got    == Len(vectors)
Upto(a, b) == IF a < b THEN a ELSE b
Texts  == [i \in 1..Upto(BatchSize, chunks - Got) |-> Got + i]

Sending == embedded = "sending" /\ Got < chunks

\* embed_batch of the service: one vector for each text, in the order of the texts
Embeddings(texts) == texts

\* a slip: the next sub-batch goes on with the attempts of the one before it
EmbeddedStale ==
  /\ Sending
  /\ vectors' = vectors \o Embeddings(Texts)
  /\ waited' = 0
  /\ UNCHANGED <<chunks, embedded, attempt>>

BatchEmbedded ==
  /\ Sending
  /\ vectors' = vectors \o Embeddings(Texts)
  /\ attempt' = 0 /\ waited' = 0
  /\ UNCHANGED <<chunks, embedded>>

\* _backoff; nothing was changed by the request, whether it was executed or not
TryAgain ==
  /\ Sending /\ attempt < EmbedRetries
  /\ attempt' = attempt + 1
  /\ waited' = waited + 2 ^ attempt
  /\ UNCHANGED <<chunks, vectors, embedded>>

\* the vectors of the sub-batches before it are dropped with the exception
EmbeddingFails ==
  \E why \in Passing \cup Final :
    /\ Sending /\ (why \in Passing => attempt = EmbedRetries)
    /\ embedded' = why
    /\ UNCHANGED <<chunks, vectors, attempt, waited>>

AllEmbedded ==
  /\ embedded = "sending" /\ Got = chunks
  /\ embedded' = "done"
  /\ UNCHANGED <<chunks, vectors, attempt, waited>>

EmbedNext == BatchEmbedded \/ TryAgain \/ EmbeddingFails \/ AllEmbedded

EmbedSpec == EmbedInit /\ [][EmbedNext]_embedVars

-----------------------------------------------------------------------------
\* The n-th vector is the one of the n-th chunk, whatever was tried again and wherever
\* a sub-batch ends: the pipeline pairs them by their places.  Each sub-batch starts with
\* all its attempts and the shortest pause.  Code: client.py 110-170.
EmbedPromise ==
  /\ vectors = [i \in 1..Got |-> i]
  /\ embedded = "done" => Got = chunks
  /\ waited = 2 ^ attempt - 1
=============================================================================
