------------------------------ MODULE Upstream ------------------------------
(***************************************************************************)
(* What the workers read from the network and send to it: a URL of an      *)
(* ingest job (Fetching) and the chunks of its document (Embedding).  The  *)
(* two share nothing.                                                      *)
(***************************************************************************)
EXTENDS Fetching, Embedding

UpstreamSpec == FetchSpec /\ EmbedSpec

\* What a worker may rely on when a site or the embedding service refuses, fails or
\* answers late: the error says which hosts were tried in which guise, and each vector
\* belongs to its chunk.  Code: fetch_url of scrape.py, embed_batch of client.py.
UpstreamPromise == FetchPromise /\ EmbedPromise
=============================================================================
