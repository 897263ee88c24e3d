------------------------------ MODULE Fetching ------------------------------
(***************************************************************************)
(* One URL of an ingest job on the network: fetch_url tries the host as    *)
(* given and with www., each as the bot of this project and as two         *)
(* browsers, until something other than a refusal comes back.  The host    *)
(* is free to answer each request as it likes.                             *)
(***************************************************************************)
EXTENDS Naturals, Sequences

VARIABLES
  target,    \* what the URL is: of which shape, and whether www. can be put before it
  try,       \* the host and the identity of the next request
  log,       \* the requests sent, with what came back
  fetched    \* a document, or the error of the URL

fetchVars == <<target, try, log, fetched>>

\* a file of Google Drive is fetched from its export; a folder has none
Shapes  == {"site", "drive_file", "drive_folder"}
Hosts   == <<"given", "www">>
Agents  == <<"bot", "windows", "mac">>

\* "other": a status that is no refusal, or a time limit; a challenge may come with 202
Replies == {"page", "shell", "pdf", "empty_pdf", "forbidden", "challenge", "no_connection", "other"}
Refused == {"forbidden", "challenge"}

Errors  == {"host_waf_blocked", "tls_handshake_failed", "drive_auth_required",
            "drive_unsupported", "pdf_extract_failed", "raised"}

Requests == [host : 1..2, agent : 1..3]

FetchTypeOK ==
  /\ target \in [shape : Shapes, apex : BOOLEAN]
  /\ try \in Requests \cup {[host |-> 3, agent |-> 1]}
  /\ log \in Seq([host : 1..2, agent : 1..3, export : BOOLEAN, reply : Replies])
  /\ fetched \in {"none", "document"} \cup Errors

FetchInit ==
  /\ target \in {t \in [shape : Shapes, apex : BOOLEAN] : t.shape # "site" => t.apex}
  /\ try = [host |-> 1, agent |-> 1]
  /\ log = <<>>
  /\ fetched = "none"

IsDrive  == target.shape # "site" /\ try.host = 1
IsFirst  == try = [host |-> 1, agent |-> 1]
Left     == fetched = "none" /\ try.host <= IF target.apex THEN 2 ELSE 1
NextHost == [host |-> try.host + 1, agent |-> 1]

\* _fetch_url_once rewrites the URL of a file, _fetch_with_headers does not
Sent(r) == log' = Append(log, [host |-> try.host, agent |-> try.agent,
                               export |-> IsDrive /\ IsFirst, reply |-> r])

Ends(with) == fetched' = with /\ UNCHANGED <<target, try>>

\* rewrite_drive_fetch_url raises before a request is made
NoExport ==
  /\ Left /\ IsFirst /\ target.shape = "drive_folder"
  /\ Ends("drive_unsupported")
  /\ UNCHANGED log

MayAsk == Left /\ ~(IsFirst /\ target.shape = "drive_folder")

\* what _document_from_response makes of a body that was served
Document(r) ==
  CASE r = "shell" /\ IsDrive      -> "drive_auth_required"
    [] r = "empty_pdf" /\ IsDrive  -> "drive_unsupported"
    [] r = "empty_pdf" /\ ~IsDrive -> "pdf_extract_failed"
    [] OTHER                       -> "document"

PageServed ==
  \E r \in {"page", "shell", "pdf", "empty_pdf"} :
    MayAsk /\ Sent(r) /\ Ends(Document(r))

\* the next identity, and after the last one the next host
RefusedBy ==
  \E r \in Refused :
    /\ MayAsk /\ Sent(r)
    /\ try' = IF try.agent < Len(Agents) THEN [try EXCEPT !.agent = @ + 1] ELSE NextHost
    /\ UNCHANGED <<target, fetched>>

\* a slip: a host that cannot be reached is not tried under www.
NotReachedRaises == MayAsk /\ Sent("no_connection") /\ Ends("tls_handshake_failed")

\* the other identities are not tried on a host that cannot be reached
NotReached ==
  /\ MayAsk /\ Sent("no_connection")
  /\ try' = NextHost
  /\ UNCHANGED <<target, fetched>>

OtherFailure == MayAsk /\ Sent("other") /\ Ends("raised")

Seen(rs) == \E i \in DOMAIN log : log[i].reply \in rs

\* _raise_scrape_fetch_failure: a refusal is reported before a failed handshake
GiveUp ==
  /\ fetched = "none" /\ ~Left
  /\ Ends(IF Seen(Refused) THEN "host_waf_blocked" ELSE "tls_handshake_failed")
  /\ UNCHANGED log

FetchNext == NoExport \/ PageServed \/ RefusedBy \/ NotReached \/ OtherFailure \/ GiveUp

FetchSpec == FetchInit /\ [][FetchNext]_fetchVars

-----------------------------------------------------------------------------
\* every identity was refused by the host, or the host was lost and not asked again
Exhausted(h) ==
  \/ \A a \in DOMAIN Agents :
       \E i \in DOMAIN log : log[i].host = h /\ log[i].agent = a /\ log[i].reply \in Refused
  \/ \E i \in DOMAIN log :
       /\ log[i].host = h /\ log[i].reply = "no_connection"
       /\ \A j \in DOMAIN log : log[j].host = h => j <= i

\* A URL is given up as blocked or unreachable only when both hosts were tried to the
\* end, each identity once, and it is called unreachable only when no host refused: the
\* code decides about the quarantine of the refresh and about retries.  No host is asked
\* twice in one guise.  Code: scrape.py 317-365.
FetchPromise ==
  /\ fetched \in {"host_waf_blocked", "tls_handshake_failed"} =>
       /\ \A h \in 1..(IF target.apex THEN 2 ELSE 1) : Exhausted(h)
       /\ fetched = "host_waf_blocked" <=> Seen(Refused)
  /\ \A i, j \in DOMAIN log :
       log[i].host = log[j].host /\ log[i].agent = log[j].agent => i = j
=============================================================================
