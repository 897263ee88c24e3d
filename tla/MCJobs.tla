------------------------------- MODULE MCJobs -------------------------------
(***************************************************************************)
(* Bounds for TLC.                                                         *)
(***************************************************************************)
EXTENDS JobLifecycle, TLC

Interchangeable == Permutations(Handlers) \cup Permutations(Calls)

\* The audit trail is written and never read: where no property is about it, states
\* that differ in nothing else are one
Unaudited == <<backing, store, used, pc, job, snap, handle, tries, outcome, granted, doomed>>
=============================================================================
