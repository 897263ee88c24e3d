----------------------------- MODULE JobPromise -----------------------------
(***************************************************************************)
(* What the job store promises to whoever watches it.  A job is submitted  *)
(* once.  It is then worked on, or it waits until an operator approves or  *)
(* cancels it; the work comes to rest at one of the ends, and an end is    *)
(* for good.  A job may be deleted at any time, which is for good too.     *)
(***************************************************************************)
CONSTANTS Jobs, Ends      \* the statuses at which a job may rest

VARIABLE view             \* where each job is

Submit == {"new"} \X {"open", "waiting"}
Decide == {"waiting"} \X {"open"}
Rest   == {"open"} \X Ends
Delete == ({"open", "waiting"} \cup Ends) \X {"gone"}

Nothing == view = [j \in Jobs |-> "new"]

Move ==
  \E j \in Jobs :
    /\ <<view[j], view'[j]>> \in Submit \cup Decide \cup Rest \cup Delete
    /\ view' = [view EXCEPT ![j] = view'[j]]

PromiseSpec == Nothing /\ [][Move]_view
=============================================================================
