----------------------------- MODULE UserAdmin -----------------------------
(***************************************************************************)
(* Operators and the lockout guards (F35).  The users live in Supabase and *)
(* every step of a route is a request to it: a route reads its target,     *)
(* counts the admins and only then changes the target, and the routes of   *)
(* other operators run in between.  Who may call is told by a token that   *)
(* keeps the role its owner had when it was issued; that it expires some   *)
(* day is left out, it only takes calls away.                              *)
(***************************************************************************)
EXTENDS Naturals, FiniteSets

CONSTANTS
  Users,          \* accounts, by e-mail address
  Teams,          \* the accounts to begin with
  AdminCalls,     \* requests to /admin/users at a time
  MaxCalls        \* bound on the requests of a behaviour

VARIABLES
  account,     \* user -> role and status in Supabase
  token,       \* the users whose token says that they may write
  call,        \* request -> what it does, for whom, and what it has read
  calls        \* requests so far

userVars == <<account, token, call, calls>>

\* the role a client of this backend reads of a super-admin is none
Roles    == {"admin", "viewer", "super-admin", "none"}
Gone     == [role |-> "none", status |-> "gone"]
Accounts == [role : Roles, status : {"invited", "active", "disabled"}] \cup {Gone}

ASSUME UserAssumption == Teams \subseteq [Users -> Accounts] /\ MaxCalls \in Nat

Guarded  == {"delete", "disable", "demote"}
Ops      == Guarded \cup {"promote", "enable", "revoke", "resend", "invite"}
NoCall     == [at |-> "done"]
Calls    == [at : {"get", "count", "role", "act"}, op : Ops, self : BOOLEAN,
             target : Users, stale : BOOLEAN] \cup {NoCall}

UserTypeOK ==
  /\ account \in [Users -> Accounts]
  /\ token \in SUBSET Users
  /\ call \in [AdminCalls -> Calls]
  /\ calls \in 0..MaxCalls

UserInit ==
  /\ account \in Teams
  /\ token = {}
  /\ call = [c \in AdminCalls |-> NoCall]
  /\ calls = 0

-----------------------------------------------------------------------------
At(c, place) == call[c] # NoCall /\ call[c].at = place
Goes(c, place) == call' = [call EXCEPT ![c].at = place]
Ends(c) == call' = [call EXCEPT ![c] = NoCall]

\* what count_active_admins counts: who never signed in counts too
Admins == {u \in Users : account[u].role = "admin" /\ account[u].status # "disabled"}

\* the requests under way have read what is no longer so
Overtaken(d) == IF call[d] = NoCall THEN NoCall ELSE [call[d] EXCEPT !.stale = TRUE]

Changes(c, u, a) ==
  /\ account' = [account EXCEPT ![u] = a]
  /\ call' = [d \in AdminCalls |-> IF d = c THEN NoCall ELSE Overtaken(d)]

(***************************************************************************)
(* Signing in, outside this program.                                       *)
(***************************************************************************)
SignIn(u) ==
  /\ account[u].status = "active" /\ account[u].role \in {"admin", "super-admin"}
  /\ token' = token \cup {u}
  /\ UNCHANGED <<account, call, calls>>

AcceptInvite(u) ==
  /\ account[u].status = "invited"
  /\ account' = [account EXCEPT ![u].status = "active"]
  /\ call' = [d \in AdminCalls |-> Overtaken(d)]
  /\ UNCHANGED <<token, calls>>

(***************************************************************************)
(* The routes.                                                             *)
(***************************************************************************)
Request(c, op, actor, target) ==
  /\ call[c] = NoCall /\ calls < MaxCalls /\ actor \in token
  /\ call' = [call EXCEPT ![c] =
       [at |-> IF op \in {"enable", "invite"} THEN "act" ELSE "get", op |-> op,
        self |-> actor = target, target |-> target, stale |-> FALSE]]
  /\ calls' = calls + 1
  /\ UNCHANGED <<account, token>>

\* _ensure_not_self; a demotion is one only of an admin
SelfAction(c, a) ==
  /\ call[c].self
  /\ call[c].op = "demote" => a.role = "admin"
  /\ call[c].op \in Guarded

MustCount(c, a) == call[c].op \in Guarded /\ a.role = "admin" /\ a.status # "disabled"

GetUser(c) ==
  /\ At(c, "get")
  /\ LET a == account[call[c].target]
     IN \/ /\ a = Gone \/ SelfAction(c, a) \/ (call[c].op = "revoke" /\ a.status # "invited")
           /\ Ends(c)                                       \* 404 or 409
        \/ /\ a # Gone /\ ~SelfAction(c, a)
           /\ call[c].op = "revoke" => a.status = "invited"
           /\ Goes(c, IF MustCount(c, a) THEN "count" ELSE "act")
  /\ UNCHANGED <<account, token, calls>>

\* a slip: the disabled ones count too
EnoughCountingDisabled == Cardinality({u \in Users : account[u].role = "admin"}) > 1
EnoughAdmins == Cardinality(Admins) > 1

CountAdmins(c) ==
  /\ At(c, "count")
  /\ IF EnoughAdmins THEN Goes(c, "act") ELSE Ends(c)       \* 409 last_admin
  /\ UNCHANGED <<account, token, calls>>

\* the request that changes the target; 404 when it is gone by then
Update(c) ==
  /\ At(c, "act") /\ call[c].op \in Ops \ {"invite", "resend"}
  /\ LET u == call[c].target
         a == account[u]
         new == CASE call[c].op \in {"delete", "revoke"} -> Gone
                  [] call[c].op = "disable" -> [a EXCEPT !.status = "disabled"]
                  [] call[c].op = "enable"  ->
                       [a EXCEPT !.status = IF @ = "disabled" THEN "active" ELSE @]
                  [] call[c].op = "demote"  -> [a EXCEPT !.role = "viewer"]
                  [] call[c].op = "promote" -> [a EXCEPT !.role = "admin"]
     IN IF a = Gone THEN Ends(c) /\ UNCHANGED account ELSE Changes(c, u, new)
  /\ UNCHANGED <<token, calls>>

\* POST /invite to Supabase: a new account without a role, or the same once
\* more as long as it is not accepted; 409 for others.  A resend that finds its
\* account gone makes it again.
Invite(c) ==
  /\ At(c, "act") /\ call[c].op \in {"invite", "resend"}
  /\ LET u == call[c].target
         absent == account[u] = Gone
     IN /\ account' = IF absent
                      THEN [account EXCEPT ![u] = [role |-> "none", status |-> "invited"]]
                      ELSE account
        /\ IF call[c].op = "invite" /\ (absent \/ account[u].status = "invited")
           THEN Goes(c, "role")
           ELSE Ends(c)
  /\ UNCHANGED <<token, calls>>

\* the second request of an invitation gives the account its role
InviteRole(c) ==
  /\ At(c, "role")
  /\ LET u == call[c].target IN
     \/ account[u] = Gone /\ Ends(c) /\ UNCHANGED account
     \/ /\ account[u] # Gone
        /\ \E r \in {"admin", "viewer"} : Changes(c, u, [account[u] EXCEPT !.role = r])
  /\ UNCHANGED <<token, calls>>

\* Supabase does not answer: 502, what was done so far stays
CallFails(c) ==
  /\ call[c] # NoCall
  /\ Ends(c)
  /\ UNCHANGED <<account, token, calls>>

-----------------------------------------------------------------------------
CallStep(c) == GetUser(c) \/ CountAdmins(c) \/ Update(c) \/ Invite(c) \/ InviteRole(c)

UserNext ==
  \/ \E c \in AdminCalls : CallStep(c) \/ CallFails(c)
  \/ \E c \in AdminCalls, op \in Ops, actor, target \in Users : Request(c, op, actor, target)
  \/ \E u \in Users : SignIn(u) \/ AcceptInvite(u)

UserSpec == UserInit /\ [][UserNext]_userVars

-----------------------------------------------------------------------------
(***************************************************************************)
(* What is correct.                                                        *)
(***************************************************************************)
\* The team keeps an admin, though tokens outlive the role of their owner and
\* operators who never signed in are counted: the last one is lost only to a
\* request that another one overtook after it had read, or to the two routes
\* without the guard, on somebody who never signed in: a retracted invitation
\* and one sent again with another role (user_admin.py 76-109).
LastAdminKept ==
  [][Admins # {} /\ Admins' = {} =>
       \E c \in AdminCalls :
         /\ call[c] # NoCall /\ call'[c] = NoCall
         /\ \/ call[c].stale
            \/ call[c].op \in {"revoke", "invite"} /\ account[call[c].target].status = "invited"]_userVars
=============================================================================
