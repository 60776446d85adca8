--------------------------- MODULE AuditedPolicy ---------------------------
(***************************************************************************)
(* What a console that changes a policy promises, whatever its handlers    *)
(* are made of: a request takes effect in one step, once at most, between  *)
(* its arrival and its end; only a request that may and does not just look *)
(* has an effect, and only one the guard accepts on the policy there is;   *)
(* and a request that had one does not end without a record of it that is  *)
(* true, unless the process ends first.  Nothing of a request happens      *)
(* after its end.                                                          *)
(***************************************************************************)
CONSTANTS
    Req,          \* the requests
    Policies,     \* what the policy can be, its absence included
    Accepted      \* what a request may make of each policy

VARIABLES
    live,         \* the policy
    author,       \* who made it
    life,         \* "new", "open" or "over", of each request
    asks,         \* what each asks: a change, a proposal, or nothing of effect
    put,          \* what each put in place, the empty set before
    prs,          \* those that made their proposal
    trail         \* the records

vars == <<live, author, life, asks, put, prs, trail>>

(* What a record says. *)
Success(r, m) == [req |-> r, outcome |-> "success", after |-> m]
Denied(r) == [req |-> r, outcome |-> "denied"]
Error(r) == [req |-> r, outcome |-> "error"]

Init ==
    /\ live \in Policies
    /\ author = "kubectl"
    /\ life = [r \in Req |-> "new"]
    /\ asks = [r \in Req |-> "nothing"]
    /\ put = [r \in Req |-> {}]
    /\ prs = {}
    /\ trail = {}

(* A request arrives, and may be answered at once. *)
Arrive(r) ==
    /\ life[r] = "new"
    /\ life' \in {[life EXCEPT ![r] = "open"], [life EXCEPT ![r] = "over"]}
    /\ \E what \in {"change", "proposal", "nothing"} : asks' = [asks EXCEPT ![r] = what]
    /\ UNCHANGED <<live, author, put, prs, trail>>

(* A request that asks for a change makes it, once. *)
Change(r) ==
    /\ life[r] = "open"
    /\ asks[r] = "change"
    /\ put[r] = {}
    /\ author' = "console"
    /\ live' \in Accepted[live]
    /\ put' = [put EXCEPT ![r] = {live'}]
    /\ UNCHANGED <<life, asks, prs, trail>>

(* A proposal is a pull request; the request may end with it. *)
Propose(r) ==
    /\ life[r] = "open"
    /\ asks[r] = "proposal"
    /\ r \notin prs
    /\ prs' = prs \cup {r}
    /\ life' \in {life, [life EXCEPT ![r] = "over"]}
    /\ UNCHANGED <<live, author, asks, put, trail>>

(* A request ends with the record of what it put in place or proposed, of  *)
(* a refusal, or of an error, which leaves open whether there was a change. *)
Record(r) ==
    /\ life[r] = "open"
    /\ life' = [life EXCEPT ![r] = "over"]
    /\ \/ put[r] = {} /\ r \notin prs /\ trail' = trail \cup {Denied(r)}
       \/ trail' = trail \cup {Error(r)}
       \/ \E m \in put[r] : trail' = trail \cup {Success(r, m)}
       \/ /\ asks[r] = "proposal"
          /\ \E m \in Policies : trail' = trail \cup {Success(r, m)}
    /\ UNCHANGED <<live, author, asks, put, prs>>

(* A request that changed nothing may end without one. *)
Close(r) ==
    /\ life[r] = "open"
    /\ put[r] = {}
    /\ life' = [life EXCEPT ![r] = "over"]
    /\ UNCHANGED <<live, author, asks, put, prs, trail>>

(* The policy is edited by other means. *)
Edit ==
    /\ author' = "kubectl"
    /\ live' \in Policies
    /\ UNCHANGED <<prs, trail, life, asks, put>>

(* The process ends, and the requests that are open with it. *)
Crash ==
    /\ life' = [r \in Req |-> IF life[r] = "open" THEN "over" ELSE life[r]]
    /\ UNCHANGED <<live, author, asks, put, prs, trail>>

Next ==
    \/ Edit
    \/ \E r \in Req : Arrive(r) \/ Change(r) \/ Propose(r) \/ Record(r) \/ Close(r)
    \/ Crash

Spec == Init /\ [][Next]_vars
=============================================================================
