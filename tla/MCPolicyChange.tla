-------------------------- MODULE MCPolicyChange --------------------------
(* PolicyChange on small instances: see README.md for what each run shows. *)
EXTENDS PolicyChange, TLC

CONSTANTS r1, r2, v1, v2

Symmetric == Permutations({r1, r2})

Made(m, x, p) == [mode |-> m, excl |-> {}, exempt |-> x, protected |-> p]
Ask(o, v, m) ==
    [mode |-> m, op |-> o, allowed |-> TRUE, via |-> v,
     vals |-> IF o \in Excludes THEN {v1} ELSE {}, body |-> Made("plain", FALSE, FALSE)]
Unprivileged(o) == [Ask(o, "live", "enforce") EXCEPT !.allowed = FALSE]
Apply(m) == [Ask("apply", "live", "enforce") EXCEPT !.body = m]

(* What kubectl may make of the policy. *)
Excluding(v, m) == [m EXCEPT !.excl = {v}]
ByHand == {Excluding(v2, Made("plain", FALSE, FALSE)), Made("monitor", TRUE, TRUE),
           Made("bare", TRUE, FALSE)}
Tuned == {Made("monitor", FALSE, FALSE)}

(* Every handler, with every way through it. *)
Asks ==
    {Ask(o, "live", "enforce") : o \in Ops}
    \cup {Ask(o, "pr", "enforce") : o \in {"apply", "action", "exclude", "ai-exclude"}}
    \cup {Ask(o, "dry", "monitor") : o \in {"action", "exclude", "ai-action", "ai-exclude"}}
    \cup {Unprivileged(o) : o \in {"delete", "ai-exclude"}}
    \cup {Apply(Made("enforce", TRUE, TRUE))}

(* Everything at once. *)
AllAsks == {Ask(o, v, m) : o \in Ops, v \in {"live", "pr", "dry"}, m \in {"monitor", "enforce"}}
=============================================================================
