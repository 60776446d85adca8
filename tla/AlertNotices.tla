---------------------------- MODULE AlertNotices ----------------------------
(***************************************************************************)
(* What those who configure alert routes are promised, whatever goroutines *)
(* lie between an alert and a sink: an alert is let through in one step,   *)
(* and is then due to the routes that want it and are in the table at that *)
(* moment, to each of them once, whatever becomes of the table afterwards; *)
(* two that are let through and share a topic lie the window apart.  A       *)
(* delivery ends once, and nothing is tried again.                         *)
(***************************************************************************)
EXTENDS Integers

CONSTANTS
    Alerts,       \* the alerts there may be, each with a number n and a time
    Topic,        \* what each is about, as far as repeats go
    Tables,       \* the tables of routes that may be configured
    Wanted,       \* the deliveries [alert, route] of which the route wants the alert
    Window        \* how far apart alerts of one key are

VARIABLES
    table,        \* the route table
    raised,       \* the alerts there were
    through,      \* those let through
    due,          \* what is to be delivered, or was
    ended         \* the deliveries that ended, well or not

vars == <<table, raised, through, due, ended>>

Init == table = {} /\ raised = {} /\ through = {} /\ due = {} /\ ended = {}

Configure ==
    /\ table' \in Tables
    /\ UNCHANGED <<raised, through, due, ended>>

(* Something happens that is worth an alert.  It may never be let through. *)
Raise ==
    /\ raised' # raised
    /\ \E a \in Alerts : /\ \A b \in raised : a.n # b.n
                         /\ raised' = raised \cup {a}
    /\ UNCHANGED <<table, through, due, ended>>

Apart(a, b) == Topic[a] = Topic[b] => \/ a.time - b.time >= Window
                                      \/ b.time - a.time >= Window

LetThrough(a) ==
    /\ a \in raised \ through
    /\ \A b \in through : Apart(a, b)
    /\ through' = through \cup {a}
    /\ due' = due \cup ([alert : {a}, route : table] \cap Wanted)
    /\ UNCHANGED <<table, raised, ended>>

End(d) ==
    /\ d \in due \ ended
    /\ ended' = ended \cup {d}
    /\ UNCHANGED <<table, raised, through, due>>

Next ==
    \/ Configure
    \/ \E a \in raised : LetThrough(a)
    \/ \E d \in due : End(d)
    \/ Raise

Spec == Init /\ [][Next]_vars
=============================================================================
