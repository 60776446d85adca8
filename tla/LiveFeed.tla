----------------------------- MODULE LiveFeed -----------------------------
(***************************************************************************)
(* What a live view promises, whatever lies between the agent and the      *)
(* browser: an event may never be shown, but what is shown has happened,   *)
(* is newer than all that was shown before, and is shown on a connection   *)
(* that is open.  A connection opens once and, once closed, is over.       *)
(***************************************************************************)
EXTENDS Naturals, Sequences

CONSTANTS
    Clients,      \* who may watch
    MaxEvents     \* bound: events

VARIABLES
    last,         \* the newest event
    conn,         \* each client's connection
    shown         \* what each client was shown

vars == <<last, conn, shown>>

Init ==
    /\ last = 0
    /\ conn = [c \in Clients |-> "new"]
    /\ shown = [c \in Clients |-> <<>>]

(* Something happens, whoever watches. *)
Happen ==
    /\ last < MaxEvents
    /\ last' = last + 1
    /\ UNCHANGED <<conn, shown>>

Connect(c) ==
    /\ conn[c] = "new"
    /\ conn' = [conn EXCEPT ![c] = "open"]
    /\ UNCHANGED <<last, shown>>

(* A client is shown something that happened, and never anything older. *)
Show(c, e) ==
    /\ conn[c] = "open"
    /\ \A i \in DOMAIN shown[c] : shown[c][i] < e
    /\ shown' = [shown EXCEPT ![c] = Append(@, e)]
    /\ UNCHANGED <<last, conn>>

Disconnect(c) ==
    /\ conn[c] = "open"
    /\ conn' = [conn EXCEPT ![c] = "closed"]
    /\ UNCHANGED <<last, shown>>

Next ==
    \/ Happen
    \/ \E c \in Clients : Connect(c) \/ Disconnect(c) \/ \E e \in 1 .. last : Show(c, e)

Spec == Init /\ [][Next]_vars
=============================================================================
