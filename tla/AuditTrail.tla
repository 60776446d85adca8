---------------------------- MODULE AuditTrail ----------------------------
(***************************************************************************)
(* What an audit log promises, whatever it is made of: a trail that only   *)
(* grows, in which an id names one entry for ever, and a durable part of   *)
(* the trail that only grows too and holds nothing but entries of it.      *)
(***************************************************************************)
CONSTANT Entries   \* what can be audited, each with an id

VARIABLES
    trail,   \* the entries audited so far
    kept     \* those that durable storage holds

Init == trail = {} /\ kept = {}

(* A change is audited under an id nothing else has. *)
Add(e) ==
    /\ \A f \in trail : f.id # e.id
    /\ trail' = trail \cup {e}
    /\ UNCHANGED kept

(* An audited entry reaches durable storage. *)
Keep(e) ==
    /\ e \in trail \ kept
    /\ kept' = kept \cup {e}
    /\ UNCHANGED trail

Next == \E e \in Entries : Add(e) \/ Keep(e)

Spec == Init /\ [][Next]_<<trail, kept>>
=============================================================================
