------------------------------- MODULE Rings -------------------------------
(***************************************************************************)
(* The bounded rings of the backend.  The audit log, the aggregator, the   *)
(* hit samples, the log buffer and the memory store all keep a slice,      *)
(* append to it and cut it back to its newest cap elements.                *)
(***************************************************************************)
EXTENDS Naturals, Sequences, FiniteSets

(* Append x, then cut the slice back to its newest cap elements.           *)
(* (PushKeepingOldest: cut from the wrong end.)                            *)
PushKeepingOldest(ring, x, cap) ==
    LET all == Append(ring, x) IN IF Len(all) > cap THEN SubSeq(all, 1, cap) ELSE all

Push(ring, x, cap) ==
    LET all == Append(ring, x)
    IN  IF Len(all) > cap THEN SubSeq(all, Len(all) - cap + 1, Len(all)) ELSE all

(* The elements of a sequence, as a set. *)
Elems(s) == {s[i] : i \in DOMAIN s}

(* A ring is the tail of a history: its i-th element from the end is the   *)
(* history's i-th from the end, and it is as long as cap lets it be.       *)
IsTailOf(ring, history, cap) ==
    /\ Len(ring) = IF Len(history) > cap THEN cap ELSE Len(history)
    /\ \A i \in 1 .. Len(ring) :
          ring[i] = history[Len(history) - Len(ring) + i]

(* The (at most) n members of S with the largest time. *)
Newest(S, n) ==
    {e \in S : Cardinality({f \in S : f.time > e.time}) < n}
=============================================================================
