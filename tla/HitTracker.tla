----------------------------- MODULE HitTracker -----------------------------
(***************************************************************************)
(* hits.Tracker: for each policy, what fired it, as counters per dimension *)
(* and value.  A dimension that is full makes room for a new value by      *)
(* forgetting the quietest one, and of several the one its map happens to  *)
(* yield first.  The times of the first and the last event and the         *)
(* dimensions that cannot be excluded (which are counted alike) are left   *)
(* out.                                                                    *)
(***************************************************************************)
EXTENDS Rings, SequencesExt

CONSTANTS
    MaxValues,   \* values kept per dimension
    MaxSamples   \* events kept per policy

ASSUME RoomAssumption == {MaxValues, MaxSamples} \subseteq Nat \ {0}

Dimensions == {"binaries", "parentBinaries", "paths", "podLabels", "containers"}

(* A dimension's bucket maps the values that are kept to their counters.   *)
Value == [count : Nat, enforced : Nat]
NoBucket == [v \in {} |-> [count |-> 0, enforced |-> 0]]
NoHits == [total |-> 0, enforced |-> 0, samples |-> <<>>,
           dims |-> [dim \in Dimensions |-> NoBucket]]

One(if) == IF if THEN 1 ELSE 0

-----------------------------------------------------------------------------
(* The buckets that making room may leave. *)
evictQuietest(bucket) ==
    {Restrict(bucket, DOMAIN bucket \ {v}) :
        v \in {v \in DOMAIN bucket : \A w \in DOMAIN bucket : bucket[v].count <= bucket[w].count}}

(* The buckets that counting a value may leave.  (RecordBeyond: the limit  *)
(* is noticed one value too late.)                                         *)
Counted(bucket, value, enforced) ==
    LET before == IF value \in DOMAIN bucket THEN bucket[value] ELSE [count |-> 0, enforced |-> 0]
    IN  [v \in DOMAIN bucket \cup {value} |->
            IF v = value THEN [count |-> before.count + 1,
                               enforced |-> before.enforced + One(enforced)]
            ELSE bucket[v]]
RecordBeyond(bucket, value, enforced) ==
    {Counted(b, value, enforced) :
        b \in IF value \in DOMAIN bucket \/ Cardinality(DOMAIN bucket) <= MaxValues
              THEN {bucket} ELSE evictQuietest(bucket)}
record(bucket, value, enforced) ==
    {Counted(b, value, enforced) :
        b \in IF value \in DOMAIN bucket \/ Cardinality(DOMAIN bucket) < MaxValues
              THEN {bucket} ELSE evictQuietest(bucket)}

(* The values of one event under one dimension, one after the other. *)
RecordEach(bucket, values, enforced) ==
    LET after[n \in 0 .. Len(values)] ==
            IF n = 0 THEN {bucket}
            ELSE UNION {record(b, values[n], enforced) : b \in after[n - 1]}
    IN  after[Len(values)]

(* What Record may make of a policy's hits.  orders: for each dimension    *)
(* the orders in which the event's values may come.                        *)
Record(hits, event, orders, enforced) ==
    LET May(dim) == UNION {RecordEach(hits.dims[dim], values, enforced) : values \in orders[dim]}
    IN  {[total |-> hits.total + 1, enforced |-> hits.enforced + One(enforced),
          samples |-> Push(hits.samples, event, MaxSamples),
          dims |-> [binaries |-> b, parentBinaries |-> p, paths |-> f, podLabels |-> l,
                    containers |-> c]] :
            b \in May("binaries"), p \in May("parentBinaries"), f \in May("paths"),
            l \in May("podLabels"), c \in May("containers")}
=============================================================================
