-------------------------- MODULE AuditLogProofs --------------------------
(***************************************************************************)
(* Theorems about AuditLog, for every ring size, limit and bound.          *)
(***************************************************************************)
EXTENDS AuditLog, SequenceFacts

(* The newest members of a set are members of it. *)
LEMMA NewestSubset ==
    ASSUME NEW S, NEW n
    PROVE  Newest(S, n) \subseteq S
BY DEF Newest

-----------------------------------------------------------------------------
(* The inductive invariant.                                                *)

(* Calls of Record still to take the lock and ids given out were all ticks *)
(* of the clock, which is why the ids stay in their bound.                 *)
CallsCounted ==
    /\ IsFiniteSet(stamped)
    /\ nextID - 1 + Cardinality(stamped) <= clock

(* The ids of a process life are 1, 2, 3, ... in the order of its log. *)
IDsInOrder ==
    /\ nextID = Len(log) + 1
    /\ \A i \in DOMAIN log : log[i].id = i

(* What the goroutines save and the table holds was issued. *)
SavesAreIssued ==
    /\ Elems(log) \subseteq issued
    /\ saving \subseteq Elems(log)
    /\ acked \subseteq issued

(* Before the first restart everything issued is in the log, and so no     *)
(* insert ever meets a row of another entry.                               *)
FirstLife == restarts = 0 => issued \subseteq Elems(log) /\ acked \subseteq durable

IInv ==
    /\ TypeOK
    /\ CallsCounted
    /\ IDsInOrder
    /\ RingHoldsNewest
    /\ SavesAreIssued
    /\ RowsAreIssued
    /\ FirstLife

USE CapAssumption, BoundsAssumption, QueryAssumption

LEMMA InitEstablishes == Init => IInv
<1> SUFFICES ASSUME Init PROVE IInv
  OBVIOUS
<1> USE DEF Init
<1>1. TypeOK
  BY DEF TypeOK, FirstID, Idle, Reader, Time, Entry
<1>2. CallsCounted
  BY FS_EmptySet DEF CallsCounted, FirstID
<1>3. IDsInOrder /\ SavesAreIssued /\ RowsAreIssued /\ FirstLife
  BY DEF IDsInOrder, SavesAreIssued, RowsAreIssued, FirstLife, Elems, FirstID
<1>4. RingHoldsNewest
  BY DEF RingHoldsNewest, IsTailOf
<1>5. QED
  BY <1>1, <1>2, <1>3, <1>4 DEF IInv

LEMMA StampPreserves == IInv /\ Stamp => IInv'
<1> SUFFICES ASSUME IInv, Stamp PROVE IInv'
  OBVIOUS
<1>1. TypeOK'
  BY DEF IInv, TypeOK, Stamp, Time
<1>2. CallsCounted'
  <2>1. Cardinality(stamped) \in Nat
    BY FS_CardinalityType DEF IInv, CallsCounted
  <2>2. /\ IsFiniteSet(stamped')
        /\ Cardinality(stamped') \in {Cardinality(stamped), Cardinality(stamped) + 1}
    BY FS_AddElement DEF IInv, CallsCounted, Stamp
  <2>3. QED
    BY <2>1, <2>2 DEF IInv, CallsCounted, Stamp, TypeOK
<1>3. (IDsInOrder /\ SavesAreIssued /\ RowsAreIssued /\ FirstLife)'
  BY DEF IInv, Stamp, IDsInOrder, SavesAreIssued, RowsAreIssued, FirstLife, Elems
<1>4. RingHoldsNewest'
  BY DEF IInv, Stamp, RingHoldsNewest, IsTailOf
<1>5. QED
  BY <1>1, <1>2, <1>3, <1>4 DEF IInv

LEMMA CommitPreserves ==
    ASSUME NEW t \in stamped, IInv, Commit(t)
    PROVE  IInv'
<1> DEFINE e == [id |-> nextID, time |-> t]
<1>1. nextID \in Time /\ e \in Entry
  <2>1. Cardinality(stamped) \in Nat /\ Cardinality(stamped) # 0
    BY FS_CardinalityType, FS_EmptySet DEF IInv, CallsCounted
  <2>2. nextID <= clock
    BY <2>1 DEF IInv, CallsCounted, TypeOK
  <2>3. QED
    BY <2>2 DEF IInv, TypeOK, Time, Entry
<1>2. /\ log' = Append(log, e) /\ log \in Seq(Entry) /\ log' \in Seq(Entry)
      /\ Len(log') = Len(log) + 1
      /\ \A i \in 1 .. Len(log) : log'[i] = log[i]
      /\ log'[Len(log) + 1] = e
  BY <1>1 DEF IInv, TypeOK, Commit, NewID
<1>3. Elems(log') = Elems(log) \cup {e}
  BY <1>2 DEF Elems
<1>4. TypeOK'
  <2>1. entries' \in Seq(Entry)
    BY <1>1, PushKeeps DEF IInv, TypeOK, Commit, NewID
  <2>2. nextID' \in 1 .. MaxRecords + 1
    BY <1>1 DEF Commit, Time
  <2>3. saving' \subseteq Entry /\ issued' \subseteq Entry /\ lost' \subseteq Entry
    BY <1>1 DEF IInv, TypeOK, Commit, NewID, Saves
  <2>4. stamped' \subseteq Time
    BY DEF IInv, TypeOK, Commit
  <2>5. UNCHANGED <<sink, durable, clock, restarts, reader, acked>>
    BY DEF Commit
  <2>6. QED
    BY <1>2, <2>1, <2>2, <2>3, <2>4, <2>5 DEF IInv, TypeOK
<1>5. CallsCounted'
  <2>1. Cardinality(stamped) \in Nat
    BY FS_CardinalityType DEF IInv, CallsCounted
  <2>2. /\ IsFiniteSet(stamped')
        /\ Cardinality(stamped') = Cardinality(stamped) - 1
    BY FS_RemoveElement DEF IInv, CallsCounted, Commit
  <2>3. QED
    BY <2>1, <2>2 DEF IInv, CallsCounted, Commit, TypeOK
<1>6. IDsInOrder'
  BY <1>2 DEF IInv, IDsInOrder, Commit
<1>7. RingHoldsNewest'
  BY <1>1, <1>2, PushKeepsTail DEF IInv, TypeOK, RingHoldsNewest, Commit, NewID
<1>8. SavesAreIssued'
  BY <1>3 DEF IInv, SavesAreIssued, Commit, NewID, Saves
<1>9. RowsAreIssued' /\ FirstLife'
  BY <1>3 DEF IInv, RowsAreIssued, FirstLife, Commit, NewID
<1>10. QED
  BY <1>4, <1>5, <1>6, <1>7, <1>8, <1>9 DEF IInv

(* Both ways a save ends leave a table that RowsAreIssued still describes. *)
LEMMA InsertIsSound ==
    ASSUME IInv, NEW e \in saving
    PROVE  /\ Insert(durable, e) \subseteq issued
           /\ durable \subseteq Insert(durable, e)
           /\ \A r, q \in Insert(durable, e) : r.id = q.id => r = q
           /\ restarts = 0 => e \in Insert(durable, e)
<1>1. e \in Elems(log) /\ e \in issued
  BY DEF IInv, SavesAreIssued
<1>2. ASSUME restarts = 0, NEW r \in durable, r.id = e.id
      PROVE  r = e
  <2>1. r \in Elems(log)
    BY <1>2 DEF IInv, FirstLife, RowsAreIssued
  <2>2. PICK i \in DOMAIN log, j \in DOMAIN log : log[i] = r /\ log[j] = e
    BY <1>1, <2>1 DEF Elems
  <2>3. QED
    BY <1>2, <2>2 DEF IInv, IDsInOrder
<1>3. QED
  BY <1>1, <1>2 DEF IInv, RowsAreIssued, Insert

LEMMA SavePreserves ==
    ASSUME NEW e \in saving, IInv, SaveDone(e) \/ SaveFailed(e)
    PROVE  IInv'
<1>1. /\ UNCHANGED <<entries, nextID, sink, stamped, clock, restarts, reader, log, issued>>
      /\ saving' = saving \ {e}
  BY DEF SaveDone, SaveFailed
<1>2. /\ durable \subseteq durable'
      /\ durable' \subseteq issued
      /\ \A r, q \in durable' : r.id = q.id => r = q
  BY InsertIsSound DEF IInv, RowsAreIssued, SaveDone, SaveFailed
<1>3. e \in issued
  BY DEF IInv, SavesAreIssued
<1>4. /\ acked' \subseteq issued /\ lost' \subseteq Entry
      /\ restarts = 0 => acked' \subseteq durable'
  BY <1>2, <1>3, InsertIsSound
     DEF IInv, TypeOK, SavesAreIssued, FirstLife, SaveDone, SaveFailed
<1>5. TypeOK'
  BY <1>1, <1>2, <1>4 DEF IInv, TypeOK
<1>6. (CallsCounted /\ IDsInOrder)'
  BY <1>1 DEF IInv, CallsCounted, IDsInOrder
<1>7. RingHoldsNewest'
  BY <1>1 DEF IInv, RingHoldsNewest, IsTailOf
<1>8. (SavesAreIssued /\ RowsAreIssued /\ FirstLife)'
  BY <1>1, <1>2, <1>4 DEF IInv, SavesAreIssued, RowsAreIssued, FirstLife, Elems
<1>9. QED
  BY <1>5, <1>6, <1>7, <1>8 DEF IInv

LEMMA RestartPreserves == IInv /\ Restart => IInv'
<1> SUFFICES ASSUME IInv, Restart PROVE IInv'
  OBVIOUS
<1>1. TypeOK'
  <2>1. entries' \in Seq(Entry) /\ log' \in Seq(Entry) /\ reader' \in Reader
    BY DEF Restart, Idle, Reader
  <2>2. nextID' \in 1 .. MaxRecords + 1 /\ restarts' \in 0 .. MaxRestarts
    BY DEF IInv, TypeOK, Restart, FirstID
  <2>3. QED
    BY <2>1, <2>2 DEF IInv, TypeOK, Restart
<1>2. CallsCounted'
  BY FS_EmptySet DEF IInv, TypeOK, CallsCounted, Restart, FirstID
<1>3. (IDsInOrder /\ SavesAreIssued /\ RowsAreIssued)'
  BY DEF IInv, IDsInOrder, SavesAreIssued, RowsAreIssued, Restart, FirstID, Elems
<1>4. RingHoldsNewest'
  BY DEF RingHoldsNewest, IsTailOf, Restart
<1>5. FirstLife'
  BY DEF IInv, TypeOK, FirstLife, Restart
<1>6. QED
  BY <1>1, <1>2, <1>3, <1>4, <1>5 DEF IInv

(* The limits that queries and the table work with are numbers. *)
LEMMA LimitIsNat ==
    /\ \A n \in Nat : LimitOf(n) \in Nat
    /\ \A n \in Nat : RowLimit(n) \in Nat
BY QueryAssumption DEF LimitOf, RowLimit

(* A query changes nothing but itself. *)
LEMMA QueryPreserves ==
    ASSUME IInv,
           \/ \E since, until \in Bounds, q \in BOOLEAN, asked \in Limits :
                QueryStart(since, until, q, asked)
           \/ \E asked \in BOOLEAN : QueryAnswer(asked)
           \/ QueryEnd
    PROVE  IInv'
<1>1. UNCHANGED <<entries, nextID, sink, stamped, saving, durable, clock, restarts,
                  log, issued, acked, lost>>
  BY DEF QueryStart, QueryAnswer, QueryEnd
<1>2. reader' \in Reader
  <2>1. ASSUME NEW since \in Bounds, NEW until \in Bounds, NEW q \in BOOLEAN,
               NEW asked \in Limits, QueryStart(since, until, q, asked)
        PROVE  reader' \in Reader
    <3>1. Elems(entries) \subseteq Entry
      BY DEF IInv, TypeOK, Elems
    <3>2. /\ since \in Nat /\ until \in Nat /\ LimitOf(asked) \in Nat
          /\ durable \subseteq Entry
      BY QueryAssumption, LimitIsNat DEF IInv, TypeOK
    <3>3. reader' = [phase |-> "started", since |-> since, until |-> until, q |-> q,
                     limit |-> LimitOf(asked), asked |-> FALSE,
                     pool |-> Elems(entries), kept |-> durable, rows |-> {},
                     answer |-> {}]
      BY <2>1 DEF QueryStart, Idle
    <3>4. QED
      BY <3>1, <3>2, <3>3 DEF Reader
  <2>2. ASSUME NEW asked \in BOOLEAN, QueryAnswer(asked)
        PROVE  reader' \in Reader
    <3> DEFINE rows == IF asked THEN Rows(reader.since, reader.until, reader.limit) ELSE {}
               found == MergeByID(reader.pool, rows)
               answer == Select(found, reader.since, reader.until, reader.q, reader.limit)
    <3>1. reader \in Reader /\ durable \subseteq Entry
      BY DEF IInv, TypeOK
    <3>2. rows \subseteq Entry
      BY <3>1, NewestSubset DEF Rows, Window
    <3>3. found \subseteq Entry
      BY <3>1, <3>2 DEF MergeByID, Reader
    <3>4. answer \subseteq Entry
      BY <3>3, NewestSubset DEF Select, Window, Found
    <3>5. reader' = [reader EXCEPT !.phase = "answered", !.asked = asked,
                                   !.rows = rows, !.answer = answer]
      BY <2>2 DEF QueryAnswer
    <3> HIDE DEF rows, answer
    <3>6. QED
      BY <3>1, <3>2, <3>4, <3>5 DEF Reader
  <2>3. CASE QueryEnd
    BY <2>3 DEF QueryEnd, Idle, Reader
  <2>4. QED
    BY <2>1, <2>2, <2>3
<1>3. TypeOK'
  BY <1>1, <1>2 DEF IInv, TypeOK
<1>4. (CallsCounted /\ IDsInOrder /\ SavesAreIssued /\ RowsAreIssued /\ FirstLife)'
  BY <1>1 DEF IInv, CallsCounted, IDsInOrder, SavesAreIssued, RowsAreIssued, FirstLife, Elems
<1>5. RingHoldsNewest'
  BY <1>1 DEF IInv, RingHoldsNewest, IsTailOf
<1>6. QED
  BY <1>3, <1>4, <1>5 DEF IInv

LEMMA StutterPreserves == IInv /\ UNCHANGED vars => IInv'
<1> SUFFICES ASSUME IInv, UNCHANGED vars PROVE IInv'
  OBVIOUS
<1>1. (TypeOK /\ CallsCounted /\ IDsInOrder /\ SavesAreIssued /\ RowsAreIssued /\ FirstLife)'
  BY DEF vars, IInv, TypeOK, CallsCounted, IDsInOrder, SavesAreIssued, RowsAreIssued,
         FirstLife, Elems
<1>2. RingHoldsNewest'
  BY DEF vars, IInv, RingHoldsNewest, IsTailOf
<1>3. QED
  BY <1>1, <1>2 DEF IInv

LEMMA NextPreserves == IInv /\ [Next]_vars => IInv'
<1> SUFFICES ASSUME IInv, [Next]_vars PROVE IInv'
  OBVIOUS
<1>1. CASE Stamp
  BY <1>1, StampPreserves
<1>2. ASSUME NEW t \in stamped, Commit(t) PROVE IInv'
  BY <1>2, CommitPreserves
<1>3. ASSUME NEW e \in saving, SaveDone(e) \/ SaveFailed(e) PROVE IInv'
  BY <1>3, SavePreserves
<1>4. CASE Restart
  BY <1>4, RestartPreserves
<1>5. CASE \/ \E since, until \in Bounds, q \in BOOLEAN, asked \in Limits :
                QueryStart(since, until, q, asked)
           \/ \E asked \in BOOLEAN : QueryAnswer(asked)
           \/ QueryEnd
  BY <1>5, QueryPreserves
<1>6. CASE UNCHANGED vars
  BY <1>6, StutterPreserves
<1>7. QED
  BY <1>1, <1>2, <1>3, <1>4, <1>5, <1>6 DEF Next

(* The invariant holds in every reachable state. *)
LEMMA Invariance == Spec => []IInv
<1>1. Init => IInv
  BY InitEstablishes
<1>2. IInv /\ [Next]_vars => IInv'
  BY NextPreserves
<1>3. QED
  BY <1>1, <1>2, PTL DEF Spec

-----------------------------------------------------------------------------
(* Every variable of the log keeps its type, ids and times within their    *)
(* bounds included.                                                        *)
THEOREM TypeCorrect == Spec => []TypeOK
<1>1. IInv => TypeOK
  BY DEF IInv
<1>2. QED
  BY <1>1, Invariance, PTL

(* Whatever the capacity and however the calls of Record interleave, the   *)
(* ring holds exactly the newest Cap entries of the process life, in the   *)
(* order of their ids, and no id of the life is used twice.                *)
THEOREM RingCorrect == Spec => [](RingHoldsNewest /\ IDsAreUnique)
<1>1. IInv => RingHoldsNewest /\ IDsAreUnique
  BY DEF IInv, IDsInOrder, IDsAreUnique
<1>2. QED
  BY <1>1, Invariance, PTL

(* The table holds nothing that was not audited and one row per id,        *)
(* through any number of restarts, failed saves and reordered saves, and   *)
(* in the first process life every save that returned no error is there.   *)
THEOREM TableCorrect == Spec => []TableHolds
<1>1. IInv => TableHolds
  BY DEF IInv, FirstLife, SavedIsKeptAtFirst, TableHolds
<1>2. QED
  BY <1>1, Invariance, PTL

(* No step of the log changes or removes a row. *)
THEOREM RowsAreWriteOnce == Spec => RowsStand
<1>1. IInv /\ [Next]_vars => [durable \subseteq durable']_durable
  <2> SUFFICES ASSUME IInv, [Next]_vars, durable' # durable
               PROVE  durable \subseteq durable'
    OBVIOUS
  <2>1. PICK e \in saving : SaveDone(e) \/ SaveFailed(e)
    BY DEF Next, vars, Stamp, Commit, Restart, QueryStart, QueryAnswer, QueryEnd
  <2>2. QED
    BY <2>1, InsertIsSound DEF SaveDone, SaveFailed
<1>2. QED
  BY <1>1, Invariance, PTL DEF Spec, RowsStand

(* Until the first restart the log implements the abstract trail of        *)
(* AuditTrail: every step adds one entry under a fresh id, keeps one entry *)
(* of the trail, or leaves the trail alone.                                *)
THEOREM FirstLifeImplementsTrail == Spec => ImplementsTrail
<1>1. Init => Trail!Init
  BY DEF Init, Trail!Init
<1>2. IInv /\ [Next]_vars => [restarts' = 0 => Trail!Next]_<<issued, durable>>
  <2> SUFFICES ASSUME IInv, [Next]_vars, ~UNCHANGED <<issued, durable>>, restarts' = 0
               PROVE  Trail!Next
    OBVIOUS
  <2>1. restarts = 0
    BY DEF IInv, TypeOK, Next, vars, Stamp, Commit, SaveDone, SaveFailed, Restart,
           QueryStart, QueryAnswer, QueryEnd
  <2>2. CASE \E t \in stamped : Commit(t)
    <3>1. PICK t \in stamped : Commit(t)
      BY <2>2
    <3> DEFINE e == [id |-> nextID, time |-> t]
    <3>2. e \in Entry
      <4>1. IInv'
        BY <3>1, CommitPreserves
      <4>2. e \in issued' /\ issued' \subseteq Entry
        BY <3>1, <4>1 DEF IInv, TypeOK, Commit, NewID
      <4>3. QED
        BY <4>2
    <3>3. \A f \in issued : f.id # e.id
      <4>1. ASSUME NEW f \in issued PROVE f.id # e.id
        <5>1. PICK i \in DOMAIN log : log[i] = f
          BY <2>1 DEF IInv, FirstLife, Elems
        <5>2. f.id = i /\ i \in 1 .. Len(log)
          BY <5>1 DEF IInv, IDsInOrder, TypeOK
        <5>3. QED
          BY <5>2 DEF IInv, IDsInOrder, TypeOK
      <4>2. QED
        BY <4>1
    <3>4. issued' = issued \cup {e} /\ durable' = durable
      BY <3>1 DEF Commit, NewID
    <3>5. Trail!Add(e)
      BY <3>3, <3>4 DEF Trail!Add
    <3>6. QED
      BY <3>2, <3>5 DEF Trail!Next
  <2>3. CASE \E e \in saving : SaveDone(e) \/ SaveFailed(e)
    <3>1. PICK e \in saving : SaveDone(e) \/ SaveFailed(e)
      BY <2>3
    <3>2. e \in issued /\ e \in Entry
      BY DEF IInv, SavesAreIssued, TypeOK
    <3>3. issued' = issued /\ durable' # durable
      BY <3>1 DEF SaveDone, SaveFailed
    <3>4. durable' = durable \cup {e} /\ e \notin durable
      BY <3>1, <3>3 DEF SaveDone, SaveFailed, Insert
    <3>5. Trail!Keep(e)
      BY <3>2, <3>3, <3>4 DEF Trail!Keep
    <3>6. QED
      BY <3>2, <3>5 DEF Trail!Next
  <2>4. QED
    BY <2>2, <2>3 DEF Next, vars, Stamp, Restart, QueryStart, QueryAnswer, QueryEnd
<1>3. QED
  BY <1>1, <1>2, Invariance, PTL DEF Spec, ImplementsTrail
-----------------------------------------------------------------------------
(* The newest members of a finite set whose times differ are as many as    *)
(* asked for, or all there are.  A member's place among them is how many   *)
(* are newer, and places are taken once.                                   *)
Newer(S, e) == {f \in S : f.time > e.time}
Timed(S) ==
    /\ IsFiniteSet(S)
    /\ \A e \in S : e.time \in Nat
    /\ \A e, f \in S : e.time = f.time => e = f

LEMMA PlacesDiffer ==
    ASSUME NEW S, Timed(S)
    PROVE  /\ \A e \in S : Cardinality(Newer(S, e)) \in 0 .. Cardinality(S) - 1
           /\ \A e, f \in S : Cardinality(Newer(S, e)) = Cardinality(Newer(S, f)) => e = f
<1>1. \A e \in S : IsFiniteSet(Newer(S, e)) /\ Cardinality(Newer(S, e)) \in Nat
  <2>1. \A e \in S : Newer(S, e) \in SUBSET S
    BY DEF Newer
  <2>2. QED
    BY <2>1, FS_Subset, FS_CardinalityType DEF Timed
<1>2. Cardinality(S) \in Nat
  BY FS_CardinalityType DEF Timed
<1>3. ASSUME NEW e \in S PROVE Cardinality(Newer(S, e)) <= Cardinality(S) - 1
  <2>1. Newer(S, e) \in SUBSET (S \ {e})
    BY DEF Newer, Timed
  <2>2. IsFiniteSet(S \ {e}) /\ Cardinality(S \ {e}) = Cardinality(S) - 1
    BY FS_RemoveElement DEF Timed
  <2>3. QED
    BY <2>1, <2>2, FS_Subset
<1>4. ASSUME NEW e \in S, NEW f \in S, e.time > f.time
      PROVE  Cardinality(Newer(S, e)) < Cardinality(Newer(S, f))
  <2>1. Newer(S, e) \cup {e} \in SUBSET Newer(S, f) /\ e \notin Newer(S, e)
    BY <1>4 DEF Newer, Timed
  <2>2. Cardinality(Newer(S, e) \cup {e}) = Cardinality(Newer(S, e)) + 1
    BY <1>1, <2>1, FS_AddElement
  <2>3. Cardinality(Newer(S, e) \cup {e}) <= Cardinality(Newer(S, f))
    BY <1>1, <2>1, FS_Subset
  <2>4. QED
    BY <1>1, <2>2, <2>3
<1>5. ASSUME NEW e \in S, NEW f \in S, Cardinality(Newer(S, e)) = Cardinality(Newer(S, f))
      PROVE  e = f
  <2>1. ~(e.time > f.time) /\ ~(f.time > e.time)
    BY <1>1, <1>4, <1>5
  <2>2. QED
    BY <2>1 DEF Timed
<1>6. QED
  BY <1>1, <1>2, <1>3, <1>5

LEMMA NewestCounts ==
    ASSUME NEW S, Timed(S), NEW n \in Nat
    PROVE  /\ IsFiniteSet(Newest(S, n))
           /\ Cardinality(Newest(S, n)) = IF Cardinality(S) <= n THEN Cardinality(S) ELSE n
<1> DEFINE N == Newest(S, n)
           k == IF Cardinality(S) <= n THEN Cardinality(S) ELSE n
           place == [e \in S |-> Cardinality(Newer(S, e))]
           low == [e \in N |-> Cardinality(Newer(S, e))]
<1>1. Cardinality(S) \in Nat /\ k \in Nat
  BY FS_CardinalityType DEF Timed
<1>2. IsFiniteSet(0 .. Cardinality(S) - 1) /\ Cardinality(0 .. Cardinality(S) - 1) = Cardinality(S)
  <2>1. PICK c \in Nat : c = Cardinality(S)
    BY <1>1
  <2>2. IsFiniteSet(0 .. c - 1) /\ Cardinality(0 .. c - 1) = c
    <3>1. 0 \in Int /\ c - 1 \in Int
      OBVIOUS
    <3>2. /\ IsFiniteSet(0 .. c - 1)
          /\ Cardinality(0 .. c - 1) = IF 0 > c - 1 THEN 0 ELSE c - 1 - 0 + 1
      BY <3>1, FS_Interval
    <3>3. QED
      BY <3>2
  <2>3. QED
    BY <2>1, <2>2
<1>3. place \in Injection(S, 0 .. Cardinality(S) - 1)
  BY PlacesDiffer DEF Injection, IsInjective
<1>4. place \in Surjection(S, 0 .. Cardinality(S) - 1)
  BY <1>2, <1>3, FS_Injection
<1>5. N = {e \in S : Cardinality(Newer(S, e)) < n}
  BY DEF Newest, Newer
<1>6. \A e \in N : e \in S /\ Cardinality(Newer(S, e)) \in 0 .. k - 1
  <2>1. \A e \in S : Cardinality(Newer(S, e)) \in 0 .. Cardinality(S) - 1
    BY PlacesDiffer
  <2>2. QED
    BY <1>1, <1>5, <2>1
<1>7. low \in Injection(N, 0 .. k - 1)
  BY <1>6, PlacesDiffer DEF Injection, IsInjective
<1>8. low \in Surjection(N, 0 .. k - 1)
  <2>1. ASSUME NEW i \in 0 .. k - 1 PROVE \E e \in N : low[e] = i
    <3>1. i \in 0 .. Cardinality(S) - 1 /\ i < n
      BY <1>1
    <3>2. PICK e \in S : place[e] = i
      BY <1>4, <3>1 DEF Surjection
    <3>3. Cardinality(Newer(S, e)) = i /\ e \in N
      BY <1>5, <3>1, <3>2
    <3>4. QED
      BY <3>3
  <2>2. low \in [N -> 0 .. k - 1]
    BY <1>6
  <2>3. QED
    BY <2>1, <2>2 DEF Surjection
<1> HIDE DEF N, k, low, place
<1>9. IsFiniteSet(0 .. k - 1) /\ Cardinality(0 .. k - 1) = k
  <2>1. k \in Nat
    BY <1>1
  <2>2. 0 \in Int /\ k - 1 \in Int
    BY <2>1
  <2>3. /\ IsFiniteSet(0 .. k - 1)
        /\ Cardinality(0 .. k - 1) = IF 0 > k - 1 THEN 0 ELSE k - 1 - 0 + 1
    BY <2>2, FS_Interval
  <2>4. QED
    BY <2>1, <2>3
<1>10. IsFiniteSet(N) /\ Cardinality(N) = k
  BY <1>7, <1>8, <1>9, FS_Injection
<1>11. QED
  BY <1>10 DEF N, k

(* What n members of a set are newer than is not needed to fill the answer, *)
(* and everything in the answer is newer than it.                           *)
LEMMA NewestBeats ==
    ASSUME NEW S, Timed(S), NEW n \in Nat, NEW e, e.time \in Nat,
           NEW R \in SUBSET S, Cardinality(R) >= n, \A r \in R : r.time > e.time
    PROVE  /\ Cardinality(Newest(S, n)) = n
           /\ \A f \in Newest(S, n) : f.time > e.time
<1>1. /\ IsFiniteSet(S) /\ Cardinality(S) \in Nat
      /\ Cardinality(R) \in Nat /\ Cardinality(R) <= Cardinality(S)
  BY FS_Subset, FS_CardinalityType DEF Timed
<1>2. Cardinality(Newest(S, n)) = n
  BY <1>1, NewestCounts
<1>3. ASSUME NEW f \in Newest(S, n), ~(f.time > e.time) PROVE FALSE
  <2>1. f \in S /\ Cardinality(Newer(S, f)) < n
    BY DEF Newest, Newer
  <2>2. R \in SUBSET Newer(S, f) /\ IsFiniteSet(Newer(S, f))
    <3>1. Newer(S, f) \in SUBSET S
      BY DEF Newer
    <3>2. R \in SUBSET Newer(S, f)
      BY <1>3, <2>1 DEF Newer, Timed
    <3>3. QED
      BY <1>1, <3>1, <3>2, FS_Subset
  <2>3. Cardinality(R) <= Cardinality(Newer(S, f)) /\ Cardinality(Newer(S, f)) \in Nat
    BY <2>2, FS_Subset, FS_CardinalityType
  <2>4. QED
    BY <1>1, <2>1, <2>3
<1>4. QED
  BY <1>2, <1>3

(* So what the cut leaves out is older than all it leaves in. *)
LEMMA NewestLeavesOut ==
    ASSUME NEW S, Timed(S), NEW n \in Nat, NEW e \in S, e \notin Newest(S, n)
    PROVE  /\ Cardinality(Newest(S, n)) = n
           /\ \A f \in Newest(S, n) : f.time > e.time
<1>1. Newer(S, e) \in SUBSET S /\ \A r \in Newer(S, e) : r.time > e.time
  BY DEF Newer
<1>2. Cardinality(Newer(S, e)) \in Nat
  BY <1>1, FS_Subset, FS_CardinalityType DEF Timed
<1>3. Cardinality(Newer(S, e)) >= n
  BY <1>2 DEF Newest, Newer
<1>4. e.time \in Nat
  BY DEF Timed
<1>5. QED
  BY <1>1, <1>3, <1>4, NewestBeats

-----------------------------------------------------------------------------
(* A time is one entry's, or that of one call still to take the lock.      *)
TimesAreOwn ==
    /\ \A e, f \in issued : e.time = f.time => e = f
    /\ \A e \in issued : e.time <= clock /\ e.time \notin stamped
    /\ \A t \in stamped : t <= clock

LEMMA TimesStayOwn == IInv /\ TimesAreOwn /\ [Next]_vars => TimesAreOwn'
<1> SUFFICES ASSUME IInv, TimesAreOwn, [Next]_vars PROVE TimesAreOwn'
  OBVIOUS
<1>0. issued \subseteq Entry /\ stamped \subseteq Time /\ clock \in Nat
  BY DEF IInv, TypeOK
<1>1. CASE Stamp
  BY <1>0, <1>1 DEF Stamp, TimesAreOwn, Entry, Time
<1>2. ASSUME NEW t \in stamped, Commit(t) PROVE TimesAreOwn'
  <2> DEFINE e == [id |-> NewID, time |-> t]
  <2>1. /\ issued' = issued \cup {e} /\ stamped' = stamped \ {t} /\ clock' = clock
        /\ e.time = t
    BY <1>2 DEF Commit
  <2> HIDE DEF e
  <2>2. QED
    BY <2>1 DEF TimesAreOwn
<1>3. ASSUME NEW e \in saving, SaveDone(e) \/ SaveFailed(e) PROVE TimesAreOwn'
  BY <1>3 DEF SaveDone, SaveFailed, TimesAreOwn
<1>4. CASE Restart
  BY <1>4 DEF Restart, TimesAreOwn
<1>5. CASE \/ \E since, until \in Bounds, q \in BOOLEAN, asked \in Limits :
                QueryStart(since, until, q, asked)
           \/ \E asked \in BOOLEAN : QueryAnswer(asked)
           \/ QueryEnd
  BY <1>5 DEF QueryStart, QueryAnswer, QueryEnd, TimesAreOwn
<1>6. CASE UNCHANGED vars
  BY <1>6 DEF vars, TimesAreOwn
<1>7. QED
  BY <1>1, <1>2, <1>3, <1>4, <1>5, <1>6 DEF Next

LEMMA IssuedIsTimed ==
    ASSUME IInv, TimesAreOwn, NEW S \in SUBSET issued
    PROVE  Timed(S)
<1> DEFINE at == [e \in S |-> e.time]
<1>1. \A e \in S : e.time \in 1 .. MaxRecords
  BY DEF IInv, TypeOK, Entry, Time
<1>2. at \in Injection(S, 1 .. MaxRecords)
  BY <1>1 DEF TimesAreOwn, Injection, IsInjective
<1>3. IsFiniteSet(1 .. MaxRecords)
  BY FS_Interval
<1>4. IsFiniteSet(S)
  BY <1>2, <1>3, FS_Injection
<1>5. QED
  BY <1>1, <1>4 DEF Timed, TimesAreOwn

(* What a query copied of the ring is of this life, and the rows there     *)
(* were when it started are there still.                                   *)
CopyIsOurs ==
    reader.phase # "idle" => reader.pool \subseteq Elems(log) /\ reader.kept \subseteq durable

LEMMA AnswerIsComplete ==
    ASSUME IInv, TimesAreOwn, CopyIsOurs, NEW asked \in BOOLEAN, QueryAnswer(asked)
    PROVE  AnswerMissesNothing'
<1> DEFINE limit == reader.limit
           D == Window(durable, reader.since, reader.until)
           rows == IF asked THEN Newest(D, RowLimit(limit)) ELSE {}
           found == MergeByID(reader.pool, rows)
           W == Wanted(found)
           answer == Newest(W, limit)
<1>1. /\ reader \in Reader /\ reader.phase = "started"
      /\ reader' = [reader EXCEPT !.phase = "answered", !.asked = asked,
                                  !.rows = rows, !.answer = answer]
      /\ restarts' = restarts
  BY DEF IInv, TypeOK, QueryAnswer, Rows, Select, Wanted
<1>2. /\ reader'.answer = answer /\ reader'.pool = reader.pool /\ reader'.kept = reader.kept
      /\ reader'.asked = asked /\ reader'.limit = limit /\ reader'.rows = rows
      /\ reader'.since = reader.since /\ reader'.until = reader.until
      /\ reader'.q = reader.q
  <2> HIDE DEF answer, rows
  <2>1. QED
    BY <1>1 DEF Reader
<1>3. limit \in Nat /\ RowLimit(limit) \in Nat
  BY <1>1, LimitIsNat DEF Reader
<1> HIDE DEF limit
<1>4. /\ reader.pool \subseteq Elems(log) /\ reader.kept \subseteq durable
      /\ Elems(log) \subseteq issued /\ durable \subseteq issued
      /\ \A e, f \in Elems(log) : e.id = f.id => e = f
      /\ \A r, q \in durable : r.id = q.id => r = q
      /\ restarts \in Nat /\ (restarts = 0 => issued \subseteq Elems(log))
  <2>1. reader.pool \subseteq Elems(log) /\ reader.kept \subseteq durable
    BY <1>1 DEF CopyIsOurs
  <2>2. \A e, f \in Elems(log) : e.id = f.id => e = f
    BY DEF IInv, IDsInOrder, Elems
  <2>3. restarts \in Nat
    BY BoundsAssumption DEF IInv, TypeOK
  <2>4. QED
    BY <2>1, <2>2, <2>3 DEF IInv, SavesAreIssued, RowsAreIssued, FirstLife
<1>5. rows \subseteq D /\ D \subseteq durable
  BY NewestSubset DEF Window
<1>6. Timed(D)
  BY <1>4, <1>5, IssuedIsTimed
<1>7. asked => rows = Newest(D, RowLimit(limit))
  OBVIOUS
<1> HIDE DEF rows, D
<1>8. /\ found \subseteq issued
      /\ \A e, f \in found : e.id = f.id => e = f
  BY <1>4, <1>5 DEF MergeByID
(* A row that is not found is hidden by the ring. *)
<1>9. /\ reader.pool \subseteq found
      /\ \A r \in rows : r \in found \/ Hidden(r)
  <2>1. ASSUME NEW r \in rows, r \notin found PROVE Hidden(r)
    <3>1. PICK f \in reader.pool : f.id = r.id
      BY <2>1 DEF MergeByID
    <3>2. f # r
      BY <2>1 DEF MergeByID
    <3>3. restarts # 0
      BY <1>4, <1>5, <3>1, <3>2
    <3>4. QED
      BY <1>4, <3>1, <3>2, <3>3 DEF Hidden
  <2>2. QED
    BY <2>1 DEF MergeByID
<1> HIDE DEF found
<1>10. W \subseteq found
  BY DEF Wanted, Found, Window
<1>11. Timed(W)
  BY <1>8, <1>10, IssuedIsTimed
<1>12. answer \subseteq W
  BY NewestSubset
<1>13. Cardinality(answer) <= limit
  <2>1. Cardinality(answer) = IF Cardinality(W) <= limit THEN Cardinality(W) ELSE limit
    BY <1>3, <1>11, NewestCounts
  <2>2. Cardinality(W) \in Nat
    BY <1>11, FS_CardinalityType DEF Timed
  <2> HIDE DEF W, answer
  <2>3. QED
    BY <1>3, <2>1, <2>2
<1>14. \A e, f \in answer : e.id = f.id => e = f
  BY <1>8, <1>10, <1>12
<1> DEFINE Full(e) == Cardinality(answer) = limit /\ \A f \in answer : f.time > e.time
<1>15. ASSUME NEW e \in W, e \notin answer PROVE Full(e)
  BY <1>3, <1>11, <1>15, NewestLeavesOut
<1> DEFINE Over(e) ==
               /\ \/ reader.q
                  \/ \E r \in rows : Hidden(r)
                  \/ RowLimit(limit) < limit
               /\ Cardinality(rows) = RowLimit(limit)
               /\ \A f \in rows : f.time > e.time
<1>16. ASSUME asked, NEW e \in Wanted(reader.kept), e \notin answer
       PROVE  Full(e) \/ Hidden(e) \/ Over(e)
  <2>1. e \in D
    BY <1>4, <1>16 DEF D, Wanted, Found, Window
  <2>2. CASE e \in rows
    <3>1. CASE e \in found
      <4>1. e \in W
        BY <1>16, <3>1 DEF Wanted, Found, Window
      <4>2. QED
        BY <1>15, <1>16, <4>1
    <3>2. CASE e \notin found
      BY <1>9, <2>2, <3>2
    <3>3. QED
      BY <3>1, <3>2
  <2>3. CASE e \notin rows
    <3>1. Cardinality(rows) = RowLimit(limit) /\ \A r \in rows : r.time > e.time
      BY <1>3, <1>6, <1>7, <1>16, <2>1, <2>3, NewestLeavesOut
    <3>2. CASE reader.q \/ (\E r \in rows : Hidden(r)) \/ RowLimit(limit) < limit
      BY <3>1, <3>2
    <3>3. CASE ~reader.q /\ (\A r \in rows : ~Hidden(r)) /\ RowLimit(limit) >= limit
      <4>1. rows \in SUBSET W
        BY <1>5, <1>9, <3>3 DEF D, Wanted, Found, Window
      <4>2. e.time \in Nat
        BY <1>6, <2>1 DEF Timed
      <4> HIDE DEF W
      <4>3. QED
        BY <1>3, <1>11, <3>1, <3>3, <4>1, <4>2, NewestBeats
    <3>4. QED
      BY <1>3, <3>2, <3>3
  <2>4. QED
    BY <2>2, <2>3
<1>17. \A e \in Wanted(reader.pool) : e \in W
  BY <1>9 DEF Wanted, Found, Window
<1>18. answer \subseteq Wanted(answer)
  BY <1>12 DEF Wanted, Found, Window
<1>19. /\ \A R : Wanted(R)' = Wanted(R)
       /\ \A e : Hidden(e)' = Hidden(e)
  BY <1>1, <1>2 DEF Wanted, Found, Window, Hidden
<1> HIDE DEF answer, W
<1>20. QED
  BY <1>1, <1>2, <1>13, <1>14, <1>15, <1>16, <1>17, <1>18, <1>19
  DEF AnswerMissesNothing, AnswerIsFull, Beyond

LEMMA QueriesStaySound ==
    IInv /\ TimesAreOwn /\ CopyIsOurs /\ AnswerMissesNothing /\ [Next]_vars
        => CopyIsOurs' /\ AnswerMissesNothing'
<1> SUFFICES ASSUME IInv, TimesAreOwn, CopyIsOurs, AnswerMissesNothing, [Next]_vars
             PROVE  CopyIsOurs' /\ AnswerMissesNothing'
  OBVIOUS
<1>1. ASSUME UNCHANGED <<reader, restarts>>,
             Elems(log) \subseteq Elems(log)', durable \subseteq durable'
      PROVE  CopyIsOurs' /\ AnswerMissesNothing'
  BY <1>1 DEF CopyIsOurs, AnswerMissesNothing, Wanted, Hidden, Beyond, AnswerIsFull
<1>2. CASE Stamp
  BY <1>1, <1>2 DEF Stamp, Elems
<1>3. ASSUME NEW t \in stamped, Commit(t) PROVE CopyIsOurs' /\ AnswerMissesNothing'
  <2>1. log' = Append(log, [id |-> NewID, time |-> t]) /\ log \in Seq(Entry)
    BY <1>3 DEF Commit, IInv, TypeOK
  <2>2. Elems(log) \subseteq Elems(log)'
    BY <2>1 DEF Elems
  <2>3. UNCHANGED <<reader, restarts, durable>>
    BY <1>3 DEF Commit
  <2>4. QED
    BY <1>1, <2>2, <2>3
<1>4. ASSUME NEW e \in saving, SaveDone(e) \/ SaveFailed(e)
      PROVE  CopyIsOurs' /\ AnswerMissesNothing'
  <2>1. UNCHANGED <<reader, restarts, log>> /\ durable \subseteq durable'
    BY <1>4 DEF SaveDone, SaveFailed, Insert
  <2>2. QED
    BY <1>1, <2>1 DEF Elems
<1>5. CASE Restart
  BY <1>5 DEF Restart, Idle, CopyIsOurs, AnswerMissesNothing
<1>6. ASSUME NEW since \in Bounds, NEW until \in Bounds, NEW q \in BOOLEAN,
             NEW asked \in Limits, QueryStart(since, until, q, asked)
      PROVE  CopyIsOurs' /\ AnswerMissesNothing'
  <2>1. /\ reader'.phase = "started" /\ reader'.pool = Elems(entries)
        /\ reader'.kept = durable
        /\ log' = log /\ durable' = durable
    BY <1>6 DEF QueryStart, Idle
  <2>2. Elems(entries) \subseteq Elems(log)
    <3>1. entries \in Seq(Entry) /\ log \in Seq(Entry) /\ IsTailOf(entries, log, Cap)
      BY DEF IInv, TypeOK, RingHoldsNewest
    <3>2. Len(entries) \in Nat /\ Len(log) \in Nat /\ Len(entries) <= Len(log)
      BY <3>1 DEF IsTailOf
    <3>3. ASSUME NEW i \in DOMAIN entries PROVE \E j \in DOMAIN log : entries[i] = log[j]
      <4>1. i \in 1 .. Len(entries) /\ DOMAIN log = 1 .. Len(log)
        BY <3>1
      <4>2. Len(log) - Len(entries) + i \in 1 .. Len(log)
        BY <3>2, <4>1
      <4>3. QED
        BY <3>1, <4>1, <4>2 DEF IsTailOf
    <3>4. QED
      BY <3>3 DEF Elems
  <2>3. QED
    BY <2>1, <2>2 DEF CopyIsOurs, AnswerMissesNothing, Elems
<1>7. ASSUME NEW asked \in BOOLEAN, QueryAnswer(asked)
      PROVE  CopyIsOurs' /\ AnswerMissesNothing'
  <2>1. /\ reader'.pool = reader.pool /\ reader'.kept = reader.kept
        /\ log' = log /\ durable' = durable /\ reader.phase = "started"
    BY <1>7 DEF QueryAnswer, IInv, TypeOK, Reader
  <2>2. CopyIsOurs'
    BY <2>1 DEF CopyIsOurs, Elems
  <2>3. QED
    BY <1>7, <2>2, AnswerIsComplete
<1>8. CASE QueryEnd
  BY <1>8 DEF QueryEnd, Idle, CopyIsOurs, AnswerMissesNothing
<1>9. CASE UNCHANGED vars
  BY <1>1, <1>9 DEF vars, Elems
<1>10. QED
  BY <1>2, <1>3, <1>4, <1>5, <1>6, <1>7, <1>8, <1>9 DEF Next

(* A query copies the ring, unlocks, and then asks the table, while new    *)
(* entries get their ids in another order than their times.  What was in   *)
(* the ring when it began is in the answer or displaced by newer entries;  *)
(* what was in the table may also be hidden by an id used twice, or lie    *)
(* beyond the rows the table gave, and is missed in no other way.          *)
THEOREM AnswersAreComplete == Spec => []AnswerMissesNothing
<1>1. Init => TimesAreOwn /\ CopyIsOurs /\ AnswerMissesNothing
  BY DEF Init, Idle, TimesAreOwn, CopyIsOurs, AnswerMissesNothing
<1>2. QED
  BY <1>1, Invariance, TimesStayOwn, QueriesStaySound, PTL DEF Spec
=============================================================================
