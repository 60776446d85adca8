------------------------- MODULE AlertRouterProofs -------------------------
(***************************************************************************)
(* Theorems about AlertRouter, for any two windows, any subjects, routes   *)
(* and tables, and any order of the alerts' times.                         *)
(*                                                                         *)
(* The invariant says what the two memories stand for: each time in        *)
(* lastAlert is that of a published alert, each time in lastSent that of   *)
(* the newest alert sent, and a published alert that is no longer in hand  *)
(* has one sent to answer for it.                                          *)
(***************************************************************************)
EXTENDS AlertRouter, FiniteSetTheorems, TLAPS

(* The goroutine has one alert in hand while it is busy, none otherwise. *)
InHand ==
    /\ stage = "idle" => alert = {}
    /\ \A a, b \in alert : a = b
    /\ alert \subseteq published
    /\ stage = "publish" => alert \cap sent = {}
    /\ stage = "spawn" => alert \subseteq sent

(* Alerts are told apart by their number. *)
Numbered ==
    /\ sent \subseteq published /\ published \subseteq raised
    /\ \A a \in raised : a.n <= count
    /\ \A a, b \in raised : a.n = b.n => a = b

(* What the memories hold. *)
Remembered ==
    /\ \A k \in Keys : lastAlert[k] # Never =>
          \E a \in published : Key(a) = k /\ a.time = lastAlert[k]
    /\ \A k \in Keys : lastSent[k] # Never =>
          \E b \in sent : Key(b) = k /\ b.time = lastSent[k]
    /\ \A b \in sent : lastSent[Key(b)] # Never /\ b.time <= lastSent[Key(b)]

(* A published alert that the router is done with was sent, or suppressed  *)
(* by one that was.                                                        *)
Answered ==
    \A a \in published \ alert : \E b \in sent :
        Key(b) = Key(a) /\ a.time - b.time < Window

IInv == /\ TypeOK /\ InHand /\ Numbered /\ Remembered /\ Answered
        /\ SentAreSpaced /\ EveryAlertIsHeard

-----------------------------------------------------------------------------
(* The key of an alert is one the memories know. *)
LEMMA KeyType == ASSUME NEW a \in Alert PROVE Key(a) \in Keys /\ a.time \in Time /\ a.n \in Int
BY BoundsAssumption DEF Alert, Key, Keys

LEMMA InitEstablishes == Init => IInv
<1> SUFFICES ASSUME Init PROVE IInv
  OBVIOUS
<1> USE DEF Init
<1>1. TypeOK
  BY BoundsAssumption DEF TypeOK, MaybeTime
<1>2. InHand /\ Numbered /\ Remembered /\ Answered
  BY DEF InHand, Numbered, Remembered, Answered
<1>3. SentAreSpaced /\ EveryAlertIsHeard
  BY DEF SentAreSpaced, EveryAlertIsHeard
<1>4. QED
  BY <1>1, <1>2, <1>3 DEF IInv

(* A step that touches neither the memories nor the alerts. *)
LEMMA Frame ==
    ASSUME IInv, TypeOK',
           UNCHANGED <<lastAlert, lastSent, stage, alert, count, raised, published, sent>>
    PROVE  IInv'
<1>1. InHand' /\ Numbered' /\ Remembered' /\ Answered'
  BY DEF IInv, InHand, Numbered, Remembered, Answered
<1>2. SentAreSpaced' /\ EveryAlertIsHeard'
  BY DEF IInv, SentAreSpaced, EveryAlertIsHeard
<1>3. QED
  BY <1>1, <1>2 DEF IInv

(* A new alert is published, or within the aggregator's window of one that *)
(* was: the sum of the windows covers it.                                  *)
LEMMA PublishPreserves ==
    ASSUME IInv, NEW s \in Subjects, NEW t \in Time, PublishAlert(s, t)
    PROVE  IInv'
<1> DEFINE a == [n |-> count + 1, about |-> s, time |-> t]
<1> USE BoundsAssumption, WindowsAssumption, NeverAssumption
<1>1. /\ a \in Alert /\ a.time = t /\ a.n = count + 1
      /\ stage = "idle" /\ alert = {} /\ count' = count + 1
      /\ raised' = raised \cup {a} /\ sent' = sent /\ lastSent' = lastSent
      /\ count \in Nat
  BY DEF PublishAlert, IInv, TypeOK, InHand, Alert
<1>2. a \notin raised
  BY <1>1 DEF IInv, Numbered
<1>3. Key(a) \in Keys
  BY <1>1, KeyType
<1>4. CASE Recent(lastAlert[Key(a)], t, Brief)
  <2>1. UNCHANGED <<lastAlert, published, stage, alert>>
    BY <1>4 DEF PublishAlert
  <2>2. TypeOK'
    BY <1>1, <2>1 DEF PublishAlert, IInv, TypeOK
  <2>3. InHand' /\ Numbered' /\ Remembered' /\ Answered' /\ SentAreSpaced'
    BY <1>1, <2>1
       DEF IInv, TypeOK, InHand, Numbered, Remembered, Answered, SentAreSpaced, Alert
  <2>4. \E b \in sent : Key(b) = Key(a) /\ a.time - b.time < Window + Brief
    <3>1. PICK p \in published : Key(p) = Key(a) /\ p.time = lastAlert[Key(a)]
      BY <1>3, <1>4 DEF Recent, IInv, Remembered
    <3>2. PICK b \in sent : Key(b) = Key(p) /\ p.time - b.time < Window
      BY <1>1, <3>1 DEF IInv, Answered
    <3>3. p.time \in Int /\ b.time \in Int /\ t \in Int
      BY KeyType DEF IInv, TypeOK, Time
    <3>4. t - p.time < Brief
      BY <1>4, <3>1 DEF Recent
    <3>5. QED
      BY <1>1, <3>1, <3>2, <3>3, <3>4
  <2>5. EveryAlertIsHeard'
    BY <1>1, <2>1, <2>4 DEF IInv, EveryAlertIsHeard
  <2>6. QED
    BY <2>2, <2>3, <2>5 DEF IInv
<1>5. CASE ~Recent(lastAlert[Key(a)], t, Brief)
  <2>1. /\ lastAlert' = [lastAlert EXCEPT ![Key(a)] = t]
        /\ published' = published \cup {a} /\ stage' = "publish" /\ alert' = {a}
    BY <1>5 DEF PublishAlert
  <2>2. TypeOK'
    BY <1>1, <1>3, <2>1 DEF PublishAlert, IInv, TypeOK, MaybeTime
  <2>3. a \notin sent
    BY <1>2 DEF IInv, Numbered
  <2>4. InHand' /\ Numbered'
    BY <1>1, <2>1, <2>3 DEF IInv, TypeOK, InHand, Numbered, Alert
  <2>5. Remembered'
    <3>1. ASSUME NEW k \in Keys, lastAlert'[k] # Never
          PROVE  \E p \in published' : Key(p) = k /\ p.time = lastAlert'[k]
      <4>1. CASE k = Key(a)
        BY <4>1, <1>1, <1>3, <2>1 DEF IInv, TypeOK
      <4>2. CASE k # Key(a)
        BY <3>1, <4>2, <2>1 DEF IInv, TypeOK, Remembered
      <4>3. QED
        BY <4>1, <4>2
    <3>2. QED
      BY <1>1, <3>1 DEF IInv, Remembered
  <2>6. Answered' /\ SentAreSpaced' /\ EveryAlertIsHeard'
    BY <1>1, <2>1 DEF IInv, Answered, SentAreSpaced, EveryAlertIsHeard
  <2>7. QED
    BY <2>2, <2>4, <2>5, <2>6 DEF IInv
<1>6. QED
  BY <1>4, <1>5

(* The router sends an alert that is a window newer than all it sent of    *)
(* that kind and title, or has sent one that answers for it.               *)
LEMMA DispatchPreserves ==
    ASSUME IInv, NEW a \in alert, Dispatch(a)
    PROVE  IInv'
<1> USE BoundsAssumption, WindowsAssumption, NeverAssumption
<1>1. /\ a \in Alert /\ a \in published /\ alert = {a} /\ a \notin sent
      /\ UNCHANGED <<lastAlert, count, raised, published>>
      /\ Key(a) \in Keys /\ a.time \in Int
  BY KeyType DEF Dispatch, IInv, TypeOK, InHand, Time
<1>2. CASE Recent(lastSent[Key(a)], a.time, Window)
  <2>1. /\ lastSent' = lastSent /\ sent' = sent /\ stage' = "idle" /\ alert' = {}
        /\ suppressed' = suppressed + 1
    BY <1>2 DEF Dispatch, Marks
  <2>2. TypeOK'
    BY <1>1, <2>1 DEF Dispatch, Table, IInv, TypeOK
  <2>3. InHand' /\ Numbered' /\ Remembered' /\ SentAreSpaced'
    BY <1>1, <2>1 DEF IInv, InHand, Numbered, Remembered, SentAreSpaced
  <2>4. PICK b \in sent : Key(b) = Key(a) /\ b.time = lastSent[Key(a)]
    BY <1>1, <1>2 DEF Recent, IInv, Remembered
  <2>5. a.time - b.time < Window /\ b.time \in Int
    BY <1>2, <2>4, KeyType DEF Recent, IInv, TypeOK, Time
  <2>6. Answered'
    BY <1>1, <2>1, <2>4, <2>5 DEF IInv, Answered
  <2>7. a.time - b.time < Window + Brief
    BY <1>1, <2>5
  <2>8. EveryAlertIsHeard'
    BY <1>1, <2>1, <2>4, <2>7 DEF IInv, EveryAlertIsHeard
  <2>9. QED
    BY <2>2, <2>3, <2>6, <2>8 DEF IInv
<1>3. CASE ~Recent(lastSent[Key(a)], a.time, Window)
  <2>1. /\ lastSent' = [lastSent EXCEPT ![Key(a)] = a.time]
        /\ sent' = sent \cup {a} /\ stage' = "spawn" /\ alert' = alert
        /\ suppressed' = suppressed
    BY <1>3 DEF Dispatch, Marks
  <2>2. TypeOK'
    BY <1>1, <2>1, KeyType DEF Dispatch, Table, IInv, TypeOK, MaybeTime
  <2>3. InHand' /\ Numbered'
    BY <1>1, <2>1 DEF IInv, InHand, Numbered
  <2>4. ASSUME NEW b \in sent, Key(b) = Key(a) PROVE a.time - b.time >= Window
    <3>1. /\ lastSent[Key(a)] # Never /\ b.time <= lastSent[Key(a)]
          /\ lastSent[Key(a)] \in Int /\ b.time \in Int
      BY <1>1, <2>4, KeyType DEF IInv, TypeOK, Remembered, MaybeTime, Time
    <3>2. a.time - lastSent[Key(a)] >= Window
      BY <1>1, <1>3, <3>1 DEF Recent
    <3>3. QED
      BY <1>1, <3>1, <3>2
  <2>5. SentAreSpaced'
    BY <1>1, <2>1, <2>4 DEF IInv, SentAreSpaced
  <2>6. Remembered'
    <3>1. ASSUME NEW k \in Keys, lastSent'[k] # Never
          PROVE  \E b \in sent' : Key(b) = k /\ b.time = lastSent'[k]
      <4>1. CASE k = Key(a)
        BY <4>1, <1>1, <2>1 DEF IInv, TypeOK
      <4>2. CASE k # Key(a)
        BY <3>1, <4>2, <2>1 DEF IInv, TypeOK, Remembered
      <4>3. QED
        BY <4>1, <4>2
    <3>2. ASSUME NEW b \in sent'
          PROVE  lastSent'[Key(b)] # Never /\ b.time <= lastSent'[Key(b)]
      <4>1. b \in Alert /\ Key(b) \in Keys /\ b.time \in Int
        BY <1>1, <2>1, KeyType DEF IInv, TypeOK, Time
      <4>2. CASE Key(b) = Key(a)
        <5>1. lastSent'[Key(b)] = a.time
          BY <4>2, <1>1, <2>1 DEF IInv, TypeOK
        <5>2. b.time <= a.time
          BY <4>1, <4>2, <1>1, <2>1, <2>4
        <5>3. QED
          BY <5>1, <5>2, <1>1
      <4>3. CASE Key(b) # Key(a)
        BY <4>1, <4>3, <1>1, <2>1 DEF IInv, TypeOK, Remembered
      <4>4. QED
        BY <4>2, <4>3
    <3>3. QED
      BY <1>1, <3>1, <3>2 DEF IInv, Remembered
  <2>7. Answered' /\ EveryAlertIsHeard'
    BY <1>1, <2>1 DEF IInv, Answered, EveryAlertIsHeard
  <2>8. QED
    BY <2>2, <2>3, <2>5, <2>6, <2>7 DEF IInv
<1>4. QED
  BY <1>2, <1>3

(* An alert whose deliveries have started answers for itself. *)
LEMMA SpawnPreserves ==
    ASSUME IInv, NEW a \in alert, Spawn(a)
    PROVE  IInv'
<1> USE BoundsAssumption, WindowsAssumption
<1>1. /\ a \in Alert /\ alert = {a} /\ a \in sent /\ stage' = "idle" /\ alert' = {}
      /\ UNCHANGED <<lastAlert, lastSent, count, raised, published, sent>>
      /\ a.time \in Int
  BY KeyType DEF Spawn, IInv, TypeOK, InHand, Time
<1>2. TypeOK'
  <2>1. {[alert |-> a, route |-> r] : r \in {q \in targets : Matches(q, a)}} \subseteq Delivery
    BY <1>1 DEF Delivery, IInv, TypeOK
  <2>2. late' \in [Routes -> Nat]
    BY DEF Spawn, IInv, TypeOK
  <2>3. inflight' \subseteq Delivery /\ tried' \subseteq Delivery
    BY <2>1 DEF Spawn, IInv, TypeOK
  <2>4. QED
    BY <1>1, <2>2, <2>3 DEF Spawn, IInv, TypeOK
<1>3. InHand' /\ Numbered' /\ Remembered' /\ SentAreSpaced'
  BY <1>1 DEF IInv, InHand, Numbered, Remembered, SentAreSpaced
<1>4. a.time - a.time < Window /\ a.time - a.time < Window + Brief
  BY <1>1
<1>5. Answered' /\ EveryAlertIsHeard'
  BY <1>1, <1>4 DEF IInv, Answered, EveryAlertIsHeard
<1>6. QED
  BY <1>2, <1>3, <1>5 DEF IInv

LEMMA NextPreserves == IInv /\ [Next]_vars => IInv'
<1> SUFFICES ASSUME IInv, [Next]_vars PROVE IInv'
  OBVIOUS
<1>1. CASE \E s \in Subjects, t \in Time : PublishAlert(s, t)
  BY <1>1, PublishPreserves
<1>2. CASE \E a \in alert : Dispatch(a)
  BY <1>2, DispatchPreserves
<1>3. CASE \E a \in alert : Spawn(a)
  BY <1>3, SpawnPreserves
<1>4. ASSUME NEW d \in inflight, Deliver(d) PROVE IInv'
  <2>1. TypeOK'
    BY <1>4 DEF Deliver, IInv, TypeOK
  <2>2. QED
    BY <1>4, <2>1, Frame DEF Deliver
<1>5. ASSUME NEW d \in inflight, Fail(d) PROVE IInv'
  <2>1. TypeOK'
    BY <1>5 DEF Fail, CountsFailed, IInv, TypeOK
  <2>2. QED
    BY <1>5, <2>1, Frame DEF Fail
<1>6. ASSUME NEW table \in Tables, SetRoutes(table) PROVE IInv'
  <2>1. TypeOK'
    BY <1>6, TablesAssumption, BoundsAssumption DEF SetRoutes, IInv, TypeOK
  <2>2. QED
    BY <1>6, <2>1, Frame DEF SetRoutes
<1>7. CASE UNCHANGED vars
  <2>1. TypeOK'
    BY <1>7 DEF vars, IInv, TypeOK
  <2>2. QED
    BY <1>7, <2>1, Frame DEF vars
<1>8. QED
  BY <1>1, <1>2, <1>3, <1>4, <1>5, <1>6, <1>7 DEF Next

LEMMA Invariance == Spec => []IInv
<1>1. Init => IInv
  BY InitEstablishes
<1>2. IInv /\ [Next]_vars => IInv'
  BY NextPreserves
<1>3. QED
  BY <1>1, <1>2, PTL DEF Spec

-----------------------------------------------------------------------------
(* Every variable keeps its type. *)
THEOREM TypeCorrect == Spec => []TypeOK
<1>1. IInv => TypeOK
  BY DEF IInv
<1>2. QED
  BY <1>1, Invariance, PTL

(* Whatever order the events arrive in, the sinks are not sent two alerts  *)
(* of one kind and title whose times lie within the window.                *)
THEOREM Deduplicates == Spec => []SentAreSpaced
<1>1. IInv => SentAreSpaced
  BY DEF IInv
<1>2. QED
  BY <1>1, Invariance, PTL

(* The two suppressions, one behind the other, silence an alert for less   *)
(* than the sum of their windows.                                          *)
THEOREM NothingIsSilenced == Spec => []EveryAlertIsHeard
<1>1. IInv => EveryAlertIsHeard
  BY DEF IInv
<1>2. QED
  BY <1>1, Invariance, PTL

-----------------------------------------------------------------------------
(* The counters.  An alert is delivered from once it is sent, and once; so *)
(* the deliveries of a Spawn are new ones.                                 *)
Counted ==
    /\ IsFiniteSet(routes) /\ IsFiniteSet(targets)
    /\ IsFiniteSet(inflight) /\ IsFiniteSet(tried)
    /\ IsFiniteSet(sent) /\ IsFiniteSet(published)
    /\ inflight \subseteq tried
    /\ \A d \in tried : d.alert \in sent /\ (stage = "spawn" => d.alert \notin alert)
    /\ StatsAddUp

(* The deliveries of an alert are as many as there are routes at most. *)
LEMMA StartedFinite ==
    ASSUME NEW S, IsFiniteSet(S), NEW a
    PROVE  IsFiniteSet({[alert |-> a, route |-> r] : r \in S})
<1> DEFINE T == {[alert |-> a, route |-> r] : r \in S}
           f == [r \in S |-> [alert |-> a, route |-> r]]
<1>1. f \in Surjection(S, T)
  BY DEF Surjection
<1>2. QED
  BY <1>1, FS_Surjection

LEMMA CountDisjoint ==
    ASSUME NEW S, IsFiniteSet(S), NEW T, IsFiniteSet(T), S \cap T = {}
    PROVE  /\ IsFiniteSet(S \cup T)
           /\ Cardinality(S \cup T) = Cardinality(S) + Cardinality(T)
<1>1. Cardinality(S) \in Nat /\ Cardinality(T) \in Nat /\ Cardinality(S \cap T) = 0
  BY FS_CardinalityType, FS_EmptySet
<1>2. /\ IsFiniteSet(S \cup T)
      /\ Cardinality(S \cup T) = Cardinality(S) + Cardinality(T) - Cardinality(S \cap T)
  BY FS_Union
<1>3. QED
  BY <1>1, <1>2

LEMMA InitCounted == Init => Counted
BY FS_EmptySet DEF Init, Counted, StatsAddUp

LEMMA NextCounted == IInv /\ Counted /\ [Next]_vars => Counted'
<1> SUFFICES ASSUME IInv, Counted, [Next]_vars PROVE Counted'
  OBVIOUS
<1> USE DEF Counted
<1>0. /\ delivered \in Nat /\ failed \in Nat /\ suppressed \in Nat
      /\ Cardinality(inflight) \in Nat /\ Cardinality(tried) \in Nat
      /\ Cardinality(sent) \in Nat /\ Cardinality(published) \in Nat
  BY FS_CardinalityType DEF IInv, TypeOK
<1>1. ASSUME NEW s \in Subjects, NEW t \in Time, PublishAlert(s, t) PROVE Counted'
  <2> DEFINE a == [n |-> count + 1, about |-> s, time |-> t]
  <2>1. /\ stage = "idle"
        /\ UNCHANGED <<routes, targets, inflight, delivered, suppressed, failed, sent, tried>>
    BY <1>1 DEF PublishAlert
  <2>2. CASE UNCHANGED <<published, stage, alert>>
    BY <2>1, <2>2 DEF StatsAddUp
  <2>3. CASE published' = published \cup {a} /\ stage' = "publish"
    <3>1. a \notin published
      <4>1. a.n = count + 1 /\ count \in Nat
        BY BoundsAssumption DEF IInv, TypeOK
      <4>2. QED
        BY <4>1 DEF IInv, Numbered
    <3>2. IsFiniteSet(published') /\ Cardinality(published') = Cardinality(published) + 1
      BY <2>3, <3>1, FS_AddElement
    <3>3. StatsAddUp'
      BY <1>0, <2>1, <2>3, <3>2 DEF StatsAddUp
    <3>4. QED
      BY <2>1, <2>3, <3>2, <3>3
  <2>4. QED
    BY <1>1, <2>2, <2>3 DEF PublishAlert
<1>2. ASSUME NEW a \in alert, Dispatch(a) PROVE Counted'
  <2>1. /\ stage = "publish" /\ a \notin sent /\ targets' = routes
        /\ UNCHANGED <<routes, inflight, delivered, failed, published, tried>>
    BY <1>2 DEF Dispatch, Table, IInv, InHand
  <2>2. CASE suppressed' = suppressed + 1 /\ stage' = "idle" /\ sent' = sent
    BY <1>0, <2>1, <2>2 DEF StatsAddUp
  <2>3. CASE /\ sent' = sent \cup {a} /\ stage' = "spawn"
             /\ suppressed' = suppressed /\ alert' = alert
    <3>1. IsFiniteSet(sent') /\ Cardinality(sent') = Cardinality(sent) + 1
      BY <2>1, <2>3, FS_AddElement
    <3>2. StatsAddUp'
      BY <1>0, <2>1, <2>3, <3>1 DEF StatsAddUp
    <3>3. \A d \in tried' : d.alert \in sent' /\ d.alert \notin alert'
      BY <2>1, <2>3 DEF IInv, InHand
    <3>4. QED
      BY <2>1, <2>3, <3>1, <3>2, <3>3
  <2>4. QED
    BY <1>2, <2>2, <2>3 DEF Dispatch
<1>3. ASSUME NEW a \in alert, Spawn(a) PROVE Counted'
  <2> DEFINE S == {q \in targets : Matches(q, a)}
             started == {[alert |-> a, route |-> r] : r \in S}
  <2>1. /\ stage = "spawn" /\ stage' = "idle" /\ a \in sent
        /\ inflight' = inflight \cup started /\ tried' = tried \cup started
        /\ UNCHANGED <<routes, targets, delivered, suppressed, failed, published, sent>>
    BY <1>3 DEF Spawn, IInv, InHand
  <2>2. IsFiniteSet(started)
    <3>1. IsFiniteSet(S)
      BY FS_Subset
    <3>2. QED
      BY <3>1, StartedFinite
  <2>3. \A d \in started : d.alert = a
    OBVIOUS
  <2> HIDE DEF started
  <2>4. tried \cap started = {} /\ inflight \cap started = {}
    BY <2>1, <2>3
  <2>5. Cardinality(started) \in Nat
    BY <2>2, FS_CardinalityType
  <2>6. /\ IsFiniteSet(tried') /\ Cardinality(tried') = Cardinality(tried) + Cardinality(started)
    BY <2>1, <2>2, <2>4, CountDisjoint
  <2>7. /\ IsFiniteSet(inflight')
        /\ Cardinality(inflight') = Cardinality(inflight) + Cardinality(started)
    BY <2>1, <2>2, <2>4, CountDisjoint
  <2>8. StatsAddUp'
    BY <1>0, <2>1, <2>5, <2>6, <2>7 DEF StatsAddUp
  <2>9. QED
    BY <2>1, <2>3, <2>6, <2>7, <2>8
<1>4. ASSUME NEW d \in inflight, inflight' = inflight \ {d},
             delivered' + failed' = delivered + failed + 1,
             UNCHANGED <<routes, stage, alert, targets, suppressed, published, sent, tried>>
      PROVE  Counted'
  <2>1. IsFiniteSet(inflight') /\ Cardinality(inflight') = Cardinality(inflight) - 1
    BY <1>4, FS_RemoveElement
  <2>2. StatsAddUp'
    BY <1>0, <1>4, <2>1 DEF StatsAddUp
  <2>3. QED
    BY <1>4, <2>1, <2>2
<1>5. ASSUME NEW d \in inflight, Deliver(d) \/ Fail(d) PROVE Counted'
  <2>1. delivered' + failed' = delivered + failed + 1
    BY <1>0, <1>5 DEF Deliver, Fail, CountsFailed
  <2>2. QED
    BY <1>4, <1>5, <2>1 DEF Deliver, Fail, CountsFailed
<1>6. ASSUME NEW table \in Tables, SetRoutes(table) PROVE Counted'
  BY <1>6, TablesAssumption DEF SetRoutes, StatsAddUp
<1>7. CASE UNCHANGED vars
  BY <1>7 DEF vars, StatsAddUp
<1>8. QED
  BY <1>1, <1>2, <1>3, <1>5, <1>6, <1>7 DEF Next

(* The router's counters and the goroutines still running account for      *)
(* every delivery that was started and every alert that was published.     *)
THEOREM CountersAddUp == Spec => []StatsAddUp
<1>1. Counted => StatsAddUp
  BY DEF Counted
<1>2. QED
  BY <1>1, InitCounted, NextCounted, Invariance, PTL DEF Spec

-----------------------------------------------------------------------------
(* A route that is in the table, or in the copy a Dispatch works with, has *)
(* been sent nothing since it left.                                        *)
OneMoreAtMost ==
    \A r \in Routes : /\ late[r] \in 0 .. 1
                      /\ r \in routes \/ (stage = "spawn" /\ r \in targets) => late[r] = 0

LEMMA NextOneMore == IInv /\ OneMoreAtMost /\ [Next]_vars => OneMoreAtMost'
<1> SUFFICES ASSUME IInv, OneMoreAtMost, [Next]_vars, NEW r \in Routes
             PROVE  /\ late'[r] \in 0 .. 1
                    /\ r \in routes' \/ (stage' = "spawn" /\ r \in targets') => late'[r] = 0
  BY DEF OneMoreAtMost
<1>0. /\ late[r] \in 0 .. 1
      /\ r \in routes \/ (stage = "spawn" /\ r \in targets) => late[r] = 0
  BY DEF OneMoreAtMost
<1>1. ASSUME NEW s \in Subjects, NEW t \in Time, PublishAlert(s, t)
      PROVE  UNCHANGED <<routes, late>> /\ stage' # "spawn"
  BY <1>1 DEF PublishAlert
<1>2. ASSUME NEW a \in alert, Dispatch(a) PROVE UNCHANGED <<routes, late>> /\ targets' = routes
  BY <1>2 DEF Dispatch, Table
<1>3. ASSUME NEW a \in alert, Spawn(a)
      PROVE  late'[r] \in 0 .. 1 /\ stage' = "idle" /\ (r \in routes' => late'[r] = 0)
  <2> DEFINE started == {[alert |-> a, route |-> q] : q \in {q \in targets : Matches(q, a)}}
  <2>1. /\ stage = "spawn" /\ stage' = "idle" /\ routes' = routes
        /\ late'[r] = IF r \in routes \/ ~(\E d \in started : d.route = r)
                      THEN late[r] ELSE late[r] + 1
    BY <1>3 DEF Spawn
  <2>2. (\E d \in started : d.route = r) => r \in targets
    OBVIOUS
  <2>3. QED
    BY <1>0, <2>1, <2>2
<1>4. ASSUME NEW d \in inflight, Deliver(d) \/ Fail(d)
      PROVE  UNCHANGED <<routes, stage, targets, late>>
  BY <1>4 DEF Deliver, Fail
<1>5. ASSUME NEW table \in Tables, SetRoutes(table)
      PROVE  /\ late'[r] = IF r \in routes \cup table THEN 0 ELSE late[r]
             /\ routes' = table /\ UNCHANGED <<stage, targets>>
  BY <1>5 DEF SetRoutes
<1>6. QED
  BY <1>0, <1>1, <1>2, <1>3, <1>4, <1>5 DEF Next, vars

(* However the table changes while an alert is under way, a route that was *)
(* taken out is sent one alert more at most.                               *)
THEOREM RemovedRoutesGoQuiet == Spec => []RemovedGetsOneMore
<1>1. Init => OneMoreAtMost
  BY DEF Init, OneMoreAtMost
<1>2. OneMoreAtMost => RemovedGetsOneMore
  BY DEF OneMoreAtMost, RemovedGetsOneMore
<1>3. QED
  BY <1>1, <1>2, NextOneMore, Invariance, PTL DEF Spec
-----------------------------------------------------------------------------
(* The refinement.  What is due and what has ended, by step.               *)
Due == tried \cup Pending
Ended == tried \ inflight

(* A step that is none of the router's. *)
LEMMA OtherSteps ==
    ASSUME UNCHANGED <<tried, inflight, targets>>, stage # "spawn", stage' # "spawn"
    PROVE  Due' = Due /\ Ended' = Ended
BY DEF Due, Ended, Pending

(* An alert that gets past the window is one that was raised, was not let  *)
(* through before, is apart from all that were, and becomes due to the     *)
(* routes of the table that want it.                                       *)
LEMMA DispatchIsNotice ==
    ASSUME IInv, IInv', NEW a \in alert, Dispatch(a)
    PROVE  (a \in raised /\ Notices!LetThrough(a)) \/ UNCHANGED Notices!vars
<1>1. /\ stage = "publish" /\ alert = {a} /\ a \in Alert /\ a \in raised \ sent
      /\ targets' = routes /\ UNCHANGED <<routes, raised, tried, inflight>>
  BY DEF Dispatch, Table, IInv, TypeOK, InHand, Numbered
<1>2. CASE sent' = sent /\ stage' = "idle"
  BY <1>1, <1>2 DEF Notices!vars, Pending
<1>3. CASE sent' = sent \cup {a} /\ stage' = "spawn" /\ alert' = alert
  <2>1. Pending = {} /\ Pending' = {d \in [alert : {a}, route : routes] : Matches(d.route, d.alert)}
    BY <1>1, <1>3 DEF Pending
  <2>2. routes \subseteq Routes
    BY DEF IInv, TypeOK
  <2>3. Pending' = [alert : {a}, route : routes] \cap Wanted
    BY <1>1, <2>1, <2>2 DEF Wanted, Delivery
  <2>4. Due' = Due \cup ([alert : {a}, route : routes] \cap Wanted) /\ Ended' = Ended
    BY <1>1, <2>1, <2>3 DEF Due, Ended
  <2>5. ASSUME NEW b \in sent PROVE Notices!Apart(a, b)
    <3>1. a \in sent' /\ b \in sent' /\ b \in Alert /\ b # a
      BY <1>1, <1>3 DEF IInv, TypeOK
    <3>2. a.n # b.n
      BY <1>1, <3>1 DEF IInv, Numbered
    <3>3. Key(a) = Key(b) => a.time - b.time >= Window \/ b.time - a.time >= Window
      BY <3>1, <3>2 DEF IInv, SentAreSpaced
    <3>4. AlertKeys[a] = Key(a) /\ AlertKeys[b] = Key(b)
      BY <1>1, <3>1 DEF AlertKeys
    <3>5. QED
      BY <3>3, <3>4 DEF Notices!Apart
  <2>6. QED
    BY <1>1, <1>3, <2>4, <2>5 DEF Notices!LetThrough, Due, Ended
<1>4. QED
  BY <1>2, <1>3 DEF Dispatch

(* The goroutines that start were due already. *)
LEMMA SpawnIsSilent ==
    ASSUME IInv, Counted, NEW a \in alert, Spawn(a)
    PROVE  UNCHANGED Notices!vars
<1> DEFINE started == {[alert |-> a, route |-> r] : r \in {q \in targets : Matches(q, a)}}
<1>1. /\ stage = "spawn" /\ stage' = "idle" /\ alert = {a}
      /\ tried' = tried \cup started /\ inflight' = inflight \cup started
      /\ UNCHANGED <<routes, raised, sent>>
  BY DEF Spawn, IInv, InHand
<1>2. Pending = started /\ Pending' = {}
  BY <1>1 DEF Pending
<1>3. \A d \in started : d.alert = a
  OBVIOUS
<1> HIDE DEF started
<1>4. Due' = Due
  BY <1>1, <1>2 DEF Due
<1>5. tried \cap started = {}
  BY <1>1, <1>3 DEF Counted
<1>6. Ended' = Ended
  BY <1>1, <1>5 DEF Ended
<1>7. QED
  BY <1>1, <1>4, <1>6 DEF Notices!vars, Due, Ended

LEMMA StepIsNotice ==
    IInv /\ IInv' /\ Counted /\ [Next]_vars => [Notices!Next]_(Notices!vars)
<1> SUFFICES ASSUME IInv, IInv', Counted, [Next]_vars PROVE Notices!Next \/ UNCHANGED Notices!vars
  OBVIOUS
<1>1. ASSUME NEW s \in Subjects, NEW t \in Time, PublishAlert(s, t) PROVE Notices!Raise
  <2> DEFINE a == [n |-> count + 1, about |-> s, time |-> t]
  <2>1. /\ a \in Alert /\ a.n = count + 1 /\ count \in Nat
        /\ stage # "spawn" /\ stage' # "spawn" /\ raised' = raised \cup {a}
        /\ UNCHANGED <<routes, sent, tried, inflight, targets>>
    BY <1>1, BoundsAssumption DEF PublishAlert, IInv, TypeOK, Alert
  <2>2. \A b \in raised : a.n # b.n
    BY <2>1, KeyType DEF IInv, TypeOK, Numbered
  <2>3. Due' = Due /\ Ended' = Ended
    BY <2>1, OtherSteps
  <2>4. raised' # raised
    BY <2>1, <2>2
  <2>5. QED
    BY <2>1, <2>2, <2>3, <2>4 DEF Notices!Raise, Due, Ended
<1>2. ASSUME NEW a \in alert, Dispatch(a) PROVE Notices!Next \/ UNCHANGED Notices!vars
  BY <1>2, DispatchIsNotice DEF Notices!Next
<1>3. ASSUME NEW a \in alert, Spawn(a) PROVE UNCHANGED Notices!vars
  BY <1>3, SpawnIsSilent
<1>4. ASSUME NEW d \in inflight, Deliver(d) \/ Fail(d) PROVE Notices!Next
  <2>1. /\ inflight' = inflight \ {d} /\ d \in tried
        /\ UNCHANGED <<routes, raised, sent, tried, targets, stage, alert>>
    BY <1>4 DEF Deliver, Fail, Counted
  <2>2. Due' = Due /\ Ended' = Ended \cup {d} /\ d \in Due \ Ended
    BY <2>1 DEF Due, Ended, Pending
  <2>3. Notices!End(d)
    BY <2>1, <2>2 DEF Notices!End, Due, Ended
  <2>4. QED
    BY <2>2, <2>3 DEF Notices!Next, Due, Ended
<1>5. ASSUME NEW table \in Tables, SetRoutes(table) PROVE Notices!Configure
  <2>1. routes' = table /\ UNCHANGED <<raised, sent, tried, inflight, targets, stage, alert>>
    BY <1>5 DEF SetRoutes
  <2>2. QED
    BY <2>1 DEF Notices!Configure, Pending
<1>6. CASE UNCHANGED vars
  BY <1>6 DEF vars, Notices!vars, Pending
<1>7. QED
  BY <1>1, <1>2, <1>3, <1>4, <1>5, <1>6 DEF Next, Notices!Next

(* The goroutines between Dispatch and the sinks cannot be told from       *)
(* deliveries that become due in one step: to the routes in the table when *)
(* the alert got past the window, to those that want it, once each.        *)
THEOREM RouterIsNotices == Spec => ImplementsNotices
<1>1. Init => Notices!Init
  BY DEF Init, Notices!Init, Pending
<1>2. QED
  BY <1>1, StepIsNotice, InitCounted, NextCounted, Invariance, PTL
     DEF Spec, ImplementsNotices, Notices!Spec
=============================================================================
