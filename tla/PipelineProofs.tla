-------------------------- MODULE PipelineProofs --------------------------
(***************************************************************************)
(* Theorems about Pipeline, for any number of clients and events and any   *)
(* capacities.                                                             *)
(*                                                                         *)
(* An event is in one place on its way: all that a client was written is   *)
(* older than all that waits in its buffer, that is older than all in the  *)
(* channel, and nothing there is newer than the agent's last event.  Each  *)
(* place is in order, and a place only passes on its oldest or drops what  *)
(* it was offered.                                                         *)
(***************************************************************************)
EXTENDS Pipeline, TLAPS

Ascends(s) == \A i, j \in DOMAIN s : i < j => s[i] < s[j]
Precedes(s, t) == \A i \in DOMAIN s, j \in DOMAIN t : s[i] < t[j]
UpTo(s, n) == \A i \in DOMAIN s : s[i] <= n

(* What is on the way to a client. *)
WayInOrder(c) ==
    /\ Ascends(got[c]) /\ Ascends(buf[c])
    /\ Precedes(got[c], buf[c]) /\ Precedes(got[c], chan) /\ Precedes(buf[c], chan)
    /\ UpTo(got[c], agent) /\ UpTo(buf[c], agent)
ChannelInOrder == Ascends(chan) /\ UpTo(chan, agent)

IInv == TypeOK /\ ChannelInOrder /\ \A c \in Clients : WayInOrder(c)

NumSeq == Seq(Nat)

-----------------------------------------------------------------------------
(* The first of a sequence goes, and precedes the rest. *)
LEMMA TailFacts ==
    ASSUME NEW s \in NumSeq, s # <<>>
    PROVE  /\ Head(s) = s[1] /\ 1 \in DOMAIN s /\ Head(s) \in Nat
           /\ Tail(s) \in NumSeq /\ Len(Tail(s)) = Len(s) - 1
           /\ \A i \in DOMAIN Tail(s) : i + 1 \in DOMAIN s /\ Tail(s)[i] = s[i + 1]
<1>1. Len(s) \in Nat /\ Len(s) >= 1 /\ DOMAIN s = 1 .. Len(s)
  BY DEF NumSeq
<1>2. Tail(s) \in NumSeq /\ Len(Tail(s)) = Len(s) - 1 /\ DOMAIN Tail(s) = 1 .. Len(s) - 1
  BY <1>1 DEF NumSeq
<1>3. \A i \in 1 .. Len(s) - 1 : Tail(s)[i] = s[i + 1]
  BY <1>1 DEF NumSeq
<1>4. Head(s) = s[1] /\ s[1] \in Nat
  BY <1>1 DEF NumSeq
<1>5. QED
  BY <1>1, <1>2, <1>3, <1>4

(* What is added at the end. *)
LEMMA AppendFacts ==
    ASSUME NEW s \in NumSeq, NEW n \in Nat, NEW t, t = Append(s, n)
    PROVE  /\ t \in NumSeq
           /\ DOMAIN t = DOMAIN s \cup {Len(s) + 1}
           /\ t[Len(s) + 1] = n
           /\ \A i \in DOMAIN s : i < Len(s) + 1 /\ t[i] = s[i]
BY DEF NumSeq

LEMMA TailInOrder ==
    ASSUME NEW s \in NumSeq, s # <<>>, Ascends(s)
    PROVE  Ascends(Tail(s)) /\ \A i \in DOMAIN Tail(s) : Head(s) < Tail(s)[i]
<1> DEFINE t == Tail(s)
<1>1. /\ Head(s) = s[1] /\ 1 \in DOMAIN s
      /\ \A i \in DOMAIN t : i \in Nat \ {0} /\ i + 1 \in DOMAIN s /\ t[i] = s[i + 1]
  <2>1. t \in NumSeq
    BY TailFacts
  <2>2. \A i \in DOMAIN t : i \in Nat \ {0}
    BY <2>1 DEF NumSeq
  <2>3. QED
    BY <2>2, TailFacts
<1>2. ASSUME NEW i \in DOMAIN t, NEW j \in DOMAIN t, i < j PROVE t[i] < t[j]
  BY <1>1, <1>2 DEF Ascends
<1>3. ASSUME NEW i \in DOMAIN t PROVE Head(s) < t[i]
  BY <1>1 DEF Ascends
<1>4. QED
  BY <1>2, <1>3 DEF Ascends

LEMMA AppendInOrder ==
    ASSUME NEW s \in NumSeq, NEW n \in Nat, NEW t, t = Append(s, n),
           Ascends(s), \A i \in DOMAIN s : s[i] < n
    PROVE  Ascends(t)
<1> SUFFICES ASSUME NEW i \in DOMAIN t, NEW j \in DOMAIN t, i < j PROVE t[i] < t[j]
  BY DEF Ascends
<1>1. /\ DOMAIN t = DOMAIN s \cup {Len(s) + 1} /\ t[Len(s) + 1] = n
      /\ \A k \in DOMAIN s : k < Len(s) + 1 /\ t[k] = s[k]
  BY AppendFacts
<1>2. Len(s) \in Nat /\ \A k \in DOMAIN s : k \in Nat
  BY DEF NumSeq
<1>3. i \in DOMAIN s
  BY <1>1, <1>2
<1>4. CASE j \in DOMAIN s
  BY <1>1, <1>3, <1>4 DEF Ascends
<1>5. CASE j = Len(s) + 1
  BY <1>1, <1>3, <1>5
<1>6. QED
  BY <1>1, <1>4, <1>5

-----------------------------------------------------------------------------
(* The types, source and hub apart. *)
LEMMA Typed ==
    ASSUME TypeOK
    PROVE  /\ chan \in NumSeq /\ agent \in Nat
           /\ \A c \in Clients : got[c] \in NumSeq /\ buf[c] \in NumSeq
BY CapacitiesAssumption
   DEF TypeOK, Source!TypeOK, Source!Event, Hub!HubTypeOK, NumSeq

LEMMA SourceTyped ==
    ASSUME Source!TypeOK, Source!Step
    PROVE  Source!TypeOK'
<1> USE CapacitiesAssumption DEF Source!TypeOK
<1>1. CASE Source!Open
  BY <1>1 DEF Source!Open
<1>2. CASE Source!Interrupted
  BY <1>2 DEF Source!Interrupted, Source!AfterError
<1>3. CASE Source!Waited
  BY <1>3 DEF Source!Waited, Source!NextBackoff
<1>4. CASE Source!WaitCancelled
  BY <1>4 DEF Source!WaitCancelled
<1>5. CASE Source!Recv
  <2>1. agent + 1 \in Source!Event /\ agent + 1 \in 0 .. MaxEvents
    BY <1>5 DEF Source!Recv, Source!Event
  <2>2. chan' \in Seq(Source!Event) /\ Len(chan') <= ChanCap
    BY <1>5, <2>1 DEF Source!Recv
  <2>3. QED
    BY <1>5, <2>1, <2>2 DEF Source!Recv
<1>6. CASE Source!RecvCancelled
  BY <1>6 DEF Source!RecvCancelled
<1>7. CASE Source!Unseen
  BY <1>7 DEF Source!Unseen, Source!Passes
<1>8. CASE Source!Cancel
  BY <1>8 DEF Source!Cancel
<1>9. QED
  BY <1>1, <1>2, <1>3, <1>4, <1>5, <1>6, <1>7, <1>8 DEF Source!Step

LEMMA HubTyped ==
    ASSUME Hub!HubTypeOK, NEW c \in Clients, Hub!Serve(c)
    PROVE  Hub!HubTypeOK'
<1> USE DEF Hub!HubTypeOK, Hub!Goto
<1>1. CASE Hub!Upgrade(c)
  BY <1>1 DEF Hub!Upgrade
<1>2. CASE Hub!Add(c)
  BY <1>2 DEF Hub!Add
<1>3. CASE Hub!WriteOK(c)
  <2>1. /\ Tail(buf[c]) \in Seq(1 .. MaxEvents) /\ Len(Tail(buf[c])) <= BufCap
        /\ Append(got[c], Head(buf[c])) \in Seq(1 .. MaxEvents)
    BY <1>3, CapacitiesAssumption DEF Hub!WriteOK
  <2>2. QED
    BY <1>3, <2>1 DEF Hub!WriteOK
<1>4. CASE Hub!WriteFails(c)
  <2>1. Tail(buf[c]) \in Seq(1 .. MaxEvents) /\ Len(Tail(buf[c])) <= BufCap
    BY <1>4, CapacitiesAssumption DEF Hub!WriteFails
  <2>2. QED
    BY <1>4, <2>1 DEF Hub!WriteFails, Hub!AfterWriteError
<1>5. CASE Hub!PingFails(c)
  BY <1>5 DEF Hub!PingFails, Hub!AfterWriteError
<1>6. CASE Hub!Remove(c)
  BY <1>6 DEF Hub!Remove
<1>7. CASE Hub!Hangup(c)
  BY <1>7 DEF Hub!Hangup
<1>8. QED
  BY <1>1, <1>2, <1>3, <1>4, <1>5, <1>6, <1>7 DEF Hub!Serve

(* Each subscriber is offered the message. *)
LEMMA PublishTyped ==
    ASSUME Hub!HubTypeOK, NEW m \in 1 .. MaxEvents, Hub!Publish(m)
    PROVE  Hub!HubTypeOK'
<1> USE DEF Hub!HubTypeOK
<1>1. ASSUME NEW c \in Clients
      PROVE  Hub!Offer(buf[c], m) \in Seq(1 .. MaxEvents) /\ Len(Hub!Offer(buf[c], m)) <= BufCap
  <2>1. buf[c] \in Seq(1 .. MaxEvents) /\ Len(buf[c]) <= BufCap
    OBVIOUS
  <2>2. CASE Len(buf[c]) < BufCap
    <3>1. /\ Append(buf[c], m) \in Seq(1 .. MaxEvents)
          /\ Len(Append(buf[c], m)) = Len(buf[c]) + 1 /\ Len(buf[c]) \in Nat
      BY <2>1
    <3>2. QED
      BY <2>2, <3>1, CapacitiesAssumption DEF Hub!Offer
  <2>3. CASE ~(Len(buf[c]) < BufCap)
    BY <2>1, <2>3 DEF Hub!Offer
  <2>4. QED
    BY <2>2, <2>3
<1>2. QED
  BY <1>1 DEF Hub!Publish

-----------------------------------------------------------------------------
(* A step of the source offers the channel what is newer than all there    *)
(* was, or leaves it alone.                                                *)
LEMMA SourceKeeps ==
    ASSUME IInv, Source!Step, UNCHANGED <<hub, agg>>
    PROVE  IInv'
<1>1. TypeOK'
  <2>1. Source!TypeOK'
    BY SourceTyped DEF IInv, TypeOK
  <2>2. Hub!HubTypeOK'
    BY DEF IInv, TypeOK, hub, Hub!HubTypeOK
  <2>3. QED
    BY <2>1, <2>2 DEF IInv, TypeOK
<1>2. /\ chan \in NumSeq /\ agent \in Nat
      /\ \A c \in Clients : got[c] \in NumSeq /\ buf[c] \in NumSeq
  BY Typed DEF IInv
<1>3. /\ got' = got /\ buf' = buf /\ agent' \in {agent, agent + 1}
      /\ chan' = chan \/ (chan' = Append(chan, agent + 1) /\ agent' = agent + 1)
  BY DEF hub, Source!Step, Source!Open, Source!Interrupted, Source!Waited,
         Source!WaitCancelled, Source!Recv, Source!RecvCancelled, Source!Unseen,
         Source!Passes, Source!Cancel
<1>4. ASSUME NEW s \in NumSeq, UpTo(s, agent)
      PROVE  UpTo(s, agent') /\ \A i \in DOMAIN s : s[i] < agent + 1
  <2>1. \A i \in DOMAIN s : s[i] \in Nat
    BY DEF NumSeq
  <2>2. QED
    BY <1>2, <1>3, <1>4, <2>1 DEF UpTo
<1>5. CASE chan' = chan
  BY <1>1, <1>2, <1>3, <1>4, <1>5 DEF IInv, ChannelInOrder, WayInOrder
<1>6. CASE chan' = Append(chan, agent + 1) /\ agent' = agent + 1
  <2>1. \A i \in DOMAIN chan : chan[i] < agent + 1
    BY <1>2, <1>4 DEF IInv, ChannelInOrder
  <2>2. Ascends(chan')
    <3>1. Ascends(chan) /\ agent + 1 \in Nat
      BY <1>2 DEF IInv, ChannelInOrder
    <3>2. QED
      BY <1>2, <1>6, <2>1, <3>1, AppendInOrder
  <2>3. /\ DOMAIN chan' = DOMAIN chan \cup {Len(chan) + 1}
        /\ chan'[Len(chan) + 1] = agent + 1
        /\ \A i \in DOMAIN chan : chan'[i] = chan[i]
    BY <1>2, <1>6, AppendFacts
  <2>4. UpTo(chan', agent')
    BY <1>2, <1>6, <2>1, <2>3, <1>4 DEF UpTo, IInv, ChannelInOrder
  <2>5. ASSUME NEW s \in NumSeq, UpTo(s, agent), Precedes(s, chan)
        PROVE  Precedes(s, chan')
    BY <2>3, <2>5, <1>4 DEF Precedes
  <2>6. \A c \in Clients : WayInOrder(c)'
    BY <1>2, <1>3, <1>4, <2>5 DEF IInv, WayInOrder
  <2>7. QED
    BY <1>1, <2>2, <2>4, <2>6 DEF IInv, ChannelInOrder
<1>7. QED
  BY <1>3, <1>5, <1>6

(* A handler takes the oldest of its buffer, and writes it or loses it. *)
LEMMA HubKeeps ==
    ASSUME IInv, NEW c \in Clients, Hub!Serve(c), UNCHANGED <<source, agg>>
    PROVE  IInv'
<1>1. TypeOK'
  <2>1. Hub!HubTypeOK'
    BY HubTyped DEF IInv, TypeOK
  <2>2. Source!TypeOK'
    BY DEF IInv, TypeOK, source, Source!TypeOK
  <2>3. QED
    BY <2>1, <2>2 DEF IInv, TypeOK
<1>2. /\ chan \in NumSeq /\ agent \in Nat /\ chan' = chan /\ agent' = agent
      /\ \A d \in Clients : got[d] \in NumSeq /\ buf[d] \in NumSeq
  BY Typed DEF IInv, source
<1>3. ChannelInOrder'
  BY <1>2 DEF IInv, ChannelInOrder
<1>4. CASE UNCHANGED <<buf, got>>
  BY <1>1, <1>2, <1>3, <1>4 DEF IInv, WayInOrder
<1>5. CASE Hub!WriteOK(c) \/ Hub!WriteFails(c)
  <2> DEFINE q == buf[c]
             g == got[c]
  <2>1. /\ q # <<>> /\ buf' = [buf EXCEPT ![c] = Tail(q)]
        /\ got' = got \/ got' = [got EXCEPT ![c] = Append(g, Head(q))]
    BY <1>5 DEF Hub!WriteOK, Hub!WriteFails
  <2>2. /\ DOMAIN buf = Clients /\ DOMAIN got = Clients
        /\ buf \in [Clients -> Seq(1 .. MaxEvents)] /\ got \in [Clients -> Seq(1 .. MaxEvents)]
    BY DEF IInv, TypeOK, Hub!HubTypeOK
  <2>3. buf'[c] = Tail(q) /\ (got'[c] = g \/ got'[c] = Append(g, Head(q)))
    BY <2>1, <2>2
  <2>4. /\ q \in NumSeq /\ g \in NumSeq /\ Ascends(q) /\ Ascends(g)
        /\ Precedes(g, q) /\ Precedes(g, chan) /\ Precedes(q, chan)
        /\ UpTo(g, agent) /\ UpTo(q, agent)
    BY <1>2 DEF IInv, WayInOrder
  <2>5. /\ Tail(q) \in NumSeq /\ Ascends(Tail(q))
        /\ \A i \in DOMAIN Tail(q) : Head(q) < Tail(q)[i]
        /\ Head(q) = q[1] /\ 1 \in DOMAIN q /\ Head(q) \in Nat
        /\ \A i \in DOMAIN Tail(q) : i + 1 \in DOMAIN q /\ Tail(q)[i] = q[i + 1]
    BY <2>1, <2>4, TailFacts, TailInOrder
  <2>6. Precedes(g, Tail(q)) /\ Precedes(Tail(q), chan) /\ UpTo(Tail(q), agent)
    BY <2>4, <2>5 DEF Precedes, UpTo
  <2>7. WayInOrder(c)'
    <3>1. CASE got'[c] = g
      BY <1>2, <2>3, <2>4, <2>5, <2>6, <3>1 DEF WayInOrder
    <3>2. CASE got'[c] = Append(g, Head(q))
      <4> DEFINE h == Append(g, Head(q))
      <4>1. \A i \in DOMAIN g : g[i] < Head(q)
        BY <2>4, <2>5 DEF Precedes
      <4>2. Ascends(h)
        BY <2>4, <2>5, <4>1, AppendInOrder
      <4>3. /\ DOMAIN h = DOMAIN g \cup {Len(g) + 1} /\ h[Len(g) + 1] = Head(q)
            /\ \A i \in DOMAIN g : h[i] = g[i]
        BY <2>4, <2>5, AppendFacts
      <4>4. Precedes(h, Tail(q))
        BY <2>5, <2>6, <4>3 DEF Precedes
      <4>5. Precedes(h, chan)
        BY <2>4, <2>5, <4>3 DEF Precedes
      <4>6. UpTo(h, agent)
        BY <2>4, <2>5, <4>3 DEF UpTo
      <4>7. QED
        BY <1>2, <2>3, <2>5, <2>6, <3>2, <4>2, <4>4, <4>5, <4>6 DEF WayInOrder
    <3>3. QED
      BY <2>3, <3>1, <3>2
  <2>8. ASSUME NEW d \in Clients, d # c PROVE WayInOrder(d)'
    <3>1. buf'[d] = buf[d] /\ got'[d] = got[d]
      BY <2>1, <2>2, <2>8
    <3>2. QED
      BY <1>2, <3>1 DEF IInv, WayInOrder
  <2>9. QED
    BY <1>1, <1>3, <2>7, <2>8 DEF IInv
<1>6. QED
  BY <1>4, <1>5 DEF Hub!Serve, Hub!Upgrade, Hub!Add, Hub!PingFails, Hub!Remove, Hub!Hangup

(* The oldest of the channel is newer than all that clients have or wait   *)
(* for.                                                                    *)
LEMMA IngestKeeps ==
    ASSUME IInv, Ingest
    PROVE  IInv'
<1> DEFINE m == Head(chan)
<1>1. /\ chan \in NumSeq /\ chan # <<>> /\ agent \in Nat /\ agent' = agent
      /\ chan' = Tail(chan) /\ got' = got
      /\ \A c \in Clients : got[c] \in NumSeq /\ buf[c] \in NumSeq
  BY Typed DEF IInv, Ingest, Hub!Publish
<1>2. m \in 1 .. MaxEvents /\ Tail(chan) \in Seq(1 .. MaxEvents) /\ Len(Tail(chan)) <= ChanCap
  BY <1>1, CapacitiesAssumption DEF IInv, TypeOK, Source!TypeOK, Source!Event
<1>3. TypeOK'
  <2>1. Hub!HubTypeOK'
    BY <1>2, PublishTyped DEF IInv, TypeOK, Ingest
  <2>2. Source!TypeOK'
    BY <1>1, <1>2 DEF IInv, TypeOK, Source!TypeOK, Source!Event, Ingest
  <2>3. QED
    BY <2>1, <2>2 DEF IInv, TypeOK, Ingest
<1>4. /\ Ascends(chan') /\ \A i \in DOMAIN chan' : m < chan'[i]
      /\ m = chan[1] /\ 1 \in DOMAIN chan /\ m \in Nat
      /\ \A i \in DOMAIN chan' : i + 1 \in DOMAIN chan /\ chan'[i] = chan[i + 1]
  BY <1>1, TailFacts, TailInOrder DEF IInv, ChannelInOrder
<1>5. ChannelInOrder' /\ m <= agent
  BY <1>1, <1>4 DEF IInv, ChannelInOrder, UpTo
<1>6. ASSUME NEW c \in Clients PROVE WayInOrder(c)'
  <2>1. /\ Ascends(got[c]) /\ Ascends(buf[c])
        /\ Precedes(got[c], buf[c]) /\ Precedes(got[c], chan) /\ Precedes(buf[c], chan)
        /\ UpTo(got[c], agent) /\ UpTo(buf[c], agent)
    BY DEF IInv, WayInOrder
  <2>2. /\ \A i \in DOMAIN buf[c] : buf[c][i] < m
        /\ \A i \in DOMAIN got[c] : got[c][i] < m
        /\ Precedes(got[c], chan') /\ Precedes(buf[c], chan')
    BY <1>4, <2>1 DEF Precedes
  <2>3. buf'[c] = buf[c] \/ buf'[c] = Append(buf[c], m)
    BY DEF Ingest, Hub!Publish, Hub!Offer
  <2>4. CASE buf'[c] = buf[c]
    BY <1>1, <2>1, <2>2, <2>4 DEF WayInOrder
  <2>5. CASE buf'[c] = Append(buf[c], m)
    <3> DEFINE q == buf'[c]
    <3>1. Ascends(q)
      BY <1>1, <1>4, <2>1, <2>2, <2>5, AppendInOrder
    <3>2. /\ DOMAIN q = DOMAIN buf[c] \cup {Len(buf[c]) + 1} /\ q[Len(buf[c]) + 1] = m
          /\ \A i \in DOMAIN buf[c] : q[i] = buf[c][i]
      BY <1>1, <1>4, <2>5, AppendFacts
    <3>3. Precedes(got[c], q)
      BY <2>1, <2>2, <3>2 DEF Precedes
    <3>4. Precedes(q, chan')
      BY <1>4, <2>2, <3>2 DEF Precedes
    <3>5. UpTo(q, agent)
      BY <1>5, <2>1, <3>2 DEF UpTo
    <3>6. QED
      BY <1>1, <2>1, <2>2, <2>5, <3>1, <3>3, <3>4, <3>5 DEF WayInOrder
  <2>6. QED
    BY <2>3, <2>4, <2>5
<1>7. QED
  BY <1>3, <1>5, <1>6 DEF IInv

LEMMA InitIInv == Init => IInv
<1> SUFFICES ASSUME Init PROVE IInv
  OBVIOUS
<1>1. /\ chan = <<>> /\ agent = 0
      /\ \A c \in Clients : got[c] = <<>> /\ buf[c] = <<>>
  BY DEF Init, Source!Init, Hub!HubInit
<1>2. TypeOK
  <2>1. Source!TypeOK
    <3>1. backoff \in 1 .. 2 * MaxWait - 1
      BY CapacitiesAssumption DEF Init, Source!Init
    <3>2. chan \in Seq(Source!Event) /\ Len(chan) <= ChanCap
      BY <1>1, CapacitiesAssumption
    <3>3. agent \in 0 .. MaxEvents
      BY <1>1, CapacitiesAssumption
    <3>4. QED
      BY <3>1, <3>2, <3>3 DEF Init, Source!Init, Source!TypeOK
  <2>2. Hub!HubTypeOK
    BY CapacitiesAssumption DEF Init, Hub!HubInit, Hub!HubTypeOK
  <2>3. QED
    BY <2>1, <2>2 DEF Init, TypeOK
<1>3. QED
  BY <1>1, <1>2 DEF IInv, ChannelInOrder, WayInOrder, Ascends, Precedes, UpTo

LEMMA NextIInv == IInv /\ [Next]_vars => IInv'
<1> SUFFICES ASSUME IInv, [Next]_vars PROVE IInv'
  OBVIOUS
<1>1. CASE Source!Step /\ UNCHANGED <<hub, agg>>
  BY <1>1, SourceKeeps
<1>2. ASSUME NEW c \in Clients, Hub!Serve(c) /\ UNCHANGED <<source, agg>> PROVE IInv'
  BY <1>2, HubKeeps
<1>3. CASE Ingest
  BY <1>3, IngestKeeps
<1>4. ASSUME UNCHANGED <<source, hub>>, agg' \in {"run", "deaf", "ended"} PROVE IInv'
  <2>1. TypeOK'
    BY <1>4 DEF IInv, TypeOK, source, hub, Source!TypeOK, Hub!HubTypeOK
  <2>2. QED
    BY <1>4, <2>1 DEF IInv, ChannelInOrder, WayInOrder, source, hub
<1>5. CASE SeesClosed \/ Stop
  BY <1>4, <1>5 DEF SeesClosed, Stop
<1>6. CASE UNCHANGED vars
  BY <1>4, <1>6 DEF vars, IInv, TypeOK
<1>7. QED
  BY <1>1, <1>2, <1>3, <1>5, <1>6 DEF Next

LEMMA Invariance == Spec => []IInv
BY InitIInv, NextIInv, PTL DEF Spec

-----------------------------------------------------------------------------
(* Source, hub and aggregator keep their types and capacities, whatever    *)
(* clients do.                                                             *)
THEOREM TypeCorrect == Spec => []TypeOK
<1>1. IInv => TypeOK
  BY DEF IInv
<1>2. QED
  BY <1>1, Invariance, PTL

(* What a client is written is in the agent's order and without repeats,   *)
(* over drops at the channel and at the buffer and streams opened again.   *)
THEOREM ClientsSeeInOrder == Spec => []SeenInOrder
<1>1. IInv => SeenInOrder
  BY DEF IInv, WayInOrder, Ascends, SeenInOrder
<1>2. QED
  BY <1>1, Invariance, PTL

-----------------------------------------------------------------------------
(* The pipeline, step by step, is a LiveFeed.                              *)

Conns == [c \in Clients |-> Conn(c)]

(* The agent's events happen, whether or not a stream follows them. *)
LEMMA SourceIsFeed ==
    ASSUME Source!Step, UNCHANGED <<hub, agg>>
    PROVE  Feed!Happen \/ UNCHANGED Feed!vars
<1>1. got' = got /\ Conns' = Conns
  BY DEF hub, Conns, Conn
<1>2. agent' = agent \/ (agent < MaxEvents /\ agent' = agent + 1)
  BY DEF Source!Step, Source!Open, Source!Interrupted, Source!Waited, Source!WaitCancelled,
         Source!Recv, Source!RecvCancelled, Source!Unseen, Source!Passes, Source!Cancel
<1>3. QED
  BY <1>1, <1>2 DEF Feed!Happen, Feed!vars, Conns

(* What one handler does to its connection is all that changes of them. *)
LEMMA ConnStep ==
    ASSUME Hub!HubTypeOK, NEW c \in Clients, Hub!Serve(c)
    PROVE  Conns' = [Conns EXCEPT ![c] = Conn(c)']
<1>1. ASSUME NEW d \in Clients, d # c PROVE Conn(d)' = Conn(d)
  <2>1. loop'[d] = loop[d] /\ (d \in open' <=> d \in open)
    BY <1>1 DEF Hub!HubTypeOK, Hub!Serve, Hub!Goto, Hub!Upgrade, Hub!Add, Hub!WriteOK,
                Hub!WriteFails, Hub!PingFails, Hub!Remove, Hub!Hangup
  <2>2. QED
    BY <2>1 DEF Conn
<1>2. QED
  BY <1>1 DEF Conns

(* A handler opens its connection once, shows on it what is newer, and     *)
(* closes it; the rest does not concern its client.                        *)
LEMMA HubIsFeed ==
    ASSUME IInv, NEW c \in Clients, Hub!Serve(c), UNCHANGED <<source, agg>>
    PROVE  \/ Feed!Connect(c) \/ Feed!Disconnect(c)
           \/ \E e \in 1 .. agent : Feed!Show(c, e)
           \/ UNCHANGED Feed!vars
<1>1. /\ agent' = agent /\ agent \in Nat
      /\ got \in [Clients -> Seq(1 .. MaxEvents)] /\ buf \in [Clients -> Seq(1 .. MaxEvents)]
      /\ loop \in [Clients -> {"none", "upgraded", "serve", "leave", "gone"}]
  BY Typed DEF IInv, TypeOK, Hub!HubTypeOK, source
<1>2. Conns' = [Conns EXCEPT ![c] = Conn(c)'] /\ Conns[c] = Conn(c)
  BY ConnStep DEF IInv, TypeOK, Conns
<1>3. CASE Conn(c)' = Conn(c) /\ got' = got
  <2>1. Conns' = Conns
    BY <1>2, <1>3 DEF Conns
  <2>2. QED
    BY <1>1, <1>3, <2>1 DEF Feed!vars, Conns
<1>4. CASE Hub!Upgrade(c)
  <2>1. Conn(c) = "new" /\ Conn(c)' = "open" /\ got' = got
    BY <1>1, <1>4 DEF Hub!Upgrade, Hub!Goto, Conn
  <2>2. QED
    BY <1>1, <1>2, <2>1 DEF Feed!Connect, Conns
<1>5. CASE Hub!Remove(c) \/ Hub!Hangup(c)
  <2>1. /\ got' = got
        /\ Conn(c)' = Conn(c) \/ (Conn(c) = "open" /\ Conn(c)' = "closed")
    BY <1>1, <1>5 DEF Hub!Remove, Hub!Hangup, Hub!Goto, Conn
  <2>2. CASE Conn(c)' = Conn(c)
    BY <1>3, <2>1, <2>2
  <2>3. CASE Conn(c) = "open" /\ Conn(c)' = "closed"
    BY <1>1, <1>2, <2>1, <2>3 DEF Feed!Disconnect, Conns
  <2>4. QED
    BY <2>1, <2>2, <2>3
<1>6. CASE Hub!WriteOK(c)
  <2> DEFINE e == Head(buf[c])
  <2>1. Conn(c) = "open" /\ Conn(c)' = Conn(c) /\ got' = [got EXCEPT ![c] = Append(@, e)]
    BY <1>6 DEF Hub!WriteOK, Conn
  <2>2. buf[c] \in NumSeq /\ got[c] \in NumSeq /\ buf[c] # <<>>
    BY <1>6, Typed DEF IInv, Hub!WriteOK
  <2>3. e = buf[c][1] /\ 1 \in DOMAIN buf[c] /\ e \in 1 .. MaxEvents
    <3>1. e = buf[c][1] /\ 1 \in DOMAIN buf[c]
      BY <2>2, TailFacts
    <3>2. buf[c] \in Seq(1 .. MaxEvents)
      BY <1>1
    <3>3. Head(buf[c]) \in 1 .. MaxEvents
      BY <2>2, <3>2, CapacitiesAssumption
    <3>4. QED
      BY <3>1, <3>3
  <2>4. e \in 1 .. agent /\ \A i \in DOMAIN got[c] : got[c][i] < e
    BY <1>1, <2>3 DEF IInv, WayInOrder, UpTo, Precedes
  <2>5. Conns' = Conns
    BY <1>2, <2>1 DEF Conns
  <2>6. Feed!Show(c, e)
    BY <1>1, <1>2, <2>1, <2>4, <2>5 DEF Feed!Show, Conns
  <2>7. QED
    BY <2>4, <2>6
<1>7. CASE Hub!Add(c) \/ Hub!WriteFails(c) \/ Hub!PingFails(c)
  <2>1. Conn(c)' = Conn(c) /\ got' = got
    BY <1>1, <1>7 DEF Hub!Add, Hub!WriteFails, Hub!PingFails, Hub!AfterWriteError,
                      Hub!Goto, Conn
  <2>2. QED
    BY <1>3, <2>1
<1>8. QED
  BY <1>4, <1>5, <1>6, <1>7 DEF Hub!Serve

LEMMA StepIsFeed == IInv /\ [Next]_vars => [Feed!Next]_(Feed!vars)
<1> SUFFICES ASSUME IInv, [Next]_vars PROVE Feed!Next \/ UNCHANGED Feed!vars
  OBVIOUS
<1>1. CASE Source!Step /\ UNCHANGED <<hub, agg>>
  BY <1>1, SourceIsFeed DEF Feed!Next
<1>2. ASSUME NEW c \in Clients, Hub!Serve(c) /\ UNCHANGED <<source, agg>>
      PROVE  Feed!Next \/ UNCHANGED Feed!vars
  BY <1>2, HubIsFeed DEF Feed!Next
<1>3. CASE Ingest \/ SeesClosed \/ Stop \/ UNCHANGED vars
  <2>1. agent' = agent /\ got' = got /\ loop' = loop /\ open' = open
    BY <1>3 DEF Ingest, Hub!Publish, SeesClosed, Stop, vars, source, hub
  <2>2. QED
    BY <2>1 DEF Feed!vars, Conn
<1>4. QED
  BY <1>1, <1>2, <1>3 DEF Next

(* To each client, agent, channel, hub and connection together are a       *)
(* LiveFeed: whatever is dropped, interrupted, opened again or hung up,    *)
(* it is shown what happened, each event newer than the last, on a         *)
(* connection that is open.                                                *)
THEOREM PipelineIsFeed == Spec => ImplementsFeed
<1>1. Init => Feed!Init
  <2> SUFFICES ASSUME Init PROVE Feed!Init
    OBVIOUS
  <2>1. \A c \in Clients : Conn(c) = "new"
    BY DEF Init, Hub!HubInit, Conn
  <2>2. QED
    BY <2>1 DEF Init, Source!Init, Hub!HubInit, Feed!Init
<1>2. QED
  BY <1>1, StepIsFeed, Invariance, PTL DEF Spec, ImplementsFeed, Feed!Spec
=============================================================================
