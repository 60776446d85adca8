----------------------------- MODULE Pipeline -----------------------------
(***************************************************************************)
(* From the agent to the browser: a live source, the aggregator that takes *)
(* from its channel, and the hub the aggregator publishes to.  Nothing on  *)
(* the way may make the agent wait; what cannot be passed on is dropped.   *)
(*                                                                         *)
(* Of Aggregator.Run the module follows one channel; the other adds its    *)
(* events to the same loop.  What ingestFlow counts on the way is left     *)
(* out.                                                                    *)
(***************************************************************************)
EXTENDS Naturals, Sequences

CONSTANTS ChanCap, MaxWait, MaxEvents, Clients, BufCap

ASSUME CapacitiesAssumption ==
    /\ ChanCap \in Nat \ {0} /\ BufCap \in Nat \ {0}
    /\ MaxWait \in Nat \ {0} /\ MaxEvents \in Nat

VARIABLES phase, backoff, chan, agent, cancelled,   \* of the source
          subs, buf, loop, open, got,               \* of the hub
          agg                                       \* where Aggregator.Run is

Source == INSTANCE LiveSource
Hub == INSTANCE StreamHub WITH Message <- 1 .. MaxEvents

source == <<phase, backoff, chan, agent, cancelled>>
hub == <<subs, buf, loop, open, got>>
vars == <<source, hub, agg>>

TypeOK == Source!TypeOK /\ Hub!HubTypeOK /\ agg \in {"run", "deaf", "ended"}

Init == Source!Init /\ Hub!HubInit /\ agg = "run"

(* Run takes an event, and ingestFlow publishes it. *)
Ingest ==
    /\ agg = "run"
    /\ chan # <<>>
    /\ chan' = Tail(chan)
    /\ Hub!Publish(Head(chan))
    /\ UNCHANGED <<phase, backoff, agent, cancelled, agg>>

(* The channel is closed and empty: Run sets it to nil and continues, past *)
(* the check of both, to wait for the context alone.                       *)
SeesClosed ==
    /\ agg = "run"
    /\ chan = <<>>
    /\ phase = "closed"
    /\ agg' = "deaf"
    /\ UNCHANGED <<source, hub>>

(* ctx.Done.  (SeesNoDone: a loop that only ranges over the channel.)      *)
SeesNoDone == FALSE
SeesDone == cancelled

Stop ==
    /\ agg # "ended"
    /\ SeesDone
    /\ agg' = "ended"
    /\ UNCHANGED <<source, hub>>

Next ==
    \/ Source!Step /\ UNCHANGED <<hub, agg>>
    \/ \E c \in Clients : Hub!Serve(c) /\ UNCHANGED <<source, agg>>
    \/ Ingest
    \/ SeesClosed
    \/ Stop

(* The aggregator takes what is there; the source and the hub go on as     *)
(* their modules say.  The agent and the clients owe nothing.              *)
Spec == Init /\ [][Next]_vars
        /\ Source!Fairness /\ Hub!HubFairness
        /\ WF_vars(Ingest) /\ WF_vars(Stop)

-----------------------------------------------------------------------------
(* What a client is shown is in the agent's order and nothing twice, over  *)
(* drops on the way and streams interrupted and opened again (Recv, the    *)
(* channel, the buffers; the request follows from now on).                 *)
SeenInOrder ==
    \A c \in Clients : \A i, j \in DOMAIN got[c] : i < j => got[c][i] < got[c][j]

(* To a client all of it is a LiveFeed: whatever is dropped, interrupted   *)
(* and opened again on the way, it is shown events that happened, each     *)
(* newer than the last, and only while its connection is open, which it is *)
(* once (Upgrade to Remove, ServeWS).                                      *)
Conn(c) == IF loop[c] = "none" THEN "new" ELSE IF c \in open THEN "open" ELSE "closed"

Feed == INSTANCE LiveFeed WITH
    last <- agent, shown <- got, conn <- [c \in Clients |-> Conn(c)]

ImplementsFeed == Feed!Spec

(* architecture.md: drop rather than backpressure the agent; api.md: slow  *)
(* consumers are not allowed to.  Whatever the clients and the buffers are *)
(* doing, an open stream's next event can be taken, and so can the next    *)
(* event of the channel.                                                   *)
NothingHoldsTheAgent ==
    /\ phase = "recv" /\ agent < MaxEvents =>
          ENABLED (Source!Recv \/ Source!RecvCancelled)
    /\ agg = "run" /\ chan # <<>> => ENABLED Ingest

(* A connection that is closed does not stay subscribed (ServeWS learns of *)
(* it by a write or a ping that fails).                                    *)
DeadClientsLeave ==
    \A c \in Clients : c \in subs /\ c \notin open ~> c \notin subs

(* Until the process is told to stop the source is never done: it opens a  *)
(* stream again after every interruption.                                  *)
SourceComesBack == []<>(cancelled \/ phase \in {"connect", "recv"})

(* Told to stop, the source closes its channel and the aggregator returns, *)
(* in whichever order and with whatever is left in the channel.            *)
WindsDown == cancelled ~> phase = "closed" /\ agg = "ended"
=============================================================================
