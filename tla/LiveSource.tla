---------------------------- MODULE LiveSource ----------------------------
(***************************************************************************)
(* The goroutine of hubble.LiveSource.Flows, and of tetragon.LiveSource.-  *)
(* Events, which is the same: it opens a stream at the agent, offers what  *)
(* it receives to a channel, and reconnects with a growing wait until its  *)
(* context is cancelled.                                                   *)
(*                                                                         *)
(* The agent is external: its events happen, numbered, whether or not a    *)
(* stream is open to follow them.                                          *)
(***************************************************************************)
EXTENDS Naturals, Sequences

CONSTANTS
    ChanCap,      \* the capacity of the channel (256)
    MaxWait,      \* the wait grows while it is below this (30s)
    MaxEvents     \* bound: events of the agent

VARIABLES
    phase,        \* where the goroutine is; "closed" when it has ended
    backoff,      \* the next wait, in seconds
    chan,         \* the channel
    agent,        \* the agent's last event
    cancelled     \* the context is cancelled (a signal)

sourceVars == <<phase, backoff, chan, agent, cancelled>>

Event == 1 .. MaxEvents

TypeOK ==
    /\ phase \in {"connect", "recv", "backoff", "closed"}
    /\ backoff \in 1 .. 2 * MaxWait - 1
    /\ chan \in Seq(Event) /\ Len(chan) <= ChanCap
    /\ agent \in 0 .. MaxEvents
    /\ cancelled \in BOOLEAN

Init ==
    /\ phase = "connect"
    /\ backoff = 1
    /\ chan = <<>>
    /\ agent = 0
    /\ cancelled = FALSE

(* GetFlows opens the stream.  *)
Open ==
    /\ phase = "connect"
    /\ phase' = "recv"
    /\ UNCHANGED <<backoff, chan, agent, cancelled>>

(* GetFlows or Recv fails.  stream never returns without an error.         *)
(* (EndsOnError: the goroutine ends.)                                      *)
EndsOnError == "closed"
AfterError == IF cancelled THEN "closed" ELSE "backoff"

Interrupted ==
    /\ phase \in {"connect", "recv"}
    /\ phase' = AfterError
    /\ backoff' = IF cancelled THEN 1 ELSE backoff
    /\ UNCHANGED <<chan, agent, cancelled>>

(* The wait before the next attempt doubles, up to 32s.  (DoublesAfter:    *)
(* checked once too late.)  Nothing sets it back: the else of the loop is  *)
(* only reached when the context is cancelled.                             *)
DoublesAfter == IF backoff < 2 * MaxWait THEN 2 * backoff ELSE backoff
NextBackoff == IF backoff < MaxWait THEN 2 * backoff ELSE backoff

Waited ==
    /\ phase = "backoff"
    /\ phase' = IF cancelled THEN "closed" ELSE "connect"
    /\ backoff' = NextBackoff
    /\ UNCHANGED <<chan, agent, cancelled>>

(* The context ends the wait. *)
WaitCancelled ==
    /\ phase = "backoff"
    /\ cancelled
    /\ phase' = "closed"
    /\ UNCHANGED <<backoff, chan, agent, cancelled>>

(* The select on the channel has a default, taken when the channel is full *)
(* and the context is not cancelled.  (MayOfferBlocking: it has none.)     *)
MayOfferBlocking == Len(chan) < ChanCap
MayOffer == Len(chan) < ChanCap \/ ~cancelled

(* The next event arrives and is offered to the channel, or dropped. *)
Recv ==
    /\ phase = "recv"
    /\ agent < MaxEvents
    /\ MayOffer
    /\ agent' = agent + 1
    /\ chan' = IF Len(chan) < ChanCap THEN Append(chan, agent + 1) ELSE chan
    /\ UNCHANGED <<phase, backoff, cancelled>>

(* The next event arrives and the select takes ctx.Done. *)
RecvCancelled ==
    /\ phase = "recv"
    /\ agent < MaxEvents
    /\ cancelled
    /\ agent' = agent + 1
    /\ phase' = "closed"
    /\ backoff' = 1
    /\ UNCHANGED <<chan, cancelled>>

(* An event nobody follows.  A new stream begins with what comes next: the *)
(* request has Follow and nothing of the past.  (Replays: it asks for the  *)
(* last event as well.)                                                    *)
Replays == IF phase = "connect" /\ agent > 0 THEN agent - 1 ELSE agent + 1
Passes == agent + 1

Unseen ==
    /\ phase # "recv"
    /\ agent < MaxEvents
    /\ agent' = Passes
    /\ UNCHANGED <<phase, backoff, chan, cancelled>>

(* The process is told to stop. *)
Cancel ==
    /\ ~cancelled
    /\ cancelled' = TRUE
    /\ UNCHANGED <<phase, backoff, chan, agent>>

Step == \/ Open \/ Interrupted \/ Waited \/ WaitCancelled
        \/ Recv \/ RecvCancelled \/ Unseen \/ Cancel

(* A call of the gRPC client returns once its context is cancelled, and    *)
(* the timer of the wait fires.                                            *)
Fairness ==
    /\ WF_sourceVars(cancelled /\ Interrupted)
    /\ WF_sourceVars(Waited)
=============================================================================
