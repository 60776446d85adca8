----------------------------- MODULE StreamHub -----------------------------
(***************************************************************************)
(* The WebSocket hub (internal/stream), for one topic.  Publish offers a   *)
(* message to the buffer of every subscriber; each subscriber's handler,   *)
(* ServeWS, writes its buffer to its connection until a write fails.       *)
(*                                                                         *)
(* A connection is closed when its reader goroutine has seen it: from then *)
(* on every write fails.  A write to a client that does not read fails     *)
(* when its deadline passes.                                               *)
(***************************************************************************)
EXTENDS Naturals, Sequences

CONSTANTS
    Clients,      \* the connections of a run
    BufCap,       \* the capacity of a subscriber's buffer (128)
    Message       \* what is published

VARIABLES
    subs,         \* the subscribers of the topic
    buf,          \* the buffer of each
    loop,         \* where each handler is
    open,         \* the connections that are open
    got           \* history: what each client was written

hubVars == <<subs, buf, loop, open, got>>

HubTypeOK ==
    /\ subs \subseteq Clients
    /\ buf \in [Clients -> Seq(Message)]
    /\ \A c \in Clients : Len(buf[c]) <= BufCap
    /\ loop \in [Clients -> {"none", "upgraded", "serve", "leave", "gone"}]
    /\ open \subseteq Clients
    /\ got \in [Clients -> Seq(Message)]

HubInit ==
    /\ subs = {}
    /\ buf = [c \in Clients |-> <<>>]
    /\ loop = [c \in Clients |-> "none"]
    /\ open = {}
    /\ got = [c \in Clients |-> <<>>]

Goto(c, where) == loop' = [loop EXCEPT ![c] = where]

(* The connection is upgraded, ... *)
Upgrade(c) ==
    /\ loop[c] = "none"
    /\ Goto(c, "upgraded")
    /\ open' = open \cup {c}
    /\ UNCHANGED <<subs, buf, got>>

(* ... and the subscriber added.  What is published in between it misses.  *)
Add(c) ==
    /\ loop[c] = "upgraded"
    /\ Goto(c, "serve")
    /\ subs' = subs \cup {c}
    /\ UNCHANGED <<buf, open, got>>

(* A send with a default: a full buffer drops the message.                 *)
(* (Unbounded: it never does.)                                             *)
Unbounded(q, m) == Append(q, m)
Offer(q, m) == IF Len(q) < BufCap THEN Append(q, m) ELSE q

(* Whether Publish can be made now: always, nothing in it waits.           *)
(* (WaitsForRoom: a send without a default.)                               *)
WaitsForRoom == \A c \in subs : Len(buf[c]) < BufCap
MayPublish == TRUE

Publish(m) ==
    /\ MayPublish
    /\ buf' = [c \in Clients |-> IF c \in subs THEN Offer(buf[c], m) ELSE buf[c]]
    /\ UNCHANGED <<subs, loop, open, got>>

(* A message is written. *)
WriteOK(c) ==
    /\ loop[c] = "serve"
    /\ c \in open
    /\ buf[c] # <<>>
    /\ got' = [got EXCEPT ![c] = Append(@, Head(buf[c]))]
    /\ buf' = [buf EXCEPT ![c] = Tail(@)]
    /\ UNCHANGED <<subs, loop, open>>

(* A write fails, and ServeWS returns.  (IgnoresError: the loop goes on.)  *)
IgnoresError == "serve"
AfterWriteError == "leave"

WriteFails(c) ==
    /\ loop[c] = "serve"
    /\ buf[c] # <<>>
    /\ Goto(c, AfterWriteError)
    /\ buf' = [buf EXCEPT ![c] = Tail(@)]
    /\ UNCHANGED <<subs, open, got>>

(* A ping finds the connection closed, or passes its deadline. *)
PingFails(c) ==
    /\ loop[c] = "serve"
    /\ Goto(c, AfterWriteError)
    /\ UNCHANGED <<subs, buf, open, got>>

(* The deferred remove and close. *)
Remove(c) ==
    /\ loop[c] = "leave"
    /\ Goto(c, "gone")
    /\ subs' = subs \ {c}
    /\ open' = open \ {c}
    /\ UNCHANGED <<buf, got>>

(* The client goes away and the reader closes the connection. *)
Hangup(c) ==
    /\ c \in open
    /\ open' = open \ {c}
    /\ UNCHANGED <<subs, buf, loop, got>>

Serve(c) == Upgrade(c) \/ Add(c) \/ WriteOK(c) \/ WriteFails(c) \/ PingFails(c)
            \/ Remove(c) \/ Hangup(c)

(* Writes end, by their deadline at the latest; a ping is due every 30s    *)
(* and fails on a connection that is closed; ServeWS runs on.              *)
HubFairness ==
    \A c \in Clients : /\ WF_hubVars(Add(c) \/ Remove(c))
                       /\ WF_hubVars(WriteOK(c) \/ WriteFails(c))
                       /\ WF_hubVars(c \notin open /\ PingFails(c))
=============================================================================
