---------------------------- MODULE Diagnostics ----------------------------
(***************************************************************************)
(* One log for both halves of the console.  The browser's lines (Logger,   *)
(* lib/api.ts) wait in a queue, are posted in batches by a timer, and are  *)
(* appended to the backend's buffer (logbuf.go) one by one; whatever is    *)
(* appended is then published to the sockets, after the buffer's lock is   *)
(* released.  The Diagnostics page reads the socket with useStream.ts,     *)
(* which reconnects by itself.                                             *)
(*                                                                         *)
(* A post is lost, or arrives: a tab does not learn which, and does not    *)
(* try again.  The hub between the buffer and the socket is a wire that    *)
(* drops what it has no room for.  What the page fetches besides, by       *)
(* polling, and its filters are left out.                                  *)
(***************************************************************************)
EXTENDS Rings, SequencesExt

CONSTANTS
    MaxLines,    \* bound: lines the browser logs
    MaxLogs,     \* bound: lines the backend logs
    MaxRecent,   \* lines the browser keeps
    Capacity,    \* lines the buffer keeps
    WireRoom,    \* messages a socket has room for
    Limit,       \* items the page keeps
    MaxLosses    \* bound: times the socket is lost

(* Assumed of the constants where they get their values (Console).         *)
LogAssumption ==
    /\ {MaxLines, MaxLogs, MaxLosses} \subseteq Nat
    /\ {MaxRecent, Capacity, WireRoom, Limit} \subseteq Nat \ {0}

VARIABLES
    recent,    \* the lines the browser keeps
    queue,     \* those that wait to be posted
    timer,     \* whether a flush is scheduled
    posts,     \* batches on their way
    appends,   \* goroutines that append: lines left, and the one to publish
    buffer,
    socket,    \* "connecting", "open", "closed"
    retry,     \* seconds until the next attempt
    wire,      \* messages on their way to the page
    items,     \* the page's lines, newest first
    live,      \* not paused
    pushed, logged, losses,  \* lines of the browser, of the backend; losses
    batches,   \* history: what was posted
    appended   \* history: what was ever appended

browser == <<recent, queue, timer, posts, pushed, batches>>
backend == <<appends, buffer, logged, appended>>
page == <<socket, retry, wire, items, live, losses>>
vars == <<browser, backend, page>>

Line == [origin : {"frontend"}, level : {"DEBUG", "ERROR"}, n : 1 .. MaxLines]
         \cup [origin : {"backend"}, n : 1 .. MaxLogs]

Init ==
    /\ recent = <<>> /\ queue = <<>> /\ timer = FALSE /\ posts = <<>>
    /\ appends = <<>> /\ buffer = <<>>
    /\ socket = "connecting" /\ retry = 1 /\ wire = <<>> /\ items = <<>> /\ live = TRUE
    /\ pushed = 0 /\ logged = 0 /\ losses = 0 /\ batches = {} /\ appended = <<>>

-----------------------------------------------------------------------------
(* A request answered is a DEBUG line, and one that fails an ERROR; so is  *)
(* what the page throws.  schedule is the timer.                           *)
push(level) ==
    /\ pushed < MaxLines
    /\ pushed' = pushed + 1
    /\ LET line == [origin |-> "frontend", level |-> level, n |-> pushed']
           ships == level # "DEBUG"
       IN  /\ recent' = Push(recent, line, MaxRecent)
           /\ queue' = IF ships THEN Append(queue, line) ELSE queue
           /\ timer' = (timer \/ ships)
    /\ UNCHANGED <<posts, batches, backend, page>>

(* Mutant: the queue is copied and not taken.                              *)
flushCopying ==
    /\ UNCHANGED queue
    /\ posts' = IF queue = <<>> THEN posts ELSE Append(posts, queue)
    /\ batches' = IF queue = <<>> THEN batches ELSE batches \cup {queue}
    /\ UNCHANGED <<recent, pushed, backend, page>>

flush ==
    /\ queue' = <<>>
    /\ posts' = IF queue = <<>> THEN posts ELSE Append(posts, queue)
    /\ batches' = IF queue = <<>> THEN batches ELSE batches \cup {queue}
    /\ UNCHANGED <<recent, pushed, backend, page>>
TimerFires == timer /\ timer' = FALSE /\ flush
BeforeUnload == queue # <<>> /\ flush /\ UNCHANGED timer

(* flush's fetch fails: nothing is logged and nothing tried again.         *)
PostLost(i) ==
    /\ i \in DOMAIN posts
    /\ posts' = RemoveAt(posts, i)
    /\ UNCHANGED <<recent, queue, timer, pushed, batches, backend, page>>
postClientLog(i) ==
    /\ i \in DOMAIN posts
    /\ posts' = RemoveAt(posts, i)
    /\ appends' = Append(appends, [lines |-> posts[i], publish |-> <<>>])
    /\ UNCHANGED <<recent, queue, timer, pushed, batches, buffer, logged, appended, page>>

-----------------------------------------------------------------------------
(* The backend logs a line of its own.                                     *)
Handle ==
    /\ logged < MaxLogs
    /\ logged' = logged + 1
    /\ appends' = Append(appends, [lines |-> <<[origin |-> "backend", n |-> logged']>>,
                                   publish |-> <<>>])
    /\ UNCHANGED <<buffer, appended, browser, page>>

(* Append: under the lock, and then the publisher.                         *)
Store(i) ==
    /\ i \in DOMAIN appends
    /\ appends[i].publish = <<>> /\ appends[i].lines # <<>>
    /\ LET line == Head(appends[i].lines)
       IN  /\ buffer' = Push(buffer, line, Capacity)
           /\ appended' = Append(appended, line)
           /\ appends' = [appends EXCEPT ![i] =
                             [lines |-> Tail(@.lines), publish |-> <<line>>]]
    /\ UNCHANGED <<logged, browser, page>>
Published(i) ==
    IF appends[i].lines = <<>> THEN RemoveAt(appends, i)
    ELSE [appends EXCEPT ![i].publish = <<>>]
Publish(i) ==
    /\ i \in DOMAIN appends
    /\ appends[i].publish # <<>>
    /\ appends' = Published(i)
    /\ wire' = IF socket = "open" /\ Len(wire) < WireRoom
               THEN wire \o appends[i].publish ELSE wire
    /\ UNCHANGED <<buffer, logged, appended, browser, socket, retry, items, live, losses>>

-----------------------------------------------------------------------------
onopen ==
    /\ socket = "connecting"
    /\ socket' = "open" /\ retry' = 1
    /\ UNCHANGED <<wire, items, live, losses, browser, backend>>
onmessage ==
    /\ socket = "open" /\ wire # <<>>
    /\ wire' = Tail(wire)
    /\ LET more == <<Head(wire)>> \o items
       IN  items' = IF live THEN SubSeq(more, 1, IF Len(more) < Limit THEN Len(more)
                                                 ELSE Limit)
                    ELSE items
    /\ UNCHANGED <<socket, retry, live, losses, browser, backend>>
(* Mutant: only a socket that was open is made again.                      *)
oncloseOnce ==
    /\ socket \in {"connecting", "open"}
    /\ losses < MaxLosses
    /\ losses' = losses + 1
    /\ socket' = (IF socket = "open" THEN "closed" ELSE "dead") /\ wire' = <<>>
    /\ retry' = IF 2 * retry < 15 THEN 2 * retry ELSE 15
    /\ UNCHANGED <<items, live, browser, backend>>

(* The socket is lost, or was never made: the next attempt is scheduled.   *)
onclose ==
    /\ socket \in {"connecting", "open"}
    /\ losses < MaxLosses
    /\ losses' = losses + 1
    /\ socket' = "closed" /\ wire' = <<>>
    /\ retry' = IF 2 * retry < 15 THEN 2 * retry ELSE 15
    /\ UNCHANGED <<items, live, browser, backend>>
connect ==
    /\ socket = "closed"
    /\ socket' = "connecting"
    /\ UNCHANGED <<retry, wire, items, live, losses, browser, backend>>
setLive ==
    /\ live' = ~live
    /\ UNCHANGED <<socket, retry, wire, items, losses, browser, backend>>

-----------------------------------------------------------------------------
PostEnds == \E i \in DOMAIN posts : PostLost(i) \/ postClientLog(i)
AppendGoesOn == \E i \in DOMAIN appends : Store(i) \/ Publish(i)
Next ==
    \/ \E level \in {"DEBUG", "ERROR"} : push(level)
    \/ TimerFires \/ BeforeUnload \/ PostEnds
    \/ Handle \/ AppendGoesOn
    \/ onopen \/ onmessage \/ onclose \/ connect \/ setLive

(* Timers fire, requests and connections are answered or fail, and         *)
(* goroutines run.                                                         *)
Fairness ==
    /\ WF_vars(TimerFires) /\ WF_vars(PostEnds) /\ WF_vars(AppendGoesOn)
    /\ WF_vars(onopen) /\ WF_vars(onmessage) /\ WF_vars(connect)

Spec == Init /\ [][Next]_vars /\ Fairness

-----------------------------------------------------------------------------
TypeOK ==
    /\ {recent, queue, buffer, wire, items, appended} \subseteq Seq(Line)
    /\ Len(recent) <= MaxRecent /\ Len(buffer) <= Capacity
    /\ Len(wire) <= WireRoom /\ Len(items) <= Limit
    /\ timer \in BOOLEAN /\ live \in BOOLEAN
    /\ posts \in Seq(Seq(Line)) /\ batches \subseteq Seq(Line)
    /\ appends \in Seq([lines : Seq(Line), publish : Seq(Line)])
    /\ socket \in {"connecting", "open", "closed"} /\ retry \in 1 .. 15
    /\ pushed \in 0 .. MaxLines /\ logged \in 0 .. MaxLogs /\ losses \in 0 .. MaxLosses

(* A line of the browser is in one place on its way to the buffer and gets *)
(* there at most once, whatever is lost; a DEBUG line stays at home        *)
(* (api.ts:119-124, flush).                                                *)
InTransit == queue \o FlattenSeq(posts) \o FlattenSeq([i \in DOMAIN appends |->
                                                          appends[i].lines])
ShippedOnce ==
    LET way == InTransit \o appended
    IN  /\ IsInjective(way)
        /\ \A line \in ToSet(way) : line.origin = "backend" \/ line.level # "DEBUG"

(* The lines of one batch show newest first: one request appends them, one *)
(* after the other, though batches and the backend's own lines may pass    *)
(* each other between the buffer and the page (logbuf.go:55-83).           *)
BatchInOrder ==
    \A batch \in batches, i, j \in DOMAIN items :
        (i < j /\ {items[i], items[j]} \subseteq ToSet(batch)) => items[i].n > items[j].n

(* The log goes quiet: nothing that was logged waits for ever, and the     *)
(* posting of lines makes no lines (api.ts:145-148).                       *)
LogGoesQuiet == <>[](queue = <<>> /\ posts = <<>> /\ appends = <<>>)

(* The stream comes back, each time it is lost (useStream.ts:37-43).       *)
StreamComesBack == socket # "open" ~> socket = "open"
=============================================================================
