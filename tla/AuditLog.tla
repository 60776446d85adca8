----------------------------- MODULE AuditLog -----------------------------
(***************************************************************************)
(* The audit log (internal/audit): a bounded ring of entries, a background *)
(* save of every entry to the table ic_audit, and a query that merges the  *)
(* two.  The process may exit at any point and start again; the ring and   *)
(* the id counter die with it, the table does not.                         *)
(*                                                                         *)
(* An entry is its id and the time its caller stamped on it.  A tick of    *)
(* clock is one call of Record, so a time also names the change audited;   *)
(* Matching are the changes that the text a client filters by is found in. *)
(***************************************************************************)
EXTENDS Rings

CONSTANTS
    Cap,          \* entries the ring keeps (Log.cap, 5000 in main.go)
    Matching,     \* times of the changes a client's text matches
    Bounds,       \* times a client may begin or end its window at, or 0
    Limits,       \* the limits a client may ask for
    MaxLimit,     \* the largest a query takes (2000), and what it takes
    DefaultLimit, \*   for any other (200)
    Widen,        \* how many times its limit a query asks of the table (4)
    MaxRows,      \* the most rows the table gives (5000), and how many it
    DefaultRows,  \*   gives when asked for more (500)
    MaxRecords,   \* bound: calls of Record over all process lives
    MaxRestarts   \* bound: process exits

ASSUME CapAssumption == Cap \in Nat \ {0}
ASSUME BoundsAssumption == MaxRecords \in Nat /\ MaxRestarts \in Nat
ASSUME QueryAssumption ==
    /\ Bounds \subseteq Nat /\ Limits \subseteq Nat
    /\ {MaxLimit, DefaultLimit, Widen, MaxRows, DefaultRows} \subseteq Nat \ {0}
    /\ DefaultLimit <= MaxLimit

VARIABLES
    entries,    \* the ring, oldest first
    nextID,     \* the id of the next entry
    sink,       \* whether durable storage is attached
    stamped,    \* times of Record calls that have not taken the lock yet
    saving,     \* entries whose SaveAudit goroutine is running
    durable,    \* rows of ic_audit
    clock,      \* calls of Record so far
    restarts,   \* process exits so far
    reader,     \* the query in progress
    log,        \* history: the entries of this process life, in id order
    issued,     \* history: the entries of every process life
    acked,      \* history: entries whose SaveAudit returned no error
    lost        \* history: entries with no save, or whose save failed or died

vars == <<entries, nextID, sink, stamped, saving, durable, clock, restarts,
          reader, log, issued, acked, lost>>

Time == 1 .. MaxRecords
Entry == [id : Time, time : Time]

(* The query in progress: its bounds (0 is none), its text (or none) and   *)
(* its limit.  It copies the ring when it starts (pool); asked says whether *)
(* the table answered it.  History: the rows of the table when it started  *)
(* (kept), and those that the table gave (rows).                           *)
Reader == [phase : {"idle", "started", "answered"}, since : Nat, until : Nat,
           q : BOOLEAN, limit : Nat, asked : BOOLEAN, pool : SUBSET Entry,
           kept : SUBSET Entry, rows : SUBSET Entry, answer : SUBSET Entry]

Idle == [phase |-> "idle", since |-> 0, until |-> 0, q |-> FALSE, limit |-> 0,
         asked |-> FALSE, pool |-> {}, kept |-> {}, rows |-> {}, answer |-> {}]

TypeOK ==
    /\ entries \in Seq(Entry)
    /\ nextID \in 1 .. MaxRecords + 1
    /\ sink \in BOOLEAN
    /\ stamped \subseteq Time
    /\ saving \subseteq Entry
    /\ durable \subseteq Entry
    /\ clock \in 0 .. MaxRecords
    /\ restarts \in 0 .. MaxRestarts
    /\ reader \in Reader
    /\ log \in Seq(Entry)
    /\ issued \subseteq Entry
    /\ acked \subseteq Entry
    /\ lost \subseteq Entry

(* New starts the ids at 1 in every process life. *)
ZeroFirstID == 0
FirstID == 1

(* New, then SetSink when Postgres is configured and reachable. *)
Init ==
    /\ entries = <<>>
    /\ nextID = FirstID
    /\ sink \in BOOLEAN
    /\ stamped = {}
    /\ saving = {}
    /\ durable = {}
    /\ clock = 0
    /\ restarts = 0
    /\ reader = Idle
    /\ log = <<>>
    /\ issued = {}
    /\ acked = {}
    /\ lost = {}

-----------------------------------------------------------------------------
(* Record, before the lock: the entry gets its time. *)
Stamp ==
    /\ clock < MaxRecords
    /\ clock' = clock + 1
    /\ stamped' = stamped \cup {clock + 1}
    /\ UNCHANGED <<entries, nextID, sink, saving, durable, restarts, reader,
                   log, issued, acked, lost>>

(* The id of a new entry.  (TableID: the one after the rows of the table.) *)
TableID == Cardinality(durable) + 1
NewID == nextID

(* The goroutine that saves e.  (SavesUntilFull: none once the ring trims.) *)
SavesUntilFull(e) == IF sink /\ Len(entries) < Cap THEN saving \cup {e} ELSE saving
Saves(e) == IF sink THEN saving \cup {e} ELSE saving

(* Record, under the lock: the entry gets its id and joins the ring.  With *)
(* a sink attached a goroutine to save it is started right after.          *)
Commit(t) ==
    LET e == [id |-> NewID, time |-> t]
    IN  /\ t \in stamped
        /\ stamped' = stamped \ {t}
        /\ nextID' = nextID + 1
        /\ entries' = Push(entries, e, Cap)
        /\ saving' = Saves(e)
        /\ lost' = IF sink THEN lost ELSE lost \cup {e}
        /\ log' = Append(log, e)
        /\ issued' = issued \cup {e}
        /\ UNCHANGED <<sink, durable, clock, restarts, reader, acked>>

(* INSERT ... ON CONFLICT (id) DO NOTHING.  (InsertAlways: a table without *)
(* the primary key.)                                                       *)
InsertAlways(rows, e) == rows \cup {e}
Insert(rows, e) ==
    IF \E r \in rows : r.id = e.id THEN rows ELSE rows \cup {e}

(* SaveAudit returns without an error. *)
SaveDone(e) ==
    /\ e \in saving
    /\ saving' = saving \ {e}
    /\ durable' = Insert(durable, e)
    /\ acked' = acked \cup {e}
    /\ UNCHANGED <<entries, nextID, sink, stamped, clock, restarts, reader,
                   log, issued, lost>>

(* SaveAudit fails, or its five seconds pass before the reply; the insert  *)
(* may have happened all the same.  The error is ignored.                  *)
SaveFailed(e) ==
    /\ e \in saving
    /\ saving' = saving \ {e}
    /\ durable' \in {durable, Insert(durable, e)}
    /\ lost' = lost \cup {e}
    /\ UNCHANGED <<entries, nextID, sink, stamped, clock, restarts, reader,
                   log, issued, acked>>

(* The process exits, with whatever was under way, and starts again. *)
Restart ==
    /\ restarts < MaxRestarts
    /\ restarts' = restarts + 1
    /\ entries' = <<>>
    /\ nextID' = FirstID
    /\ sink' \in BOOLEAN
    /\ stamped' = {}
    /\ saving' = {}
    /\ reader' = Idle
    /\ log' = <<>>
    /\ lost' = lost \cup saving
    /\ UNCHANGED <<durable, clock, issued, acked>>

-----------------------------------------------------------------------------
(* mergeByID: on equal ids the ring's entry wins.  (TableFirst: the ring   *)
(* answers only when the table has nothing.)                               *)
TableFirst(pool, rows) == IF rows = {} THEN pool ELSE rows
MergeByID(pool, rows) ==
    pool \cup {r \in rows : \A e \in pool : e.id # r.id}

(* The window, both bounds included; a bound of 0 is none. *)
InWindow(e, since, until) == e.time >= since /\ (until = 0 \/ e.time <= until)

Window(rows, since, until) == {e \in rows : InWindow(e, since, until)}

(* The entries the text is found in; every one, without a text. *)
Found(rows, q) == {e \in rows : q => e.time \in Matching}

(* The limit of a query, and what the table makes of Widen times it: past  *)
(* its own maximum it falls back on fewer rows than were asked for.        *)
LimitOf(asked) == IF asked \in 1 .. MaxLimit THEN asked ELSE DefaultLimit

RowLimit(limit) ==
    IF limit * Widen <= MaxRows THEN limit * Widen ELSE DefaultRows

(* Query copies the ring under the read lock ... *)
QueryStart(since, until, q, asked) ==
    /\ reader = Idle
    /\ reader' = [Idle EXCEPT !.phase = "started", !.since = since,
                              !.until = until, !.q = q, !.limit = LimitOf(asked),
                              !.pool = Elems(entries), !.kept = durable]
    /\ UNCHANGED <<entries, nextID, sink, stamped, saving, durable, clock,
                   restarts, log, issued, acked, lost>>

(* What the table gives: the newest rows of the window.  The text is not   *)
(* part of the SQL.                                                        *)
Rows(since, until, limit) == Newest(Window(durable, since, until), RowLimit(limit))

(* Of what both stores gave: the window, the text, then the newest of      *)
(* them.  (LimitFirst: the text looked for in what the limit left.)        *)
LimitFirst(pool, since, until, q, limit) ==
    Found(Newest(Window(pool, since, until), limit), q)
Select(pool, since, until, q, limit) ==
    Newest(Found(Window(pool, since, until), q), limit)

(* ... and then asks the table.  Without a sink, or when the table does    *)
(* not answer, the copy of the ring is all there is.                       *)
QueryAnswer(asked) ==
    /\ reader.phase = "started"
    /\ asked => sink
    /\ LET rows == IF asked THEN Rows(reader.since, reader.until, reader.limit) ELSE {}
           answer == Select(MergeByID(reader.pool, rows), reader.since,
                            reader.until, reader.q, reader.limit)
       IN  reader' = [reader EXCEPT !.phase = "answered", !.asked = asked,
                                    !.rows = rows, !.answer = answer]
    /\ UNCHANGED <<entries, nextID, sink, stamped, saving, durable, clock,
                   restarts, log, issued, acked, lost>>

(* The answer is written to the client. *)
QueryEnd ==
    /\ reader.phase = "answered"
    /\ reader' = Idle
    /\ UNCHANGED <<entries, nextID, sink, stamped, saving, durable, clock,
                   restarts, log, issued, acked, lost>>

-----------------------------------------------------------------------------
Next ==
    \/ Stamp
    \/ \E t \in stamped : Commit(t)
    \/ \E e \in saving : SaveDone(e)
    \/ \E e \in saving : SaveFailed(e)
    \/ Restart
    \/ \E since, until \in Bounds, q \in BOOLEAN, asked \in Limits :
          QueryStart(since, until, q, asked)
    \/ \E asked \in BOOLEAN : QueryAnswer(asked)
    \/ QueryEnd

Spec == Init /\ [][Next]_vars

(* A Record call that was started gets the lock, and a save ends within    *)
(* its five seconds with or without an error.                              *)
Fairness ==
    /\ \A t \in Time : WF_vars(Commit(t))
    /\ \A t \in Time :
          WF_vars(\E e \in saving : e.time = t /\ (SaveDone(e) \/ SaveFailed(e)))

FairSpec == Spec /\ Fairness

-----------------------------------------------------------------------------
(* The ring holds the newest Cap entries of this process life, in the      *)
(* order Record gave them their ids (Record, the append and the trim).     *)
RingHoldsNewest == IsTailOf(entries, log, Cap)

(* Within one process life no two entries share an id, however the calls   *)
(* of Record interleave (nextID under the lock).                           *)
IDsAreUnique ==
    \A i, j \in DOMAIN log : log[i].id = log[j].id => i = j

(* Every row of the table is an entry Record issued, and no id has two     *)
(* rows, whatever order the goroutines save in and however often the       *)
(* process restarts (SaveAuditRaw).                                        *)
RowsAreIssued ==
    /\ durable \subseteq issued
    /\ \A r, q \in durable : r.id = q.id => r = q

(* A row is never changed or removed: a repeated id does not overwrite     *)
(* (SaveAuditRaw: "Entries are immutable").                                *)
RowsStand == [][durable \subseteq durable']_durable

(* Until the process first restarts, an entry whose save returned no error *)
(* is in the table: no two saves compete for one id.                       *)
SavedIsKeptAtFirst == restarts = 0 => acked \subseteq durable

(* The table is the audit trail: it holds what was issued, each entry once *)
(* and for ever, and until a restart all that it said it holds.            *)
TableHolds == RowsAreIssued /\ SavedIsKeptAtFirst

(* deployment.md: with IC_DB_DSN set, "history and the audit log survive a *)
(* restart".  An entry whose save returned no error is in the table.       *)
SavedIsKept == acked \subseteq durable

(* A query answers at most limit entries of its window and text, no id     *)
(* twice.  Of those it leaves out an entry that was in the ring when it    *)
(* started only when limit newer ones are in the answer (AnswerIsFull).  A *)
(* row that was in the table then, the table having answered, it may miss  *)
(* in two more ways, which are the code's own: behind an entry of the ring *)
(* that has the same id (Hidden), as happens after a restart, and beyond   *)
(* the newest rows that the table gave (Beyond), when the text is found in *)
(* few of these, the ring hides some, or they are fewer than the limit     *)
(* (audit.go:108-133, postgres.go:119-121).                                *)
Hidden(e) == restarts > 0 /\ \E f \in reader.pool : f.id = e.id /\ f # e

Beyond(e) ==
    /\ \/ reader.q
       \/ \E r \in reader.rows : Hidden(r)
       \/ RowLimit(reader.limit) < reader.limit
    /\ Cardinality(reader.rows) = RowLimit(reader.limit)
    /\ \A f \in reader.rows : f.time > e.time

AnswerIsFull(e) ==
    /\ Cardinality(reader.answer) = reader.limit
    /\ \A f \in reader.answer : f.time > e.time

Wanted(rows) == Found(Window(rows, reader.since, reader.until), reader.q)

AnswerMissesNothing ==
    reader.phase = "answered" =>
        /\ Cardinality(reader.answer) <= reader.limit
        /\ reader.answer \subseteq Wanted(reader.answer)
        /\ \A e, f \in reader.answer : e.id = f.id => e = f
        /\ \A e \in Wanted(reader.pool) : e \in reader.answer \/ AnswerIsFull(e)
        /\ reader.asked =>
              \A e \in Wanted(reader.kept) :
                  e \in reader.answer \/ AnswerIsFull(e) \/ Hidden(e) \/ Beyond(e)

(* Every entry issued is in the end saved or given up: no save is left     *)
(* unstarted or running for ever (the goroutine of Record).                *)
EveryEntrySettles ==
    \A t \in Time : (\E e \in issued : e.time = t) ~>
                        (\E e \in acked \cup lost : e.time = t)

Trail == INSTANCE AuditTrail WITH Entries <- Entry, trail <- issued, kept <- durable

(* Until the process first restarts the log implements AuditTrail: what    *)
(* Record and its saves do, in any order, is to add to the trail and to    *)
(* keep parts of it.  Across a restart it does not: ids are used again.    *)
ImplementsTrail ==
    Trail!Init /\ [][restarts' = 0 => Trail!Next]_<<issued, durable>>
=============================================================================
