---------------------------- MODULE AlertRouter ----------------------------
(***************************************************************************)
(* From an alert to the sinks: Aggregator.publishAlert, which the one      *)
(* goroutine of Aggregator.Run calls, and the alert router it hands the    *)
(* alert to.  Each of the two drops repeats of a kind and title within a   *)
(* window of its own (5s, 60s), measured on the times of the events, which *)
(* come from many nodes and in any order.  The router starts a goroutine   *)
(* for every delivery; an admin replaces the route table at any time.      *)
(*                                                                         *)
(* The hub and the store that publishAlert also hands the alert to are     *)
(* left out, and so is SendTest, which changes nothing here.               *)
(***************************************************************************)
EXTENDS Integers, FiniteSets

CONSTANTS
    Subjects,     \* what alerts are about, a set of [kind, title, ns]
    Routes,       \* the routes an admin may configure
    Tables,       \* the tables of routes an admin may set
    Deaf,         \* the routes whose sink never answers
    MaxTime,      \* bound: the times of alerts
    Brief,        \* the aggregator's window
    Window,       \* the router's window (suppressFor)
    MaxAlerts,    \* bound: alerts raised
    MaxChanges,   \* bound: changes of the route table
    Never         \* no time

Time == 0 .. MaxTime
MaybeTime == Time \cup {Never}

ASSUME WindowsAssumption == Brief \in Nat /\ Window \in Nat \ {0}
ASSUME NeverAssumption == Never \notin Int
ASSUME BoundsAssumption == MaxTime \in Nat /\ MaxAlerts \in Nat /\ MaxChanges \in Nat
ASSUME TablesAssumption ==
    Tables \subseteq SUBSET Routes /\ \A table \in Tables : IsFiniteSet(table)

VARIABLES
    lastAlert,   \* the aggregator's last time of each kind and title
    lastSent,    \* the router's last time of each kind and title
    routes,      \* the route table
    stage,       \* where the aggregator's goroutine is with an alert
    alert,       \* the alert it has in hand
    targets,     \* the copy of the table that Dispatch made
    inflight,    \* deliveries whose goroutine is running
    delivered,   \* the router's counters
    suppressed,
    failed,
    count,       \* alerts raised so far
    changes,     \* changes of the table so far
    raised,      \* history: every alert raised
    published,   \* history: those the aggregator let through
    sent,        \* history: those the router let through
    tried,       \* history: every delivery started
    late         \* history: what a route was sent since it left the table

vars == <<lastAlert, lastSent, routes, stage, alert, targets, inflight, delivered,
          suppressed, failed, count, changes, raised, published, sent, tried, late>>

Alert == [n : 1 .. MaxAlerts, about : Subjects, time : Time]
Delivery == [alert : Alert, route : Routes]
KeyOf(subject) == <<subject.kind, subject.title>>
Key(a) == KeyOf(a.about)
Keys == {KeyOf(s) : s \in Subjects}

TypeOK ==
    /\ lastAlert \in [Keys -> MaybeTime]
    /\ lastSent \in [Keys -> MaybeTime]
    /\ routes \subseteq Routes
    /\ stage \in {"idle", "publish", "spawn"}
    /\ alert \subseteq Alert
    /\ targets \subseteq Routes
    /\ inflight \subseteq Delivery
    /\ delivered \in Nat /\ suppressed \in Nat /\ failed \in Nat
    /\ count \in 0 .. MaxAlerts
    /\ changes \in 0 .. MaxChanges
    /\ raised \subseteq Alert /\ published \subseteq Alert /\ sent \subseteq Alert
    /\ tried \subseteq Delivery
    /\ late \in [Routes -> Nat]

(* A router starts with no routes. *)
Init ==
    /\ lastAlert = [k \in Keys |-> Never]
    /\ lastSent = [k \in Keys |-> Never]
    /\ routes = {}
    /\ stage = "idle"
    /\ alert = {}
    /\ targets = {}
    /\ inflight = {}
    /\ delivered = 0 /\ suppressed = 0 /\ failed = 0
    /\ count = 0 /\ changes = 0
    /\ raised = {} /\ published = {} /\ sent = {}
    /\ tried = {}
    /\ late = [r \in Routes |-> 0]

-----------------------------------------------------------------------------
(* Route.matches.  Dropped traffic is a warning, enforcement is critical. *)
Severity(a) == IF a.about.kind = "network_drop" THEN "warning" ELSE "critical"
SevRank(s) == IF s = "critical" THEN 2 ELSE 1

Matches(r, a) ==
    /\ r.enabled
    /\ SevRank(Severity(a)) >= SevRank(r.minSeverity)
    /\ r.kinds # {} => a.about.kind \in r.kinds
    /\ r.namespaces # {} /\ a.about.ns # "" => a.about.ns \in r.namespaces

(* a.Time.Sub(last) < window; an alert older than the last is in it too.   *)
(* (RecentEitherWay: by the distance of the two times.)                    *)
RecentEitherWay(last, t, window) ==
    last # Never /\ t - last < window /\ last - t < window
Recent(last, t, window) == last # Never /\ t - last < window

-----------------------------------------------------------------------------
(* publishAlert, under the aggregator's lock. *)
PublishAlert(s, t) ==
    LET a == [n |-> count + 1, about |-> s, time |-> t]
    IN  /\ stage = "idle"
        /\ count < MaxAlerts
        /\ count' = count + 1
        /\ raised' = raised \cup {a}
        /\ IF Recent(lastAlert[Key(a)], t, Brief)
           THEN UNCHANGED <<lastAlert, published, stage, alert>>
           ELSE /\ lastAlert' = [lastAlert EXCEPT ![Key(a)] = t]
                /\ published' = published \cup {a}
                /\ stage' = "publish"
                /\ alert' = {a}
        /\ UNCHANGED <<lastSent, routes, targets, inflight, delivered, suppressed,
                       failed, changes, sent, tried, late>>

(* The router's memory after an alert.  (Slides: marked even when it is    *)
(* suppressed.  MarksExpiry: marked with the end of the window.)           *)
MarksExpiry(a) == IF Recent(lastSent[Key(a)], a.time, Window) THEN lastSent
                  ELSE [lastSent EXCEPT ![Key(a)] = a.time + Window]
Slides(a) == [lastSent EXCEPT ![Key(a)] = a.time]
Marks(a) == IF Recent(lastSent[Key(a)], a.time, Window) THEN lastSent
            ELSE [lastSent EXCEPT ![Key(a)] = a.time]

(* The table Dispatch works with.  (CachedTable: the copy it made before.) *)
CachedTable == IF targets = {} THEN routes ELSE targets
Table == routes

(* Dispatch, under the router's lock: suppress the alert, or mark it sent  *)
(* and go on with a copy of the table.                                     *)
Dispatch(a) ==
    /\ stage = "publish"
    /\ a \in alert
    /\ lastSent' = Marks(a)
    /\ targets' = Table
    /\ IF Recent(lastSent[Key(a)], a.time, Window)
       THEN /\ suppressed' = suppressed + 1
            /\ stage' = "idle"
            /\ alert' = {}
            /\ UNCHANGED sent
       ELSE /\ sent' = sent \cup {a}
            /\ stage' = "spawn"
            /\ UNCHANGED <<suppressed, alert>>
    /\ UNCHANGED <<lastAlert, routes, inflight, delivered, failed, count, changes,
                   raised, published, tried, late>>

(* Dispatch, past the lock: a goroutine for every route that matches. *)
Spawn(a) ==
    LET started == {[alert |-> a, route |-> r] : r \in {q \in targets : Matches(q, a)}}
    IN  /\ stage = "spawn"
        /\ a \in alert
        /\ inflight' = inflight \cup started
        /\ tried' = tried \cup started
        /\ late' = [r \in Routes |-> IF r \in routes \/ ~(\E d \in started : d.route = r)
                                     THEN late[r] ELSE late[r] + 1]
        /\ stage' = "idle"
        /\ alert' = {}
        /\ UNCHANGED <<lastAlert, lastSent, routes, targets, delivered, suppressed,
                       failed, count, changes, raised, published, sent>>

(* deliver: the sink accepts the alert, ... *)
Deliver(d) ==
    /\ d \in inflight
    /\ d.route \notin Deaf
    /\ inflight' = inflight \ {d}
    /\ delivered' = delivered + 1
    /\ UNCHANGED <<lastAlert, lastSent, routes, stage, alert, targets, suppressed,
                   failed, count, changes, raised, published, sent, tried, late>>

(* The counters after a failure.  (CountsBoth: the return is missing.) *)
CountsBoth == failed' = failed + 1 /\ delivered' = delivered + 1
CountsFailed == failed' = failed + 1 /\ UNCHANGED delivered

(* A delivery can be given up.  (HasAnswer: there are no timeouts, only    *)
(* sinks that answer with an error.)                                       *)
HasAnswer(d) == d.route \notin Deaf
GivesUp(d) == TRUE

(* ... or refuses it, or does not answer within the timeouts; an alert the *)
(* sink took may be among those.                                           *)
Fail(d) ==
    /\ d \in inflight
    /\ GivesUp(d)
    /\ inflight' = inflight \ {d}
    /\ CountsFailed
    /\ UNCHANGED <<lastAlert, lastSent, routes, stage, alert, targets, suppressed,
                   count, changes, raised, published, sent, tried, late>>

(* SetRoutes replaces the table. *)
SetRoutes(table) ==
    /\ changes < MaxChanges
    /\ changes' = changes + 1
    /\ routes' = table
    /\ late' = [r \in Routes |-> IF r \in routes \cup table THEN 0 ELSE late[r]]
    /\ UNCHANGED <<lastAlert, lastSent, stage, alert, targets, inflight, delivered,
                   suppressed, failed, count, raised, published, sent, tried>>

Next ==
    \/ \E s \in Subjects, t \in Time : PublishAlert(s, t)
    \/ \E a \in alert : Dispatch(a) \/ Spawn(a)
    \/ \E d \in inflight : Deliver(d) \/ Fail(d)
    \/ \E table \in Tables : SetRoutes(table)

Spec == Init /\ [][Next]_vars

(* The HTTP client gives up after 8s, the syslog dial and write after 5s:  *)
(* while deliveries run, some timeout is due.                              *)
Fairness == WF_vars(\E d \in inflight : Fail(d))
FairSpec == Spec /\ Fairness

-----------------------------------------------------------------------------
(* To those who configure the routes, the goroutines in between are not    *)
(* there: Dispatch lets an alert through and makes it due to the table of  *)
(* that moment, though Spawn starts the deliveries later, with the table   *)
(* replaced meanwhile; what has started and runs no more has ended.        *)
Wanted == {d \in Delivery : Matches(d.route, d.alert)}
Pending == IF stage # "spawn" THEN {}
           ELSE {d \in [alert : alert, route : targets] : Matches(d.route, d.alert)}
AlertKeys == [a \in Alert |-> Key(a)]

Notices == INSTANCE AlertNotices WITH
    Alerts <- Alert, Topic <- AlertKeys, table <- routes, through <- sent,
    due <- tried \cup Pending, ended <- tried \ inflight

ImplementsNotices == Notices!Spec

(* architecture.md: alerts are deduplicated per kind and title within a    *)
(* 60-second window.  Whatever order the events come in, no two alerts of  *)
(* one kind and title that are sent to the sinks lie within it.            *)
SentAreSpaced ==
    \A a, b \in sent : a.n # b.n /\ Key(a) = Key(b) =>
        a.time - b.time >= Window \/ b.time - a.time >= Window

(* The two windows together silence nothing for good: every alert the      *)
(* router is done with was sent, or one of its kind and title was that is  *)
(* newer or less than the sum of the windows older (publishAlert           *)
(* suppresses by its own last alert, which the router may have dropped).   *)
EveryAlertIsHeard ==
    \A a \in raised \ alert : \E b \in sent :
        Key(b) = Key(a) /\ a.time - b.time < Window + Brief

(* Stats adds up: a delivery started is delivered, failed or running, and  *)
(* an alert published is sent, suppressed or in hand (the counters are     *)
(* bumped by goroutines of their own).                                     *)
StatsAddUp ==
    /\ delivered + failed + Cardinality(inflight) = Cardinality(tried)
    /\ Cardinality(sent) + suppressed + (IF stage = "publish" THEN 1 ELSE 0)
           = Cardinality(published)

(* A route that has left the table is sent one more alert at most, the one *)
(* whose Dispatch had copied the table (SetRoutes).                        *)
RemovedGetsOneMore == \A r \in Routes : late[r] <= 1

(* Deliveries end: sinks that do not answer hold no goroutine for ever     *)
(* (the timeouts of send and sendSyslog, and no retry).                    *)
DeliveriesEnd == inflight # {} ~> inflight = {}

=============================================================================
