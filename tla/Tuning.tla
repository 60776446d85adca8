------------------------------- MODULE Tuning -------------------------------
(***************************************************************************)
(* How a policy is tuned: it fires, its events travel to the aggregator    *)
(* and are counted (hits.Tracker), somebody approves an exclusion of what  *)
(* was counted, and the counters are cleared so that it shows whether the  *)
(* exclusion worked.  The apply and the clearing are two steps of          *)
(* applyExclusions, while events are on their way and other people edit.   *)
(*                                                                         *)
(* An event carries its policy's name and never its namespace              *)
(* (convertEvent), so it is counted under the plain name, whichever kind   *)
(* the policy is; the handlers clear under the namespace and the name.     *)
(***************************************************************************)
EXTENDS PolicyEdits, HitTracker

CONSTANTS
    Happening,  \* the steps of processes that are counted
    Scopes      \* bounds: what is written and approved, how many changes and events

Scope == [manifests : SUBSET Manifests, requests : SUBSET Requests,
          edits : 0 .. MaxEdits, hits : Nat]
ASSUME TuningAssumption == Happening \subseteq Events /\ Scopes \subseteq Scope

(* An event has finitely many labels and arguments, and of two paths at    *)
(* most one lies under the other.                                          *)
ASSUME EventAssumption ==
    /\ IsFiniteSet(Keys) /\ IsFiniteSet(Arguments)
    /\ \A v, w \in Values : v \in Below[w] /\ w \in Below[v] => v = w

VARIABLES
    scope,       \* the bounds of this behaviour
    namespaced,  \* whether it is a TracingPolicyNamespaced
    flight,      \* events on their way to the aggregator
    hits,        \* what is counted under each key
    clearing,    \* handlers that have applied and not yet cleared
    fired,       \* events so far
    cleared,     \* history: whether they were cleared after the last exclusion
    counted      \* history: the events counted since they were cleared

fixed == <<scope, namespaced>>
tuning == <<flight, hits, clearing, fired, cleared, counted>>
tuningVars == <<vars, fixed, tuning>>

(* Tracker keys: the name, or the namespace and the name.                  *)
TrackerKeys == {"name", "namespace/name"}
EventKey == "name"
PolicyKey == IF namespaced THEN "namespace/name" ELSE "name"

(* An event, whether it is reported as enforced, and, as history, whether  *)
(* it was on its way when the counters were cleared.                       *)
Hit == [of : Events, enforced : BOOLEAN, late : BOOLEAN]

-----------------------------------------------------------------------------
(* pathsIn: a path, and the directory it is in.                            *)
Directory(path) ==
    LET above == {d \in Values \ {path} : path \in Below[d]}
    IN  {d \in above : \A other \in above : d \in Below[other]}

(* The values of an event under each dimension, in the orders they may be  *)
(* counted in: labels come as their map yields them; which argument is     *)
(* first does not matter here.                                             *)
Has(e, looked) == {on \in looked : e.of[on] # None}
Just(e, on) == {IF e.of[on] = None THEN <<>> ELSE <<e.of[on]>>}
Orders(e) ==
    [binaries |-> Just(e, "binary"),
     parentBinaries |-> Just(e, "parent"),
     containers |-> Just(e, "container"),
     podLabels |-> SetToSeqs({<<key, e.of[key]>> : key \in Has(e, Keys)}),
     paths |-> {FlattenSeq([i \in DOMAIN args |->
                              <<e.of[args[i]]>> \o SetToSeq(Directory(e.of[args[i]]))]) :
                    args \in SetToSeqs(Has(e, Arguments))}]

(* What Tetragon reports as done to the process: the action of the         *)
(* selector that decided, if it is one that Record takes for enforcement.  *)
Enforced(m, e) ==
    \E h \in ToSet(m.hooks) :
        LET i == SelectInSeq(h.sels, LAMBDA s : Selects(s, e))
        IN  h.name = e.hook /\ i # 0 /\ h.sels[i].acts \cap {"Sigkill", "Override"} # {}

TuningInit ==
    /\ Init
    /\ scope \in Scopes /\ policy \in scope.manifests
    /\ namespaced \in BOOLEAN /\ (scope.hits = 0 => ~namespaced)
    /\ flight = <<>>
    /\ hits = [key \in TrackerKeys |-> NoHits]
    /\ clearing = 0
    /\ fired = 0
    /\ cleared = TRUE
    /\ counted = <<>>

(* The policy fires. *)
Happen(e) ==
    /\ fired < scope.hits
    /\ Fires(policy, e)
    /\ fired' = fired + 1
    /\ flight' = Append(flight, [of |-> e, enforced |-> Enforced(policy, e), late |-> FALSE])
    /\ UNCHANGED <<vars, fixed, hits, clearing, cleared, counted>>

(* The stream is interrupted, or the channel is full. *)
Dropped ==
    /\ \E i \in DOMAIN flight : flight' = RemoveAt(flight, i)
    /\ UNCHANGED <<vars, fixed, hits, clearing, fired, cleared, counted>>

(* ingestEvent. *)
Ingest ==
    /\ flight # <<>>
    /\ LET hit == Head(flight)
       IN  /\ \E after \in Record(hits[EventKey], hit, Orders(hit.of), hit.enforced) :
                    hits' = [hits EXCEPT ![EventKey] = after]
           /\ counted' = Append(counted, hit)
    /\ flight' = Tail(flight)
    /\ UNCHANGED <<vars, fixed, clearing, fired, cleared>>

(* An event on its way while the counters are cleared is counted after.    *)
(* (ResetCounts: the events of the policy are kept.)                       *)
Late == [i \in DOMAIN flight |-> [flight[i] EXCEPT !.late = TRUE]]
ResetCounts ==
    /\ hits' = [hits EXCEPT ![PolicyKey] = [NoHits EXCEPT !.samples = hits[PolicyKey].samples]]
    /\ cleared' = TRUE
    /\ counted' = IF PolicyKey = EventKey THEN <<>> ELSE counted
    /\ flight' = IF PolicyKey = EventKey THEN Late ELSE flight
Reset ==
    /\ hits' = [hits EXCEPT ![PolicyKey] = NoHits]
    /\ cleared' = TRUE
    /\ counted' = IF PolicyKey = EventKey THEN <<>> ELSE counted
    /\ flight' = IF PolicyKey = EventKey THEN Late ELSE flight

(* Without events there is nothing to clear. *)
Counting == scope.hits > 0
MayEdit == edits < scope.edits

(* applyExclusions applies, and then clears the counters. *)
Approve(ex) ==
    /\ Counting /\ MayEdit
    /\ Exclude(ex)
    /\ clearing' = clearing + 1
    /\ cleared' = FALSE
    /\ UNCHANGED <<fixed, flight, hits, fired, counted>>
Clear ==
    /\ clearing > 0
    /\ clearing' = clearing - 1
    /\ Reset
    /\ UNCHANGED <<vars, fixed, fired>>

(* The same exclusion, without clearing: postAIApply, or an apply that     *)
(* took effect and failed.                                                 *)
ApproveOnly(ex) ==
    /\ MayEdit
    /\ Exclude(ex)
    /\ cleared' = FALSE
    /\ UNCHANGED <<fixed, flight, hits, clearing, fired, counted>>

resetHits ==
    /\ Counting
    /\ Reset
    /\ UNCHANGED <<vars, fixed, clearing, fired>>

EditElsewhere ==
    /\ MayEdit
    /\ \/ \E m \in scope.manifests : HandEdit(m)
       \/ \E m \in scope.manifests \cup {policy} : Author(m)
       \/ \E to \in {"monitor", "enforce"} : PutInMode(to)
    /\ UNCHANGED <<fixed, tuning>>

TuningNext ==
    \/ \E e \in Happening : Happen(e)
    \/ Dropped
    \/ Ingest
    \/ \E ex \in scope.requests : Approve(ex) \/ ApproveOnly(ex)
    \/ Clear
    \/ resetHits
    \/ EditElsewhere

TuningSpec == TuningInit /\ [][TuningNext]_tuningVars

-----------------------------------------------------------------------------
TuningTypeOK ==
    /\ TypeOK
    /\ scope \in Scopes /\ namespaced \in BOOLEAN
    /\ flight \in Seq(Hit) /\ counted \in Seq(Hit)
    /\ clearing \in Nat /\ fired \in Nat /\ fired <= scope.hits
    /\ cleared \in BOOLEAN

(* handlers_hits.go: clearing the counters makes the next few minutes      *)
(* meaningful, if the exclusion worked the policy goes quiet.  Once they   *)
(* were cleared no event that was excluded is shown but one that was on    *)
(* its way by then, through whatever edits follow.  Of a namespaced policy *)
(* the counters are never cleared.                                         *)
GoesQuiet ==
    cleared /\ ~namespaced =>
        \A x \in excluded : x.whole =>
            \A hit \in ToSet(hits[EventKey].samples) : Names(x, hit.of) => hit.late

(* The counters hold what was counted since they were cleared, and no      *)
(* more: exactly that in a dimension that has always had room, and at most *)
(* that where quiet values were forgotten (Record, evictQuietest).  Each   *)
(* label of an event and each of its arguments comes once: with its value, *)
(* and an argument with its directory as well.                             *)
Came(e) ==
    LET Once(looked) == {<<on, e.of[on]>> : on \in Has(e, looked)}
    IN  [binaries |-> Once({"binary"}),
         parentBinaries |-> Once({"parent"}),
         containers |-> Once({"container"}),
         podLabels |-> {<<key, <<key, e.of[key]>>>> : key \in Has(e, Keys)},
         paths |-> UNION {{arg} \X ({e.of[arg]} \cup Directory(e.of[arg])) :
                              arg \in Has(e, Arguments)}]
AllCame(came, dim) == UNION {{i} \X Came(came[i].of)[dim] : i \in DOMAIN came}
Tally(came, dim) ==
    LET Of(v) == {c \in AllCame(came, dim) : c[2][2] = v}
    IN  [v \in {c[2][2] : c \in AllCame(came, dim)} |->
            [count |-> Cardinality(Of(v)),
             enforced |-> Cardinality({c \in Of(v) : came[c[1]].enforced})]]
BucketIsTrue(bucket, tally) ==
    /\ DOMAIN bucket \subseteq DOMAIN tally /\ Cardinality(DOMAIN bucket) <= MaxValues
    /\ \A v \in DOMAIN bucket :
        /\ bucket[v] \in Value /\ bucket[v].enforced <= bucket[v].count
        /\ 1 <= bucket[v].count /\ bucket[v].count <= tally[v].count
        /\ bucket[v].enforced <= tally[v].enforced
    /\ Cardinality(DOMAIN tally) <= MaxValues => bucket = tally
CountsAreTrue ==
    LET shown == hits[EventKey]
    IN  /\ shown.total = Len(counted)
        /\ shown.enforced = Cardinality({i \in DOMAIN counted : counted[i].enforced})
        /\ IsTailOf(shown.samples, counted, MaxSamples)
        /\ \A dim \in Dimensions : BucketIsTrue(shown.dims[dim], Tally(counted, dim))
        /\ hits["namespace/name"] = NoHits
=============================================================================
