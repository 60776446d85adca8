------------------------- MODULE TracingManifest -------------------------
(***************************************************************************)
(* The manifest of a Tetragon policy as data: what the backend's pure      *)
(* functions do to it (k8s.ApplyExclusions, k8s.SetTracingAction,          *)
(* guard.Exempt), what they read off it (k8s.ExplainTracingMatch,          *)
(* policy.SimulateTracing), and, external, which processes' events it      *)
(* selects when Tetragon has it.                                           *)
(*                                                                         *)
(* Every filter of a manifest is a clause: it says what it looks at (the   *)
(* binary, the parent, an argument of the hook, the container's name, a    *)
(* label), how, and at which values.  A value is a name; Below says which  *)
(* paths lie under which.                                                  *)
(***************************************************************************)
EXTENDS Naturals, SequencesExt

CONSTANTS
    Values,     \* the names a clause may list
    Below,      \* the values under each value, itself among them
    Hooks,      \* the names of hooks
    Arguments,  \* the argument positions of hooks
    Keys,       \* the keys of labels
    SelfLabel,  \* the one of the console's own pods
    SelfValue,  \* and its value there
    None        \* no value, no argument, no hook

Things == {"binary", "parent", "container"}

ASSUME ValuesAssumption ==
    /\ None \notin Values \cup Hooks \cup Arguments
    /\ SelfValue \in Values
    /\ Below \in [Values -> SUBSET Values]
    /\ \A v \in Values : v \in Below[v]
ASSUME ThingsAssumption ==
    /\ SelfLabel \in Keys
    /\ Arguments \cap (Keys \cup Things) = {}
    /\ Keys \cap Things = {}

Operators == {"In", "NotIn", "Prefix", "NotPrefix"}
Actions == {"Post", "Sigkill", "Override", "NotifyEnforcer"}

(* A clause: follow is followChildren of matchBinaries.  Labels, container *)
(* names, binaries and arguments are filtered alike.  (ClauseFollowing: a  *)
(* new clause looks at descendants too.)                                   *)
Looked == Things \cup Arguments \cup Keys
Clauses == [on : Looked, op : Operators, values : SUBSET Values, follow : BOOLEAN]
ClauseFollowing(on, op, values) ==
    [on |-> on, op |-> op, values |-> values, follow |-> TRUE]
Clause(on, op, values) ==
    [on |-> on, op |-> op, values |-> values, follow |-> FALSE]

(* A selector has clauses, all of which must hold, and matchActions; a     *)
(* hook has a name, the first of its arguments that is a file, path or     *)
(* string (k8s.pathArgIndex, None if it has none) and selectors, one of    *)
(* which must hold; a manifest has hooks, and clauses on pods and          *)
(* containers that all hooks share.                                        *)
SelectorSet == [clauses : Seq(Clauses), acts : SUBSET Actions]
HookSet == [name : Hooks, path : Arguments \cup {None}, sels : Seq(SelectorSet)]
Manifest == [pod : SUBSET Clauses, container : Seq(Clauses), hooks : Seq(HookSet)]
BareSelector == [clauses |-> <<>>, acts |-> {}]

(* What a request excludes (k8s.Exclusions).  at: the argument its paths   *)
(* were seen in, None if the request does not say.                         *)
Exclusions == [binaries : SUBSET Values, parents : SUBSET Values,
               paths : SUBSET Values, at : Arguments \cup {None},
               labels : SUBSET [key : Keys, value : Values],
               containers : SUBSET Values]

-----------------------------------------------------------------------------
(* k8s.ApplyExclusions. *)

(* The first clause on a thing, and the first that has an operator too. *)
FirstOn(clauses, on) == SelectInSeq(clauses, LAMBDA c : c.on = on)
FirstOf(clauses, on, op) == SelectInSeq(clauses, LAMBDA c : c.on = on /\ c.op = op)

(* k8s.mergeNotIn, k8s.mergeBinaryFilter: into the first clause of the     *)
(* kind there is, whatever it follows; else a new one that follows         *)
(* nothing.  (AppendAlways: a clause of its own for each request.)         *)
AppendAlways(clauses, on, op, values) ==
    IF values = {} THEN clauses ELSE Append(clauses, Clause(on, op, values))
Merge(clauses, on, op, values) ==
    LET i == FirstOf(clauses, on, op)
    IN  IF values = {} THEN clauses
        ELSE IF i = 0 THEN Append(clauses, Clause(on, op, values))
        ELSE [clauses EXCEPT ![i].values = @ \cup values]

(* k8s.applyPathFilter refuses an argument that is constrained already,    *)
(* other than by a NotPrefix.                                              *)
TakesPaths(sel, at) ==
    LET i == FirstOn(sel.clauses, at)
    IN  at # None /\ (i # 0 => sel.clauses[i].op = "NotPrefix")

Narrow(sel, ex, at) ==
    LET named == Merge(Merge(sel.clauses, "binary", "NotIn", ex.binaries),
                       "parent", "NotIn", ex.parents)
    IN  [sel EXCEPT !.clauses = IF TakesPaths(sel, at)
                                THEN Merge(named, at, "NotPrefix", ex.paths)
                                ELSE named]

(* A hook without selectors gets one that selects everything. *)
Selectors(hook) == IF hook.sels = <<>> THEN <<BareSelector>> ELSE hook.sels

PathArgument(hook, ex) == IF ex.at = None THEN hook.path ELSE ex.at

(* (NarrowFirst: the first selector only.) *)
NarrowFirst(hook, ex) ==
    [hook EXCEPT !.sels = [j \in DOMAIN Selectors(hook) |->
        IF j = 1 THEN Narrow(Selectors(hook)[j], ex, PathArgument(hook, ex))
                 ELSE Selectors(hook)[j]]]
NarrowHook(hook, ex) ==
    [hook EXCEPT !.sels = [j \in DOMAIN Selectors(hook) |->
        Narrow(Selectors(hook)[j], ex, PathArgument(hook, ex))]]

(* Each label of the request is a clause of its own, unless a clause names *)
(* it already (k8s.hasExpr).                                               *)
HasExpr(pod, label) ==
    \E c \in pod : c.on = label.key /\ c.op = "NotIn" /\ label.value \in c.values
AddLabels(pod, labels) ==
    pod \cup {Clause(l.key, "NotIn", {l.value}) : l \in {l \in labels : ~HasExpr(pod, l)}}

ApplyExclusions(m, ex) ==
    [pod |-> AddLabels(m.pod, ex.labels),
     container |-> Merge(m.container, "container", "NotIn", ex.containers),
     hooks |-> [i \in DOMAIN m.hooks |-> NarrowHook(m.hooks[i], ex)]]

-----------------------------------------------------------------------------
(* k8s.SetTracingAction rewrites every action there is, and adds one to    *)
(* selectors without when it enforces; hooks without selectors stay as     *)
(* they are.  It fails when it has nothing to write.  (RewriteShown: a     *)
(* change to monitor rewrites what DetectAction knows.  RewriteOnly: no    *)
(* action is added.  RewriteRaw: the mode where the action belongs.)       *)
Target(mode) == IF mode = "enforce" THEN "Sigkill" ELSE "Post"
CanSet(m, mode) ==
    \E h \in ToSet(m.hooks) : \E s \in ToSet(h.sels) : s.acts # {} \/ mode = "enforce"
RewriteShown(sel, mode) ==
    [sel EXCEPT !.acts = IF mode = "enforce" THEN {"Sigkill"}
                         ELSE {IF a \in {"Sigkill", "Override"} THEN "Post" ELSE a : a \in @}]
RewriteRaw(sel, mode) == [sel EXCEPT !.acts = {mode : a \in @}]
RewriteOnly(sel, mode) == [sel EXCEPT !.acts = {Target(mode) : a \in @}]
Rewrite(sel, mode) ==
    [sel EXCEPT !.acts = IF @ = {} /\ mode = "monitor" THEN {} ELSE {Target(mode)}]
RewriteHook(hook, mode) ==
    [hook EXCEPT !.sels = [j \in DOMAIN hook.sels |-> Rewrite(hook.sels[j], mode)]]
SetTracingAction(m, mode) ==
    [m EXCEPT !.hooks = [i \in DOMAIN m.hooks |-> RewriteHook(m.hooks[i], mode)]]

(* k8s.DetectAction. *)
DetectAction(m) ==
    IF \E h \in ToSet(m.hooks) : \E s \in ToSet(h.sels) : s.acts \cap {"Sigkill", "Override"} # {}
    THEN "enforce" ELSE "monitor"

(* guard.Exempt takes any NotIn on the console's label for the exemption,  *)
(* whatever it names.  (ExemptBare: any podSelector.)                      *)
ExemptBare(m) ==
    IF m.pod # {} THEN m
    ELSE [m EXCEPT !.pod = {Clause(SelfLabel, "NotIn", {SelfValue})}]
Exempt(m) ==
    IF \E c \in m.pod : c.on = SelfLabel /\ c.op = "NotIn" THEN m
    ELSE [m EXCEPT !.pod = @ \cup {Clause(SelfLabel, "NotIn", {SelfValue})}]

-----------------------------------------------------------------------------
(* What the console makes of an event.  An event has a hook (None for      *)
(* those of processes that start and end), the binaries it descends from,  *)
(* and a value of everything a clause may look at.                         *)

(* k8s.opMatches: some value decides, and for the negative operators too.  *)
(* (OpMatchesAll: every value must.)                                       *)
OpMatchesAll(c, value) ==
    /\ value # None
    /\ \A v \in c.values :
        CASE c.op = "In"        -> value = v
          [] c.op = "NotIn"     -> value # v
          [] c.op = "Prefix"    -> value \in Below[v]
          [] c.op = "NotPrefix" -> value \notin Below[v]
OpMatches(c, value) ==
    /\ value # None
    /\ \E v \in c.values :
        CASE c.op = "In"        -> value = v
          [] c.op = "NotIn"     -> value # v
          [] c.op = "Prefix"    -> value \in Below[v]
          [] c.op = "NotPrefix" -> value \notin Below[v]

(* k8s.hookMatches: an event without a hook matches every hook. *)
HookMatches(hook, e) == e.hook \in {hook.name, None}

(* k8s.selectorClauses: a selector is a conjunction. *)
SelectorMatches(sel, e) == \A c \in ToSet(sel.clauses) : OpMatches(c, e.of[c.on])

(* k8s.ExplainTracingMatch reports these selectors as the cause.           *)
Reported(m, e) ==
    UNION {{s \in ToSet(h.sels) : SelectorMatches(s, e)} :
            h \in {h \in ToSet(m.hooks) : HookMatches(h, e)}}

(* policy.SimulateTracing counts an event when the explanation is          *)
(* confident: since it always carries a hook, clauses do not matter; and   *)
(* as killed when the manifest enforces.                                   *)
Confident(m, e) == \E h \in ToSet(m.hooks) : HookMatches(h, e)
WouldEnforce(m, e) == Confident(m, e) /\ DetectAction(m) = "enforce"

-----------------------------------------------------------------------------
(* What Tetragon makes of a process's step, external: from exclusions.go,  *)
(* explain.go and exclusions.md.  A selector is a conjunction, the         *)
(* selectors of a hook are tried in order and the first that holds decides *)
(* on the actions, NotIn means none of the values, and followChildren      *)
(* looks at the binaries a process descends from as well.  The processes   *)
(* are those of pods.                                                      *)
Looks(c, e) == {e.of[c.on]} \cup (IF c.follow THEN e.ancestors ELSE {})
Named(c, e) ==
    IF c.op \in {"In", "NotIn"} THEN c.values \cap Looks(c, e) # {}
    ELSE \E v \in c.values : Below[v] \cap Looks(c, e) # {}
Holds(c, e) == Named(c, e) <=> c.op \in {"In", "Prefix"}

InScope(m, e) == \A c \in m.pod \cup ToSet(m.container) : Holds(c, e)
Selects(sel, e) == \A c \in ToSet(sel.clauses) : Holds(c, e)
HookFires(hook, e) ==
    /\ hook.name = e.hook
    /\ hook.sels = <<>> \/ \E s \in ToSet(hook.sels) : Selects(s, e)
Fires(m, e) == InScope(m, e) /\ \E h \in ToSet(m.hooks) : HookFires(h, e)

Kills(m, e) ==
    /\ InScope(m, e)
    /\ \E h \in ToSet(m.hooks) :
        LET i == SelectInSeq(h.sels, LAMBDA s : Selects(s, e))
        IN  h.name = e.hook /\ i # 0 /\ h.sels[i].acts \cap (Actions \ {"Post"}) # {}
=============================================================================
