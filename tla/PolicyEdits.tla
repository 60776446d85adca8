---------------------------- MODULE PolicyEdits ----------------------------
(***************************************************************************)
(* The life of one TracingPolicy through the console, as data: somebody    *)
(* authors it (applyPolicy, or kubectl), exclusions are approved one after *)
(* another (applyExclusions, and postAIApply with the same code) and it is *)
(* put into monitor and enforce mode (setTracingAction, postAIApply).      *)
(* PolicyChange has what goes on between the read and the apply of each;   *)
(* here every change is one step, and the manifest is the whole one.       *)
(***************************************************************************)
EXTENDS TracingManifest

CONSTANTS
    Manifests,  \* the manifests people write
    Requests,   \* the exclusions they approve
    Events,     \* the steps of processes in the cluster
    MaxEdits    \* bound: changes to the policy

Event == [hook : Hooks \cup {None}, ancestors : SUBSET Values,
          of : [Looked -> Values \cup {None}]]

(* followChildren is a field of the two filters of binaries, and a clause  *)
(* lists something.                                                        *)
WellFormed(m) ==
    /\ \A c \in ToSet(m.container) : ~c.follow
    /\ \A h \in ToSet(m.hooks) : \A s \in ToSet(h.sels) : \A c \in ToSet(s.clauses) :
        c.values # {} /\ (c.follow => c.on \in {"binary", "parent"})

ASSUME InputsAssumption ==
    /\ Manifests \subseteq Manifest
    /\ \A m \in Manifests : WellFormed(m)
    /\ Requests \subseteq Exclusions
    /\ Events \subseteq Event
    /\ MaxEdits \in Nat

VARIABLES
    policy,    \* the manifest in the cluster
    authored,  \* history: as its author left it
    author,    \* history: who that was
    excluded,  \* history: what was excluded since
    mode,      \* history: the mode it was put in since
    bare,      \* history: the hooks that had no selectors then
    edits      \* changes so far

vars == <<policy, authored, author, excluded, mode, bare, edits>>

(* One value that was excluded: where it is looked at, of the events of    *)
(* which hook (None: of all), and whether every selector took it.          *)
Exclusion == [hook : Hooks \cup {None}, on : Looked, value : Values, whole : BOOLEAN]

TypeOK ==
    /\ policy \in Manifest
    /\ authored \in Manifest
    /\ author \in {"kubectl", "console"}
    /\ excluded \subseteq Exclusion
    /\ mode \in {"none", "monitor", "enforce"}
    /\ bare \subseteq Hooks
    /\ edits \in 0 .. MaxEdits

-----------------------------------------------------------------------------
(* What approving ex excludes.  Paths are excluded hook by hook; where a   *)
(* selector has the argument constrained already, the notes say so.        *)
Everywhere(on, values) ==
    [hook : {None}, on : {on}, value : values, whole : {TRUE}]
OfLabels(labels) ==
    {[hook |-> None, on |-> l.key, value |-> l.value, whole |-> TRUE] : l \in labels}
TakenWhole(hook, ex) ==
    \A s \in ToSet(Selectors(hook)) : TakesPaths(s, PathArgument(hook, ex))
OfPaths(m, ex) ==
    UNION {[hook : {h.name}, on : {PathArgument(h, ex)}, value : ex.paths,
            whole : {\A g \in ToSet(m.hooks) : g.name = h.name =>
                        PathArgument(g, ex) = PathArgument(h, ex) /\ TakenWhole(g, ex)}] :
            h \in {h \in ToSet(m.hooks) : PathArgument(h, ex) # None}}
Excluding(m, ex) ==
    Everywhere("binary", ex.binaries) \cup Everywhere("parent", ex.parents)
    \cup Everywhere("container", ex.containers) \cup OfLabels(ex.labels)
    \cup OfPaths(m, ex)

Edit == edits < MaxEdits /\ edits' = edits + 1

(* A manifest replaces the policy, and what was approved before with it.   *)
Starts(m, who) ==
    /\ policy' = m
    /\ authored' = m
    /\ author' = who
    /\ excluded' = {}
    /\ mode' = "none"
    /\ bare' = {}

Init ==
    /\ policy \in Manifests
    /\ authored = policy
    /\ author = "kubectl"
    /\ excluded = {}
    /\ mode = "none"
    /\ bare = {}
    /\ edits = 0

HandEdit(m) == Edit /\ Starts(m, "kubectl")

(* applyPolicy: a new manifest, or the one in the cluster saved again from *)
(* the editor.                                                             *)
Author(m) == Edit /\ Starts(Exempt(m), "console")

Exclude(ex) ==
    /\ Edit
    /\ policy' = ApplyExclusions(policy, ex)
    /\ excluded' = excluded \cup Excluding(policy, ex)
    /\ UNCHANGED <<authored, author, mode, bare>>

PutInMode(to) ==
    /\ Edit
    /\ CanSet(policy, to)
    /\ policy' = SetTracingAction(policy, to)
    /\ mode' = to
    /\ bare' = {h.name : h \in {h \in ToSet(policy.hooks) : h.sels = <<>>}}
    /\ UNCHANGED <<authored, author, excluded>>

Next ==
    \/ \E m \in Manifests : HandEdit(m)
    \/ \E m \in Manifests \cup {policy} : Author(m)
    \/ \E ex \in Requests : Exclude(ex)
    \/ \E to \in {"monitor", "enforce"} : PutInMode(to)

Spec == Init /\ [][Next]_vars

-----------------------------------------------------------------------------
(* Whether exclusion x names event e, by what the code writes for it: the  *)
(* thing itself, and of a parent the direct children, since a new clause   *)
(* has followChildren:false ("keeps the exclusion to the named binary      *)
(* rather than everything it ever spawns", exclusions.go:218-221).  That   *)
(* the documents promise more of a parent is SubtreeIsSilent, below.       *)
Names(x, e) ==
    /\ x.hook \in {None, e.hook}
    /\ IF x.on \in Arguments THEN e.of[x.on] \in Below[x.value]
                             ELSE e.of[x.on] = x.value

(* Whether x was merged into a clause of the author's that looks at the    *)
(* descendants of what it lists as well.                                   *)
Follows(x, e) ==
    /\ x.value \in e.ancestors
    /\ \E h \in ToSet(authored.hooks) : \E s \in ToSet(h.sels) : \E c \in ToSet(s.clauses) :
        c.follow /\ c.op = "NotIn" /\ c.on = x.on

(* exclusions.go: an exclusion that silently does nothing is worse than no *)
(* exclusion.  What was approved, and was not refused by a selector, fires *)
(* no more, through every later change of the policy: of a parent, what it *)
(* starts itself, and no promise of what these start (Names).              *)
ExcludedIsSilent ==
    \A x \in excluded : x.whole =>
        \A e \in Events : Names(x, e) => ~Fires(policy, e)

(* What nobody excluded fires as its author meant it to: exclusions and    *)
(* changes of mode silence what was named (of a parent, its children), or, *)
(* where the author's own clause follows children, what descends from it,  *)
(* and nothing else: "the safer default" of exclusions.go:218-219.         *)
NothingElseIsSilenced ==
    \A e \in Events : Fires(authored, e) /\ ~Fires(policy, e) =>
        \E x \in excluded : Names(x, e) \/ Follows(x, e)

(* exclusions.go: approving the same exclusion twice is a no-op.           *)
SameTwiceIsNoOp ==
    \A ex \in Requests :
        LET once == ApplyExclusions(policy, ex)
        IN  ApplyExclusions(once, ex) = once

(* exclusions.md: apply in alert mode, always.  A policy that was put into *)
(* monitor mode kills nothing, whatever its actions were and however it is *)
(* narrowed afterwards.                                                    *)
MonitorKillsNothing ==
    mode = "monitor" => \A e \in Events : ~Kills(policy, e)

(* A policy put into enforce mode kills whatever it fires on, selectors    *)
(* that had no actions included.  Hooks that had no selectors are the      *)
(* exception: they go on reporting, also when an exclusion gives them one. *)
EnforceKillsWhatFires ==
    mode = "enforce" =>
        \A e \in Events : Fires(policy, e) => Kills(policy, e) \/ e.hook \in bare

(* A mode is what happens, also after the policy was narrowed.             *)
ModesHold == MonitorKillsNothing /\ EnforceKillsWhatFires

(* guard.go: even a cluster-wide enforcing policy leaves the console       *)
(* alone.  A policy that was authored through the console never fires on   *)
(* the console's pods, unless its author had a clause on the console's     *)
(* label already, about other pods.                                        *)
AuthoredIsExempt ==
    author = "console" /\ (\E e \in Events : e.of[SelfLabel] = SelfValue /\ Fires(policy, e))
    => /\ \E c \in authored.pod : c.on = SelfLabel /\ c.op = "NotIn"
       /\ \A c \in authored.pod : c.on = SelfLabel /\ c.op = "NotIn" => SelfValue \notin c.values

(* explain.go: when the policy fires, the explanation names the hook, and  *)
(* a selector if the hook has any.  Clauses that follow children, and      *)
(* those on what the event does not carry, are beyond it.                  *)
Plain(m) == \A h \in ToSet(m.hooks) : \A s \in ToSet(h.sels) : \A c \in ToSet(s.clauses) : ~c.follow
Carries(e, m) ==
    \A h \in ToSet(m.hooks) : h.name = e.hook =>
        \A s \in ToSet(h.sels) : \A c \in ToSet(s.clauses) : e.of[c.on] # None
FiringIsExplained ==
    Plain(policy) => \A e \in Events : Carries(e, policy) /\ Fires(policy, e) =>
        /\ Confident(policy, e)
        /\ \E h \in ToSet(policy.hooks) : h.name = e.hook /\ (h.sels = <<>> \/ Reported(policy, e) # {})

-----------------------------------------------------------------------------
(* What the repository says and the code does not do. *)

(* exclusions.go:18 says an excluded parent "Exempts a whole subtree",     *)
(* exclusions.md:29 "everything a known-good launcher spawns".  What       *)
(* descends from it fires no more.                                         *)
SubtreeIsSilent ==
    \A x \in excluded : x.on = "parent" =>
        \A e \in Events : x.value \in e.ancestors => ~Fires(policy, e)

(* exclusions.md: exclude what is legitimate, then dry-run the enforcing   *)
(* version, which tells exactly how many processes it would have killed.   *)
(* What was excluded is not counted among them.                            *)
DryRunSeesExclusions ==
    \A x \in excluded : x.whole =>
        \A e \in Events : Names(x, e) => ~WouldEnforce(policy, e)

(* explain.go: a clause the event fails means the selector did not fire,   *)
(* so it is not reported as the cause.                                     *)
ReportedSelectorsFired ==
    Plain(policy) => \A e \in Events : \A s \in Reported(policy, e) : Selects(s, e)
=============================================================================
