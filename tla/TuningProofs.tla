---------------------------- MODULE TuningProofs ----------------------------
(***************************************************************************)
(* Proofs about the manifest of a policy through exclusions and changes of *)
(* mode, for any manifests, exclusions and events.  Tuning a policy is     *)
(* editing it, so what holds of every edit holds there; and from that what *)
(* is excluded fires no more it follows that it is counted no more.  Last, *)
(* that the counters are right: a bucket is true of a tally that forgets   *)
(* nothing, and stays so with each value that is recorded in both; and in  *)
(* whichever order the values of an event come, the tally is the same.     *)
(***************************************************************************)
EXTENDS Tuning, SequenceFacts

(* FiniteSetsExt!Min finds the least of any set of naturals. *)
LEMMA MinOfNats ==
    ASSUME NEW S \in SUBSET Nat, S # {}
    PROVE  Min(S) \in S /\ \A y \in S : Min(S) =< y
<1>1. \E x \in S : \A y \in S : ~(<<y, x>> \in OpToRel(<, Nat))
  BY NatLessThanWellFounded, WFMin, Zenon
<1>2. PICK x \in S : \A y \in S : ~(<<y, x>> \in OpToRel(<, Nat))
  BY <1>1
<1>3. \A y \in S : ~(y < x)
  BY <1>2 DEF OpToRel
<1>4. \A y \in S : x =< y
  BY <1>3
<1>5. Min(S) = CHOOSE z \in S : \A y \in S : z =< y
  BY DEF Min
<1> QED BY <1>4, <1>5

(* What SelectInSeq finds: nothing, or the first that is looked for. *)
LEMMA FirstOnIsFirst ==
    ASSUME NEW cl \in Seq(Clauses), NEW on
    PROVE  LET k == FirstOn(cl, on)
           IN  \/ k = 0 /\ \A i \in 1 .. Len(cl) : cl[i].on # on
               \/ /\ k \in 1 .. Len(cl) /\ cl[k].on = on
                  /\ \A i \in 1 .. Len(cl) : cl[i].on = on => k =< i
<1> DEFINE I == {i \in 1 .. Len(cl) : cl[i].on = on}
<1>1. FirstOn(cl, on) = IF I # {} THEN Min(I) ELSE 0
  BY DEF FirstOn, SelectInSeq
<1>2. I # {} => Min(I) \in I /\ \A y \in I : Min(I) =< y
  <2>1. I \in SUBSET Nat
    OBVIOUS
  <2> HIDE DEF I
  <2> QED BY <2>1, MinOfNats
<1> QED BY <1>1, <1>2

LEMMA FirstOfIsFirst ==
    ASSUME NEW cl \in Seq(Clauses), NEW on, NEW op
    PROVE  LET k == FirstOf(cl, on, op)
           IN  \/ k = 0 /\ \A i \in 1 .. Len(cl) : ~(cl[i].on = on /\ cl[i].op = op)
               \/ /\ k \in 1 .. Len(cl) /\ cl[k].on = on /\ cl[k].op = op
                  /\ \A i \in 1 .. Len(cl) : cl[i].on = on /\ cl[i].op = op => k =< i
<1> DEFINE I == {i \in 1 .. Len(cl) : cl[i].on = on /\ cl[i].op = op}
<1>1. FirstOf(cl, on, op) = IF I # {} THEN Min(I) ELSE 0
  BY DEF FirstOf, SelectInSeq
<1>2. I # {} => Min(I) \in I /\ \A y \in I : Min(I) =< y
  <2>1. I \in SUBSET Nat
    OBVIOUS
  <2> HIDE DEF I
  <2> QED BY <2>1, MinOfNats
<1> QED BY <1>1, <1>2

(* What a merge does to a list of clauses: each clause stays in its place, *)
(* but for its values, which may grow; a new one comes last and is what    *)
(* was asked for; and the first of the kind has the new values.            *)
Extends(cl, M) ==
    /\ Len(cl) =< Len(M)
    /\ \A i \in 1 .. Len(cl) : /\ M[i].on = cl[i].on /\ M[i].op = cl[i].op
                               /\ cl[i].values \subseteq M[i].values
Absorbs(cl, on, op, vals) ==
    vals = {} \/ (FirstOf(cl, on, op) # 0 /\ vals \subseteq cl[FirstOf(cl, on, op)].values)

LEMMA MergeShape ==
    ASSUME NEW cl \in Seq(Clauses), NEW on \in Looked, NEW op \in Operators,
           NEW vals \in SUBSET Values
    PROVE  /\ Merge(cl, on, op, vals) \in Seq(Clauses)
           /\ Extends(cl, Merge(cl, on, op, vals))
           /\ \A i \in Len(cl) + 1 .. Len(Merge(cl, on, op, vals)) :
                Merge(cl, on, op, vals)[i].on = on /\ Merge(cl, on, op, vals)[i].op = op
           /\ Absorbs(Merge(cl, on, op, vals), on, op, vals)
<1> DEFINE k == FirstOf(cl, on, op)
           M == Merge(cl, on, op, vals)
<1>1. \/ k = 0 /\ \A i \in 1 .. Len(cl) : ~(cl[i].on = on /\ cl[i].op = op)
      \/ /\ k \in 1 .. Len(cl) /\ cl[k].on = on /\ cl[k].op = op
         /\ \A i \in 1 .. Len(cl) : cl[i].on = on /\ cl[i].op = op => k =< i
  BY FirstOfIsFirst
<1>2. M = IF vals = {} THEN cl
          ELSE IF k = 0 THEN Append(cl, Clause(on, op, vals))
          ELSE [cl EXCEPT ![k].values = @ \cup vals]
  BY DEF Merge
<1> SUFFICES /\ M \in Seq(Clauses)
             /\ Extends(cl, M)
             /\ \A i \in Len(cl) + 1 .. Len(M) : M[i].on = on /\ M[i].op = op
             /\ Absorbs(M, on, op, vals)
  OBVIOUS
<1> HIDE DEF k, M
<1>3. CASE vals = {}
  BY <1>2, <1>3 DEF Extends, Absorbs
<1>4. CASE vals # {} /\ k = 0
  <2> DEFINE c == Clause(on, op, vals)
  <2>1. c \in Clauses /\ c.on = on /\ c.op = op /\ c.values = vals
    BY DEF Clause, Clauses
  <2> HIDE DEF c
  <2>2. M = Append(cl, c)
    BY <1>2, <1>4 DEF c
  <2>3. /\ M \in Seq(Clauses) /\ Len(M) = Len(cl) + 1
        /\ \A i \in 1 .. Len(cl) : M[i] = cl[i]
        /\ M[Len(cl) + 1] = c
    BY <2>1, <2>2
  <2>4. FirstOf(M, on, op) = Len(cl) + 1
    <3>1. \A i \in 1 .. Len(cl) : ~(M[i].on = on /\ M[i].op = op)
      BY <1>1, <1>4, <2>3
    <3>2. Len(cl) + 1 \in 1 .. Len(M)
      BY <2>3
    <3> QED BY <2>1, <2>3, <3>1, <3>2, FirstOfIsFirst
  <2> QED BY <2>1, <2>3, <2>4 DEF Extends, Absorbs
<1>5. CASE vals # {} /\ k # 0
  <2>1. /\ k \in 1 .. Len(cl) /\ cl[k] \in Clauses /\ cl[k].on = on /\ cl[k].op = op
        /\ \A i \in 1 .. Len(cl) : cl[i].on = on /\ cl[i].op = op => k =< i
    BY <1>1, <1>5
  <2> DEFINE d == [cl[k] EXCEPT !.values = @ \cup vals]
  <2>2. /\ d \in Clauses /\ d.on = on /\ d.op = op
        /\ vals \subseteq d.values /\ cl[k].values \subseteq d.values
    BY <2>1 DEF Clauses
  <2> HIDE DEF d
  <2>3. M = [cl EXCEPT ![k] = d]
    BY <1>2, <1>5, <2>1 DEF d
  <2>4. /\ M \in Seq(Clauses) /\ Len(M) = Len(cl) /\ M[k] = d
        /\ \A i \in 1 .. Len(cl) : i # k => M[i] = cl[i]
    BY <2>1, <2>2, <2>3
  <2>5. FirstOf(M, on, op) = k
    <3>1. M[k].on = on /\ M[k].op = op
      BY <2>2, <2>4
    <3>2. \A i \in 1 .. Len(M) : M[i].on = on /\ M[i].op = op => k =< i
      BY <2>1, <2>4
    <3> QED BY <2>1, <2>4, <3>1, <3>2, FirstOfIsFirst
  <2>6. Extends(cl, M)
    BY <2>1, <2>2, <2>4 DEF Extends
  <2> QED BY <1>5, <2>2, <2>4, <2>5, <2>6 DEF Absorbs
<1> QED BY <1>3, <1>4, <1>5

-----------------------------------------------------------------------------
(* A list of clauses filters value v of what it looks at.  What filters    *)
(* goes on filtering through every merge.                                  *)
Lists(cl, on, op, v) == \E d \in ToSet(cl) : d.on = on /\ d.op = op /\ v \in d.values

LEMMA MergeLists ==
    ASSUME NEW cl \in Seq(Clauses), NEW on \in Looked, NEW op \in Operators,
           NEW vals \in SUBSET Values
    PROVE  /\ Merge(cl, on, op, vals) \in Seq(Clauses)
           /\ \A t, p, v : Lists(cl, t, p, v) => Lists(Merge(cl, on, op, vals), t, p, v)
           /\ \A v \in vals : Lists(Merge(cl, on, op, vals), on, op, v)
<1> DEFINE M == Merge(cl, on, op, vals)
<1>1. M \in Seq(Clauses) /\ Extends(cl, M) /\ Absorbs(M, on, op, vals)
  BY MergeShape
<1> HIDE DEF M
<1>2. \A t, p, v : Lists(cl, t, p, v) => Lists(M, t, p, v)
  BY <1>1 DEF Lists, ToSet, Extends
<1>3. \A v \in vals : Lists(M, on, op, v)
  <2> SUFFICES ASSUME NEW v \in vals PROVE Lists(M, on, op, v)
    OBVIOUS
  <2> DEFINE k == FirstOf(M, on, op)
  <2>1. k # 0 /\ v \in M[k].values
    BY <1>1 DEF Absorbs
  <2>2. k \in 1 .. Len(M) /\ M[k].on = on /\ M[k].op = op
    BY <1>1, <2>1, FirstOfIsFirst
  <2> HIDE DEF k
  <2> QED BY <1>1, <2>1, <2>2 DEF Lists, ToSet
<1> QED BY <1>1, <1>2, <1>3 DEF M

LEMMA NarrowLists ==
    ASSUME NEW sel \in SelectorSet, NEW ex \in Exclusions,
           NEW at \in Arguments \cup {None}
    PROVE  /\ Narrow(sel, ex, at) \in SelectorSet
           /\ Narrow(sel, ex, at).acts = sel.acts
           /\ \A t, p, v : Lists(sel.clauses, t, p, v)
                => Lists(Narrow(sel, ex, at).clauses, t, p, v)
           /\ \A v \in ex.binaries : Lists(Narrow(sel, ex, at).clauses, "binary", "NotIn", v)
           /\ \A v \in ex.parents : Lists(Narrow(sel, ex, at).clauses, "parent", "NotIn", v)
           /\ TakesPaths(sel, at) =>
                \A v \in ex.paths : Lists(Narrow(sel, ex, at).clauses, at, "NotPrefix", v)
<1> DEFINE b == Merge(sel.clauses, "binary", "NotIn", ex.binaries)
           n == Merge(b, "parent", "NotIn", ex.parents)
           a == Merge(n, at, "NotPrefix", ex.paths)
<1>1. /\ sel.clauses \in Seq(Clauses) /\ sel.acts \in SUBSET Actions
      /\ ex.binaries \in SUBSET Values /\ ex.parents \in SUBSET Values
      /\ ex.paths \in SUBSET Values
  BY DEF SelectorSet, Exclusions
<1>2. {"binary", "parent"} \subseteq Looked /\ {"NotIn", "NotPrefix"} \subseteq Operators
  BY DEF Looked, Things, Operators
<1>3. /\ b \in Seq(Clauses)
      /\ \A t, p, v : Lists(sel.clauses, t, p, v) => Lists(b, t, p, v)
      /\ \A v \in ex.binaries : Lists(b, "binary", "NotIn", v)
  BY <1>1, <1>2, MergeLists
<1> HIDE DEF b
<1>4. /\ n \in Seq(Clauses)
      /\ \A t, p, v : Lists(b, t, p, v) => Lists(n, t, p, v)
      /\ \A v \in ex.parents : Lists(n, "parent", "NotIn", v)
  BY <1>1, <1>2, <1>3, MergeLists
<1> HIDE DEF n
<1>5. at # None =>
        /\ a \in Seq(Clauses)
        /\ \A t, p, v : Lists(n, t, p, v) => Lists(a, t, p, v)
        /\ \A v \in ex.paths : Lists(a, at, "NotPrefix", v)
  <2>1. at # None => at \in Looked
    BY DEF Looked
  <2> QED BY <1>1, <1>2, <1>4, <2>1, MergeLists
<1> HIDE DEF a
<1>6. TakesPaths(sel, at) => at # None
  BY DEF TakesPaths
<1>7. Narrow(sel, ex, at) = [clauses |-> IF TakesPaths(sel, at) THEN a ELSE n, acts |-> sel.acts]
  BY DEF Narrow, SelectorSet, a, n, b
<1>8. Narrow(sel, ex, at).clauses = IF TakesPaths(sel, at) THEN a ELSE n
  BY <1>7
<1>9. Narrow(sel, ex, at) \in SelectorSet /\ Narrow(sel, ex, at).acts = sel.acts
  BY <1>1, <1>4, <1>5, <1>6, <1>7 DEF SelectorSet
<1> QED BY <1>3, <1>4, <1>5, <1>6, <1>8, <1>9

(* All selectors of a hook filter v, and it has selectors. *)
HookLists(h, on, op, v) ==
    h.sels # <<>> /\ \A s \in ToSet(h.sels) : Lists(s.clauses, on, op, v)

LEMMA NarrowHookLists ==
    ASSUME NEW h \in HookSet, NEW ex \in Exclusions
    PROVE  /\ NarrowHook(h, ex) \in HookSet
           /\ NarrowHook(h, ex).name = h.name
           /\ \A s \in ToSet(NarrowHook(h, ex).sels) :
                s.acts = {} \/ \E z \in ToSet(h.sels) : s.acts = z.acts
           /\ h.sels # <<>> =>
                /\ NarrowHook(h, ex).sels # <<>>
                /\ \A s \in ToSet(NarrowHook(h, ex).sels) : \E z \in ToSet(h.sels) : s.acts = z.acts
           /\ \A t, p, v : HookLists(h, t, p, v) => HookLists(NarrowHook(h, ex), t, p, v)
           /\ \A v \in ex.binaries : HookLists(NarrowHook(h, ex), "binary", "NotIn", v)
           /\ \A v \in ex.parents : HookLists(NarrowHook(h, ex), "parent", "NotIn", v)
           /\ TakenWhole(h, ex) => \A v \in ex.paths :
                HookLists(NarrowHook(h, ex), PathArgument(h, ex), "NotPrefix", v)
<1> DEFINE S == Selectors(h)
           at == PathArgument(h, ex)
           N == [j \in DOMAIN S |-> Narrow(S[j], ex, at)]
<1>1. h.sels \in Seq(SelectorSet) /\ h.name \in Hooks /\ h.path \in Arguments \cup {None}
  BY DEF HookSet
<1>2. BareSelector \in SelectorSet /\ BareSelector.acts = {}
  BY DEF BareSelector, SelectorSet
<1>3. /\ S \in Seq(SelectorSet) /\ S # <<>>
      /\ h.sels # <<>> => S = h.sels
      /\ \A s \in ToSet(S) : s.acts = {} \/ \E z \in ToSet(h.sels) : s.acts = z.acts
  BY <1>1, <1>2 DEF Selectors, ToSet
<1>4. at \in Arguments \cup {None}
  BY <1>1 DEF PathArgument, Exclusions
<1> HIDE DEF S, at
<1>5. \A j \in DOMAIN S : S[j] \in SelectorSet /\ S[j] \in ToSet(S)
  BY <1>3 DEF ToSet
<1>6. \A j \in DOMAIN S :
        /\ N[j] \in SelectorSet
        /\ N[j].acts = S[j].acts
        /\ \A t, p, v : Lists(S[j].clauses, t, p, v) => Lists(N[j].clauses, t, p, v)
        /\ \A v \in ex.binaries : Lists(N[j].clauses, "binary", "NotIn", v)
        /\ \A v \in ex.parents : Lists(N[j].clauses, "parent", "NotIn", v)
        /\ TakesPaths(S[j], at) => \A v \in ex.paths : Lists(N[j].clauses, at, "NotPrefix", v)
  BY <1>4, <1>5, NarrowLists
<1>7. N \in Seq(SelectorSet) /\ DOMAIN N = DOMAIN S /\ N # <<>>
  BY <1>3, <1>6
<1>8. NarrowHook(h, ex) = [name |-> h.name, path |-> h.path, sels |-> N]
  BY DEF NarrowHook, HookSet, S, at
<1> HIDE DEF N
<1>9. NarrowHook(h, ex) \in HookSet /\ NarrowHook(h, ex).name = h.name /\ NarrowHook(h, ex).sels = N
  BY <1>1, <1>7, <1>8 DEF HookSet
<1>10. \A s \in ToSet(N) : \E j \in DOMAIN S : s = N[j]
  BY <1>7 DEF ToSet
<1>11. \A s \in ToSet(N) : s.acts = {} \/ \E z \in ToSet(h.sels) : s.acts = z.acts
  BY <1>3, <1>5, <1>6, <1>10
<1>12. h.sels # <<>> => \A s \in ToSet(N) : \E z \in ToSet(h.sels) : s.acts = z.acts
  BY <1>3, <1>5, <1>6, <1>10
<1>13. \A t, p, v : HookLists(h, t, p, v) => \A s \in ToSet(N) : Lists(s.clauses, t, p, v)
  BY <1>3, <1>5, <1>6, <1>10 DEF HookLists
<1>14. TakenWhole(h, ex) => \A j \in DOMAIN S : TakesPaths(S[j], at)
  BY <1>5 DEF TakenWhole, S, at
<1> QED BY <1>6, <1>7, <1>9, <1>10, <1>11, <1>12, <1>13, <1>14 DEF HookLists, at

-----------------------------------------------------------------------------
(* The two changes of a manifest, hook by hook. *)

LEMMA ExclusionFacts ==
    ASSUME NEW m \in Manifest, NEW ex \in Exclusions
    PROVE  /\ ApplyExclusions(m, ex) \in Manifest
           /\ ToSet(ApplyExclusions(m, ex).hooks) = {NarrowHook(h, ex) : h \in ToSet(m.hooks)}
           /\ m.pod \subseteq ApplyExclusions(m, ex).pod
           /\ \A l \in ex.labels : HasExpr(ApplyExclusions(m, ex).pod, l)
           /\ \A t, p, v : Lists(m.container, t, p, v)
                => Lists(ApplyExclusions(m, ex).container, t, p, v)
           /\ \A v \in ex.containers :
                Lists(ApplyExclusions(m, ex).container, "container", "NotIn", v)
<1> DEFINE A == ApplyExclusions(m, ex)
           c == Merge(m.container, "container", "NotIn", ex.containers)
           p == AddLabels(m.pod, ex.labels)
           H == [i \in DOMAIN m.hooks |-> NarrowHook(m.hooks[i], ex)]
<1>1. /\ m.pod \in SUBSET Clauses /\ m.container \in Seq(Clauses) /\ m.hooks \in Seq(HookSet)
      /\ ex.containers \in SUBSET Values
      /\ ex.labels \in SUBSET [key : Keys, value : Values]
  BY DEF Manifest, Exclusions
<1>2. "container" \in Looked /\ "NotIn" \in Operators /\ Keys \subseteq Looked
  BY DEF Looked, Things, Operators
<1>3. /\ c \in Seq(Clauses)
      /\ \A t, q, v : Lists(m.container, t, q, v) => Lists(c, t, q, v)
      /\ \A v \in ex.containers : Lists(c, "container", "NotIn", v)
  BY <1>1, <1>2, MergeLists
<1>4. p \in SUBSET Clauses /\ m.pod \subseteq p /\ \A l \in ex.labels : HasExpr(p, l)
  <2>1. \A l \in ex.labels : /\ Clause(l.key, "NotIn", {l.value}) \in Clauses
                              /\ Clause(l.key, "NotIn", {l.value}).on = l.key
                              /\ Clause(l.key, "NotIn", {l.value}).op = "NotIn"
                              /\ l.value \in Clause(l.key, "NotIn", {l.value}).values
    BY <1>1, <1>2 DEF Clause, Clauses
  <2>2. \A l \in ex.labels : HasExpr(m.pod, l) \/ Clause(l.key, "NotIn", {l.value}) \in p
    BY DEF AddLabels
  <2>3. p \in SUBSET Clauses /\ m.pod \subseteq p
    BY <1>1, <2>1 DEF AddLabels
  <2> QED BY <2>1, <2>2, <2>3 DEF HasExpr
<1>5. \A i \in DOMAIN m.hooks : m.hooks[i] \in HookSet /\ NarrowHook(m.hooks[i], ex) \in HookSet
  BY <1>1, NarrowHookLists
<1>6. H \in Seq(HookSet) /\ ToSet(H) = {NarrowHook(h, ex) : h \in ToSet(m.hooks)}
  BY <1>1, <1>5 DEF ToSet
<1>7. A = [pod |-> p, container |-> c, hooks |-> H]
  BY DEF ApplyExclusions
<1> HIDE DEF p, c, H
<1>8. A.pod = p /\ A.container = c /\ A.hooks = H /\ A \in Manifest
  BY <1>3, <1>4, <1>6, <1>7 DEF Manifest
<1> QED BY <1>3, <1>4, <1>6, <1>8

LEMMA RewriteHookFacts ==
    ASSUME NEW h \in HookSet, NEW to \in {"monitor", "enforce"}
    PROVE  /\ RewriteHook(h, to) \in HookSet
           /\ RewriteHook(h, to).name = h.name
           /\ h.sels # <<>> => RewriteHook(h, to).sels # <<>>
           /\ \A s \in ToSet(RewriteHook(h, to).sels) :
                s.acts \in {{}, {Target(to)}} /\ (to = "enforce" => s.acts = {"Sigkill"})
           /\ \A t, p, v : HookLists(h, t, p, v) => HookLists(RewriteHook(h, to), t, p, v)
<1> DEFINE R == [j \in DOMAIN h.sels |-> Rewrite(h.sels[j], to)]
<1>1. h.sels \in Seq(SelectorSet) /\ h.name \in Hooks /\ h.path \in Arguments \cup {None}
  BY DEF HookSet
<1>2. Target(to) \in Actions /\ (to = "enforce" => Target(to) = "Sigkill")
  BY DEF Target, Actions
<1>3. \A s \in SelectorSet :
        /\ Rewrite(s, to) \in SelectorSet
        /\ Rewrite(s, to).clauses = s.clauses
        /\ Rewrite(s, to).acts \in {{}, {Target(to)}}
        /\ to = "enforce" => Rewrite(s, to).acts = {"Sigkill"}
  BY <1>2 DEF Rewrite, SelectorSet
<1>4. \A j \in DOMAIN h.sels : h.sels[j] \in SelectorSet /\ h.sels[j] \in ToSet(h.sels)
  BY <1>1 DEF ToSet
<1>5. /\ R \in Seq(SelectorSet) /\ DOMAIN R = DOMAIN h.sels
      /\ h.sels # <<>> => R # <<>>
  BY <1>1, <1>3, <1>4
<1>6. RewriteHook(h, to) = [name |-> h.name, path |-> h.path, sels |-> R]
  BY DEF RewriteHook, HookSet
<1>7. \A s \in ToSet(R) : \E j \in DOMAIN h.sels : s = Rewrite(h.sels[j], to)
  BY <1>5 DEF ToSet
<1> HIDE DEF R
<1>8. RewriteHook(h, to) \in HookSet /\ RewriteHook(h, to).name = h.name /\ RewriteHook(h, to).sels = R
  BY <1>1, <1>5, <1>6 DEF HookSet
<1> QED BY <1>3, <1>4, <1>5, <1>7, <1>8 DEF HookLists

LEMMA SetFacts ==
    ASSUME NEW m \in Manifest, NEW to \in {"monitor", "enforce"}
    PROVE  /\ SetTracingAction(m, to) \in Manifest
           /\ SetTracingAction(m, to).pod = m.pod
           /\ SetTracingAction(m, to).container = m.container
           /\ ToSet(SetTracingAction(m, to).hooks) = {RewriteHook(h, to) : h \in ToSet(m.hooks)}
<1> DEFINE H == [i \in DOMAIN m.hooks |-> RewriteHook(m.hooks[i], to)]
<1>1. /\ m.pod \in SUBSET Clauses /\ m.container \in Seq(Clauses) /\ m.hooks \in Seq(HookSet)
  BY DEF Manifest
<1>2. \A i \in DOMAIN m.hooks : m.hooks[i] \in HookSet /\ RewriteHook(m.hooks[i], to) \in HookSet
  BY <1>1, RewriteHookFacts
<1>3. H \in Seq(HookSet) /\ ToSet(H) = {RewriteHook(h, to) : h \in ToSet(m.hooks)}
  BY <1>1, <1>2 DEF ToSet
<1>4. SetTracingAction(m, to) = [pod |-> m.pod, container |-> m.container, hooks |-> H]
  <2>1. SetTracingAction(m, to) = [m EXCEPT !.hooks = H]
    BY DEF SetTracingAction
  <2> HIDE DEF H
  <2> QED BY <2>1 DEF Manifest
<1> HIDE DEF H
<1> QED BY <1>1, <1>3, <1>4 DEF Manifest

-----------------------------------------------------------------------------
(* Types. *)

LEMMA ExemptFacts ==
    ASSUME NEW m \in Manifest
    PROVE  /\ Exempt(m) \in Manifest
           /\ \E c \in Exempt(m).pod : c.on = SelfLabel /\ c.op = "NotIn"
<1> DEFINE c == Clause(SelfLabel, "NotIn", {SelfValue})
<1>1. c \in Clauses /\ c.on = SelfLabel /\ c.op = "NotIn"
  BY ValuesAssumption, ThingsAssumption DEF Clause, Clauses, Looked, Operators
<1> HIDE DEF c
<1>2. [m EXCEPT !.pod = @ \cup {c}] \in Manifest
  BY <1>1 DEF Manifest
<1>3. c \in [m EXCEPT !.pod = @ \cup {c}].pod
  BY DEF Manifest
<1> QED BY <1>1, <1>2, <1>3 DEF Exempt, c

LEMMA ExcludingTypes ==
    ASSUME NEW m \in Manifest, NEW ex \in Exclusions
    PROVE  Excluding(m, ex) \subseteq Exclusion
<1>1. /\ ex.binaries \subseteq Values /\ ex.parents \subseteq Values
      /\ ex.containers \subseteq Values /\ ex.paths \subseteq Values
      /\ ex.labels \subseteq [key : Keys, value : Values]
      /\ ex.at \in Arguments \cup {None}
  BY DEF Exclusions
<1>2. Things \subseteq Looked /\ Arguments \subseteq Looked /\ Keys \subseteq Looked
  BY DEF Looked
<1>3. Everywhere("binary", ex.binaries) \subseteq Exclusion
  BY <1>1, <1>2 DEF Everywhere, Exclusion, Things
<1>4. Everywhere("parent", ex.parents) \subseteq Exclusion
  BY <1>1, <1>2 DEF Everywhere, Exclusion, Things
<1>5. Everywhere("container", ex.containers) \subseteq Exclusion
  BY <1>1, <1>2 DEF Everywhere, Exclusion, Things
<1>6. OfLabels(ex.labels) \subseteq Exclusion
  <2>1. \A l \in ex.labels : l.key \in Looked /\ l.value \in Values
    BY <1>1, <1>2
  <2>2. \A l \in ex.labels :
          [hook |-> None, on |-> l.key, value |-> l.value, whole |-> TRUE] \in Exclusion
    BY <2>1 DEF Exclusion
  <2> QED BY <2>2 DEF OfLabels
<1>7. OfPaths(m, ex) \subseteq Exclusion
  <2>1. \A h \in ToSet(m.hooks) : h.name \in Hooks /\ PathArgument(h, ex) \in Arguments \cup {None}
    <3>1. \A h \in ToSet(m.hooks) : h \in HookSet
      BY DEF Manifest, ToSet
    <3> QED BY <1>1, <3>1 DEF HookSet, PathArgument
  <2> DEFINE Of(h) == [hook : {h.name}, on : {PathArgument(h, ex)}, value : ex.paths,
                       whole : {\A g \in ToSet(m.hooks) : g.name = h.name =>
                            PathArgument(g, ex) = PathArgument(h, ex) /\ TakenWhole(g, ex)}]
  <2>2. ASSUME NEW h \in ToSet(m.hooks), PathArgument(h, ex) # None
        PROVE  Of(h) \subseteq Exclusion
    BY <1>1, <1>2, <2>1, <2>2 DEF Exclusion
  <2>3. OfPaths(m, ex) = UNION {Of(h) : h \in {h \in ToSet(m.hooks) : PathArgument(h, ex) # None}}
    BY DEF OfPaths
  <2> HIDE DEF Of
  <2> QED BY <2>2, <2>3
<1> QED BY <1>3, <1>4, <1>5, <1>6, <1>7 DEF Excluding

LEMMA InitTyped == Init => TypeOK
<1> SUFFICES ASSUME Init PROVE TypeOK
  OBVIOUS
<1>1. policy \in Manifest
  BY InputsAssumption DEF Init
<1> QED BY <1>1, InputsAssumption DEF Init, TypeOK

LEMMA NextTyped == TypeOK /\ [Next]_vars => TypeOK'
<1> SUFFICES ASSUME TypeOK, [Next]_vars PROVE TypeOK'
  OBVIOUS
<1>0. Edit => edits' \in 0 .. MaxEdits
  BY InputsAssumption DEF Edit, TypeOK
<1>1. ASSUME NEW m \in Manifests, HandEdit(m) PROVE TypeOK'
  BY <1>0, <1>1, InputsAssumption DEF HandEdit, Starts, TypeOK
<1>2. ASSUME NEW m \in Manifests \cup {policy}, Author(m) PROVE TypeOK'
  <2>1. m \in Manifest
    BY InputsAssumption DEF TypeOK
  <2>2. Exempt(m) \in Manifest
    BY <2>1, ExemptFacts
  <2> QED BY <1>0, <1>2, <2>2 DEF Author, Starts, TypeOK
<1>3. ASSUME NEW ex \in Requests, Exclude(ex) PROVE TypeOK'
  <2>1. ex \in Exclusions
    BY InputsAssumption
  <2>2. policy' \in Manifest /\ excluded' \subseteq Exclusion
    BY <1>3, <2>1, ExclusionFacts, ExcludingTypes DEF Exclude, TypeOK
  <2> QED BY <1>0, <1>3, <2>2 DEF Exclude, TypeOK
<1>4. ASSUME NEW to \in {"monitor", "enforce"}, PutInMode(to) PROVE TypeOK'
  <2>1. policy' \in Manifest
    BY <1>4, SetFacts DEF PutInMode, TypeOK
  <2>2. bare' \subseteq Hooks
    <3>1. \A h \in ToSet(policy.hooks) : h \in HookSet
      BY DEF TypeOK, Manifest, ToSet
    <3> QED BY <1>4, <3>1 DEF PutInMode, HookSet
  <2> QED BY <1>0, <1>4, <2>1, <2>2 DEF PutInMode, TypeOK
<1>5. CASE UNCHANGED vars
  BY <1>5 DEF vars, TypeOK
<1> QED BY <1>1, <1>2, <1>3, <1>4, <1>5 DEF Next

(* Every manifest the console builds is one, and every variable has its    *)
(* type.                                                                   *)
THEOREM TypeCorrect == Spec => []TypeOK
BY InitTyped, NextTyped, PTL DEF Spec

-----------------------------------------------------------------------------
(* A policy put into monitor mode has no other action than Post, and       *)
(* selectors that exclusions make have none at all.                        *)
OnlyPosts ==
    mode = "monitor" =>
        \A h \in ToSet(policy.hooks) : \A s \in ToSet(h.sels) : s.acts \subseteq {"Post"}

LEMMA OnlyPostsStays == TypeOK /\ OnlyPosts /\ [Next]_vars => OnlyPosts'
<1> SUFFICES ASSUME TypeOK, OnlyPosts, [Next]_vars PROVE OnlyPosts'
  OBVIOUS
<1>0. \A h \in ToSet(policy.hooks) : h \in HookSet
  BY DEF TypeOK, Manifest, ToSet
<1>1. ASSUME NEW m, NEW who, Starts(m, who) PROVE OnlyPosts'
  BY <1>1 DEF Starts, OnlyPosts
<1>2. ASSUME NEW ex \in Requests, Exclude(ex) PROVE OnlyPosts'
  <2>1. ex \in Exclusions
    BY InputsAssumption
  <2>2. ToSet(policy'.hooks) = {NarrowHook(h, ex) : h \in ToSet(policy.hooks)}
    BY <1>2, <2>1, ExclusionFacts DEF Exclude, TypeOK
  <2>3. \A h \in ToSet(policy.hooks) : \A s \in ToSet(NarrowHook(h, ex).sels) :
          s.acts = {} \/ \E z \in ToSet(h.sels) : s.acts = z.acts
    BY <1>0, <2>1, NarrowHookLists
  <2> QED BY <1>2, <2>2, <2>3 DEF Exclude, OnlyPosts
<1>3. ASSUME NEW to \in {"monitor", "enforce"}, PutInMode(to) PROVE OnlyPosts'
  <2>1. ToSet(policy'.hooks) = {RewriteHook(h, to) : h \in ToSet(policy.hooks)}
    BY <1>3, SetFacts DEF PutInMode, TypeOK
  <2>2. \A h \in ToSet(policy.hooks) : \A s \in ToSet(RewriteHook(h, to).sels) :
          s.acts \in {{}, {Target(to)}}
    BY <1>0, RewriteHookFacts
  <2> QED BY <1>3, <2>1, <2>2 DEF PutInMode, OnlyPosts, Target
<1>4. CASE UNCHANGED vars
  BY <1>4 DEF vars, OnlyPosts
<1> QED BY <1>1, <1>2, <1>3, <1>4 DEF Next, HandEdit, Author

(* The selector that decides is one of the hook's, and there is one when   *)
(* the event is selected at all.                                           *)
Decides(h, e) == SelectInSeq(h.sels, LAMBDA s : Selects(s, e))

LEMMA FirstSelects ==
    ASSUME NEW h \in HookSet, NEW e
    PROVE  /\ Decides(h, e) # 0 => h.sels[Decides(h, e)] \in ToSet(h.sels)
           /\ (\E s \in ToSet(h.sels) : Selects(s, e)) => Decides(h, e) # 0
<1> DEFINE I == {i \in 1 .. Len(h.sels) : Selects(h.sels[i], e)}
<1>1. Decides(h, e) = IF I # {} THEN Min(I) ELSE 0
  BY DEF Decides, SelectInSeq
<1>2. I \in SUBSET Nat /\ 0 \notin I
  OBVIOUS
<1>3. h.sels \in Seq(SelectorSet)
  BY DEF HookSet
<1>4. I # {} => Decides(h, e) \in I
  <2> HIDE DEF I
  <2> QED BY <1>1, <1>2, MinOfNats
<1>5. (\E s \in ToSet(h.sels) : Selects(s, e)) => I # {}
  BY <1>3 DEF ToSet
<1>6. \A i \in I : h.sels[i] \in ToSet(h.sels)
  BY <1>3 DEF ToSet
<1> HIDE DEF I
<1>7. Decides(h, e) # 0 => h.sels[Decides(h, e)] \in ToSet(h.sels)
  BY <1>1, <1>4, <1>6
<1>8. (\E s \in ToSet(h.sels) : Selects(s, e)) => Decides(h, e) # 0
  BY <1>2, <1>4, <1>5
<1> QED BY <1>7, <1>8

LEMMA PostsDoNotKill == TypeOK /\ OnlyPosts => MonitorKillsNothing
<1> SUFFICES ASSUME TypeOK, OnlyPosts, mode = "monitor", NEW e \in Events, Kills(policy, e)
             PROVE  FALSE
  BY DEF MonitorKillsNothing
<1>1. PICK h \in ToSet(policy.hooks) :
        Decides(h, e) # 0 /\ h.sels[Decides(h, e)].acts \cap (Actions \ {"Post"}) # {}
  BY DEF Kills, Decides
<1>2. h \in HookSet
  BY DEF TypeOK, Manifest, ToSet
<1>3. h.sels[Decides(h, e)] \in ToSet(h.sels)
  BY <1>1, <1>2, FirstSelects
<1> QED BY <1>1, <1>3 DEF OnlyPosts

(* In enforce mode every selector kills, but for those of hooks that had   *)
(* none.                                                                   *)
AllKill ==
    mode = "enforce" => \A h \in ToSet(policy.hooks) :
        \/ h.name \in bare
        \/ h.sels # <<>> /\ \A s \in ToSet(h.sels) : s.acts = {"Sigkill"}

LEMMA AllKillStays == TypeOK /\ AllKill /\ [Next]_vars => AllKill'
<1> SUFFICES ASSUME TypeOK, AllKill, [Next]_vars PROVE AllKill'
  OBVIOUS
<1>0. \A h \in ToSet(policy.hooks) : h \in HookSet
  BY DEF TypeOK, Manifest, ToSet
<1>1. ASSUME NEW m, NEW who, Starts(m, who) PROVE AllKill'
  BY <1>1 DEF Starts, AllKill
<1>2. ASSUME NEW ex \in Requests, Exclude(ex) PROVE AllKill'
  <2>1. ex \in Exclusions
    BY InputsAssumption
  <2>2. ToSet(policy'.hooks) = {NarrowHook(h, ex) : h \in ToSet(policy.hooks)}
    BY <1>2, <2>1, ExclusionFacts DEF Exclude, TypeOK
  <2>3. \A h \in ToSet(policy.hooks) :
          /\ NarrowHook(h, ex).name = h.name
          /\ h.sels # <<>> =>
                /\ NarrowHook(h, ex).sels # <<>>
                /\ \A s \in ToSet(NarrowHook(h, ex).sels) : \E z \in ToSet(h.sels) : s.acts = z.acts
    BY <1>0, <2>1, NarrowHookLists
  <2> QED BY <1>2, <2>2, <2>3 DEF Exclude, AllKill
<1>3. ASSUME NEW to \in {"monitor", "enforce"}, PutInMode(to) PROVE AllKill'
  <2>1. ToSet(policy'.hooks) = {RewriteHook(h, to) : h \in ToSet(policy.hooks)}
    BY <1>3, SetFacts DEF PutInMode, TypeOK
  <2>2. \A h \in ToSet(policy.hooks) :
          /\ RewriteHook(h, to).name = h.name
          /\ h.sels # <<>> => RewriteHook(h, to).sels # <<>>
          /\ to = "enforce" => \A s \in ToSet(RewriteHook(h, to).sels) : s.acts = {"Sigkill"}
    BY <1>0, RewriteHookFacts
  <2>3. \A h \in ToSet(policy.hooks) : h.sels = <<>> => h.name \in bare'
    BY <1>3 DEF PutInMode
  <2> QED BY <1>3, <2>1, <2>2, <2>3 DEF PutInMode, AllKill
<1>4. CASE UNCHANGED vars
  BY <1>4 DEF vars, AllKill
<1> QED BY <1>1, <1>2, <1>3, <1>4 DEF Next, HandEdit, Author

LEMMA KillersKill == TypeOK /\ AllKill => EnforceKillsWhatFires
<1> SUFFICES ASSUME TypeOK, AllKill, mode = "enforce", NEW e \in Events, Fires(policy, e),
                    e.hook \notin bare
             PROVE  Kills(policy, e)
  BY DEF EnforceKillsWhatFires
<1>1. PICK h \in ToSet(policy.hooks) : HookFires(h, e)
  BY DEF Fires
<1>2. h \in HookSet
  BY DEF TypeOK, Manifest, ToSet
<1>3. h.name = e.hook /\ h.sels # <<>> /\ \A s \in ToSet(h.sels) : s.acts = {"Sigkill"}
  BY <1>1 DEF HookFires, AllKill
<1>4. \E s \in ToSet(h.sels) : Selects(s, e)
  BY <1>1, <1>3 DEF HookFires
<1>5. Decides(h, e) # 0 /\ h.sels[Decides(h, e)].acts = {"Sigkill"}
  BY <1>2, <1>3, <1>4, FirstSelects
<1>6. h.sels[Decides(h, e)].acts \cap (Actions \ {"Post"}) # {}
  BY <1>5 DEF Actions
<1> QED BY <1>1, <1>3, <1>5, <1>6 DEF Kills, Fires, Decides

(* exclusions.md, apply in alert mode: whatever actions a policy had, once *)
(* it is in monitor mode it kills nothing, and once it is in enforce mode  *)
(* it kills all it fires on but at hooks that had no selectors, through    *)
(* any exclusions.                                                         *)
THEOREM ModesAreKept == Spec => []ModesHold
<1>1. Init => OnlyPosts /\ AllKill
  BY DEF Init, OnlyPosts, AllKill
<1>2. TypeOK /\ OnlyPosts /\ AllKill => ModesHold
  BY PostsDoNotKill, KillersKill DEF ModesHold
<1> QED BY <1>1, <1>2, TypeCorrect, OnlyPostsStays, AllKillStays, PTL DEF Spec

-----------------------------------------------------------------------------
(* The clause that keeps manifest m from firing on what x names. *)
PodFilters(m, x) ==
    /\ x.hook = None /\ x.on \in Keys
    /\ \E c \in m.pod : c.on = x.on /\ c.op = "NotIn" /\ x.value \in c.values
ContainerFilters(m, x) ==
    x.hook = None /\ x.on = "container" /\ Lists(m.container, x.on, "NotIn", x.value)
HooksFilter(m, x) ==
    /\ x.hook = None /\ x.on \in {"binary", "parent"}
    /\ \A h \in ToSet(m.hooks) : HookLists(h, x.on, "NotIn", x.value)
HookFilters(m, x) ==
    /\ x.hook # None /\ x.on \in Arguments
    /\ \A h \in ToSet(m.hooks) : h.name = x.hook => HookLists(h, x.on, "NotPrefix", x.value)
Filters(m, x) ==
    PodFilters(m, x) \/ ContainerFilters(m, x) \/ HooksFilter(m, x) \/ HookFilters(m, x)

LEMMA NamedIsRefused ==
    ASSUME NEW x \in Exclusion, NEW e \in Event, Names(x, e),
           NEW c, c.on = x.on, x.value \in c.values,
           c.op = IF x.on \in Arguments THEN "NotPrefix" ELSE "NotIn"
    PROVE  ~Holds(c, e)
<1>1. e.of[c.on] \in Looks(c, e)
  BY DEF Looks
<1>2. CASE x.on \in Arguments
  BY <1>1, <1>2 DEF Names, Named, Holds
<1>3. CASE x.on \notin Arguments
  BY <1>1, <1>3 DEF Names, Named, Holds
<1> QED BY <1>2, <1>3

LEMMA FilteredIsSilent ==
    ASSUME NEW m \in Manifest, NEW x \in Exclusion, Filters(m, x),
           NEW e \in Event, Names(x, e)
    PROVE  ~Fires(m, e)
<1>1. x.on \in Keys \cup Things => x.on \notin Arguments
  BY ThingsAssumption
<1>2. CASE PodFilters(m, x)
  BY <1>1, <1>2, NamedIsRefused DEF PodFilters, Fires, InScope
<1>3. CASE ContainerFilters(m, x)
  BY <1>1, <1>3, NamedIsRefused DEF ContainerFilters, Lists, Things, Fires, InScope
<1>4. CASE HooksFilter(m, x)
  <2>1. ASSUME NEW h \in ToSet(m.hooks) PROVE ~HookFires(h, e)
    <3>1. HookLists(h, x.on, "NotIn", x.value) /\ x.on \notin Arguments
      BY <1>1, <1>4 DEF HooksFilter, Things
    <3> QED BY <3>1, NamedIsRefused DEF HookLists, Lists, HookFires, Selects
  <2> QED BY <2>1 DEF Fires
<1>5. CASE HookFilters(m, x)
  <2>1. ASSUME NEW h \in ToSet(m.hooks) PROVE ~HookFires(h, e)
    <3>1. CASE h.name # e.hook
      BY <3>1 DEF HookFires
    <3>2. CASE h.name = x.hook
      <4>1. HookLists(h, x.on, "NotPrefix", x.value) /\ x.on \in Arguments
        BY <1>5, <3>2 DEF HookFilters
      <4> QED BY <4>1, NamedIsRefused DEF HookLists, Lists, HookFires, Selects
    <3>3. x.hook = e.hook
      BY <1>5 DEF HookFilters, Names
    <3> QED BY <3>1, <3>2, <3>3
  <2> QED BY <2>1 DEF Fires
<1> QED BY <1>2, <1>3, <1>4, <1>5 DEF Filters

LEMMA ExclusionKeepsFilters ==
    ASSUME NEW m \in Manifest, NEW ex \in Exclusions, NEW x \in Exclusion, Filters(m, x)
    PROVE  Filters(ApplyExclusions(m, ex), x)
<1> DEFINE A == ApplyExclusions(m, ex)
<1>1. /\ m.pod \subseteq A.pod
      /\ \A t, p, v : Lists(m.container, t, p, v) => Lists(A.container, t, p, v)
      /\ ToSet(A.hooks) = {NarrowHook(h, ex) : h \in ToSet(m.hooks)}
  BY ExclusionFacts
<1>2. \A h \in ToSet(m.hooks) :
        /\ NarrowHook(h, ex).name = h.name
        /\ \A t, p, v : HookLists(h, t, p, v) => HookLists(NarrowHook(h, ex), t, p, v)
  <2>1. \A h \in ToSet(m.hooks) : h \in HookSet
    BY DEF Manifest, ToSet
  <2> QED BY <2>1, NarrowHookLists
<1> HIDE DEF A
<1>3. PodFilters(m, x) => PodFilters(A, x)
  BY <1>1 DEF PodFilters
<1>4. ContainerFilters(m, x) => ContainerFilters(A, x)
  BY <1>1 DEF ContainerFilters
<1>5. HooksFilter(m, x) => HooksFilter(A, x)
  BY <1>1, <1>2 DEF HooksFilter
<1>6. HookFilters(m, x) => HookFilters(A, x)
  BY <1>1, <1>2 DEF HookFilters
<1> QED BY <1>3, <1>4, <1>5, <1>6 DEF Filters, A

LEMMA ModeKeepsFilters ==
    ASSUME NEW m \in Manifest, NEW to \in {"monitor", "enforce"}, NEW x \in Exclusion,
           Filters(m, x)
    PROVE  Filters(SetTracingAction(m, to), x)
<1> DEFINE A == SetTracingAction(m, to)
<1>1. /\ A.pod = m.pod /\ A.container = m.container
      /\ ToSet(A.hooks) = {RewriteHook(h, to) : h \in ToSet(m.hooks)}
  BY SetFacts
<1>2. \A h \in ToSet(m.hooks) :
        /\ RewriteHook(h, to).name = h.name
        /\ \A t, p, v : HookLists(h, t, p, v) => HookLists(RewriteHook(h, to), t, p, v)
  <2>1. \A h \in ToSet(m.hooks) : h \in HookSet
    BY DEF Manifest, ToSet
  <2> QED BY <2>1, RewriteHookFacts
<1> HIDE DEF A
<1>3. PodFilters(m, x) => PodFilters(A, x)
  BY <1>1 DEF PodFilters
<1>4. ContainerFilters(m, x) => ContainerFilters(A, x)
  BY <1>1 DEF ContainerFilters
<1>5. HooksFilter(m, x) => HooksFilter(A, x)
  BY <1>1, <1>2 DEF HooksFilter
<1>6. HookFilters(m, x) => HookFilters(A, x)
  BY <1>1, <1>2 DEF HookFilters
<1> QED BY <1>3, <1>4, <1>5, <1>6 DEF Filters, A

LEMMA ExclusionFilters ==
    ASSUME NEW m \in Manifest, NEW ex \in Exclusions,
           NEW x \in Excluding(m, ex), x.whole
    PROVE  Filters(ApplyExclusions(m, ex), x)
<1> DEFINE A == ApplyExclusions(m, ex)
<1> SUFFICES Filters(A, x)
  OBVIOUS
<1>1. /\ \A l \in ex.labels : HasExpr(A.pod, l)
      /\ \A v \in ex.containers : Lists(A.container, "container", "NotIn", v)
      /\ ToSet(A.hooks) = {NarrowHook(h, ex) : h \in ToSet(m.hooks)}
  BY ExclusionFacts
<1>2. \A h \in ToSet(m.hooks) : h \in HookSet
  BY DEF Manifest, ToSet
<1> HIDE DEF A
<1>3. CASE x \in Everywhere("binary", ex.binaries)
  <2>1. x.hook = None /\ x.on = "binary" /\ x.value \in ex.binaries
    BY <1>3 DEF Everywhere
  <2> QED BY <1>1, <1>2, <2>1, NarrowHookLists DEF Filters, HooksFilter
<1>4. CASE x \in Everywhere("parent", ex.parents)
  <2>1. x.hook = None /\ x.on = "parent" /\ x.value \in ex.parents
    BY <1>4 DEF Everywhere
  <2> QED BY <1>1, <1>2, <2>1, NarrowHookLists DEF Filters, HooksFilter
<1>5. CASE x \in Everywhere("container", ex.containers)
  <2>1. x.hook = None /\ x.on = "container" /\ x.value \in ex.containers
    BY <1>5 DEF Everywhere
  <2> QED BY <1>1, <2>1 DEF Filters, ContainerFilters
<1>6. CASE x \in OfLabels(ex.labels)
  <2>1. PICK l \in ex.labels : x.hook = None /\ x.on = l.key /\ x.value = l.value
    BY <1>6 DEF OfLabels
  <2>2. l.key \in Keys
    BY DEF Exclusions
  <2> QED BY <1>1, <2>1, <2>2 DEF Filters, PodFilters, HasExpr
<1>7. CASE x \in OfPaths(m, ex)
  <2>1. PICK h \in ToSet(m.hooks) :
          /\ PathArgument(h, ex) # None
          /\ x.hook = h.name /\ x.on = PathArgument(h, ex) /\ x.value \in ex.paths
          /\ x.whole = (\A g \in ToSet(m.hooks) : g.name = h.name =>
                            PathArgument(g, ex) = PathArgument(h, ex) /\ TakenWhole(g, ex))
    <3> DEFINE Of(h) == [hook : {h.name}, on : {PathArgument(h, ex)}, value : ex.paths,
                         whole : {\A g \in ToSet(m.hooks) : g.name = h.name =>
                              PathArgument(g, ex) = PathArgument(h, ex) /\ TakenWhole(g, ex)}]
    <3>1. OfPaths(m, ex) = UNION {Of(h) : h \in {h \in ToSet(m.hooks) : PathArgument(h, ex) # None}}
      BY DEF OfPaths
    <3> HIDE DEF Of
    <3>2. PICK h \in ToSet(m.hooks) : PathArgument(h, ex) # None /\ x \in Of(h)
      BY <1>7, <3>1
    <3> QED BY <3>2 DEF Of
  <2>2. x.hook # None /\ x.on \in Arguments
    BY <1>2, <2>1, ValuesAssumption DEF HookSet, PathArgument, Exclusions
  <2>3. ASSUME NEW g \in ToSet(m.hooks), NarrowHook(g, ex).name = x.hook
        PROVE  HookLists(NarrowHook(g, ex), x.on, "NotPrefix", x.value)
    <3>1. g.name = h.name
      BY <1>2, <2>1, <2>3, NarrowHookLists
    <3>2. PathArgument(g, ex) = x.on /\ TakenWhole(g, ex)
      BY <2>1, <3>1
    <3> QED BY <1>2, <2>1, <3>2, NarrowHookLists
  <2> QED BY <1>1, <2>2, <2>3 DEF Filters, HookFilters
<1> QED BY <1>3, <1>4, <1>5, <1>6, <1>7 DEF Excluding

ExcludedIsFiltered == \A x \in excluded : x.whole => Filters(policy, x)

LEMMA FiltersStay == TypeOK /\ ExcludedIsFiltered /\ [Next]_vars => ExcludedIsFiltered'
<1> SUFFICES ASSUME TypeOK, ExcludedIsFiltered, [Next]_vars PROVE ExcludedIsFiltered'
  OBVIOUS
<1>0. policy \in Manifest /\ excluded \subseteq Exclusion
  BY DEF TypeOK
<1>1. ASSUME NEW m, NEW who, Starts(m, who) PROVE ExcludedIsFiltered'
  BY <1>1 DEF Starts, ExcludedIsFiltered
<1>2. ASSUME NEW ex \in Requests, Exclude(ex) PROVE ExcludedIsFiltered'
  <2>1. ex \in Exclusions
    BY InputsAssumption
  <2>2. \A x \in excluded : x.whole => Filters(ApplyExclusions(policy, ex), x)
    BY <1>0, <2>1, ExclusionKeepsFilters DEF ExcludedIsFiltered
  <2>3. \A x \in Excluding(policy, ex) : x.whole => Filters(ApplyExclusions(policy, ex), x)
    BY <1>0, <2>1, ExclusionFilters
  <2> QED BY <1>2, <2>2, <2>3 DEF Exclude, ExcludedIsFiltered
<1>3. ASSUME NEW to \in {"monitor", "enforce"}, PutInMode(to) PROVE ExcludedIsFiltered'
  BY <1>0, <1>3, ModeKeepsFilters DEF PutInMode, ExcludedIsFiltered
<1>4. CASE UNCHANGED vars
  BY <1>4 DEF vars, ExcludedIsFiltered
<1> QED BY <1>1, <1>2, <1>3, <1>4 DEF Next, HandEdit, Author

(* exclusions.go, an exclusion does not silently do nothing: what was      *)
(* approved, and was not refused by a selector, fires no more, through     *)
(* every later exclusion and change of mode.                               *)
THEOREM ExclusionsHold == Spec => []ExcludedIsSilent
<1>1. Init => ExcludedIsFiltered
  BY DEF Init, ExcludedIsFiltered
<1>2. TypeOK /\ ExcludedIsFiltered => ExcludedIsSilent
  BY FilteredIsSilent, InputsAssumption DEF TypeOK, ExcludedIsFiltered, ExcludedIsSilent
<1> QED BY <1>1, <1>2, TypeCorrect, FiltersStay, PTL DEF Spec

-----------------------------------------------------------------------------
(* The clauses on pods an author leaves stay, and if the console saved the *)
(* manifest there is one on the console's label among them.                *)
PodStays ==
    /\ authored.pod \subseteq policy.pod
    /\ author = "console" => \E c \in authored.pod : c.on = SelfLabel /\ c.op = "NotIn"

LEMMA PodStaysHolds == TypeOK /\ PodStays /\ [Next]_vars => PodStays'
<1> SUFFICES ASSUME TypeOK, PodStays, [Next]_vars PROVE PodStays'
  OBVIOUS
<1>1. ASSUME NEW m \in Manifests, HandEdit(m) PROVE PodStays'
  BY <1>1 DEF HandEdit, Starts, PodStays
<1>2. ASSUME NEW m \in Manifests \cup {policy}, Author(m) PROVE PodStays'
  <2>1. \E c \in Exempt(m).pod : c.on = SelfLabel /\ c.op = "NotIn"
    BY InputsAssumption, ExemptFacts DEF TypeOK
  <2> QED BY <1>2, <2>1 DEF Author, Starts, PodStays
<1>3. ASSUME NEW ex \in Requests, Exclude(ex) PROVE PodStays'
  <2>1. policy.pod \subseteq policy'.pod
    BY <1>3, InputsAssumption, ExclusionFacts DEF Exclude, TypeOK
  <2> QED BY <1>3, <2>1 DEF Exclude, PodStays
<1>4. ASSUME NEW to \in {"monitor", "enforce"}, PutInMode(to) PROVE PodStays'
  BY <1>4, SetFacts DEF PutInMode, PodStays, TypeOK
<1>5. CASE UNCHANGED vars
  BY <1>5 DEF vars, PodStays
<1> QED BY <1>1, <1>2, <1>3, <1>4, <1>5 DEF Next

(* guard.go: a policy saved through the console leaves the console's pods  *)
(* alone, unless its author had a clause on their label that does not.     *)
THEOREM ConsoleIsLeftAlone == Spec => []AuthoredIsExempt
<1>1. Init => PodStays
  BY DEF Init, PodStays
<1>2. TypeOK /\ PodStays => AuthoredIsExempt
  <2> SUFFICES ASSUME TypeOK, PodStays, author = "console",
                      NEW e \in Events, e.of[SelfLabel] = SelfValue, Fires(policy, e),
                      NEW c \in authored.pod, c.on = SelfLabel, c.op = "NotIn"
               PROVE  SelfValue \notin c.values
    BY DEF AuthoredIsExempt, PodStays
  <2>1. Holds(c, e)
    BY DEF PodStays, Fires, InScope
  <2> QED BY <2>1 DEF Holds, Named, Looks
<1> QED BY <1>1, <1>2, TypeCorrect, PodStaysHolds, PTL DEF Spec

-----------------------------------------------------------------------------
(* The same exclusion twice. *)

LEMMA MergeAbsorbed ==
    ASSUME NEW cl \in Seq(Clauses), NEW on, NEW op, NEW vals, Absorbs(cl, on, op, vals)
    PROVE  Merge(cl, on, op, vals) = cl
<1> DEFINE k == FirstOf(cl, on, op)
<1>1. CASE vals = {}
  BY <1>1 DEF Merge
<1>2. CASE vals # {}
  <2>1. k # 0 /\ vals \subseteq cl[k].values
    BY <1>2 DEF Absorbs
  <2>2. k \in 1 .. Len(cl) /\ cl[k] \in Clauses
    BY <2>1, FirstOfIsFirst
  <2>3. Merge(cl, on, op, vals) = [cl EXCEPT ![k].values = @ \cup vals]
    BY <1>2, <2>1 DEF Merge
  <2> HIDE DEF k
  <2>4. [cl[k] EXCEPT !.values = @ \cup vals] = cl[k]
    BY <2>1, <2>2 DEF Clauses
  <2>5. [cl EXCEPT ![k].values = @ \cup vals] = cl
    BY <2>2, <2>4
  <2> QED BY <2>3, <2>5
<1> QED BY <1>1, <1>2

LEMMA AbsorbsStays ==
    ASSUME NEW cl \in Seq(Clauses), NEW M \in Seq(Clauses), Extends(cl, M),
           NEW on, NEW op, NEW vals, Absorbs(cl, on, op, vals)
    PROVE  Absorbs(M, on, op, vals)
<1> DEFINE k == FirstOf(cl, on, op)
           l == FirstOf(M, on, op)
<1>1. CASE vals = {}
  BY <1>1 DEF Absorbs
<1>2. CASE vals # {}
  <2>1. k # 0 /\ vals \subseteq cl[k].values
    BY <1>2 DEF Absorbs
  <2>2. /\ k \in 1 .. Len(cl) /\ cl[k].on = on /\ cl[k].op = op
        /\ \A i \in 1 .. Len(cl) : cl[i].on = on /\ cl[i].op = op => k =< i
    BY <2>1, FirstOfIsFirst
  <2>3. k \in 1 .. Len(M) /\ M[k].on = on /\ M[k].op = op /\ vals \subseteq M[k].values
    BY <2>1, <2>2 DEF Extends
  <2>4. /\ l \in 1 .. Len(M) /\ M[l].on = on /\ M[l].op = op /\ l =< k
    BY <2>3, FirstOfIsFirst
  <2> HIDE DEF k, l
  <2>5. l = k
    BY <2>2, <2>4 DEF Extends
  <2> QED BY <2>3, <2>4, <2>5 DEF Absorbs, l
<1> QED BY <1>1, <1>2

LEMMA NarrowTwice ==
    ASSUME NEW sel \in SelectorSet, NEW ex \in Exclusions, NEW at \in Arguments \cup {None}
    PROVE  Narrow(Narrow(sel, ex, at), ex, at) = Narrow(sel, ex, at)
<1> DEFINE c == sel.clauses
           b == Merge(c, "binary", "NotIn", ex.binaries)
           n == Merge(b, "parent", "NotIn", ex.parents)
           a == Merge(n, at, "NotPrefix", ex.paths)
           T == TakesPaths(sel, at)
           R == IF T THEN a ELSE n
           N == Narrow(sel, ex, at)
<1>1. /\ c \in Seq(Clauses) /\ sel.acts \in SUBSET Actions
      /\ ex.binaries \in SUBSET Values /\ ex.parents \in SUBSET Values
      /\ ex.paths \in SUBSET Values
  BY DEF SelectorSet, Exclusions
<1>2. {"binary", "parent"} \subseteq Looked /\ {"NotIn", "NotPrefix"} \subseteq Operators
  BY DEF Looked, Things, Operators
<1>3. T => at # None
  BY DEF TakesPaths
<1>4. at # None => at \in Looked /\ at \notin {"binary", "parent"}
  BY ThingsAssumption DEF Looked, Things
<1>5. N = [clauses |-> R, acts |-> sel.acts]
  BY DEF Narrow, SelectorSet
<1> HIDE DEF T, N, c
<1>6. /\ b \in Seq(Clauses) /\ Extends(c, b)
      /\ \A i \in Len(c) + 1 .. Len(b) : b[i].on = "binary"
      /\ Absorbs(b, "binary", "NotIn", ex.binaries)
  BY <1>1, <1>2, MergeShape
<1> HIDE DEF b
<1>7. /\ n \in Seq(Clauses) /\ Extends(b, n)
      /\ \A i \in Len(b) + 1 .. Len(n) : n[i].on = "parent"
      /\ Absorbs(n, "parent", "NotIn", ex.parents)
  BY <1>1, <1>2, <1>6, MergeShape
<1> HIDE DEF n
<1>8. T => /\ a \in Seq(Clauses) /\ Extends(n, a)
           /\ \A i \in Len(n) + 1 .. Len(a) : a[i].on = at /\ a[i].op = "NotPrefix"
           /\ Absorbs(a, at, "NotPrefix", ex.paths)
  BY <1>1, <1>2, <1>3, <1>4, <1>7, MergeShape
<1> HIDE DEF a
<1>9. Absorbs(n, "binary", "NotIn", ex.binaries)
  BY <1>6, <1>7, AbsorbsStays
<1>10. /\ R \in Seq(Clauses)
       /\ Absorbs(R, "binary", "NotIn", ex.binaries)
       /\ Absorbs(R, "parent", "NotIn", ex.parents)
       /\ T => Absorbs(R, at, "NotPrefix", ex.paths)
  BY <1>7, <1>8, <1>9, AbsorbsStays
<1>11. /\ Len(c) =< Len(R)
       /\ \A i \in 1 .. Len(c) : R[i].on = c[i].on /\ R[i].op = c[i].op
       /\ at # None => \A i \in Len(c) + 1 .. Len(R) : R[i].on = at => R[i].op = "NotPrefix"
  <2>1. Extends(c, n) /\ (at # None => \A i \in Len(c) + 1 .. Len(n) : n[i].on # at)
    <3>1. Len(c) \in Nat /\ Len(b) \in Nat /\ Len(n) \in Nat
      BY <1>1, <1>6, <1>7
    <3>2. Extends(c, n)
      BY <3>1, <1>6, <1>7 DEF Extends
    <3>3. ASSUME at # None, NEW i \in Len(c) + 1 .. Len(n)
          PROVE  n[i].on # at
      <4>1. CASE i \in 1 .. Len(b)
        <5>1. n[i].on = b[i].on
          BY <4>1, <1>7 DEF Extends
        <5>2. b[i].on = "binary"
          BY <4>1, <3>1, <3>3, <1>6
        <5> QED BY <5>1, <5>2, <3>3, <1>4
      <4>2. CASE i \notin 1 .. Len(b)
        <5>1. n[i].on = "parent"
          BY <4>2, <3>1, <3>3, <1>7
        <5> QED BY <5>1, <3>3, <1>4
      <4> QED BY <4>1, <4>2
    <3> QED BY <3>2, <3>3
  <2>2. CASE ~T
    BY <2>1, <2>2 DEF Extends
  <2>3. CASE T
    BY <1>1, <1>7, <1>8, <2>1, <2>3 DEF Extends
  <2> QED BY <2>2, <2>3
<1> HIDE DEF R
<1>12. N.clauses = R /\ N.acts = sel.acts /\ N \in SelectorSet
  BY <1>1, <1>5, <1>10 DEF SelectorSet
<1>13. TakesPaths(N, at) <=> T
  <2> DEFINE f == FirstOn(c, at)
             g == FirstOn(R, at)
  <2>1. TakesPaths(N, at) <=> at # None /\ (g # 0 => R[g].op = "NotPrefix")
    BY <1>12 DEF TakesPaths
  <2>2. T <=> at # None /\ (f # 0 => c[f].op = "NotPrefix")
    BY DEF T, TakesPaths, c
  <2>3. \/ f = 0 /\ \A i \in 1 .. Len(c) : c[i].on # at
        \/ /\ f \in 1 .. Len(c) /\ c[f].on = at
           /\ \A i \in 1 .. Len(c) : c[i].on = at => f =< i
    BY <1>1, FirstOnIsFirst
  <2>4. \/ g = 0 /\ \A i \in 1 .. Len(R) : R[i].on # at
        \/ /\ g \in 1 .. Len(R) /\ R[g].on = at
           /\ \A i \in 1 .. Len(R) : R[i].on = at => g =< i
    BY <1>10, FirstOnIsFirst
  <2> HIDE DEF f, g
  <2>5. f # 0 => g = f
    BY <1>1, <1>10, <1>11, <2>3, <2>4
  <2>6. at # None /\ f = 0 /\ g # 0 => R[g].op = "NotPrefix"
    BY <1>1, <1>10, <1>11, <2>3, <2>4
  <2> QED BY <1>11, <2>1, <2>2, <2>3, <2>5, <2>6
<1>14. /\ Merge(R, "binary", "NotIn", ex.binaries) = R
       /\ Merge(R, "parent", "NotIn", ex.parents) = R
       /\ T => Merge(R, at, "NotPrefix", ex.paths) = R
  BY <1>10, MergeAbsorbed
<1>15. Narrow(N, ex, at) = [N EXCEPT !.clauses = R]
  BY <1>12, <1>13, <1>14 DEF Narrow
<1> QED BY <1>12, <1>15 DEF SelectorSet, N

LEMMA NarrowHookTwice ==
    ASSUME NEW h \in HookSet, NEW ex \in Exclusions
    PROVE  NarrowHook(NarrowHook(h, ex), ex) = NarrowHook(h, ex)
<1> DEFINE S == Selectors(h)
           at == PathArgument(h, ex)
           N == [j \in DOMAIN S |-> Narrow(S[j], ex, at)]
           H == NarrowHook(h, ex)
<1>1. h.sels \in Seq(SelectorSet) /\ h.name \in Hooks /\ h.path \in Arguments \cup {None}
  BY DEF HookSet
<1>2. S \in Seq(SelectorSet) /\ S # <<>>
  <2>1. BareSelector \in SelectorSet
    BY DEF BareSelector, SelectorSet
  <2> QED BY <1>1, <2>1 DEF Selectors
<1>3. at \in Arguments \cup {None}
  BY <1>1 DEF PathArgument, Exclusions
<1>4. H = [name |-> h.name, path |-> h.path, sels |-> N]
  BY DEF NarrowHook, HookSet
<1> HIDE DEF S, H
<1>5. \A j \in DOMAIN S : S[j] \in SelectorSet
  BY <1>2
<1>6. \A j \in DOMAIN S : N[j] \in SelectorSet /\ Narrow(N[j], ex, at) = N[j]
  BY <1>3, <1>5, NarrowLists, NarrowTwice
<1>7. N \in Seq(SelectorSet) /\ DOMAIN N = DOMAIN S /\ N # <<>>
  BY <1>2, <1>6
<1>8. PathArgument(H, ex) = at
  BY <1>4 DEF PathArgument
<1> HIDE DEF N, at
<1>9. Selectors(H) = N
  BY <1>4, <1>7 DEF Selectors
<1>10. [j \in DOMAIN N |-> Narrow(N[j], ex, at)] = N
  BY <1>6, <1>7
<1>11. NarrowHook(H, ex) = [H EXCEPT !.sels = N]
  BY <1>8, <1>9, <1>10 DEF NarrowHook
<1> QED BY <1>4, <1>11 DEF H

LEMMA ApplyTwice ==
    ASSUME NEW m \in Manifest, NEW ex \in Exclusions
    PROVE  ApplyExclusions(ApplyExclusions(m, ex), ex) = ApplyExclusions(m, ex)
<1> DEFINE A == ApplyExclusions(m, ex)
           H == [i \in DOMAIN m.hooks |-> NarrowHook(m.hooks[i], ex)]
<1>1. /\ m.container \in Seq(Clauses) /\ m.hooks \in Seq(HookSet)
      /\ ex.containers \in SUBSET Values
  BY DEF Manifest, Exclusions
<1>2. /\ A.pod = AddLabels(m.pod, ex.labels)
      /\ A.container = Merge(m.container, "container", "NotIn", ex.containers)
      /\ A.hooks = H
      /\ A = [pod |-> A.pod, container |-> A.container, hooks |-> A.hooks]
  BY DEF ApplyExclusions
<1>3. \A l \in ex.labels : HasExpr(A.pod, l)
  BY ExclusionFacts
<1>4. ApplyExclusions(A, ex) =
        [pod |-> AddLabels(A.pod, ex.labels),
         container |-> Merge(A.container, "container", "NotIn", ex.containers),
         hooks |-> [i \in DOMAIN A.hooks |-> NarrowHook(A.hooks[i], ex)]]
  BY DEF ApplyExclusions
<1> HIDE DEF A
<1>5. AddLabels(A.pod, ex.labels) = A.pod
  BY <1>3 DEF AddLabels
<1>6. Merge(A.container, "container", "NotIn", ex.containers) = A.container
  <2>1. "container" \in Looked /\ "NotIn" \in Operators
    BY DEF Looked, Things, Operators
  <2> QED BY <1>1, <1>2, <2>1, MergeShape, MergeAbsorbed
<1>7. [i \in DOMAIN A.hooks |-> NarrowHook(A.hooks[i], ex)] = A.hooks
  <2>1. \A i \in DOMAIN m.hooks : m.hooks[i] \in HookSet
    BY <1>1
  <2>2. \A i \in DOMAIN m.hooks : NarrowHook(H[i], ex) = H[i]
    BY <2>1, NarrowHookTwice
  <2>3. DOMAIN H = DOMAIN m.hooks
    OBVIOUS
  <2>4. [i \in DOMAIN H |-> NarrowHook(H[i], ex)] = H
    BY <2>2, <2>3
  <2> QED BY <1>2, <2>4
<1>8. ApplyExclusions(A, ex) = A
  BY <1>2, <1>4, <1>5, <1>6, <1>7
<1> QED BY <1>8 DEF A

(* exclusions.go: approving the same exclusion twice is a no-op. *)
THEOREM TwiceIsNoOp == Spec => []SameTwiceIsNoOp
<1>1. TypeOK => SameTwiceIsNoOp
  BY ApplyTwice, InputsAssumption DEF TypeOK, SameTwiceIsNoOp
<1> QED BY <1>1, TypeCorrect, PTL

-----------------------------------------------------------------------------
(* What is in a list of clauses after a merge: what was, the new clause,   *)
(* or one of the kind with the new values.                                 *)
Grown(c, vals) == [c EXCEPT !.values = @ \cup vals]

LEMMA MergeClauses ==
    ASSUME NEW cl \in Seq(Clauses), NEW on, NEW op, NEW vals,
           NEW d \in ToSet(Merge(cl, on, op, vals))
    PROVE  \/ d \in ToSet(cl)
           \/ vals # {} /\ d = Clause(on, op, vals)
           \/ vals # {} /\ \E c \in ToSet(cl) : c.on = on /\ c.op = op /\ d = Grown(c, vals)
<1> DEFINE k == FirstOf(cl, on, op)
           M == Merge(cl, on, op, vals)
<1>1. \/ k = 0
      \/ k \in 1 .. Len(cl) /\ cl[k].on = on /\ cl[k].op = op
  BY FirstOfIsFirst
<1>2. M = IF vals = {} THEN cl
          ELSE IF k = 0 THEN Append(cl, Clause(on, op, vals))
          ELSE [cl EXCEPT ![k] = Grown(cl[k], vals)]
  BY DEF Merge, Grown
<1>3. d \in ToSet(M)
  OBVIOUS
<1> HIDE DEF k, M
<1>4. CASE vals = {}
  BY <1>2, <1>3, <1>4
<1>5. CASE vals # {} /\ k = 0
  <2> DEFINE c == Clause(on, op, vals)
  <2>1. M = Append(cl, c)
    BY <1>2, <1>5
  <2> HIDE DEF c
  <2>2. PICK i \in DOMAIN M : d = M[i]
    BY <1>3 DEF ToSet
  <2>3. i \in 1 .. Len(cl) + 1 /\ (i \in 1 .. Len(cl) => M[i] = cl[i]) /\ (i = Len(cl) + 1 => M[i] = c)
    BY <2>1, <2>2
  <2>4. CASE i \in 1 .. Len(cl)
    BY <2>2, <2>3, <2>4 DEF ToSet
  <2>5. CASE i = Len(cl) + 1
    BY <1>5, <2>2, <2>3, <2>5 DEF c
  <2> QED BY <2>3, <2>4, <2>5
<1>6. CASE vals # {} /\ k # 0
  <2> DEFINE g == Grown(cl[k], vals)
  <2>1. M = [cl EXCEPT ![k] = g]
    BY <1>2, <1>6
  <2> HIDE DEF g
  <2>2. PICK i \in DOMAIN cl : d = IF i = k THEN g ELSE cl[i]
    BY <1>3, <2>1 DEF ToSet
  <2>3. i # k => d \in ToSet(cl)
    BY <2>2 DEF ToSet
  <2>4. cl[k] \in ToSet(cl) /\ cl[k].on = on /\ cl[k].op = op
    BY <1>1, <1>6 DEF ToSet
  <2> QED BY <1>6, <2>2, <2>3, <2>4 DEF g
<1> QED BY <1>4, <1>5, <1>6

(* Merging makes no clause follow children, and none that lists nothing.   *)
Binaries == {"binary", "parent"}
Listing(cl) ==
    \A c \in ToSet(cl) : c.values # {} /\ (c.follow => c.on \in Binaries)
FollowsIn(cl, on, op) == \E c \in ToSet(cl) : c.follow /\ c.on = on /\ c.op = op

LEMMA MergeFollows ==
    ASSUME NEW cl \in Seq(Clauses), NEW on, NEW op, NEW vals
    PROVE  /\ Listing(cl) => Listing(Merge(cl, on, op, vals))
           /\ (\A c \in ToSet(cl) : ~c.follow)
                => \A c \in ToSet(Merge(cl, on, op, vals)) : ~c.follow
           /\ \A t, p : FollowsIn(Merge(cl, on, op, vals), t, p) => FollowsIn(cl, t, p)
<1> DEFINE M == Merge(cl, on, op, vals)
<1>1. ASSUME NEW d \in ToSet(M)
      PROVE  \/ d \in ToSet(cl)
             \/ d.values # {} /\ ~d.follow
             \/ \E c \in ToSet(cl) : /\ d.on = c.on /\ d.op = c.op /\ d.follow = c.follow
                                     /\ c.values \subseteq d.values
  <2>1. Clause(on, op, vals).values = vals /\ Clause(on, op, vals).follow = FALSE
    BY DEF Clause
  <2>2. \A c \in ToSet(cl) : LET g == Grown(c, vals)
          IN  g.on = c.on /\ g.op = c.op /\ g.follow = c.follow /\ g.values = c.values \cup vals
    <3>1. \A c \in ToSet(cl) : c \in Clauses
      BY DEF ToSet
    <3> QED BY <3>1 DEF Clauses, Grown
  <2>3. CASE vals # {} /\ d = Clause(on, op, vals)
    BY <2>1, <2>3
  <2>4. CASE \E c \in ToSet(cl) : d = Grown(c, vals)
    BY <2>2, <2>4
  <2> QED BY <1>1, <2>3, <2>4, MergeClauses
<1> HIDE DEF M
<1>2. Listing(cl) => Listing(M)
  BY <1>1 DEF Listing
<1>3. (\A c \in ToSet(cl) : ~c.follow) => \A c \in ToSet(M) : ~c.follow
  BY <1>1
<1>4. \A t, p : FollowsIn(M, t, p) => FollowsIn(cl, t, p)
  BY <1>1 DEF FollowsIn
<1> QED BY <1>2, <1>3, <1>4 DEF M

(* Event e is not among what is merged into these clauses. *)
Spares(cl, on, op, vals, e) ==
    \A v \in vals :
        /\ op = "NotIn" => e.of[on] # v
        /\ op = "NotPrefix" => e.of[on] \notin Below[v]
        /\ FollowsIn(cl, on, op) => op = "NotIn" /\ v \notin e.ancestors

LEMMA MergeHolds ==
    ASSUME NEW cl \in Seq(Clauses), NEW on \in Looked, NEW op \in {"NotIn", "NotPrefix"},
           NEW vals \in SUBSET Values, NEW e \in Event, Spares(cl, on, op, vals, e),
           \A c \in ToSet(cl) : Holds(c, e)
    PROVE  \A d \in ToSet(Merge(cl, on, op, vals)) : Holds(d, e)
<1> SUFFICES ASSUME NEW d \in ToSet(Merge(cl, on, op, vals)) PROVE Holds(d, e)
  OBVIOUS
<1>1. \A v \in vals : (op = "NotIn" => e.of[on] # v) /\ (op = "NotPrefix" => e.of[on] \notin Below[v])
  BY DEF Spares
<1>2. CASE d = Clause(on, op, vals)
  <2>1. d.on = on /\ d.op = op /\ d.values = vals /\ d.follow = FALSE
    BY <1>2 DEF Clause
  <2>2. Looks(d, e) = {e.of[on]}
    BY <2>1 DEF Looks
  <2>3. ~Named(d, e)
    BY <1>1, <2>1, <2>2 DEF Named
  <2> QED BY <2>1, <2>3 DEF Holds
<1>3. ASSUME NEW c \in ToSet(cl), c.on = on, c.op = op, d = Grown(c, vals) PROVE Holds(d, e)
  <2>1. c \in Clauses
    BY DEF ToSet
  <2>2. d.on = on /\ d.op = op /\ d.values = c.values \cup vals /\ d.follow = c.follow
    BY <1>3, <2>1 DEF Grown, Clauses
  <2>3. Looks(d, e) = Looks(c, e)
    BY <1>3, <2>2 DEF Looks
  <2>4. ~Named(c, e)
    BY <1>3 DEF Holds
  <2>5. c.follow => \A v \in vals : op = "NotIn" /\ v \notin e.ancestors
    BY <1>3 DEF Spares, FollowsIn
  <2>6. CASE op = "NotIn"
    <3>1. \A v \in vals : v \notin Looks(c, e)
      BY <1>1, <1>3, <2>5, <2>6 DEF Looks
    <3>2. c.values \cap Looks(c, e) = {}
      BY <1>3, <2>4, <2>6 DEF Named
    <3>3. d.values \cap Looks(d, e) = {}
      BY <2>2, <2>3, <3>1, <3>2
    <3> QED BY <2>2, <2>6, <3>3 DEF Named, Holds
  <2>7. CASE op = "NotPrefix"
    <3>1. \A v \in vals : Below[v] \cap Looks(c, e) = {}
      BY <1>1, <1>3, <2>5, <2>7 DEF Looks
    <3>2. \A v \in c.values : Below[v] \cap Looks(c, e) = {}
      BY <1>3, <2>4, <2>7 DEF Named
    <3> QED BY <2>2, <2>3, <2>7, <3>1, <3>2 DEF Named, Holds
  <2> QED BY <2>6, <2>7
<1> QED BY <1>2, <1>3, MergeClauses

LEMMA NarrowSpares ==
    ASSUME NEW sel \in SelectorSet, NEW ex \in Exclusions, NEW at \in Arguments \cup {None}
    PROVE  /\ Listing(sel.clauses) => Listing(Narrow(sel, ex, at).clauses)
           /\ \A t, p : FollowsIn(Narrow(sel, ex, at).clauses, t, p) => FollowsIn(sel.clauses, t, p)
           /\ \A e \in Event :
                /\ Listing(sel.clauses)
                /\ Selects(sel, e)
                /\ \A v \in ex.binaries : e.of["binary"] # v
                /\ \A v \in ex.parents : e.of["parent"] # v
                /\ at # None => \A v \in ex.paths : e.of[at] \notin Below[v]
                /\ FollowsIn(sel.clauses, "binary", "NotIn") => ex.binaries \cap e.ancestors = {}
                /\ FollowsIn(sel.clauses, "parent", "NotIn") => ex.parents \cap e.ancestors = {}
                => Selects(Narrow(sel, ex, at), e)
<1> DEFINE c == sel.clauses
           b == Merge(c, "binary", "NotIn", ex.binaries)
           n == Merge(b, "parent", "NotIn", ex.parents)
           a == Merge(n, at, "NotPrefix", ex.paths)
           T == TakesPaths(sel, at)
           R == IF T THEN a ELSE n
<1>1. /\ c \in Seq(Clauses)
      /\ ex.binaries \in SUBSET Values /\ ex.parents \in SUBSET Values
      /\ ex.paths \in SUBSET Values
  BY DEF SelectorSet, Exclusions
<1>2. Binaries \subseteq Looked /\ {"NotIn", "NotPrefix"} \subseteq Operators
  BY DEF Looked, Things, Operators, Binaries
<1>3. T => at # None
  BY DEF TakesPaths
<1>4. at # None => at \in Looked /\ at \notin Binaries
  BY ThingsAssumption DEF Looked, Things, Binaries
<1>5. Narrow(sel, ex, at).clauses = R
  BY DEF Narrow, SelectorSet
<1> HIDE DEF T, c
<1>6. b \in Seq(Clauses)
  BY <1>1, <1>2, MergeShape DEF Binaries
<1>7. (Listing(c) => Listing(b)) /\ \A t, p : FollowsIn(b, t, p) => FollowsIn(c, t, p)
  BY <1>1, MergeFollows
<1>8. ASSUME NEW e \in Event, Spares(c, "binary", "NotIn", ex.binaries, e),
             \A d \in ToSet(c) : Holds(d, e)
      PROVE  \A d \in ToSet(b) : Holds(d, e)
  BY <1>1, <1>2, <1>8, MergeHolds DEF Binaries
<1> HIDE DEF b
<1>9. n \in Seq(Clauses)
  BY <1>1, <1>2, <1>6, MergeShape DEF Binaries
<1>10. (Listing(b) => Listing(n)) /\ \A t, p : FollowsIn(n, t, p) => FollowsIn(b, t, p)
  BY <1>6, MergeFollows
<1>11. ASSUME NEW e \in Event, Spares(b, "parent", "NotIn", ex.parents, e),
              \A d \in ToSet(b) : Holds(d, e)
       PROVE  \A d \in ToSet(n) : Holds(d, e)
  BY <1>1, <1>2, <1>6, <1>11, MergeHolds DEF Binaries
<1> HIDE DEF n
<1>12. (Listing(n) => Listing(a)) /\ \A t, p : FollowsIn(a, t, p) => FollowsIn(n, t, p)
  BY <1>9, MergeFollows
<1>13. ASSUME NEW e \in Event, at # None, Spares(n, at, "NotPrefix", ex.paths, e),
              \A d \in ToSet(n) : Holds(d, e)
       PROVE  \A d \in ToSet(a) : Holds(d, e)
  BY <1>1, <1>4, <1>9, <1>13, MergeHolds
<1> HIDE DEF a
<1>14. Listing(c) => Listing(R)
  BY <1>7, <1>10, <1>12
<1>15. \A t, p : FollowsIn(R, t, p) => FollowsIn(c, t, p)
  BY <1>7, <1>10, <1>12
<1>16. ASSUME NEW e \in Event,
              Listing(c), \A d \in ToSet(c) : Holds(d, e),
              \A v \in ex.binaries : e.of["binary"] # v,
              \A v \in ex.parents : e.of["parent"] # v,
              at # None => \A v \in ex.paths : e.of[at] \notin Below[v],
              FollowsIn(c, "binary", "NotIn") => ex.binaries \cap e.ancestors = {},
              FollowsIn(c, "parent", "NotIn") => ex.parents \cap e.ancestors = {}
       PROVE  \A d \in ToSet(R) : Holds(d, e)
  <2>1. Spares(c, "binary", "NotIn", ex.binaries, e)
    BY <1>16 DEF Spares
  <2>2. Spares(b, "parent", "NotIn", ex.parents, e)
    BY <1>7, <1>16 DEF Spares
  <2>3. \A d \in ToSet(n) : Holds(d, e)
    BY <1>8, <1>11, <1>16, <2>1, <2>2
  <2>4. ~FollowsIn(n, at, "NotPrefix") \/ at = None
    BY <1>4, <1>7, <1>10, <1>16 DEF FollowsIn, Listing
  <2>5. at # None => Spares(n, at, "NotPrefix", ex.paths, e)
    BY <1>16, <2>4 DEF Spares
  <2>6. CASE T
    BY <1>3, <1>13, <2>3, <2>5, <2>6
  <2>7. CASE ~T
    BY <2>3, <2>7
  <2> QED BY <2>6, <2>7
<1> HIDE DEF R
<1> QED BY <1>5, <1>14, <1>15, <1>16 DEF Selects, c

-----------------------------------------------------------------------------
(* An exclusion keeps a hook firing on what it does not name. *)
HookListing(h) == \A s \in ToSet(h.sels) : Listing(s.clauses)
HookFollows(h, on, op) == \E s \in ToSet(h.sels) : FollowsIn(s.clauses, on, op)

LEMMA NarrowHookSpares ==
    ASSUME NEW h \in HookSet, NEW ex \in Exclusions
    PROVE  /\ NarrowHook(h, ex).name = h.name
           /\ HookListing(h) => HookListing(NarrowHook(h, ex))
           /\ \A t, p : HookFollows(NarrowHook(h, ex), t, p) => HookFollows(h, t, p)
           /\ \A e \in Event :
                /\ HookListing(h)
                /\ HookFires(h, e)
                /\ \A v \in ex.binaries : e.of["binary"] # v
                /\ \A v \in ex.parents : e.of["parent"] # v
                /\ PathArgument(h, ex) # None =>
                    \A v \in ex.paths : e.of[PathArgument(h, ex)] \notin Below[v]
                /\ HookFollows(h, "binary", "NotIn") => ex.binaries \cap e.ancestors = {}
                /\ HookFollows(h, "parent", "NotIn") => ex.parents \cap e.ancestors = {}
                => HookFires(NarrowHook(h, ex), e)
<1> DEFINE S == Selectors(h)
           at == PathArgument(h, ex)
           N == [j \in DOMAIN S |-> Narrow(S[j], ex, at)]
<1>1. h.sels \in Seq(SelectorSet) /\ h.name \in Hooks /\ h.path \in Arguments \cup {None}
  BY DEF HookSet
<1>2. BareSelector \in SelectorSet /\ BareSelector.clauses = <<>>
  BY DEF BareSelector, SelectorSet
<1>3. S \in Seq(SelectorSet) /\ S # <<>>
  BY <1>1, <1>2 DEF Selectors
<1>4. at \in Arguments \cup {None}
  BY <1>1 DEF PathArgument, Exclusions
<1>5. NarrowHook(h, ex) = [name |-> h.name, path |-> h.path, sels |-> N]
  BY DEF NarrowHook, HookSet
<1>6. \A s \in ToSet(S) : s \in ToSet(h.sels) \/ (h.sels = <<>> /\ s.clauses = <<>>)
  BY <1>1, <1>2 DEF Selectors, ToSet
<1>7. \A e : HookFires(h, e) => h.name = e.hook /\ \E s \in ToSet(S) : Selects(s, e)
  <2> SUFFICES ASSUME NEW e, HookFires(h, e) PROVE \E s \in ToSet(S) : Selects(s, e)
    BY DEF HookFires
  <2>1. CASE h.sels = <<>>
    <3>1. S = <<BareSelector>>
      BY <2>1 DEF Selectors
    <3>2. BareSelector \in ToSet(S)
      BY <3>1 DEF ToSet
    <3>3. Selects(BareSelector, e)
      BY <1>2 DEF Selects, ToSet
    <3> QED BY <3>2, <3>3
  <2>2. CASE h.sels # <<>>
    BY <2>2 DEF HookFires, Selectors
  <2> QED BY <2>1, <2>2
<1> HIDE DEF S, at
<1>8. \A j \in DOMAIN S : S[j] \in SelectorSet /\ S[j] \in ToSet(S)
  BY <1>3 DEF ToSet
<1>9. DOMAIN N = DOMAIN S /\ \A j \in DOMAIN S : N[j] = Narrow(S[j], ex, at)
  OBVIOUS
<1>10. NarrowHook(h, ex).name = h.name /\ NarrowHook(h, ex).sels = N
  BY <1>5
<1> HIDE DEF N
<1>11. \A z \in ToSet(N) : \E s \in ToSet(S) : s \in SelectorSet /\ z = Narrow(s, ex, at)
  BY <1>8, <1>9 DEF ToSet
<1>12. \A s \in ToSet(S) : s \in SelectorSet /\ Narrow(s, ex, at) \in ToSet(N)
  BY <1>8, <1>9 DEF ToSet
<1>13. HookListing(h) => \A s \in ToSet(S) : Listing(s.clauses)
  <2>1. Listing(<<>>)
    BY DEF Listing, ToSet
  <2> QED BY <1>6, <2>1 DEF HookListing
<1>14. \A s \in ToSet(S) : \A t, p : FollowsIn(s.clauses, t, p) => HookFollows(h, t, p)
  <2>1. \A t, p : ~FollowsIn(<<>>, t, p)
    BY DEF FollowsIn, ToSet
  <2> QED BY <1>6, <2>1 DEF HookFollows
<1>15. HookListing(h) => HookListing(NarrowHook(h, ex))
  BY <1>4, <1>10, <1>11, <1>13, NarrowSpares DEF HookListing
<1>16. \A t, p : HookFollows(NarrowHook(h, ex), t, p) => HookFollows(h, t, p)
  <2> SUFFICES ASSUME NEW t, NEW p, HookFollows(NarrowHook(h, ex), t, p)
               PROVE  HookFollows(h, t, p)
    OBVIOUS
  <2>1. PICK z \in ToSet(N) : FollowsIn(z.clauses, t, p)
    BY <1>10 DEF HookFollows
  <2>2. PICK s \in ToSet(S) : s \in SelectorSet /\ z = Narrow(s, ex, at)
    BY <1>11
  <2>3. FollowsIn(s.clauses, t, p)
    BY <1>4, <2>1, <2>2, NarrowSpares
  <2> QED BY <1>14, <2>3
<1>17. ASSUME NEW e \in Event, HookListing(h), HookFires(h, e),
              \A v \in ex.binaries : e.of["binary"] # v,
              \A v \in ex.parents : e.of["parent"] # v,
              at # None => \A v \in ex.paths : e.of[at] \notin Below[v],
              HookFollows(h, "binary", "NotIn") => ex.binaries \cap e.ancestors = {},
              HookFollows(h, "parent", "NotIn") => ex.parents \cap e.ancestors = {}
       PROVE  HookFires(NarrowHook(h, ex), e)
  <2>1. PICK s \in ToSet(S) : Selects(s, e)
    BY <1>7, <1>17
  <2>2. /\ Listing(s.clauses)
        /\ FollowsIn(s.clauses, "binary", "NotIn") => ex.binaries \cap e.ancestors = {}
        /\ FollowsIn(s.clauses, "parent", "NotIn") => ex.parents \cap e.ancestors = {}
    BY <1>13, <1>14, <1>17
  <2>3. Selects(Narrow(s, ex, at), e)
    BY <1>4, <1>12, <1>17, <2>1, <2>2, NarrowSpares
  <2> QED BY <1>7, <1>10, <1>12, <1>17, <2>3 DEF HookFires
<1> QED BY <1>10, <1>15, <1>16, <1>17 DEF at

LEMMA RewriteHookSpares ==
    ASSUME NEW h \in HookSet, NEW to \in {"monitor", "enforce"}
    PROVE  /\ HookListing(h) => HookListing(RewriteHook(h, to))
           /\ \A t, p : HookFollows(RewriteHook(h, to), t, p) => HookFollows(h, t, p)
           /\ \A e : HookFires(h, e) => HookFires(RewriteHook(h, to), e)
<1> DEFINE R == [j \in DOMAIN h.sels |-> Rewrite(h.sels[j], to)]
<1>1. h.sels \in Seq(SelectorSet)
  BY DEF HookSet
<1>2. \A s \in SelectorSet : Rewrite(s, to).clauses = s.clauses
  BY DEF Rewrite, SelectorSet
<1>3. RewriteHook(h, to).sels = R /\ RewriteHook(h, to).name = h.name
  BY DEF RewriteHook, HookSet
<1>4. DOMAIN R = DOMAIN h.sels /\ \A j \in DOMAIN h.sels : R[j].clauses = h.sels[j].clauses
  BY <1>1, <1>2
<1>5. h.sels = <<>> => R = <<>>
  OBVIOUS
<1> HIDE DEF R
<1>6. \A z \in ToSet(R) : \E s \in ToSet(h.sels) : z.clauses = s.clauses
  BY <1>4 DEF ToSet
<1>7. \A s \in ToSet(h.sels) : \E z \in ToSet(R) : z.clauses = s.clauses
  BY <1>4 DEF ToSet
<1>8. HookListing(h) => HookListing(RewriteHook(h, to))
  BY <1>3, <1>6 DEF HookListing
<1>9. \A t, p : HookFollows(RewriteHook(h, to), t, p) => HookFollows(h, t, p)
  BY <1>3, <1>6 DEF HookFollows
<1>10. \A e : HookFires(h, e) => HookFires(RewriteHook(h, to), e)
  BY <1>3, <1>5, <1>7 DEF HookFires, Selects
<1> QED BY <1>8, <1>9, <1>10

-----------------------------------------------------------------------------
(* Every manifest stays well formed, and a clause that follows children is *)
(* its author's.                                                           *)
FollowsAuthored ==
    /\ WellFormed(policy)
    /\ \A h \in ToSet(policy.hooks) : \A on : HookFollows(h, on, "NotIn") =>
        \E g \in ToSet(authored.hooks) : HookFollows(g, on, "NotIn")

LEMMA WellFormedHooks ==
    ASSUME NEW m \in Manifest
    PROVE  WellFormed(m) <=> /\ \A c \in ToSet(m.container) : ~c.follow
                             /\ \A h \in ToSet(m.hooks) : HookListing(h)
BY DEF WellFormed, HookListing, Listing, Binaries

LEMMA FollowsAuthoredStays == TypeOK /\ FollowsAuthored /\ [Next]_vars => FollowsAuthored'
<1> SUFFICES ASSUME TypeOK, FollowsAuthored, [Next]_vars PROVE FollowsAuthored'
  OBVIOUS
<1>0. policy \in Manifest /\ \A h \in ToSet(policy.hooks) : h \in HookSet
  BY DEF TypeOK, Manifest, ToSet
<1>1. ASSUME NEW m, NEW who, Starts(m, who), WellFormed(m) PROVE FollowsAuthored'
  BY <1>1 DEF Starts, FollowsAuthored
<1>2. ASSUME NEW m \in Manifests \cup {policy}, Author(m) PROVE FollowsAuthored'
  <2>1. m \in Manifest /\ WellFormed(m)
    BY <1>0, InputsAssumption DEF FollowsAuthored
  <2>2. Exempt(m).container = m.container /\ Exempt(m).hooks = m.hooks
    BY <2>1 DEF Exempt, Manifest
  <2>3. WellFormed(Exempt(m))
    BY <2>1, <2>2 DEF WellFormed
  <2> QED BY <1>1, <1>2, <2>3 DEF Author
<1>3. ASSUME NEW ex \in Requests, Exclude(ex) PROVE FollowsAuthored'
  <2>1. ex \in Exclusions
    BY InputsAssumption
  <2>2. /\ policy' \in Manifest
        /\ policy'.container = Merge(policy.container, "container", "NotIn", ex.containers)
        /\ ToSet(policy'.hooks) = {NarrowHook(h, ex) : h \in ToSet(policy.hooks)}
    BY <1>0, <1>3, <2>1, ExclusionFacts DEF Exclude, ApplyExclusions
  <2>3. \A c \in ToSet(policy'.container) : ~c.follow
    <3>1. policy.container \in Seq(Clauses) /\ \A c \in ToSet(policy.container) : ~c.follow
      BY <1>0 DEF Manifest, FollowsAuthored, WellFormed
    <3> QED BY <2>2, <3>1, MergeFollows
  <2>4. \A h \in ToSet(policy.hooks) :
          /\ HookListing(NarrowHook(h, ex))
          /\ \A t, p : HookFollows(NarrowHook(h, ex), t, p) => HookFollows(h, t, p)
    BY <1>0, <2>1, WellFormedHooks, NarrowHookSpares DEF FollowsAuthored
  <2>5. WellFormed(policy)'
    BY <2>2, <2>3, <2>4, WellFormedHooks
  <2> QED BY <1>3, <2>2, <2>4, <2>5 DEF Exclude, FollowsAuthored
<1>4. ASSUME NEW to \in {"monitor", "enforce"}, PutInMode(to) PROVE FollowsAuthored'
  <2>1. /\ policy' \in Manifest /\ policy'.container = policy.container
        /\ ToSet(policy'.hooks) = {RewriteHook(h, to) : h \in ToSet(policy.hooks)}
    BY <1>0, <1>4, SetFacts DEF PutInMode
  <2>2. \A h \in ToSet(policy.hooks) :
          /\ HookListing(RewriteHook(h, to))
          /\ \A t, p : HookFollows(RewriteHook(h, to), t, p) => HookFollows(h, t, p)
    BY <1>0, WellFormedHooks, RewriteHookSpares DEF FollowsAuthored
  <2>3. \A c \in ToSet(policy.container) : ~c.follow
    BY DEF FollowsAuthored, WellFormed
  <2>4. WellFormed(policy)'
    BY <2>1, <2>2, <2>3, WellFormedHooks
  <2> QED BY <1>4, <2>1, <2>2, <2>4 DEF PutInMode, FollowsAuthored
<1>5. CASE UNCHANGED vars
  BY <1>5 DEF vars, FollowsAuthored
<1> QED BY <1>1, <1>2, <1>3, <1>4, <1>5, InputsAssumption DEF Next, HandEdit

(* An event that an exclusion neither names nor reaches through a clause   *)
(* that follows children is fired on as before.                            *)
LEMMA UnnamedStillFires ==
    ASSUME NEW m \in Manifest, NEW a, WellFormed(m), NEW ex \in Exclusions, NEW e \in Event,
           Fires(m, e),
           \A h \in ToSet(m.hooks) : \A on : HookFollows(h, on, "NotIn") =>
               \E g \in ToSet(a.hooks) : HookFollows(g, on, "NotIn"),
           \A x \in Excluding(m, ex) :
               /\ ~Names(x, e)
               /\ x.value \in e.ancestors =>
                    ~\E g \in ToSet(a.hooks) : HookFollows(g, x.on, "NotIn")
    PROVE  Fires(ApplyExclusions(m, ex), e)
<1> DEFINE A == ApplyExclusions(m, ex)
<1>0. /\ m.container \in Seq(Clauses) /\ ex.containers \in SUBSET Values
      /\ \A h \in ToSet(m.hooks) : h \in HookSet /\ HookListing(h)
      /\ \A c \in ToSet(m.container) : ~c.follow
      /\ \A l \in ex.labels : l.key \in Keys
  BY WellFormedHooks DEF Manifest, Exclusions, ToSet
<1>1. /\ "binary" \notin Arguments /\ "parent" \notin Arguments /\ "container" \notin Arguments
      /\ Keys \cap Arguments = {} /\ "container" \in Looked /\ None \notin Arguments
  BY ThingsAssumption, ValuesAssumption DEF Things, Looked
<1>2. \A on, vals, v : Everywhere(on, vals) \subseteq Excluding(m, ex) /\ v \in vals /\ on \notin Arguments
        => /\ e.of[on] # v
           /\ v \in e.ancestors => ~\E g \in ToSet(a.hooks) : HookFollows(g, on, "NotIn")
  <2> SUFFICES ASSUME NEW on, NEW vals, NEW v \in vals, on \notin Arguments,
                      Everywhere(on, vals) \subseteq Excluding(m, ex)
               PROVE  /\ e.of[on] # v
                      /\ v \in e.ancestors => ~\E g \in ToSet(a.hooks) : HookFollows(g, on, "NotIn")
    OBVIOUS
  <2> DEFINE x == [hook |-> None, on |-> on, value |-> v, whole |-> TRUE]
  <2>1. x \in Excluding(m, ex) /\ x.hook = None /\ x.on = on /\ x.value = v
    BY DEF Everywhere
  <2> HIDE DEF x
  <2> QED BY <2>1 DEF Names
<1>3. ASSUME NEW v \in ex.binaries
      PROVE  /\ e.of["binary"] # v
             /\ v \in e.ancestors => ~\E h \in ToSet(m.hooks) : HookFollows(h, "binary", "NotIn")
  <2>1. Everywhere("binary", ex.binaries) \subseteq Excluding(m, ex)
    BY DEF Excluding
  <2> QED BY <1>1, <1>2, <2>1
<1>4. ASSUME NEW v \in ex.parents
      PROVE  /\ e.of["parent"] # v
             /\ v \in e.ancestors => ~\E h \in ToSet(m.hooks) : HookFollows(h, "parent", "NotIn")
  <2>1. Everywhere("parent", ex.parents) \subseteq Excluding(m, ex)
    BY DEF Excluding
  <2> QED BY <1>1, <1>2, <2>1
<1>5. ASSUME NEW v \in ex.containers PROVE e.of["container"] # v
  <2>1. Everywhere("container", ex.containers) \subseteq Excluding(m, ex)
    BY DEF Excluding
  <2> QED BY <1>1, <1>2, <2>1
<1>6. ASSUME NEW l \in ex.labels PROVE e.of[l.key] # l.value
  <2> DEFINE x == [hook |-> None, on |-> l.key, value |-> l.value, whole |-> TRUE]
  <2>1. x \in Excluding(m, ex) /\ x.hook = None /\ x.on = l.key /\ x.value = l.value
    BY DEF OfLabels, Excluding
  <2> HIDE DEF x
  <2> QED BY <1>0, <1>1, <2>1 DEF Names
<1>7. ASSUME NEW h \in ToSet(m.hooks), h.name = e.hook, PathArgument(h, ex) # None,
             NEW v \in ex.paths
      PROVE  e.of[PathArgument(h, ex)] \notin Below[v]
  <2> DEFINE w == \A g \in ToSet(m.hooks) : g.name = h.name =>
                      PathArgument(g, ex) = PathArgument(h, ex) /\ TakenWhole(g, ex)
             x == [hook |-> h.name, on |-> PathArgument(h, ex), value |-> v, whole |-> w]
  <2>1. x \in [hook : {h.name}, on : {PathArgument(h, ex)}, value : ex.paths, whole : {w}]
    OBVIOUS
  <2>2. x \in OfPaths(m, ex)
    BY <1>7, <2>1 DEF OfPaths
  <2>3. x \in Excluding(m, ex)
    BY <2>2 DEF Excluding
  <2>4. x.hook = e.hook /\ x.on = PathArgument(h, ex) /\ x.value = v
    BY <1>7
  <2>5. PathArgument(h, ex) \in Arguments
    BY <1>0, <1>7 DEF HookSet, PathArgument, Exclusions
  <2> HIDE DEF x
  <2> QED BY <2>3, <2>4, <2>5 DEF Names
<1>8. InScope(A, e)
  <2>1. ASSUME NEW c \in A.pod PROVE Holds(c, e)
    <3>1. A.pod = AddLabels(m.pod, ex.labels)
      BY DEF ApplyExclusions
    <3>2. CASE c \in m.pod
      BY <3>2 DEF Fires, InScope
    <3>3. ASSUME NEW l \in ex.labels, c = Clause(l.key, "NotIn", {l.value})
          PROVE  Holds(c, e)
      <4>1. c.on = l.key /\ c.op = "NotIn" /\ c.values = {l.value} /\ c.follow = FALSE
        BY <3>3 DEF Clause
      <4> QED BY <1>6, <4>1 DEF Holds, Named, Looks
    <3> HIDE DEF A
    <3> QED BY <3>1, <3>2, <3>3 DEF AddLabels
  <2>2. ASSUME NEW c \in ToSet(A.container) PROVE Holds(c, e)
    <3>1. A.container = Merge(m.container, "container", "NotIn", ex.containers)
      BY DEF ApplyExclusions
    <3>2. Spares(m.container, "container", "NotIn", ex.containers, e)
      BY <1>0, <1>5 DEF Spares, FollowsIn
    <3>3. \A d \in ToSet(m.container) : Holds(d, e)
      BY DEF Fires, InScope
    <3> HIDE DEF A
    <3> QED BY <1>0, <1>1, <3>1, <3>2, <3>3, MergeHolds
  <2> QED BY <2>1, <2>2 DEF InScope
<1>9. \E h \in ToSet(A.hooks) : HookFires(h, e)
  <2>1. PICK h \in ToSet(m.hooks) : HookFires(h, e)
    BY DEF Fires
  <2>2. h.name = e.hook
    BY <2>1 DEF HookFires
  <2>3. HookFollows(h, "binary", "NotIn") => ex.binaries \cap e.ancestors = {}
    BY <1>3
  <2>4. HookFollows(h, "parent", "NotIn") => ex.parents \cap e.ancestors = {}
    BY <1>4
  <2>5. HookFires(NarrowHook(h, ex), e)
    BY <1>0, <1>3, <1>4, <1>7, <2>1, <2>2, <2>3, <2>4, NarrowHookSpares
  <2>6. NarrowHook(h, ex) \in ToSet(A.hooks)
    BY ExclusionFacts
  <2> QED BY <2>5, <2>6
<1> QED BY <1>8, <1>9 DEF Fires, A

LEMMA NothingElseStays ==
    TypeOK /\ FollowsAuthored /\ NothingElseIsSilenced /\ [Next]_vars => NothingElseIsSilenced'
<1> SUFFICES ASSUME TypeOK, FollowsAuthored, NothingElseIsSilenced, [Next]_vars
             PROVE  NothingElseIsSilenced'
  OBVIOUS
<1>0. policy \in Manifest /\ \A h \in ToSet(policy.hooks) : h \in HookSet
  BY DEF TypeOK, Manifest, ToSet
<1>1. ASSUME NEW m, NEW who, Starts(m, who) PROVE NothingElseIsSilenced'
  BY <1>1 DEF Starts, NothingElseIsSilenced
<1>2. ASSUME NEW ex \in Requests, Exclude(ex) PROVE NothingElseIsSilenced'
  <2> SUFFICES ASSUME NEW e \in Events, Fires(authored, e),
                      \A x \in excluded' : ~Names(x, e) /\ ~Follows(x, e)
               PROVE  Fires(policy', e)
    BY <1>2 DEF Exclude, NothingElseIsSilenced, Names, Follows
  <2>1. excluded' = excluded \cup Excluding(policy, ex) /\ policy' = ApplyExclusions(policy, ex)
    BY <1>2 DEF Exclude
  <2>2. Fires(policy, e)
    BY <2>1 DEF NothingElseIsSilenced
  <2>3. \A x \in Excluding(policy, ex) : x.value \in e.ancestors =>
            ~\E g \in ToSet(authored.hooks) : HookFollows(g, x.on, "NotIn")
    BY <2>1 DEF Follows, HookFollows, FollowsIn
  <2>4. ex \in Exclusions /\ e \in Event
    BY InputsAssumption
  <2> QED BY <1>0, <2>1, <2>2, <2>3, <2>4, UnnamedStillFires DEF FollowsAuthored
<1>3. ASSUME NEW to \in {"monitor", "enforce"}, PutInMode(to) PROVE NothingElseIsSilenced'
  <2>1. /\ policy'.pod = policy.pod /\ policy'.container = policy.container
        /\ ToSet(policy'.hooks) = {RewriteHook(h, to) : h \in ToSet(policy.hooks)}
    BY <1>0, <1>3, SetFacts DEF PutInMode
  <2>2. \A e : Fires(policy, e) => Fires(policy', e)
    BY <1>0, <2>1, RewriteHookSpares DEF Fires, InScope
  <2>3. authored' = authored /\ excluded' = excluded
    BY <1>3 DEF PutInMode
  <2> QED BY <2>2, <2>3 DEF NothingElseIsSilenced, Names, Follows
<1>4. CASE UNCHANGED vars
  BY <1>4 DEF vars, NothingElseIsSilenced, Names, Follows
<1> QED BY <1>1, <1>2, <1>3, <1>4 DEF Next, HandEdit, Author

(* exclusions.go: what nobody excluded fires as its author meant it to,    *)
(* through any exclusions and changes of mode, but for what descends from  *)
(* a binary that was merged into the author's own clause.                  *)
THEOREM NothingElseGoesQuiet == Spec => []NothingElseIsSilenced
<1>1. Init => FollowsAuthored /\ NothingElseIsSilenced
  BY InputsAssumption DEF Init, FollowsAuthored, NothingElseIsSilenced
<1> QED BY <1>1, TypeCorrect, FollowsAuthoredStays, NothingElseStays, PTL DEF Spec

-----------------------------------------------------------------------------
(* A clause that holds of an event which carries what it looks at, and     *)
(* follows nothing, is one the explanation finds.                          *)
LEMMA HoldingMatches ==
    ASSUME NEW c \in Clauses, c.values # {}, ~c.follow, NEW e \in Event,
           e.of[c.on] # None, Holds(c, e)
    PROVE  OpMatches(c, e.of[c.on])
<1>1. Looks(c, e) = {e.of[c.on]}
  BY DEF Looks
<1>2. c.op \in Operators
  BY DEF Clauses
<1>3. CASE c.op = "In"
  BY <1>1, <1>3 DEF Holds, Named, OpMatches
<1>4. CASE c.op = "NotIn"
  BY <1>1, <1>4 DEF Holds, Named, OpMatches
<1>5. CASE c.op = "Prefix"
  BY <1>1, <1>5 DEF Holds, Named, OpMatches
<1>6. CASE c.op = "NotPrefix"
  BY <1>1, <1>6 DEF Holds, Named, OpMatches
<1> QED BY <1>2, <1>3, <1>4, <1>5, <1>6 DEF Operators

(* explain.go: an event the policy fires on is attributed to its hook and  *)
(* to a selector of it.                                                    *)
THEOREM FiringsAreExplained == Spec => []FiringIsExplained
<1>1. TypeOK /\ FollowsAuthored => FiringIsExplained
  <2> SUFFICES ASSUME TypeOK, FollowsAuthored, Plain(policy), NEW e \in Events,
                      Carries(e, policy), Fires(policy, e)
               PROVE  /\ Confident(policy, e)
                      /\ \E h \in ToSet(policy.hooks) :
                            h.name = e.hook /\ (h.sels = <<>> \/ Reported(policy, e) # {})
    BY DEF FiringIsExplained
  <2>1. PICK h \in ToSet(policy.hooks) : HookFires(h, e)
    BY DEF Fires
  <2>2. h.name = e.hook /\ HookMatches(h, e)
    BY <2>1 DEF HookFires, HookMatches
  <2>3. ASSUME h.sels # <<>> PROVE Reported(policy, e) # {}
    <3>1. PICK s \in ToSet(h.sels) : Selects(s, e)
      BY <2>1, <2>3 DEF HookFires
    <3>2. \A c \in ToSet(s.clauses) : c \in Clauses
      <4>1. h \in HookSet
        BY DEF TypeOK, Manifest, ToSet
      <4>2. s \in SelectorSet
        BY <4>1 DEF HookSet, ToSet
      <4> QED BY <4>2 DEF SelectorSet, ToSet
    <3>3. e \in Event
      BY InputsAssumption
    <3>4. ASSUME NEW c \in ToSet(s.clauses) PROVE OpMatches(c, e.of[c.on])
      <4>1. c.values # {} /\ ~c.follow /\ e.of[c.on] # None /\ Holds(c, e)
        BY <2>2, <3>1 DEF FollowsAuthored, WellFormed, Plain, Carries, Selects
      <4> QED BY <3>2, <3>3, <4>1, HoldingMatches
    <3>5. s \in {z \in ToSet(h.sels) : SelectorMatches(z, e)}
      BY <3>4 DEF SelectorMatches
    <3> QED BY <2>2, <3>5 DEF Reported
  <2> QED BY <2>2, <2>3 DEF Confident
<1>2. Init => FollowsAuthored
  BY InputsAssumption DEF Init, FollowsAuthored
<1> QED BY <1>1, <1>2, TypeCorrect, FollowsAuthoredStays, PTL DEF Spec

-----------------------------------------------------------------------------
(* Every step is one of PolicyEdits, or leaves the policy alone.           *)
LEMMA TuningIsEditing == TuningTypeOK /\ [TuningNext]_tuningVars => [Next]_vars
<1> SUFFICES ASSUME TuningTypeOK, [TuningNext]_tuningVars PROVE [Next]_vars
  OBVIOUS
<1>1. scope.manifests \subseteq Manifests /\ scope.requests \subseteq Requests
  BY TuningAssumption DEF TuningTypeOK, Scope
<1>2. ASSUME NEW ex \in scope.requests, Approve(ex) \/ ApproveOnly(ex) PROVE Next
  BY <1>1, <1>2 DEF Approve, ApproveOnly, Next
<1>3. CASE EditElsewhere
  BY <1>1, <1>3 DEF EditElsewhere, Next
<1>4. CASE (\E e \in Happening : Happen(e)) \/ Dropped \/ Ingest \/ Clear \/ resetHits
  BY <1>4 DEF Happen, Dropped, Ingest, Clear, resetHits
<1>5. CASE UNCHANGED tuningVars
  BY <1>5 DEF tuningVars
<1> QED BY <1>2, <1>3, <1>4, <1>5 DEF TuningNext

-----------------------------------------------------------------------------
(* The events that are kept for a policy are a sequence of them.           *)
SamplesOK ==
    /\ DOMAIN hits = TrackerKeys
    /\ \A key \in TrackerKeys : hits[key].samples \in Seq(Hit)

(* What Record keeps of the events: the new one, and of the old ones the   *)
(* newest.                                                                 *)
LEMMA RecordKeeps ==
    ASSUME NEW before, before.samples \in Seq(Hit), NEW hit \in Hit, NEW orders, NEW enforced,
           NEW after \in Record(before, hit, orders, enforced)
    PROVE  /\ after.samples \in Seq(Hit)
           /\ ToSet(after.samples) \subseteq ToSet(before.samples) \cup {hit}
<1>1. after.samples = Push(before.samples, hit, MaxSamples)
  BY DEF Record
<1>2. MaxSamples \in Nat \ {0}
  BY RoomAssumption
<1> QED BY <1>1, <1>2, PushKeeps

LEMMA TuningInitTyped == TuningInit => TuningTypeOK /\ SamplesOK
<1> SUFFICES ASSUME TuningInit PROVE TuningTypeOK /\ SamplesOK
  OBVIOUS
<1>1. TypeOK
  BY InitTyped DEF TuningInit
<1>2. scope.hits \in Nat
  BY TuningAssumption DEF TuningInit, Scope
<1>3. SamplesOK
  <2>1. NoHits.samples \in Seq(Hit)
    BY DEF NoHits
  <2> QED BY <2>1 DEF TuningInit, SamplesOK
<1> QED BY <1>1, <1>2, <1>3 DEF TuningInit, TuningTypeOK

(* An event that reaches the aggregator, one that is dropped, and those    *)
(* that are late, leave a sequence of events on their way.                 *)
LEMMA FlightFacts ==
    ASSUME flight \in Seq(Hit)
    PROVE  /\ Late \in Seq(Hit) /\ DOMAIN Late = DOMAIN flight
           /\ \A i \in DOMAIN flight : Late[i].of = flight[i].of /\ Late[i].late = TRUE
           /\ \A i \in DOMAIN flight : RemoveAt(flight, i) \in Seq(Hit)
                /\ ToSet(RemoveAt(flight, i)) \subseteq ToSet(flight)
           /\ flight # <<>> => Head(flight) \in Hit /\ Head(flight) \in ToSet(flight)
                /\ Tail(flight) \in Seq(Hit) /\ ToSet(Tail(flight)) \subseteq ToSet(flight)
<1>1. \A h \in Hit : [h EXCEPT !.late = TRUE] \in Hit
        /\ [h EXCEPT !.late = TRUE].of = h.of /\ [h EXCEPT !.late = TRUE].late = TRUE
  BY DEF Hit
<1>2. \A i \in DOMAIN flight : flight[i] \in Hit
  OBVIOUS
<1>3. Late \in Seq(Hit) /\ DOMAIN Late = DOMAIN flight
      /\ \A i \in DOMAIN flight : Late[i].of = flight[i].of /\ Late[i].late = TRUE
  <2>1. DOMAIN Late = DOMAIN flight
        /\ \A i \in DOMAIN flight : Late[i] = [flight[i] EXCEPT !.late = TRUE]
    BY DEF Late
  <2>2. \A i \in DOMAIN flight : Late[i] \in Hit /\ Late[i].of = flight[i].of /\ Late[i].late = TRUE
    <3> SUFFICES ASSUME NEW i \in DOMAIN flight
                 PROVE  Late[i] \in Hit /\ Late[i].of = flight[i].of /\ Late[i].late = TRUE
      OBVIOUS
    <3>1. Late[i] = [flight[i] EXCEPT !.late = TRUE] /\ flight[i] \in Hit
      BY <1>2, <2>1
    <3> QED BY <1>1, <3>1, Zenon
  <2>3. Late \in Seq(Hit)
    <3>1. Len(flight) \in Nat /\ DOMAIN flight = 1 .. Len(flight)
      OBVIOUS
    <3>2. Late \in [1 .. Len(flight) -> Hit]
      <4>1. Late = [i \in DOMAIN flight |-> Late[i]]
        BY DEF Late
      <4> QED BY <2>2, <3>1, <4>1
    <3> QED BY <3>1, <3>2
  <2> QED BY <2>1, <2>2, <2>3
<1>4. ASSUME NEW i \in DOMAIN flight
      PROVE  RemoveAt(flight, i) \in Seq(Hit) /\ ToSet(RemoveAt(flight, i)) \subseteq ToSet(flight)
  <2> DEFINE a == SubSeq(flight, 1, i - 1)
             b == SubSeq(flight, i + 1, Len(flight))
  <2>1. i \in 1 .. Len(flight)
    OBVIOUS
  <2>2. a \in Seq(Hit) /\ \A j \in 1 .. Len(a) : a[j] \in ToSet(flight)
    BY <2>1 DEF ToSet
  <2>3. b \in Seq(Hit) /\ \A j \in 1 .. Len(b) : b[j] \in ToSet(flight)
    BY <2>1 DEF ToSet
  <2>4. RemoveAt(flight, i) = a \o b
    BY DEF RemoveAt
  <2> HIDE DEF a, b
  <2> QED BY <2>2, <2>3, <2>4 DEF ToSet
<1>5. flight # <<>> => Head(flight) \in Hit /\ Head(flight) \in ToSet(flight)
        /\ Tail(flight) \in Seq(Hit) /\ ToSet(Tail(flight)) \subseteq ToSet(flight)
  BY DEF ToSet
<1> QED BY <1>3, <1>4, <1>5

LEMMA HappenFacts ==
    ASSUME TuningTypeOK, NEW e \in Happening, Happen(e)
    PROVE  /\ flight' \in Seq(Hit)
           /\ \A hit \in ToSet(flight') : hit \in ToSet(flight) \/ hit.of = e
<1>1. flight \in Seq(Hit) /\ e \in Events
  BY TuningAssumption DEF TuningTypeOK
<1> DEFINE hit == [of |-> e, enforced |-> Enforced(policy, e), late |-> FALSE]
<1>2. Enforced(policy, e) \in BOOLEAN
  BY DEF Enforced
<1>3. hit \in Hit /\ hit.of = e
  BY <1>1, <1>2 DEF Hit
<1>4. flight' = Append(flight, hit)
  BY DEF Happen
<1> HIDE DEF hit
<1> QED BY <1>1, <1>3, <1>4 DEF ToSet

LEMMA ResetFacts ==
    ASSUME TuningTypeOK, SamplesOK, Reset
    PROVE  /\ flight' \in Seq(Hit) /\ counted' \in Seq(Hit) /\ cleared' \in BOOLEAN /\ SamplesOK'
           /\ ~namespaced => /\ flight' = Late
                             /\ hits'[EventKey].samples = <<>>
<1>1. flight' \in {flight, Late} /\ counted' \in {<<>>, counted} /\ cleared' = TRUE
  BY DEF Reset
<1>2. Late \in Seq(Hit)
  BY FlightFacts DEF TuningTypeOK
<1>3. NoHits.samples = <<>>
  BY DEF NoHits
<1>4. SamplesOK'
  <2>1. NoHits.samples \in Seq(Hit)
    BY <1>3
  <2>2. hits' = [hits EXCEPT ![PolicyKey] = NoHits]
    BY DEF Reset
  <2>3. DOMAIN hits' = DOMAIN hits
        /\ \A key \in DOMAIN hits : hits'[key] = IF key = PolicyKey THEN NoHits ELSE hits[key]
    BY <2>2
  <2> QED BY <2>1, <2>3 DEF SamplesOK
<1>5. ~namespaced => flight' = Late /\ hits'[EventKey].samples = <<>>
  BY <1>3 DEF Reset, PolicyKey, EventKey, SamplesOK, TrackerKeys
<1>6. flight' \in Seq(Hit) /\ counted' \in Seq(Hit)
  <2>1. flight \in Seq(Hit) /\ counted \in Seq(Hit) /\ <<>> \in Seq(Hit)
    BY DEF TuningTypeOK
  <2> QED BY <1>1, <1>2, <2>1
<1>7. cleared' \in BOOLEAN
  BY <1>1
<1> QED BY <1>4, <1>5, <1>6, <1>7

LEMMA TuningNextTyped ==
    TuningTypeOK /\ SamplesOK /\ [TuningNext]_tuningVars => TuningTypeOK' /\ SamplesOK'
<1> SUFFICES ASSUME TuningTypeOK, SamplesOK, [TuningNext]_tuningVars
             PROVE  TuningTypeOK' /\ SamplesOK'
  OBVIOUS
<1> USE DEF fixed
<1>1. TypeOK'
  BY TuningIsEditing, NextTyped DEF TuningTypeOK
<1>2. ASSUME NEW e \in Happening, Happen(e) PROVE TuningTypeOK' /\ SamplesOK'
  <2>1. scope.hits \in Nat /\ fired \in Nat /\ fired < scope.hits
    BY <1>2, TuningAssumption DEF TuningTypeOK, Happen, Scope
  <2>2. SamplesOK'
    BY <1>2 DEF Happen, SamplesOK
  <2>3. flight' \in Seq(Hit)
    BY <1>2, HappenFacts
  <2>4. fired' \in Nat /\ fired' <= scope'.hits
    BY <1>2, <2>1 DEF Happen
  <2>5. cleared' \in BOOLEAN /\ namespaced' \in BOOLEAN
    BY <1>2 DEF Happen, TuningTypeOK
  <2> QED BY <1>1, <1>2, <2>2, <2>3, <2>4, <2>5 DEF Happen, TuningTypeOK
<1>3. CASE Dropped
  <2>1. flight' \in Seq(Hit)
    BY <1>3, FlightFacts DEF Dropped, TuningTypeOK
  <2> QED BY <1>1, <1>3, <2>1 DEF Dropped, TuningTypeOK, SamplesOK
<1>4. CASE Ingest
  <2>1. PICK after \in Record(hits[EventKey], Head(flight), Orders(Head(flight).of), Head(flight).enforced) :
          hits' = [hits EXCEPT ![EventKey] = after]
    BY <1>4 DEF Ingest
  <2>2. Head(flight) \in Hit /\ Tail(flight) \in Seq(Hit)
    BY <1>4, FlightFacts DEF Ingest, TuningTypeOK
  <2>3. hits[EventKey].samples \in Seq(Hit)
    BY DEF SamplesOK, EventKey, TrackerKeys
  <2>4. after.samples \in Seq(Hit)
    BY <2>1, <2>2, <2>3, RecordKeeps
  <2>5. SamplesOK'
    BY <2>1, <2>4 DEF SamplesOK
  <2> QED BY <1>1, <1>4, <2>2, <2>5 DEF Ingest, TuningTypeOK
<1>5. ASSUME NEW ex \in scope.requests, Approve(ex) \/ ApproveOnly(ex)
      PROVE  TuningTypeOK' /\ SamplesOK'
  <2>1. cleared' = FALSE /\ clearing' \in Nat
    BY <1>5 DEF Approve, ApproveOnly, TuningTypeOK
  <2>2. UNCHANGED <<scope, namespaced, flight, hits, fired, counted>>
    BY <1>5 DEF Approve, ApproveOnly
  <2>3. SamplesOK'
    BY <2>2 DEF SamplesOK
  <2>4. cleared' \in BOOLEAN
    BY <2>1
  <2> QED BY <1>1, <2>1, <2>2, <2>3, <2>4 DEF TuningTypeOK
<1>6. CASE Clear
  BY <1>1, <1>6, ResetFacts DEF Clear, TuningTypeOK
<1>7. CASE resetHits
  BY <1>1, <1>7, ResetFacts DEF resetHits, TuningTypeOK
<1>8. CASE EditElsewhere
  BY <1>1, <1>8 DEF EditElsewhere, tuning, TuningTypeOK, SamplesOK
<1>9. CASE UNCHANGED tuningVars
  BY <1>1, <1>9 DEF tuningVars, tuning, TuningTypeOK, SamplesOK
<1> QED BY <1>2, <1>3, <1>4, <1>5, <1>6, <1>7, <1>8, <1>9 DEF TuningNext

(* Every variable of a policy's tuning has its type.                       *)
THEOREM TuningTypeCorrect == TuningSpec => []TuningTypeOK
<1>1. TuningInit => TuningTypeOK /\ SamplesOK
  BY TuningInitTyped
<1> QED BY <1>1, TuningNextTyped, PTL DEF TuningSpec

(* What PolicyEdits promises of a policy holds while it is tuned.          *)
THEOREM TuningKeepsPolicies == TuningSpec => Spec
<1>1. TuningInit => Init
  BY DEF TuningInit
<1> QED BY <1>1, TuningTypeCorrect, TuningIsEditing, PTL DEF TuningSpec, Spec

-----------------------------------------------------------------------------
(* Once cleared, what was excluded is neither shown nor on its way, but    *)
(* for what was on its way then.                                           *)
Quiet ==
    cleared /\ ~namespaced =>
        \A x \in excluded : x.whole =>
            \A hit \in ToSet(flight) \cup ToSet(hits[EventKey].samples) :
                Names(x, hit.of) => hit.late

LEMMA QuietStays ==
    TuningTypeOK /\ SamplesOK /\ ExcludedIsSilent /\ Quiet /\ [TuningNext]_tuningVars => Quiet'
<1> SUFFICES ASSUME TuningTypeOK, SamplesOK, ExcludedIsSilent, Quiet, [TuningNext]_tuningVars,
                    cleared', ~namespaced',
                    NEW x \in excluded', x.whole,
                    NEW hit \in (ToSet(flight) \cup ToSet(hits[EventKey].samples))', Names(x, hit.of)
             PROVE  hit.late
  BY DEF Quiet, Names
<1> USE DEF fixed
<1>0. flight \in Seq(Hit) /\ Events \subseteq Event
  BY InputsAssumption DEF TuningTypeOK
<1>1. ASSUME NEW e \in Happening, Happen(e) PROVE hit.late
  <2>1. e \in Events /\ ~Names(x, e)
    BY <1>1, TuningAssumption DEF Happen, vars, ExcludedIsSilent
  <2>2. hit \in ToSet(flight) \cup ToSet(hits[EventKey].samples)
    BY <1>1, <2>1, HappenFacts DEF Happen
  <2> QED BY <1>1, <2>2 DEF Happen, vars, Quiet
<1>2. CASE Dropped
  <2>1. ToSet(flight') \subseteq ToSet(flight)
    BY <1>0, <1>2, FlightFacts DEF Dropped
  <2> QED BY <1>2, <2>1 DEF Dropped, vars, Quiet
<1>3. CASE Ingest
  <2>1. PICK after \in Record(hits[EventKey], Head(flight), Orders(Head(flight).of), Head(flight).enforced) :
          hits' = [hits EXCEPT ![EventKey] = after]
    BY <1>3 DEF Ingest
  <2>2. Head(flight) \in Hit /\ Head(flight) \in ToSet(flight) /\ ToSet(Tail(flight)) \subseteq ToSet(flight)
    BY <1>0, <1>3, FlightFacts DEF Ingest
  <2>3. hits[EventKey].samples \in Seq(Hit) /\ hits'[EventKey] = after
    BY <2>1 DEF SamplesOK, EventKey, TrackerKeys
  <2>4. ToSet(after.samples) \subseteq ToSet(hits[EventKey].samples) \cup {Head(flight)}
    BY <2>1, <2>2, <2>3, RecordKeeps
  <2>5. hit \in ToSet(flight) \cup ToSet(hits[EventKey].samples)
    BY <1>3, <2>2, <2>3, <2>4 DEF Ingest
  <2> QED BY <1>3, <2>5 DEF Ingest, vars, Quiet
<1>4. ASSUME NEW ex \in scope.requests, Approve(ex) \/ ApproveOnly(ex) PROVE FALSE
  BY <1>4 DEF Approve, ApproveOnly
<1>5. CASE Reset /\ UNCHANGED fixed
  <2>1. flight' = Late /\ hits'[EventKey].samples = <<>>
    BY <1>5, ResetFacts
  <2>2. hit \in ToSet(Late)
    BY <2>1 DEF ToSet
  <2> QED BY <1>0, <2>2, FlightFacts DEF ToSet
<1>6. CASE EditElsewhere
  <2>1. excluded' \subseteq excluded
    BY <1>6 DEF EditElsewhere, HandEdit, Author, Starts, PutInMode
  <2> QED BY <1>6, <2>1 DEF EditElsewhere, tuning, Quiet
<1>7. CASE UNCHANGED tuningVars
  BY <1>7 DEF tuningVars, tuning, vars, Quiet
<1> QED BY <1>1, <1>2, <1>3, <1>4, <1>5, <1>6, <1>7 DEF TuningNext, Clear, resetHits

(* handlers_hits.go, if the exclusion worked the policy goes quiet: after  *)
(* its counters were cleared no event that was excluded is shown, but one  *)
(* that was on its way by then.                                            *)
THEOREM PoliciesGoQuiet == TuningSpec => []GoesQuiet
<1>1. TuningInit => TuningTypeOK /\ SamplesOK
  BY TuningInitTyped
<1>2. TuningInit => Quiet
  BY DEF TuningInit, Init, Quiet
<1>3. Quiet => GoesQuiet
  BY DEF Quiet, GoesQuiet
<1> QED BY <1>1, <1>2, <1>3, TuningNextTyped, TuningKeepsPolicies, ExclusionsHold, QuietStays, PTL
        DEF TuningSpec
-----------------------------------------------------------------------------
(* A tally that is counted in without end: what each value has in it.      *)
IsTally(tally) ==
    /\ IsFiniteSet(DOMAIN tally)
    /\ tally \in [DOMAIN tally -> Value]
    /\ \A v \in DOMAIN tally : 1 <= tally[v].count /\ tally[v].enforced <= tally[v].count

(* Buckets of values in U. *)
Buckets(U) == UNION {[D -> Value] : D \in SUBSET U}

(* c is b with a value counted once more.                                  *)
OneMore(b, c, v, enforced) ==
    /\ DOMAIN c = DOMAIN b \cup {v}
    /\ c \in [DOMAIN b \cup {v} -> Value]
    /\ \A w \in DOMAIN b \ {v} : c[w] = b[w]
    /\ v \in DOMAIN b =>
         c[v].count = b[v].count + 1 /\ c[v].enforced = b[v].enforced + One(enforced)
    /\ v \notin DOMAIN b => c[v].count = 1 /\ c[v].enforced = One(enforced)

(* Counting a value counts it once.                                        *)
LEMMA CountedIs ==
    ASSUME NEW b, b \in [DOMAIN b -> Value], NEW v, NEW enforced \in BOOLEAN
    PROVE  OneMore(b, Counted(b, v, enforced), v, enforced)
<1> DEFINE before == IF v \in DOMAIN b THEN b[v] ELSE [count |-> 0, enforced |-> 0]
           now == [count |-> before.count + 1, enforced |-> before.enforced + One(enforced)]
           c == Counted(b, v, enforced)
<1>1. One(enforced) \in {0, 1}
  BY DEF One
<1>2. before \in Value /\ (v \in DOMAIN b => before = b[v])
      /\ (v \notin DOMAIN b => before.count = 0 /\ before.enforced = 0)
  BY DEF Value
<1>3. c = [w \in DOMAIN b \cup {v} |-> IF w = v THEN now ELSE b[w]]
  BY DEF Counted
<1> HIDE DEF before, c
<1>4. before.count \in Nat /\ before.enforced \in Nat
  BY <1>2 DEF Value
<1>5. now \in Value /\ now.count = before.count + 1 /\ now.enforced = before.enforced + One(enforced)
  BY <1>1, <1>4 DEF Value
<1> HIDE DEF now
<1>6. c \in [DOMAIN b \cup {v} -> Value] /\ DOMAIN c = DOMAIN b \cup {v}
  BY <1>3, <1>5
<1>7. c[v] = now /\ \A w \in DOMAIN b \ {v} : c[w] = b[w]
  BY <1>3
<1>8. v \in DOMAIN b => c[v].count = b[v].count + 1 /\ c[v].enforced = b[v].enforced + One(enforced)
  BY <1>2, <1>5, <1>7
<1>9. v \notin DOMAIN b => c[v].count = 1 /\ c[v].enforced = One(enforced)
  BY <1>1, <1>2, <1>5, <1>7
<1> QED
  BY <1>6, <1>7, <1>8, <1>9 DEF c, OneMore

(* A tally with a value more is one.                                       *)
LEMMA TallyCounts ==
    ASSUME NEW t, IsTally(t), NEW v, NEW enforced \in BOOLEAN
    PROVE  IsTally(Counted(t, v, enforced))
<1> DEFINE c == Counted(t, v, enforced)
<1>1. One(enforced) \in {0, 1}
  BY DEF One
<1>2. t \in [DOMAIN t -> Value] /\ IsFiniteSet(DOMAIN t)
  BY DEF IsTally
<1>3. IsFiniteSet(DOMAIN t \cup {v})
  BY <1>2, FS_AddElement
<1>4. OneMore(t, c, v, enforced)
  BY <1>2, CountedIs
<1> HIDE DEF c
<1>5. \A w \in DOMAIN t : t[w].count \in Nat /\ t[w].enforced \in Nat
  BY <1>2 DEF Value
<1>6. \A w \in DOMAIN c : 1 <= c[w].count /\ c[w].enforced <= c[w].count
  BY <1>1, <1>4, <1>5 DEF IsTally, OneMore
<1>7. IsTally(c)
  BY <1>3, <1>4, <1>6 DEF IsTally, OneMore
<1> QED
  BY <1>7 DEF c

(* What is counted in a bucket stays true of the tally it is counted in:   *)
(* a value that is new to a bucket with room is new to the tally, if that  *)
(* has room as well; and where the quietest makes room the tally has none. *)
TrueOf(b, t) == IsTally(t) /\ b \in [DOMAIN b -> Value] /\ BucketIsTrue(b, t)

(* With room for the value, in the bucket at hand or the one eviction left. *)
LEMMA CountedTrue ==
    ASSUME NEW b, NEW t, NEW v, NEW enforced \in BOOLEAN,
           IsTally(t), b \in [DOMAIN b -> Value], DOMAIN b \subseteq DOMAIN t,
           \A w \in DOMAIN b : /\ b[w].enforced <= b[w].count /\ 1 <= b[w].count
                               /\ b[w].count <= t[w].count /\ b[w].enforced <= t[w].enforced,
           Cardinality(DOMAIN b \cup {v}) <= MaxValues,
           Cardinality(DOMAIN t \cup {v}) <= MaxValues => b = t
    PROVE  TrueOf(Counted(b, v, enforced), Counted(t, v, enforced))
<1> DEFINE bb == Counted(b, v, enforced)
           tt == Counted(t, v, enforced)
<1>1. One(enforced) \in {0, 1}
  BY DEF One
<1>2. IsTally(tt)
  BY TallyCounts
<1>3. OneMore(b, bb, v, enforced)
  BY CountedIs
<1>4. OneMore(t, tt, v, enforced)
  <2>1. t \in [DOMAIN t -> Value]
    BY DEF IsTally
  <2> QED
    BY <2>1, CountedIs
<1>5. b = t => bb = tt
  OBVIOUS
<1> HIDE DEF bb, tt
<1>6. /\ \A w \in DOMAIN b : b[w].count \in Nat /\ b[w].enforced \in Nat
      /\ \A w \in DOMAIN t : t[w].count \in Nat /\ t[w].enforced \in Nat
  BY DEF IsTally, Value
<1>7. ASSUME NEW w \in DOMAIN bb
      PROVE  /\ bb[w].enforced <= bb[w].count /\ 1 <= bb[w].count
             /\ bb[w].count <= tt[w].count /\ bb[w].enforced <= tt[w].enforced
  <2>0. w \in DOMAIN b \cup {v} /\ (w # v => w \in DOMAIN b \ {v} /\ w \in DOMAIN t \ {v})
    BY <1>3 DEF OneMore
  <2>1. CASE w # v
    BY <1>3, <1>4, <2>0, <2>1 DEF OneMore
  <2>2. CASE w = v /\ v \in DOMAIN b
    BY <1>1, <1>3, <1>4, <1>6, <2>2 DEF OneMore
  <2>3. CASE w = v /\ v \notin DOMAIN b
    BY <1>1, <1>3, <1>4, <1>6, <2>3 DEF OneMore
  <2> QED
    BY <2>1, <2>2, <2>3
<1>8. \A w \in DOMAIN bb : bb[w] \in Value
  BY <1>3 DEF OneMore
<1>9. BucketIsTrue(bb, tt)
  BY <1>3, <1>4, <1>5, <1>7, <1>8 DEF BucketIsTrue, OneMore
<1> QED
  BY <1>2, <1>3, <1>9 DEF TrueOf, OneMore, bb, tt

(* With or without room.                                                   *)
LEMMA RecordTrue ==
    ASSUME NEW b, NEW t, TrueOf(b, t), NEW v, NEW enforced \in BOOLEAN,
           NEW c \in record(b, v, enforced)
    PROVE  TrueOf(c, Counted(t, v, enforced))
<1>1. /\ IsTally(t) /\ b \in [DOMAIN b -> Value] /\ DOMAIN b \subseteq DOMAIN t
      /\ IsFiniteSet(DOMAIN t)
      /\ Cardinality(DOMAIN b) <= MaxValues
      /\ \A w \in DOMAIN b : /\ b[w].enforced <= b[w].count /\ 1 <= b[w].count
                             /\ b[w].count <= t[w].count /\ b[w].enforced <= t[w].enforced
      /\ Cardinality(DOMAIN t) <= MaxValues => b = t
  BY DEF TrueOf, BucketIsTrue, IsTally
<1>2. MaxValues \in Nat \ {0}
  BY RoomAssumption
<1>3. IsFiniteSet(DOMAIN b) /\ Cardinality(DOMAIN b) \in Nat /\ Cardinality(DOMAIN t) \in Nat
  BY <1>1, FS_Subset, FS_CardinalityType
<1>4. /\ IsFiniteSet(DOMAIN t \cup {v})
      /\ Cardinality(DOMAIN t \cup {v}) \in Nat
      /\ Cardinality(DOMAIN t) <= Cardinality(DOMAIN t \cup {v})
  <2>1. IsFiniteSet(DOMAIN t \cup {v})
    BY <1>1, FS_AddElement
  <2>2. DOMAIN t \in SUBSET (DOMAIN t \cup {v})
    OBVIOUS
  <2> QED
    BY <2>1, <2>2, FS_Subset, FS_CardinalityType
<1>5. Cardinality(DOMAIN t \cup {v}) <= MaxValues => b = t
  BY <1>1, <1>2, <1>3, <1>4
<1>6. CASE v \in DOMAIN b \/ Cardinality(DOMAIN b) < MaxValues
  <2>1. c = Counted(b, v, enforced)
    BY <1>6 DEF record
  <2>2. Cardinality(DOMAIN b \cup {v}) <= MaxValues
    <3>1. CASE v \in DOMAIN b
      <4>1. DOMAIN b \cup {v} = DOMAIN b
        BY <3>1
      <4> QED
        BY <1>1, <4>1
    <3>2. CASE v \notin DOMAIN b
      <4>1. Cardinality(DOMAIN b \cup {v}) = Cardinality(DOMAIN b) + 1
        BY <1>3, <3>2, FS_AddElement
      <4> QED
        BY <1>2, <1>3, <1>6, <3>2, <4>1
    <3> QED
      BY <3>1, <3>2
  <2> QED
    BY <1>1, <1>5, <2>1, <2>2, CountedTrue
<1>7. CASE ~(v \in DOMAIN b \/ Cardinality(DOMAIN b) < MaxValues)
  <2>1. PICK u \in DOMAIN b : c = Counted(Restrict(b, DOMAIN b \ {u}), v, enforced)
    BY <1>7 DEF record, evictQuietest
  <2> DEFINE a == Restrict(b, DOMAIN b \ {u})
  <2>2. DOMAIN a = DOMAIN b \ {u} /\ a \in [DOMAIN a -> Value]
        /\ \A w \in DOMAIN a : a[w] = b[w]
    BY <1>1 DEF Restrict
  <2> HIDE DEF a
  <2>3. Cardinality(DOMAIN a \cup {v}) <= MaxValues
    <3>1. IsFiniteSet(DOMAIN a) /\ Cardinality(DOMAIN a) = Cardinality(DOMAIN b) - 1
      BY <1>3, <2>2, FS_RemoveElement
    <3>2. Cardinality(DOMAIN a \cup {v}) = Cardinality(DOMAIN a) + 1
      BY <1>7, <2>2, <3>1, FS_AddElement
    <3> QED
      BY <1>1, <1>2, <1>3, <3>1, <3>2
  <2>4. ~(Cardinality(DOMAIN t \cup {v}) <= MaxValues)
    <3> SUFFICES ASSUME Cardinality(DOMAIN t \cup {v}) <= MaxValues PROVE FALSE
      OBVIOUS
    <3>1. b = t
      BY <1>5
    <3>2. Cardinality(DOMAIN t \cup {v}) = Cardinality(DOMAIN b) + 1
      BY <1>3, <1>7, <3>1, FS_AddElement
    <3> QED
      BY <1>2, <1>3, <1>7, <3>2
  <2>5. /\ DOMAIN a \subseteq DOMAIN t
        /\ \A w \in DOMAIN a : /\ a[w].enforced <= a[w].count /\ 1 <= a[w].count
                               /\ a[w].count <= t[w].count /\ a[w].enforced <= t[w].enforced
    BY <1>1, <2>2
  <2>6. TrueOf(Counted(a, v, enforced), Counted(t, v, enforced))
    BY <1>1, <2>2, <2>3, <2>4, <2>5, CountedTrue
  <2> QED
    BY <2>1, <2>6 DEF a
<1> QED
  BY <1>6, <1>7

-----------------------------------------------------------------------------
(* The buckets that counting one value after the other may leave: they are *)
(* defined by recursion over the values.                                   *)
Runs(after, b, values, enforced) ==
    after = [n \in 0 .. Len(values) |->
                IF n = 0 THEN {b} ELSE UNION {record(c, values[n], enforced) : c \in after[n - 1]}]

(* What recording leaves is a bucket of the values there are.              *)
LEMMA RecordBuckets ==
    ASSUME NEW U, NEW v \in U, NEW enforced \in BOOLEAN, NEW b \in Buckets(U)
    PROVE  record(b, v, enforced) \subseteq Buckets(U)
<1>1. b \in [DOMAIN b -> Value] /\ DOMAIN b \subseteq U
  BY DEF Buckets
<1>2. ASSUME NEW D \in SUBSET DOMAIN b
      PROVE  Counted(Restrict(b, D), v, enforced) \in Buckets(U)
  <2> DEFINE a == Restrict(b, D)
  <2>1. a \in [DOMAIN a -> Value] /\ DOMAIN a = D
    BY <1>1 DEF Restrict
  <2> HIDE DEF a
  <2>2. OneMore(a, Counted(a, v, enforced), v, enforced)
    BY <2>1, CountedIs
  <2>3. D \cup {v} \in SUBSET U
    BY <1>1
  <2>4. Counted(a, v, enforced) \in [D \cup {v} -> Value]
    BY <2>1, <2>2 DEF OneMore
  <2> QED
    BY <2>3, <2>4 DEF Buckets, a
<1>3. Restrict(b, DOMAIN b) = b
  BY <1>1 DEF Restrict
<1>4. Counted(b, v, enforced) \in Buckets(U)
  BY <1>2, <1>3
<1>5. \A u \in DOMAIN b : Counted(Restrict(b, DOMAIN b \ {u}), v, enforced) \in Buckets(U)
  BY <1>2
<1> QED
  BY <1>4, <1>5 DEF record, evictQuietest

(* There is what the recursion defines.                                    *)
LEMMA RecordEachRuns ==
    ASSUME NEW U, NEW values \in Seq(U), NEW enforced \in BOOLEAN, NEW b \in Buckets(U)
    PROVE  \E after : /\ Runs(after, b, values, enforced)
                      /\ RecordEach(b, values, enforced) = after[Len(values)]
<1> DEFINE V == SUBSET Buckets(U)
           n == Len(values)
           base == {b}
           On(B, v) == UNION {record(c, v, enforced) : c \in B}
           step == [p \in Nat \X V |-> IF p[1] + 1 <= n THEN On(p[2], values[p[1] + 1]) ELSE p[2]]
<1>0. n \in Nat /\ \A i \in 1 .. n : values[i] \in U
  OBVIOUS
<1>1. step \in [Nat \X V -> V]
  <2>1. ASSUME NEW p \in Nat \X V, p[1] + 1 <= n PROVE On(p[2], values[p[1] + 1]) \in V
    <3>1. p[2] \subseteq Buckets(U) /\ values[p[1] + 1] \in U
      BY <1>0, <2>1
    <3>2. \A c \in p[2] : record(c, values[p[1] + 1], enforced) \subseteq Buckets(U)
      BY <3>1, RecordBuckets
    <3> QED
      BY <3>2
  <2> HIDE DEF On
  <2> QED
    BY <2>1
<1>2. base \in V
  OBVIOUS
<1>3. PICK f \in [Nat -> V] : f[0] = base /\ \A m \in Nat : f[m + 1] = step[<<m, f[m]>>]
  <2>1. \E f : GoesOn(f, base, step, V)
    <3> HIDE DEF step, V, base
    <3> QED
      BY <1>1, <1>2, StepsFrom
  <2> HIDE DEF step, V, base
  <2> QED
    BY <2>1 DEF GoesOn
<1>4. \A m \in 1 .. n : f[m] = On(f[m - 1], values[m])
  <2> SUFFICES ASSUME NEW m \in 1 .. n PROVE f[m] = On(f[m - 1], values[m])
    OBVIOUS
  <2>1. m - 1 \in Nat /\ (m - 1) + 1 = m /\ m <= n /\ f[m - 1] \in V
    BY <1>0
  <2>2. <<m - 1, f[m - 1]>> \in Nat \X V
    BY <2>1
  <2>3. step[<<m - 1, f[m - 1]>>] = On(f[m - 1], values[m])
    <3> HIDE DEF V, On
    <3> QED
      BY <2>1, <2>2
  <2> QED
    BY <1>3, <2>1, <2>3
<1> HIDE DEF step
<1> DEFINE g == [m \in 0 .. n |-> f[m]]
           Is(a) == a = [m \in 0 .. n |->
                            IF m = 0 THEN {b}
                            ELSE UNION {record(c, values[m], enforced) : c \in a[m - 1]}]
           after == CHOOSE a : Is(a)
<1>5. Is(g)
  <2>1. ASSUME NEW m \in 0 .. n
        PROVE  g[m] = IF m = 0 THEN base ELSE On(g[m - 1], values[m])
    <3>1. CASE m = 0
      BY <1>3, <3>1
    <3>2. CASE m # 0
      <4>1. m \in 1 .. n /\ m - 1 \in 0 .. n
        BY <1>0, <3>2
      <4>2. g[m] = f[m] /\ g[m - 1] = f[m - 1]
        BY <4>1
      <4>3. f[m] = On(f[m - 1], values[m])
        BY <1>4, <4>1
      <4> HIDE DEF On, g
      <4> QED
        BY <3>2, <4>2, <4>3
    <3> QED
      BY <3>1, <3>2
  <2>2. g = [m \in 0 .. n |-> g[m]]
    OBVIOUS
  <2> HIDE DEF g
  <2> QED
    BY <2>1, <2>2
<1>6. Is(after)
  <2> HIDE DEF Is, g
  <2> QED
    BY <1>5
<1>7. RecordEach(b, values, enforced) = after[n]
  BY DEF RecordEach
<1>8. Runs(after, b, values, enforced)
  BY <1>6 DEF Runs
<1> HIDE DEF after
<1> QED
  BY <1>7, <1>8

(* A tally after the first n values.                                       *)
CountIn(t, v) == IF v \in DOMAIN t THEN t[v] ELSE [count |-> 0, enforced |-> 0]
TallyAfter(t, values, n, enforced) ==
    [v \in DOMAIN t \cup {values[i] : i \in 1 .. n} |->
        [count |-> CountIn(t, v).count + Times(values, n, v),
         enforced |-> CountIn(t, v).enforced + One(enforced) * Times(values, n, v)]]

(* Before the first value it is what it was.                               *)
LEMMA TallyAfterNone ==
    ASSUME NEW t, t \in [DOMAIN t -> Value], NEW values, NEW enforced \in BOOLEAN
    PROVE  TallyAfter(t, values, 0, enforced) = t
<1>1. \A v : Times(values, 0, v) = 0
  BY TimesGrows
<1>2. One(enforced) * 0 = 0
  BY DEF One
<1>3. DOMAIN t \cup {values[i] : i \in 1 .. 0} = DOMAIN t
  OBVIOUS
<1>4. \A v \in DOMAIN t : /\ CountIn(t, v) = t[v] /\ t[v] \in Value
                          /\ t[v] = [count |-> t[v].count + 0, enforced |-> t[v].enforced + 0]
  BY DEF CountIn, Value
<1> DEFINE g == [v \in DOMAIN t |-> [count |-> t[v].count + 0, enforced |-> t[v].enforced + 0]]
<1>5. TallyAfter(t, values, 0, enforced) = g
  BY <1>1, <1>2, <1>3, <1>4 DEF TallyAfter
<1>6. g = t
  BY <1>4
<1> QED
  BY <1>5, <1>6

(* Each value is counted in it once.                                       *)
LEMMA TallyAfterNext ==
    ASSUME NEW t, t \in [DOMAIN t -> Value], NEW values, NEW n \in Nat, NEW enforced \in BOOLEAN
    PROVE  Counted(TallyAfter(t, values, n, enforced), values[n + 1], enforced)
             = TallyAfter(t, values, n + 1, enforced)
<1> DEFINE g == TallyAfter(t, values, n, enforced)
           h == TallyAfter(t, values, n + 1, enforced)
           x == values[n + 1]
           D == DOMAIN t \cup {values[i] : i \in 1 .. n}
           was(v) == IF v \in DOMAIN g THEN g[v] ELSE [count |-> 0, enforced |-> 0]
           c == Counted(g, x, enforced)
           o == One(enforced)
<1>1. o \in {0, 1}
  BY DEF One
<1>2. DOMAIN g = D /\ DOMAIN h = D \cup {x}
  <2>1. {values[i] : i \in 1 .. n + 1} = {values[i] : i \in 1 .. n} \cup {x}
    <3>1. 1 .. n + 1 = 1 .. n \cup {n + 1}
      OBVIOUS
    <3> QED
      BY <3>1
  <2> QED
    BY <2>1 DEF TallyAfter
<1>3. /\ \A v \in D : g[v] = [count |-> CountIn(t, v).count + Times(values, n, v),
                              enforced |-> CountIn(t, v).enforced + o * Times(values, n, v)]
      /\ \A v \in D \cup {x} : h[v] = [count |-> CountIn(t, v).count + Times(values, n + 1, v),
                                      enforced |-> CountIn(t, v).enforced + o * Times(values, n + 1, v)]
      /\ h = [v \in DOMAIN h |-> h[v]]
  BY <1>2 DEF TallyAfter
<1>4. c = [v \in D \cup {x} |->
            IF v = x THEN [count |-> was(x).count + 1, enforced |-> was(x).enforced + o]
            ELSE g[v]]
  BY <1>2 DEF Counted
<1>5. D = DOMAIN t \cup {values[i] : i \in 1 .. n}
  OBVIOUS
<1> HIDE DEF g, h, D, c, o
<1>6. ASSUME NEW v \in D \cup {x} PROVE c[v] = h[v]
  <2> DEFINE a == CountIn(t, v).count
             e == CountIn(t, v).enforced
             k == Times(values, n, v)
             l == Times(values, n + 1, v)
  <2>1. a \in Nat /\ e \in Nat /\ (v \notin DOMAIN t => a = 0 /\ e = 0)
    BY DEF CountIn, Value
  <2>2. k \in Nat /\ (x = v => l = k + 1) /\ (x # v => l = k)
    BY TimesGrows
  <2>3. v \notin D => k = 0 /\ v \notin DOMAIN t
    <3> SUFFICES ASSUME v \notin D PROVE k = 0 /\ v \notin DOMAIN t
      OBVIOUS
    <3>1. v \notin DOMAIN t /\ {i \in 1 .. n : values[i] = v} = {}
      BY <1>5
    <3> QED
      BY <3>1, FS_EmptySet DEF Times
  <2>4. v \in D => g[v] = [count |-> a + k, enforced |-> e + o * k]
    BY <1>3
  <2>5. h[v] = [count |-> a + l, enforced |-> e + o * l]
    BY <1>3
  <2> HIDE DEF a, e, k, l, x
  <2>6. o * k \in Nat /\ o * (k + 1) = o * k + o /\ (k = 0 => o * k = 0)
    BY <1>1, <2>2
  <2>7. CASE v = x
    <3>1. was(v).count = a + k /\ was(v).enforced = e + o * k
      <4>1. CASE v \in D
        BY <1>2, <2>4, <4>1
      <4>2. CASE v \notin D
        BY <1>2, <2>1, <2>3, <2>6, <4>2
      <4> QED
        BY <4>1, <4>2
    <3>2. c[v] = [count |-> was(v).count + 1, enforced |-> was(v).enforced + o]
      BY <1>4, <2>7
    <3>3. (a + k) + 1 = a + l /\ (e + o * k) + o = e + o * l
      BY <1>1, <2>1, <2>2, <2>6, <2>7
    <3> QED
      BY <2>5, <3>1, <3>2, <3>3
  <2>8. CASE v # x
    BY <1>4, <2>2, <2>4, <2>5, <2>8
  <2> QED
    BY <2>7, <2>8
<1>7. c = h
  BY <1>2, <1>3, <1>4, <1>6
<1> QED
  BY <1>7 DEF c, g, h, x

(* What is true of a tally before an event's values is true of what the    *)
(* tally is after them.                                                    *)
LEMMA RecordEachTrue ==
    ASSUME NEW b, NEW t, TrueOf(b, t), NEW S, NEW values \in Seq(S), NEW enforced \in BOOLEAN,
           NEW c \in RecordEach(b, values, enforced)
    PROVE  TrueOf(c, TallyAfter(t, values, Len(values), enforced))
<1> DEFINE n == Len(values)
           U == DOMAIN b \cup {values[i] : i \in 1 .. n}
<1>1. n \in Nat /\ values \in Seq(U)
  <2>1. n \in Nat /\ DOMAIN values = 1 .. n
    OBVIOUS
  <2>2. values = [i \in 1 .. n |-> values[i]]
    BY <2>1
  <2>3. \A i \in 1 .. n : values[i] \in U
    OBVIOUS
  <2> HIDE DEF n, U
  <2>4. values \in [1 .. n -> U]
    BY <2>2, <2>3
  <2> QED
    BY <2>1, <2>4
<1>2. b \in Buckets(U)
  <2>1. b \in [DOMAIN b -> Value] /\ DOMAIN b \in SUBSET U
    BY DEF TrueOf
  <2> HIDE DEF U
  <2> QED
    BY <2>1 DEF Buckets
<1> HIDE DEF U
<1>3. PICK after : Runs(after, b, values, enforced) /\ RecordEach(b, values, enforced) = after[n]
  BY <1>1, <1>2, RecordEachRuns
<1>4. t \in [DOMAIN t -> Value]
  BY DEF TrueOf, IsTally
<1> HIDE DEF n
<1> DEFINE M == {m \in Nat : m <= n => \A a \in after[m] : TrueOf(a, TallyAfter(t, values, m, enforced))}
<1>5. /\ after[0] = {b}
      /\ \A m \in 0 .. n :
            m # 0 => after[m] = UNION {record(a, values[m], enforced) : a \in after[m - 1]}
  <2>1. after = [m \in 0 .. n |->
                  IF m = 0 THEN {b} ELSE UNION {record(a, values[m], enforced) : a \in after[m - 1]}]
    BY <1>3 DEF Runs, n
  <2>2. 0 \in 0 .. n
    BY <1>1
  <2> HIDE DEF M
  <2> QED
    BY <2>1, <2>2
<1>6. 0 \in M
  BY <1>4, <1>5, TallyAfterNone
<1>7. ASSUME NEW m \in Nat, m \in M PROVE m + 1 \in M
  <2> SUFFICES ASSUME m + 1 <= n, NEW a \in after[m + 1]
               PROVE  TrueOf(a, TallyAfter(t, values, m + 1, enforced))
    OBVIOUS
  <2>1. m + 1 \in 0 .. n /\ m + 1 # 0 /\ (m + 1) - 1 = m /\ m <= n
    BY <1>1
  <2>2. PICK z \in after[m] : a \in record(z, values[m + 1], enforced)
    <3>1. after[m + 1] = UNION {record(z, values[m + 1], enforced) : z \in after[m]}
      BY <1>5, <2>1
    <3> QED
      BY <3>1
  <2>3. TrueOf(z, TallyAfter(t, values, m, enforced))
    BY <1>7, <2>1
  <2>4. TrueOf(a, Counted(TallyAfter(t, values, m, enforced), values[m + 1], enforced))
    BY <2>2, <2>3, RecordTrue
  <2> QED
    BY <1>4, <2>4, TallyAfterNext
<1>8. Nat \subseteq M
  <2> HIDE DEF M
  <2> QED
    BY <1>6, <1>7, NatSet
<1> QED
  BY <1>1, <1>3, <1>8 DEF n

-----------------------------------------------------------------------------
(* values has what came, as often as it came.                              *)
SpellsOut(values, came) ==
    /\ IsFiniteSet(came)
    /\ {values[i] : i \in 1 .. Len(values)} = {c[2] : c \in came}
    /\ \A v : Times(values, Len(values), v) = Cardinality({c \in came : c[2] = v})

(* A set laid out in any order. *)
LEMMA LaidOut ==
    ASSUME NEW S, IsFiniteSet(S), NEW s \in SetToSeqs(S)
    PROVE  /\ s \in Seq(S) /\ Len(s) = Cardinality(S) /\ IsInjective(s)
           /\ {s[i] : i \in 1 .. Len(s)} = S
<1> DEFINE n == Cardinality(S)
<1>1. n \in Nat
  BY FS_CardinalityType
<1>2. s \in [1 .. n -> S] /\ \A i, j \in 1 .. n : i # j => s[i] # s[j]
  BY DEF SetToSeqs
<1>3. IsInjective(s)
  BY <1>2 DEF IsInjective
<1>4. IsFiniteSet(1 .. n) /\ Cardinality(1 .. n) = n
  BY <1>1, FS_Interval
<1>5. s \in Injection(1 .. n, S)
  BY <1>2, <1>3 DEF Injection
<1>6. s \in Surjection(1 .. n, S)
  BY <1>4, <1>5, FS_Injection
<1>7. s \in Seq(S) /\ Len(s) = n
  <2> HIDE DEF n
  <2> QED
    BY <1>1, <1>2
<1>8. {s[i] : i \in 1 .. n} = S
  BY <1>2, <1>6 DEF Surjection
<1> QED
  BY <1>3, <1>7, <1>8

(* Some set as one sequence. *)
LEMMA LaidOutOnce ==
    ASSUME NEW S, IsFiniteSet(S)
    PROVE  SetToSeq(S) \in Seq(S) /\ IsInjective(SetToSeq(S)) /\ ToSet(SetToSeq(S)) = S
<1> DEFINE n == Cardinality(S)
           s == SetToSeq(S)
<1>1. n \in Nat /\ Bijection(1 .. n, S) # {}
  BY FS_CountingElements, FS_CardinalityType DEF ExistsBijection
<1>2. \E f \in [1 .. n -> S] : IsInjective(f)
  BY <1>1 DEF Bijection, Injection
<1>3. s \in [1 .. n -> S] /\ IsInjective(s)
  BY <1>2 DEF SetToSeq
<1>4. IsFiniteSet(1 .. n) /\ Cardinality(1 .. n) = n
  BY <1>1, FS_Interval
<1> HIDE DEF s
<1>5. s \in Injection(1 .. n, S)
  BY <1>3 DEF Injection
<1>6. s \in Surjection(1 .. n, S)
  BY <1>4, <1>5, FS_Injection
<1>7. s \in Seq(S) /\ DOMAIN s = 1 .. n
  <2> HIDE DEF n
  <2> QED
    BY <1>1, <1>3
<1>8. ToSet(s) = S
  BY <1>3, <1>6, <1>7 DEF Surjection, ToSet
<1> QED
  BY <1>3, <1>7, <1>8 DEF s

(* Of an event: one value, or none.                                        *)
LEMMA OnceLists ==
    ASSUME NEW e, NEW on, NEW values \in Just(e, on)
    PROVE  /\ values \in Seq({e.of[on]})
           /\ SpellsOut(values, {<<x, e.of[x]>> : x \in Has(e, {on})})
<1> DEFINE came == {<<x, e.of[x]>> : x \in Has(e, {on})}
           w == e.of[on]
<1>1. CASE w = None
  <2>1. values = <<>> /\ came = {}
    BY <1>1 DEF Just, Has
  <2>2. Len(values) = 0 /\ values \in Seq({w})
    BY <2>1
  <2>3. \A v : Times(values, 0, v) = 0
    BY TimesGrows
  <2>4. \A v : {c \in {} : c[2] = v} = {}
    OBVIOUS
  <2>5. \A v : Cardinality({c \in came : c[2] = v}) = 0
    BY <2>1, <2>4, FS_EmptySet
  <2>6. {values[i] : i \in 1 .. 0} = {c[2] : c \in {}}
    OBVIOUS
  <2> HIDE DEF came
  <2> QED
    BY <2>1, <2>2, <2>3, <2>5, <2>6, FS_EmptySet DEF SpellsOut, came
<1>2. CASE w # None
  <2> DEFINE p == <<on, w>>
  <2>1. values = <<w>> /\ came = {p}
    BY <1>2 DEF Just, Has
  <2>2. /\ values \in Seq({w}) /\ Len(values) = 1 /\ values[1] = w
        /\ IsInjective(values) /\ ToSet(values) = {w}
    BY <2>1, OneIs
  <2>3. p[2] = w
    OBVIOUS
  <2> HIDE DEF p, came, w
  <2>4. \A v : Times(values, Len(values), v) = IF v \in {w} THEN 1 ELSE 0
    BY <2>2, TimesOnce
  <2>5. ASSUME NEW v
        PROVE  Cardinality({c \in {p} : c[2] = v}) = IF v \in {w} THEN 1 ELSE 0
    <3>1. CASE v = w
      <4>1. {c \in {p} : c[2] = v} = {p}
        BY <2>3, <3>1
      <4> QED
        BY <3>1, <4>1, FS_Singleton
    <3>2. CASE v # w
      <4>1. {c \in {p} : c[2] = v} = {}
        BY <2>3, <3>2
      <4> QED
        BY <3>2, <4>1, FS_EmptySet
    <3> QED
      BY <3>1, <3>2
  <2>6. {values[i] : i \in 1 .. Len(values)} = {c[2] : c \in {p}}
    BY <2>2, <2>3
  <2>7. IsFiniteSet(came)
    BY <2>1, FS_Singleton
  <2>8. SpellsOut(values, came)
    BY <2>1, <2>4, <2>5, <2>6, <2>7 DEF SpellsOut
  <2> QED
    BY <2>2, <2>8 DEF came, w
<1> QED
  BY <1>1, <1>2

(* Its labels, in any order.                                               *)
LEMMA LabelsList ==
    ASSUME NEW e, NEW H, IsFiniteSet(H), NEW values \in SetToSeqs({<<key, e.of[key]>> : key \in H})
    PROVE  LET S == {<<key, e.of[key]>> : key \in H}
           IN  values \in Seq(S) /\ SpellsOut(values, {<<key, <<key, e.of[key]>>>> : key \in H})
<1> DEFINE pair == [key \in H |-> <<key, e.of[key]>>]
           S == {pair[key] : key \in H}
           came == {<<key, pair[key]>> : key \in H}
           full == [key \in H |-> <<key, pair[key]>>]
<1>1. /\ S = {<<key, e.of[key]>> : key \in H}
      /\ came = {<<key, <<key, e.of[key]>>>> : key \in H}
  OBVIOUS
<1>2. IsFiniteSet(S) /\ IsFiniteSet(came)
  <2>1. pair \in Surjection(H, S) /\ full \in Surjection(H, came)
    BY DEF Surjection
  <2> HIDE DEF pair, S, came, full
  <2> QED
    BY <2>1, FS_Surjection
<1>3. \A c \in came : c[2] \in S /\ \A d \in came : c[2] = d[2] => c = d
  OBVIOUS
<1>4. \A v \in S : \E c \in came : c[2] = v
  <2>1. \A key \in H : <<key, pair[key]>> \in came /\ <<key, pair[key]>>[2] = pair[key]
    OBVIOUS
  <2> HIDE DEF came, pair
  <2> QED
    BY <2>1
<1>5. values \in SetToSeqs(S)
  BY <1>1
<1> HIDE DEF S, came, pair, full
<1>6. values \in Seq(S) /\ IsInjective(values) /\ {values[i] : i \in 1 .. Len(values)} = S
  BY <1>2, <1>5, LaidOut
<1>7. S = {c[2] : c \in came}
  BY <1>3, <1>4
<1>8. ASSUME NEW v
      PROVE  Times(values, Len(values), v) = Cardinality({c \in came : c[2] = v})
  <2>1. ToSet(values) = S
    BY <1>6 DEF ToSet
  <2>2. CASE v \in S
    <3>1. PICK c \in came : c[2] = v
      BY <1>4, <2>2
    <3>2. {d \in came : d[2] = v} = {c}
      BY <1>3, <3>1
    <3>3. Cardinality({d \in came : d[2] = v}) = 1
      BY <3>2, FS_Singleton
    <3>4. Times(values, Len(values), v) = 1
      BY <1>6, <2>1, <2>2, TimesOnce
    <3> QED
      BY <3>3, <3>4
  <2>3. CASE v \notin S
    <3>1. {c \in came : c[2] = v} = {}
      BY <1>3, <2>3
    <3>2. Cardinality({c \in came : c[2] = v}) = 0
      BY <3>1, FS_EmptySet
    <3>3. Times(values, Len(values), v) = 0
      BY <1>6, <2>1, <2>3, TimesOnce
    <3> QED
      BY <3>2, <3>3
  <2> QED
    BY <2>2, <2>3
<1>9. SpellsOut(values, came)
  BY <1>2, <1>6, <1>7, <1>8 DEF SpellsOut
<1> QED
  BY <1>1, <1>6, <1>9

(* A path has one directory at most, and it is not the path.               *)
LEMMA OneDirectory ==
    ASSUME NEW path \in Values
    PROVE  /\ Directory(path) \subseteq Values /\ path \notin Directory(path)
           /\ IsFiniteSet(Directory(path))
<1> DEFINE D == Directory(path)
<1>1. /\ D \subseteq Values /\ path \notin D
      /\ \A c, d \in D : c \in Below[d]
  BY DEF Directory
<1> HIDE DEF D
<1>2. \A c, d \in D : c = d
  BY <1>1, EventAssumption
<1>3. CASE D = {}
  BY <1>1, <1>3, FS_EmptySet DEF D
<1>4. CASE D # {}
  <2>1. PICK d \in D : D = {d}
    BY <1>2, <1>4
  <2> QED
    BY <1>1, <2>1, FS_Singleton DEF D
<1> QED
  BY <1>3, <1>4

(* The paths among its arguments, with their directories: in an order, and *)
(* each with its argument.                                                 *)
PathsIn(of, args) ==
    FlattenSeq([i \in DOMAIN args |-> <<of[args[i]]>> \o SetToSeq(Directory(of[args[i]]))])
PathsOf(of, H) == UNION {{arg} \X ({of[arg]} \cup Directory(of[arg])) : arg \in H}

LEMMA PathsList ==
    ASSUME NEW of, NEW H, IsFiniteSet(H), \A arg \in H : of[arg] \in Values,
           NEW args \in SetToSeqs(H)
    PROVE  /\ PathsIn(of, args) \in Seq(Values)
           /\ SpellsOut(PathsIn(of, args), PathsOf(of, H))
<1> DEFINE n == Len(args)
           With(path) == {path} \cup Directory(path)
           one(path) == <<path>> \o SetToSeq(Directory(path))
           ss == [i \in 1 .. n |-> one(of[args[i]])]
           values == FlattenSeq(ss)
           came == UNION {{arg} \X With(of[arg]) : arg \in H}
<1>1. /\ args \in Seq(H) /\ n \in Nat /\ DOMAIN args = 1 .. n
      /\ \A i, j \in 1 .. n : args[i] = args[j] => i = j
      /\ {args[i] : i \in 1 .. n} = H
  <2>1. args \in Seq(H) /\ IsInjective(args) /\ {args[i] : i \in 1 .. n} = H
    BY LaidOut
  <2>2. n \in Nat /\ DOMAIN args = 1 .. n
    BY <2>1
  <2> QED
    BY <2>1, <2>2 DEF IsInjective
<1>2. ASSUME NEW path \in Values
      PROVE  /\ one(path) \in Seq(Values) /\ IsInjective(one(path))
             /\ ToSet(one(path)) = With(path) /\ IsFiniteSet(With(path))
  <2> DEFINE D == Directory(path)
             s == <<path>>
             r == SetToSeq(D)
  <2>1. D \subseteq Values /\ path \notin D /\ IsFiniteSet(D)
    BY OneDirectory
  <2>2. s \in Seq(Values) /\ ToSet(s) = {path} /\ IsInjective(s)
    BY OneIs
  <2> HIDE DEF D, s
  <2>3. r \in Seq(D) /\ IsInjective(r) /\ ToSet(r) = D
    BY <2>1, LaidOutOnce
  <2>4. r \in Seq(Values)
    <3> HIDE DEF r
    <3> QED
      BY <2>1, <2>3
  <2> HIDE DEF r
  <2>5. /\ s \o r \in Seq(Values) /\ ToSet(s \o r) = ToSet(s) \cup ToSet(r)
        /\ IsInjective(s \o r) <=>
               IsInjective(s) /\ IsInjective(r) /\ ToSet(s) \cap ToSet(r) = {}
    BY <2>2, <2>4, ConcatRange
  <2>6. IsFiniteSet({path} \cup D)
    BY <2>1, FS_AddElement
  <2> QED
    BY <2>1, <2>2, <2>3, <2>5, <2>6 DEF D, s, r
<1> HIDE DEF one, With
<1>3. \A i \in 1 .. n : args[i] \in H /\ of[args[i]] \in Values
  BY <1>1
<1>4. /\ ss \in Seq(Seq(Values)) /\ DOMAIN ss = 1 .. n
      /\ \A i \in 1 .. n : IsInjective(ss[i]) /\ ToSet(ss[i]) = With(of[args[i]])
  <2> DEFINE V == Seq(Values)
  <2>1. \A i \in 1 .. n : one(of[args[i]]) \in V
    BY <1>2, <1>3
  <2> HIDE DEF V
  <2>2. ss \in [1 .. n -> V]
    BY <2>1
  <2>3. ss \in Seq(V)
    <3> HIDE DEF ss
    <3> QED
      BY <1>1, <2>2
  <2>4. \A i \in 1 .. n : IsInjective(ss[i]) /\ ToSet(ss[i]) = With(of[args[i]])
    BY <1>2, <1>3
  <2> QED
    BY <2>2, <2>3, <2>4 DEF V
<1> HIDE DEF ss, values, n
<1>5. values \in Seq(Values) /\ ToSet(values) = UNION {ToSet(ss[i]) : i \in DOMAIN ss}
  BY <1>4, FlattenRange DEF values
<1>6. \A c : c \in came <=> \E i \in 1 .. n : \E v \in With(of[args[i]]) : c = <<args[i], v>>
  <2>1. \A c : c \in came <=> \E arg \in H : \E v \in With(of[arg]) : c = <<arg, v>>
    OBVIOUS
  <2> HIDE DEF came
  <2> QED
    BY <1>1, <2>1
<1>7. IsFiniteSet(came)
  <2> DEFINE parts == {{arg} \X With(of[arg]) : arg \in H}
             part == [arg \in H |-> {arg} \X With(of[arg])]
  <2>1. part \in Surjection(H, parts)
    BY DEF Surjection
  <2>2. \A arg \in H : IsFiniteSet({arg} \X With(of[arg]))
    <3> SUFFICES ASSUME NEW arg \in H PROVE IsFiniteSet({arg} \X With(of[arg]))
      OBVIOUS
    <3>1. IsFiniteSet({arg}) /\ IsFiniteSet(With(of[arg]))
      BY <1>2, FS_Singleton
    <3> QED
      BY <3>1, FS_Product
  <2>3. \A p \in parts : IsFiniteSet(p)
    BY <2>2
  <2> HIDE DEF part, parts
  <2>4. IsFiniteSet(parts)
    BY <2>1, FS_Surjection
  <2>5. IsFiniteSet(UNION parts)
    BY <2>3, <2>4, FS_UNION
  <2> QED
    BY <2>5 DEF parts
<1> HIDE DEF came
<1>8. {values[i] : i \in 1 .. Len(values)} = {c[2] : c \in came}
  <2>1. {values[i] : i \in 1 .. Len(values)} = ToSet(values)
    BY <1>5 DEF ToSet
  <2>2. \A v : v \in ToSet(values) <=> \E i \in 1 .. n : v \in With(of[args[i]])
    BY <1>4, <1>5
  <2>3. ASSUME NEW v
        PROVE  v \in {c[2] : c \in came} <=> \E i \in 1 .. n : v \in With(of[args[i]])
    <3>1. ASSUME NEW c \in came, v = c[2] PROVE \E i \in 1 .. n : v \in With(of[args[i]])
      BY <1>6, <3>1
    <3>2. ASSUME NEW i \in 1 .. n, v \in With(of[args[i]]) PROVE \E c \in came : c[2] = v
      <4>1. <<args[i], v>> \in came /\ <<args[i], v>>[2] = v
        BY <1>6, <3>2
      <4> QED
        BY <4>1
    <3> QED
      BY <3>1, <3>2
  <2> QED
    BY <2>1, <2>2, <2>3
<1>9. ASSUME NEW v
      PROVE  Times(values, Len(values), v) = Cardinality({c \in came : c[2] = v})
  <2> DEFINE I == {i \in 1 .. n : v \in ToSet(ss[i])}
             C == {c \in came : c[2] = v}
             g == [i \in I |-> <<args[i], v>>]
  <2>1. IsFiniteSet(I) /\ Times(values, Len(values), v) = Cardinality(I)
    BY <1>4, FlattenTimes DEF values
  <2>2. \A i \in I : <<args[i], v>> \in C
    BY <1>4, <1>6
  <2>3. \A c \in C : \E i \in I : c = <<args[i], v>>
    BY <1>4, <1>6
  <2>4. \A i, j \in I : <<args[i], v>> = <<args[j], v>> => i = j
    BY <1>1
  <2> HIDE DEF I, C
  <2>5. g \in [I -> C] /\ IsInjective(g) /\ \A c \in C : \E i \in I : g[i] = c
    BY <2>2, <2>3, <2>4 DEF IsInjective
  <2>6. ExistsBijection(I, C)
    BY <2>5 DEF ExistsBijection, Bijection, Injection, Surjection
  <2>7. Cardinality(C) = Cardinality(I)
    BY <2>1, <2>6, FS_Bijection
  <2> QED
    BY <2>1, <2>7 DEF C
<1>10. SpellsOut(values, came)
  BY <1>7, <1>8, <1>9 DEF SpellsOut
<1>11. PathsIn(of, args) = values
  <2>1. ss = [i \in DOMAIN args |-> <<of[args[i]]>> \o SetToSeq(Directory(of[args[i]]))]
    BY <1>1 DEF ss, one
  <2> QED
    BY <2>1 DEF PathsIn, values
<1>12. PathsOf(of, H) = came
  BY DEF came, With, PathsOf
<1> QED
  BY <1>5, <1>10, <1>11, <1>12

(* In whichever order an event's values come, they are what came.          *)
LEMMA OrdersList ==
    ASSUME NEW e \in Event, NEW dim \in Dimensions, NEW values \in Orders(e)[dim]
    PROVE  \E U : values \in Seq(U) /\ SpellsOut(values, Came(e)[dim])
<1>1. CASE dim \in {"binaries", "parentBinaries", "containers"}
  <2>1. PICK on \in Things :
          /\ values \in Just(e, on)
          /\ Came(e)[dim] = {<<x, e.of[x]>> : x \in Has(e, {on})}
    BY <1>1 DEF Orders, Came, Things
  <2> QED
    BY <2>1, OnceLists
<1>2. CASE dim = "podLabels"
  <2> DEFINE H == Has(e, Keys)
  <2>1. H \in SUBSET Keys
    BY DEF Has
  <2>2. IsFiniteSet(H)
    BY <2>1, EventAssumption, FS_Subset
  <2>3. /\ values \in SetToSeqs({<<key, e.of[key]>> : key \in H})
        /\ Came(e)[dim] = {<<key, <<key, e.of[key]>>>> : key \in H}
    BY <1>2 DEF Orders, Came
  <2> HIDE DEF H
  <2> QED
    BY <2>2, <2>3, LabelsList
<1>3. CASE dim = "paths"
  <2> DEFINE H == Has(e, Arguments)
             of == e.of
  <2>1. H \in SUBSET Arguments /\ \A arg \in H : of[arg] \in Values
    BY DEF Has, Event, Looked
  <2>2. IsFiniteSet(H)
    BY <2>1, EventAssumption, FS_Subset
  <2>3. PICK args \in SetToSeqs(H) : values = PathsIn(of, args)
    BY <1>3 DEF Orders, PathsIn
  <2>4. Came(e)[dim] = PathsOf(of, H)
    BY <1>3 DEF Came, PathsOf
  <2> HIDE DEF H, of
  <2> QED
    BY <2>1, <2>2, <2>3, <2>4, PathsList
<1> QED
  BY <1>1, <1>2, <1>3 DEF Dimensions

-----------------------------------------------------------------------------
(* One event more: the tally is what it was and the event's values.        *)
LEMMA TallyGrows ==
    ASSUME NEW T, NEW came \in Seq(T), NEW hit \in T, hit.enforced \in BOOLEAN, NEW dim,
           IsFiniteSet(AllCame(came, dim)),
           NEW values, SpellsOut(values, Came(hit.of)[dim])
    PROVE  /\ IsFiniteSet(AllCame(Append(came, hit), dim))
           /\ Tally(Append(came, hit), dim)
                = TallyAfter(Tally(came, dim), values, Len(values), hit.enforced)
<1> DEFINE n == Len(came)
           now == Append(came, hit)
           more == Came(hit.of)[dim]
           new == {n + 1} \X more
           A == AllCame(came, dim)
           B == AllCame(now, dim)
           L == Len(values)
           Is(C, v) == {c \in C : c[2][2] = v}
           EnA(v) == {c \in Is(A, v) : came[c[1]].enforced}
           EnB(v) == {c \in Is(B, v) : now[c[1]].enforced}
<1>1. /\ n \in Nat /\ DOMAIN came = 1 .. n /\ DOMAIN now = 1 .. n + 1
      /\ now[n + 1] = hit /\ \A i \in 1 .. n : now[i] = came[i]
  <2>1. /\ now \in Seq(T) /\ Len(now) = n + 1 /\ now[n + 1] = hit
        /\ \A i \in 1 .. n : now[i] = came[i]
    BY AppendProperties
  <2> HIDE DEF now
  <2> QED
    BY <2>1, LenProperties
<1>2. IsFiniteSet(more)
      /\ {values[i] : i \in 1 .. L} = {c[2] : c \in more}
      /\ \A v : Times(values, L, v) = Cardinality({c \in more : c[2] = v})
  BY DEF SpellsOut
<1> HIDE DEF more, now, n, L
<1>3. B = A \cup new
  <2>1. B = UNION {{i} \X Came(now[i].of)[dim] : i \in 1 .. n + 1}
    BY <1>1 DEF AllCame
  <2>2. A = UNION {{i} \X Came(came[i].of)[dim] : i \in 1 .. n}
    BY <1>1 DEF AllCame
  <2>3. 1 .. n + 1 = 1 .. n \cup {n + 1}
    BY <1>1
  <2> DEFINE X(i) == {i} \X Came(now[i].of)[dim]
             Y(i) == {i} \X Came(came[i].of)[dim]
  <2>4. X(n + 1) = new /\ \A i \in 1 .. n : X(i) = Y(i)
    BY <1>1 DEF more
  <2>5. B = UNION {X(i) : i \in 1 .. n + 1} /\ A = UNION {Y(i) : i \in 1 .. n}
    BY <2>1, <2>2
  <2> HIDE DEF X, Y, A, B, new
  <2>6. \A c : c \in B <=> c \in A \/ c \in new
    BY <2>3, <2>4, <2>5
  <2> QED
    BY <2>6
<1>4. \A c \in A : c[1] \in 1 .. n
  BY <1>1 DEF AllCame
<1>5. \A c \in new : c[1] = n + 1 /\ c[2] \in more
  OBVIOUS
<1>6. IsFiniteSet(new)
  <2>1. IsFiniteSet({n + 1})
    BY FS_Singleton
  <2> QED
    BY <1>2, <2>1, FS_Product
<1>7. IsFiniteSet(B)
  <2> HIDE DEF new, A, B
  <2>1. IsFiniteSet(A)
    BY DEF A
  <2> QED
    BY <1>3, <1>6, <2>1, FS_Union
<1>8. ASSUME NEW v
      PROVE  /\ IsFiniteSet(Is(new, v)) /\ Cardinality(Is(new, v)) = Times(values, L, v)
             /\ Times(values, L, v) \in Nat
  <2> DEFINE C == {c \in more : c[2] = v}
             D == Is(new, v)
             f == [c \in C |-> <<n + 1, c>>]
  <2>1. \A c \in C : <<n + 1, c>> \in D
    OBVIOUS
  <2>2. \A d \in D : \E c \in C : d = <<n + 1, c>>
    OBVIOUS
  <2>3. C \in SUBSET more
    OBVIOUS
  <2>4. IsFiniteSet(C) /\ Cardinality(C) \in Nat
    <3> HIDE DEF C
    <3> QED
      BY <1>2, <2>3, FS_Subset, FS_CardinalityType
  <2> HIDE DEF C, D
  <2>5. f \in [C -> D] /\ IsInjective(f) /\ \A d \in D : \E c \in C : f[c] = d
    BY <2>1, <2>2 DEF IsInjective
  <2>6. ExistsBijection(C, D)
    BY <2>5 DEF ExistsBijection, Bijection, Injection, Surjection
  <2>7. IsFiniteSet(D) /\ Cardinality(D) = Cardinality(C)
    BY <2>4, <2>6, FS_Bijection
  <2> QED
    BY <1>2, <2>4, <2>7 DEF C, D
<1>9. ASSUME NEW v
      PROVE  /\ Cardinality(Is(B, v)) = Cardinality(Is(A, v)) + Times(values, L, v)
             /\ Cardinality(EnB(v)) = Cardinality(EnA(v)) + One(hit.enforced) * Times(values, L, v)
  <2> HIDE DEF A, B, new
  <2>1. IsFiniteSet(A)
    BY DEF A
  <2>2. Is(B, v) = Is(A, v) \cup Is(new, v)
    BY <1>3
  <2>3. \A c \in A : c \notin new
    BY <1>1, <1>4, <1>5
  <2>4. \A c \in A : now[c[1]] = came[c[1]]
    BY <1>1, <1>4
  <2>5. \A c \in new : now[c[1]] = hit
    BY <1>1, <1>5
  <2>6. EnB(v) = EnA(v) \cup (IF hit.enforced THEN Is(new, v) ELSE {})
    BY <2>2, <2>4, <2>5
  <2> DEFINE a == Is(A, v)
             ea == EnA(v)
             d == Is(new, v)
  <2>7. a \in SUBSET A /\ ea \in SUBSET A /\ a \cap d = {} /\ ea \cap d = {}
    BY <2>3
  <2> HIDE DEF a, ea, d
  <2>8. /\ IsFiniteSet(a) /\ IsFiniteSet(ea)
        /\ Cardinality(a) \in Nat /\ Cardinality(ea) \in Nat
    BY <2>1, <2>7, FS_Subset, FS_CardinalityType
  <2>9. IsFiniteSet(d) /\ Cardinality(d) = Times(values, L, v) /\ Times(values, L, v) \in Nat
    BY <1>8 DEF d
  <2>10. /\ Cardinality(a \cup d) = Cardinality(a) + Cardinality(d) - Cardinality(a \cap d)
         /\ Cardinality(ea \cup d) = Cardinality(ea) + Cardinality(d) - Cardinality(ea \cap d)
    BY <2>8, <2>9, FS_Union
  <2>11. Cardinality(a \cap d) = 0 /\ Cardinality(ea \cap d) = 0
    BY <2>7, FS_EmptySet
  <2>12. /\ Cardinality(a \cup d) = Cardinality(a) + Times(values, L, v)
         /\ Cardinality(ea \cup d) = Cardinality(ea) + Times(values, L, v)
    BY <2>8, <2>9, <2>10, <2>11
  <2>13. Cardinality(Is(B, v)) = Cardinality(Is(A, v)) + Times(values, L, v)
    BY <2>2, <2>12 DEF a, d
  <2>14. CASE hit.enforced
    <3>1. One(hit.enforced) * Times(values, L, v) = Times(values, L, v)
      BY <2>9, <2>14 DEF One
    <3>2. EnB(v) = ea \cup d
      BY <2>6, <2>14 DEF ea, d
    <3> QED
      BY <2>12, <2>13, <3>1, <3>2 DEF ea
  <2>15. CASE ~hit.enforced
    <3>1. Cardinality(ea) + One(hit.enforced) * Times(values, L, v) = Cardinality(ea)
      BY <2>8, <2>9, <2>15 DEF One
    <3>2. EnB(v) = ea
      BY <2>6, <2>15 DEF ea
    <3> QED
      BY <2>13, <3>1, <3>2 DEF ea
  <2> QED
    BY <2>14, <2>15
<1> DEFINE t == Tally(came, dim)
           u == Tally(now, dim)
           g == TallyAfter(t, values, L, hit.enforced)
<1>10. /\ t = [v \in {c[2][2] : c \in A} |->
                [count |-> Cardinality(Is(A, v)), enforced |-> Cardinality(EnA(v))]]
       /\ u = [v \in {c[2][2] : c \in B} |->
                [count |-> Cardinality(Is(B, v)), enforced |-> Cardinality(EnB(v))]]
  BY DEF Tally
<1>11. {c[2][2] : c \in B} = {c[2][2] : c \in A} \cup {values[i] : i \in 1 .. L}
  <2>1. {c[2][2] : c \in new} = {c[2] : c \in more}
    <3>1. ASSUME NEW c \in more PROVE \E d \in new : d[2] = c
      <4>1. <<n + 1, c>> \in new /\ <<n + 1, c>>[2] = c
        OBVIOUS
      <4> QED
        BY <4>1
    <3> HIDE DEF new
    <3>2. ASSUME NEW v \in {c[2][2] : c \in new} PROVE v \in {c[2] : c \in more}
      BY <1>5
    <3>3. ASSUME NEW v \in {c[2] : c \in more} PROVE v \in {c[2][2] : c \in new}
      BY <3>1
    <3> QED
      BY <3>2, <3>3
  <2> HIDE DEF A, B, new
  <2> QED
    BY <1>2, <1>3, <2>1
<1>12. ASSUME NEW v
       PROVE  /\ CountIn(t, v).count = Cardinality(Is(A, v))
              /\ CountIn(t, v).enforced = Cardinality(EnA(v))
  <2>1. CASE v \in {c[2][2] : c \in A}
    <3> HIDE DEF A, B, Is, EnA, EnB
    <3> QED
      BY <1>10, <2>1 DEF CountIn
  <2>2. CASE v \notin {c[2][2] : c \in A}
    <3>1. v \notin DOMAIN t
      <4> HIDE DEF A, B, Is, EnA, EnB
      <4> QED
        BY <1>10, <2>2
    <3>2. Is(A, v) = {} /\ EnA(v) = {}
      BY <2>2
    <3> HIDE DEF A, B, Is, EnA, EnB, t
    <3> QED
      BY <3>1, <3>2, FS_EmptySet DEF CountIn
  <2> QED
    BY <2>1, <2>2
<1>13. u = g
  <2> HIDE DEF A, B, Is, EnA, EnB, t
  <2>1. DOMAIN t = {c[2][2] : c \in A}
    BY <1>10
  <2>2. g = [v \in {c[2][2] : c \in B} |->
                [count |-> Cardinality(Is(B, v)), enforced |-> Cardinality(EnB(v))]]
    BY <1>9, <1>11, <1>12, <2>1 DEF TallyAfter
  <2> QED
    BY <1>10, <2>2
<1> QED
  BY <1>7, <1>13 DEF now, L

-----------------------------------------------------------------------------
(* What a policy's counters show is what came.                             *)
Shows(shown, came) ==
    /\ shown.total = Len(came)
    /\ shown.enforced = Cardinality({i \in DOMAIN came : came[i].enforced})
    /\ shown.samples \in Seq(Hit) /\ IsTailOf(shown.samples, came, MaxSamples)
    /\ \A dim \in Dimensions :
          IsFiniteSet(AllCame(came, dim)) /\ TrueOf(shown.dims[dim], Tally(came, dim))

(* Cleared counters show nothing, and nothing came.                        *)
LEMMA NothingShows == Shows(NoHits, <<>>)
<1> DEFINE none == <<>>
<1>1. DOMAIN none = {} /\ Len(none) = 0 /\ none \in Seq(Hit)
  OBVIOUS
<1> HIDE DEF none
<1>2. {i \in DOMAIN none : none[i].enforced} = {}
  BY <1>1
<1>3. MaxSamples \in Nat \ {0} /\ MaxValues \in Nat \ {0}
  BY RoomAssumption
<1>4. IsTailOf(none, none, MaxSamples)
  BY <1>1, <1>3 DEF IsTailOf
<1>5. ASSUME NEW dim \in Dimensions
      PROVE  IsFiniteSet(AllCame(none, dim)) /\ TrueOf(NoBucket, Tally(none, dim))
  <2>1. AllCame(none, dim) = {}
    BY <1>1 DEF AllCame
  <2>2. DOMAIN Tally(none, dim) = {} /\ Tally(none, dim) = NoBucket
    BY <2>1 DEF Tally, NoBucket
  <2>3. DOMAIN NoBucket = {} /\ NoBucket \in [{} -> Value]
    BY DEF NoBucket
  <2>4. IsTally(NoBucket)
    BY <2>3, FS_EmptySet DEF IsTally
  <2>5. Cardinality(DOMAIN NoBucket) <= MaxValues
    BY <1>3, <2>3, FS_EmptySet
  <2>6. BucketIsTrue(NoBucket, NoBucket)
    BY <2>3, <2>5 DEF BucketIsTrue
  <2> QED
    BY <2>1, <2>2, <2>3, <2>4, <2>6, FS_EmptySet DEF TrueOf
<1>6. NoHits.total = 0 /\ NoHits.enforced = 0 /\ NoHits.samples = none
      /\ \A dim \in Dimensions : NoHits.dims[dim] = NoBucket
  BY DEF NoHits, none
<1>7. Shows(NoHits, none)
  BY <1>1, <1>2, <1>4, <1>5, <1>6, FS_EmptySet DEF Shows
<1> QED
  BY <1>7 DEF none

(* Record shows one event more.                                            *)
LEMMA RecordShows ==
    ASSUME NEW came \in Seq(Hit), NEW hit \in Hit, hit.of \in Event,
           NEW before, Shows(before, came),
           NEW after \in Record(before, hit, Orders(hit.of), hit.enforced)
    PROVE  Shows(after, Append(came, hit))
<1> DEFINE n == Len(came)
           now == Append(came, hit)
           was == {i \in DOMAIN came : came[i].enforced}
           is == {i \in DOMAIN now : now[i].enforced}
<1>0. MaxSamples \in Nat \ {0}
  BY RoomAssumption
<1>1. /\ n \in Nat /\ DOMAIN came = 1 .. n /\ DOMAIN now = 1 .. n + 1 /\ Len(now) = n + 1
      /\ now[n + 1] = hit /\ \A i \in 1 .. n : now[i] = came[i]
  <2>1. /\ now \in Seq(Hit) /\ Len(now) = n + 1 /\ now[n + 1] = hit
        /\ \A i \in 1 .. n : now[i] = came[i]
    BY AppendProperties
  <2> HIDE DEF now
  <2> QED
    BY <2>1, LenProperties
<1>2. hit.enforced \in BOOLEAN
  BY DEF Hit
<1>3. /\ after.total = before.total + 1
      /\ after.enforced = before.enforced + One(hit.enforced)
      /\ after.samples = Push(before.samples, hit, MaxSamples)
      /\ \A dim \in Dimensions : \E values \in Orders(hit.of)[dim] :
            after.dims[dim] \in RecordEach(before.dims[dim], values, hit.enforced)
  BY DEF Record, Dimensions
<1>4. after.total = Len(now)
  BY <1>1, <1>3 DEF Shows
<1>5. after.enforced = Cardinality(is)
  <2>1. was \in SUBSET (1 .. n) /\ n + 1 \notin was
    BY <1>1
  <2>2. is = was \cup (IF hit.enforced THEN {n + 1} ELSE {})
    <3>1. 1 .. n + 1 = 1 .. n \cup {n + 1}
      BY <1>1
    <3> HIDE DEF now, n
    <3> QED
      BY <1>1, <3>1
  <2>3. before.enforced = Cardinality(was)
    BY DEF Shows
  <2> HIDE DEF was, is
  <2>4. IsFiniteSet(was) /\ Cardinality(was) \in Nat
    <3>1. IsFiniteSet(1 .. n)
      BY <1>1, FS_Interval
    <3>2. IsFiniteSet(was)
      BY <2>1, <3>1, FS_Subset
    <3> QED
      BY <3>2, FS_CardinalityType
  <2>5. CASE hit.enforced
    <3>1. Cardinality(was \cup {n + 1}) = Cardinality(was) + 1
      BY <2>1, <2>4, FS_AddElement
    <3> QED
      BY <1>3, <2>2, <2>3, <2>5, <3>1 DEF One
  <2>6. CASE ~hit.enforced
    BY <1>3, <2>2, <2>3, <2>4, <2>6 DEF One
  <2> QED
    BY <2>5, <2>6
<1>6. after.samples \in Seq(Hit) /\ IsTailOf(after.samples, now, MaxSamples)
  <2>1. before.samples \in Seq(Hit) /\ IsTailOf(before.samples, came, MaxSamples)
    BY DEF Shows
  <2> DEFINE s == before.samples
  <2>2. s \in Seq(Hit) /\ IsTailOf(s, came, MaxSamples)
    BY <2>1
  <2> HIDE DEF s
  <2>3. Push(s, hit, MaxSamples) \in Seq(Hit)
    BY <1>0, <2>2, PushKeeps
  <2>4. IsTailOf(Push(s, hit, MaxSamples), Append(came, hit), MaxSamples)
    BY <1>0, <2>2, PushKeepsTail
  <2> QED
    BY <1>3, <2>3, <2>4 DEF s
<1>7. ASSUME NEW dim \in Dimensions
      PROVE  IsFiniteSet(AllCame(now, dim)) /\ TrueOf(after.dims[dim], Tally(now, dim))
  <2> DEFINE t == Tally(came, dim)
             b == before.dims[dim]
             e == hit.of
  <2>1. IsFiniteSet(AllCame(came, dim)) /\ TrueOf(b, t)
    BY DEF Shows
  <2>2. PICK values \in Orders(e)[dim] : after.dims[dim] \in RecordEach(b, values, hit.enforced)
    BY <1>3
  <2>3. PICK U : values \in Seq(U) /\ SpellsOut(values, Came(e)[dim])
    <3>1. e \in Event
      OBVIOUS
    <3> HIDE DEF e
    <3> QED
      BY <2>2, <3>1, OrdersList
  <2>4. /\ IsFiniteSet(AllCame(now, dim))
        /\ Tally(now, dim) = TallyAfter(t, values, Len(values), hit.enforced)
    BY <1>2, <2>1, <2>3, TallyGrows
  <2>5. TrueOf(after.dims[dim], TallyAfter(t, values, Len(values), hit.enforced))
    <3> HIDE DEF t, b
    <3> QED
      BY <1>2, <2>1, <2>2, <2>3, RecordEachTrue
  <2> QED
    BY <2>4, <2>5
<1> QED
  BY <1>4, <1>5, <1>6, <1>7 DEF Shows, now

(* The counters show what was counted since they were cleared.  An event   *)
(* is counted under its policy's plain name.                               *)
CountsKept ==
    /\ DOMAIN hits = TrackerKeys
    /\ Shows(hits[EventKey], counted)
    /\ hits["namespace/name"] = NoHits

(* No step changes that.                                                   *)
LEMMA CountsStay ==
    TuningTypeOK /\ CountsKept /\ [TuningNext]_tuningVars => CountsKept'
<1> SUFFICES ASSUME TuningTypeOK, CountsKept, [TuningNext]_tuningVars PROVE CountsKept'
  OBVIOUS
<1>1. CASE UNCHANGED <<hits, counted>>
  BY <1>1 DEF CountsKept
<1>2. CASE Ingest
  <2>1. flight # <<>> /\ flight \in Seq(Hit) /\ counted \in Seq(Hit)
    BY <1>2 DEF Ingest, TuningTypeOK
  <2>2. Head(flight) \in Hit
    BY <2>1, FlightFacts
  <2>3. PICK after \in Record(hits[EventKey], Head(flight), Orders(Head(flight).of), Head(flight).enforced) :
          hits' = [hits EXCEPT ![EventKey] = after]
    BY <1>2 DEF Ingest
  <2>4. PICK hit : hit = Head(flight)
    OBVIOUS
  <2>5. PICK before : before = hits[EventKey]
    OBVIOUS
  <2>6. PICK came : came = counted
    OBVIOUS
  <2>7. hit.of \in Event
    BY <2>2, <2>4, InputsAssumption DEF Hit
  <2>8. came \in Seq(Hit) /\ hit \in Hit /\ Shows(before, came)
        /\ after \in Record(before, hit, Orders(hit.of), hit.enforced)
    BY <2>1, <2>2, <2>3, <2>4, <2>5, <2>6 DEF CountsKept
  <2>9. Shows(after, Append(came, hit))
    BY <2>7, <2>8, RecordShows
  <2>10. counted' = Append(came, hit)
    BY <1>2, <2>4, <2>6 DEF Ingest
  <2>11. /\ DOMAIN hits' = TrackerKeys /\ hits'[EventKey] = after
         /\ hits'["namespace/name"] = NoHits
    BY <2>3 DEF CountsKept, EventKey, TrackerKeys
  <2> QED
    BY <2>9, <2>10, <2>11 DEF CountsKept
<1>3. CASE Reset /\ UNCHANGED fixed
  <2>1. hits' = [hits EXCEPT ![PolicyKey] = NoHits]
    BY <1>3 DEF Reset
  <2>2. DOMAIN hits' = TrackerKeys /\ hits'["namespace/name"] = NoHits
    BY <2>1 DEF CountsKept, TrackerKeys
  <2>3. CASE namespaced
    <3>1. counted' = counted /\ hits'[EventKey] = hits[EventKey]
      BY <1>3, <2>1, <2>3 DEF Reset, PolicyKey, EventKey, CountsKept, TrackerKeys
    <3> QED
      BY <2>2, <3>1 DEF CountsKept
  <2>4. CASE ~namespaced
    <3>1. counted' = <<>> /\ hits'[EventKey] = NoHits
      BY <1>3, <2>1, <2>4 DEF Reset, PolicyKey, EventKey, CountsKept, TrackerKeys
    <3> QED
      BY <2>2, <3>1, NothingShows DEF CountsKept
  <2> QED
    BY <2>3, <2>4
<1>4. ASSUME NEW e \in Happening, Happen(e) PROVE UNCHANGED <<hits, counted>>
  BY <1>4 DEF Happen
<1>5. ASSUME NEW ex \in scope.requests, Approve(ex) \/ ApproveOnly(ex)
      PROVE  UNCHANGED <<hits, counted>>
  BY <1>5 DEF Approve, ApproveOnly
<1>6. CASE Dropped
  BY <1>1, <1>6 DEF Dropped
<1>7. CASE EditElsewhere
  BY <1>1, <1>7 DEF EditElsewhere, tuning
<1>8. CASE UNCHANGED tuningVars
  BY <1>1, <1>8 DEF tuningVars, tuning
<1> QED
  BY <1>1, <1>2, <1>3, <1>4, <1>5, <1>6, <1>7, <1>8 DEF TuningNext, Clear, resetHits

(* What is shown of a policy is what was counted since its counters were   *)
(* cleared: exactly that in a dimension that has always had room, and no   *)
(* more where quiet values were forgotten.                                 *)
THEOREM CountersAreTrue == TuningSpec => []CountsAreTrue
<1>1. TuningInit => CountsKept
  <2> SUFFICES ASSUME TuningInit PROVE CountsKept
    OBVIOUS
  <2>1. /\ DOMAIN hits = TrackerKeys /\ \A key \in TrackerKeys : hits[key] = NoHits
        /\ counted = <<>>
    BY DEF TuningInit
  <2> QED
    BY <2>1, NothingShows DEF CountsKept, EventKey, TrackerKeys
<1>2. CountsKept => CountsAreTrue
  BY DEF CountsKept, CountsAreTrue, Shows, TrueOf
<1> QED
  BY <1>1, <1>2, TuningTypeCorrect, CountsStay, PTL DEF TuningSpec
=============================================================================
