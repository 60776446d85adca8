---------------------------- MODULE LibraryYaml ----------------------------
(***************************************************************************)
(* What a selection from the library becomes (lib/libraryYaml.ts): the     *)
(* specs in the mode that was asked for, an object name each, and one      *)
(* document per section.  A draft is the selection, in the order its keys  *)
(* were set, and the namespaces it is scoped to.  The wizard leaves the    *)
(* draft's exclusions empty (they are approved later, from what fired), so *)
(* applyExclusions and the agent's export filters are left out, and so are *)
(* the node and host selectors, which every object gets alike.             *)
(***************************************************************************)
EXTENDS Naturals, SequencesExt, TLC

CONSTANTS
    Shipped,      \* the policies of the library, in its order (PolicyLibrary)
    ShippedById,  \* the same by id
    NamesInOrder  \* their names, as localeCompare sorts them

PolicyMode == {"alert", "block"}
ENFORCE_ACTIONS == {"Sigkill", "Override", "NotifyEnforcer", "Signal"}
HOOK_GROUPS == {"kprobes", "tracepoints", "uprobes", "lsmhooks", "usdts"}
ActionLists == {"matchActions", "matchReturnActions"}

Entry == [id : DOMAIN ShippedById, mode : PolicyMode]
LibraryDraft == [selection : Seq(Entry), scopeNamespaces : SUBSET STRING]

(* What filter keeps of a list: the elements at some of its places.        *)
Keep(s, places) ==
    FlattenSeq([i \in DOMAIN s |-> IF i \in places THEN <<s[i]>> ELSE <<>>])

(* The name of the n-th policy of a name in a build.                       *)
Numbered(name, n) == IF n = 1 THEN name ELSE name \o "-" \o ToString(n)

(* A spec is a map from groups to lists of hooks, hooks are lists of       *)
(* selectors, and selectors are maps.                                      *)
IsMap(f) == f = [x \in DOMAIN f |-> f[x]]
IsSpec(spec) ==
    /\ IsMap(spec)
    /\ \A group \in DOMAIN spec \cap HOOK_GROUPS :
        /\ IsMap(spec[group])
        /\ \A h \in DOMAIN spec[group] :
            /\ IsMap(spec[group][h])
            /\ \A s \in DOMAIN spec[group][h] :
                LET selector == spec[group][h][s]
                IN  /\ IsMap(selector)
                    /\ \A list \in DOMAIN selector \cap ActionLists :
                            IsMap(selector[list])

(* Assumed of the constants where they get their values (Console): the     *)
(* library has each id once, and no name in it is another's with a number. *)
LibraryAssumption ==
    /\ Shipped \in Seq(ToSet(Shipped))
    /\ IsInjective([i \in DOMAIN Shipped |-> Shipped[i].id])
    /\ DOMAIN ShippedById = {policy.id : policy \in ToSet(Shipped)}
    /\ NamesInOrder \in Seq(ToSet(NamesInOrder)) /\ IsInjective(NamesInOrder)
    /\ \A policy \in ToSet(Shipped) :
        /\ ShippedById[policy.id] = policy
        /\ policy.name \in ToSet(NamesInOrder)
        /\ IsSpec(policy.spec)
    /\ LET Copies(name) == 1 .. Cardinality({p \in ToSet(Shipped) : p.name = name})
       IN  \A name, other \in ToSet(NamesInOrder) :
              \A m \in Copies(name), n \in Copies(other) :
                  Numbered(name, m) = Numbered(other, n) => name = other /\ m = n

-----------------------------------------------------------------------------
(* The hooks of a spec, and the actions they may take.                     *)
hooksOf(spec) == UNION {ToSet(spec[group]) : group \in DOMAIN spec \cap HOOK_GROUPS}
Selectors(spec) == UNION {ToSet(hook) : hook \in hooksOf(spec)}
Actions(spec) == UNION {UNION {ToSet(selector[list]) :
                               list \in DOMAIN selector \cap ActionLists} :
                        selector \in Selectors(spec)}

Retarget(action, mode) ==
    CASE mode = "alert" /\ action \in ENFORCE_ACTIONS -> "Post"
      [] mode = "block" /\ action = "Post" -> "Sigkill"
      [] OTHER -> action
RetargetSelector(selector, mode) ==
    [list \in DOMAIN selector |->
        IF list \in ActionLists
        THEN [i \in DOMAIN selector[list] |-> Retarget(selector[list][i], mode)]
        ELSE selector[list]]
applyMode(spec, mode) ==
    [group \in DOMAIN spec |->
        IF group \in HOOK_GROUPS
        THEN [h \in DOMAIN spec[group] |->
                [s \in DOMAIN spec[group][h] |->
                    RetargetSelector(spec[group][h][s], mode)]]
        ELSE spec[group]]
Enforceable(spec) ==
    \E selector \in Selectors(spec) : DOMAIN selector \cap ActionLists # {}

-----------------------------------------------------------------------------
(* The selected policies by name; those of one name in the order they were *)
(* selected in, which is what a stable sort leaves.                        *)
ChosenIn(selection) == [i \in DOMAIN selection |->
                          [policy |-> ShippedById[selection[i].id], mode |-> selection[i].mode]]
Sorted(chosen) ==
    FlattenSeq([n \in DOMAIN NamesInOrder |->
        Keep(chosen, {i \in DOMAIN chosen : chosen[i].policy.name = NamesInOrder[n]})])
selectedPolicies(draft) == Sorted(ChosenIn(draft.selection))

(* Mutant: the name the library ships it under.                            *)
ObjectNamePlain(chosen, i) == chosen[i].policy.name

(* The second policy of a name in a build, and every later one, gets a     *)
(* number.                                                                 *)
ObjectName(chosen, i) ==
    LET name == chosen[i].policy.name
        seen == Cardinality({j \in 1 .. i - 1 : chosen[j].policy.name = name})
    IN  Numbered(name, seen + 1)

(* The objects of one policy: its kind is the draft's, whatever it ships   *)
(* as.                                                                     *)
ObjectsOf(policy, mode, name, namespaces) ==
    LET Object(kind, namespace) ==
            [kind |-> kind, namespace |-> namespace, name |-> name, id |-> policy.id,
             mode |-> mode, spec |-> applyMode(policy.spec, mode)]
    IN  IF namespaces = {} THEN {Object("TracingPolicy", "-")}
        ELSE {Object("TracingPolicyNamespaced", n) : n \in namespaces}

(* FlattenSeq makes a list that TLC evaluates once, not on every use.      *)
Built(entry, name, namespaces) ==
    [policy |-> entry.policy, mode |-> entry.mode,
     objects |-> ObjectsOf(entry.policy, entry.mode, name, namespaces),
     notEnforceable |-> entry.mode = "block" /\ ~Enforceable(entry.policy.spec)]
BuildOf(chosen, namespaces) ==
    FlattenSeq([i \in DOMAIN chosen |->
                    <<Built(chosen[i], ObjectName(chosen, i), namespaces)>>])
buildPolicies(draft) == BuildOf(selectedPolicies(draft), draft.scopeNamespaces)

-----------------------------------------------------------------------------
(* One document per section, in the order the sections first come up.      *)
Doc(section, items) ==
    [section |-> section,
     objects |-> FlattenSeq([i \in DOMAIN items |-> SetToSeq(items[i].objects)]),
     note |-> \E i \in DOMAIN items : items[i].notEnforceable]
DocsOf(built) ==
    LET Section(i) == built[i].policy.section
        Opens(i) == \A j \in 1 .. i - 1 : Section(j) # Section(i)
        DocOf(i) == Doc(Section(i),
                        Keep(built, {j \in DOMAIN built : Section(j) = Section(i)}))
    IN  FlattenSeq([i \in DOMAIN built |-> IF Opens(i) THEN <<DocOf(i)>> ELSE <<>>])
generateDocs(draft) == DocsOf(buildPolicies(draft))

SummaryOf(built) ==
    LET Count(P(_)) == Cardinality({i \in DOMAIN built : P(built[i])})
    IN  [total |-> Len(built),
         blocking |-> Count(LAMBDA b : b.mode = "block"),
         alerting |-> Count(LAMBDA b : b.mode = "alert"),
         notEnforceable |-> Count(LAMBDA b : b.notEnforceable),
         sampleOnly |-> Count(LAMBDA b : b.policy.source = "tracingpolicy"),
         objectCount |-> FoldSeq(LAMBDA b, n : n + Cardinality(b.objects), 0, built)]
summarize(draft) == SummaryOf(buildPolicies(draft))
=============================================================================
