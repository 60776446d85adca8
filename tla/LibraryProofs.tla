---------------------------- MODULE LibraryProofs ----------------------------
(***************************************************************************)
(* The library and its wizard, for any library, bundles and selections.    *)
(* First what a mode does to a spec: it replaces each action by the mode's *)
(* in place.  Then what a build is: a list filtered, sorted and flattened, *)
(* of which nothing repeats if nothing did before, so that no two of its   *)
(* objects share a name.  Last the wizard, whose draft is a selection and  *)
(* whose apply works through what was confirmed.                           *)
(***************************************************************************)
EXTENDS Console, SequenceFacts

(* The actions of one selector.                                            *)
Of(selector) == UNION {ToSet(selector[list]) :
                          list \in DOMAIN selector \cap Library!ActionLists}

LEMMA ToSetIs == \A s : ToSet(s) = {s[i] : i \in DOMAIN s} /\ Library!ToSet(s) = ToSet(s)
  BY DEF ToSet, Library!ToSet

(* A selector keeps its lists, and each list its length.                   *)
LEMMA SelectorActions ==
    ASSUME NEW selector, NEW mode
    PROVE  /\ DOMAIN Library!RetargetSelector(selector, mode) = DOMAIN selector
           /\ Of(Library!RetargetSelector(selector, mode))
                  = {Library!Retarget(a, mode) : a \in Of(selector)}
<1> DEFINE after == Library!RetargetSelector(selector, mode)
<1>1. DOMAIN after = DOMAIN selector
  BY DEF Library!RetargetSelector
<1>2. ASSUME NEW list \in DOMAIN selector \cap Library!ActionLists
      PROVE  ToSet(after[list]) = {Library!Retarget(a, mode) : a \in ToSet(selector[list])}
  <2>1. after[list] = [i \in DOMAIN selector[list] |->
                          Library!Retarget(selector[list][i], mode)]
    BY DEF Library!RetargetSelector
  <2> QED
    BY <2>1, ToSetIs
<1> HIDE DEF after
<1>3. Of(after) = UNION {ToSet(after[list]) : list \in DOMAIN selector \cap Library!ActionLists}
  BY <1>1 DEF Of
<1>4. ASSUME NEW a
      PROVE  a \in Of(after) <=> a \in {Library!Retarget(b, mode) : b \in Of(selector)}
  <2>1. ASSUME a \in Of(after) PROVE \E b \in Of(selector) : a = Library!Retarget(b, mode)
    <3>1. PICK list \in DOMAIN selector \cap Library!ActionLists : a \in ToSet(after[list])
      BY <1>3, <2>1
    <3>2. PICK b \in ToSet(selector[list]) : a = Library!Retarget(b, mode)
      BY <1>2, <3>1
    <3> QED
      BY <3>2 DEF Of
  <2>2. ASSUME NEW b \in Of(selector), a = Library!Retarget(b, mode) PROVE a \in Of(after)
    <3>1. PICK list \in DOMAIN selector \cap Library!ActionLists : b \in ToSet(selector[list])
      BY DEF Of
    <3>2. a \in ToSet(after[list])
      BY <1>2, <2>2, <3>1
    <3> QED
      BY <1>3, <3>2
  <2> QED
    BY <2>1, <2>2
<1> QED
  BY <1>1, <1>4 DEF after

(* The selectors of a spec are those of its hooks, group by group.         *)
LEMMA SelectorsAre ==
    ASSUME NEW spec, NEW x
    PROVE  x \in Library!Selectors(spec) <=>
               \E group \in DOMAIN spec \cap Library!HOOK_GROUPS :
                   \E h \in DOMAIN spec[group] :
                       \E s \in DOMAIN spec[group][h] : x = spec[group][h][s]
  BY ToSetIs DEF Library!Selectors, Library!hooksOf

LEMMA ChangedSelectors ==
    ASSUME NEW spec, NEW mode
    PROVE  Library!Selectors(Library!applyMode(spec, mode))
               = {Library!RetargetSelector(x, mode) : x \in Library!Selectors(spec)}
<1> DEFINE after == Library!applyMode(spec, mode)
<1>1. DOMAIN after = DOMAIN spec
  BY DEF Library!applyMode
<1>2. ASSUME NEW group \in DOMAIN spec \cap Library!HOOK_GROUPS
      PROVE  /\ DOMAIN after[group] = DOMAIN spec[group]
             /\ \A h \in DOMAIN spec[group] :
                   /\ DOMAIN after[group][h] = DOMAIN spec[group][h]
                   /\ \A s \in DOMAIN spec[group][h] :
                         after[group][h][s] = Library!RetargetSelector(spec[group][h][s], mode)
  <2>1. after[group] = [h \in DOMAIN spec[group] |->
                          [s \in DOMAIN spec[group][h] |->
                              Library!RetargetSelector(spec[group][h][s], mode)]]
    BY DEF Library!applyMode
  <2> QED
    BY <2>1
<1> HIDE DEF after
<1>3. ASSUME NEW y
      PROVE  y \in Library!Selectors(after) <=>
                 \E x \in Library!Selectors(spec) : y = Library!RetargetSelector(x, mode)
  <2>1. ASSUME y \in Library!Selectors(after)
        PROVE  \E x \in Library!Selectors(spec) : y = Library!RetargetSelector(x, mode)
    <3>1. PICK group \in DOMAIN after \cap Library!HOOK_GROUPS :
              \E h \in DOMAIN after[group] :
                  \E s \in DOMAIN after[group][h] : y = after[group][h][s]
      BY <2>1, SelectorsAre
    <3>2. PICK h \in DOMAIN spec[group] :
              \E s \in DOMAIN spec[group][h] :
                  y = Library!RetargetSelector(spec[group][h][s], mode)
      BY <1>1, <1>2, <3>1
    <3> QED
      BY <1>1, <3>1, <3>2, SelectorsAre
  <2>2. ASSUME NEW x \in Library!Selectors(spec), y = Library!RetargetSelector(x, mode)
        PROVE  y \in Library!Selectors(after)
    <3>1. PICK group \in DOMAIN spec \cap Library!HOOK_GROUPS :
              \E h \in DOMAIN spec[group] :
                  \E s \in DOMAIN spec[group][h] : x = spec[group][h][s]
      BY SelectorsAre
    <3>2. \E h \in DOMAIN after[group] :
              \E s \in DOMAIN after[group][h] : y = after[group][h][s]
      BY <1>2, <2>2, <3>1
    <3> QED
      BY <1>1, <3>1, <3>2, SelectorsAre
  <2> QED
    BY <2>1, <2>2
<1> QED
  BY <1>3 DEF after

-----------------------------------------------------------------------------
(* In either mode a spec has the actions it had, each in that mode: none   *)
(* is added and none is lost (applyMode).                                  *)
THEOREM ModeKeepsActions ==
    \A spec, mode :
        Library!Actions(Library!applyMode(spec, mode))
            = {Library!Retarget(a, mode) : a \in Library!Actions(spec)}
<1> SUFFICES ASSUME NEW spec, NEW mode
             PROVE  Library!Actions(Library!applyMode(spec, mode))
                        = {Library!Retarget(a, mode) : a \in Library!Actions(spec)}
  OBVIOUS
<1>1. \A any : Library!Actions(any) = UNION {Of(x) : x \in Library!Selectors(any)}
  BY ToSetIs DEF Library!Actions, Of
<1>2. \A x : Of(Library!RetargetSelector(x, mode)) = {Library!Retarget(a, mode) : a \in Of(x)}
  BY SelectorActions
<1>3. Library!Selectors(Library!applyMode(spec, mode))
          = {Library!RetargetSelector(x, mode) : x \in Library!Selectors(spec)}
  BY ChangedSelectors
<1> QED
  BY <1>1, <1>2, <1>3

(* An object in alert mode enforces nothing, one in block mode only        *)
(* reports nothing, and whether a policy can block at all is the same      *)
(* after as before (applyMode).                                            *)
THEOREM ModeIsWhatWasAsked ==
    \A spec :
        /\ Library!Actions(Library!applyMode(spec, "alert")) \cap Library!ENFORCE_ACTIONS = {}
        /\ "Post" \notin Library!Actions(Library!applyMode(spec, "block"))
        /\ \A mode : Library!Enforceable(Library!applyMode(spec, mode))
                       <=> Library!Enforceable(spec)
<1> SUFFICES ASSUME NEW spec
             PROVE  /\ Library!Actions(Library!applyMode(spec, "alert")) \cap Library!ENFORCE_ACTIONS = {}
                    /\ "Post" \notin Library!Actions(Library!applyMode(spec, "block"))
                    /\ \A mode : Library!Enforceable(Library!applyMode(spec, mode))
                                   <=> Library!Enforceable(spec)
  OBVIOUS
<1>1. \A a : Library!Retarget(a, "alert") \notin Library!ENFORCE_ACTIONS
  BY DEF Library!Retarget, Library!ENFORCE_ACTIONS
<1>2. \A a : Library!Retarget(a, "block") # "Post"
  BY DEF Library!Retarget
<1>3. ASSUME NEW mode
      PROVE  Library!Enforceable(Library!applyMode(spec, mode)) <=> Library!Enforceable(spec)
  <2>1. \A x : DOMAIN Library!RetargetSelector(x, mode) = DOMAIN x
    BY SelectorActions
  <2>2. Library!Selectors(Library!applyMode(spec, mode))
            = {Library!RetargetSelector(x, mode) : x \in Library!Selectors(spec)}
    BY ChangedSelectors
  <2> QED
    BY <2>1, <2>2 DEF Library!Enforceable
<1> QED
  BY <1>1, <1>2, <1>3, ModeKeepsActions

-----------------------------------------------------------------------------
(* Filtering, sorting and naming.                                          *)

(* What the library builder takes from the libraries, under its name here. *)
LEMMA LibraryUse ==
    /\ \A s : Library!FlattenSeq(s) = FlattenSeq(s)
    /\ \A s : Library!ToSet(s) = ToSet(s)
    /\ \A s : Library!IsInjective(s) = IsInjective(s)
    /\ \A S : Library!Cardinality(S) = Cardinality(S)
    /\ \A S : Library!SetToSeq(S) = SetToSeq(S)
<1>1. /\ \A s : Library!FlattenSeq(s) = FlattenSeq(s)
      /\ \A s : Library!ToSet(s) = ToSet(s)
      /\ \A s : Library!IsInjective(s) = IsInjective(s)
  BY DEF Library!FlattenSeq, FlattenSeq, Library!ToSet, ToSet, Library!IsInjective, IsInjective
<1>2. \A S : Library!Cardinality(S) = Cardinality(S)
  BY DEF Library!Cardinality, Cardinality
<1>3. \A S : Library!SetToSeq(S) = SetToSeq(S)
  BY <1>2 DEF Library!SetToSeq, SetToSeq, Library!IsInjective, IsInjective
<1> QED
  BY <1>1, <1>2, <1>3

(* What is kept of a list: the elements at the places, in their order, and *)
(* none twice that was there once.                                         *)
LEMMA KeepIs ==
    ASSUME NEW S, NEW s \in Seq(S), NEW places
    PROVE  /\ Library!Keep(s, places) \in Seq(S)
           /\ ToSet(Library!Keep(s, places)) = {s[i] : i \in DOMAIN s \cap places}
           /\ IsInjective(s) => IsInjective(Library!Keep(s, places))
<1> DEFINE Part(i) == IF i \in places THEN <<s[i]>> ELSE <<>>
           parts == [i \in DOMAIN s |-> Part(i)]
           none == <<>>
<1>1. Library!Keep(s, places) = FlattenSeq(parts)
  BY LibraryUse DEF Library!Keep
<1>2. parts \in Seq(Seq(S))
  <2>1. \A i \in DOMAIN s : Part(i) \in Seq(S)
    OBVIOUS
  <2>2. Len(s) \in Nat /\ DOMAIN s = 1 .. Len(s)
    OBVIOUS
  <2> DEFINE V == Seq(S)
  <2>3. parts \in [1 .. Len(s) -> V]
    BY <2>1, <2>2
  <2> HIDE DEF parts, V
  <2>4. parts \in Seq(V)
    BY <2>2, <2>3, SeqDef
  <2> QED
    BY <2>4 DEF V
<1>3. DOMAIN parts = DOMAIN s
  OBVIOUS
<1>4. ASSUME NEW i \in DOMAIN s
      PROVE  /\ i \in places => parts[i] = <<s[i]>> /\ ToSet(parts[i]) = {s[i]}
             /\ i \notin places => parts[i] = none /\ ToSet(parts[i]) = {}
             /\ IsInjective(parts[i])
  <2>1. ToSet(none) = {} /\ IsInjective(none)
    BY DEF ToSet, IsInjective
  <2>2. parts[i] = Part(i)
    OBVIOUS
  <2> HIDE DEF none, parts
  <2>3. Part(i) = IF i \in places THEN <<s[i]>> ELSE none
    BY DEF none
  <2> QED
    BY <2>1, <2>2, <2>3, OneIs
<1> HIDE DEF parts, none
<1>5. /\ FlattenSeq(parts) \in Seq(S)
      /\ ToSet(FlattenSeq(parts)) = UNION {ToSet(parts[i]) : i \in DOMAIN parts}
      /\ IsInjective(FlattenSeq(parts)) <=> Apart(parts)
  BY <1>2, FlattenRange
<1>6. UNION {ToSet(parts[i]) : i \in DOMAIN parts} = {s[i] : i \in DOMAIN s \cap places}
  BY <1>3, <1>4
<1>7. IsInjective(s) => Apart(parts)
  <2> SUFFICES ASSUME IsInjective(s), NEW i \in DOMAIN s, NEW j \in DOMAIN s, i # j
               PROVE  ToSet(parts[i]) \cap ToSet(parts[j]) = {}
    BY <1>3, <1>4 DEF Apart
  <2>1. s[i] # s[j]
    BY DEF IsInjective
  <2> QED
    BY <1>4, <2>1
<1> QED
  BY <1>1, <1>5, <1>6, <1>7

(* A finite set has a list of its elements.                                *)
LEMMA SetToSeqIs ==
    ASSUME NEW T, IsFiniteSet(T)
    PROVE  SetToSeq(T) \in Seq(T) /\ IsInjective(SetToSeq(T))
<1> DEFINE n == Cardinality(T)
<1>1. n \in Nat /\ ExistsBijection(1 .. n, T)
  BY FS_CardinalityType
<1>2. PICK f \in [1 .. n -> T] : IsInjective(f)
  BY <1>1 DEF ExistsBijection, Bijection, Injection, IsInjective
<1>3. SetToSeq(T) \in [1 .. n -> T] /\ IsInjective(SetToSeq(T))
  BY <1>2 DEF SetToSeq
<1> QED
  BY <1>1, <1>3, SeqDef

(* Sorting by name keeps each element, and none twice.                     *)
LEMMA SortedIs ==
    ASSUME Library!LibraryAssumption, NEW S, NEW chosen \in Seq(S)
    PROVE  /\ Library!Sorted(chosen) \in Seq(S)
           /\ ToSet(Library!Sorted(chosen)) \subseteq ToSet(chosen)
           /\ IsInjective(chosen) => IsInjective(Library!Sorted(chosen))
<1> DEFINE Places(n) == {i \in DOMAIN chosen : chosen[i].policy.name = NamesInOrder[n]}
           Part(n) == Library!Keep(chosen, Places(n))
           parts == [n \in DOMAIN NamesInOrder |-> Part(n)]
<1>1. Library!Sorted(chosen) = FlattenSeq(parts)
  BY LibraryUse DEF Library!Sorted
<1>2. NamesInOrder \in Seq(ToSet(NamesInOrder)) /\ IsInjective(NamesInOrder)
  BY LibraryUse DEF Library!LibraryAssumption
<1>3. Len(NamesInOrder) \in Nat /\ DOMAIN NamesInOrder = 1 .. Len(NamesInOrder)
  BY <1>2
<1>4. ASSUME NEW n \in DOMAIN NamesInOrder
      PROVE  /\ parts[n] \in Seq(S)
             /\ ToSet(parts[n]) = {chosen[i] : i \in Places(n)}
             /\ IsInjective(chosen) => IsInjective(parts[n])
  <2>1. DOMAIN chosen \cap Places(n) = Places(n)
    OBVIOUS
  <2>2. parts[n] = Part(n)
    OBVIOUS
  <2> HIDE DEF parts, Places
  <2>3. /\ Part(n) \in Seq(S)
        /\ ToSet(Part(n)) = {chosen[i] : i \in DOMAIN chosen \cap Places(n)}
        /\ IsInjective(chosen) => IsInjective(Part(n))
    BY KeepIs
  <2> QED
    BY <2>1, <2>2, <2>3
<1>5. DOMAIN parts = DOMAIN NamesInOrder
  OBVIOUS
<1>6. parts \in Seq(Seq(S))
  <2> DEFINE V == Seq(S)
  <2> HIDE DEF Part, V
  <2>1. \A n \in DOMAIN NamesInOrder : Part(n) \in V
    BY <1>4 DEF V
  <2>2. parts \in [1 .. Len(NamesInOrder) -> V]
    BY <1>3, <2>1
  <2> HIDE DEF parts
  <2>3. parts \in Seq(V)
    BY <1>3, <2>2, SeqDef
  <2> QED
    BY <2>3 DEF V
<1> HIDE DEF parts
<1>7. /\ FlattenSeq(parts) \in Seq(S)
      /\ ToSet(FlattenSeq(parts)) = UNION {ToSet(parts[i]) : i \in DOMAIN parts}
      /\ IsInjective(FlattenSeq(parts)) <=> Apart(parts)
  BY <1>6, FlattenRange
<1>8. UNION {ToSet(parts[i]) : i \in DOMAIN parts} \subseteq ToSet(chosen)
  <2>1. \A n \in DOMAIN parts : ToSet(parts[n]) \subseteq ToSet(chosen)
    BY <1>4, <1>5 DEF ToSet
  <2> QED
    BY <2>1
<1>9. IsInjective(chosen) => Apart(parts)
  <2> SUFFICES ASSUME IsInjective(chosen),
                      NEW m \in DOMAIN NamesInOrder, NEW n \in DOMAIN NamesInOrder, m # n
               PROVE  ToSet(parts[m]) \cap ToSet(parts[n]) = {}
    BY <1>4, <1>5 DEF Apart
  <2>1. NamesInOrder[m] # NamesInOrder[n]
    BY <1>2 DEF IsInjective
  <2>2. \A i \in Places(m), j \in Places(n) : chosen[i] # chosen[j]
    BY <2>1
  <2>3. /\ ToSet(parts[m]) = {chosen[i] : i \in Places(m)}
        /\ ToSet(parts[n]) = {chosen[i] : i \in Places(n)}
    BY <1>4
  <2> HIDE DEF Places
  <2> QED
    BY <2>2, <2>3
<1> QED
  BY <1>1, <1>7, <1>8, <1>9

-----------------------------------------------------------------------------
(* A selection has shipped policies, each once.                            *)
IsSelection(selection) ==
    selection \in Seq(Library!Entry) /\ Library!IdsOnce(selection)

(* What a selection chooses: a policy of the library and its mode.         *)
Choice == [policy : ToSet(Shipped), mode : Library!PolicyMode]
PoliciesOnce(chosen) ==
    /\ IsInjective(chosen)
    /\ \A i, j \in DOMAIN chosen : chosen[i].policy = chosen[j].policy => i = j

LEMMA ChosenAre ==
    ASSUME Library!LibraryAssumption, NEW selection, IsSelection(selection)
    PROVE  /\ Library!ChosenIn(selection) \in Seq(Choice)
           /\ PoliciesOnce(Library!ChosenIn(selection))
<1> DEFINE Made(i) == [policy |-> ShippedById[selection[i].id], mode |-> selection[i].mode]
           chosen == Library!ChosenIn(selection)
<1>1. Len(selection) \in Nat /\ DOMAIN selection = 1 .. Len(selection)
  BY DEF IsSelection
<1>2. \A i \in DOMAIN selection : selection[i] \in Library!Entry
  BY DEF IsSelection
<1>3. ASSUME NEW id \in DOMAIN ShippedById
      PROVE  ShippedById[id] \in ToSet(Shipped) /\ ShippedById[id].id = id
  <2>1. DOMAIN ShippedById = {policy.id : policy \in ToSet(Shipped)}
    BY LibraryUse DEF Library!LibraryAssumption
  <2>2. PICK policy \in ToSet(Shipped) : policy.id = id
    BY <2>1
  <2>3. ShippedById[policy.id] = policy
    BY LibraryUse DEF Library!LibraryAssumption
  <2> QED
    BY <2>2, <2>3
<1>4. ASSUME NEW i \in DOMAIN selection
      PROVE  Made(i) \in Choice /\ Made(i).policy.id = selection[i].id
  <2>1. selection[i].id \in DOMAIN ShippedById /\ selection[i].mode \in Library!PolicyMode
    BY <1>2 DEF Library!Entry
  <2> QED
    BY <1>3, <2>1 DEF Choice
<1>5. chosen = [i \in DOMAIN selection |-> Made(i)]
  BY DEF Library!ChosenIn
<1> HIDE DEF chosen, Made
<1>6. chosen \in Seq(Choice)
  <2>1. chosen \in [1 .. Len(selection) -> Choice]
    BY <1>1, <1>4, <1>5
  <2> QED
    BY <1>1, <2>1, SeqDef
<1>7. ASSUME NEW i \in DOMAIN chosen, NEW j \in DOMAIN chosen,
             chosen[i].policy = chosen[j].policy
      PROVE  i = j
  <2>1. selection[i].id = selection[j].id
    BY <1>4, <1>5, <1>7
  <2>2. IsInjective([n \in DOMAIN selection |-> selection[n].id])
    BY LibraryUse DEF IsSelection, Library!IdsOnce
  <2> QED
    BY <1>5, <2>1, <2>2 DEF IsInjective
<1> QED
  BY <1>6, <1>7 DEF PoliciesOnce, IsInjective, chosen

(* Sorted, they are still each once.                                       *)
LEMMA SelectedAre ==
    ASSUME Library!LibraryAssumption, NEW draft_, IsSelection(draft_.selection)
    PROVE  /\ Library!selectedPolicies(draft_) \in Seq(Choice)
           /\ PoliciesOnce(Library!selectedPolicies(draft_))
<1> DEFINE chosen == Library!ChosenIn(draft_.selection)
           sorted == Library!Sorted(chosen)
<1>1. chosen \in Seq(Choice) /\ PoliciesOnce(chosen)
  BY ChosenAre
<1>2. sorted \in Seq(Choice) /\ ToSet(sorted) \subseteq ToSet(chosen) /\ IsInjective(sorted)
  <2> HIDE DEF chosen
  <2> QED
    BY <1>1, SortedIs DEF PoliciesOnce
<1>3. Library!selectedPolicies(draft_) = sorted
  BY DEF Library!selectedPolicies
<1> HIDE DEF sorted, chosen
<1>4. ASSUME NEW i \in DOMAIN sorted, NEW j \in DOMAIN sorted,
             sorted[i].policy = sorted[j].policy
      PROVE  i = j
  <2>1. sorted[i] \in ToSet(chosen) /\ sorted[j] \in ToSet(chosen)
    BY <1>2 DEF ToSet
  <2>2. sorted[i] = sorted[j]
    BY <1>1, <1>4, <2>1 DEF ToSet, PoliciesOnce
  <2> QED
    BY <1>2, <2>2 DEF IsInjective
<1> QED
  BY <1>2, <1>3, <1>4 DEF PoliciesOnce

(* The library is finite, and so are the policies of a name.               *)
LEMMA CopiesAre ==
    ASSUME Library!LibraryAssumption, NEW name
    PROVE  IsFiniteSet({p \in ToSet(Shipped) : p.name = name})
<1>1. Shipped \in Seq(ToSet(Shipped))
  BY LibraryUse DEF Library!LibraryAssumption
<1>2. Shipped \in Surjection(1 .. Len(Shipped), ToSet(Shipped)) /\ Len(Shipped) \in Nat
  BY <1>1 DEF ToSet, Surjection
<1>3. IsFiniteSet(1 .. Len(Shipped))
  BY <1>2, FS_Interval
<1>4. IsFiniteSet(ToSet(Shipped))
  BY <1>2, <1>3, FS_Surjection
<1> QED
  BY <1>4, FS_Subset

(* The number a policy's name gets is no more than there are policies of   *)
(* that name, and the numbers of one name differ.                          *)
Seen(chosen, i) == {j \in 1 .. i - 1 : chosen[j].policy.name = chosen[i].policy.name}

LEMMA SeenIs ==
    ASSUME Library!LibraryAssumption, NEW chosen \in Seq(Choice), PoliciesOnce(chosen),
           NEW i \in DOMAIN chosen
    PROVE  /\ Cardinality(Seen(chosen, i)) \in Nat
           /\ Cardinality(Seen(chosen, i)) + 1
                  \in 1 .. Cardinality({p \in ToSet(Shipped) : p.name = chosen[i].policy.name})
           /\ \A j \in DOMAIN chosen :
                 j < i /\ chosen[j].policy.name = chosen[i].policy.name
                     => Cardinality(Seen(chosen, j)) < Cardinality(Seen(chosen, i))
<1> DEFINE name == chosen[i].policy.name
           Copies == {p \in ToSet(Shipped) : p.name = name}
           S(k) == {j \in 1 .. k : chosen[j].policy.name = name}
           f == [j \in S(i) |-> chosen[j].policy]
<1>1. DOMAIN chosen = 1 .. Len(chosen) /\ Len(chosen) \in Nat /\ i \in Nat
  OBVIOUS
<1>2. \A j \in DOMAIN chosen : chosen[j].policy \in ToSet(Shipped)
  <2>1. \A j \in DOMAIN chosen : chosen[j] \in Choice
    OBVIOUS
  <2> QED
    BY <2>1 DEF Choice
<1>3. IsFiniteSet(Copies)
  BY CopiesAre
<1>4. \A k \in 0 .. i : IsFiniteSet(S(k)) /\ Cardinality(S(k)) \in Nat
  <2> SUFFICES ASSUME NEW k \in 0 .. i PROVE IsFiniteSet(S(k))
    BY FS_CardinalityType
  <2>1. IsFiniteSet(1 .. k)
    BY FS_Interval
  <2> QED
    BY <2>1, FS_Subset
<1>5. f \in Injection(S(i), Copies)
  <2>1. \A j \in S(i) : j \in DOMAIN chosen /\ chosen[j].policy \in Copies
    BY <1>1, <1>2
  <2> HIDE DEF S, Copies
  <2>2. f \in [S(i) -> Copies]
    BY <2>1
  <2>3. IsInjective(f)
    BY <2>1 DEF IsInjective, PoliciesOnce
  <2> QED
    BY <2>2, <2>3 DEF Injection
<1> HIDE DEF f
<1>6. Cardinality(S(i)) <= Cardinality(Copies) /\ Cardinality(Copies) \in Nat
  <2> HIDE DEF S, Copies
  <2> QED
    BY <1>3, <1>5, FS_Injection, FS_CardinalityType
<1>7. S(i) = S(i - 1) \cup {i} /\ i \notin S(i - 1)
  BY <1>1
<1>8. Cardinality(S(i)) = Cardinality(S(i - 1)) + 1
  <2>1. i - 1 \in 0 .. i
    BY <1>1
  <2>2. IsFiniteSet(S(i - 1))
    BY <1>4, <2>1
  <2> HIDE DEF S
  <2> QED
    BY <1>7, <2>2, FS_AddElement
<1>9. Seen(chosen, i) = S(i - 1)
  BY DEF Seen
<1>10. ASSUME NEW j \in DOMAIN chosen, j < i, chosen[j].policy.name = name
       PROVE  Cardinality(Seen(chosen, j)) < Cardinality(Seen(chosen, i))
  <2>1. Seen(chosen, j) = S(j - 1)
    BY <1>10 DEF Seen
  <2>2. S(j - 1) \subseteq S(i - 1) /\ j \in S(i - 1) /\ j \notin S(j - 1)
    BY <1>1, <1>10
  <2>3. i - 1 \in 0 .. i /\ j - 1 \in 0 .. i
    BY <1>1, <1>10
  <2>4. /\ IsFiniteSet(S(i - 1)) /\ Cardinality(S(i - 1)) \in Nat
        /\ Cardinality(S(j - 1)) \in Nat
    BY <1>4, <2>3
  <2>5. Cardinality(S(j - 1)) <= Cardinality(S(i - 1))
        /\ Cardinality(S(j - 1)) # Cardinality(S(i - 1))
    <3> HIDE DEF S
    <3> QED
      BY <2>2, <2>4, FS_Subset
  <2> QED
    BY <1>9, <2>1, <2>4, <2>5
<1>11. Cardinality(S(i - 1)) \in Nat
  <2>1. i - 1 \in 0 .. i
    BY <1>1
  <2> HIDE DEF S
  <2> QED
    BY <1>4, <2>1
<1> QED
  BY <1>6, <1>8, <1>9, <1>10, <1>11

(* So no two objects of a build get one name.                              *)
LEMMA NamesDiffer ==
    ASSUME Library!LibraryAssumption, NEW chosen \in Seq(Choice), PoliciesOnce(chosen),
           NEW i \in DOMAIN chosen, NEW j \in DOMAIN chosen,
           Library!ObjectName(chosen, i) = Library!ObjectName(chosen, j)
    PROVE  i = j
<1> DEFINE Name(k) == chosen[k].policy.name
           Copies(name) == 1 .. Cardinality({p \in ToSet(Shipped) : p.name = name})
           Nth(k) == Cardinality(Seen(chosen, k)) + 1
<1>1. \A k \in DOMAIN chosen :
          Library!ObjectName(chosen, k) = Library!Numbered(Name(k), Nth(k))
  BY LibraryUse DEF Library!ObjectName, Seen
<1>2. \A k \in DOMAIN chosen : Nth(k) \in Copies(Name(k))
  BY SeenIs
<1>3. \A k \in DOMAIN chosen : Name(k) \in ToSet(NamesInOrder)
  <2>1. \A k \in DOMAIN chosen : chosen[k] \in Choice
    OBVIOUS
  <2>2. \A k \in DOMAIN chosen : chosen[k].policy \in ToSet(Shipped)
    BY <2>1 DEF Choice
  <2> QED
    BY <2>2, LibraryUse DEF Library!LibraryAssumption
<1>4. \A name, other \in ToSet(NamesInOrder) :
         \A m \in Copies(name), n \in Copies(other) :
            Library!Numbered(name, m) = Library!Numbered(other, n) => name = other /\ m = n
  BY LibraryUse DEF Library!LibraryAssumption
<1>5. Name(i) = Name(j) /\ Nth(i) = Nth(j)
  <2> HIDE DEF Name, Nth, Copies
  <2> QED
    BY <1>1, <1>2, <1>3, <1>4
<1>6. /\ i \in Nat /\ j \in Nat
      /\ Cardinality(Seen(chosen, i)) \in Nat /\ Cardinality(Seen(chosen, j)) \in Nat
  <2>1. i \in Nat /\ j \in Nat
    OBVIOUS
  <2>2. \A k \in DOMAIN chosen : Cardinality(Seen(chosen, k)) \in Nat
    BY SeenIs
  <2> QED
    BY <2>1, <2>2
<1>7. Cardinality(Seen(chosen, i)) = Cardinality(Seen(chosen, j))
  BY <1>5, <1>6
<1>8. ~(i < j) /\ ~(j < i)
  <2>1. \A k, l \in DOMAIN chosen :
            l < k /\ Name(l) = Name(k)
                => Cardinality(Seen(chosen, l)) < Cardinality(Seen(chosen, k))
    BY SeenIs
  <2> HIDE DEF Nth
  <2> QED
    BY <1>5, <1>6, <1>7, <2>1
<1> QED
  BY <1>6, <1>8

-----------------------------------------------------------------------------
(* The build: the objects of a policy, and the documents they are put in.  *)
Name(o) == <<o.kind, o.namespace, o.name>>

(* The objects made of one choice.                                         *)
Makes(choice, name, namespaces) ==
    Library!ObjectsOf(choice.policy, choice.mode, name, namespaces)

LEMMA ObjectsAre ==
    ASSUME NEW choice \in Choice, NEW name, NEW namespaces, IsFiniteSet(namespaces)
    PROVE  /\ IsFiniteSet(Makes(choice, name, namespaces))
           /\ \A o \in Makes(choice, name, namespaces) :
                 /\ o.name = name /\ o.id = choice.policy.id /\ o.mode = choice.mode
                 /\ o.spec = Library!applyMode(choice.policy.spec, choice.mode)
           /\ \A o, p \in Makes(choice, name, namespaces) : Name(o) = Name(p) => o = p
<1> DEFINE Object(kind, namespace) ==
              [kind |-> kind, namespace |-> namespace, name |-> name, id |-> choice.policy.id,
               mode |-> choice.mode,
               spec |-> Library!applyMode(choice.policy.spec, choice.mode)]
<1>1. \A kind, namespace, k, n :
         /\ Object(kind, namespace).name = name
         /\ Object(kind, namespace).id = choice.policy.id
         /\ Object(kind, namespace).mode = choice.mode
         /\ Object(kind, namespace).spec = Library!applyMode(choice.policy.spec, choice.mode)
         /\ Name(Object(kind, namespace)) = Name(Object(k, n)) => kind = k /\ namespace = n
  BY DEF Name
<1>2. Makes(choice, name, namespaces)
          = IF namespaces = {} THEN {Object("TracingPolicy", "-")}
            ELSE {Object("TracingPolicyNamespaced", n) : n \in namespaces}
  BY DEF Makes, Library!ObjectsOf
<1> HIDE DEF Object
<1>3. IsFiniteSet(Makes(choice, name, namespaces))
  <2>1. CASE namespaces = {}
    BY <1>2, <2>1, FS_Singleton
  <2>2. CASE namespaces # {}
    <3> DEFINE all == {Object("TracingPolicyNamespaced", n) : n \in namespaces}
               f == [n \in namespaces |-> Object("TracingPolicyNamespaced", n)]
    <3>1. f \in Surjection(namespaces, all)
      BY DEF Surjection
    <3> HIDE DEF f, all
    <3>2. IsFiniteSet(all)
      BY <3>1, FS_Surjection
    <3> QED
      BY <1>2, <2>2, <3>2 DEF all
  <2> QED
    BY <2>1, <2>2
<1>4. \A o \in Makes(choice, name, namespaces) :
          \E kind, namespace : o = Object(kind, namespace)
  BY <1>2
<1> QED
  BY <1>1, <1>3, <1>4

(* A build has one entry per choice, and each has the objects of its own.  *)
Entries(chosen, namespaces) ==
    {Library!Built(chosen[i], Library!ObjectName(chosen, i), namespaces) :
        i \in DOMAIN chosen}

LEMMA BuildIs ==
    ASSUME NEW chosen \in Seq(Choice), PoliciesOnce(chosen), NEW namespaces
    PROVE  /\ Library!BuildOf(chosen, namespaces) \in Seq(Entries(chosen, namespaces))
           /\ IsInjective(Library!BuildOf(chosen, namespaces))
<1> DEFINE Thing(i) == Library!Built(chosen[i], Library!ObjectName(chosen, i), namespaces)
           things == Entries(chosen, namespaces)
           Part(i) == <<Thing(i)>>
           parts == [i \in DOMAIN chosen |-> Part(i)]
<1>1. Library!BuildOf(chosen, namespaces) = FlattenSeq(parts)
  BY LibraryUse DEF Library!BuildOf
<1>2. Len(chosen) \in Nat /\ DOMAIN chosen = 1 .. Len(chosen)
  OBVIOUS
<1>3. ASSUME NEW i \in DOMAIN chosen
      PROVE  /\ Thing(i) \in things
             /\ Thing(i).policy = chosen[i].policy
             /\ parts[i] = <<Thing(i)>>
  BY DEF Entries, Library!Built
<1> HIDE DEF Thing
<1>4. \A i \in DOMAIN chosen : Part(i) \in Seq(things)
  <2> HIDE DEF things
  <2>1. \A i \in DOMAIN chosen : Thing(i) \in things
    BY <1>3
  <2>2. \A x \in things : <<x>> \in Seq(things)
    OBVIOUS
  <2> QED
    BY <2>1, <2>2
<1>5. parts \in Seq(Seq(things))
  <2> DEFINE V == Seq(things)
  <2> HIDE DEF Part, V
  <2>1. parts \in [1 .. Len(chosen) -> V]
    BY <1>2, <1>4 DEF V
  <2> HIDE DEF parts
  <2>2. parts \in Seq(V)
    BY <1>2, <2>1, SeqDef
  <2> QED
    BY <2>2 DEF V
<1>6. DOMAIN parts = DOMAIN chosen
  OBVIOUS
<1>7. \A i \in DOMAIN chosen : ToSet(parts[i]) = {Thing(i)} /\ IsInjective(parts[i])
  <2> HIDE DEF parts
  <2> QED
    BY <1>3, OneIs
<1> HIDE DEF parts, things
<1>8. Apart(parts)
  <2> SUFFICES ASSUME NEW i \in DOMAIN chosen, NEW j \in DOMAIN chosen, i # j
               PROVE  Thing(i) # Thing(j)
    BY <1>6, <1>7 DEF Apart
  <2> QED
    BY <1>3 DEF PoliciesOnce
<1>9. FlattenSeq(parts) \in Seq(things) /\ IsInjective(FlattenSeq(parts))
  BY <1>5, <1>8, FlattenRange
<1> QED
  BY <1>1, <1>9 DEF things

(* The entries of a build: each has finitely many objects, and no two have *)
(* one in common; and every object stands for a choice.                    *)
Shared(b, c) == b.objects \cap c.objects
WellBuilt(built, B) ==
    /\ built \in Seq(B) /\ IsInjective(built)
    /\ \A b \in B : IsFiniteSet(b.objects)
    /\ \A b, c \in B : b # c => Shared(b, c) = {}
ObjectsOfAll(B) == UNION {b.objects : b \in B}

(* The objects of some entries, one entry after the other.                 *)
ListOf(entries) == FlattenSeq([i \in DOMAIN entries |-> SetToSeq(entries[i].objects)])

LEMMA ListIs ==
    ASSUME NEW B, NEW entries, WellBuilt(entries, B)
    PROVE  /\ ListOf(entries) \in Seq(ObjectsOfAll(B))
           /\ ToSet(ListOf(entries)) \subseteq UNION {b.objects : b \in ToSet(entries)}
           /\ IsInjective(ListOf(entries))
<1> DEFINE O == ObjectsOfAll(B)
           Part(i) == SetToSeq(entries[i].objects)
           parts == [i \in DOMAIN entries |-> Part(i)]
<1>1. /\ Len(entries) \in Nat /\ DOMAIN entries = 1 .. Len(entries)
      /\ \A i \in DOMAIN entries : entries[i] \in B
  BY DEF WellBuilt
<1>2. ASSUME NEW i \in DOMAIN entries
      PROVE  /\ Part(i) \in Seq(O) /\ IsInjective(Part(i))
             /\ ToSet(Part(i)) \subseteq entries[i].objects
  <2>1. IsFiniteSet(entries[i].objects) /\ entries[i].objects \subseteq O
    BY <1>1 DEF WellBuilt, ObjectsOfAll
  <2>2. Part(i) \in Seq(entries[i].objects) /\ IsInjective(Part(i))
    BY <2>1, SetToSeqIs
  <2> HIDE DEF Part, O
  <2>3. Part(i) \in Seq(O)
    BY <2>1, <2>2, SeqMonotonic
  <2>4. \A k \in DOMAIN Part(i) : Part(i)[k] \in entries[i].objects
    BY <2>2
  <2> QED
    BY <2>2, <2>3, <2>4 DEF ToSet
<1>3. DOMAIN parts = DOMAIN entries /\ \A i \in DOMAIN entries : parts[i] = Part(i)
  OBVIOUS
<1> HIDE DEF Part
<1>4. parts \in Seq(Seq(O))
  <2> DEFINE V == Seq(O)
  <2> HIDE DEF V
  <2>1. parts \in [1 .. Len(entries) -> V]
    BY <1>1, <1>2 DEF V
  <2> HIDE DEF parts
  <2>2. parts \in Seq(V)
    BY <1>1, <2>1, SeqDef
  <2> QED
    BY <2>2 DEF V
<1>5. ListOf(entries) = FlattenSeq(parts)
  BY DEF ListOf, Part
<1> HIDE DEF parts, O
<1>6. Apart(parts)
  <2> SUFFICES ASSUME NEW i \in DOMAIN entries, NEW j \in DOMAIN entries, i # j
               PROVE  entries[i].objects \cap entries[j].objects = {}
    BY <1>2, <1>3 DEF Apart
  <2>1. entries[i] # entries[j]
    BY DEF WellBuilt, IsInjective
  <2> QED
    BY <1>1, <2>1 DEF WellBuilt, Shared
<1>7. /\ FlattenSeq(parts) \in Seq(O)
      /\ ToSet(FlattenSeq(parts)) = UNION {ToSet(parts[i]) : i \in DOMAIN parts}
      /\ IsInjective(FlattenSeq(parts)) <=> Apart(parts)
  BY <1>4, FlattenRange
<1>8. UNION {ToSet(parts[i]) : i \in DOMAIN parts}
          \subseteq UNION {b.objects : b \in ToSet(entries)}
  <2>1. \A i \in DOMAIN entries : /\ ToSet(parts[i]) \subseteq entries[i].objects
                                  /\ entries[i] \in ToSet(entries)
    BY <1>2, <1>3 DEF ToSet
  <2> QED
    BY <1>3, <2>1
<1> QED
  BY <1>5, <1>6, <1>7, <1>8 DEF O

(* The documents take the entries section by section, so the objects of    *)
(* all the documents are those of the entries, each once.                  *)
LEMMA DocsAre ==
    ASSUME NEW B, NEW built, WellBuilt(built, B)
    PROVE  LET list == Library!ObjectsIn(Library!DocsOf(built))
           IN  /\ list \in Seq(ObjectsOfAll(B))
               /\ ToSet(list) \subseteq ObjectsOfAll(B)
               /\ IsInjective(list)
<1> DEFINE O == ObjectsOfAll(B)
           Section(i) == built[i].policy.section
           Opens(i) == \A j \in 1 .. i - 1 : Section(j) # Section(i)
           Items(i) == Library!Keep(built, {j \in DOMAIN built : Section(j) = Section(i)})
           DocOf(i) == Library!Doc(Section(i), Items(i))
           Part(i) == IF Opens(i) THEN <<DocOf(i)>> ELSE <<>>
           parts == [i \in DOMAIN built |-> Part(i)]
           D == {DocOf(i) : i \in {j \in DOMAIN built : Opens(j)}}
           list_ == Library!DocsOf(built)
<1>1. list_ = FlattenSeq(parts)
  BY LibraryUse DEF Library!DocsOf
<1>2. /\ Len(built) \in Nat /\ DOMAIN built = 1 .. Len(built)
      /\ built \in Seq(B) /\ IsInjective(built)
  BY DEF WellBuilt
<1>3. ASSUME NEW i \in DOMAIN built
      PROVE  /\ WellBuilt(Items(i), B)
             /\ \A b \in ToSet(Items(i)) : b.policy.section = Section(i)
  <2> DEFINE places == {j \in DOMAIN built : Section(j) = Section(i)}
  <2>1. /\ Items(i) \in Seq(B) /\ IsInjective(Items(i))
        /\ ToSet(Items(i)) = {built[j] : j \in DOMAIN built \cap places}
    <3> HIDE DEF places
    <3> QED
      BY <1>2, KeepIs DEF places
  <2> QED
    BY <2>1 DEF WellBuilt
<1>4. ASSUME NEW i \in DOMAIN built
      PROVE  DocOf(i).section = Section(i) /\ DocOf(i).objects = ListOf(Items(i))
  BY LibraryUse DEF Library!Doc, ListOf
<1> HIDE DEF DocOf, Items
<1>5. /\ list_ \in Seq(D) /\ IsInjective(list_)
      /\ \A d, e \in D : d # e => d.section # e.section
      /\ \A d \in D : \E i \in DOMAIN built : d = DocOf(i)
  <2>1. ASSUME NEW i \in DOMAIN built, NEW j \in DOMAIN built,
               Opens(i), Opens(j), Section(i) = Section(j)
        PROVE  i = j
    <3>1. i \in Nat /\ j \in Nat
      BY <1>2
    <3>2. ~(i < j) /\ ~(j < i)
      <4>1. i < j => i \in 1 .. j - 1
        BY <1>2, <3>1
      <4>2. j < i => j \in 1 .. i - 1
        BY <1>2, <3>1
      <4> HIDE DEF Section
      <4> QED
        BY <2>1, <4>1, <4>2
    <3> QED
      BY <3>1, <3>2
  <2>2. ASSUME NEW i \in DOMAIN built
        PROVE  /\ Opens(i) => Part(i) = <<DocOf(i)>> /\ DocOf(i) \in D
               /\ ~Opens(i) => Part(i) = <<>>
    OBVIOUS
  <2> HIDE DEF Opens, D
  <2>3. \A i \in DOMAIN built : /\ Part(i) \in Seq(D) /\ IsInjective(Part(i))
                                /\ ToSet(Part(i)) = IF Opens(i) THEN {DocOf(i)} ELSE {}
    <3>1. \A d \in D : <<d>> \in Seq(D) /\ ToSet(<<d>>) = {d} /\ IsInjective(<<d>>)
      <4>1. \A d \in D : <<d>> \in Seq(D)
        OBVIOUS
      <4> QED
        BY <4>1, OneIs
    <3>2. <<>> \in Seq(D) /\ ToSet(<<>>) = {} /\ IsInjective(<<>>)
      BY DEF ToSet, IsInjective
    <3> HIDE DEF Part
    <3> QED
      BY <2>2, <3>1, <3>2
  <2>4. parts \in Seq(Seq(D))
    <3> DEFINE V == Seq(D)
    <3> HIDE DEF V, Part
    <3>1. parts \in [1 .. Len(built) -> V]
      BY <1>2, <2>3 DEF V
    <3> HIDE DEF parts
    <3>2. parts \in Seq(V)
      BY <1>2, <3>1, SeqDef
    <3> QED
      BY <3>2 DEF V
  <2>5. DOMAIN parts = DOMAIN built /\ \A i \in DOMAIN built : parts[i] = Part(i)
    OBVIOUS
  <2> HIDE DEF parts, Part
  <2>6. Apart(parts)
    <3> SUFFICES ASSUME NEW i \in DOMAIN built, NEW j \in DOMAIN built, i # j
                 PROVE  ToSet(Part(i)) \cap ToSet(Part(j)) = {}
      BY <2>3, <2>5 DEF Apart
    <3>1. Opens(i) /\ Opens(j) => DocOf(i) # DocOf(j)
      BY <1>4, <2>1
    <3> QED
      BY <2>3, <3>1
  <2>7. FlattenSeq(parts) \in Seq(D) /\ IsInjective(FlattenSeq(parts))
    BY <2>4, <2>6, FlattenRange
  <2>8. \A d \in D : \E i \in DOMAIN built : Opens(i) /\ d = DocOf(i)
    BY DEF D
  <2>9. \A d, e \in D : d # e => d.section # e.section
    BY <1>4, <2>1, <2>8
  <2> HIDE DEF list_
  <2> QED
    BY <1>1, <2>7, <2>8, <2>9
<1> HIDE DEF list_, D, parts, Part
<1> DEFINE Objects(i) == list_[i].objects
           lists == [i \in DOMAIN list_ |-> Objects(i)]
<1>6. /\ Len(list_) \in Nat /\ DOMAIN list_ = 1 .. Len(list_)
      /\ \A i \in DOMAIN list_ : list_[i] \in D
  BY <1>5
<1>7. ASSUME NEW i \in DOMAIN list_
      PROVE  /\ Objects(i) \in Seq(O) /\ IsInjective(Objects(i))
             /\ \A o \in ToSet(Objects(i)) :
                   \E b \in B : o \in b.objects /\ b.policy.section = list_[i].section
  <2>1. PICK k \in DOMAIN built : list_[i] = DocOf(k)
    BY <1>5, <1>6
  <2>2. /\ ListOf(Items(k)) \in Seq(O) /\ IsInjective(ListOf(Items(k)))
        /\ ToSet(ListOf(Items(k))) \subseteq UNION {b.objects : b \in ToSet(Items(k))}
    BY <1>3, ListIs
  <2>3. ToSet(Items(k)) \subseteq B
    BY <1>3 DEF WellBuilt, ToSet
  <2> HIDE DEF O
  <2> QED
    BY <1>3, <1>4, <2>1, <2>2, <2>3
<1>8. DOMAIN lists = DOMAIN list_ /\ \A i \in DOMAIN list_ : lists[i] = Objects(i)
  OBVIOUS
<1>9. lists \in Seq(Seq(O))
  <2> DEFINE V == Seq(O)
  <2> HIDE DEF V, Objects
  <2>1. lists \in [1 .. Len(list_) -> V]
    BY <1>6, <1>7 DEF V
  <2> HIDE DEF lists
  <2>2. lists \in Seq(V)
    BY <1>6, <2>1, SeqDef
  <2> QED
    BY <2>2 DEF V
<1>10. Library!ObjectsIn(list_) = FlattenSeq(lists)
  BY LibraryUse DEF Library!ObjectsIn
<1> HIDE DEF lists
<1>11. Apart(lists)
  <2> SUFFICES ASSUME NEW i \in DOMAIN list_, NEW j \in DOMAIN list_, i # j,
                      NEW o \in ToSet(Objects(i)), o \in ToSet(Objects(j))
               PROVE  FALSE
    BY <1>7, <1>8 DEF Apart
  <2>1. list_[i].section # list_[j].section
    BY <1>5, <1>6 DEF IsInjective
  <2>2. PICK b \in B : o \in b.objects /\ b.policy.section = list_[i].section
    BY <1>7
  <2>3. PICK c \in B : o \in c.objects /\ c.policy.section = list_[j].section
    BY <1>7
  <2>4. b # c
    BY <2>1, <2>2, <2>3
  <2> QED
    BY <2>2, <2>3, <2>4 DEF WellBuilt, Shared
<1>12. FlattenSeq(lists) \in Seq(O) /\ IsInjective(FlattenSeq(lists))
  BY <1>9, <1>11, FlattenRange
<1> DEFINE all == FlattenSeq(lists)
<1> HIDE DEF all
<1>13. ToSet(all) \subseteq O
  BY <1>12 DEF ToSet, all
<1> QED
  BY <1>10, <1>12, <1>13 DEF all, O, list_

-----------------------------------------------------------------------------
(* A mode leaves a spec alone that has nothing for it to replace.          *)
LEMMA ModeSpares ==
    ASSUME NEW spec, Library!IsSpec(spec), NEW mode,
           \A a \in Library!Actions(spec) : Library!Retarget(a, mode) = a
    PROVE  Library!applyMode(spec, mode) = spec
<1>1. ASSUME NEW selector \in Library!Selectors(spec), NEW list, list \in DOMAIN selector,
             list \in Library!ActionLists, Library!IsMap(selector[list])
      PROVE  [i \in DOMAIN selector[list] |-> Library!Retarget(selector[list][i], mode)]
                 = selector[list]
  <2>1. \A i \in DOMAIN selector[list] : selector[list][i] \in Library!Actions(spec)
    BY <1>1, ToSetIs DEF Library!Actions
  <2>2. \A i \in DOMAIN selector[list] :
            Library!Retarget(selector[list][i], mode) = selector[list][i]
    BY <2>1
  <2>3. selector[list] = [i \in DOMAIN selector[list] |-> selector[list][i]]
    BY <1>1 DEF Library!IsMap
  <2> QED
    BY <2>2, <2>3
<1>2. ASSUME NEW selector \in Library!Selectors(spec), Library!IsMap(selector),
             \A list \in DOMAIN selector \cap Library!ActionLists :
                 Library!IsMap(selector[list])
      PROVE  Library!RetargetSelector(selector, mode) = selector
  <2> DEFINE Becomes(list) == IF list \in Library!ActionLists
                              THEN [i \in DOMAIN selector[list] |->
                                      Library!Retarget(selector[list][i], mode)]
                              ELSE selector[list]
  <2>1. \A list \in DOMAIN selector : Becomes(list) = selector[list]
    BY <1>1, <1>2
  <2>2. Library!RetargetSelector(selector, mode) = [list \in DOMAIN selector |-> Becomes(list)]
    BY DEF Library!RetargetSelector
  <2>3. selector = [list \in DOMAIN selector |-> selector[list]]
    BY <1>2 DEF Library!IsMap
  <2> HIDE DEF Becomes
  <2> QED
    BY <2>1, <2>2, <2>3
<1>3. ASSUME NEW group \in DOMAIN spec \cap Library!HOOK_GROUPS
      PROVE  [h \in DOMAIN spec[group] |->
                 [s \in DOMAIN spec[group][h] |->
                     Library!RetargetSelector(spec[group][h][s], mode)]] = spec[group]
  <2>1. ASSUME NEW h \in DOMAIN spec[group]
        PROVE  [s \in DOMAIN spec[group][h] |->
                   Library!RetargetSelector(spec[group][h][s], mode)] = spec[group][h]
    <3>1. ASSUME NEW s \in DOMAIN spec[group][h]
          PROVE  Library!RetargetSelector(spec[group][h][s], mode) = spec[group][h][s]
      <4>1. spec[group][h][s] \in Library!Selectors(spec)
        BY SelectorsAre
      <4>2. /\ Library!IsMap(spec[group][h][s])
            /\ \A list \in DOMAIN spec[group][h][s] \cap Library!ActionLists :
                   Library!IsMap(spec[group][h][s][list])
        BY DEF Library!IsSpec
      <4> QED
        BY <1>2, <4>1, <4>2
    <3>2. spec[group][h] = [s \in DOMAIN spec[group][h] |-> spec[group][h][s]]
      BY DEF Library!IsSpec, Library!IsMap
    <3> QED
      BY <3>1, <3>2
  <2>2. spec[group] = [h \in DOMAIN spec[group] |-> spec[group][h]]
    BY DEF Library!IsSpec, Library!IsMap
  <2> QED
    BY <2>1, <2>2
<1> DEFINE Becomes(group) ==
              IF group \in Library!HOOK_GROUPS
              THEN [h \in DOMAIN spec[group] |->
                      [s \in DOMAIN spec[group][h] |->
                          Library!RetargetSelector(spec[group][h][s], mode)]]
              ELSE spec[group]
<1>4. \A group \in DOMAIN spec : Becomes(group) = spec[group]
  BY <1>3
<1>5. Library!applyMode(spec, mode) = [group \in DOMAIN spec |-> Becomes(group)]
  BY DEF Library!applyMode
<1>6. spec = [group \in DOMAIN spec |-> spec[group]]
  BY DEF Library!IsSpec, Library!IsMap
<1> HIDE DEF Becomes
<1> QED
  BY <1>4, <1>5, <1>6

(* What is applied are objects of what was selected, each of one choice,   *)
(* and no two of them go by one name.                                      *)
DraftOK ==
    /\ draft \in Library!LibraryDraft
    /\ IsSelection(draft.selection)
    /\ IsFiniteSet(draft.scopeNamespaces)

Chosen == Library!selectedPolicies(draft)
MadeAt(i) == Makes(Chosen[i], Library!ObjectName(Chosen, i), draft.scopeNamespaces)
Makeable == UNION {MadeAt(i) : i \in DOMAIN Chosen}

LEMMA ApplyableIs ==
    ASSUME Library!LibraryAssumption, DraftOK
    PROVE  /\ Chosen \in Seq(Choice)
           /\ Library!Applyable \in Seq(Makeable)
           /\ ToSet(Library!Applyable) \subseteq Makeable
           /\ Library!ObjectsAreDistinct
<1> DEFINE B == Entries(Chosen, draft.scopeNamespaces)
           built == Library!BuildOf(Chosen, draft.scopeNamespaces)
<1>1. Chosen \in Seq(Choice) /\ PoliciesOnce(Chosen)
  BY SelectedAre DEF DraftOK, Chosen
<1>2. IsFiniteSet(draft.scopeNamespaces)
  BY DEF DraftOK
<1>3. \A i \in DOMAIN Chosen : Chosen[i] \in Choice
  BY <1>1
<1>4. ASSUME NEW i \in DOMAIN Chosen
      PROVE  /\ IsFiniteSet(MadeAt(i))
             /\ \A o \in MadeAt(i) :
                   /\ o.name = Library!ObjectName(Chosen, i)
             /\ \A o, p \in MadeAt(i) : Name(o) = Name(p) => o = p
  BY <1>2, <1>3, ObjectsAre DEF MadeAt
<1>5. ASSUME NEW i \in DOMAIN Chosen, NEW j \in DOMAIN Chosen,
             NEW o \in MadeAt(i), NEW p \in MadeAt(j), Name(o) = Name(p)
      PROVE  i = j /\ o = p
  <2>1. o.name = p.name
    BY <1>5 DEF Name
  <2>2. Library!ObjectName(Chosen, i) = Library!ObjectName(Chosen, j)
    BY <1>4, <2>1
  <2>3. i = j
    BY <1>1, <2>2, NamesDiffer
  <2> QED
    BY <1>4, <1>5, <2>3
<1>6. \A b \in B : \E i \in DOMAIN Chosen :
          /\ b = Library!Built(Chosen[i], Library!ObjectName(Chosen, i), draft.scopeNamespaces)
          /\ b.objects = MadeAt(i)
  BY DEF Entries, Library!Built, MadeAt, Makes
<1>7. WellBuilt(built, B)
  <2>1. built \in Seq(B) /\ IsInjective(built)
    BY <1>1, BuildIs
  <2>2. ASSUME NEW b \in B, NEW c \in B, b # c PROVE Shared(b, c) = {}
    BY <1>5, <1>6, <2>2 DEF Shared
  <2>3. \A b \in B : IsFiniteSet(b.objects)
    BY <1>4, <1>6
  <2> HIDE DEF B, built
  <2> QED
    BY <2>1, <2>2, <2>3 DEF WellBuilt
<1>8. Library!Applyable = Library!ObjectsIn(Library!DocsOf(built))
  BY DEF Library!Applyable, Library!docs, Library!generateDocs, Library!buildPolicies, Chosen
<1>9. ObjectsOfAll(B) \subseteq Makeable
  BY <1>6 DEF ObjectsOfAll, Makeable
<1> HIDE DEF B, built
<1>10. /\ Library!Applyable \in Seq(ObjectsOfAll(B))
       /\ IsInjective(Library!Applyable)
  BY <1>7, <1>8, DocsAre
<1>11. Library!Applyable \in Seq(Makeable)
  BY <1>9, <1>10, SeqMonotonic
<1>12. ToSet(Library!Applyable) \subseteq Makeable
  BY <1>11 DEF ToSet
<1>13. ASSUME NEW o \in Makeable, NEW p \in Makeable, Name(o) = Name(p) PROVE o = p
  BY <1>5, <1>13 DEF Makeable
<1>14. Library!ObjectsAreDistinct
  <2> DEFINE list == Library!Applyable
  <2>1. Library!ObjectsAreDistinct
            <=> IsInjective([i \in DOMAIN list |-> Name(list[i])])
    BY LibraryUse DEF Library!ObjectsAreDistinct, Library!Distinct, Name
  <2>2. \A i \in DOMAIN list : list[i] \in Makeable
    BY <1>11
  <2> HIDE DEF list
  <2> QED
    BY <1>10, <1>13, <2>1, <2>2 DEF IsInjective, list
<1> QED
  BY <1>1, <1>11, <1>12, <1>14

(* Each of them is its policy in the mode that was chosen for it.          *)
LEMMA ModesHold ==
    ASSUME Library!LibraryAssumption, DraftOK
    PROVE  Library!ModeHolds
<1> SUFFICES ASSUME NEW o \in ToSet(Library!Applyable)
             PROVE  LET shipped == ShippedById[o.id].spec
                    IN  /\ o.mode = "alert" =>
                              Library!Actions(o.spec) \cap Library!ENFORCE_ACTIONS = {}
                        /\ o.mode = "block" => "Post" \notin Library!Actions(o.spec)
                        /\ Library!Enforceable(o.spec) = Library!Enforceable(shipped)
                        /\ Library!Actions(shipped)
                               \cap (Library!ENFORCE_ACTIONS \cup {"Post"}) = {}
                               => o.spec = shipped
  BY LibraryUse DEF Library!ModeHolds
<1>1. PICK i \in DOMAIN Chosen : o \in MadeAt(i)
  BY ApplyableIs DEF Makeable
<1>2. Chosen[i] \in Choice
  BY ApplyableIs
<1> DEFINE policy == Chosen[i].policy
           mode == Chosen[i].mode
<1>3. policy \in ToSet(Shipped)
  BY <1>2 DEF Choice
<1>4. o.id = policy.id /\ o.mode = mode /\ o.spec = Library!applyMode(policy.spec, mode)
  BY <1>1, <1>2, ObjectsAre DEF MadeAt, DraftOK
<1>5. ShippedById[policy.id] = policy /\ Library!IsSpec(policy.spec)
  BY <1>3, LibraryUse DEF Library!LibraryAssumption
<1>6. Library!Actions(policy.spec) \cap (Library!ENFORCE_ACTIONS \cup {"Post"}) = {}
          => \A a \in Library!Actions(policy.spec) : Library!Retarget(a, mode) = a
  BY DEF Library!Retarget
<1>7. Library!Actions(policy.spec) \cap (Library!ENFORCE_ACTIONS \cup {"Post"}) = {}
          => Library!applyMode(policy.spec, mode) = policy.spec
  BY <1>5, <1>6, ModeSpares
<1>8. Library!Enforceable(o.spec) = Library!Enforceable(policy.spec)
  <2>1. Library!Enforceable(o.spec) <=> Library!Enforceable(policy.spec)
    BY <1>4, ModeIsWhatWasAsked
  <2>2. /\ Library!Enforceable(o.spec) \in BOOLEAN
        /\ Library!Enforceable(policy.spec) \in BOOLEAN
    BY DEF Library!Enforceable
  <2> QED
    BY <2>1, <2>2
<1> QED
  BY <1>4, <1>5, <1>7, <1>8, ModeIsWhatWasAsked

-----------------------------------------------------------------------------
(* The ids of a selection, spelt out.                                      *)
LEMMA OnceIs ==
    \A s : Library!IdsOnce(s) <=> \A i, j \in DOMAIN s : s[i].id = s[j].id => i = j
  BY LibraryUse DEF Library!IdsOnce, IsInjective

(* The wizard.  Every change to the draft leaves it a selection.           *)
LEMMA SetKeysIs ==
    ASSUME NEW old, IsSelection(old), NEW changes, IsSelection(changes)
    PROVE  IsSelection(Library!SetKeys(old, changes))
<1> DEFINE Old(id) == {i \in DOMAIN old : old[i].id = id}
           places == {i \in DOMAIN changes : Old(changes[i].id) = {}}
           new == Library!Keep(changes, places)
           Set(entry) == {c \in Library!ToSet(changes) : c.id = entry.id}
           To(entry) == IF Set(entry) = {} THEN entry ELSE CHOOSE c \in Set(entry) : TRUE
           kept == [i \in DOMAIN old |-> To(old[i])]
           all == kept \o new
<1>1. Library!SetKeys(old, changes) = all
  BY DEF Library!SetKeys
<1>2. /\ old \in Seq(Library!Entry) /\ changes \in Seq(Library!Entry)
      /\ Len(old) \in Nat /\ DOMAIN old = 1 .. Len(old)
      /\ \A i, j \in DOMAIN old : old[i].id = old[j].id => i = j
      /\ \A i, j \in DOMAIN changes : changes[i].id = changes[j].id => i = j
  <2>1. old \in Seq(Library!Entry) /\ changes \in Seq(Library!Entry)
    BY DEF IsSelection
  <2> QED
    BY <2>1, OnceIs DEF IsSelection
<1>3. \A i \in DOMAIN old : old[i] \in Library!Entry
  BY <1>2
<1>4. Library!ToSet(changes) \subseteq Library!Entry
  BY <1>2, ToSetIs
<1>5. \A i \in DOMAIN old : To(old[i]) \in Library!Entry /\ To(old[i]).id = old[i].id
  BY <1>3, <1>4
<1> HIDE DEF To
<1>6. /\ kept \in Seq(Library!Entry) /\ DOMAIN kept = DOMAIN old
      /\ \A i \in DOMAIN old : kept[i].id = old[i].id
  <2>1. kept \in [1 .. Len(old) -> Library!Entry]
    BY <1>2, <1>5
  <2>2. kept \in Seq(Library!Entry)
    BY <1>2, <2>1, SeqDef
  <2> QED
    BY <1>5, <2>2
<1>7. IsInjective(changes)
  BY <1>2 DEF IsInjective
<1>8. /\ new \in Seq(Library!Entry) /\ IsInjective(new)
      /\ ToSet(new) = {changes[i] : i \in DOMAIN changes \cap places}
  <2> HIDE DEF places
  <2> QED
    BY <1>2, <1>7, KeepIs DEF places
<1>9. /\ \A i, j \in DOMAIN new : new[i].id = new[j].id => i = j
      /\ \A i \in DOMAIN new, j \in DOMAIN old : new[i].id # old[j].id
  <2>1. ASSUME NEW i \in DOMAIN new
        PROVE  \E k \in DOMAIN changes : new[i] = changes[k] /\ Old(changes[k].id) = {}
    <3>1. new[i] \in ToSet(new)
      BY DEF ToSet
    <3> HIDE DEF new
    <3> QED
      BY <1>8, <3>1
  <2> HIDE DEF new
  <2>2. ASSUME NEW i \in DOMAIN new, NEW j \in DOMAIN new, new[i].id = new[j].id PROVE i = j
    <3>1. new[i] = new[j]
      BY <1>2, <2>1, <2>2
    <3> QED
      BY <1>8, <3>1 DEF IsInjective
  <2> QED
    BY <2>1, <2>2
<1> HIDE DEF kept, new
<1>10. /\ all \in Seq(Library!Entry)
       /\ Len(kept) \in Nat /\ Len(new) \in Nat
       /\ DOMAIN kept = 1 .. Len(kept) /\ DOMAIN new = 1 .. Len(new)
       /\ DOMAIN all = 1 .. Len(kept) + Len(new)
       /\ \A i \in DOMAIN all : all[i] = IF i <= Len(kept) THEN kept[i] ELSE new[i - Len(kept)]
  <2>1. kept \in Seq(Library!Entry) /\ new \in Seq(Library!Entry)
    BY <1>6, <1>8
  <2> QED
    BY <2>1, ConcatProperties
<1>11. ASSUME NEW i \in DOMAIN all, NEW j \in DOMAIN all, all[i].id = all[j].id
       PROVE  i = j
  <2> HIDE DEF all
  <2>1. /\ i <= Len(kept) => i \in DOMAIN kept /\ all[i] = kept[i]
        /\ i > Len(kept) => i - Len(kept) \in DOMAIN new /\ all[i] = new[i - Len(kept)]
        /\ j <= Len(kept) => j \in DOMAIN kept /\ all[j] = kept[j]
        /\ j > Len(kept) => j - Len(kept) \in DOMAIN new /\ all[j] = new[j - Len(kept)]
    BY <1>10
  <2>2. i \in Nat /\ j \in Nat
    BY <1>10
  <2>3. CASE i <= Len(kept) /\ j <= Len(kept)
    BY <1>2, <1>6, <1>11, <2>1, <2>3
  <2>4. CASE i > Len(kept) /\ j > Len(kept)
    <3>1. i - Len(kept) = j - Len(kept)
      BY <1>9, <1>11, <2>1, <2>4
    <3> QED
      BY <1>10, <2>2, <3>1
  <2>5. CASE (i <= Len(kept)) # (j <= Len(kept))
    <3>1. i <= Len(kept) /\ j > Len(kept) => FALSE
      BY <1>6, <1>9, <1>11, <2>1
    <3>2. j <= Len(kept) /\ i > Len(kept) => FALSE
      BY <1>6, <1>9, <1>11, <2>1
    <3> QED
      BY <1>10, <2>2, <2>5, <3>1, <3>2
  <2> QED
    BY <1>10, <2>2, <2>3, <2>4, <2>5
<1>12. Library!IdsOnce(all)
  <2> HIDE DEF all
  <2> QED
    BY <1>11, OnceIs
<1> QED
  BY <1>1, <1>10, <1>12 DEF IsSelection

LEMMA DeleteKeysIs ==
    ASSUME NEW old, IsSelection(old), NEW keys
    PROVE  IsSelection(Library!DeleteKeys(old, keys))
<1> DEFINE places == {i \in DOMAIN old : old[i].id \notin keys}
           new == Library!Keep(old, places)
<1>1. Library!DeleteKeys(old, keys) = new
  BY DEF Library!DeleteKeys
<1>2. /\ old \in Seq(Library!Entry)
      /\ \A i, j \in DOMAIN old : old[i].id = old[j].id => i = j
  BY OnceIs DEF IsSelection
<1>3. IsInjective(old)
  BY <1>2 DEF IsInjective
<1>4. /\ new \in Seq(Library!Entry) /\ IsInjective(new)
      /\ ToSet(new) = {old[i] : i \in DOMAIN old \cap places}
  <2> HIDE DEF places
  <2> QED
    BY <1>2, <1>3, KeepIs
<1> HIDE DEF new
<1>5. \A i \in DOMAIN new : \E k \in DOMAIN old : new[i] = old[k]
  BY <1>4 DEF ToSet
<1>6. \A i, j \in DOMAIN new : new[i].id = new[j].id => i = j
  BY <1>2, <1>4, <1>5 DEF IsInjective
<1>7. Library!IdsOnce(new)
  BY <1>6, OnceIs
<1> QED
  BY <1>1, <1>4, <1>7 DEF IsSelection

(* One policy in a mode, and a section in a mode.                          *)
LEMMA OneKeyIs ==
    ASSUME NEW id \in DOMAIN ShippedById, NEW mode \in Library!PolicyMode
    PROVE  IsSelection(<<[id |-> id, mode |-> mode]>>)
<1> DEFINE one == [id |-> id, mode |-> mode]
<1>1. one \in Library!Entry
  BY DEF Library!Entry
<1> HIDE DEF one
<1>2. <<one>> \in Seq(Library!Entry)
  BY <1>1
<1>3. Library!IdsOnce(<<one>>)
  <2>1. DOMAIN <<one>> = {1}
    OBVIOUS
  <2> QED
    BY <2>1, OnceIs
<1> QED
  BY <1>2, <1>3 DEF IsSelection, one

LEMMA SectionIs ==
    ASSUME Library!LibraryAssumption, NEW places, NEW mode \in Library!PolicyMode
    PROVE  LET list == Library!IdsOf(Library!Keep(Shipped, places))
           IN  IsSelection(Library!asSelection(list, mode))
<1> DEFINE kept == Library!Keep(Shipped, places)
           list == Library!IdsOf(kept)
           Made(i) == [id |-> kept[i].id, mode |-> mode]
           selection == Library!asSelection(list, mode)
<1>1. /\ Shipped \in Seq(ToSet(Shipped))
      /\ \A i, j \in DOMAIN Shipped : Shipped[i].id = Shipped[j].id => i = j
      /\ DOMAIN ShippedById = {policy.id : policy \in ToSet(Shipped)}
  BY LibraryUse DEF Library!LibraryAssumption, IsInjective
<1>2. IsInjective(Shipped)
  BY <1>1 DEF IsInjective
<1>3. /\ kept \in Seq(ToSet(Shipped)) /\ IsInjective(kept)
      /\ ToSet(kept) = {Shipped[i] : i \in DOMAIN Shipped \cap places}
  BY <1>1, <1>2, KeepIs
<1>4. selection = [i \in DOMAIN kept |-> Made(i)]
  BY DEF Library!asSelection, Library!IdsOf
<1> HIDE DEF kept, selection
<1>5. Len(kept) \in Nat /\ DOMAIN kept = 1 .. Len(kept)
      /\ \A i \in DOMAIN kept : kept[i] \in ToSet(Shipped)
  BY <1>3
<1>6. \A i \in DOMAIN kept : Made(i) \in Library!Entry /\ Made(i).id = kept[i].id
  BY <1>1, <1>5 DEF Library!Entry
<1>7. \A i \in DOMAIN kept : \E k \in DOMAIN Shipped : kept[i] = Shipped[k]
  BY <1>3 DEF ToSet
<1>8. \A i, j \in DOMAIN kept : kept[i].id = kept[j].id => i = j
  BY <1>1, <1>3, <1>7 DEF IsInjective
<1> HIDE DEF Made
<1>9. selection \in Seq(Library!Entry)
  <2>1. selection \in [1 .. Len(kept) -> Library!Entry]
    BY <1>4, <1>5, <1>6
  <2> QED
    BY <1>5, <2>1, SeqDef
<1>10. Library!IdsOnce(selection)
  <2>1. \A i, j \in DOMAIN selection : selection[i].id = selection[j].id => i = j
    BY <1>4, <1>6, <1>8
  <2> QED
    BY <2>1, OnceIs
<1> QED
  BY <1>9, <1>10 DEF IsSelection, selection, kept

-----------------------------------------------------------------------------
(* The wizard's invariant.  What is left of an apply is the end of what    *)
(* was confirmed, the answers so far are to its beginning, and a report is *)
(* all of them.                                                            *)
NoObjects == <<>>
Answer == [name : {o.name : o \in ToSet(confirmed)}, ok : BOOLEAN]
ReportInv ==
    /\ confirmed \in Seq(ToSet(confirmed))
    /\ todo \in Seq(ToSet(confirmed))
    /\ answers \in Seq(Answer)
    /\ Len(todo) + Len(answers) = Len(confirmed)
    /\ \A i \in DOMAIN todo : todo[i] = confirmed[Len(answers) + i]
    /\ \A i \in DOMAIN answers :
           /\ answers[i].name = confirmed[i].name
           /\ answers[i].ok => confirmed[i] \in landed
    /\ landed \subseteq ToSet(confirmed)
    /\ outcomes # NoObjects => outcomes = answers /\ todo = NoObjects
LibraryInv ==
    /\ step \in 0 .. 3
    /\ clicks \in 0 .. MaxClicks
    /\ DraftOK
    /\ ReportInv
    /\ Library!SomethingToConfirm

LEMMA WizardUse ==
    ASSUME Library!WizardAssumption
    PROVE  /\ Library!LibraryAssumption
           /\ Ids \subseteq DOMAIN ShippedById
           /\ \A bundle \in Bundles : IsSelection(Library!BUNDLES[bundle])
           /\ Scopes \subseteq STRING
           /\ MaxClicks \in Nat
  BY DEF Library!WizardAssumption, IsSelection

LEMMA NothingIs == ToSet(NoObjects) = {} /\ \A S : NoObjects \in Seq(S)
  BY DEF ToSet, NoObjects

LEMMA LibraryStarts ==
    ASSUME Library!WizardAssumption, Library!Init
    PROVE  LibraryInv
<1>1. /\ step = 0 /\ clicks = 0 /\ landed = {}
      /\ draft = [selection |-> NoObjects, scopeNamespaces |-> {}]
      /\ todo = NoObjects /\ answers = NoObjects /\ outcomes = NoObjects
      /\ confirmed = NoObjects
  BY DEF Library!Init, Library!NoReport, NoObjects
<1>2. DOMAIN NoObjects = {} /\ Len(NoObjects) = 0
  BY DEF NoObjects
<1>3. DraftOK
  <2>1. Library!IdsOnce(NoObjects)
    BY <1>2, OnceIs
  <2>2. IsFiniteSet({})
    BY FS_EmptySet
  <2>3. NoObjects \in Seq(Library!Entry)
    BY NothingIs
  <2> QED
    BY <1>1, <2>1, <2>2, <2>3 DEF DraftOK, IsSelection, Library!LibraryDraft
<1>4. ReportInv
  BY <1>1, <1>2, NothingIs DEF ReportInv
<1>5. Library!SomethingToConfirm
  BY <1>1 DEF Library!SomethingToConfirm
<1> QED
  BY <1>1, <1>3, <1>4, <1>5, WizardUse DEF LibraryInv

(* Somebody changes the draft, on the first two pages.                     *)
LEMMA EditKeeps ==
    ASSUME LibraryInv, MaxClicks \in Nat, step \in 0 .. 1, clicks < MaxClicks,
           clicks' = clicks + 1, DraftOK',
           UNCHANGED <<step, todo, answers, outcomes, confirmed, landed>>
    PROVE  LibraryInv'
<1>1. ReportInv'
  BY DEF LibraryInv, ReportInv, Answer
<1>2. Library!SomethingToConfirm'
  BY DEF Library!SomethingToConfirm
<1> QED
  BY <1>1, <1>2 DEF LibraryInv

LEMMA SelectKeeps ==
    ASSUME LibraryInv, MaxClicks \in Nat, NEW selection, IsSelection(selection),
           step = 1, clicks < MaxClicks, clicks' = clicks + 1,
           draft' = [draft EXCEPT !.selection = selection],
           UNCHANGED <<step, todo, answers, outcomes, confirmed, landed>>
    PROVE  LibraryInv'
<1>1. DraftOK'
  BY DEF LibraryInv, DraftOK, Library!LibraryDraft, IsSelection
<1> QED
  BY <1>1, EditKeeps

LEMMA ScopeKeeps ==
    ASSUME Library!WizardAssumption, LibraryInv, NEW namespace \in Scopes,
           Library!toggleNs(namespace)
    PROVE  LibraryInv'
<1> DEFINE old == draft.scopeNamespaces
           scopes == IF namespace \in old THEN old \ {namespace} ELSE old \cup {namespace}
<1>1. draft' = [draft EXCEPT !.scopeNamespaces = scopes]
  BY DEF Library!toggleNs, Library!Edit
<1>2. IsFiniteSet(old) /\ old \subseteq STRING
  BY DEF LibraryInv, DraftOK, Library!LibraryDraft
<1>3. IsFiniteSet(scopes)
  BY <1>2, FS_AddElement, FS_RemoveElement
<1>4. scopes \subseteq STRING
  BY <1>2, WizardUse
<1> HIDE DEF scopes
<1>5. DraftOK'
  BY <1>1, <1>3, <1>4 DEF LibraryInv, DraftOK, Library!LibraryDraft, IsSelection
<1> QED
  BY <1>5, EditKeeps, WizardUse DEF Library!toggleNs, Library!Edit

(* A policy, a bundle or a section is selected, or taken out again.        *)
LEMMA PolicyKeeps ==
    ASSUME Library!WizardAssumption, LibraryInv, NEW id \in Ids, Library!toggle(id)
    PROVE  LibraryInv'
<1>1. IsSelection(draft.selection) /\ id \in DOMAIN ShippedById
  BY WizardUse DEF LibraryInv, DraftOK
<1>2. PICK mode \in Library!PolicyMode : 
          mode = IF ShippedById[id].enforcing THEN "block" ELSE "alert"
  BY DEF Library!PolicyMode
<1> DEFINE one == <<[id |-> id, mode |-> mode]>>
<1>3. IsSelection(one)
  BY <1>1, OneKeyIs
<1> HIDE DEF one
<1>4. PICK old : old = draft.selection
  OBVIOUS
<1>5. /\ IsSelection(Library!DeleteKeys(old, {id}))
      /\ IsSelection(Library!SetKeys(old, one))
  BY <1>1, <1>3, <1>4, DeleteKeysIs, SetKeysIs
<1>6. PICK selection : selection = IF Library!Selected(id) THEN Library!DeleteKeys(old, {id})
                                   ELSE Library!SetKeys(old, one)
  OBVIOUS
<1>7. IsSelection(selection)
  BY <1>5, <1>6
<1>8. /\ step = 1 /\ clicks < MaxClicks /\ clicks' = clicks + 1
      /\ draft' = [draft EXCEPT !.selection = selection]
      /\ UNCHANGED <<step, todo, answers, outcomes, confirmed, landed>>
  BY <1>2, <1>4, <1>6 DEF Library!toggle, Library!Select, Library!Edit, one
<1> QED
  BY <1>7, <1>8, SelectKeeps, WizardUse

LEMMA ModeKeeps ==
    ASSUME Library!WizardAssumption, LibraryInv, NEW id \in Ids,
           NEW mode \in Library!PolicyMode, Library!setMode(id, mode)
    PROVE  LibraryInv'
<1> DEFINE one == <<[id |-> id, mode |-> mode]>>
<1>1. IsSelection(draft.selection) /\ IsSelection(one)
  BY WizardUse, OneKeyIs DEF LibraryInv, DraftOK
<1> HIDE DEF one
<1>2. PICK old : old = draft.selection
  OBVIOUS
<1>3. PICK selection : selection = Library!SetKeys(old, one)
  OBVIOUS
<1>4. IsSelection(selection)
  BY <1>1, <1>2, <1>3, SetKeysIs
<1>5. /\ step = 1 /\ clicks < MaxClicks /\ clicks' = clicks + 1
      /\ draft' = [draft EXCEPT !.selection = selection]
      /\ UNCHANGED <<step, todo, answers, outcomes, confirmed, landed>>
  BY <1>2, <1>3 DEF Library!setMode, Library!Select, Library!Edit, one
<1> QED
  BY <1>4, <1>5, SelectKeeps, WizardUse

LEMMA SectionKeeps ==
    ASSUME Library!WizardAssumption, LibraryInv, NEW section,
           NEW mode \in Library!PolicyMode \cup {"clear"}, Library!setSection(section, mode)
    PROVE  LibraryInv'
<1> DEFINE list == Library!IdsOf(Library!Keep(Shipped,
                       {i \in DOMAIN Shipped : Shipped[i].section = section}))
<1>1. mode # "clear" => IsSelection(Library!asSelection(list, mode))
  BY SectionIs, WizardUse
<1>2. /\ step = 1 /\ clicks < MaxClicks /\ clicks' = clicks + 1
      /\ draft' = [draft EXCEPT !.selection =
                      IF mode = "clear" THEN Library!DeleteKeys(draft.selection, Library!ToSet(list))
                      ELSE Library!SetKeys(draft.selection, Library!asSelection(list, mode))]
      /\ UNCHANGED <<step, todo, answers, outcomes, confirmed, landed>>
  BY DEF Library!setSection, Library!ids, Library!Select, Library!Edit
<1> HIDE DEF list
<1>3. PICK old : old = draft.selection
  OBVIOUS
<1>4. IsSelection(old)
  BY <1>3 DEF LibraryInv, DraftOK
<1>5. PICK changes : changes = Library!asSelection(list, mode)
  OBVIOUS
<1>6. PICK selection : selection = IF mode = "clear"
                                   THEN Library!DeleteKeys(old, Library!ToSet(list))
                                   ELSE Library!SetKeys(old, changes)
  OBVIOUS
<1>7. IsSelection(selection)
  BY <1>1, <1>4, <1>5, <1>6, SetKeysIs, DeleteKeysIs
<1> QED
  BY <1>2, <1>3, <1>5, <1>6, <1>7, SelectKeeps, WizardUse

LEMMA BundleKeeps ==
    ASSUME Library!WizardAssumption, LibraryInv, NEW bundle \in Bundles,
           Library!ChooseBundle(bundle)
    PROVE  LibraryInv'
<1>1. IsSelection(Library!BUNDLES[bundle])
  BY WizardUse
<1>2. PICK selection : selection = Library!BUNDLES[bundle]
  OBVIOUS
<1>3. /\ step = 1 /\ clicks < MaxClicks /\ clicks' = clicks + 1
      /\ draft' = [draft EXCEPT !.selection = selection]
      /\ UNCHANGED <<step, todo, answers, outcomes, confirmed, landed>>
  BY <1>2 DEF Library!ChooseBundle, Library!Select, Library!Edit
<1> QED
  BY <1>1, <1>2, <1>3, SelectKeeps, WizardUse

(* The pages one after another: only a draft with something in it gets to  *)
(* the last two.                                                           *)
LEMMA PageKeeps ==
    ASSUME LibraryInv, Library!Continue \/ Library!Back \/ \E s \in 0 .. 2 : Library!Jump(s)
    PROVE  LibraryInv'
<1>1. /\ UNCHANGED <<draft, clicks, todo, answers, outcomes, confirmed, landed>>
      /\ step' \in 0 .. 3
      /\ step' > 1 => step > 1 \/ Library!summary.total > 0
  BY DEF LibraryInv, Library!Continue, Library!Back, Library!Jump, Library!GoTo,
         Library!canAdvance
<1>2. ReportInv' /\ DraftOK'
  BY <1>1 DEF LibraryInv, ReportInv, Answer, DraftOK
<1>3. Library!SomethingToConfirm'
  <2>1. Library!summary' = Library!summary
    BY <1>1 DEF Library!summary
  <2> QED
    BY <1>1, <2>1 DEF LibraryInv, Library!SomethingToConfirm
<1> QED
  BY <1>1, <1>2, <1>3 DEF LibraryInv

(* An apply takes what the page lists.                                     *)
LEMMA ApplyKeeps ==
    ASSUME Library!WizardAssumption, LibraryInv, Library!apply
    PROVE  LibraryInv'
<1>1. PICK list : list = Library!Applyable
  OBVIOUS
<1>2. list \in Seq(Makeable)
  BY <1>1, ApplyableIs, WizardUse DEF LibraryInv
<1>3. list \in Seq(ToSet(list)) /\ Len(list) \in Nat
  <2>1. Len(list) \in Nat /\ list \in [1 .. Len(list) -> ToSet(list)]
    BY <1>2 DEF ToSet
  <2> QED
    BY <2>1, SeqDef
<1>4. /\ todo' = list /\ confirmed' = list
      /\ answers' = NoObjects /\ outcomes' = NoObjects /\ landed' = {}
      /\ UNCHANGED <<step, draft, clicks>>
  BY <1>1 DEF Library!apply, Library!NoReport, NoObjects
<1>5. DOMAIN NoObjects = {} /\ Len(NoObjects) = 0
  BY DEF NoObjects
<1>6. ReportInv'
  BY <1>3, <1>4, <1>5, NothingIs DEF ReportInv
<1>7. DraftOK' /\ Library!SomethingToConfirm'
  <2>1. Library!summary' = Library!summary
    BY <1>4 DEF Library!summary
  <2> QED
    BY <1>4, <2>1 DEF LibraryInv, DraftOK, Library!SomethingToConfirm
<1> QED
  BY <1>4, <1>6, <1>7 DEF LibraryInv

(* One PUT is answered: the next object moves from the one list to the     *)
(* other.                                                                  *)
LEMMA PutKeeps ==
    ASSUME LibraryInv, NEW ok \in BOOLEAN, NEW took \in BOOLEAN, Library!Put(ok, took)
    PROVE  LibraryInv'
<1> DEFINE object == Head(todo)
           answer == [name |-> object.name, ok |-> ok]
<1>1. /\ todo # NoObjects
      /\ ok => took
      /\ landed' = landed \cup (IF took THEN {object} ELSE {})
      /\ todo' = Tail(todo)
      /\ answers' = Append(answers, answer)
      /\ outcomes' = IF todo' = NoObjects THEN answers' ELSE outcomes
      /\ UNCHANGED <<step, draft, clicks, confirmed>>
  BY DEF Library!Put, Library!Running, Library!applying, NoObjects
<1>2. ReportInv
  BY DEF LibraryInv
<1>3. /\ Len(todo) \in Nat /\ Len(todo) > 0 /\ Len(answers) \in Nat /\ Len(confirmed) \in Nat
      /\ DOMAIN todo = 1 .. Len(todo) /\ DOMAIN answers = 1 .. Len(answers)
      /\ DOMAIN confirmed = 1 .. Len(confirmed)
  BY <1>1, <1>2 DEF ReportInv, NoObjects
<1>4. object = todo[1] /\ object = confirmed[Len(answers) + 1] /\ object \in ToSet(confirmed)
  <2>1. 1 \in DOMAIN todo /\ Len(answers) + 1 \in DOMAIN confirmed
    BY <1>2, <1>3 DEF ReportInv
  <2>2. todo[1] = confirmed[Len(answers) + 1]
    BY <1>2, <2>1 DEF ReportInv
  <2>3. object = todo[1]
    BY <1>1, <1>2 DEF ReportInv, NoObjects
  <2>4. confirmed[Len(answers) + 1] \in ToSet(confirmed)
    BY <2>1 DEF ToSet
  <2> QED
    BY <2>2, <2>3, <2>4
<1>5. answer \in Answer
  BY <1>4 DEF Answer
<1>6. /\ todo' \in Seq(ToSet(confirmed)) /\ Len(todo') = Len(todo) - 1
      /\ \A i \in DOMAIN todo' : i + 1 \in DOMAIN todo /\ todo'[i] = todo[i + 1]
      /\ DOMAIN todo' = 1 .. Len(todo')
  BY <1>1, <1>2, <1>3 DEF ReportInv, NoObjects
<1> HIDE DEF object, answer
<1>7. /\ answers' \in Seq(Answer) /\ Len(answers') = Len(answers) + 1
      /\ DOMAIN answers' = 1 .. Len(answers) + 1
      /\ \A i \in 1 .. Len(answers) : answers'[i] = answers[i]
      /\ answers'[Len(answers) + 1] = answer
  BY <1>1, <1>2, <1>3, <1>5, AppendProperties DEF ReportInv
<1>8. answer.name = object.name /\ answer.ok = ok
  BY DEF answer
<1>9. /\ Len(todo') + Len(answers') = Len(confirmed)
      /\ \A i \in DOMAIN todo' : todo'[i] = confirmed[Len(answers') + i]
  <2>1. ASSUME NEW i \in DOMAIN todo' PROVE todo'[i] = confirmed[Len(answers') + i]
    <3>1. i + 1 \in DOMAIN todo /\ todo'[i] = todo[i + 1]
      BY <1>6
    <3>2. todo[i + 1] = confirmed[Len(answers) + (i + 1)]
      BY <1>2, <3>1 DEF ReportInv
    <3>3. Len(answers) + (i + 1) = Len(answers') + i
      BY <1>3, <1>6, <1>7
    <3> QED
      BY <3>1, <3>2, <3>3
  <2>2. Len(todo') + Len(answers') = Len(confirmed)
    <3>1. Len(todo) + Len(answers) = Len(confirmed)
      BY <1>2 DEF ReportInv
    <3>2. Len(todo') = Len(todo) - 1 /\ Len(answers') = Len(answers) + 1
      BY <1>6, <1>7
    <3> QED
      BY <1>3, <3>1, <3>2
  <2> QED
    BY <2>1, <2>2
<1>10. \A i \in DOMAIN answers' :
           /\ answers'[i].name = confirmed[i].name
           /\ answers'[i].ok => confirmed[i] \in landed'
  <2>1. ASSUME NEW i \in 1 .. Len(answers)
        PROVE  /\ answers'[i].name = confirmed[i].name
               /\ answers'[i].ok => confirmed[i] \in landed'
    BY <1>1, <1>2, <1>3, <1>7 DEF ReportInv
  <2>2. /\ answers'[Len(answers) + 1].name = confirmed[Len(answers) + 1].name
        /\ answers'[Len(answers) + 1].ok => confirmed[Len(answers) + 1] \in landed'
    BY <1>1, <1>4, <1>7, <1>8
  <2> QED
    BY <1>3, <1>7, <2>1, <2>2
<1>11. landed' \subseteq ToSet(confirmed)
  BY <1>1, <1>2, <1>4 DEF ReportInv
<1>12. outcomes' # NoObjects => outcomes' = answers' /\ todo' = NoObjects
  BY <1>1, <1>2 DEF ReportInv
<1>13. Answer' = Answer /\ ToSet(confirmed)' = ToSet(confirmed) /\ confirmed' = confirmed
  BY <1>1 DEF Answer
<1>14. ReportInv'
  BY <1>2, <1>6, <1>7, <1>9, <1>10, <1>11, <1>12, <1>13 DEF ReportInv
<1>15. DraftOK' /\ Library!SomethingToConfirm'
  <2>1. Library!summary' = Library!summary
    BY <1>1 DEF Library!summary
  <2> QED
    BY <1>1, <2>1 DEF LibraryInv, DraftOK, Library!SomethingToConfirm
<1> QED
  BY <1>1, <1>14, <1>15 DEF LibraryInv

LEMMA LibraryKeeps ==
    ASSUME Library!WizardAssumption, LibraryInv, Library!Next
    PROVE  LibraryInv'
<1>1. ASSUME NEW namespace \in Scopes, Library!toggleNs(namespace) PROVE LibraryInv'
  BY <1>1, ScopeKeeps
<1>2. ASSUME NEW bundle \in Bundles, Library!ChooseBundle(bundle) PROVE LibraryInv'
  BY <1>2, BundleKeeps
<1>3. ASSUME NEW id \in Ids, Library!toggle(id) PROVE LibraryInv'
  BY <1>3, PolicyKeeps
<1>4. ASSUME NEW id \in Ids, NEW mode \in Library!PolicyMode, Library!setMode(id, mode)
      PROVE  LibraryInv'
  BY <1>4, ModeKeeps
<1>5. ASSUME NEW section \in Sections, NEW mode \in Library!PolicyMode \cup {"clear"},
             Library!setSection(section, mode)
      PROVE  LibraryInv'
  BY <1>5, SectionKeeps
<1>6. CASE Library!Continue \/ Library!Back \/ \E s \in 0 .. 2 : Library!Jump(s)
  BY <1>6, PageKeeps
<1>7. CASE Library!apply
  BY <1>7, ApplyKeeps
<1>8. CASE Library!Puts
  <2>1. PICK ok \in BOOLEAN, took \in BOOLEAN : Library!Put(ok, took)
    BY <1>8 DEF Library!Puts
  <2> QED
    BY <2>1, PutKeeps
<1> QED
  BY <1>1, <1>2, <1>3, <1>4, <1>5, <1>6, <1>7, <1>8 DEF Library!Next

LEMMA LibraryRests ==
    ASSUME LibraryInv, UNCHANGED library
    PROVE  LibraryInv'
<1>1. /\ step' = step /\ draft' = draft /\ clicks' = clicks /\ todo' = todo
      /\ answers' = answers /\ outcomes' = outcomes /\ confirmed' = confirmed
      /\ landed' = landed
  BY DEF library
<1>2. Library!summary' = Library!summary
  BY <1>1 DEF Library!summary
<1> QED
  BY <1>1, <1>2 DEF LibraryInv, ReportInv, Answer, DraftOK, Library!SomethingToConfirm

(* What the invariant is for.                                              *)
LEMMA LibraryHolds ==
    ASSUME Library!WizardAssumption, LibraryInv
    PROVE  /\ Library!ModeHolds /\ Library!ObjectsAreDistinct
           /\ Library!ReportIsTrue /\ Library!SomethingToConfirm
           /\ Library!TypeOK
<1>1. Library!LibraryAssumption /\ DraftOK
  BY WizardUse DEF LibraryInv
<1>2. Library!ModeHolds /\ Library!ObjectsAreDistinct
  BY <1>1, ModesHold, ApplyableIs
<1>3. Library!ReportIsTrue
  <2>1. outcomes # NoObjects =>
            /\ outcomes = answers /\ Len(outcomes) = Len(confirmed)
            /\ \A i \in DOMAIN answers :
                   /\ answers[i].name = confirmed[i].name
                   /\ answers[i].ok => confirmed[i] \in landed
    BY DEF LibraryInv, ReportInv, NoObjects
  <2> QED
    BY <2>1 DEF Library!ReportIsTrue, Library!NoReport, NoObjects
<1>4. Library!TypeOK
  BY LibraryUse DEF Library!TypeOK, LibraryInv, DraftOK, IsSelection, ReportInv
<1> QED
  BY <1>2, <1>3, <1>4 DEF LibraryInv
=============================================================================
