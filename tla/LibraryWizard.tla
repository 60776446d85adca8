--------------------------- MODULE LibraryWizard ---------------------------
(***************************************************************************)
(* The policy library's wizard (LibraryWizard.tsx): define a scope, select *)
(* policies, review the documents, confirm and apply.  Apply PUTs one      *)
(* object after another, from the documents of the moment it was clicked;  *)
(* the wizard stays usable meanwhile, and only Apply itself waits.  An     *)
(* object's PUT may fail, or fail with the object applied.  The name the   *)
(* first step asks for is only the files'.                                 *)
(***************************************************************************)
EXTENDS LibraryYaml

CONSTANTS
    Ids,         \* the policies somebody clicks on
    Sections,    \* the sections somebody sets at once
    Bundles,     \* the bundles somebody chooses
    Scopes,      \* the namespaces on offer
    MaxClicks,   \* bound: changes to the draft
    MaxObjects,  \* bound: objects of a draft that is applied
    MaxFailures  \* bound: PUTs of one apply that fail

VARIABLES
    step,       \* 0 define, 1 select, 2 review, 3 confirm
    draft,
    clicks,     \* changes to the draft so far
    todo,       \* objects the apply in progress has still to PUT
    answers,    \* its answers so far
    outcomes,   \* the report of the last apply, or NoReport
    confirmed,  \* history: the objects on the confirm page when it was clicked
    landed      \* history: the objects the cluster took from it

vars == <<step, draft, clicks, todo, answers, outcomes, confirmed, landed>>

NoReport == <<>>
applying == todo # <<>>

-----------------------------------------------------------------------------
(* The bundles.  ids keeps the order of the library.                       *)
IdsOf(chosen) == [i \in DOMAIN chosen |-> chosen[i].id]
ids(P(_)) == IdsOf(Keep(Shipped, {i \in DOMAIN Shipped : P(Shipped[i])}))
asSelection(list, mode) == [i \in DOMAIN list |-> [id |-> list[i], mode |-> mode]]

(* Mutant: the selection is a list that keys are added to.                 *)
SetKeysAppending(selection, changes) == selection \o changes

(* Setting keys of a selection: one that is there keeps its place.         *)
SetKeys(selection, changes) ==
    LET Old(id) == {i \in DOMAIN selection : selection[i].id = id}
        new == Keep(changes, {i \in DOMAIN changes : Old(changes[i].id) = {}})
        To(entry) == LET set == {c \in ToSet(changes) : c.id = entry.id}
                     IN  IF set = {} THEN entry ELSE CHOOSE c \in set : TRUE
    IN  [i \in DOMAIN selection |-> To(selection[i])] \o new
DeleteKeys(selection, keys) ==
    Keep(selection, {i \in DOMAIN selection : selection[i].id \notin keys})

essentials ==
    asSelection(
        ids(LAMBDA p : p.source = "policylibrary" /\ p.section # "instrumentation")
        \o <<"quickstart-file-monitoring", "tracingpolicy-sys-mount",
             "tracingpolicy-sys-ptrace",
             "tracingpolicy-process-exec-process-exec-elf-begin">>, "alert")
cveWatch == asSelection(ids(LAMBDA p : p.section = "cve"), "alert")
containerEscape == asSelection(ids(LAMBDA p : p.section \in {"escape", "cve"}), "block")
documentedOnly ==
    asSelection(ids(LAMBDA p : p.source \in {"policylibrary", "quickstart", "authored"}
                               \/ p.section = "cve"), "alert")
goatDemo ==
    SetKeys(cveWatch,
        asSelection(<<"tracingpolicy-sys-mount">>, "block")
        \o asSelection(<<"tracingpolicy-sys-ptrace">>, "alert")
        \o asSelection(<<"tracingpolicy-sandbox-linux-namespaces-kill-unprivileged-user-namespace",
                         "quickstart-file-monitoring-enforce">>, "block")
        \o asSelection(<<"quickstart-network-egress-cluster", "policylibrary-modules",
                         "policylibrary-bpf",
                         "policylibrary-privileges-privileges-setuid-root",
                         "tracingpolicy-process-exec-process-exec-elf-begin">>, "alert"))

BUNDLES == [essentials |-> essentials, cve |-> cveWatch, escape |-> containerEscape,
            documented |-> documentedOnly, goat |-> goatDemo]

(* An id is a key of the selection: it is there once.                      *)
IdsOnce(selection) == IsInjective([i \in DOMAIN selection |-> selection[i].id])

(* Assumed of the constants where they get their values (Console): what    *)
(* the bundles name is in the library, and in a bundle once.               *)
WizardAssumption ==
    /\ LibraryAssumption
    /\ Ids \subseteq DOMAIN ShippedById
    /\ Sections \subseteq {policy.section : policy \in ToSet(Shipped)}
    /\ Bundles \subseteq DOMAIN BUNDLES
    /\ \A bundle \in Bundles : BUNDLES[bundle] \in Seq(Entry) /\ IdsOnce(BUNDLES[bundle])
    /\ Scopes \subseteq STRING
    /\ {MaxClicks, MaxObjects, MaxFailures} \subseteq Nat

-----------------------------------------------------------------------------
summary == summarize(draft)
docs == generateDocs(draft)
ObjectsIn(list) == FlattenSeq([i \in DOMAIN list |-> list[i].objects])
Applyable == ObjectsIn(docs)

Init ==
    /\ step = 0
    /\ draft = [selection |-> <<>>, scopeNamespaces |-> {}]
    /\ clicks = 0
    /\ todo = <<>> /\ answers = <<>> /\ outcomes = NoReport
    /\ confirmed = <<>> /\ landed = {}

Edit(changed) ==
    /\ clicks < MaxClicks
    /\ clicks' = clicks + 1
    /\ draft' = changed
    /\ UNCHANGED <<step, todo, answers, outcomes, confirmed, landed>>
Select(selection) == step = 1 /\ Edit([draft EXCEPT !.selection = selection])

toggleNs(namespace) ==
    /\ step = 0
    /\ Edit([draft EXCEPT !.scopeNamespaces =
                IF namespace \in @ THEN @ \ {namespace} ELSE @ \cup {namespace}])

ChooseBundle(bundle) == Select(BUNDLES[bundle])

Selected(id) == \E entry \in ToSet(draft.selection) : entry.id = id
toggle(id) ==
    LET mode == IF ShippedById[id].enforcing THEN "block" ELSE "alert"
    IN  Select(IF Selected(id) THEN DeleteKeys(draft.selection, {id})
               ELSE SetKeys(draft.selection, <<[id |-> id, mode |-> mode]>>))

(* The switch of a policy that is not in the set is disabled, and clicking *)
(* the mode it is in does nothing.                                         *)
setMode(id, mode) ==
    /\ Selected(id)
    /\ [id |-> id, mode |-> mode] \notin ToSet(draft.selection)
    /\ Select(SetKeys(draft.selection, <<[id |-> id, mode |-> mode]>>))

setSection(section, mode) ==
    LET list == ids(LAMBDA p : p.section = section)
    IN  Select(IF mode = "clear" THEN DeleteKeys(draft.selection, ToSet(list))
               ELSE SetKeys(draft.selection, asSelection(list, mode)))

GoTo(s) == step' = s
           /\ UNCHANGED <<draft, clicks, todo, answers, outcomes, confirmed, landed>>
canAdvance == step = 0 \/ summary.total > 0
Continue == step < 3 /\ canAdvance /\ GoTo(step + 1)
Back == step > 0 /\ GoTo(step - 1)
Jump(s) == s < step /\ GoTo(s)

-----------------------------------------------------------------------------
apply ==
    /\ step = 3
    /\ ~applying
    /\ summary.objectCount \in 1 .. MaxObjects
    /\ todo' = Applyable
    /\ confirmed' = todo'
    /\ answers' = <<>> /\ outcomes' = NoReport /\ landed' = {}
    /\ UNCHANGED <<step, draft, clicks>>

(* An object that fails does not keep the next from being PUT.             *)
RunningUntilThrown == applying /\ \A i \in DOMAIN answers : answers[i].ok  \* mutant
Running == applying

(* One PUT is answered.  The report comes with the last.                   *)
Put(ok, took) ==
    /\ Running
    /\ ok => took
    /\ ok \/ Cardinality({i \in DOMAIN answers : ~answers[i].ok}) < MaxFailures
    /\ LET object == Head(todo)
           results == Append(answers, [name |-> object.name, ok |-> ok])
       IN  /\ landed' = landed \cup (IF took THEN {object} ELSE {})
           /\ todo' = Tail(todo)
           /\ answers' = results
           /\ outcomes' = IF todo' = <<>> THEN results ELSE outcomes
    /\ UNCHANGED <<step, draft, clicks, confirmed>>
Puts == \E ok, took \in BOOLEAN : Put(ok, took)

Next ==
    \/ \E namespace \in Scopes : toggleNs(namespace)
    \/ \E bundle \in Bundles : ChooseBundle(bundle)
    \/ \E id \in Ids : toggle(id)
    \/ \E id \in Ids, mode \in PolicyMode : setMode(id, mode)
    \/ \E section \in Sections, mode \in PolicyMode \cup {"clear"} :
            setSection(section, mode)
    \/ Continue \/ Back
    \/ \E s \in 0 .. 2 : Jump(s)
    \/ apply
    \/ Puts

(* A browser's request is answered or fails.                               *)
Fairness == WF_vars(Puts)

Spec == Init /\ [][Next]_vars /\ Fairness

-----------------------------------------------------------------------------
TypeOK ==
    /\ step \in 0 .. 3
    /\ draft \in LibraryDraft
    /\ IdsOnce(draft.selection)
    /\ clicks \in 0 .. MaxClicks
    /\ Len(todo) + Len(answers) = Len(confirmed)
    /\ landed \subseteq ToSet(confirmed)

(* An object in alert mode takes no enforcing action and one in block mode *)
(* none that only reports; neither mode adds an action to a policy or      *)
(* drops one (applyMode).                                                  *)
ModeHolds ==
    \A object \in ToSet(Applyable) :
        LET shipped == ShippedById[object.id].spec
        IN  /\ object.mode = "alert" => Actions(object.spec) \cap ENFORCE_ACTIONS = {}
            /\ object.mode = "block" => "Post" \notin Actions(object.spec)
            /\ Enforceable(object.spec) = Enforceable(shipped)
            /\ Actions(shipped) \cap (ENFORCE_ACTIONS \cup {"Post"}) = {}
                  => object.spec = shipped

(* No two objects of a build go by one name: the second PUT would replace  *)
(* what the first one just applied (buildPolicies).                        *)
Distinct(objects) ==
    IsInjective([i \in DOMAIN objects |->
        <<objects[i].kind, objects[i].namespace, objects[i].name>>])
ObjectsAreDistinct == Distinct(Applyable)

(* The report of an apply has a line for every object the page listed when *)
(* it was clicked, whatever failed and whatever was edited since, and what *)
(* it ticks off the cluster took (apply, ConfirmStep).                     *)
ReportIsTrue ==
    outcomes # NoReport =>
        /\ Len(outcomes) = Len(confirmed)
        /\ \A i \in DOMAIN outcomes :
              /\ outcomes[i].name = confirmed[i].name
              /\ outcomes[i].ok => confirmed[i] \in landed

(* Nobody reviews or confirms an empty set (canAdvance, Stepper).          *)
SomethingToConfirm == step > 1 => summary.total > 0

(* An apply ends with a report, and the button comes back.                 *)
ApplyEnds == applying ~> ~applying
=============================================================================
