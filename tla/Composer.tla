------------------------------ MODULE Composer ------------------------------
(***************************************************************************)
(* The Create Policy page (PolicyComposer.tsx).  A manifest is typed,      *)
(* loaded, started from a template or generated from observed traffic;     *)
(* the namespace picker rewrites its scope; it is dry-run, and then Apply  *)
(* sends it to the cluster or to a pull request.  One call at a time, and  *)
(* the text stays editable meanwhile.                                      *)
(*                                                                         *)
(* A text is its kind, name and namespace: the parts that decide what the  *)
(* page allows.  What it looks like as YAML, what a dry run says, and the  *)
(* list of what is in the cluster are left out.                            *)
(***************************************************************************)
EXTENDS Naturals, FiniteSets

CONSTANTS
    Starts,      \* the templates somebody starts from
    Typed,       \* the texts somebody types
    Listed,      \* the manifests loaded from the cluster's list
    Namespaces,  \* those the picker offers
    MaxMade,    \* bound: calls of the page
    Nothing      \* no dry run, no call

NETWORK_KINDS == {"CiliumNetworkPolicy", "CiliumClusterwideNetworkPolicy", "NetworkPolicy"}
RUNTIME_KINDS == {"TracingPolicy", "TracingPolicyNamespaced"}
TEMPLATES ==
    [i \in 1 .. 8 |->
        [kind |-> CASE i = 4 -> "CiliumClusterwideNetworkPolicy"
                    [] i \in {6, 7} -> "TracingPolicy"
                    [] i = 8 -> "NetworkPolicy"
                    [] OTHER -> "CiliumNetworkPolicy",
         namespace |-> IF i \in {4, 6, 7} THEN "" ELSE "default",
         name |-> <<"default-deny", "allow-between", "dns-allowlist", "block-metadata",
                    "l7-http", "tetragon-exec", "tetragon-files", "k8s-netpol">>[i]]]

(* The names there are: of the templates, of what is typed or loaded, and  *)
(* of what is generated.                                                   *)
Names == {TEMPLATES[i].name : i \in DOMAIN TEMPLATES}
             \cup {t.name : t \in Typed \cup Listed} \cup {"egress"}
Text == [kind : NETWORK_KINDS \cup RUNTIME_KINDS \cup {"other"},
         namespace : Namespaces \cup {"", "default"}, name : Names]

(* Assumed of the constants where they get their values (Console).         *)
TextsAssumption ==
    /\ Starts \subseteq DOMAIN TEMPLATES
    /\ Typed \subseteq Text /\ Listed \subseteq Text
    /\ Namespaces \subseteq STRING /\ "" \notin Namespaces
    /\ MaxMade \in Nat

VARIABLES
    text,     \* the text in the editor
    run,      \* the text the dry run on the page is of
    waiting,  \* the call the page waits for: busy
    made,     \* calls made
    sent,     \* history: the texts that Apply sent
    seen,     \* history: the texts whose dry run was on the page
    drifted   \* history: the text left behind the run on the page, or on its way

vars == <<text, run, waiting, made, sent, seen, drifted>>

parsed(t) == t.kind \in NETWORK_KINDS \cup RUNTIME_KINDS /\ t.name # ""
working == waiting # Nothing

Init ==
    /\ text = TEMPLATES[1]
    /\ run = Nothing /\ waiting = Nothing
    /\ made = 0 /\ sent = {} /\ seen = {} /\ drifted = FALSE

-----------------------------------------------------------------------------
(* The ways to a new text that drop the dry run.                           *)
DryRunAsked == working /\ waiting.kind = "dryrun"
Replace(t) ==
    /\ t # text
    /\ text' = t
    /\ run' = Nothing
    /\ drifted' = DryRunAsked
    /\ UNCHANGED <<waiting, made, sent, seen>>
Type(t) == Replace(t)
load(t) == Replace(t)
Start(i) == Replace(TEMPLATES[i])

(* The picker moves between the kinds that have a cluster-wide twin.       *)
Rescoped(t, namespace) ==
    [t EXCEPT !.namespace = namespace,
              !.kind = CASE @ = "CiliumNetworkPolicy" /\ namespace = "" ->
                                "CiliumClusterwideNetworkPolicy"
                         [] @ = "CiliumClusterwideNetworkPolicy" /\ namespace # "" ->
                                "CiliumNetworkPolicy"
                         [] @ = "TracingPolicy" /\ namespace # "" ->
                                "TracingPolicyNamespaced"
                         [] @ = "TracingPolicyNamespaced" /\ namespace = "" ->
                                "TracingPolicy"
                         [] OTHER -> @]
Offered(t) == Namespaces \cup (IF t.kind = "NetworkPolicy" THEN {} ELSE {""})
setNamespace(namespace) ==
    /\ parsed(text)
    /\ namespace \in Offered(text)
    /\ Replace(Rescoped(text, namespace))

-----------------------------------------------------------------------------
Calls(c) ==
    /\ ~working /\ made < MaxMade
    /\ made' = made + 1
    /\ waiting' = c

dryRun ==
    /\ parsed(text)
    /\ Calls([kind |-> "dryrun", text |-> text])
    /\ run' = Nothing
    /\ drifted' = FALSE
    /\ UNCHANGED <<text, sent, seen>>
CanApply == parsed(text) /\ ~working /\ run # Nothing
apply ==
    /\ CanApply
    /\ Calls([kind |-> "apply", text |-> text])
    /\ UNCHANGED <<text, run, sent, seen, drifted>>
generate ==
    /\ Calls([kind |-> "generate", text |-> text])
    /\ UNCHANGED <<text, run, sent, seen, drifted>>

(* The answers.  A dry run goes on the page whatever the text is by then.  *)
DryRunIn ==
    /\ DryRunAsked
    /\ run' = waiting.text
    /\ seen' = seen \cup {run'}
    /\ waiting' = Nothing
    /\ UNCHANGED <<text, made, sent, drifted>>
Applied ==
    /\ working /\ waiting.kind = "apply"
    /\ sent' = sent \cup {waiting.text}
    /\ waiting' = Nothing
    /\ UNCHANGED <<text, run, made, seen, drifted>>
(* generate replaces the text and leaves the dry run that is on the page.  *)
Generated(t) == [kind |-> "CiliumNetworkPolicy", name |-> "egress",
                 namespace |-> IF parsed(t) /\ t.namespace # "" THEN t.namespace
                               ELSE "default"]
GeneratedIn ==
    /\ working /\ waiting.kind = "generate"
    /\ text' = Generated(waiting.text)
    /\ drifted' = (drifted \/ (run # Nothing /\ text' # text))
    /\ waiting' = Nothing
    /\ UNCHANGED <<run, made, sent, seen>>
(* Or an error, a prompt that is dismissed, or no traffic to go by; an     *)
(* apply may have got through.                                             *)
NothingIn ==
    /\ working
    /\ sent' \in {sent} \cup (IF waiting.kind = "apply" THEN {sent \cup {waiting.text}}
                              ELSE {})
    /\ waiting' = Nothing
    /\ UNCHANGED <<text, run, made, seen, drifted>>
CallEnds == DryRunIn \/ Applied \/ GeneratedIn \/ NothingIn

Next ==
    \/ \E t \in Typed : Type(t)
    \/ \E t \in Listed : load(t)
    \/ \E i \in Starts : Start(i)
    \/ \E namespace \in Namespaces \cup {""} : setNamespace(namespace)
    \/ dryRun \/ apply \/ generate
    \/ CallEnds

Fairness == WF_vars(CallEnds)

Spec == Init /\ [][Next]_vars /\ Fairness

-----------------------------------------------------------------------------
TypeOK ==
    /\ text \in Text
    /\ run \in Text \cup {Nothing}
    /\ waiting \in [kind : {"dryrun", "apply", "generate"}, text : Text] \cup {Nothing}
    /\ made \in 0 .. MaxMade
    /\ sent \subseteq Text /\ seen \subseteq Text
    /\ drifted \in BOOLEAN

(* The dry run on the page is of the text on the page, unless the text was *)
(* edited while this run was on its way or generated over it (dryRun).  In *)
(* these two cases the code shows it all the same: AppliedWasDryRun.       *)
RunIsOfText == (run # Nothing /\ ~drifted) => run = text

(* A text whose scope its kind takes stays one, whatever is picked next;   *)
(* one CRD with the other's scope is what the API rejects (setNamespace).  *)
ClusterKinds == {"CiliumClusterwideNetworkPolicy", "TracingPolicy"}
ScopeFits(t) == (t.kind \in ClusterKinds) <=> (t.namespace = "")
PickerFits ==
    \A namespace \in Offered(text) :
        (parsed(text) /\ ScopeFits(text)) => ScopeFits(Rescoped(text, namespace))

(* The page's buttons come back (busy).                                    *)
PageComesBack == working ~> ~working

(* Nothing is applied whose dry run was never on the page                  *)
(* (PolicyComposer.tsx:56-58).                                             *)
AppliedWasDryRun == sent \subseteq seen
=============================================================================
