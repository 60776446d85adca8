--------------------------- MODULE PolicyChange ---------------------------
(***************************************************************************)
(* The HTTP handlers that change a Tetragon policy: applyPolicy,           *)
(* deletePolicy, setTracingAction, applyExclusions and postAIApply.  Each  *)
(* runs in a goroutine of its own, reads the policy from the API server,   *)
(* computes a new manifest, applies it and writes one audit record;        *)
(* nothing locks the policy meanwhile, and kubectl edits it as well.  The  *)
(* module follows one policy, since no handler touches two.                *)
(*                                                                         *)
(* What applies is external: an API server (serverSide), as LiveStore uses *)
(* it, or the repository's test double, which replaces the policy and      *)
(* ignores versions.  LiveStore sends a server-side apply with force=true, *)
(* which merges: fields the manifest has are taken over whoever wrote them,*)
(* fields it omits stay when kubectl owns them.  A manifest that was read  *)
(* from the server has all of its fields and still carries its             *)
(* resourceVersion, and a server refuses a stale one; a submitted one      *)
(* carries none.  Any call may fail, and may fail after the server has     *)
(* acted: the reply is lost, the client gives up after 30s or the caller   *)
(* goes away.                                                              *)
(***************************************************************************)
EXTENDS Naturals, FiniteSets

CONSTANTS
    Req,            \* the requests of a run
    Inputs,         \* what a request may ask, a subset of Input
    Values,         \* the values exclusions can name
    HandManifests,  \* the manifests kubectl may write
    MaxEdits,       \* bound: edits by hand
    MaxExits,       \* bound: process exits
    Absent          \* no policy, or no manifest in a record

-----------------------------------------------------------------------------
(* A manifest, as far as the handlers tell manifests apart.  mode: "bare"  *)
(* hooks have no selectors, "plain" selectors no matchActions.  excl: the  *)
(* values excluded.  exempt: the podSelector has a NotIn on the label of   *)
(* the console's pods, which is what Exempt looks for.  protected: a       *)
(* selector names a protected namespace.                                   *)
Modes == {"bare", "plain", "monitor", "enforce"}
Manifest == [mode : Modes, excl : SUBSET Values, exempt : BOOLEAN,
             protected : BOOLEAN]

(* What a request asks.  allowed: the caller's role (in postAIApply, the   *)
(* namespace too) passes the checks at the top of the handler.  via: live  *)
(* apply, ?mode=pr, or ?dryRun=true.                                       *)
(* Malformed bodies are answered at once and are left out.                 *)
Ops == {"apply", "action", "exclude", "delete",
        "ai-action", "ai-exclude", "ai-disable"}
Input == [mode : {"monitor", "enforce"}, op : Ops, allowed : BOOLEAN,
          via : {"live", "pr", "dry"}, vals : SUBSET Values, body : Manifest]

Sets == {"action", "ai-action"}
Excludes == {"exclude", "ai-exclude"}

ASSUME InputsAssumption ==
    /\ Inputs \subseteq Input
    /\ \A i \in Inputs : i.op \in Excludes => i.vals # {}
    /\ HandManifests \subseteq Manifest
ASSUME AbsentAssumption == Absent \notin Manifest
ASSUME BoundsAssumption == MaxEdits \in Nat /\ MaxExits \in Nat

VARIABLES
    live,     \* the policy in the cluster
    theirs,   \* what of it kubectl wrote, and nobody has overwritten since
    author,   \* who wrote it last
    serverSide, \* an API server applies, not the test double
    pc,       \* where each handler is
    input,    \* what each request asks
    cur,      \* the manifest each handler got
    out,      \* the manifest each handler applies or proposes
    entry,    \* the record each handler is about to write
    reply,    \* what each caller was told
    trail,    \* the audit records
    prs,      \* requests that have opened a pull request
    wrote,    \* history: what a handler's write replaced, and with what
    edits,    \* edits by hand so far
    bareHand, \* history: an edit by hand left the exemption out
    exits     \* process exits so far

vars == <<live, theirs, author, serverSide, pc, input, cur, out, entry, reply, trail,
          prs, wrote, edits, bareHand, exits>>
request == <<input, cur, out, entry, reply, trail, prs, wrote>>

MaybeManifest == Manifest \cup {Absent}
Steps == {"idle", "get", "apply", "delete", "pr", "record", "done", "gone"}
Replies == {"none", "forbidden", "invalid", "denied", "dry", "error", "ok"}
Outcomes == {"success", "denied", "error"}
Record == [req : Req, outcome : Outcomes, before : MaybeManifest, after : MaybeManifest]

(* A request that has not asked anything yet, or whose record says nothing. *)
NoInput == [mode |-> "monitor", op |-> "delete", allowed |-> FALSE, via |-> "live",
            vals |-> {}, body |-> [mode |-> "bare", excl |-> {}, exempt |-> FALSE,
                                   protected |-> FALSE]]
Blank(r) == [req |-> r, outcome |-> "success", before |-> Absent, after |-> Absent]
Write == [before : MaybeManifest, after : MaybeManifest, done : BOOLEAN]
NoWrite == [before |-> Absent, after |-> Absent, done |-> FALSE]

TypeOK ==
    /\ live \in MaybeManifest
    /\ theirs \in Manifest
    /\ author \in {"kubectl", "console"}
    /\ serverSide \in BOOLEAN
    /\ pc \in [Req -> Steps]
    /\ input \in [Req -> Inputs \cup {NoInput}]
    /\ cur \in [Req -> MaybeManifest]
    /\ out \in [Req -> MaybeManifest]
    /\ entry \in [Req -> Record]
    /\ reply \in [Req -> Replies]
    /\ trail \subseteq Record
    /\ prs \subseteq Req
    /\ wrote \in [Req -> Write]
    /\ edits \in 0 .. MaxEdits
    /\ bareHand \in BOOLEAN
    /\ exits \in 0 .. MaxExits

(* The parts of a manifest another manager can still own after an apply:   *)
(* hooks, and selectors that name a namespace.  The exemption is a clause  *)
(* of a list the manifests applied here always have, so it goes with them. *)
Nothing == [mode |-> "bare", excl |-> {}, exempt |-> FALSE, protected |-> FALSE]
PartsOf(m) == IF m = Absent THEN Nothing ELSE [m EXCEPT !.exempt = FALSE]

(* The policy was made by hand, or there is none yet. *)
Init ==
    /\ live \in HandManifests \cup {Absent}
    /\ theirs = PartsOf(live)
    /\ author = "kubectl"
    /\ serverSide \in BOOLEAN
    /\ pc = [r \in Req |-> "idle"]
    /\ input = [r \in Req |-> NoInput]
    /\ cur = [r \in Req |-> Absent]
    /\ out = [r \in Req |-> Absent]
    /\ entry = [r \in Req |-> Blank(r)]
    /\ reply = [r \in Req |-> "none"]
    /\ trail = {}
    /\ prs = {}
    /\ wrote = [r \in Req |-> NoWrite]
    /\ edits = 0
    /\ bareHand = (live # Absent /\ ~live.exempt)
    /\ exits = 0

-----------------------------------------------------------------------------
(* The pure functions the handlers compute with. *)

(* guard.CheckManifest: a selector or metadata names a protected namespace. *)
(* (RejectedUnlessExempt: trusting the exemption to be enough.)            *)
RejectedUnlessExempt(m) == m.protected /\ ~m.exempt
Rejected(m) == m.protected

(* guard.Exempt: the clause that leaves the console's pods out.  (ExemptIf- *)
(* Enforcing: only manifests that enforce.)                                *)
ExemptIfEnforcing(m) == [m EXCEPT !.exempt = @ \/ m.mode = "enforce"]
Exempt(m) == [m EXCEPT !.exempt = TRUE]

(* k8s.SetTracingAction fails when there is no matchActions to rewrite; an *)
(* enforcing change adds one to selectors that have none.  (SetRaw: the    *)
(* action's own name left where its mode belongs.)                         *)
CanSet(m, mode) ==
    m.mode \in {"monitor", "enforce"} \cup (IF mode = "enforce" THEN {"plain"} ELSE {})
SetRaw(m, mode) == [m EXCEPT !.mode = IF mode = "enforce" THEN "Sigkill" ELSE "Post"]
SetTracingAction(m, mode) == [m EXCEPT !.mode = mode]

(* k8s.ApplyExclusions merges the values into what is excluded already, in *)
(* a selector it creates on hooks that have none.  (ReplaceExclusions: it  *)
(* replaces them.)                                                         *)
ReplaceExclusions(m, vals) ==
    [m EXCEPT !.excl = vals, !.mode = IF @ = "bare" THEN "plain" ELSE @]
ApplyExclusions(m, vals) ==
    [m EXCEPT !.excl = @ \cup vals, !.mode = IF @ = "bare" THEN "plain" ELSE @]

(* The manifest a change of op builds from the one it got, if it can. *)
CanMutate(i, m) == i.op \in Sets => CanSet(m, i.mode)
Mutate(i, m) == IF i.op \in Sets THEN SetTracingAction(m, i.mode)
                                 ELSE ApplyExclusions(m, i.vals)

(* What survives of the parts kubectl owns, when a manifest has some of    *)
(* the fields or none.                                                     *)
Survivors(p) ==
    {[h EXCEPT !.protected = s.protected] : h \in {p, Nothing}, s \in {p, Nothing}}

(* Manifest m, with the parts that are kept next to it.  The mode is that  *)
(* of the hook that does most (DetectAction).                              *)
Strength == [bare |-> 0, plain |-> 1, monitor |-> 2, enforce |-> 3]
Merge(m, kept) ==
    [m EXCEPT !.mode = IF Strength[@] < Strength[kept.mode] THEN kept.mode ELSE @,
              !.excl = @ \cup kept.excl,
              !.protected = @ \/ kept.protected]

(* Whether the handler of i previews the change and stops.  setTracing-    *)
(* Action, applyPolicy and deletePolicy do not know dryRun, and            *)
(* postAIApply deletes before it looks.  (PreviewsExclude: only            *)
(* applyExclusions looks.)                                                 *)
PreviewsExclude(i) == i.via = "dry" /\ i.op = "exclude"
Previews(i) == i.via = "dry" /\ i.op \in {"exclude", "ai-action", "ai-exclude"}

(* Whether the handler of i proposes instead; postAIApply knows no mode=pr. *)
Proposes(i) == i.via = "pr" /\ i.op \in {"apply", "action", "exclude"}

-----------------------------------------------------------------------------
(* The steps of a handler. *)
policy == <<live, theirs, author>>
world == <<serverSide, edits, bareHand, exits>>

Goto(r, step) == pc' = [pc EXCEPT ![r] = step]

(* The handler answers and is done, with no record. *)
Answer(r, what) ==
    /\ Goto(r, "done")
    /\ reply' = [reply EXCEPT ![r] = what]
    /\ UNCHANGED entry

(* The handler goes on to write a record. *)
ToRecord(r, outcome, before, after) ==
    /\ Goto(r, "record")
    /\ entry' = [entry EXCEPT ![r] = [req |-> r, outcome |-> outcome,
                                      before |-> before, after |-> after]]
    /\ UNCHANGED reply

(* The handler goes on to another call. *)
ToCall(r, step) ==
    /\ Goto(r, step)
    /\ UNCHANGED <<entry, reply>>

(* A request arrives, and its handler runs up to its first call. *)
Arrive(r, i) ==
    /\ pc[r] = "idle"
    /\ input' = [input EXCEPT ![r] = i]
    /\ out' = IF i.op = "apply" THEN [out EXCEPT ![r] = Exempt(i.body)] ELSE out
    /\ \/ ~i.allowed /\ Answer(r, "forbidden")
       \/ /\ i.allowed /\ i.op = "apply" /\ Rejected(i.body)
          /\ ToRecord(r, "denied", Absent, Absent)
       \/ /\ i.allowed /\ ~(i.op = "apply" /\ Rejected(i.body))
          /\ ToCall(r, "get")
    /\ UNCHANGED <<cur, trail, prs, wrote, policy, world>>

(* applyPolicy and deletePolicy read the policy for the record only: a     *)
(* read that fails leaves the record's before empty.                       *)
GetForRecord(r, got) ==
    /\ pc[r] = "get"
    /\ input[r].op \in {"apply", "delete"}
    /\ got \in {live, Absent}
    /\ cur' = [cur EXCEPT ![r] = got]
    /\ ToCall(r, IF input[r].op = "delete" THEN "delete"
                 ELSE IF Proposes(input[r]) THEN "pr" ELSE "apply")
    /\ UNCHANGED <<input, out, trail, prs, wrote, policy, world>>

(* postAIApply disables a policy that is there, whatever dryRun says. *)
GetToDisable(r, got) ==
    /\ pc[r] = "get"
    /\ input[r].op = "ai-disable"
    /\ got \in {live, Absent}
    /\ cur' = [cur EXCEPT ![r] = got]
    /\ IF got = Absent THEN Answer(r, "error") ELSE ToCall(r, "delete")
    /\ UNCHANGED <<input, out, trail, prs, wrote, policy, world>>

(* The other handlers build a new manifest from the policy and check it. *)
GetToChange(r, got) ==
    LET i == input[r]
        m == Mutate(i, got)
        built == got # Absent /\ CanMutate(i, got)
    IN  /\ pc[r] = "get"
        /\ i.op \in Sets \cup Excludes
        /\ got \in {live, Absent}
        /\ cur' = [cur EXCEPT ![r] = got]
        /\ out' = IF built THEN [out EXCEPT ![r] = m] ELSE out
        /\ \/ got = Absent /\ Answer(r, "error")
           \/ got # Absent /\ ~CanMutate(i, got) /\ Answer(r, "invalid")
           \/ built /\ Rejected(m) /\ i.op = "exclude" /\ Answer(r, "denied")
           \/ /\ built /\ Rejected(m) /\ i.op # "exclude"
              /\ ToRecord(r, "denied", IF i.op = "action" THEN got ELSE Absent, Absent)
           \/ built /\ ~Rejected(m) /\ Previews(i) /\ Answer(r, "dry")
           \/ /\ built /\ ~Rejected(m) /\ ~Previews(i)
              /\ ToCall(r, IF Proposes(i) THEN "pr" ELSE "apply")
        /\ UNCHANGED <<input, trail, prs, wrote, policy, world>>

-----------------------------------------------------------------------------
(* The calls that change something. *)

(* The server refuses a version that is not the latest. *)
Accepts(r) == input[r].op # "apply" /\ serverSide => live = cur[r]

(* What kubectl may still own after the apply.  A manifest that was read   *)
(* has kubectl's fields with the rest: those the change rewrites are taken *)
(* over, the others have two owners from then on.                          *)
Kept(r) ==
    IF ~serverSide THEN {Nothing}
    ELSE IF input[r].op = "apply" THEN Survivors(theirs)
    ELSE {Nothing} \cup {p \in Survivors(theirs) :
                            CanMutate(input[r], p) => Mutate(input[r], p) = p}

(* The policy that is there after r's apply. *)
Applied(r, kept) == IF input[r].op = "apply" THEN Merge(out[r], kept) ELSE out[r]

(* r's call puts m in place, of which kubectl owns what it kept. *)
Put(r, m, kept) ==
    /\ live' = m
    /\ theirs' = kept
    /\ author' = "console"
    /\ wrote' = [wrote EXCEPT ![r] = [before |-> live, after |-> m,
                                      done |-> TRUE]]

PutNothing == UNCHANGED <<wrote, policy>>

(* What the handler records of an apply that returned an error.            *)
(* (ErrorAsSuccess: with the wrong outcome.)                               *)
ErrorAsSuccess(r) == ToRecord(r, "success", cur[r], out[r])
ErrorRecord(r) == IF input[r].op = "apply" THEN ToRecord(r, "error", Absent, Absent)
                                           ELSE ToRecord(r, "error", cur[r], out[r])

(* Apply returns the policy as the server has it now, which is what is     *)
(* recorded, or an error: refused or unreachable, or applied with the      *)
(* reply lost.  A server may refuse every manifest that was read: it       *)
(* carries managedFields, which nothing strips.                            *)
APIApply(r) ==
    /\ pc[r] = "apply"
    /\ \/ /\ Accepts(r)
          /\ \E kept \in Kept(r) :
                /\ Put(r, Applied(r, kept), kept)
                /\ \/ ToRecord(r, "success", cur[r], Applied(r, kept))
                   \/ ErrorRecord(r)
       \/ PutNothing /\ ErrorRecord(r)
    /\ UNCHANGED <<input, cur, out, trail, prs, world>>

(* Delete likewise; a policy that is not there is an error. *)
APIDelete(r) ==
    LET failed == ToRecord(r, "error",
                      IF input[r].op = "delete" THEN Absent ELSE cur[r], Absent)
    IN  /\ pc[r] = "delete"
        /\ \/ live # Absent /\ Put(r, Absent, Nothing) /\ ToRecord(r, "success", cur[r], Absent)
           \/ live # Absent /\ Put(r, Absent, Nothing) /\ failed
           \/ PutNothing /\ failed
        /\ UNCHANGED <<input, cur, out, trail, prs, world>>

(* applyViaPR answers the caller whatever happened; applyPolicy returns    *)
(* then, the others record a success.                                      *)
OpenPR(r) ==
    /\ pc[r] = "pr"
    /\ \/ prs' = prs \cup {r} /\ reply' = [reply EXCEPT ![r] = "ok"]
       \/ prs' \in {prs, prs \cup {r}} /\ reply' = [reply EXCEPT ![r] = "error"]
    /\ IF input[r].op = "apply"
       THEN Goto(r, "done") /\ UNCHANGED entry
       ELSE /\ Goto(r, "record")
            /\ entry' = [entry EXCEPT ![r] = [Blank(r) EXCEPT !.before = cur[r],
                                                              !.after = out[r]]]
    /\ UNCHANGED <<input, cur, out, trail, wrote, policy, world>>

(* Server.record, then the answer.  (RecordsSuccess: only successes are    *)
(* recorded.)                                                              *)
ReplyFor == [success |-> "ok", denied |-> "denied", error |-> "error"]
RecordsSuccess(r) == IF entry[r].outcome = "success" THEN trail \cup {entry[r]} ELSE trail
Recorded(r) == trail \cup {entry[r]}

WriteRecord(r) ==
    /\ pc[r] = "record"
    /\ trail' = Recorded(r)
    /\ Goto(r, "done")
    /\ reply' = IF reply[r] # "none" THEN reply
                ELSE [reply EXCEPT ![r] = ReplyFor[entry[r].outcome]]
    /\ UNCHANGED <<input, cur, out, entry, prs, wrote, policy, world>>

-----------------------------------------------------------------------------
(* What goes on around the handlers. *)

(* kubectl edits, replaces or deletes the policy. *)
HandEdit(m) ==
    /\ edits < MaxEdits
    /\ m # live
    /\ edits' = edits + 1
    /\ live' = m
    /\ theirs' = PartsOf(m)
    /\ author' = "kubectl"
    /\ bareHand' = (bareHand \/ (m # Absent /\ ~m.exempt))
    /\ UNCHANGED <<request, pc, serverSide, exits>>

(* The process exits and starts again.  On a signal too: main returns as   *)
(* soon as ListenAndServe does, which is when Shutdown is called, not when *)
(* the handlers have ended.                                                *)
Exit ==
    /\ exits < MaxExits
    /\ exits' = exits + 1
    /\ pc' = [r \in Req |-> IF pc[r] \in {"idle", "done"} THEN pc[r] ELSE "gone"]
    /\ UNCHANGED <<request, policy, serverSide, edits, bareHand>>

Handle(r) ==
    \/ \E got \in MaybeManifest : \/ GetForRecord(r, got)
                                  \/ GetToDisable(r, got)
                                  \/ GetToChange(r, got)
    \/ APIApply(r)
    \/ APIDelete(r)
    \/ OpenPR(r)
    \/ WriteRecord(r)

Next ==
    \/ \E r \in Req, i \in Inputs : Arrive(r, i)
    \/ \E r \in Req : Handle(r)
    \/ \E m \in HandManifests \cup {Absent} : HandEdit(m)
    \/ Exit

Spec == Init /\ [][Next]_vars

-----------------------------------------------------------------------------
(* openapi.yaml: policies authored through this API can never select a     *)
(* protected namespace.  Whoever asked, and whatever was edited by hand    *)
(* between the read and the apply, no handler makes the policy select one. *)
(* The one policy that does after a handler's write had it from kubectl,   *)
(* which still owns that part: a submitted manifest was merged into it.    *)
(* A manifest computed from a read takes the place of such a policy with   *)
(* none, or is refused.                                                    *)
ProtectedOnlyByHand ==
    /\ live # Absent /\ live.protected => theirs.protected
    /\ \A r \in Req :
          LET w == wrote[r]
          IN  w.done /\ w.after # Absent /\ w.after.protected
              => /\ serverSide /\ input[r].op = "apply"
                 /\ w.before # Absent /\ w.before.protected

(* A change a handler made, even one whose reply was lost, is on record    *)
(* when the handler ends: under that request, with what was put in place   *)
(* unless the apply or the delete came back as an error.                   *)
WritesAreRecorded ==
    \A r \in Req : pc[r] = "done" /\ wrote[r].done =>
        \E e \in trail : /\ e.req = r
                         /\ e.outcome # "denied"
                         /\ e.outcome = "success" => e.after = wrote[r].after

(* A record of success is never wrong about a live change: the change was  *)
(* made, and what is recorded as after is what was put in place.           *)
RecordsAreTrue ==
    \A e \in trail :
        LET r == e.req
        IN  e.outcome = "success" /\ ~Proposes(input[r])
            => wrote[r].done /\ e.after = wrote[r].after

(* A caller without the role, a caller who asked for a preview of an       *)
(* exclusion or of an AI change to a manifest, and a caller who was told   *)
(* no, changed nothing and proposed nothing.                               *)
RefusedChangesNothing ==
    \A r \in Req :
        \/ ~input[r].allowed
        \/ input[r].via = "dry" /\ input[r].op \in {"exclude", "ai-action", "ai-exclude"}
        \/ reply[r] \in {"forbidden", "invalid", "denied", "dry"}
        => ~wrote[r].done /\ r \notin prs

(* exclusions.md: an exclusion is merged into the live policy.  What was   *)
(* excluded when the new manifest was put in place still is, and what was  *)
(* asked for as well.  The handlers have no check of their own; it takes   *)
(* an API server that refuses a stale version.                             *)
MergedIntoLive ==
    serverSide => \A r \in Req : wrote[r].done /\ input[r].op \in Excludes =>
        /\ wrote[r].before # Absent
        /\ wrote[r].after.excl = wrote[r].before.excl \cup input[r].vals

(* No chain of console changes loses the exemption: a console-made policy  *)
(* without it goes back to one made by hand without it.                    *)
ExemptUnlessByHand ==
    author = "console" /\ live # Absent /\ ~live.exempt => bareHand

(* All of it together: to those who ask and to those who read the records  *)
(* the handlers are an AuditedPolicy.  A change is one step, the Apply or  *)
(* the Delete, of a handler that has changed nothing before; what a        *)
(* handler has in hand meanwhile (cur, out, entry) is its own.  What is    *)
(* recorded of it is the policy that was there after the merge.            *)
Life(r) == IF pc[r] = "idle" THEN "new"
           ELSE IF pc[r] \in {"done", "gone"} THEN "over" ELSE "open"
AsksFor(i) == IF ~i.allowed \/ Previews(i) THEN "nothing"
              ELSE IF Proposes(i) THEN "proposal" ELSE "change"
Effect(r) == IF wrote[r].done THEN {wrote[r].after} ELSE {}
Told(e) == IF e.outcome = "success"
           THEN [req |-> e.req, outcome |-> "success", after |-> e.after]
           ELSE [req |-> e.req, outcome |-> e.outcome]

Harmless == {m \in Manifest : ~m.protected} \cup {Absent}
Allowed == [m \in MaybeManifest |-> IF m \in Harmless THEN Harmless ELSE MaybeManifest]

Audited == INSTANCE AuditedPolicy WITH
    Policies <- MaybeManifest,
    Accepted <- Allowed,
    life <- [r \in Req |-> Life(r)],
    asks <- [r \in Req |-> AsksFor(input[r])],
    put <- [r \in Req |-> Effect(r)],
    trail <- {Told(e) : e \in trail}

ImplementsAudited == Audited!Spec

-----------------------------------------------------------------------------
(* What the repository says and the code does not do. *)

(* openapi.yaml: dryRun returns the mutated manifest and diff without      *)
(* applying.  It is a parameter of /api/v1/ai/apply, whatever the kind.    *)
DryRunChangesNothing ==
    \A r \in Req : wrote[r].done /\ input[r].via = "dry" =>
        input[r].op \notin {"exclude", "ai-action", "ai-exclude", "ai-disable"}
=============================================================================
