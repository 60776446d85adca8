------------------------ MODULE PolicyChangeProofs ------------------------
(***************************************************************************)
(* Theorems about PolicyChange, for any set of requests and inputs, any    *)
(* number of edits by hand and of process exits.                           *)
(*                                                                         *)
(* The properties speak of what a finished handler has done, so the        *)
(* invariant says what each step of a handler still has in hand: before    *)
(* its call it has changed nothing, the manifest it is about to apply has  *)
(* passed the guard and kept the exemption and the exclusions of the one   *)
(* it was built from, and the record it is about to write tells what the   *)
(* call did.                                                               *)
(***************************************************************************)
EXTENDS PolicyChange, TLAPS

Before == {"idle", "get", "apply", "delete", "pr"}

(* A handler that has not made its call has changed and told nothing. *)
NothingYet(r) ==
    pc[r] \in Before => ~wrote[r].done /\ r \notin prs /\ reply[r] = "none"

(* A handler past the checks at its top may make the change. *)
MayGoOn(r) ==
    /\ pc[r] \in {"get", "apply", "delete", "pr", "record"} => input[r].allowed
    /\ pc[r] \in {"apply", "delete", "pr"} => ~Previews(input[r])
    /\ pc[r] = "pr" => Proposes(input[r])
    /\ pc[r] \in {"apply", "delete"} => ~Proposes(input[r])

(* What deletes is not an exclusion. *)
Deleting(r) == pc[r] = "delete" => input[r].op \in {"delete", "ai-disable"}

(* A submitted manifest waits, checked and exempted, for the read. *)
Submitted(r) ==
    pc[r] = "get" /\ input[r].op = "apply" =>
        out[r] \in Manifest /\ ~out[r].protected /\ out[r].exempt

(* What is about to be applied passed the guard, leaves the console out    *)
(* unless someone made the policy without that, and merges exclusions.     *)
ReadyToApply(r) ==
    pc[r] = "apply" =>
        /\ out[r] \in Manifest
        /\ ~out[r].protected
        /\ out[r].exempt \/ bareHand
        /\ input[r].op # "apply" => cur[r] \in Manifest /\ ~cur[r].protected
        /\ input[r].op \in Excludes =>
              cur[r] \in Manifest /\ out[r].excl = cur[r].excl \cup input[r].vals

(* What is about to be recorded is what happened. *)
ReadyToRecord(r) ==
    pc[r] = "record" =>
        /\ entry[r].req = r
        /\ wrote[r].done =>
              /\ entry[r].outcome # "denied"
              /\ entry[r].outcome = "success" => entry[r].after = wrote[r].after
        /\ r \in prs => entry[r].outcome # "denied"
        /\ entry[r].outcome = "success" /\ ~Proposes(input[r]) => wrote[r].done
        /\ reply[r] \in {"none", "ok", "error"}

(* Nobody who was refused changed or proposed anything. *)
NotRefused(r) ==
    \/ ~input[r].allowed
    \/ Previews(input[r])
    \/ reply[r] \in {"forbidden", "invalid", "denied", "dry"}
    => ~wrote[r].done /\ r \notin prs

(* An exclusion was merged into what it replaced. *)
Merged(r) ==
    serverSide /\ wrote[r].done /\ input[r].op \in Excludes =>
        /\ wrote[r].before # Absent
        /\ wrote[r].after.excl = wrote[r].before.excl \cup input[r].vals

(* What an apply put in place selects a protected namespace only where     *)
(* kubectl had it do so, and a submitted manifest was merged into that.    *)
Guarded(r) ==
    LET w == wrote[r]
    IN  w.done /\ w.after # Absent /\ w.after.protected
        => /\ serverSide /\ input[r].op = "apply"
           /\ w.before # Absent /\ w.before.protected

RInv(r) == /\ NothingYet(r) /\ MayGoOn(r) /\ Deleting(r)
           /\ Submitted(r) /\ ReadyToApply(r)
           /\ ReadyToRecord(r) /\ NotRefused(r) /\ Merged(r) /\ Guarded(r)

(* The policy: what it selects of protected namespaces is kubectl's, and   *)
(* it leaves the console out or goes back to one that did not.             *)
LiveInv == /\ theirs.protected <=> (live # Absent /\ live.protected)
           /\ live # Absent => live.exempt \/ bareHand

(* A record is of a request that is done, and its success is true. *)
TrailInv == \A e \in trail : /\ pc[e.req] = "done"
                             /\ e.outcome = "success" /\ ~Proposes(input[e.req])
                                => wrote[e.req].done /\ e.after = wrote[e.req].after

IInv == /\ TypeOK /\ LiveInv /\ TrailInv /\ WritesAreRecorded
        /\ \A r \in Req : RInv(r)

-----------------------------------------------------------------------------
(* The handlers compute manifests from manifests; none of them touches the *)
(* namespaces a manifest selects, and only Exempt touches the exemption.   *)
LEMMA Computed ==
    ASSUME NEW m \in Manifest, NEW i \in Input
    PROVE  /\ Exempt(m) \in Manifest
           /\ Exempt(m).protected = m.protected
           /\ Exempt(m).exempt
           /\ Mutate(i, m) \in Manifest
           /\ Mutate(i, m).exempt = m.exempt
           /\ Mutate(i, m).protected = m.protected
           /\ i.op \in Excludes => Mutate(i, m).excl = m.excl \cup i.vals
<1>1. Exempt(m) \in Manifest /\ Exempt(m).protected = m.protected /\ Exempt(m).exempt
  BY DEF Exempt, Manifest
<1>2. /\ SetTracingAction(m, i.mode) \in Manifest
      /\ SetTracingAction(m, i.mode).exempt = m.exempt
      /\ SetTracingAction(m, i.mode).protected = m.protected
  BY DEF SetTracingAction, Manifest, Input, Modes
<1>3. /\ ApplyExclusions(m, i.vals) \in Manifest
      /\ ApplyExclusions(m, i.vals).exempt = m.exempt
      /\ ApplyExclusions(m, i.vals).protected = m.protected
      /\ ApplyExclusions(m, i.vals).excl = m.excl \cup i.vals
  BY DEF ApplyExclusions, Manifest, Input, Modes
<1>4. i.op \in Excludes => i.op \notin Sets
  BY DEF Excludes, Sets
<1>5. QED
  BY <1>1, <1>2, <1>3, <1>4 DEF Mutate

(* What kubectl keeps is a part of what it had, and a merge adds no more   *)
(* than that part.                                                         *)
LEMMA KeptParts ==
    ASSUME TypeOK, NEW r \in Req, NEW kept \in Kept(r)
    PROVE  /\ kept \in Manifest
           /\ kept.protected => serverSide /\ theirs.protected
<1>1. Nothing \in Manifest /\ Nothing.protected = FALSE
  BY DEF Nothing, Manifest, Modes
<1>2. ASSUME NEW p \in Survivors(theirs)
      PROVE  p \in Manifest /\ (p.protected => theirs.protected)
  BY <1>1 DEF Survivors, TypeOK, Manifest
<1>3. kept = Nothing \/ (kept \in Survivors(theirs) /\ serverSide)
  BY DEF Kept, TypeOK
<1>4. QED
  BY <1>1, <1>2, <1>3

LEMMA MergeAdds ==
    ASSUME NEW m \in Manifest, NEW kept \in Manifest
    PROVE  /\ Merge(m, kept) \in Manifest
           /\ Merge(m, kept).exempt = m.exempt
           /\ Merge(m, kept).protected = (m.protected \/ kept.protected)
BY DEF Merge, Manifest

(* What kubectl writes is a manifest, of which it owns every part. *)
LEMMA PartsAreManifests ==
    ASSUME NEW m \in MaybeManifest
    PROVE  /\ PartsOf(m) \in Manifest
           /\ m # Absent => PartsOf(m).protected = m.protected
           /\ m = Absent => ~PartsOf(m).protected
<1>1. Nothing \in Manifest /\ ~Nothing.protected
  BY DEF Nothing, Manifest, Modes
<1>2. QED
  BY <1>1 DEF PartsOf, MaybeManifest, Manifest

(* What is known of a request that a step leaves alone stays known. *)
LEMMA Frame ==
    ASSUME NEW q, RInv(q),
           pc'[q] = pc[q], input'[q] = input[q], cur'[q] = cur[q], out'[q] = out[q],
           entry'[q] = entry[q], reply'[q] = reply[q], wrote'[q] = wrote[q],
           (q \in prs') <=> (q \in prs),
           bareHand => bareHand', serverSide' = serverSide
    PROVE  RInv(q)'
<1>1. NothingYet(q)' /\ MayGoOn(q)' /\ Deleting(q)'
  BY DEF RInv, NothingYet, MayGoOn, Deleting, Previews, Proposes
<1>2. Submitted(q)' /\ ReadyToApply(q)'
  BY DEF RInv, Submitted, ReadyToApply
<1>3. ReadyToRecord(q)'
  BY DEF RInv, ReadyToRecord, Proposes
<1>4. NotRefused(q)' /\ Merged(q)' /\ Guarded(q)'
  BY DEF RInv, NotRefused, Merged, Guarded, Previews
<1>5. QED
  BY <1>1, <1>2, <1>3, <1>4 DEF RInv

(* A step of one handler, short of writing its record, preserves the       *)
(* invariant when it does so for its own request and for the policy.       *)
SameFor(q) == /\ pc'[q] = pc[q] /\ input'[q] = input[q] /\ cur'[q] = cur[q]
              /\ out'[q] = out[q] /\ entry'[q] = entry[q] /\ reply'[q] = reply[q]
              /\ wrote'[q] = wrote[q] /\ ((q \in prs') <=> (q \in prs))

LEMMA StepOf ==
    ASSUME IInv, NEW r \in Req, pc[r] # "done", trail' = trail,
           \A q \in Req \ {r} : SameFor(q),
           bareHand' = bareHand, serverSide' = serverSide,
           pc'[r] = "done" => ~wrote'[r].done,
           TypeOK', LiveInv', RInv(r)'
    PROVE  IInv'
<1>1. \A q \in Req : RInv(q)'
  <2> TAKE q \in Req
  <2>1. CASE q = r
    BY <2>1
  <2>2. CASE q # r
    BY <2>2, Frame DEF IInv, SameFor
  <2>3. QED
    BY <2>1, <2>2
<1>2. TrailInv'
  <2> SUFFICES ASSUME NEW e \in trail'
               PROVE  /\ pc'[e.req] = "done"
                      /\ e.outcome = "success" /\ ~Proposes(input'[e.req])
                         => wrote'[e.req].done /\ e.after = wrote'[e.req].after
    BY DEF TrailInv, Proposes
  <2>1. e.req \in Req \ {r}
    BY DEF IInv, TrailInv, TypeOK, Record
  <2>2. QED
    BY <2>1 DEF IInv, TrailInv, SameFor
<1>3. WritesAreRecorded'
  BY DEF IInv, WritesAreRecorded, SameFor
<1>4. QED
  BY <1>1, <1>2, <1>3 DEF IInv

-----------------------------------------------------------------------------
LEMMA InitEstablishes == Init => IInv
<1> SUFFICES ASSUME Init PROVE IInv
  OBVIOUS
<1> USE DEF Init
<1>1. /\ live \in MaybeManifest /\ theirs \in Manifest
      /\ theirs.protected <=> (live # Absent /\ live.protected)
  BY InputsAssumption, PartsAreManifests DEF MaybeManifest
<1>2. TypeOK
  BY <1>1, InputsAssumption, BoundsAssumption
     DEF TypeOK, MaybeManifest, Steps, Replies, Record, Outcomes, Blank, Write, NoWrite
<1>3. LiveInv
  BY <1>1 DEF LiveInv
<1>4. TrailInv /\ WritesAreRecorded
  BY DEF TrailInv, WritesAreRecorded
<1>5. ASSUME NEW r \in Req PROVE RInv(r)
  BY DEF RInv, NothingYet, MayGoOn, Deleting, Submitted, ReadyToApply, ReadyToRecord,
         NotRefused, Merged, Guarded, NoWrite
<1>6. QED
  BY <1>2, <1>3, <1>4, <1>5 DEF IInv

(* A new request changes nothing yet. *)
LEMMA ArrivePreserves ==
    ASSUME IInv, NEW r \in Req, NEW i \in Inputs, Arrive(r, i)
    PROVE  IInv'
<1> USE DEF Arrive, Answer, ToRecord, ToCall, Goto, policy, world
<1>1. i \in Input
  BY InputsAssumption
<1>2. /\ i.op = "apply" => Exempt(i.body) \in Manifest
      /\ Exempt(i.body).exempt
      /\ Exempt(i.body).protected = i.body.protected
  BY <1>1, Computed DEF Input
<1>3. /\ pc[r] = "idle" /\ trail' = trail /\ wrote' = wrote /\ prs' = prs
      /\ ~wrote[r].done /\ r \notin prs /\ reply[r] = "none"
  BY DEF IInv, RInv, NothingYet, Before
<1>4. TypeOK'
  BY <1>1, <1>2 DEF IInv, TypeOK, Steps, Replies, Record, Outcomes, MaybeManifest
<1>5. \A q \in Req \ {r} : SameFor(q)
  BY DEF IInv, TypeOK, SameFor
<1>6. LiveInv'
  BY DEF IInv, LiveInv
<1>7. NothingYet(r)'
  BY <1>3 DEF NothingYet, Before, IInv, TypeOK
<1>8. MayGoOn(r)' /\ Deleting(r)'
  BY <1>3 DEF MayGoOn, Deleting, IInv, TypeOK
<1>9. Submitted(r)' /\ ReadyToApply(r)'
  BY <1>2, <1>3 DEF Submitted, ReadyToApply, Rejected, IInv, TypeOK
<1>10. ReadyToRecord(r)'
  BY <1>3 DEF ReadyToRecord, IInv, TypeOK
<1>11. NotRefused(r)' /\ Merged(r)' /\ Guarded(r)'
  BY <1>3 DEF NotRefused, Merged, Guarded
<1>12. RInv(r)'
  BY <1>7, <1>8, <1>9, <1>10, <1>11 DEF RInv
<1>13. QED
  BY <1>3, <1>4, <1>5, <1>6, <1>12, StepOf

(* A read changes nothing. *)
LEMMA GetForRecordPreserves ==
    ASSUME IInv, NEW r \in Req, NEW got \in MaybeManifest, GetForRecord(r, got)
    PROVE  IInv'
<1> USE DEF GetForRecord, ToCall, Goto, policy, world
<1>1. /\ pc[r] = "get" /\ trail' = trail /\ wrote' = wrote /\ prs' = prs
      /\ ~wrote[r].done /\ r \notin prs /\ reply[r] = "none"
      /\ input[r].allowed /\ ~Previews(input[r]) /\ input' = input
  BY DEF IInv, RInv, NothingYet, Before, MayGoOn, Previews
<1>2. TypeOK'
  BY DEF IInv, TypeOK, Steps, MaybeManifest
<1>3. \A q \in Req \ {r} : SameFor(q)
  BY DEF IInv, TypeOK, SameFor
<1>4. LiveInv'
  BY DEF IInv, LiveInv
<1>5. pc'[r] \in {"delete", "pr", "apply"}
  BY DEF IInv, TypeOK
<1>6. NothingYet(r)' /\ MayGoOn(r)' /\ Deleting(r)'
  BY <1>1, <1>5 DEF NothingYet, MayGoOn, Deleting, Previews, Proposes, IInv, TypeOK
<1>7. Submitted(r)' /\ ReadyToApply(r)'
  BY <1>1, <1>5 DEF Submitted, ReadyToApply, IInv, RInv, Excludes, TypeOK
<1>8. ReadyToRecord(r)' /\ NotRefused(r)' /\ Merged(r)' /\ Guarded(r)'
  BY <1>1, <1>5 DEF ReadyToRecord, NotRefused, Merged, Guarded, Previews
<1>9. RInv(r)'
  BY <1>6, <1>7, <1>8 DEF RInv
<1>10. QED
  BY <1>1, <1>2, <1>3, <1>4, <1>5, <1>9, StepOf

LEMMA GetToDisablePreserves ==
    ASSUME IInv, NEW r \in Req, NEW got \in MaybeManifest, GetToDisable(r, got)
    PROVE  IInv'
<1> USE DEF GetToDisable, Answer, ToCall, Goto, policy, world
<1>1. /\ pc[r] = "get" /\ trail' = trail /\ wrote' = wrote /\ prs' = prs
      /\ ~wrote[r].done /\ r \notin prs /\ reply[r] = "none"
      /\ input[r].allowed /\ ~Previews(input[r]) /\ input' = input
  BY DEF IInv, RInv, NothingYet, Before, MayGoOn, Previews
<1>2. TypeOK'
  BY DEF IInv, TypeOK, Steps, MaybeManifest, Replies
<1>3. \A q \in Req \ {r} : SameFor(q)
  BY DEF IInv, TypeOK, SameFor
<1>4. LiveInv'
  BY DEF IInv, LiveInv
<1>5. pc'[r] = "done" \/ (pc'[r] = "delete" /\ reply' = reply)
  BY DEF IInv, TypeOK
<1>6. NothingYet(r)' /\ MayGoOn(r)' /\ Deleting(r)'
  BY <1>1, <1>5 DEF NothingYet, MayGoOn, Deleting, Before, Previews, Proposes
<1>7. Submitted(r)' /\ ReadyToApply(r)' /\ ReadyToRecord(r)'
  BY <1>5 DEF Submitted, ReadyToApply, ReadyToRecord
<1>8. NotRefused(r)' /\ Merged(r)' /\ Guarded(r)'
  BY <1>1 DEF NotRefused, Merged, Guarded
<1>9. RInv(r)'
  BY <1>6, <1>7, <1>8 DEF RInv
<1>10. QED
  BY <1>1, <1>2, <1>3, <1>4, <1>9, StepOf

(* The manifest built from the policy is checked before it goes on. *)
LEMMA GetToChangePreserves ==
    ASSUME IInv, NEW r \in Req, NEW got \in MaybeManifest, GetToChange(r, got)
    PROVE  IInv'
<1> DEFINE i == input[r]
           m == Mutate(i, got)
<1>1. /\ pc[r] = "get" /\ trail' = trail /\ wrote' = wrote /\ prs' = prs
      /\ ~wrote[r].done /\ r \notin prs /\ reply[r] = "none"
      /\ i.allowed /\ input' = input /\ bareHand' = bareHand
      /\ live' = live /\ theirs' = theirs /\ author' = author
      /\ serverSide' = serverSide /\ edits' = edits /\ exits' = exits
  BY DEF GetToChange, policy, world, IInv, RInv, NothingYet, Before, MayGoOn
<1>2. i \in Input
  BY <1>1, InputsAssumption DEF IInv, TypeOK, GetToChange, NoInput, Input, Ops, Modes,
     Manifest
<1>3. got # Absent => /\ got = live /\ got \in Manifest /\ m \in Manifest
                      /\ m.exempt \/ bareHand
                      /\ m.protected = got.protected
                      /\ i.op \in Excludes => m.excl = got.excl \cup i.vals
  BY <1>1, <1>2, Computed DEF GetToChange, IInv, LiveInv, MaybeManifest
<1>4. /\ cur' = [cur EXCEPT ![r] = got]
      /\ out' = [out EXCEPT ![r] = m] \/ out' = out
      /\ \/ /\ pc' = [pc EXCEPT ![r] = "done"]
            /\ \E w \in {"error", "invalid", "denied", "dry"} :
                  reply' = [reply EXCEPT ![r] = w]
            /\ entry' = entry
         \/ /\ pc' = [pc EXCEPT ![r] = "record"]
            /\ \E b \in {got, Absent} :
                  entry' = [entry EXCEPT ![r] = [req |-> r, outcome |-> "denied",
                                                 before |-> b, after |-> Absent]]
            /\ reply' = reply
         \/ /\ \E step \in {"pr", "apply"} :
                  (pc' = [pc EXCEPT ![r] = step] /\ (step = "pr" <=> Proposes(i)))
            /\ got # Absent /\ out' = [out EXCEPT ![r] = m]
            /\ ~Rejected(m) /\ ~Previews(i)
            /\ entry' = entry /\ reply' = reply
  BY DEF GetToChange, Answer, ToRecord, ToCall, Goto
<1>5. out' = out \/ (out' = [out EXCEPT ![r] = m] /\ m \in Manifest)
  BY <1>3, <1>4 DEF GetToChange
<1>6. TypeOK'
  <2>1. pc' \in [Req -> Steps] /\ reply' \in [Req -> Replies]
    BY <1>4 DEF IInv, TypeOK, Steps, Replies
  <2>2. entry' \in [Req -> Record]
    <3>1. \A b \in {got, Absent} : [req |-> r, outcome |-> "denied",
                                   before |-> b, after |-> Absent] \in Record
      BY DEF MaybeManifest, Record, Outcomes
    <3>2. QED
      BY <1>4, <3>1 DEF IInv, TypeOK
  <2>3. cur' \in [Req -> MaybeManifest] /\ out' \in [Req -> MaybeManifest]
    BY <1>4, <1>5 DEF IInv, TypeOK, MaybeManifest
  <2>4. QED
    BY <1>1, <2>1, <2>2, <2>3 DEF IInv, TypeOK
<1>7. \A q \in Req \ {r} : SameFor(q)
  BY <1>1, <1>4 DEF IInv, TypeOK, SameFor
<1>8. LiveInv'
  BY <1>1 DEF IInv, LiveInv
<1>9. NothingYet(r)' /\ MayGoOn(r)' /\ Deleting(r)'
  BY <1>1, <1>4 DEF NothingYet, MayGoOn, Deleting, Before, Previews, Proposes, IInv, TypeOK
<1>10. Submitted(r)' /\ ReadyToApply(r)'
  BY <1>1, <1>3, <1>4 DEF Submitted, ReadyToApply, Rejected, IInv, TypeOK
<1>11. ReadyToRecord(r)'
  BY <1>1, <1>4 DEF ReadyToRecord, IInv, TypeOK
<1>12. NotRefused(r)' /\ Merged(r)' /\ Guarded(r)'
  BY <1>1 DEF NotRefused, Merged, Guarded
<1>13. RInv(r)'
  BY <1>9, <1>10, <1>11, <1>12 DEF RInv
<1>14. QED
  BY <1>1, <1>6, <1>7, <1>8, <1>13, StepOf

-----------------------------------------------------------------------------
(* A write by a handler keeps what is known of the policy if what it puts  *)
(* in place does.                                                          *)
LEMMA PutPreserves ==
    ASSUME TypeOK, NEW r \in Req, NEW m \in MaybeManifest, NEW kept \in Manifest,
           Put(r, m, kept), bareHand' = bareHand,
           kept.protected <=> (m # Absent /\ m.protected),
           m # Absent => m.exempt \/ bareHand
    PROVE  /\ LiveInv'
           /\ wrote' \in [Req -> Write]
           /\ live' \in MaybeManifest
           /\ theirs' \in Manifest
           /\ wrote'[r] = [before |-> live, after |-> m, done |-> TRUE]
           /\ \A q \in Req \ {r} : wrote'[q] = wrote[q]
<1>1. [before |-> live, after |-> m, done |-> TRUE] \in Write
  BY DEF Write, TypeOK
<1>2. QED
  BY <1>1 DEF Put, LiveInv, TypeOK

(* What an apply may put in place: the manifest that was checked, or that  *)
(* with kubectl's part of the policy.  A policy that selects a protected   *)
(* namespace has nothing computed from it applied.                         *)
LEMMA WhatIsApplied ==
    ASSUME IInv, NEW r \in Req, pc[r] = "apply", Accepts(r), NEW kept \in Kept(r)
    PROVE  /\ kept \in Manifest
           /\ Applied(r, kept) \in Manifest
           /\ Applied(r, kept).exempt \/ bareHand
           /\ Applied(r, kept).protected <=> kept.protected
           /\ kept.protected => /\ theirs.protected
                                /\ serverSide /\ input[r].op = "apply"
           /\ input[r].op # "apply" => Applied(r, kept) = out[r]
<1>1. /\ out[r] \in Manifest /\ ~out[r].protected /\ (out[r].exempt \/ bareHand)
      /\ input[r].op # "apply" => cur[r] \in Manifest /\ ~cur[r].protected
  BY DEF IInv, RInv, ReadyToApply
<1>2. kept \in Manifest /\ (kept.protected => serverSide /\ theirs.protected)
  BY KeptParts DEF IInv
<1>3. CASE input[r].op = "apply"
  <2>1. /\ Merge(out[r], kept) \in Manifest
        /\ Merge(out[r], kept).exempt = out[r].exempt
        /\ Merge(out[r], kept).protected <=> (out[r].protected \/ kept.protected)
    BY <1>1, <1>2, MergeAdds
  <2>2. QED
    BY <1>1, <1>2, <1>3, <2>1 DEF Applied
<1>4. CASE input[r].op # "apply"
  <2>1. ~kept.protected
    BY <1>1, <1>2, <1>4 DEF IInv, LiveInv, Accepts
  <2>2. QED
    BY <1>1, <1>2, <1>4, <2>1 DEF Applied
<1>5. QED
  BY <1>3, <1>4

(* Apply puts the checked manifest in place, merged or not, or nothing,    *)
(* and the record that follows says which, an error apart.                 *)
Entered(r, o, b, a) == entry' = [entry EXCEPT ![r] = [req |-> r, outcome |-> o,
                                                      before |-> b, after |-> a]]
PutApplied(r) == /\ Accepts(r)
                 /\ \E kept \in Kept(r) : Put(r, Applied(r, kept), kept)

LEMMA ApplyTells ==
    ASSUME IInv, NEW r \in Req, APIApply(r)
    PROVE  /\ pc' = [pc EXCEPT ![r] = "record"] /\ reply' = reply
           /\ \/ /\ PutApplied(r)
                 /\ \E b, a \in MaybeManifest :
                       Entered(r, "error", b, a) \/ (Entered(r, "success", b, a) /\ a = live')
              \/ /\ wrote' = wrote /\ UNCHANGED policy
                 /\ \E b, a \in MaybeManifest : Entered(r, "error", b, a)
<1>1. pc[r] = "apply" /\ cur[r] \in MaybeManifest /\ out[r] \in MaybeManifest
      /\ Absent \in MaybeManifest
  BY DEF APIApply, IInv, TypeOK, MaybeManifest
<1>2. ErrorRecord(r) =>
         /\ pc' = [pc EXCEPT ![r] = "record"] /\ reply' = reply
         /\ \E b, a \in MaybeManifest : Entered(r, "error", b, a)
  BY <1>1 DEF ErrorRecord, ToRecord, Goto, Entered
<1>3. CASE PutNothing /\ ErrorRecord(r)
  BY <1>2, <1>3 DEF PutNothing
<1>4. ASSUME Accepts(r), NEW kept \in Kept(r), Put(r, Applied(r, kept), kept),
             \/ ToRecord(r, "success", cur[r], Applied(r, kept))
             \/ ErrorRecord(r)
      PROVE  /\ pc' = [pc EXCEPT ![r] = "record"] /\ reply' = reply
             /\ PutApplied(r)
             /\ \E b, a \in MaybeManifest :
                   Entered(r, "error", b, a) \/ (Entered(r, "success", b, a) /\ a = live')
  <2>1. Applied(r, kept) \in MaybeManifest /\ live' = Applied(r, kept)
    BY <1>1, <1>4, WhatIsApplied DEF MaybeManifest, Put
  <2>2. PutApplied(r)
    BY <1>4 DEF PutApplied
  <2>3. CASE ErrorRecord(r)
    BY <1>2, <2>2, <2>3
  <2>4. CASE ToRecord(r, "success", cur[r], Applied(r, kept))
    <3>1. Entered(r, "success", cur[r], Applied(r, kept))
      BY <2>4 DEF ToRecord, Entered
    <3>2. QED
      BY <1>1, <2>1, <2>2, <2>4, <3>1 DEF ToRecord, Goto
  <2>5. QED
    BY <1>4, <2>3, <2>4
<1>5. QED
  BY <1>3, <1>4 DEF APIApply

LEMMA ApplyPreserves ==
    ASSUME IInv, NEW r \in Req, APIApply(r)
    PROVE  IInv'
<1> USE DEF policy, world
<1>1. /\ pc[r] = "apply" /\ trail' = trail /\ prs' = prs /\ input' = input
      /\ cur' = cur /\ out' = out
      /\ ~wrote[r].done /\ r \notin prs /\ reply[r] = "none"
      /\ input[r].allowed /\ ~Previews(input[r])
      /\ bareHand' = bareHand /\ serverSide' = serverSide
      /\ edits' = edits /\ exits' = exits
  BY DEF APIApply, IInv, RInv, NothingYet, Before, MayGoOn
<1>2. input[r].op \in Excludes =>
         cur[r] \in Manifest /\ out[r].excl = cur[r].excl \cup input[r].vals
  BY <1>1 DEF IInv, RInv, ReadyToApply
<1>3. /\ pc' = [pc EXCEPT ![r] = "record"]
      /\ reply' = reply
  BY ApplyTells
<1>4. /\ LiveInv' /\ wrote' \in [Req -> Write] /\ live' \in MaybeManifest
      /\ theirs' \in Manifest
      /\ \A q \in Req \ {r} : wrote'[q] = wrote[q]
      /\ author' \in {"kubectl", "console"}
      /\ wrote'[r].done =>
            /\ Accepts(r) /\ Guarded(r)'
            /\ wrote'[r].before = live
            /\ input[r].op # "apply" => wrote'[r].after = out[r]
      /\ PutApplied(r) => wrote'[r].done /\ wrote'[r].after = live'
  <2>1. CASE PutApplied(r)
    <3>1. Accepts(r)
      BY <2>1 DEF PutApplied
    <3>2. PICK kept \in Kept(r) : Put(r, Applied(r, kept), kept)
      BY <2>1 DEF PutApplied
    <3>3. /\ kept \in Manifest /\ Applied(r, kept) \in Manifest
          /\ Applied(r, kept) \in MaybeManifest /\ Applied(r, kept) # Absent
          /\ Applied(r, kept).exempt \/ bareHand
          /\ Applied(r, kept).protected <=> kept.protected
          /\ kept.protected => /\ theirs.protected
                               /\ serverSide /\ input[r].op = "apply"
          /\ input[r].op # "apply" => Applied(r, kept) = out[r]
      BY <1>1, <3>1, WhatIsApplied, AbsentAssumption DEF MaybeManifest
    <3>4. /\ LiveInv' /\ wrote' \in [Req -> Write]
          /\ live' \in MaybeManifest /\ theirs' \in Manifest
          /\ wrote'[r] = [before |-> live, after |-> Applied(r, kept), done |-> TRUE]
          /\ \A q \in Req \ {r} : wrote'[q] = wrote[q]
      BY <1>1, <3>2, <3>3, PutPreserves DEF IInv
    <3>5. live' = Applied(r, kept) /\ author' = "console"
      BY <3>2 DEF Put
    <3>6. Guarded(r)'
      BY <1>1, <3>3, <3>4 DEF Guarded, IInv, LiveInv
    <3>7. QED
      BY <3>1, <3>3, <3>4, <3>5, <3>6
  <2>2. CASE wrote' = wrote /\ UNCHANGED policy /\ ~PutApplied(r)
    BY <2>2, <1>1 DEF IInv, TypeOK, LiveInv
  <2>3. QED
    BY <2>1, <2>2, ApplyTells
<1>5. \E o \in {"success", "error"}, b, a \in MaybeManifest :
         Entered(r, o, b, a) /\ (o = "success" => PutApplied(r) /\ a = live')
  BY ApplyTells
<1>6. PICK o \in {"success", "error"}, b \in MaybeManifest, a \in MaybeManifest :
         Entered(r, o, b, a) /\ (o = "success" => PutApplied(r) /\ a = live')
  BY <1>5
<1>7. TypeOK'
  <2>1. [req |-> r, outcome |-> o, before |-> b, after |-> a] \in Record
    BY DEF Record, Outcomes
  <2>2. entry' \in [Req -> Record]
    BY <1>6, <2>1 DEF IInv, TypeOK, Entered
  <2>3. pc' \in [Req -> Steps]
    BY <1>3 DEF IInv, TypeOK, Steps
  <2>4. QED
    BY <1>1, <1>3, <1>4, <2>2, <2>3 DEF IInv, TypeOK
<1>8. \A q \in Req \ {r} : SameFor(q)
  BY <1>1, <1>3, <1>4, <1>6 DEF IInv, TypeOK, SameFor, Entered
<1>9. /\ NothingYet(r)' /\ MayGoOn(r)' /\ Deleting(r)' /\ Submitted(r)'
      /\ ReadyToApply(r)'
  BY <1>1, <1>3 DEF NothingYet, MayGoOn, Deleting, Submitted, ReadyToApply, Before, IInv, TypeOK
<1>10. ReadyToRecord(r)'
  <2>1. entry'[r].req = r /\ entry'[r].outcome = o /\ entry'[r].after = a
    BY <1>6 DEF IInv, TypeOK, Entered
  <2>2. o = "success" => wrote'[r].done /\ a = wrote'[r].after
    BY <1>4, <1>6
  <2>3. wrote'[r].done => o = "error" \/ a = wrote'[r].after
    BY <2>2
  <2>4. QED
    BY <1>1, <1>3, <2>1, <2>2, <2>3 DEF ReadyToRecord
<1>11. NotRefused(r)'
  BY <1>1, <1>3 DEF NotRefused, Previews
<1>12. Merged(r)' /\ Guarded(r)'
  <2>1. ASSUME serverSide, wrote'[r].done, input[r].op \in Excludes
        PROVE  /\ wrote'[r].before # Absent
               /\ wrote'[r].after.excl = wrote'[r].before.excl \cup input[r].vals
    <3>1. input[r].op # "apply"
      BY <2>1 DEF Excludes
    <3>2. live = cur[r]
      BY <1>4, <2>1, <3>1 DEF Accepts
    <3>3. QED
      BY <1>2, <1>4, <2>1, <3>1, <3>2, AbsentAssumption
  <2>2. Merged(r)'
    BY <1>1, <2>1 DEF Merged
  <2>3. Guarded(r)'
    BY <1>4 DEF Guarded
  <2>4. QED
    BY <2>2, <2>3
<1>13. RInv(r)'
  BY <1>9, <1>10, <1>11, <1>12 DEF RInv
<1>14. QED
  BY <1>1, <1>3, <1>4, <1>7, <1>8, <1>13, StepOf DEF IInv, TypeOK

(* Delete removes the policy, or does nothing. *)
LEMMA DeletePreserves ==
    ASSUME IInv, NEW r \in Req, APIDelete(r)
    PROVE  IInv'
<1> USE DEF policy, world
<1>1. /\ pc[r] = "delete" /\ trail' = trail /\ prs' = prs /\ input' = input
      /\ cur' = cur /\ out' = out
      /\ ~wrote[r].done /\ r \notin prs /\ reply[r] = "none"
      /\ input[r].allowed /\ ~Previews(input[r])
      /\ bareHand' = bareHand /\ serverSide' = serverSide
      /\ edits' = edits /\ exits' = exits
  BY DEF APIDelete, IInv, RInv, NothingYet, Before, MayGoOn
<1>2. /\ pc' = [pc EXCEPT ![r] = "record"]
      /\ reply' = reply
      /\ (live # Absent /\ Put(r, Absent, Nothing)) \/ (wrote' = wrote /\ live' = live /\ theirs' = theirs /\ author' = author)
      /\ \E o \in {"success", "error"}, b \in MaybeManifest :
            /\ entry' = [entry EXCEPT ![r] = [req |-> r, outcome |-> o,
                                              before |-> b, after |-> Absent]]
            /\ o = "success" => Put(r, Absent, Nothing)
  BY DEF APIDelete, PutNothing, ToRecord, Goto, IInv, TypeOK, MaybeManifest
<1>3. PICK o \in {"success", "error"}, b \in MaybeManifest :
         /\ entry' = [entry EXCEPT ![r] = [req |-> r, outcome |-> o,
                                           before |-> b, after |-> Absent]]
         /\ o = "success" => Put(r, Absent, Nothing)
  BY <1>2
<1>4. /\ LiveInv' /\ wrote' \in [Req -> Write] /\ live' \in MaybeManifest
      /\ theirs' \in Manifest
      /\ \A q \in Req \ {r} : wrote'[q] = wrote[q]
      /\ author' \in {"kubectl", "console"}
      /\ wrote'[r].done => wrote'[r] = [before |-> live, after |-> Absent, done |-> TRUE]
      /\ Put(r, Absent, Nothing) => wrote'[r].done
  <2>1. CASE Put(r, Absent, Nothing)
    <3>1. Nothing \in Manifest /\ ~Nothing.protected
      BY DEF Nothing, Manifest, Modes
    <3>2. QED
      BY <2>1, <3>1, <1>1, PutPreserves DEF IInv, MaybeManifest, Put
  <2>2. CASE wrote' = wrote /\ live' = live /\ theirs' = theirs /\ author' = author /\ ~Put(r, Absent, Nothing)
    BY <2>2, <1>1 DEF IInv, TypeOK, LiveInv
  <2>3. QED
    BY <1>2, <2>1, <2>2
<1>5. TypeOK'
  <2>1. [req |-> r, outcome |-> o, before |-> b, after |-> Absent] \in Record
    BY DEF Record, Outcomes, MaybeManifest
  <2>2. entry' \in [Req -> Record]
    BY <1>3, <2>1 DEF IInv, TypeOK
  <2>3. pc' \in [Req -> Steps]
    BY <1>2 DEF IInv, TypeOK, Steps
  <2>4. QED
    BY <1>1, <1>2, <1>4, <2>2, <2>3 DEF IInv, TypeOK
<1>6. \A q \in Req \ {r} : SameFor(q)
  BY <1>1, <1>2, <1>3, <1>4 DEF IInv, TypeOK, SameFor
<1>7. /\ NothingYet(r)' /\ MayGoOn(r)' /\ Deleting(r)' /\ Submitted(r)'
      /\ ReadyToApply(r)'
  BY <1>1, <1>2 DEF NothingYet, MayGoOn, Deleting, Submitted, ReadyToApply, Before, IInv, TypeOK
<1>8. ReadyToRecord(r)'
  <2>1. entry'[r].req = r /\ entry'[r].outcome = o /\ entry'[r].after = Absent
    BY <1>3 DEF IInv, TypeOK
  <2>2. QED
    BY <1>1, <1>2, <1>3, <1>4, <2>1 DEF ReadyToRecord
<1>9. NotRefused(r)' /\ Merged(r)' /\ Guarded(r)'
  <2>1. input[r].op \notin Excludes
    BY <1>1 DEF IInv, RInv, Deleting, Excludes
  <2>2. QED
    BY <1>1, <1>2, <1>4, <2>1 DEF NotRefused, Merged, Guarded, Previews
<1>10. RInv(r)'
  BY <1>7, <1>8, <1>9 DEF RInv
<1>11. QED
  BY <1>1, <1>2, <1>4, <1>5, <1>6, <1>10, StepOf DEF IInv, TypeOK

(* A pull request leaves the policy alone. *)
LEMMA OpenPRPreserves ==
    ASSUME IInv, NEW r \in Req, OpenPR(r)
    PROVE  IInv'
<1> USE DEF policy, world
<1>1. /\ pc[r] = "pr" /\ trail' = trail /\ wrote' = wrote /\ input' = input
      /\ cur' = cur /\ out' = out /\ live' = live /\ theirs' = theirs /\ author' = author
      /\ ~wrote[r].done /\ input[r].allowed /\ ~Previews(input[r]) /\ Proposes(input[r])
      /\ bareHand' = bareHand /\ serverSide' = serverSide
      /\ edits' = edits /\ exits' = exits
  BY DEF OpenPR, IInv, RInv, NothingYet, Before, MayGoOn
<1>2. /\ prs' \in {prs, prs \cup {r}}
      /\ \E w \in {"ok", "error"} : reply' = [reply EXCEPT ![r] = w]
      /\ \/ pc' = [pc EXCEPT ![r] = "done"] /\ entry' = entry
         \/ /\ pc' = [pc EXCEPT ![r] = "record"]
            /\ entry' = [entry EXCEPT ![r] = [req |-> r, outcome |-> "success",
                                              before |-> cur[r], after |-> out[r]]]
  BY DEF OpenPR, Goto, Blank
<1>3. TypeOK'
  <2>1. [req |-> r, outcome |-> "success", before |-> cur[r], after |-> out[r]] \in Record
    BY DEF Record, Outcomes, IInv, TypeOK
  <2>2. entry' \in [Req -> Record]
    BY <1>2, <2>1 DEF IInv, TypeOK
  <2>3. pc' \in [Req -> Steps] /\ reply' \in [Req -> Replies] /\ prs' \subseteq Req
    BY <1>2 DEF IInv, TypeOK, Steps, Replies
  <2>4. QED
    BY <1>1, <2>2, <2>3 DEF IInv, TypeOK
<1>4. \A q \in Req \ {r} : SameFor(q)
  BY <1>1, <1>2 DEF IInv, TypeOK, SameFor
<1>5. LiveInv'
  BY <1>1 DEF IInv, LiveInv
<1>6. pc'[r] \in {"done", "record"} /\ reply'[r] \in {"ok", "error"}
  BY <1>2 DEF IInv, TypeOK
<1>7. /\ NothingYet(r)' /\ MayGoOn(r)' /\ Deleting(r)' /\ Submitted(r)'
      /\ ReadyToApply(r)'
  BY <1>1, <1>6 DEF NothingYet, MayGoOn, Deleting, Submitted, ReadyToApply, Before
<1>8. ReadyToRecord(r)'
  BY <1>1, <1>2, <1>6 DEF ReadyToRecord, IInv, TypeOK
<1>9. NotRefused(r)' /\ Merged(r)' /\ Guarded(r)'
  BY <1>1, <1>6 DEF NotRefused, Merged, Guarded, Previews
<1>10. RInv(r)'
  BY <1>7, <1>8, <1>9 DEF RInv
<1>11. QED
  BY <1>1, <1>3, <1>4, <1>5, <1>10, StepOf

(* Writing the record: it tells what the call did. *)
LEMMA WriteRecordPreserves ==
    ASSUME IInv, NEW r \in Req, WriteRecord(r)
    PROVE  IInv'
<1> USE DEF WriteRecord, Recorded, Goto, policy, world
<1>1. /\ pc[r] = "record" /\ entry[r] \in Record /\ entry[r].req = r
      /\ reply[r] \in {"none", "ok", "error"}
      /\ wrote[r].done =>
            /\ entry[r].outcome # "denied"
            /\ entry[r].outcome = "success" => entry[r].after = wrote[r].after
      /\ r \in prs => entry[r].outcome # "denied"
      /\ entry[r].outcome = "success" /\ ~Proposes(input[r]) => wrote[r].done
      /\ NotRefused(r) /\ Merged(r) /\ Guarded(r)
  BY DEF IInv, TypeOK, RInv, ReadyToRecord
<1>2. pc'[r] = "done" /\ pc' \in [Req -> Steps] /\ \A q \in Req \ {r} : pc'[q] = pc[q]
  BY DEF IInv, TypeOK, Steps
<1>3. entry[r].outcome \in Outcomes
  BY <1>1 DEF Record
<1>4. /\ reply'[r] = reply[r] \/ reply'[r] = ReplyFor[entry[r].outcome]
      /\ reply' \in [Req -> Replies]
      /\ \A q \in Req \ {r} : reply'[q] = reply[q]
  BY <1>3 DEF IInv, TypeOK, Replies, ReplyFor, Outcomes
<1>5. reply'[r] \in {"forbidden", "invalid", "denied", "dry"} => entry[r].outcome = "denied"
  BY <1>1, <1>3, <1>4 DEF ReplyFor, Outcomes
<1>6. TypeOK'
  BY <1>1, <1>2, <1>4 DEF IInv, TypeOK
<1>7. LiveInv'
  BY DEF IInv, LiveInv
<1>8. TrailInv'
  <2> SUFFICES ASSUME NEW e \in trail'
               PROVE  /\ pc'[e.req] = "done"
                      /\ e.outcome = "success" /\ ~Proposes(input'[e.req])
                         => wrote'[e.req].done /\ e.after = wrote'[e.req].after
    BY DEF TrailInv, Proposes
  <2>1. CASE e = entry[r]
    BY <2>1, <1>1, <1>2
  <2>2. CASE e \in trail
    <3>1. e.req \in Req
      BY <2>2 DEF IInv, TypeOK, Record
    <3>2. QED
      BY <2>2, <3>1, <1>2 DEF IInv, TrailInv
  <2>3. QED
    BY <2>1, <2>2
<1>9. WritesAreRecorded'
  <2> SUFFICES ASSUME NEW q \in Req, pc'[q] = "done", wrote'[q].done
               PROVE  \E e \in trail' :
                         /\ e.req = q
                         /\ e.outcome # "denied"
                         /\ e.outcome = "success" => e.after = wrote'[q].after
    BY DEF WritesAreRecorded
  <2>1. CASE q = r
    BY <2>1, <1>1
  <2>2. CASE q # r
    BY <2>2, <1>2 DEF IInv, WritesAreRecorded
  <2>3. QED
    BY <2>1, <2>2
<1>10. RInv(r)'
  <2>1. /\ NothingYet(r)' /\ MayGoOn(r)' /\ Deleting(r)' /\ Submitted(r)'
        /\ ReadyToApply(r)' /\ ReadyToRecord(r)'
    BY <1>2 DEF NothingYet, MayGoOn, Deleting, Submitted, ReadyToApply, ReadyToRecord,
                Before
  <2>2. NotRefused(r)' /\ Merged(r)' /\ Guarded(r)'
    BY <1>1, <1>5 DEF NotRefused, Merged, Guarded, Previews
  <2>3. QED
    BY <2>1, <2>2 DEF RInv
<1>11. ASSUME NEW q \in Req, q # r PROVE RInv(q)'
  BY <1>2, <1>4, <1>11, Frame DEF IInv
<1>12. QED
  BY <1>6, <1>7, <1>8, <1>9, <1>10, <1>11 DEF IInv

(* An edit by hand may leave the exemption out, and is remembered then. *)
LEMMA HandEditPreserves ==
    ASSUME IInv, NEW m \in HandManifests \cup {Absent}, HandEdit(m)
    PROVE  IInv'
<1> USE DEF HandEdit, request
<1>1. /\ m \in MaybeManifest /\ PartsOf(m) \in Manifest
      /\ m # Absent => PartsOf(m).protected = m.protected
      /\ m = Absent => ~PartsOf(m).protected
  BY InputsAssumption, PartsAreManifests DEF MaybeManifest
<1>2. TypeOK' /\ LiveInv'
  <2>1. TypeOK'
    BY <1>1, BoundsAssumption DEF IInv, TypeOK
  <2>2. LiveInv'
    BY <1>1 DEF IInv, TypeOK, LiveInv
  <2>3. QED
    BY <2>1, <2>2
<1>3. TrailInv' /\ WritesAreRecorded'
  BY DEF IInv, TrailInv, WritesAreRecorded, Proposes
<1>4. ASSUME NEW q \in Req PROVE RInv(q)'
  BY <1>4, Frame DEF IInv
<1>5. QED
  BY <1>1, <1>2, <1>3, <1>4 DEF IInv

(* A process that exits takes its handlers with it and changes nothing. *)
LEMMA ExitPreserves ==
    ASSUME IInv, Exit
    PROVE  IInv'
<1> USE DEF Exit, request, policy
<1>1. \A q \in Req : pc'[q] = pc[q] \/ (pc'[q] = "gone" /\ pc[q] # "done")
  BY DEF IInv, TypeOK
<1>2. TypeOK'
  <2>1. pc' \in [Req -> Steps]
    BY DEF IInv, TypeOK, Steps
  <2>2. QED
    BY <2>1, BoundsAssumption DEF IInv, TypeOK
<1>3. LiveInv'
  BY DEF IInv, LiveInv
<1>4. TrailInv'
  <2>1. \A e \in trail : e.req \in Req
    BY DEF IInv, TypeOK, Record
  <2>2. QED
    BY <2>1, <1>1 DEF IInv, TrailInv, Proposes
<1>5. WritesAreRecorded'
  BY <1>1 DEF IInv, WritesAreRecorded
<1>6. ASSUME NEW q \in Req PROVE RInv(q)'
  <2>1. CASE pc'[q] = pc[q]
    BY <2>1, Frame DEF IInv
  <2>2. CASE pc'[q] = "gone"
    <3>1. /\ NothingYet(q)' /\ MayGoOn(q)' /\ Deleting(q)' /\ Submitted(q)'
          /\ ReadyToApply(q)' /\ ReadyToRecord(q)'
      BY <2>2 DEF NothingYet, MayGoOn, Deleting, Submitted, ReadyToApply, ReadyToRecord,
                  Before
    <3>2. NotRefused(q)' /\ Merged(q)' /\ Guarded(q)'
      BY DEF IInv, RInv, NotRefused, Merged, Guarded, Previews
    <3>3. QED
      BY <3>1, <3>2 DEF RInv
  <2>3. QED
    BY <2>1, <2>2, <1>1
<1>7. QED
  BY <1>2, <1>3, <1>4, <1>5, <1>6 DEF IInv

LEMMA NextPreserves == IInv /\ [Next]_vars => IInv'
<1> SUFFICES ASSUME IInv, [Next]_vars PROVE IInv'
  OBVIOUS
<1>1. CASE \E r \in Req, i \in Inputs : Arrive(r, i)
  BY <1>1, ArrivePreserves
<1>2. ASSUME NEW r \in Req, Handle(r) PROVE IInv'
  <2>1. CASE \E got \in MaybeManifest : GetForRecord(r, got)
    BY <2>1, GetForRecordPreserves
  <2>2. CASE \E got \in MaybeManifest : GetToDisable(r, got)
    BY <2>2, GetToDisablePreserves
  <2>3. CASE \E got \in MaybeManifest : GetToChange(r, got)
    BY <2>3, GetToChangePreserves
  <2>4. CASE APIApply(r)
    BY <2>4, ApplyPreserves
  <2>5. CASE APIDelete(r)
    BY <2>5, DeletePreserves
  <2>6. CASE OpenPR(r)
    BY <2>6, OpenPRPreserves
  <2>7. CASE WriteRecord(r)
    BY <2>7, WriteRecordPreserves
  <2>8. QED
    BY <1>2, <2>1, <2>2, <2>3, <2>4, <2>5, <2>6, <2>7 DEF Handle
<1>3. CASE \E m \in HandManifests \cup {Absent} : HandEdit(m)
  BY <1>3, HandEditPreserves
<1>4. CASE Exit
  BY <1>4, ExitPreserves
<1>5. CASE UNCHANGED vars
  <2>1. TypeOK' /\ LiveInv'
    BY <1>5 DEF vars, IInv, TypeOK, LiveInv
  <2>2. TrailInv' /\ WritesAreRecorded'
    BY <1>5 DEF vars, IInv, TrailInv, WritesAreRecorded, Proposes
  <2>3. ASSUME NEW q \in Req PROVE RInv(q)'
    BY <1>5, Frame DEF vars, IInv
  <2>4. QED
    BY <2>1, <2>2, <2>3 DEF IInv
<1>6. QED
  BY <1>1, <1>2, <1>3, <1>4, <1>5 DEF Next

LEMMA Invariance == Spec => []IInv
<1>1. Init => IInv
  BY InitEstablishes
<1>2. IInv /\ [Next]_vars => IInv'
  BY NextPreserves
<1>3. QED
  BY <1>1, <1>2, PTL DEF Spec

-----------------------------------------------------------------------------
(* Every variable keeps its type. *)
THEOREM TypeCorrect == Spec => []TypeOK
<1>1. IInv => TypeOK
  BY DEF IInv
<1>2. QED
  BY <1>1, Invariance, PTL

(* The guard holds: no interleaving of handlers, edits by hand, failed     *)
(* calls and exits has a handler make the policy select a protected        *)
(* namespace; one that does has it from kubectl, and was merged into.      *)
THEOREM GuardHolds == Spec => []ProtectedOnlyByHand
<1>1. IInv => ProtectedOnlyByHand
  BY DEF IInv, LiveInv, RInv, Guarded, ProtectedOnlyByHand
<1>2. QED
  BY <1>1, Invariance, PTL

(* Every change a finished handler made is on record, the changes whose    *)
(* reply was lost included.                                                *)
THEOREM ChangesAreRecorded == Spec => []WritesAreRecorded
<1>1. IInv => WritesAreRecorded
  BY DEF IInv
<1>2. QED
  BY <1>1, Invariance, PTL

(* A record of a live success tells what was put in place. *)
THEOREM RecordsTellTheTruth == Spec => []RecordsAreTrue
<1>1. IInv => RecordsAreTrue
  BY DEF IInv, TrailInv, RecordsAreTrue
<1>2. QED
  BY <1>1, Invariance, PTL

(* Whoever was refused, or asked for a preview the handler knows, changed  *)
(* and proposed nothing.                                                   *)
THEOREM RefusalsAreHarmless == Spec => []RefusedChangesNothing
<1>1. IInv => RefusedChangesNothing
  BY DEF IInv, RInv, NotRefused, Previews, RefusedChangesNothing
<1>2. QED
  BY <1>1, Invariance, PTL

(* With an API server that refuses stale versions, an exclusion keeps what *)
(* was excluded when it was put in place, whoever edited meanwhile.        *)
THEOREM ExclusionsMerge == Spec => []MergedIntoLive
<1>1. IInv => MergedIntoLive
  BY DEF IInv, RInv, Merged, MergedIntoLive
<1>2. QED
  BY <1>1, Invariance, PTL

(* No chain of console changes loses the exemption. *)
THEOREM ExemptionKept == Spec => []ExemptUnlessByHand
<1>1. IInv => ExemptUnlessByHand
  BY DEF IInv, LiveInv, ExemptUnlessByHand
<1>2. QED
  BY <1>1, Invariance, PTL

-----------------------------------------------------------------------------
(* The handlers, step by step, are an AuditedPolicy.                       *)

Lives == [r \in Req |-> Life(r)]
Asked == [r \in Req |-> AsksFor(input[r])]
Effects == [r \in Req |-> Effect(r)]
Tales == {Told(e) : e \in trail}

(* A step of one handler changes what is known of its request alone. *)
LEMMA MapStep ==
    ASSUME IInv, NEW r \in Req, \A q \in Req \ {r} : SameFor(q)
    PROVE  /\ Lives' = [Lives EXCEPT ![r] = Life(r)'] /\ Lives[r] = Life(r)
           /\ Asked' = [Asked EXCEPT ![r] = AsksFor(input[r])'] /\ Asked[r] = AsksFor(input[r])
           /\ Effects' = [Effects EXCEPT ![r] = Effect(r)'] /\ Effects[r] = Effect(r)
<1>1. ASSUME NEW q \in Req, q # r
      PROVE  /\ Life(q)' = Life(q) /\ AsksFor(input[q])' = AsksFor(input[q])
             /\ Effect(q)' = Effect(q)
  BY <1>1 DEF SameFor, Life, AsksFor, Effect, Previews, Proposes
<1>2. Lives' = [Lives EXCEPT ![r] = Life(r)'] /\ Lives[r] = Life(r)
  BY <1>1 DEF Lives
<1>3. Asked' = [Asked EXCEPT ![r] = AsksFor(input[r])'] /\ Asked[r] = AsksFor(input[r])
  BY <1>1 DEF Asked
<1>4. Effects' = [Effects EXCEPT ![r] = Effect(r)'] /\ Effects[r] = Effect(r)
  BY <1>1 DEF Effects
<1>5. QED
  BY <1>2, <1>3, <1>4

(* A handler that ends or goes on without a call, or whose call changed    *)
(* and proposed nothing.                                                   *)
LEMMA QuietStep ==
    ASSUME IInv, NEW r \in Req, \A q \in Req \ {r} : SameFor(q),
           Life(r) = "open", Life(r)' \in {"open", "over"}, ~wrote[r].done,
           input' = input, wrote' = wrote, UNCHANGED <<live, author, prs, trail>>
    PROVE  Audited!Close(r) \/ UNCHANGED Audited!vars
<1>1. /\ Lives' = [Lives EXCEPT ![r] = Life(r)'] /\ Lives[r] = Life(r)
      /\ Effects[r] = Effect(r)
  BY MapStep
<1>2. Asked' = Asked /\ Effects' = Effects /\ Tales' = Tales /\ Effect(r) = {}
  BY DEF Asked, Effects, Tales, Effect, AsksFor, Previews, Proposes
<1>3. CASE Life(r)' = "over"
  BY <1>1, <1>2, <1>3 DEF Audited!Close, Lives, Asked, Effects, Tales
<1>4. CASE Life(r)' = "open"
  <2>1. Lives' = Lives
    BY <1>1, <1>4 DEF Lives
  <2>2. QED
    BY <1>2, <2>1 DEF Audited!vars, Lives, Asked, Effects, Tales
<1>5. QED
  BY <1>3, <1>4

(* A request arrives. *)
LEMMA ArriveIsAudited ==
    ASSUME IInv, NEW r \in Req, NEW i \in Inputs, Arrive(r, i)
    PROVE  Audited!Arrive(r)
<1> USE DEF Arrive, Answer, ToRecord, ToCall, Goto, policy, world
<1>1. \A q \in Req \ {r} : SameFor(q)
  BY DEF IInv, TypeOK, SameFor
<1>2. /\ Lives' = [Lives EXCEPT ![r] = Life(r)'] /\ Lives[r] = Life(r)
      /\ Asked' = [Asked EXCEPT ![r] = AsksFor(input[r])']
  BY <1>1, MapStep
<1>3. Life(r) = "new" /\ Life(r)' \in {"open", "over"}
  BY DEF Life, IInv, TypeOK
<1>4. AsksFor(input[r])' \in {"change", "proposal", "nothing"}
  BY DEF AsksFor
<1>5. Effects' = Effects /\ Tales' = Tales
  BY DEF Effects, Effect, Tales
<1>6. QED
  BY <1>2, <1>3, <1>4, <1>5 DEF Audited!Arrive, Lives, Asked, Effects, Tales

(* Reads, and what is computed from them, stay within the handler. *)
LEMMA GetIsQuiet ==
    ASSUME IInv, NEW r \in Req, NEW got \in MaybeManifest,
           GetForRecord(r, got) \/ GetToDisable(r, got) \/ GetToChange(r, got)
    PROVE  Audited!Close(r) \/ UNCHANGED Audited!vars
<1>1. /\ pc[r] = "get" /\ input' = input /\ wrote' = wrote
      /\ UNCHANGED <<live, author, prs, trail>>
      /\ \E step \in {"delete", "pr", "apply", "record", "done"} :
            pc' = [pc EXCEPT ![r] = step]
  BY DEF GetForRecord, GetToDisable, GetToChange, Answer, ToRecord, ToCall, Goto, policy,
         world
<1>2. \A q \in Req \ {r} : SameFor(q)
  <2>1. \A q \in Req \ {r} : /\ cur'[q] = cur[q] /\ out'[q] = out[q]
                            /\ entry'[q] = entry[q] /\ reply'[q] = reply[q]
    BY DEF GetForRecord, GetToDisable, GetToChange, Answer, ToRecord, ToCall, IInv, TypeOK
  <2>2. QED
    BY <1>1, <2>1 DEF SameFor, IInv, TypeOK
<1>3. Life(r) = "open" /\ Life(r)' \in {"open", "over"} /\ ~wrote[r].done
  BY <1>1 DEF Life, IInv, TypeOK, RInv, NothingYet, Before
<1>4. QED
  BY <1>1, <1>2, <1>3, QuietStep

(* The call that changes the policy is the change, if it has an effect. *)
LEMMA PutIsChange ==
    ASSUME IInv, NEW r \in Req, live' \in Allowed[live], author' = "console",
           wrote' = [wrote EXCEPT ![r] = [before |-> live, after |-> live', done |-> TRUE]],
           pc[r] \in {"apply", "delete"}, pc'[r] = "record",
           \A q \in Req \ {r} : SameFor(q), UNCHANGED <<input, prs, trail>>
    PROVE  Audited!Change(r)
<1>1. /\ Lives' = [Lives EXCEPT ![r] = Life(r)'] /\ Lives[r] = Life(r)
      /\ Effects' = [Effects EXCEPT ![r] = Effect(r)'] /\ Effects[r] = Effect(r)
      /\ Asked[r] = AsksFor(input[r])
  BY MapStep
<1>2. Life(r) = "open" /\ Life(r)' = "open"
  BY DEF Life
<1>3. Lives' = Lives /\ Asked' = Asked /\ Tales' = Tales
  BY <1>1, <1>2 DEF Lives, Asked, Tales, AsksFor, Previews, Proposes
<1>4. AsksFor(input[r]) = "change" /\ Effect(r) = {}
  BY DEF AsksFor, Effect, IInv, RInv, MayGoOn, NothingYet, Before
<1>5. Effect(r)' = {live'}
  <2>1. wrote'[r].done /\ wrote'[r].after = live'
    BY DEF IInv, TypeOK
  <2>2. QED
    BY <2>1 DEF Effect
<1>6. QED
  BY <1>1, <1>2, <1>3, <1>4, <1>5 DEF Audited!Change, Lives, Asked, Effects, Tales

(* What an apply leaves is allowed where it is made: it selects a          *)
(* protected namespace only if the policy did.                             *)
LEMMA AppliedIsAllowed ==
    ASSUME IInv, NEW r \in Req, pc[r] = "apply", PutApplied(r)
    PROVE  /\ live' \in Allowed[live] /\ author' = "console"
           /\ wrote' = [wrote EXCEPT ![r] = [before |-> live, after |-> live', done |-> TRUE]]
<1>1. PICK kept \in Kept(r) : Put(r, Applied(r, kept), kept)
  BY DEF PutApplied
<1>2. /\ Applied(r, kept) \in Manifest
      /\ Applied(r, kept).protected => theirs.protected
  BY WhatIsApplied DEF PutApplied
<1>3. live' = Applied(r, kept) /\ author' = "console"
      /\ wrote' = [wrote EXCEPT ![r] = [before |-> live, after |-> live', done |-> TRUE]]
  BY <1>1 DEF Put
<1>4. live \in MaybeManifest
  BY DEF IInv, TypeOK
<1>5. CASE live \in Harmless
  <2>1. ~theirs.protected
    BY <1>5, AbsentAssumption DEF IInv, LiveInv, Harmless
  <2>2. live' \in Harmless
    BY <1>2, <1>3, <2>1 DEF Harmless
  <2>3. QED
    BY <1>3, <1>4, <1>5, <2>2 DEF Allowed
<1>6. CASE live \notin Harmless
  BY <1>2, <1>3, <1>4, <1>6 DEF Allowed, MaybeManifest
<1>7. QED
  BY <1>5, <1>6

LEMMA DeletedIsAllowed ==
    ASSUME IInv, NEW r \in Req, Put(r, Absent, Nothing)
    PROVE  /\ live' \in Allowed[live] /\ author' = "console"
           /\ wrote' = [wrote EXCEPT ![r] = [before |-> live, after |-> live', done |-> TRUE]]
BY DEF Put, Allowed, Harmless, MaybeManifest, IInv, TypeOK

LEMMA CallIsAudited ==
    ASSUME IInv, NEW r \in Req, APIApply(r) \/ APIDelete(r)
    PROVE  Audited!Change(r) \/ Audited!Close(r) \/ UNCHANGED Audited!vars
<1>1. /\ pc[r] \in {"apply", "delete"} /\ pc' = [pc EXCEPT ![r] = "record"]
      /\ UNCHANGED <<input, cur, out, prs, trail, reply>>
      /\ \A q \in Req \ {r} : entry'[q] = entry[q]
  BY DEF APIApply, APIDelete, ErrorRecord, ToRecord, Goto, IInv, TypeOK
<1>2. \/ /\ live' \in Allowed[live] /\ author' = "console"
         /\ wrote' = [wrote EXCEPT ![r] = [before |-> live, after |-> live', done |-> TRUE]]
      \/ wrote' = wrote /\ live' = live /\ author' = author
  <2>1. CASE APIApply(r)
    <3>1. PutApplied(r) \/ (wrote' = wrote /\ UNCHANGED policy)
      BY <2>1, ApplyTells
    <3>2. pc[r] = "apply"
      BY <2>1 DEF APIApply
    <3>3. QED
      BY <3>1, <3>2, AppliedIsAllowed DEF policy
  <2>2. CASE APIDelete(r)
    <3>1. Put(r, Absent, Nothing) \/ PutNothing
      BY <2>2 DEF APIDelete
    <3>2. QED
      BY <3>1, DeletedIsAllowed DEF PutNothing, policy
  <2>3. QED
    BY <2>1, <2>2
<1>3. \A q \in Req \ {r} : SameFor(q)
  BY <1>1, <1>2 DEF SameFor, IInv, TypeOK
<1>4. CASE /\ live' \in Allowed[live] /\ author' = "console"
           /\ wrote' = [wrote EXCEPT ![r] = [before |-> live, after |-> live', done |-> TRUE]]
  <2>1. pc'[r] = "record"
    BY <1>1 DEF IInv, TypeOK
  <2>2. QED
    BY <1>1, <1>3, <1>4, <2>1, PutIsChange
<1>5. CASE wrote' = wrote /\ live' = live /\ author' = author
  <2>1. Life(r) = "open" /\ Life(r)' \in {"open", "over"} /\ ~wrote[r].done
    BY <1>1 DEF Life, IInv, TypeOK, RInv, NothingYet, Before
  <2>2. QED
    BY <1>1, <1>3, <1>5, <2>1, QuietStep
<1>6. QED
  BY <1>2, <1>4, <1>5

(* A pull request is the proposal, of a request that asked for one. *)
LEMMA OpenPRIsAudited ==
    ASSUME IInv, NEW r \in Req, OpenPR(r)
    PROVE  Audited!Propose(r) \/ Audited!Close(r) \/ UNCHANGED Audited!vars
<1>1. /\ pc[r] = "pr" /\ UNCHANGED <<input, cur, out, trail, wrote, live, author>>
      /\ \E step \in {"record", "done"} : pc' = [pc EXCEPT ![r] = step]
      /\ prs' = prs \/ prs' = prs \cup {r}
      /\ \A q \in Req \ {r} : entry'[q] = entry[q] /\ reply'[q] = reply[q]
  BY DEF OpenPR, Goto, policy, world, IInv, TypeOK
<1>2. \A q \in Req \ {r} : SameFor(q)
  BY <1>1 DEF SameFor, IInv, TypeOK
<1>3. /\ Life(r) = "open" /\ Life(r)' \in {"open", "over"}
      /\ ~wrote[r].done /\ r \notin prs /\ AsksFor(input[r]) = "proposal"
  BY <1>1 DEF Life, AsksFor, IInv, TypeOK, RInv, NothingYet, MayGoOn, Before
<1>4. CASE prs' = prs
  BY <1>1, <1>2, <1>3, <1>4, QuietStep
<1>5. CASE prs' = prs \cup {r}
  <2>1. /\ Lives' = [Lives EXCEPT ![r] = Life(r)'] /\ Lives[r] = Life(r)
        /\ Asked[r] = AsksFor(input[r])
    BY <1>2, MapStep
  <2>2. Lives' = Lives \/ Lives' = [Lives EXCEPT ![r] = "over"]
    BY <1>3, <2>1 DEF Lives
  <2>3. Asked' = Asked /\ Effects' = Effects /\ Tales' = Tales
    BY <1>1 DEF Asked, AsksFor, Previews, Proposes, Effects, Effect, Tales
  <2>4. QED
    BY <1>1, <1>3, <1>5, <2>1, <2>2, <2>3
       DEF Audited!Propose, Lives, Asked, Effects, Tales
<1>6. QED
  BY <1>1, <1>4, <1>5

(* The record that is written tells what the handler did. *)
LEMMA TellsWhatHappened ==
    ASSUME IInv, NEW r \in Req, pc[r] = "record"
    PROVE  \/ Told(entry[r]) = Audited!Denied(r) /\ Effect(r) = {} /\ r \notin prs
           \/ Told(entry[r]) = Audited!Error(r)
           \/ \E m \in Effect(r) : Told(entry[r]) = Audited!Success(r, m)
           \/ /\ AsksFor(input[r]) = "proposal"
              /\ \E m \in MaybeManifest : Told(entry[r]) = Audited!Success(r, m)
<1> USE DEF Told, Audited!Success, Audited!Denied, Audited!Error
<1>1. /\ entry[r] \in Record /\ entry[r].req = r /\ input[r].allowed
      /\ wrote[r].done =>
            /\ entry[r].outcome # "denied"
            /\ entry[r].outcome = "success" => entry[r].after = wrote[r].after
      /\ r \in prs => entry[r].outcome # "denied"
      /\ entry[r].outcome = "success" /\ ~Proposes(input[r]) => wrote[r].done
  BY DEF IInv, TypeOK, RInv, ReadyToRecord, MayGoOn
<1>2. entry[r].outcome \in {"success", "denied", "error"} /\ entry[r].after \in MaybeManifest
  BY <1>1 DEF Record, Outcomes
<1>3. CASE entry[r].outcome = "denied"
  BY <1>1, <1>3 DEF Effect
<1>4. CASE entry[r].outcome = "error"
  BY <1>1, <1>4
<1>5. CASE entry[r].outcome = "success"
  <2>1. CASE Proposes(input[r])
    <3>1. AsksFor(input[r]) = "proposal"
      BY <1>1, <2>1 DEF AsksFor, Proposes, Previews
    <3>2. QED
      BY <1>1, <1>2, <1>5, <3>1
  <2>2. CASE ~Proposes(input[r])
    <3>1. entry[r].after \in Effect(r)
      BY <1>1, <1>5, <2>2 DEF Effect
    <3>2. QED
      BY <1>1, <1>5, <3>1
  <2>3. QED
    BY <2>1, <2>2
<1>6. QED
  BY <1>2, <1>3, <1>4, <1>5

LEMMA WriteRecordIsAudited ==
    ASSUME IInv, NEW r \in Req, WriteRecord(r)
    PROVE  Audited!Record(r)
<1>1. /\ pc[r] = "record" /\ pc' = [pc EXCEPT ![r] = "done"]
      /\ trail' = trail \cup {entry[r]}
      /\ UNCHANGED <<input, cur, out, entry, prs, wrote, live, author>>
      /\ \A q \in Req \ {r} : reply'[q] = reply[q]
  BY DEF WriteRecord, Recorded, Goto, policy, world, IInv, TypeOK
<1>2. \A q \in Req \ {r} : SameFor(q)
  BY <1>1 DEF SameFor, IInv, TypeOK
<1>3. /\ Lives' = [Lives EXCEPT ![r] = Life(r)'] /\ Lives[r] = Life(r)
      /\ Asked[r] = AsksFor(input[r]) /\ Effects[r] = Effect(r)
  BY <1>2, MapStep
<1>4. Life(r) = "open" /\ Life(r)' = "over"
  BY <1>1 DEF Life, IInv, TypeOK
<1>5. Asked' = Asked /\ Effects' = Effects
  BY <1>1 DEF Asked, AsksFor, Previews, Proposes, Effects, Effect
<1>6. Tales' = Tales \cup {Told(entry[r])}
  BY <1>1 DEF Tales, Told
<1>7. \/ Effects[r] = {} /\ r \notin prs /\ Tales' = Tales \cup {Audited!Denied(r)}
      \/ Tales' = Tales \cup {Audited!Error(r)}
      \/ \E m \in Effects[r] : Tales' = Tales \cup {Audited!Success(r, m)}
      \/ /\ Asked[r] = "proposal"
         /\ \E m \in MaybeManifest : Tales' = Tales \cup {Audited!Success(r, m)}
  BY <1>1, <1>3, <1>6, TellsWhatHappened
<1>8. QED
  BY <1>1, <1>3, <1>4, <1>5, <1>7 DEF Audited!Record, Lives, Asked, Effects, Tales

LEMMA StepIsAudited == IInv /\ [Next]_vars => [Audited!Next]_(Audited!vars)
<1> SUFFICES ASSUME IInv, [Next]_vars PROVE Audited!Next \/ UNCHANGED Audited!vars
  OBVIOUS
<1>1. CASE \E r \in Req, i \in Inputs : Arrive(r, i)
  BY <1>1, ArriveIsAudited DEF Audited!Next
<1>2. ASSUME NEW r \in Req, Handle(r) PROVE Audited!Next \/ UNCHANGED Audited!vars
  <2>1. CASE \E got \in MaybeManifest :
                GetForRecord(r, got) \/ GetToDisable(r, got) \/ GetToChange(r, got)
    BY <2>1, GetIsQuiet DEF Audited!Next
  <2>2. CASE APIApply(r) \/ APIDelete(r)
    BY <2>2, CallIsAudited DEF Audited!Next
  <2>3. CASE OpenPR(r)
    BY <2>3, OpenPRIsAudited DEF Audited!Next
  <2>4. CASE WriteRecord(r)
    BY <2>4, WriteRecordIsAudited DEF Audited!Next
  <2>5. QED
    BY <1>2, <2>1, <2>2, <2>3, <2>4 DEF Handle
<1>3. ASSUME NEW m \in HandManifests \cup {Absent}, HandEdit(m) PROVE Audited!Next
  <2>1. Lives' = Lives /\ Asked' = Asked /\ Effects' = Effects /\ Tales' = Tales
    BY <1>3 DEF HandEdit, request, Lives, Life, Asked, AsksFor, Previews, Proposes,
                Effects, Effect, Tales
  <2>2. live' \in MaybeManifest /\ author' = "kubectl" /\ prs' = prs
    BY <1>3, InputsAssumption DEF HandEdit, request, MaybeManifest
  <2>3. Audited!Edit
    BY <2>1, <2>2 DEF Audited!Edit, Lives, Asked, Effects, Tales
  <2>4. QED
    BY <2>3 DEF Audited!Next
<1>4. CASE Exit
  <2>1. \A q \in Req : Life(q)' = IF Life(q) = "open" THEN "over" ELSE Life(q)
    BY <1>4 DEF Exit, Life, IInv, TypeOK
  <2>2. Lives' = [q \in Req |-> IF Lives[q] = "open" THEN "over" ELSE Lives[q]]
    BY <2>1 DEF Lives
  <2>3. /\ Asked' = Asked /\ Effects' = Effects /\ Tales' = Tales
        /\ UNCHANGED <<live, author, prs>>
    BY <1>4 DEF Exit, request, policy, Asked, AsksFor, Previews, Proposes,
                Effects, Effect, Tales
  <2>4. Audited!Crash
    BY <2>2, <2>3 DEF Audited!Crash, Lives, Asked, Effects, Tales
  <2>5. QED
    BY <2>4 DEF Audited!Next
<1>5. CASE UNCHANGED vars
  <2>1. /\ Lives' = Lives /\ Asked' = Asked /\ Effects' = Effects /\ Tales' = Tales
        /\ UNCHANGED <<live, author, prs>>
    BY <1>5 DEF vars, Lives, Life, Asked, AsksFor, Previews, Proposes, Effects, Effect,
                Tales
  <2>2. QED
    BY <2>1 DEF Audited!vars, Lives, Asked, Effects, Tales
<1>6. QED
  BY <1>1, <1>2, <1>3, <1>4, <1>5 DEF Next

(* The handlers, however they interleave with each other, with edits by    *)
(* hand and with exits, and whichever of their calls fail or lose a reply, *)
(* are an AuditedPolicy: each request takes effect in one step and once at *)
(* most, an accepted one, and does not end unrecorded.                     *)
THEOREM HandlersAreAudited == Spec => ImplementsAudited
<1>1. Init => Audited!Init
  <2> SUFFICES ASSUME Init PROVE Audited!Init
    OBVIOUS
  <2>1. \A r \in Req : /\ Life(r) = "new" /\ AsksFor(input[r]) = "nothing"
                       /\ Effect(r) = {}
    BY DEF Init, Life, AsksFor, NoInput, Effect, NoWrite
  <2>2. live \in MaybeManifest /\ author = "kubectl" /\ prs = {} /\ trail = {}
    BY InputsAssumption DEF Init, MaybeManifest
  <2>3. QED
    BY <2>1, <2>2 DEF Audited!Init
<1>2. QED
  BY <1>1, StepIsAudited, Invariance, PTL DEF Spec, ImplementsAudited, Audited!Spec
=============================================================================
