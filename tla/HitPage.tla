------------------------------ MODULE HitPage ------------------------------
(***************************************************************************)
(* The Exclusions page (app/exclusions/page.tsx) with the sheet that opens *)
(* over it (PolicyHitDetail.tsx): pick a policy, tick the values to        *)
(* exclude, preview, apply.  The page polls the detail of the open policy  *)
(* without an interval; the sheet shows whatever the poll has, which may   *)
(* still be the policy that was open before, and keeps its own state when  *)
(* the data changes under it.  Closing it unmounts it: its calls go on,    *)
(* and what they run when they are answered is that of the page they were  *)
(* made from.                                                              *)
(*                                                                         *)
(* The values are those of one dimension.  The list of policies, which is  *)
(* only read, is left out, and so is how fresh a detail is.                *)
(***************************************************************************)
EXTENDS Naturals, SequencesExt

CONSTANTS
    Policies,       \* the policies with hits
    NoPolicy,
    HitValues,      \* the values they were hit with
    MaxGets, MaxErrors,
    MaxCalls,       \* bound: calls of the sheet
    Nothing         \* no preview, no note, no call

VARIABLES
    open,       \* the policy whose sheet is open
    detail,     \* what the poll has
    gets, errors,
    selected,   \* the values ticked
    preview,    \* the preview on the sheet
    applied,    \* the notes of the last apply on the sheet
    call,       \* the call the sheet waits for: busy
    orphans,    \* calls of sheets that are closed
    excluded,   \* history: what was written into each policy, as sent
    calls,      \* calls made
    overtaken,  \* history: what changed since the preview on its way was asked for
    crossed     \* history: the same of the preview on the sheet

Poll == INSTANCE Poll WITH Paths <- Policies, NoPath <- NoPolicy, Interval <- FALSE,
                           path <- open, data <- detail, version <- 0, MaxVersion <- 0

poll == <<open, detail, gets, errors>>
sheet == <<selected, preview, applied, call>>
server == <<orphans, excluded, calls>>
missed == <<overtaken, crossed>>
vars == <<poll, sheet, server, missed>>

busy == call # Nothing
Mounted == open # NoPolicy /\ detail # NoPolicy

(* What a preview or an apply asks for; from is the page's path then.      *)
Request == [policy : Policies, values : (SUBSET HitValues) \ {{}}]
Call == [kind : {"preview", "apply", "reset"}, request : Request, from : Policies]
         \cup [kind : {"reset"}, policy : Policies, from : Policies]
request == [policy |-> detail.path, values |-> selected]

(* Assumed of the constants where they get their values (Console).         *)
HitPageAssumption ==
    /\ Poll!PollAssumption
    /\ NoPolicy \notin [path : Policies, at : {0}]
    /\ Nothing \notin Request
    /\ MaxCalls \in Nat

Init ==
    /\ Poll!Init /\ open = NoPolicy
    /\ selected = {} /\ preview = Nothing /\ applied = Nothing /\ call = Nothing
    /\ orphans = {} /\ excluded = {} /\ calls = 0
    /\ overtaken = {} /\ crossed = {}

-----------------------------------------------------------------------------
Fresh == /\ selected' = {} /\ preview' = Nothing /\ applied' = Nothing
         /\ call' = Nothing /\ overtaken' = {} /\ crossed' = {}

(* A row is clicked: the page behind the sheet is not.                     *)
Open(p) ==
    /\ open = NoPolicy
    /\ Poll!ChangePath(p)
    /\ UNCHANGED <<sheet, server, missed>>

Orphaned == IF busy THEN orphans \cup {call} ELSE orphans
Close ==
    /\ open # NoPolicy
    /\ Poll!ChangePath(NoPolicy)
    /\ Fresh
    /\ orphans' = Orphaned
    /\ UNCHANGED <<excluded, calls>>

(* An answer of the poll lands, under whatever the sheet has by then.      *)
PreviewAsked == busy /\ call.kind = "preview"
DetailLands ==
    LET changed == IF detail # NoPolicy /\ detail'.path # detail.path
                   THEN {"policy"} ELSE {}
    IN  /\ Poll!Land
        /\ overtaken' = IF PreviewAsked THEN overtaken \cup changed ELSE {}
        /\ crossed' = IF preview # Nothing THEN crossed \cup changed ELSE {}
        /\ UNCHANGED <<sheet, server>>

-----------------------------------------------------------------------------
(* Mutant: the preview stays when the ticks change.                        *)
toggleKeeping(v) ==
    /\ Mounted
    /\ selected' = (IF v \in selected THEN selected \ {v} ELSE selected \cup {v})
    /\ applied' = Nothing
    /\ overtaken' = IF PreviewAsked THEN overtaken \cup {"values"} ELSE {}
    /\ UNCHANGED <<poll, preview, call, server, crossed>>

toggle(v) ==
    /\ Mounted
    /\ selected' = (IF v \in selected THEN selected \ {v} ELSE selected \cup {v})
    /\ preview' = Nothing
    /\ applied' = Nothing
    /\ overtaken' = IF PreviewAsked THEN overtaken \cup {"values"} ELSE {}
    /\ crossed' = {}
    /\ UNCHANGED <<poll, call, server>>

Calls(c) ==
    /\ Mounted /\ ~busy /\ calls < MaxCalls
    /\ calls' = calls + 1
    /\ call' = c
    /\ UNCHANGED <<poll, selected, preview, applied, orphans, excluded, missed>>
doPreview == selected # {}
             /\ Calls([kind |-> "preview", request |-> request, from |-> open])
doApply == selected # {} /\ preview # Nothing
           /\ Calls([kind |-> "apply", request |-> request, from |-> open])
doReset == Calls([kind |-> "reset", policy |-> detail.path, from |-> open])

(* The answers.  A preview is shown whatever the sheet has by then; an     *)
(* apply clears the sheet and reloads, as a reset does.                    *)
Previewed ==
    /\ PreviewAsked
    /\ preview' = call.request
    /\ call' = Nothing
    /\ crossed' = overtaken
    /\ overtaken' = {}
    /\ UNCHANGED <<poll, selected, applied, server>>
Applied ==
    /\ busy /\ call.kind = "apply"
    /\ excluded' = excluded \cup {call.request}
    /\ applied' = call.request
    /\ preview' = Nothing
    /\ selected' = {}
    /\ crossed' = {}
    /\ Poll!Reload(call.from)
    /\ call' = Nothing
    /\ UNCHANGED <<orphans, calls, overtaken>>
WasReset ==
    /\ busy /\ call.kind = "reset"
    /\ Poll!Reload(call.from)
    /\ call' = Nothing
    /\ UNCHANGED <<selected, preview, applied, server, missed>>
(* A call that fails may have done its work.                               *)
Failed ==
    /\ busy
    /\ excluded' \in {excluded} \cup
                     (IF call.kind = "apply" THEN {excluded \cup {call.request}} ELSE {})
    /\ call' = Nothing
    /\ overtaken' = {}
    /\ UNCHANGED <<poll, selected, preview, applied, orphans, calls, crossed>>
CallEnds == Previewed \/ Applied \/ WasReset \/ Failed

(* The call of a closed sheet is answered: its state is gone, the page's   *)
(* reload of that time is not.                                             *)
OrphanEnds(c) ==
    /\ c \in orphans
    /\ orphans' = orphans \ {c}
    /\ excluded' = IF c.kind = "apply" THEN excluded \cup {c.request} ELSE excluded
    /\ IF c.kind = "preview" THEN UNCHANGED poll ELSE Poll!Reload(c.from)
    /\ UNCHANGED <<sheet, calls, missed>>

Next ==
    \/ \E p \in Policies : Open(p)
    \/ Close \/ DetailLands
    \/ \E v \in HitValues : toggle(v)
    \/ doPreview \/ doApply \/ doReset
    \/ CallEnds
    \/ \E c \in orphans : OrphanEnds(c)

Fairness == WF_vars(CallEnds) /\ WF_vars(DetailLands)

Spec == Init /\ [][Next]_vars /\ Fairness

-----------------------------------------------------------------------------
TypeOK ==
    /\ Poll!PollTypeOK
    /\ selected \subseteq HitValues
    /\ {preview, applied} \subseteq Request \cup {Nothing}
    /\ call \in Call \cup {Nothing}
    /\ orphans \subseteq Call
    /\ excluded \subseteq Request
    /\ calls \in 0 .. MaxCalls
    /\ {overtaken, crossed} \subseteq SUBSET {"values", "policy"}

(* The preview on the sheet is of the values Apply would send, unless one  *)
(* was ticked while this preview was on its way, and of the policy Apply   *)
(* would send it to, unless the detail became another policy's after this  *)
(* preview was asked for (toggle, doPreview).  In these two cases the code *)
(* shows it all the same, and Apply sends what was not previewed.          *)
PreviewIsOfPage ==
    preview # Nothing =>
        /\ preview.values = selected \/ "values" \in crossed
        /\ preview.policy = detail.path \/ "policy" \in crossed

(* The notes under Applied are of an exclusion the policy has (doApply).   *)
NotesAreTrue == applied # Nothing => applied \in excluded

(* Ticks, preview and calls belong to a sheet that is on screen; none of   *)
(* them outlives it, so an answer to a sheet that was closed does not get  *)
(* to the one opened next (the state of PolicyHitDetail).                  *)
NothingOutlivesTheSheet ==
    (selected # {} \/ preview # Nothing \/ applied # Nothing \/ busy) => Mounted

(* The sheet's buttons come back.                                          *)
ButtonsComeBack == busy ~> ~busy
=============================================================================
