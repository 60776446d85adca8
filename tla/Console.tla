------------------------------ MODULE Console ------------------------------
(***************************************************************************)
(* A visit to one page of the console.  A page's state is that of its      *)
(* React components: it is there when the page is mounted and gone when it *)
(* is left, and no page reads another's, so a visit is a behaviour of that *)
(* page's module while the rest stands still.  What the pages do have in   *)
(* common is what the shell loads (AlertEditor), the hook they poll with   *)
(* (Poll) and the logger (Diagnostics).                                    *)
(***************************************************************************)
EXTENDS Naturals

CONSTANTS
    Visits,                                            \* the pages visited
    Shipped, ShippedById, NamesInOrder,                \* LibraryWizard
    Ids, Sections, Bundles, Scopes,
    MaxClicks, MaxObjects, MaxFailures,
    Policies, NoPolicy, HitValues, MaxCalls,           \* HitPage
    Starts, Typed, Listed, Namespaces, MaxMade,        \* Composer
    RouteIds, Initially,                               \* AlertEditor
    MaxEdits, MaxFetches, MaxSaves, MaxLost,
    Facets, Records, Closed, NoPath, MaxVersion,       \* Investigate
    MaxGets, MaxErrors,                                \* HitPage and Investigate
    Nothing,                                           \* HitPage and Composer
    MaxLines, MaxLogs, MaxRecent, Capacity, WireRoom,  \* Diagnostics
    Limit, MaxLosses

VARIABLES
    page,   \* the page visited
    step, draft, clicks, todo, answers, outcomes, confirmed, landed,
    open, detail, hitGets, hitErrors, selected, preview, applied, call, orphans,
    excluded, calls, overtaken, crossed,
    text, run, waiting, made, sent, seen, drifted,
    config, routes, dirty, fetches, saves, stored, edits, saved, lost,
    filters, result, gets, version, errors, row, explain, asking, abandoned, strayed,
    recent, queue, timer, posts, appends, buffer, socket, retry, wire, items, live,
    pushed, logged, losses, batches, appended

Library == INSTANCE LibraryWizard
Hits == INSTANCE HitPage WITH gets <- hitGets, errors <- hitErrors
Create == INSTANCE Composer
Alerts == INSTANCE AlertEditor
Inspect == INSTANCE Investigate
Logs == INSTANCE Diagnostics

ASSUME VisitsAssumption ==
    Visits \subseteq {"library", "exclusions", "create", "alerts", "investigate",
                      "diagnostics"}

ASSUME PagesAssumption ==
    /\ Library!WizardAssumption
    /\ Hits!HitPageAssumption
    /\ Create!TextsAssumption
    /\ Alerts!EditorAssumption
    /\ Inspect!Poll!PollAssumption
    /\ Logs!LogAssumption

library == <<step, draft, clicks, todo, answers, outcomes, confirmed, landed>>
hits == <<open, detail, hitGets, hitErrors, selected, preview, applied, call, orphans,
          excluded, calls, overtaken, crossed>>
create == <<text, run, waiting, made, sent, seen, drifted>>
alerts == <<config, routes, dirty, fetches, saves, stored, edits, saved, lost>>
inspect == <<filters, result, gets, version, errors, row, explain, asking, abandoned,
             strayed>>
logs == <<recent, queue, timer, posts, appends, buffer, socket, retry, wire, items,
          live, pushed, logged, losses, batches, appended>>
vars == <<page, library, hits, create, alerts, inspect, logs>>

(* The shell has its configuration or not only where that matters.         *)
Init ==
    /\ page \in Visits
    /\ Library!Init /\ Hits!Init /\ Create!Init /\ Alerts!Init /\ Inspect!Init
    /\ Logs!Init
    /\ page # "alerts" => config = "fallback"

VisitLibrary == page = "library" /\ Library!Next
                /\ UNCHANGED <<page, hits, create, alerts, inspect, logs>>
VisitExclusions == page = "exclusions" /\ Hits!Next
                   /\ UNCHANGED <<page, library, create, alerts, inspect, logs>>
VisitCreate == page = "create" /\ Create!Next
               /\ UNCHANGED <<page, library, hits, alerts, inspect, logs>>
VisitAlerts == page = "alerts" /\ Alerts!Next
               /\ UNCHANGED <<page, library, hits, create, inspect, logs>>
VisitInvestigate == page = "investigate" /\ Inspect!Next
                    /\ UNCHANGED <<page, library, hits, create, alerts, logs>>
VisitDiagnostics == page = "diagnostics" /\ Logs!Next
                    /\ UNCHANGED <<page, library, hits, create, alerts, inspect>>

Next == \/ VisitLibrary \/ VisitExclusions \/ VisitCreate \/ VisitAlerts
        \/ VisitInvestigate \/ VisitDiagnostics

(* Each page's own fairness, while it is the page that is visited.         *)
At(p, A) == page = p /\ A
Fairness ==
    /\ WF_library(At("library", Library!Puts))
    /\ WF_hits(At("exclusions", Hits!CallEnds))
    /\ WF_hits(At("exclusions", Hits!DetailLands))
    /\ WF_create(At("create", Create!CallEnds))
    /\ WF_alerts(At("alerts", Alerts!LoadConfig))
    /\ WF_alerts(At("alerts", Alerts!FetchEnds))
    /\ WF_alerts(At("alerts", Alerts!SaveEnds))
    /\ WF_inspect(At("investigate", Inspect!Lands))
    /\ WF_inspect(At("investigate", Inspect!Ticks))
    /\ WF_inspect(At("investigate", Inspect!ExplainEnds))
    /\ WF_logs(At("diagnostics", Logs!TimerFires))
    /\ WF_logs(At("diagnostics", Logs!PostEnds))
    /\ WF_logs(At("diagnostics", Logs!AppendGoesOn))
    /\ WF_logs(At("diagnostics", Logs!onopen))
    /\ WF_logs(At("diagnostics", Logs!onmessage))
    /\ WF_logs(At("diagnostics", Logs!connect))

Spec == Init /\ [][Next]_vars /\ Fairness

-----------------------------------------------------------------------------
(* What the pages promise, each at its page; the modules say what it means.*)
TypeOK ==
    /\ page \in Visits
    /\ page = "library" => Library!TypeOK
    /\ page = "exclusions" => Hits!TypeOK
    /\ page = "create" => Create!TypeOK
    /\ page = "alerts" => Alerts!TypeOK
    /\ page = "investigate" => Inspect!TypeOK
    /\ page = "diagnostics" => Logs!TypeOK

(* What stands on a page agrees with what stands beside it if that did not *)
(* change since it was asked for: a preview with the policy and values     *)
(* Apply would send (PolicyHitDetail), a dry run with the text             *)
(* (PolicyComposer), an explanation with its record (RecordSheet).  No     *)
(* page looks at what changed meanwhile, and what is overtaken is shown    *)
(* all the same; but there is no other way to a disagreement, and the next *)
(* answer mends it.  However late an answer is, it does not get to another *)
(* sheet of the Exclusions page than its own, what Applied says was        *)
(* written, and a kind has the namespace that is picked for it.            *)
PagesAgree ==
    /\ Hits!PreviewIsOfPage /\ Hits!NotesAreTrue /\ Hits!NothingOutlivesTheSheet
    /\ Create!RunIsOfText /\ Create!PickerFits
    /\ Inspect!ExplainsTheRecord

(* The library applies what was confirmed: each policy in the mode that    *)
(* was chosen, with the actions it shipped and no others, under a name no  *)
(* other object of the build has (applyMode, buildPolicies); the report is *)
(* of the objects on the page when Apply was clicked, whatever was edited  *)
(* or failed since, and never of none (LibraryWizard).                     *)
LibraryIsSound ==
    page = "library" =>
        /\ Library!ModeHolds /\ Library!ObjectsAreDistinct
        /\ Library!ReportIsTrue /\ Library!SomethingToConfirm

(* A line the browser logs reaches the backend's buffer at most once and   *)
(* only if it is to be shipped, and the page keeps the order of a batch    *)
(* (Logger, postClientLog, Append, useStream).                             *)
LogsAreSound ==
    page = "diagnostics" => Logs!ShippedOnce /\ Logs!BatchInOrder

(* Whatever fails on the way, a page that waits for a call can be used     *)
(* again: an apply ends with a report, the sheet's and the composer's      *)
(* buttons come back, "Checking" ends (busy, applying).                    *)
PagesComeBack ==
    /\ Library!ApplyEnds /\ Hits!ButtonsComeBack
    /\ Create!PageComesBack /\ Inspect!CheckingEnds

(* A page that is left alone ends up showing what the backend has: the     *)
(* routes (AlertsPage, AppShell), the result of its filters (usePoll); the *)
(* stream of the log comes back each time it is lost (useStream), and      *)
(* nothing that was logged waits for ever (Logger).                        *)
PagesSettle ==
    /\ page = "alerts" => Alerts!SettlesOnStored
    /\ page = "investigate" => Inspect!SettlesOnFilters
    /\ page = "diagnostics" => Logs!StreamComesBack
    /\ Logs!LogGoesQuiet

(* Nothing is applied whose dry run was never on the page                  *)
(* (PolicyComposer.tsx:56-58), which is not so.                            *)
AppliedWasDryRun == Create!AppliedWasDryRun
=============================================================================
