---------------------------- MODULE Investigate ----------------------------
(***************************************************************************)
(* The Investigation page (app/investigate/page.tsx): a query made of the  *)
(* filters that were clicked, polled every 15s, and a sheet with one       *)
(* record, which can ask why the record's policy matched.  The sheet is    *)
(* always mounted and only shows or hides: closing it drops the            *)
(* explanation it has, not the one that is on its way.                     *)
(*                                                                         *)
(* The page's other inputs (window, source, texts) make a path like the    *)
(* filters do.  Records have a policy: the button is only there for those. *)
(***************************************************************************)
EXTENDS Naturals, SequencesExt

CONSTANTS
    Facets,   \* the values that can be filtered by
    Records,  \* the records that can be opened
    Closed,   \* no record is open, nothing is explained
    NoPath, MaxGets, MaxVersion, MaxErrors

VARIABLES
    filters,  \* those that are on
    result,   \* what the poll has
    gets, version, errors,
    row,      \* the record on the sheet
    explain,  \* the record the explanation on the sheet is of
    asking,   \* the record an explanation is on its way for: busy
    abandoned, \* history: the sheet was closed while this one was on its way
    strayed   \* history: and while the one on the sheet was

Poll == INSTANCE Poll WITH Paths <- SUBSET Facets, Interval <- TRUE,
                           path <- filters, data <- result

query == <<filters, result, gets, version, errors>>
record == <<row, explain, asking, abandoned, strayed>>
vars == <<query, record>>

Init ==
    /\ filters = {} /\ result = NoPath
    /\ version = 0 /\ errors = 0
    /\ gets = <<[path |-> {}, sent |-> 0]>>
    /\ row = Closed /\ explain = Closed /\ asking = Closed
    /\ abandoned = FALSE /\ strayed = FALSE

(* A click on a value of the result, of a record or of the filter bar.     *)
toggle(v) ==
    /\ result # NoPath
    /\ Poll!ChangePath(IF v \in filters THEN filters \ {v} ELSE filters \cup {v})
    /\ UNCHANGED record
Clear == filters # {} /\ Poll!ChangePath({}) /\ UNCHANGED record
Refresh == Poll!Reload(filters) /\ UNCHANGED record
Ticks == Poll!Tick /\ UNCHANGED record
Lands == Poll!Land /\ UNCHANGED record
Changes == Poll!Change /\ UNCHANGED record

-----------------------------------------------------------------------------
OpenRecord(r) ==
    /\ result # NoPath /\ row = Closed
    /\ row' = r
    /\ UNCHANGED <<query, explain, asking, abandoned, strayed>>
CloseRecord ==
    /\ row # Closed
    /\ row' = Closed
    /\ explain' = Closed
    /\ abandoned' = (asking # Closed)
    /\ strayed' = FALSE
    /\ UNCHANGED <<query, asking>>
load ==
    /\ row # Closed /\ asking = Closed
    /\ asking' = row
    /\ UNCHANGED <<query, row, explain, abandoned, strayed>>
Explained ==
    /\ asking # Closed
    /\ explain' = asking
    /\ asking' = Closed
    /\ strayed' = abandoned
    /\ abandoned' = FALSE
    /\ UNCHANGED <<query, row>>
NotExplained ==
    /\ asking # Closed
    /\ asking' = Closed
    /\ abandoned' = FALSE
    /\ UNCHANGED <<query, row, explain, strayed>>
ExplainEnds == Explained \/ NotExplained

Next ==
    \/ \E v \in Facets : toggle(v)
    \/ Clear \/ Refresh \/ Ticks \/ Lands \/ Changes
    \/ \E r \in Records : OpenRecord(r)
    \/ CloseRecord \/ load \/ ExplainEnds

Fairness == WF_vars(Lands) /\ WF_vars(Ticks) /\ WF_vars(ExplainEnds)

Spec == Init /\ [][Next]_vars /\ Fairness

-----------------------------------------------------------------------------
TypeOK ==
    /\ Poll!PollTypeOK
    /\ {row, explain, asking} \subseteq Records \cup {Closed}
    /\ {abandoned, strayed} \subseteq BOOLEAN

(* An explanation is shown with the record it explains, unless the sheet   *)
(* was closed while this explanation was on its way (RecordSheet).  Then   *)
(* the code shows it with the record that is opened next, until that is    *)
(* closed or explained itself.                                             *)
ExplainsTheRecord ==
    (row # Closed /\ explain # Closed /\ ~strayed) => explain = row

(* Once its filters are left alone, the page shows what they select now.   *)
SettlesOnFilters == Poll!SettlesOnPath

(* "Checking..." ends (busy).                                              *)
CheckingEnds == asking # Closed ~> asking = Closed
=============================================================================
