---------------------------- MODULE AlertEditor ----------------------------
(***************************************************************************)
(* The Integrations page (app/alerts/page.tsx): the alert routes are       *)
(* fetched, edited in the page and saved as a whole list.  The fetch is    *)
(* tied to the configuration the shell hands down (AppShell.tsx), and the  *)
(* shell loads that anew every minute, an object that is never the one     *)
(* before: the routes are fetched again with it, whatever is being edited. *)
(* Save waits for nothing but a change, so several may be on their way,    *)
(* and the backend may take them in another order.                         *)
(*                                                                         *)
(* A route is absent, off or on; the rest of what can be edited is alike.  *)
(* Test alerts change nothing here and are left out.                       *)
(***************************************************************************)
EXTENDS Naturals, SequencesExt

CONSTANTS
    RouteIds,
    Initially,   \* the routes the backend has
    MaxEdits,    \* bound: changes to the list
    MaxFetches,  \* bound: fetches on their way
    MaxSaves,    \* bound: saves
    MaxLost      \* bound: requests that fail

Routes == [RouteIds -> {"absent", "off", "on"}]
NoRoutes == [r \in RouteIds |-> "absent"]

(* Assumed of the constants where they get their values (Console).         *)
EditorAssumption ==
    /\ Initially \in Routes
    /\ {MaxEdits, MaxFetches, MaxSaves, MaxLost} \subseteq Nat /\ MaxFetches > 0

VARIABLES
    config,   \* the shell's configuration: "fallback", "loaded"
    routes,   \* the list on the page
    dirty,    \* whether Save is on
    fetches,  \* what fetches on their way bring: routes, or Unread
    saves,    \* saves on their way: the list, and whether the backend took it
    stored,   \* the routes the backend has
    edits, saved, lost   \* changes, saves and failures so far

vars == <<config, routes, dirty, fetches, saves, stored, edits, saved, lost>>

Unread == <<>>

(* The page is mounted, with the configuration the shell has.              *)
Init ==
    /\ config \in {"fallback", "loaded"}
    /\ routes = NoRoutes
    /\ dirty = FALSE
    /\ fetches = <<Unread>>
    /\ saves = <<>>
    /\ stored = Initially
    /\ edits = 0 /\ saved = 0 /\ lost = 0

-----------------------------------------------------------------------------
(* The shell's load: at once, and every minute.  Every answer is a new     *)
(* object, and the page's effect runs again.                               *)
Refetched == Append(fetches, Unread)
LoadConfig ==
    /\ config' = "loaded"
    /\ fetches' = Refetched
    /\ Len(fetches') <= MaxFetches
    /\ UNCHANGED <<routes, dirty, saves, stored, edits, saved, lost>>

(* The backend answers a fetch with what it has then.                      *)
Read(i) ==
    /\ fetches[i] = Unread
    /\ fetches' = [fetches EXCEPT ![i] = stored]
    /\ UNCHANGED <<config, routes, dirty, saves, stored, edits, saved, lost>>
Fetched(i) ==
    /\ fetches[i] # Unread
    /\ routes' = fetches[i]
    /\ fetches' = RemoveAt(fetches, i)
    /\ UNCHANGED <<config, dirty, saves, stored, edits, saved, lost>>
FetchFails(i) ==
    /\ lost < MaxLost
    /\ lost' = lost + 1
    /\ fetches' = RemoveAt(fetches, i)
    /\ UNCHANGED <<config, routes, dirty, saves, stored, edits, saved>>

-----------------------------------------------------------------------------
Edit(list) ==
    /\ edits < MaxEdits
    /\ edits' = edits + 1
    /\ routes' = list
    /\ dirty' = TRUE
    /\ UNCHANGED <<config, fetches, saves, stored, saved, lost>>
Add(r) == routes[r] = "absent" /\ Edit([routes EXCEPT ![r] = "on"])
Drop(r) == routes[r] # "absent" /\ Edit([routes EXCEPT ![r] = "absent"])
update(r) == routes[r] # "absent"
             /\ Edit([routes EXCEPT ![r] = IF @ = "on" THEN "off" ELSE "on"])

save ==
    /\ dirty
    /\ saved < MaxSaves
    /\ saved' = saved + 1
    /\ saves' = Append(saves, [list |-> routes, taken |-> FALSE])
    /\ UNCHANGED <<config, routes, dirty, fetches, stored, edits, lost>>
(* The backend takes the list, whole.                                      *)
Take(i) ==
    /\ ~saves[i].taken
    /\ stored' = saves[i].list
    /\ saves' = [saves EXCEPT ![i].taken = TRUE]
    /\ UNCHANGED <<config, routes, dirty, fetches, edits, saved, lost>>
Saved(i) ==
    /\ saves[i].taken
    /\ routes' = saves[i].list
    /\ dirty' = FALSE
    /\ saves' = RemoveAt(saves, i)
    /\ UNCHANGED <<config, fetches, stored, edits, saved, lost>>
(* Taken or not, no answer comes back.                                     *)
SaveFails(i) ==
    /\ lost < MaxLost
    /\ lost' = lost + 1
    /\ saves' = RemoveAt(saves, i)
    /\ UNCHANGED <<config, routes, dirty, fetches, stored, edits, saved>>

-----------------------------------------------------------------------------
FetchEnds == \E i \in DOMAIN fetches : Read(i) \/ Fetched(i) \/ FetchFails(i)
SaveEnds == \E i \in DOMAIN saves : Take(i) \/ Saved(i) \/ SaveFails(i)
Next ==
    \/ LoadConfig
    \/ FetchEnds
    \/ \E r \in RouteIds : Add(r) \/ Drop(r) \/ update(r)
    \/ save
    \/ SaveEnds

(* Requests are answered or fail, and the shell's timer runs.              *)
Fairness == WF_vars(LoadConfig) /\ WF_vars(FetchEnds) /\ WF_vars(SaveEnds)

Spec == Init /\ [][Next]_vars /\ Fairness

-----------------------------------------------------------------------------
TypeOK ==
    /\ config \in {"fallback", "loaded"}
    /\ routes \in Routes /\ stored \in Routes
    /\ dirty \in BOOLEAN
    /\ fetches \in Seq(Routes \cup {Unread}) /\ Len(fetches) <= MaxFetches
    /\ saves \in Seq([list : Routes, taken : BOOLEAN])
    /\ edits \in 0 .. MaxEdits /\ saved \in 0 .. MaxSaves /\ lost \in 0 .. MaxLost

(* A page nobody edits any more ends up showing the routes the backend     *)
(* has, whatever crossed on the way: the reload of every minute is what    *)
(* mends it (AlertsPage, AppShell).                                        *)
SettlesOnStored == <>[](routes = stored)
=============================================================================
