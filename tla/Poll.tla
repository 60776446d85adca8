-------------------------------- MODULE Poll --------------------------------
(***************************************************************************)
(* The hook the pages read the backend with (lib/usePoll.ts).  It asks for *)
(* its path when the path changes, when the page reloads it and, with an   *)
(* interval, again and again; every answer becomes the data.  The mark     *)
(* that is to stop late answers is shared by all of a component's polls    *)
(* and is set again the moment the path has changed, so it only keeps out  *)
(* what arrives after the component is gone.                               *)
(*                                                                         *)
(* The backend's state is a version that grows; an answer is that of some  *)
(* moment between the request and the answer, and answers overtake each    *)
(* other.  The module has the steps; a page that uses the hook says when   *)
(* they are taken.                                                         *)
(***************************************************************************)
EXTENDS Naturals, SequencesExt

CONSTANTS
    Paths,       \* what may be asked for
    NoPath,      \* no path yet, and no data yet
    Interval,    \* whether the hook asks again by itself
    MaxGets,     \* bound: requests in flight
    MaxVersion,  \* bound: changes at the backend
    MaxErrors    \* bound: requests that fail

(* Assumed of the constants where they get their values (Console).         *)
PollAssumption ==
    /\ \A p \in Paths : p # NoPath
    /\ Interval \in BOOLEAN
    /\ {MaxGets, MaxVersion, MaxErrors} \subseteq Nat /\ MaxGets > 0

VARIABLES
    path,     \* what the hook is asked for
    data,     \* the last answer
    gets,     \* requests in flight
    version,  \* of the backend's state
    errors    \* requests that have failed

pollVars == <<path, data, gets, version, errors>>

Data == [path : Paths, at : 0 .. MaxVersion] \cup {NoPath}

PollTypeOK ==
    /\ path \in Paths \cup {NoPath}
    /\ data \in Data
    /\ gets \in Seq([path : Paths, sent : 0 .. MaxVersion])
    /\ Len(gets) <= MaxGets
    /\ version \in 0 .. MaxVersion
    /\ errors \in 0 .. MaxErrors

(* A request for p, from where the backend is now.                         *)
Asking(p) == IF p = NoPath THEN gets ELSE Append(gets, [path |-> p, sent |-> version])

Init ==
    /\ path \in Paths \cup {NoPath}
    /\ data = NoPath
    /\ gets = IF path = NoPath THEN <<>> ELSE <<[path |-> path, sent |-> 0]>>
    /\ version = 0
    /\ errors = 0

(* The path changes; the data is kept until there is an answer.            *)
ChangePath(p) ==
    /\ p # path
    /\ path' = p
    /\ gets' = Asking(p)
    /\ Len(gets') <= MaxGets
    /\ UNCHANGED <<data, version, errors>>

(* load, as the page of the time when the path was p holds it.             *)
Reload(p) ==
    /\ gets' = Asking(p)
    /\ Len(gets') <= MaxGets
    /\ UNCHANGED <<path, data, version, errors>>
Tick == Interval /\ path # NoPath /\ Reload(path)

Answer(i, at) ==
    /\ i \in DOMAIN gets
    /\ at \in gets[i].sent .. version
    /\ data' = [path |-> gets[i].path, at |-> at]
    /\ gets' = RemoveAt(gets, i)
    /\ UNCHANGED <<path, version, errors>>
(* An error leaves the data as it is.                                      *)
Fail(i) ==
    /\ i \in DOMAIN gets
    /\ errors < MaxErrors
    /\ errors' = errors + 1
    /\ gets' = RemoveAt(gets, i)
    /\ UNCHANGED <<path, data, version>>

Land == \/ \E i \in DOMAIN gets, at \in 0 .. version : Answer(i, at)
        \/ \E i \in DOMAIN gets : Fail(i)

(* Something happens in the cluster.                                       *)
Change == version < MaxVersion /\ version' = version + 1
          /\ UNCHANGED <<path, data, gets, errors>>

-----------------------------------------------------------------------------
(* With an interval, a page whose path is left alone ends up showing that  *)
(* path as the backend has it, whatever is late (usePoll).                 *)
Shown(p) == data = [path |-> p, at |-> version]
SettlesOnPath == Interval => \A p \in Paths : <>[](path = p) => <>[]Shown(p)
=============================================================================
