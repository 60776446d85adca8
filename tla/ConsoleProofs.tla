---------------------------- MODULE ConsoleProofs ----------------------------
(***************************************************************************)
(* What stands on a page of the console agrees with what stands beside it, *)
(* or with what stood there when it was asked for, for any policies,       *)
(* values, texts, records, lines and bounds; a line that is logged gets to *)
(* the buffer once; a page keeps its types; and, with LibraryProofs, what  *)
(* the library applies is what was confirmed.  Each page has an invariant  *)
(* of its own, which says where the answers on their way will go; the      *)
(* pages have no variable in common, so a step of one leaves the           *)
(* invariants of the others as they are.                                   *)
(***************************************************************************)
EXTENDS LibraryProofs

(* A preview on its way is of the ticks and of the policy on the sheet,    *)
(* except for what changed since it was asked for.                         *)
AskedIsOfPage ==
    Hits!PreviewAsked =>
        /\ call.request.values = selected \/ "values" \in overtaken
        /\ call.request.policy = detail.path \/ "policy" \in overtaken

(* The sheet of a policy's hits: its calls come from policies.             *)
SheetInv ==
    /\ open \in Policies \cup {NoPolicy}
    /\ detail \in Hits!Poll!Data
    /\ hitGets \in Seq([path : Policies, sent : {0}])
    /\ Hits!busy => call.from \in Policies
    /\ \A c \in orphans : c.from \in Policies
    /\ AskedIsOfPage
    /\ Hits!PreviewIsOfPage /\ Hits!NotesAreTrue /\ Hits!NothingOutlivesTheSheet

(* A text has a kind, a namespace and a name.                              *)
IsText(t) == t \in [kind : {t.kind}, namespace : {t.namespace}, name : {t.name}]

(* The composer: a dry run on its way is of the text, unless that drifted. *)
ComposerInv ==
    /\ IsText(text)
    /\ (Create!DryRunAsked /\ ~drifted) => waiting.text = text
    /\ Create!RunIsOfText

(* The record's sheet: an explanation on its way is of the record on the   *)
(* sheet, unless the sheet was closed since it was asked for.              *)
RecordInv ==
    /\ (asking # Closed /\ ~abandoned) => row = asking
    /\ (explain # Closed /\ ~strayed) => row = explain

-----------------------------------------------------------------------------
LEMMA RemoveAtType ==
    ASSUME NEW S, NEW s \in Seq(S), NEW i \in DOMAIN s
    PROVE  /\ Hits!Poll!RemoveAt(s, i) \in Seq(S)
           /\ s[i] \in S
  BY DEF Hits!Poll!RemoveAt

(* A poll's requests are for policies, and so is the one a reload adds.    *)
LEMMA AskingType ==
    ASSUME hitGets \in Seq([path : Policies, sent : {0}]),
           NEW p \in Policies \cup {NoPolicy}
    PROVE  Hits!Poll!Asking(p) \in Seq([path : Policies, sent : {0}])
<1>1. CASE p = NoPolicy
  BY <1>1 DEF Hits!Poll!Asking
<1>2. CASE p # NoPolicy
  <2> DEFINE get == [path |-> p, sent |-> 0]
  <2>1. get \in [path : Policies, sent : {0}]
    BY <1>2
  <2>2. Append(hitGets, get) \in Seq([path : Policies, sent : {0}])
    BY <2>1
  <2> QED
    BY <1>2, <2>2 DEF Hits!Poll!Asking
<1> QED
  BY <1>1, <1>2

(* What lands is an answer about a policy, and not the absence of one.     *)
LEMMA LandType ==
    ASSUME SheetInv, Hits!Poll!Land
    PROVE  /\ open' = open
           /\ detail' \in Hits!Poll!Data
           /\ hitGets' \in Seq([path : Policies, sent : {0}])
           /\ detail # NoPolicy => detail' # NoPolicy
<1>1. ASSUME NEW i \in DOMAIN hitGets
      PROVE  /\ hitGets[i].path \in Policies
             /\ Hits!Poll!RemoveAt(hitGets, i) \in Seq([path : Policies, sent : {0}])
  <2>1. hitGets[i] \in [path : Policies, sent : {0}]
    BY RemoveAtType DEF SheetInv
  <2>2. Hits!Poll!RemoveAt(hitGets, i) \in Seq([path : Policies, sent : {0}])
    BY RemoveAtType DEF SheetInv
  <2> QED
    BY <2>1, <2>2
<1>2. ASSUME NEW i \in DOMAIN hitGets, NEW at \in 0 .. 0, Hits!Poll!Answer(i, at)
      PROVE  /\ open' = open
             /\ detail' \in [path : Policies, at : 0 .. 0]
             /\ hitGets' \in Seq([path : Policies, sent : {0}])
  BY <1>1, <1>2 DEF Hits!Poll!Answer
<1>3. ASSUME NEW i \in DOMAIN hitGets, Hits!Poll!Fail(i)
      PROVE  /\ open' = open /\ detail' = detail
             /\ hitGets' \in Seq([path : Policies, sent : {0}])
  BY <1>1, <1>3 DEF Hits!Poll!Fail
<1>4. \A d \in [path : Policies, at : 0 .. 0] : d \in Hits!Poll!Data /\ d # NoPolicy
  BY PagesAssumption DEF Hits!HitPageAssumption, Hits!Poll!Data
<1> QED
  BY <1>2, <1>3, <1>4 DEF Hits!Poll!Land, SheetInv

-----------------------------------------------------------------------------
(* Every step of the Exclusions page.                                      *)
LEMMA SheetStarts == Hits!Init => SheetInv
  BY DEF Hits!Init, Hits!Poll!Init, SheetInv, AskedIsOfPage, Hits!Poll!Data, Hits!busy,
         Hits!PreviewAsked, Hits!PreviewIsOfPage, Hits!NotesAreTrue,
         Hits!NothingOutlivesTheSheet

LEMMA OpenKeeps ==
    ASSUME SheetInv, NEW p \in Policies, Hits!Open(p)
    PROVE  SheetInv'
<1>1. hitGets' \in Seq([path : Policies, sent : {0}])
  BY AskingType DEF Hits!Open, Hits!Poll!ChangePath, SheetInv
<1> QED
  BY <1>1 DEF SheetInv, AskedIsOfPage, Hits!Open, Hits!Poll!ChangePath,
              Hits!sheet, Hits!server, Hits!missed, Hits!busy, Hits!PreviewAsked, Hits!request, Hits!PreviewIsOfPage,
              Hits!NotesAreTrue, Hits!NothingOutlivesTheSheet, Hits!Mounted, Hits!Poll!Data

LEMMA CloseKeeps ==
    ASSUME SheetInv, Hits!Close
    PROVE  SheetInv'
<1>1. hitGets' \in Seq([path : Policies, sent : {0}])
  BY AskingType DEF Hits!Close, Hits!Poll!ChangePath, SheetInv
<1>2. \A c \in orphans' : c.from \in Policies
  BY DEF Hits!Close, Hits!Orphaned, SheetInv
<1> QED
  BY <1>1, <1>2 DEF SheetInv, AskedIsOfPage, Hits!Close, Hits!Poll!ChangePath, Hits!Fresh, Hits!busy,
                    Hits!PreviewAsked, Hits!PreviewIsOfPage, Hits!NotesAreTrue,
                    Hits!NothingOutlivesTheSheet, Hits!Poll!Data

(* The detail may be another policy's now: then a preview, on the sheet or *)
(* on its way, is marked.                                                  *)
LEMMA DetailLandsKeeps ==
    ASSUME SheetInv, Hits!DetailLands
    PROVE  SheetInv'
<1>1. /\ open' = open
      /\ detail' \in Hits!Poll!Data
      /\ hitGets' \in Seq([path : Policies, sent : {0}])
      /\ detail # NoPolicy => detail' # NoPolicy
  BY LandType DEF Hits!DetailLands
<1>2. UNCHANGED <<selected, preview, applied, call, orphans, excluded>>
  BY DEF Hits!DetailLands, Hits!sheet, Hits!server
<1>3. (preview # Nothing \/ Hits!PreviewAsked) => detail # NoPolicy
  BY DEF SheetInv, Hits!NothingOutlivesTheSheet, Hits!Mounted, Hits!PreviewAsked
<1>4. Hits!PreviewAsked =>
          /\ overtaken \subseteq overtaken'
          /\ detail'.path = detail.path \/ "policy" \in overtaken'
  BY <1>3 DEF Hits!DetailLands
<1>5. preview # Nothing =>
          /\ crossed \subseteq crossed'
          /\ detail'.path = detail.path \/ "policy" \in crossed'
  BY <1>3 DEF Hits!DetailLands
<1>6. AskedIsOfPage'
  BY <1>2, <1>4 DEF SheetInv, AskedIsOfPage, Hits!busy, Hits!PreviewAsked
<1>7. Hits!PreviewIsOfPage'
  BY <1>2, <1>5 DEF SheetInv, Hits!PreviewIsOfPage
<1> QED
  BY <1>1, <1>2, <1>6, <1>7 DEF SheetInv, Hits!busy, Hits!NotesAreTrue,
                                Hits!NothingOutlivesTheSheet, Hits!Mounted

LEMMA ToggleKeeps ==
    ASSUME SheetInv, NEW v \in HitValues, Hits!toggle(v)
    PROVE  SheetInv'
  BY DEF SheetInv, AskedIsOfPage, Hits!toggle, Hits!poll, Hits!server, Hits!busy, Hits!PreviewAsked,
         Hits!PreviewIsOfPage, Hits!NotesAreTrue, Hits!NothingOutlivesTheSheet,
         Hits!Mounted, Hits!Poll!Data

LEMMA CallsKeeps ==
    ASSUME SheetInv, NEW c, c.from = open,
           c.kind = "preview" => c.request = Hits!request,
           Hits!Calls(c)
    PROVE  SheetInv'
  BY DEF SheetInv, AskedIsOfPage, Hits!Calls, Hits!poll, Hits!missed, Hits!busy,
         Hits!PreviewAsked, Hits!request, Hits!PreviewIsOfPage, Hits!NotesAreTrue, Hits!NothingOutlivesTheSheet,
         Hits!Mounted, Hits!Poll!Data

LEMMA CallKeeps ==
    ASSUME SheetInv, Hits!doPreview \/ Hits!doApply \/ Hits!doReset
    PROVE  SheetInv'
<1>1. CASE Hits!doPreview
  BY <1>1, CallsKeeps DEF Hits!doPreview
<1>2. CASE Hits!doApply
  BY <1>2, CallsKeeps DEF Hits!doApply
<1>3. CASE Hits!doReset
  BY <1>3, CallsKeeps DEF Hits!doReset
<1> QED
  BY <1>1, <1>2, <1>3

(* A reload is of the page's policy at the time of the call.               *)
LEMMA ReloadType ==
    ASSUME SheetInv, NEW p \in Policies, Hits!Poll!Reload(p)
    PROVE  /\ UNCHANGED <<open, detail>>
           /\ hitGets' \in Seq([path : Policies, sent : {0}])
  BY AskingType DEF Hits!Poll!Reload, SheetInv

LEMMA CallEndsKeeps ==
    ASSUME SheetInv, Hits!CallEnds
    PROVE  SheetInv'
<1> USE DEF SheetInv, AskedIsOfPage, Hits!busy, Hits!PreviewAsked, Hits!PreviewIsOfPage,
            Hits!NotesAreTrue, Hits!NothingOutlivesTheSheet, Hits!Mounted
<1>1. CASE Hits!Previewed
  BY <1>1 DEF Hits!Previewed, Hits!poll, Hits!server, Hits!request, Hits!Poll!Data
<1>2. CASE Hits!Applied
  <2>1. UNCHANGED <<open, detail>> /\ hitGets' \in Seq([path : Policies, sent : {0}])
    BY <1>2, ReloadType DEF Hits!Applied
  <2> QED
    BY <1>2, <2>1 DEF Hits!Applied, Hits!Poll!Data
<1>3. CASE Hits!WasReset
  <2>1. UNCHANGED <<open, detail>> /\ hitGets' \in Seq([path : Policies, sent : {0}])
    BY <1>3, ReloadType DEF Hits!WasReset
  <2> QED
    BY <1>3, <2>1 DEF Hits!WasReset, Hits!server, Hits!missed, Hits!Poll!Data
<1>4. CASE Hits!Failed
  <2>1. excluded \subseteq excluded'
    BY <1>4 DEF Hits!Failed
  <2> QED
    BY <1>4, <2>1 DEF Hits!Failed, Hits!poll, Hits!request, Hits!Poll!Data
<1> QED
  BY <1>1, <1>2, <1>3, <1>4 DEF Hits!CallEnds

LEMMA OrphanEndsKeeps ==
    ASSUME SheetInv, NEW c \in orphans, Hits!OrphanEnds(c)
    PROVE  SheetInv'
<1>1. UNCHANGED <<open, detail>> /\ hitGets' \in Seq([path : Policies, sent : {0}])
  <2>1. CASE c.kind = "preview"
    BY <2>1 DEF Hits!OrphanEnds, Hits!poll, SheetInv
  <2>2. CASE c.kind # "preview"
    BY <2>2, ReloadType DEF Hits!OrphanEnds, SheetInv
  <2> QED
    BY <2>1, <2>2
<1>2. /\ orphans' \subseteq orphans
      /\ excluded \subseteq excluded'
      /\ UNCHANGED <<selected, preview, applied, call, overtaken, crossed>>
  BY DEF Hits!OrphanEnds, Hits!sheet, Hits!missed
<1> QED
  BY <1>1, <1>2 DEF SheetInv, AskedIsOfPage, Hits!busy, Hits!PreviewAsked,
                    Hits!PreviewIsOfPage, Hits!NotesAreTrue,
                    Hits!NothingOutlivesTheSheet, Hits!Mounted, Hits!Poll!Data

LEMMA SheetKeeps ==
    ASSUME SheetInv, Hits!Next
    PROVE  SheetInv'
<1>1. ASSUME NEW p \in Policies, Hits!Open(p) PROVE SheetInv'
  BY <1>1, OpenKeeps
<1>2. CASE Hits!Close
  BY <1>2, CloseKeeps
<1>3. CASE Hits!DetailLands
  BY <1>3, DetailLandsKeeps
<1>4. ASSUME NEW v \in HitValues, Hits!toggle(v) PROVE SheetInv'
  BY <1>4, ToggleKeeps
<1>5. CASE Hits!doPreview \/ Hits!doApply \/ Hits!doReset
  BY <1>5, CallKeeps
<1>6. CASE Hits!CallEnds
  BY <1>6, CallEndsKeeps
<1>7. ASSUME NEW c \in orphans, Hits!OrphanEnds(c) PROVE SheetInv'
  BY <1>7, OrphanEndsKeeps
<1> QED
  BY <1>1, <1>2, <1>3, <1>4, <1>5, <1>6, <1>7 DEF Hits!Next

-----------------------------------------------------------------------------
(* Every step of the Create page.                                          *)
LEMMA TextKinds ==
    /\ \A t \in Typed \cup Listed : IsText(t)
    /\ \A i \in 1 .. 8 : IsText(Create!TEMPLATES[i])
    /\ Starts \subseteq 1 .. 8
    /\ "" \notin Namespaces
<1>1. \A t \in Create!Text : IsText(t)
  BY DEF IsText, Create!Text
<1>2. \A i \in 1 .. 8 : IsText(Create!TEMPLATES[i])
  BY DEF IsText, Create!TEMPLATES
<1> QED
  BY <1>1, <1>2, PagesAssumption DEF Create!TextsAssumption, Create!TEMPLATES

LEMMA RescopedType ==
    ASSUME NEW t, IsText(t), NEW namespace
    PROVE  /\ IsText(Create!Rescoped(t, namespace))
           /\ Create!Rescoped(t, namespace).namespace = namespace
  BY DEF Create!Rescoped, IsText

(* Picking a namespace moves a kind to its twin exactly when the scope     *)
(* changes.                                                                *)
LEMMA PickingFits == IsText(text) => Create!PickerFits
<1> SUFFICES ASSUME IsText(text),
                    NEW namespace \in Create!Offered(text),
                    Create!parsed(text), Create!ScopeFits(text)
             PROVE  Create!ScopeFits(Create!Rescoped(text, namespace))
  BY DEF Create!PickerFits
<1>1. text.kind = "NetworkPolicy" => namespace # ""
  BY TextKinds DEF Create!Offered
<1>2. text.kind \in Create!NETWORK_KINDS \cup Create!RUNTIME_KINDS
  BY DEF Create!parsed
<1>3. Create!Rescoped(text, namespace).namespace = namespace
  BY RescopedType
<1> QED
  BY <1>1, <1>2, <1>3
     DEF Create!ScopeFits, Create!ClusterKinds, Create!Rescoped, IsText,
         Create!NETWORK_KINDS, Create!RUNTIME_KINDS

LEMMA ComposerStarts == Create!Init => ComposerInv
<1>1. IsText(Create!TEMPLATES[1])
  BY DEF IsText, Create!TEMPLATES
<1> QED
  BY <1>1 DEF Create!Init, ComposerInv, Create!RunIsOfText, Create!DryRunAsked,
              Create!working

LEMMA ComposerKeeps ==
    ASSUME ComposerInv, Create!Next
    PROVE  ComposerInv'
<1> USE DEF ComposerInv, Create!RunIsOfText, Create!DryRunAsked, Create!working
<1>1. ASSUME NEW t, IsText(t), Create!Replace(t) PROVE ComposerInv'
  BY <1>1 DEF Create!Replace
<1>2. CASE \E t \in Typed : Create!Type(t)
  BY <1>1, <1>2, TextKinds DEF Create!Type
<1>3. CASE \E t \in Listed : Create!load(t)
  BY <1>1, <1>3, TextKinds DEF Create!load
<1>4. CASE \E i \in Starts : Create!Start(i)
  BY <1>1, <1>4, TextKinds DEF Create!Start
<1>5. CASE \E namespace \in Namespaces \cup {""} : Create!setNamespace(namespace)
  BY <1>1, <1>5, RescopedType DEF Create!setNamespace
<1>6. CASE Create!dryRun \/ Create!apply \/ Create!generate
  BY <1>6 DEF Create!dryRun, Create!apply, Create!generate, Create!Calls
<1>7. CASE Create!DryRunIn \/ Create!Applied \/ Create!NothingIn
  BY <1>7 DEF Create!DryRunIn, Create!Applied, Create!NothingIn
<1>8. CASE Create!GeneratedIn
  <2>1. IsText(Create!Generated(waiting.text))
    BY DEF IsText, Create!Generated
  <2> QED
    BY <1>8, <2>1 DEF Create!GeneratedIn
<1> QED
  BY <1>2, <1>3, <1>4, <1>5, <1>6, <1>7, <1>8 DEF Create!Next, Create!CallEnds

(* Every step of the Investigation page.                                   *)
LEMMA RecordKeeps ==
    ASSUME RecordInv, Inspect!Next
    PROVE  RecordInv'
<1> USE DEF RecordInv, Inspect!record, Inspect!query
<1>1. CASE UNCHANGED Inspect!record
  BY <1>1
<1>2. CASE \E r \in Records : Inspect!OpenRecord(r)
  BY <1>2 DEF Inspect!OpenRecord
<1>3. CASE Inspect!CloseRecord
  BY <1>3 DEF Inspect!CloseRecord
<1>4. CASE Inspect!load
  BY <1>4 DEF Inspect!load
<1>5. CASE Inspect!ExplainEnds
  BY <1>5 DEF Inspect!ExplainEnds, Inspect!Explained, Inspect!NotExplained
<1> QED
  BY <1>1, <1>2, <1>3, <1>4, <1>5
     DEF Inspect!Next, Inspect!toggle, Inspect!Clear, Inspect!Refresh, Inspect!Ticks,
         Inspect!Lands, Inspect!Changes

-----------------------------------------------------------------------------
(***************************************************************************)
(* The log.  A line is in one place on its way from the browser to the     *)
(* backend's buffer, and there once; and of a batch nothing passes         *)
(* anything else, from the queue through a goroutine of the backend and    *)
(* its stream to the page.                                                 *)
(***************************************************************************)

(* What Diagnostics takes from the libraries, under its name here.         *)
LEMMA LogsUse ==
    /\ \A s : Logs!FlattenSeq(s) = FlattenSeq(s)
    /\ \A s : Logs!ToSet(s) = ToSet(s)
    /\ \A s : Logs!IsInjective(s) = IsInjective(s)
    /\ \A s, i : Logs!RemoveAt(s, i) = RemoveAt(s, i)
    /\ \A s, x, cap : Logs!Push(s, x, cap) = Push(s, x, cap)
  BY DEF Logs!FlattenSeq, FlattenSeq, Logs!ToSet, ToSet, Logs!IsInjective, IsInjective,
         Logs!RemoveAt, RemoveAt, Logs!Push, Push

Line == Logs!Line

Request == [lines : Seq(Line), publish : {<<>>} \cup {<<line>> : line \in Line}]

(* A goroutine publishes one line at a time: the wire keeps its bound.     *)
LogsOK == Logs!TypeOK /\ appends \in Seq(Request)

(* A line of the browser, and one of the backend. *)
LEMMA NewLines ==
    ASSUME Logs!TypeOK
    PROVE  /\ \A level \in {"DEBUG", "ERROR"} : pushed < MaxLines =>
                 [origin |-> "frontend", level |-> level, n |-> pushed + 1] \in Line
           /\ logged < MaxLogs => [origin |-> "backend", n |-> logged + 1] \in Line
<1>1. MaxLines \in Nat /\ MaxLogs \in Nat /\ pushed \in 0 .. MaxLines /\ logged \in 0 .. MaxLogs
  BY PagesAssumption DEF Logs!LogAssumption, Logs!TypeOK
<1>2. /\ pushed < MaxLines => pushed + 1 \in 1 .. MaxLines
      /\ logged < MaxLogs => logged + 1 \in 1 .. MaxLogs
  BY <1>1
<1> QED
  BY <1>2 DEF Line, Logs!Line

(* Every step of the log keeps the types of what it has.                   *)
LEMMA LogsTyped ==
    ASSUME LogsOK, Logs!Next PROVE LogsOK'
<1>0. /\ MaxLines \in Nat /\ MaxLogs \in Nat /\ MaxLosses \in Nat
      /\ MaxRecent \in Nat \ {0} /\ Capacity \in Nat \ {0}
      /\ WireRoom \in Nat \ {0} /\ Limit \in Nat \ {0}
  BY PagesAssumption DEF Logs!LogAssumption
<1>a. /\ recent \in Seq(Line) /\ queue \in Seq(Line) /\ buffer \in Seq(Line)
      /\ wire \in Seq(Line) /\ items \in Seq(Line) /\ appended \in Seq(Line)
      /\ Len(recent) <= MaxRecent /\ Len(buffer) <= Capacity
      /\ Len(wire) <= WireRoom /\ Len(items) <= Limit
      /\ timer \in BOOLEAN /\ live \in BOOLEAN
      /\ posts \in Seq(Seq(Line)) /\ batches \subseteq Seq(Line)
      /\ appends \in Seq(Request)
      /\ socket \in {"connecting", "open", "closed"} /\ retry \in 1 .. 15
      /\ pushed \in 0 .. MaxLines /\ logged \in 0 .. MaxLogs /\ losses \in 0 .. MaxLosses
  BY DEF LogsOK, Logs!TypeOK, Line
<1> SUFFICES
      /\ recent' \in Seq(Line) /\ queue' \in Seq(Line) /\ buffer' \in Seq(Line)
      /\ wire' \in Seq(Line) /\ items' \in Seq(Line) /\ appended' \in Seq(Line)
      /\ Len(recent') <= MaxRecent /\ Len(buffer') <= Capacity
      /\ Len(wire') <= WireRoom /\ Len(items') <= Limit
      /\ timer' \in BOOLEAN /\ live' \in BOOLEAN
      /\ posts' \in Seq(Seq(Line)) /\ batches' \subseteq Seq(Line)
      /\ appends' \in Seq(Request)
      /\ socket' \in {"connecting", "open", "closed"} /\ retry' \in 1 .. 15
      /\ pushed' \in 0 .. MaxLines /\ logged' \in 0 .. MaxLogs /\ losses' \in 0 .. MaxLosses
  <2>1. Request \subseteq [lines : Seq(Line), publish : Seq(Line)]
    <3>1. \A line \in Line : <<line>> \in Seq(Line)
      OBVIOUS
    <3>2. <<>> \in Seq(Line)
      OBVIOUS
    <3> QED
      BY <3>1, <3>2 DEF Request
  <2>2. Seq(Request) \subseteq Seq([lines : Seq(Line), publish : Seq(Line)])
    BY <2>1, SeqMonotonic
  <2> QED
    BY <2>2 DEF LogsOK, Logs!TypeOK, Line, Logs!Line
<1>1. ASSUME NEW level \in {"DEBUG", "ERROR"}, Logs!push(level)
      PROVE  /\ recent' \in Seq(Line) /\ Len(recent') <= MaxRecent
             /\ queue' \in Seq(Line) /\ timer' \in BOOLEAN /\ pushed' \in 0 .. MaxLines
             /\ UNCHANGED <<posts, batches, appends, buffer, logged, appended, socket, retry,
                            wire, items, live, losses>>
  <2> DEFINE line == [origin |-> "frontend", level |-> level, n |-> pushed + 1]
  <2>1. pushed < MaxLines /\ pushed' = pushed + 1
    BY <1>1 DEF Logs!push
  <2>2. line \in Line
    BY <2>1, NewLines DEF LogsOK
  <2>3. /\ recent' = Push(recent, line, MaxRecent)
        /\ queue' = (IF level # "DEBUG" THEN Append(queue, line) ELSE queue)
        /\ timer' = (timer \/ level # "DEBUG")
        /\ UNCHANGED <<posts, batches, appends, buffer, logged, appended, socket, retry,
                       wire, items, live, losses>>
    BY <1>1, LogsUse DEF Logs!push, Logs!backend, Logs!page
  <2> HIDE DEF line
  <2>4. recent' \in Seq(Line) /\ Len(recent') <= MaxRecent
    BY <1>0, <1>a, <2>2, <2>3, PushKeeps
  <2>5. queue' \in Seq(Line)
    BY <1>a, <2>2, <2>3
  <2> QED
    BY <1>0, <1>a, <2>1, <2>3, <2>4, <2>5
<1>2. ASSUME Logs!TimerFires \/ Logs!BeforeUnload
      PROVE  /\ queue' \in Seq(Line) /\ timer' \in BOOLEAN /\ posts' \in Seq(Seq(Line))
             /\ batches' \subseteq Seq(Line)
             /\ UNCHANGED <<recent, pushed, appends, buffer, logged, appended, socket, retry,
                            wire, items, live, losses>>
  <2>1. /\ queue' = <<>> /\ timer' \in BOOLEAN
        /\ posts' = posts \/ posts' = Append(posts, queue)
        /\ batches' = batches \/ batches' = batches \cup {queue}
        /\ UNCHANGED <<recent, pushed, appends, buffer, logged, appended, socket, retry,
                       wire, items, live, losses>>
    BY <1>2, <1>a DEF Logs!TimerFires, Logs!BeforeUnload, Logs!flush, Logs!backend, Logs!page
  <2>2. posts' \in Seq(Seq(Line))
    <3> DEFINE V == Seq(Line)
    <3>1. posts \in Seq(V) /\ queue \in V
      BY <1>a
    <3> HIDE DEF V
    <3>2. posts' \in Seq(V)
      BY <2>1, <3>1
    <3> QED
      BY <3>2 DEF V
  <2>3. batches' \subseteq Seq(Line) /\ <<>> \in Seq(Line)
    BY <1>a, <2>1
  <2> QED
    BY <2>1, <2>2, <2>3
<1>3. ASSUME Logs!PostEnds
      PROVE  /\ posts' \in Seq(Seq(Line)) /\ appends' \in Seq(Request)
             /\ UNCHANGED <<recent, queue, timer, pushed, batches, buffer, logged, appended,
                            socket, retry, wire, items, live, losses>>
  <2>1. PICK i \in DOMAIN posts :
           /\ posts' = RemoveAt(posts, i)
           /\ \/ appends' = appends
              \/ appends' = Append(appends, [lines |-> posts[i], publish |-> <<>>])
           /\ UNCHANGED <<recent, queue, timer, pushed, batches, buffer, logged, appended,
                          socket, retry, wire, items, live, losses>>
    BY <1>3, LogsUse DEF Logs!PostEnds, Logs!PostLost, Logs!postClientLog, Logs!backend, Logs!page
  <2>2. posts' \in Seq(Seq(Line))
    <3> DEFINE V == Seq(Line)
    <3>1. posts \in Seq(V)
      BY <1>a
    <3> HIDE DEF V
    <3>2. posts' \in Seq(V)
      BY <2>1, <3>1, RemoveAtIs
    <3> QED
      BY <3>2 DEF V
  <2>3. appends' \in Seq(Request)
    <3> DEFINE request == [lines |-> posts[i], publish |-> <<>>]
    <3>1. request \in Request
      BY <1>a, <2>1 DEF Request
    <3>2. appends' = appends \/ appends' = Append(appends, request)
      BY <2>1
    <3> HIDE DEF request
    <3>3. Append(appends, request) \in Seq(Request)
      BY <1>a, <3>1, AppendProperties
    <3> QED
      BY <1>a, <3>2, <3>3
  <2> QED
    BY <2>1, <2>2, <2>3
<1>4. ASSUME Logs!Handle
      PROVE  /\ logged' \in 0 .. MaxLogs /\ appends' \in Seq(Request)
             /\ UNCHANGED <<buffer, appended, recent, queue, timer, posts, pushed, batches,
                            socket, retry, wire, items, live, losses>>
  <2> DEFINE line == [origin |-> "backend", n |-> logged + 1]
  <2>1. /\ logged < MaxLogs /\ logged' = logged + 1
        /\ appends' = Append(appends, [lines |-> <<line>>, publish |-> <<>>])
        /\ UNCHANGED <<buffer, appended, recent, queue, timer, posts, pushed, batches,
                       socket, retry, wire, items, live, losses>>
    BY <1>4 DEF Logs!Handle, Logs!browser, Logs!page
  <2>2. line \in Line
    BY <2>1, NewLines DEF LogsOK
  <2> HIDE DEF line
  <2>3. [lines |-> <<line>>, publish |-> <<>>] \in Request
    BY <2>2 DEF Request
  <2> QED
    BY <1>0, <1>a, <2>1, <2>3
<1>5. ASSUME NEW i \in DOMAIN appends, Logs!Store(i)
      PROVE  /\ buffer' \in Seq(Line) /\ Len(buffer') <= Capacity
             /\ appended' \in Seq(Line) /\ appends' \in Seq(Request)
             /\ UNCHANGED <<logged, recent, queue, timer, posts, pushed, batches,
                            socket, retry, wire, items, live, losses>>
  <2> DEFINE line == Head(appends[i].lines)
             request == [lines |-> Tail(appends[i].lines), publish |-> <<line>>]
  <2>1. /\ appends[i].lines # <<>>
        /\ buffer' = Push(buffer, line, Capacity)
        /\ appended' = Append(appended, line)
        /\ appends' = [appends EXCEPT ![i] = request]
        /\ UNCHANGED <<logged, recent, queue, timer, posts, pushed, batches,
                       socket, retry, wire, items, live, losses>>
    BY <1>5, LogsUse DEF Logs!Store, Logs!browser, Logs!page
  <2>2. appends[i].lines \in Seq(Line)
    <3>1. appends[i] \in Request
      BY <1>a
    <3> QED
      BY <3>1 DEF Request
  <2>3. line \in Line /\ Tail(appends[i].lines) \in Seq(Line)
    BY <2>1, <2>2
  <2>4. request \in Request
    BY <2>3 DEF Request
  <2> HIDE DEF line, request
  <2>5. buffer' \in Seq(Line) /\ Len(buffer') <= Capacity
    BY <1>0, <1>a, <2>1, <2>3, PushKeeps
  <2> QED
    BY <1>a, <2>1, <2>3, <2>4, <2>5
<1>6. ASSUME NEW i \in DOMAIN appends, Logs!Publish(i)
      PROVE  /\ wire' \in Seq(Line) /\ Len(wire') <= WireRoom /\ appends' \in Seq(Request)
             /\ UNCHANGED <<buffer, logged, appended, recent, queue, timer, posts, pushed,
                            batches, socket, retry, items, live, losses>>
  <2>1. /\ appends[i].publish # <<>> /\ appends' = Logs!Published(i)
        /\ wire' = (IF socket = "open" /\ Len(wire) < WireRoom
                    THEN wire \o appends[i].publish ELSE wire)
        /\ UNCHANGED <<buffer, logged, appended, recent, queue, timer, posts, pushed,
                       batches, socket, retry, items, live, losses>>
    BY <1>6 DEF Logs!Publish, Logs!browser
  <2>2. appends[i] \in Request
    BY <1>a
  <2>3. PICK line \in Line : appends[i].publish = <<line>>
    BY <2>1, <2>2 DEF Request
  <2>4. wire' \in Seq(Line) /\ Len(wire') <= WireRoom
    <3>1. Append(wire, line) \in Seq(Line) /\ Len(Append(wire, line)) = Len(wire) + 1
          /\ Append(wire, line) = wire \o <<line>>
      BY <1>a, AppendIsConcat
    <3>2. wire' = wire \/ (Len(wire) < WireRoom /\ wire' = Append(wire, line))
      BY <2>1, <2>3, <3>1
    <3> DEFINE more == Append(wire, line)
    <3> HIDE DEF more
    <3>3. Len(wire) \in Nat /\ more \in Seq(Line) /\ Len(more) = Len(wire) + 1
      BY <1>a, <3>1 DEF more
    <3>4. wire' = wire \/ (Len(wire) < WireRoom /\ wire' = more)
      BY <3>2 DEF more
    <3> QED
      BY <1>0, <1>a, <3>3, <3>4
  <2>5. appends' \in Seq(Request)
    <3>1. CASE appends[i].lines = <<>>
      BY <1>a, <2>1, <3>1, LogsUse, RemoveAtIs DEF Logs!Published
    <3>2. CASE appends[i].lines # <<>>
      <4>1. appends' = [appends EXCEPT ![i].publish = <<>>]
        BY <2>1, <3>2 DEF Logs!Published
      <4>2. [appends[i] EXCEPT !.publish = <<>>] \in Request
        BY <2>2 DEF Request
      <4> QED
        BY <1>a, <4>1, <4>2
    <3> QED
      BY <3>1, <3>2
  <2> QED
    BY <2>1, <2>4, <2>5
<1>7. ASSUME Logs!onmessage
      PROVE  /\ wire' \in Seq(Line) /\ Len(wire') <= WireRoom
             /\ items' \in Seq(Line) /\ Len(items') <= Limit
             /\ UNCHANGED <<socket, retry, live, losses, recent, queue, timer, posts, pushed,
                            batches, appends, buffer, logged, appended>>
  <2> DEFINE more == <<Head(wire)>> \o items
             n == IF Len(more) < Limit THEN Len(more) ELSE Limit
  <2>1. /\ wire # <<>> /\ wire' = Tail(wire)
        /\ items' = (IF live THEN SubSeq(more, 1, n) ELSE items)
        /\ UNCHANGED <<socket, retry, live, losses, recent, queue, timer, posts, pushed,
                       batches, appends, buffer, logged, appended>>
    BY <1>7 DEF Logs!onmessage, Logs!browser, Logs!backend
  <2>2. /\ wire' \in Seq(Line) /\ Len(wire') = Len(wire) - 1
        /\ Head(wire) \in Line
    BY <1>a, <2>1
  <2>3. more \in Seq(Line) /\ Len(more) \in Nat
    BY <1>a, <2>2
  <2> HIDE DEF more
  <2>4. n \in 0 .. Len(more) /\ n <= Limit
    BY <1>0, <2>3
  <2> HIDE DEF n
  <2>5. SubSeq(more, 1, n) \in Seq(Line) /\ Len(SubSeq(more, 1, n)) = n
    BY <2>3, <2>4
  <2>6. items' \in Seq(Line) /\ Len(items') <= Limit
    BY <1>a, <2>1, <2>4, <2>5
  <2>7. Len(wire') <= WireRoom
    BY <1>0, <1>a, <2>2
  <2> QED
    BY <2>1, <2>2, <2>6, <2>7
<1>8. ASSUME Logs!onopen \/ Logs!onclose \/ Logs!connect \/ Logs!setLive
      PROVE  /\ socket' \in {"connecting", "open", "closed"} /\ retry' \in 1 .. 15
             /\ wire' \in Seq(Line) /\ Len(wire') <= WireRoom
             /\ live' \in BOOLEAN /\ losses' \in 0 .. MaxLosses
             /\ UNCHANGED <<items, recent, queue, timer, posts, pushed, batches, appends, buffer,
                            logged, appended>>
  <2>1. <<>> \in Seq(Line) /\ Len(<<>>) <= WireRoom
    BY <1>0
  <2>2. UNCHANGED <<items, recent, queue, timer, posts, pushed, batches, appends, buffer, logged,
                    appended>>
    BY <1>8 DEF Logs!onopen, Logs!onclose, Logs!connect, Logs!setLive, Logs!browser, Logs!backend
  <2>3. ASSUME Logs!onclose
        PROVE  /\ socket' = "closed" /\ wire' = <<>> /\ UNCHANGED live
               /\ retry' \in 1 .. 15 /\ losses' \in 0 .. MaxLosses
    BY <1>0, <1>a, <2>3 DEF Logs!onclose
  <2>4. ASSUME Logs!onopen \/ Logs!connect \/ Logs!setLive
        PROVE  /\ socket' \in {"connecting", "open", "closed"} /\ retry' \in 1 .. 15
               /\ live' \in BOOLEAN /\ UNCHANGED <<wire, losses>>
    <3>1. CASE Logs!onopen
      BY <1>a, <3>1 DEF Logs!onopen
    <3>2. CASE Logs!connect
      BY <1>a, <3>2 DEF Logs!connect
    <3>3. CASE Logs!setLive
      BY <1>a, <3>3 DEF Logs!setLive
    <3> QED
      BY <2>4, <3>1, <3>2, <3>3
  <2> QED
    BY <1>a, <1>8, <2>1, <2>2, <2>3, <2>4
<1> QED
  BY <1>a, <1>1, <1>2, <1>3, <1>4, <1>5, <1>6, <1>7, <1>8 DEF Logs!Next, Logs!AppendGoesOn

-----------------------------------------------------------------------------
(* The lines that each goroutine still has to append. *)
LinesOf(s) == [i \in DOMAIN s |-> s[i].lines]

LEMMA LinesOfAre ==
    ASSUME NEW s \in Seq(Request)
    PROVE  /\ LinesOf(s) \in Seq(Seq(Line))
           /\ DOMAIN LinesOf(s) = DOMAIN s
           /\ \A i \in DOMAIN s : s[i] \in Request /\ s[i].lines \in Seq(Line)
           /\ \A request \in Request :
                 LinesOf(Append(s, request)) = Append(LinesOf(s), request.lines)
           /\ \A i \in DOMAIN s : LinesOf(RemoveAt(s, i)) = RemoveAt(LinesOf(s), i)
           /\ \A i \in DOMAIN s : \A request :
                 LinesOf([s EXCEPT ![i] = request])
                     = [LinesOf(s) EXCEPT ![i] = request.lines]
<1> DEFINE V == Seq(Line)
           n == Len(s)
           l == LinesOf(s)
<1>1. n \in Nat /\ DOMAIN s = 1 .. n
  OBVIOUS
<1>2. \A i \in DOMAIN s : s[i] \in Request /\ s[i].lines \in V
  <2>1. \A i \in DOMAIN s : s[i] \in Request
    OBVIOUS
  <2> QED
    BY <2>1 DEF Request
<1>3. l \in [1 .. n -> V] /\ DOMAIN l = 1 .. n /\ \A i \in 1 .. n : l[i] = s[i].lines
  BY <1>1, <1>2 DEF LinesOf
<1>4. l \in Seq(V) /\ Len(l) = n
  <2> HIDE DEF V, l, n
  <2> QED
    BY <1>1, <1>3, SeqDef
<1>5. ASSUME NEW request \in Request
      PROVE  LinesOf(Append(s, request)) = Append(l, request.lines)
  <2> DEFINE more == Append(s, request)
             lines == Append(l, request.lines)
  <2>1. /\ Len(more) = n + 1 /\ more \in Seq(Request)
        /\ \A i \in 1 .. n : more[i] = s[i]
        /\ more[n + 1] = request
    BY AppendProperties
  <2>2. request.lines \in V
    BY DEF Request
  <2>3. /\ Len(lines) = n + 1 /\ lines \in Seq(V)
        /\ \A i \in 1 .. n : lines[i] = l[i]
        /\ lines[n + 1] = request.lines
    <3> HIDE DEF V, l, n
    <3> QED
      BY <1>4, <2>2, AppendProperties
  <2>4. DOMAIN more = 1 .. n + 1 /\ DOMAIN lines = 1 .. n + 1
    <3> HIDE DEF V, l, n, more, lines
    <3> QED
      BY <2>1, <2>3, LenProperties
  <2>5. \A i \in 1 .. n + 1 : more[i].lines = lines[i]
    <3>1. 1 .. n + 1 = 1 .. n \cup {n + 1}
      BY <1>1
    <3> HIDE DEF more, lines, l, n
    <3> QED
      BY <1>3, <2>1, <2>3, <3>1
  <2>6. lines = [i \in 1 .. n + 1 |-> lines[i]]
    <3> HIDE DEF V, l, n, lines
    <3> QED
      BY <2>3, <2>4, LenProperties
  <2>7. LinesOf(more) = lines
    <3> HIDE DEF lines, more, n, l, V
    <3> QED
      BY <2>4, <2>5, <2>6 DEF LinesOf
  <2> QED
    BY <2>7
<1>6. ASSUME NEW i \in DOMAIN s
      PROVE  LinesOf(RemoveAt(s, i)) = RemoveAt(l, i)
  <2> DEFINE less == RemoveAt(s, i)
             lines == RemoveAt(l, i)
  <2>0. i \in 1 .. n /\ i \in DOMAIN l
    BY <1>1, <1>3
  <2>1. /\ less \in Seq(Request) /\ DOMAIN less = 1 .. n - 1
        /\ \A j \in 1 .. n - 1 : less[j] = IF j < i THEN s[j] ELSE s[j + 1]
    BY RemoveAtIs
  <2>2. /\ lines \in Seq(V) /\ DOMAIN lines = 1 .. n - 1
        /\ \A j \in 1 .. n - 1 : lines[j] = IF j < i THEN l[j] ELSE l[j + 1]
    <3> HIDE DEF V, l, n
    <3> QED
      BY <1>4, <2>0, RemoveAtIs
  <2> HIDE DEF less, lines, l, n, V
  <2>3. \A j \in 1 .. n - 1 : less[j].lines = lines[j]
    <3>1. \A j \in 1 .. n - 1 : j \in 1 .. n /\ j + 1 \in 1 .. n
      BY <1>1
    <3> QED
      BY <1>3, <2>1, <2>2, <3>1
  <2>4. lines = [j \in 1 .. n - 1 |-> lines[j]]
    BY <2>2, LenProperties
  <2>5. LinesOf(less) = lines
    BY <2>1, <2>3, <2>4 DEF LinesOf
  <2> QED
    BY <2>5 DEF less, lines
<1>7. ASSUME NEW i \in DOMAIN s, NEW request
      PROVE  LinesOf([s EXCEPT ![i] = request]) = [l EXCEPT ![i] = request.lines]
  BY DEF LinesOf
<1> QED
  BY <1>1, <1>2, <1>3, <1>4, <1>5, <1>6, <1>7

Separate(A, B, C, D) ==
    /\ A \cap B = {} /\ A \cap C = {} /\ A \cap D = {}
    /\ B \cap C = {} /\ B \cap D = {} /\ C \cap D = {}

(* Of the first lines, f of the browser and b of the backend, and shipped. *)
Issued(line, f, b) ==
    \/ line.origin = "frontend" /\ line.n \in 1 .. f /\ line.level # "DEBUG"
    \/ line.origin = "backend" /\ line.n \in 1 .. b

(* Each line on its way is in one place, and there once.                   *)
OnceInv ==
    /\ IsInjective(queue) /\ Apart(posts) /\ Apart(LinesOf(appends)) /\ IsInjective(appended)
    /\ Separate(ToSet(queue), AllOf(posts), AllOf(LinesOf(appends)), ToSet(appended))
    /\ \A line \in ToSet(queue) \cup AllOf(posts) \cup AllOf(LinesOf(appends))
                      \cup ToSet(appended) : Issued(line, pushed, logged)

LEMMA OnceIsShippedOnce ==
    ASSUME LogsOK, OnceInv PROVE Logs!ShippedOnce
<1> DEFINE p == FlattenSeq(posts)
           l == FlattenSeq(LinesOf(appends))
           S == Line
<1>1. /\ queue \in Seq(S) /\ appended \in Seq(S)
      /\ posts \in Seq(Seq(S)) /\ LinesOf(appends) \in Seq(Seq(S))
  BY LinesOfAre DEF LogsOK, Logs!TypeOK, Line
<1>2. /\ p \in Seq(S) /\ ToSet(p) = AllOf(posts) /\ IsInjective(p)
      /\ l \in Seq(S) /\ ToSet(l) = AllOf(LinesOf(appends)) /\ IsInjective(l)
  BY <1>1, FlattenRange DEF OnceInv, AllOf
<1>3. Logs!InTransit = (queue \o p) \o l
  BY LogsUse DEF Logs!InTransit, LinesOf
<1> HIDE DEF p, l
<1>4. /\ queue \o p \in Seq(S)
      /\ ToSet(queue \o p) = ToSet(queue) \cup ToSet(p)
      /\ IsInjective(queue \o p)
  BY <1>1, <1>2, ConcatRange DEF OnceInv, Separate
<1> DEFINE t == queue \o p
<1> HIDE DEF t
<1>5. /\ t \o l \in Seq(S)
      /\ ToSet(t \o l) = ToSet(t) \cup ToSet(l)
      /\ IsInjective(t \o l)
  <2>1. ToSet(t) \cap ToSet(l) = {}
    BY <1>2, <1>4 DEF OnceInv, Separate, t
  <2> QED
    BY <1>2, <1>4, <2>1, ConcatRange DEF t
<1> DEFINE w == t \o l
<1> HIDE DEF w
<1>6. /\ ToSet(w \o appended) = ToSet(w) \cup ToSet(appended)
      /\ IsInjective(w \o appended)
  <2>1. ToSet(w) \cap ToSet(appended) = {}
    BY <1>2, <1>4, <1>5 DEF OnceInv, Separate, t, w
  <2> QED
    BY <1>1, <1>5, <2>1, ConcatRange DEF OnceInv, w
<1>7. \A line \in ToSet(w \o appended) : line.origin = "backend" \/ line.level # "DEBUG"
  BY <1>2, <1>4, <1>5, <1>6 DEF OnceInv, Issued, t, w
<1>8. Logs!InTransit = w
  BY <1>3 DEF w, t
<1> QED
  BY <1>6, <1>7, <1>8, LogsUse DEF Logs!ShippedOnce

(* Every step keeps each line in one place: what it moves it takes, and    *)
(* what is logged has a number of its own.                                 *)
LEMMA OnceKeeps ==
    ASSUME LogsOK, OnceInv, Logs!Next PROVE OnceInv'
<1> DEFINE S == Line
           L == LinesOf(appends)
<1>1. /\ queue \in Seq(S) /\ appended \in Seq(S)
      /\ posts \in Seq(Seq(S)) /\ appends \in Seq(Request) /\ L \in Seq(Seq(S))
      /\ pushed \in Nat /\ logged \in Nat
  BY LinesOfAre DEF LogsOK, Logs!TypeOK, Line
<1>2. ASSUME UNCHANGED <<queue, posts, appends, appended, pushed, logged>>
      PROVE  OnceInv'
  BY <1>2 DEF OnceInv, Issued, Separate
<1>3. ASSUME NEW level \in {"DEBUG", "ERROR"}, Logs!push(level) PROVE OnceInv'
  <2> DEFINE line == [origin |-> "frontend", level |-> level, n |-> pushed + 1]
  <2>1. /\ pushed < MaxLines /\ pushed' = pushed + 1
        /\ queue' = (IF level # "DEBUG" THEN Append(queue, line) ELSE queue)
        /\ UNCHANGED <<posts, appends, appended, logged>>
    BY <1>3 DEF Logs!push, Logs!backend
  <2>2. line \in S
    BY <2>1, NewLines DEF LogsOK
  <2>3. \A x : Issued(x, pushed, logged) => Issued(x, pushed', logged')
    <3>1. 1 .. pushed \subseteq 1 .. pushed'
      BY <1>1, <2>1
    <3> QED
      BY <2>1, <3>1 DEF Issued
  <2>4. ~Issued(line, pushed, logged)
    BY <1>1 DEF Issued
  <2>5. level # "DEBUG" => Issued(line, pushed', logged')
    BY <1>1, <2>1 DEF Issued
  <2> HIDE DEF line
  <2>6. CASE level = "DEBUG"
    BY <2>1, <2>3, <2>6 DEF OnceInv, Separate
  <2>7. CASE level # "DEBUG"
    <3>1. /\ ToSet(queue') = ToSet(queue) \cup {line}
          /\ IsInjective(queue') <=> IsInjective(queue) /\ line \notin ToSet(queue)
      BY <1>1, <2>1, <2>2, <2>7, AppendRange
    <3> QED
      BY <2>1, <2>3, <2>4, <2>5, <2>7, <3>1 DEF OnceInv, Separate
  <2> QED
    BY <2>6, <2>7
<1>4. ASSUME Logs!TimerFires \/ Logs!BeforeUnload PROVE OnceInv'
  <2>1. /\ queue' = <<>>
        /\ posts' = (IF queue = <<>> THEN posts ELSE Append(posts, queue))
        /\ UNCHANGED <<appends, appended, pushed, logged>>
    BY <1>4 DEF Logs!TimerFires, Logs!BeforeUnload, Logs!flush, Logs!backend
  <2>2. ToSet(queue') = {} /\ IsInjective(queue')
    BY <2>1 DEF ToSet, IsInjective
  <2>3. CASE queue = <<>>
    BY <2>1, <2>2, <2>3 DEF OnceInv, Issued, Separate
  <2>4. CASE queue # <<>>
    <3>1. /\ AllOf(posts') = AllOf(posts) \cup ToSet(queue)
          /\ Apart(posts') <=>
                 Apart(posts) /\ IsInjective(queue) /\ AllOf(posts) \cap ToSet(queue) = {}
      BY <1>1, <2>1, <2>4, AppendApart
    <3> QED
      BY <2>1, <2>2, <3>1 DEF OnceInv, Issued, Separate
  <2> QED
    BY <2>3, <2>4
<1>5. ASSUME Logs!PostEnds PROVE OnceInv'
  <2>1. PICK i \in DOMAIN posts :
           /\ posts' = RemoveAt(posts, i)
           /\ \/ appends' = appends
              \/ appends' = Append(appends, [lines |-> posts[i], publish |-> <<>>])
           /\ UNCHANGED <<queue, appended, pushed, logged>>
    BY <1>5, LogsUse DEF Logs!PostEnds, Logs!PostLost, Logs!postClientLog, Logs!backend
  <2>2. /\ posts[i] \in Seq(S) /\ Apart(posts') /\ IsInjective(posts[i])
        /\ AllOf(posts) = AllOf(posts') \cup ToSet(posts[i])
        /\ AllOf(posts') \cap ToSet(posts[i]) = {}
    BY <1>1, <2>1, RemoveApart DEF OnceInv
  <2>3. CASE appends' = appends
    BY <2>1, <2>2, <2>3 DEF OnceInv, Issued, Separate
  <2>4. CASE appends' = Append(appends, [lines |-> posts[i], publish |-> <<>>])
    <3> DEFINE request == [lines |-> posts[i], publish |-> <<>>]
    <3>1. request \in Request /\ request.lines = posts[i]
      BY <2>2 DEF Request
    <3>2. LinesOf(appends') = Append(L, posts[i])
      <4>1. appends' = Append(appends, request)
        BY <2>4
      <4> HIDE DEF request
      <4> QED
        BY <1>1, <3>1, <4>1, LinesOfAre
    <3>3. /\ AllOf(LinesOf(appends')) = AllOf(L) \cup ToSet(posts[i])
          /\ Apart(LinesOf(appends')) <=>
                 Apart(L) /\ IsInjective(posts[i]) /\ AllOf(L) \cap ToSet(posts[i]) = {}
      <4> HIDE DEF L
      <4> QED
        BY <1>1, <2>2, <3>2, AppendApart
    <3> QED
      BY <2>1, <2>2, <3>3 DEF OnceInv, Issued, Separate
  <2> QED
    BY <2>1, <2>3, <2>4
<1>6. ASSUME Logs!Handle PROVE OnceInv'
  <2> DEFINE line == [origin |-> "backend", n |-> logged + 1]
             request == [lines |-> <<line>>, publish |-> <<>>]
             s == <<line>>
  <2>1. /\ logged < MaxLogs /\ logged' = logged + 1
        /\ appends' = Append(appends, request)
        /\ UNCHANGED <<queue, posts, appended, pushed>>
    BY <1>6 DEF Logs!Handle, Logs!browser
  <2>2. line \in S
    BY <2>1, NewLines DEF LogsOK
  <2>3. \A x : Issued(x, pushed, logged) => Issued(x, pushed', logged')
    <3>1. 1 .. logged \subseteq 1 .. logged'
      BY <1>1, <2>1
    <3> QED
      BY <2>1, <3>1 DEF Issued
  <2>4. ~Issued(line, pushed, logged) /\ Issued(line, pushed', logged')
    BY <1>1, <2>1 DEF Issued
  <2>5. s \in Seq(S) /\ request \in Request /\ request.lines = s
    BY <2>2 DEF Request
  <2>6. ToSet(s) = {line} /\ IsInjective(s)
    BY OneIs
  <2> HIDE DEF line, request, s
  <2>7. LinesOf(appends') = Append(L, s)
    BY <1>1, <2>1, <2>5, LinesOfAre
  <2>8. /\ AllOf(LinesOf(appends')) = AllOf(L) \cup {line}
        /\ Apart(LinesOf(appends')) <=> Apart(L) /\ AllOf(L) \cap {line} = {}
    <3> HIDE DEF L
    <3>1. /\ AllOf(Append(L, s)) = AllOf(L) \cup ToSet(s)
          /\ Apart(Append(L, s)) <=>
                 Apart(L) /\ IsInjective(s) /\ AllOf(L) \cap ToSet(s) = {}
      BY <1>1, <2>5, AppendApart
    <3> QED
      BY <2>6, <2>7, <3>1
  <2> QED
    BY <2>1, <2>3, <2>4, <2>8 DEF OnceInv, Separate
<1>7. ASSUME NEW i \in DOMAIN appends, Logs!Store(i) PROVE OnceInv'
  <2> DEFINE line == Head(appends[i].lines)
             request == [lines |-> Tail(appends[i].lines), publish |-> <<line>>]
  <2>1. /\ appends[i].lines # <<>>
        /\ appended' = Append(appended, line)
        /\ appends' = [appends EXCEPT ![i] = request]
        /\ UNCHANGED <<logged, queue, posts, pushed>>
    BY <1>7 DEF Logs!Store, Logs!browser
  <2>2. i \in DOMAIN L /\ L[i] = appends[i].lines /\ L[i] \in Seq(S)
    BY <1>1, LinesOfAre DEF LinesOf
  <2>3. line \in S
    BY <2>1, <2>2
  <2>4. LinesOf(appends') = [L EXCEPT ![i] = Tail(L[i])]
    <3>1. request.lines = Tail(L[i]) /\ appends' = [appends EXCEPT ![i] = request]
      BY <2>1, <2>2
    <3> HIDE DEF request
    <3>2. LinesOf([appends EXCEPT ![i] = request]) = [L EXCEPT ![i] = request.lines]
      BY <1>1, LinesOfAre
    <3> QED
      BY <3>1, <3>2
  <2>5. /\ Apart(LinesOf(appends'))
        /\ AllOf(L) = AllOf(LinesOf(appends')) \cup {line}
        /\ line \notin AllOf(LinesOf(appends'))
    <3>1. Apart(L) /\ L[i] # <<>> /\ line = Head(L[i])
      BY <2>1, <2>2 DEF OnceInv
    <3>2. L \in Seq(Seq(S))
      BY <1>1
    <3> HIDE DEF L, line
    <3>3. LET tt == [L EXCEPT ![i] = Tail(L[i])]
          IN  Apart(tt) /\ AllOf(L) = AllOf(tt) \cup {Head(L[i])} /\ Head(L[i]) \notin AllOf(tt)
      BY <2>2, <3>1, <3>2, TailApart
    <3> QED
      BY <2>4, <3>1, <3>3
  <2>6. /\ ToSet(appended') = ToSet(appended) \cup {line}
        /\ IsInjective(appended') <=> IsInjective(appended) /\ line \notin ToSet(appended)
    <3> HIDE DEF line
    <3> QED
      BY <1>1, <2>1, <2>3, AppendRange
  <2> HIDE DEF line
  <2> QED
    BY <2>1, <2>5, <2>6 DEF OnceInv, Issued, Separate
<1>8. ASSUME NEW i \in DOMAIN appends, Logs!Publish(i) PROVE OnceInv'
  <2>1. /\ appends' = Logs!Published(i)
        /\ UNCHANGED <<appended, logged, queue, posts, pushed>>
    BY <1>8 DEF Logs!Publish, Logs!browser
  <2>2. i \in DOMAIN L /\ L[i] = appends[i].lines
    BY <1>1, LinesOfAre DEF LinesOf
  <2>3. AllOf(LinesOf(appends')) = AllOf(L) /\ Apart(LinesOf(appends'))
    <3>1. CASE appends[i].lines = <<>>
      <4>1. LinesOf(appends') = RemoveAt(L, i)
        BY <1>1, <2>1, <3>1, LinesOfAre, LogsUse DEF Logs!Published
      <4>2. ToSet(L[i]) = {}
        BY <2>2, <3>1 DEF ToSet
      <4>3. Apart(L)
        BY DEF OnceInv
      <4>4. L \in Seq(Seq(S))
        BY <1>1
      <4> HIDE DEF L
      <4>5. Apart(RemoveAt(L, i)) /\ AllOf(L) = AllOf(RemoveAt(L, i)) \cup ToSet(L[i])
        BY <2>2, <4>3, <4>4, RemoveApart
      <4> QED
        BY <4>1, <4>2, <4>5
    <3>2. CASE appends[i].lines # <<>>
      <4>1. appends' = [appends EXCEPT ![i].publish = <<>>]
        BY <2>1, <3>2 DEF Logs!Published
      <4>2. \A j \in DOMAIN appends : appends'[j].lines = appends[j].lines
        BY <1>1, <4>1, LinesOfAre DEF Request
      <4>3. LinesOf(appends') = L
        BY <4>1, <4>2 DEF LinesOf
      <4> QED
        BY <4>3 DEF OnceInv
    <3> QED
      BY <3>1, <3>2
  <2> QED
    BY <2>1, <2>3 DEF OnceInv, Issued, Separate
<1> QED
  BY <1>2, <1>3, <1>4, <1>5, <1>6, <1>7, <1>8
     DEF Logs!Next, Logs!AppendGoesOn, Logs!onopen, Logs!onmessage, Logs!onclose, Logs!connect,
         Logs!setLive, Logs!browser, Logs!backend

-----------------------------------------------------------------------------
(* The order of a batch, from the queue to the page.                       *)
Ascends(s) == \A i, j \in DOMAIN s : i < j => s[i].n < s[j].n

OfBrowser(line) == line.origin = "frontend" /\ line.n \in 1 .. pushed

(* The queue is in the order of its numbers, and what was posted of it is  *)
(* no longer in it.                                                        *)
QueueInv ==
    /\ Ascends(queue) /\ \A line \in ToSet(queue) : OfBrowser(line)
    /\ \A b \in batches :
          /\ Ascends(b) /\ ToSet(b) \cap ToSet(queue) = {}
          /\ \A line \in ToSet(b) : OfBrowser(line)
    /\ \A b, c \in batches : b # c => ToSet(b) \cap ToSet(c) = {}
    /\ \A i \in DOMAIN posts : posts[i] \in batches

(* What a goroutine has left, with what it is about to publish; and what   *)
(* was published and is on its way to the page, or there.                  *)
Work(request) == ToSet(request.publish) \cup ToSet(request.lines)
Shown == ToSet(wire) \cup ToSet(items)

InOrder(request) ==
    /\ Ascends(request.lines)
    /\ \A x \in ToSet(request.publish), y \in ToSet(request.lines) : x.n < y.n

(* One goroutine has what is left of a batch, and what it has left is      *)
(* later than all that was published of it.                                *)
WorkInv ==
    /\ Shown \subseteq ToSet(appended)
    /\ \A i \in DOMAIN appends :
          InOrder(appends[i]) /\ ToSet(appends[i].publish) \subseteq ToSet(appended)
    /\ \A b \in batches, i, j \in DOMAIN appends :
          i # j => Work(appends[i]) \cap ToSet(b) = {} \/ Work(appends[j]) \cap ToSet(b) = {}
    /\ \A b \in batches, i \in DOMAIN appends, x \in Shown :
          \A y \in Work(appends[i]) : {x, y} \subseteq ToSet(b) => x.n < y.n

(* What is on the wire is in the order of its batch, and later than what   *)
(* the page shows of it, newest first.                                     *)
PageInv ==
    \A b \in batches :
       /\ \A i, j \in DOMAIN wire :
             (i < j /\ {wire[i], wire[j]} \subseteq ToSet(b)) => wire[i].n < wire[j].n
       /\ \A x \in ToSet(items), y \in ToSet(wire) : {x, y} \subseteq ToSet(b) => x.n < y.n
       /\ \A i, j \in DOMAIN items :
             (i < j /\ {items[i], items[j]} \subseteq ToSet(b)) => items[i].n > items[j].n

BatchInv == QueueInv /\ WorkInv /\ PageInv

(* What is on the way to be appended was not, and is not in two places.    *)
LEMMA WorkIs ==
    ASSUME LogsOK, OnceInv, WorkInv
    PROVE  /\ \A i \in DOMAIN appends : \A x \in Work(appends[i]) :
                 x \notin ToSet(queue) /\ x \notin AllOf(posts)
           /\ \A x \in Shown : x \notin ToSet(queue) /\ x \notin AllOf(posts)
           /\ \A i \in DOMAIN posts : ToSet(posts[i]) \subseteq AllOf(posts)
<1>1. \A i \in DOMAIN appends : ToSet(appends[i].lines) \subseteq AllOf(LinesOf(appends))
  BY DEF AllOf, LinesOf
<1>2. \A i \in DOMAIN posts : ToSet(posts[i]) \subseteq AllOf(posts)
  BY DEF AllOf
<1> QED
  BY <1>1, <1>2 DEF OnceInv, Separate, WorkInv, Work

LEMMA PushKeepsBatches ==
    ASSUME LogsOK, OnceInv, BatchInv, NEW level \in {"DEBUG", "ERROR"}, Logs!push(level)
    PROVE  BatchInv'
<1> DEFINE line == [origin |-> "frontend", level |-> level, n |-> pushed + 1]
<1>1. /\ queue \in Seq(Line) /\ pushed \in Nat
  BY DEF LogsOK, Logs!TypeOK, Line
<1>2. /\ pushed < MaxLines /\ pushed' = pushed + 1
      /\ queue' = queue \/ queue' = Append(queue, line)
      /\ UNCHANGED <<posts, batches, appends, appended, wire, items>>
  BY DEF Logs!push, Logs!backend, Logs!page
<1>3. line \in Line
  BY <1>2, NewLines DEF LogsOK
<1>4. WorkInv' /\ PageInv'
  BY <1>2 DEF BatchInv, WorkInv, PageInv, Shown
<1>5. \A x : OfBrowser(x) => x.origin = "frontend" /\ x.n \in 1 .. pushed'
  <2>1. 1 .. pushed \subseteq 1 .. pushed'
    BY <1>1, <1>2
  <2> QED
    BY <2>1 DEF OfBrowser
<1>6. ~OfBrowser(line) /\ line.origin = "frontend" /\ line.n \in 1 .. pushed'
  BY <1>1, <1>2 DEF OfBrowser
<1>7. line.n = pushed + 1
  OBVIOUS
<1> HIDE DEF line
<1>8. CASE queue' = queue
  BY <1>2, <1>4, <1>5, <1>8 DEF BatchInv, QueueInv, OfBrowser
<1>9. CASE queue' = Append(queue, line)
  <2>1. ToSet(queue') = ToSet(queue) \cup {line}
    BY <1>1, <1>3, <1>9, AppendRange
  <2>2. Ascends(queue')
    <3> DEFINE n == Len(queue)
               more == Append(queue, line)
    <3>1. /\ n \in Nat /\ DOMAIN queue = 1 .. n
          /\ DOMAIN more = 1 .. n + 1 /\ more[n + 1] = line
          /\ \A i \in 1 .. n : more[i] = queue[i]
      BY <1>1, <1>3
    <3> HIDE DEF more, n
    <3>2. ASSUME NEW i \in 1 .. n + 1, NEW j \in 1 .. n + 1, i < j
          PROVE  more[i].n < more[j].n
      <4>1. CASE j \in 1 .. n
        <5>1. i \in 1 .. n
          BY <3>1, <3>2, <4>1
        <5> QED
          BY <3>1, <3>2, <4>1, <5>1 DEF BatchInv, QueueInv, Ascends
      <4>2. CASE j \notin 1 .. n
        <5>1. i \in 1 .. n /\ j = n + 1
          BY <3>1, <3>2, <4>2
        <5>2. queue[i] \in ToSet(queue)
          BY <3>1, <5>1 DEF ToSet
        <5>3. queue[i].n \in 1 .. pushed
          BY <5>2 DEF BatchInv, QueueInv, OfBrowser
        <5> QED
          BY <1>1, <1>7, <3>1, <5>1, <5>3
      <4> QED
        BY <4>1, <4>2
    <3>3. queue' = more
      BY <1>9 DEF more
    <3> QED
      BY <3>1, <3>2, <3>3 DEF Ascends
  <2> QED
    BY <1>2, <1>4, <1>5, <1>6, <2>1, <2>2 DEF BatchInv, QueueInv, OfBrowser
<1> QED
  BY <1>2, <1>8, <1>9

(* A batch is taken from the queue: nothing of it is anywhere yet.         *)
LEMMA FlushKeepsBatches ==
    ASSUME LogsOK, OnceInv, BatchInv, Logs!TimerFires \/ Logs!BeforeUnload
    PROVE  BatchInv'
<1>1. /\ queue' = <<>>
      /\ posts' = (IF queue = <<>> THEN posts ELSE Append(posts, queue))
      /\ batches' = (IF queue = <<>> THEN batches ELSE batches \cup {queue})
      /\ UNCHANGED <<pushed, appends, appended, wire, items>>
  BY DEF Logs!TimerFires, Logs!BeforeUnload, Logs!flush, Logs!backend, Logs!page
<1>2. ToSet(queue') = {} /\ Ascends(queue')
  BY <1>1 DEF ToSet, Ascends
<1>3. CASE queue = <<>>
  BY <1>1, <1>2, <1>3 DEF BatchInv, QueueInv, WorkInv, PageInv, Shown, OfBrowser
<1>4. CASE queue # <<>>
  <2>1. \A i \in DOMAIN appends : Work(appends[i]) \cap ToSet(queue) = {}
    BY WorkIs DEF BatchInv
  <2>2. Shown \cap ToSet(queue) = {}
    BY WorkIs DEF BatchInv
  <2>3. QueueInv'
    <3>1. \A i \in DOMAIN posts' : posts'[i] \in batches'
      <4> DEFINE V == Seq(Line)
      <4>1. posts \in Seq(V) /\ queue \in V
        BY DEF LogsOK, Logs!TypeOK, Line
      <4> HIDE DEF V
      <4>2. \A i \in DOMAIN posts' : posts'[i] = queue \/ \E j \in DOMAIN posts : posts'[i] = posts[j]
        BY <1>1, <1>4, <4>1
      <4> QED
        BY <1>1, <1>4, <4>2 DEF BatchInv, QueueInv
    <3>2. \A b, c \in batches' : b # c => ToSet(b) \cap ToSet(c) = {}
      BY <1>1, <1>4 DEF BatchInv, QueueInv
    <3>3. \A b \in batches' :
             /\ Ascends(b) /\ ToSet(b) \cap ToSet(queue') = {}
             /\ \A line \in ToSet(b) : OfBrowser(line)
      BY <1>1, <1>2, <1>4 DEF BatchInv, QueueInv
    <3> QED
      BY <1>1, <1>2, <3>1, <3>2, <3>3 DEF QueueInv, OfBrowser
  <2>4. WorkInv'
    BY <1>1, <1>4, <2>1, <2>2 DEF BatchInv, WorkInv, Shown
  <2>5. PageInv'
    <3>1. \A i \in DOMAIN wire : wire[i] \notin ToSet(queue)
      BY <2>2 DEF Shown, ToSet
    <3>2. \A i \in DOMAIN items : items[i] \notin ToSet(queue)
      BY <2>2 DEF Shown, ToSet
    <3>3. \A x \in ToSet(items) : x \notin ToSet(queue)
      BY <2>2 DEF Shown
    <3> QED
      BY <1>1, <1>4, <3>1, <3>2, <3>3 DEF BatchInv, PageInv
  <2> QED
    BY <2>3, <2>4, <2>5 DEF BatchInv
<1> QED
  BY <1>3, <1>4

(* One more goroutine: what it has of a batch no other has, and nothing of *)
(* it was published.                                                       *)
LEMMA StartKeepsWork ==
    ASSUME LogsOK, WorkInv, NEW request \in Request,
           InOrder(request), request.publish = <<>>,
           \A b \in batches :
              \/ ToSet(b) \cap ToSet(request.lines) = {}
              \/ /\ \A i \in DOMAIN appends : Work(appends[i]) \cap ToSet(b) = {}
                 /\ Shown \cap ToSet(b) = {},
           appends' = Append(appends, request),
           UNCHANGED <<batches, appended, wire, items>>
    PROVE  WorkInv'
<1> DEFINE n == Len(appends)
<1>1. /\ n \in Nat /\ DOMAIN appends = 1 .. n /\ DOMAIN appends' = 1 .. n + 1
      /\ appends'[n + 1] = request /\ \A i \in 1 .. n : appends'[i] = appends[i]
      /\ 1 .. n + 1 = 1 .. n \cup {n + 1} /\ n + 1 \notin 1 .. n
  BY DEF LogsOK
<1> HIDE DEF n
<1>2. ToSet(request.publish) = {} /\ Work(request) = ToSet(request.lines)
  BY DEF ToSet, Work
<1>3. Shown' = Shown
  BY DEF Shown
<1>4. \A i \in DOMAIN appends' :
         InOrder(appends'[i]) /\ ToSet(appends'[i].publish) \subseteq ToSet(appended')
  BY <1>1, <1>2 DEF WorkInv
<1>5. ASSUME NEW b \in batches, NEW i \in 1 .. n + 1, NEW j \in 1 .. n + 1, i # j
      PROVE  Work(appends'[i]) \cap ToSet(b) = {} \/ Work(appends'[j]) \cap ToSet(b) = {}
  <2>1. CASE i \in 1 .. n /\ j \in 1 .. n
    BY <1>1, <1>5, <2>1 DEF WorkInv
  <2>2. CASE i = n + 1 /\ j \in 1 .. n
    BY <1>1, <1>2, <2>2
  <2>3. CASE i \in 1 .. n /\ j = n + 1
    BY <1>1, <1>2, <2>3
  <2> QED
    BY <1>1, <1>5, <2>1, <2>2, <2>3
<1>6. ASSUME NEW b \in batches, NEW i \in 1 .. n + 1, NEW x \in Shown,
             NEW y \in Work(appends'[i]), {x, y} \subseteq ToSet(b)
      PROVE  x.n < y.n
  <2>1. CASE i \in 1 .. n
    BY <1>1, <1>6, <2>1 DEF WorkInv
  <2>2. CASE i = n + 1
    BY <1>1, <1>2, <1>6, <2>2
  <2> QED
    BY <1>1, <2>1, <2>2
<1> QED
  BY <1>1, <1>3, <1>4, <1>5, <1>6 DEF WorkInv

LEMMA PostEndsKeepsBatches ==
    ASSUME LogsOK, OnceInv, BatchInv, Logs!PostEnds PROVE BatchInv'
<1>1. PICK i \in DOMAIN posts :
         /\ posts' = RemoveAt(posts, i)
         /\ \/ appends' = appends
            \/ appends' = Append(appends, [lines |-> posts[i], publish |-> <<>>])
         /\ UNCHANGED <<queue, pushed, batches, appended, wire, items>>
  BY LogsUse DEF Logs!PostEnds, Logs!PostLost, Logs!postClientLog, Logs!backend, Logs!page
<1>2. QueueInv'
  <2> DEFINE V == Seq(Line)
  <2>1. posts \in Seq(V)
    BY DEF LogsOK, Logs!TypeOK, Line
  <2> HIDE DEF V
  <2>2. \A j \in DOMAIN posts' : \E k \in DOMAIN posts : posts'[j] = posts[k]
    BY <1>1, <2>1, RemoveAtRenumbers
  <2> QED
    BY <1>1, <2>2 DEF BatchInv, QueueInv, OfBrowser
<1>3. PageInv'
  BY <1>1 DEF BatchInv, PageInv
<1>4. CASE appends' = appends
  BY <1>1, <1>2, <1>3, <1>4 DEF BatchInv, WorkInv, Shown
<1>5. CASE appends' = Append(appends, [lines |-> posts[i], publish |-> <<>>])
  <2> DEFINE request == [lines |-> posts[i], publish |-> <<>>]
  <2>1. posts[i] \in Seq(Line) /\ posts[i] \in batches /\ Ascends(posts[i])
    BY DEF LogsOK, Logs!TypeOK, Line, BatchInv, QueueInv
  <2>2. request \in Request /\ request.lines = posts[i] /\ request.publish = <<>>
    BY <2>1 DEF Request
  <2>3. appends' = Append(appends, request)
    BY <1>5
  <2> HIDE DEF request
  <2>4. ToSet(request.publish) = {}
    BY <2>2 DEF ToSet
  <2>5. InOrder(request)
    BY <2>1, <2>2, <2>4 DEF InOrder
  <2>6. /\ \A j \in DOMAIN appends : Work(appends[j]) \cap ToSet(posts[i]) = {}
        /\ Shown \cap ToSet(posts[i]) = {}
    BY WorkIs DEF BatchInv
  <2>7. \A b \in batches : b = posts[i] \/ ToSet(b) \cap ToSet(posts[i]) = {}
    BY <2>1 DEF BatchInv, QueueInv
  <2>8. WorkInv'
    BY <1>1, <2>2, <2>3, <2>5, <2>6, <2>7, StartKeepsWork DEF BatchInv
  <2> QED
    BY <1>2, <1>3, <2>8 DEF BatchInv
<1> QED
  BY <1>1, <1>4, <1>5

(* The backend's own line is in no batch. *)
LEMMA HandleKeepsBatches ==
    ASSUME LogsOK, BatchInv, Logs!Handle PROVE BatchInv'
<1> DEFINE line == [origin |-> "backend", n |-> logged + 1]
           s == <<line>>
           request == [lines |-> s, publish |-> <<>>]
<1>1. /\ logged < MaxLogs
      /\ appends' = Append(appends, request)
      /\ UNCHANGED <<queue, posts, batches, appended, pushed, wire, items>>
  BY DEF Logs!Handle, Logs!browser, Logs!page
<1>2. line \in Line
  BY <1>1, NewLines DEF LogsOK
<1>3. s \in Seq(Line) /\ Ascends(s)
  BY <1>2 DEF Ascends
<1>4. request \in Request /\ request.lines = s /\ request.publish = <<>>
  BY <1>3 DEF Request
<1>5. ToSet(s) = {line} /\ ~OfBrowser(line)
  BY OneIs DEF OfBrowser
<1> HIDE DEF line, s, request
<1>6. InOrder(request)
  <2>1. ToSet(request.publish) = {}
    BY <1>4 DEF ToSet
  <2> QED
    BY <1>3, <1>4, <2>1 DEF InOrder
<1>7. \A b \in batches : ToSet(b) \cap ToSet(request.lines) = {}
  BY <1>4, <1>5 DEF BatchInv, QueueInv
<1>8. WorkInv'
  BY <1>1, <1>4, <1>6, <1>7, StartKeepsWork DEF BatchInv
<1>9. QueueInv' /\ PageInv'
  BY <1>1 DEF BatchInv, QueueInv, PageInv, OfBrowser
<1> QED
  BY <1>8, <1>9 DEF BatchInv

(* The goroutines go on: each has no more than it had, under the number    *)
(* g[j] it had before, and what is new to the page came from number i and  *)
(* is earlier than what that has left.                                     *)
WorkGoesOn(g, i, New) ==
    /\ \A j \in DOMAIN appends' :
          /\ g[j] \in DOMAIN appends
          /\ Work(appends'[j]) \subseteq Work(appends[g[j]])
          /\ InOrder(appends'[j]) /\ ToSet(appends'[j].publish) \subseteq ToSet(appended')
    /\ \A j, k \in DOMAIN appends' : j # k => g[j] # g[k]
    /\ \A x \in New, j \in DOMAIN appends' :
          g[j] = i => \A y \in Work(appends'[j]) : x.n < y.n
    /\ ToSet(appended) \cup New \subseteq ToSet(appended')
    /\ i \in DOMAIN appends /\ New \subseteq Work(appends[i])
    /\ Shown' \subseteq Shown \cup New
    /\ UNCHANGED batches

LEMMA WorkIsKept ==
    ASSUME WorkInv, NEW g, NEW i, NEW New, WorkGoesOn(g, i, New) PROVE WorkInv'
<1>0. /\ \A j \in DOMAIN appends' :
            /\ g[j] \in DOMAIN appends
            /\ Work(appends'[j]) \subseteq Work(appends[g[j]])
            /\ InOrder(appends'[j]) /\ ToSet(appends'[j].publish) \subseteq ToSet(appended')
      /\ \A j, k \in DOMAIN appends' : j # k => g[j] # g[k]
      /\ \A x \in New, j \in DOMAIN appends' :
            g[j] = i => \A y \in Work(appends'[j]) : x.n < y.n
      /\ ToSet(appended) \cup New \subseteq ToSet(appended')
      /\ i \in DOMAIN appends /\ New \subseteq Work(appends[i])
      /\ Shown' \subseteq Shown \cup New
      /\ UNCHANGED batches
  BY DEF WorkGoesOn
<1>1. Shown' \subseteq ToSet(appended')
  BY <1>0 DEF WorkInv
<1>2. ASSUME NEW b \in batches, NEW j \in DOMAIN appends', NEW k \in DOMAIN appends', j # k
      PROVE  Work(appends'[j]) \cap ToSet(b) = {} \/ Work(appends'[k]) \cap ToSet(b) = {}
  <2>1. g[j] \in DOMAIN appends /\ g[k] \in DOMAIN appends /\ g[j] # g[k]
    BY <1>0, <1>2
  <2>2. \/ Work(appends[g[j]]) \cap ToSet(b) = {}
        \/ Work(appends[g[k]]) \cap ToSet(b) = {}
    BY <2>1 DEF WorkInv
  <2> QED
    BY <1>0, <2>2
<1>3. ASSUME NEW b \in batches, NEW j \in DOMAIN appends', NEW x \in Shown',
             NEW y \in Work(appends'[j]), {x, y} \subseteq ToSet(b)
      PROVE  x.n < y.n
  <2>1. g[j] \in DOMAIN appends /\ y \in Work(appends[g[j]])
    BY <1>0
  <2>2. CASE x \in Shown
    BY <1>3, <2>1, <2>2 DEF WorkInv
  <2>3. CASE x \in New
    <3>1. g[j] = i
      <4>1. x \in Work(appends[i]) \cap ToSet(b) /\ y \in Work(appends[g[j]]) \cap ToSet(b)
        BY <1>0, <1>3, <2>1, <2>3
      <4> QED
        BY <1>0, <2>1, <4>1 DEF WorkInv
    <3> QED
      BY <1>0, <2>3, <3>1
  <2> QED
    BY <1>0, <2>2, <2>3
<1> QED
  BY <1>0, <1>1, <1>2, <1>3 DEF WorkInv

LEMMA StoreKeepsBatches ==
    ASSUME LogsOK, BatchInv, NEW i \in DOMAIN appends, Logs!Store(i) PROVE BatchInv'
<1> DEFINE lines == appends[i].lines
           line == Head(lines)
           s == <<line>>
           request == [lines |-> Tail(lines), publish |-> s]
<1>1. /\ appends[i].publish = <<>> /\ lines # <<>>
      /\ appended' = Append(appended, line)
      /\ appends' = [appends EXCEPT ![i] = request]
      /\ UNCHANGED <<queue, posts, pushed, batches, wire, items>>
  BY DEF Logs!Store, Logs!browser, Logs!page
<1>2. appends \in Seq(Request) /\ appended \in Seq(Line) /\ lines \in Seq(Line)
  <2>1. appends \in Seq(Request) /\ appended \in Seq(Line)
    BY DEF LogsOK, Logs!TypeOK, Line
  <2>2. appends[i] \in Request
    BY <2>1
  <2> QED
    BY <2>1, <2>2 DEF Request
<1>3. /\ line \in Line /\ ToSet(lines) = {line} \cup ToSet(Tail(lines))
      /\ Tail(lines) \in Seq(Line)
      /\ \A j \in DOMAIN Tail(lines) : j + 1 \in DOMAIN lines /\ Tail(lines)[j] = lines[j + 1]
  BY <1>1, <1>2, HeadTailRange
<1>4. InOrder(request)
  <2>1. Ascends(lines)
    BY DEF BatchInv, WorkInv, InOrder
  <2>2. 1 \in DOMAIN lines /\ line = lines[1]
    BY <1>1, <1>2
  <2>3. \A j \in DOMAIN Tail(lines) : j \in Nat /\ j >= 1
    BY <1>3
  <2>4. Ascends(Tail(lines))
    <3> DEFINE t == Tail(lines)
    <3> HIDE DEF t, lines
    <3>1. \A j, k \in DOMAIN t : j < k => j + 1 < k + 1
      BY <2>3 DEF t
    <3> QED
      BY <1>3, <2>1, <3>1 DEF Ascends, t
  <2>5. \A y \in ToSet(Tail(lines)) : line.n < y.n
    <3> SUFFICES ASSUME NEW j \in DOMAIN Tail(lines) PROVE line.n < Tail(lines)[j].n
      BY DEF ToSet
    <3> HIDE DEF lines, line
    <3>1. 1 < j + 1
      BY <2>3
    <3> QED
      BY <1>3, <2>1, <2>2, <3>1 DEF Ascends
  <2>6. ToSet(s) = {line}
    BY OneIs
  <2> HIDE DEF lines, line, s
  <2> QED
    BY <2>4, <2>5, <2>6 DEF InOrder
<1>5. Work(request) = Work(appends[i]) /\ ToSet(request.publish) = {line}
  <2>1. ToSet(s) = {line} /\ ToSet(appends[i].publish) = {}
    BY <1>1, OneIs DEF ToSet
  <2>2. request.publish = s /\ request.lines = Tail(lines)
    OBVIOUS
  <2> HIDE DEF line, s, request
  <2> QED
    BY <1>3, <2>1, <2>2 DEF Work
<1>6. ToSet(appended') = ToSet(appended) \cup {line}
  <2> HIDE DEF line
  <2> QED
    BY <1>1, <1>2, <1>3, AppendRange
<1>7. WorkInv'
  <2> HIDE DEF request, line, s, lines
  <2>1. DOMAIN appends' = DOMAIN appends
    BY <1>1
  <2>2. PICK g : g = [j \in DOMAIN appends |-> j]
    OBVIOUS
  <2>3. \A j \in DOMAIN appends' :
           /\ g[j] \in DOMAIN appends
           /\ Work(appends'[j]) \subseteq Work(appends[g[j]])
           /\ InOrder(appends'[j]) /\ ToSet(appends'[j].publish) \subseteq ToSet(appended')
    BY <1>1, <1>4, <1>5, <1>6, <2>1, <2>2 DEF BatchInv, WorkInv
  <2>4. \A j, k \in DOMAIN appends' : j # k => g[j] # g[k]
    BY <2>1, <2>2
  <2>5. Shown' = Shown
    BY <1>1 DEF Shown
  <2>6. WorkGoesOn(g, i, {})
    BY <1>1, <1>6, <2>3, <2>4, <2>5 DEF WorkGoesOn
  <2> QED
    BY <2>6, WorkIsKept DEF BatchInv
<1>8. QueueInv' /\ PageInv'
  BY <1>1 DEF BatchInv, QueueInv, PageInv, OfBrowser
<1> QED
  BY <1>7, <1>8 DEF BatchInv

LEMMA PublishKeepsBatches ==
    ASSUME LogsOK, BatchInv, NEW i \in DOMAIN appends, Logs!Publish(i) PROVE BatchInv'
<1>1. /\ appends[i].publish # <<>> /\ appends' = Logs!Published(i)
      /\ wire' = wire \/ wire' = wire \o appends[i].publish
      /\ UNCHANGED <<appended, queue, posts, pushed, batches, items>>
  BY DEF Logs!Publish, Logs!browser
<1>2. appends \in Seq(Request) /\ wire \in Seq(Line) /\ items \in Seq(Line)
  BY DEF LogsOK, Logs!TypeOK, Line
<1>3. PICK line \in Line : appends[i].publish = <<line>>
  <2>1. appends[i] \in Request
    BY <1>2
  <2> QED
    BY <1>1, <2>1 DEF Request
<1>4. ToSet(appends[i].publish) = {line}
  BY <1>3, OneIs
<1>5. /\ line \in Work(appends[i]) /\ line \in ToSet(appended)
      /\ \A y \in ToSet(appends[i].lines) : line.n < y.n
  BY <1>4 DEF BatchInv, WorkInv, InOrder, Work
<1>6. wire' = wire \/ wire' = Append(wire, line)
  BY <1>1, <1>2, <1>3, AppendIsConcat
<1>7. ToSet(Append(wire, line)) = ToSet(wire) \cup {line}
  BY <1>2, AppendRange
<1>8. WorkInv'
  <2>1. Shown' \subseteq Shown \cup {line}
    BY <1>1, <1>6, <1>7 DEF Shown
  <2>2. ToSet(appended) \cup {line} \subseteq ToSet(appended') /\ {line} \subseteq Work(appends[i])
    BY <1>1, <1>5
  <2>3. CASE appends[i].lines = <<>>
    <3>1. PICK g : g = [j \in DOMAIN appends' |-> Before(i, j)]
      OBVIOUS
    <3>2. appends' = RemoveAt(appends, i)
      BY <1>1, <2>3, LogsUse DEF Logs!Published
    <3>3. /\ \A j \in DOMAIN appends' :
                Before(i, j) \in DOMAIN appends \ {i} /\ appends'[j] = appends[Before(i, j)]
          /\ \A j, k \in DOMAIN appends' : j # k => Before(i, j) # Before(i, k)
      BY <1>2, <3>2, RemoveAtRenumbers
    <3>4. \A j \in DOMAIN appends :
             InOrder(appends[j]) /\ ToSet(appends[j].publish) \subseteq ToSet(appended')
      BY <1>1 DEF BatchInv, WorkInv
    <3>5. WorkGoesOn(g, i, {line})
      BY <1>1, <2>1, <2>2, <3>1, <3>3, <3>4 DEF WorkGoesOn
    <3> QED
      BY <3>5, WorkIsKept DEF BatchInv
  <2>4. CASE appends[i].lines # <<>>
    <3>1. PICK g : g = [j \in DOMAIN appends |-> j]
      OBVIOUS
    <3>2. appends' = [appends EXCEPT ![i].publish = <<>>]
      BY <1>1, <2>4 DEF Logs!Published
    <3>3. /\ DOMAIN appends' = DOMAIN appends
          /\ appends'[i].lines = appends[i].lines /\ appends'[i].publish = <<>>
          /\ \A j \in DOMAIN appends : j # i => appends'[j] = appends[j]
      <4>1. appends[i] \in Request
        BY <1>2
      <4> QED
        BY <3>2, <4>1 DEF Request
    <3>4. ToSet(appends'[i].publish) = {}
      BY <3>3 DEF ToSet
    <3>5. /\ Work(appends'[i]) = ToSet(appends[i].lines)
          /\ Work(appends'[i]) \subseteq Work(appends[i])
      BY <3>3, <3>4 DEF Work
    <3>6. InOrder(appends'[i])
      <4>1. InOrder(appends[i])
        BY DEF BatchInv, WorkInv
      <4> QED
        BY <3>3, <3>4, <4>1 DEF InOrder
    <3>7. \A j \in DOMAIN appends' :
             /\ g[j] \in DOMAIN appends
             /\ Work(appends'[j]) \subseteq Work(appends[g[j]])
             /\ InOrder(appends'[j]) /\ ToSet(appends'[j].publish) \subseteq ToSet(appended')
      <4>1. \A j \in DOMAIN appends :
               InOrder(appends[j]) /\ ToSet(appends[j].publish) \subseteq ToSet(appended)
        BY DEF BatchInv, WorkInv
      <4> QED
        BY <1>1, <3>1, <3>3, <3>4, <3>5, <3>6, <4>1
    <3>8. \A x \in {line}, j \in DOMAIN appends' :
             g[j] = i => \A y \in Work(appends'[j]) : x.n < y.n
      BY <1>5, <3>1, <3>3, <3>5
    <3>9. WorkGoesOn(g, i, {line})
      BY <1>1, <2>1, <2>2, <3>1, <3>3, <3>7, <3>8 DEF WorkGoesOn
    <3> QED
      BY <3>9, WorkIsKept DEF BatchInv
  <2> QED
    BY <2>3, <2>4
<1>9. QueueInv'
  BY <1>1 DEF BatchInv, QueueInv, OfBrowser
<1>10. PageInv'
  <2>1. CASE wire' = wire
    BY <1>1, <2>1 DEF BatchInv, PageInv
  <2>2. CASE wire' = Append(wire, line)
    <3> DEFINE n == Len(wire)
               more == Append(wire, line)
    <3>1. /\ n \in Nat /\ DOMAIN wire = 1 .. n
          /\ DOMAIN more = 1 .. n + 1 /\ more[n + 1] = line
          /\ \A j \in 1 .. n : more[j] = wire[j]
          /\ ToSet(more) = ToSet(wire) \cup {line}
      BY <1>2, <1>7
    <3> HIDE DEF more, n
    <3>2. \A b \in batches, x \in Shown : {x, line} \subseteq ToSet(b) => x.n < line.n
      BY <1>5 DEF BatchInv, WorkInv
    <3>3. ASSUME NEW b \in batches, NEW j \in 1 .. n + 1, NEW k \in 1 .. n + 1, j < k,
                 {more[j], more[k]} \subseteq ToSet(b)
          PROVE  more[j].n < more[k].n
      <4>1. CASE k \in 1 .. n
        <5>1. j \in 1 .. n
          BY <3>1, <3>3, <4>1
        <5> QED
          BY <3>1, <3>3, <4>1, <5>1 DEF BatchInv, PageInv
      <4>2. CASE k \notin 1 .. n
        <5>1. j \in 1 .. n /\ k = n + 1
          BY <3>1, <3>3, <4>2
        <5>2. wire[j] \in Shown
          BY <3>1, <5>1 DEF Shown, ToSet
        <5> QED
          BY <3>1, <3>2, <3>3, <5>1, <5>2
      <4> QED
        BY <4>1, <4>2
    <3>4. ASSUME NEW b \in batches, NEW x \in ToSet(items), NEW y \in ToSet(more),
                 {x, y} \subseteq ToSet(b)
          PROVE  x.n < y.n
      <4>1. x \in Shown
        BY DEF Shown
      <4> QED
        BY <3>1, <3>2, <3>4, <4>1 DEF BatchInv, PageInv
    <3>5. wire' = more
      BY <2>2 DEF more
    <3> QED
      BY <1>1, <3>1, <3>3, <3>4, <3>5 DEF BatchInv, PageInv
  <2> QED
    BY <1>6, <2>1, <2>2
<1> QED
  BY <1>8, <1>9, <1>10 DEF BatchInv

LEMMA onmessageKeepsBatches ==
    ASSUME LogsOK, BatchInv, Logs!onmessage PROVE BatchInv'
<1> DEFINE h == Head(wire)
           t == Tail(wire)
           more == <<h>> \o items
           n == IF Len(more) < Limit THEN Len(more) ELSE Limit
           cut == SubSeq(more, 1, n)
<1>0. wire \in Seq(Line) /\ items \in Seq(Line) /\ Limit \in Nat
  BY PagesAssumption DEF LogsOK, Logs!TypeOK, Line, Logs!LogAssumption
<1>1. /\ wire # <<>> /\ wire' = t
      /\ items' = items \/ items' = cut
      /\ UNCHANGED <<appends, appended, queue, posts, pushed, batches>>
  BY DEF Logs!onmessage, Logs!browser, Logs!backend
<1>2. /\ h \in Line /\ t \in Seq(Line) /\ ToSet(wire) = {h} \cup ToSet(t)
      /\ \A j \in DOMAIN t : j + 1 \in DOMAIN wire /\ t[j] = wire[j + 1]
  BY <1>0, <1>1, HeadTailRange
<1>3. 1 \in DOMAIN wire /\ h = wire[1] /\ \A j \in DOMAIN t : j \in Nat /\ j >= 1
  BY <1>0, <1>1, <1>2
<1>4. /\ more \in Seq(Line) /\ Len(more) = Len(items) + 1 /\ Len(items) \in Nat
      /\ more[1] = h /\ \A j \in 1 .. Len(items) : more[j + 1] = items[j]
  <2> HIDE DEF h
  <2> QED
    BY <1>0, <1>2
<1> HIDE DEF more
<1>5. n \in 0 .. Len(items) + 1
  BY <1>0, <1>4
<1> HIDE DEF n
<1>6. DOMAIN cut = 1 .. n /\ \A j \in 1 .. n : cut[j] = more[j]
  BY <1>4, <1>5
<1> HIDE DEF cut, h, t
<1>7. \A j \in 1 .. n : (j = 1 /\ cut[j] = h) \/ (j - 1 \in DOMAIN items /\ cut[j] = items[j - 1])
  <2> SUFFICES ASSUME NEW j \in 1 .. n, j # 1
               PROVE  j - 1 \in DOMAIN items /\ cut[j] = items[j - 1]
    BY <1>4, <1>6
  <2>1. j - 1 \in 1 .. Len(items) /\ (j - 1) + 1 = j
    BY <1>4, <1>5
  <2>2. more[j] = items[j - 1]
    <3>1. more[(j - 1) + 1] = items[j - 1]
      BY <1>4, <2>1
    <3> QED
      BY <2>1, <3>1
  <2> QED
    BY <1>0, <1>6, <2>1, <2>2
<1>8. ToSet(cut) \subseteq ToSet(items) \cup {h}
  BY <1>6, <1>7 DEF ToSet
<1>9. Shown' \subseteq Shown
  BY <1>1, <1>2, <1>8 DEF Shown
<1>10. WorkInv'
  BY <1>1, <1>9 DEF BatchInv, WorkInv
<1>11. \A b \in batches : \A y \in ToSet(t) : {h, y} \subseteq ToSet(b) => h.n < y.n
  <2> SUFFICES ASSUME NEW b \in batches, NEW j \in DOMAIN t, {h, t[j]} \subseteq ToSet(b)
               PROVE  h.n < t[j].n
    BY DEF ToSet
  <2>1. 1 < j + 1
    BY <1>3
  <2> QED
    BY <1>2, <1>3, <2>1 DEF BatchInv, PageInv
<1>12. \A b \in batches : \A j, k \in DOMAIN t :
          (j < k /\ {t[j], t[k]} \subseteq ToSet(b)) => t[j].n < t[k].n
  <2>1. \A j, k \in DOMAIN t : j < k => j + 1 < k + 1
    BY <1>3
  <2> QED
    BY <1>2, <2>1 DEF BatchInv, PageInv
<1>13. \A b \in batches : \A x \in ToSet(items) \cup {h}, y \in ToSet(t) :
          {x, y} \subseteq ToSet(b) => x.n < y.n
  BY <1>2, <1>11 DEF BatchInv, PageInv
<1>14. ASSUME NEW b \in batches, NEW j \in 1 .. n, NEW k \in 1 .. n, j < k,
              {cut[j], cut[k]} \subseteq ToSet(b)
       PROVE  cut[j].n > cut[k].n
  <2>1. k # 1
    BY <1>14
  <2>2. k - 1 \in DOMAIN items /\ cut[k] = items[k - 1] /\ cut[k] \in ToSet(items)
    BY <1>7, <2>1 DEF ToSet
  <2>3. CASE j = 1
    <3>0. cut[j] = h /\ h \in ToSet(wire)
      <4>1. j - 1 \notin DOMAIN items
        BY <1>0, <2>3
      <4> QED
        BY <1>2, <1>7, <4>1
    <3>1. cut[k].n < h.n
      BY <1>14, <2>2, <3>0 DEF BatchInv, PageInv
    <3>2. h.n \in Nat /\ cut[k].n \in Nat /\ cut[j] = h
      <4>1. \A x \in Line : x.n \in Nat
        BY PagesAssumption DEF Line, Logs!Line, Logs!LogAssumption
      <4>2. cut[k] \in Line
        BY <1>0, <2>2
      <4> QED
        BY <1>2, <3>0, <4>1, <4>2
    <3> QED
      BY <3>1, <3>2
  <2>4. CASE j # 1
    <3>1. j - 1 \in DOMAIN items /\ cut[j] = items[j - 1] /\ j - 1 < k - 1
      BY <1>7, <1>14, <2>4
    <3> QED
      BY <1>14, <2>2, <3>1 DEF BatchInv, PageInv
  <2> QED
    BY <2>3, <2>4
<1>15. PageInv'
  <2>1. CASE items' = items
    BY <1>1, <1>12, <1>13, <2>1 DEF BatchInv, PageInv
  <2>2. CASE items' = cut
    BY <1>1, <1>6, <1>8, <1>12, <1>13, <1>14, <2>2 DEF PageInv
  <2> QED
    BY <1>1, <2>1, <2>2
<1>16. QueueInv'
  BY <1>1 DEF BatchInv, QueueInv, OfBrowser
<1> QED
  BY <1>10, <1>15, <1>16 DEF BatchInv

LEMMA BatchesKeep ==
    ASSUME LogsOK, OnceInv, BatchInv, Logs!Next PROVE BatchInv'
<1>1. ASSUME Logs!onclose PROVE BatchInv'
  <2>1. wire' = <<>> /\ UNCHANGED <<items, queue, posts, pushed, batches, appends, appended>>
    BY <1>1 DEF Logs!onclose, Logs!browser, Logs!backend
  <2>2. ToSet(wire') = {} /\ DOMAIN wire' = {}
    BY <2>1 DEF ToSet
  <2>3. QueueInv'
    BY <2>1 DEF BatchInv, QueueInv, OfBrowser
  <2>4. WorkInv'
    BY <2>1, <2>2 DEF BatchInv, WorkInv, Shown
  <2>5. PageInv'
    BY <2>1, <2>2 DEF BatchInv, PageInv
  <2> QED
    BY <2>3, <2>4, <2>5 DEF BatchInv
<1>2. ASSUME Logs!onopen \/ Logs!connect \/ Logs!setLive PROVE BatchInv'
  <2>1. UNCHANGED <<wire, items, queue, posts, pushed, batches, appends, appended>>
    BY <1>2 DEF Logs!onopen, Logs!connect, Logs!setLive, Logs!browser, Logs!backend
  <2> QED
    BY <2>1 DEF BatchInv, QueueInv, WorkInv, PageInv, OfBrowser, Shown
<1> QED
  BY <1>1, <1>2, PushKeepsBatches, FlushKeepsBatches, PostEndsKeepsBatches, HandleKeepsBatches,
     StoreKeepsBatches, PublishKeepsBatches, onmessageKeepsBatches DEF Logs!Next, Logs!AppendGoesOn

(* The log: each line in one place, and each batch in order from the page  *)
(* back to the queue.                                                      *)
LogInv == LogsOK /\ OnceInv /\ BatchInv

LEMMA LogStarts == Logs!Init => LogInv
<1> SUFFICES ASSUME Logs!Init PROVE LogInv
  OBVIOUS
<1>1. \A s : s = <<>> => /\ ToSet(s) = {} /\ IsInjective(s) /\ Apart(s) /\ AllOf(s) = {}
                         /\ Ascends(s) /\ LinesOf(s) = <<>>
  BY DEF ToSet, IsInjective, Apart, AllOf, Ascends, LinesOf
<1>2. LogsOK
  <2>1. \A S : <<>> \in Seq(S)
    OBVIOUS
  <2>2. /\ MaxLines \in Nat /\ MaxLogs \in Nat /\ MaxLosses \in Nat
        /\ MaxRecent \in Nat \ {0} /\ Capacity \in Nat \ {0}
        /\ WireRoom \in Nat \ {0} /\ Limit \in Nat \ {0}
    BY PagesAssumption DEF Logs!LogAssumption
  <2>3. Len(<<>>) = 0 /\ 1 \in 1 .. 15
    OBVIOUS
  <2>4. /\ recent = <<>> /\ queue = <<>> /\ buffer = <<>> /\ wire = <<>> /\ items = <<>>
        /\ appended = <<>> /\ posts = <<>> /\ appends = <<>> /\ batches = {}
        /\ timer \in BOOLEAN /\ live \in BOOLEAN /\ socket = "connecting" /\ retry = 1
        /\ pushed = 0 /\ logged = 0 /\ losses = 0
    BY DEF Logs!Init
  <2>5. appends \in Seq(Request)
    BY <2>1, <2>4
  <2>6. Logs!TypeOK
    <3>1. 0 \in 0 .. MaxLines /\ 0 \in 0 .. MaxLogs /\ 0 \in 0 .. MaxLosses
      BY <2>2
    <3>2. 0 <= MaxRecent /\ 0 <= Capacity /\ 0 <= WireRoom /\ 0 <= Limit
      BY <2>2
    <3>3. /\ {recent, queue, buffer, wire, items, appended} \subseteq Seq(Logs!Line)
          /\ posts \in Seq(Seq(Logs!Line)) /\ batches \subseteq Seq(Logs!Line)
          /\ appends \in Seq([lines : Seq(Logs!Line), publish : Seq(Logs!Line)])
      BY <2>1, <2>4
    <3> QED
      BY <2>3, <2>4, <3>1, <3>2, <3>3 DEF Logs!TypeOK
  <2> QED
    BY <2>5, <2>6 DEF LogsOK
<1>3. OnceInv
  BY <1>1 DEF Logs!Init, OnceInv, Separate
<1>4. BatchInv
  BY <1>1 DEF Logs!Init, BatchInv, QueueInv, WorkInv, PageInv, Shown
<1> QED
  BY <1>2, <1>3, <1>4 DEF LogInv

LEMMA LogKeeps == LogInv /\ Logs!Next => LogInv'
  BY LogsTyped, OnceKeeps, BatchesKeep DEF LogInv

LEMMA LogIsSound == LogInv => Logs!ShippedOnce /\ Logs!BatchInOrder
<1>1. BatchInv => Logs!BatchInOrder
  BY LogsUse DEF BatchInv, PageInv, Logs!BatchInOrder
<1> QED
  BY <1>1, OnceIsShippedOnce DEF LogInv

-----------------------------------------------------------------------------
(* The types of the pages' state.                                          *)

LEMMA PagesUse ==
    \A s, i : /\ Hits!Poll!RemoveAt(s, i) = RemoveAt(s, i)
              /\ Inspect!Poll!RemoveAt(s, i) = RemoveAt(s, i)
              /\ Alerts!RemoveAt(s, i) = RemoveAt(s, i)
  BY DEF Hits!Poll!RemoveAt, Inspect!Poll!RemoveAt, Alerts!RemoveAt, RemoveAt

LEMMA OneMore ==
    ASSUME NEW S, NEW s \in Seq(S), NEW x \in S
    PROVE  Append(s, x) \in Seq(S) /\ Len(Append(s, x)) \in Nat
  OBVIOUS

LEMMA OneLess ==
    ASSUME NEW S, NEW s \in Seq(S), NEW i \in DOMAIN s, NEW n \in Nat, Len(s) <= n
    PROVE  RemoveAt(s, i) \in Seq(S) /\ Len(RemoveAt(s, i)) <= n /\ s[i] \in S
<1>1. /\ RemoveAt(s, i) \in Seq(S) /\ Len(RemoveAt(s, i)) = Len(s) - 1
      /\ Len(s) \in Nat /\ s[i] \in S
  BY RemoveAtIs
<1> QED
  BY <1>1

(* The poll of the Exclusions page.                                        *)
LEMMA HitPollTypes ==
    ASSUME Hits!Poll!PollTypeOK, NEW p \in Policies \cup {NoPolicy},
           Hits!Poll!ChangePath(p) \/ Hits!Poll!Reload(p) \/ Hits!Poll!Land
    PROVE  Hits!Poll!PollTypeOK'
<1> DEFINE Get == [path : Policies, sent : 0 .. 0]
<1>1. /\ hitGets \in Seq(Get) /\ Len(hitGets) <= MaxGets
      /\ MaxGets \in Nat /\ MaxErrors \in Nat
  BY PagesAssumption DEF Hits!Poll!PollTypeOK, Hits!HitPageAssumption, Hits!Poll!PollAssumption
<1>2. CASE Hits!Poll!ChangePath(p) \/ Hits!Poll!Reload(p)
  <2>1. p # NoPolicy => [path |-> p, sent |-> 0] \in Get
    OBVIOUS
  <2> HIDE DEF Get
  <2>2. hitGets' \in Seq(Get)
    BY <1>1, <1>2, <2>1, OneMore
       DEF Hits!Poll!ChangePath, Hits!Poll!Reload, Hits!Poll!Asking
  <2> QED
    BY <1>2, <2>2 DEF Hits!Poll!PollTypeOK, Hits!Poll!ChangePath, Hits!Poll!Reload, 
                      Hits!Poll!Data, Get
<1>3. ASSUME NEW i \in DOMAIN hitGets
      PROVE  /\ hitGets[i] \in Get /\ hitGets[i].path \in Policies
             /\ Hits!Poll!RemoveAt(hitGets, i) \in Seq(Get)
             /\ Len(Hits!Poll!RemoveAt(hitGets, i)) <= MaxGets
  <2> HIDE DEF Get
  <2>1. /\ hitGets[i] \in Get
        /\ Hits!Poll!RemoveAt(hitGets, i) \in Seq(Get)
        /\ Len(Hits!Poll!RemoveAt(hitGets, i)) <= MaxGets
    BY <1>1, OneLess, PagesUse
  <2> QED
    BY <2>1 DEF Get
<1>4. ASSUME NEW i \in DOMAIN hitGets, NEW at \in 0 .. 0, Hits!Poll!Answer(i, at)
      PROVE  Hits!Poll!PollTypeOK'
  BY <1>3, <1>4 DEF Hits!Poll!Answer, Hits!Poll!PollTypeOK, Hits!Poll!Data
<1>5. ASSUME NEW i \in DOMAIN hitGets, Hits!Poll!Fail(i)
      PROVE  Hits!Poll!PollTypeOK'
  BY <1>1, <1>3, <1>5 DEF Hits!Poll!Fail, Hits!Poll!PollTypeOK, Hits!Poll!Data
<1> QED
  BY <1>2, <1>4, <1>5 DEF Hits!Poll!Land

LEMMA HitTypesStart == Hits!Init => Hits!TypeOK
<1>1. NoPolicy \in Hits!Poll!Data /\ MaxCalls \in Nat /\ MaxErrors \in Nat /\ MaxGets \in Nat
  BY PagesAssumption DEF Hits!Poll!Data, Hits!HitPageAssumption, Hits!Poll!PollAssumption
<1> SUFFICES ASSUME Hits!Init PROVE Hits!TypeOK
  OBVIOUS
<1>2. Hits!Poll!PollTypeOK
  <2> DEFINE none == <<>>
  <2>1. /\ open = NoPolicy /\ detail = NoPolicy /\ hitGets = none /\ hitErrors = 0
    BY DEF Hits!Init, Hits!Poll!Init
  <2>2. none \in Seq([path : Policies, sent : 0 .. 0]) /\ Len(none) = 0
    OBVIOUS
  <2> QED
    BY <1>1, <2>1, <2>2 DEF Hits!Poll!PollTypeOK
<1>3. /\ selected = {} /\ preview = Nothing /\ applied = Nothing /\ call = Nothing
      /\ orphans = {} /\ excluded = {} /\ calls = 0
      /\ overtaken = {} /\ crossed = {}
  BY DEF Hits!Init
<1>4. calls \in 0 .. MaxCalls
  BY <1>1, <1>3
<1> QED
  BY <1>2, <1>3, <1>4 DEF Hits!TypeOK

LEMMA HitTypes ==
    ASSUME Hits!TypeOK, Hits!Next
    PROVE  Hits!TypeOK'
<1> DEFINE Causes == SUBSET {"values", "policy"}
<1> DEFINE SheetTyped == /\ selected \subseteq HitValues
                         /\ {preview, applied} \subseteq Hits!Request \cup {Nothing}
                         /\ call \in Hits!Call \cup {Nothing}
                         /\ orphans \subseteq Hits!Call
                         /\ excluded \subseteq Hits!Request
                         /\ calls \in 0 .. MaxCalls
                         /\ {overtaken, crossed} \subseteq Causes
<1>1. Hits!TypeOK <=> Hits!Poll!PollTypeOK /\ SheetTyped
  BY DEF Hits!TypeOK
<1>2. Hits!TypeOK' <=> Hits!Poll!PollTypeOK' /\ SheetTyped'
  BY DEF Hits!TypeOK
<1>3. UNCHANGED Hits!poll => Hits!Poll!PollTypeOK'
  BY <1>1 DEF Hits!poll, Hits!Poll!PollTypeOK, Hits!Poll!Data
<1>4. ASSUME NEW c \in Hits!Call
      PROVE  /\ c.from \in Policies
             /\ c.kind # "reset" => c.request \in Hits!Request
  BY DEF Hits!Call
<1>5. MaxCalls \in Nat
  BY PagesAssumption DEF Hits!HitPageAssumption
<1>6. Hits!busy => call \in Hits!Call
  BY <1>1 DEF Hits!busy
<1>7. ASSUME NEW p \in Policies, Hits!Open(p) PROVE Hits!TypeOK'
  BY <1>1, <1>2, <1>7, HitPollTypes DEF Hits!Open, Hits!sheet, Hits!server, Hits!missed
<1>8. CASE Hits!Close
  BY <1>1, <1>2, <1>6, <1>8, HitPollTypes DEF Hits!Close, Hits!Fresh, Hits!Orphaned
<1>9. CASE Hits!DetailLands
  <2>1. Hits!Poll!PollTypeOK'
    BY <1>1, <1>9, HitPollTypes DEF Hits!DetailLands
  <2>2. {overtaken', crossed'} \subseteq Causes
    BY <1>1, <1>9 DEF Hits!DetailLands
  <2> QED
    BY <1>1, <1>2, <1>9, <2>1, <2>2 DEF Hits!DetailLands, Hits!sheet, Hits!server
<1>10. ASSUME NEW v \in HitValues, Hits!toggle(v) PROVE Hits!TypeOK'
  <2>1. {overtaken', crossed'} \subseteq Causes
    BY <1>1, <1>10 DEF Hits!toggle
  <2> QED
    BY <1>1, <1>2, <1>3, <1>10, <2>1 DEF Hits!toggle, Hits!server
<1>11. CASE Hits!doPreview \/ Hits!doApply \/ Hits!doReset
  <2>1. PICK c : Hits!Calls(c) /\ c \in Hits!Call
    <3>1. Hits!Mounted
      BY <1>11 DEF Hits!doPreview, Hits!doApply, Hits!doReset, Hits!Calls
    <3>2. open \in Policies /\ detail.path \in Policies
      BY <1>1, <3>1 DEF Hits!Mounted, Hits!Poll!PollTypeOK, Hits!Poll!Data
    <3>3. selected # {} => Hits!request \in Hits!Request
      <4>1. selected \in SUBSET HitValues
        BY <1>1
      <4> QED
        BY <3>2, <4>1 DEF Hits!request, Hits!Request
    <3>4. PICK c : \/ /\ c = [kind |-> "preview", request |-> Hits!request, from |-> open]
                      /\ selected # {}
                   \/ /\ c = [kind |-> "apply", request |-> Hits!request, from |-> open]
                      /\ selected # {}
                   \/ c = [kind |-> "reset", policy |-> detail.path, from |-> open]
      BY <1>11 DEF Hits!doPreview, Hits!doApply, Hits!doReset
    <3> QED
      BY <1>11, <3>2, <3>3 DEF Hits!doPreview, Hits!doApply, Hits!doReset, Hits!Call
  <2> QED
    BY <1>1, <1>2, <1>3, <1>5, <2>1 DEF Hits!Calls, Hits!missed
<1>12. CASE Hits!CallEnds
  <2>1. CASE Hits!Previewed
    BY <1>1, <1>2, <1>3, <1>4, <1>6, <2>1 DEF Hits!Previewed, Hits!PreviewAsked, Hits!server
  <2>2. CASE Hits!Applied
    BY <1>1, <1>2, <1>4, <1>6, <2>2, HitPollTypes DEF Hits!Applied
  <2>3. CASE Hits!WasReset
    BY <1>1, <1>2, <1>4, <1>6, <2>3, HitPollTypes DEF Hits!WasReset, Hits!server, Hits!missed
  <2>4. CASE Hits!Failed
    BY <1>1, <1>2, <1>3, <1>4, <1>6, <2>4 DEF Hits!Failed
  <2> QED
    BY <1>12, <2>1, <2>2, <2>3, <2>4 DEF Hits!CallEnds
<1>13. ASSUME NEW c \in orphans, Hits!OrphanEnds(c) PROVE Hits!TypeOK'
  <2>1. c \in Hits!Call
    BY <1>1
  <2>2. Hits!Poll!PollTypeOK'
    BY <1>1, <1>3, <1>4, <1>13, <2>1, HitPollTypes DEF Hits!OrphanEnds
  <2>3. excluded' \subseteq Hits!Request
    BY <1>1, <1>4, <1>13, <2>1 DEF Hits!OrphanEnds
  <2> QED
    BY <1>1, <1>2, <1>13, <2>2, <2>3 DEF Hits!OrphanEnds, Hits!sheet, Hits!missed
<1> QED
  BY <1>7, <1>8, <1>9, <1>10, <1>11, <1>12, <1>13 DEF Hits!Next

(* The Create page: every text is one.                                     *)
LEMMA TextsAre ==
    /\ Typed \cup Listed \subseteq Create!Text
    /\ \A i \in 1 .. 8 : Create!TEMPLATES[i] \in Create!Text
    /\ Starts \subseteq 1 .. 8
    /\ MaxMade \in Nat
<1>1. ASSUME NEW i \in 1 .. 8 PROVE Create!TEMPLATES[i] \in Create!Text
  <2> DEFINE names == <<"default-deny", "allow-between", "dns-allowlist", "block-metadata",
                        "l7-http", "tetragon-exec", "tetragon-files", "k8s-netpol">>
             Kind(n) == CASE n = 4 -> "CiliumClusterwideNetworkPolicy"
                          [] n \in {6, 7} -> "TracingPolicy"
                          [] n = 8 -> "NetworkPolicy"
                          [] OTHER -> "CiliumNetworkPolicy"
             Space(n) == IF n \in {4, 6, 7} THEN "" ELSE "default"
  <2>1. Kind(i) \in Create!NETWORK_KINDS \cup Create!RUNTIME_KINDS
    BY DEF Create!NETWORK_KINDS, Create!RUNTIME_KINDS
  <2>2. Space(i) \in {"", "default"}
    OBVIOUS
  <2>3. Create!TEMPLATES[i] = [kind |-> Kind(i), namespace |-> Space(i), name |-> names[i]]
    BY DEF Create!TEMPLATES
  <2> HIDE DEF names, Kind, Space
  <2>4. names[i] \in Create!Names
    <3>1. i \in DOMAIN Create!TEMPLATES
      BY DEF Create!TEMPLATES
    <3>2. Create!TEMPLATES[i].name = names[i]
      BY <2>3
    <3> QED
      BY <3>1, <3>2 DEF Create!Names
  <2>5. \A kind \in Create!NETWORK_KINDS \cup Create!RUNTIME_KINDS,
            space \in {"", "default"}, name \in Create!Names :
            [kind |-> kind, namespace |-> space, name |-> name] \in Create!Text
    BY DEF Create!Text
  <2> QED
    BY <2>1, <2>2, <2>3, <2>4, <2>5
<1> QED
  BY <1>1, PagesAssumption DEF Create!TextsAssumption, Create!TEMPLATES

LEMMA RescopedIsText ==
    ASSUME NEW t \in Create!Text, NEW namespace \in Namespaces \cup {""}
    PROVE  Create!Rescoped(t, namespace) \in Create!Text
<1> DEFINE Kind == CASE t.kind = "CiliumNetworkPolicy" /\ namespace = "" ->
                            "CiliumClusterwideNetworkPolicy"
                     [] t.kind = "CiliumClusterwideNetworkPolicy" /\ namespace # "" ->
                            "CiliumNetworkPolicy"
                     [] t.kind = "TracingPolicy" /\ namespace # "" -> "TracingPolicyNamespaced"
                     [] t.kind = "TracingPolicyNamespaced" /\ namespace = "" -> "TracingPolicy"
                     [] OTHER -> t.kind
<1>1. Create!Rescoped(t, namespace) = [t EXCEPT !.namespace = namespace, !.kind = Kind]
  BY DEF Create!Rescoped, Create!Text
<1>2. Kind \in Create!NETWORK_KINDS \cup Create!RUNTIME_KINDS \cup {"other"}
  BY DEF Create!Text, Create!NETWORK_KINDS, Create!RUNTIME_KINDS
<1> HIDE DEF Kind
<1> QED
  BY <1>1, <1>2 DEF Create!Text

LEMMA CreateTypesStart == Create!Init => Create!TypeOK
<1>1. Create!TEMPLATES[1] \in Create!Text /\ MaxMade \in Nat
  BY TextsAre
<1> SUFFICES ASSUME Create!Init PROVE Create!TypeOK
  OBVIOUS
<1>2. /\ text = Create!TEMPLATES[1] /\ run = Nothing /\ waiting = Nothing
      /\ made = 0 /\ sent = {} /\ seen = {} /\ drifted = FALSE
  BY DEF Create!Init
<1>3. made \in 0 .. MaxMade
  BY <1>1, <1>2
<1> QED
  BY <1>1, <1>2, <1>3 DEF Create!TypeOK

LEMMA CreateTypes ==
    ASSUME Create!TypeOK, Create!Next
    PROVE  Create!TypeOK'
<1> DEFINE Calling == [kind : {"dryrun", "apply", "generate"}, text : Create!Text]
<1>1. /\ text \in Create!Text
      /\ run \in Create!Text \cup {Nothing}
      /\ waiting \in Calling \cup {Nothing}
      /\ made \in 0 .. MaxMade /\ MaxMade \in Nat
      /\ sent \subseteq Create!Text /\ seen \subseteq Create!Text
      /\ drifted \in BOOLEAN
  BY TextsAre DEF Create!TypeOK
<1>2. Create!working => waiting.text \in Create!Text
  BY <1>1 DEF Create!working
<1>3. ASSUME /\ text' \in Create!Text
             /\ run' \in Create!Text \cup {Nothing}
             /\ waiting' \in Calling \cup {Nothing}
             /\ made' \in 0 .. MaxMade
             /\ sent' \subseteq Create!Text /\ seen' \subseteq Create!Text
             /\ drifted' \in BOOLEAN
      PROVE  Create!TypeOK'
  BY <1>3 DEF Create!TypeOK
<1>4. \A t \in Create!Text, kind \in {"dryrun", "apply", "generate"} :
          [kind |-> kind, text |-> t] \in Calling
  OBVIOUS
<1> HIDE DEF Calling
<1>5. ASSUME NEW t \in Create!Text, Create!Replace(t) PROVE Create!TypeOK'
  <2>1. drifted' \in BOOLEAN
    BY <1>5 DEF Create!Replace, Create!DryRunAsked, Create!working
  <2> QED
    BY <1>1, <1>3, <1>5, <2>1 DEF Create!Replace
<1>6. CASE \/ \E t \in Typed : Create!Type(t)
           \/ \E t \in Listed : Create!load(t)
           \/ \E i \in Starts : Create!Start(i)
  BY <1>5, <1>6, TextsAre DEF Create!Type, Create!load, Create!Start
<1>7. CASE \E namespace \in Namespaces \cup {""} : Create!setNamespace(namespace)
  BY <1>1, <1>5, <1>7, RescopedIsText DEF Create!setNamespace
<1>8. CASE Create!dryRun \/ Create!apply \/ Create!generate
  <2>1. /\ made < MaxMade /\ made' = made + 1
        /\ UNCHANGED <<text, sent, seen>>
        /\ \E kind \in {"dryrun", "apply", "generate"} :
               waiting' = [kind |-> kind, text |-> text]
    BY <1>8 DEF Create!dryRun, Create!apply, Create!generate, Create!Calls
  <2>3. made' \in 0 .. MaxMade
    BY <1>1, <2>1
  <2>4. waiting' \in Calling
    BY <1>1, <1>4, <2>1
  <2>2. run' \in {run, Nothing} /\ drifted' \in {drifted, FALSE}
    BY <1>8 DEF Create!dryRun, Create!apply, Create!generate
  <2> QED
    BY <1>1, <1>3, <2>1, <2>2, <2>3, <2>4
<1>9. CASE Create!DryRunIn \/ Create!Applied \/ Create!NothingIn
  BY <1>1, <1>2, <1>3, <1>9
     DEF Create!DryRunIn, Create!Applied, Create!NothingIn, Create!DryRunAsked
<1>10. CASE Create!GeneratedIn
  <2>1. Create!Generated(waiting.text) \in Create!Text
    <3>1. waiting.text \in Create!Text
      BY <1>2, <1>10 DEF Create!GeneratedIn
    <3>2. ASSUME NEW t \in Create!Text PROVE Create!Generated(t) \in Create!Text
      BY DEF Create!Generated, Create!Text, Create!NETWORK_KINDS, Create!Names
    <3> QED
      BY <3>1, <3>2
  <2>2. drifted' \in BOOLEAN
    BY <1>1, <1>10 DEF Create!GeneratedIn
  <2> QED
    BY <1>1, <1>3, <1>10, <2>1, <2>2 DEF Create!GeneratedIn
<1> QED
  BY <1>6, <1>7, <1>8, <1>9, <1>10 DEF Create!Next, Create!CallEnds

(* The Integrations page.                                                  *)
LEMMA AlertTypesStart == Alerts!Init => Alerts!TypeOK
<1> DEFINE unread == Alerts!Unread
<1>1. /\ Initially \in Alerts!Routes
      /\ MaxEdits \in Nat /\ MaxFetches \in Nat /\ MaxFetches > 0
      /\ MaxSaves \in Nat /\ MaxLost \in Nat
  BY PagesAssumption DEF Alerts!EditorAssumption
<1>2. Alerts!NoRoutes \in Alerts!Routes
  BY DEF Alerts!NoRoutes, Alerts!Routes
<1> SUFFICES ASSUME Alerts!Init PROVE Alerts!TypeOK
  OBVIOUS
<1>3. /\ config \in {"fallback", "loaded"} /\ routes = Alerts!NoRoutes /\ dirty = FALSE
      /\ fetches = <<unread>> /\ saves = <<>> /\ stored = Initially
      /\ edits = 0 /\ saved = 0 /\ lost = 0
  BY DEF Alerts!Init
<1>4. <<unread>> \in Seq(Alerts!Routes \cup {unread}) /\ Len(<<unread>>) = 1
  <2> HIDE DEF unread
  <2> QED
    OBVIOUS
<1>5. Len(fetches) <= MaxFetches
  BY <1>1, <1>3, <1>4
<1>6. edits \in 0 .. MaxEdits /\ saved \in 0 .. MaxSaves /\ lost \in 0 .. MaxLost
  BY <1>1, <1>3
<1>7. <<>> \in Seq([list : Alerts!Routes, taken : BOOLEAN])
  OBVIOUS
<1> QED
  BY <1>1, <1>2, <1>3, <1>4, <1>5, <1>6, <1>7 DEF Alerts!TypeOK

LEMMA AlertTypes ==
    ASSUME Alerts!TypeOK, Alerts!Next
    PROVE  Alerts!TypeOK'
<1> DEFINE Brought == Alerts!Routes \cup {Alerts!Unread}
           Save == [list : Alerts!Routes, taken : BOOLEAN]
           FetchesTyped == fetches \in Seq(Brought) /\ Len(fetches) <= MaxFetches
           SavesTyped == saves \in Seq(Save)
           RestTyped == /\ config \in {"fallback", "loaded"}
                        /\ routes \in Alerts!Routes /\ stored \in Alerts!Routes
                        /\ dirty \in BOOLEAN
                        /\ edits \in 0 .. MaxEdits /\ saved \in 0 .. MaxSaves
                        /\ lost \in 0 .. MaxLost
<1>1. Alerts!TypeOK <=> FetchesTyped /\ SavesTyped /\ RestTyped
  BY DEF Alerts!TypeOK
<1>2. Alerts!TypeOK' <=> FetchesTyped' /\ SavesTyped' /\ RestTyped'
  BY DEF Alerts!TypeOK
<1>3. MaxEdits \in Nat /\ MaxFetches \in Nat /\ MaxSaves \in Nat /\ MaxLost \in Nat
  BY PagesAssumption DEF Alerts!EditorAssumption
<1>4. ASSUME NEW i \in DOMAIN fetches
      PROVE  /\ fetches[i] \in Brought
             /\ Alerts!RemoveAt(fetches, i) \in Seq(Brought)
             /\ Len(Alerts!RemoveAt(fetches, i)) <= MaxFetches
             /\ \A x \in Brought : /\ [fetches EXCEPT ![i] = x] \in Seq(Brought)
                                   /\ Len([fetches EXCEPT ![i] = x]) = Len(fetches)
  <2> HIDE DEF Brought
  <2>1. fetches \in Seq(Brought) /\ Len(fetches) <= MaxFetches
    BY <1>1
  <2>2. /\ fetches[i] \in Brought
        /\ Alerts!RemoveAt(fetches, i) \in Seq(Brought)
        /\ Len(Alerts!RemoveAt(fetches, i)) <= MaxFetches
    BY <1>3, <2>1, OneLess, PagesUse
  <2>3. \A x \in Brought : /\ [fetches EXCEPT ![i] = x] \in Seq(Brought)
                           /\ Len([fetches EXCEPT ![i] = x]) = Len(fetches)
    BY <2>1, ExceptSeq
  <2> QED
    BY <2>2, <2>3
<1>5. ASSUME NEW i \in DOMAIN saves
      PROVE  /\ saves[i] \in Save
             /\ Alerts!RemoveAt(saves, i) \in Seq(Save)
             /\ [saves EXCEPT ![i].taken = TRUE] \in Seq(Save)
  <2>1. saves \in Seq(Save)
    BY <1>1
  <2>2. saves[i] \in Save /\ Alerts!RemoveAt(saves, i) \in Seq(Save)
    <3> HIDE DEF Save
    <3> QED
      BY <2>1, RemoveAtIs, PagesUse
  <2>3. [saves[i] EXCEPT !.taken = TRUE] \in Save
    BY <2>2
  <2>4. [saves EXCEPT ![i] = [saves[i] EXCEPT !.taken = TRUE]] \in Seq(Save)
    <3> HIDE DEF Save
    <3> QED
      BY <2>1, <2>3, ExceptSeq
  <2> QED
    BY <2>2, <2>4
<1>6. \A i \in DOMAIN saves : saves[i].list \in Alerts!Routes
  BY <1>5
<1>7. \A list \in Alerts!Routes : [list |-> list, taken |-> FALSE] \in Save
  OBVIOUS
<1> HIDE DEF Save
<1>8. CASE Alerts!LoadConfig
  <2>1. Alerts!Unread \in Brought
    OBVIOUS
  <2> HIDE DEF Brought
  <2>2. FetchesTyped'
    BY <1>1, <1>8, <2>1, OneMore DEF Alerts!LoadConfig, Alerts!Refetched
  <2> QED
    BY <1>1, <1>2, <1>8, <2>2 DEF Alerts!LoadConfig
<1>9. ASSUME NEW i \in DOMAIN fetches, Alerts!Read(i) PROVE Alerts!TypeOK'
  <2>1. stored \in Brought
    BY <1>1
  <2> HIDE DEF Brought
  <2>2. FetchesTyped'
    BY <1>1, <1>4, <1>9, <2>1 DEF Alerts!Read
  <2> QED
    BY <1>1, <1>2, <1>9, <2>2 DEF Alerts!Read
<1>10. ASSUME NEW i \in DOMAIN fetches, Alerts!Fetched(i) PROVE Alerts!TypeOK'
  <2>1. routes' \in Alerts!Routes
    BY <1>4, <1>10 DEF Alerts!Fetched
  <2> HIDE DEF Brought
  <2>2. FetchesTyped'
    BY <1>4, <1>10 DEF Alerts!Fetched
  <2> QED
    BY <1>1, <1>2, <1>10, <2>1, <2>2 DEF Alerts!Fetched
<1>11. ASSUME NEW i \in DOMAIN fetches, Alerts!FetchFails(i) PROVE Alerts!TypeOK'
  <2> HIDE DEF Brought
  <2>1. FetchesTyped'
    BY <1>4, <1>11 DEF Alerts!FetchFails
  <2>2. lost' \in 0 .. MaxLost
    BY <1>1, <1>3, <1>11 DEF Alerts!FetchFails
  <2> QED
    BY <1>1, <1>2, <1>11, <2>1, <2>2 DEF Alerts!FetchFails
<1> HIDE DEF Brought
<1>12. ASSUME NEW r \in RouteIds, Alerts!Add(r) \/ Alerts!Drop(r) \/ Alerts!update(r)
       PROVE  Alerts!TypeOK'
  <2>1. /\ edits < MaxEdits /\ edits' = edits + 1 /\ dirty' = TRUE
        /\ UNCHANGED <<config, fetches, saves, stored, saved, lost>>
        /\ \E state \in {"absent", "off", "on"} : routes' = [routes EXCEPT ![r] = state]
    BY <1>12 DEF Alerts!Add, Alerts!Drop, Alerts!update, Alerts!Edit
  <2>2. routes' \in Alerts!Routes
    BY <1>1, <2>1 DEF Alerts!Routes
  <2>3. edits' \in 0 .. MaxEdits
    BY <1>1, <1>3, <2>1
  <2> QED
    BY <1>1, <1>2, <2>1, <2>2, <2>3
<1>13. CASE Alerts!save
  <2>1. saves' \in Seq(Save)
    BY <1>1, <1>7, <1>13, OneMore DEF Alerts!save
  <2>2. saved' \in 0 .. MaxSaves
    BY <1>1, <1>3, <1>13 DEF Alerts!save
  <2> QED
    BY <1>1, <1>2, <1>13, <2>1, <2>2 DEF Alerts!save
<1>14. ASSUME NEW i \in DOMAIN saves, Alerts!Take(i) PROVE Alerts!TypeOK'
  BY <1>1, <1>2, <1>5, <1>6, <1>14 DEF Alerts!Take
<1>15. ASSUME NEW i \in DOMAIN saves, Alerts!Saved(i) PROVE Alerts!TypeOK'
  BY <1>1, <1>2, <1>5, <1>6, <1>15 DEF Alerts!Saved
<1>16. ASSUME NEW i \in DOMAIN saves, Alerts!SaveFails(i) PROVE Alerts!TypeOK'
  <2>1. lost' \in 0 .. MaxLost
    BY <1>1, <1>3, <1>16 DEF Alerts!SaveFails
  <2> QED
    BY <1>1, <1>2, <1>5, <1>16, <2>1 DEF Alerts!SaveFails
<1> QED
  BY <1>8, <1>9, <1>10, <1>11, <1>12, <1>13, <1>14, <1>15, <1>16
     DEF Alerts!Next, Alerts!FetchEnds, Alerts!SaveEnds

(* The Investigation page.                                                 *)
LEMMA InspectTypesStart == Inspect!Init => Inspect!TypeOK /\ filters \subseteq Facets
<1> DEFINE Get == [path : SUBSET Facets, sent : 0 .. MaxVersion]
           get == [path |-> {}, sent |-> 0]
<1>1. MaxVersion \in Nat /\ MaxErrors \in Nat /\ MaxGets \in Nat /\ MaxGets > 0
  BY PagesAssumption DEF Inspect!Poll!PollAssumption
<1>2. get \in Get
  BY <1>1
<1> SUFFICES ASSUME Inspect!Init PROVE Inspect!TypeOK /\ filters \subseteq Facets
  OBVIOUS
<1>3. /\ filters = {} /\ result = NoPath /\ version = 0 /\ errors = 0
      /\ gets = <<get>>
      /\ row = Closed /\ explain = Closed /\ asking = Closed
      /\ abandoned = FALSE /\ strayed = FALSE
  BY DEF Inspect!Init
<1>4. <<get>> \in Seq(Get) /\ Len(<<get>>) = 1
  <2> HIDE DEF Get, get
  <2> QED
    BY <1>2
<1>5. Inspect!Poll!PollTypeOK
  BY <1>1, <1>3, <1>4 DEF Inspect!Poll!PollTypeOK, Inspect!Poll!Data
<1> QED
  BY <1>3, <1>5 DEF Inspect!TypeOK

LEMMA InspectPollTypes ==
    ASSUME Inspect!Poll!PollTypeOK, NEW p \in SUBSET Facets,
           \/ Inspect!Poll!ChangePath(p) \/ Inspect!Poll!Reload(p)
           \/ Inspect!Poll!Land \/ Inspect!Poll!Change
    PROVE  Inspect!Poll!PollTypeOK'
<1> DEFINE Get == [path : SUBSET Facets, sent : 0 .. MaxVersion]
<1>1. /\ gets \in Seq(Get) /\ Len(gets) <= MaxGets
      /\ version \in 0 .. MaxVersion /\ errors \in 0 .. MaxErrors
      /\ MaxGets \in Nat /\ MaxErrors \in Nat /\ MaxVersion \in Nat
  BY PagesAssumption DEF Inspect!Poll!PollTypeOK, Inspect!Poll!PollAssumption
<1>2. CASE Inspect!Poll!ChangePath(p) \/ Inspect!Poll!Reload(p)
  <2>1. [path |-> p, sent |-> version] \in Get
    BY <1>1
  <2> HIDE DEF Get
  <2>2. gets' \in Seq(Get)
    BY <1>1, <1>2, <2>1, OneMore
       DEF Inspect!Poll!ChangePath, Inspect!Poll!Reload, Inspect!Poll!Asking
  <2> QED
    BY <1>2, <2>2 DEF Inspect!Poll!PollTypeOK, Inspect!Poll!ChangePath,
                      Inspect!Poll!Reload, Inspect!Poll!Data, Get
<1>3. ASSUME NEW i \in DOMAIN gets
      PROVE  /\ gets[i].path \in SUBSET Facets /\ gets[i].sent \in 0 .. MaxVersion
             /\ Inspect!Poll!RemoveAt(gets, i) \in Seq(Get)
             /\ Len(Inspect!Poll!RemoveAt(gets, i)) <= MaxGets
  <2> HIDE DEF Get
  <2>1. /\ gets[i] \in Get
        /\ Inspect!Poll!RemoveAt(gets, i) \in Seq(Get)
        /\ Len(Inspect!Poll!RemoveAt(gets, i)) <= MaxGets
    BY <1>1, OneLess, PagesUse
  <2> QED
    BY <2>1 DEF Get
<1>4. ASSUME NEW i \in DOMAIN gets, NEW at \in 0 .. version, Inspect!Poll!Answer(i, at)
      PROVE  Inspect!Poll!PollTypeOK'
  <2>1. at \in 0 .. MaxVersion
    BY <1>1
  <2> QED
    BY <1>3, <1>4, <2>1 DEF Inspect!Poll!Answer, Inspect!Poll!PollTypeOK, Inspect!Poll!Data
<1>5. ASSUME NEW i \in DOMAIN gets, Inspect!Poll!Fail(i)
      PROVE  Inspect!Poll!PollTypeOK'
  BY <1>1, <1>3, <1>5 DEF Inspect!Poll!Fail, Inspect!Poll!PollTypeOK, Inspect!Poll!Data
<1>6. CASE Inspect!Poll!Change
  BY <1>1, <1>6 DEF Inspect!Poll!Change, Inspect!Poll!PollTypeOK, Inspect!Poll!Data
<1> QED
  BY <1>2, <1>4, <1>5, <1>6 DEF Inspect!Poll!Land

LEMMA InspectTypes ==
    ASSUME Inspect!TypeOK, filters \subseteq Facets, Inspect!Next
    PROVE  Inspect!TypeOK' /\ filters' \subseteq Facets
<1>1. Inspect!Poll!PollTypeOK
  BY DEF Inspect!TypeOK
<1>2. ASSUME NEW p \in SUBSET Facets, UNCHANGED Inspect!record,
             \/ Inspect!Poll!ChangePath(p)
             \/ filters' = filters /\ (\/ Inspect!Poll!Reload(p)
                                       \/ Inspect!Poll!Land \/ Inspect!Poll!Change)
      PROVE  Inspect!TypeOK' /\ filters' \subseteq Facets
  <2>1. Inspect!Poll!PollTypeOK'
    BY <1>1, <1>2, InspectPollTypes
  <2>2. filters' \subseteq Facets
    BY <1>2 DEF Inspect!Poll!ChangePath
  <2> QED
    BY <1>2, <2>1, <2>2 DEF Inspect!TypeOK, Inspect!record
<1>3. ASSUME UNCHANGED Inspect!query, {row', explain', asking'} \subseteq Records \cup {Closed},
             {abandoned', strayed'} \subseteq BOOLEAN
      PROVE  Inspect!TypeOK' /\ filters' \subseteq Facets
  <2>1. Inspect!Poll!PollTypeOK'
    BY <1>1, <1>3 DEF Inspect!query, Inspect!Poll!PollTypeOK, Inspect!Poll!Data
  <2> QED
    BY <1>3, <2>1 DEF Inspect!TypeOK, Inspect!query
<1>4. CASE \E v \in Facets : Inspect!toggle(v)
  <2>1. PICK v \in Facets : Inspect!toggle(v)
    BY <1>4
  <2>2. PICK p : p = IF v \in filters THEN filters \ {v} ELSE filters \cup {v}
    OBVIOUS
  <2>3. p \in SUBSET Facets
    BY <2>2
  <2> QED
    BY <1>2, <2>1, <2>2, <2>3 DEF Inspect!toggle
<1>5. CASE Inspect!Clear
  <2>1. {} \in SUBSET Facets
    OBVIOUS
  <2> QED
    BY <1>2, <1>5, <2>1 DEF Inspect!Clear
<1>6. CASE Inspect!Refresh \/ Inspect!Ticks
  <2>1. PICK p : p = filters
    OBVIOUS
  <2>2. p \in SUBSET Facets
    BY <2>1
  <2>3. Inspect!Poll!Reload(p) /\ filters' = filters /\ UNCHANGED Inspect!record
    BY <1>6, <2>1 DEF Inspect!Refresh, Inspect!Ticks, Inspect!Poll!Tick, Inspect!Poll!Reload
  <2> QED
    BY <1>2, <2>2, <2>3
<1>7. CASE Inspect!Lands \/ Inspect!Changes
  <2>1. {} \in SUBSET Facets
    OBVIOUS
  <2>2. filters' = filters
    BY <1>7 DEF Inspect!Lands, Inspect!Changes, Inspect!Poll!Land, Inspect!Poll!Answer,
                Inspect!Poll!Fail, Inspect!Poll!Change
  <2> QED
    BY <1>2, <1>7, <2>1, <2>2 DEF Inspect!Lands, Inspect!Changes
<1>8. CASE \/ \E r \in Records : Inspect!OpenRecord(r)
           \/ Inspect!CloseRecord \/ Inspect!load \/ Inspect!ExplainEnds
  <2>1. UNCHANGED Inspect!query
    BY <1>8 DEF Inspect!OpenRecord, Inspect!CloseRecord, Inspect!load, Inspect!ExplainEnds,
                Inspect!Explained, Inspect!NotExplained
  <2>2. /\ {row', explain', asking'} \subseteq Records \cup {Closed}
        /\ {abandoned', strayed'} \subseteq BOOLEAN
    BY <1>8 DEF Inspect!TypeOK, Inspect!OpenRecord, Inspect!CloseRecord, Inspect!load,
                Inspect!ExplainEnds, Inspect!Explained, Inspect!NotExplained
  <2> QED
    BY <1>3, <2>1, <2>2
<1> QED
  BY <1>4, <1>5, <1>6, <1>7, <1>8 DEF Inspect!Next

-----------------------------------------------------------------------------
(* The pages together.                                                     *)
TypesInv ==
    /\ page \in Visits
    /\ Hits!TypeOK /\ Create!TypeOK /\ Alerts!TypeOK /\ Inspect!TypeOK
    /\ filters \subseteq Facets
IInv == TypesInv /\ LibraryInv /\ SheetInv /\ ComposerInv /\ RecordInv /\ LogInv

LEMMA UntouchedTypes ==
    /\ Hits!TypeOK /\ UNCHANGED hits => Hits!TypeOK'
    /\ Create!TypeOK /\ UNCHANGED create => Create!TypeOK'
    /\ Alerts!TypeOK /\ UNCHANGED alerts => Alerts!TypeOK'
    /\ Inspect!TypeOK /\ filters \subseteq Facets /\ UNCHANGED inspect
           => Inspect!TypeOK' /\ filters' \subseteq Facets
<1>1. Hits!TypeOK /\ UNCHANGED hits => Hits!TypeOK'
  BY DEF hits, Hits!TypeOK, Hits!Poll!PollTypeOK, Hits!Poll!Data
<1>2. Create!TypeOK /\ UNCHANGED create => Create!TypeOK'
  BY DEF create, Create!TypeOK
<1>3. Alerts!TypeOK /\ UNCHANGED alerts => Alerts!TypeOK'
  BY DEF alerts, Alerts!TypeOK
<1>4. Inspect!TypeOK /\ filters \subseteq Facets /\ UNCHANGED inspect
          => Inspect!TypeOK' /\ filters' \subseteq Facets
  BY DEF inspect, Inspect!TypeOK, Inspect!Poll!PollTypeOK, Inspect!Poll!Data
<1> QED
  BY <1>1, <1>2, <1>3, <1>4

LEMMA TypesKeep ==
    ASSUME TypesInv, [Next]_vars
    PROVE  TypesInv'
<1> USE DEF TypesInv
<1>1. page' = page
  BY DEF Next, VisitLibrary, VisitExclusions, VisitCreate, VisitAlerts, VisitInvestigate,
         VisitDiagnostics, vars
<1>2. CASE VisitExclusions
  BY <1>1, <1>2, HitTypes, UntouchedTypes DEF VisitExclusions
<1>3. CASE VisitCreate
  BY <1>1, <1>3, CreateTypes, UntouchedTypes DEF VisitCreate
<1>4. CASE VisitAlerts
  BY <1>1, <1>4, AlertTypes, UntouchedTypes DEF VisitAlerts
<1>5. CASE VisitInvestigate
  BY <1>1, <1>5, InspectTypes, UntouchedTypes DEF VisitInvestigate
<1>6. CASE UNCHANGED <<hits, create, alerts, inspect>>
  BY <1>1, <1>6, UntouchedTypes
<1> QED
  BY <1>2, <1>3, <1>4, <1>5, <1>6 DEF Next, VisitLibrary, VisitDiagnostics, vars

LEMMA UntouchedPages ==
    /\ LibraryInv /\ UNCHANGED library => LibraryInv'
    /\ SheetInv /\ UNCHANGED hits => SheetInv'
    /\ ComposerInv /\ UNCHANGED create => ComposerInv'
    /\ RecordInv /\ UNCHANGED inspect => RecordInv'
    /\ LogInv /\ UNCHANGED logs => LogInv'
<1>1. SheetInv /\ UNCHANGED hits => SheetInv'
  BY DEF SheetInv, AskedIsOfPage, hits, Hits!busy, Hits!PreviewAsked,
         Hits!PreviewIsOfPage, Hits!NotesAreTrue, Hits!NothingOutlivesTheSheet,
         Hits!Mounted, Hits!Poll!Data
<1>2. ComposerInv /\ UNCHANGED create => ComposerInv'
  BY DEF ComposerInv, create, Create!RunIsOfText, Create!DryRunAsked, Create!working
<1>3. RecordInv /\ UNCHANGED inspect => RecordInv'
  BY DEF RecordInv, inspect
<1>4. LogInv /\ UNCHANGED logs => LogInv'
  <2>1. LogsOK /\ UNCHANGED logs => LogsOK'
    BY DEF LogsOK, Logs!TypeOK, Logs!Line, Request, Line, logs
  <2>2. OnceInv /\ UNCHANGED logs => OnceInv'
    BY DEF OnceInv, logs
  <2>3. BatchInv /\ UNCHANGED logs => BatchInv'
    BY DEF BatchInv, QueueInv, WorkInv, PageInv, OfBrowser, Shown, logs
  <2> QED
    BY <2>1, <2>2, <2>3 DEF LogInv
<1>5. LibraryInv /\ UNCHANGED library => LibraryInv'
  BY LibraryRests
<1> QED
  BY <1>1, <1>2, <1>3, <1>4, <1>5

LEMMA InitIInv == Init => IInv
<1> SUFFICES ASSUME Init PROVE IInv
  OBVIOUS
<1>1. SheetInv
  BY SheetStarts DEF Init
<1>2. ComposerInv
  BY ComposerStarts DEF Init
<1>3. RecordInv
  BY DEF Init, Inspect!Init, RecordInv
<1>4. LogInv
  BY LogStarts DEF Init
<1>5. LibraryInv
  BY LibraryStarts, PagesAssumption DEF Init
<1>6. TypesInv
  BY HitTypesStart, CreateTypesStart, AlertTypesStart, InspectTypesStart DEF Init, TypesInv
<1> QED
  BY <1>1, <1>2, <1>3, <1>4, <1>5, <1>6 DEF IInv

LEMMA NextIInv == IInv /\ [Next]_vars => IInv'
<1> SUFFICES ASSUME IInv, [Next]_vars PROVE IInv'
  OBVIOUS
<1>0. TypesInv'
  BY TypesKeep DEF IInv
<1>1. CASE VisitExclusions
  BY <1>0, <1>1, SheetKeeps, UntouchedPages DEF IInv, VisitExclusions
<1>2. CASE VisitCreate
  BY <1>0, <1>2, ComposerKeeps, UntouchedPages DEF IInv, VisitCreate
<1>3. CASE VisitInvestigate
  BY <1>0, <1>3, RecordKeeps, UntouchedPages DEF IInv, VisitInvestigate
<1>4. CASE VisitDiagnostics
  BY <1>0, <1>4, LogKeeps, UntouchedPages DEF IInv, VisitDiagnostics
<1>5. CASE VisitLibrary
  BY <1>0, <1>5, LibraryKeeps, PagesAssumption, UntouchedPages DEF IInv, VisitLibrary
<1>6. CASE UNCHANGED <<library, hits, create, inspect, logs>>
  BY <1>0, <1>6, UntouchedPages DEF IInv
<1> QED
  BY <1>1, <1>2, <1>3, <1>4, <1>5, <1>6 DEF Next, VisitAlerts, vars

(* Whatever is clicked, typed or picked: a preview, a dry run and an       *)
(* explanation differ from what stands beside them only by what changed    *)
(* since they were asked for; and however late the answers are, none gets  *)
(* to another sheet of the Exclusions page than its own, what Applied says *)
(* was written, and a kind has the namespace that is picked for it         *)
(* (PolicyHitDetail, PolicyComposer, RecordSheet).                         *)
THEOREM PagesAlwaysAgree == Spec => []PagesAgree
<1>1. IInv => PagesAgree
  BY PickingFits DEF IInv, SheetInv, ComposerInv, RecordInv, PagesAgree,
                     Inspect!ExplainsTheRecord
<1> QED
  BY InitIInv, NextIInv, <1>1, PTL DEF Spec

(* Whatever is logged, by however many tabs, requests and goroutines, and  *)
(* however often the stream is lost, a line gets to the buffer at most     *)
(* once, a DEBUG line never, and the page shows the lines of a batch in    *)
(* their order (Logger, postClientLog, Append, useStream).                 *)
THEOREM LogsAlwaysSound == Spec => []LogsAreSound
<1>1. IInv => LogsAreSound
  BY LogIsSound DEF IInv, LogsAreSound
<1> QED
  BY InitIInv, NextIInv, <1>1, PTL DEF Spec

(* Whatever is selected, in whatever order, and whatever fails or is       *)
(* edited while an apply is under way: every object is in the mode that    *)
(* was chosen for its policy, under a name of its own, and the report is   *)
(* of what was confirmed (applyMode, buildPolicies, LibraryWizard).        *)
THEOREM LibraryAlwaysSound == Spec => []LibraryIsSound
<1>1. IInv => LibraryIsSound
  BY LibraryHolds, PagesAssumption DEF IInv, LibraryIsSound
<1> QED
  BY InitIInv, NextIInv, <1>1, PTL DEF Spec

(* What a page has is of the kind it should be: whatever is clicked, and   *)
(* however late the answers are, the page visited keeps to its types, its  *)
(* requests and saves to their bounds, and a selection has each id once    *)
(* (the pages' state, usePoll, LibraryWizard).                             *)
THEOREM TypeCorrect == Spec => []TypeOK
<1>1. IInv => TypeOK
  BY LibraryHolds, PagesAssumption DEF IInv, TypesInv, LogInv, LogsOK, TypeOK
<1> QED
  BY InitIInv, NextIInv, <1>1, PTL DEF Spec
=============================================================================
