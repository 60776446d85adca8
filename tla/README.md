# Isovalent Control in TLA+

TLA+ models of isovalent-control, the console that shows what Cilium's Hubble
and Tetragon see in a cluster and that edits the policies they enforce: of its
backend (`src/Isovalent-GUI/backend`, Go) and of its frontend
(`src/Isovalent-GUI/frontend`, TypeScript). The models are checked with TLC on
small instances; the safety properties that matter most are proved with TLAPS
for every value of the constants. Paths below that begin with `internal/`,
`server/` or `cmd/` are under the backend, those with `lib/`, `app/` or
`components/` under `frontend/src`, and `docs/` is `src/Isovalent-GUI/docs`.

1. [The system](#1-the-system)
2. [Modules](#2-modules)
3. [Runs](#3-runs)
4. [Bounds, symmetry and fairness](#4-bounds-symmetry-and-fairness)
5. [Proofs](#5-proofs)
6. [What the code does that its documents do not say](#6-what-the-code-does-that-its-documents-do-not-say)
7. [Not modelled](#7-not-modelled)

## 1. The system

A backend of one Go process, whose state, but for the Postgres tables, the
cluster and the GitHub repository, lives in its memory; and browsers, where
every page of the console has the state of its React components and loses it
when it is left.

```
 Hubble Relay --- hubble.LiveSource --\                       /-- stream.Hub -- browsers
 Tetragon ------- tetragon.LiveSource --- Aggregator.Run ----+--- history store
                     (channel, 256)      (one goroutine)      \-- alerts.Router -- sinks
                                              |
                                         hits.Tracker
 browsers -- HTTP handlers --+-- guard, SetTracingAction, ApplyExclusions (pure)
   (one goroutine each)      +-- k8s.LiveStore -- API server -- kubectl
                             +-- gitops.Client -- GitHub
                             +-- audit.Log -- ic_audit (Postgres)
```

| Component | State | Operations | What is hard | What makes it correct |
|---|---|---|---|---|
| audit log `internal/audit` | ring of entries, id counter; table `ic_audit` | `Record`, `SaveAudit` in a goroutine per entry, `Query` | time stamped before the lock; saves in any order, failing, dying with the process; a query reads the ring and then the table, and filters after both were cut | the ring is the tail of what was issued; ids name one entry; a row is an entry and stands; a query leaves out what newer entries displace, and else only in ways that are known |
| policy handlers `internal/server` | none but the request's own; the policy is in the cluster | `applyPolicy`, `deletePolicy`, `setTracingAction`, `applyExclusions`, `postAIApply`, `applyViaPR` | read, change and apply in three calls with no lock; kubectl; lost replies; exit in between | protected namespaces stay out of reach, changes are recorded truthfully, refusals change nothing, exclusions merge, the exemption stays |
| guard, tracing edits, exclusions `internal/guard`, `internal/k8s` | none | `CheckManifest`, `Exempt`, `SetTracingAction`, `ApplyExclusions` | long legal sequences of them on the same manifest; an edit that reaches only some selectors | what is excluded goes quiet and nothing else does; monitor kills nothing, enforce what fires; the console's pods stay out |
| explanations, tracing dry run `internal/k8s/explain.go`, `internal/policy` | none | `ExplainTracingMatch`, `SimulateTracing` | a second reading of the semantics Tetragon has | they agree with what the policy does |
| kubernetes store, gitops `internal/k8s`, `internal/gitops` | none | `Get`, `Apply` (force=true), `Delete`, `OpenPR` | calls that fail after they took effect | every outcome of a call is handled |
| alert router `internal/alerts` | route table, last time of each key, counters | `SetRoutes`, `Dispatch`, `deliver` | alerts in no order of time; a goroutine per delivery; the table changes meanwhile; sinks that hang | repeats are dropped, nothing is silenced for good, the counters add up |
| aggregator `internal/server/aggregator.go` | rings, buckets, service map, last time of each alert key | `Run`, `ingestFlow`, `ingestEvent`, `publishAlert` | it is the one consumer of both channels | it keeps up, it ends |
| live sources `internal/hubble`, `internal/tetragon` | channel, wait | `Flows` / `Events`, `stream` | interruptions, a full channel, cancellation at any point | they come back, drop and never wait, close once |
| stream hub `internal/stream` | subscribers and their buffers, per topic | `Publish`, `add`, `remove`, `ServeWS` | clients that stall or leave; a publisher under the hub's lock | order kept, nobody waits for a client, dead clients go |
| hit tracker `internal/hits` | counters and samples per policy, dimension and value | `Record`, `Reset`, `Summaries`, `Detail` | eviction in a full dimension; events on their way while the counters are cleared; keys by namespace | counts are never too high, and too low only after an eviction; what was excluded goes quiet |
| observed catalogue `server/observed.go` | values per dimension | `record`, `evictOldest` | eviction by event time | recently seen values are kept |
| log buffer `internal/logbuf` | ring of lines, subscribers | `Append`, `Query` | publishes past its lock | stream and ring agree |
| history store `internal/store` | ring per kind, or tables | `Save`, `Query` | bounded, event times out of order | the window is answered from what is kept |
| api keys `internal/apikeys` | tokens by hash | `Create`, `Revoke`, `Lookup` | expiry, use after revocation, restart | revoked and expired tokens stay refused |
| OIDC verifier `internal/auth`, version probe `server/versions.go` | a cache each | `keyFunc`, `get` | a lock held over remote calls; caching a failure | fresh enough, nobody waits for ever |
| investigations, AI assistant, proxy, configuration | none | reads, one remote call | - | - |
| policy library `lib/policyLibrary.ts`, builder `lib/libraryYaml.ts` | none: 87 policies as they are shipped | `applyMode`, `buildPolicies`, `bundles`, scopes | specs of every shape; names that clash | a mode changes the actions that were meant and no others; objects have a name each |
| library wizard `components/library` | draft, step, the apply in progress | clicks, `apply` | objects are PUT one by one while the draft may be edited; each may fail, or fail after its effect | the report is of what was confirmed |
| exclusions page `app/exclusions`, `components/exclusions` | open policy, ticks, preview, call | `open`, tick, `Preview`, `Apply`, `Reset` | answers that come when another value is ticked, or another policy's sheet is open | Apply sends what was previewed |
| policy composer `components/create` | text, dry runs, busy | type, load, template, scope, `dryRun`, `apply`, `generate` | the text stays editable during every call | what is applied was dry-run |
| integrations page `app/alerts`, shell `components/AppShell.tsx` | list of routes, dirty | edit, save; a fetch per configuration object | the fetch is repeated under unsaved edits; saves overtake each other | it settles on what the backend has |
| investigation page `app/investigate`, `lib/usePoll.ts` | filters, the answer, the record's sheet | toggle, poll, open, `explain` | answers that arrive after the path changed or the sheet was closed | the page shows what its filters say |
| browser log, diagnostics `lib/api.ts`, `lib/useStream.ts`, `app/diagnostics` | queue, socket, list of lines | `push`, `flush`, reconnect, pause | batches posted and forgotten; a socket lost at any point; publishes past the buffer's lock | each line once, in order; live again by itself |

The hazards of each, with the line at which it bites and the property that
would catch it, are listed under `hazards` in `PROJECT.json`.

How they interact. The aggregator's goroutine calls the hub, the store, the hit
tracker and the router synchronously; only the router's deliveries leave it.
Handlers run concurrently with it and with each other; they share the audit
log, the router's table, the tracker and the policies in the cluster. The two
streams end in the browser; the console's writes end in the API server, in a
pull request, and always (that is the claim) in the audit log. A page talks to
the backend alone: by polling (`usePoll`), over a socket (`useStream`), and by
single calls whose answers come back to whatever the page is by then. The
browser's own log lines go to the backend's log buffer and come back to the
Diagnostics page over the hub.

## 2. Modules

| Module | Models | Extends / instantiates |
|---|---|---|
| `Rings` | the append-and-trim slices that five components share | |
| `AuditLog` | `audit.Log`, its Postgres sink and the restart | `Rings`, `AuditTrail` |
| `AuditTrail` | abstract: a trail that only grows, ids that name one entry, a durable part | |
| `PolicyChange` | the handlers that change a policy, on one policy | `AuditedPolicy` |
| `AuditedPolicy` | abstract: requests that take effect in one step and end with a true record | |
| `TracingManifest` | what the pure functions do to a manifest and read off it; what Tetragon makes of it (external) | |
| `PolicyEdits` | one policy's manifest through any sequence of edits | `TracingManifest` |
| `HitTracker` | `hits.Tracker`: counters, eviction, samples | `Rings` |
| `Tuning` | a policy that fires, is counted, excluded from and cleared | `PolicyEdits`, `HitTracker` |
| `AlertRouter` | `publishAlert` and `alerts.Router` | `AlertNotices` |
| `AlertNotices` | abstract: alerts let through a window apart, each due once to the routes of that moment | |
| `LiveSource` | `Flows` / `Events` and `stream` | |
| `StreamHub` | `stream.Hub` for one topic | |
| `Pipeline` | source, aggregator and hub together | instantiates `LiveSource`, `StreamHub`, `LiveFeed` |
| `LiveFeed` | abstract: what happened, shown in order on connections that open and close | |
| `PolicyLibrary` | the 87 policies of `lib/policyLibrary.ts`, as the builder reads them | |
| `LibraryYaml` | what a selection of them becomes | |
| `LibraryWizard` | the wizard over it | `LibraryYaml` |
| `Poll` | `usePoll`: its steps, for a page to take | |
| `HitPage` | the exclusions page and its sheet | instantiates `Poll` |
| `Composer` | the Create page | |
| `AlertEditor` | the integrations page and the shell's configuration | |
| `Investigate` | the investigation page and the record's sheet | instantiates `Poll` |
| `Diagnostics` | `Logger`, the log buffer, `useStream` and the Diagnostics page | `Rings` |
| `Console` | a visit to one of the pages | instantiates the six pages |
| `MCAuditLog`, `MCPolicyChange`, `MCTuning`, `MCAlertRouter`, `MCConsole` | the instances TLC checks | |
| `AuditLogProofs`, `PolicyChangeProofs`, `TuningProofs`, `AlertRouterProofs`, `PipelineProofs`, `LibraryProofs`, `ConsoleProofs` | the theorems | |
| `SequenceFacts` | what they need of the sequence operators and rings | `Rings` |

A definition whose comment names another one in parentheses ("`RingID`: the id
read off the ring's length") stands beside its plausible mistakes: the
alternatives are not part of the specification, they show that the properties
can tell them apart (`mutants` in `PROJECT.json`).

**AuditLog.** `Record` is two actions, since the code stamps the time before it
takes the lock: `Stamp`, then `Commit` under the lock (id, ring, trim, goroutine).
`SaveDone` and `SaveFailed` are the goroutine; a failure may have inserted the
row (the timeout may hit the reply). `Insert` is the `ON CONFLICT DO NOTHING`.
`Query` is `QueryStart` (copies the ring), `QueryAnswer` (asks the table,
merges, filters, sorts, cuts), `QueryEnd`. The table gives the newest rows of the
window (`Rows`), as many as `RowLimit` makes of `Widen` times the limit; window,
text and limit are then applied to both stores together (`Select`), so the text
is looked for only in the rows the table gave. `Restart`
empties the memory and sets the ids back to 1, with or without the table this
time. An entry is its id and its time; a time is one tick per call of `Record`
and so also names the change, and `Matching` says which changes a client's text
is found in.

**PolicyChange.** Every request has its own program counter. `Arrive` is a
handler up to its first call; `GetForRecord`, `GetToDisable` and `GetToChange`
are the read and what each handler computes and checks after it; `APIApply`,
`APIDelete` and `OpenPR` the call that changes something, each with success,
failure, and failure after the effect; `WriteRecord` is `Server.record`.
`HandEdit` is kubectl, `Exit` the end of the process. A manifest is four
things: whether its hooks have selectors and actions, and which (`mode`), what
it excludes, whether it leaves the console's own pods out (`exempt`), and
whether it names a protected namespace (`protected`). These are all the
handlers tell apart. `Rejected`, `Exempt`, `SetTracingAction` and
`ApplyExclusions` say what the four pure functions do to them. What applies is
external and chosen at the start (`serverSide`): the repository's own test double
(`internal/k8stest`), which replaces the policy, or an API server, to which
`LiveStore.Apply` sends a server-side apply with `force=true`. That is a merge.
Fields the manifest has are taken over whoever wrote them; fields it leaves out
stay if kubectl owns them, which `theirs` keeps apart from the rest of the policy:
groups of hooks (`mode` and `excl`), and labels that name a namespace. A field may
be in a submitted manifest or not, so `Kept` has every part that may survive and
`Merge` adds it. A manifest that was read has all of the fields, so nothing is
added to it, and carries its resource version, so a stale one is refused; that it
also carries `managedFields`, for which an API server may refuse all of them, is
one of the failures of `APIApply`. The clause of the exemption is an entry of a
list that every manifest applied here has, and a list is replaced as a whole.

**TracingManifest, PolicyEdits.** The other view of the same edits: the manifest
in full, the handlers in one step each. Every filter of a manifest is a clause,
which looks at one thing (a binary, the parent, an argument, the container, a
label) with an operator and a set of values; a selector is a sequence of
clauses and a set of actions, a hook a sequence of selectors. The functions
keep the code's names. `Merge` stands for the two merges (`mergeNotIn`,
`mergeBinaryFilter`), which differ in the JSON they write, and for the part of
`applyPathFilter` that is alike; `TakesPaths` is the refusal. Values are names,
with `Below` for the paths under a path. `Fires` and `Kills` are Tetragon's, as
`exclusions.go`, `explain.go` and `docs/exclusions.md` describe it: selectors are
alternatives tried in order, their clauses a conjunction, `NotIn` none of the
values. `PolicyEdits` has the policy and, as history, what its author left, what
was excluded since and the mode it was last put in: `HandEdit` and `Author`
(with `Exempt`) start afresh, `Exclude` and `PutInMode` are the two edits. The
requests of an AI suggestion are the same two.

**HitTracker, Tuning.** A dimension's bucket maps values to counters; a full one
forgets its quietest value, and of several the one the map's iteration comes
to first, so `record` yields a set of buckets. `Tuning` is the loop that the
exclusions page was built for: `Happen` (the policy fires), `Dropped`, `Ingest`
(the aggregator counts), `Approve` and, as a step of its own, `Clear`, since
`applyExclusions` applies in one call and clears in the next; `ApproveOnly` is
the same change where nothing is cleared (`postAIApply`, or an apply that took
effect and failed); `resetHits` clears alone. An event on its way while the
counters are cleared is marked late. Events are counted under `name` and
cleared under `name` or `namespace/name`. Every behaviour of it is one of
`PolicyEdits` with events going by.

**AlertRouter.** `PublishAlert`, `Dispatch` (the locked part) and `Spawn` (the
loop over the copy of the table) are the aggregator's goroutine, one alert in
hand at a time; `Deliver` and `Fail` are the goroutine of one delivery;
`SetRoutes` is the admin's. The times of alerts are those of the events, and
so come in any order. `Matches` is `Route.matches` with all four conditions.

**LiveSource, StreamHub, Pipeline.** The source's loop is `Open`, `Recv`,
`Interrupted`, `Waited`; `RecvCancelled` and `WaitCancelled` are the branches of
its two selects that see the context; `Unseen` are events of the agent with no
stream open. A hub client goes through `Upgrade`, `Add`, writes and pings that
succeed or fail, `Remove`; `Hangup` is its reader closing the connection.
`Pipeline` joins them through `Ingest` (the aggregator takes from the channel
and publishes, in one step, because nothing else of the aggregator is visible
in between), `SeesClosed` and `Stop`. One channel of the two is followed; the
other adds events of its own kind to the same loop, and they go to another
topic of the hub.

**PolicyLibrary, LibraryYaml, LibraryWizard.** `PolicyLibrary` is a table: one
definition per policy, with its name, section, provenance, kind, whether its
author meant it to enforce, and the actions of every selector of every hook.
`LibraryYaml` works on any such table (`Shipped`, `ShippedById`,
`NamesInOrder`, which is the order `localeCompare` gives the names): `applyMode`
walks a spec and retargets its actions, `buildPolicies` makes the objects of a
draft, with the suffix that keeps names apart, and `toDocuments` the files.
The wizard's actions are its clicks (a policy, its mode, a section at once, a
bundle, a namespace, forward and back) and `apply`, whose PUTs are `Puts`: one
at a time, each with success, failure, and failure after the effect.

**Poll, HitPage, Investigate.** `Poll` has what `usePoll` does as steps without
a specification: ask, answer (of any request on its way, hence overtaking),
fail, tick of the interval. The pages say when the path changes. `HitPage` has
the calls of the sheet that is open (`call`) and of those that were closed
(`orphans`): their continuations run in the page all the same, with the
callbacks of the page they were made from. `Investigate` adds the record's
sheet, which is hidden and not unmounted when it is closed.

**Composer, AlertEditor.** A text is its kind, name and namespace, which is what
decides between the two dry runs, what the picker may rewrite and whether Apply
is on. `AlertEditor` has the shell's `setConfig`, which every minute hands down
a new object and with it sends the page to fetch the routes again; fetches and
saves are sequences of what is on its way, answered in any order.

**Diagnostics.** One line's way from `logger.info` in a browser to the list on
the Diagnostics page of another: `push`, `flush` by the timer or by the page's
unload, `PostEnds` (arrives or is lost), `AppendGoesOn` (the goroutine of
`postClientLog` or of a backend line: append under the lock, publish after it),
`onmessage`, and the socket with its waits. A DEBUG line is never queued.

**Console.** The pages share no state but the shell's, so a behaviour is a visit
to one page, with that page's fairness; one specification then carries the
properties of all of them.

## 3. Runs

| Run | Distinct states | Question |
|---|---|---|
| `AuditLog` | 529,875 | do ring, ids, table and answers stay consistent over two process lives, is the first the abstract trail, and does every entry settle? |
| `AuditRestart` | violation | is a saved entry kept over a restart? |
| `PolicyChange` | 1,439,496 | do the guards, the records and the merges hold under races, failures, kubectl and exits? |
| `PolicyDryRun` | violation | does a dry run of an AI suggestion change nothing? |
| `Exclusions` | 60,135 | over any sequence of edits, does the policy fire on and kill what it should, and are its counters what it fired on? |
| `TracingDryRun` | violation | does the dry run see what was excluded? |
| `Subtree` | violation | does all that descends from an excluded parent go quiet? |
| `Explained` | violation | did the selectors that are reported fire? |
| `AlertRouter` | 529,645 | do the windows drop repeats and nothing else, and do deliveries end? |
| `Pipeline` | 210,400 | does what clients see stay in order while nothing waits, and does it all wind down? |
| `Console` | 72,072 | does every page show what it says, whatever is late, lost or overtaken, and can it always be used again? |
| `ComposerDryRun` | violation | was everything that the Create page applies dry-run? |

**AuditLog.** `RingHoldsNewest`: the ring is the newest `Cap` entries in id
order. `TableHolds`: every row is an entry that was issued, an id has one row,
and until the first restart a save that returned no error is a row. The deepest
is `AnswerMissesNothing`: a query copies the ring, unlocks, and then asks the
table, while entries are stamped in one order and get ids in another; for all
that, an entry of the window and the text that was in the ring when the query
began is in the answer or is displaced by enough newer ones. A row of the table
may be missed besides, and the property names the two ways, which are the code's
own (section 6): `Hidden`, behind an entry of the ring that has its id, and
`Beyond`, past the newest rows that the table gave, where these were too few
because of the text, of the ids, or of the cap on rows. There is no third way.
`ImplementsTrail` is a refinement: under `trail <- issued`, `kept <- durable`,
every step up to the first restart adds an entry with a new id, keeps one that
was added, or stutters; a restart breaks it, which is the finding of
`AuditRestart`. `EveryEntrySettles` needs the fairness below.

**PolicyChange.** `ProtectedOnlyByHand`: no handler makes the policy name a
protected namespace, though the manifest is computed from a read that is old by
the time of the apply. The guard looks at the manifest and the server merges it,
so the policy a handler's write leaves may name one all the same: exactly when
kubectl had made it do so, still owns that part, and a submitted manifest was
merged into it (section 6). `WritesAreRecorded`: a finished
handler that changed the policy has a record, with lost replies too.
`ImplementsAudited` is a refinement: a handler is a program counter, a read, a
computed manifest and a reply, and for all that no more than an `AuditedPolicy`,
whose requests arrive, take effect in one step, and end. `APIApply` and
`APIDelete` are its `Change`, also where the reply is lost; `OpenPR` is its
`Propose`; `WriteRecord` its `Record`; `HandEdit` its `Edit`, `Exit` its `Crash`;
reads, checks and calls that fail are stutters, or `Close` where the handler
answers at once. So a request changes the policy once at most, only if its
caller may and it does not just look, never to a policy that names a protected
namespace unless the one it was merged into did, never
after its end, and a record of success is of the policy that request left in
place: the handlers record what the apply returned, which is the merged policy,
and not what they sent (`RecordsAreTrue`, which the refinement implies). An error leaves open whether
there was a change, and a proposal may be recorded as a success without a pull
request: both are in the abstraction because they are in the code.
`RefusedChangesNothing`: callers without the role, previews (other than the one
of `PolicyDryRun`), and callers told no. `MergedIntoLive`: an exclusion is added
to what was there when it was put in place, provided the API server compares
versions; without that the code loses updates, and the property says so by its
hypothesis. `ExemptUnlessByHand`: no chain of console changes loses the
exemption.

**Exclusions.** `ExcludedIsSilent` and `NothingElseIsSilenced` are the two halves
of what an exclusion is: every event it names is quiet from then on, through
later exclusions and changes of mode, and any event the author's manifest fires
on and the present one does not was named by some exclusion. Named are, of an
excluded parent, its direct children: that is what the code writes, and it is
less than the documents say, which is the run `Subtree`. The first has one
hypothesis, `whole`: no selector of the hook refused the paths (the code says
that some did, and notes the exclusion as applied). The second has one
exception, `Follows`: a name merged into the author's own clause with
`followChildren` silences its descendants too. `SameTwiceIsNoOp` is the
documented idempotence. `ModesHold` relates the mode to what Tetragon does:
monitor kills nothing, and enforce kills what it fires on, but at hooks that had
no selectors when the policy was put into enforce mode, which
`SetTracingAction` passes over. `AuthoredIsExempt` says when the console's pods
are safe, and what the one case is in which `Exempt` takes another clause for
its own. `FiringIsExplained`: every event that fires is attributed to its hook and
to a selector, if it carries what the hook's clauses look at and none follows
children, which is beyond the explanation. It is one-sided; the other side is the finding of `Explained`.
The last two are about the counters. `GoesQuiet` is what the page was made for
(`handlers_hits.go:241-244`): once the counters were cleared after an exclusion,
nothing that it names is shown, through whatever edits follow, but events that
were on their way when they were cleared. That exception is real: clearing a
moment after the apply leaves room for them, and a person who sees one may take
the exclusion for broken. `CountsAreTrue`: a counter is what was counted since,
and less than that only in a dimension that has overflowed; the counters
under the other key are always empty.

**AlertRouter.** `ImplementsNotices` is a refinement of `AlertNotices`: letting
an alert through and making it due to the routes of the table is one step
there, though `Dispatch` copies the table under its lock and `Spawn` starts the
deliveries past it, with `SetRoutes` in between (`Pending` is what was not
started yet, so `Spawn` is a stutter). A delivery is due once, to a route that
was in the table when the alert got past the window and wants it, and ends once:
nothing is tried again. Its guard on `LetThrough` is the documented
deduplication, for events in any order of time (`SentAreSpaced`). `EveryAlertIsHeard` bounds what two windows in a row can
swallow: the aggregator suppresses by alerts the router may itself have
suppressed, so the bound is the sum of the windows and not the larger one.
`StatsAddUp` counts deliveries and alerts against the goroutines under way.
`RemovedGetsOneMore`: a route out of the table gets at most the alert whose
`Dispatch` had copied the table. `DeliveriesEnd`: a sink that never answers
holds no goroutine for ever.

**Pipeline.** `ImplementsFeed` is a refinement of `LiveFeed`: what the agent sends
is what happens (`Recv`, `Unseen`), a message written is what is shown
(`WriteOK`), a connection opens with `Upgrade` and closes with `Remove` or
`Hangup`; channel, buffers, subscriptions, waits and drops are not there. So over
drops at the channel and at the buffers, and over streams interrupted and opened
again, what a client was written ascends without repeats (`SeenInOrder`) and is
what has happened, and nothing is written once its connection is closed.
`NothingHoldsTheAgent`: whenever an event is there, receiving
it is enabled, and so is taking it from the channel, whatever the clients do.
`DeadClientsLeave`, `SourceComesBack` and `WindsDown` are liveness: a closed
connection does not stay subscribed, an interrupted source tries again, and on
a signal the source closes its channel and the aggregator returns.

**Console.** `PagesAgree` is what stands beside what: a preview with the policy
and values that Apply would send, a dry run with the text, an explanation with
its record, notes with an exclusion that was made, a kind with the namespace
that is picked for it. The first three hold only of what did not change since it
was asked for, because no page looks at that when an answer comes, and shows a
late one all the same (section 6). So what was overtaken is kept as history, for
each cause: the values or the policy of a preview on its way (`overtaken`) and of
the one on the sheet (`crossed`), the text behind a dry run (`drifted`), the sheet
behind an explanation on its way (`abandoned`) and shown (`strayed`). A mark is set
only while its answer is on its way or shown, and the next one starts without it,
so the property says that there is no other way to a disagreement, and that the next answer mends
it. The other parts have no exception: however late an answer is, it does not
reach another sheet of the Exclusions page than its own, and the notes and the
namespaces are right. `LibraryIsSound`: in alert mode nothing enforces, in
block mode nothing only reports, no action is added or lost, no two objects of
a build share kind, namespace and name, and the report is of the objects that
were confirmed, whatever failed and whatever was edited meanwhile.
`LogsAreSound`: a line of the browser is in one place on its way, reaches the
buffer at most once, and only if its level is to be shipped, and lines of one
batch keep their order on the page. `PagesComeBack` and `PagesSettle` are liveness: every wait of a
page ends, whatever fails; the routes and the investigation end up being what
the backend has, although an answer may overwrite a newer one, since each
minute or interval asks again; the stream comes back; and the log that logs
its own posting does not feed itself (`LogGoesQuiet`).

## 4. Bounds, symmetry and fairness

Every bound is a constant named `Max...` or a capacity.

- **AuditLog**: `Cap = 2`, `MaxRecords = 3`, one restart, limits 1 and 2,
  `Widen = 2`, `MaxRows = 3`, `DefaultRows = 1`, windows that begin or end at 2 or
  have no bound, a text that is found in the first change alone. Three records
  overflow a ring of two, or leave one in the ring and two in the table; a limit
  of one asks the table for two rows, so that the third is the match that is
  lost, and a limit of two asks for four, more than `MaxRows`, and gets one. The
  code's numbers are 5000, 2000, 4, 5000 and 500; the proofs cover all of them.
- **PolicyChange**: two requests of 17 kinds, one edit by hand, one exit, two
  exclusion values. Every race here is of two writers, one of which may be
  kubectl; the request that is raced, the one that races it and an edit that
  invalidates both reads fit. The inputs leave out only combinations that
  reach the same code. Requests are symmetric (`Symmetric`), and so is
  every property: the one that is temporal, `ImplementsAudited`, asks something
  of single steps only.
- **PolicyEdits, Tuning** (`Exclusions.cfg`): two scopes. In the first nothing is
  counted: five edits of two manifests, with seven requests that cover
  the dimensions (paths with and without an index), and the steps of processes
  that differ in hook, binary, parent, file and pod. The manifests have what
  the code branches on: two hooks, one of them bare; selectors with and without
  actions; clauses to merge into, to leave alone and to be refused by; an
  action that `DetectAction` does not know; a clause on the console's label
  that names other pods. An author, two exclusions, and the mode there and back
  are five edits. In the second one policy fires three times, on two events
  that differ in every dimension, and is changed twice, with one request that
  names two containers; a dimension keeps two values and a policy two samples,
  so that the third event meets a full sample list and the labels a full
  bucket.
- **AlertRouter**: three alerts at times 0 to 4, windows 1 and 3, two changes of
  the table, four routes (any, by namespace, by kind and severity, disabled), of
  which one sink never answers. Three alerts are what a chain needs: one that
  is sent, one that the router suppresses and that marks the aggregator's
  memory, one that the aggregator then suppresses.
- **Pipeline**: three events, channel and buffer of one, two clients, the wait
  doubles from 1 up to 2. Capacities of one make both kinds of drop happen with
  two events; the third is the one that must come after the gap.
- **Console**: one page per behaviour. Library: three policies that are clicked
  one by one, two sections and two bundles, which bring in many at once and
  policies that share a name; one namespace, three clicks, drafts of up to four
  objects applied, one failure. Exclusions: two policies, one value (ticked or
  not), two calls: the one that is overtaken and the one that overtakes.
  Create: one template, one typed text, one manifest of the cluster, one
  namespace, three calls. Integrations: one route, two edits, two fetches and
  two saves at a time, one loss. Investigation: one filter, two records, two
  requests in flight, one change at the backend, one error. Diagnostics: two
  browser lines and one of the backend, a browser ring of one, buffer, wire and
  page of two, one loss of the socket. Every late answer needs two requests and
  something that changes between them; what happens to one entry of a list
  does not depend on the others.

Deadlock is checked in the audit runs, where a query can always be made.
The other runs set `CHECK_DEADLOCK FALSE`: a finite number of requests,
alerts, events, clicks or calls ends, and the model then rightly stops.

Fairness, each as weak as the code allows:

- `AuditLog!Fairness`: a `Record` call that was started gets the mutex (Go's
  mutexes do not starve), and a save ends, well or not, by its 5s timeout
  (`audit.go:86-92`). Nothing is assumed of new calls, queries or restarts.
- `AlertRouter!Fairness`: while deliveries run, one is given up in the end: the
  HTTP client's 8s, the 5s of the syslog dial and write. Nothing is assumed of
  sinks; that they accept is never needed.
- `LiveSource!Fairness`: a gRPC call returns once its context is cancelled, and
  the timer of the wait fires. Not assumed: that streams break, or that the
  agent has events.
- `StreamHub!HubFairness`: handlers run; a write ends by its 10s deadline; the
  30s ping fails on a connection that was closed. Not assumed: that clients read
  or leave.
- `Pipeline`: the aggregator's goroutine takes what is in its channel, and sees
  the context in the end. Its select chooses at random between the channel and
  the context when both are ready, so the second is not a consequence of the
  first, but it is ready for ever and each turn chooses it with probability one
  half.
- `Console!Fairness`, for the page that is visited: a browser's request is
  answered or fails (`Puts`, `CallEnds`, `DetailLands`, `FetchEnds`, `SaveEnds`,
  `Lands`, `ExplainEnds`, `PostEnds`); its timers fire (`LoadConfig` each minute,
  `Ticks`, `TimerFires`, `connect`); a socket that is being opened opens or
  fails; its messages are delivered; the backend's goroutines run
  (`AppendGoesOn`). Not assumed: clicks, successes, losses, an order of answers,
  or that closed sheets hear of theirs.

## 5. Proofs

All proofs are checked by TLAPS from nothing, for all values of the constants
under the named assumptions of the modules (`CapAssumption`,
`WindowsAssumption`, `InputsAssumption` and so on: the capacities are positive,
the bounds natural, the no-value markers are not values, excluded sets are not
empty, and manifests are ones Tetragon takes: `followChildren` stands only on
clauses over binaries, and every clause lists something). TLC evaluates the same assumptions on every run.

**AuditLogProofs.** `TypeCorrect`, `RingCorrect` (`RingHoldsNewest`, and that no
two entries of a life share an id), `TableCorrect` (`TableHolds`),
`RowsAreWriteOnce`, `AnswersAreComplete` (`AnswerMissesNothing`) and
`FirstLifeImplementsTrail` (`ImplementsTrail`). The properties are not inductive: that rows are issued entries needs that what the goroutines save is
(`SavesAreIssued`), that ids are unique needs that they count the log
(`IDsInOrder`), that they stay in their bound needs that ids given out and calls
still waiting for the lock were all ticks of the clock (`CallsCounted`), and
that no save meets another entry's row needs that everything issued is in this
life's log (`FirstLife`). `PushKeepsTail` is the lemma about the ring: pushing
onto the tail of a history gives the tail of the longer history, whether or not
it trims. The refinement maps `Commit` to `Add`, `SaveDone` and a `SaveFailed`
that inserted to `Keep` (or a stutter when the row is there), and everything
else to a stutter, as long as nothing was restarted.
That answers are complete needs how a cut by time cuts: an entry's place is the
number of newer ones, no two entries share a place (`PlacesDiffer`) since no two
share a time (`TimesAreOwn`), so the newest are as many as asked for or all there
are (`NewestCounts`). An entry that the table cut out has that many newer ones
in the answer of the table, and those are still in what the two are merged to,
or have been cut out by newer ones themselves (`NewestBeats`), unless the table
gave fewer than the limit or the text or the ring took some of them away, which is
`Beyond`; what makes the merge one of issued entries alone is `CopyIsOurs`.

**PolicyChangeProofs.** `TypeCorrect`, `GuardHolds`, `ChangesAreRecorded`,
`RecordsTellTheTruth` (`RecordsAreTrue`), `RefusalsAreHarmless`, `ExclusionsMerge`,
`ExemptionKept` and `HandlersAreAudited` (`ImplementsAudited`), for any number of requests, edits and exits. The invariant says
for each handler what its program counter stands for: before its call it has
changed and told nothing (`NothingYet`); past the checks it may make the change
(`MayGoOn`); what it is about to apply passed the guard, is exempt unless an
edit by hand was not, and merges into what it read, which the guard would have
accepted too (`ReadyToApply`); what it is
about to record is what happened (`ReadyToRecord`). Of the policy, that it names a
protected namespace exactly when the part that is kubectl's does (`LiveInv`): from
the two, what an apply leaves names one only where a submitted manifest kept
kubectl's part (`WhatIsApplied`, and `AppliedIsAllowed` for the refinement). `Frame` and `StepOf` reduce a
step of one handler to that handler and the shared state.
The refinement reads all of it: that a handler changes something once, and only
what it may, is `NothingYet` and `MayGoOn` at its call (`PutIsChange`,
`OpenPRIsAudited`); that its record is one the abstraction allows is
`ReadyToRecord` (`TellsWhatHappened`). It was also what showed `MayGoOn` to be too
weak: nothing said that a caller without the role never gets as far as a record,
or that one who proposes never gets to an apply. `MapStep` moves a step of one handler to
the mapped functions of all of them, and `QuietStep` is every step that is none.

**TuningProofs, edits.** `TypeCorrect`, `ExclusionsHold` (`ExcludedIsSilent`),
`NothingElseGoesQuiet` (`NothingElseIsSilenced`), `ModesAreKept` (`ModesHold`),
`FiringsAreExplained` (`FiringIsExplained`), `ConsoleIsLeftAlone`
(`AuthoredIsExempt`) and `TwiceIsNoOp` (`SameTwiceIsNoOp`), for all manifests,
requests, events and values. `ExclusionsHold` rests on the negative clauses
that an edit leaves behind: `MergeShape` says a merge lists what it was given
and keeps the operator and the subject of every clause, `MergeLists` and
`NarrowLists` that a clause only gains values, so the invariant (each excluded
value is listed, in every selector or for all hooks) survives what comes after.
`TwiceIsNoOp` needs more than that a second merge adds nothing: that the second
request finds the same selectors willing to take its paths (`NarrowTwice`), for
which the first clause on an argument must not move. `ModesAreKept` has an
invariant per mode: after monitor every action there is reports (`OnlyPosts`),
after enforce every hook that had selectors has only killing ones (`AllKill`);
exclusions add clauses and no actions, and `FirstSelects` says that the selector
that decides is one of them.
`NothingElseGoesQuiet` is the other direction: a clause after an exclusion is
one from before, the new one, or one that has grown by the excluded values
(`MergeClauses`), and only the last may follow children, which only an author's
clause can (`FollowsAuthored`). So an event that the exclusion does not name and
that no such clause of the author's reaches keeps firing through it
(`UnnamedStillFires`), and through a change of mode, which looks at actions alone.
`FiringsAreExplained` rests on a single comparison: a clause that follows nothing
and holds of an event that carries what it looks at is one `OpMatches` finds
(`HoldingMatches`).

**TuningProofs, tuning.** `TuningTypeCorrect`, `TuningKeepsPolicies` and `PoliciesGoQuiet`
(`GoesQuiet`). The second is a step simulation, `TuningSpec => Spec` of
`PolicyEdits`: so the theorems above hold of a policy that is being tuned.
The third needs more than what is shown, namely what is on its way: no excluded
event that is not late is in the samples or in flight (`Quiet`). An event in
flight when an exclusion is approved breaks it, the clearing restores it, and
from then on `ExclusionsHold` keeps the policy from firing on it again.
`CountersAreTrue` (`CountsAreTrue`) compares each bucket with a tally that never
forgets (`Tally`, which says of every event and dimension what came, with no
order of coming in it). A value recorded in a bucket and counted in the tally
leaves the one true of the other (`RecordTrue`): the exact case survives since a
bucket that evicts is one whose tally has no room either. Over the values of an
event this is an induction on the recursion of `RecordEach` (`RecordEachTrue`);
and whichever of its `Orders` they came in, labels permuted, arguments permuted
and each followed by its directory, they are what `Came` says, as often as it
says (`OrdersList`, `FlattenTimes`), so that the tally grows by just them
(`TallyGrows`). It needs `EventAssumption`: finitely many labels and arguments,
and of two paths at most one under the other.

**AlertRouterProofs.** `TypeCorrect`, `Deduplicates` (`SentAreSpaced`),
`NothingIsSilenced` (`EveryAlertIsHeard`), for any windows, subjects, routes and
order of times; `CountersAddUp` (`StatsAddUp`), `RemovedRoutesGoQuiet`
(`RemovedGetsOneMore`) and `RouterIsNotices` (`ImplementsNotices`). For the first two the invariant says what the memories are (`Remembered`): each
time in `lastAlert` is that of an alert published, each in `lastSent` that of
the newest one sent; and that a published alert no longer in hand has one that
was sent less than the router's window before it (`Answered`). The sum of the
windows is where the two meet.
That the counters add up is a matter of cardinalities: what a `Spawn` starts was
not running before, since an alert has deliveries only once it left the
aggregator's hand (`Counted`), and one that ends leaves the running ones by one.
A removed route has been sent nothing more while it is still in the copy of the
table that `Dispatch` goes through, and one more at most when it no longer is
(`OneMoreAtMost`).
The refinement needs of the counting that what a `Spawn` starts was not started
before, so that nothing which ended is running again, and of the memories that
an alert let through is a window apart from all that were, which asks for numbers
that no two alerts share (`Numbered`).

**PipelineProofs.** `TypeCorrect`, `ClientsSeeInOrder` (`SeenInOrder`) and
`PipelineIsFeed` (`ImplementsFeed`), for any
number of clients and events and any capacities. The invariant follows an
event's way from its end: what a client got precedes what is in its buffer,
that what is in the channel, and that what the agent has yet to send; each is
in order by itself (`WayInOrder`, `ChannelInOrder`). Drops only take out,
`AppendInOrder` and `TailInOrder` do the rest.
The refinement goes through the parts: a step of the source is `Happen` or
nothing (`SourceIsFeed`), one of a handler of the hub `Connect`, `Show`,
`Disconnect` or nothing (`HubIsFeed`, for which `ConnStep` follows the connection),
and what the aggregator does no client can see.

**ConsoleProofs.** `PagesAlwaysAgree` (`PagesAgree`), for any policies, values,
texts, namespaces, records and bounds. Three invariants, one per page: what the
sheet shows and waits for is of a policy that is open, and a preview on its way
is of the ticks and of the policy now, except for what changed since it was asked
for (`SheetInv`, `AskedIsOfPage`); a dry run on its way is of the text unless it
drifted, and a kind that is cluster-wide has no namespace to pick (`ComposerInv`);
an explanation on its way is of the open record unless the sheet was closed since
(`RecordInv`). `UntouchedPages`
frames the other pages. `TypeCorrect` (`TypeOK`) adds the types of every page to
them (`TypesInv`): they keep themselves, but for the filters of the Investigation
page, which must not be the absence of a path, and the wizard's draft.

`LogsAlwaysSound` (`LogsAreSound`), for any numbers of lines, batches, requests and
losses and any capacities. That a line gets to the buffer once needs that it is in
one place on its way there (`OnceInv`: the queue, the requests, the goroutines of
the backend and the buffer share no line and none repeats one). That the page
keeps the order of a batch is an invariant about the whole way (`BatchInv`): the
queue and each batch ascend (`QueueInv`); one goroutine at most has what is left of
a batch, and that is later than all that was published of it (`WorkInv`); what is
on the wire is in order and later than what the page shows (`PageInv`). The lists
are taken from the middle, cut at their capacity and flattened, which is what
`SequenceFacts` is for.

**SequenceFacts.** What flattening, removing, pushing and cutting do to what is in a
sequence, how often, and to whether it repeats. `FlattenSeq` is recursive; that it chooses
something at all is `StepsFrom`, and what it yields (`FlattenRange`) is shown by
induction on sets of numbers and of sequences (`NatSet`, `SeqSet`), which follows
from the theorem on minimal elements (`WFMin`) and needs no predicate as a
parameter.

**LibraryProofs.** `ModeKeepsActions` and `ModeIsWhatWasAsked`, for every spec, of
the 87 or not: a mode changes each action in place, and neither mode adds one,
loses one, or leaves one that it is to replace. The rest is what
`LibraryAlwaysSound` (`LibraryIsSound`, in `ConsoleProofs`) rests on, for any
library, bundles, namespaces and bounds under `LibraryAssumption` and
`WizardAssumption`: ids once, names sorted without repeats, specs that are maps of
lists, bundles that are selections from the library, and no policy whose name is
another's with a number, which is what keeps `name-2` from clashing (TLC finds all of
that true of the library and the bundles as they are shipped). Filtering keeps a list free of repeats
(`KeepIs`), and so does sorting by the parts of one name after another (`SortedIs`):
so the n-th of a name is the n-th only once, and the names differ (`NamesDiffer`).
Nothing is in two objects of a build or in two documents (`BuildIs`, `DocsAre`), so
what is applied has no two objects of one name (`ApplyableIs`), each is its policy's
in the chosen mode (`ModesHold`). The wizard's own invariant (`LibraryInv`) says that
every edit leaves a selection (`SetKeysIs`, `DeleteKeysIs`), and that what an apply has left is
the end of what was confirmed and its answers are to the beginning (`ReportInv`), of
which a report is the last case.

Model-checked only: the liveness properties and `NothingHoldsTheAgent`, which is
stated with `ENABLED`; both are out of the prover's reach. The four refinements
are of the safety of their abstractions, which state no fairness.

## 6. What the code does that its documents do not say

Shown by a run (`findings` in `PROJECT.json`):

- **AuditRestart**: ids start at 1 in every process, the table keeps the first
  row of an id, so after a restart new entries are dropped without an error
  until the ids pass the old ones. `docs/deployment.md:159` promises that the
  audit log survives a restart.
- **PolicyDryRun**: `postAIApply` deletes the policy of a suggestion to disable
  it before it looks at `dryRun`.
- **TracingDryRun**: the dry run counts every event of a hook the policy has.
  What its selectors and exclusions leave out is counted, and in an enforcing
  policy counted as killed, against `docs/exclusions.md:70`; so is every
  process that started or ended, since an event without a hook matches all.
- **Subtree**: an excluded parent is written with `followChildren: false`
  (`exclusions.go:220`), so what it starts goes quiet and what these start in turn
  goes on firing. `exclusions.go:18` says it "Exempts a whole subtree",
  `docs/exclusions.md:29` "everything a known-good launcher spawns"
  (`openapi.yaml:625`, `libraryYaml.ts:27` and `PolicyHitDetail.tsx:44` say the
  like); the comment on the clause itself says the opposite. `ExcludedIsSilent`
  and `NothingElseIsSilenced` hold of what the code writes.
- **Explained**: a `NotIn` or `NotPrefix` with two values is met by every event, as
  `opMatches` looks for one value that differs; a selector that excluded the
  event is then reported as its cause.
- **ComposerDryRun**: `generate` replaces the text and leaves the dry run of the
  one before; a dry run answered after an edit lands beside the new text. Apply
  asks only that there is one (`PolicyComposer.tsx:380`), against its own
  comment at line 56 and the title of the button.

Seen while modelling, without a run.

*Backend, audit.* `Query` asks the table for four times its limit and looks for
the text only in what comes back (`audit.go:109`, `audit.go:123`), so a match
older than the newest `4 * limit` rows of the window is not found, where
`audit.go:96-97` speaks of the entries in the window, filtered; a limit of 1251
to 2000 asks for more than 5000 rows and gets 500 (`postgres.go:119-121`). After
a restart a row whose id the ring has again is hidden, also when the ring's entry
is outside the window. `AnswerMissesNothing` has these as `Beyond` and `Hidden`.

*Backend, policies.* Only `applyPolicy` calls `guard.Exempt`; `setTracingAction`
and `postAIApply` put a cluster-wide policy made by hand into enforce mode
without the exemption that `docs/architecture.md:113` says every policy gets
(`ExemptUnlessByHand` is worded around it). `main` returns as soon as
`Shutdown` is called and does not wait for it, so a handler between its change
and its record is cut off (`PolicyChange` has the action `Exit` for it, and
`WritesAreRecorded` speaks of handlers that end). The index of a
request's paths is used on every hook, also where that argument is not a path
(`exclusions.go:108`, against `docs/exclusions.md:30`); `kprobeArgList`
(`tetragon/live.go:146-165`) skips arguments of types it does not know, so the
ones after them move up and an index taken from an event may name another
argument of the hook. `DetectAction` does not know the `NotifyEnforcer` of the
policy library, so such a policy shows as monitor; a change of mode rewrites
every action, those that neither report nor kill included. A success is recorded
for a proposed change though no pull request was opened
(`handlers_phase2.go:106-108`, `handlers_hits.go:231-233`); callers without the
role, exclusions the guard refused, manifests that cannot be changed, applied
manifests that became pull requests and changes of the alert routes leave no
record, against `docs/api.md:157-160`; a record's before is read ahead of the
change and may not be what was replaced. An apply of a submitted manifest is a
server-side apply with `force=true` (`store.go:122-132`), so a protected namespace that
kubectl wrote in a field the manifest leaves out is still there afterwards, in a
policy the guard never saw whole, against `openapi.yaml:31` ("Policies authored
through this API can never select a protected namespace"); `ProtectedOnlyByHand`
says that this is the only way. The test double, against which the handlers are
tested, replaces instead. Manifests that were read go back with their
`managedFields`, which nothing strips and an API server does not accept in a
server-side apply: where it refuses them, changing the action, excluding and the
AI edits fail on every policy, and no test against the double shows it.

*Backend, counters.* Those of a namespaced policy are never cleared, because
events carry no policy namespace (`tetragon/types.go:29` says they do), against
`docs/exclusions.md:65`; exclusions through `postAIApply` clear none; an event
with two paths in one directory counts that directory twice; `Record` takes
`SIGNAL` for enforcement and `ingestEvent` does not.

*Backend, alerts and streams.* The key of an alert is marked as sent before any
delivery, so one that failed, or that no route wanted, silences the next for
60s, where `alerts.go:165` speaks of the last delivery; the router's key has no
namespace; `stream/hub.go:1-2` says slow consumers are disconnected, the code
drops their messages; the reconnect wait of the live sources is set back only
in a branch that is reached when the context is cancelled, so after five
interruptions it is 32s for good; the check in `aggregator.go:138` is never
reached with both channels nil, because of the `continue` before it, so `Run`
ends with its context alone; flows, events and alerts are saved synchronously by
the aggregator's goroutine with a context that never ends.

*Library.* Seven policies have actions of which none reports or enforces, so
that neither mode changes anything in them and the review page calls them able
to block (`policylibrary-sshd`, `tracingpolicy-tcp-accept`, `-datagram-518`,
`-tcp-listen`, `-open-dnsrequest`, `-open-geturl`, `-usdt-set`). The kind a policy
ships as is ignored, the scope alone decides. The suffix that keeps names apart
depends on the selection, so a later apply of another selection may replace a
live object that was another policy's; the `uniqueName()` a comment names does
not exist. "Documented only" contains two CVE policies that are samples;
`setSection` also acts on samples that are folded away. The exclusions of a
draft, and with them the agent's export filters, are code no page reaches.

*Pages.* Exclusions: an apply answered after its sheet was closed reloads the
path of that time, and with no interval to mend it one policy's detail stays
under another's title; a value may be ticked while the preview is asked for, or
the detail of the policy opened before may give way to this one's, and Apply then
sends what was not previewed, against `handlers_hits.go:178-180`
("Nothing is ever applied … without the caller having seen that preview"); the
argument index that is sent is that of the first ticked path.
Investigation: the sheet of a record is hidden and not unmounted, so an explanation
that comes after it was closed stands under the record that is opened next
(`app/investigate/page.tsx:371`).
Integrations: `AppShell.tsx:8` says the self-description is loaded once; it is
loaded every minute, the page's effect fetches the routes again with each
(`app/alerts/page.tsx:46-54`), and unsaved edits are overwritten; a save before
the first fetch landed wipes the routes it had not seen; two saves may be taken
in either order. Diagnostics: streamed lines pass by the page's filters; a line
that was streamed and fetched shows twice; after a pause older streamed lines
stand above newer fetched ones; a batch over the backend's 1 MiB is refused and
lost without a word. Library cards: Enter or Space on a card's inner button
bubbles to the card and also toggles it.

## 7. Not modelled

Each of these is in `PROJECT.json` with its reason, and so are the hazards that
no property covers.

- **Pure functions of text and of meaning outside the repository.** The dry run of
  network policies is correct when it agrees with Cilium's own rules, which
  this repository does not have; investigations and the prose of explain are
  heuristics over text; the AI call is one request, and what it leads to is in
  `PolicyChange`; the reverse proxy rewrites headers and HTML. The guard's walk
  of a manifest is a search for names in arbitrary JSON; what it tells the
  handlers is in `PolicyChange`.
- **State behind one lock, in one step.** API keys, the version and key caches,
  the observed catalogue, the aggregator's buckets and service map, the memory
  store. Nothing interleaves in them, and a unit test reaches what they do; the
  shape of bound and eviction they share is in `Rings` and `HitTracker`.
- **The five GitHub calls** behind `OpenPR`: nothing in the code looks at a pull
  request again, so for the console they are one call with three outcomes.
- **Pages that render** what `usePoll` and `useStream` give them. Generated and
  vendored code, charts, scripts, the handbook.

Five hazards have no property. Two are what the code does, and nothing in the
repository says that it does not: an explanation under another record
(`app/investigate/page.tsx:371`), and lines that two goroutines append in one order
and publish in the other (`logbuf.go:73`). The records of pull requests that were never
opened (`handlers_phase2.go:107`) are a single assignment which a property would
only restate; `alerts.go:216` marks before it delivers, which is what section 6
quotes; and `main.go:187` cuts handlers off, which is the action `Exit`.
Considered and not listed: the save that may hold the aggregator
(`aggregator.go:286`), for which the code has no bound that could be kept; the
wait that is never set back (`live.go:50`), which is slower and not wrong;
eviction and late times in `observed.go:93` and `aggregator.go:356`, which change
suggestions and sums for display; and the caches of `versions.go:50` and
`auth.go:238`, which are stale for their time to live by design.
