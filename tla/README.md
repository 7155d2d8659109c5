# Specifications of howl-go

howl-go is a web framework in Go: file-based routes rendered on the server and in
the browser (wasm), typed endpoints, middleware, signals, and a document store
with a query cache. This directory holds TLA+ specifications of the parts where
several actors meet or where two pieces of code must agree, the TLC configurations
that check them on small instances, and TLAPS proofs of what matters most for every
instance.

## The parts of the system

| Part | State it keeps | Operations | Who it meets | Module |
|---|---|---|---|---|
| Query cache of a collection: `db/service.go`, `flight.go`, `cache.go` | per process: the local version counter, the queries in flight; in the adapter: entries, the shared version | Get, GetMany, Find, One, Count; invalidate after each write | the backend, the cache adapter, replicas over the same two | `CachedCollection` |
| Document writes: `db/service.go` | what a call read, until it writes | Create, Patch, PatchFields, Delete, Restore, PatchWhere, DeleteWhere | other calls, of any process, between its statements | `Documents`, `AtomicDocuments` |
| Patches and paths: `db/json.go`, the backends' path writes | the row | diff, deep set, merge, unset | releases that declare other fields | `PathWrites` |
| Filters: `db/filter.go`, three implementations | none | conditions, sorts | the row, with nulls and absent keys | `Filters` |
| Schema: `db/report.go`, `promote.go`, the tables | columns, indexes, the report | start, Report, Backfill, DropField, DropColumn | processes of several builds | `Schema` |
| Ids: `db/uuid.go` | a clock and a counter | NewID | every Create | `IdClock` |
| Byte stores: `core/cache` | an LRU's list and index; two stores behind Try | Get, Set, Del | the query cache, the response cache | `LRU`, `LossyStore` |
| Coalescing: `core/mw/coalesce.go` | requests in flight, by key | Handler | concurrent requests for one page | `Coalesce` |
| Rate limiting: `core/mw/ratelimit.go` | token buckets by caller, in order of use | Take, evict | concurrent requests | `RateLimit` |
| Response cache: `core/mw/cache.go` | a byte store | Handler | requests, the handlers it stores for | `ResponseCache` |
| The chain: `core/mw`, `core/app`, `core/api`, `core/sse` | one request's writers | each middleware, the handler's calls, a panic | the layers above and below | `Pipeline` |
| Endpoints: `core/api` | the shared store and limiter | Define's wrapping, Call | users whose rights change | `Endpoints` |
| Routes: `fsroutes`, `core/router`, `app.js` | the table | four readings of it | one another | `Routes` |
| Static files: `core/app/static.go` | entries by name | serve, hash, reload, warm | servers of other releases, editors | `StaticFiles` |
| Signals: `core/signal` | values, subscribers, the queue, the open scope | Get, Set, Batch, Effect, Derive, Scope | effects that read and write signals | `Signals` |
| Client router: `core/runtime/app.js` | the fragment cache, prefetches, the newest navigation's number | navigate, prefetch, intent, popstate | the server, the wasm renderer, the user | `Navigation` |
| Repaint: `app.js`, `core/dom` | one element's children | morph | the user who types, rows that fade | `Morph` |
| Page lifecycle: `core/dom`, `app.js`, `wasm` | js.Funcs, the page's scope, islands, the trace | mount, unmount, On, Frame, fetches | navigations, the boot | `Lifecycle` |
| Optimistic store (`howl scaffold`) | confirmed and pending ops | Commit, Hydrate, the sender | a server that fails or whose answer is lost | `OptimisticStore` |
| Observability: `core/observe`, `otel` | spans | start, end, set, report | the guards, endpoints and operations of a request | `Tracing`, `Redaction` |
| Development server: `core/cmd/howl/dev.go`, `alive.js` | the last scan, the child, the tabs | scan, rebuild, restart, broadcast | editors, browsers, the child | `DevServer` |

What is hard here: reads that store their results after writes have moved on; two
version counters read in two steps, one of them lost at a restart; queries and
responses shared between callers with deadlines and panics of their own; an
optimistic lock around a read, a validation and a write; operations that check in
one statement and act in the next; deploys of several builds over one table, and
of several servers over one URL; effects that queue one another; navigations that
overtake each other, and pages whose callbacks outlive them; a queue in a browser
before a network that loses answers. `PROJECT.json` lists each one at its line
("hazards"), with the properties that would catch it going wrong.

What makes each part correct: the cache answers no read with less than was
acknowledged before it began; a document's writers are atomic towards each other,
lose nothing, and write what they validated; a coalesced or stored response is
whole and its receiver's to have; a bucket never admits more than its rate; an
effect runs once per change, with every input current; the page shown is that of
the address, and what it began ends with it; what was edited last is what is
built and shown; what is implemented twice (filters, routes, path writes) agrees.

The parts are modelled in modules of their own, since the code couples them by
values only: the response cache and the query cache use a byte store, which is
`LossyStore` for both and which `LRU` is shown to implement; `Endpoints` takes
from the limiter and the store only what they promise. Where parts share state
they are in one module (`CachedCollection`: service, flight and cache; `Documents`:
service and backend; `Pipeline`: all middleware with a writer of its own;
`DevServer`: server and pages).

## What is modelled

Each module's head says what file it models and what is left out; `PROJECT.json`
("map") names the lines of every definition. What follows is what a reader needs to
find the way from one to the other.

### CachedCollection

The reads of one collection through its cache, and what its writes do to the
cache. State and actions follow the code:

| Specification | Code |
|---|---|
| `adapter` | which cache `NewService` found: none set (an LRU of the process), a shared adapter that is no `Versioner` (also one wrapped in `cache.Try`, which hides the interface), a shared one that is |
| `local`, `flights`, `entries`, `shared` | `Service.local`, `flight.calls`, the adapter's entries, the number a `Versioner` keeps |
| `commits` | the backend: how many writes it has committed; what a query answers is that number |
| `call` | one goroutine's operation: where it is, the key it has built, what it found |
| `Begin` .. `Return` | Get, Find, Count and One (a Find), which share a query; GetMany, which takes several keys under one reading of the version and shares none. `ReadVersion`/`ReadLocal` are the two halves of `keyspace`, `Lookup` is `hit`, `Lead`, `Join`, `Land`, `Wake`, `GiveUp` and `Panic` are `share`, `Store` is `store` |
| `CommitWrite`, `Bump`, `MoveLocal`, `NotInvalidated` | a write at the backend, and the three ways `invalidate` may end, or not be reached |
| `Expire`, `Restart` | a TTL or an eviction; a process that dies and comes back |

A value is abstracted to the number of the last write it shows, a key to its two
counters and a slot. Four variables are history, for the properties alone:
`sharedMark` and `localMark` note the latest write acknowledged when a counter
took a value, `movers` who has used its local counter, and a call's floors what
was acknowledged before it began.

### Documents, AtomicDocuments, DocumentRows

The writes of one collection as the statements they make. A call is at its read,
its write, or walking over the rows of a set-wide write; between any two of its
steps the statements of other calls may come. `DocumentRows` says what a row and
a request are. In a row, `tally` stands for a field that patches edit (each adds
itself, so that a lost patch is seen), `flag` for one that set-wide writes set,
beside the version and the deletion stamp. `Written` is what the paths each
operation hands to UpdatePaths do to the row that is there at that moment, which
need not be the one it read: `diff` (db/json.go) writes the fields that differ from
the document read and no others. `Committed` lets an error or a deadline take the
place of the answer of a statement that has taken effect.

`AtomicDocuments` is the promise: a document takes a call's effect in one step, on
the value it has at that step, at most once, and what the call answers fits what it
did. It allows what the code documents: a set-wide write without a BulkWriter
applies to documents that matched when it looked, and a second Delete that raced
the first may succeed. `Documents` is shown to implement it.

### Coalesce

The middleware that lets identical concurrent requests share one run of the handler.
`req` is a request's goroutine: where it is in `Handler`, its `recorder` and its
`call`; `calls` is the map under the mutex.

| Specification | Code |
|---|---|
| `Arrive` | a request comes; `shareable` may send it to the handler at once |
| `Leads`, `Wait` | the critical section: a key that is not in the map makes a leader, one that is a waiter |
| `HandlerReads` .. `HandlerPanics` | the wrapped handler, which reads something others write, writes chunks, may set a cookie, and returns or panics. `Recorded` is `recorder.Write` |
| `Remove`, `Publish` | the deferred function: out of the map, under the mutex; then the response is handed over and `done` closed. The assignments before the close are one step with it, since nobody reads them before it |
| `Finish` | `recorder.finish`, or the panic going on its way |
| `Replay`, `RunOwn` | a waiter that was released |

A response is the number of chunks it has, and whose run made it (`by`, history). What
a run has read is the number of writes there had been (`writes`). `floor` and `past`
are history too: the writes, and the answers, before a request arrived. A connection
that breaks is not modelled: the middleware ignores the errors of `finish` and
`replay`, and the one of an overflowing `Write` goes to the handler.

### PathWrites, Filters, Schema, IdClock: the data under the services

`PathWrites` keeps the body that `Documents` abstracts: a document is a tree, a patch
names the paths that `diff` finds and a backend applies them, by deep-setting (memdb,
pg) or by merging (sqlite). The writers are releases that declare different fields. An
action property says what a patch may change of the row, whoever wrote since it read.

`Filters` is the grammar of conditions and sorts, answered by Go (`memdb/filter.go`)
and by the text of both SQL compilers under three-valued logic. Fields of one row come
and go; what is asked is quantified over in the property, so that the state is small.
`collation` is how pg's database orders texts: no query and no column names a collation, so
it is any order, while memdb and sqlite compare bytes.

`Schema` has processes of several builds on one table. `Start`, `EnsureColumn` and
`EnsureIndex` are the statements of a start, `CountTotal`/`CountKeys` those of a report;
any of them may come between two of another process, and `Ddl` may skip one that fails, of
which the process keeps nothing but `skipped`, history. A column is a function of the
document. A build omits fields that are zero (`omitempty`), so that `Diff` may unset what was
stored. `PatchRead` and `PatchWrite` are the two ends of a patch, of which one is under way at
a time; a write that moves its document's version beats it (`Beats`), and DropField, which
moves none, does not. `filled` and `dropped` are history. `IdClock` is `tick` and the clock it reads.

### LRU and LossyStore

`LRU` is the in-process store's map and list, each operation one critical section;
`LossyStore` is what its users ask of a store, which may forget anything. `LruIsAStore`
is the refinement.

### RateLimit, ResponseCache, Endpoints

In `RateLimit` a request reads the clock (`RateArrive`) and later takes the lock
(`TakeKnown`, `TakeNew`), so times reach a bucket out of order. Tokens are counted in
units that need no rounding, and waits in ticks, which `Owed` cuts off as a Duration does its
nanoseconds; `RetryAfter` makes seconds of them. `admitted` and `windows` are history. In `ResponseCache`
each request is a run of the handler behind the recording writer, or a hit.
`Endpoints` has the order in which `Define` wraps a handler, over rights that the
application changes at any moment (`RightsChange`), and the generated client.

### Pipeline, Tracing, Redaction: one request

`Pipeline` passes one request through a chain of layers. `calls` is the stack of calls
that a write on the top writer makes on those below it; the handler's script is
chosen step by step. A panic unwinds layer by layer, running what each deferred.
`Tracing` has a request's spans and what each stage sets on which, `learnt` when the route was
known in time for the metric, and `cut` what answered before the handler: a guard, a limit, a
stored page. `Redaction` is
`Render` and `Sensitive` over trees of names and strings; `Spellings` are the ways to write a
name of several words. `Said` recurses over a value, so that nothing is proved about `Redaction`.

### Routes and StaticFiles

`Routes` derives the table of `fsroutes` from any tree of page files and compares its four
readers on any URL. `StaticFiles` has servers of different releases, loads in their steps
(`Look`, `Stat`, `Open`, `Stamp`, `Pack`, `Zipped`, `Keep`), writes at any moment between
them, and what a browser keeps for ever (`keeps`, history).

### Signals, Navigation, Lifecycle, Morph, OptimisticStore: the browser

One thread runs one task at a time; what is awaited is where others come in. In
`Signals` an effect is a program over signals, so that any graph of them is an instance.
In `Navigation` a navigation is a fetch, a stylesheet or a view transition that others
may overtake; `world` says which deployments come and whether links ask for a transition, which
each link does for itself. `Lifecycle` has the js.Funcs of listeners, frames and fetches: held by
the browser, released by Go, and the trace each navigation reports; `Table` is the routes that the
wasm build knows, since it unmounts no others. `Morph` is one level of children, their live values
and the focus. `OptimisticStore` is the store `howl scaffold` generates: `Commit`,
`Hydrate`, and a sender that repeats until it is answered, over a network that loses
calls and answers.

### DevServer

The polling builder, the child process, an event stream per tab with a channel of
limited room, and the tab's script. An edit may come at any moment.

## What the runs check

Parts that share no state are checked in one run: a behaviour is one of a single part,
chosen at the start (`part`), and the states add up and do not multiply. `MCServer`,
`MCBackend`, `MCClient` and `MCEnds` only choose; every action and property is the
part's own. `OptimisticStore` is in two: its invariants are checked in `client`, and that its queue
drains in `ends`, with the other promises that need fairness.

| Run | Instance | Properties |
|---|---|---|
| `cached_reads` | 2 replicas; either 2 readers of 1 slot, no restarts, or 1 reader of 2 slots (batches) and a restart each; a writer on each replica, 2 writes, 1 failing Bump; every kind of cache | `WritesAreSeen`, `OneQueryPerKey` |
| `ends` | 1 replica, 2 readers, 1 writer, 1 panic; 2 coalesced requests of one key, 2 chunks over a buffer of 1; 3 ops in the browser and 1 lost answer; fairness | `CallsEnd`, `QueueDrains`, `OneLeaderPerKey`, `AnswersAreWhole`, `CookiesAreOwn` |
| `server` | 3 calls on 2 documents, 2 attempts, with and without a BulkWriter; 5 chains of up to 5 layers; 3 builds, 2 processes, 2 documents, 1 failing statement of DDL; a request with 2 guards and 2 operations; values 3 levels deep | `PatchesAreKept`, `PatchStoresWhatItValidated`, `VersionsNameBodies`, `ConflictsAreEarned`, `IsAtomic`; `AnswersArrive`; `QueriesReadDocuments`, `UpkeepHolds`; `TracesAreWhole`; `RecordsAreMeant` |
| `backend` | ids through a counter of 2 and 16 ms; trees of 5 paths, 2 releases; 3 fields with 2 values, null and absent, under both orders of 2 texts; an LRU of 2 for 3 keys; 4 requests on 3 keys over a table of 2; 2 requests through the response cache; 2 calls on 2 endpoints; every tree of up to three pages; 2 servers, 2 loads, 2 contents | `IdsIncrease`; `PatchesStoreTheirEdit`; `BackendsDifferByOrder`; `RecentlyUsedStay`, `LruIsAStore`; `AdmittedWithinRate`, `EvictionSparesTheRefused`, `RetryIsEnough`; `HitsAreShareable`; `AnswersAreEarned`; `RoutesAgree`; `FilesAreWhatTheySay` |
| `client` | 3 ops and 1 lost answer; 4 URLs, 2 navigations, 1 intent, and either a deployment or transitions on some links; a diamond of 4 signals and 4 effects; 3 edits, 1 tab that breaks once, a channel of 2; markup of 2 items, over 3 nodes; 3 routes, of which Go knows 2, and 2 navigations | `ViewIsReplay`, `InOrderAndWhole`; `PageBelongs`, `FreshIsFresh`; `EffectsAreCurrent`, `OncePerChange`; `EditsArrive`; `RepaintsAreExact`; `NothingIsLeftBehind`, `NavigationsAreToldOnce`; `ClientTypeOK` |
| `cached_fallback` | 2 failing Bumps | `FallbackRetiresOwnKeys` is violated |
| `columns_skipped` | the columns part, 1 failing statement | `SkippedColumnsDegrade` is violated |
| `coalesce_stale` | 2 requests, 1 key, 1 write | `NeverStale` is violated |
| `sqlite_keeps_removed_keys` | the paths part | `RemovedKeysAreGone` is violated |
| `typing_lost` | the morph part | `TypingIsKept` is violated |
| `panics_dropped` | the pipeline part | `PanicsAreAnswered` is violated |
| `visits_unmounted` | the page part | `VisitsAreMounted` is violated |

**Why these bounds.** A stale cached read needs one write, one read that began before it,
and one after it: two commits, two readers and a writer on each replica give every order of
them, with each reader leading, following, hitting or storing late. Restarts matter once per
replica, since a counter that restarts twice is where it was after the first time. Two slots
make a batch of which one is hit and one missed. Hazards of documents are between two or
three calls, and two attempts are enough for a patch to be overtaken for good. Of two
coalesced requests one leads and one waits, or comes when the leader has left the map, to
lead in its turn; two chunks over a buffer of one overflow it, with something to flush. Four
requests on a table of two buckets refill one, empty another and evict a third; the counter
of an id of two values runs out at every third id. The chains are the recommended one, those
with Recover inside, with each guard, with CSRF, and the compressor alone. Of the builds one
promotes a path that a second declares and promotes otherwise, with a default for it, and a
third omits it when it is zero, with a null for its default: two processes give every
rolling deploy and rollback of one field and its column. The deploys are run in two parts,
as both at once are too many states: `columns` has the builds that promote on sqlite,
without patches, and follows reports only while nothing has failed (`Columns`); `upkeep` has
all three on memdb, where no column is, so that what is asked is what a report, a backfill,
a dropped field and one patch under way do to each other. The proof has no such division,
and pg. A second is two ticks of the limiter, so that a wait may be a whole number of
seconds or not, and a token takes one tick and a half, two or one. Names are spelt with the
sensitive word before and after others, one of which ends in a digit, and inside a longer
word. Two navigations overtake each other once, and a third is like the second; transitions,
on some links and not on others, are run without a deployment. Markup is up to two of: a
field with a key and either of two values, a row with another key, a field without a key, a
text; with those that fade, an element has up to three children. A key that names an element
of another kind in the next markup is left out, since the code keeps the old element then,
whatever the markup says (see "Repaint" below). The diamond has a derived value read under a
condition, from another derived one, and effects that stop others and themselves. Three
edits are one before, one during and one after a build. The proofs below lift the bounds
where it matters.

**Symmetry.** Declared in `server` (calls; documents) and in `backend` (requests, calls
and loads; two more requests, and servers): they are only ever compared, and no property
names one. `IsAtomic` and the action properties there have no liveness part, so
symmetry is sound for them too. The run with liveness, `ends`,
declares none, and neither does `client`.

**Deadlock** is checked in `cached_reads`, whose goroutines may always begin again. It is
off elsewhere: requests and calls are each made once and the clocks, navigations and
edits are bounded, so the system stops when all is answered.

**Fairness.** `CallsEnd` assumes of the query cache that a goroutine that can run does
(Go's scheduler), that the backend answers or fails (each call carries a deadline,
`Service.deadline`), and that a follower's own context ends (the same deadline, in
`share`'s select). Of the coalescing middleware it assumes the same of goroutines, and
that a run of the handler returns once it has read: a waiter has no deadline of its own, so
a handler that never ends holds its waiters for ever, in the code as in the model. Weak
fairness is enough: nothing but its own step takes a goroutine out of its position, but
for a leader's `Wake`, which ends the wait. Nothing is assumed of arrivals, writes,
cookies, panics, restarts and expiry. `QueueDrains` assumes weak fairness of the sender's
goroutine, and strong fairness of the server's answer: the sender repeats for ever, so that
it is enough if the server is reached again and again (a lost answer disables it each
time). Nothing is assumed of the user and of the network's failures.

**Disagreements with the documentation**, each found as a violation and quoted in
`PROJECT.json` ("findings"):

* `cached_fallback`. The fallback of a failed Bump is said to retire the process's
  own keys. Over a shared store it may not: local counters are numbered per process,
  so when two replicas fall back, each moves to the key space the other has, or
  will have, filled. `OwnWritesAreSeen` states the condition under which the
  promise does hold, and is proved.
* `columns_skipped`. A column that could not be added "degrades to filtering through the
  document, which is slower and still correct" (`sqlite/backend.go:190-193`,
  `pg/backend.go:170-173`): the statement's failure is logged and forgotten, and the
  process compiles its conditions to the column that is not there. They fail, or compare
  the column's name. `QueriesReadDocuments` excepts such a column until somebody adds it.
* `coalesce_stale`. "Nothing is kept after the last waiter is served, so a response is
  never stale": nothing is kept (`NothingIsKept` is proved), but a request that comes
  after a write may join a run that read before it, and not see the write.
* `sqlite_keeps_removed_keys`. A key that a patch removes from a sub-document stays there
  on sqlite, which merges what the others replace.
* `typing_lost`. A repaint that adds or drops a node before the field with the focus loses
  what was typed, or gives it to another field.
* `panics_dropped`. In the recommended chain a panic before any answer drops the
  connection: the compressor's deferred close sends a 200, and Recover takes that for
  the handler's own.
* `visits_unmounted`. A page with a hook that is reached by a navigation before Go is
  loaded is never mounted.

Five more have no run of their own, so that the runs stay few. The first four are properties, and
TLC finds each violated when it takes the place of the properties of the run named, on that
run's part:

* `SecondDeleteIsNotFound` (`server`, documents). Delete reads first "so a second delete answers
  ErrNotFound" (`service.go:605-606`), but two that read before either writes both succeed: the
  write carries neither the filter nor a version.
* `SingleAnswer` (`backend`, filters). The conformance suite states "a single expected answer for every
  backend" (`memdb/filter.go:8-10`). A range over texts is answered by pg in the order of the
  database's collation, and an upper bound over a stored null of a path without a column is met
  there, since a JSON null is below every string and number. `BackendsDifferByOrder` says that
  the backends differ where these two decide and nowhere else.
* `SecretsAreRedacted` (`server`, records). "Words are separators, underscores and case changes alike"
  (`redact.go:88`): of a name in capitals such as PASSWORD_HASH the word before a separator is
  cut before its last letter (`redact.go:122`: the separator is no capital), so that it is not
  known and its string is recorded. `RecordsAreMeant` excepts a name in capitals
  whose sensitive word is not its last, and nothing else.
* `NewestStays` (`client`, navigation). A newer navigation "must not then be overwritten by this one"
  (`app.js:727-729`): a swap that waits for styles asks again whether it is the newest, one
  that waits for a view transition does not. Where one link asks for a transition and another
  does not, the older page is shown after the newer one (`Overtakes`), which `PageBelongs` excepts
  when that page brings no styles of its own.
* "How long until one token exists" (`ratelimit.go:47`) is short by what a Duration cuts off, less than
  a nanosecond: at three a second a caller that waits 333333333ns is refused. The header
  rounds up to seconds, so that it is enough unless the wait is a whole number of them.
  `RetryIsEnough` says exactly this.

**What else was met while modelling**, and is left as the code has it (the properties
are stated so as to leave it out, or the modules note it):

* Query cache and documents: two services over one adapter that is no Versioner have
  counters of their own. A failed UNIQUE index is swallowed like a failed ALTER, after which
  duplicates are stored. A column's name that is used again for another path keeps the old one's
  values, which is the very case that the comment of `ddl` gives for a column that cannot be
  added: `NameAssumption` excludes it, since then a column answers for the wrong path. SQL's
  KeyCounts are two statements. A Bump that took effect and whose answer was lost is not
  modelled: both counters have moved then.
* Filters: how pg sorts a stored null of a path without a column "this contract does not answer"
  (`memdb/filter.go:231`); naming a column may change what a condition answers for values of two
  types (`pg/compile.go:66-68`), which the module leaves out.
* Middleware: `mw.Writer` and the response cache take an informational 1xx for the status
  (`mw/cache.go:195`); CORS sends no Vary for an origin it disallows (`cors.go:55`).
* Observability: "is renamed the moment the framework learns the route" (`otel/http.go:26-30`) does
  not hold with a named guard in the chain, though the guards are documented to be named
  (`www/docs/12-observability.md:18-30`): the route goes to the guard's span, which has ended, and
  only the metric has it. A page that the page cache answers is not rendered, and so has no route
  in either, unless `otel.Routes` is around the mux. `OnError` records on a span that has ended
  (`http.go:64-66`); the stage of an endpoint's guard goes to the span that is current. On a panic
  an operation of `db` ends its span (`service.go:144`), while those of guards, renders, endpoints
  and calls into the backend never end. Numbers and booleans under a sensitive name
  are recorded, and `address1` is not a sensitive name (`redact.go:24`).
* Router: a revalidation may replace a newer fragment (`app.js:726`) or swap one of a new
  build; a Back that fetched through a redirect leaves address and page apart; the boot's
  mount may run under another page's markup; a fresh navigation awaits a prefetch that was in
  flight before it (`app.js:332-333`), and may show what that one read. Overlapping dynamic patterns, percent-encoded
  parameters and `/?x` are read differently by server and browser: `RoutesAgree` states
  the conditions.
* Static files: Reload reads the bytes before it stats (`static.go:256`), a file whose
  own name looks hashed is not served (`static.go:405`).
* Repaint: a node matched by key keeps its old tag (`app.js:1079`, `morphNode`), so that a key which
  comes back as another kind of element is shown as the old kind.
* Signals: an effect that panics in a flush leaves `depth` above zero (`signal.go:171`).
* Development server: what is edited during the first build is taken for built by the scan that
  follows it (`dev.go:87-88`, 130), and is noticed at the next edit only. An announcement that
  a full channel drops (`dev.go:654`) is not made again: a stylesheet, or a revision or an
  error that does not already wait there, reaches the tab when it connects again. A tab whose
  document was loaded before a restart and whose first greeting comes after it is greeted with
  the new revision (`dev.go:582-586`) and keeps the old document. `NoEditIsMissed` and
  `TabsCatchUp` except these three (`begun`, `missed`, `late`).

## What is proved

`CachedCollectionProofs` proves, for any replicas, goroutines, placements, slots,
adapters and bounds, from `ConstantsAssumption` alone, that `Spec` implies the
invariance of `TypeOK`, `BumpedWritesAreSeen`, `OwnWritesAreSeen` (together
`WritesAreSeen`), `EntriesMatchTheirKey` and `OneQueryPerKey`.

The argument. An answer is recent because of where it came from: the backend, an
entry, or a leader. `BumpedWritesAreSeen` speaks of finished reads only and is not
inductive; `IInv` says what holds of a call at every step on its way: the mark of
its key lies at or above what the call must show, and everything in hand lies at or
above that mark (`Versioned`, `Localised`, `Sound`). That needs marks to be ordered
along each counter and bounded by the commits (`MarksAreOrdered`), entries to be as
recent as the mark of their key (`EntriesMatchTheirKey`, and `EntriesMatchOwnKey`
where a replica has its key space to itself), and `movers` to know every counter
that has left zero (`MoversAreKnown`), so that a replica that restarts cannot find
its key space its own again. One lemma per action; the steps that
change nothing but a call's record share `CallsStep`. `OneQueryPerKey` has an invariant of its own,
`FlightsAreLed`: a leader's flight is in the map until it lands, and a key has one
flight.

`DocumentsProofs` proves, for any ids, calls, number of attempts and kind of backend,
from `RowsAssumption` and `DocumentsAssumption`, that `Spec` implies the invariance of
`TypeOK`, `PatchesAreKept`, `PatchStoresWhatItValidated`, `VersionsNameBodies` and
`ConflictsAreEarned`, and that it implies `IsAtomic`.

The argument. A patch compares versions and then keeps, merges and validates bodies,
so everything rests on a version naming one body although deletions move none. That
is inductive only with three things more: nobody holds a later document than the row
(`RowsAreLatest`), nobody knows of an id before it is handed out (`FreshIsUnseen`, so
that a document that is gone stays gone), and each call's record agrees with where it
is (`Sound`, per call). The table only ever `Evolves`: a row's next document has a
later version or the same body, and drops no patch. What one call's step does to all
the others follows from that alone (`OthersStaySound`, `SeenStaysSound`), and
`QuietStep` and `CallStep` leave each action with its own call to account for.
`ConflictsAreEarned` counts: an attempt that fails found a version later than the one
it read, so after n of them the row is n past the first. The refinement maps each
action to one step of `AtomicDocuments` or to none (`Retry`, `WalkOver`); its one
hard case is a patch, which writes the body it read and not the row's, and where
`VersionsNameBodies` says they are the same (`WrittenIsTaken`).

`CoalesceProofs` proves, for any requests, keys and sizes, from `CoalesceAssumption`,
that `CoalesceSpec` implies the invariance of `CoalesceTypeOK`, `OneLeaderPerKey`, `AnswersAreWhole`,
`CookiesAreOwn` and `NothingIsKept`.

The argument. All five speak of requests that are answered or led; the invariant says
what holds on the way there. Per request: the recorder accounts for every chunk, in
the buffer or at the client (`Shaped`); a waiter's leader had not answered when it was
found in the map, which is why no answer is older than its request (`WaitsFor`,
`PastIsAnswered`); the map holds a leader from `Lead` to `Remove` and nobody else
(`Mapped`, `MapMatches`). What others see of a request only `Evolves`: a closed call
is not assigned again. So one lemma (`OthersStaySound`) settles every other request
at once, `QuietStep` the steps that leave the map alone, and `RunStep` those of the
handler.

`DocumentsProofs` also has the table through deploys: from `DocAssumption`, `FieldAssumption`,
`BuildAssumption` and `NameAssumption`, `SchemaSpec` implies `UpkeepHolds` and
`QueriesReadDocuments`, for any builds, omitted fields, backends and failing statements. The
invariant `SchemaInv` says that documents are whole (`DocsAreWhole`), that a column computes a path
which some build promotes under its name (`ColumnsAreNamed`), that what a report has counted so
far is so of the documents until it is acted on (`ReportIsTrue`), that a field which was backfilled
or dropped stays so until something asks otherwise (`FieldsAreKept`), that the patch under way is
of a stored document and writes only what it changes (`PatchIsWhole`: which is why a drop
that it did not see stays), and that what a process has found and ensured up to where its start has
come is there, or is among what it skipped (`ColumnsAreThere`).

`DataProofs` proves what the two tables promise that are kept in order of use, the LRU and
the limiter's, whose list operations are in `UseOrder`. From `LruAssumption`: list and map have
the same keys, each once, and no more than the capacity (`LruIsSound`); an entry leaves without
being deleted or found expired only when as many other keys as fit were used after it
(`RecentlyUsedStay`); and `LruIsAStore`, that every behaviour is one of
`LossyStore`, whose operations may each forget entries: a Set is a `Put` that forgets what it
evicts, a Get of what has expired a `Fetch` that forgets it. From `RateAssumption`:
`AdmittedWithinRate`, `RetryIsEnough` and `EvictionSparesTheRefused`. The rate is not
inductive: what a bucket may still let through depends on what it holds. The invariant is
an account (`Accounts`): from each Take on, what was let through and what is left come out
of what the bucket had and what came in up to its last Take. Two things complicate it, and
are parts of the invariant: requests hold times that may be earlier than the bucket's, so
that a refill takes tokens back (`TimesArePast`), and a bucket may be overdrawn, but by no
more than has come in since (`DebtIsCovered`). `RetryIsEnough` is then arithmetic on `Owed`: a tick
after the wait there is a token, and a tick before it there is none.

`HttpProofs` proves, from `ResponseAssumption`, `HitsAreShareable` of
`ResponseSpec`. The invariant follows a response from its run's recorder (`Faithful`), over
the entry (`EntriesAreWhole`), to whoever gets it (`HitsAreWhole`); a run that has answered
does not change any more, so that one lemma settles what the others hold.

`DataProofs` also proves, from `FilterAssumption`, `BackendsDifferByOrder` of `FilterSpec` for any
fields, values, columns and collation of pg's database, and that whole filters of $and and $or agree
where their conditions do; and from `IdAssumption`, `IdsIncrease` for any widths of counter
and time, from the invariant that tick's state is what the last id was made of.

It also proves, from `PathAssumption` (a path is a nonempty sequence of names, and so are its
prefixes), `PatchesStoreTheirEdit` of `PathSpec` for documents of any shape and releases with any
fields. The invariant only says that the row, and what a patch has read, are documents
(`RowsAreDocuments`). The rest is about the algorithms. A path's prefixes are in a row
(`PathsAreOrdered`); what is neither above nor below a path that is written (`Apart`) each
backend's write leaves as it is, merged or deep-set; what `diff` finds equal, and what the
writer's release does not declare, is apart from all that it writes. That the edit is stored goes
by the shortest prefix of a path at which `diff` did not go in: what is written there is
what the patch wants, and the objects above it are in both documents.

`HttpProofs` has four parts more of one request's way.

* `FilesAreWhatTheySay`, for any servers, loads and contents. A load's steps read the file at
  different moments. `Says`: an entry that is not of two contents has a time at which its bytes
  were written, or an older one, since two writes never have the same time, which is what
  the code trusts. `StampsHold` says so of what is cached and of what is under way,
  `ToldRightly` that what was served and is kept for ever has the hash of its bytes.
* `AnswersAreEarned`, for any endpoints, users, sessions, addresses and limit. Per request:
  `Gated` (past a gate only with the right that it asks for, and with a value only of its own),
  `Across` (what the server reads is what the client was called with, and what the client gets is
  what the server answered), `Counted` (who was refused found the bucket empty); and of what is
  shared, `StoreIsRight` (an entry is the value of the endpoint and identity in its key) and
  `TokensAreCounted` (the tokens taken are those of the requests let through).
* `TracesAreWhole`, for any number of guards and operations. The calls of a request are a
  stack and its spans a tree; `Nested` ties the one to the other, `Parented` says that a span is
  within a span before it, of a kind it may be within, `EndedWhenOver` that the spans that have
  not ended are those of the stack, but for a guard's after it passed on, and `NamedInTime` that
  the route is learnt exactly when the framework
  was entered or the mux knew it, and that the request's span has it then unless a guard is named.
* `RoutesAgree`, from `RoutesAssumption` (names are ordered, a URL's segments are texts), for any
  tree of pages that registers; `ReadersOfRoutesAgree` does without the bound of three pages that
  `RoutesInit` has. Patterns that one URL matches overlap, so that registration makes every two of
  them comparable, and the one with the fewest parameters is the most specific
  (`NarrowestExists`). Where the names of the parameters agree, the first segment in which it
  differs from another is static in it, and so it sorts first (`NarrowerIsBefore`): the first of
  the table is what the mux serves. A pattern of names alone matches no URL with a query, since
  `navigate` has that in its path.

`PipelineCalls` and `PipelineProofs` prove `AnswersArrive` of `PipeSpec`, for any chain of layers,
any prefix and any `MinSize`, from `MinSizeAssumption`, `ChainAssumption` (a chain is a sequence
of layers with at most one guard, since the model has one span) and `SpellingAssumption` (a path's
characters are those of its segments, each behind a slash; that of the guards has no empty ones).

The argument. Each layer that is entered leaves a writer or a compressor, or none, over the one it
was given, and a call on the top one is worked off from there down, so that the writers are
places, net/http's is 0, and what is under way is a list of calls with a place each. The
invariant `PipeInv` numbers the pieces of the body: a place was `sent` those up to a number and
has `got` those up to another; what is between is in a call under way, and what a place has got
and not sent to the one below a compressor holds (`Pieces`). The status goes down
the same way, no place has one that the place above did not send, and where it stops there is
a compressor which has not decided or a call that carries it (`GoesDown`, `StatusIs`). The calls
are in the order of their places (`InOrder`), so the first of them sees what those above
have sent and nothing later. With `Compressing` (the headers say gzip just when one
compressor encodes, whose length is gone) and `Flushes` this is `Flow`, and each call that a place
takes keeps it: `PipelineCalls`. Around it, `Places` says which layer put up which writer,
`Scripted` and `Promised` what the handler may still do and what its headers say of it, `Reports`
what the logger has written, `Recovered` and `Guarded` what the layers that were passed have
seen to; `PipelineProofs` has the steps that enter and leave a layer. `EveryReplyIsWhole` is
what follows of the answer. That a handler stands behind its guards needs that `Under`, which
compares characters, goes by whole segments (`UnderIsByParts`). Two paths that agree in the
characters of the prefix are cut at the same places, by induction along the prefix: where one had
the longer segment, a letter of it would be the other's slash.

`ClientProofs` has four parts of the browser, and the server that is developed with.

* Signals, from `SignalAssumption`: `EffectsAreCurrent`, which is inductive with the types, and
  for programs that are `Forward` (what is derived is made after what it is derived from, which
  an application gets by writing its code in that order) `OncePerChange`, from the invariant
  that a flush has run nothing later than what is queued.
* The optimistic store: `InOrderAndWhole` and `ViewIsReplay`, for any ops and any effect of an op on
  a snapshot. `SyncInv` has the sender at the first of what waits (`Queued`), what landed before
  what waits (`Ordered`), every op that was committed waiting, refused or landed (`Whole`), and the
  client agreeing with the server but for an answer on its way (`Agreed`). `Replay` is a fold;
  the proof takes a `Walk`, a function from positions to snapshots, and shows by the least
  position at which it would fail that there is one and that it ends in what `Replay` computes.
* Page lifecycle: `NothingIsLeftBehind` and `NavigationsAreToldOnce`. `PageInv` says of each thing a
  hook made that it is held until it is released, once, and with the mount it is of (`Makings`, `Live`);
  that the open scope is of the page on the screen, or was mounted into another's markup (`Mounts`);
  that an island is set up once (`SetUpOnce`); and that what is traced is the newest navigation,
  not over (`Tellings`).
* The router: `FreshIsFresh` and `PageBelongs`, without conditions. `NavInv` says that what
  is shown, or waits for a stylesheet or a transition, is a page at its own address, as fresh as it
  was asked to be and of the document's build (`AllShow`), that a cached fragment is of its page
  (`CacheIsOfPages`), and that of a navigation which waits nothing is shown yet (`NavWaits`).
  `NewestWins`: once the newest navigation is shown or about to be, nothing else is shown after it,
  unless some links ask for a transition and others do not; then what is shown is the address's, or
  a page without styles whose transition called back late (`Overtakes`), or what a step back was
  redirected to (`Fits`), since that leaves the address where the browser moved it. Both are cases
  the code has, and the property names them.
* The development server: `EditsArrive`, for any tabs, room, edits and broken connections. `SeenIsBuilt`
  says that the Go files which a scan has seen since the first are in the binary, unless they are
  being built or are wrong. Of each tab: it knows the revision, or will be told, or a full channel
  dropped what it would have been told (`KnowsTheRevision`); between a restart and the next number
  it may have been loaded from the new application under the old number, which is why
  `ShowsTheChild` says nothing there; an error that is over stays on the screen only where a
  revision follows or nothing runs, and of one that stands the announcement is behind
  every recovery in the channel (`ShowsTheError`, `ErrorStands`).

**Model-checked only.** Liveness (`CallsEnd`, `QueueDrains`); what rests on recursive
operators (`RecordsAreMeant`); `ClientTypeOK`, the types of the browser's parts as one run puts
them together; `RepaintsAreExact`, which compares the walk over a tree with what it should leave, over
inputs that the run enumerates; and the violations, which are counterexamples.

## What is not modelled, and why

The conformance suite is tests; `core/state` is a typed view of one request's context; the
console and the desktop window are output; the examples and the site are applications. Of
the parts that are modelled: OpenAPI, the formatting of headers (CSP, secure headers,
proxies), layouts and document rendering, the event format, wrappers of single DOM calls,
exporters and the log bridge, escaping of identifiers, and the generators other than
`fsroutes` and the store of `scaffold`, all of which are functions of one input. `meta` has no
keys but the envelope's, so `diffObject`'s rewriting of it does not happen. Transactions
(`Session`): a call with one does not touch the cache and its isolation is the database's; for
the cache it is `NotInvalidated`. In the caches a TTL may run out and a deadline pass at any
moment. A key's text is its parts: `queryDigest`'s failure value and collisions are not
considered.

## Plan

Done: the core (cache, documents, coalescing) and its proofs; the data layer, middleware,
browser, observability and development server as specifications; the proofs above.

Left, the most important first:

1. Composition: `Documents` under `CachedCollection`, so that what a cached read of a
   document shows is one of its rows.
2. `RepaintsAreExact`, as far as it needs no induction over the data.
