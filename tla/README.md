# fleetnorm: specifications, model checking and proofs

fleetnorm polls adapters for vehicle fault events, deduplicates and routes them,
and delivers them to outputs, writing every decision to an audit log in SQLite.
This directory holds TLA+ models of that code, the TLC configurations that check
them on small instances, and TLAPS proofs. Paths below are relative to `src/`.

## 1. The system

| component | code | state it keeps | operations |
|---|---|---|---|
| pollers | `internal/pipeline/pipeline.go` `poll`, `pollOnce`, `drain`, `dispatch` | the cursor it holds, the page and the destinations left to serve, the eager-drain page count | read the stored cursor, poll the adapter, mark seen, route, enqueue or drop, save the cursor, pause, tick |
| workers | `work`, `deliver`, `backoff`, `sleep` | the item in hand, the attempt | receive, send, back off, audit, settle |
| destinations | `dest` (`behind`, `track`, `settle`) | a bounded channel, `outstanding` | raise and lower the count of items under backpressure |
| Run | `Run`, `sweep`, `cmd/fleetnorm/main.go` | two contexts, two wait groups | start, cancel, close the channels, drain, time out, return |
| store | `internal/store/store.go` | cursors, dedupe entries, audit rows (SQLite) | Cursor, SetCursor, MarkSeen, SweepSeen, SweepAudit, Audit |
| router | `internal/router/router.go`, `config.SPNSet` | the rules | Route |
| geotab adapter | `internal/adapter/geotab/geotab.go`, `sentinel.go` | `backlog` | Poll: feed page, enrich, normalize, skip ceiling |
| geotab client | `internal/adapter/geotab/client.go` | the session, two limiters | current, refresh, call, post, wait |
| geotab cache | `internal/adapter/geotab/cache.go` | entries, insertion order | Resolve, put |
| file adapter | `internal/adapter/file/file.go` | none; the file is outside | Poll: read, shrink test, normalize, strict or lenient |
| webhook output | `internal/output/webhook/webhook.go` | none | Send, classify, retryAfter |
| stdout output | `internal/output/stdout/stdout.go` | a mutex | Send |
| event | `internal/event/event.go` | none | Annotate, Validate |
| config | `internal/config/config.go` | none | parse: decode, defaults, secrets, Validate |
| startup | `cmd/fleetnorm/main.go` | what has been built | run: load, open, build, run, stop |
| metrics, server | `internal/pipeline/metrics.go`, `internal/server` | counters | inc, Write, /healthz |

**How they interact.** One poller goroutine per adapter calls `Adapter.Poll`
and then `Backlog` on the same goroutine, `Store.MarkSeen` and `Router.Route`
per event, and sends on the channel of each destination. One worker goroutine
per output receives from that channel, calls `Output.Send`, writes the audit row
through the store and settles. A poller and a worker share a destination's
channel and, under its mutex, `outstanding`. The sweeper shares the dedupe table
with the pollers. `Run` waits for pollers and sweeper, closes the channels, and
waits for the workers; the context of the pollers is cancelled by a signal, that
of the workers only by the end of the drain window. The store outlives the
process.

**What is hard.** Two pollers and a worker on one destination, with a lock that
covers the counter and not the channel; shutdown at any step of a page, when
every store call of the poller starts to fail and every audit write must still
work; a crash between marking an event seen and delivering it; a cursor lost
after the page it stands for was delivered; an adapter whose backlog does not
move; queues at their capacity. Besides: concurrent callers of one session and one
limiter, a cache that forgets between two lookups, a file that its owner rewrites,
durations at the end of their width, a zero that was written and a field that was
not, and a number that is an SPN in one numbering scheme and nothing in another.

**What makes each part correct.** Every routing decision gets exactly one audit
row, or is a gap with a known cause. The backlog counter is exact. Nothing is
sent on a closed channel and nothing is left in one. A record behind the stored
cursor is never skipped. An event is not delivered twice by one adapter while
its dedupe entry stands. Shutdown ends and a drain ends. A rule only sends what
the source reported. The store forgets what the configuration says, and no
earlier. A configuration that is accepted is one that runs, as it was written.

## 2. The modules

| module | models |
|---|---|
| `Ledger` | abstract: decisions are owed one row each, paid or missing for a stated reason |
| `PipelineState` | constants, variables and the helpers pollers and workers share |
| `Poller` | `poll`, `pollOnce`, `drain`, `dispatch`, one action per step |
| `Worker` | `work`, `deliver`, one action per step |
| `Pipeline` | composes them with `Run`, `sweep`, the signal and restarts; its properties |
| `Router` | `Route`, one action per rule and per entry of a route |
| `Event` | `Validate` and `Annotate` of an event |
| `Intake` | `normalize` of both adapters, field by field, then `Event`, then `Router` |
| `Backoff` | `deliver`, `classify`, `backoff`, `sleep`, `retryAfter`: what is tried again and after how long, at 64 bits |
| `Adapter` | the skip ceiling that both adapters share |
| `FileAdapter` | the file adapter, its poller and the owner of the file |
| `GeotabClient` | `current`, `refresh`, `call`, `post`: sessions shared by concurrent calls |
| `GeotabPacing` | `limiter.wait` in front of `GeotabClient`, and shutdown |
| `GeotabCache` | the cache of entities: `put`, eviction, age |
| `GeotabFeed` | the geotab adapter: `Poll`, `enrich`, `normalize`, on `GeotabCache` and `Adapter` |
| `Config` | `parse`: decoding, defaults, secrets, `Validate`, as operators over one file |
| `Retention` | the rows of the store by the clock, and both sweeps |
| `Startup` | `run` of `cmd/fleetnorm`, from the file to the running sweeper, on `Config` and `Retention` |
| `MC*` | values for TLC |
| `PipelineProofs`, `LedgerProofs` | TLAPS proofs about `Pipeline`: its own invariants; that it implements `Ledger`, and what follows |
| `RouterProofs` | about `Router`, and about `Intake` on top of it |
| `GeotabClientProofs` | about `GeotabClient`, and about `GeotabPacing` on top of it |
| `FileAdapterProofs`, `GeotabFeedProofs`, `BackoffProofs`, `StartupProofs` | about the module they are named after |

`Pipeline` EXTENDS `Poller` and `Worker`, which EXTEND `PipelineState`, and has
`Ledger` as an INSTANCE that it implements. `GeotabFeed` EXTENDS `GeotabCache`
and `Adapter`, `Intake` EXTENDS `Router` and `Event`, `GeotabPacing` EXTENDS
`GeotabClient`, and `Startup` EXTENDS `Config` (which has the sets of `Event`) and
`Retention`. Adapters, router and the pacing of deliveries are models of their own:
to the pipeline an adapter is a source of pages, a router is a function, and a
backoff is a step. What the pipeline models take for granted about them is what
the other modules show: that a route names each output once, that a wait has a
length, that a backlog is told, that names of outputs differ.

### The pipeline

**State and actions.** The variables of `PipelineState` are the program's: the
store (`cursor`, `seen`, `audit`), the contexts and phases (`main`, `cancelled`,
`stopping`, `sweeper`), the locals of each poller (`pc`, `at`, `next`, `page`,
`more`, `pages`, `targets`, `tracked`), each destination (`queue`,
`outstanding`) and the locals of each worker (`wpc`, `held`, `attempt`,
`verdict`). Five more are bookkeeping of the model and decide nothing the
program decides: `faults`, `sweeps` and `restarts` count what the bounds limit,
`gaps` and `exposed` remember which rows and dedupe entries were lost.

An action is one step between two points where somebody else can come between: a
store call, a critical section of `dest.mu`, a channel operation, a call to an
adapter or output, a timer. `Check` (read `behind()`) and `Track` (raise the
counter) are therefore two actions, and so are `Track` and the send. Two pairs
are merged because nothing can tell the difference: `settle` and the audit write
of `GiveUp`, and the full-queue test and audit write of `DropFull`.

**Data.** A cursor is a position in `Feed[s]`, the records source `s` will ever
produce; a poll returns any number of them up to `PageLimit[s]`, which stands for
however many have arrived. A source in `Backloggers` reports a backlog on a full
page. `StuckAt[s]` are positions at which it hands its cursor back unmoved. A
router is the function `Route`. Audit rows keep status, attempts and the kind of
cause; wording, rule labels and VINs are left out. `Rejecting` are the outputs
whose `Send` can return `ErrPermanent`.

Left out: skips (`FileAdapter` and `GeotabFeed` have them), the clock of the
sweeps and the sweep of the audit log (`Retention`), metrics. `Poll` looks at the
context before it does anything, so a cancelled poller gets no page.

### The other modules

**`Router`.** The state of the two loops of `Route`: `i` and `j` are where they
are, `targets` is the slice, and what is in it is what the code keeps in its map
`seen` as well. All of `matches` is there; an SPN
or FMI that is absent is an empty set, so that absent and zero differ. Labels
are a rule's name, or its position.

**`Event` and `Intake`.** A record is what its source wrote: a JSON object as a
function of its keys, a CSV row with its cells and the values of those that
parse, a Geotab record with what its references resolved to. `FromFile` and
`FromFeed` make an event of it as the two `normalize` do, with the order of
defaults, tags and `Annotate` of the code (an empty field takes its default as an
absent one does); a record for which `Usable` fails is
skipped. `Take` hands the next event to `Route`. `ReportedSPN` says in the words of the
source what an SPN is, and the properties compare the outputs chosen with that.
`Respelled` are the keys that differ from a field only in the case of their letters:
`encoding/json` takes them for the field, and `knownFields` for unknown ones.
`lamp_status`, `odometer_km`, `description`, `raw` and the tags that only copy a
property are left out.

**`Backoff`.** An answer is its status, 0 for none, and what its `Retry-After`
says; where nobody answers there is no header (`Heard`). Durations are numbers of
256 ns with a sign and 56 bits, which makes them `int64` nanoseconds exactly,
because a second and every duration made of it by doubling is a multiple of
256 ns; it keeps TLC inside its own integers. `Capped(x, n, cap)` is
`min(x << n, cap)` as the machine computes it: the top bit of the shifted word is
its sign, any other bit above the 31 low ones makes it greater than any cap, and
else the low ones are the number. `Bit` and `Low` read these off `x`, so that the
model never needs a number of 64 bits. `Intended` and `Request` say what is meant,
without a width. The random half of a backoff is represented by its two ends.

**`GeotabClient`.** One session variable under one mutex, callers that hold a
copy of it, and a server that may revoke any session at any time and answer an
authentication with another server to go to. `home[n]` is the server that
session `n` is good for.

**`GeotabPacing`.** One of the two limiters of a client, and the calls that wait
for it. The program as it is wired has one goroutine for each Geotab client, the
poller of its adapter; that two callers come between one another is a matter of
the component, which has a mutex for them, says so in its comments and has
`TestConcurrentCallsReauthenticateOnce`. `Reserve` is the critical section of `wait`, `Granted` its timer, after
which the call of `GeotabClient` runs; `Proceed` is one step of that, and counts
what goes out. The clock moves at any time, so that a timer may be late.

**`FileAdapter`.** A record is usable, bad or torn (half written). `generation`
counts how often the file was shortened, so that a record has a name. Nothing
keeps the owner from writing between two polls, so a file that was rewritten may
have grown to the cursor again; `missed` remembers the records that a poll then takes
for the ones it has read (`Mistaken`), and decides nothing. The model
does a poll, the dispatch of its page and the save of its cursor in one step; a
crash in between is a save that fails, and then a restart. A cursor that was
never stored and the cursor `0` are the same to `Poll`, and here.

**`GeotabFeed`.** `feed` is what the server has; a cursor is the number of
records up to it. A poll goes through `GetFeed`, for each type of entity
`ResolveCached` or `Ask` and then `Fetch` or `FetchFails`, one `PutFetched` for
each answer, and ends in `PollOK` or `CeilingFails`. The order of types is not
fixed, as a Go map's is not. What is sent during a poll might as well be sent
after it, because the page was already taken; so `Publish` waits for the poll to
end. Time passes between polls and while the server is asked. An adapter has one
goroutine, so nobody comes between the two critical sections of `Resolve`.
`Usable` is the part of `normalize` and `Validate` that can fail: a record that
is no object, has no id, is invalid whatever the lookups say, or has a resolved
diagnostic with a negative SPN. The seed is a date or, `Sliding`, a time back
from the poll.

**`Config`, `Retention`, `Startup`.** An entry of the file is a function of the
fields that are written. `Written` is what the code sees of it: a number or a duration
of 0 is a field that is not there, except where the field is a pointer.
`applyDefaults` is then `Merge`: the function of what is there, and of the defaults
where nothing is. `Startup` builds one adapter or output per step, with
the checks that each constructor makes again, and fails as `run` does. The store is the part that
outlives it: rows have the time they were written and the stamp they are kept
under, a millisecond of it, and `Ms = 2` makes a time between two of them. A
sweep is two deletes with one cutoff each, either of which may fail.

**External.** `AppendRecord`, `Complete`, `Repair`, `Shorten` (the owner of a
file), `Publish`, `Revoke`, `Expire` (MyGeotab), `Tick`, `Later` (time), the answers of servers and outputs.

## 3. What is checked

Every run is `tlc -config <run>.cfg <module>`; all of them finish in minutes on
two cores.

| run | module | what it shows |
|---|---|---|
| `Backlog` | `MCPipeline` | An adapter in a backlog and a live one share an output with a queue of one, an event that both carry, an event for a name without an output, two attempts; a signal at any step. `outstanding` is exact (`OutstandingExact`), no poller drops behind a backlog of its own (`OwnBacklogFirst`), shutdown leaves nothing in a queue or a hand (`ShutdownLeavesNothing`), each step of a worker leaves it with fewer to take and a closed channel gets no more (`WorkRunsOut`). |
| `Crash` | `MCPipeline` | A live adapter; one failing store call, one sweep, and one crash or exit at any step, then a restart: `CursorCovered` (the stored cursor is never ahead of dispatch), `CursorAccounted` (what is behind it has its row, is in memory, or is a gap with a cause), `AtMostOncePerSource` while the dedupe entry stands, and the refinement `LedgerSpec` (every decision gets its one row, a drop for a full queue included). |
| `Live` | `MCPipeline` | Two outputs, one of which rejects, and an adapter that hands its cursor back unmoved, under fairness: `DecisionsSettle`, `ShutdownCompletes`, `DrainsEnd`; and without it, each step of a poller brings it further on its way back to the tick (`PollsReturn`), and a drain goes on after an eager page only if that page moved the cursor (`EagerPagesMove`). |
| `Intake` | `MCIntake` | Records of a JSON file, a CSV file and a feed with fields that are absent, empty, zero, unknown, misspelled, misplaced or at a bound, under pairs of rules with each kind of condition: `RouteCorrect` (each matching output once, in the order first chosen, under the label of the rule that chose it), `OnlyReportedSPNRoutes`, `FieldsSurvive`, `SeverityNotLowered`, `PrefixIsOurs`. |
| `Retry` | `MCBackoff` | The durations of the program, 35 attempts, statuses on both sides of each class: what an attempt waits for on its own (`ExponentialWithJitter`) and when it is asked to (`AskedIsGiven`), and what is tried again (`RetriedWhileItHelps`). |
| `Pacing` | `MCGeotabPacing` | Two callers behind a limiter, two servers, sessions revoked, requests lost, a signal: `GrantsPaced`, `RequestsBounded` (and the logins of a call with them), `RetryIsFresh`, `GoodSessionKept`, `CallReturns`. |
| `File` | `MCFileAdapter` | Both modes and formats, four writes at any time, a restart: a record is left behind unread only by a poll that mistakes it for one of an earlier file (`MissedOnlyRewritten`), a skip is audited once (`SkipsAuditedOnce`), and every other record is returned or skipped in the end (`RecordsAccounted`). |
| `Feed` | `MCGeotabFeed` | A feed of three records in pages of two, a cache of one entry that ages, lookups that fail, a restart, a sliding seed: `CursorAccounted`, `RevisionsSurvive`, `CacheListed`, `LookupsExplained`, `BacklogTold`, `FeedIsRead`. |
| `Startup` | `MCStartup` | A working file and every file that differs from it in one entry, started and stopped at any step on one store: `ConfigRuns`, `IntentKept` (what is written runs, what is not or is a number of 0 runs as its default), `NeverUnsigned`, and, by the clock, that a sweep takes all that has expired and nothing else (`SweepExact`). |
| `BehindTwoPollers` | `MCPipeline` | Fails on purpose, see 5: two pollers on one output. |
| `Rewritten` | `MCFileAdapter` | Fails on purpose, see 5: the file of `File`, and `NeverPast` without a condition. |
| `ManyAttempts` | `MCBackoff` | Fails on purpose, see 5: 36 attempts. |

**Bounds.** A queue of one is the smallest that is full with an item behind it
waiting. `Backlog` reads four records, one of them twice, in pages of two:
a second full page ends the drain at its `MaxEagerPages` of two, one that is not
full ends it before, and the ticks of live polling follow while what the drain read
may still be in the queue. In `Live` one event has two names, so that a poller gives
up on one with another behind it, and the guard of an unmoved cursor ends a drain two pages
before its `MaxEagerPages` of four. `Crash` has pages of two, so that a crash or a
signal comes between two events of a page; its adapter is live, because a drain
differs in what it waits for and not in when it marks and saves. Two outputs, or
two pollers, are every way to share; a third adds a copy of a role that is there.
Both at once only multiply the states, which is why `Backlog` has two pollers and
`Live` two outputs. One fault, one sweep and one restart are enough for each order of
fault, sweep, crash and replay, because the second start begins from a store that
the first can leave in any of its states. In `Intake`
two rules are every way for one to come before another, and each field takes a
value on both sides of every test the code makes of it. `Retry` uses the real
constants and needs no scaling. In `Pacing` two callers are one that holds the
mutex and one that waits for it; with `Every` two, a clock of two has one slot to go
at once, one to wait for, and a time in between. In `File` four writes are a file of two records, its
replacement and an append, which is the shortest way for a new file to reach the
cursor of the old one, with a record to spare. In `Feed` two revisions and a cache of one make every
second lookup evict the first; `MinRecords = 2` puts the ceiling at, below and
above half of a page. In `Startup` a file differs from a working one in one
entry: no test of `Validate` looks at two entries of different lists except for
the names in a route, which is one of the variations; the clock runs to the longest
retention and past it.

**Fairness.** Weak fairness of pollers, workers and `Run`: goroutines are
scheduled, and each call they make returns (http client timeout, `busy_timeout`
of SQLite, a timer). Of a write to stdout the code bounds nothing: a pipe that
nobody reads blocks `Send`, its worker and with it the end of `Run`, and is outside
of this assumption. Strong fairness twice: `select` chooses at random among
ready cases, so a poller that comes back to its tick again and again with a
cancelled context stops; and a channel serves blocked senders in order, so one
that finds room again and again, and others take it, gets its turn. In
`GeotabClient`, and in `GeotabPacing` on top of it, a `sync.Mutex` does not starve
a waiter, and the steps of a call are taken; of the clock and of the limiter
nothing is assumed, because `CallReturns` is about calls that have begun. In
`FileAdapter` the file can be read in the end, and its owner completes a row and
repairs what polls complain about: nothing the program does can replace that. In
`GeotabFeed` `GetFeed` succeeds now and then and the poll goes on; of the lookups
nothing is assumed, they may all fail for ever. `FeedIsRead` makes an exception of
a page that may be over the ceiling, on which the adapter is meant to stop.
`Startup`, `Intake` and `Backoff` have safety properties only.

**Deadlock** is checked except in `Retry` and `ManyAttempts`, where a delivery
simply ends. `Pipeline` stutters in `Stopped`, once the program has ended and the
bounds allow no restart.

## 4. What is proved

The proofs hold for every value of the constants that satisfies the assumptions
of the modules: any number of adapters, outputs, callers, records, any buffers,
pages, limits and bounds.

| theorem | of | argument |
|---|---|---|
| `TypeCorrect` | `Pipeline` | Types, strengthened by what the program counters say: a poller in dispatch has an event and a target, one that waits was counted, an idle worker holds nothing. Without it an enqueue could be to no output. |
| `OutstandingCorrect` | `Pipeline` | `outstanding` equals the number of tracked items in the queue, in the worker's hand, and with pollers between `Track` and the send. The steps move one such position, so the lemmas count positions of a queue after `Append` and `Tail`. |
| `EagerCorrect` | `Pipeline` | No page is counted before the first of a drain (`Uncounted`), and the only step from a page to the pause is the one that compares the cursors. |
| `CursorCoveredCorrect` | `Pipeline` | `SInv`. While a page is served, a record between the poller's cursor and the next one is marked already or stands in the page, at its place from the end; so when the page is empty all of them are, and the save may go past them. |
| `ShutdownCorrect` | `Pipeline` | `RunInv`: pollers are gone before the channels close, a worker stops only at a closed channel that is empty. Nothing is then in a hand either, and `OutstandingExact` makes the counters zero. |
| `OwnBacklogCorrect` | `Pipeline` | `OwnInv`: between `Check` and the send of an event that is not tracked, nothing of the poller's own is at the output. `Check` saw a counter of zero, which is exact, and only the poller itself could have put more of its own there. |
| `WorkersRunOut` | `Pipeline` | A number of steps for each worker, `WorkLeft`: what is queued, times the steps of an item, and what is left of the one in its hand, which its attempts bound. By cases of the worker's actions; only a poller adds to it, and by `RunInv` none is left once the channels close. |
| `PollersReturn` | `Pipeline` | `WayLeft`, compared component by component because the next page may be of any length: pages of the drain, the way to the next page, the rest of it, of the event, of the enqueue. The first component that a step changes gets smaller (`BeforeBy`); that there is a head of the page and of the targets to take is the invariant of `TypeCorrect`. |
| `LedgerCorrect` | `Pipeline`, `Ledger` | `Effects`: every step leaves what is owed alone, accepts one event for each of its destinations, pays or misses one decision, or loses them all with the process. `Owed` counts pollers, queue positions and hands, and a decision that moves from one to the next is counted once throughout, because the targets of an event differ (`TInv`). |
| `CursorAccountedCorrect` | `Pipeline` | A record that is noted, as marked or as gone out unmarked, stays accounted for: by `Effects` a decision only disappears with its row or a gap. `CursorCovered` does the rest. |
| `AtMostOnceCorrect` | `Pipeline` | `OnePerMark`: the rows and debts of an event for one destination are no more than the adapters that have marked it. By `Effects` they only grow with a mark. |
| `RouterCorrect` | `Router` | The loops have done for the entries behind them what `RouteCorrect` says of all: every firing entry is covered, every target was first chosen at an entry behind, in order. |
| `OnlyReportedSPNsRoute` | `Intake` | The event is always the normal form of a usable record (`IntakeInv`), so its SPN is one that the record reports; and by `RouterCorrect` the label of a target is that of a rule that matched. |
| `FieldsDoSurvive`, `PrefixStaysOurs` | `Intake` | The tags of an event are the record's own, its unknown fields and the annotation, in this order of precedence from the last to the first; what the feed writes is in a namespace of its own; the rest is `Validate`. |
| `SeverityIsNotLowered` | `Intake` | By the cases of `SeverityOf`; `Annotate` changes no severity and removes no tag. |
| `OnlyRevokedIsStale`, `RetriesAreFresh`, `LoginsAreBounded`, `GoodSessionsAreKept` | `GeotabClient` | Every session known anywhere is with the server it is good for; the caller that authenticates holds the mutex and nobody has replaced its session meanwhile; the logins of a call are counted by where it is. |
| `LoginsTakeTurns` | `GeotabClient` | Inductive with the types: `Refresh` takes the mutex only when it is free, and all ways out of a login give it back. |
| `CallsDoRunOut` | `GeotabClient` | `CallLeft`: nine steps from the first, counted by where the call is, the sends of its post and its one re-authentication (`StepsOfCall`); no other caller moves it. |
| `PacedIsClient` | `GeotabPacing` | Every step behind the limiter is a step of the client or leaves it alone, so the six above hold there too. |
| `RequestsAreBounded` | `GeotabPacing` | `RequestCount`: two requests for each session that a call is done with, and those of the post under way. |
| `GrantsArePaced` | `GeotabPacing` | `OnTime` says of every time to come that no more calls can have begun by then than have a slot, which is what keeps a late caller and one on time apart; `SlotsTaken` bounds a new slot, because callers that gave up leave slots behind that nobody uses. Neither is inductive without the other. |
| `OnlyRewrittenIsMissed` | `FileAdapter` | A cursor that counts in this file has everything up to it handled, or missed; one of a file that is gone is beyond the end of this one and starts again, or the poll is mistaken and what is before it is missed. |
| `SkipsAreAuditedOnce` | `FileAdapter` | Rows of a record are at most the restarts, and one more once the poller is past it. |
| `CacheIsListed` | `GeotabFeed` | Names of the list are keys, and what is put is part of what was asked for; names are fetched only while they are asked for (`Quiet`). |
| `CursorsAreAccounted` | `GeotabFeed` | A page begins where everything was handled, and the date of the last cold start is not after that of one now (`SeedPassed`): without that, a sliding seed could uncover what the stored cursor covers. |
| `RevisionsDoSurvive` | `GeotabFeed` | From the former and `VersionAssumption`: a version stands for one content of a record, and no version is like a hash. |
| `BacklogIsTold` | `GeotabFeed` | A page ends at the limit or where the feed does. |
| `LookupsAreExplained` | `GeotabFeed` | For types that are done every wanted name was found or asked for, and what was asked for is wanted by some record of the page. |
| `RetriesWhileItHelps` | `Backoff` | A delivery that goes on has no final answer and attempts left, one that is over has one or none left. |
| `JitterIsBounded` | `Backoff` | `CappedFits`: a shift whose product fits the width is that product, capped. Bits that are set above the low ones are exactly a product that is too great for them (`Overflow`, from `HighBit`), and the sign is not set (`WordSized`). `OwnDelayIntended` is then the comparison of the doubled base with the cap, and `Waits` the invariant that the wait under way is the one of this attempt. |
| `RequestsAreMet` | `Backoff` | The same of the seconds of a header (`AskedRequest`), whose form and sign decide between zero, the request and the cap; an own backoff is positive because the base is two units at least. |
| `AttemptsNeverPanic` | `Backoff` | A shift that fits has no sign (`NoPanic`). |
| `ConfigsRun`, `IntentIsKept`, `SecretsAreThere` | `Startup` | `StartInv`: what a start has in hand was loaded from a file (`Chosen`) and built from the entries so far (`Built`, `Progress`). One chain of lemmas per kind of entry goes from what is written, over defaults, secrets and `Validate`, to what its constructor asks for: none can refuse it, no ticker is given zero, and no field is dropped on the way. Where nothing is written the same chain ends at the entry that says no more than its type (`Bare`). |
| `SweepsAreExact` | `Startup` | `RowInv`: the stamp of a row is that of its time. The order of stamps is that of the times to within a millisecond (`StampOrder`), and a cutoff lags behind the clock. |

`OnlyRevokedIsStale`, `LoginsAreBounded`, `LoginsTakeTurns`, `CallsDoRunOut` and
`PacedIsClient` are not about a property of a run: the first two are steps on the way
to `RequestsAreBounded` and `RetriesAreFresh`, the next two are the safety half of
`CallReturns`.
`AttemptsNeverPanic` is about the property that `ManyAttempts` violates, under the
condition that run breaks.

**Assumptions** are those of the modules, named, and TLC evaluates them in every
run. Four of them say something of the world: `VersionAssumption`,
`RecordsAssumption` (a fault refers to one diagnostic), `SpellingAssumption` (no
record of a file has one field in two spellings) and `FilesAssumption` (a
file that the decoder takes has the types of the Go struct: lists, its keys, and
numbers where there are numbers). The others bound constants of the code.
The three theorems about waits have conditions of their own: `AttemptsFit` (the
base doubled by every attempt but the last fits the width) and, for one of them,
`HeadersFit` (so do the seconds asked for). The code
checks neither, and what happens without them is in 5. They are no
restriction to a toy: `ProgramAttempts` proves that with the second and the width
of the program `AttemptsFit` is `MaxAttempts <= 35`, exactly, so that
`ManyAttempts` is the first configuration to break, and `ProgramHeaders` that
`HeadersFit` is any number of seconds up to 512 * 2^24, which is 272 years.

**Induction.** The theorems of the library that do induction take a predicate as
a parameter and cannot be used with these provers. `Backoff` needs it for powers
of two, which are defined by recursion. `SetInduction` therefore states it of a
set: a set of naturals that has zero and every successor is all of them, because
`<` is well founded (`WellFoundedInduction`), and a proof by induction names the
set of the numbers for which its claim holds. That `Pow2` satisfies its own
equation (`Pow2Unfolds`) is shown by tables of powers up to `n`, which exist and
agree.

**Only model-checked:** liveness, because fairness and ENABLED are out of the
prover's reach: `DecisionsSettle`, `ShutdownCompletes`, `DrainsEnd` of `Pipeline`,
`CallReturns` of `GeotabPacing`, `RecordsAccounted` of `FileAdapter` and
`FeedIsRead` of `GeotabFeed`. What is finite about the first ones is proved:
`WorkersRunOut`, `PollersReturn` and `CallsDoRunOut` give a measure that every step
of a worker, a poller or a call lowers, so what `ShutdownCompletes`, `DrainsEnd` and
`CallReturns` need beyond them is that the next step is taken, which is the fairness
of section 3. Every safety property of a passing run has its theorem.

## 5. Where the code and its words differ

| run | what happens |
|---|---|
| `BehindTwoPollers` | `pipeline.go:93-95` says that above zero every enqueue waits. `dispatch` reads `behind()`, unlocks, and enqueues later; another poller can raise the counter and fill the queue in between, and a live event is dropped behind a backlog. |
| `Rewritten` | `docs/adapters.md:70-71`: a cursor advances never past records nobody looked at. `file.go:118` takes a file for another one only if it has fewer records than the cursor; a file that is rewritten between two polls and has grown to the cursor again is read from there, and its first records are passed over. `File` shows that nothing else is ever passed over. |
| `ManyAttempts` | `config.go:2-3`: a config that loads runs. `max_attempts: 36` loads; the 35th backoff shifts into the sign, and `rand.N` panics. |

Also met, and not given a run:

- `README.md:141-143` says that a destination that asks for a specific delay with
  `Retry-After` gets it. `webhook.go:146-151` reads the header of 429 and 503
  only: `FailPlain` of `Backoff` takes the own backoff for a 408 or another 5xx
  that carries one, and it may be sooner.
- `config.go:21` says that defaults are applied when a field is omitted.
  `applyDefaults` compares with the zero value (`config.go:222-268`), so a `buffer`,
  `max_attempts`, `timeout`, `poll_interval`, `results_limit`, `cache_refresh` or
  `dedupe_retention` that is written as 0 runs as its default too, and `Validate`,
  which asks for more than 0, never sees it. `IntentKept` says so of each of them.
- `pipeline.go:299` says that losing a cursor means a replay that dedupe absorbs. A
  signal in the middle of a page makes `MarkSeen` and `SetCursor` fail together, the
  rest of the page is delivered unmarked, and the next start delivers it again.
  `README.md:138` promises no more than that; `AtMostOncePerSource` leaves out a record
  that went out unmarked (`exposed`).
- `docs/adapters.md:772-773` says a record without a version is skipped;
  `geotab.go:427-430` hashes it.
- `geotab.go:147-148` says the limiter enforces the spacing of requests; the
  resend and the retry of `client.go` go out without it.
- `webhook.go:172` multiplies the seconds of a Retry-After before they are
  capped, so a number of seconds beyond an `int64` of nanoseconds wraps, and a
  destination that asks for centuries may be tried again at once.
  `RequestsAreMet` is therefore under `HeadersFit`.
- `limiter` says that it spaces calls at least `every` apart. It spaces their
  slots: two callers whose timers are seen late go one right after the other,
  and `GrantsPaced` is about their number by a time and not about the gap.
- `docs/schema.md:102-103` says of a key under the reserved prefix that
  "fleetnorm put it there". A record of a file that brings
  `fleetnorm.spn_out_of_range` along, as a tag or as an unknown field, passes
  (`event.go:123` lets known tags through), so that the tag does not prove that
  the number is out of range. `PrefixIsOurs` makes this exception.
- A field of a file that is called `fleetnorm.spn_out_of_range` becomes a tag, and
  `Annotate` writes over it if the number is out of range (`event.go:138`), so that
  the field is only left in `raw`; `docs/schema.md:91-92` says that no unknown field
  is discarded. The proof of `FieldsSurvive` found it, and the property now makes
  this exception.
- `README.md:134` and `docs/policy.md:168` say that every problem of a configuration
  is reported at once. That is so of `Validate`; what the decoder rejects ends the
  start before it, and a path that cannot be read is found after it, by
  `buildSources`, one adapter at a time.
- `README.md:138` says that delivery is at least once. `pipeline.go:357` marks an event
  before it is delivered, so a crash in between loses it (`CursorAccounted` counts
  it as a gap).
- `config.go:322` and `:372` give the two indices of a duplicate name the wrong way
  around.
- A `seed_from` of `0001-01-01T00:00:00Z` is the zero time, which `SeedFrom.At`
  takes for `0s`: the feed starts now and not at the beginning.
- JSON decoding does not look at the case of a key, and `knownFields` does: a
  `VIN` of a record becomes the `vin` of its event and a tag `VIN` as well. Both are in
  `Intake`.
- `pipeline.go:245` logs "starting from the beginning" for a cursor that cannot
  be read; for the geotab adapter that is the seed, not the beginning.
- `store.go:28` calls a dropped event never attempted; one whose drain window
  closes between attempts is dropped with attempts on it.

## 6. Not modelled, and the plan

Metrics, the HTTP server, the fixture generator and the scripts decide nothing
and keep no state that anything else reads. SQL is an interface here: each store
call does its work or fails as a whole; and so are YAML, JSON, TLS and template
text. Reading one's own audit rows (`AuditFor`) is for tests. The redaction of
secrets in `config.go` and the text of errors and logs are layout. A power cut that
takes the last commits with it (`store.go:71`) is outside: what is modelled is
the crash of the process.

The plan, in order; all of it is done:

1. `PipelineState`, `Poller`, `Worker`, `Pipeline`, `Ledger`: the core.
2. `PipelineProofs`: types, `OutstandingExact`.
3. `Router` with its proof, `Backoff`.
4. `GeotabClient` with its proofs.
5. `Adapter`, `FileAdapter` with its proofs.
6. `GeotabCache`, `GeotabFeed` with its proofs.
7. `GeotabPacing`: the limiter over `GeotabClient`.
8. `Config`, `Retention`, `Startup`.
9. `Event`, `Intake`; `classify` in `Backoff`; two pollers in one `Backlog`.
10. Proofs of the pipeline's other invariants and of the refinement, of
    `GeotabPacing`, `Intake`, `Startup` with `Retention`, and `Backoff`.
11. Measures for the workers, the pollers and the calls, with their proofs.
