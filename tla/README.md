# Lynceuz in TLA+

Lynceuz fetches public web pages for local use: one command (`url`, `extract`,
`crawl`, `search`) per process, evidence kept in a data root on disk, hard
limits on everything. These modules model the parts of it whose correctness
depends on the order in which things happen: the evidence store, the commands
that write to it, the interruption guard, the retry loops, the crawl, the
robots gate, the helper supervisor, the egress gateway and the guard proxy.
Paths below are relative to the repository root (`src/core.mjs` is the
repository's own `src/core.mjs`).

## The system

| Component | State it keeps | Operations | Made hard by | Correct when |
|---|---|---|---|---|
| Evidence store, `storage.mjs` | `runs/<id>/{job.json, attempts.ndjson, manifest.json}`, `objects/sha256`, `cache/requests`, `incomplete.json`, output files | `beginRun`, `putObject`, `appendAttempt`, `commitManifest`, `commitCache`, `readCache`, `publishOutput`, `recoverIncompleteRuns` | every operation is a chain of awaits; several writers; refused and failed writes; crashes; damaged objects | evidence precedes manifests, manifests precede cache entries, journals only grow, a run is sealed once |
| Executor, `core.mjs` (`createProductionExecutor`) | the job at hand | health, explain, route, recover, dispatch | what earlier processes left; which of five commands may run | nothing is begun without a reason, no predecessor is masked, every job is answered |
| Url command, `core.mjs` (`runUrlJobLegacy`, `finishCacheHit`) | the draft of one run: cached record, source, artifact, manifest | lookup, fetch, derive, accept, commit, index, publish | another process on the same root; failure at any await | the exit code agrees with the files |
| Interruption guard, `core.mjs` (`createInterruptionGuard`) | armed / claimed, the deadline timer | first signal or deadline claims, append, commit, exit | runs beside the pipeline it interrupts and cannot stop it | always a manifest and an exit |
| Native attempt loop, `core.mjs` (`runNativeAttempts`) with `adapters/native-http.mjs` | deadline, timeline, retries and rate-limit retries used | attempt, finish, decide, sleep | late callbacks and timers; alternating kinds of failure | budgets, Retry-After and deadline kept |
| Bounded crawl, `frontier.mjs` | frontier, seen set, five ledgers, limit, shared budgets | enqueue, dequeue, gate, pace, start, join, fold, drain | pages run side by side and settle in any order; abort and deadline at any await | every page accounted for, caps kept, `ok` means complete |
| Crawl and extract commands, page pipeline, `core.mjs` (`runCrawlJob`, `runExtractJob`, `runUrlPipeline`) | one run, collected artifacts | begin, pages, ledgers, seal, publish | no guard; pages share one run directory and may store the same body | the manifest covers what was found; what returns is sealed |
| Robots gate, `robots.mjs` | cache with time to live and eviction, requests in flight | check | concurrent checks of one origin, late answers, retries, aborts | decided by its own origin's fresh answer, or refused |
| Egress gateway, `network.mjs` | the hops of a call, its permit, a connection | resolve, permit, connect, redirect | DNS that changes, redirects, aborts | no connection to an address that is not public |
| Guard proxy, `browser-security.mjs` | open tunnels, sockets | request, CONNECT, close | either side closes at any moment, seen or unseen | every place comes back once |
| Route planner, `router.mjs` | candidates, retries of the one at hand | plan, run, decide | contract breaches, retries, missing adapters | verdicts are final, tries bounded |
| Search, `search.mjs` | scrape plan, what was scraped | ask, normalise, scrape in turn, seal | provider or child failing midway, signals between children | partial is reported as partial |
| Process supervisor and helpers, `process.mjs`, `adapters/python-helper.mjs`, `adapters/playwright.mjs` | a child's group, stop reason, scratch file | spawn, terminate, settle, store, clean up | timeout, flood, abort and close race; node may end first | a stopped group that node may signal is dead, one outcome, nothing left in scratch |
| Formats, policy, contracts, containment, cloud gate, CLI | none | pure checks | — | — |

How they interact. `lynceuz.mjs` wires one executor. It runs
`recoverIncompleteRuns` before any command touches the store, then calls the
command. Commands call the store through promises; they share nothing else
between processes than the data root. Inside a url process the guard and the
pipeline share the event loop and the run directory; inside a crawl so do the
pages of a batch. The crawl asks the robots gate before it starts a page's
pipeline, each pipeline runs its attempts through `runNativeAttempts`, whose
callbacks write to the store, and hands what native cannot accept to the Python
helper. Robots gate, native adapter and guard proxy all reach the network
through the egress gateway.

## Modules

| Module | What it is | Built on |
|---|---|---|
| `RunLedger` | abstract: a run is begun once, sealed once, never unsealed; only a sealed run is served | |
| `EvidenceStore` | the store under arbitrary callers, one operation in flight per writer | refines `RunLedger` |
| `UrlJob` | url processes on one data root, with their guards | `EvidenceStore` |
| `CrawlCommand` | crawl and extract: a main chain and one chain per page | `EvidenceStore` |
| `SearchRun` | the search command | `EvidenceStore` |
| `RouteLoop` | planner, transition table and model route | |
| `Executor` | one process, one job of any kind, after an earlier process | `CrawlCommand`, `SearchRun`, `RouteLoop` |
| `NativeAttempts` | the retry loop, with a clock | |
| `Crawl` | `runBoundedCrawl`, with a clock, budgets and ledgers | |
| `RobotsGate` | the gate's checks and cache, and how a robots.txt is read | |
| `HelperRun` | one helper run: adapter, supervisor, process group, node | |
| `Egress` | calls of the gateway | |
| `GuardProxy` | the proxy's handlers and sockets | `Egress` |
| `MC...` | instances for TLC | |
| `EvidenceStore_proofs`, `NativeAttempts_proofs`, `GuardProxy_proofs`, `HelperRun_proofs`, `Crawl_proofs`, `RobotsGate_proofs` | theorems | the module of the name |
| `UrlJob_proofs` | theorems | `UrlJob`, and the theorems of `EvidenceStore_proofs` |
| `Executor_proofs` | theorems on the executor, the route, the search and the crawl and extract commands | `Executor`, and the theorems of `EvidenceStore_proofs` |

Operators named *Faulty* in a comment are plausible mistakes in the definition
that follows them. They are used by no specification; they are there to show
that each property can be broken by the code it speaks of.

### EvidenceStore

State: the files, one variable per kind (`jobs`, `journals`, `objects`,
`manifests`, `cache`, `report`, `outputs`), seen through one request
fingerprint, and `op[w]`, the operation writer `w` has in flight. An atomic
write is three steps, as in `atomicWriteBytesInternal`: the operation's
validation (`CreateJob`, `PutNew`, `CommitManifest`, `CommitCache`, ...), the
immutability check and the flushed temporary file (`Stage`, or `Refuse`), and
`Rename`, which replaces whatever is there. `WriteFails` is an I/O error before
the rename; a write may also reject after it, in the `chmod` or in the flush of
the directory, with the target in place. The store itself cannot tell that from
a write that succeeded; its callers can, and `WriteRejects` is what they learn
of. A journal append is one step to open and one to land, and may fail
or be cut. `Crash(W)` kills the writers `W` and decides for each line being
appended whether it was lost, torn or whole. `Damage(o)` makes a stored object
stop hashing to its name, as `verifyFileHash` expects it might.

Abstractions: an object is its content's name and a manifest's hash is the
manifest itself (hashes are injective); a journal is the set of hashes it
mentions and whether a line is torn; path validation, permissions, symlink
checks and canonical JSON are left out.

### UrlJob

`pc[r]` names the await at which the main chain of run `r` is; `guard[r]` is
the guard's own control state, `exit[r]` the process's exit. The chain follows
the code from `Launch` through `Scan`, `LookUp`, `Begin`, the attempt
callbacks, derivation, the local parser, to `Seal`, `Index`, `Publish` and
`Return`. A recovery whose scan or report fails is swallowed and leaves the
process `unrecovered`, from where it looks up as if nothing had been found; a
put that is refused or fails in the parser leaves the helper as `BROKEN`
(`Unparsed`). The guard goes from `armed` to `claimed`, notes the termination,
commits and leaves, swallowing the errors of both writes. `Fault` gathers disk
errors where the code treats them specially; elsewhere they reject the pipeline,
whether the file is in place (`WriteRejects`) or not.
`Kill` is SIGKILL.

The attempts of a fetch are collapsed to the last one, the parser's artifacts
to one, and freshness of a cache entry is a choice. `transform` journal lines
carry no hash and differ only in their order.

### CrawlCommand

`pc` is the await of the main chain, `page[p].pc` that of page `p`'s
`runUrlPipeline`; each is a writer of the store. `StartPage` fills a batch of
at most `Concurrency` pages, `Join` is `Promise.all`, after which either another
batch starts or the ledgers are put, the manifest drafted (`Draft`), committed
(`Seal`) and the output published. An extract is the same with one page, which
it awaits itself and whose rejection is its own. A page captures its body
(`CaptureKnown`, `CaptureNew`), writes its finish line, derives a projection,
is judged, and may go to the parser and to the browser that is not there. A put
that is refused crashes the page while its body is captured, and is caught
while it is projected or parsed. Here, in
`SearchRun` and in `Executor` disk errors come before the rename (`WriteFails`);
one that comes after it, as in `UrlJob`, would end the same chain with its file
in place.

`putObject` is called for one extracted artifact per page; the helper's five are
counted in `HelperRun`. What the crawl decides between pages is `Crawl`'s; here
any page may start while the command is at its pages.

### SearchRun, RouteLoop and Executor

`SearchRun` computes the scrape plan from what the provider answered, scrapes
one candidate after the other and seals. A child is one step (its run is
`UrlJob`'s). `RouteLoop` keeps the outcomes so far (`route.runs`) beside the
adapter at hand and its retries; `Transition` is `decideTransition`, with codes
that it treats alike merged, and outcomes whose kind contradicts their code are
among its inputs.

`Executor` holds the process: `ToRoute`, `StartRecovery` / `NoRecovery` /
`EndRecovery` / `RecoveryFails`, and the command that runs. It begins on a store
that an earlier process may have left with an unsealed run and damaged objects.
A `url` job leaves this module; `UrlJob` has it.

### NativeAttempts

Each await of the loop has an instant at which it is due and ends at most
`Slack` later. Outcomes are grouped by how `retryDecision` treats them:
`transient` (network, timeout, 5xx), `rate_limited` with the delay asked for,
and the rest. `Start`, `Run`, `Finish`, `Return`, `Abandon`, `Sleep`, `Wake`
and `Expire` are the segments of the loop between awaits.

### Crawl

The frontier and the ledgers are kept as in the code (the five ledgers as one
sequence, whose order nothing reads). `Follow` enqueues the links of a page one
after the other, as a recursive function of how many were taken. A segment of the loop between two awaits
is one or more actions; only where the code awaits (the robots gate, the pacing
sleep, the join) can time pass, the signal abort, or a page settle. `Settle`
gives a page any outcome, up to the retries it was allowed, and as many
redirects per attempt as it was allowed; usage is reported only by accepted
pages. A page is charged by its timeline: a pipeline that rejects has none, so
what it `retried` and what it is `charged` differ. `retriesUsed` is the figure of
the code; `retried` and `uncharged` are histories of what really happened. The sitemaps of robots.txt are taken up with the first page the gate
allows (`announced`), if they are a source of the job at all. URL parsing and globs are two sets, `Included` and `Excluded`.

### RobotsGate

`cache` is the Map in its insertion order, so a hit moves its entry to the end
and the first entry is the one evicted. `check[c]` is a check at its await: the
fetch, the sleep before a retry, or the reading of the body. Where the code
stores an instant the model stores how long ago it was, and stops counting where
no comparison can tell. A reply carries its origin and its age as history. A
robots.txt is a sequence of lines, each an agent line, a rule or another
directive. An agent is the length of its token if ours contains it, so at most
`TokenLength`, or 0 for `*`. `Groups` reads the lines one by one (`WithLine`), `Rules` joins the
groups that `SelectGroups` picks, and `Winner` goes through the rules once, each
as a recursive function of how much was read; how one pattern matches a path is
a constant.

### HelperRun

`pc` is the run as the adapter and the supervisor see it, `group` the process
group they started, `node` whether node itself is still there. `Terminate` keeps
the first reason and starts one `killProcessTree`, whose `Grace` ends with
SIGKILL. A render is launched through `sudo` under a user of its own
(`process.mjs:78-89`), and what goes wrong with a kill is swallowed: `foreign`
says that node is not root, may not signal that group, and `Grace` leaves it as
it is. `Cleanup` may fail to remove the file, which is swallowed too. A spawn
may fail at once or through the `error` of a child that never was
(`NeverStarted`), which comes before any reason to stop. The group's actions (`Write`, `Say`, `LeaderEnds`, `Fork`, `RestEnds`)
go on whatever becomes of node, since it is detached. `Interrupt`, `Exit` and
`LoopDrains` are the ways node can end first.

### Egress and GuardProxy

`call[c]` is one call of the gateway. A hop resolves (`Authorize`), connects
(`Connected`) or is redirected (`Redirect`); `Fails` is any error. DNS answers
with any set of addresses, anew at each hop. In `GuardProxy` each call has a
client socket and a handler. A handler that waits is woken by the first `close`
it can see; one that happens before it waits is not seen, as with `once`.

## Runs

| Run | Instance | Shows |
|---|---|---|
| `Store` | 2 runs, 2 objects, 2 writers, an ok and an interrupted manifest for one run and an ok one for the other; either manifests and cache entries of any of them, or everything but the cache with one object | `EvidencePresent`, `CacheBehindManifest`, `JournalsOnlyGrow`, and `KeepsLedger`, the refinement of `RunLedger` |
| `Url` | 1 process with all cache modes, parser, output file and disk errors; or 2 at once, at most one of them interrupted or killed, without recovery reports, and with the parser of one only beside the body of the other; 2 objects, either of which the parser may store | `ExitMatchesManifest`, and `JobsKeepLedger`, the refinement of `RunLedger` |
| `UrlSeq` | 2 processes in turn, 1 object, fair | `JournalBehindObjects`, `ReportNamesEveryCrash`, `EveryProcessEnds` |
| `Attempts` | 3 retries, wall 7, attempt 3, cap 3, delays 0, 2 and 9, slack 1 | `BudgetKept`, `RetryAfterHonoured`, `EndsNearDeadline`, `GivesUpForAReason`, `LoopReturns` |
| `Crawl` | 6 pages, 5 in scope, 4 admitted, frontier 2, depth 2, 4 bytes, 2 at once, 1 retry, with the sitemap or without, abort, late timers, fair | `EveryPageAccountedFor`, `LinksAccountedFor`, `CapsKept` (pages, frontier, depth, bytes, retries, side by side), `OkMeansComplete`, `PagesArePaced`, `CrawlEnds` |
| `RobotsGate` | 2 callers, 2 origins, 1 cache entry, ttl 1, timeout 2, 1 retry; all robots.txt of up to 4 of 8 lines | `DecidedWhileFresh`, `RulesByTheBook`, `CacheSound`, `EveryCheckReturns` |
| `HelperRun` | one run of each operation, a parse with and without a signal, a render of its own and of another user | `StoppedMeansDead`, `ScratchCleared`, `OutcomeTellsWhatHappened`, `EveryRunReturns` |
| `GuardProxy` | 2 clients, 1 place, 3 allowed URLs and a refused one, a public address and a private one, 1 redirect | `PolicyKept`, `PlacesCounted`, `EveryPlaceComesBack` |
| `Executor` | 1 process, jobs of every kind, 2 registries, 2 pages with 2 bodies, a projection and a parser artifact, 2 route retries, 3 provider answers | `PredecessorReported`, `VerdictsAreFinal`, `TriesBounded`, `StatusTells`, `SearchHonest`, `SealedIsFinished`, `JournalBehindObjects`, `LostPagesHaveTwins`, `EveryJobEnds` |
| `UrlInterruptedCached`, `UrlHitReported`, `CrawlRedirects` | as small as the story allows | violations, see below |

The type invariant of a module is a conjunct of one of its invariants
(`CapsKept`, `CacheSound`, `ExitMatchesManifest`, ...); those of the store and
of the retry loop are the theorems `StoreTyped` and `LoopTyped`.

Why the bounds are enough. The store's races need two writers on one target:
two runs let one be served while the other is sealed, and two objects tell
source from artifact. A third writer adds no new pair of steps on one file, and
the theorems hold for any number. Two url processes give a lookup something to
find and a recovery something to report; `UrlHitReported` needs a third. Three
retries and delays below and above the cap let rate limits and transient
failures alternate in every order within the wall limit. The crawl's site has a
page linked twice, a cycle and an excluded page. Without its sitemap four pages
are in scope for four that are admitted, so a crawl may be complete and report
`ok`. The sitemap announces a fifth, and each cap may be the one that cuts
first: if the far page fails, the last of the others is one too many; if it is
accepted beside the seed, the two show more than the frontier takes; if the
seed fails, what the far page shows lies at the depth of two and links deeper;
two bodies exceed the bytes; and the deadline and the abort fall at any await.
Four starts and one retry let two pages reject uncharged, so that the retries
really exceed their budget. With two origins and one place in the robots cache every
remembered answer evicts, and two callers overlap on one origin; three agents
with different tokens and rules that tie, in four lines, make groups open, join
and close in every order. Two clients and one place make the second tunnel wait
for the first. Two pages captured side by side with one body are the race of
`storage.mjs:783`; a third would only repeat it. Two retries, three candidates
and all eight codes, in and out of contract, reach every row of the table.

`CHECK_DEADLOCK` is off where the system stops: processes exit, the loop
returns, the crawl is done, and the store's runs are used up. `Executor` keeps
it on, with `Exited` as the only step of a process that has answered. Symmetry
is used for writers, runs and objects only in runs without liveness. The
constraints of `MCEvidenceStore` and `MCUrlJob` split their instances in two, as
the table says, to keep them small.

### Where the code and what is said of it differ

* `UrlInterruptedCached`. `core.mjs:31` says an interruption "commits exactly
  one interrupted manifest (never a cache record)". The guard cannot stop the
  pipeline: the gateway has no `abort`, the guard's signal is passed to nothing,
  and the parser is called without one. While the guard appends its line the
  pipeline may commit an ok manifest and the cache entry, and the process then
  exits as interrupted.
* `UrlHitReported`. The journal line of a cache hit carries `manifest_hash`;
  recovery takes any `_hash` for an object, finds none, and reports a killed hit
  as corrupt instead of incomplete.
* `CrawlRedirects`. The redirect budget is not spent once: each attempt of a
  page gets it anew, and a failed attempt reports none of its redirects.

None of these breaks the ledger: `JobsKeepLedger` holds with all of them.

Other things met on the way, which no run is spent on, most of them because the
repository makes no statement to check:

* `storage.mjs:469` refuses to replace an immutable file, but check and rename
  are different awaits, so the manifest of the guard can be replaced by the
  pipeline's or the other way round. A replaced manifest is still a manifest of
  its run with its evidence stored (`EvidencePresent`).
* The same race makes one of two crawl pages with one body fail as
  `IMMUTABLE_FILE`. `LostPagesHaveTwins` says this is the only way a page is
  lost without a disk error or damage, and what it was putting is in the store:
  another page of the batch put it, as its body, its projection or its artifact.
* When the guard exits, a helper that is running survives with its scratch file.
* The retry budget of a crawl is not spent once either, although
  `p0-acceptance.test.mjs:723` says so: `frontier.mjs:551` turns a pipeline that
  rejects, say by a refused put of its second attempt, into a result without a
  timeline, which is charged nothing, and its retries are handed out again.
  `CapsKept` says what is left of the bound: one more budget for each page that
  rejected so.
* A kill that fails is swallowed (`process.mjs:174`, `182`). For a render under
  another user, with a node that is not root, both signals fail: a hung browser
  keeps the run waiting for its `close` after timeout, abort and grace
  (`HangsOn`), and one that gave up its pipes survives the run.
* A failed removal of the scratch file is swallowed (`unremoved`).
* In the grace after a stopped child has closed only an unref'd timer is left;
  node may end with the run pending (`LoopDrains`).
* In the guard proxy, a client that goes away while its tunnel is being opened
  keeps its place until the deadline; the body of a plain request whose client
  went away is only paused; a CONNECT client that resets early has no `error`
  listener (`ClientResets`).
* In production `runModelRoute` is given no adapters, so an eligible candidate
  other than native ends as `internal_error` (`NoAdapter`).

## Fairness

* `UrlJob`: weak fairness of *main chain or guard* of each process. A live
  process has an event loop that resumes some chain whose await has settled; it
  does not promise which. Disk errors, signals and kills are not fair.
* `NativeAttempts`: the awaits settle (the adapter is bounded by its timer) and
  the clock advances.
* `Crawl`: the loop's own steps, the clock, and *some* page settling. Pages are
  bounded by their own deadline, which is what `NativeAttempts` shows.
* `Executor`: weak fairness of *some* step of the dispatch or of the command at
  hand, for the same reason as in `UrlJob`; faults are not fair.
* `RobotsGate`: the clock, the check's timer, the end of its sleep, and the
  rejection of what was aborted. The site owes no answer; the sleep is the
  injected one, which need not listen to the signal.
* `HelperRun`: what node does while its loop lives. The helper owes nothing: it
  may hang, flood or ignore SIGTERM. SIGKILL ends a group that node may signal;
  of a foreign one nothing is assumed, so `EveryRunReturns` excuses a render
  whose group hangs on for ever, and nothing else.
* `GuardProxy`: woken handlers, timers, and the rejection of aborted calls.
  Clients and upstreams owe nothing.

## What is proved

For every value of the constants, checked by TLAPS.

The store (`EvidenceStore_proofs`), from `StoreAssumption` only: `StoreTyped`, `ManifestsHaveEvidence`,
`CacheFollowsManifests`, `JournalsAreAppendOnly` and `StoreImplementsLedger`.
None of the properties is inductive, because an operation validates in one step
and writes in another. The invariant `Inv` adds `InFlight(w)`: what a writer has
in flight is still justified when it lands. A manifest about to be written names
stored objects and a begun run, since objects and jobs are never removed; a
cache record about to be written is bound to a run that is sealed, since
manifests may be replaced but never removed; a journal about to be created does
not exist. The last needs `OneCreator`: a run's files are created by one
writer, because its directory's name is unique to the call. The ledger
refinement then follows step by step: a `Rename` of a job, of a first manifest
or of a cache entry is a ledger step, everything else is invisible.

The retry loop (`NativeAttempts_proofs`), from `LimitsAssumption`:
`LoopTyped`, `LoopKeepsBudget`, `LoopHonoursRetryAfter`,
`LoopEndsNearDeadline`, `LoopGivesUpForAReason`. The invariant counts entries
against retries used at each await (`Counted`, `RateCounted`), places the clock
relative to the await and the deadline (`Timed`), and relates the next start to
the last entry (`Spaced`). The bound of three late awaits after the deadline is
the sum of what `Timed` allows from the start callback to the finish callback.

The executor (`Executor_proofs`), from `ExecutorAssumption`,
`CommandAssumption`, `SearchAssumption`, `RouteAssumption` and
`StoreAssumption`:

* `SealedRunsAreFinished`, `JournalStaysBehind` and `PredecessorsReported` follow
  from `EInv`. Each chain of awaits has one operation in flight at most, and its
  program counter says which file and, where it matters, which value (`MainHands`,
  `PageHands`). What a chain remembers of the store is there: a page's source and
  what it found (`PageInv`), the draft and what was collected (`MainInv`), what
  the journal mentions (`RefsInv`). Where the dispatch stands says what may be on
  disk (`DispatchInv`, `FilesInv`): a report was written before the run was
  begun, so it cannot name it. `PageKeepsInv` and `MainKeepsInv` then show once
  that a step of one chain leaves the others' facts alone, and each action only
  has to be shown to be such a step (`PageGoes`, `MainGoes`).
* `LostPagesAreStored`: a page that loses its put loses it to another page of its
  batch. `Story` tells from what a page remembers all that it has put or found;
  a page whose put is about to be refused was overtaken by one whose story has the
  object (`TwinInv`).
* `SearchesAreHonest`: lemma `PlansAreFair` says what the loop over the
  provider's answer computes, for an answer of any length: after `n` results,
  the list has the first mentions among them in order (`Lists`), and cutting it
  gives the first `ScrapeResults` of them. `SearchInv` follows the run from there.
* `RouteVerdicts`, `RouteTries` and `RouteStatus` of the route by itself, and
  `RoutesOfTheExecutor` of the route as the executor starts it. While the route
  runs or sleeps, its last outcome could be resumed and was handed to the adapter
  that the transition said (`LastResumes`), and the last `retries` runs are those
  of the adapter at hand (`TriesAtEnd`): otherwise a window of outcomes could not
  be bounded by a counter that is reset. The status is the one of the last
  outcome, or tells that there was none.
* `ExecutorCallsStore`: the executor is a caller of the store. What a chain hands
  to the store has the right shape by `EInv`; the run of a search's child is the
  one step that is not the executor's own, and it only adds an object. So the
  store's invariant holds on whatever an earlier process left:
  `ExecutorKeepsEvidence`, `ExecutorKeepsJournals` and `ExecutorKeepsLedger`.

The guard proxy (`GuardProxy_proofs`), from `EgressAssumption` and
`ProxyAssumption`: `ProxyKeepsPolicy` and `ProxyCountsPlaces`. The first says of
each call alone what it carries from hop to hop (`Lawful`): the hops are
distinct and allowed, those after a secure one are secure, a selected address
belongs to the answer of this hop, which is public as a whole. The second ties
the count to the handlers that hold a place and each call to what its handler
may be doing (`PlacesInv`), so that a call that is cut from either side, or that
never opened, leaves the set of holders exactly when the count goes down.

The helper run (`HelperRun_proofs`), from `NothingAssumption`: `HelperStops`,
`HelperClearsScratch` and `HelperTellsTheTruth`. The invariant `HInv` reads the
run by its `pc`: the first reason and the list of reasons agree (`StopAgrees`),
the group is what that point of the run has let start (`GroupFits`), a signal is
one the adapter listens to or has acted on (`SignalFits`), and once settled the
outcome follows from reason, sayings and artifacts (`Settled`).

The url processes (`UrlJob_proofs`), from `JobAssumption` and `NamesAssumption`:
`JobsUseStore` shows that every step of a main chain, of a guard or of a death
is a step of `EvidenceStore` or leaves the store alone, for any number of
processes. The store only takes manifests, records and lines of the right shape;
that a chain has them in hand is `Fits`, what its memory holds at each await.
The theorems of the store then carry over: `JobsKeepEvidence` and
`JobsImplementLedger`. `JobsKeepJournals` adds that what a chain will mention in
its next line was stored when it learned of it (`Known`), and so is what the
lines in flight mention (`LinesKnown`). `ExitsMatchManifests` follows each run by
itself: which file its main chain and its guard have in hand at each await
(`Hands`, `GuardHands`), that only these two write a manifest or an output of the
run (`Apart`), and what is on disk when one of them goes on (`Committed`) or the
process exits (`Left`). While the guard is off or armed the pipeline's manifest
stays what it wrote; once it has claimed, all that is left is that there is one.
`ReportsNameEveryCrash` is about processes that run in turn, so its hypothesis
is `MaxLive = 1`, as in `UrlSeq`: with two at once an older scan may land last.
A process goes on without a report when nobody died, or as `unrecovered`, which
only a failed scan or a failed report makes it. A scan in flight then still covers every run that crashed (`RInv`).

The crawl (`Crawl_proofs`), from `CrawlAssumption`, in two halves. `CrawlPaces`
and `CrawlKeepsCounts` do not look into the frontier. `PaceInv` says of a page
that waits for its start that the caps let it through and that the clock is at
most one late timer past the planned start, from which the next one is planned.
`CountInv` says who may spend retries: the first page of a batch is given all
that remain and the others none, so that what the pages in flight may still be
charged, with what was charged, never exceeds the budget, and what was really
retried exceeds what was charged by one budget at most for each page that
rejected.

`CrawlAccountsForPages`, `CrawlAccountsForLinks`, `CrawlOkIsComplete` and
`CrawlKeepsCaps` are about the books. The pages that run, the one in hand and the
frontier are one line (`Ahead`, then `queue`). `Orderly`: nothing is in the line
twice or once it was visited, and what is nearer comes first. `Level`: the line
spans at most one hop, and nothing known lies beyond it, which is what makes the
first depth recorded of a URL its least. `DoneFor`: each link of an accepted page
is in the line or listed, no deeper than one hop below the page. `Core` holds the
three together and is kept by every turn of the books: dequeue, enqueue of one
link, a whole `Follow` by induction over the links taken, a page that leaves the
line for the ledger. When the crawl is done the line is empty, so everything is
listed. `BudgetInv` bounds the bytes: each page in flight may still bring one
body, whose size is limited (`PageBytes` has a greatest element), and none is
started once the cap is reached.

The robots gate (`RobotsGate_proofs`), from `GateAssumption`:
`GateDecidesFresh` and `GateCacheSound`. A reply is never older than its check
has been running (`Own`), and the check's timer bounds that; an entry is stamped
when it is remembered, so while it is served its answer is older than the entry
by at most that bound (`Fair`). Deleting before appending keeps one entry per
origin (`WithoutKeeps`, `AppendKeeps`), whatever other checks of the origin have
remembered in the meantime. `GateReadsByTheBook` says, for every robots.txt, that
the one-pass parser and matcher decide as `Permits` does, whatever the order of
the lines: after each line the groups read so far are what the lines so far say
(`Sofar`: whose rule each line
is, whether the last group is still open, which agents it has), tokens are at
most `TokenLength` so that the longest one named exists, and the winner so far
is a most specific one of the rules so far.

How recursion is reasoned about: the recursive functions of the models are
functions on `0..n`. That one exists is shown for the set of `n` for which it
does, by well-foundedness of the naturals (`Least`, `Induction`, and the `...Exists`
lemmas of each module); what it computes is shown the same way. No module uses a
`RECURSIVE` operator.

Every safety property of the passing runs is a theorem. Model-checked only are
the seven liveness properties (`EveryProcessEnds`, `LoopReturns`, `CrawlEnds`,
`EveryCheckReturns`, `EveryRunReturns`, `EveryPlaceComesBack`, `EveryJobEnds`):
the prover does not reason about fairness and `ENABLED`.

## What the plan has left

1. `Crawl` with `RobotsGate` in place of its verdict, and `CrawlCommand` with
   `Crawl` in place of its free choice of pages.
2. Url children of a search with runs of their own.
3. Hazards that have no property yet: each url child of a search is given the
   search's whole limits anew (`search.mjs:112`); one cut line hides the lines
   before it from recovery (`storage.mjs:897`); a scan that finds nothing leaves
   an older report in place (`storage.mjs:1005`); the last of two fetches to
   publish its cache entry wins, not the last to fetch (`core.mjs:1376`).

## Not modelled, and why

Format detection, projections, URL and address policy, pattern matching in
robots.txt, the contract checks of the CLI and the cloud gate are pure functions
without state. Fresh and expired cache entries are a choice, not a clock.
Browser containment receipts and launch plans describe the host; the browser is
third-party. Decompression and header rules of the gateway change no control.
