# Verification of the MobyDB render engine

TLA+ models of the render engine's write path, read path, Merkle proofs, demo
rate limiter, key cache, dispatcher, demo page with its overlays, and latency
benchmark, the TLC runs that check them on small instances, and theorems that
TLAPS checks for every instance.

Paths below are relative to the repository root.

## 1. The system

| Component | Code | State | Operations |
|---|---|---|---|
| Seeder | `crates/seed-data` | the parent root in memory, one open transaction | seal the epochs 0 .. EPOCH_COUNT-1, one transaction each |
| Epoch tables | `migrations/0001` | rows of `epochs`, `cell_states`, `attestations` | keys, foreign keys (RESTRICT, CASCADE), row-level security |
| Operators' scripts | `scripts/ops`, `fixtures/osm/fetch.py` | the fixture file, one open transaction | clear everything and reseed; clear epoch 0; refresh the fixture |
| Store reads | `crates/mobydb-client/src/postgres.rs` | a connection pool | `get_provenance`, `query_cells_in_region`, `latest_epoch`, ... |
| Merkle proofs | `crates/mobydb-client/src/merkle.rs`, `demo/verify.js`, `scripts/clients/typescript/client.ts` | the layers of one tree | `proof_for`, `verify_proof`, `reconstructRoot` |
| Tools | `crates/render-core/src/tools.rs` | none | `render_viewport`, `get_provenance`, `verify_attestation`, ... |
| MCP server | `crates/mcp-server/src/http.rs`, `mcp.rs`, `tools.rs` | none between requests | authenticate, limit, dispatch single requests and batches |
| Demo rate limiter | `crates/mcp-server/src/rate_limit.rs` | window start and count under a mutex | `check` |
| Authentication | `crates/mcp-server/src/auth.rs` | cached key set under an async mutex | `authenticate`, `get_jwks` |
| Lab client | `crates/lab-client` | a second, read-only pool | `fetch_signed_predictions`, `list_cells_for_model` |
| Demo page | `demo/app.js` | map source, selection, epoch, last abort controller, shared state and event bus | refresh cells, click a cell, move the slider, verify |
| Overlays | `demo/lab_*.js`, `liveness_indicators.js`, `compliance_*.js`, `twin_overlay.js`, `cuneo_overlay.js`, `ai_observer_ticker.js` | caches, timers, dialogs, in-flight requests | react to bus events, poll other services |
| Benchmark | `scripts/bench/p99.mjs` | samples, errors, calls in flight | launch, await, report |

How they interact:

- The seeder and the operators' scripts share nothing but the database: they
  meet in row locks, in the primary keys and in the foreign keys.
- The server reads the same tables, with READ COMMITTED transactions and
  without locks. A call of several statements sees several states.
- The tree of an epoch is built three times: by the seeder, which stores its
  root; by the server, from the stored hashes; and, along one path, by each
  client. Nothing but the code keeps the three in agreement.
- Calls of the server run concurrently and share the limiter's mutex, the key
  set's mutex and the pools.
- The page sends requests and paints the answers in the order they arrive;
  the overlays listen to its bus and send requests of their own.

What is hard, and what makes each part correct:

- *Seeder, tables, scripts*: interleavings of statements, crashes between any
  two of them, lock cycles, a fixture that changes between runs. Correct means
  that a reader finds a log of whole epochs, each under the root of its cells
  and linked to the one before, that a run which finishes leaves a complete
  log, and that every script ends.
- *Store reads*: the store changes between the statements of a call. Correct
  means that a bundle verifies, that its attestations belong to its cell, and
  that errors are not made of existing rows.
- *Merkle proofs*: odd layers, positions, depth. Correct means that the stored
  record verifies, that nothing else does, and that no index panics.
- *Limiter*: the clock is read outside the mutex; windows roll; answers are
  rounded. Correct means that bursts are bounded, that nobody is refused
  below the limit, and that a refused caller who waits is served.
- *Page and lab overlay*: answers come in any order, while the view, the epoch
  and the panel they were asked for have changed; aborts; a debounce timer.
  Correct means that a map at rest shows what the user looks at, that the
  overlays see what the map shows, and that panel, verdict and lab section are
  about the same cell and do not load for ever.
- *Key cache*: a set that grows old, a mutex held over a fetch, a provider that
  hangs, callers that disappear. Correct means that no caller is handed a set
  older than the configuration allows, and that nobody waits for ever.
- *Dispatcher*: items of a batch with and without an id, unreadable ones, tools
  that fail. Correct means that each item that is owed an answer gets one,
  under its id and in order, and that a refused request runs no tool.
- *Other overlays*: each awaits a service of its own while the user closes and
  reopens its dialogs and the page re-renders the panel; each has timers.
  Correct means that what is shown is about what it stands beside, that no
  timer is lost or doubled, and that nothing is left loading or disabled.
- *Lab verifier*: exactly the records signed through a chain from the trusted
  root are accepted.
- *Benchmark*: every call is counted once.

`PROJECT.json` lists the components with their status and the hazards with
their lines.

## 2. Modules

| Module | Models | Extends |
|---|---|---|
| `EpochTables` | the rows, roots and batches that the programs compute | |
| `EpochLog` | abstract: what the tables promise a reader | `EpochTables` |
| `EpochStore` | seeder, reseed, hotfix and fixture refresh over the tables | `EpochTables` |
| `EpochStoreProofs` | theorems about `EpochStore`, and that it implements `EpochLog` | `EpochStore` |
| `StoreReads` | the server's reads beside those writers, and attestations | `EpochStore` |
| `StoreReadsProofs` | theorems about `StoreReads` | `StoreReads`, `EpochStoreProofs` |
| `MerkleProof` | `merkle_root`, `proof_for` and the verifiers, loop by loop | |
| `MerkleTheorems` | theorems about `MerkleProof` | `MerkleProof` |
| `RateLimiter` | `DemoRateLimiter::check` | |
| `LimiterTheorems` | theorems about `RateLimiter` | `RateLimiter` |
| `DemoPage` | `demo/app.js`: map, slider, clicks, audit panel | |
| `DemoPageProofs` | theorems about `DemoPage` | `DemoPage` |
| `LabOverlay` | `demo/lab_overlay.js` beside the page | `DemoPage` |
| `LabOverlayProofs` | theorems about `LabOverlay` | `LabOverlay`, `DemoPageProofs` |
| `JwksCache` | `get_jwks`: the key set behind its mutex | |
| `McpDispatch` | `POST /mcp`: authentication, batches, replies | |
| `ServerProofs` | theorems about `JwksCache` and `McpDispatch` | those two |
| `CuneoOverlay` | `demo/cuneo_overlay.js`: stations, dialogs, verification | |
| `TwinOverlay` | `demo/twin_overlay.js`: layer, panel section, AI dialog | |
| `ComplianceOverlay` | `demo/compliance_overlay.js`: tiers and colours | |
| `BundleButton` | `demo/compliance_button.js`: dialog and download | |
| `LivenessIndicators` | `demo/liveness_indicators.js`: probes, strip, notices | |
| `ObserverTicker` | `demo/ai_observer_ticker.js`: pool, releases, typewriter | |
| `TilePreview` | `demo/lab_tile_preview.js`: trigger, modal, cache | |
| `LabVerify` | `demo/lab_verify.js`: the chain of certificates | |
| `LatencyBench` | `scripts/bench/p99.mjs`: the pool of calls | |
| `OverlayProofs` | theorems about `TwinOverlay`, `CuneoOverlay`, `ComplianceOverlay`, `ObserverTicker`, `TilePreview`, `LabVerify`, `LatencyBench` | those seven |
| `MC*` | instances for TLC | |

`EpochStore` has a process per operator (`pc`, `run`, `tx`). Each statement of
`write_epoch` is an action: `Check` is `SELECT EXISTS`, `Seal` the insert of
the epoch row, `Fill` one batch of cells, `Commit` the commit together with the
loop's step to the next epoch and its parent root. `WipeCells`, `WipeEpochs`
and `WipeCommit` are the clearing transaction of `reseed_italy.sh` (all epochs)
and `hotfix_epoch0.sql` (epoch 0); `Launch` is the seeder that the reseed script
starts. An open transaction keeps its work in `tx[p]` until it commits; `Fail`
drops it. `Crash` may happen at any statement. `RefreshFixture` is `fetch.py`.

The database is external and modelled from how the scripts use it: a statement
that needs a row which another open transaction has inserted, deleted or
referenced waits for it (`WaitsFor`), then sees the tables as they are; a
duplicate key, a missing parent row and RESTRICT fail the script; two
transactions that wait for each other lose one of them (`DeadlockVictim`).

A leaf of the tree is a cell with the revision of the OSM record behind it.
Since a payload also holds its epoch's number, hashes of different epochs
differ, and a root stands for its epoch and its leaves (`MerkleRoot`); that the
tree really determines its leaves is what `MerkleProof` is about.

The three histories `built`, `mixed` and `disturbed` are not in the code. The
scripts cannot promise a coherent store to somebody who refreshes the fixture
and re-runs the seeder without clearing, or while something runs; `mixed` marks
the states after such a mistake, until a reseed that leaves nothing behind ends
it. The properties that speak of contents hold outside of it; the ones that
the schema and the loop guarantee (`FinishedLogComplete`, and the last disjunct
of `EpochLog`: no row is rewritten) hold in it as well.

`StoreReads` adds calls that take one statement per action and lock nothing.
`ReadCell`, `ReadAttestations`, `ReadEpoch` and `ReadHashes` are the four
statements of `get_provenance`, `ReadRegion` and `ReadLatest` the two
transactions of `render_viewport`. `during` remembers what happened to the store
during the call. Attestations are written by third parties outside the
repository (`Attest`); a model attestation remembers the content it was made of.

`MerkleProof` takes one turn of a loop per action: `SealLayer`, `ProveLayer`,
`VerifySibling`. BLAKE3 is taken collision free: a hash of two nodes is their
pair. The verifier is given the stored content hash or any other in `Claims`.

`RateLimiter` splits `check` where other calls may come in between: `ReadClock`
before the mutex, `Admit` or `Refuse` under it. `Instant::duration_since`
saturates (`Since`). The code does not bound the time between the two;
`MaxDelay` is that bound, so that what depends on it can be said.

`DemoPage` has one action per task of the browser: `Load`, `MoveEnd`,
`DebounceFires`, `Input` and `Change` of the slider, `CellClick`, `Verify`, and
one for each end of what they await (`CellsArrive`, `FetchFails`,
`BundleArrives`, `BundleFails`, `Verdict`). Between two awaits JavaScript is not
interrupted, so `refreshCells` up to its await is one operator, `RefreshCells`,
part of each task that calls it. An aborted request rejects and its caller
returns without effect, so an abort removes it. The server's answers are the
constants `Region` and `Sealed`, and any request may fail. A view stands for
bounds and zoom, `HighViews` for zoom 14 and above. Left out is what is only
displayed: the cost counter but for `epochs_touched`, the status pill, the
transmission lines, `seenEpochs`.

`LabOverlay` joins its handler of `audit-open` to the page's `BundleArrives`,
since the bus dispatches synchronously (`AuditOpen`). Its calls await a response
or a verdict (`lab`), and the page removes the section whenever it renders the
panel (`SectionGone`).

`JwksCache` splits `get_jwks` at its awaits: `Come` queues for the mutex (tokio's
is fair), `Lock` finds the cached set fresh or starts a fetch, and the fetch ends
by `FetchArrives` or `FetchFails`, which includes the client's time-out. The guard
lives in the handler's future, so a caller whose connection closes (`Dropped`)
releases it. Time is counted in ticks; a tick waits for a free mutex to be taken
and for a fetch that is due to time out.

`McpDispatch` handles one HTTP request after another: handlers share nothing but
the limiter and the key cache, which have modules of their own, so their answers
are any answers here. An item is an envelope (unreadable, of another version, or
good), with or without an id, and a kind of method. `Configs` has every combination
of authentication settings. A response remembers the item that it answers (`from`),
which the code does not: ids alone do not tell two items with one id apart.

The overlays follow one pattern: an action for each gesture, timer and bus event,
and one for each end of an await, with what the code did before the await kept in
the request (`asks`, `states`, `summaries`, `tiles`). A dialog that was closed over
an await is no longer in the document, and what arrives for it has no effect or
the effect the code gives it: `CuneoOverlay` keeps every dialog of the document
with what its buttons are wired to, because two of them can be there at once.
`TwinOverlay` counts the intervals that run apart from the handle in which the code
keeps one. `ObserverTicker` has its timers by identity: the release timers and the
typewriter intervals that run, and beside them the two handles, which
`scheduleNextRelease` and `clearTypewriter` clear before they overwrite them, and of
which the release timer's stays when the timer has fired. A timer whose handle
was overwritten without that would run on. Clicks on the twin layer dispatch one
event for each registered handler, and each event sends its request.
`LivenessIndicators` counts probes by what they will answer. `ComplianceOverlay`
holds the page's source, layer and shared state, which the page changes by
`CellsSynced`; the slider's "input" changes the page's epoch alone (`SliderInput`),
its "change" dispatches the event (`EpochEvent`). The epoch that tiers are scored at
is the shared one, which the page sets when cells arrive; that it is the slider's
epoch while the page rests is `OverlaysSeeTheMap` of `DemoPage`.
`LatencyBench` begins with the preflight call, after which the program may end. `LabVerify` accumulates errors
as `verifyLabRecord` does, over all records whose certificates come from
`CertPool`; a signature verifies under the key that made it and no other.

## 3. Runs

| Run | Bounds | Checks | States |
|---|---|---|---|
| `store` | 2 operators, 2 fixtures, 2 epochs, 2 cells, batches of 1 | `TypeOK`, `SealedRootCoversCells`, `ChainLinked`, `FinishedLogComplete`, `ImplementsLog` | 770,671 |
| `store_live` | the same with 1 epoch | `ScriptsEnd` | 113,829 |
| `store_refreshed` | as `store` | `EveryRootCoversCells`: violated | |
| `reads` | 1 operator, 1 reader, 1 attestation, 2 epochs | `BundleVerifies`, `AttestationsFit`, `ErrorsComeOfErasure`, `LabelCoversRegion` | 2,031,152 |
| `reads_torn` | the same | `EveryProofVerifies`: violated | |
| `limiter` | 2 callers, limit 2, window 4, second 2, delay 1, until 10 | `TypeOK`, `BurstBounded`, `PatienceRewarded`, `WindowsApart`, `NoIdleRefusal` | 1,439,736 |
| `limiter_minute` | the same with delay 2 | `BurstAtMostDouble`: violated | |
| `page` | 3 views, 2 epochs, 2 cells, 3 gestures, 2 clicks | `LabTypeOK`, `SettledShowsView`, `OverlaysSeeTheMap`, `LoadingIsAwaited`, `VerdictIsOfBundle`, `BundleHasSection`, `RequestsOfThisBundle`, `ComesToRest` | 662,317 |
| `page_lowzoom` | the same | `LowZoomShowsNoCells`: violated | |
| `page_late_verdict` | the same | `SectionOfThisCell`: violated | |
| `parts` | below | `ActiveStationsAreMarked`, `PilotVerdictIsOfDevice`, `NoTimerAfterStop`, `SectionIsOfLastAudit`, `TwinSectionSettles`, `TiersFollowSharedState`, `HeartbeatCatchesUp`, `TickerGoesOn`, `DownloadComesBack`, `PictureIsOfRecord`, `VerdictIsGenuine`, `EveryCallIsReported`, `HandedSetIsRecent`, `WaitIsBounded`, `RepliesMatchItems`, `AcceptsExactlyTheRecord`, `IndexesInBounds` | 632,993 |
| `batch_shape` | the same | `BatchesGetArrays`: violated | |

The run `parts` (`MCParts`) has the modules that share no state with one another
side by side. `focus` is chosen at the start: only that part moves, the others keep
an initial state, so its states are the sum of theirs and not the product. Each
part's property is what it would be in a run of its own. What the overlays take
from the page is in their own modules: the page's re-rendering of the panel, its
new features and shared state, and its events, at any time.

Why the bounds are enough:

- Two operators race for every pair of statements, and form every lock cycle
  of two. Two epochs are one link of the chain, and the hotfix clears one and
  leaves the other. Two contents of the fixture that differ in a revision and
  in a cell give a seeder rows to skip and rows to add; with batches of one
  row the richer fixture takes two INSERTs, so crashes and other scripts come
  between them.
- Liveness needs one epoch: every wait, cycle and failure occurs within one.
- A reader only ever looks: several readers do not affect each other, and one
  operator already puts any sequence of erasures and seedings between two of
  its statements. Batches of two keep that run small; the interleaving within
  an epoch is invisible to a reader before the commit.
- `parts`, Merkle programs: every epoch of up to 17 cells and every cell of it. 17
  leaves give trees of up to five levels, with odd layers at every one of
  them (3, 5, 6, 7, 9, 11, 13, 17, ...). The theorem has no bound.
- Ten ticks reach a third window of four ticks, as the violated
  property needs. A second of two ticks makes `as_secs` round.
- Three gestures reach a view above the threshold, one below and back, or a
  move with a drag of the slider, with a request of each under way. Two clicks
  give every order of two answers. One lab cell has a record and one has none;
  of three bundles one does not verify. The theorems have no bound.
- `parts`, the rest: two stations with two devices and one, one of them native and signed,
  and four gestures, open two dialogs with an answer for each under way. Three
  cells of which two share an ancestor, four gestures and two polls put a stop, a
  start and a second audit between a request and its answer. Three probes put a
  failure behind two successes. Two observations, texts of two characters and two
  refreshes empty the pool while a text is typed; of two timer identities one is
  remembered and one new, and a leaked timer would hold one of them. Five gestures open, close and
  reopen a dialog that downloads. Three records have two tiles and none.
  Nine certificates over four keys give genuine chains, another root's, ones
  issued in one name and signed by another key, out of force and incomplete.
  Six calls, three at a time, two of them warm-up, leave the pool partly full at
  the end. Three callers with a TTL and a time-out of two ticks queue behind a
  fetch that hangs, fails or loses its caller. Batches of none to two of seven
  kinds of items, with sixteen combinations of settings and keys.

TLC's deadlock check is on, except for `limiter`, the page and `parts`, where
time ends at `MaxClock`, the user stops, and the one computation ends.

Fairness: `ScriptsEnd` assumes strong fairness of `Step(p)` for each operator: a
script that was started goes on by itself, and a statement that waits for a
lock is woken whenever the lock is released, so that a script is not passed
over for ever by others that take and release it (PostgreSQL queues lock
waiters). Nothing is assumed of starts, crashes and refreshes. `ComesToRest`
assumes weak fairness of the browser: the style loads, an armed timer fires,
and each request and verification ends, in success or not. Nothing is assumed
of the user, who may keep the slider dragged. `TwinSectionSettles`,
`HeartbeatCatchesUp` and `DownloadComesBack` assume the same of their overlays: a
request ends, in success or not, and intervals and time-outs fire; for the
heartbeat, that probes of either answer are handled (each is a promise of its
own). Nothing is assumed of the backend, which turns up and down as it
likes. `MCParts` states each of these for the behaviours of its part. No other
property needs fairness.

## 4. What the violated properties show

- `EveryRootCoversCells` (`seed-data/src/main.rs:458`): seeding refreshed
  contents over existing epochs keeps the old roots and adds new cells under
  them. "Idempotent" (line 17) is true of an unchanged fixture only.
- `EveryProofVerifies` (`mobydb-client/src/postgres.rs:384`): a reseed with
  refreshed contents between two statements of one `get_provenance` call gives
  a bundle that does not verify. `BundleVerifies` shows that this takes
  different contents: an erasure and a re-seeding of the same ones cannot do it.
- `BurstAtMostDouble` (`mcp-server/src/rate_limit.rs:50`): since the clock is
  read before the mutex, a window can start in the past, and a minute can touch
  three windows. `BurstBounded` is what holds instead.
- `LowZoomShowsNoCells` (`demo/app.js:364`): below the threshold `refreshCells`
  returns before it aborts; the answer to the last view repaints its cells.
  `SettledShowsView` shows that this cannot happen above the threshold.
- `SectionOfThisCell` (`demo/lab_overlay.js:461`): a verification is not
  stopped by the next click, and attaches its verdict under the next bundle.
  `RequestsOfThisBundle` shows that the abort does its work for the request.
- `BatchesGetArrays` (`mcp-server/src/http.rs:310`): the number of answers alone
  decides between an object and an array, so a batch with one answer gets an
  object. The comment at 317-320 says that an array gets an array.

## 5. Proofs

Every invariant and every action property that a passing run checks is proved, for
every value of the constants that their assumptions admit. An inductive invariant
was an invariant of a TLC run before it was proved.

**`EpochStoreProofs`**: `TypeCorrect`, `RootsCoverCells`, `ChainIsLinked`,
`FinishedLogIsComplete` and `LogIsImplemented`, for any operators, any fixtures with
one leaf per cell, any number of epochs and any batch size (`TablesAssumption`,
`NoneAssumption`). That a root covers its cells is not inductive: a batch may be
added to an epoch whose row is somebody else's, and a clear may commit between a
seeder's check and its fill. The invariant `IInv` has four parts beside the types,
of which only the last is lost in a mixed store:

- `Shape`: which fields a transaction can have filled at which statement.
- `Schema`, what keys and row locks ensure of any store: cells have an epoch and an
  epoch one leaf for a cell (`KeysHold`); two transactions never insert the same row
  (`OneSealer`) or the same cell, and an epoch to which cells have been added stays
  (`FillInv`); what a clear has deleted is still stored and nobody else's, and it
  drops an epoch only with all its cells (`WipeInv`).
- `NoneSkipped`: a seeder has an epoch behind each step of its cursor, unless one
  was erased since it started.
- `Core`, what the procedure ensures: an epoch has the one row and the cells that
  the contents in force determine (`LogWhole`); a running seeder has loaded those
  contents and holds the root of the epoch before its cursor (`SeederInv`); what it
  has inserted in a new epoch and what it has left make up the fixture, and in an
  epoch that it found there is nothing to add (`InsertInv`); a clear that will
  change the contents in force takes every epoch (`ReseedInv`).

The return from a mixed store to a sound one is a step of its own (`CoreReset`).
`LogIsImplemented` is the refinement that the run `store` checks as `ImplementsLog`:
a commit of a seeder is `LogSeal` with the row that the log demands (`CommitIsSeal`,
from `SeederInv` and `InsertInv`), the commit of a clear is `LogErase`
(`WipeCommitIsErase`), the end of a mixed store is `LogRestart`
(`MendingIsRestart`), and in a mixed store no row of either table is rewritten
(`MixedStepIsOfLog`, from `Schema`, which is why that part does not depend on the
procedure). Every other step leaves the log's variables alone
(`OnlyCommitsWrite`).

**`StoreReadsProofs`**: `BundlesVerify`, `AttestationsAreOfContent`,
`ErrorsAreErasures` and `LabelsCoverRegions`, for any readers besides.
`ReadersDisturbNobody`: the specification with readers implements that of the
writers, so what is proved of the store holds beside them. `ReadsInv` says what a
call under way knows (`Underway`): the cell it has read is stored or an epoch was
erased since; without a rebuilding its leaf is of the contents in force; the row it
has read is the sealed row of those contents. The latest epoch of a region exists
because a finite set of numbers has a largest (`LatestExists`, from the
well-founded order of finite sets, since induction is out of reach).

**`MerkleTheorems`**: `VerificationIsExact` and `NoIndexPanics`, for epochs of any
size. The programs never share a layer, so the invariant goes through the
history of the seeder's loop (`tree`): the server is at one of its layers and
takes its siblings from it; the client's node is the node on the same path of
that layer if the claim is the stored hash, and different from it if not,
since a pair determines its halves.

**`LimiterTheorems`**: `TypeCorrect`, `BurstsAreBounded`, `WindowsAreApart`,
`PatienceIsRewarded` and `RefusalsAreEarned`, for any callers, limit, window, second
and delay. The burst bound follows from two facts of the history: a request is
known by its window and its place in it, and requests two windows apart are a
window less the delay apart. So the requests of a burst map one to one into two
windows of `Limit` places. `RefusalsAreEarned` (the action property `NoIdleRefusal`)
goes the other way: the places of a full window map one to one into the requests
of the last minute (`FullWindowAdmitted`).

**`DemoPageProofs`**: `MapShowsView`, `StateIsShared` and `PanelIsHonest`, for any
views, epochs, answers, gestures and clicks. What a map at rest shows is not
inductive; `Current` says what holds of one that is not at rest: once the user
has let go, either the one request under way (`OneFetch`) is for the view and
epoch of now, or its outcome is on the map.

**`LabOverlayProofs`**: `OverlayKeepsPage`, the overlay's specification implements
the page's; so `PageHoldsBesideOverlay`. `BundlesHaveSections` and
`SectionsArePlaced` follow from `OneRequest`: a request of the overlay is the one its
controller aborts, and is about the bundle that is shown. `LabTypeCorrect` is the
type invariant of both.

**`ServerProofs`**, for any finite set of callers, TTL and time-out:

- `HandedSetsAreRecent`. `FetchInv` says that an answer is no older than its fetch,
  which ends within the time-out, and `CacheInv` that a set was stored with such an
  age and is counted to just past the TTL.
- `WaitsAreBounded`. `LineInv` gives every caller in line a place of its own, the
  holder of the mutex the first, and bounds what the caller at a place has waited by
  one time-out for each caller that cannot be behind it, and the age of the fetch
  under way. A caller moves up by a place at least, or stays with the same fetch
  (`LineMovesUp`), and there are no more places than callers (`LineIsBounded`, by the
  pigeonhole principle).

and, for bodies of any length made of any items, `RepliesFit`. `McpInv` says that
while the turn is at item n, the responses are exactly those owed to the items before
n, once each, in order and under their ids (`AnsweredBefore`), so that no induction
over the items is needed.

**`OverlayProofs`**, for any cells, stations, devices, records, certificates and bounds:

- `NoTimerIsLeft`: there is one interval exactly while the handle is held, which
  is while the overlay is on.
- `SectionsAreOfLastAudit`: the sections are none or the one of `inflightCell`.
- `StationsAreMarked`, with the type of the pending loads.
- `VerdictsAreOfDevice`: there is a device for the number of each gesture that asked for a
  detail, and every button and every request with that number is about that device
  (`PilotInv`); so a verdict that finds its button by number finds its device,
  however many dialogs there are and whatever has been closed.
- `TiersAreOfSharedState`: tiers at the epoch of the shared state. The source has a feature for each shared cell, so a paint
  leaves no tier of an earlier epoch behind (`ViewInv`, `PaintIsWhole`).
- `TickerNeverStops`: the release timers that run are the remembered one from the end
  of the boot on, and none before; the intervals that run are the remembered one or
  none (`TickerInv`). A release keeps this because it clears the handle it is about
  to overwrite (`OneRelease`, `OneText`), also when it was asked for by hand while
  the other is pending, and when the handle is of a timer that has fired.
- `PicturesAreOfRecord`: a modal whose picture has been asked for has the metadata of its
  record's tile, and the cache holds each tile's metadata under its own address (`TileInv`).
- `VerdictsAreGenuine`: the loop over the certificates has an error count of none
  exactly if each certificate so far passes under the key of the one before
  (`VerifyInv`), which at the end is the chain of `Vouched`.
- `BenchCountsEveryCall`: samples, errors and calls in flight add up to the calls
  launched, which are all of them once the pool drains.

Only model-checked: `ScriptsEnd`, `ComesToRest`, `TwinSectionSettles`,
`HeartbeatCatchesUp` and `DownloadComesBack`, since liveness under fairness is out
of the prover's reach. The properties of the runs that expect a violation are
refuted there.

## 6. Mutants

Each module holds, beside the definition it changes, a mutant for each property
of a passing run: a plausible bug of that code (a batch committed on its own, a
parent forgotten, a reset left out) under which the property fails.
`PROJECT.json` says which belongs to which. They are not part of any
specification.

## 7. Plan

Done: the write path, its abstract log and the refinement; the reads beside it;
the Merkle programs; the limiter, the key cache and the dispatcher; the page with
its lab section; the other overlays, the lab verifier and the benchmark.

Proved: every invariant and action property of the runs, and the refinement. What
could still be proved: full type invariants of the smaller modules, and the
safety parts on which the liveness properties rest (no request without an end, no wait
without somebody to wait for).

### Not modelled

- *Tenants* (row-level security, roles, the pool): each method of
  `mobydb-client/src/postgres.rs` opens its own transaction and sets the
  transaction-local tenant first (98-116). There is no path on which it is left
  out, and a model would restate that line.
- *Start-up and configuration*: read once, in a straight line; nothing changes
  afterwards. The settings that matter are the `Configs` of `McpDispatch`.
- *Lab client, single-statement reads, row decoding*: one query and a conversion;
  their tables are written by programs outside the repository.
- *Arguments of tools*: parsing and clamping of one value each. A tool call has
  every outcome in `McpDispatch`. The cast of a limit from u64 to u32
  (`mcp-server/src/tools.rs:252`), which makes 2^32 a limit of none, is for a unit
  test.
- *Validation of tokens*, Ed25519 and BLAKE3: libraries, taken as ideal, with
  either outcome where the data do not decide it.
- *`client.ts` apart from its verifier*: one request and its answer.
- *`lab_demo_button.js`*, the Cuneo overlay's locate button, rendering, styling,
  charts, formatting, percentiles, and the geometry of viewports and tiles
  (floating point): they keep no state that anything else reads.

Some behaviours are in the models without a property against them, because the
code lets them happen and no document of the repository excludes them: the slower
of two clicks fills the audit panel (`demo/app.js:463`); the Cuneo stations and the
twin layers come back when an answer arrives after the overlay was switched off
(`cuneo_overlay.js:707`, `twin_overlay.js:600`); two quick clicks on stations leave
two dialogs (`cuneo_overlay.js:750`); a batch of any size costs one token
(`mcp-server/src/http.rs:287`); the removal of a finished text's cursor takes that of
a later text, which is then not typed (`ai_observer_ticker.js:333`).
