# Mova: TLA+ models, checks and proofs

Mova is a self-hosted media server: a Rust server (`src/apps/mova-server`) over
PostgreSQL, background workers that scan media libraries and enrich them with
TMDB metadata, and a web client (`src/apps/mova-web`).  This directory holds TLA+
models of the parts whose correctness depends on order, failure and concurrency,
TLC configurations that check them on small instances, and TLAPS proofs that hold
for every instance.

## Inventory

| Component | State | Operations | What is hard | What makes it correct |
|---|---|---|---|---|
| Background job queue (`mova-db/src/background_jobs.rs`, `scan_jobs.rs`, `mova-server/src/sync_runtime.rs`) | `background_jobs`: status, attempt, owner, lease, run_after; `scan_jobs` | claim, fence, heartbeat, complete, retry or fail, reap, prune; enqueue, merge, delete a library | several workers and processes, crashed workers, leases that run out under a live worker, exclusions between jobs | conflicting jobs never run together; a stale worker commits nothing; an end and a cancellation are final; both rows agree; work ends |
| Scan registry and library deletion (`mova-server/src/state.rs`, `handlers/libraries.rs`) | in-memory map of running scans, set of libraries being deleted | register, cancel, wait for the end, finish; delete, change the language | a wait racing the end it waits for, a scan starting during a deletion | the library graph is not deleted under a scan of this process; no metadata in an old language; whoever waits goes on |
| Scan execution and library storage (`mova-application/src/scan_jobs.rs`, `library_storage.rs`, `mova-db/src/library_storage.rs`) | `library_storage_mounts`, catalog paths, an attempt's plan | assess, walk, commit, assess again, look up, reconcile | a mount that goes, hangs or comes back between any two of these; scopes merged while a scan starts | nothing is removed because storage was away; a quiet scan leaves what is there; every request gets its scan |
| Scan pipeline and counters (`scan_jobs.rs`, `mova-db/src/media_items/sync.rs`) | two bounded channels, checkpoints, counters, guards, report | analyse, prepare, commit, clean artwork, join, finish | three futures, cancellation, lost connections, retries, rejected values | counters are the checkpoints; each file reported once; referenced artwork stays; the scan ends |
| Catalog writes (`media_items/sync.rs`) | files, works, series, seasons, bindings | commit, patch, rename, merge, reconcile | local and remote halves in any order, deferred keys | a sound hierarchy; accepted identities survive failures; records follow works |
| Playback progress (`playback_progress.rs`) | progress rows, continue-watching | update, list, prune | it follows files and works that move | the list is what the rows say |
| Local metadata (`local_metadata.rs`, `scan_jobs/presentation.rs`, `incremental.rs`) | NFO rows, the selected one, fingerprints | plan, inspect, commit both halves, restore | files edited during a scan, a scan that stops half way, several versions | what is selected is published; a settled item reads as a fresh import |
| TMDB retention, revalidation, artwork (`tmdb_revalidation.rs`) | cache state per item, snapshots, orphaned artwork | match, refresh, outline, cast, revalidate, defer, expire, clean | answers applied to a row that changed since | provider data is not kept past its deadline; a referenced file is not removed |
| Metadata provider and enrichment (`media_enrichment.rs`, `metadata.rs`) | bounded caches, request locks, artwork cache | look up, outline, artwork, commit or reject | workers that need one answer | asked once; an answer belongs to its group |
| Intro detection (`intro_detection.rs`) | `season_intro_analyses`, intro range | enqueue, analyse, record under the fence, invalidate | files and rows change while FFmpeg reads | a result for other files is not recorded; a played season gets an answer |
| Users, sessions, access (`users.rs`, `access.rs`, `auth.rs`) | users, credentials, refresh tokens, visibility, open streams | bootstrap, manage, sign in and out, refresh, clean up | reads without a lock before a write, reused tokens | one owner; no credential of a disabled user; streams stay authorised |
| Login rate limit (`auth_rate_limit.rs`) | in-memory table of failures | check, record, evict | attempts let in together; a full table | a lockout keeps its end |
| Audio track cache (`audio_track_cache.rs`) | files, reservations, slots | get, remux, publish, evict | a client may leave at any await | quota and headroom hold |
| Catalog queries (`media_items/query.rs`, `response.rs`) | none (reads) | listings, pages, search, home, details | ties, missing values, queries that must agree | pages tile a listing; answers agree; access is checked alike |
| Realtime feed (`mova-db/src/realtime.rs`, `mova-server/src/realtime.rs`) and web client coordinator (`use-server-events.ts`) | revisions, channels; applied and requested revisions, cards | raise, notify, batch, publish, resync; refresh, reconcile | lost notifications, lagging streams, answers older than events | nothing unfetched counts as applied; the screen converges |
| Remote streams, artwork delivery, notifications, scanner parsing, media delivery, start-up, pages, site | see "Not modelled" | | | |

How they interact: HTTP handlers and the storage sweep queue scans; workers claim
jobs from PostgreSQL and execute them, a scan through the registry of its process,
the storage assessment and the pipeline, whose commits write the catalog; playing
an episode queues an intro detection, which a scan of its library cancels; the
revalidation scheduler queues jobs that a scan excludes; a deletion or a language
change stops the registered scan first; every committed change raises a revision
and notifies the realtime dispatcher, which feeds the event streams of the web
clients; disabling a user closes his streams.  `PROJECT.json` lists the hazards,
each at the line where it bites.

## Modules

| Module | Models | Composed of |
|---|---|---|
| `JobLifecycle` | what the queue promises of one job: the abstract specification | - |
| `BackgroundJobs` | the leased queue: rows, claims, fences, leases, retries, cancellations, the companion scan rows, library deletion, the revalidation scheduler | implements `JobLifecycle` |
| `ScanRegistry` | one process: registered scans, requests that stop and await them | the queue reduced to one scan job per library; checked with `ScanPipeline` in `MCScanExecution` |
| `LibraryStorage`, `LibraryScan` | the assessment of mounts and path look-ups as operators; one library's requests, scopes and attempts while its storage changes | `LibraryScan` extends `LibraryStorage` |
| `ScanPipeline` | one scan job from the plan of its changed groups to its end | checked with `ScanRegistry` in `MCScanExecution` |
| `Playback`, `Catalog` | progress as functions on the tables; the transactions of scans on files, works and their records | `Catalog` extends `Playback` |
| `LocalMetadata` | the NFOs of one movie, from fingerprint to published fields | - |
| `TmdbMetadata` | one series: requests, scan, caches, deadlines, revalidation, artwork | - |
| `MetadataEnrichment`, `IntroDetection` | workers that enrich groups; workers that detect a season's intro | together in `MCMediaWork` |
| `Accounts`, `NativeSessions`, `AuthRateLimit` | users, credentials and streams; refresh tokens; the limit on failed sign-ins | together in `MCSignIn` |
| `CatalogQueries`, `AudioTrackCache` | what the catalog answers; the cache of remuxed audio variants | together in `MCViewing` |
| `RealtimeSync` | revisions, listener, dispatcher, event stream and the web client's coordinator | - |
| `MC*` | the constants of the runs, and which module moves where several share a run | extends what it names |
| `*Proofs` | lemmas and theorems | extends what it names |

An action is one transaction, or one step of a task between two awaits whose order
matters; each module's opening comment says which.  Conventions that recur:

- Time is flags or a small clock.  `BackgroundJobs`: `live`, the lease has not run
  out, and `due`.  `TmdbMetadata`: steps of `Tick` reach the 150 days when a title
  is due (1) and the 180 when it expires (2), up to `MaxTime`.  `NativeSessions`:
  tokens expire in the order of issue.
- A transaction whose reads and write are apart is split (`tx` and `sched` in
  `BackgroundJobs`, the pending requests of `Accounts`); other transactions are atomic.
- Failures are actions: a lost lease, a crash, a rolled-back transaction, a client
  that leaves, a provider that fails, an attempt that fails anywhere.
- Data is a model value or a small set.  A group's data and what the provider does
  to it are its *fate* (`ScanPipeline`); a storage *situation* says what each file
  is and how the mounts answer (`LibraryStorage`); a text is where it comes from
  (`LocalMetadata`, `TmdbMetadata`); files of a season are versions
  (`IntroDetection`).

`BackgroundJobs` prunes rows, so ids are reused and the state space is finite
without a bound on the jobs ever made.  In `ScanRegistry` `finish_scan` is three
steps (remove, flag, notify) and `wait_finished` two (load, subscribe), as in the
code.  In `RealtimeSync` a revision of 0 in a map means "not mentioned", and several
reconciliations may be in flight.  Its listener, and that of `Accounts`, loses its
connection in two ways, as sqlx's `PgListener::recv` does.  When the connection
cannot be made again, `recv` fails, the loop around it subscribes anew and publishes
`resync.required` (`ListenerLost` and `ListenerSubscribes`, `listener_subscribes`).
When it can, `recv` connects and listens again by itself, and what was notified
meanwhile is lost with nobody told (`ListenerReconnects`, `listener_reconnects`):
`unheard` holds the resources this happened to, `missed` marks the streams a lost
signal should have closed.  `recv` is a library's, modelled from its documented
behaviour and from how `realtime.rs` calls it.  `ScanPipeline` composes the three
futures that `try_join!` polls: a channel is a bounded sequence, a guard a member of
`guards`, and an error drops all three (`Abort`).

## Runs

| Run | Checks | Bounds |
|---|---|---|
| `queue` | `QueueInv`, `ImplementsLifecycle` (refinement), `LiveLeaseIsExclusive`, `WorkEnds` | 2 rows, 2 workers, 1 library, all five kinds of request, 2 attempts for scans and intros |
| `execution` | `RegistryInv`, `CommitsUseCurrentLanguage`; `PipelineInv`, `ScanEndsUnlessBlocked` | 2 workers, 1 deletion, 1 language change, 2 languages, 2 handles; 3 groups in 2 planned ones, 6 choices of fates, channels of 1, 2 preparations, 2 attempts |
| `scan` | `RequestsAreCovered`, `OutagesRemoveNothing`, `QuietScansAreExact`, `ScopedScansStayInScope` | 2 files, one below a second mount; every host; one outage per attempt.  Mounts come and go under whole scans; scopes, bad files and cancellations on a bind mount |
| `catalog` | `CatalogInv`, `AcceptedBindingsSurvive`, `RecordsFollowWorks` | 3 paths, 3 items, 2 keys, 1 binding, 1 user; movies, series, or both over fewer files |
| `local_metadata` | `SelectedRowIsPublished`, `SettledReadsAsFreshImport`, `SettledItemsAreSkipped`, `BrokenKeepsLastGood` | one file with two NFOs, and two versions that share one; at most 3 scans and 2 edits |
| `local_versions` | `SelectionIsGlobalMinimum` (violated) | two versions with an NFO each |
| `tmdb` | `TmdbInv`, `ExpiryKeepsLocalValues`, `OnlyVerificationRenews`, `RetentionEnds` | 2 requests, 2 bindings, 2 editions of the provider, 2 operations, clock to 2 |
| `media_work` | `RequestsCollapse`, `AnswersBelongToTheGroup`, `EveryGroupEnds`; `IntroInv`, `PlayedSeasonsAreAnswered` | 2 workers, 3 groups, caches of 2, 2 faults; 2 detectors, 2 versions, 2 attempts, 2 scans |
| `sign_in` | `SignInInv`, `StreamsAreCurrent`, `OwnerStays`, `ExchangesAreExclusive`, `LockoutsKeepTheirEnd` | 3 users, 2 credentials, 2 requests, 1 stream; 3 refreshes of 3 tokens; 3 keys in a table of 2, 3 attempts, clock to 5 |
| `viewing` | `PagesTile`, `AnswersAgree`, `AudioCacheInv` | 5 rows in 2 libraries, pages of 2; 3 clients, 4 variants, quota 6, volume 8, 2 slots |
| `sync` | `SyncInv`, `Synced`, `EndsSettle` | a client that connects through 2 faults, one that follows a scan through a fault, one through a commit; channels of 2, 2 reconciliations in flight |
| `resubscription` | `LossesAreMadeUp` (violated) | those of `sync` |

Why the bounds are enough to be interesting: two attempts give a first, a repeated
and an exhausted one; two workers are a stale and a current executor; two files
separate what an outage hits from what it does not; a channel of one or two places
overflows at once; a cache of two entries evicts with the third; pages of two cut
through ties.  Where several modules share a run they share no variable, and only
one of them moves in a behaviour.  The proofs remove the bounds for most of the
safety properties.

`CHECK_DEADLOCK FALSE` stands where a model comes to its end: bounded numbers of
scans, edits, operations, tokens or faults are used up, or all requests are
answered (`execution`, `catalog`, `local_metadata`, `local_versions`, `tmdb`,
`media_work`, `sign_in`, `sync`, `resubscription`).  `queue`, `scan` and `viewing` are
checked for deadlock.

## Fairness

- `BackgroundJobs`: workers poll and end what they execute, transactions end and
  are not rolled back for ever, the lease of a dead worker's row runs out, a retry
  becomes due.  Strong fairness for the claim of one job: the candidate query
  orders by age, so a job that is claimable again and again is reached.
  Heartbeats need none: a live worker may still lose its lease.
- `ScanRegistry`: none.  Its properties are safety; a wait may time out at any
  point, as nothing makes a scan look at its flag within 30 s.
- `ScanPipeline`: each of the task, the analysis, the preparation and the
  coordinator takes a step while it can; `try_join!` polls all of them.
- `TmdbMetadata`: a request and a scan that started end; the revalidation job runs
  and the cleanup of artwork is retried.  Nothing makes the provider answer.
- `MetadataEnrichment`: a worker and the coordinator go on.  Faults are bounded.
- `IntroDetection`: a played season is enqueued, workers claim and execute, a scan
  and a refresh that started end, the lease of a dead worker runs out.
- `RealtimeSync`: server tasks, the browser's loop and timers run, requests are
  answered, the stream reconnects, a scan ends.  That `EventSource` reconnects
  after every loss is an assumption: a browser gives up after an answer other than
  200, and the hook has no handler for that.

## Proofs

Every theorem holds for all values of the constants that satisfy the modules' named
assumptions.

- `BackgroundJobsProofs`.  `QueueInv` is inductive.  Mutual exclusion alone is not:
  a claim excludes a running scan of the same library by looking at rows, which
  works for cache cleanups only because a library with a cleanup is deleted
  (`DeletedLibraryJobs`), which rests on what an open deletion or enqueue may rely
  on until it commits (`OpenTransactions`).  From it: ends and cancellations are
  final (`EndsAreFinal`), a live lease is exclusive, each conjunct of the invariant
  under its own name, and `QueueImplementsLifecycle`, the refinement of
  `JobLifecycle` step by step.
- `ScanRegistryProofs`.  `RegistryInv` relates registry entries to workers
  (`Registrations`), waiting requests to their handle (`Waits`), deletions to the
  set that blocks registrations (`Deletions`), and the language a scan loaded to
  the library's (`LoadedLanguage`).  From it: no deletion under a scan, one scan
  per library and process, no commit in an old language.
- `LibraryScanProofs`.  `OutageInv` says for each stage of an attempt what is
  already known to be gone, and gives `OutagesAreHarmless` under `MaxOutages <= 1`;
  `QuietInv` does the same for storage that does not change under the attempt
  (what the plan, the walk and the catalog may hold at each stage) and gives
  `QuietScansLeaveWhatIsThere` without that bound; `ScopeInv` gives
  `ScansStayInScope`, `CoverInv` `RequestsGetTheirScan`.
- `ScanPipelineProofs`.  `PipelineInv` sums sizes over sets of groups, and is far
  from inductive.  `PipelineIInv` says that a group is in exactly one of six places,
  from the planned list to the coordinator's hands (`GroupsApart`), that what has
  left the last one is what the report counts (`ReportFits`), that nothing outlives
  an attempt and nobody is passed over without a cancellation
  (`NobodyIsForgotten`), and that a group whose commit will refer to artwork has it
  in the cache (`ArtworkFits`): the cleaner takes one group's path, and that group
  is nowhere else.  The number of files of a set is a fold; that it adds up in any
  order (`FilesRemove`, `FilesAdd`) is proved by induction, see below.
- `SignInProofs`.  Three invariants, one per part.  For accounts: what a request
  read before its transaction is still true enough for what it writes; with the
  credentials, the signals on their way and those the listener lost this gives
  `StreamsStayCurrent` and `OwnerAlwaysStays`.
  For refresh tokens: the tokens in use, remembered and still to be issued, which
  gives `ExchangesStayExclusive`.  For the limiter: counts, ends and the size of
  the table, which give `LockoutsAreKept` and `LimiterKeepsItsSize`.
- `MediaWorkProofs`, over the specification of the run.  `EnrichIInv` ties a cached
  or awaited answer to the request that made it and to the groups that ask it;
  `IntroIInv` ties a detector's snapshot to the rows while its job is fenced.
- `TmdbMetadataProofs`.  `TmdbIInv`: each cached value is of the binding its row
  carries (`ItemFits`, `DataFits`, `CastFits`, `OutlineFits`), and what a request or
  the job has in hand is as well, or its target changed since (`OpFits`, `JobFits`).
- `RealtimeSyncProofs`.  `SyncInv` is inductive.  That applied revisions are shown
  needs that data fetched for a target is at least as new as it (`FetchedIsShown`),
  that every revision the client was told of exists (`KnownRevisionsExist`) and
  that revisions and the screen only advance.

Assumptions on constants: placeholders differ from real values; bounds are
positive; `TmdbAssumption` fixes how an answer is encoded; `PipelineAssumption` says
that a planned group has at least one scan group and a scan group comes of one
planned group only, which is how `build_pending_scan_groups` groups files (two
titles with one presentation key in different planned groups are outside the
model); `MaxOutages <= 1` is a hypothesis of `OutagesAreHarmless` alone.

Induction over data.  The library's theorem for it takes an operator, which the
provers cannot instantiate.  Over a *set* of numbers it can be had:
`NatLessThanWellFounded` and `WFMin` give a least number that is not in the set
(`LeastNumber`, `Induction` in `ScanPipelineProofs`).  That is enough for sums over
finite sets; folds over sequences and filtered sequences were not attempted.

Only model-checked:

- all liveness properties (`WorkEnds`, `ScanEndsUnlessBlocked`, `RetentionEnds`,
  `EveryGroupEnds`, `PlayedSeasonsAreAnswered`, `Synced`,
  `EndsSettle`): fairness and ENABLED are out of the prover's reach;
- `CatalogInv`, `AcceptedBindingsSurvive`, `RecordsFollowWorks`: transactions fold
  over the files of a group, and a theorem would need what each fold leaves;
- the four properties of `LocalMetadata`, for the same reason and because "as a
  fresh import" evaluates the import itself;
- `AudioCacheInv`: sums over sequences of artifacts filtered by eviction;
- `PagesTile` and `AnswersAgree`: sorting and slicing of listings.

What the proofs changed in the models: without the uniqueness of a scan group's
planned group `PipelineInv` is false for constants that TLC was never given, so the
assumption is now stated and checked by every run of the module.

## Findings

- `local_versions` (has a run): of two versions of a movie with an NFO each, the
  remote half of the second deletes the row of the first version's NFO, although
  `local_metadata.rs` promises the global minimum in any order.
- `resubscription` (has a run): `docs/SSE.md` says that `resync.required` is sent
  when the listener subscribes again, to close the gap in its notifications.  It is
  sent only where `realtime.rs` subscribes itself; when `recv` makes a broken
  connection again, notifications are lost and no client is told to resynchronise.

The models reach more behaviours a reader of the code should know.  The properties
name them as exceptions, or leave them out for a stated reason:

- The revalidation scheduler inserts from a snapshot taken without the lock that
  claims use; with a dead worker's scan this leaves two jobs waiting for each other.
  An intro detection inserted while a scan is being enqueued escapes its
  cancellation, with the same end (`Wedged` in `WorkEnds`, `IntroWedged`).
- `wait_finished` loads the flag before it subscribes: a scan that finishes in
  between leaves the waiter to its timeout.
- A signal that closes the streams of a disabled user or a revoked session is lost
  in the same way.  Such a stream stays open with the authorization it had until its
  credential expires, another signal comes or its client leaves.  `StreamsAreCurrent`
  and its theorem name these streams as the only exception; `Synced` leaves out the
  resources whose notification was lost so.
- A library first scanned while its share was not mounted has the parent file
  system on record; a later outage of the share looks like local files that were
  deleted.  With two outages in one attempt, the look-ups find an empty folder
  after a second assessment that found the mount.
- The coordinator of the pipeline waits for the exclusive lock of the artwork
  cleaner while groups that only it can commit hold the shared one (`Blocked`).
- When local and remote commits split a work, the record of a user follows the file
  that left (`RecordsFollowWorks` is about works that stay whole).
- A change deferred because of an outdated answer about active scans may never be
  fetched; an answer read while the scan ran brings back the card that
  `scan.finished` removed; a refresh of the scan resource alone removes a card
  before the catalog refresh it should outlive (`Synced` leaves these out).
- A rename handed to the file system before its client left may happen after an
  eviction counted the file as removed.
- A manual refresh that is open when an intro is recorded is not excluded by the
  job (`raced` in `IntroInv`).
- A sign-in that began before a password change creates a session after it.
- A refresh takes the snapshot it restores from what it read before its request, so
  a change made in between is not in it.

## Not modelled

- Remote streams: permits held by guards of one request and a redirect loop.
- Notifications, artwork and media delivery, subtitle conversion: single statements
  or I/O on one file, with no state shared between requests.
- Scanner and NFO parsing, FFprobe output, title scoring, JSON wording: text
  processing of single inputs.  Start-up and configuration; web pages and player;
  site, scripts and packaging.
- Within the modelled parts: mounts that come back with another source, the
  `storage_status` column, the deletion of leftovers at start-up;
  `session.invalidated`, a rebuilt database (`server_epoch`), the tick of
  continue-watching, several libraries per client; positions, durations and the
  watch history; ratings; sidecars of series and episodes; profile texts and
  password hashing; the composition of queue and registry, where a refused
  registration spends an attempt.

## Plan

Proofs still to attempt, in this order: the quota of `AudioTrackCache` (a sum over
sets of artifacts in place of the sequence, then `FilesAdd` in its terms);
`PagesTile` (a page as a set of positions); `CatalogInv` per transaction, with a
lemma for what one step of a fold keeps; `AnswersAgree`.
