# AniBT-Speed: models, checks and proofs

TLA+ models of the AniBT worker (`src/internal/anibt`, Go) and of its deployment
script (`src/scripts/deploy.py`), the TLC configurations that check them on small
instances, and TLAPS proofs. `PROJECT.json` is the index:
components, runs, which source lines each definition stands for, hazards,
findings and theorems. Paths below are relative to `src/`; `x.go` is
`internal/anibt/x.go`.

## 1. The system

One worker process follows RSS feeds, prepares downloads, submits them to
qBittorrent, watches them in snapshots, extracts media information from finished
files, uploads it, and archives torrents after 90 days: the torrent leaves qB, the
files stay. Everything durable is in one SQLite file. An operator runs commands of
the same binary beside it; a script deploys versions of it under systemd.

| Component | State | Operations | Works with |
| --- | --- | --- | --- |
| task store (`store.go`) | tables tasks, owners, receipts | Claim, claimValid, Transition, DeferDependency, Retry, Finish, Recover | every goroutine, each in its own transactions; one row has one resource, one resource one owner |
| sources (`source_store.go`) | tables sources, feeds, rejected; meta "replay:" | Ingest, Ready, Downloads, ReconcileDownload, Submitting | feed poller writes, prepare and control goroutines read and settle |
| feeds (`feeds.go`, `torrent.go`) | rows of feeds: validators, time of the last poll | sync, Poll, Prepare | publisher's site; task store |
| control cycle (`controller.go`) | last snapshot, cursor, clocks | Cycle: Observe, reconcile, queue, admit, archive, manifest | the only caller of qB |
| archive lane (`archive.go`, `archive_store.go`) | payload of archive tasks, table archives | archive, reconcileArchives, CompleteArchive | qB, disk, media lane |
| media lane (`media.go`, `media_format.go`) | samples and payload in the task | Step: one sample, or one upload | disk, MediaInfo, publisher's site |
| observation (`observe.go`) | exposures, content receipts, traffic | Observe, Maintain, Summary | snapshots |
| seeding queue (`policy.go`) | none | PlanQueue, PlanArchive, SharedContent | snapshot and exposures |
| qB client (`qbt.go`) | response id and copy of qB's torrents | Snapshot, Execute, Add, Files | qB; other commands ask the same qB |
| outbox (`notify.go`) | tasks of lane notify, receipts | event and Summary write, Step sends | every transaction that tells the operator something; Telegram |
| operator (`operations.go`, `cmd/anibt`) | none | retry, cancel, replay | the tables, from another process |
| worker (`worker.go`) | job table, process lock, effects marker | Run, settle, loops | systemd, activation file |
| deployment (`scripts/deploy.py`, `deploy/anibt.service`) | releases, link, unit, backups | apply, rollback | systemd, the worker, the state file |
| state upgrade, import, diagnosis (`upgrade.go`, `import.go`, `diagnose.go`) | none | offline | the state file |

What is hard: five goroutines, an operator's process and a publisher interleave
between any two transactions; qB acts late, or not at all, and its answers prove
nothing; torrents are moved, removed and damaged by hand; leases run out; the
process and the deployment script die anywhere and are started again. The list of
hazards, each at its line and with the properties that watch it, is in
`PROJECT.json`.

What makes each part correct:

- task store: no two jobs on one resource; a settling write comes from the job that
  has held the resource without a gap; attempts are bounded.
- sources and admission: no release is forgotten, none is prepared from a superseded
  source, none is submitted twice blindly or without bound; content is downloaded once.
- archive: nothing is recorded without proof, nothing removed is lost from the books,
  the media work survives.
- media: a payload describes the files at one path; a delivered torrent is not done again.
- seeding queue: every torrent has its turn, a turn lasts as long as configured, and the
  pool keeps to its target while those in demand or recent come first.
- feeds: the first reading of a feed is history and never work; what a feed lists from
  then on is taken up, whatever fails, is cut short or answers 304; every feed has its turn.
- qB client and traffic: a snapshot is what qB had when it answered; an interval of
  traffic is known only if the counters show it.
- outbox: no notice is lost before it is shown, a receipt means it was shown, and one
  that Telegram refuses holds up no other.
- deployment: no state comes back that has forgotten an external effect; once the service
  has been stopped, a release works again, with the exceptions `ServiceReturns` states.

## 2. Modules

| Module | Models | Checked by |
| --- | --- | --- |
| `TaskClaims` | `store.go` and every other statement that writes phase, resource, revision, token, lease or attempts | `MCTaskClaims` |
| `ResourceLease` | what the store promises: an exclusive lease per resource | refinement `LeaseSpec` in `TaskClaims` |
| `TaskClaimsProofs` | theorems about `TaskClaims`, and its refinement of `ResourceLease` | TLAPS |
| `DownloadPipeline` | a download from the feed to qB | `MCDownloadPipeline` |
| `DownloadProofs` | theorems about `DownloadPipeline` | TLAPS |
| `ArchiveMedia` | the archive and media lanes of one torrent | `MCArchiveMedia` |
| `ArchiveProofs` | theorems about `ArchiveMedia` | TLAPS |
| `SeedingQueue` | `PlanQueue`, the exposures of `Observe`, `WithoutArchiving`, the queue commands | `MCSeedingQueue` |
| `SeedingQueueProofs` | theorems about `SeedingQueue` | TLAPS |
| `FeedPolling` | `Poll`, `pollOne`, `parseFeed`, `SyncFeeds`, `Feeds`, `FeedError`, the feed side of `Ingest` | `MCFeedPolling` |
| `Observation` | `QBT.Snapshot` against qB's delta stream, `recordTraffic`, `Traffic`, `Maintain` | `MCObservation` |
| `Outbox` | `event`, `Summary`, `notify.go`, the lane notify of the store, operator commands on it | `MCOutbox` |
| `FeedPollingProofs`, `ObservationProofs`, `OutboxProofs` | theorems about these | TLAPS |
| `Deployment` | `deploy.py`, systemd and the start of the worker | `MCDeployment` |
| `DeploymentProofs` | theorems about `Deployment` | TLAPS |

`TaskClaims` is the shared substrate, with clocks, tokens and lease lengths. The two
pipelines use its result, not its clock: a claim belongs to one goroutine, a job
settles within its lease, and a claim whose job is over expires at some time. That
is justified by the budgets: 20 s of control under a 60 s lease, 40 s of preparation
under 120 s, 15 s of upload under 120 s, and the media timeout plus 20 s under the
same plus 60 s.

How state and actions correspond:

- A transaction is one action, since `SetMaxOpenConns(1)` and SQLite make it one. A
  read outside a transaction (a snapshot, a file, a feed) is an action of its own, and
  what it saw is kept in the variable of the goroutine (`prep`, `ctl`, `job`, `held`).
- A request to qB is a counter of requests under way (`sent`, `removals`): it may land
  or be lost at any later step, and its answer may be either.
- Payloads are reduced to what decides: the version of the source, the infohash, the
  save path, the samples with the path they were read at.
- `DownloadPipeline` counts revisions in a circle longer than any run of writes a
  goroutine can miss (`PipelineAssumption`), so that the state space is finite.
- `FeedPolling` keeps `feeds.polled` as the rank among the feeds, in a strict order (two
  feeds polled in one second come in either order), and a validator as the set of releases
  it stands for. The directory is read, or not, at the beginning of any poll.
- `Observation` has seconds, and `sent` is what qB really uploaded up to each of them. An
  observation is committed in the second it was taken, at most one a second
  (`Worker.loop` pauses for one).
- `Outbox` has no clock: a row waits or is due, and the due rows stand in `line` as Claim
  takes them, new ones before those sent in vain.
- `SeedingQueue` keeps times as far as they are compared: `last` as a rank, `started` as a
  flag with an age of at most `EXPOSURE`. A sorted prefix is any choice of members
  (`Firsts`) that leaves no earlier one behind, so ties by age or hash are open. HOT and
  demand are one set, `wanted`, as the code treats them alike.
- `ran`, `seen`, `permitted`, `stale`, `gone`, `taken`, `published`, `corrected`, `issued`,
  `last`, `waived`, `first`, `early`, `delivered`, `owed`, `lost` are history variables: no action reads them to decide, except `last` and the
  bound on `issued`, which limit what the operator does or how long a run is.

Some definitions come in pairs, such as `Claimable` and `ClaimableByRowOnly`. The
second is a plausible mistake in the code (a dropped guard, a missing reset, a
wrong phase). No action uses it; substituted for the first it must break the
property `PROJECT.json` names, which shows that the property depends on that code.

## 3. Runs

| Run | Instance | Distinct states | Shows |
| --- | --- | --- | --- |
| `claims` | 1 release, 1 torrent (3 tasks on up to one resource), 3 goroutines, 3 claims, clock to 3, 3 revisions, 2 attempts | 1,046,656 | the claim protocol, its inductive invariant, and that it implements an exclusive lease |
| `release` | 1 release, 3 versions, 2 torrents, 2 attempts, 1 command, 1 fault, fairness | 572,225 | the life of one release, with corrections that change the torrent; it does not wait for ever, through retries, repeated submissions and corrections |
| `duplicates` | 2 releases of 1 torrent, 2 attempts, 1 command, 1 fault | 702,825 | deduplication and its interplay with replay |
| `archive` | 1 torrent, 2 paths, 2 samples, 2 attempts, 1 command, 1 fault, 1 change by others, fairness | 406,266 | archive and media lanes over moves, lost removals and damaged files; a verification ends, and media work outlives qB and is finished |
| `seeding` | 3 torrents, target 2, batches of 1, exposure 1, 1 change by others, 1 lost request or restart, fairness | 333,730 | turns come, last long enough, and the pool returns to its target |
| `feeds` | 2 feeds, 2 releases of the first, one there from the start, the other listed by feed 2 first and too early at first, 1 worker, 1 fault, fairness | 77,870 | history is not downloaded, feeds have their turns, listed releases are taken up |
| `observation` | 1 torrent, interval 1; either 2 seconds with 2 changes and 2 faults, or 6 seconds with 2 units uploaded and 1 fault | 1,547,558 | snapshots are true, traffic is honest |
| `outbox` | 2 events, one of them refused for ever, 1 day, 2 attempts, 3 occurrences, 1 fault, 1 retry, fairness | 287,750 | notices are not lost and arrive |
| `deployment` | a schema 2 release and two schema 3 builds, 2 effects, 2 rollbacks, 1 kill or reboot, fairness | 33,193 | no effect is forgotten, the state is exchanged only when nothing runs, the release can open its state, a release works again after each stop of the service |

Runs expected to end in a violation show the three findings of section 6.

Why these bounds are enough. The claim protocol's cases need two goroutines and a row
that changes hands: three claims give claim, takeover and settlement of the first;
three clock values give a lease of 2 beside one of 1, so that one expires inside the
other. A release needs three versions, of which the first two
lead to one torrent and the third to another: one correction leads back to a torrent already
requested, one away from it. Two attempts give a failed preparation, or a submission that is not
confirmed, that is followed by another and one that is the last; both are in the run that
checks `EveryReleaseSettles`. A fault strikes at any single point; two releases of one torrent cover every pair, because rows
of other torrents share neither resource nor receipt. The archive run has a fault to
damage and one to crash or move; two samples are what mixing needs. The queue needs a torrent that
waits for two that run; one change by others and one fault, at any two points, in any
state of the exposures. Observation takes one of two sets of bounds: changes of torrents and
faults need few seconds, and traffic needs no torrents but six seconds, two of the longest
intervals that count as known, so that a window can begin and end inside an interval. `feeds` has one worker, so that a poll can be cut with a feed left; with more of them its
invariants are proved. Days of
the outbox are independent keys, so one is enough; two events give one that is refused and
one that is not, and the summary a third row beside them. Deployment needs a
host release, a deployment across schemas and one within, hence three builds; one kill
at any step; and two effects, one before and one after a snapshot.

Deadlock is checked except for deployment, where a system with the service stopped and
no builds left to stage is at rest, and for observation and outbox, where the bounds on
time, events and faults bring the system to rest.

## 4. Fairness

- Loops: `Worker.loop` runs each goroutine again after at most five minutes, so the
  steps of a job that has begun, and the claims of its lane, are weakly fair.
- `SF` on a claim (`ManifestClaim`, `MediaClaim`) or on what a cycle decides
  (`BeginCycle({}, Elapsed)`, `VerifyOverdue`): the choice is open again in each cycle
  and closed in between; due times grow but are finite, and rows are taken in the order
  they are due, so a row that stays eligible has its turn.
- `SeedingQueue`: some step of a cycle is always enabled, so `Progress` asks for infinitely
  many of them; time passes (`Tick`, `Rest`), and the archive lane ends with a torrent.
- Leases end (`Expire`), systemd restarts (`Restart=on-failure`: `Recover`, `Start`),
  and a request is at some time carried out or dropped (`Land` or `Lose`).
- `SF` on `BecomeReady` and `Activate`: a worker that is restarted for ever passes its
  preflight some day (the network and qB return), and looks for its activation file at once
  and then every second (`worker.go:251`). The steps of the script are weakly fair; that any
  of them fails is one of its steps.
- `FeedPolling`: the goroutine and its workers go on (`WF` on `Feeder`). `SF` on the answer
  and on the transaction of each feed: a feed that is asked again and again is answered
  and stored some time. `SF` on `EndPoll` with feeds left to poll: when a worker is free
  and the budget is over, both arms of the `select` are ready (feeds.go:184), and Go
  chooses between them at random, so a poll that is cut ends.
- `Outbox`: loops run, requests end, leases lapse and rows come due (`WF`); a message that
  is sent again and again is shown and acknowledged some time (`SF` on `Deliver`), except
  for those in `Poison`.
- Nothing is assumed of operators, publishers, people in qB, or that a request
  succeeds.

## 5. Proofs

Every safety property that a passing run checks is proved, for every value of the constants
that the assumptions named below allow. For each of the three findings it is also proved where
it comes from: without the step named there (and, for finding 3, without the cut restore of
section 6), the violated property holds.

`TaskClaimsProofs` proves all properties of `TaskClaims`, for every set of releases and torrents, all
lease lengths, numbers of attempts and bounds:

- `ClaimInvariant`: `Spec => []ClaimInv`,
- `OneReaderPerResource`: `Spec => []ExclusiveReader`,
- `OnlyReadersSettle`: `Spec => []SettlerIsReader`,
- `StoreIsALease`: `Spec => LeaseSpec`, the refinement of `ResourceLease`,
- `VerifyingIsQuiet`: `Spec => VerifyingStaysQuiet`,
- `AttemptsAreBounded`: `Spec => []RetryBudget`.

They rest on `BoundsAssumption` (positive leases and attempts, natural bounds), which
TLC evaluates in the run `claims`, and on tokens being fresh: `token()` draws 128
random bits, the model counts.

The argument. `ExclusiveReader` is not inductive: it says nothing of the owner rows.
`ClaimInv` adds `ReaderOwns` (a job within its lease is backed by the owner row of its
resource, with its token and its end), `TokensAreUnique`, `RowMatchesHolder` (a row with
a worker's token is the row that worker claimed, with the lease it was given, and no
correction has voided it), `ClaimedRowsOwnTheirResource` and `DownMeansIdle`. Two
readers of one resource would need one owner row with two tokens. The proof first
reduces each action to a shape, that is, what it may do to tokens, leases and owners: a
settling write, a write that leaves the owners alone, or a write that revokes; claiming,
time, crash and recovery are treated one by one. Each shape is shown once to preserve
each part of the invariant.

The refinement maps the readers of a resource to the workers that work on it within
their lease. A claim finds the owner row expired, so by `ReaderOwns` nobody reads; from
the shapes, every other step leaves a claim in hand or drops it, so it is a `Leave`. For
`VerifyingStaysQuiet` the proof adds that an archive task and its holder never leave their
torrent (`AtHome`). A write that opens verification then comes from the one reader of
the torrent, and a claim of another lane is refused while it lasts.

`RetryBudget` is not inductive either, because the count runs on across phases.
`BudgetInv` says for each lane which phases its rows have and what a row may have spent
on arrival: a download in `ready` must have an attempt left, as `Submitting` spends one
without a check; an archive in `ready` need not, as its next failure blocks it.

`DownloadProofs` proves, from `PipelineAssumption` (a circle of revisions that is long
enough, at least one attempt; evaluated in `release` and `duplicates`), all invariants of
`DownloadPipeline`, for any releases and torrents, any number of versions, attempts,
commands and faults:

- `PipelineInvariant`: `Spec => []PipelineInv`,
- `PipelineTypeOK`, `NothingForgotten`, `LatestSourceIsPrepared`, `ResourceIsContent`,
  `RequestsAreBounded`: `Spec => []` of `TypeOK`, `NoReleaseForgotten`,
  `PreparedFromLatestSource`, `ResourceNamesContent` and `SubmissionsBounded`.

No action touches two rows, so the invariant is a predicate of one row, its source, its
receipt and the number of commands (`RowInv`). It says more than the properties: a blocked
row that was never confirmed is on the latest source, because a retry puts it back
to work as it is; a row with requests left to make has made fewer than the bound; and a
confirmed row has its receipt, because it may end later without a new one. `CtlInv`
carries what reconciliation knows of rows it has read in between: one that is submitted
now was submitted then, so that "removed" cannot hit an open submission. Rows of a later
life (`Reused`, finding 1) are written over from what was read; for those (`stale`) `RowInv`
drops exactly what the finding breaks, and keeps the rest.

Its action properties are proved from three more invariants:

- `OnePursuer`: `Spec => OnePursuerPerTorrent`,
- `ContentNotRepeated`: `Spec /\ [](stale = {}) => NoRepeatedContent`,
- `NothingSubmittedBlindly`: `Spec /\ [](stale = {}) => NoBlindResubmission`,
- `OldResultsStayOut`: `Spec /\ [][NoReplayMeanwhile]_vars => OldResultsNotWrittenBack`, and
  under the same hypothesis `ContentNotRepeatedUnlessReplayed` and
  `NothingSubmittedBlindlyUnlessReplayed`.

`PursuitInv` adds that a row which was read for reconciliation and has been blocked since
names no torrent, so that writing it back adds no pursuer. `ContentInv` adds that what an
observed row names has been seen (`KnownContent`), that a row is ready for content that has
been seen only where a replay permits it, and that other content has one pursuer
(`NewContent`). `RequestInv` says that a request under way belongs to a submission that has
not ended, or to content that was seen since (`RequestsSubmitted`). The hypothesis
`[](stale = {})` is finding 1, stated: no old row is written over a newer one. Without it both
fail: with two releases, three commands (cancel, replay, retry) and two corrections between a
read and its write, TLC confirms a trace in which a prepared row is blocked by an old
result, another release takes its torrent, and the retry requests it again.

`NoReplayMeanwhile` says where finding 1 comes from: no release is replayed after Downloads has
read its row and before ReconcileDownload looks at it. Nothing else is excluded: corrections,
retries, cancellations, failed jobs, expired claims, crashes, and replays at any other time.
Its invariant is `LifeInv`: each row still to be reconciled is the row that was read, or has
gone on from it, or its release has ended and has its receipt (`SameLife`). The generation check
is sound then because a life goes through fewer revisions than the circle has: each takes an
ingested version, its preparation or a command, and `Paces` counts these from the tables as they
are. So a row with the revision that was read is the row that was read, and `stale` stays empty.

All of these hold for any number of commands and faults. A request is blind only if nothing was seen of the
torrent since the one before: with one command and three faults TLC finds a torrent that was
added by hand, removed and replayed while the first request is still under way. A replay is
refused only while the outcome waits to be confirmed (`README.md:107`), and here it is.

`ArchiveProofs` proves every safety property of `ArchiveMedia`, from `ArchiveAssumption`
(evaluated in `archive`), for any torrents, samples, attempts, commands and faults:

- `BaseInvariant`: `Spec => []BaseInv`, and from it `ArchiveTypeOK` and `PayloadsAreWhole`
  (`TypeOK`, `PayloadFromOnePath`),
- `MediaWorkFollows`, `MediaOutlives`: `MediaFollowsTorrent`, `MediaOutlivesArchive`,
- `ArchivesAreProven`: `Spec => ArchiveIsProven`,
- `RemovalsAreAccountedFor`: if `~SlowRemoval`, `Spec => []RemovalIsAccountedFor`,
- `ManifestsAreKept`: `Spec /\ []enabled => ManifestKeptForOperator`.

`BaseInv` ties the goroutines to the tables: the row a cycle or a media job holds is claimed,
and what the job has in hand comes from that row, so its samples are of one path. The
snapshot a cycle decides on is older than qB, and each of the other invariants says how
much of it may still be believed. `PlaceInv`: a row at work has the path of the last
snapshot. `ProofInv`: a torrent that has a manifest and is absent, in qB or in the
snapshot being compared, has been out of qB since the manifest was saved (`gone`); this is
what makes absence a proof. `RemovalInv`: a row that has not asked for a removal has none under
way, so that what vanishes then was not ours. `SlowRemoval` is section 6's limit: qB may take
longer than the grace, and the property then fails. `ManifestsAreKept` says that finding 2 has
one cause: while archiving stays switched on, only an operator's command ends a blocked task.

`DeploymentProofs` proves every safety property of `Deployment`, from
`DeploymentAssumption` (evaluated in `deployment`), for any builds, effects, rollbacks, kills
and reboots:

- `LifeInvariant`: `Spec => []LifeInv`, and from it `DeploymentTypeOK` and
  `StateFileIsQuiet` (`TypeOK`, `StateReplacedWhenStopped`),
- `NoEffectForgotten`: if `~AnyBackup` and `~CutRestore`, `Spec => []EffectsRemembered`,
- `NoReleaseLockedOut`: if `~AnyBackup`, `Spec => []CurrentCanOpenState`.

`LifeInv` says what is true at each step of the script: no service runs between `stop` and
`start`, and a worker that runs is the release of the link. `WayInv` follows the candidate and
its predecessor from the backup to the links. `RememberInv` says that the state knows every
effect but while a backup is being copied over it, and that the last backup knows every
effect as long as the marker file of its deployment is missing and the deployment, or the
release it put in place, goes on: then no worker has issued any since. `OpenInv` says of each step who can open the state. The two conditions on the constants
are finding 3 (an operator takes an older backup) and the cut restore of section 6; both are
instances in which the run fails.

`SeedingQueueProofs` proves for every set of torrents and all limits, from
`QueueAssumption` (a finite set of torrents, natural limits; evaluated in `seeding`):

- `RowsNeverRunAhead`: `Spec => []RotationInv`,
- `TurnsAreFull`: `Spec => []FullExposure`,
- `QueueTypeOK`: `Spec => []TypeOK`.

`FullExposure` relates a plan to what really runs in qB, with the table `exposures` in
between. `RotationInv` adds that a row is no older than the run it records (`HonestRows`),
that a plan starts only what no row takes to be running, and that the rows follow the
last snapshot this process has seen (`RowsFollow`). Again each action is reduced to a
shape: `RunShape` lets a run begin only where no row says the torrent is running. The
assumption in it is `Unseen`: what a user stops or removes is not started again by hand
before the worker has looked. `TypeOK` says among others that no plan stops or starts more
than `POOL_BATCH` torrents, which needs the size of each sorted prefix (`Firsts`).

`FeedPollingProofs`, from `FeedAssumption` (any number of feeds and workers, any
releases), proves

- `FeedInvariant`: `Spec => []FeedInv`,
- `HistoryStaysHistory`: `Spec => []HistoryNeverDownloaded`.

That history is never work is a statement about `first` and `taken` only, but what keeps it
so is the flag `initialized`, which an answer may carry on its way: `AnswersMatch` says that
an answer marked as history comes from the first reading, that any other comes after it,
and that an answer 304 adds nothing. `HistorySettled` ties the flag to the first reading,
and `NothingBehindValidator` ties the stored validator to what was read under it.

`ObservationProofs`, from `ObservationAssumption`:

- `StreamInvariant`: `Spec => []StreamInv`,
- `SnapshotsAreTrue`: `Spec => SnapshotIsTrue`,
- `RowsAreHonest`: `Spec => []IntervalsAreHonest`,
- `TrafficHonest`: `Spec => []TrafficIsHonest`.

A delta is right only on the copy it was made against. `StreamsAgree` says that a copy with
the id of one of qB's last two answers is that answer, and `AnswerBringsCopyUp` that
the answer on its way, merged into the present copy, gives what qB had. Both survive a
malformed answer only because its id is dropped, which is what the mutant `BadKeepingId`
undoes.

`IntervalsAreHonest` is what `TrafficIsHonest` rests on: a known row spans no more than three
intervals, its rise is what qB uploaded between the two answers it came from (at most, if a
restart took the counter back), and of two rows one ends, and was read, before the other begins
(`Before`). An answer
is recorded later than it was given, by no more than the budget of a cycle; the invariant
carries that delay for each second at which a reading was recorded (`ReadingsInv`), and
says what the counter rose by since the last sample and since the answer on its way.

`TrafficHonest` adds the rows of a window up. The fold that sums them is a recursive function
on sets, and an induction theorem needs an operator as its parameter; instead a claim about all
sets of rows is refuted at a smallest set that breaks it, which `LeastSubset` gets from the
library's `WFMin`. `SumAtMost` and `SumAtLeast` compare a sum with the size of a union of sets.
For the coverage these are the seconds of each row, which are disjoint; for the upper bound, the
units that qB sent between the two readings of each row, disjoint by `Before`. For the lower bound
only the rows that begin in the window count, each of them whole, and `UnitsCovered` finds every unit
between the readings of one of them: of those that reach so far, the one that ends first.

`OutboxProofs`, from `OutboxAssumption`:

- `OutboxInvariant`: `Spec => []OutboxInv`.

Its heart is `NothingUntold`: what is owed has a row. The row goes in `Finish` and `Cancel`
only, and `AnswersAreTrue` says that what is about to be finished has been shown.

Model-checked only is liveness: `EveryReleaseSettles`, `ArchivedWorkSettles`, `ServiceReturns`,
`PoolReturnsToTarget`, `EveryoneRuns`, `EveryFeedIsAsked`, `ListedReleaseIsTakenUp` and
`NoticesArrive`. The provers used handle neither fairness nor ENABLED.

## 6. Findings

1. `stale_reconcile` (`source_store.go:203`): revisions restart at 1 with a replay, so
   `ReconcileDownload` can write an old row over a newer one. The trace has a replay, two
   corrections and a retry between the read and the write; the release can be lost.
   `ResourceNamesContent` and `NoReleaseForgotten` hold except for such rows (`stale`).
   Without a replay in between there are none (`OldResultsStayOut`).
2. `archive_switched_off` (`controller.go:86`): switching archiving off deletes blocked
   archive tasks and with them the manifest kept for the operator.
   `RemovalIsAccountedFor` holds but for those. While archiving stays on, the manifest is kept
   (`ManifestsAreKept`).
3. `rollback_old_backup` (`deploy.py:120`): a manual rollback to the backup of a candidate
   that never became active restores a state older than effects of the release that ran
   on. The run `deployment` lets an operator roll back the current release from the last
   backup only (`AnyBackup = FALSE`), and then no effect is forgotten (`NoEffectForgotten`).

Narrower limits of the checked claims:

- A removal carried out after the 120 s of grace ends the task with no record, because the
  task has gone back to `ready` (`archive_store.go:60`) and `archive()` then finds the
  torrent gone (`archive.go:62`). The run `archive` assumes removals within the grace
  (`SlowRemoval = FALSE`); with `TRUE` TLC finds `RemovalIsAccountedFor` violated.
- A release that is dated too early is skipped while the validator of its feed is stored:
  it is asked for again when the feed changes, not when its time comes
  (`ListedReleaseIsTakenUp` leaves out exactly these, by `early`).
- An entry that is too old at the first reading gets no receipt, so that a longer
  `RELEASE_MAX_AGE` later makes it work; `FeedPolling` has one age for all time.
- A counter that goes back and grows past its old value within three intervals counts
  as known, with less than was uploaded. `TrafficIsHonest` promises a lower bound only
  where no restart took a counter back.
- The clock is taken not to go back; if it does, intervals overlap and coverage is
  counted twice.
- qB's response ids are taken not to be reused while one is referred to. A qB that
  restarts counts from 1 again, so an id that happens to be the same could be taken for
  the old one.
- An event with the key of a notice that is just being delivered is told by that message
  (`INSERT OR IGNORE`). A cancelled summary leaves no receipt and is written again
  within a minute. The pause that Telegram asks for (429) holds only the notice it was
  asked for.

- A torrent that stops itself between two snapshots after each start (a share limit of
  qB) is never seen to run, keeps its place at the head of the queue, and is started in
  place of others. `EveryoneRuns` assumes a bounded number of such events (`MaxChanges`).
- A restore that is cut short between removing the state and copying the snapshot
  (`deploy.py:129`) leaves an enabled service to start on an empty state. The runs of
  `Deployment` let faults strike anywhere but there (`CutRestore = FALSE`); with
  `CutRestore = TRUE` TLC finds `EffectsRemembered` violated.
- An operator who retries a blocked release beside a replay of another one of the same
  torrent can have two tasks pursue it (`operations.go:39`). `OnePursuerPerTorrent` excepts
  a retry by name. `NoBlindResubmission` lets a torrent be requested again while the first
  request is under way if it was seen in qB in between (added by hand, then removed and
  replayed).
- A row that a command deletes between Downloads and its reconciliation fails the whole
  cycle (`source_store.go:200`); the next one reads again, so nothing is lost by it.
- A request to qB still under way is taken to be younger than `ConfirmTimeout` (minutes
  against seconds; `Elapsed` in `DownloadPipeline`).
- A deployment across schemas that fails after its activation, or is rolled back then, leaves
  the service stopped with the new state: `restore` refuses (`deploy.py:124-126`), and only a
  newer build helps. `ServiceReturns` names this case (`RepairForward`). It also names a candidate
  that fails before its activation and is not stopped by systemd (`deploy.py:113`): it is left
  waiting for the file (`LeftWaiting`). And it speaks of hosts that had a release, and of scripts
  that are not killed. TLC finds it violated without any one of these exceptions.
- `EveryReleaseSettles` counts a blocked release as settled: it waits for an operator. It is
  checked for one release; that two of one torrent stand in each other's way only by closing
  one of them is what `OnePursuerPerTorrent` and `NoRepeatedContent` say.
- A release whose entry names no publisher belongs to the feed that lists it
  (`feeds.go:59-61`). `FeedPolling` gives each release a home for all time.
- `Observation` follows one counter; the code treats the two of qB, up and down, alike but
  for one thing: if either goes back, the interval of both is unknown.
- A script that is killed after `upgrade-state` and before the link leaves the old binary
  with the new schema; `CurrentCanOpenState` speaks of histories without such a kill.

## 7. Not modelled, and why

- Payload conversions (RSS, bencode, MediaInfo text, HTTP, configuration): no state of
  their own; their results are the members of small sets.
- `diagnose.go`, `import.go`, the build and conversion scripts: sequential and offline.
- Due times: any row whose guard holds may be taken, which covers every order they give.
  The properties about them (back-off) are unit-testable.
- Rate limits (`controller.go:238`) and the published summary of the control cycle:
  values that are written and never read back.
- Counters kept by triggers: a trigger runs inside the statement it counts, so nothing can
  come between.
- `SelectSamples`, `SharedContent`, `PlanArchive`: pure and sequential choices. `ArchiveMedia`
  lets any complete torrent be due and any file be a sample, which covers every choice.
- `UpgradeState`'s rewriting of old cleanup tasks: one offline transaction.

## 8. Plan

1. Proofs: the lemmas on steps that the proof modules repeat, shared by them.
2. `Selection`: `PlanArchive`, `SharedContent`, `SelectSamples` as functions against
   reference definitions.
3. `UpgradeState`'s treatment of old tasks in `Deployment`.
