# Zlatan in TLA+

Zlatan moves one person's Google Photos and Drive to Immich and Nextcloud, with
a wizard in front and long-running tools (rclone, immich-go) behind. This
directory models the parts of it whose correctness depends on the order in which
things happen, checks them with TLC on small instances, and proves what matters
most with TLAPS. Paths below are relative to `src/internal/`.

## 1. Inventory of the system

| Part | State it keeps | Operations |
|---|---|---|
| **Photos track** (`runner/runner.go`, `parts.go`, `problems.go`) | `migrations.photos_state`, its progress (with the list of files left out), declared parts, automatic start; in memory `Runner.claim` and `Runner.limiter` | choose a route, declare parts, start/retry/accept, `startUploadedImport`, `runTakeoutDownload`, `runPhotosImport`, `runProblemsRetry`, `RecoverInterrupted` |
| **Upload store** (`upload/upload.go`, `web/upload.go`, `web/static/wizard.js`) | per name: `manifest.json`, `data`, archive, `.sha256`; in memory one lock per session | `Begin`, `WriteChunk`, `Status`, `Complete`, `Abort` |
| **Takeout watcher** (`runner.go` `WatchTakeout`) | `photos_wait_since`; the last listing seen, in memory | `pollTakeout`, `checkTakeout`, `takeoutReady` |
| **Staging purge** (`runner/purge.go`) | `migrations.photos_finished_at`, the staging directories | `purgeStaging`, `StampFinished`, `purgeUser` |
| **Credentials** (`runner/credentials.go`) | the `tokens` table | connect, `releaseFinished`, `sweepIdle`, `forget`, refusals in preflights |
| **Drive track** (`runner.go` `StartDrive`, `runDrive`) | `drive_state`, last error, quotas | connect Nextcloud, start, copy with retries and stuck detection, fail, reconnect |
| **Verification** (`runner/verify.go`, `runDrive`'s `onLine`) | `drive_files_copied`, `last_error`, what `onLine` remembers | count and diagnose from rclone's lines, `VerifyDrive` (by size, then a sample by bytes), the verdict |
| **Settlement** (`runner/verify.go`, `problems.go`, `finishPhotosImport`) | the last verification of the row, `photos_assets_added`, the retry folder | read immich-go's report and log, record, retry the files left out, fold the outcome, accept |
| **Parts counting** (`core/parts.go`) | none | `CountParts`, `Complete` |
| **Store** (`store/repo.go`) | SQLite, one statement at a time | the rows above |
| **Web, OAuth, clients, config, i18n, notify** | cookies; otherwise none | handlers, rendering, HTTP and process wrappers |

How they interact: handlers call the runner and the upload store under the
request's context; the runner writes rows and starts detached goroutines; three
watchers (Takeout, uploads, staging) read lists of rows and act on each; the
upload store and the runner share the staging directory; the watcher, the
handlers and the runs share the row of a person through single SQL statements
and, for some of them only, `Runner.claim`.

What is hard: (1) reads and writes of one row by many goroutines, some under the
lock, some not, with network calls of seconds to minutes between; (2) a restart
that loses every goroutine but no row; (3) a request context that is cancelled
in the middle of a handler; (4) a limiter held over hours by chains of
functions; (5) an upload whose chunks arrive late, twice, or into a session that
has taken the name, with a crash between any two writes; (6) sweeps that act on
lists they read earlier; (7) conclusions drawn from what other programs say at
one moment: two listings of a folder that Google is filling, a report and a log
of one import, a check that may not have come to its end. `PROJECT.json` lists each hazard at its line.

What makes each part correct: a running track has exactly one goroutine, which
alone ends it, and which does end; the limiter is accounted for; archives are
not removed from under anyone; an export is imported whole; an archive on disk
is the content that was announced, is kept, and is kept once; an upload comes to
an end; a token is forgotten only when nobody needs it; a copy is neither run
twice nor forgotten; a Takeout export is taken when it is finished, and only
then; a copy is called done when it is whole, and failed only for a damage that
is there; no photo that an import left out is forgotten by a later retry.

## 2. Modules

| Module | What it is |
|---|---|
| `PhotosTrack` | the Photos half of a migration and everything that writes it |
| `MCPhotosTrack`, `Photos*.cfg` | its instances |
| `PhotosTrackProofs` | typing and the limiter, for every value of the constants |
| `PhotosRunProofs` | one run, who ends it, no orphan, whole claims, stamps and the purge; extends the former |
| `DriveTrack` | the Drive half of a migration, and the Google and Nextcloud credentials of both |
| `MCDriveTrack`, `Drive*.cfg` | its instances |
| `DriveTrackProofs` | its types, the limiter and that a copy shown has a run, for every value of the constants |
| `DriveDoneProofs` | a finished copy stays finished, whose credentials are deleted, a failed track can be tried again; extends the former |
| `DriveCopy` | one copy's statistics, its reason on the row, its verification |
| `MCDriveCopy`, `DriveCopy*.cfg` | its instances |
| `DriveCopyProofs` | all its safety properties, for every value of the constants |
| `Parts` | `CountParts` of a set of archives |
| `TakeoutWatch` | the wait for an export: time, Google, the ticker, the listings; uses `Parts` |
| `MCTakeoutWatch`, `Takeout*.cfg` | its instances |
| `TakeoutWatchProofs` | `Parts` and the safety of the watcher, for every value of the constants |
| `LeftOut` | what an import left out: report, log, record, retries, acceptance |
| `MCLeftOut`, `LeftOutAll.cfg` | its instance |
| `LeftOutProofs` | all its properties, for every value of the constants |
| `Archives` | what the upload store promises (abstract) |
| `UploadStore` | the store itself, shown to implement `Archives` |
| `MCUploadStore`, `Upload*.cfg` | its instances |
| `UploadStoreProofs` | its types, the manifest and the hash, one place for a content, and the refinement of `Archives`, for every value of the constants |

### PhotosTrack

State. `photos`, `leftOut`, `finished`, `expected`, `auto` are columns of the
row of a person (`leftOut`: the progress column names files that were left out);
`tokens` and `staged` are the tokens table and the archives in the staging
directory; `claim` and `used` are the mutex and the length of the limiter;
`task` holds the goroutines, each with a program counter, a person and a job.

Actions. A member of `Tasks` is whatever the scheduler runs: a request, one
turn of a watcher for one person, a detached run. A request that ends in
`go run(...)` *becomes* that run. Each SQL statement and each network call is a
step of its own, so that everything between a check and the write it justifies
can be interleaved. The critical sections of the code are a step that takes
the lock and reads, and a step that writes and lets go: `UnlessRunning`/`Move`,
`Recheck`/`Claim`, `Settle`/`AcceptPhotos`, `ClaimForImport`/`ClaimUpload`,
`StillExpired`/`PurgeUser`. Writes the code makes without the lock are actions
without it: `ReconnectPhotos`, `CheckTakeout`, `SetPhotosParts`,
`StampFinished`, every step of a run.

Abstractions. An archive is its number in the export; a stamp is *never*,
*recent* or *expired*; what Immich, Google, rclone and immich-go answer is a
nondeterministic choice among the outcomes the code tells apart; error texts
and progress counters are left out. A first check that only reads
(`LaunchFromWizard`, `DeclarePhotosParts`) is one step with the start of its
request. The slot of the limiter is returned in the same step as the run's last
write: nothing lies between them. `RetentionPasses` waits until no goroutine
works for the person, since retention is days and everything a goroutine does
takes hours at most. Whether the Drive half allows a token to be forgotten is
open in `Forget`. The run's job is `download` until the archives are there and
the import goes on in the same goroutine with the same slot
(`runPhotosImportHeld`).

`Events` switches on what the world may do (`restart`, `disconnect`, `lapse`,
`takeout`, `redeclare`, `upgrade`, `overrun`), so that a property that fails because of
one of them can be checked and proved for the others, and the theorems can name
the assumption. `lapse` stands for every way in which a key goes away: refused,
unreadable, forgotten by the idle sweep, or released by the service itself once
the track is done.

### DriveTrack

State. `drive` is the column, `photosDone` what this part reads of the other,
`still` that `updated_at` is older than the retention. `tokens` is the tokens
table with the *values* of the Google token, the Nextcloud app password and the
Login Flow's poll token, `live` what the providers accept: a credential is a
number that `Fresh` gives out again only when nobody has it any more. `task`
holds the goroutines, with the credentials each has in memory; `used` is the
limiter. The Drive half takes no lock, so the model has none.

Actions. Connecting is `OauthCallback`/`Consented`,
`StartNextcloud`/`FlowStarted`, and `PollNextcloud`/`Poll`/`Granted`/`Spend`/`Ready`,
a poll that answers once and three writes; a copy is `StartDrive`,
`AskGoogle`, `AskNextcloud`, then `Acquire`, `Begin`, `ReadNextcloud`,
`RecordQuota`, `Stats`, `Rclone`, `VerifyDrive`; forgetting is `Release` or
`SweepIdle`, then `RevokeNextcloud`, `DropNextcloud`, `RevokeGoogle`,
`DropGoogle`, `Touch`. `AskGoogle` and `AskNextcloud` are the preflights wherever
they are made: before a copy, and after one that rclone gave up.

Abstractions. Each network call and each write is a step, but: the two reads of
`StartDrive` and those of `PollNextcloud` are one step with its start; Google's
exchange is one with the write of its token; the two deletions of
`forgetNextcloud` are one; `failDrive` and `reconnectDrive` write the state and
`last_error`, which is left out here, with the statistics: both are `DriveCopy`.
A provider may
answer "fine" to a dead credential: that stands for every failure that the
preflights ignore. The Immich key is in `PhotosTrack`. `OffersGoogle`,
`OffersNextcloud` and `OffersStart` are the buttons of the card in
`templates/wizard.html`; the server does not check them, and the events `stale`
(any button at any time) and `again` (Start while a copy is waiting or running)
lift them. `IdlePasses` needs weeks in which nothing of the person's runs, the
wait for a slot excepted, which has no bound.

### DriveCopy

State. `drive`, `filesCopied` and `lastError` are columns of the row; `dest` says
how each file lies in Nextcloud (absent, truncated, of the right size with other
bytes, the same); `transferred`, `transfers` and `newErrors` are rclone's side of
the statistics; `line` is what `onLine` keeps between two lines, `check` what
`VerifyDrive` has so far.

Actions. `Stats` is one line of statistics: the clamped difference is added to the
count, and `failing` decides whether the reason is set or withdrawn. The
withdrawal reads the row and writes it in two statements, hence `ClearReason`.
`CheckTree`, `CheckSample` and `Verdict` are the end of `runDrive`. The Photos half
appears as `PhotosStop`, which writes the column they share.

Abstractions. Slots, credentials and who may start are `DriveTrack`, which has the
verdict as a choice. Bytes and their counter are left out (they are added like the
files); the texts of the reasons are not told apart beyond whose they are. The
sample is any set of the right size, or nothing when the files cannot be
downloaded. `Reported` is what `rclone check` says: of everything, or with `cut`
of any part of it.

### Parts and TakeoutWatch

`Parts` is `CountParts` on a set of archives with the number that `partNumber` finds
in each name (`NoNumber` for none): what the regular expression does to a string is
the constant `Number`. `Have`, `Missing`, `TooMany` and `Complete` are those of the
struct, as `CountParts` fills it (finding 21).

State of `TakeoutWatch`. `photos` and the age of the wait are the row, `folder` the
size of each archive in the person's Drive, `remembered` the entry of
`takeoutSeen`, `poll` and `listed` where the watcher is and what it has read,
`pending` and `phase` the ticker. `quiet` and `ripe` are observers that the code
does not have: how long Google has not written, and how long a finished export
has been waited for without a failed listing or a restart.

Actions. `Pass` is a unit of time; an interval of the ticker has `Interval` of them,
and what the watcher does takes none unless `crowd` is on. A poll is `PollTakeout`
(prune the memory, read the row), `CheckTakeout` (the limit of the wait) and
`TakeoutReady` or `ListingFails`. `TakeoutReady` decides and writes in one step; that
these are two in the code, and who else may write in between, is `PhotosTrack`
(`OneRun`). Buttons write the row and no more: only the ticker makes the watcher
look. The event `stale` lets the buttons be pressed in the middle of a poll.

### LeftOut

State. `photos`, `leftOut`, `accepted` are the row; `staged` the files in the
archives, `immich` those in the library, `given` those that the last whole import
was given; `verified` and `assets` are the record and the count on the card; `run`
is the run that has the half, with what `settle` holds (`prev`, `missing`), what
immich-go was sent and what it answered.

Actions. `ImmichGoReports` chooses an outcome for each file sent; report, log and
library follow from it: `Counted` is `parseImmichReport`, `Outcomes` has the lines
immich-go writes about a file, and `immichProblems` reads those of all files, one after
another (`ReadLine`, `ReadFile`, `ReadLog`), with the code's four variables; it and
`Keep`, the code's `sentOf`, are recursive functions. Then `SetPhotosAssets`, `RecordOutcome` and
`FinishPhotosImport` are the three writes of `finishPhotosImport`, `Outcome` and
`Folded` the record of an import and of a retry.

Abstractions. A name is a value, and `LogName` what the log makes of it: the name,
or a shorter one where it is cut at " word=". `originOf` maps a name of the retry
folder back to the file it was copied from, so the model has the file. Reasons and
details are texts. An asset is one file: sidecars and live photos are immich-go's.
Who may start a run, and that only one does, is `PhotosTrack`.

### UploadStore and Archives

State. For every name: `manifest`, `data`, `archive`, `sumFile` on disk and
`lock` in memory; `task` holds the requests; `open` the uploads a tab is at,
`sent` the chunk requests whose copies may still arrive, `acked` the uploads
that were reported done.

Abstractions. A file is the sequence of its chunks and is its own SHA-256 (no
collisions), so that a running hash is the sequence it has consumed. A file is
identified with its number of whole chunks; a short body changes nothing in the
code and is left out. The path checks and size caps are left out. Two writes
that a crash can separate are two steps (`StoreChunk`/`RecordChunk`,
`DiscardData`/`ResetManifest`, `Place`/`RecordHash`/`Clean`,
`RemoveSome`/the rest); `RemoveAll` may have removed either file first. A crash
is one of the process: the kernel keeps what was written. I/O errors are not
modelled; they leave what a crash at the same place leaves. Begin's lock-free
reads are one step, the locked rest the next. A panic of an index that a
replaced session no longer has ends the request. The manifest's layout version
is not modelled. A tab waits for an answer before it asks for the next thing,
except that a chunk request it gave up on lives on; `overlap` lifts that.

`Archives` has three lines of meaning: a file lands where none was; it stays;
an upload is acknowledged only when its own file is in place. `Promised` maps
`archive` to itself and `acked` to the acknowledged uploads that announced a
hash, which are those the code promises something for.

## 3. Runs

| Run | Question | Properties |
|---|---|---|
| `PhotosAll` | the whole track, with restarts, lapsing credentials, both routes | `TypeOK`, `NoOrphan`, `SlotsAccounted`, `PurgeSparesWork` |
| `PhotosClaims` | the claim and the purge on the upload route, with cancelled requests and overrun runs | `OneRun`, `StampedOnlyEnded`, `OnlyHolderEndsRun`, `PurgedOnlyAfterRetention`, `ClaimedWhole` |
| `PhotosLive` | do runs end, does the sweep start a complete export | `RunsEnd`, `SweepStarts` |
| `DriveAll` | pages that are up to date, refusals, copies past their day; three goroutines, two credentials of each provider | `TypeOK`, `FailedCanRetry`, `FinishedStays`, `ClearsWhatItAsked`, `BothForgotten` |
| `DriveLive` | everything else that may happen: restarts, cancelled requests, stale pages, copies started twice, unreadable credentials, the idle sweep | `CopyHasRun`, `CopyEnds` |
| `DriveCopyAll` | copies, restarts and checks of a Drive with a document and a Takeout folder; damage, counts that fall | `TypeOK`, `DoneIsWhole`, `CountedOnce`, `NoFalseAlarm`, `PhotosErrorStays` |
| `TakeoutAll` | restarts, failed listings, buttons during a poll, and Google never pausing for a whole interval | `TypeOK`, `TakesOnlyWhole`, `TakenInTime`, `WaitEnds` |
| `TakeoutKinds` | every set of archives that `CountParts` tells apart, and Google pausing | `CountRight`, `OnlyTailMissing` |
| `LeftOutAll` | imports, retries and accepts in any order; archives that arrive late, restarts, logs that say too much or too little, or cannot be read | `TypeOK`, `NothingDropped`, `CardCountsAll`, `MatchedIsThere`, `RetryImproves` |
| `UploadSessions` | two names, two contents, late chunks, replaced and discarded sessions | `TypeOK`, `ManifestHonest`, `HashFollowsData`, `StoredOnce`, `KeepsPromise` |
| `UploadSurvives` | crashes anywhere, with and without a hash | `Survives` |
| `DriveCopyCut` | finding 20 | `DoneIsWhole` |

The other findings have a configuration each, not listed as runs: one property, which a
comment or a document of the repository states, in an instance made small for it, with the
events that break it and no others. TLC finds each violated within seconds, for instance
with `tlc -config PhotosDayOver.cfg MCPhotosTrack`.

Bounds, and why they are enough.

* *One person.* Rows of two people share nothing but the mutex and the limiter;
  with `Slots = 1` two runs of one person already compete for the slot, which
  is what a second person would add. The theorems hold for any set of people.
* *Three goroutines* in `PhotosClaims`, two elsewhere: a race needs the one that holds the
  track, the one whose check went stale, and the sweep or button that lets
  the state come back. Several tabs and sweeps beyond that repeat these roles.
* *Three goroutines and two credentials* in `DriveAll`: the two halves finish
  and release together while a copy or a connection is under way, and a
  credential in memory may differ from the one stored. *Two and one* in
  `DriveLive`, where the question is the copy's state and slot, not which
  credential it had; two copies, or a copy and one other task.
* *One or two parts.* Two where a complete export must be told from an
  incomplete one and from one with a wrong number (`PhotosClaims`, `PhotosAll`),
  else one.
* *Two requests, two names, two chunks.* Two names are needed for the same
  content under another name and for a tagged name; two chunks for a running
  hash that is behind; the two files of `Mixed` differ in their first chunk and in their
  size, so that a late chunk can corrupt, and can be out of range.
* *Four files, four transfers* in `DriveCopyAll`: a document, a file of the Takeout
  folder and two others, so that one may be damaged and copied again while the
  sample, of one file, is drawn from the rest; `StuckAfter = 2` is the first value
  at which `failing` counts.
* *Two parts, two sizes, intervals of three units, a wait of seven* in `TakeoutAll`: an
  archive may be absent, half written or whole, a look may come early or late in
  the time that Google has been quiet, and the limit of the wait falls between two
  looks. *Five archives* in `TakeoutKinds`: two parts, a second copy of a number,
  a name without one, -000; every set of them occurs.
* *Three files, a list of two* in `LeftOutAll`: the list is cut at `MaxProblems` when
  all three are left out; with two of them one can be retried with success, the
  other not; one has a name that the log cuts short. A list of three, and names that the
log leaves alone, are other cases: the theorems are for any.
* *Symmetry* among tasks, in runs without liveness only.

Deadlock is checked in every passing run except two. In `DriveAll`, with both halves done,
every credential forgotten and pages that are up to date, the migration is over;
in `LeftOutAll`, an import that is done.

Fairness. `Fairness` is strong fairness of each goroutine's own steps: the Go
scheduler runs every goroutine, tools and requests have timeouts, and a mutex
or a channel is eventually given to those who wait. That a run's tool ends before
the run's day is over is assumed where `overrun` is off (`RunsEnd`, `NoOrphan`,
`CopyHasRun`, `CopyEnds`). `Stats` is not in `DriveTrack`'s `Continue`: its lines bring a
copy no nearer to its end, and rclone is assumed to end. Strong, since a lock that is
free again and again may be taken again and again by others. `SweepFairness`
says that `WatchUploads`, a ticker, keeps coming round, although the bounded
pool of tasks may be full at times. No button is fair in
`PhotosTrack` or `DriveTrack`. In
`UploadStore` the requests are served, and the wizard's loop is fair: the person
opens the page again until it says done, which is the condition under which
"survives a closed tab, a dropped connection or a restart" means anything.
`TakeoutWatch` has weak fairness of `Pass`, `GoogleWrites` and
`Watcher`: time goes on, Google finishes what it has begun, and `WatchTakeout` is one
goroutine that nothing blocks for good (each listing has its timeout). `WaitEnds`
supposes in its own statement that the person stops asking again and that
restarts come to an end, since each of them begins the wait, or the two looks,
anew. `Survives` supposes in its own statement that restarts come to an end.

What the passing runs show, and what they do not. `PhotosClaims` excludes
`lapse`, `takeout`, `upgrade` and `redeclare` because those break its properties: these
are findings 1, 2, 5 and 22. `PhotosAll` includes the first two and keeps to what holds in spite of
them.
`DriveAll` excludes `again`, `photos`, `stale` and `idle` (findings 6 to 9), which break
`FinishedStays`, `ClearsWhatItAsked` or `FailedCanRetry`, and leaves the rest of the events to
`DriveLive`, which excludes only `overrun`.
`UploadSessions` excludes `crash` and `overlap` for the same reason;
`UploadSurvives` has crashes with a single content, where a late chunk cannot
change anything. `DriveCopyAll` leaves out `race`, `cut` and `unlisted`,
`TakeoutAll` `crowd`, `pause` and `beside`, `LeftOutAll` `cancel`, `unstored` and
`partial`: findings, each, or a limit that the code's own comment admits (`pause`,
for which `OnlyTailMissing` says what still holds; `unlisted`, which the code prefers
to no check).

### Findings

Each is named after its configuration, with the events it has; the quotes are in
`PROJECT.json`. The counterexamples are TLC's shortest.

1. `PhotosStaleListing` (`takeout`: `OneRun`; `runner.go:1131`) The watcher claims the
   track on a stale listing, without the lock. Two runs of one person.
2. `PhotosKeyRefused` (`lapse`: `OnlyHolderEndsRun`; `runner.go:550`) A retry that finds
   the key refused or gone resets a track that another tab has set running. A refusal is
   not needed: the service's own release of the key, once the track is accepted as done
   (`runner.go:1551`), does it to a retry that is past its first check. `lapse` stands for
   both, so that the runs without it leave that release out, too.
3. `PhotosBrowserGone` (`disconnect`: `NoOrphan`; `parts.go:144`) A browser that goes away
   after the claim leaves `importing` without a goroutine until the next restart.
4. `PhotosDayOver` (`overrun`: `NoOrphan`; `runner.go:1293`) A run that takes longer than
   24 hours writes its failure under the expired context; the row keeps its running state
   without a goroutine until the next restart. A copy of a Drive does the same.
5. `PhotosLateStamp` (`upgrade`: `StampedOnlyEnded`; `store/repo.go:401`) The late stamp
   of a row that ended before stamps existed lands on a track that was started again.
6. `DriveTwice` (`again`: `FinishedStays`; `runner.go:413`) Start pressed twice queues two
   copies; the second takes the finished track back to copying.
7. `DriveIdle` (`idle`, `refuse`: `FailedCanRetry`; `credentials.go:176`) The idle sweep
   forgets the credentials of a failed track, whose card then offers only a "try again"
   that cannot work.
8. `DriveSharedToken` (`photos`, `refuse`: `ClearsWhatItAsked`; `runner.go:470`) The second
   of two checks of one dead token deletes the token connected in between.
9. `DriveTouched` (`photos`, `refuse`: `HalvesApart`; `web/oauth.go:214`) Google connected
   again for Photos sets a Drive half that is done, or copying, to selecting.
10. `DriveCopyRace` (`race`: `PhotosErrorStays`; `runner.go:720`) Drive withdraws its
    reason after Photos has replaced it, and wipes that of Photos.
11. `DriveCopyEmpty` (`Files <- OnlyTakeout`: `NoFalseAlarm`; `core.go:276`) A Drive with
    nothing to copy fails its verification, and fails it again at every retry.
12. `TakeoutCrowd` (`crowd`: `TakesOnlyWhole`; `runner.go:1205`) A poll that takes long
    because of other people's turns is followed at once by the tick that the channel has
    kept: two looks within seconds of each other, and a listing that was not "unchanged
    for a full poll interval".
13. `TakeoutBeside` (`beside`: `TakenInTime`; `runner.go:1222`) With Google's placeholder
    beside the parts the count never comes out, and the wait ends in its 7 days' limit.
14. `LeftOutCancel` (`cancel`: `NothingDropped`; `core.go:296`) The log names a file too
    many and one too few: the numbers agree, the files do not, and a retry of the names
    ends in done. In a retry it is enough that immich-go passes over a file, which the log
    then cannot name, and that the log has an error about one that was processed.
15. `LeftOutUnstored` (`unstored`: `NothingDropped`; `runner.go:1526`) The record of an
    import cannot be stored, and the retry that follows reads the one before it.
16. `LeftOutPartial` (`partial`: `NothingDropped`; `problems.go:226`) A copy that fails
    leaves a piece of its file in the retry folder; its outcome is taken for that of a file
    that immich-go passed over.
17. `UploadCrashChunk` (`crash`: `KeepsPromise`; `upload.go:281`) A crash between a
    rewritten chunk and the manifest loses `HashStale`; wrong bytes are then accepted as
    the announced content.
18. `UploadOverlap` (`overlap`: `ArchiveKept`; `upload.go:178`) `Begin` looks for a
    finished archive before it has the lock; another tab's archive is replaced.
19. `UploadCrashHash` (`crash`: `StoredOnce`; `upload.go:429`) A crash between the rename
    and the `.sha256` leaves an archive without a hash for good; the same content is stored
    again.
20. `DriveCopyCut` (`cut`: `DoneIsWhole`; `verify.go:167`) `rclone check` is killed at its
    two hours, or cannot list a directory; its exit code is ignored, and the half is done
    with files that nobody compared.
21. `TakeoutRenamed` (`NameNeverBlocks`; `core/parts.go:90`) The comment of `Parts` says
    that a changed name never blocks a whole export nor makes a part look missing
    (18-19, 23-25). With part 1 and a renamed file `CountParts` has one of two and part 2
    missing. The comment in the function and its tests want that: the type's comment is
    out of date, and `CountRight` states what the code does.
22. `PhotosRedeclared` (`redeclare`: `ClaimedWhole`; `parts.go:57`) The number of archives
    is corrected without the lock while `claimForImport` is between its check and its
    write: the import of an export that is no longer whole.
23. `UploadCrashDiscard` (`crash`: `ManifestHonest`; `upload.go:206`) A crash in the middle
    of a session's removal leaves a manifest that claims chunks the disk does not hold. The
    session is resumed, and its running hash vouches for an archive with a hole, or
    `Complete` fails for good.
24. `UploadTwoTabs` (`overlap`: `KeepsPromise`; `upload.go:399`) `Complete` has a name and
    no hash: a tab whose session was replaced by another's is told that its file is done.

Met while modelling and not stated as findings: the comment at
`runner.go:1075-1078` speaks of a goroutine of its own where `checkTakeout` is
called inline; `reconnectPhotos` may land between the purge's recheck and its
rename; a retry that immich-go answers with an empty report keeps the record's
marks of an earlier retry, so that a file which is in the archives again may
still be shown as not found (`runner.go:1504-1510`); an import of everything that
follows a retry replaces the count of assets by its own (`runner.go:1466-1477`);
an archive of an earlier export that has the number of a missing part fills the
gap; a line of output of more than 1 MB stops `OSExecutor.scan`, after which the tool
blocks on its pipe (`runner.go:2085`); a retry of a failed Takeout download runs as
an upload import (`runner.go:857`).

## 4. Proofs

`PhotosTrackProofs`, `PhotosRunProofs`, `DriveTrackProofs`, `DriveDoneProofs`,
`DriveCopyProofs`, `TakeoutWatchProofs`, `UploadStoreProofs` and `LeftOutProofs` prove,
for every value of the constants (any people, goroutines, slots, parts, credentials; any
files, sample, bounds; any archives, numbers, interval, limit; any names, contents,
chunks; any names in a log, any length of a list):

| Theorem | Statement | Assumes of `Events` |
|---|---|---|
| `Typing` | `[]TypeOK` | nothing |
| `LimiterCounts` | `[]SlotsAccounted` | nothing |
| `NeverOrphaned` | `[]NoOrphan` | no `disconnect`, no `overrun` |
| `StampsAgree` | `[]StampedOnlyEnded` | no `upgrade` |
| `OneRunEach` | `[]OneRun` | no `lapse`, `takeout`, `upgrade` |
| `PurgeWaits` | `PurgedOnlyAfterRetention` | the same |
| `PurgeSpares` | `PurgeSparesWork` | no `upgrade` |
| `HolderEnds` | `OnlyHolderEndsRun` | no `lapse`, `takeout`, `upgrade`; no `restart`, or neither `disconnect` nor `overrun` |
| `ClaimsWhole` | `ClaimedWhole` | no `lapse`, `takeout`, `upgrade`, `redeclare` |
| `DriveTyped` | `[]TypeOK` of `DriveTrack` | nothing |
| `SlotsCounted` | `used` is the number of copies in a slot | nothing |
| `CopyNeverOrphaned` | `[]CopyHasRun` | no `overrun` |
| `DoneStays` | `FinishedStays` | no `stale`, no `again` |
| `CredentialsCleared` | `ClearsWhatItAsked` | no `stale`, `again`, `photos`, `idle` |
| `FailedRetried` | `[]FailedCanRetry` | the same, and no `restart`, no `disconnect` |
| `Typed` | `[]TypeOK` of `DriveCopy` | nothing |
| `Whole` | `[]DoneIsWhole` | no `cut` |
| `CountsOnce` | `CountedOnce` | nothing |
| `LeavesPhotosReason` | `PhotosErrorStays` | no `race` |
| `AlarmsAreReal` | `NoFalseAlarm` | no `cut`, no `unlisted`; some file to copy |
| `WatchTyped` | `[]TypeOK` of `TakeoutWatch` | nothing |
| `CountsRight` | `[]CountRight` | nothing |
| `MissesOnlyTheTail` | `OnlyTailMissing` | parts numbered from 1; no number of a part before the last on another archive |
| `TwoLooksSuffice` | `[]TakesOnlyWhole` | no `crowd`, `beside`, `pause` |
| `ReadyIsTaken` | `[]TakenInTime` | no `crowd`, `beside`; `CountParts` calls the export complete |
| `UploadTyped` | `[]TypeOK` of `UploadStore` | nothing |
| `UploadHonest` | `[]ManifestHonest` | no `crash` |
| `UploadHashFollows` | `[]HashFollowsData` | no `crash` |
| `UploadStoredOnce` | `[]StoredOnce` | no `crash`, `overlap`, `unhashed` |
| `UploadKeepsPromise` | `KeepsPromise`, the refinement of `Archives` | the same |
| `LeftOutTyped` | `[]TypeOK` of `LeftOut` | no `partial` |
| `RetryOnlyImproves` | `RetryImproves` | no `partial` |
| `MatchedAreThere` | `[]MatchedIsThere` | no `partial`, no `cancel` |
| `CardIsHonest` | `[]CardCountsAll` | no `partial`, `cancel`, `unstored` |
| `NothingIsDropped` | `[]NothingDropped` | the same |

Besides these the theorems about `PhotosTrack` and `DriveTrack` rest on `TasksAssumption` (finitely many goroutines at a
time: cardinalities), `SlotsAssumption`, `PartsAssumption` and `CredsAssumption`; those about `LeftOut`
on finitely many files, and on a log that gives each its own name or one that is no file's.
The excluded
events are the findings, or what the code does not promise anything for (`unhashed`,
a last write that a restart or a browser that leaves has cut off):
with any one of them TLC has a counterexample, so none of the assumptions can be
dropped (for the findings it is the configuration's). (That `PurgeSpares` needs its own is an argument only: the late stamp of a
row that waits for Google's archives, weeks of waiting, and a look at the folder
that is under way when the purge has made its check.)

The argument. `Sound` is the inductive invariant of the first module:
`TypeOK`, `SlotsAccounted`, that a task on its way to a waiting screen moves to
one of the two (`MovesWait`, without which `Move` could write anything), and
that a task past a lock's first step is the one that has the lock (`LockHeld`,
without which an unlock could be another's). The limiter is an argument about
cardinalities: one lemma says what a step of one task does to the set of those
inside, and each action that enters or leaves cites it. It needs `Tasks` finite,
and gives `used > 0` at every release, which is what keeps `used` in its type.

The second module adds, one invariant at a time on top of `Sound`:
`NoOrphan` is inductive on `Sound` alone, since each step that takes a task out
of `Holding` writes a state that is not running. For `StampedOnlyEnded` the
invariant (`StampsFit`) says that a row is stamped exactly when it is ended, so
that the sweep never finds an end to stamp: half of it is the property, the other
half what keeps `StampFinished` from acting. For `OneRun` the invariant
(`Exclusive`) says what the row looks like to whoever has the track or the lock:
who has the track has it in a running state; a retry claims from `failed`, an
upload from `awaiting_upload`, and what the check saw still holds at the write,
because without `lapse` and `takeout` everyone else who writes takes the lock or
has the track (`Alone`); and every track past the first screen has its key
(`KeyFirst`), which is why no launch turns to `reconnectPhotos`. `PurgeWaits` uses
the same exclusion for the check and the removal. `Mover` draws the consequence for
every write of a row: it is made by a restart or by the task that has the track or
the lock, and who has only the lock has checked that the track is not running. That
is `HolderEnds`, for a restart with `NoOrphan`; and since only `ClaimUpload` goes from
`awaiting_upload` to importing, it is `ClaimsWhole` with an invariant (`Whole`) that
what was whole at the check is whole at the claim: parts only arrive, the purge
would need the lock, and a count declared once is not being saved again.

`PurgeSpares` holds with `lapse` and `takeout`, where rows are written without the lock,
and its invariant (`Spared`) is about those writers. Nobody works on a track whose
retention has passed, since nothing of a person's lasts that long, and work begins
with a write that clears the stamp. So there is none when the purge checks, and
while it has the lock none can begin: a claim needs the lock, and the watcher a row
that waits. What may still write is a failure, or the way back to the start.

For `DriveTrack` the invariant is `Accounts`: the types, that the limiter counts
the copies in a slot (`Counted`), and that a task which is past the queue is a copy
and whatever is alive serves a person (`CopyFits`), without which `Acquire` could count a
request and the reads of the store have no row. Each action is shown to be
`Proper`: it moves one task, keeps the types, and keeps, takes or gives back the slot
of that task, never another's. It is `Honest` too: a row at work
after the step is that of the task that has a slot after it, or was at work before
and not because of the task that moved. `CopyHasRun` is inductive with that, and only
`Overrun` is not `Honest`. `DoneStays` has a second invariant on top, since nothing in
the code compares the state before a copy writes: a track has one copy at most,
queued or running (`OneCopy`), and none once it is done (`DoneQuiet`). Where a task is
says what it is for (`JobFits`), so that a write comes from a copy of that track or
from a connection (`Calm`). That both events are needed TLC shows: with `stale`
or `again` alone it violates `FinishedStays` (finding 6).

`CredentialsCleared` is about values that a task has in memory while the table may
move on. Its invariant (`Owned`) says whose credentials are whose: those of the row are
the ones that its copy has, and while it has them nobody is connecting an account
(`CopyOwns`), since the card offers that only where a credential is missing, which it
is in the one case of a copy that Google has refused and that has Nextcloud still to
ask; a release forgets for a track that is done, and finds in the table what it
has revoked, or nothing (`DropsRight`); and a track that is done offers nothing to
connect (`DoneSafe`). `FailedRetried` adds what its property needs at the moment of a
failure: a copy that has begun has moved its track on from an earlier one (`Tried`), so that a
second failure is its own, and the credentials it has not lost are in the table.

For `DriveCopy` each property has its own invariant, on top of `TypeOK`.
`CheckShows` says what a check that is on its way proves about `dest`, which only
`Transfer` changes, in another state of the half: where nothing is bad so far, every
file has arrived. `Counted` says that what the next line will add has been
transferred, whatever rclone's count has done meanwhile. `ReasonKept` says that
between the read of the reason and its withdrawal the row still has it. For
`NoFalseAlarm` the invariant (`CheckCounts`) relates the number of differences
counted to the set of files that really differ, tree and sample being disjoint:
an argument about cardinalities of finite sets, for which `FilesAssumption` has
`Files` finite. That each excluded event is needed is findings 10, 11 and
20; without the listing of documents (`unlisted`) the check fails a
document whose export differs, as the code's comment on `nativeDocPaths` says.

For the watcher, `CountIsRight` characterises `Complete` for any set and any declared
number; it needs no induction, since a set with all of `1..n` and nothing beyond it
*is* `1..n`. `MissesOnlyTheTail` follows from it at the one step that takes an export.
The argument about time has four invariants. `OnTime` and `Since` say how long
ago the last look was: `phase` units, or an interval when a tick is due. `GrowsOnly`
says that a listing remembered is never more than what the folder holds, so that
whatever Google writes makes it differ for good. `Watched`: if it does not differ
from an export that is not finished, Google has been quiet since that look;
`Busy`: it never is for a whole interval. At the second look an interval has
passed, so that what it agrees on is finished. `Ripening` is the converse: the time
that a finished export has been waited for is at most that since the last look,
or one interval more if that look has seen it.

For the upload store there are three invariants, each on top of the one before.
`Sound` is for the types: a request past its first step has the lock of its session
(`Order`), the session is still there and its index in range, and a running hash is
shorter than the chunks in a row, which is an argument about greatest members of
sets of numbers (`MaxExists`, from the well-foundedness of strict inclusion).
`OnDisk` says what is true of a session at rest (`AtRest`) and what of one between the
chunk and its record (`AtWork`): the manifest may lag behind the disk, never the other
way round, and a chunk written again marks the hash stale before anyone else can see
it. A crash in between breaks exactly this (findings 17 and 23). `Kept` is about names: each
content has one name that it is, or is going to be, stored under (`Meant`, `Once`),
because `Begin` looks for the content in sessions and archives before it takes a
name, and one tab asks one thing at a time (`OneAsker`); an archive is where its
session said, with its hash noted (`Landed`); and the place of a request that is about
to move its file is free (`Asks`). With it the refinement is a matter of steps: `Place`
is `Land`; `Clean`, and a `Complete` that finds the work done, are `Acknowledge`;
nothing else changes what `Archives` sees. A late chunk of a session that has been
replaced changes neither names nor archives (`ChunkKept`).

For `LeftOut` the first half of the module is about what `immichProblems` makes of a log
and `Keep` of a list, both recursive functions. Induction over data is out of the
provers' reach as a theorem with an operator as its parameter; what is needed of it here
is `Climb`, about *sets* of numbers, which follows from the well-foundedness of `<`, and
`Recursion`, that a function unfolds as it is written. With them, `ProblemsTold`: a list
is never longer than what is shown, names no file twice, and only files that have an
error, a spurious one, or no outcome. `LogSays` is the heart of `ProblemsComplete`:
when the list is as long as the count, and the log does not err in both directions at
once, the files on it *are* of those left out or passed over. That is an argument about
cardinalities, and the reason for comparing two numbers, which the code gives, is right only
under it (finding 14).

Three invariants follow, each on the one before. `Sound` relates the run to the record:
a retry is of the record as it is stored, whose list is whole, and its marks and its
copies share that list out (`SplitIs`), so that what it folds together is a list again,
no longer and counting no more than before (`FoldedIs`). A piece in the retry folder
(`partial`) breaks exactly this. `Matching` says that what the record says was brought
over is in the library, and when the list is whole, there *beside* the files on the list:
without the second half a retry that finds one of them there already would count it a
second time. `Counting` is its counterpart for what is missing: when the list is whole,
the missing files and the files on the list together are no more than the count, so that
each one that a retry brings, or finds there, may be taken from it. At zero none is
missing, which is `NothingIsDropped`. It needs the record to be that of this import
(`unstored`).

The proof changed the model at one place. With the counts of the log in their narrow
sense, files with an error or without an outcome, `LogSays` was false for a retry: a file
that immich-go passes over is counted by the code but can be on no list, so that one
spurious error makes the numbers agree. TLC confirms it with `MaxProblems = 3` and no name cut
short (`MatchedIsThere`); `LeftOutAll`, where one of three names is cut, had no such
state. It is part of finding 14 now, and of the event `cancel`.

What stays with TLC: `RunsEnd`, `SweepStarts`, `CopyEnds`, `BothForgotten`, `WaitEnds` and
`Survives`, since liveness under fairness is out of the prover's reach, as is ENABLED.
Every other property of a passing run is stated by a theorem. No module declares a
RECURSIVE operator.

## 5. Not modelled, and the plan

Not modelled at all, with the reason, in `PROJECT.json`: the clients and
wrappers (pure I/O), sealing, rendering, configuration, texts, notifications.
Of the modelled parts: the byte counters and quotas, the texts of reasons and
details, the regular expressions that read names and lines, I/O errors of the
upload store, and `OSExecutor` (pipes and processes).

Planned, in this order:

1. A composition of `PhotosTrack` with `UploadStore` at the staging directory:
   the purge against uploads in progress.
