---------------------------- MODULE PhotosTrack ----------------------------
(***************************************************************************)
(* The Photos half of a migration: who may move its row, when, and under   *)
(* what lock.  Buttons of the wizard, the Takeout watcher, the upload and  *)
(* staging sweepers and the detached imports all write the same row of the *)
(* migrations table.  Some take Runner.claim (withMigration, claimFor-     *)
(* Import, purgeUser), some write without it (checkTakeout, reconnect-     *)
(* Photos, failPhotos, every step of a run).  A restart loses every        *)
(* goroutine and keeps the row; RecoverInterrupted then repairs it.        *)
(*                                                                         *)
(* A member of Tasks is anything the Go scheduler runs for one person: an  *)
(* HTTP request, one person's turn in a watcher, or a detached goroutine.  *)
(* A request that ends in "go run(...)" becomes that run.  Each database   *)
(* statement and each network call is one step.                            *)
(***************************************************************************)
EXTENDS Integers, FiniteSets

CONSTANTS
  Users,      \* people who migrate
  Tasks,      \* goroutines that may be alive at once (bounds concurrency)
  NoTask,     \* nobody holds Runner.claim
  NoUser,     \* an idle task serves nobody
  Slots,      \* MAX_CONCURRENT: the capacity of Runner.limiter
  MaxPart,    \* bound on the number of archives Google splits an export into
  Events      \* which of AllEvents may happen in this instance

(***************************************************************************)
(* What the world may do besides pressing buttons:                         *)
(*   restart    the process stops and starts again                         *)
(*   disconnect a browser goes away and its request's context is cancelled *)
(*   lapse      credentials are refused, unreadable, forgotten             *)
(*   takeout    the "Add to Drive" route is offered (Google is configured) *)
(*   redeclare  the number of archives is saved more than once             *)
(*   upgrade    rows that ended before photos_finished_at existed          *)
(*   overrun    a run takes longer than the day its context gives it       *)
(***************************************************************************)
AllEvents == {"restart", "disconnect", "lapse", "takeout", "redeclare", "upgrade",
              "overrun"}

ASSUME TasksAssumption == IsFiniteSet(Tasks) /\ NoTask \notin Tasks /\ NoUser \notin Users
ASSUME SlotsAssumption == Slots \in Nat \ {0}
ASSUME PartsAssumption == MaxPart \in Nat \ {0}
ASSUME EventsAssumption == Events \subseteq AllEvents

VARIABLES
  photos,    \* [Users -> PhotosStates]     migrations.photos_state
  leftOut,   \* [Users -> BOOLEAN]          photos_progress holds why.importErrors
  finished,  \* [Users -> Stamps]           migrations.photos_finished_at
  expected,  \* [Users -> 0..MaxPart]       migrations.photos_parts_expected
  auto,      \* [Users -> BOOLEAN]          migrations.auto_import
  tokens,    \* [Users -> SUBSET Providers] the tokens table
  staged,    \* [Users -> SUBSET Parts]     the .zip files in the staging directory
  task,      \* [Tasks -> TaskStates]       the goroutines
  claim,     \* Tasks \cup {NoTask}         who holds Runner.claim
  used       \* 0..Slots                    len(Runner.limiter)

row == <<photos, leftOut, finished>>
settings == <<expected, auto>>
vars == <<photos, leftOut, finished, expected, auto, tokens, staged, task, claim, used>>

\* Declared in core but never written: takeout_guide, verifying, cancelled.
PhotosStates == {"not_started", "awaiting_upload", "awaiting_takeout",
                 "downloading", "importing", "done", "failed"}
Running == {"downloading", "importing"}
Terminal == {"done", "failed"}

\* photos_finished_at: empty, or younger or older than the staging retention.
Stamps == {"never", "recent", "expired"}
Providers == {"immich", "google"}
Parts == 1..MaxPart

PCs == {"idle", "move", "moving", "askImmich", "askGoogle",
        "launch", "reconnect", "recheck", "claiming",
        "upCheck", "upClaiming", "upLaunch", "upLost",
        "accepting", "declaring", "look",
        "queued", "download", "begin", "validate", "prepare", "immichgo", "lost",
        "release", "forget", "forgetAll", "stamp", "purge", "purging"}
\* What a task is for: where it moves the track to, or which run it is.
Jobs == {"none", "awaiting_upload", "awaiting_takeout", "watch",
         "import", "problems", "download"}
TaskStates == [pc : PCs, user : Users \cup {NoUser}, job : Jobs]
Idle == [pc |-> "idle", user |-> NoUser, job |-> "none"]

\* Where a task has the track: claimed it and not yet let go.
Holding == {"upLaunch", "upLost", "queued", "download", "begin", "validate",
            "prepare", "immichgo", "lost"}
\* Where a run has a slot of the limiter.
InSlot == {"download", "begin", "validate", "prepare", "immichgo", "lost"}
\* Where a task has Runner.claim.
Locked == {"moving", "claiming", "upClaiming", "accepting", "purging"}
\* Where a request still works under its own context, r.Context().
InRequest == {"move", "moving", "askImmich", "askGoogle", "launch", "reconnect",
              "recheck", "claiming", "upCheck", "upClaiming", "upLaunch", "upLost",
              "accepting", "declaring"}

----------------------------------------------------------------------------
(* Steps of one task *)

At(t, p) == task[t].pc = p
Become(t, p, u, j) == task' = [task EXCEPT ![t] = [pc |-> p, user |-> u, job |-> j]]
Step(t, p) == Become(t, p, task[t].user, task[t].job)
End(t) == task' = [task EXCEPT ![t] = Idle]

Lock(t) == claim = NoTask /\ claim' = t
Unlock(t) == claim = t /\ claim' = NoTask

\* A mutant: the stamp survives the next run.
SetPhotosStateKeepsStamp(u, s, lo) ==
  /\ photos' = [photos EXCEPT ![u] = s]
  /\ leftOut' = [leftOut EXCEPT ![u] = lo]
  /\ finished' = [finished EXCEPT ![u] =
                    IF s \in Terminal /\ @ = "never" THEN "recent" ELSE @]

\* SetPhotosState is one UPDATE: the state, its progress, and the retention
\* stamp, cleared by a state that is not an end, kept by a second end.
SetPhotosState(u, s, lo) ==
  /\ photos' = [photos EXCEPT ![u] = s]
  /\ leftOut' = [leftOut EXCEPT ![u] = lo]
  /\ finished' = [finished EXCEPT ![u] =
                    IF s \notin Terminal THEN "never"
                    ELSE IF @ = "never" THEN "recent" ELSE @]

failPhotos(u, lo) == SetPhotosState(u, "failed", lo)
DeleteToken(u, p) == tokens' = [tokens EXCEPT ![u] = @ \ {p}]
Lapse == "lapse" \in Events

\* A mutant: counts the files instead of looking for Google's numbers.
CompleteByCount(u) == expected[u] > 0 /\ Cardinality(staged[u]) >= expected[u]

\* core.CountParts(...).Complete() on archives that all carry Google's number.
Complete(u) == expected[u] > 0 /\ staged[u] = 1..expected[u]

\* photosFinished: every done releases, in a goroutine of its own.
photosFinished(t) == IF Lapse THEN Step(t, "release") ELSE End(t)

----------------------------------------------------------------------------
(* Buttons that lead to a waiting screen *)

BeginPhotosUpload(t, u) ==
  /\ At(t, "idle") /\ "immich" \in tokens[u]
  /\ Become(t, "move", u, "awaiting_upload")
  /\ UNCHANGED <<row, settings, tokens, staged, claim, used>>

StartPhotosTakeout(t, u) ==
  /\ "takeout" \in Events
  /\ At(t, "idle") /\ "immich" \in tokens[u]
  /\ Become(t, "askImmich", u, "awaiting_takeout")
  /\ UNCHANGED <<row, settings, tokens, staged, claim, used>>

\* preflightImmich: only a refusal stops it, and a refusal drops the key.
AskImmich(t) ==
  /\ At(t, "askImmich")
  /\ \/ Step(t, "askGoogle") /\ UNCHANGED tokens
     \/ Lapse /\ DeleteToken(task[t].user, "immich") /\ Step(t, "reconnect")
  /\ UNCHANGED <<row, settings, staged, claim, used>>

\* The Google token: read, opened, and probed.
AskGoogle(t) ==
  LET u == task[t].user IN
  /\ At(t, "askGoogle")
  /\ \/ /\ "google" \notin tokens[u]
        /\ End(t) /\ UNCHANGED <<row, tokens>>
     \/ /\ "google" \in tokens[u]
        /\ Step(t, "move") /\ UNCHANGED <<row, tokens>>
     \/ /\ "google" \in tokens[u] /\ Lapse
        /\ failPhotos(u, FALSE) /\ End(t) /\ UNCHANGED tokens
     \/ /\ "google" \in tokens[u] /\ Lapse
        /\ DeleteToken(u, "google") /\ Step(t, "reconnect") /\ UNCHANGED row
  /\ UNCHANGED <<settings, staged, claim, used>>

\* A mutant: moves a running track too.
MoveAlways(t) ==
  /\ At(t, "move") /\ Lock(t) /\ Step(t, "moving")
  /\ UNCHANGED <<row, settings, tokens, staged, used>>

\* setPhotosUnlessRunning, its read under the claim lock...
UnlessRunning(t) ==
  /\ At(t, "move")
  /\ IF photos[task[t].user] \in Running
       THEN claim = NoTask /\ End(t) /\ UNCHANGED claim
       ELSE Lock(t) /\ Step(t, "moving")
  /\ UNCHANGED <<row, settings, tokens, staged, used>>

\* ... and its write.
Move(t) ==
  /\ At(t, "moving")
  /\ SetPhotosState(task[t].user, task[t].job, FALSE)
  /\ Unlock(t) /\ End(t)
  /\ UNCHANGED <<settings, tokens, staged, used>>

\* reconnectPhotos: back to where the wizard offers to connect, whatever the
\* track is doing by now.
ReconnectPhotos(t) ==
  /\ At(t, "reconnect")
  /\ SetPhotosState(task[t].user, "not_started", FALSE)
  /\ End(t)
  /\ UNCHANGED <<settings, tokens, staged, claim, used>>

----------------------------------------------------------------------------
(* Buttons on a stopped card: retry everything, retry the files left out,   *)
(* accept                                                                   *)

\* The check StartPhotosImport and RetryPhotosProblems run on the row.
Check(u, j) == photos[u] = "failed" /\ (j = "problems" => leftOut[u])

\* launchFromWizard's first check, alone under the lock.
LaunchFromWizard(t, u, j) ==
  /\ At(t, "idle") /\ claim = NoTask /\ Check(u, j)
  /\ Become(t, "launch", u, j)
  /\ UNCHANGED <<row, settings, tokens, staged, claim, used>>

\* launchPhotosImport, before the track is claimed: key, then preflight.
LaunchPhotosImport(t) ==
  LET u == task[t].user IN
  /\ At(t, "launch")
  /\ \/ /\ "immich" \in tokens[u]
        /\ Step(t, "recheck") /\ UNCHANGED tokens
     \/ /\ "immich" \notin tokens[u]
        /\ Step(t, "reconnect") /\ UNCHANGED tokens
     \/ /\ "immich" \in tokens[u] /\ Lapse
        /\ DeleteToken(u, "immich") /\ Step(t, "reconnect")
     \/ /\ "immich" \in tokens[u] /\ Lapse
        /\ End(t) /\ UNCHANGED tokens
  /\ UNCHANGED <<row, settings, staged, claim, used>>

\* A mutant: claims on the strength of the first check.
RecheckNothing(t) ==
  /\ At(t, "recheck") /\ Lock(t) /\ Step(t, "claiming")
  /\ UNCHANGED <<row, settings, tokens, staged, used>>

\* The claim: the check again under the lock...
Recheck(t) ==
  /\ At(t, "recheck")
  /\ IF Check(task[t].user, task[t].job)
       THEN Lock(t) /\ Step(t, "claiming")
       ELSE claim = NoTask /\ End(t) /\ UNCHANGED claim
  /\ UNCHANGED <<row, settings, tokens, staged, used>>

\* ... and the move to importing, then go run(...).
Claim(t) ==
  /\ At(t, "claiming")
  /\ SetPhotosState(task[t].user, "importing", FALSE)
  /\ Unlock(t) /\ Step(t, "queued")
  /\ UNCHANGED <<settings, tokens, staged, used>>

\* AcceptPhotos: settleable and the move to done in one withMigration.
Settle(t, u) ==
  /\ At(t, "idle") /\ Check(u, "problems")
  /\ Lock(t) /\ Become(t, "accepting", u, "none")
  /\ UNCHANGED <<row, settings, tokens, staged, used>>

AcceptPhotos(t) ==
  /\ At(t, "accepting")
  /\ SetPhotosState(task[t].user, "done", FALSE)
  /\ Unlock(t) /\ photosFinished(t)
  /\ UNCHANGED <<settings, tokens, staged, used>>

----------------------------------------------------------------------------
(* The upload screen *)

\* A part is complete on disk: the upload store's rename, or the kiosk's.
PartLands(u) ==
  /\ \E p \in Parts \ staged[u] : staged' = [staged EXCEPT ![u] = @ \cup {p}]
  /\ UNCHANGED <<row, settings, tokens, task, claim, used>>

\* DeclarePhotosParts reads the row, without the lock...
DeclarePhotosParts(t, u) ==
  /\ At(t, "idle") /\ photos[u] = "awaiting_upload"
  /\ \/ "redeclare" \in Events
     \/ expected[u] = 0 /\ \A w \in Tasks : ~(At(w, "declaring") /\ task[w].user = u)
  /\ Become(t, "declaring", u, "none")
  /\ UNCHANGED <<row, settings, tokens, staged, claim, used>>

\* ... writes the count, then starts the import if that is automatic.
SetPhotosParts(t) ==
  LET u == task[t].user IN
  /\ At(t, "declaring")
  /\ \E n \in Parts : expected' = [expected EXCEPT ![u] = n]
  /\ IF auto[u] THEN Step(t, "upCheck") ELSE End(t)
  /\ UNCHANGED <<row, auto, tokens, staged, claim, used>>

SetAutoImport(t, u) ==
  /\ At(t, "idle")
  /\ auto' = [auto EXCEPT ![u] = ~@]
  /\ IF auto[u] THEN UNCHANGED task ELSE Become(t, "upCheck", u, "none")
  /\ UNCHANGED <<row, expected, tokens, staged, claim, used>>

\* AutoImportIfEnabled: the sweep, and the end of every upload.
AutoImportIfEnabled(t, u) ==
  /\ At(t, "idle") /\ auto[u]
  /\ Become(t, "upCheck", u, "none")
  /\ UNCHANGED <<row, settings, tokens, staged, claim, used>>

\* StartImportIfComplete: the explicit button.
StartImportIfComplete(t, u) ==
  /\ At(t, "idle")
  /\ Become(t, "upCheck", u, "none")
  /\ UNCHANGED <<row, settings, tokens, staged, claim, used>>

\* A mutant: looks for a track that has not come to the upload screen yet.
ClaimTooEarly(t) ==
  LET u == task[t].user IN
  /\ At(t, "upCheck")
  /\ IF photos[u] = "not_started" /\ Complete(u)
       THEN Lock(t) /\ Step(t, "upClaiming")
       ELSE claim = NoTask /\ End(t) /\ UNCHANGED claim
  /\ UNCHANGED <<row, settings, tokens, staged, used>>

\* claimForImport: state and archives read under the lock...
ClaimForImport(t) ==
  LET u == task[t].user IN
  /\ At(t, "upCheck")
  /\ IF photos[u] = "awaiting_upload" /\ Complete(u)
       THEN Lock(t) /\ Step(t, "upClaiming")
       ELSE claim = NoTask /\ End(t) /\ UNCHANGED claim
  /\ UNCHANGED <<row, settings, tokens, staged, used>>

\* ... and the move to importing.
ClaimUpload(t) ==
  /\ At(t, "upClaiming")
  /\ SetPhotosState(task[t].user, "importing", FALSE)
  /\ Unlock(t) /\ Become(t, "upLaunch", task[t].user, "import")
  /\ UNCHANGED <<settings, tokens, staged, used>>

\* startUploadedImport after the claim: launchPhotosImport outside the lock,
\* and what becomes of the claimed track when it cannot start.
StartUploadedImport(t) ==
  LET u == task[t].user IN
  /\ At(t, "upLaunch")
  /\ \/ /\ "immich" \in tokens[u]
        /\ Step(t, "queued") /\ UNCHANGED <<row, tokens>>
     \/ /\ "immich" \notin tokens[u] \/ Lapse
        /\ failPhotos(u, FALSE) /\ End(t) /\ UNCHANGED tokens
     \/ /\ "immich" \in tokens[u] /\ Lapse
        /\ DeleteToken(u, "immich") /\ Step(t, "upLost") /\ UNCHANGED row
     \/ /\ SetPhotosState(u, "awaiting_upload", FALSE)
        /\ End(t) /\ UNCHANGED tokens
  /\ UNCHANGED <<settings, staged, claim, used>>

\* launchPhotosImport's reconnectPhotos on a track claimed by the upload route.
ReconnectUpload(t) ==
  /\ At(t, "upLost")
  /\ SetPhotosState(task[t].user, "not_started", FALSE)
  /\ End(t)
  /\ UNCHANGED <<settings, tokens, staged, claim, used>>

----------------------------------------------------------------------------
(* The Takeout watcher *)

\* pollTakeout lists who waits; it is one loop, so one person at a time.
PollTakeout(t, u) ==
  /\ "takeout" \in Events
  /\ At(t, "idle") /\ photos[u] = "awaiting_takeout"
  /\ \A w \in Tasks : ~At(w, "look")
  /\ Become(t, "look", u, "watch")
  /\ UNCHANGED <<row, settings, tokens, staged, claim, used>>

\* checkTakeout: minutes may pass in the listing, and its writes take no lock
\* and read nothing again.
CheckTakeout(t) ==
  LET u == task[t].user IN
  /\ At(t, "look")
  /\ \/ failPhotos(u, FALSE) /\ End(t) /\ UNCHANGED tokens  \* waited too long
     \/ End(t) /\ UNCHANGED <<row, tokens>>               \* not there yet
     \/ /\ "google" \in tokens[u] /\ Lapse
        /\ DeleteToken(u, "google") /\ Step(t, "reconnect") /\ UNCHANGED row
     \/ /\ "google" \in tokens[u]
        /\ SetPhotosState(u, "downloading", FALSE)
        /\ Become(t, "queued", u, "download") /\ UNCHANGED tokens
  /\ UNCHANGED <<settings, staged, claim, used>>

----------------------------------------------------------------------------
(* Runs: goroutines that hold the track until they write where it ended *)

\* A mutant: a limiter that lets everyone in.
AcquireUnbounded(t) ==
  /\ At(t, "queued") /\ used' = used + 1
  /\ Step(t, CASE task[t].job = "download" -> "download"
               [] task[t].job = "problems" -> "prepare"
               [] OTHER -> "begin")
  /\ UNCHANGED <<row, settings, tokens, staged, claim>>

Acquire(t) ==
  /\ At(t, "queued") /\ used < Slots
  /\ used' = used + 1
  /\ Step(t, CASE task[t].job = "download" -> "download"
               [] task[t].job = "problems" -> "prepare"
               [] OTHER -> "begin")
  /\ UNCHANGED <<row, settings, tokens, staged, claim>>

\* A mutant: no deferred release.
FreeNothing == UNCHANGED used

Free == used' = used - 1

\* A mutant: ends without writing how.
StopSilently(t, lo) == UNCHANGED row /\ End(t) /\ Free

\* A run that stops: failPhotos, and the deferred release of the slot.
Stop(t, lo) == failPhotos(task[t].user, lo) /\ End(t) /\ Free

\* runTakeoutDownload: rclone copy; what it copied before it failed stays.
RunTakeoutDownload(t) ==
  LET u == task[t].user IN
  /\ At(t, "download")
  /\ \/ /\ staged' = [staged EXCEPT ![u] = Parts]
        /\ Step(t, "begin") /\ UNCHANGED <<row, tokens, used>>
     \/ /\ \E S \in SUBSET Parts : staged' = [staged EXCEPT ![u] = @ \cup S]
        /\ \/ Stop(t, FALSE) /\ UNCHANGED tokens
           \/ /\ Lapse /\ DeleteToken(u, "google")
              /\ Step(t, "lost") /\ UNCHANGED <<row, used>>
  /\ UNCHANGED <<settings, claim>>

\* runPhotosImportHeld: importing, then the archives and the key, then immich-go.
BeginImport(t) ==
  /\ At(t, "begin")
  /\ SetPhotosState(task[t].user, "importing", FALSE)
  /\ Step(t, "validate")
  /\ UNCHANGED <<settings, tokens, staged, claim, used>>

ValidateArchives(t) ==
  LET u == task[t].user IN
  /\ At(t, "validate")
  /\ \/ Stop(t, FALSE)
     \/ /\ staged[u] # {} /\ "immich" \in tokens[u]
        /\ Step(t, "immichgo") /\ UNCHANGED <<row, used>>
  /\ UNCHANGED <<settings, tokens, staged, claim>>

\* runProblemsRetry up to immich-go: no key, no folder or nothing found, or go.
RunProblemsRetry(t) ==
  LET u == task[t].user IN
  /\ At(t, "prepare")
  /\ \/ ("immich" \notin tokens[u] \/ Lapse) /\ Stop(t, FALSE)
     \/ "immich" \in tokens[u] /\ Stop(t, TRUE)
     \/ /\ "immich" \in tokens[u]
        /\ Step(t, "immichgo") /\ UNCHANGED <<row, used>>
  /\ UNCHANGED <<settings, tokens, staged, claim>>

\* importWithImmichGo and finishPhotosImport: nothing left out, some left out,
\* nothing to import or no report, or a key Immich refuses.
ImportWithImmichGo(t) ==
  LET u == task[t].user
      retry == task[t].job = "problems" IN
  /\ At(t, "immichgo")
  /\ \/ /\ SetPhotosState(u, "done", FALSE)
        /\ photosFinished(t) /\ Free /\ UNCHANGED tokens
     \/ Stop(t, TRUE) /\ UNCHANGED tokens
     \/ ~retry /\ Stop(t, FALSE) /\ UNCHANGED tokens
     \/ /\ Lapse /\ DeleteToken(u, "immich")
        /\ Step(t, "lost") /\ UNCHANGED <<row, used>>
  /\ UNCHANGED <<settings, staged, claim>>

\* reconnectPhotos at the end of a run.
ReconnectRun(t) ==
  /\ At(t, "lost")
  /\ SetPhotosState(task[t].user, "not_started", FALSE)
  /\ End(t) /\ Free
  /\ UNCHANGED <<settings, tokens, staged, claim>>

----------------------------------------------------------------------------
(* Credentials: connected by the person, forgotten by the service *)

Connect(u) ==
  /\ \E p \in Providers \ tokens[u] : tokens' = [tokens EXCEPT ![u] = @ \cup {p}]
  /\ UNCHANGED <<row, settings, staged, task, claim, used>>

\* releaseFinished reads the row once; the Drive half is not in this module,
\* so whether it is done as well is left open in Forget.
ReleaseFinished(t) ==
  /\ At(t, "release")
  /\ IF photos[task[t].user] = "done" THEN Step(t, "forget") ELSE End(t)
  /\ UNCHANGED <<row, settings, tokens, staged, claim, used>>

Forget(t) ==
  /\ At(t, "forget")
  /\ \E gone \in {{"immich"}, Providers} :
       tokens' = [tokens EXCEPT ![task[t].user] = @ \ gone]
  /\ End(t)
  /\ UNCHANGED <<row, settings, staged, claim, used>>

\* ListIdle, for a row that has not moved for days.
SweepIdle(t, u) ==
  /\ Lapse /\ At(t, "idle")
  /\ photos[u] \notin Running \cup {"awaiting_upload", "awaiting_takeout"}
  /\ Become(t, "forgetAll", u, "none")
  /\ UNCHANGED <<row, settings, tokens, staged, claim, used>>

ForgetAll(t) ==
  /\ At(t, "forgetAll")
  /\ tokens' = [tokens EXCEPT ![task[t].user] = {}]
  /\ End(t)
  /\ UNCHANGED <<row, settings, staged, claim, used>>

----------------------------------------------------------------------------
(* The staging sweeper *)

\* The retention is days; everything a task does takes hours at most.
RetentionPasses(u) ==
  /\ finished[u] = "recent"
  /\ \A t \in Tasks : task[t].user # u
  /\ finished' = [finished EXCEPT ![u] = "expired"]
  /\ UNCHANGED <<photos, leftOut, settings, tokens, staged, task, claim, used>>

\* purgeStaging over ListFinished: an end without a stamp gets one, an expired
\* one is purged.
PurgeStaging(t, u) ==
  /\ At(t, "idle") /\ photos[u] \in Terminal /\ finished[u] # "recent"
  /\ Become(t, IF finished[u] = "never" THEN "stamp" ELSE "purge", u, "none")
  /\ UNCHANGED <<row, settings, tokens, staged, claim, used>>

StampFinished(t) ==
  LET u == task[t].user IN
  /\ At(t, "stamp")
  /\ finished' = [finished EXCEPT ![u] = IF @ = "never" THEN "recent" ELSE @]
  /\ End(t)
  /\ UNCHANGED <<photos, leftOut, settings, tokens, staged, claim, used>>

\* Mutants: no second look, and one at the state alone.
StillExpiredUnread(t) ==
  /\ At(t, "purge") /\ Lock(t) /\ Step(t, "purging")
  /\ UNCHANGED <<row, settings, tokens, staged, used>>
StillTerminal(t) ==
  /\ At(t, "purge")
  /\ IF photos[task[t].user] \in Terminal
       THEN Lock(t) /\ Step(t, "purging")
       ELSE claim = NoTask /\ End(t) /\ UNCHANGED claim
  /\ UNCHANGED <<row, settings, tokens, staged, used>>

\* purgeUser: stillExpired under the lock...
StillExpired(t) ==
  LET u == task[t].user IN
  /\ At(t, "purge")
  /\ IF photos[u] \in Terminal /\ finished[u] = "expired"
       THEN Lock(t) /\ Step(t, "purging")
       ELSE claim = NoTask /\ End(t) /\ UNCHANGED claim
  /\ UNCHANGED <<row, settings, tokens, staged, used>>

\* ... and the directory moved aside; removing it afterwards concerns nobody.
PurgeUser(t) ==
  /\ At(t, "purging")
  /\ staged' = [staged EXCEPT ![task[t].user] = {}]
  /\ Unlock(t) /\ End(t)
  /\ UNCHANGED <<row, settings, tokens, used>>

----------------------------------------------------------------------------
(* Crashes and cancelled requests *)

\* A mutant: the recovery knows imports only.
RestartLeavesDownloads ==
  /\ "restart" \in Events
  /\ task' = [t \in Tasks |-> Idle] /\ claim' = NoTask /\ used' = 0
  /\ photos' = [u \in Users |-> IF photos[u] = "importing" THEN "not_started" ELSE photos[u]]
  /\ leftOut' = [u \in Users |-> IF photos[u] = "importing" THEN FALSE ELSE leftOut[u]]
  /\ finished' = [u \in Users |-> IF photos[u] = "importing" THEN "never" ELSE finished[u]]
  /\ UNCHANGED <<settings, tokens, staged>>

\* The process stops and starts: every goroutine, the lock and the slots are
\* gone, then RecoverInterrupted repairs the rows before anything else runs.
Restart ==
  /\ "restart" \in Events
  /\ task' = [t \in Tasks |-> Idle] /\ claim' = NoTask /\ used' = 0
  /\ photos' = [u \in Users |-> IF photos[u] \in Running THEN "not_started" ELSE photos[u]]
  /\ leftOut' = [u \in Users |-> IF photos[u] \in Running THEN FALSE ELSE leftOut[u]]
  /\ finished' = [u \in Users |-> IF photos[u] \in Running THEN "never" ELSE finished[u]]
  /\ UNCHANGED <<settings, tokens, staged>>

\* What the write a request was about to do would have left.
Target(t) == CASE At(t, "moving") -> task[t].job
               [] At(t, "accepting") -> "done"
               [] OTHER -> "importing"

\* The browser goes away: the request's context is cancelled, every statement
\* after that fails, and the handler returns.  A cancellation between the
\* commit of SetPhotosState and the read it ends with leaves the write behind
\* and still reports an error, so what should follow it is not done.
Abandon(t) ==
  /\ "disconnect" \in Events
  /\ task[t].pc \in InRequest /\ task[t].job # "watch"
  /\ \/ UNCHANGED row
     \/ /\ task[t].pc \in {"moving", "claiming", "upClaiming", "accepting"}
        /\ SetPhotosState(task[t].user, Target(t), FALSE)
  /\ End(t)
  /\ claim' = IF claim = t THEN NoTask ELSE claim
  /\ UNCHANGED <<settings, tokens, staged, used>>

\* The 24 hours of a run are over: its tool is killed, and every statement of
\* what it does then, failPhotos included, has the expired context too.
Overrun(t) ==
  /\ "overrun" \in Events
  /\ task[t].pc \in InSlot
  /\ End(t) /\ Free
  /\ UNCHANGED <<row, settings, tokens, staged, claim>>

----------------------------------------------------------------------------
Init ==
  /\ photos \in [Users -> IF "upgrade" \in Events THEN {"not_started", "failed"}
                                                 ELSE {"not_started"}]
  /\ leftOut = [u \in Users |-> FALSE]
  /\ finished = [u \in Users |-> "never"]
  /\ expected = [u \in Users |-> 0]
  /\ auto = [u \in Users |-> FALSE]
  /\ tokens = [u \in Users |-> {}]
  /\ staged = [u \in Users |-> {}]
  /\ task = [t \in Tasks |-> Idle]
  /\ claim = NoTask
  /\ used = 0

\* What one task does next on its own.
Continue(t) ==
  \/ AskImmich(t) \/ AskGoogle(t) \/ UnlessRunning(t) \/ Move(t) \/ ReconnectPhotos(t)
  \/ LaunchPhotosImport(t) \/ Recheck(t) \/ Claim(t) \/ AcceptPhotos(t)
  \/ SetPhotosParts(t) \/ ClaimForImport(t) \/ ClaimUpload(t)
  \/ StartUploadedImport(t) \/ ReconnectUpload(t)
  \/ CheckTakeout(t)
  \/ Acquire(t) \/ RunTakeoutDownload(t) \/ BeginImport(t) \/ ValidateArchives(t)
  \/ RunProblemsRetry(t) \/ ImportWithImmichGo(t) \/ ReconnectRun(t)
  \/ ReleaseFinished(t) \/ Forget(t) \/ ForgetAll(t)
  \/ StampFinished(t) \/ StillExpired(t) \/ PurgeUser(t)

\* What starts a task: a button, a watcher's turn.
Start(t, u) ==
  \/ BeginPhotosUpload(t, u) \/ StartPhotosTakeout(t, u)
  \/ \E j \in {"import", "problems"} : LaunchFromWizard(t, u, j)
  \/ Settle(t, u)
  \/ DeclarePhotosParts(t, u) \/ SetAutoImport(t, u)
  \/ AutoImportIfEnabled(t, u) \/ StartImportIfComplete(t, u)
  \/ PollTakeout(t, u) \/ SweepIdle(t, u) \/ PurgeStaging(t, u)

Next ==
  \/ \E t \in Tasks : Continue(t) \/ Abandon(t) \/ Overrun(t)
  \/ \E t \in Tasks, u \in Users : Start(t, u)
  \/ \E u \in Users : PartLands(u) \/ Connect(u) \/ RetentionPasses(u)
  \/ Restart

Spec == Init /\ [][Next]_vars

\* Goroutines are scheduled, network calls and tools end (without "overrun", in
\* time), and those who wait for the mutex or for a slot get it in turn.
Fairness == \A t \in Tasks : SF_vars(Continue(t))
\* WatchUploads never stops; the pool of tasks may keep it waiting.
SweepFairness == \A u \in Users : SF_vars(\E t \in Tasks : AutoImportIfEnabled(t, u))
FairSpec == Spec /\ Fairness /\ SweepFairness

----------------------------------------------------------------------------
(* Properties *)

\* Every variable stays within its type, and the row only takes the states of
\* core.PhotosState that the code writes (core/core.go).
TypeOK ==
  /\ photos \in [Users -> PhotosStates]
  /\ leftOut \in [Users -> BOOLEAN]
  /\ finished \in [Users -> Stamps]
  /\ expected \in [Users -> 0..MaxPart]
  /\ auto \in [Users -> BOOLEAN]
  /\ tokens \in [Users -> SUBSET Providers]
  /\ staged \in [Users -> SUBSET Parts]
  /\ task \in [Tasks -> TaskStates]
  /\ claim \in Tasks \cup {NoTask}
  /\ used \in 0..Slots

\* A track shown as running always has a goroutine that will move it on: the
\* dead end RecoverInterrupted exists for ("a copy left in copying by a restart
\* is a dead end ... nothing else ever moves it") never arises otherwise, be it
\* by a claim that could not be launched, a run that ended without writing its
\* end, or a recovery that forgets a state.
NoOrphan ==
  \A u \in Users : photos[u] \in Running =>
    \E t \in Tasks : task[t].user = u /\ task[t].pc \in Holding

\* At most one goroutine has one person's track: what the claim lock and the
\* second check under it are for ("so two parts that finish at the same moment
\* start one import, not two", startUploadedImport).
OneRun ==
  \A t, w \in Tasks :
    /\ task[t].pc \in Holding /\ task[w].pc \in Holding
    /\ task[t].user = task[w].user
    => t = w

\* Whatever happens to the other tabs, a running track leaves its running
\* states only by a step of the goroutine that has it: "a stale tab's "send the
\* files" or "ask Google" must not pull a queued import out from under itself"
\* (setPhotosUnlessRunning).
OnlyHolderEndsRun ==
  [][\A u \in Users :
       photos[u] \in Running /\ photos'[u] \notin Running =>
         \E t \in Tasks : /\ task[t].user = u /\ task[t].pc \in Holding
                         /\ task'[t] # task[t]]_vars

\* The limiter's count is the number of goroutines inside, on every path out of
\* a run: one that ends without releasing would close the service to everyone
\* after Slots such runs, one that takes a second slot would wait for itself.
SlotsAccounted == used = Cardinality({t \in Tasks : task[t].pc \in InSlot})

\* Archives are never removed under a run, nor while the person is sending them
\* or waiting for Google's: "no claim can slip between the check and the
\* removal" (purgeUser), even though others write the row without the lock.
PurgeSparesWork ==
  [][\A u \in Users :
       ~(staged[u] \subseteq staged'[u]) =>
         photos[u] \notin Running \cup {"awaiting_upload", "awaiting_takeout"}]_vars

\* Archives are removed only of a track that is ended and past the retention
\* at that very moment: a retry that claimed it after the sweep listed it keeps
\* them (purgeUser's recheck under the lock).
PurgedOnlyAfterRetention ==
  [][\A u \in Users :
       ~(staged[u] \subseteq staged'[u]) =>
         photos[u] \in Terminal /\ finished[u] = "expired"]_vars

\* A row carries a retention stamp only while its Photos half is ended: "cleared
\* when Photos runs again, so a retry that fails later gets a fresh window"
\* (SetPhotosState).
StampedOnlyEnded ==
  \A u \in Users : finished[u] # "never" => photos[u] \in Terminal

\* The upload route claims the import only of an export whose declared parts
\* are all on disk, although the check and the claim are two statements and
\* parts, counts and runs change meanwhile (claimForImport).
ClaimedWhole ==
  [][\A u \in Users :
       photos[u] = "awaiting_upload" /\ photos'[u] = "importing" =>
         expected[u] > 0 /\ 1..expected[u] \subseteq staged[u]]_vars

\* A running track stops running: no run waits forever for the lock, for a
\* slot, or for itself.
RunsEnd == \A u \in Users : photos[u] \in Running ~> photos[u] \notin Running

\* With automatic start on, a complete export does not wait for a browser: the
\* sweep starts it (WatchUploads), unless the person changes their mind.
SweepStarts ==
  \A u \in Users :
    (photos[u] = "awaiting_upload" /\ auto[u] /\ Complete(u))
      ~> ~(photos[u] = "awaiting_upload" /\ auto[u] /\ Complete(u))
=============================================================================
