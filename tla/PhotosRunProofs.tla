--------------------------- MODULE PhotosRunProofs ---------------------------
(***************************************************************************)
(* More proofs about PhotosTrack, each under the Events that spare it the  *)
(* code's known exceptions: no orphaned track, no stamp on a running one,  *)
(* one run per person, no purge before its time or under work, no end of a *)
(* run by another than its goroutine, and no claim of half an export.      *)
(***************************************************************************)
EXTENDS PhotosTrackProofs

----------------------------------------------------------------------------
(* A running track always has its goroutine *)

\* The step of one task leaves no orphan if every running track was running and
\* keeps its holder, or is held by that task now.
LEMMA Carried ==
  ASSUME NoOrphan, NEW t \in Tasks,
         \A w \in Tasks \ {t} : task'[w] = task[w],
         \A v \in Users : photos'[v] \in Running =>
           \/ /\ photos[v] \in Running
              /\ task[t].user = v /\ task[t].pc \in Holding =>
                   task'[t].user = v /\ task'[t].pc \in Holding
           \/ task'[t].user = v /\ task'[t].pc \in Holding
  PROVE  NoOrphan'
<1> SUFFICES ASSUME NEW v \in Users, photos'[v] \in Running
             PROVE  \E w \in Tasks : task'[w].user = v /\ task'[w].pc \in Holding
  BY DEF NoOrphan
<1>1. CASE task'[t].user = v /\ task'[t].pc \in Holding
  BY <1>1
<1>2. CASE ~(task'[t].user = v /\ task'[t].pc \in Holding)
  <2>1. PICK w \in Tasks : task[w].user = v /\ task[w].pc \in Holding
    BY <1>2 DEF NoOrphan
  <2>2. w # t
    BY <1>2, <2>1
  <2> QED BY <2>1, <2>2
<1> QED BY <1>1, <1>2

\* A write by task t leaves no orphan if it ends the run, or if t holds it.
LEMMA CarriedWrite ==
  ASSUME TypeOK, NoOrphan, NEW t \in Tasks, NEW s \in PhotosStates, NEW lo \in BOOLEAN,
         \A w \in Tasks \ {t} : task'[w] = task[w],
         SetPhotosState(task[t].user, s, lo),
         s \in Running => task'[t].user = task[t].user /\ task'[t].pc \in Holding
  PROVE  NoOrphan'
<1>1. \A v \in Users : photos'[v] = IF v = task[t].user THEN s ELSE photos[v]
  BY DEF SetPhotosState, TypeOK
<1>2. ASSUME NEW v \in Users, photos'[v] \in Running
      PROVE  \/ /\ photos[v] \in Running
                /\ task[t].user = v /\ task[t].pc \in Holding =>
                     task'[t].user = v /\ task'[t].pc \in Holding
             \/ task'[t].user = v /\ task'[t].pc \in Holding
  BY <1>1, <1>2
<1> QED BY <1>2, Carried

\* And a step that writes no row, if t holds on to its track.
LEMMA CarriedKeep ==
  ASSUME TypeOK, NoOrphan, NEW t \in Tasks, UNCHANGED row,
         \A w \in Tasks \ {t} : task'[w] = task[w],
         task[t].pc \in Holding => task'[t].user = task[t].user /\ task'[t].pc \in Holding
  PROVE  NoOrphan'
  BY Keeps, Carried

\* No step of an instance without cancelled requests leaves a running track
\* without its goroutine.
LEMMA NoOrphanStep ==
  ASSUME "disconnect" \notin Events, "overrun" \notin Events
  PROVE  Sound /\ NoOrphan /\ [Next]_vars => NoOrphan'
<1> SUFFICES ASSUME Sound, NoOrphan, [Next]_vars PROVE NoOrphan'
  OBVIOUS
<1>sound. TypeOK /\ MovesWait
  BY DEF Sound
<1>stutter. CASE UNCHANGED vars
  BY <1>stutter DEF NoOrphan, vars
<1>AskImmich. ASSUME NEW t \in Tasks, AskImmich(t) PROVE NoOrphan'
  BY <1>AskImmich, <1>sound, Typed, Steps, CarriedKeep
    DEF AskImmich, At, Holding, PCs, Jobs
<1>AskGoogle. ASSUME NEW t \in Tasks, AskGoogle(t) PROVE NoOrphan'
  BY <1>AskGoogle, <1>sound, Typed, Steps, Ends, CarriedWrite, CarriedKeep
    DEF AskGoogle, At, failPhotos, Holding, PhotosStates, Running, PCs, Jobs
<1>UnlessRunning. ASSUME NEW t \in Tasks, UnlessRunning(t) PROVE NoOrphan'
  BY <1>UnlessRunning, <1>sound, Typed, Steps, Ends, CarriedKeep
    DEF UnlessRunning, At, Holding, PCs, Jobs
<1>Move. ASSUME NEW t \in Tasks, Move(t) PROVE NoOrphan'
  BY <1>Move, <1>sound, Typed, Ends, CarriedWrite
    DEF Move, At, MovesWait, Moves, Waiting, Holding, PhotosStates, Running,
        PCs, Jobs
<1>ReconnectPhotos. ASSUME NEW t \in Tasks, ReconnectPhotos(t) PROVE NoOrphan'
  BY <1>ReconnectPhotos, <1>sound, Typed, Ends, CarriedWrite
    DEF ReconnectPhotos, At, Holding, PhotosStates, Running, PCs, Jobs
<1>LaunchPhotosImport. ASSUME NEW t \in Tasks, LaunchPhotosImport(t) PROVE NoOrphan'
  BY <1>LaunchPhotosImport, <1>sound, Typed, Steps, Ends, CarriedKeep
    DEF LaunchPhotosImport, At, Holding, PCs, Jobs
<1>Recheck. ASSUME NEW t \in Tasks, Recheck(t) PROVE NoOrphan'
  BY <1>Recheck, <1>sound, Typed, Steps, Ends, CarriedKeep
    DEF Recheck, At, Holding, PCs, Jobs
<1>Claim. ASSUME NEW t \in Tasks, Claim(t) PROVE NoOrphan'
  BY <1>Claim, <1>sound, Typed, Steps, CarriedWrite
    DEF Claim, At, Holding, PhotosStates, Running, PCs, Jobs
<1>AcceptPhotos. ASSUME NEW t \in Tasks, AcceptPhotos(t) PROVE NoOrphan'
  BY <1>AcceptPhotos, <1>sound, Typed, Steps, Ends, CarriedWrite
    DEF AcceptPhotos, At, photosFinished, Holding, PhotosStates, Running, PCs,
        Jobs
<1>SetPhotosParts. ASSUME NEW t \in Tasks, SetPhotosParts(t) PROVE NoOrphan'
  BY <1>SetPhotosParts, <1>sound, Typed, Steps, Ends, CarriedKeep
    DEF SetPhotosParts, At, Holding, PCs, Jobs
<1>ClaimForImport. ASSUME NEW t \in Tasks, ClaimForImport(t) PROVE NoOrphan'
  BY <1>ClaimForImport, <1>sound, Typed, Steps, Ends, CarriedKeep
    DEF ClaimForImport, At, Holding, PCs, Jobs
<1>ClaimUpload. ASSUME NEW t \in Tasks, ClaimUpload(t) PROVE NoOrphan'
  <2>1. /\ task'[t].user = task[t].user /\ task'[t].pc \in Holding
        /\ \A w \in Tasks \ {t} : task'[w] = task[w]
    BY <1>ClaimUpload, <1>sound, Typed, Becomes DEF ClaimUpload, Holding, PCs, Jobs
  <2> QED BY <1>ClaimUpload, <1>sound, <2>1, CarriedWrite DEF ClaimUpload, PhotosStates
<1>StartUploadedImport. ASSUME NEW t \in Tasks, StartUploadedImport(t) PROVE NoOrphan'
  BY <1>StartUploadedImport, <1>sound, Typed, Steps, Ends, CarriedWrite,
     CarriedKeep
    DEF StartUploadedImport, At, failPhotos, Holding, PhotosStates, Running,
        PCs, Jobs
<1>ReconnectUpload. ASSUME NEW t \in Tasks, ReconnectUpload(t) PROVE NoOrphan'
  BY <1>ReconnectUpload, <1>sound, Typed, Ends, CarriedWrite
    DEF ReconnectUpload, At, Holding, PhotosStates, Running, PCs, Jobs
<1>CheckTakeout. ASSUME NEW t \in Tasks, CheckTakeout(t) PROVE NoOrphan'
  <2>1. /\ task[t].pc = "look" /\ \A w \in Tasks \ {t} : task'[w] = task[w]
        /\ \/ failPhotos(task[t].user, FALSE)
           \/ UNCHANGED row
           \/ /\ SetPhotosState(task[t].user, "downloading", FALSE)
              /\ task'[t].user = task[t].user /\ task'[t].pc = "queued"
    <3>1. task[t].user \in Users \cup {NoUser}
      BY <1>sound, Typed
    <3>2. ASSUME NEW p \in {"idle", "reconnect", "queued"}, NEW j \in Jobs,
                 Become(t, p, task[t].user, j)
          PROVE  /\ task'[t].user = task[t].user /\ task'[t].pc = p
                 /\ \A w \in Tasks \ {t} : task'[w] = task[w]
      BY <1>sound, <3>1, <3>2, Becomes DEF PCs
    <3> QED BY <1>CheckTakeout, <1>sound, <3>2, Steps, Ends DEF CheckTakeout, At, PCs, Jobs
  <2> QED
    BY <1>sound, <2>1, CarriedWrite, CarriedKeep
      DEF failPhotos, Holding, PhotosStates, Running
<1>Acquire. ASSUME NEW t \in Tasks, Acquire(t) PROVE NoOrphan'
  BY <1>Acquire, <1>sound, Typed, Steps, CarriedKeep
    DEF Acquire, At, Holding, PCs, Jobs
<1>RunTakeoutDownload. ASSUME NEW t \in Tasks, RunTakeoutDownload(t) PROVE NoOrphan'
  BY <1>RunTakeoutDownload, <1>sound, Typed, Steps, Ends, CarriedWrite,
     CarriedKeep
    DEF RunTakeoutDownload, At, Stop, failPhotos, Holding, PhotosStates,
        Running, PCs, Jobs
<1>BeginImport. ASSUME NEW t \in Tasks, BeginImport(t) PROVE NoOrphan'
  BY <1>BeginImport, <1>sound, Typed, Steps, CarriedWrite
    DEF BeginImport, At, Holding, PhotosStates, Running, PCs, Jobs
<1>ValidateArchives. ASSUME NEW t \in Tasks, ValidateArchives(t) PROVE NoOrphan'
  BY <1>ValidateArchives, <1>sound, Typed, Steps, Ends, CarriedWrite,
     CarriedKeep
    DEF ValidateArchives, At, Stop, failPhotos, Holding, PhotosStates,
        Running, PCs, Jobs
<1>RunProblemsRetry. ASSUME NEW t \in Tasks, RunProblemsRetry(t) PROVE NoOrphan'
  BY <1>RunProblemsRetry, <1>sound, Typed, Steps, Ends, CarriedWrite,
     CarriedKeep
    DEF RunProblemsRetry, At, Stop, failPhotos, Holding, PhotosStates,
        Running, PCs, Jobs
<1>ImportWithImmichGo. ASSUME NEW t \in Tasks, ImportWithImmichGo(t) PROVE NoOrphan'
  BY <1>ImportWithImmichGo, <1>sound, Typed, Steps, Ends, CarriedWrite,
     CarriedKeep
    DEF ImportWithImmichGo, At, Stop, failPhotos, photosFinished, Holding,
        PhotosStates, Running, PCs, Jobs
<1>ReconnectRun. ASSUME NEW t \in Tasks, ReconnectRun(t) PROVE NoOrphan'
  BY <1>ReconnectRun, <1>sound, Typed, Ends, CarriedWrite
    DEF ReconnectRun, At, Holding, PhotosStates, Running, PCs, Jobs
<1>ReleaseFinished. ASSUME NEW t \in Tasks, ReleaseFinished(t) PROVE NoOrphan'
  BY <1>ReleaseFinished, <1>sound, Typed, Steps, Ends, CarriedKeep
    DEF ReleaseFinished, At, Holding, PCs, Jobs
<1>Forget. ASSUME NEW t \in Tasks, Forget(t) PROVE NoOrphan'
  BY <1>Forget, <1>sound, Typed, Ends, CarriedKeep
    DEF Forget, At, Holding, PCs, Jobs
<1>ForgetAll. ASSUME NEW t \in Tasks, ForgetAll(t) PROVE NoOrphan'
  BY <1>ForgetAll, <1>sound, Typed, Ends, CarriedKeep
    DEF ForgetAll, At, Holding, PCs, Jobs
<1>StampFinished. ASSUME NEW t \in Tasks, StampFinished(t) PROVE NoOrphan'
  <2>1. /\ task'[t].pc = "idle" /\ task[t].pc = "stamp" /\ photos' = photos
        /\ \A w \in Tasks \ {t} : task'[w] = task[w]
    BY <1>StampFinished, <1>sound, Ends DEF StampFinished, At
  <2> QED BY <2>1, Carried DEF Holding
<1>StillExpired. ASSUME NEW t \in Tasks, StillExpired(t) PROVE NoOrphan'
  BY <1>StillExpired, <1>sound, Typed, Steps, Ends, CarriedKeep
    DEF StillExpired, At, Holding, PCs, Jobs
<1>PurgeUser. ASSUME NEW t \in Tasks, PurgeUser(t) PROVE NoOrphan'
  BY <1>PurgeUser, <1>sound, Typed, Ends, CarriedKeep
    DEF PurgeUser, At, Holding, PCs, Jobs
<1>BeginPhotosUpload. ASSUME NEW t \in Tasks, NEW u \in Users, BeginPhotosUpload(t, u) PROVE NoOrphan'
  BY <1>BeginPhotosUpload, <1>sound, Typed, Becomes, CarriedKeep
    DEF BeginPhotosUpload, At, Holding, PCs, Jobs
<1>StartPhotosTakeout. ASSUME NEW t \in Tasks, NEW u \in Users, StartPhotosTakeout(t, u) PROVE NoOrphan'
  BY <1>StartPhotosTakeout, <1>sound, Typed, Becomes, CarriedKeep
    DEF StartPhotosTakeout, At, Holding, PCs, Jobs
<1>LaunchFromWizard. ASSUME NEW t \in Tasks, NEW u \in Users,
                            NEW j \in {"import", "problems"}, LaunchFromWizard(t, u, j) PROVE NoOrphan'
  <2>j. j \in Jobs
    BY DEF Jobs
  <2> QED
    BY <1>LaunchFromWizard, <1>sound, Typed, <2>j, Becomes, CarriedKeep
      DEF LaunchFromWizard, At, Holding, PCs, Jobs
<1>Settle. ASSUME NEW t \in Tasks, NEW u \in Users, Settle(t, u) PROVE NoOrphan'
  BY <1>Settle, <1>sound, Typed, Becomes, CarriedKeep
    DEF Settle, At, Holding, PCs, Jobs
<1>DeclarePhotosParts. ASSUME NEW t \in Tasks, NEW u \in Users, DeclarePhotosParts(t, u) PROVE NoOrphan'
  BY <1>DeclarePhotosParts, <1>sound, Typed, Becomes, CarriedKeep
    DEF DeclarePhotosParts, At, Holding, PCs, Jobs
<1>SetAutoImport. ASSUME NEW t \in Tasks, NEW u \in Users, SetAutoImport(t, u) PROVE NoOrphan'
  BY <1>SetAutoImport, <1>sound, Typed, Becomes, CarriedKeep
    DEF SetAutoImport, At, Holding, PCs, Jobs, TypeOK
<1>AutoImportIfEnabled. ASSUME NEW t \in Tasks, NEW u \in Users, AutoImportIfEnabled(t, u) PROVE NoOrphan'
  BY <1>AutoImportIfEnabled, <1>sound, Typed, Becomes, CarriedKeep
    DEF AutoImportIfEnabled, At, Holding, PCs, Jobs
<1>StartImportIfComplete. ASSUME NEW t \in Tasks, NEW u \in Users, StartImportIfComplete(t, u) PROVE NoOrphan'
  BY <1>StartImportIfComplete, <1>sound, Typed, Becomes, CarriedKeep
    DEF StartImportIfComplete, At, Holding, PCs, Jobs
<1>PollTakeout. ASSUME NEW t \in Tasks, NEW u \in Users, PollTakeout(t, u) PROVE NoOrphan'
  BY <1>PollTakeout, <1>sound, Typed, Becomes, CarriedKeep
    DEF PollTakeout, At, Holding, PCs, Jobs
<1>SweepIdle. ASSUME NEW t \in Tasks, NEW u \in Users, SweepIdle(t, u) PROVE NoOrphan'
  BY <1>SweepIdle, <1>sound, Typed, Becomes, CarriedKeep
    DEF SweepIdle, At, Holding, PCs, Jobs
<1>PurgeStaging. ASSUME NEW t \in Tasks, NEW u \in Users, PurgeStaging(t, u) PROVE NoOrphan'
  BY <1>PurgeStaging, <1>sound, Typed, Becomes, CarriedKeep
    DEF PurgeStaging, At, Holding, PCs, Jobs
<1>Abandon. ASSUME NEW t \in Tasks PROVE ~Abandon(t)
  BY DEF Abandon
<1>Overrun. ASSUME NEW t \in Tasks PROVE ~Overrun(t)
  BY DEF Overrun
<1>PartLands. ASSUME NEW u \in Users, PartLands(u) PROVE NoOrphan'
  BY <1>PartLands DEF PartLands, NoOrphan, row
<1>Connect. ASSUME NEW u \in Users, Connect(u) PROVE NoOrphan'
  BY <1>Connect DEF Connect, NoOrphan, row
<1>RetentionPasses. ASSUME NEW u \in Users, RetentionPasses(u) PROVE NoOrphan'
  BY <1>RetentionPasses DEF RetentionPasses, NoOrphan, row
<1>Restart. CASE Restart
  BY <1>Restart DEF Restart, NoOrphan, Running
<1> QED
  BY <1>stutter, <1>AskImmich, <1>AskGoogle, <1>UnlessRunning, <1>Move,
     <1>ReconnectPhotos, <1>LaunchPhotosImport, <1>Recheck, <1>Claim,
     <1>AcceptPhotos, <1>SetPhotosParts, <1>ClaimForImport, <1>ClaimUpload,
     <1>StartUploadedImport, <1>ReconnectUpload, <1>CheckTakeout, <1>Acquire,
     <1>RunTakeoutDownload, <1>BeginImport, <1>ValidateArchives,
     <1>RunProblemsRetry, <1>ImportWithImmichGo, <1>ReconnectRun,
     <1>ReleaseFinished, <1>Forget, <1>ForgetAll, <1>StampFinished,
     <1>StillExpired, <1>PurgeUser, <1>Abandon, <1>Overrun, <1>BeginPhotosUpload,
     <1>StartPhotosTakeout, <1>LaunchFromWizard, <1>Settle,
     <1>DeclarePhotosParts, <1>SetAutoImport, <1>AutoImportIfEnabled,
     <1>StartImportIfComplete, <1>PollTakeout, <1>SweepIdle, <1>PurgeStaging,
     <1>PartLands, <1>Connect, <1>RetentionPasses, <1>Restart
    DEF Next, Continue, Start

\* A track shown as running always has a goroutine that will move it on, as long
\* as no request is cancelled between its claim and the launch and no run takes
\* longer than its context lives (with either event TLC finds a track without one).
THEOREM NeverOrphaned ==
  ASSUME "disconnect" \notin Events, "overrun" \notin Events
  PROVE  Spec => []NoOrphan
<1>1. Init => NoOrphan
  BY DEF Init, NoOrphan, Running
<1>2. Sound /\ NoOrphan /\ [Next]_vars => Sound' /\ NoOrphan'
  BY SoundStep, NoOrphanStep DEF Sound
<1> QED BY <1>1, <1>2, SoundInit, PTL DEF Spec

----------------------------------------------------------------------------
(* The retention stamp and the end of the track *)

\* Stamp and state agree, and the sweep finds no end to stamp.
StampsFit ==
  /\ \A u \in Users : finished[u] # "never" <=> photos[u] \in Terminal
  /\ \A t \in Tasks : task[t].pc # "stamp"

\* SetPhotosState keeps stamp and state in agreement.
LEMMA StampWrite ==
  ASSUME TypeOK, StampsFit, NEW t \in Tasks, \A w \in Tasks \ {t} : task'[w] = task[w],
         task'[t].pc # "stamp",
         NEW u, NEW s \in PhotosStates, NEW lo \in BOOLEAN, SetPhotosState(u, s, lo)
  PROVE  StampsFit'
<1>1. \A v \in Users : finished'[v] # "never" <=> photos'[v] \in Terminal
  BY DEF TypeOK, StampsFit, SetPhotosState
<1> QED BY <1>1 DEF StampsFit

\* A step that writes no row keeps them so.
LEMMA StampKeep ==
  ASSUME StampsFit, NEW t \in Tasks, \A w \in Tasks \ {t} : task'[w] = task[w],
         task'[t].pc # "stamp", UNCHANGED row
  PROVE  StampsFit'
  BY DEF StampsFit, row

\* Every write of a row, and every stamp of the sweep, leaves stamp and state
\* in agreement.
LEMMA StampsFitStep == Sound /\ StampsFit /\ [Next]_vars => StampsFit'
<1> SUFFICES ASSUME Sound, StampsFit, [Next]_vars PROVE StampsFit'
  OBVIOUS
<1>sound. TypeOK /\ MovesWait
  BY DEF Sound
<1>stutter. CASE UNCHANGED vars
  BY <1>stutter DEF StampsFit, vars
<1>AskImmich. ASSUME NEW t \in Tasks, AskImmich(t) PROVE StampsFit'
  BY <1>AskImmich, <1>sound, Typed, Steps, StampKeep DEF AskImmich, PCs, Jobs
<1>AskGoogle. ASSUME NEW t \in Tasks, AskGoogle(t) PROVE StampsFit'
  BY <1>AskGoogle, <1>sound, Typed, Steps, Ends, StampWrite, StampKeep
    DEF AskGoogle, failPhotos, PhotosStates, PCs, Jobs
<1>UnlessRunning. ASSUME NEW t \in Tasks, UnlessRunning(t) PROVE StampsFit'
  BY <1>UnlessRunning, <1>sound, Typed, Steps, Ends, StampKeep
    DEF UnlessRunning, PCs, Jobs
<1>Move. ASSUME NEW t \in Tasks, Move(t) PROVE StampsFit'
  BY <1>Move, <1>sound, Typed, Ends, StampWrite
    DEF Move, At, MovesWait, Moves, Waiting, PhotosStates, PCs, Jobs
<1>ReconnectPhotos. ASSUME NEW t \in Tasks, ReconnectPhotos(t) PROVE StampsFit'
  BY <1>ReconnectPhotos, <1>sound, Typed, Ends, StampWrite
    DEF ReconnectPhotos, PhotosStates, PCs, Jobs
<1>LaunchPhotosImport. ASSUME NEW t \in Tasks, LaunchPhotosImport(t) PROVE StampsFit'
  BY <1>LaunchPhotosImport, <1>sound, Typed, Steps, Ends, StampKeep
    DEF LaunchPhotosImport, PCs, Jobs
<1>Recheck. ASSUME NEW t \in Tasks, Recheck(t) PROVE StampsFit'
  BY <1>Recheck, <1>sound, Typed, Steps, Ends, StampKeep
    DEF Recheck, PCs, Jobs
<1>Claim. ASSUME NEW t \in Tasks, Claim(t) PROVE StampsFit'
  BY <1>Claim, <1>sound, Typed, Steps, StampWrite
    DEF Claim, PhotosStates, PCs, Jobs
<1>AcceptPhotos. ASSUME NEW t \in Tasks, AcceptPhotos(t) PROVE StampsFit'
  BY <1>AcceptPhotos, <1>sound, Typed, Steps, Ends, StampWrite
    DEF AcceptPhotos, photosFinished, PhotosStates, PCs, Jobs
<1>SetPhotosParts. ASSUME NEW t \in Tasks, SetPhotosParts(t) PROVE StampsFit'
  BY <1>SetPhotosParts, <1>sound, Typed, Steps, Ends, StampKeep
    DEF SetPhotosParts, PCs, Jobs
<1>ClaimForImport. ASSUME NEW t \in Tasks, ClaimForImport(t) PROVE StampsFit'
  BY <1>ClaimForImport, <1>sound, Typed, Steps, Ends, StampKeep
    DEF ClaimForImport, PCs, Jobs
<1>ClaimUpload. ASSUME NEW t \in Tasks, ClaimUpload(t) PROVE StampsFit'
  BY <1>ClaimUpload, <1>sound, Typed, Becomes, StampWrite
    DEF ClaimUpload, PhotosStates, PCs, Jobs
<1>StartUploadedImport. ASSUME NEW t \in Tasks, StartUploadedImport(t) PROVE StampsFit'
  BY <1>StartUploadedImport, <1>sound, Typed, Steps, Ends, StampWrite,
     StampKeep
    DEF StartUploadedImport, failPhotos, PhotosStates, PCs, Jobs
<1>ReconnectUpload. ASSUME NEW t \in Tasks, ReconnectUpload(t) PROVE StampsFit'
  BY <1>ReconnectUpload, <1>sound, Typed, Ends, StampWrite
    DEF ReconnectUpload, PhotosStates, PCs, Jobs
<1>CheckTakeout. ASSUME NEW t \in Tasks, CheckTakeout(t) PROVE StampsFit'
  <2>1. /\ task'[t].pc # "stamp" /\ \A w \in Tasks \ {t} : task'[w] = task[w]
        /\ \/ failPhotos(task[t].user, FALSE)
           \/ UNCHANGED row
           \/ SetPhotosState(task[t].user, "downloading", FALSE)
    BY <1>CheckTakeout, <1>sound, Typed, Becomes, Steps, Ends
      DEF CheckTakeout, PCs, Jobs
  <2> QED
    BY <1>sound, <2>1, StampWrite, StampKeep DEF failPhotos, PhotosStates
<1>Acquire. ASSUME NEW t \in Tasks, Acquire(t) PROVE StampsFit'
  BY <1>Acquire, <1>sound, Typed, Steps, StampKeep DEF Acquire, PCs, Jobs
<1>RunTakeoutDownload. ASSUME NEW t \in Tasks, RunTakeoutDownload(t) PROVE StampsFit'
  BY <1>RunTakeoutDownload, <1>sound, Typed, Steps, Ends, StampWrite,
     StampKeep
    DEF RunTakeoutDownload, Stop, failPhotos, PhotosStates, PCs, Jobs
<1>BeginImport. ASSUME NEW t \in Tasks, BeginImport(t) PROVE StampsFit'
  BY <1>BeginImport, <1>sound, Typed, Steps, StampWrite
    DEF BeginImport, PhotosStates, PCs, Jobs
<1>ValidateArchives. ASSUME NEW t \in Tasks, ValidateArchives(t) PROVE StampsFit'
  BY <1>ValidateArchives, <1>sound, Typed, Steps, Ends, StampWrite, StampKeep
    DEF ValidateArchives, Stop, failPhotos, PhotosStates, PCs, Jobs
<1>RunProblemsRetry. ASSUME NEW t \in Tasks, RunProblemsRetry(t) PROVE StampsFit'
  BY <1>RunProblemsRetry, <1>sound, Typed, Steps, Ends, StampWrite, StampKeep
    DEF RunProblemsRetry, Stop, failPhotos, PhotosStates, PCs, Jobs
<1>ImportWithImmichGo. ASSUME NEW t \in Tasks, ImportWithImmichGo(t) PROVE StampsFit'
  BY <1>ImportWithImmichGo, <1>sound, Typed, Steps, Ends, StampWrite,
     StampKeep
    DEF ImportWithImmichGo, Stop, failPhotos, photosFinished, PhotosStates,
        PCs, Jobs
<1>ReconnectRun. ASSUME NEW t \in Tasks, ReconnectRun(t) PROVE StampsFit'
  BY <1>ReconnectRun, <1>sound, Typed, Ends, StampWrite
    DEF ReconnectRun, PhotosStates, PCs, Jobs
<1>ReleaseFinished. ASSUME NEW t \in Tasks, ReleaseFinished(t) PROVE StampsFit'
  BY <1>ReleaseFinished, <1>sound, Typed, Steps, Ends, StampKeep
    DEF ReleaseFinished, PCs, Jobs
<1>Forget. ASSUME NEW t \in Tasks, Forget(t) PROVE StampsFit'
  BY <1>Forget, <1>sound, Typed, Ends, StampKeep DEF Forget, PCs, Jobs
<1>ForgetAll. ASSUME NEW t \in Tasks, ForgetAll(t) PROVE StampsFit'
  BY <1>ForgetAll, <1>sound, Typed, Ends, StampKeep DEF ForgetAll, PCs, Jobs
<1>StampFinished. ASSUME NEW t \in Tasks, StampFinished(t) PROVE StampsFit'
  BY <1>StampFinished DEF StampFinished, At, StampsFit
<1>StillExpired. ASSUME NEW t \in Tasks, StillExpired(t) PROVE StampsFit'
  BY <1>StillExpired, <1>sound, Typed, Steps, Ends, StampKeep
    DEF StillExpired, PCs, Jobs
<1>PurgeUser. ASSUME NEW t \in Tasks, PurgeUser(t) PROVE StampsFit'
  BY <1>PurgeUser, <1>sound, Typed, Ends, StampKeep DEF PurgeUser, PCs, Jobs
<1>Abandon. ASSUME NEW t \in Tasks, Abandon(t) PROVE StampsFit'
  <2>1. /\ task'[t].pc # "stamp" /\ \A w \in Tasks \ {t} : task'[w] = task[w]
        /\ \/ UNCHANGED row
           \/ /\ task[t].pc \in {"moving", "claiming", "upClaiming", "accepting"}
              /\ SetPhotosState(task[t].user, Target(t), FALSE)
    BY <1>Abandon, <1>sound, Ends DEF Abandon
  <2>2. task[t].pc \in {"moving", "claiming", "upClaiming", "accepting"} => Target(t) \in PhotosStates
    BY <1>sound DEF Target, At, MovesWait, Moves, Waiting, PhotosStates
  <2> QED BY <1>sound, <2>1, <2>2, StampWrite, StampKeep
<1>Overrun. ASSUME NEW t \in Tasks, Overrun(t) PROVE StampsFit'
  BY <1>Overrun, <1>sound, Typed, Ends, StampKeep DEF Overrun, PCs, Jobs
<1>BeginPhotosUpload. ASSUME NEW t \in Tasks, NEW u \in Users, BeginPhotosUpload(t, u) PROVE StampsFit'
  BY <1>BeginPhotosUpload, <1>sound, Typed, Becomes, StampKeep
    DEF BeginPhotosUpload, PCs, Jobs
<1>StartPhotosTakeout. ASSUME NEW t \in Tasks, NEW u \in Users, StartPhotosTakeout(t, u) PROVE StampsFit'
  BY <1>StartPhotosTakeout, <1>sound, Typed, Becomes, StampKeep
    DEF StartPhotosTakeout, PCs, Jobs
<1>LaunchFromWizard. ASSUME NEW t \in Tasks, NEW u \in Users,
                            NEW j \in {"import", "problems"}, LaunchFromWizard(t, u, j) PROVE StampsFit'
  <2>j. j \in Jobs
    BY DEF Jobs
  <2> QED
    BY <1>LaunchFromWizard, <1>sound, <2>j, Becomes, StampKeep
      DEF LaunchFromWizard, PCs
<1>Settle. ASSUME NEW t \in Tasks, NEW u \in Users, Settle(t, u) PROVE StampsFit'
  BY <1>Settle, <1>sound, Typed, Becomes, StampKeep DEF Settle, PCs, Jobs
<1>DeclarePhotosParts. ASSUME NEW t \in Tasks, NEW u \in Users, DeclarePhotosParts(t, u) PROVE StampsFit'
  BY <1>DeclarePhotosParts, <1>sound, Typed, Becomes, StampKeep
    DEF DeclarePhotosParts, PCs, Jobs
<1>SetAutoImport. ASSUME NEW t \in Tasks, NEW u \in Users, SetAutoImport(t, u) PROVE StampsFit'
  BY <1>SetAutoImport, <1>sound, Typed, Becomes, StampKeep
    DEF SetAutoImport, At, PCs, Jobs, TypeOK
<1>AutoImportIfEnabled. ASSUME NEW t \in Tasks, NEW u \in Users, AutoImportIfEnabled(t, u) PROVE StampsFit'
  BY <1>AutoImportIfEnabled, <1>sound, Typed, Becomes, StampKeep
    DEF AutoImportIfEnabled, PCs, Jobs
<1>StartImportIfComplete. ASSUME NEW t \in Tasks, NEW u \in Users, StartImportIfComplete(t, u) PROVE StampsFit'
  BY <1>StartImportIfComplete, <1>sound, Typed, Becomes, StampKeep
    DEF StartImportIfComplete, PCs, Jobs
<1>PollTakeout. ASSUME NEW t \in Tasks, NEW u \in Users, PollTakeout(t, u) PROVE StampsFit'
  BY <1>PollTakeout, <1>sound, Typed, Becomes, StampKeep
    DEF PollTakeout, PCs, Jobs
<1>SweepIdle. ASSUME NEW t \in Tasks, NEW u \in Users, SweepIdle(t, u) PROVE StampsFit'
  BY <1>SweepIdle, <1>sound, Typed, Becomes, StampKeep
    DEF SweepIdle, PCs, Jobs
<1>PurgeStaging. ASSUME NEW t \in Tasks, NEW u \in Users, PurgeStaging(t, u) PROVE StampsFit'
  <2>1. finished[u] # "never" /\ "purge" \in PCs /\ "none" \in Jobs
    BY <1>PurgeStaging DEF PurgeStaging, StampsFit, PCs, Jobs
  <2> QED
    BY <1>PurgeStaging, <1>sound, <2>1, Becomes, StampKeep DEF PurgeStaging
<1>PartLands. ASSUME NEW u \in Users, PartLands(u) PROVE StampsFit'
  BY <1>PartLands DEF PartLands, StampsFit, row
<1>Connect. ASSUME NEW u \in Users, Connect(u) PROVE StampsFit'
  BY <1>Connect DEF Connect, StampsFit, row
<1>RetentionPasses. ASSUME NEW u \in Users, RetentionPasses(u) PROVE StampsFit'
  BY <1>RetentionPasses, <1>sound DEF RetentionPasses, StampsFit, TypeOK
<1>Restart. CASE Restart
  BY <1>Restart, <1>sound DEF Restart, StampsFit, TypeOK, Running, Terminal, Idle
<1> QED
  BY <1>stutter, <1>AskImmich, <1>AskGoogle, <1>UnlessRunning, <1>Move,
     <1>ReconnectPhotos, <1>LaunchPhotosImport, <1>Recheck, <1>Claim,
     <1>AcceptPhotos, <1>SetPhotosParts, <1>ClaimForImport, <1>ClaimUpload,
     <1>StartUploadedImport, <1>ReconnectUpload, <1>CheckTakeout, <1>Acquire,
     <1>RunTakeoutDownload, <1>BeginImport, <1>ValidateArchives,
     <1>RunProblemsRetry, <1>ImportWithImmichGo, <1>ReconnectRun,
     <1>ReleaseFinished, <1>Forget, <1>ForgetAll, <1>StampFinished,
     <1>StillExpired, <1>PurgeUser, <1>Abandon, <1>Overrun, <1>BeginPhotosUpload,
     <1>StartPhotosTakeout, <1>LaunchFromWizard, <1>Settle,
     <1>DeclarePhotosParts, <1>SetAutoImport, <1>AutoImportIfEnabled,
     <1>StartImportIfComplete, <1>PollTakeout, <1>SweepIdle, <1>PurgeStaging,
     <1>PartLands, <1>Connect, <1>RetentionPasses, <1>Restart
    DEF Next, Continue, Start

\* A row carries a retention stamp only while its Photos half is ended, and every
\* ended one carries it, where no row predates the stamp: so a retry that fails
\* again gets a whole retention of its own, and no sweep ever needs to stamp.
THEOREM StampsAgree ==
  ASSUME "upgrade" \notin Events
  PROVE  Spec => []StampedOnlyEnded
<1>1. Init => StampsFit
  BY DEF Init, StampsFit, Terminal, Idle
<1>2. StampsFit => StampedOnlyEnded
  BY DEF StampsFit, StampedOnlyEnded
<1> QED BY <1>1, <1>2, SoundInit, SoundStep, StampsFitStep, PTL DEF Spec

----------------------------------------------------------------------------
(* One run per person *)

\* Where a task gets only when tokens lapse, the "Add to Drive" route is offered
\* or rows come from an upgrade.
Elsewhere == {"askImmich", "askGoogle", "look", "download", "reconnect", "upLost",
              "lost", "release", "forget", "forgetAll", "stamp"}
\* Where a task counts on the person's Immich key.
Keyed == {"move", "moving", "launch", "recheck", "claiming"}

\* What the row looks like to a task that has the track or the lock: what its
\* check saw still holds at its write.
Fits(t) ==
  LET p == task[t].pc
      u == task[t].user IN
  /\ p \notin Elsewhere /\ task[t].job # "download"
  /\ p # "idle" => u \in Users
  /\ p \in Keyed => "immich" \in tokens[u]
  /\ p \in Holding => photos[u] \in Running
  /\ p = "moving" => photos[u] \notin Running
  /\ p \in {"claiming", "accepting"} => photos[u] = "failed"
  /\ p = "upClaiming" => photos[u] = "awaiting_upload"
  /\ p = "purging" => photos[u] \in Terminal /\ finished[u] = "expired"

\* The key is asked for before the track leaves its first state.
KeyFirst == \A u \in Users : photos[u] # "not_started" => "immich" \in tokens[u]

Exclusive == (\A t \in Tasks : Fits(t)) /\ OneRun /\ KeyFirst

\* Two tasks never both have the same person's track or lock.
LEMMA Alone ==
  ASSUME Sound, Exclusive, NEW t \in Tasks, NEW w \in Tasks,
         task[t].user = task[w].user,
         task[t].pc \in Holding \cup Locked, task[w].pc \in Holding \cup Locked
  PROVE  t = w
<1>1. Fits(t) /\ Fits(w) /\ LockHeld
  BY DEF Exclusive, Sound
<1>2. CASE task[t].pc \in Holding /\ task[w].pc \in Holding
  BY <1>2 DEF Exclusive, OneRun
<1>3. CASE task[t].pc \in Locked /\ task[w].pc \in Locked
  BY <1>1, <1>3 DEF LockHeld
<1>4. CASE task[t].pc \in Holding /\ task[w].pc \in Locked
  BY <1>1, <1>4 DEF Fits, Locked, Running, Terminal
<1>5. CASE task[t].pc \in Locked /\ task[w].pc \in Holding
  BY <1>1, <1>5 DEF Fits, Locked, Running, Terminal
<1> QED BY <1>2, <1>3, <1>4, <1>5

\* What one write leaves in the row.
LEMMA Wrote ==
  ASSUME TypeOK, NEW u \in Users, NEW s, NEW lo, SetPhotosState(u, s, lo)
  PROVE  photos'[u] = s
  BY DEF SetPhotosState, TypeOK

\* A goroutine that is over has nothing to fit.
LEMMA IdleFits ==
  ASSUME NEW t \in Tasks, task'[t].pc = "idle", task'[t].job # "download"
  PROVE  Fits(t)'
  BY DEF Fits, Elsewhere, Keyed, Holding

\* A write by the task that has the track or the lock disturbs nobody.
LEMMA WriteFits ==
  ASSUME Sound, Exclusive, NEW t \in Tasks, task[t].pc \in Holding \cup Locked,
         \A w \in Tasks \ {t} : task'[w] = task[w], Fits(t)',
         NEW s \in PhotosStates, NEW lo \in BOOLEAN,
         SetPhotosState(task[t].user, s, lo), UNCHANGED tokens,
         s # "not_started" => "immich" \in tokens[task[t].user],
         task'[t].pc \in Holding => task'[t].user = task[t].user
  PROVE  Exclusive'
<1>1. /\ \A v \in Users : photos'[v] = IF v = task[t].user THEN s ELSE photos[v]
      /\ \A v \in Users : v # task[t].user => finished'[v] = finished[v]
  BY DEF SetPhotosState, Sound, TypeOK
<1>2. ASSUME NEW w \in Tasks, w # t PROVE Fits(w)'
  <2>1. Fits(w) /\ task'[w] = task[w]
    BY <1>2 DEF Exclusive
  <2>2. CASE task[w].user = task[t].user
    <3>1. task[w].pc \notin Holding \cup Locked
      BY <1>2, <2>2, Alone
    <3> QED BY <2>1, <3>1 DEF Fits, Locked
  <2>3. CASE task[w].user # task[t].user
    <3>1. task[w].pc # "idle" => /\ photos'[task[w].user] = photos[task[w].user]
                                 /\ finished'[task[w].user] = finished[task[w].user]
      BY <1>1, <2>1, <2>3 DEF Fits
    <3> QED BY <2>1, <3>1 DEF Fits, Keyed, Holding
  <2> QED BY <2>2, <2>3
<1>3. ASSUME NEW v \in Tasks, NEW w \in Tasks, v # w,
             task'[v].pc \in Holding, task'[w].pc \in Holding
      PROVE  task'[v].user # task'[w].user
  <2>1. CASE v # t /\ w # t
    BY <1>3, <2>1 DEF Exclusive, OneRun
  <2>2. CASE v = t
    BY <1>3, <2>2, Alone
  <2>3. CASE w = t
    BY <1>3, <2>3, Alone
  <2> QED BY <2>1, <2>2, <2>3
<1>4. OneRun'
  BY <1>3 DEF OneRun
<1>5. KeyFirst'
  BY <1>1 DEF Exclusive, KeyFirst
<1> QED BY <1>2, <1>4, <1>5 DEF Exclusive

\* Nor does a step that writes no row and drops no key.
LEMMA ReadFits ==
  ASSUME Exclusive, NEW t \in Tasks, \A w \in Tasks \ {t} : task'[w] = task[w],
         Fits(t)', UNCHANGED <<row, tokens>>,
         task'[t].pc \in Holding =>
           task[t].pc \in Holding /\ task'[t].user = task[t].user
  PROVE  Exclusive'
<1>1. ASSUME NEW w \in Tasks, w # t PROVE Fits(w)'
  BY <1>1 DEF Exclusive, Fits, row
<1>2. ASSUME NEW v \in Tasks, NEW w \in Tasks, v # w,
             task'[v].pc \in Holding, task'[w].pc \in Holding
      PROVE  task'[v].user # task'[w].user
  <2>1. task[v].pc \in Holding /\ task[w].pc \in Holding
    BY <1>2
  <2>2. task'[v].user = task[v].user /\ task'[w].user = task[w].user
    BY <1>2
  <2> QED BY <1>2, <2>1, <2>2 DEF Exclusive, OneRun
<1>3. OneRun'
  BY <1>2 DEF OneRun
<1>4. KeyFirst'
  BY DEF Exclusive, KeyFirst, row
<1> QED BY <1>1, <1>3, <1>4 DEF Exclusive

\* No step lets a second goroutine have a track or the lock, and a task between
\* its check and its write still finds the row as it was checked.
LEMMA ExclusiveStep ==
  ASSUME Events \cap {"lapse", "takeout", "upgrade"} = {}
  PROVE  Sound /\ Exclusive /\ StampsFit /\ [Next]_vars => Exclusive'
<1> SUFFICES ASSUME Sound, Exclusive, StampsFit, [Next]_vars PROVE Exclusive'
  OBVIOUS
<1>sound. TypeOK /\ MovesWait /\ ~Lapse /\ "takeout" \notin Events
  BY DEF Sound, Lapse
<1>fits. \A t \in Tasks : Fits(t)
  BY DEF Exclusive
<1>stutter. CASE UNCHANGED vars
  BY <1>stutter DEF Exclusive, Fits, OneRun, KeyFirst, vars
<1>AskImmich. ASSUME NEW t \in Tasks PROVE ~AskImmich(t)
  BY <1>fits DEF AskImmich, At, Fits, Elsewhere
<1>AskGoogle. ASSUME NEW t \in Tasks PROVE ~AskGoogle(t)
  BY <1>fits DEF AskGoogle, At, Fits, Elsewhere
<1>UnlessRunning. ASSUME NEW t \in Tasks, UnlessRunning(t) PROVE Exclusive'
  <2>1. \A w \in Tasks \ {t} : task'[w] = task[w]
    BY <1>UnlessRunning, <1>sound, Typed, Steps, Ends
      DEF UnlessRunning, PCs, Jobs
  <2>2. Fits(t)'
    BY <1>UnlessRunning, <1>sound, <1>fits, Typed, Steps, Ends, Keeps
      DEF UnlessRunning, At, Fits, Elsewhere, Keyed, Holding, PCs, Jobs,
          TypeOK
  <2> QED
    BY <1>UnlessRunning, <1>sound, <1>fits, Typed, <2>1, <2>2, Steps, Ends,
       ReadFits
      DEF UnlessRunning, At, Fits, Holding, Locked, Exclusive, KeyFirst, PCs,
          Jobs
<1>Move. ASSUME NEW t \in Tasks, Move(t) PROVE Exclusive'
  <2>d. task'[t].job # "download"
    BY <1>Move, <1>sound, <1>fits, Typed, Ends DEF Move, Fits, PCs, Jobs
  <2>1. /\ task[t].pc = "moving" /\ task'[t].pc = "idle"
        /\ \A w \in Tasks \ {t} : task'[w] = task[w]
        /\ SetPhotosState(task[t].user, task[t].job, FALSE) /\ UNCHANGED tokens
    BY <1>Move, <1>sound, Ends DEF Move, At
  <2>2. task[t].job \in PhotosStates /\ "immich" \in tokens[task[t].user]
    BY <1>sound, <1>fits, <2>1
      DEF MovesWait, Moves, Waiting, PhotosStates, Fits, Keyed
  <2>3. Fits(t)'
    BY <2>1, <2>d, IdleFits
  <2> QED
    BY <2>1, <2>2, <2>3, WriteFits DEF Holding, Locked
<1>ReconnectPhotos. ASSUME NEW t \in Tasks PROVE ~ReconnectPhotos(t)
  BY <1>fits DEF ReconnectPhotos, At, Fits, Elsewhere
<1>LaunchPhotosImport. ASSUME NEW t \in Tasks, LaunchPhotosImport(t) PROVE Exclusive'
  <2>1. \A w \in Tasks \ {t} : task'[w] = task[w]
    BY <1>LaunchPhotosImport, <1>sound, Typed, Steps, Ends
      DEF LaunchPhotosImport, PCs, Jobs
  <2>2. Fits(t)'
    BY <1>LaunchPhotosImport, <1>sound, <1>fits, Typed, Steps, Ends, Keeps
      DEF LaunchPhotosImport, At, Fits, Elsewhere, Keyed, Holding, PCs, Jobs,
          TypeOK
  <2> QED
    BY <1>LaunchPhotosImport, <1>sound, <1>fits, Typed, <2>1, <2>2, Steps,
       Ends, ReadFits
      DEF LaunchPhotosImport, At, Fits, Holding, Locked, Exclusive, KeyFirst,
          PCs, Jobs
<1>Recheck. ASSUME NEW t \in Tasks, Recheck(t) PROVE Exclusive'
  <2>d. task'[t].job # "download"
    BY <1>Recheck, <1>sound, <1>fits, Typed, Steps, Ends
      DEF Recheck, Fits, PCs, Jobs
  <2>1. /\ \A w \in Tasks \ {t} : task'[w] = task[w]
        /\ task[t].pc = "recheck" /\ UNCHANGED <<row, tokens>>
        /\ \/ task'[t].pc = "idle"
           \/ /\ task'[t].pc = "claiming" /\ task'[t].user = task[t].user
              /\ Check(task[t].user, task[t].job)
    BY <1>Recheck, <1>sound, Steps, Ends DEF Recheck, At, PCs
  <2>2. Fits(t)'
    BY <1>fits, <2>1, <2>d, IdleFits DEF Fits, Elsewhere, Keyed, Holding, row, Check
  <2> QED BY <2>1, <2>2, ReadFits DEF Holding
<1>Claim. ASSUME NEW t \in Tasks, Claim(t) PROVE Exclusive'
  <2>d. task'[t].job # "download"
    BY <1>Claim, <1>sound, <1>fits, Typed, Steps DEF Claim, Fits, PCs, Jobs
  <2>1. /\ task[t].pc = "claiming" /\ task'[t].pc = "queued" /\ task'[t].user = task[t].user
        /\ \A w \in Tasks \ {t} : task'[w] = task[w]
        /\ SetPhotosState(task[t].user, "importing", FALSE) /\ UNCHANGED tokens
    BY <1>Claim, <1>sound, Typed, Steps DEF Claim, At, PCs, Jobs
  <2>2. task[t].user \in Users /\ photos[task[t].user] # "not_started"
    BY <1>fits, <2>1 DEF Fits, Holding, Running
  <2>3. photos'[task[t].user] = "importing" /\ "immich" \in tokens[task[t].user]
    BY <1>sound, <2>1, <2>2, Wrote DEF Exclusive, KeyFirst
  <2>4. Fits(t)'
    BY <2>1, <2>2, <2>3, <2>d DEF Fits, Elsewhere, Keyed, Holding, Running
  <2> QED
    BY <2>1, <2>3, <2>4, WriteFits DEF Holding, Locked, PhotosStates
<1>AcceptPhotos. ASSUME NEW t \in Tasks, AcceptPhotos(t) PROVE Exclusive'
  <2>1. \A w \in Tasks \ {t} : task'[w] = task[w]
    BY <1>AcceptPhotos, <1>sound, Typed, Steps, Ends
      DEF AcceptPhotos, photosFinished, PCs, Jobs
  <2>2. Fits(t)'
    BY <1>AcceptPhotos, <1>sound, <1>fits, Typed, Steps, Ends, Writes
      DEF AcceptPhotos, At, Fits, Elsewhere, Keyed, Holding, photosFinished,
          PhotosStates, Running, Terminal, PCs, Jobs, TypeOK
  <2> QED
    BY <1>AcceptPhotos, <1>sound, <1>fits, Typed, <2>1, <2>2, Steps, Ends,
       WriteFits
      DEF AcceptPhotos, At, Fits, Holding, Locked, Exclusive, KeyFirst,
          photosFinished, PhotosStates, PCs, Jobs
<1>SetPhotosParts. ASSUME NEW t \in Tasks, SetPhotosParts(t) PROVE Exclusive'
  <2>1. \A w \in Tasks \ {t} : task'[w] = task[w]
    BY <1>SetPhotosParts, <1>sound, Typed, Steps, Ends
      DEF SetPhotosParts, PCs, Jobs
  <2>2. Fits(t)'
    BY <1>SetPhotosParts, <1>sound, <1>fits, Typed, Steps, Ends, Keeps
      DEF SetPhotosParts, At, Fits, Elsewhere, Keyed, Holding, PCs, Jobs,
          TypeOK
  <2> QED
    BY <1>SetPhotosParts, <1>sound, <1>fits, Typed, <2>1, <2>2, Steps, Ends,
       ReadFits
      DEF SetPhotosParts, At, Fits, Holding, Locked, Exclusive, KeyFirst, PCs,
          Jobs
<1>ClaimForImport. ASSUME NEW t \in Tasks, ClaimForImport(t) PROVE Exclusive'
  <2>1. \A w \in Tasks \ {t} : task'[w] = task[w]
    BY <1>ClaimForImport, <1>sound, Typed, Steps, Ends
      DEF ClaimForImport, PCs, Jobs
  <2>2. Fits(t)'
    BY <1>ClaimForImport, <1>sound, <1>fits, Typed, Steps, Ends, Keeps
      DEF ClaimForImport, At, Fits, Elsewhere, Keyed, Holding, PCs, Jobs,
          TypeOK
  <2> QED
    BY <1>ClaimForImport, <1>sound, <1>fits, Typed, <2>1, <2>2, Steps, Ends,
       ReadFits
      DEF ClaimForImport, At, Fits, Holding, Locked, Exclusive, KeyFirst, PCs,
          Jobs
<1>ClaimUpload. ASSUME NEW t \in Tasks, ClaimUpload(t) PROVE Exclusive'
  <2>d. task'[t].job # "download"
    BY <1>ClaimUpload, <1>sound, <1>fits, Typed, Becomes
      DEF ClaimUpload, Fits, PCs, Jobs
  <2>1. /\ task[t].pc = "upClaiming" /\ task'[t].pc = "upLaunch" /\ task'[t].user = task[t].user
        /\ \A w \in Tasks \ {t} : task'[w] = task[w]
        /\ SetPhotosState(task[t].user, "importing", FALSE) /\ UNCHANGED tokens
    <3>1. task[t].user \in Users \cup {NoUser} /\ "upLaunch" \in PCs /\ "import" \in Jobs
      BY <1>sound, Typed DEF PCs, Jobs
    <3>2. Become(t, "upLaunch", task[t].user, "import")
      BY <1>ClaimUpload DEF ClaimUpload
    <3>3. /\ task'[t].pc = "upLaunch" /\ task'[t].user = task[t].user
          /\ \A w \in Tasks \ {t} : task'[w] = task[w]
      BY <1>sound, <3>1, <3>2, Becomes
    <3> QED BY <1>ClaimUpload, <3>3 DEF ClaimUpload, At
  <2>2. task[t].user \in Users /\ photos[task[t].user] # "not_started"
    BY <1>fits, <2>1 DEF Fits, Holding, Running
  <2>3. photos'[task[t].user] = "importing" /\ "immich" \in tokens[task[t].user]
    BY <1>sound, <2>1, <2>2, Wrote DEF Exclusive, KeyFirst
  <2>4. Fits(t)'
    BY <2>1, <2>2, <2>3, <2>d DEF Fits, Elsewhere, Keyed, Holding, Running
  <2> QED
    BY <2>1, <2>3, <2>4, WriteFits DEF Holding, Locked, PhotosStates
<1>StartUploadedImport. ASSUME NEW t \in Tasks, StartUploadedImport(t) PROVE Exclusive'
  <2>d. task'[t].job # "download"
    BY <1>StartUploadedImport, <1>sound, <1>fits, Typed, Steps, Ends
      DEF StartUploadedImport, Fits, failPhotos, PCs, Jobs
  <2>1. /\ \A w \in Tasks \ {t} : task'[w] = task[w]
        /\ task[t].pc \in Holding
        /\ \/ /\ task'[t].pc = "idle" /\ UNCHANGED tokens
              /\ \E s \in PhotosStates, lo \in BOOLEAN :
                   SetPhotosState(task[t].user, s, lo)
           \/ /\ task'[t].pc = "queued" /\ task'[t].user = task[t].user
              /\ UNCHANGED <<row, tokens>>
    BY <1>StartUploadedImport, <1>sound, Typed, Steps, Ends
      DEF StartUploadedImport, At, failPhotos, PhotosStates, Holding, PCs, Jobs
  <2>2. task[t].user \in Users /\ "immich" \in tokens[task[t].user]
    BY <1>fits, <2>1 DEF Fits, Holding, Exclusive, KeyFirst, Running
  <2>3. CASE UNCHANGED <<row, tokens>> /\ task'[t].pc = "queued" /\ task'[t].user = task[t].user
    <3>1. Fits(t)'
      BY <1>fits, <2>1, <2>2, <2>3, <2>d DEF Fits, Elsewhere, Keyed, Holding, row
    <3> QED BY <2>1, <2>3, <3>1, ReadFits
  <2>4. CASE task'[t].pc = "idle" /\ UNCHANGED tokens /\ ~UNCHANGED <<row, tokens>>
    <3>1. PICK s \in PhotosStates, lo \in BOOLEAN : SetPhotosState(task[t].user, s, lo)
      BY <2>1, <2>4
    <3>2. Fits(t)'
      BY <2>4, <2>d, IdleFits
    <3> QED BY <2>1, <2>2, <2>4, <3>1, <3>2, WriteFits DEF Holding
  <2>5. CASE task'[t].pc = "idle" /\ UNCHANGED <<row, tokens>>
    <3>1. Fits(t)'
      BY <2>5, <2>d, IdleFits
    <3> QED BY <2>1, <2>5, <3>1, ReadFits DEF Holding
  <2> QED BY <2>1, <2>3, <2>4, <2>5
<1>ReconnectUpload. ASSUME NEW t \in Tasks PROVE ~ReconnectUpload(t)
  BY <1>fits DEF ReconnectUpload, At, Fits, Elsewhere
<1>CheckTakeout. ASSUME NEW t \in Tasks PROVE ~CheckTakeout(t)
  BY <1>fits DEF CheckTakeout, At, Fits, Elsewhere
<1>Acquire. ASSUME NEW t \in Tasks, Acquire(t) PROVE Exclusive'
  <2>d. task'[t].job # "download"
    BY <1>Acquire, <1>sound, <1>fits, Typed, Steps
      DEF Acquire, Fits, PCs, Jobs
  <2>1. /\ \A w \in Tasks \ {t} : task'[w] = task[w]
        /\ task[t].pc = "queued" /\ UNCHANGED <<row, tokens>>
        /\ task'[t].pc \in {"begin", "prepare", "download"}
        /\ task'[t].user = task[t].user
        /\ task'[t].pc = "download" => task[t].job = "download"
    BY <1>Acquire, <1>sound, Steps DEF Acquire, At, PCs
  <2>2. task[t].job # "download"
    BY <1>fits DEF Fits
  <2>3. Fits(t)'
    BY <1>fits, <2>1, <2>2, <2>d DEF Fits, Elsewhere, Keyed, Holding, row
  <2> QED BY <2>1, <2>3, ReadFits DEF Holding
<1>RunTakeoutDownload. ASSUME NEW t \in Tasks PROVE ~RunTakeoutDownload(t)
  BY <1>fits DEF RunTakeoutDownload, At, Fits, Elsewhere
<1>BeginImport. ASSUME NEW t \in Tasks, BeginImport(t) PROVE Exclusive'
  <2>d. task'[t].job # "download"
    BY <1>BeginImport, <1>sound, <1>fits, Typed, Steps
      DEF BeginImport, Fits, PCs, Jobs
  <2>1. /\ task[t].pc = "begin" /\ task'[t].pc = "validate" /\ task'[t].user = task[t].user
        /\ \A w \in Tasks \ {t} : task'[w] = task[w]
        /\ SetPhotosState(task[t].user, "importing", FALSE) /\ UNCHANGED tokens
    BY <1>BeginImport, <1>sound, Typed, Steps DEF BeginImport, At, PCs, Jobs
  <2>2. task[t].user \in Users /\ photos[task[t].user] # "not_started"
    BY <1>fits, <2>1 DEF Fits, Holding, Running
  <2>3. photos'[task[t].user] = "importing" /\ "immich" \in tokens[task[t].user]
    BY <1>sound, <2>1, <2>2, Wrote DEF Exclusive, KeyFirst
  <2>4. Fits(t)'
    BY <2>1, <2>2, <2>3, <2>d DEF Fits, Elsewhere, Keyed, Holding, Running
  <2> QED
    BY <2>1, <2>3, <2>4, WriteFits DEF Holding, Locked, PhotosStates
<1>ValidateArchives. ASSUME NEW t \in Tasks, ValidateArchives(t) PROVE Exclusive'
  <2>d. task'[t].job # "download"
    BY <1>ValidateArchives, <1>sound, <1>fits, Typed, Steps, Ends
      DEF ValidateArchives, Fits, Stop, failPhotos, PCs, Jobs
  <2>1. /\ \A w \in Tasks \ {t} : task'[w] = task[w]
        /\ task[t].pc \in Holding
        /\ \/ /\ task'[t].pc = "idle" /\ UNCHANGED tokens
              /\ \E s \in PhotosStates, lo \in BOOLEAN :
                   SetPhotosState(task[t].user, s, lo)
           \/ /\ task'[t].pc = "immichgo" /\ task'[t].user = task[t].user
              /\ UNCHANGED <<row, tokens>>
    BY <1>ValidateArchives, <1>sound, Typed, Steps, Ends
      DEF ValidateArchives, At, Stop, failPhotos, PhotosStates, Holding, PCs, Jobs
  <2>2. task[t].user \in Users /\ "immich" \in tokens[task[t].user]
    BY <1>fits, <2>1 DEF Fits, Holding, Exclusive, KeyFirst, Running
  <2>3. CASE UNCHANGED <<row, tokens>> /\ task'[t].pc = "immichgo" /\ task'[t].user = task[t].user
    <3>1. Fits(t)'
      BY <1>fits, <2>1, <2>2, <2>3, <2>d DEF Fits, Elsewhere, Keyed, Holding, row
    <3> QED BY <2>1, <2>3, <3>1, ReadFits
  <2>4. CASE task'[t].pc = "idle" /\ UNCHANGED tokens /\ ~UNCHANGED <<row, tokens>>
    <3>1. PICK s \in PhotosStates, lo \in BOOLEAN : SetPhotosState(task[t].user, s, lo)
      BY <2>1, <2>4
    <3>2. Fits(t)'
      BY <2>4, <2>d, IdleFits
    <3> QED BY <2>1, <2>2, <2>4, <3>1, <3>2, WriteFits DEF Holding
  <2>5. CASE task'[t].pc = "idle" /\ UNCHANGED <<row, tokens>>
    <3>1. Fits(t)'
      BY <2>5, <2>d, IdleFits
    <3> QED BY <2>1, <2>5, <3>1, ReadFits DEF Holding
  <2> QED BY <2>1, <2>3, <2>4, <2>5
<1>RunProblemsRetry. ASSUME NEW t \in Tasks, RunProblemsRetry(t) PROVE Exclusive'
  <2>d. task'[t].job # "download"
    BY <1>RunProblemsRetry, <1>sound, <1>fits, Typed, Steps, Ends
      DEF RunProblemsRetry, Fits, Stop, failPhotos, PCs, Jobs
  <2>1. /\ \A w \in Tasks \ {t} : task'[w] = task[w]
        /\ task[t].pc \in Holding
        /\ \/ /\ task'[t].pc = "idle" /\ UNCHANGED tokens
              /\ \E s \in PhotosStates, lo \in BOOLEAN :
                   SetPhotosState(task[t].user, s, lo)
           \/ /\ task'[t].pc = "immichgo" /\ task'[t].user = task[t].user
              /\ UNCHANGED <<row, tokens>>
    BY <1>RunProblemsRetry, <1>sound, Typed, Steps, Ends
      DEF RunProblemsRetry, At, Stop, failPhotos, PhotosStates, Holding, PCs, Jobs
  <2>2. task[t].user \in Users /\ "immich" \in tokens[task[t].user]
    BY <1>fits, <2>1 DEF Fits, Holding, Exclusive, KeyFirst, Running
  <2>3. CASE UNCHANGED <<row, tokens>> /\ task'[t].pc = "immichgo" /\ task'[t].user = task[t].user
    <3>1. Fits(t)'
      BY <1>fits, <2>1, <2>2, <2>3, <2>d DEF Fits, Elsewhere, Keyed, Holding, row
    <3> QED BY <2>1, <2>3, <3>1, ReadFits
  <2>4. CASE task'[t].pc = "idle" /\ UNCHANGED tokens /\ ~UNCHANGED <<row, tokens>>
    <3>1. PICK s \in PhotosStates, lo \in BOOLEAN : SetPhotosState(task[t].user, s, lo)
      BY <2>1, <2>4
    <3>2. Fits(t)'
      BY <2>4, <2>d, IdleFits
    <3> QED BY <2>1, <2>2, <2>4, <3>1, <3>2, WriteFits DEF Holding
  <2>5. CASE task'[t].pc = "idle" /\ UNCHANGED <<row, tokens>>
    <3>1. Fits(t)'
      BY <2>5, <2>d, IdleFits
    <3> QED BY <2>1, <2>5, <3>1, ReadFits DEF Holding
  <2> QED BY <2>1, <2>3, <2>4, <2>5
<1>ImportWithImmichGo. ASSUME NEW t \in Tasks, ImportWithImmichGo(t) PROVE Exclusive'
  <2>d. task'[t].job # "download"
    BY <1>ImportWithImmichGo, <1>sound, <1>fits, Typed, Steps, Ends
      DEF ImportWithImmichGo, Fits, Stop, failPhotos, photosFinished, PCs,
          Jobs
  <2>1. /\ \A w \in Tasks \ {t} : task'[w] = task[w]
        /\ task[t].pc = "immichgo" /\ task'[t].pc = "idle" /\ UNCHANGED tokens
        /\ \E s \in PhotosStates, lo \in BOOLEAN :
             SetPhotosState(task[t].user, s, lo)
    BY <1>ImportWithImmichGo, <1>sound, Ends
      DEF ImportWithImmichGo, At, Stop, failPhotos, photosFinished, PhotosStates
  <2>2. "immich" \in tokens[task[t].user]
    BY <1>fits, <2>1 DEF Fits, Holding, Exclusive, KeyFirst, Running
  <2>3. PICK s \in PhotosStates, lo \in BOOLEAN : SetPhotosState(task[t].user, s, lo)
    BY <2>1
  <2>4. Fits(t)'
    BY <2>1, <2>d, IdleFits
  <2> QED BY <2>1, <2>2, <2>3, <2>4, WriteFits DEF Holding
<1>ReconnectRun. ASSUME NEW t \in Tasks PROVE ~ReconnectRun(t)
  BY <1>fits DEF ReconnectRun, At, Fits, Elsewhere
<1>ReleaseFinished. ASSUME NEW t \in Tasks PROVE ~ReleaseFinished(t)
  BY <1>fits DEF ReleaseFinished, At, Fits, Elsewhere
<1>Forget. ASSUME NEW t \in Tasks PROVE ~Forget(t)
  BY <1>fits DEF Forget, At, Fits, Elsewhere
<1>ForgetAll. ASSUME NEW t \in Tasks PROVE ~ForgetAll(t)
  BY <1>fits DEF ForgetAll, At, Fits, Elsewhere
<1>StampFinished. ASSUME NEW t \in Tasks PROVE ~StampFinished(t)
  BY <1>fits DEF StampFinished, At, Fits, Elsewhere
<1>StillExpired. ASSUME NEW t \in Tasks, StillExpired(t) PROVE Exclusive'
  <2>d. task'[t].job # "download"
    BY <1>StillExpired, <1>sound, <1>fits, Typed, Steps, Ends
      DEF StillExpired, Fits, PCs, Jobs
  <2>1. /\ \A w \in Tasks \ {t} : task'[w] = task[w]
        /\ task[t].pc = "purge" /\ UNCHANGED <<row, tokens>>
        /\ \/ task'[t].pc = "idle"
           \/ /\ task'[t].pc = "purging" /\ task'[t].user = task[t].user
              /\ photos[task[t].user] \in Terminal /\ finished[task[t].user] = "expired"
    BY <1>StillExpired, <1>sound, Steps, Ends DEF StillExpired, At, PCs
  <2>2. Fits(t)'
    BY <1>fits, <2>1, <2>d, IdleFits DEF Fits, Elsewhere, Keyed, Holding, row, Check
  <2> QED BY <2>1, <2>2, ReadFits DEF Holding
<1>PurgeUser. ASSUME NEW t \in Tasks, PurgeUser(t) PROVE Exclusive'
  <2>1. \A w \in Tasks \ {t} : task'[w] = task[w]
    BY <1>PurgeUser, <1>sound, Typed, Ends DEF PurgeUser, PCs, Jobs
  <2>2. Fits(t)'
    BY <1>PurgeUser, <1>sound, <1>fits, Typed, Ends, Keeps
      DEF PurgeUser, At, Fits, Elsewhere, Keyed, Holding, PCs, Jobs, TypeOK
  <2> QED
    BY <1>PurgeUser, <1>sound, <1>fits, Typed, <2>1, <2>2, Ends, ReadFits
      DEF PurgeUser, At, Fits, Holding, Locked, Exclusive, KeyFirst, PCs, Jobs
<1>Abandon. ASSUME NEW t \in Tasks, Abandon(t) PROVE Exclusive'
  <2>d. task'[t].job # "download"
    BY <1>Abandon, <1>sound, <1>fits, Typed, Ends DEF Abandon, Fits, PCs, Jobs
  <2>1. /\ task[t].pc \in InRequest /\ task'[t].pc = "idle" /\ UNCHANGED tokens
        /\ \A w \in Tasks \ {t} : task'[w] = task[w]
        /\ \/ UNCHANGED row
           \/ /\ task[t].pc \in {"moving", "claiming", "upClaiming", "accepting"}
              /\ SetPhotosState(task[t].user, Target(t), FALSE)
    BY <1>Abandon, <1>sound, Ends DEF Abandon
  <2>2. Fits(t)'
    BY <2>1, <2>d, IdleFits
  <2>3. CASE UNCHANGED row
    BY <2>1, <2>2, <2>3, ReadFits DEF Holding
  <2>4. CASE /\ task[t].pc \in {"moving", "claiming", "upClaiming", "accepting"}
             /\ SetPhotosState(task[t].user, Target(t), FALSE)
    <3>1. Target(t) \in PhotosStates
      BY <1>sound, <2>4 DEF Target, At, MovesWait, Moves, Waiting, PhotosStates
    <3>2. "immich" \in tokens[task[t].user]
      BY <1>fits, <2>4 DEF Fits, Keyed, Exclusive, KeyFirst
    <3> QED
      BY <2>1, <2>2, <2>4, <3>1, <3>2, WriteFits DEF Holding, Locked
  <2> QED BY <2>1, <2>3, <2>4
<1>Overrun. ASSUME NEW t \in Tasks, Overrun(t) PROVE Exclusive'
  <2>1. /\ task'[t].pc = "idle" /\ task'[t].job # "download"
        /\ UNCHANGED <<row, tokens>> /\ \A w \in Tasks \ {t} : task'[w] = task[w]
    BY <1>Overrun, <1>sound, <1>fits, Typed, Ends DEF Overrun, Fits, PCs, Jobs
  <2> QED BY <2>1, IdleFits, ReadFits DEF Holding
<1>BeginPhotosUpload. ASSUME NEW t \in Tasks, NEW u \in Users, BeginPhotosUpload(t, u) PROVE Exclusive'
  <2>1. \A w \in Tasks \ {t} : task'[w] = task[w]
    BY <1>BeginPhotosUpload, <1>sound, Typed, Becomes
      DEF BeginPhotosUpload, PCs, Jobs
  <2>2. Fits(t)'
    BY <1>BeginPhotosUpload, <1>sound, <1>fits, Typed, Becomes, Keeps
      DEF BeginPhotosUpload, At, Fits, Elsewhere, Keyed, Holding, PCs, Jobs,
          TypeOK
  <2> QED
    BY <1>BeginPhotosUpload, <1>sound, <1>fits, Typed, <2>1, <2>2, Becomes,
       ReadFits
      DEF BeginPhotosUpload, At, Fits, Holding, Locked, Exclusive, KeyFirst,
          PCs, Jobs
<1>StartPhotosTakeout. ASSUME NEW t \in Tasks, NEW u \in Users PROVE ~StartPhotosTakeout(t, u)
  BY <1>sound DEF StartPhotosTakeout
<1>LaunchFromWizard. ASSUME NEW t \in Tasks, NEW u \in Users,
                            NEW j \in {"import", "problems"}, LaunchFromWizard(t, u, j) PROVE Exclusive'
  <2>j. j \in Jobs
    BY DEF Jobs
  <2>d. task'[t].job # "download"
    BY <1>LaunchFromWizard, <1>sound, <1>fits, Typed, <2>j, Becomes
      DEF LaunchFromWizard, Fits, PCs, Jobs
  <2>1. /\ \A w \in Tasks \ {t} : task'[w] = task[w]
        /\ UNCHANGED <<row, tokens>>
        /\ task'[t].pc = "launch" /\ task'[t].user = u /\ Check(u, j)
    BY <1>LaunchFromWizard, <1>sound, <2>j, Becomes DEF LaunchFromWizard, At, PCs, Jobs
  <2>2. Fits(t)'
    BY <1>fits, <2>1, <2>d DEF Fits, Elsewhere, Keyed, Holding, row, Check, Exclusive, KeyFirst
  <2> QED BY <2>1, <2>2, ReadFits DEF Holding
<1>Settle. ASSUME NEW t \in Tasks, NEW u \in Users, Settle(t, u) PROVE Exclusive'
  <2>d. task'[t].job # "download"
    BY <1>Settle, <1>sound, <1>fits, Typed, Becomes
      DEF Settle, Fits, PCs, Jobs
  <2>1. /\ \A w \in Tasks \ {t} : task'[w] = task[w]
        /\ UNCHANGED <<row, tokens>>
        /\ task'[t].pc = "accepting" /\ task'[t].user = u /\ Check(u, "problems")
    BY <1>Settle, <1>sound, Becomes DEF Settle, At, PCs, Jobs
  <2>2. Fits(t)'
    BY <1>fits, <2>1, <2>d DEF Fits, Elsewhere, Keyed, Holding, row, Check, Exclusive, KeyFirst
  <2> QED BY <2>1, <2>2, ReadFits DEF Holding
<1>DeclarePhotosParts. ASSUME NEW t \in Tasks, NEW u \in Users, DeclarePhotosParts(t, u) PROVE Exclusive'
  <2>1. \A w \in Tasks \ {t} : task'[w] = task[w]
    BY <1>DeclarePhotosParts, <1>sound, Typed, Becomes
      DEF DeclarePhotosParts, PCs, Jobs
  <2>2. Fits(t)'
    BY <1>DeclarePhotosParts, <1>sound, <1>fits, Typed, Becomes, Keeps
      DEF DeclarePhotosParts, At, Fits, Elsewhere, Keyed, Holding, PCs, Jobs,
          TypeOK
  <2> QED
    BY <1>DeclarePhotosParts, <1>sound, <1>fits, Typed, <2>1, <2>2, Becomes,
       ReadFits
      DEF DeclarePhotosParts, At, Fits, Holding, Locked, Exclusive, KeyFirst,
          PCs, Jobs
<1>SetAutoImport. ASSUME NEW t \in Tasks, NEW u \in Users, SetAutoImport(t, u) PROVE Exclusive'
  <2>1. \A w \in Tasks \ {t} : task'[w] = task[w]
    BY <1>SetAutoImport, <1>sound, Typed, Becomes
      DEF SetAutoImport, PCs, Jobs, TypeOK
  <2>2. Fits(t)'
    BY <1>SetAutoImport, <1>sound, <1>fits, Typed, Becomes, Keeps
      DEF SetAutoImport, At, Fits, Elsewhere, Keyed, Holding, PCs, Jobs,
          TypeOK
  <2> QED
    BY <1>SetAutoImport, <1>sound, <1>fits, Typed, <2>1, <2>2, Becomes,
       ReadFits
      DEF SetAutoImport, At, Fits, Holding, Locked, Exclusive, KeyFirst, PCs,
          Jobs
<1>AutoImportIfEnabled. ASSUME NEW t \in Tasks, NEW u \in Users, AutoImportIfEnabled(t, u) PROVE Exclusive'
  <2>1. \A w \in Tasks \ {t} : task'[w] = task[w]
    BY <1>AutoImportIfEnabled, <1>sound, Typed, Becomes
      DEF AutoImportIfEnabled, PCs, Jobs
  <2>2. Fits(t)'
    BY <1>AutoImportIfEnabled, <1>sound, <1>fits, Typed, Becomes, Keeps
      DEF AutoImportIfEnabled, At, Fits, Elsewhere, Keyed, Holding, PCs, Jobs,
          TypeOK
  <2> QED
    BY <1>AutoImportIfEnabled, <1>sound, <1>fits, Typed, <2>1, <2>2, Becomes,
       ReadFits
      DEF AutoImportIfEnabled, At, Fits, Holding, Locked, Exclusive, KeyFirst,
          PCs, Jobs
<1>StartImportIfComplete. ASSUME NEW t \in Tasks, NEW u \in Users, StartImportIfComplete(t, u) PROVE Exclusive'
  <2>1. \A w \in Tasks \ {t} : task'[w] = task[w]
    BY <1>StartImportIfComplete, <1>sound, Typed, Becomes
      DEF StartImportIfComplete, PCs, Jobs
  <2>2. Fits(t)'
    BY <1>StartImportIfComplete, <1>sound, <1>fits, Typed, Becomes, Keeps
      DEF StartImportIfComplete, At, Fits, Elsewhere, Keyed, Holding, PCs,
          Jobs, TypeOK
  <2> QED
    BY <1>StartImportIfComplete, <1>sound, <1>fits, Typed, <2>1, <2>2,
       Becomes, ReadFits
      DEF StartImportIfComplete, At, Fits, Holding, Locked, Exclusive,
          KeyFirst, PCs, Jobs
<1>PollTakeout. ASSUME NEW t \in Tasks, NEW u \in Users PROVE ~PollTakeout(t, u)
  BY <1>sound DEF PollTakeout
<1>SweepIdle. ASSUME NEW t \in Tasks, NEW u \in Users PROVE ~SweepIdle(t, u)
  BY <1>sound DEF SweepIdle
<1>PurgeStaging. ASSUME NEW t \in Tasks, NEW u \in Users, PurgeStaging(t, u) PROVE Exclusive'
  <2>d. task'[t].job # "download"
    BY <1>PurgeStaging, <1>sound, <1>fits, Typed, Becomes
      DEF PurgeStaging, Fits, PCs, Jobs
  <2>1. /\ \A w \in Tasks \ {t} : task'[w] = task[w]
        /\ UNCHANGED <<row, tokens>>
        /\ task'[t].pc = "purge" /\ task'[t].user = u
    BY <1>PurgeStaging, <1>sound, Becomes DEF PurgeStaging, At, PCs, Jobs, StampsFit
  <2>2. Fits(t)'
    BY <1>fits, <2>1, <2>d DEF Fits, Elsewhere, Keyed, Holding, row
  <2> QED BY <2>1, <2>2, ReadFits DEF Holding
<1>PartLands. ASSUME NEW u \in Users, PartLands(u) PROVE Exclusive'
  BY <1>PartLands DEF PartLands, Exclusive, Fits, OneRun, KeyFirst, row
<1>Connect. ASSUME NEW u \in Users, Connect(u) PROVE Exclusive'
  <2>1. /\ task' = task /\ photos' = photos /\ finished' = finished
        /\ \A v \in Users : "immich" \in tokens[v] => "immich" \in tokens'[v]
    BY <1>Connect, <1>sound DEF Connect, row, TypeOK
  <2>2. ASSUME NEW t \in Tasks PROVE Fits(t)'
    BY <2>1, <1>fits DEF Fits, Keyed
  <2> QED BY <2>1, <2>2 DEF Exclusive, OneRun, KeyFirst
<1>RetentionPasses. ASSUME NEW u \in Users, RetentionPasses(u) PROVE Exclusive'
  <2>1. /\ task' = task /\ photos' = photos /\ tokens' = tokens
        /\ \A v \in Users \ {u} : finished'[v] = finished[v]
        /\ \A t \in Tasks : task[t].user # u
    BY <1>RetentionPasses, <1>sound DEF RetentionPasses, TypeOK
  <2>2. ASSUME NEW t \in Tasks PROVE Fits(t)'
    BY <2>1, <1>fits DEF Fits
  <2> QED BY <2>1, <2>2 DEF Exclusive, OneRun, KeyFirst
<1>Restart. CASE Restart
  <2>1. /\ \A t \in Tasks : task'[t].pc = "idle" /\ task'[t].job = "none"
        /\ tokens' = tokens
        /\ \A v \in Users : photos'[v] # "not_started" => photos[v] # "not_started"
    BY <1>Restart DEF Restart, Idle
  <2>2. ASSUME NEW t \in Tasks PROVE Fits(t)'
    BY <2>1, IdleFits
  <2> QED BY <2>1, <2>2 DEF Exclusive, OneRun, KeyFirst, Holding
<1> QED
  BY <1>stutter, <1>AskImmich, <1>AskGoogle, <1>UnlessRunning, <1>Move,
     <1>ReconnectPhotos, <1>LaunchPhotosImport, <1>Recheck, <1>Claim,
     <1>AcceptPhotos, <1>SetPhotosParts, <1>ClaimForImport, <1>ClaimUpload,
     <1>StartUploadedImport, <1>ReconnectUpload, <1>CheckTakeout, <1>Acquire,
     <1>RunTakeoutDownload, <1>BeginImport, <1>ValidateArchives,
     <1>RunProblemsRetry, <1>ImportWithImmichGo, <1>ReconnectRun,
     <1>ReleaseFinished, <1>Forget, <1>ForgetAll, <1>StampFinished,
     <1>StillExpired, <1>PurgeUser, <1>Abandon, <1>Overrun, <1>BeginPhotosUpload,
     <1>StartPhotosTakeout, <1>LaunchFromWizard, <1>Settle,
     <1>DeclarePhotosParts, <1>SetAutoImport, <1>AutoImportIfEnabled,
     <1>StartImportIfComplete, <1>PollTakeout, <1>SweepIdle, <1>PurgeStaging,
     <1>PartLands, <1>Connect, <1>RetentionPasses, <1>Restart
    DEF Next, Continue, Start

\* Nothing in this theorem's Events lets a second goroutine at a person's track:
\* the check and the move to importing under Runner.claim are enough for any
\* number of tabs, uploads and sweeps at once.
THEOREM OneRunEach ==
  ASSUME Events \cap {"lapse", "takeout", "upgrade"} = {}
  PROVE  Spec => []OneRun
<1>1. Init => Exclusive /\ StampsFit
  BY DEF Init, Exclusive, Fits, OneRun, KeyFirst, Elsewhere, Keyed, Holding, Idle,
         StampsFit, Terminal
<1>2. Exclusive => OneRun
  BY DEF Exclusive
<1> QED BY <1>1, <1>2, SoundInit, SoundStep, StampsFitStep, ExclusiveStep, PTL DEF Spec

\* Archives leave a person's directory by the removal of the staging sweep alone.
LEMMA OnlyPurges ==
  ASSUME TypeOK, Next, NEW u \in Users, ~(staged[u] \subseteq staged'[u])
  PROVE  \E t \in Tasks : PurgeUser(t) /\ task[t].user = u
<1>1. ASSUME NEW t \in Tasks, Continue(t), ~PurgeUser(t) PROVE FALSE
  <2>1. CASE RunTakeoutDownload(t)
    BY <2>1 DEF RunTakeoutDownload, TypeOK
  <2>2. CASE ~RunTakeoutDownload(t)
    <3>1. staged' = staged
      BY <1>1, <2>2
        DEF Continue, AskImmich, AskGoogle, UnlessRunning, Move,
            ReconnectPhotos, LaunchPhotosImport, Recheck, Claim,
            AcceptPhotos, SetPhotosParts, ClaimForImport, ClaimUpload,
            StartUploadedImport, ReconnectUpload, CheckTakeout, Acquire,
            BeginImport, ValidateArchives, RunProblemsRetry,
            ImportWithImmichGo, ReconnectRun, ReleaseFinished, Forget,
            ForgetAll, StampFinished, StillExpired
    <3> QED BY <3>1
  <2> QED BY <2>1, <2>2
<1>2. ASSUME NEW t \in Tasks, NEW v \in Users, Start(t, v) PROVE staged' = staged
  BY <1>2
    DEF Start, BeginPhotosUpload, StartPhotosTakeout, LaunchFromWizard,
        Settle, DeclarePhotosParts, SetAutoImport, AutoImportIfEnabled,
        StartImportIfComplete, PollTakeout, SweepIdle, PurgeStaging
<1>3. ASSUME NEW v \in Users, PartLands(v) PROVE staged[u] \subseteq staged'[u]
  BY <1>3 DEF PartLands, TypeOK
<1>4. ASSUME NEW v \in Users, Connect(v) \/ RetentionPasses(v) PROVE staged' = staged
  BY <1>4 DEF Connect, RetentionPasses
<1>5. ASSUME NEW t \in Tasks, Abandon(t) \/ Overrun(t) PROVE staged' = staged
  BY <1>5 DEF Abandon, Overrun
<1>6. ASSUME Restart PROVE staged' = staged
  BY <1>6 DEF Restart
<1>7. PICK t \in Tasks : PurgeUser(t)
  BY <1>1, <1>2, <1>3, <1>4, <1>5, <1>6 DEF Next
<1> QED BY <1>7 DEF PurgeUser, TypeOK

\* And then archives go only with a track that is ended and expired at that
\* moment, however long ago the sweep listed it.
THEOREM PurgeWaits ==
  ASSUME Events \cap {"lapse", "takeout", "upgrade"} = {}
  PROVE  Spec => PurgedOnlyAfterRetention
<1>1. Init => Exclusive /\ StampsFit
  BY DEF Init, Exclusive, Fits, OneRun, KeyFirst, Elsewhere, Keyed, Holding, Idle,
         StampsFit, Terminal
<1> DEFINE Purged(u) == ~(staged[u] \subseteq staged'[u])
           Ended(u) == photos[u] \in Terminal /\ finished[u] = "expired"
<1>2. Sound /\ Exclusive /\ [Next]_vars => [\A u \in Users : Purged(u) => Ended(u)]_vars
  <2> SUFFICES ASSUME Sound, Exclusive, Next, NEW u \in Users, Purged(u)
               PROVE  Ended(u)
    OBVIOUS
  <2>1. TypeOK /\ \A t \in Tasks : Fits(t)
    BY DEF Sound, Exclusive
  <2>2. PICK t \in Tasks : PurgeUser(t) /\ task[t].user = u
    BY <2>1, OnlyPurges
  <2> QED BY <2>1, <2>2 DEF PurgeUser, At, Fits
<1> QED
  BY <1>1, <1>2, SoundInit, SoundStep, StampsFitStep, ExclusiveStep, PTL
    DEF Spec, PurgedOnlyAfterRetention

----------------------------------------------------------------------------
(* The purge and the work of others *)

\* Where a task may write a running state without asking for the lock.
Busy == Holding \cup {"look"}

\* Nobody is at work on a track whose retention has passed, nor while its
\* archives are being removed: that one ended, or was sent back to its start.
Spared ==
  \A u \in Users :
    /\ finished[u] = "expired" =>
         \A w \in Tasks : ~(task[w].user = u /\ task[w].pc \in Busy)
    /\ \A t \in Tasks : task[t].user = u /\ task[t].pc = "purging" =>
         /\ photos[u] \in Terminal \cup {"not_started"}
         /\ \A w \in Tasks : ~(task[w].user = u /\ task[w].pc \in Busy)

\* A step that writes no row and starts no work and no removal disturbs neither.
LEMMA SparedKeep ==
  ASSUME Spared, NEW t \in Tasks, UNCHANGED row,
         \A w \in Tasks \ {t} : task'[w] = task[w], task'[t].pc # "purging",
         task'[t].pc \in Busy => task[t].pc \in Busy /\ task'[t].user = task[t].user
  PROVE  Spared'
  BY DEF Spared, row

\* A write neither, by a task that works on the track or has the lock, or one
\* that ends the track or sends it back; what it goes on with is a run.
LEMMA SparedWrite ==
  ASSUME TypeOK, LockHeld, Spared, NEW t \in Tasks,
         \A w \in Tasks \ {t} : task'[w] = task[w],
         task[t].pc # "purging", task'[t].pc # "purging",
         NEW s \in PhotosStates, NEW lo \in BOOLEAN,
         SetPhotosState(task[t].user, s, lo),
         task[t].pc \in Busy \cup Locked \/ s \in Terminal \cup {"not_started"},
         task'[t].pc \in Busy => /\ task'[t].user = task[t].user
                                 /\ task[t].pc \in Busy \cup Locked
                                 /\ s \in Running \/ task[t].pc \in Busy
  PROVE  Spared'
<1> SUFFICES ASSUME NEW u \in Users
             PROVE  /\ finished'[u] = "expired" =>
                         \A w \in Tasks : ~(task'[w].user = u /\ task'[w].pc \in Busy)
                    /\ \A p \in Tasks : task'[p].user = u /\ task'[p].pc = "purging" =>
                         /\ photos'[u] \in Terminal \cup {"not_started"}
                         /\ \A w \in Tasks : ~(task'[w].user = u /\ task'[w].pc \in Busy)
  BY DEF Spared
<1>1. /\ photos'[u] = IF u = task[t].user THEN s ELSE photos[u]
      /\ finished'[u] = "expired" =>
           finished[u] = "expired" /\ (u = task[t].user => s \in Terminal)
  BY DEF SetPhotosState, TypeOK
<1>2. Running \cap Terminal = {}
  BY DEF Running, Terminal
<1>3. ASSUME finished'[u] = "expired", NEW w \in Tasks,
             task'[w].user = u, task'[w].pc \in Busy
      PROVE  FALSE
  BY <1>1, <1>2, <1>3 DEF Spared
<1>4. ASSUME NEW p \in Tasks, task'[p].user = u, task'[p].pc = "purging"
      PROVE  /\ photos'[u] \in Terminal \cup {"not_started"}
             /\ \A w \in Tasks : ~(task'[w].user = u /\ task'[w].pc \in Busy)
  <2>1. p # t /\ task[p].user = u /\ task[p].pc = "purging"
    BY <1>4
  <2>2. task[t].pc \notin Locked
    BY <2>1 DEF LockHeld, Locked
  <2>3. /\ photos[u] \in Terminal \cup {"not_started"}
        /\ \A w \in Tasks : ~(task[w].user = u /\ task[w].pc \in Busy)
    BY <2>1 DEF Spared
  <2> QED BY <1>1, <2>2, <2>3
<1> QED BY <1>3, <1>4

\* Nobody begins work on an expired track, or while its archives are removed,
\* without moving its row first, and the lock or the row's state forbids that.
LEMMA SparedStep == Sound /\ StampsFit /\ Spared /\ [Next]_vars => Spared'
<1> SUFFICES ASSUME Sound, StampsFit, Spared, [Next]_vars PROVE Spared'
  OBVIOUS
<1>sound. TypeOK /\ MovesWait /\ LockHeld /\ StampsFit
  BY DEF Sound
<1>stutter. CASE UNCHANGED vars
  BY <1>stutter DEF Spared, vars
<1>AskImmich. ASSUME NEW t \in Tasks, AskImmich(t) PROVE Spared'
  BY <1>AskImmich, <1>sound, Typed, Steps, SparedKeep
    DEF AskImmich, At, Busy, Holding, PCs, Jobs
<1>AskGoogle. ASSUME NEW t \in Tasks, AskGoogle(t) PROVE Spared'
  BY <1>AskGoogle, <1>sound, Typed, Steps, Ends, SparedWrite, SparedKeep
    DEF AskGoogle, At, failPhotos, Terminal, Busy, Holding, Locked,
        PhotosStates, Running, PCs, Jobs
<1>UnlessRunning. ASSUME NEW t \in Tasks, UnlessRunning(t) PROVE Spared'
  BY <1>UnlessRunning, <1>sound, Typed, Steps, Ends, SparedKeep
    DEF UnlessRunning, At, Busy, Holding, PCs, Jobs
<1>Move. ASSUME NEW t \in Tasks, Move(t) PROVE Spared'
  BY <1>Move, <1>sound, Typed, Ends, SparedWrite
    DEF Move, At, MovesWait, Moves, Waiting, Busy, Holding, Locked,
        PhotosStates, Running, PCs, Jobs
<1>ReconnectPhotos. ASSUME NEW t \in Tasks, ReconnectPhotos(t) PROVE Spared'
  BY <1>ReconnectPhotos, <1>sound, Typed, Ends, SparedWrite
    DEF ReconnectPhotos, At, Busy, Holding, Locked, PhotosStates, Running, PCs,
        Jobs
<1>LaunchPhotosImport. ASSUME NEW t \in Tasks, LaunchPhotosImport(t) PROVE Spared'
  BY <1>LaunchPhotosImport, <1>sound, Typed, Steps, Ends, SparedKeep
    DEF LaunchPhotosImport, At, Busy, Holding, PCs, Jobs
<1>Recheck. ASSUME NEW t \in Tasks, Recheck(t) PROVE Spared'
  BY <1>Recheck, <1>sound, Typed, Steps, Ends, SparedKeep
    DEF Recheck, At, Busy, Holding, PCs, Jobs
<1>Claim. ASSUME NEW t \in Tasks, Claim(t) PROVE Spared'
  BY <1>Claim, <1>sound, Typed, Steps, SparedWrite
    DEF Claim, At, Busy, Holding, Locked, PhotosStates, Running, PCs, Jobs
<1>AcceptPhotos. ASSUME NEW t \in Tasks, AcceptPhotos(t) PROVE Spared'
  BY <1>AcceptPhotos, <1>sound, Typed, Steps, Ends, SparedWrite, SparedKeep
    DEF AcceptPhotos, At, photosFinished, Busy, Holding, Locked, PhotosStates,
        Running, PCs, Jobs
<1>SetPhotosParts. ASSUME NEW t \in Tasks, SetPhotosParts(t) PROVE Spared'
  BY <1>SetPhotosParts, <1>sound, Typed, Steps, Ends, SparedKeep
    DEF SetPhotosParts, At, Busy, Holding, PCs, Jobs
<1>ClaimForImport. ASSUME NEW t \in Tasks, ClaimForImport(t) PROVE Spared'
  BY <1>ClaimForImport, <1>sound, Typed, Steps, Ends, SparedKeep
    DEF ClaimForImport, At, Busy, Holding, PCs, Jobs
<1>ClaimUpload. ASSUME NEW t \in Tasks, ClaimUpload(t) PROVE Spared'
  <2>1. /\ task'[t].user = task[t].user /\ task'[t].pc = "upLaunch"
        /\ \A w \in Tasks \ {t} : task'[w] = task[w]
    BY <1>ClaimUpload, <1>sound, Typed, Becomes DEF ClaimUpload, PCs, Jobs
  <2> QED
    BY <1>ClaimUpload, <1>sound, <2>1, SparedWrite
      DEF ClaimUpload, At, Locked, Busy, Holding, PhotosStates, Running
<1>StartUploadedImport. ASSUME NEW t \in Tasks, StartUploadedImport(t) PROVE Spared'
  BY <1>StartUploadedImport, <1>sound, Typed, Steps, Ends, SparedWrite, SparedKeep
    DEF StartUploadedImport, At, failPhotos, Busy, Holding, Locked,
        PhotosStates, Running, PCs, Jobs
<1>ReconnectUpload. ASSUME NEW t \in Tasks, ReconnectUpload(t) PROVE Spared'
  BY <1>ReconnectUpload, <1>sound, Typed, Ends, SparedWrite
    DEF ReconnectUpload, At, Busy, Holding, Locked, PhotosStates, Running, PCs,
        Jobs
<1>CheckTakeout. ASSUME NEW t \in Tasks, CheckTakeout(t) PROVE Spared'
  <2>1. /\ task[t].pc = "look" /\ \A w \in Tasks \ {t} : task'[w] = task[w]
        /\ task'[t].pc # "purging"
        /\ \/ failPhotos(task[t].user, FALSE) /\ task'[t].pc = "idle"
           \/ UNCHANGED row /\ task'[t].pc \in {"idle", "reconnect"}
           \/ /\ SetPhotosState(task[t].user, "downloading", FALSE)
              /\ task'[t].user = task[t].user
    <3>1. task[t].user \in Users \cup {NoUser}
      BY <1>sound, Typed
    <3>2. ASSUME Become(t, "queued", task[t].user, "download")
          PROVE  /\ task'[t].user = task[t].user /\ task'[t].pc = "queued"
                 /\ \A w \in Tasks \ {t} : task'[w] = task[w]
      BY <1>sound, <3>1, <3>2, Becomes DEF PCs, Jobs
    <3> QED BY <1>CheckTakeout, <1>sound, <3>2, Steps, Ends DEF CheckTakeout, At, PCs
  <2> QED
    BY <1>sound, <2>1, SparedWrite, SparedKeep
      DEF failPhotos, Busy, Holding, PhotosStates, Running
<1>Acquire. ASSUME NEW t \in Tasks, Acquire(t) PROVE Spared'
  BY <1>Acquire, <1>sound, Typed, Steps, SparedKeep
    DEF Acquire, At, Busy, Holding, PCs, Jobs
<1>RunTakeoutDownload. ASSUME NEW t \in Tasks, RunTakeoutDownload(t) PROVE Spared'
  BY <1>RunTakeoutDownload, <1>sound, Typed, Steps, Ends, SparedWrite, SparedKeep
    DEF RunTakeoutDownload, At, Stop, failPhotos, Busy, Holding, Locked,
        PhotosStates, Running, PCs, Jobs
<1>BeginImport. ASSUME NEW t \in Tasks, BeginImport(t) PROVE Spared'
  BY <1>BeginImport, <1>sound, Typed, Steps, SparedWrite
    DEF BeginImport, At, Busy, Holding, Locked, PhotosStates, Running, PCs, Jobs
<1>ValidateArchives. ASSUME NEW t \in Tasks, ValidateArchives(t) PROVE Spared'
  BY <1>ValidateArchives, <1>sound, Typed, Steps, Ends, SparedWrite, SparedKeep
    DEF ValidateArchives, At, Stop, failPhotos, Busy, Holding, Locked,
        PhotosStates, Running, PCs, Jobs
<1>RunProblemsRetry. ASSUME NEW t \in Tasks, RunProblemsRetry(t) PROVE Spared'
  BY <1>RunProblemsRetry, <1>sound, Typed, Steps, Ends, SparedWrite, SparedKeep
    DEF RunProblemsRetry, At, Stop, failPhotos, Busy, Holding, Locked,
        PhotosStates, Running, PCs, Jobs
<1>ImportWithImmichGo. ASSUME NEW t \in Tasks, ImportWithImmichGo(t) PROVE Spared'
  BY <1>ImportWithImmichGo, <1>sound, Typed, Steps, Ends, SparedWrite, SparedKeep
    DEF ImportWithImmichGo, At, Stop, failPhotos, photosFinished, Busy, Holding,
        Locked, PhotosStates, Running, PCs, Jobs
<1>ReconnectRun. ASSUME NEW t \in Tasks, ReconnectRun(t) PROVE Spared'
  BY <1>ReconnectRun, <1>sound, Typed, Ends, SparedWrite
    DEF ReconnectRun, At, Busy, Holding, Locked, PhotosStates, Running, PCs,
        Jobs
<1>ReleaseFinished. ASSUME NEW t \in Tasks, ReleaseFinished(t) PROVE Spared'
  BY <1>ReleaseFinished, <1>sound, Typed, Steps, Ends, SparedKeep
    DEF ReleaseFinished, At, Busy, Holding, PCs, Jobs
<1>Forget. ASSUME NEW t \in Tasks, Forget(t) PROVE Spared'
  BY <1>Forget, <1>sound, Typed, Ends, SparedKeep
    DEF Forget, At, Busy, Holding, PCs, Jobs
<1>ForgetAll. ASSUME NEW t \in Tasks, ForgetAll(t) PROVE Spared'
  BY <1>ForgetAll, <1>sound, Typed, Ends, SparedKeep
    DEF ForgetAll, At, Busy, Holding, PCs, Jobs
<1>StampFinished. ASSUME NEW t \in Tasks PROVE ~StampFinished(t)
  BY <1>sound DEF StampFinished, At, StampsFit
<1>StillExpired. ASSUME NEW t \in Tasks, StillExpired(t) PROVE Spared'
  <2>1. /\ \A w \in Tasks \ {t} : task'[w] = task[w]
        /\ task[t].pc = "purge" /\ UNCHANGED row
        /\ \/ task'[t].pc = "idle"
           \/ /\ task'[t].pc = "purging" /\ task'[t].user = task[t].user
              /\ photos[task[t].user] \in Terminal /\ finished[task[t].user] = "expired"
    BY <1>StillExpired, <1>sound, Steps, Ends DEF StillExpired, At, PCs
  <2> QED BY <2>1 DEF Spared, Busy, Holding, row
<1>PurgeUser. ASSUME NEW t \in Tasks, PurgeUser(t) PROVE Spared'
  BY <1>PurgeUser, <1>sound, Typed, Ends, SparedKeep
    DEF PurgeUser, At, Busy, Holding, PCs, Jobs
<1>Abandon. ASSUME NEW t \in Tasks, Abandon(t) PROVE Spared'
  <2>1. /\ task'[t].pc = "idle" /\ \A w \in Tasks \ {t} : task'[w] = task[w]
        /\ \/ UNCHANGED row
           \/ /\ task[t].pc \in {"moving", "claiming", "upClaiming", "accepting"}
              /\ SetPhotosState(task[t].user, Target(t), FALSE)
    BY <1>Abandon, <1>sound, Ends DEF Abandon
  <2>2. task[t].pc \in {"moving", "claiming", "upClaiming", "accepting"} => Target(t) \in PhotosStates
    BY <1>sound DEF Target, At, MovesWait, Moves, Waiting, PhotosStates
  <2> QED
    BY <1>sound, <2>1, <2>2, SparedWrite, SparedKeep DEF Locked, Busy, Holding
<1>Overrun. ASSUME NEW t \in Tasks, Overrun(t) PROVE Spared'
  BY <1>Overrun, <1>sound, Typed, Ends, SparedKeep
    DEF Overrun, At, Busy, Holding, InSlot, PCs, Jobs
<1>BeginPhotosUpload. ASSUME NEW t \in Tasks, NEW u \in Users, BeginPhotosUpload(t, u) PROVE Spared'
  BY <1>BeginPhotosUpload, <1>sound, Typed, Becomes, SparedKeep
    DEF BeginPhotosUpload, At, Busy, Holding, PCs, Jobs
<1>StartPhotosTakeout. ASSUME NEW t \in Tasks, NEW u \in Users, StartPhotosTakeout(t, u) PROVE Spared'
  BY <1>StartPhotosTakeout, <1>sound, Typed, Becomes, SparedKeep
    DEF StartPhotosTakeout, At, Busy, Holding, PCs, Jobs
<1>LaunchFromWizard. ASSUME NEW t \in Tasks, NEW u \in Users,
                            NEW j \in {"import", "problems"}, LaunchFromWizard(t, u, j) PROVE Spared'
  <2>j. j \in Jobs
    BY DEF Jobs
  <2> QED
    BY <1>LaunchFromWizard, <1>sound, <2>j, Becomes, SparedKeep
      DEF LaunchFromWizard, Busy, Holding, PCs
<1>Settle. ASSUME NEW t \in Tasks, NEW u \in Users, Settle(t, u) PROVE Spared'
  BY <1>Settle, <1>sound, Typed, Becomes, SparedKeep
    DEF Settle, At, Busy, Holding, PCs, Jobs
<1>DeclarePhotosParts. ASSUME NEW t \in Tasks, NEW u \in Users, DeclarePhotosParts(t, u) PROVE Spared'
  BY <1>DeclarePhotosParts, <1>sound, Typed, Becomes, SparedKeep
    DEF DeclarePhotosParts, At, Busy, Holding, PCs, Jobs
<1>SetAutoImport. ASSUME NEW t \in Tasks, NEW u \in Users, SetAutoImport(t, u) PROVE Spared'
  BY <1>SetAutoImport, <1>sound, Typed, Becomes, SparedKeep
    DEF SetAutoImport, At, Busy, Holding, PCs, Jobs, TypeOK
<1>AutoImportIfEnabled. ASSUME NEW t \in Tasks, NEW u \in Users, AutoImportIfEnabled(t, u) PROVE Spared'
  BY <1>AutoImportIfEnabled, <1>sound, Typed, Becomes, SparedKeep
    DEF AutoImportIfEnabled, At, Busy, Holding, PCs, Jobs
<1>StartImportIfComplete. ASSUME NEW t \in Tasks, NEW u \in Users, StartImportIfComplete(t, u) PROVE Spared'
  BY <1>StartImportIfComplete, <1>sound, Typed, Becomes, SparedKeep
    DEF StartImportIfComplete, At, Busy, Holding, PCs, Jobs
<1>PollTakeout. ASSUME NEW t \in Tasks, NEW u \in Users, PollTakeout(t, u) PROVE Spared'
  <2>1. /\ \A w \in Tasks \ {t} : task'[w] = task[w]
        /\ task'[t].user = u /\ task'[t].pc = "look" /\ UNCHANGED row
        /\ photos[u] = "awaiting_takeout"
    BY <1>PollTakeout, <1>sound, Becomes DEF PollTakeout, PCs, Jobs
  <2>2. finished[u] = "never" /\ photos[u] \notin Terminal \cup {"not_started"}
    BY <1>sound, <2>1 DEF StampsFit, Terminal
  <2> QED BY <2>1, <2>2 DEF Spared, row
<1>SweepIdle. ASSUME NEW t \in Tasks, NEW u \in Users, SweepIdle(t, u) PROVE Spared'
  BY <1>SweepIdle, <1>sound, Typed, Becomes, SparedKeep
    DEF SweepIdle, At, Busy, Holding, PCs, Jobs
<1>PurgeStaging. ASSUME NEW t \in Tasks, NEW u \in Users, PurgeStaging(t, u) PROVE Spared'
  BY <1>PurgeStaging, <1>sound, Typed, Becomes, SparedKeep
    DEF PurgeStaging, At, Busy, Holding, PCs, Jobs
<1>PartLands. ASSUME NEW u \in Users, PartLands(u) PROVE Spared'
  BY <1>PartLands DEF PartLands, Spared, row
<1>Connect. ASSUME NEW u \in Users, Connect(u) PROVE Spared'
  BY <1>Connect DEF Connect, Spared, row
<1>RetentionPasses. ASSUME NEW u \in Users, RetentionPasses(u) PROVE Spared'
  BY <1>RetentionPasses, <1>sound DEF RetentionPasses, Spared, TypeOK
<1>Restart. CASE Restart
  BY <1>Restart DEF Restart, Spared, Idle, Busy, Holding
<1> QED
  BY <1>stutter, <1>AskImmich, <1>AskGoogle, <1>UnlessRunning, <1>Move,
     <1>ReconnectPhotos, <1>LaunchPhotosImport, <1>Recheck, <1>Claim,
     <1>AcceptPhotos, <1>SetPhotosParts, <1>ClaimForImport, <1>ClaimUpload,
     <1>StartUploadedImport, <1>ReconnectUpload, <1>CheckTakeout, <1>Acquire,
     <1>RunTakeoutDownload, <1>BeginImport, <1>ValidateArchives,
     <1>RunProblemsRetry, <1>ImportWithImmichGo, <1>ReconnectRun,
     <1>ReleaseFinished, <1>Forget, <1>ForgetAll, <1>StampFinished,
     <1>StillExpired, <1>PurgeUser, <1>Abandon, <1>Overrun, <1>BeginPhotosUpload,
     <1>StartPhotosTakeout, <1>LaunchFromWizard, <1>Settle,
     <1>DeclarePhotosParts, <1>SetAutoImport, <1>AutoImportIfEnabled,
     <1>StartImportIfComplete, <1>PollTakeout, <1>SweepIdle, <1>PurgeStaging,
     <1>PartLands, <1>Connect, <1>RetentionPasses, <1>Restart
    DEF Next, Continue, Start


\* Archives never go under a run, nor from a person who is sending them or waits
\* for Google's, even with people, watchers and runs that write the row without
\* the lock, refused keys and restarts; only where rows predate the stamp (their
\* sweep stamps a row it listed earlier) is it left open.
THEOREM PurgeSpares ==
  ASSUME "upgrade" \notin Events
  PROVE  Spec => PurgeSparesWork
<1>1. Init => StampsFit /\ Spared
  BY DEF Init, StampsFit, Spared, Terminal, Idle, Busy, Holding
<1> DEFINE Purged(u) == ~(staged[u] \subseteq staged'[u])
           AtRest(u) == photos[u] \notin Running \cup {"awaiting_upload", "awaiting_takeout"}
<1>2. Sound /\ Spared /\ [Next]_vars => [\A u \in Users : Purged(u) => AtRest(u)]_vars
  <2> SUFFICES ASSUME Sound, Spared, Next, NEW u \in Users, Purged(u)
               PROVE  AtRest(u)
    OBVIOUS
  <2>1. TypeOK
    BY DEF Sound
  <2>2. PICK t \in Tasks : PurgeUser(t) /\ task[t].user = u
    BY <2>1, OnlyPurges
  <2> QED BY <2>1, <2>2 DEF PurgeUser, At, Spared, Running, Terminal
<1> QED
  BY <1>1, <1>2, SoundInit, SoundStep, StampsFitStep, SparedStep, PTL
    DEF Spec, PurgeSparesWork

----------------------------------------------------------------------------
(* Who moves a row, and what the claim of an upload has seen *)

\* A row is moved by a restart, or by the task that has the track or the lock;
\* under "moving" it goes to a waiting screen.
LEMMA Mover ==
  ASSUME Sound, Exclusive, Next, NEW u \in Users, photos'[u] # photos[u]
  PROVE  \/ Restart
         \/ \E t \in Tasks :
              /\ task[t].user = u /\ task[t].pc \in Holding \cup Locked
              /\ task'[t] # task[t]
              /\ task[t].pc = "moving" => photos'[u] \in Waiting
<1>sound. TypeOK /\ MovesWait /\ (\A t \in Tasks : Fits(t))
  BY DEF Sound, Exclusive
<1>1. ASSUME NEW t \in Tasks, NEW s \in PhotosStates, NEW lo \in BOOLEAN,
             SetPhotosState(task[t].user, s, lo)
      PROVE  task[t].user = u /\ photos'[u] = s
  BY <1>sound, <1>1, Writes
<1>2. ASSUME NEW t \in Tasks, Continue(t)
      PROVE  /\ task[t].user = u /\ task[t].pc \in Holding \cup Locked
             /\ task'[t] # task[t]
             /\ task[t].pc = "moving" => photos'[u] \in Waiting
  <2>0. task[t].pc \notin Elsewhere
    BY <1>sound DEF Fits
  <2>1. CASE Move(t)
    <3>1. task[t].job \in Waiting /\ task[t].job \in PhotosStates
      BY <1>sound, <2>1 DEF Move, At, MovesWait, Moves, Waiting, PhotosStates
    <3> QED BY <1>1, <1>sound, <2>1, <3>1, Ends DEF Move, At, Locked
  <2>2. CASE Claim(t) \/ AcceptPhotos(t) \/ ClaimUpload(t)
    <3>1. /\ task[t].pc \in {"claiming", "accepting", "upClaiming"}
          /\ \E s \in PhotosStates : SetPhotosState(task[t].user, s, FALSE)
      BY <2>2 DEF Claim, AcceptPhotos, ClaimUpload, At, PhotosStates
    <3>2. task'[t].pc \in {"queued", "release", "idle", "upLaunch"}
      BY <1>sound, <2>2, Typed, Steps, Ends, Becomes
        DEF Claim, AcceptPhotos, ClaimUpload, photosFinished, PCs, Jobs
    <3> QED BY <1>1, <3>1, <3>2 DEF Locked
  <2>3. CASE BeginImport(t)
    <3>1. /\ task[t].pc = "begin" /\ task'[t].pc = "validate"
          /\ SetPhotosState(task[t].user, "importing", FALSE)
      BY <1>sound, <2>3, Steps DEF BeginImport, At, PCs
    <3> QED BY <1>1, <3>1 DEF PhotosStates, Holding
  <2>4. CASE \/ StartUploadedImport(t) \/ ValidateArchives(t)
             \/ RunProblemsRetry(t) \/ ImportWithImmichGo(t)
    <3>1. /\ task[t].pc \in {"upLaunch", "validate", "prepare", "immichgo"}
          /\ \/ UNCHANGED row
             \/ \E s \in PhotosStates, lo \in BOOLEAN :
                  SetPhotosState(task[t].user, s, lo)
      BY <2>4
        DEF StartUploadedImport, ValidateArchives, RunProblemsRetry,
            ImportWithImmichGo, Stop, failPhotos, At, PhotosStates
    <3>2. ~UNCHANGED row
      BY DEF row
    <3>3. \/ task'[t].pc \in {"queued", "upLost", "lost", "release"}
          \/ task'[t].pc = "idle"
          \/ UNCHANGED row
      BY <1>sound, <2>4, Steps, Ends
        DEF StartUploadedImport, ValidateArchives, RunProblemsRetry,
            ImportWithImmichGo, Stop, photosFinished, PCs
    <3> QED BY <1>1, <3>1, <3>2, <3>3 DEF Holding
  <2>5. CASE \/ AskGoogle(t) \/ ReconnectPhotos(t) \/ ReconnectUpload(t)
             \/ CheckTakeout(t) \/ RunTakeoutDownload(t) \/ ReconnectRun(t)
    BY <2>0, <2>5
      DEF AskGoogle, ReconnectPhotos, ReconnectUpload, CheckTakeout,
          RunTakeoutDownload, ReconnectRun, At, Elsewhere
  <2>6. CASE \/ AskImmich(t) \/ UnlessRunning(t) \/ LaunchPhotosImport(t)
             \/ Recheck(t) \/ SetPhotosParts(t) \/ ClaimForImport(t) \/ Acquire(t)
             \/ ReleaseFinished(t) \/ Forget(t) \/ ForgetAll(t)
             \/ StampFinished(t) \/ StillExpired(t) \/ PurgeUser(t)
    <3>1. photos' = photos
      BY <2>6
        DEF AskImmich, UnlessRunning, LaunchPhotosImport, Recheck,
            SetPhotosParts, ClaimForImport, Acquire, ReleaseFinished, Forget,
            ForgetAll, StampFinished, StillExpired, PurgeUser, row
    <3> QED BY <3>1
  <2> QED BY <1>2, <2>1, <2>2, <2>3, <2>4, <2>5, <2>6 DEF Continue
<1>3. ASSUME NEW t \in Tasks, Abandon(t)
      PROVE  /\ task[t].user = u /\ task[t].pc \in Holding \cup Locked
             /\ task'[t] # task[t]
             /\ task[t].pc = "moving" => photos'[u] \in Waiting
  <2>1. /\ task'[t].pc = "idle"
        /\ task[t].pc \in {"moving", "claiming", "upClaiming", "accepting"}
        /\ SetPhotosState(task[t].user, Target(t), FALSE)
    BY <1>sound, <1>3, Ends DEF Abandon, row
  <2>2. /\ Target(t) \in PhotosStates
        /\ task[t].pc = "moving" => Target(t) \in Waiting
    BY <1>sound, <2>1 DEF Target, At, MovesWait, Moves, Waiting, PhotosStates
  <2> QED BY <1>1, <2>1, <2>2 DEF Locked
<1>4. ASSUME NEW t \in Tasks, NEW v \in Users, Start(t, v) PROVE photos' = photos
  BY <1>4
    DEF Start, BeginPhotosUpload, StartPhotosTakeout, LaunchFromWizard,
        Settle, DeclarePhotosParts, SetAutoImport, AutoImportIfEnabled,
        StartImportIfComplete, PollTakeout, SweepIdle, PurgeStaging, row
<1>5. ASSUME NEW v \in Users, PartLands(v) \/ Connect(v) \/ RetentionPasses(v)
      PROVE  photos' = photos
  BY <1>5 DEF PartLands, Connect, RetentionPasses, row
<1>6. ASSUME NEW t \in Tasks, Overrun(t) PROVE photos' = photos
  BY <1>6 DEF Overrun, row
<1> QED BY <1>2, <1>3, <1>4, <1>5, <1>6 DEF Next

\* What the repair after a restart counts on.
Held == "restart" \in Events => NoOrphan

\* A running track leaves its running states only by a step of the goroutine
\* that has it.  A restart is such a step, it ends them all, unless a cancelled
\* request or an overrun has left a track without one to be repaired.
THEOREM HolderEnds ==
  ASSUME Events \cap {"lapse", "takeout", "upgrade"} = {},
         "restart" \in Events => Events \cap {"disconnect", "overrun"} = {}
  PROVE  Spec => OnlyHolderEndsRun
<1>1. Init => Exclusive /\ StampsFit /\ Held
  BY DEF Init, Exclusive, Fits, OneRun, KeyFirst, Elsewhere, Keyed, Holding, Idle,
         StampsFit, Terminal, Held, NoOrphan, Running
<1>2. Sound /\ Held /\ [Next]_vars => Held'
  BY NoOrphanStep DEF Held
<1>3. Sound /\ Exclusive /\ Held /\ [Next]_vars =>
        [\A u \in Users :
           photos[u] \in Running /\ photos'[u] \notin Running =>
             \E t \in Tasks : /\ task[t].user = u /\ task[t].pc \in Holding
                             /\ task'[t] # task[t]]_vars
  <2> SUFFICES ASSUME Sound, Exclusive, Held, Next,
                      NEW u \in Users, photos[u] \in Running, photos'[u] \notin Running
               PROVE  \E t \in Tasks : /\ task[t].user = u /\ task[t].pc \in Holding
                                       /\ task'[t] # task[t]
    OBVIOUS
  <2>1. CASE Restart
    <3>1. "restart" \in Events /\ \A t \in Tasks : task'[t].pc = "idle"
      BY <2>1 DEF Restart, Idle
    <3>2. PICK t \in Tasks : task[t].user = u /\ task[t].pc \in Holding
      BY <3>1 DEF Held, NoOrphan
    <3> QED BY <3>1, <3>2 DEF Holding
  <2>2. CASE ~Restart
    <3>1. PICK t \in Tasks : /\ task[t].user = u /\ task[t].pc \in Holding \cup Locked
                             /\ task'[t] # task[t]
      BY <2>2, Mover
    <3>2. Fits(t)
      BY DEF Exclusive
    <3>3. task[t].pc \notin Locked
      BY <3>1, <3>2 DEF Fits, Locked, Running, Terminal
    <3> QED BY <3>1, <3>3
  <2> QED BY <2>1, <2>2
<1> QED
  BY <1>1, <1>2, <1>3, SoundInit, SoundStep, StampsFitStep, ExclusiveStep, PTL
    DEF Spec, OnlyHolderEndsRun

\* A count declared once is not declared again while it is being saved, and at
\* its claim an export is whole: both are checked a statement before.
Whole ==
  \A t \in Tasks :
    LET u == task[t].user IN
    /\ task[t].pc = "declaring" =>
         /\ expected[u] = 0
         /\ \A w \in Tasks : task[w].pc = "declaring" /\ task[w].user = u => w = t
    /\ task[t].pc = "upClaiming" => expected[u] > 0 /\ 1..expected[u] \subseteq staged[u]

\* A step that begins neither, saves no count and removes no archive keeps it.
LEMMA WholeKeep ==
  ASSUME Whole, NEW t \in Tasks, \A w \in Tasks \ {t} : task'[w] = task[w],
         task'[t].pc \notin {"declaring", "upClaiming"}, expected' = expected,
         \A w \in Tasks : task[w].pc = "upClaiming" =>
           staged[task[w].user] \subseteq staged'[task[w].user]
  PROVE  Whole'
  BY DEF Whole

\* What was whole when it was checked is whole when it is claimed, as long as
\* nobody saves another count in between.
LEMMA WholeStep ==
  ASSUME "redeclare" \notin Events
  PROVE  Sound /\ Exclusive /\ Whole /\ [Next]_vars => Whole'
<1> SUFFICES ASSUME Sound, Exclusive, Whole, Next PROVE Whole'
  BY DEF Whole, vars
<1>sound. TypeOK /\ LockHeld /\ \A t \in Tasks : Fits(t)
  BY DEF Sound, Exclusive
<1>grows. ASSUME NEW w \in Tasks, task[w].pc = "upClaiming"
          PROVE  staged[task[w].user] \subseteq staged'[task[w].user]
  <2>1. task[w].user \in Users
    BY <1>sound, <1>grows DEF Fits
  <2>2. ASSUME NEW t \in Tasks, PurgeUser(t) PROVE FALSE
    BY <1>sound, <1>grows, <2>2 DEF PurgeUser, At, LockHeld, Locked
  <2> QED BY <1>sound, <2>1, <2>2, OnlyPurges
<1>1. ASSUME NEW t \in Tasks, Continue(t) PROVE Whole'
  <2>1. CASE SetPhotosParts(t)
    <3>1. /\ task[t].pc = "declaring" /\ staged' = staged
          /\ task'[t].pc \in {"upCheck", "idle"}
          /\ \A w \in Tasks \ {t} : task'[w] = task[w]
      BY <1>sound, <2>1, Steps, Ends DEF SetPhotosParts, At, PCs
    <3>2. expected[task[t].user] = 0 /\ task[t].user \in Users
      BY <1>sound, <3>1 DEF Whole, Fits
    <3>3. \A v \in Users \ {task[t].user} : expected'[v] = expected[v]
      BY <1>sound, <2>1 DEF SetPhotosParts, TypeOK
    <3>4. ASSUME NEW w \in Tasks, task'[w].pc \in {"declaring", "upClaiming"}
          PROVE  /\ task'[w] = task[w] /\ task[w].user # task[t].user
                 /\ task[w].user \in Users
      <4>1. w # t
        BY <3>1, <3>4
      <4>2. task[w].pc = "upClaiming" => expected[task[w].user] > 0
        BY DEF Whole
      <4>3. task[w].pc = "declaring" => task[w].user # task[t].user
        BY <3>1, <4>1 DEF Whole
      <4>4. task'[w] = task[w]
        BY <3>1, <4>1
      <4>5. task[w].user \in Users
        BY <1>sound, <3>4, <4>4 DEF Fits
      <4>6. task[w].user # task[t].user
        <5>1. task[w].pc = "declaring" \/ task[w].pc = "upClaiming"
          BY <3>4, <4>4
        <5>2. ASSUME task[w].user = task[t].user PROVE task[w].pc # "upClaiming"
          BY <3>2, <4>2, <5>2
        <5> QED BY <4>3, <5>1, <5>2
      <4> QED BY <4>4, <4>5, <4>6
    <3>5. ASSUME NEW w \in Tasks, task'[w].pc \in {"declaring", "upClaiming"}
          PROVE  task'[w] = task[w] /\ expected'[task[w].user] = expected[task[w].user]
      BY <3>3, <3>4, <3>5
    <3> QED BY <3>1, <3>5 DEF Whole
  <2>2. CASE ClaimForImport(t)
    <3>1. /\ \A w \in Tasks \ {t} : task'[w] = task[w]
          /\ UNCHANGED <<expected, staged>>
          /\ \/ task'[t].pc = "idle"
             \/ /\ task'[t].pc = "upClaiming" /\ task'[t].user = task[t].user
                /\ Complete(task[t].user)
      BY <1>sound, <2>2, Steps, Ends DEF ClaimForImport, settings, PCs
    <3>2. ASSUME NEW w \in Tasks, task'[w].pc = "declaring"
          PROVE  /\ expected'[task'[w].user] = 0
                 /\ \A x \in Tasks :
                      task'[x].pc = "declaring" /\ task'[x].user = task'[w].user => x = w
      <4>1. task'[w] = task[w] /\ expected' = expected
        BY <3>1, <3>2
      <4>2. ASSUME NEW x \in Tasks, task'[x].pc = "declaring" PROVE task'[x] = task[x]
        BY <3>1, <4>2
      <4> QED BY <3>2, <4>1, <4>2 DEF Whole
    <3>3. ASSUME NEW w \in Tasks, task'[w].pc = "upClaiming"
          PROVE  /\ expected'[task'[w].user] > 0
                 /\ 1..expected'[task'[w].user] \subseteq staged'[task'[w].user]
      <4>1. CASE w = t
        BY <3>1, <3>3, <4>1 DEF Complete
      <4>2. CASE w # t
        BY <3>1, <3>3, <4>2 DEF Whole
      <4> QED BY <4>1, <4>2
    <3> QED BY <3>2, <3>3 DEF Whole
  <2>3. CASE \/ AskImmich(t) \/ UnlessRunning(t) \/ Move(t)
             \/ LaunchPhotosImport(t) \/ Recheck(t) \/ Claim(t)
    <3>1. expected' = expected /\ task'[t].pc \notin {"declaring", "upClaiming"}
          /\ \A w \in Tasks \ {t} : task'[w] = task[w]
      BY <1>sound, <2>3, Steps, Ends
        DEF AskImmich, UnlessRunning, Move, LaunchPhotosImport, Recheck, Claim,
            settings, PCs
    <3> QED BY <1>grows, <3>1, WholeKeep
  <2>4. CASE AcceptPhotos(t) \/ StartUploadedImport(t) \/ Acquire(t) \/ BeginImport(t)
    <3>1. expected' = expected /\ task'[t].pc \notin {"declaring", "upClaiming"}
          /\ \A w \in Tasks \ {t} : task'[w] = task[w]
      BY <1>sound, <2>4, Steps, Ends
        DEF AcceptPhotos, StartUploadedImport, Acquire, BeginImport,
            photosFinished, settings, PCs
    <3> QED BY <1>grows, <3>1, WholeKeep
  <2>5. CASE ValidateArchives(t) \/ RunProblemsRetry(t) \/ ImportWithImmichGo(t)
    <3>1. expected' = expected /\ task'[t].pc \notin {"declaring", "upClaiming"}
          /\ \A w \in Tasks \ {t} : task'[w] = task[w]
      BY <1>sound, <2>5, Steps, Ends
        DEF ValidateArchives, RunProblemsRetry, ImportWithImmichGo, Stop,
            photosFinished, settings, PCs
    <3> QED BY <1>grows, <3>1, WholeKeep
  <2>6. CASE StillExpired(t) \/ PurgeUser(t)
    <3>1. expected' = expected /\ task'[t].pc \notin {"declaring", "upClaiming"}
          /\ \A w \in Tasks \ {t} : task'[w] = task[w]
      BY <1>sound, <2>6, Steps, Ends DEF StillExpired, PurgeUser, settings, PCs
    <3> QED BY <1>grows, <3>1, WholeKeep
  <2>7. CASE ClaimUpload(t)
    <3>1. task[t].user \in Users \cup {NoUser}
      BY <1>sound, Typed
    <3>2. expected' = expected /\ task'[t].pc = "upLaunch"
          /\ \A w \in Tasks \ {t} : task'[w] = task[w]
      BY <1>sound, <2>7, <3>1, Becomes DEF ClaimUpload, settings, PCs, Jobs
    <3> QED BY <1>grows, <3>2, WholeKeep
  <2> QED
    BY <1>1, <1>sound, <2>1, <2>2, <2>3, <2>4, <2>5, <2>6, <2>7
      DEF Continue, Fits, Elsewhere, AskGoogle, ReconnectPhotos, ReconnectUpload,
          CheckTakeout, RunTakeoutDownload, ReconnectRun, ReleaseFinished,
          Forget, ForgetAll, StampFinished, At
<1>2. ASSUME NEW t \in Tasks, NEW u \in Users, Start(t, u) PROVE Whole'
  <2>1. CASE DeclarePhotosParts(t, u)
    <3>1. /\ \A w \in Tasks \ {t} : task'[w] = task[w]
          /\ task'[t].pc = "declaring" /\ task'[t].user = u
          /\ UNCHANGED <<expected, staged>> /\ expected[u] = 0
          /\ \A w \in Tasks : ~(task[w].pc = "declaring" /\ task[w].user = u)
      BY <1>sound, <2>1, Becomes DEF DeclarePhotosParts, At, settings, PCs, Jobs
    <3> QED BY <3>1 DEF Whole
  <2>2. CASE \/ BeginPhotosUpload(t, u) \/ StartPhotosTakeout(t, u) \/ Settle(t, u)
             \/ SetAutoImport(t, u) \/ AutoImportIfEnabled(t, u)
             \/ StartImportIfComplete(t, u)
    <3>1. expected' = expected /\ task'[t].pc \notin {"declaring", "upClaiming"}
          /\ \A w \in Tasks \ {t} : task'[w] = task[w]
      BY <1>sound, <2>2, Becomes
        DEF BeginPhotosUpload, StartPhotosTakeout, Settle, SetAutoImport, At,
            AutoImportIfEnabled, StartImportIfComplete, settings, PCs, Jobs
    <3> QED BY <1>grows, <3>1, WholeKeep
  <2>3. CASE \/ \E j \in {"import", "problems"} : LaunchFromWizard(t, u, j)
             \/ PollTakeout(t, u) \/ SweepIdle(t, u) \/ PurgeStaging(t, u)
    <3>1. expected' = expected /\ task'[t].pc \notin {"declaring", "upClaiming"}
          /\ \A w \in Tasks \ {t} : task'[w] = task[w]
      BY <1>sound, <2>3, Becomes
        DEF LaunchFromWizard, PollTakeout, SweepIdle, PurgeStaging, settings,
            PCs, Jobs
    <3> QED BY <1>grows, <3>1, WholeKeep
  <2> QED BY <1>2, <2>1, <2>2, <2>3 DEF Start
<1>3. ASSUME NEW t \in Tasks, Abandon(t) \/ Overrun(t) PROVE Whole'
  <2>1. expected' = expected /\ task'[t].pc = "idle"
        /\ \A w \in Tasks \ {t} : task'[w] = task[w]
    BY <1>sound, <1>3, Ends DEF Abandon, Overrun, settings
  <2> QED BY <1>grows, <2>1, WholeKeep
<1>4. ASSUME NEW u \in Users, PartLands(u) \/ Connect(u) \/ RetentionPasses(u)
      PROVE  Whole'
  <2>1. expected' = expected /\ task' = task
    BY <1>4 DEF PartLands, Connect, RetentionPasses, settings
  <2> QED BY <1>grows, <2>1 DEF Whole
<1>5. CASE Restart
  BY <1>5 DEF Restart, Whole, Idle
<1> QED BY <1>1, <1>2, <1>3, <1>4, <1>5 DEF Next

\* The upload route claims the import only of an export whose declared parts are
\* all on disk at that moment: cancelled requests, overruns and restarts in
\* between included, a second count saved meanwhile not.
THEOREM ClaimsWhole ==
  ASSUME Events \cap {"lapse", "takeout", "upgrade", "redeclare"} = {}
  PROVE  Spec => ClaimedWhole
<1>1. Init => Exclusive /\ StampsFit /\ Whole
  BY DEF Init, Exclusive, Fits, OneRun, KeyFirst, Elsewhere, Keyed, Holding, Idle,
         StampsFit, Terminal, Whole
<1>2. Sound /\ Exclusive /\ Whole /\ [Next]_vars =>
        [\A u \in Users :
           photos[u] = "awaiting_upload" /\ photos'[u] = "importing" =>
             expected[u] > 0 /\ 1..expected[u] \subseteq staged[u]]_vars
  <2> SUFFICES ASSUME Sound, Exclusive, Whole, Next, NEW u \in Users,
                      photos[u] = "awaiting_upload", photos'[u] = "importing"
               PROVE  expected[u] > 0 /\ 1..expected[u] \subseteq staged[u]
    OBVIOUS
  <2>1. ~Restart
    BY DEF Restart, Running
  <2>2. PICK t \in Tasks : /\ task[t].user = u /\ task[t].pc \in Holding \cup Locked
                           /\ task[t].pc = "moving" => photos'[u] \in Waiting
    BY <2>1, Mover
  <2>3. Fits(t)
    BY DEF Exclusive
  <2>4. task[t].pc = "upClaiming"
    BY <2>2, <2>3 DEF Fits, Locked, Running, Terminal, Waiting
  <2> QED BY <2>2, <2>4 DEF Whole
<1>3. Events \cap {"lapse", "takeout", "upgrade"} = {} /\ "redeclare" \notin Events
  OBVIOUS
<1>4. Sound /\ StampsFit /\ Exclusive /\ [Next]_vars => Exclusive'
  BY <1>3, ExclusiveStep
<1>5. Sound /\ Exclusive /\ Whole /\ [Next]_vars => Whole'
  BY <1>3, WholeStep
<1> QED
  BY <1>1, <1>2, <1>4, <1>5, SoundInit, SoundStep, StampsFitStep, PTL
    DEF Spec, ClaimedWhole
=============================================================================
