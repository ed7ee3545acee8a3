----------------------------- MODULE DriveCopy -----------------------------
(***************************************************************************)
(* What a copy of the Drive reports and what it proves: rclone's lines of  *)
(* statistics become a count of files and a reason on the row, and the     *)
(* check at the end (VerifyDrive) decides between done and failed.  When a *)
(* copy may start, its slot and its credentials are DriveTrack; here one   *)
(* person's copy has the row, next to a Photos half that writes last_error *)
(* too.                                                                    *)
(***************************************************************************)
EXTENDS Integers, FiniteSets

CONSTANTS
  Files,         \* the files of the person's Drive
  Excluded,      \* those in the Takeout folder
  Native,        \* those that are Google documents, which have no bytes of their own
  SampleSize,    \* verify.go's SampleSize
  StuckAfter,    \* stuckAfterTicks
  MaxTransfers,  \* bound on the files that rclone transfers, over all copies
  Events         \* which of AllEvents may happen in this instance

(***************************************************************************)
(*   restart   the process stops and starts again                          *)
(*   damage    a file lands truncated, or with other bytes                 *)
(*   rescan    rclone reports fewer transfers than before                  *)
(*   race      Photos fails between the read of last_error and its write   *)
(*   cut       rclone check ends before it has compared everything         *)
(*   unlisted  the listing of the Google documents fails                   *)
(***************************************************************************)
AllEvents == {"restart", "damage", "rescan", "race", "cut", "unlisted"}

ASSUME FilesAssumption == IsFiniteSet(Files) /\ Excluded \subseteq Files /\ Native \subseteq Files
ASSUME BoundsAssumption ==
  SampleSize \in Nat /\ StuckAfter \in Nat \ {0} /\ MaxTransfers \in Nat
ASSUME EventsAssumption == Events \subseteq AllEvents

VARIABLES
  drive,        \* DriveStates          migrations.drive_state
  filesCopied,  \* Nat                  migrations.drive_files_copied
  lastError,    \* Errors               migrations.last_error
  dest,         \* [Files -> Landed]    the person's space in Nextcloud
  transferred,  \* 0..MaxTransfers      files that all copies have transferred
  transfers,    \* Nat                  stats.transfers of this rclone
  newErrors,    \* BOOLEAN              stats.errors has grown since the last line
  line,         \* what onLine remembers between two lines
  check         \* what VerifyDrive has found so far

row == <<drive, filesCopied, lastError>>
rclone == <<transferred, transfers, newErrors>>
vars == <<drive, filesCopied, lastError, dest, transferred, transfers, newErrors, line, check>>

DriveStates == {"selecting", "copying", "verifying", "done", "failed"}
Errors == {"none", "stuck", "drive", "mismatch", "photos"}
Landed == {"absent", "short", "altered", "same"}

(***************************************************************************)
(* files, failing, stuck: reportedFiles, failing and stuck # "".           *)
(* clearing: last_error has been read, and is about to be emptied.         *)
(***************************************************************************)
Lines == [files : Nat, failing : 0..StuckAfter, stuck : BOOLEAN, clearing : BOOLEAN]
NoLine == [files |-> 0, failing |-> 0, stuck |-> FALSE, clearing |-> FALSE]

Checks == [pc : {"tree", "sample", "verdict"}, checked : Nat, bad : Nat, matched : SUBSET Files]
NoCheck == [pc |-> "tree", checked |-> 0, bad |-> 0, matched |-> {}]

\* What the copy and the check are about: excludeTakeout.
Tree == Files \ Excluded

Arrived(f) == dest[f] \in {"altered", "same"}
\* Two exports of one document are never the same bytes.
SameBytes(f) == dest[f] = "same" /\ f \notin Native

----------------------------------------------------------------------------
(* rclone copy *)

StartDrive ==
  /\ drive \in {"selecting", "failed"}
  /\ drive' = "copying"
  /\ transfers' = 0 /\ newErrors' = FALSE /\ line' = NoLine /\ check' = NoCheck
  /\ UNCHANGED <<filesCopied, lastError, dest, transferred>>

\* A file gets through.  A shorter one is copied again.
Transfer ==
  /\ drive = "copying" /\ transferred < MaxTransfers
  /\ \E f \in Tree,
        d \in (IF "damage" \in Events THEN {"short", "altered", "same"} ELSE {"same"}) :
       ~Arrived(f) /\ dest' = [dest EXCEPT ![f] = d]
  /\ transfers' = transfers + 1 /\ transferred' = transferred + 1
  /\ UNCHANGED <<row, newErrors, line, check>>

\* An upload fails; rclone goes on.
UploadFails ==
  /\ drive = "copying" /\ ~newErrors /\ newErrors' = TRUE
  /\ UNCHANGED <<row, dest, transferred, transfers, line, check>>

Rescan ==
  /\ "rescan" \in Events /\ drive = "copying"
  /\ \E n \in 0..transfers : n < transfers /\ transfers' = n
  /\ UNCHANGED <<row, dest, transferred, newErrors, line, check>>

\* A mutant: a lower count is taken off the total.
DeltaUnclamped == transfers - line.files
\* "Clamp both at zero".
Delta == IF transfers > line.files THEN transfers - line.files ELSE 0

UploadsFailing == newErrors /\ transfers <= line.files

Failing ==
  CASE UploadsFailing -> IF line.failing < StuckAfter THEN line.failing + 1 ELSE StuckAfter
    [] transfers > line.files -> 0
    [] OTHER -> line.failing

\* A mutant: the reason is emptied whosever it is.
ReasonOfAnyone == TRUE
\* The reason on the row is still the one that this copy has put there.
ReasonIsOurs == lastError = "stuck"

\* A line of statistics: the files are counted, and the reason is set once that
\* nothing gets through, or is found to be over.
Stats ==
  LET stuckNow == Failing >= StuckAfter /\ ~line.stuck
      through == Failing = 0 /\ line.stuck IN
  /\ drive = "copying" /\ ~line.clearing
  /\ filesCopied' = filesCopied + Delta
  /\ lastError' = IF stuckNow THEN "stuck" ELSE lastError
  /\ line' = [files |-> transfers, failing |-> Failing,
              stuck |-> (line.stuck \/ stuckNow) /\ ~through,
              clearing |-> through /\ ReasonIsOurs]
  /\ newErrors' = FALSE
  /\ UNCHANGED <<drive, dest, transferred, transfers, check>>

ClearReason ==
  /\ line.clearing /\ line' = [line EXCEPT !.clearing = FALSE]
  /\ lastError' = "none"
  /\ UNCHANGED <<drive, filesCopied, dest, rclone, check>>

\* The Photos half stops: failPhotos, reconnectPhotos.
PhotosStop ==
  /\ "race" \in Events \/ ~line.clearing
  /\ lastError' = "photos"
  /\ UNCHANGED <<drive, filesCopied, dest, rclone, line, check>>

\* rclone ends: with an error, which is a failure or a connection to renew, or
\* cleanly, which does not mean that every file is there.
RcloneEnds ==
  /\ drive = "copying" /\ ~line.clearing
  /\ \/ drive' = "verifying" /\ UNCHANGED lastError
     \/ drive' \in {"failed", "selecting"} /\ lastError' = "drive"
  /\ UNCHANGED <<filesCopied, dest, rclone, line, check>>

----------------------------------------------------------------------------
(* VerifyDrive *)

\* What the report of rclone check says of the files it was asked about.
Reported(asked) == IF "cut" \in Events THEN SUBSET asked ELSE {asked}

\* A mutant: a shorter file is good enough.
CheckTreeByName ==
  /\ drive = "verifying" /\ check.pc = "tree"
  /\ \E seen \in Reported(Tree) :
       check' = [pc |-> "sample", checked |-> Cardinality(seen),
                 bad |-> Cardinality({f \in seen : dest[f] = "absent"}),
                 matched |-> {f \in seen : Arrived(f)}]
  /\ UNCHANGED <<row, dest, rclone, line>>

\* Every file, by its size.
CheckTree ==
  /\ drive = "verifying" /\ check.pc = "tree"
  /\ \E seen \in Reported(Tree) :
       check' = [pc |-> "sample", checked |-> Cardinality(seen),
                 bad |-> Cardinality({f \in seen : ~Arrived(f)}),
                 matched |-> {f \in seen : Arrived(f)}]
  /\ UNCHANGED <<row, dest, rclone, line>>

\* The listing of the Google documents, which says there are none if it fails.
nativeDocPaths == {Native} \cup (IF "unlisted" \in Events THEN {{}} ELSE {})

\* A mutant: documents are compared byte for byte.
SampleableAll(listed) == check.matched
Sampleable(listed) == check.matched \ listed

\* A few of the files whose sizes match, byte for byte, or none of them if the
\* check cannot run.
CheckSample ==
  /\ drive = "verifying" /\ check.pc = "sample"
  /\ \E listed \in nativeDocPaths :
     \E picked \in SUBSET Sampleable(listed) :
       /\ Cardinality(picked) <= SampleSize
       /\ picked # Sampleable(listed) => Cardinality(picked) = SampleSize \/ picked = {}
       /\ \E seen \in Reported(picked) :
            check' = [check EXCEPT !.pc = "verdict",
                                   !.checked = @ + Cardinality(seen),
                                   !.bad = @ + Cardinality({f \in seen : ~SameBytes(f)})]
  /\ UNCHANGED <<row, dest, rclone, line>>

\* Verify.OK.
OK == check.checked > 0 /\ check.bad = 0

Verdict ==
  /\ drive = "verifying" /\ check.pc = "verdict"
  /\ IF OK THEN drive' = "done" /\ UNCHANGED lastError
           ELSE drive' = "failed" /\ lastError' = "mismatch"
  /\ UNCHANGED <<filesCopied, dest, rclone, line, check>>

\* rclone cannot be given its environment: the copy fails unchecked.
CheckCannotRun ==
  /\ drive = "verifying" /\ check.pc = "tree"
  /\ drive' = "failed" /\ lastError' = "drive"
  /\ UNCHANGED <<filesCopied, dest, rclone, line, check>>

\* A mutant: the half starts over from its first screen, as Photos does.
RestartNotStarted ==
  /\ "restart" \in Events /\ drive \in {"copying", "verifying"}
  /\ drive' = "not_started"
  /\ transfers' = 0 /\ newErrors' = FALSE /\ line' = NoLine /\ check' = NoCheck
  /\ UNCHANGED <<filesCopied, lastError, dest, transferred>>

\* RecoverInterrupted: the copy can be started again, and goes on.
Restart ==
  /\ "restart" \in Events /\ drive \in {"copying", "verifying"}
  /\ drive' = "selecting"
  /\ transfers' = 0 /\ newErrors' = FALSE /\ line' = NoLine /\ check' = NoCheck
  /\ UNCHANGED <<filesCopied, lastError, dest, transferred>>

----------------------------------------------------------------------------

Init ==
  /\ drive = "selecting" /\ filesCopied = 0 /\ lastError = "none"
  /\ dest = [f \in Files |-> "absent"]
  /\ transferred = 0 /\ transfers = 0 /\ newErrors = FALSE
  /\ line = NoLine /\ check = NoCheck

Next ==
  \/ StartDrive \/ Transfer \/ UploadFails \/ Rescan \/ Stats \/ ClearReason
  \/ PhotosStop \/ RcloneEnds \/ CheckTree \/ CheckSample \/ Verdict
  \/ CheckCannotRun \/ Restart

Spec == Init /\ [][Next]_vars

----------------------------------------------------------------------------
(* Properties *)

\* Every variable stays within its type.
TypeOK ==
  /\ drive \in DriveStates /\ filesCopied \in Nat /\ lastError \in Errors
  /\ dest \in [Files -> Landed]
  /\ transferred \in 0..MaxTransfers /\ transfers \in Nat /\ newErrors \in BOOLEAN
  /\ line \in Lines /\ check \in Checks

\* The count of files never falls and is never more than what was transferred,
\* over any number of copies and restarts: "summing the totals would multiply the
\* real figure", "a negative delta would subtract" (runDrive), and a copy that is
\* resumed goes on from what is stored.
CountedOnce == [][filesCopied <= filesCopied' /\ filesCopied' <= transferred']_vars

\* A half that is done has every file of the Drive in Nextcloud, with the size it
\* should have: the check "catches a file that never arrived or arrived truncated"
\* (VerifyDrive), also after a copy that ended cleanly.
DoneIsWhole == drive = "done" => \A f \in Files \ Excluded : Arrived(f)

\* The check fails a copy for what is really wrong with it, and counts each file
\* once: not for the Takeout folder, nor for documents whose exports differ, nor
\* twice for one file ("a mismatch that no retry can clear").
NoFalseAlarm ==
  [][drive = "verifying" /\ drive' = "failed" /\ lastError' = "mismatch" =>
       check.bad \in 1..Cardinality({f \in Files \ Excluded : dest[f] # "same"})]_vars

\* Drive takes back only the reason that it has given itself: "unless something
\* else has replaced it in the meantime" (runDrive).
PhotosErrorStays == [][lastError = "photos" => lastError' # "none"]_vars
=============================================================================
