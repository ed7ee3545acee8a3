-------------------------- MODULE DriveCopyProofs --------------------------
(***************************************************************************)
(* DriveCopy for any Drive, any number of copies and any sample size.  Done *)
(* means that every file has arrived (unless rclone check can be cut off    *)
(* unseen), the count of files is that of real transfers, and last_error is *)
(* emptied only by the copy that has filled it (unless Photos writes        *)
(* between the read and the write).                                         *)
(***************************************************************************)
EXTENDS DriveCopy, FiniteSetTheorems, TLAPS

----------------------------------------------------------------------------
(* Typing *)

\* A set of files of the Drive has a size, and one of size 0 is empty.
LEMMA SizeOfFiles ==
  ASSUME NEW S \in SUBSET Files
  PROVE  /\ IsFiniteSet(S) /\ Cardinality(S) \in Nat
         /\ Cardinality(S) = 0 => S = {}
  BY FilesAssumption, FS_Subset, FS_CardinalityType, FS_EmptySet

\* What rclone check reports on is among what it was asked about.
LEMMA ReportedAmong ==
  ASSUME NEW asked, NEW seen \in Reported(asked)
  PROVE  /\ seen \subseteq asked
         /\ "cut" \notin Events => seen = asked
  BY DEF Reported

\* The check once the files seen have been compared byte for byte.
SampleResult(seen) ==
  check' = [pc |-> "verdict",
            checked |-> check.checked + Cardinality(seen),
            bad |-> check.bad + Cardinality({f \in seen : ~SameBytes(f)}),
            matched |-> check.matched]

\* The sample is of files whose sizes match, and of no Google document when these
\* could be listed.
LEMMA SampleSeen ==
  ASSUME check \in Checks, CheckSample
  PROVE  \E seen \in SUBSET check.matched :
           /\ SampleResult(seen)
           /\ "unlisted" \notin Events => seen \cap Native = {}
  <1> DEFINE Result(seen) == check' = [check EXCEPT !.pc = "verdict",
                                         !.checked = @ + Cardinality(seen),
                                         !.bad = @ + Cardinality({f \in seen : ~SameBytes(f)})]
  <1>1. PICK listed \in nativeDocPaths :
          \E picked \in SUBSET Sampleable(listed) : \E seen \in Reported(picked) : Result(seen)
    BY DEF CheckSample
  <1>2. PICK picked \in SUBSET Sampleable(listed) : \E seen \in Reported(picked) : Result(seen)
    BY <1>1
  <1>3. PICK seen \in Reported(picked) : Result(seen)
    BY <1>2
  <1>4. seen \subseteq picked
    BY <1>3, ReportedAmong
  <1>5. seen \in SUBSET check.matched
    BY <1>2, <1>4 DEF Sampleable
  <1>6. "unlisted" \notin Events => seen \cap Native = {}
    BY <1>2, <1>4 DEF Sampleable, nativeDocPaths
  <1>7. SampleResult(seen)
    BY <1>3 DEF SampleResult, Checks
  <1> QED BY <1>5, <1>6, <1>7

\* What is remembered at the start has its type.
LEMMA StartTyped == NoLine \in Lines /\ NoCheck \in Checks
  <1>1. 0 \in 0..StuckAfter
    BY BoundsAssumption
  <1>2. {} \in SUBSET Files
    OBVIOUS
  <1> QED BY <1>1, <1>2 DEF NoLine, Lines, NoCheck, Checks

\* Every step keeps every variable within its type.
LEMMA StepTyped ==
  ASSUME TypeOK, [Next]_vars
  PROVE  TypeOK'
  <1> USE DEF TypeOK, DriveStates, Errors, Landed
  <1>1. CASE StartDrive
    BY <1>1, StartTyped DEF StartDrive
  <1>2. CASE Transfer
    BY <1>2, BoundsAssumption DEF Transfer, row, Tree
  <1>3. CASE UploadFails
    BY <1>3 DEF UploadFails, row
  <1>4. CASE Rescan
    BY <1>4 DEF Rescan, row
  <1>5. CASE Stats
    <2>1. Failing \in 0..StuckAfter
      BY BoundsAssumption DEF Failing, Lines
    <2>2. Delta \in Nat
      BY DEF Delta, Lines
    <2>3. line' \in Lines
      BY <1>5, <2>1 DEF Stats, Lines
    <2>4. filesCopied' \in Nat
      BY <1>5, <2>2 DEF Stats
    <2>5. lastError' \in Errors
      BY <1>5 DEF Stats
    <2>6. UNCHANGED <<drive, dest, transferred, transfers, check>> /\ newErrors' = FALSE
      BY <1>5 DEF Stats
    <2> QED BY <2>3, <2>4, <2>5, <2>6
  <1>6. CASE ClearReason
    <2>1. line' \in Lines
      BY <1>6 DEF ClearReason, Lines
    <2> QED BY <1>6, <2>1 DEF ClearReason, rclone
  <1>7. CASE PhotosStop
    BY <1>7 DEF PhotosStop, rclone
  <1>8. CASE RcloneEnds
    BY <1>8 DEF RcloneEnds, rclone
  <1>9. CASE CheckTree
    <2>1. PICK seen \in Reported(Tree) :
            check' = [pc |-> "sample", checked |-> Cardinality(seen),
                      bad |-> Cardinality({f \in seen : ~Arrived(f)}),
                      matched |-> {f \in seen : Arrived(f)}]
      BY <1>9 DEF CheckTree
    <2>2. seen \in SUBSET Files
      BY <2>1, ReportedAmong DEF Tree
    <2>3. Cardinality(seen) \in Nat /\ Cardinality({f \in seen : ~Arrived(f)}) \in Nat
      BY <2>2, SizeOfFiles
    <2>4. check' \in Checks
      BY <2>1, <2>2, <2>3 DEF Checks
    <2> QED BY <1>9, <2>4 DEF CheckTree, row, rclone
  <1>10. CASE CheckSample
    <2>1. PICK seen \in SUBSET check.matched : SampleResult(seen)
      BY <1>10, SampleSeen
    <2>2. seen \in SUBSET Files
      BY <2>1 DEF Checks
    <2>3. Cardinality(seen) \in Nat /\ Cardinality({f \in seen : ~SameBytes(f)}) \in Nat
      BY <2>2, SizeOfFiles
    <2>4. check' \in Checks
      BY <2>1, <2>3 DEF SampleResult, Checks
    <2> QED BY <1>10, <2>4 DEF CheckSample, row, rclone
  <1>11. CASE Verdict
    BY <1>11 DEF Verdict, rclone
  <1>12. CASE CheckCannotRun
    BY <1>12 DEF CheckCannotRun, rclone
  <1>13. CASE Restart
    BY <1>13, StartTyped DEF Restart
  <1>14. CASE UNCHANGED vars
    BY <1>14 DEF vars
  <1> QED
    BY <1>1, <1>2, <1>3, <1>4, <1>5, <1>6, <1>7, <1>8, <1>9, <1>10, <1>11, <1>12, <1>13, <1>14
    DEF Next

\* THEOREM.  Every variable stays within its type.
THEOREM Typed == Spec => []TypeOK
  <1>1. Init => TypeOK
    <2> SUFFICES ASSUME Init PROVE TypeOK
      OBVIOUS
    <2>1. dest \in [Files -> Landed]
      BY DEF Init, Landed
    <2>2. transferred \in 0..MaxTransfers /\ transfers \in Nat /\ filesCopied \in Nat
      BY BoundsAssumption DEF Init
    <2>3. drive \in DriveStates /\ lastError \in Errors /\ newErrors \in BOOLEAN
      BY DEF Init, DriveStates, Errors
    <2> QED BY <2>1, <2>2, <2>3, StartTyped DEF Init, TypeOK
  <1>2. TypeOK /\ [Next]_vars => TypeOK'
    BY StepTyped
  <1> QED BY <1>1, <1>2, PTL DEF Spec

----------------------------------------------------------------------------
(* Done means arrived *)

\* What a check that has found nothing wrong so far has shown.
CheckShows ==
  /\ drive = "copying" => check = NoCheck
  /\ drive = "verifying" /\ check.pc # "tree" /\ check.bad = 0 =>
       \A f \in Files \ Excluded : Arrived(f)

\* No step makes a check say more than it has seen, nor done without it.
LEMMA StepWhole ==
  ASSUME "cut" \notin Events, TypeOK, CheckShows, DoneIsWhole, [Next]_vars
  PROVE  CheckShows' /\ DoneIsWhole'
  <1> USE DEF CheckShows, DoneIsWhole, Arrived
  <1>1. CASE StartDrive
    BY <1>1 DEF StartDrive
  <1>2. CASE Transfer
    BY <1>2 DEF Transfer, row
  <1>3. CASE UploadFails
    BY <1>3 DEF UploadFails, row
  <1>4. CASE Rescan
    BY <1>4 DEF Rescan, row
  <1>5. CASE Stats
    BY <1>5 DEF Stats
  <1>6. CASE ClearReason
    BY <1>6 DEF ClearReason
  <1>7. CASE PhotosStop
    BY <1>7 DEF PhotosStop
  <1>8. CASE RcloneEnds
    BY <1>8 DEF RcloneEnds, NoCheck
  <1>9. CASE CheckTree
    <2>1. check'.bad = Cardinality({f \in Tree : ~Arrived(f)})
      BY <1>9 DEF CheckTree, Reported
    <2>2. check'.bad = 0 => {f \in Tree : ~Arrived(f)} = {}
      BY <2>1, SizeOfFiles DEF Tree
    <2> QED BY <1>9, <2>2 DEF CheckTree, row, Tree
  <1>10. CASE CheckSample
    <2>1. check \in Checks
      BY DEF TypeOK
    <2>2. PICK seen \in SUBSET check.matched : SampleResult(seen)
      BY <1>10, <2>1, SampleSeen
    <2>3. Cardinality({f \in seen : ~SameBytes(f)}) \in Nat
      BY <2>1, <2>2, SizeOfFiles DEF Checks
    <2>4. check'.bad = 0 => check.bad = 0
      BY <2>1, <2>2, <2>3 DEF SampleResult, Checks
    <2> QED BY <1>10, <2>4 DEF CheckSample, row
  <1>11. CASE Verdict
    BY <1>11 DEF Verdict, OK
  <1>12. CASE CheckCannotRun
    BY <1>12 DEF CheckCannotRun
  <1>13. CASE Restart
    BY <1>13 DEF Restart
  <1>14. CASE UNCHANGED vars
    BY <1>14 DEF vars
  <1> QED
    BY <1>1, <1>2, <1>3, <1>4, <1>5, <1>6, <1>7, <1>8, <1>9, <1>10, <1>11, <1>12, <1>13, <1>14
    DEF Next

\* THEOREM.  As long as rclone check compares everything it is asked to, a half
\* that is done has every file of the Drive in Nextcloud.
THEOREM Whole == ASSUME "cut" \notin Events PROVE Spec => []DoneIsWhole
  <1>1. Init => CheckShows /\ DoneIsWhole
    BY DEF Init, CheckShows, DoneIsWhole
  <1>2. TypeOK /\ CheckShows /\ DoneIsWhole /\ [Next]_vars => (CheckShows /\ DoneIsWhole)'
    BY StepWhole
  <1> QED BY <1>1, <1>2, Typed, PTL DEF Spec

----------------------------------------------------------------------------
(* The count of files *)

\* The next line of statistics will not count a file that was not transferred.
Counted == filesCopied + Delta <= transferred

\* A step adds to the count at most what was transferred since the last line.
LEMMA StepCounted ==
  ASSUME TypeOK, Counted, [Next]_vars
  PROVE  /\ Counted'
         /\ filesCopied <= filesCopied' /\ filesCopied' <= transferred'
  <1>1. /\ filesCopied \in Nat /\ transferred \in Nat /\ transfers \in Nat
        /\ line.files \in Nat
    BY BoundsAssumption DEF TypeOK, Lines
  <1> USE <1>1 DEF Counted, Delta
  <1>2. CASE StartDrive \/ Restart
    BY <1>2 DEF StartDrive, Restart, NoLine
  <1>3. CASE Transfer
    BY <1>3 DEF Transfer, row
  <1>4. CASE Rescan
    <2>1. PICK n \in 0..transfers : n < transfers /\ transfers' = n
      BY <1>4 DEF Rescan
    <2> QED BY <1>4, <2>1 DEF Rescan, row
  <1>5. CASE Stats
    <2>1. line'.files = transfers
      BY <1>5 DEF Stats
    <2> QED BY <1>5, <2>1 DEF Stats
  <1>6. CASE ClearReason
    <2>1. line'.files = line.files
      BY <1>6 DEF ClearReason, TypeOK, Lines
    <2> QED BY <1>6, <2>1 DEF ClearReason, rclone
  <1>7. CASE UNCHANGED <<filesCopied, line, transferred, transfers>>
    BY <1>7
  <1> QED
    BY <1>2, <1>3, <1>4, <1>5, <1>6, <1>7
    DEF Next, UploadFails, PhotosStop, RcloneEnds, CheckTree, CheckSample, Verdict,
        CheckCannotRun, vars, row, rclone

\* THEOREM.  The count of files never falls and never runs ahead of the transfers.
THEOREM CountsOnce == Spec => CountedOnce
  <1>1. Init => Counted
    BY DEF Init, Counted, Delta, NoLine
  <1>2. TypeOK /\ Counted /\ [Next]_vars => Counted'
    BY StepCounted
  <1>3. TypeOK /\ Counted /\ [Next]_vars =>
          [filesCopied <= filesCopied' /\ filesCopied' <= transferred']_vars
    BY StepCounted
  <1> QED BY <1>1, <1>2, <1>3, Typed, PTL DEF Spec, CountedOnce

----------------------------------------------------------------------------
(* The reason that both halves write *)

\* What is about to be emptied is the copy's own reason.
ReasonKept == line.clearing => drive = "copying" /\ lastError = "stuck"

\* No step empties the reason of Photos.
LEMMA StepReason ==
  ASSUME "race" \notin Events, TypeOK, ReasonKept, [Next]_vars
  PROVE  ReasonKept' /\ (lastError = "photos" => lastError' # "none")
  <1> USE DEF ReasonKept
  <1>1. CASE StartDrive \/ Restart
    BY <1>1 DEF StartDrive, Restart, NoLine
  <1>2. CASE Stats
    <2>1. line'.clearing <=> Failing = 0 /\ line.stuck /\ ReasonIsOurs
      BY <1>2 DEF Stats
    <2>2. lastError' \in {"stuck", lastError}
      BY <1>2 DEF Stats
    <2>3. drive' = "copying"
      BY <1>2 DEF Stats
    <2>4. lastError = "stuck" => lastError' = "stuck"
      BY <2>2
    <2> QED BY <2>1, <2>2, <2>3, <2>4 DEF ReasonIsOurs
  <1>3. CASE ClearReason
    <2>1. ~line'.clearing
      BY <1>3 DEF ClearReason, TypeOK, Lines
    <2> QED BY <1>3, <2>1 DEF ClearReason
  <1>4. CASE PhotosStop
    BY <1>4 DEF PhotosStop
  <1>5. CASE RcloneEnds
    BY <1>5 DEF RcloneEnds
  <1>6. CASE Verdict \/ CheckCannotRun
    BY <1>6 DEF Verdict, CheckCannotRun
  <1>7. CASE UNCHANGED <<drive, lastError, line>>
    BY <1>7
  <1> QED
    BY <1>1, <1>2, <1>3, <1>4, <1>5, <1>6, <1>7
    DEF Next, Transfer, UploadFails, Rescan, CheckTree, CheckSample, vars, row

\* THEOREM.  When nothing comes between the read of last_error and the write,
\* Drive never empties the reason that Photos has given.
THEOREM LeavesPhotosReason == ASSUME "race" \notin Events PROVE Spec => PhotosErrorStays
  <1>1. Init => ReasonKept
    BY DEF Init, ReasonKept, NoLine
  <1>2. TypeOK /\ ReasonKept /\ [Next]_vars => ReasonKept'
    BY StepReason
  <1>3. TypeOK /\ ReasonKept /\ [Next]_vars => [lastError = "photos" => lastError' # "none"]_vars
    BY StepReason
  <1> QED BY <1>1, <1>2, <1>3, Typed, PTL DEF Spec, PhotosErrorStays

----------------------------------------------------------------------------
(* A check that fails *)

\* The files that are not what they are in the Drive.
Differing == {f \in Files \ Excluded : dest[f] # "same"}

\* What the check has counted are files that differ, and it has counted some.
CheckCounts ==
  /\ drive = "copying" => check = NoCheck
  /\ drive = "verifying" /\ check.pc = "sample" =>
       /\ check.checked = Cardinality(Files \ Excluded)
       /\ check.bad = Cardinality({f \in Files \ Excluded : ~Arrived(f)})
       /\ check.matched = {f \in Files \ Excluded : Arrived(f)}
  /\ drive = "verifying" /\ check.pc = "verdict" =>
       check.checked > 0 /\ check.bad <= Cardinality(Differing)

\* A file found short and a file found altered are two that differ.
LEMMA SampleCounts ==
  ASSUME NEW seen \in SUBSET {f \in Files \ Excluded : Arrived(f)}, seen \cap Native = {}
  PROVE  Cardinality({f \in Files \ Excluded : ~Arrived(f)})
           + Cardinality({f \in seen : ~SameBytes(f)}) <= Cardinality(Differing)
  <1> DEFINE short == {f \in Files \ Excluded : ~Arrived(f)}
             altered == {f \in seen : ~SameBytes(f)}
  <1>1. short \in SUBSET Files /\ altered \in SUBSET Files /\ Differing \in SUBSET Files
    BY DEF Differing
  <1>2. short \cap altered = {}
    OBVIOUS
  <1>3. short \cup altered \in SUBSET Differing
    BY DEF Differing, Arrived, SameBytes
  <1> HIDE DEF short, altered
  <1>4. /\ IsFiniteSet(short) /\ IsFiniteSet(altered) /\ IsFiniteSet(Differing)
        /\ Cardinality(short) \in Nat /\ Cardinality(altered) \in Nat
    BY <1>1, SizeOfFiles
  <1>5. Cardinality(short \cup altered) = Cardinality(short) + Cardinality(altered) - 0
    BY <1>2, <1>4, FS_Union, FS_EmptySet
  <1>6. Cardinality(short \cup altered) <= Cardinality(Differing)
    BY <1>3, <1>4, FS_Subset
  <1>7. Cardinality(short) + Cardinality(altered) <= Cardinality(Differing)
    BY <1>4, <1>5, <1>6
  <1> QED BY <1>7 DEF short, altered

\* No step counts a file that is what it should be, or one file twice.
LEMMA StepCheckCounts ==
  ASSUME "cut" \notin Events, "unlisted" \notin Events, Files \ Excluded # {},
         TypeOK, CheckCounts, [Next]_vars
  PROVE  CheckCounts'
  <1> USE DEF CheckCounts
  <1>1. CASE StartDrive \/ Restart
    BY <1>1 DEF StartDrive, Restart, NoCheck
  <1>2. CASE Transfer
    BY <1>2 DEF Transfer, row, NoCheck
  <1>3. CASE RcloneEnds
    BY <1>3 DEF RcloneEnds, NoCheck
  <1>4. CASE CheckTree
    <2>1. drive = "verifying" /\ UNCHANGED <<drive, dest>>
      BY <1>4 DEF CheckTree, row
    <2>2. check' = [pc |-> "sample", checked |-> Cardinality(Files \ Excluded),
                    bad |-> Cardinality({f \in Files \ Excluded : ~Arrived(f)}),
                    matched |-> {f \in Files \ Excluded : Arrived(f)}]
      BY <1>4 DEF CheckTree, Reported, Tree
    <2>3. /\ {f \in Files \ Excluded : Arrived(f)}' = {f \in Files \ Excluded : Arrived(f)}
          /\ {f \in Files \ Excluded : ~Arrived(f)}' = {f \in Files \ Excluded : ~Arrived(f)}
      BY <2>1 DEF Arrived
    <2> QED BY <2>1, <2>2, <2>3
  <1>5. CASE CheckSample
    <2>1. check \in Checks
      BY DEF TypeOK
    <2>2. PICK seen \in SUBSET check.matched : SampleResult(seen) /\ seen \cap Native = {}
      BY <1>5, <2>1, SampleSeen
    <2>3. drive = "verifying" /\ check.pc = "sample"
      BY <1>5 DEF CheckSample
    <2>4. seen \in SUBSET {f \in Files \ Excluded : Arrived(f)}
      BY <2>2, <2>3
    <2>5. check.bad + Cardinality({f \in seen : ~SameBytes(f)}) <= Cardinality(Differing)
      BY <2>2, <2>3, <2>4, SampleCounts
    <2>6. check.checked \in Nat \ {0}
      <3>1. Files \ Excluded \in SUBSET Files
        OBVIOUS
      <3> QED BY <2>3, <3>1, SizeOfFiles
    <2>7. Cardinality(seen) \in Nat
      BY <2>4, SizeOfFiles
    <2>8. check'.checked > 0
      BY <2>2, <2>6, <2>7 DEF SampleResult
    <2>9. check'.bad <= Cardinality(Differing)
      BY <2>2, <2>5 DEF SampleResult
    <2>10. check'.pc = "verdict" /\ UNCHANGED <<drive, dest>>
      BY <1>5, <2>2 DEF CheckSample, SampleResult, row
    <2>11. UNCHANGED Differing
      BY <2>10 DEF Differing
    <2> QED BY <2>3, <2>8, <2>9, <2>10, <2>11
  <1>6. CASE Verdict \/ CheckCannotRun
    BY <1>6 DEF Verdict, CheckCannotRun
  <1>7. CASE UNCHANGED <<drive, dest, check>>
    BY <1>7 DEF Differing, Arrived
  <1> QED
    BY <1>1, <1>2, <1>3, <1>4, <1>5, <1>6, <1>7
    DEF Next, UploadFails, Rescan, Stats, ClearReason, PhotosStop, vars, row

\* A check that fails has counted a file that differs, and none twice.
LEMMA AlarmIsReal ==
  ASSUME TypeOK, CheckCounts, Next,
         drive = "verifying", drive' = "failed", lastError' = "mismatch"
  PROVE  check.bad \in 1..Cardinality({f \in Files \ Excluded : dest[f] # "same"})
  <1>1. CASE Verdict
    <2>1. check.pc = "verdict" /\ ~OK
      BY <1>1 DEF Verdict
    <2>2. check.bad \in Nat /\ check.bad # 0
      BY <2>1 DEF OK, CheckCounts, TypeOK, Checks
    <2>3. Differing \in SUBSET Files
      BY DEF Differing
    <2>4. Cardinality(Differing) \in Nat
      BY <2>3, SizeOfFiles
    <2> QED BY <2>1, <2>2, <2>4 DEF CheckCounts, Differing
  <1>2. ~Verdict => FALSE
    BY DEF Next, StartDrive, Transfer, UploadFails, Rescan, Stats, ClearReason, PhotosStop,
           RcloneEnds, CheckTree, CheckSample, CheckCannotRun, Restart, row
  <1> QED BY <1>1, <1>2

\* THEOREM.  As long as rclone check compares everything, the Google documents can
\* be listed and the Drive holds a file besides the Takeout folder, a copy that the
\* check fails has a file that differs, and each is counted once.
THEOREM AlarmsAreReal ==
  ASSUME "cut" \notin Events, "unlisted" \notin Events, Files \ Excluded # {}
  PROVE  Spec => NoFalseAlarm
  <1>1. Init => CheckCounts
    BY DEF Init, CheckCounts
  <1>2. TypeOK /\ CheckCounts /\ [Next]_vars => CheckCounts'
    BY StepCheckCounts
  <1>3. TypeOK /\ CheckCounts /\ [Next]_vars =>
          [drive = "verifying" /\ drive' = "failed" /\ lastError' = "mismatch" =>
             check.bad \in 1..Cardinality({f \in Files \ Excluded : dest[f] # "same"})]_vars
    BY AlarmIsReal
  <1> QED BY <1>1, <1>2, <1>3, Typed, PTL DEF Spec, NoFalseAlarm
=============================================================================
