------------------------------ MODULE LeftOut ------------------------------
(***************************************************************************)
(* The files an import leaves out, and the three ways on from there: import *)
(* everything again, send only those files again, accept the result.  How   *)
(* many were left out is in immich-go's report, which ones is in its log,   *)
(* and the outcome of a retry is folded into the record of the import that  *)
(* it retries.  Who may start which of the three is PhotosTrack: here the   *)
(* half is one person's, and one run at a time has it.                      *)
(***************************************************************************)
EXTENDS Integers, FiniteSets, SequencesExt

CONSTANTS
  Files,        \* assets in the archives
  LogName,      \* what the log calls each: a name that holds " word=" is cut
  MaxProblems,  \* core.MaxProblems
  Events        \* which of AllEvents may happen in this instance

(***************************************************************************)
(*   restart   the process stops and starts again                          *)
(*   more      another archive lands in the staging folder                  *)
(*   extra     the log has an ERR line about a file that was processed      *)
(*   lost      the log says nothing of a file that was not                  *)
(*   cancel    both in one import, also of a file that it passed over       *)
(*   noLog     the log cannot be read                                       *)
(*   partial   a copy that fails leaves a piece of its file behind          *)
(*   unstored  the record of an import cannot be stored                     *)
(***************************************************************************)
AllEvents == {"restart", "more", "extra", "lost", "cancel", "noLog", "partial",
              "unstored"}

ASSUME FilesAssumption == IsFiniteSet(Files)
ASSUME LogNameAssumption ==
  /\ DOMAIN LogName = Files
  /\ \A f \in Files : LogName[f] = f \/ LogName[f] \notin Files
ASSUME MaxProblemsAssumption == MaxProblems \in Nat
ASSUME EventsAssumption == Events \subseteq AllEvents

VARIABLES
  photos,    \* PhotosStates                    migrations.photos_state
  leftOut,   \* photos_progress is FailImportErrors (Migration.LeftOut)
  accepted,  \* the half is done because the person said so
  staged,    \* files in the archives of the staging folder
  immich,    \* files that are in the library
  given,     \* files the last whole import was given
  verified,  \* Verifies                        LatestVerification
  assets,    \* Nat                             migrations.photos_assets_added
  run        \* Runs                            the run that has the half

state == <<photos, leftOut, accepted>>
record == <<verified, assets>>
vars == <<photos, leftOut, accepted, staged, immich, given, verified, assets, run>>

PhotosStates == {"not_started", "importing", "failed", "done"}

Names == Files \cup {LogName[f] : f \in Files}
Problem == [file : Names, pending : BOOLEAN, missing : BOOLEAN]
NoVerify == [checked |-> 0, matched |-> 0, mismatch |-> 0, problems |-> <<>>]

\* Verify.ProblemsComplete: as many names as files left out.
ProblemsComplete(v) == Len(v.problems) = v.mismatch

\* A mutant: a list with one file that can be sent again will do.
CanRetryAny(v) == \E p \in Range(v.problems) : ~p.missing
CanRetryProblems(v) == ProblemsComplete(v) /\ \E p \in Range(v.problems) : ~p.missing

Report(p, d, e, o) == [processed |-> p, discarded |-> d, errors |-> e, pending |-> o]
NoReport == Report(0, 0, 0, 0)
Reached(r) == r # NoReport

NoRun == [kind |-> "none", pc |-> "idle", prev |-> NoVerify, missing |-> <<>>,
          sent |-> <<>>, report |-> NoReport, named |-> <<>>, left |-> 0]

----------------------------------------------------------------------------
(* immich-go: what it does with a file, its report and its log *)

\* The count of the report that a file is in, and the lines the log has about it.
Outcomes == [
  processed |-> [count |-> "processed", lines |-> <<"discovered", "metadata", "uploaded">>],
  extra     |-> [count |-> "processed", lines |-> <<"discovered", "uploaded", "ERR">>],
  discarded |-> [count |-> "discarded", lines |-> <<"discovered", "duplicate">>],
  errors    |-> [count |-> "errors",    lines |-> <<"discovered", "ERR">>],
  lost      |-> [count |-> "errors",    lines |-> <<>>],
  pending   |-> [count |-> "pending",   lines |-> <<"discovered", "metadata">>],
  skipped   |-> [count |-> "none",      lines |-> <<>>]]

With(out, c) == {i \in DOMAIN out : Outcomes[out[i]].count = c}

\* parseImmichReport of the report.
Counted(out) == Report(Cardinality(With(out, "processed")), Cardinality(With(out, "discarded")),
                       Cardinality(With(out, "errors")), Cardinality(With(out, "pending")))

Left(file, isPending) == [file |-> file, pending |-> isPending, missing |-> FALSE]
Add(problems, p) == IF Len(problems) < MaxProblems THEN Append(problems, p) ELSE problems

\* A mutant: an error leaves the file among those without an outcome.
ReadLineErrorStaysOpen(s, line) ==
  CASE line.label = "ERR" -> [s EXCEPT !.problems = Add(@, Left(line.file, FALSE))]
    [] line.label = "discovered" ->
         [s EXCEPT !.open = @ \cup {line.file},
                   !.order = IF line.file \in Range(@) THEN @ ELSE Append(@, line.file)]
    [] line.label = "metadata" -> s
    [] OTHER -> [s EXCEPT !.open = @ \ {line.file}]

\* One line of the log.
ReadLine(s, line) ==
  CASE line.label = "ERR" ->
         [s EXCEPT !.problems = IF line.file \in s.named THEN @ ELSE Add(@, Left(line.file, FALSE)),
                   !.named = @ \cup {line.file},
                   !.open = @ \ {line.file}]
    [] line.label = "discovered" ->
         [s EXCEPT !.open = @ \cup {line.file},
                   !.order = IF line.file \in Range(@) THEN @ ELSE Append(@, line.file)]
    [] line.label = "metadata" -> s
    [] OTHER -> [s EXCEPT !.open = @ \ {line.file}]

\* The lines about a file, one after another.
ReadFile(s, f, o) ==
  LET lines == Outcomes[o].lines
      read(q, k) == IF k \in DOMAIN lines
                    THEN ReadLine(q, [label |-> lines[k], file |-> LogName[f]]) ELSE q
  IN read(read(read(s, 1), 2), 3)

\* What has been read after n files, for every n.
ReadLog(sent, out) ==
  LET read[n \in 0..Len(sent)] ==
        IF n = 0 THEN [problems |-> <<>>, named |-> {}, open |-> {}, order |-> <<>>]
        ELSE ReadFile(read[n - 1], sent[n], out[n])
  IN read

\* The problems of the files in F, in their order.
Keep(problems, F) ==
  LET kept[n \in 0..Len(problems)] ==
        IF n = 0 THEN <<>>
        ELSE IF problems[n].file \in F THEN Append(kept[n - 1], problems[n]) ELSE kept[n - 1]
  IN kept[Len(problems)]

Shown(problems) == IF Len(problems) <= MaxProblems THEN problems ELSE SubSeq(problems, 1, MaxProblems)

\* The errors as the log has them, then the files without an outcome.
immichProblems(sent, out) ==
  LET s == ReadLog(sent, out)[Len(sent)]
      discovered == [i \in DOMAIN s.order |-> Left(s.order[i], TRUE)]
  IN Shown(s.problems \o Keep(discovered, s.open))

\* The log of an import names a file too many, or one too few.
NamesOther(out) == \E i \in DOMAIN out : out[i] = "extra"
NamesFewer(sent, out, ps) ==
  LET left == With(out, "errors") \cup With(out, "pending") \cup With(out, "none")
  IN Cardinality({k \in DOMAIN ps : \E i \in left : ps[k].file = LogName[sent[i]]})
       < Cardinality(left)

----------------------------------------------------------------------------
(* The archives, and what the person does *)

PartLands ==
  /\ "more" \in Events
  /\ \E f \in Files \ staged : staged' = staged \cup {f}
  /\ UNCHANGED <<state, immich, given, record, run>>

\* An import of all that is staged, from the upload screen or the retry button.
LaunchImport ==
  /\ photos \in {"not_started", "failed"} /\ staged # {}
  /\ photos' = "importing" /\ leftOut' = FALSE /\ accepted' = FALSE
  /\ given' = staged
  /\ run' = [NoRun EXCEPT !.kind = "full", !.pc = "immichgo", !.sent = SetToSeq(staged)]
  /\ UNCHANGED <<staged, immich, record>>

\* Both settle what the last import left out, and only that (settleable).
RetryPhotosProblems ==
  /\ photos = "failed" /\ leftOut /\ CanRetryProblems(verified)
  /\ photos' = "importing" /\ leftOut' = FALSE
  /\ run' = [NoRun EXCEPT !.kind = "retry", !.pc = "copy", !.prev = verified]
  /\ UNCHANGED <<accepted, staged, immich, given, record>>

AcceptPhotos ==
  /\ photos = "failed" /\ leftOut
  /\ photos' = "done" /\ leftOut' = FALSE /\ accepted' = TRUE
  /\ UNCHANGED <<staged, immich, given, record, run>>

----------------------------------------------------------------------------
(* The run *)

\* The run ends with a reason; with lo that is the card with the files.
failPhotos(lo) ==
  /\ photos' = "failed" /\ leftOut' = lo /\ UNCHANGED accepted
  /\ run' = NoRun

restoreLeftOut == failPhotos(TRUE)

\* A record goes into the database, or the failure is only logged.
PutVerification(v) == verified' = v \/ ("unstored" \in Events /\ UNCHANGED verified)

notFound(p) == [p EXCEPT !.missing = TRUE]

\* extractProblems copies the files it finds out of the archives (a copy can fail
\* of a file that is there); the others are marked.  What lies in the folder for
\* immich-go are the copies, and the pieces that failed ones have left.
extractProblems ==
  LET problems == run.prev.problems IN
  /\ run.pc = "copy"
  /\ \E found \in SUBSET (staged \cap {p.file : p \in Range(problems)}),
        pieces \in SUBSET (IF "partial" \in Events THEN staged ELSE {}) :
       LET gone == Keep(problems, Names \ found)
           sent == Keep(problems, found \cup pieces)
           missing == [k \in DOMAIN gone |-> notFound(gone[k])]
       IN IF found = {}
          THEN PutVerification([run.prev EXCEPT !.problems = missing]) /\ restoreLeftOut
          ELSE /\ run' = [run EXCEPT !.pc = "immichgo", !.missing = missing,
                                     !.sent = [k \in DOMAIN sent |-> sent[k].file]]
               /\ UNCHANGED <<state, verified>>
  /\ UNCHANGED <<staged, immich, given, assets>>

\* No folder for the copies, or no key.
RetryCannotStart ==
  /\ run.pc = "copy"
  /\ restoreLeftOut \/ failPhotos(FALSE)
  /\ UNCHANGED <<staged, immich, given, record>>

\* The files that could not be copied.
Marked == {p.file : p \in Range(run.missing)}

\* What immich-go can do with the files: a file that is in the library already is
\* a duplicate, and only folder mode passes over a file without a word.
Possible(out) ==
  /\ \A i \in DOMAIN out :
       /\ out[i] \in {"processed", "extra"} => run.sent[i] \notin immich
       /\ out[i] = "discarded" => run.sent[i] \in immich
       /\ out[i] = "extra" => "extra" \in Events
       /\ out[i] = "lost" => "lost" \in Events
  /\ run.kind = "full" =>
       \/ \A i \in DOMAIN out : out[i] = "skipped"
       \/ \A i \in DOMAIN out : out[i] # "skipped"

\* immich-go comes to its report.  A file with an error may be in the library all
\* the same: Immich refused what came after the upload.  A piece is not its file,
\* unless only the date of the copy could not be set.
ImmichGoReports ==
  /\ run.pc = "immichgo"
  /\ \E out \in {o \in [DOMAIN run.sent -> DOMAIN Outcomes] : Possible(o)} :
     LET log == immichProblems(run.sent, out)
         in(c) == {run.sent[i] : i \in With(out, c)}
     IN /\ "cancel" \in Events \/ ~(NamesOther(out) /\ NamesFewer(run.sent, out, log))
        /\ \E landed \in SUBSET (in("errors") \cup (in("processed") \cap Marked)) :
             immich' = immich \cup (in("processed") \ Marked) \cup landed
        /\ \E named \in {log} \cup (IF "noLog" \in Events THEN {<<>>} ELSE {}) :
             run' = [run EXCEPT !.pc = "assets", !.report = Counted(out), !.named = named]
  /\ UNCHANGED <<state, staged, given, record>>

\* immich-go ends without its report, with some of the files in the library.
ImmichGoBreaks ==
  /\ run.pc = "immichgo"
  /\ \E landed \in SUBSET Range(run.sent) : immich' = immich \cup landed
  /\ IF run.kind = "retry" THEN restoreLeftOut ELSE failPhotos(FALSE)
  /\ UNCHANGED <<staged, given, record>>

\* And the reason is that Immich refuses the key: reconnectPhotos.
ImmichRefuses ==
  /\ run.pc = "immichgo"
  /\ \E landed \in SUBSET Range(run.sent) : immich' = immich \cup landed
  /\ photos' = "not_started" /\ leftOut' = FALSE /\ run' = NoRun
  /\ UNCHANGED <<accepted, staged, given, record>>

\* A mutant: the count of the last run.
AssetsOf(r) == r.processed
AssetsAdded(r) == r.processed + (IF run.kind = "retry" THEN assets ELSE 0)

\* finishPhotosImport: an import that found no assets is a failure of its own...
FinishEmpty ==
  /\ run.pc = "assets" /\ run.kind = "full" /\ ~Reached(run.report)
  /\ failPhotos(FALSE)
  /\ UNCHANGED <<staged, immich, given, record>>

\* ... else the files that it brought over are counted...
SetPhotosAssets ==
  /\ run.pc = "assets" /\ (run.kind = "retry" \/ Reached(run.report))
  /\ assets' = IF run.report.processed > 0 THEN AssetsAdded(run.report) ELSE assets
  /\ run' = [run EXCEPT !.pc = "record"]
  /\ UNCHANGED <<state, staged, immich, given, verified>>

Verify(checked, mismatch, problems) ==
  [checked |-> checked, matched |-> checked - mismatch, mismatch |-> mismatch, problems |-> problems]

\* The record of an import.
Outcome ==
  LET r == run.report
      bad == r.errors + r.pending
  IN Verify(r.processed + bad, bad, IF bad > 0 THEN run.named ELSE <<>>)

\* The files a retry sent: sentOf.
Sent == Keep(run.prev.problems, Names \ Marked)

\* A mutant: a file that folder mode passed over is not counted.
PassedOverNone == 0

\* The files sent that no count of the report is about.
PassedOver ==
  LET r == run.report
      seen == r.processed + r.discarded + r.errors + r.pending
  IN IF seen < Len(Sent) THEN Len(Sent) - seen ELSE 0

\* A mutant: what was not found in the archives is forgotten.
FoldedFoundOnly ==
  LET r == run.report
      named == IF r.errors + r.pending > 0 THEN run.named ELSE <<>>
  IN IF Reached(r)
     THEN Verify(run.prev.checked, r.errors + r.pending + PassedOver, named)
     ELSE Verify(run.prev.checked, Len(Sent), Sent)

\* A mutant: the record becomes that of the few files sent.
FoldedAlone ==
  LET r == run.report
      bad == r.errors + r.pending + PassedOver + Len(run.missing)
      named == IF r.errors + r.pending > 0 THEN run.named ELSE <<>>
  IN Verify(r.processed + bad, bad, named \o run.missing)

\* The record of the import with the outcome of the retry folded in: what the
\* retry did not bring over and what it did not find are what is left out now.
Folded ==
  LET r == run.report
      named == IF r.errors + r.pending > 0 THEN run.named ELSE <<>>
  IN IF Reached(r)
     THEN Verify(run.prev.checked, r.errors + r.pending + PassedOver + Len(run.missing),
                 named \o run.missing)
     ELSE Verify(run.prev.checked, Len(Sent) + Len(run.missing), Sent \o run.missing)

\* ... and the record is stored.
RecordOutcome ==
  LET v == IF run.kind = "retry" THEN Folded ELSE Outcome IN
  /\ run.pc = "record"
  /\ PutVerification(v)
  /\ run' = [NoRun EXCEPT !.kind = run.kind, !.pc = "finish", !.left = v.mismatch]
  /\ UNCHANGED <<state, staged, immich, given, assets>>

\* The one place that decides done from failed.
FinishPhotosImport ==
  /\ run.pc = "finish"
  /\ \/ run.left > 0 /\ failPhotos(TRUE)
     \/ run.left = 0 /\ photos' = "done" /\ run' = NoRun /\ UNCHANGED <<leftOut, accepted>>
  /\ UNCHANGED <<staged, immich, given, record>>

\* RecoverInterrupted: a run that was cut off starts over.
Restart ==
  /\ "restart" \in Events /\ photos = "importing"
  /\ photos' = "not_started" /\ leftOut' = FALSE /\ run' = NoRun
  /\ UNCHANGED <<accepted, staged, immich, given, record>>

----------------------------------------------------------------------------

Init ==
  /\ photos = "not_started" /\ leftOut = FALSE /\ accepted = FALSE
  /\ staged \in SUBSET Files /\ staged # {}
  /\ immich \in SUBSET Files
  /\ given = {} /\ verified = NoVerify /\ assets = 0 /\ run = NoRun

Next ==
  \/ PartLands \/ LaunchImport \/ RetryPhotosProblems \/ AcceptPhotos
  \/ extractProblems \/ RetryCannotStart
  \/ ImmichGoReports \/ ImmichGoBreaks \/ ImmichRefuses
  \/ FinishEmpty \/ SetPhotosAssets \/ RecordOutcome \/ FinishPhotosImport
  \/ Restart

Spec == Init /\ [][Next]_vars

----------------------------------------------------------------------------
(* Properties *)

\* Every variable stays within its type; no count of the record is negative, and
\* the list of names is no longer than what can be shown.
TypeOK ==
  /\ photos \in PhotosStates /\ leftOut \in BOOLEAN /\ accepted \in BOOLEAN
  /\ staged \subseteq Files /\ immich \subseteq Files /\ given \subseteq Files
  /\ \A k \in {"checked", "matched", "mismatch"} : verified[k] \in Nat
  /\ Range(verified.problems) \subseteq Problem
  /\ Len(verified.problems) <= MaxProblems
  /\ assets \in Nat
  /\ run.kind \in {"none", "full", "retry"}
  /\ run.kind = "none" <=> photos # "importing"

\* "Calling the track done would drop the rest without a word" (RetryPhotosProblems):
\* the half is done only when every file the import was given is in the library,
\* through any number of retries, broken runs, copies that fail and names that the
\* log cuts short.  Else the person has said that the result will do.
NothingDropped == photos = "done" /\ ~accepted => given \subseteq immich

\* The card that shows the files left out never says too few of them: what is not
\* in the library yet is counted, also after a retry that broke or brought some.
CardCountsAll == photos = "failed" /\ leftOut => Cardinality(given \ immich) <= verified.mismatch

\* And what it says was brought over is there.
MatchedIsThere == verified.matched <= Cardinality(immich)

\* A retry only improves on the record of the import: "a retry's handful must not
\* replace the library" (finishPhotosImport).
RetryImproves ==
  [][run.kind = "retry" =>
       /\ verified'.checked = verified.checked
       /\ verified'.mismatch <= verified.mismatch
       /\ assets' >= assets]_vars
=============================================================================
