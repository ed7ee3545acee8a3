---------------------------- MODULE TakeoutWatch ----------------------------
(***************************************************************************)
(* How the watcher decides that an export is finished.  Google writes the  *)
(* archives into a folder of the person's Drive over time and says neither *)
(* how many there will be nor when it is done.  takeoutReady takes the     *)
(* folder for whole when two polls in a row list the same archives with    *)
(* the same sizes and CountParts finds no gap.  The previous listing is    *)
(* kept in memory; the ticker, the clock and the limit of the wait are     *)
(* part of the argument, so time is modelled.                              *)
(*                                                                         *)
(* One person waits.  The other people's turns in the same poll are only   *)
(* the time they take.  Who may write the row besides is PhotosTrack.      *)
(***************************************************************************)
EXTENDS Parts

CONSTANTS
  Export,     \* the archives that the export will consist of
  WholeSize,  \* the size of a finished archive; smaller ones are being written
  Interval,   \* TakeoutPoll, in units of time
  MaxWait,    \* TakeoutMaxWait, in units of time
  Events      \* which of AllEvents may happen in this instance

(***************************************************************************)
(*   restart  the process stops and starts again                           *)
(*   error    a listing fails, or the token cannot be read                 *)
(*   beside   archives that are no part of this export lie in the folder:  *)
(*            the placeholder Google writes, parts of an earlier export    *)
(*   pause    Google writes nothing for a whole interval, in mid-export    *)
(*   crowd    the turns of the people before take longer than no time      *)
(*   stale    the person presses a button while a poll is under way        *)
(***************************************************************************)
AllEvents == {"restart", "error", "beside", "pause", "crowd", "stale"}

ASSUME ExportAssumption == Export \subseteq Archive /\ Export # {}
ASSUME TimeAssumption ==
  /\ WholeSize \in Nat \ {0} /\ Interval \in Nat \ {0} /\ MaxWait \in Nat
ASSUME EventsAssumption == Events \subseteq AllEvents

VARIABLES
  photos,      \* PhotosStates            migrations.photos_state
  waited,      \* 0..MaxWait + 1          the age of migrations.photos_wait_since
  folder,      \* [Archive -> Sizes]      the Takeout folder in Drive
  remembered,  \* a listing               Runner.takeoutSeen of this person
  poll,        \* Polls                   where WatchTakeout is
  listed,      \* 0..MaxWait + 1          the wait's age by the row this poll read
  pending,     \* BOOLEAN                 a tick waits in ticker.C
  phase,       \* 0..Interval - 1         time since the ticker last fired
  quiet,       \* 0..Interval             time since Google last wrote
  ripe         \* time for which a whole export has been waited for undisturbed

row == <<photos, waited>>
clock == <<phase, quiet, ripe>>
vars == <<photos, waited, folder, remembered, poll, listed, pending, phase, quiet, ripe>>

PhotosStates == {"not_started", "awaiting_upload", "awaiting_takeout",
                 "downloading", "done", "failed"}
Polls == {"idle", "turn", "look"}

Absent == -1
Sizes == Absent..WholeSize
Present == {a \in Archive : folder[a] # Absent}
Whole == \A a \in Export : folder[a] = WholeSize
Begun == \E a \in Export : folder[a] # Absent

\* What lsjson says of the .zip files of the folder.
Listing == [a \in Present |-> folder[a]]
Nothing == [a \in {} |-> 0]
Listings == UNION {[S -> Sizes] : S \in SUBSET Archive}

Earlier(a, b) == IF a < b THEN a ELSE b

----------------------------------------------------------------------------
(* The world: time, Google, the person *)

\* Without "crowd" a tick is dealt with before time goes on, and so is a turn.  The
\* ticker is all that makes the watcher look.
DealtAtOnce == "crowd" \in Events \/ (poll = "idle" /\ ~pending)
\* Without "pause" Google writes at least once in every interval until it is done.
Writing == "pause" \in Events \/ ~Begun \/ Whole \/ quiet + 1 < Interval

\* A unit of time.  The ticker holds one tick at most.
Pass ==
  /\ DealtAtOnce /\ Writing
  /\ phase' = IF phase + 1 = Interval THEN 0 ELSE phase + 1
  /\ pending' = (pending \/ phase' = 0)
  /\ waited' = IF photos = "awaiting_takeout" THEN Earlier(waited + 1, MaxWait + 1) ELSE 0
  /\ listed' = IF poll = "turn" THEN Earlier(listed + 1, MaxWait + 1) ELSE 0
  /\ quiet' = Earlier(quiet + 1, Interval)
  /\ ripe' = IF photos = "awaiting_takeout" /\ Whole
             THEN Earlier(ripe + 1, 2 * Interval + 1) ELSE 0
  /\ UNCHANGED <<photos, folder, remembered, poll>>

\* Google creates an archive, empty or not, or writes more of it.
GoogleWrites ==
  \E a \in (IF "beside" \in Events THEN Archive ELSE Export), s \in Sizes :
    /\ folder[a] < s /\ folder' = [folder EXCEPT ![a] = s]
    /\ quiet' = IF a \in Export THEN 0 ELSE quiet
    /\ UNCHANGED <<photos, waited, remembered, poll, listed, pending, phase, ripe>>

\* Buttons.  setPhotosUnlessRunning refuses while a run has the track; entering
\* the wait starts its clock, and so does asking again.  They write the row only:
\* the next look is the next tick's.
Ask ==
  /\ poll = "idle" \/ "stale" \in Events
  /\ photos # "downloading"
  /\ photos' = "awaiting_takeout" /\ waited' = 0
  /\ UNCHANGED <<folder, remembered, poll, listed, pending, clock>>
Leave ==
  /\ poll = "idle" \/ "stale" \in Events
  /\ photos = "awaiting_takeout"
  /\ photos' = "awaiting_upload" /\ waited' = 0 /\ ripe' = 0
  /\ UNCHANGED <<folder, remembered, poll, listed, pending, phase, quiet>>

\* The run that the watcher started: PhotosTrack.
RunEnds ==
  /\ photos = "downloading"
  /\ photos' \in {"done", "failed", "not_started"}
  /\ UNCHANGED <<waited, folder, remembered, poll, listed, pending, clock>>

----------------------------------------------------------------------------
(* The watcher *)

\* A mutant: whoever is listed is forgotten, and whoever is not is kept.
PruneWaiting == IF photos = "awaiting_takeout" THEN Nothing ELSE remembered

\* Listings are remembered for those who wait, and for nobody else.
Prune == IF photos = "awaiting_takeout" THEN remembered ELSE Nothing

PollTakeout ==
  /\ poll = "idle" /\ pending /\ pending' = FALSE
  /\ remembered' = Prune
  /\ IF photos = "awaiting_takeout" THEN poll' = "turn" /\ listed' = waited
     ELSE UNCHANGED <<poll, listed>>
  /\ UNCHANGED <<row, folder, clock>>

\* A mutant: the limit of the wait is not looked at.
ExpiredNever == FALSE
Expired == listed > MaxWait

\* A mutant: the end is one the half does not have.
CheckTakeoutCancels ==
  /\ poll = "turn" /\ listed' = 0
  /\ IF Expired THEN /\ photos' = "late" /\ waited' = 0 /\ poll' = "idle" /\ ripe' = 0
                ELSE poll' = "look" /\ UNCHANGED <<row, ripe>>
  /\ UNCHANGED <<folder, remembered, pending, phase, quiet>>

\* The wait that is too long ends, by the row as the poll has read it.
CheckTakeout ==
  /\ poll = "turn" /\ listed' = 0
  /\ IF Expired THEN /\ photos' = "failed" /\ waited' = 0 /\ poll' = "idle" /\ ripe' = 0
                ELSE poll' = "look" /\ UNCHANGED <<row, ripe>>
  /\ UNCHANGED <<folder, remembered, pending, phase, quiet>>

\* A mutant: two equal listings are enough.
ShapedAnyhow(l) == DOMAIN l # {} /\ \A a \in DOMAIN l : l[a] > 0

\* Shaped like a finished export, the folder's own files being the count.
Shaped(l) ==
  /\ DOMAIN l # {} /\ \A a \in DOMAIN l : l[a] > 0
  /\ Complete(DOMAIN l, Cardinality(DOMAIN l))

\* A mutant: one look is enough.
StableAtOnce(l) == TRUE
\* Unchanged since the look before.
Stable(l) == l = remembered

\* The listing, and what follows from it.  A folder that is not there yet is no
\* error and leaves the memory alone.
TakeoutReady ==
  /\ poll = "look" /\ poll' = "idle"
  /\ \/ remembered' = Listing
     \/ Present = {} /\ UNCHANGED remembered
  /\ IF Shaped(Listing) /\ Stable(Listing)
     THEN photos' = "downloading" /\ waited' = 0 /\ ripe' = 0
     ELSE UNCHANGED <<row, ripe>>
  /\ UNCHANGED <<folder, listed, pending, phase, quiet>>

\* The listing fails, or the token cannot be opened: the turn is over, unless
\* Google refuses the token, which sends the person to connect again.
ListingFails ==
  /\ "error" \in Events /\ poll = "look" /\ poll' = "idle" /\ ripe' = 0
  /\ \/ UNCHANGED row
     \/ photos' \in {"not_started", "failed"} /\ waited' = 0
  /\ UNCHANGED <<folder, remembered, listed, pending, phase, quiet>>

\* The memory and the ticker start over; the wait goes on (RecoverInterrupted
\* resets a download).
Restart ==
  /\ "restart" \in Events
  /\ remembered' = Nothing /\ poll' = "idle" /\ listed' = 0
  /\ pending' = FALSE /\ phase' = 0 /\ ripe' = 0
  /\ photos' = IF photos = "downloading" THEN "not_started" ELSE photos
  /\ UNCHANGED <<waited, folder, quiet>>

----------------------------------------------------------------------------

Init ==
  /\ photos = "not_started" /\ waited = 0
  /\ folder \in [Archive -> {Absent, WholeSize}]
  /\ \A a \in Archive : folder[a] # Absent => "beside" \in Events /\ a \notin Export
  /\ remembered = Nothing /\ poll = "idle" /\ listed = 0
  /\ pending = FALSE /\ phase = 0 /\ quiet = 0 /\ ripe = 0

Watcher == PollTakeout \/ CheckTakeout \/ TakeoutReady \/ ListingFails

Next ==
  \/ Pass \/ GoogleWrites \/ Ask \/ Leave \/ RunEnds
  \/ Watcher \/ Restart

Spec == Init /\ [][Next]_vars

\* Time passes, Google goes on writing, and the watcher's goroutine is scheduled.
FairSpec == Spec /\ WF_vars(Pass) /\ WF_vars(GoogleWrites) /\ WF_vars(Watcher)

----------------------------------------------------------------------------
(* Properties *)

\* Every variable stays within its type.
TypeOK ==
  /\ photos \in PhotosStates
  /\ waited \in 0..MaxWait + 1 /\ listed \in 0..MaxWait + 1
  /\ folder \in [Archive -> Sizes]
  /\ remembered \in Listings
  /\ poll \in Polls /\ pending \in BOOLEAN
  /\ phase \in 0..Interval - 1 /\ quiet \in 0..Interval
  /\ ripe \in 0..2 * Interval + 1

\* The watcher takes an export only when Google has finished it: "importing a
\* half-written export is the failure this whole step exists to avoid"
\* (takeoutReady).  Two looks and the numbers stand for "finished" as long as
\* Google does not pause for a whole interval, however often the process
\* restarts, the listing fails, or the person leaves and comes back.
TakesOnlyWhole == photos = "downloading" => Whole

\* A finished export that is waited for without a restart or a failed listing is
\* taken at the second look at the latest, so within two intervals.
TakenInTime == ripe <= 2 * Interval

\* When Google does pause, what is taken is still an export up to some part: the
\* limit that takeoutReady admits is "a missing TRAILING part", never a gap.  What
\* lies beside the export fills none, unless it has the number of the missing part.
OnlyTailMissing ==
  [][photos # "downloading" /\ photos' = "downloading" =>
       \A a \in Export : folder[a] = Absent =>
         \A b \in Present : Number[b] <= Number[a]]_vars

\* CountParts against what the comment inside it wants (that of the type has it
\* otherwise for a renamed part: NameNeverBlocks): with numbers, a set of archives is complete
\* exactly when every part up to the declared one is there and none beyond, in
\* however many copies and whatever else lies beside; without, when there are as
\* many files as declared.
CountRight ==
  \A n \in 0..Cardinality(Archive) + 1 :
    Complete(Present, n) <=>
      /\ n > 0
      /\ IF \E a \in Present : Number[a] # NoNumber
         THEN /\ \A k \in 1..n : \E a \in Present : Number[a] = k
              /\ \A a \in Present : Number[a] <= n
         ELSE Cardinality(Present) = n

\* What Parts promises of names: they "are never required, because a name Google or
\* the browser changed must not block an export that is otherwise whole", and "a
\* renamed file cannot make a part look missing".  As many archives as were declared,
\* with no number twice or out of range, are an export whatever the other names.
\* CountParts has it otherwise as soon as one name has a number (CountRight).
NameNeverBlocks ==
  LET n == Cardinality(Present)
      wellNumbered == /\ {Number[a] : a \in Numbered(Present)} \subseteq 1..n
                      /\ \A a, b \in Numbered(Present) : Number[a] = Number[b] => a = b
  IN  n > 0 /\ wellNumbered => Complete(Present, n)

\* Nobody waits for good: "watching forever would leave them on a screen that
\* never moves" (checkTakeout), unless they keep asking or the process keeps
\* restarting.
WaitEnds ==
  <>[][~(Ask \/ Restart)]_vars =>
    (photos = "awaiting_takeout" ~> photos # "awaiting_takeout")
=============================================================================
