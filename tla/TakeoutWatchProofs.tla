------------------------- MODULE TakeoutWatchProofs -------------------------
(***************************************************************************)
(* Proofs about Parts and TakeoutWatch, for every set of archives, every   *)
(* interval and every limit of the wait: the count of the parts is right,  *)
(* what is taken too early lacks only its tail, two looks are enough for a *)
(* Google that does not pause, and an export that is ready is taken.       *)
(***************************************************************************)
EXTENDS TakeoutWatch, FiniteSetTheorems, TLAPS

----------------------------------------------------------------------------
(* Parts *)

\* What is seen of a set of archives are its numbers, from 1 on.
LEMMA SeenIs ==
  ASSUME NEW S \in SUBSET Archive
  PROVE  /\ Seen(S) \subseteq Nat \ {0}
         /\ \A k \in Nat \ {0} : k \in Seen(S) <=> \E a \in S : Number[a] = k
         /\ \A a \in S : Number[a] \in Seen(S) \/ Number[a] \in {NoNumber, 0}
  BY NumberAssumption DEF Seen, Numbered, NoNumber

\* The parts are those of the export exactly when none is missing and none is too
\* high: then there are as many as declared.
LEMMA CountIsRight ==
  ASSUME NEW S \in SUBSET Archive, NEW n \in Nat
  PROVE  Complete(S, n) <=>
           /\ n > 0
           /\ IF \E a \in S : Number[a] # NoNumber
              THEN /\ \A k \in 1..n : \E a \in S : Number[a] = k
                   /\ \A a \in S : Number[a] <= n
              ELSE Cardinality(S) = n
  <1>1. CASE \E a \in S : Number[a] # NoNumber
    <2>1. ByNumber(S)
      BY <1>1 DEF ByNumber, Numbered
    <2>2. Complete(S, n) <=> n > 0 /\ Seen(S) = 1..n
      <3>1. ASSUME Complete(S, n) PROVE n > 0 /\ Seen(S) = 1..n
        <4>1. n > 0 /\ (\A k \in Seen(S) : ~(k > n)) /\ 1..n \ Seen(S) = {}
          BY <2>1, <3>1 DEF Complete, TooMany, Missing
        <4>2. ASSUME NEW k \in Seen(S) PROVE k \in 1..n
          BY <4>1, SeenIs
        <4> QED BY <4>1, <4>2
      <3>2. ASSUME n > 0, Seen(S) = 1..n PROVE Complete(S, n)
        <4>1. Cardinality(1..n) = n
          BY <3>2, FS_Interval
        <4> QED BY <2>1, <3>2, <4>1 DEF Complete, TooMany, Missing, Have
      <3> QED BY <3>1, <3>2
    <2>3. Seen(S) = 1..n <=> /\ \A k \in 1..n : \E a \in S : Number[a] = k
                             /\ \A a \in S : Number[a] <= n
      <3>1. ASSUME Seen(S) = 1..n
            PROVE  /\ \A k \in 1..n : \E a \in S : Number[a] = k
                   /\ \A a \in S : Number[a] <= n
        BY <3>1, SeenIs DEF NoNumber
      <3>2. ASSUME \A k \in 1..n : \E a \in S : Number[a] = k, \A a \in S : Number[a] <= n
            PROVE  Seen(S) = 1..n
        <4>1. ASSUME NEW k \in Seen(S) PROVE k \in 1..n
          <5>1. k \in Nat \ {0}
            BY SeenIs
          <5>2. PICK a \in S : Number[a] = k
            BY <5>1, SeenIs
          <5> QED BY <3>2, <5>1, <5>2
        <4>2. ASSUME NEW k \in 1..n PROVE k \in Seen(S)
          BY <3>2, SeenIs
        <4> QED BY <4>1, <4>2
      <3> QED BY <3>1, <3>2
    <2> QED BY <1>1, <2>2, <2>3
  <1>2. CASE ~\E a \in S : Number[a] # NoNumber
    <2>1. Numbered(S) = {} /\ Seen(S) = {}
      BY <1>2 DEF Numbered, Seen
    <2>2. CASE S = {}
      BY <1>2, <2>1, <2>2, FS_EmptySet DEF Complete, Have, ByNumber
    <2>3. CASE S # {}
      BY <1>2, <2>1, <2>3 DEF Complete, TooMany, Missing, Have, ByNumber
    <2> QED BY <2>2, <2>3
  <1> QED BY <1>1, <1>2

\* THEOREM.  Whatever lies in the folder, CountParts calls it complete exactly when
\* it is, for every declared number of parts.
THEOREM CountsRight == Spec => []CountRight
  <1>1. CountRight
    <2> SUFFICES ASSUME NEW n \in 0..Cardinality(Archive) + 1
                 PROVE  Complete(Present, n) <=>
                          /\ n > 0
                          /\ IF \E a \in Present : Number[a] # NoNumber
                             THEN /\ \A k \in 1..n : \E a \in Present : Number[a] = k
                                  /\ \A a \in Present : Number[a] <= n
                             ELSE Cardinality(Present) = n
      BY DEF CountRight
    <2>1. n \in Nat
      BY FS_CardinalityType, NumberAssumption
    <2>2. Present \in SUBSET Archive
      BY DEF Present
    <2> QED BY <2>1, <2>2, CountIsRight
  <1> QED BY <1>1, PTL

----------------------------------------------------------------------------
(* Types *)

\* A listing has the sizes of what is there, and what is there is in the folder.
LEMMA ListingTyped ==
  ASSUME folder \in [Archive -> Sizes]
  PROVE  /\ Listing \in Listings /\ Nothing \in Listings
         /\ Present \subseteq Archive /\ DOMAIN Listing = Present
         /\ \A a \in Present : Listing[a] = folder[a]
  <1>1. Present \in SUBSET Archive
    BY DEF Present
  <1>2. Listing \in [Present -> Sizes]
    BY <1>1 DEF Listing
  <1>3. Nothing \in [{} -> Sizes] /\ {} \in SUBSET Archive
    BY DEF Nothing
  <1> QED BY <1>1, <1>2, <1>3 DEF Listings, Listing

\* The lesser of two numbers.
LEMMA EarlierIs ==
  ASSUME NEW m \in Nat, NEW n \in Nat
  PROVE  /\ Earlier(m, n) \in 0..n
         /\ m <= n => Earlier(m, n) = m
         /\ n <= m => Earlier(m, n) = n
  BY DEF Earlier

\* Clocks start at zero.
LEMMA ZeroTyped ==
  /\ 0 \in 0..MaxWait + 1 /\ 0 \in 0..Interval - 1
  /\ 0 \in 0..Interval /\ 0 \in 0..2 * Interval + 1
  BY TimeAssumption

\* No step leaves the types.
LEMMA StepTyped ==
  ASSUME TypeOK, [Next]_vars
  PROVE  TypeOK'
  <1> USE TimeAssumption, ListingTyped DEF TypeOK, PhotosStates, Polls
  <1>1. CASE Pass
    <2>1. phase' \in 0..Interval - 1 /\ pending' \in BOOLEAN
      BY <1>1 DEF Pass
    <2>2. waited' \in 0..MaxWait + 1 /\ listed' \in 0..MaxWait + 1
      BY <1>1 DEF Pass, Earlier
    <2>3. quiet' \in 0..Interval
      BY <1>1 DEF Pass, Earlier
    <2>4. ripe' \in 0..2 * Interval + 1
      BY <1>1 DEF Pass, Earlier
    <2> QED BY <1>1, <2>1, <2>2, <2>3, <2>4 DEF Pass
  <1>2. CASE GoogleWrites
    <2>1. folder' \in [Archive -> Sizes]
      BY <1>2 DEF GoogleWrites
    <2>2. quiet' \in 0..Interval
      BY <1>2, ZeroTyped DEF GoogleWrites
    <2> QED BY <1>2, <2>1, <2>2 DEF GoogleWrites
  <1>3. CASE Ask
    BY <1>3 DEF Ask, clock
  <1>4. CASE Leave
    BY <1>4 DEF Leave
  <1>5. CASE RunEnds
    BY <1>5 DEF RunEnds, clock
  <1>6. CASE PollTakeout
    BY <1>6 DEF PollTakeout, Prune, row, clock
  <1>7. CASE CheckTakeout
    BY <1>7 DEF CheckTakeout, row
  <1>8. CASE TakeoutReady
    BY <1>8 DEF TakeoutReady, row
  <1>9. CASE ListingFails
    BY <1>9 DEF ListingFails, row
  <1>10. CASE Restart
    <2>1. remembered' \in Listings /\ photos' \in PhotosStates
      BY <1>10 DEF Restart
    <2>2. phase' \in 0..Interval - 1 /\ ripe' \in 0..2 * Interval + 1 /\ listed' \in 0..MaxWait + 1
      BY <1>10, ZeroTyped DEF Restart
    <2> QED BY <1>10, <2>1, <2>2 DEF Restart
  <1>11. CASE UNCHANGED vars
    BY <1>11 DEF vars
  <1> QED
    BY <1>1, <1>2, <1>3, <1>4, <1>5, <1>6, <1>7, <1>8, <1>9, <1>10, <1>11 DEF Next, Watcher

\* THEOREM.  Every variable stays within its type.
THEOREM WatchTyped == Spec => []TypeOK
  <1>1. Init => TypeOK
    <2> SUFFICES ASSUME Init PROVE TypeOK
      OBVIOUS
    <2>1. folder \in [Archive -> Sizes]
      BY TimeAssumption DEF Init, Sizes, Absent
    <2>2. remembered \in Listings
      BY <2>1, ListingTyped DEF Init
    <2> QED BY <2>1, <2>2, ZeroTyped DEF Init, TypeOK, PhotosStates, Polls
  <1>2. TypeOK /\ [Next]_vars => TypeOK'
    BY StepTyped
  <1> QED BY <1>1, <1>2, PTL DEF Spec

----------------------------------------------------------------------------
(* What is taken too early *)

\* Only a look at a folder that is shaped like an export, and lists as before,
\* takes it.
LEMMA OnlyReadyTakes ==
  ASSUME TypeOK, [Next]_vars, photos # "downloading", photos' = "downloading"
  PROVE  TakeoutReady /\ Shaped(Listing) /\ Stable(Listing)
  <1>1. CASE TakeoutReady
    BY <1>1 DEF TakeoutReady, row
  <1>2. ~TakeoutReady => FALSE
    BY DEF Next, Watcher, Pass, GoogleWrites, Ask, Leave, RunEnds, PollTakeout, CheckTakeout,
           ListingFails, Restart, row, vars
  <1> QED BY <1>1, <1>2

\* THEOREM.  When the parts of the export are numbered, and nothing in the folder
\* has the number of a part that is not the last, what is missing when the watcher
\* takes the export comes after all that is there.
THEOREM MissesOnlyTheTail ==
  ASSUME \A a \in Export : Number[a] \in Nat \ {0},
         \A a \in Export : \A b \in Archive \ {a} :
           Number[b] = Number[a] => \A c \in Archive : Number[c] <= Number[a]
  PROVE  Spec => OnlyTailMissing
  <1>1. ASSUME TypeOK, [Next]_vars, photos # "downloading", photos' = "downloading",
               NEW a \in Export, folder[a] = Absent, NEW b \in Present
        PROVE  Number[b] <= Number[a]
    <2> DEFINE n == Cardinality(Present)
    <2>1. Present \in SUBSET Archive /\ a \in Archive /\ a \notin Present
      BY <1>1, ExportAssumption DEF Present
    <2>2. n \in Nat
      BY <2>1, NumberAssumption, FS_Subset, FS_CardinalityType
    <2>3. Complete(Present, n)
      BY <1>1, OnlyReadyTakes, ListingTyped DEF Shaped, TypeOK
    <2>4. Number[a] \in Nat \ {0} /\ Number[b] \in Nat \cup {NoNumber}
      BY <2>1, NumberAssumption
    <2> HIDE DEF n
    <2>5. CASE Number[b] = NoNumber
      BY <2>4, <2>5 DEF NoNumber
    <2>6. CASE Number[b] # NoNumber
      <3>1. /\ \A k \in 1..n : \E c \in Present : Number[c] = k
            /\ Number[b] <= n
        BY <2>1, <2>2, <2>3, <2>6, CountIsRight
      <3>2. CASE Number[a] > n
        BY <2>2, <2>4, <2>6, <3>1, <3>2
      <3>3. CASE Number[a] <= n
        <4>1. Number[a] \in 1..n
          BY <2>2, <2>4, <3>3
        <4>2. PICK c \in Present : Number[c] = Number[a]
          BY <3>1, <4>1
        <4>3. c \in Archive \ {a} /\ b \in Archive
          BY <2>1, <4>2
        <4> QED BY <4>2, <4>3
      <3> QED BY <2>2, <2>4, <3>2, <3>3
    <2> QED BY <2>5, <2>6
  <1>2. TypeOK /\ [Next]_vars =>
          [photos # "downloading" /\ photos' = "downloading" =>
             \A a \in Export : folder[a] = Absent =>
               \A b \in Present : Number[b] <= Number[a]]_vars
    BY <1>1
  <1> QED BY <1>2, WatchTyped, PTL DEF Spec, OnlyTailMissing

----------------------------------------------------------------------------
(* Time and the folder *)

\* How long ago the last look was, if there was one: a poll under way, or due, is
\* a whole interval after it.
Since == IF pending \/ poll # "idle" THEN Interval ELSE phase

\* A tick is dealt with when it comes, and once.
OnTime == /\ pending \/ poll # "idle" => phase = 0
          /\ ~(pending /\ poll # "idle")

\* A listing remembered is of a time when the folder held no more than now.
GrowsOnly == \A a \in DOMAIN remembered : a \in Present /\ remembered[a] <= folder[a]

\* The folder holds the export and nothing else.
NothingBeside == \A a \in Archive \ Export : folder[a] = Absent

\* What is said of the folder stays true while nobody writes into it.
LEMMA FolderSame ==
  ASSUME folder' = folder
  PROVE  Present' = Present /\ Listing' = Listing /\ (Whole' <=> Whole) /\ (Begun' <=> Begun)
  BY DEF Present, Listing, Whole, Begun

\* Only a unit of time brings the next look nearer.
LEMMA StepSince ==
  ASSUME "crowd" \notin Events, TypeOK, OnTime, [Next]_vars
  PROVE  /\ OnTime' /\ Since \in 0..Interval /\ Since' \in 0..Interval
         /\ Pass => Since' = Since + 1
         /\ ~Pass => Since' <= Since
         /\ TakeoutReady => Since = Interval /\ Since' = 0
  <1> USE DEF OnTime, Since
  <1>1. phase \in 0..Interval - 1 /\ Interval \in Nat \ {0} /\ pending \in BOOLEAN
    BY TimeAssumption DEF TypeOK
  <1>2. CASE Pass
    <2>1. poll = "idle" /\ ~pending /\ poll' = "idle"
      BY <1>2 DEF Pass, DealtAtOnce
    <2>2. /\ phase' = IF phase + 1 = Interval THEN 0 ELSE phase + 1
          /\ pending' = (phase' = 0)
      BY <1>2, <2>1 DEF Pass
    <2>3. ~TakeoutReady
      BY <2>1 DEF TakeoutReady
    <2>4. CASE phase + 1 = Interval
      <3>1. phase' = 0 /\ pending'
        BY <1>1, <2>2, <2>4
      <3>2. Since = phase /\ Since' = Interval
        BY <2>1, <3>1
      <3> QED BY <1>1, <1>2, <2>1, <2>3, <2>4, <3>1, <3>2
    <2>5. CASE phase + 1 # Interval
      BY <1>1, <1>2, <2>1, <2>2, <2>3, <2>5
    <2> QED BY <2>4, <2>5
  <1>3. CASE ~Pass
    <2>1. CASE UNCHANGED <<poll, pending, phase>>
      <3>1. ~TakeoutReady
        BY <2>1 DEF TakeoutReady
      <3> QED BY <1>1, <1>3, <2>1, <3>1
    <2>2. CASE PollTakeout
      <3>1. ~TakeoutReady
        BY <2>2 DEF PollTakeout, TakeoutReady
      <3> QED BY <1>1, <1>3, <2>2, <3>1 DEF PollTakeout, clock
    <2>3. CASE CheckTakeout
      <3>1. ~TakeoutReady
        BY <2>3 DEF CheckTakeout, TakeoutReady
      <3> QED BY <1>1, <1>3, <2>3, <3>1 DEF CheckTakeout
    <2>4. CASE TakeoutReady \/ ListingFails
      <3>1. /\ poll = "look" /\ poll' = "idle"
            /\ pending' = pending /\ phase' = phase
        BY <2>4 DEF TakeoutReady, ListingFails
      <3>2. phase = 0 /\ ~pending /\ pending' = FALSE
        BY <3>1
      <3>3. Since = Interval /\ Since' = 0
        BY <3>1, <3>2
      <3> QED BY <1>1, <1>3, <3>1, <3>2, <3>3
    <2>5. CASE Restart
      <3>1. poll' = "idle" /\ pending' = FALSE /\ phase' = 0
        BY <2>5 DEF Restart
      <3>2. TakeoutReady => Since = Interval
        BY DEF TakeoutReady
      <3> QED BY <1>1, <1>3, <3>1, <3>2
    <2> QED
      BY <1>3, <2>1, <2>2, <2>3, <2>4, <2>5
      DEF Next, Watcher, GoogleWrites, Ask, Leave, RunEnds, clock, vars
  <1> QED BY <1>2, <1>3

\* An archive is there with a size, and the size of one that is not there is less
\* than any.
LEMMA PresentSizes ==
  ASSUME TypeOK, NEW a \in Archive
  PROVE  /\ folder[a] \in Int /\ folder[a] <= WholeSize
         /\ a \in Present <=> folder[a] > Absent
  BY TimeAssumption DEF TypeOK, Sizes, Absent, Present

\* Whatever Google writes shows in the listing, and nothing that was there goes.
LEMMA StepGrows ==
  ASSUME TypeOK, GrowsOnly, [Next]_vars
  PROVE  /\ GrowsOnly'
         /\ GoogleWrites => remembered' # Listing'
         /\ ~GoogleWrites => folder' = folder
  <1>1. CASE GoogleWrites
    <2>1. PICK a \in Archive, s \in Sizes :
             folder[a] < s /\ folder' = [folder EXCEPT ![a] = s]
      BY <1>1, ExportAssumption DEF GoogleWrites
    <2>2. remembered' = remembered
      BY <1>1 DEF GoogleWrites
    <2>3. folder \in [Archive -> Sizes] /\ s \in Int /\ Absent \in Int
      BY TimeAssumption DEF TypeOK, Sizes, Absent
    <2>4. \A b \in Archive : folder[b] \in Int /\ folder'[b] \in Int /\ folder[b] <= folder'[b]
      BY <2>1, <2>3, PresentSizes
    <2>5. Present \subseteq Present' /\ a \in Present'
      <3>1. \A b \in Archive : b \in Present => folder[b] > Absent
        BY PresentSizes
      <3>2. folder[a] >= Absent
        BY <2>3 DEF Sizes, Absent
      <3> QED BY <2>1, <2>3, <2>4, <3>1, <3>2 DEF Present
    <2>6. GrowsOnly'
      <3> SUFFICES ASSUME NEW b \in DOMAIN remembered
                   PROVE  b \in Present' /\ remembered[b] <= folder'[b]
        BY <2>2 DEF GrowsOnly
      <3>1. b \in Present /\ remembered[b] <= folder[b]
        BY DEF GrowsOnly
      <3>2. b \in Archive /\ remembered[b] \in Int
        BY <3>1, TimeAssumption DEF TypeOK, Listings, Sizes, Absent, Present
      <3> QED BY <2>4, <2>5, <3>1, <3>2
    <2>7. remembered' # Listing'
      <3> SUFFICES ASSUME remembered = Listing' PROVE FALSE
        BY <2>2
      <3>1. a \in DOMAIN remembered /\ remembered[a] = folder'[a]
        BY <2>5 DEF Listing
      <3>2. remembered[a] = s /\ remembered[a] <= folder[a]
        BY <2>1, <2>3, <3>1 DEF GrowsOnly
      <3> QED BY <2>1, <2>3, <2>4, <3>2
    <2> QED BY <1>1, <2>6, <2>7
  <1>2. CASE ~GoogleWrites
    <2>1. folder' = folder
      BY <1>2 DEF Next, Watcher, Pass, Ask, Leave, RunEnds, PollTakeout, CheckTakeout,
                  TakeoutReady, ListingFails, Restart, vars
    <2>2. remembered' \in {remembered, Listing, Nothing}
      BY <1>2 DEF Next, Watcher, Pass, Ask, Leave, RunEnds, PollTakeout, CheckTakeout, Prune,
                  TakeoutReady, ListingFails, Restart, vars
    <2>3. \A b \in Present : folder[b] <= folder[b]
      BY PresentSizes DEF Present
    <2>4. GrowsOnly'
      BY <2>1, <2>2, <2>3, FolderSame DEF GrowsOnly, Listing, Nothing
    <2> QED BY <1>2, <2>1, <2>4
  <1> QED BY <1>1, <1>2

\* Nothing else comes into the folder.
LEMMA StepNothingBeside ==
  ASSUME "beside" \notin Events, TypeOK, NothingBeside, GrowsOnly, [Next]_vars
  PROVE  NothingBeside' /\ (Whole => Whole' /\ folder' = folder)
  <1>1. CASE GoogleWrites
    <2>1. PICK a \in Export, s \in Sizes :
             folder[a] < s /\ folder' = [folder EXCEPT ![a] = s]
      BY <1>1 DEF GoogleWrites
    <2>2. NothingBeside'
      BY <2>1 DEF NothingBeside, TypeOK
    <2>3. ~Whole
      <3>1. s \in Int /\ WholeSize \in Int /\ s <= WholeSize
        BY TimeAssumption DEF Sizes, Absent
      <3> QED BY <2>1, <3>1 DEF Whole
    <2> QED BY <2>2, <2>3
  <1>2. CASE ~GoogleWrites
    BY <1>2, StepGrows, FolderSame DEF NothingBeside
  <1> QED BY <1>1, <1>2

----------------------------------------------------------------------------
(* Two looks are enough *)

\* Google does not pause: as long as it is writing, it has written within the
\* interval.
Busy == Begun /\ ~Whole => quiet < Interval

\* A listing that was seen before, and is not that of a whole export, has been the
\* same for as long as the last look is ago.
Watched == remembered = Listing /\ Begun /\ ~Whole => Since <= quiet

\* Pass lets no interval go by in which Google does not write.
LEMMA StepBusy ==
  ASSUME "pause" \notin Events, TypeOK, GrowsOnly, Busy, [Next]_vars
  PROVE  Busy'
  <1>1. quiet \in 0..Interval /\ Interval \in Nat \ {0}
    BY TimeAssumption DEF TypeOK
  <1>2. CASE Pass
    <2>1. folder' = folder /\ quiet' = Earlier(quiet + 1, Interval)
          /\ (Begun /\ ~Whole => quiet + 1 < Interval)
      BY <1>2 DEF Pass, Writing
    <2>2. quiet + 1 < Interval => quiet' < Interval
      BY <1>1, <2>1 DEF Earlier
    <2> QED BY <2>1, <2>2, FolderSame DEF Busy
  <1>3. CASE GoogleWrites
    <2>1. quiet' = 0 \/ (quiet' = quiet /\ (Begun' => Begun) /\ (Whole => Whole'))
      <3>1. PICK a \in Archive, s \in Sizes :
               /\ folder[a] < s /\ folder' = [folder EXCEPT ![a] = s]
               /\ quiet' = IF a \in Export THEN 0 ELSE quiet
        BY <1>3, ExportAssumption DEF GoogleWrites
      <3>2. CASE a \in Export
        BY <3>1, <3>2
      <3>3. CASE a \notin Export
        <4>1. \A b \in Export : folder'[b] = folder[b]
          BY <3>1, <3>3, ExportAssumption DEF TypeOK
        <4> QED BY <3>1, <3>3, <4>1 DEF Begun, Whole
      <3> QED BY <3>2, <3>3
    <2>2. quiet' = 0 => Busy'
      BY <1>1, <1>3 DEF Busy, GoogleWrites
    <2> QED BY <2>1, <2>2 DEF Busy
  <1>4. CASE ~Pass /\ ~GoogleWrites
    <2>1. quiet' = quiet /\ folder' = folder
      BY <1>4 DEF Next, Watcher, Ask, Leave, RunEnds, PollTakeout, CheckTakeout,
                  TakeoutReady, ListingFails, Restart, clock, vars
    <2> QED BY <2>1, FolderSame DEF Busy
  <1> QED BY <1>2, <1>3, <1>4

\* What the theorems below know of every state: time, and the folder.
Timed == TypeOK /\ OnTime /\ GrowsOnly /\ NothingBeside

\* All of it holds as long as polls are prompt and the export is alone.
LEMMA AlwaysTimed ==
  ASSUME "crowd" \notin Events, "beside" \notin Events
  PROVE  Spec => []Timed
  <1>1. Init => OnTime /\ GrowsOnly /\ NothingBeside
    BY DEF Init, OnTime, GrowsOnly, NothingBeside, Nothing
  <1>2. TypeOK /\ OnTime /\ GrowsOnly /\ NothingBeside /\ [Next]_vars
          => (OnTime /\ GrowsOnly /\ NothingBeside)'
    BY StepSince, StepGrows, StepNothingBeside
  <1> QED BY <1>1, <1>2, WatchTyped, PTL DEF Spec, Timed

\* The time since the last look is never ahead of the time Google has been quiet.
LEMMA StepWatched ==
  ASSUME "crowd" \notin Events, Timed, Watched, [Next]_vars
  PROVE  Watched'
  <1>1. /\ quiet \in 0..Interval /\ Interval \in Nat \ {0}
        /\ Since \in 0..Interval /\ Since' \in 0..Interval
    BY TimeAssumption, StepSince DEF Timed, TypeOK
  <1> SUFFICES ASSUME remembered' = Listing', Begun', ~Whole' PROVE Since' <= quiet'
    BY DEF Watched
  <1>2. ~GoogleWrites /\ folder' = folder
    BY StepGrows DEF Timed
  <1>3. remembered' = Listing /\ Begun /\ ~Whole /\ Listing # Nothing
    <2>1. remembered' = Listing /\ Begun /\ ~Whole
      BY <1>2, FolderSame
    <2>2. Present # {}
      BY <2>1, ExportAssumption DEF Begun, Present
    <2> QED BY <2>1, <2>2 DEF Listing, Nothing
  <1>4. CASE Pass
    <2>1. Since' = Since + 1
      BY <1>4, StepSince DEF Timed
    <2>2. remembered' = remembered /\ quiet' = Earlier(quiet + 1, Interval)
      BY <1>4 DEF Pass
    <2>3. Since <= quiet
      BY <1>3, <2>2 DEF Watched
    <2>4. quiet' = quiet + 1 \/ quiet' = Interval
      BY <2>2 DEF Earlier
    <2> QED BY <1>1, <2>1, <2>3, <2>4
  <1>5. CASE TakeoutReady
    <2>1. Since' = 0 /\ quiet' = quiet
      BY <1>5, StepSince DEF Timed, TakeoutReady
    <2> QED BY <1>1, <2>1
  <1>6. CASE ~Pass /\ ~TakeoutReady
    <2>1. Since' <= Since /\ quiet' = quiet
      BY <1>2, <1>6, StepSince
      DEF Timed, Next, Watcher, Ask, Leave, RunEnds, PollTakeout, CheckTakeout,
          ListingFails, Restart, clock, vars
    <2>2. remembered' \in {remembered, Nothing}
      BY <1>2, <1>6 DEF Next, Watcher, Ask, Leave, RunEnds, PollTakeout, CheckTakeout, Prune,
                        ListingFails, Restart, vars
    <2>3. Since <= quiet
      BY <1>3, <2>2 DEF Watched
    <2> QED BY <1>1, <2>1, <2>3
  <1> QED BY <1>4, <1>5, <1>6

\* So what two looks agree on is whole.
LEMMA StepTakesWhole ==
  ASSUME "crowd" \notin Events, "beside" \notin Events,
         Timed, Busy, Watched, TakesOnlyWhole, [Next]_vars
  PROVE  TakesOnlyWhole'
  <1> SUFFICES ASSUME photos' = "downloading" PROVE Whole'
    BY DEF TakesOnlyWhole
  <1>1. Whole => Whole'
    BY StepNothingBeside DEF Timed
  <1>2. CASE photos = "downloading"
    BY <1>1, <1>2 DEF TakesOnlyWhole
  <1>3. CASE photos # "downloading"
    <2>1. TakeoutReady /\ Shaped(Listing) /\ Stable(Listing)
      BY <1>3, OnlyReadyTakes DEF Timed
    <2>2. remembered = Listing
      BY <2>1 DEF Stable
    <2>3. Begun
      <3>1. Present # {}
        BY <2>1, ListingTyped DEF Shaped, Timed, TypeOK
      <3> QED BY <3>1 DEF Present, Begun, NothingBeside, Timed
    <2>4. Since = Interval
      BY <2>1, StepSince DEF Timed
    <2>5. ~(Begun /\ ~Whole)
      BY <2>2, <2>4, TimeAssumption DEF Busy, Watched, Timed, TypeOK
    <2> QED BY <1>1, <2>3, <2>5
  <1> QED BY <1>2, <1>3

\* THEOREM.  When every turn is prompt, Google writes at least once in an interval
\* until it is done, and nothing else comes into the folder, the watcher takes an
\* export only when it is whole, whatever restarts, listings that fail and buttons
\* come in between.
THEOREM TwoLooksSuffice ==
  ASSUME "crowd" \notin Events, "beside" \notin Events, "pause" \notin Events
  PROVE  Spec => []TakesOnlyWhole
  <1>1. Init => Busy /\ Watched /\ TakesOnlyWhole
    <2> SUFFICES ASSUME Init PROVE Busy /\ Watched /\ TakesOnlyWhole
      OBVIOUS
    <2>1. ~Begun
      BY ExportAssumption DEF Init, Begun
    <2> QED BY <2>1 DEF Init, Busy, Watched, TakesOnlyWhole
  <1>2. Timed /\ Busy /\ Watched /\ TakesOnlyWhole /\ [Next]_vars
          => (Busy /\ Watched /\ TakesOnlyWhole)'
    BY StepBusy, StepWatched, StepTakesWhole DEF Timed
  <1> QED BY <1>1, <1>2, AlwaysTimed, PTL DEF Spec

----------------------------------------------------------------------------
(* An export that is ready is taken *)

\* The time a finished export has been waited for, against that since the last
\* look: either there was none in that time, or it saw the export.
Ripening ==
  ripe > 0 =>
    /\ photos = "awaiting_takeout" /\ Whole
    /\ ripe <= Since \/ (remembered = Listing /\ ripe <= Interval + Since)

\* A finished export is shaped like one.
LEMMA WholeIsShaped ==
  ASSUME Complete(Export, Cardinality(Export)), TypeOK, NothingBeside, Whole
  PROVE  Shaped(Listing) /\ Present # {}
  <1>1. WholeSize \in Nat \ {0} /\ WholeSize # Absent
    BY TimeAssumption DEF Absent
  <1>2. Present = Export
    BY <1>1, ExportAssumption DEF Present, Whole, NothingBeside
  <1>3. DOMAIN Listing = Export /\ \A a \in Export : Listing[a] > 0
    BY <1>1, <1>2, ListingTyped DEF TypeOK, Whole
  <1> QED BY <1>2, <1>3, ExportAssumption DEF Shaped

\* A look takes it or remembers it.
LEMMA StepRipening ==
  ASSUME "crowd" \notin Events, "beside" \notin Events,
         Complete(Export, Cardinality(Export)), Timed, Ripening, [Next]_vars
  PROVE  Ripening'
  <1>1. /\ ripe \in 0..2 * Interval + 1 /\ Interval \in Nat \ {0}
        /\ Since \in 0..Interval /\ Since' \in 0..Interval
    BY TimeAssumption, StepSince DEF Timed, TypeOK
  <1> SUFFICES ASSUME ripe' > 0 PROVE Ripening'
    BY DEF Ripening
  <1>2. CASE Pass
    <2>1. /\ photos = "awaiting_takeout" /\ Whole
          /\ ripe' = Earlier(ripe + 1, 2 * Interval + 1)
      BY <1>2 DEF Pass
    <2>2. /\ folder' = folder /\ photos' = photos /\ remembered' = remembered
          /\ Since' = Since + 1
      BY <1>2, StepSince DEF Pass, Timed
    <2>3. ripe' <= ripe + 1
      BY <1>1, <2>1 DEF Earlier
    <2>4. ripe' \in Int
      BY <1>1, <2>1 DEF Earlier
    <2>5. ripe' <= Since' \/ (remembered' = Listing' /\ ripe' <= Interval + Since')
      <3>1. CASE ripe = 0
        BY <1>1, <2>2, <2>3, <2>4, <3>1
      <3>2. CASE ripe > 0
        BY <1>1, <2>2, <2>3, <2>4, <3>2, FolderSame DEF Ripening
      <3> QED BY <1>1, <3>1, <3>2
    <2> QED BY <2>1, <2>2, <2>5, FolderSame DEF Ripening
  <1>3. CASE ~Pass
    <2>1. ripe' = ripe
      BY <1>3 DEF Next, Watcher, GoogleWrites, Ask, Leave, RunEnds, PollTakeout, CheckTakeout,
                  TakeoutReady, ListingFails, Restart, clock, vars
    <2>2. photos = "awaiting_takeout" /\ Whole
      BY <2>1 DEF Ripening
    <2>3. Whole' /\ folder' = folder
      BY <2>2, StepNothingBeside DEF Timed
    <2>4. CASE TakeoutReady
      <3>1. Since = Interval /\ Since' = 0
        BY <2>4, StepSince DEF Timed
      <3>2. Shaped(Listing) /\ Present # {}
        BY <2>2, WholeIsShaped DEF Timed
      <3>3. remembered' = Listing /\ ~Stable(Listing) /\ photos' = photos
        BY <2>1, <2>4, <3>2 DEF TakeoutReady, row
      <3>4. ripe <= Interval
        BY <2>1, <3>1, <3>3 DEF Ripening, Stable
      <3> QED BY <1>1, <2>1, <2>2, <2>3, <3>1, <3>3, <3>4, FolderSame DEF Ripening
    <2>5. CASE ~TakeoutReady
      <3>1. photos' = photos /\ remembered' = remembered
        BY <1>3, <2>1, <2>2, <2>5
        DEF Next, Watcher, GoogleWrites, Ask, Leave, RunEnds, PollTakeout, CheckTakeout, Prune,
            ListingFails, Restart, clock, row, vars
      <3>2. Since' = Since
        BY <1>3, <2>1, <2>2, <2>5, StepSince
        DEF Next, Watcher, GoogleWrites, Ask, Leave, RunEnds, PollTakeout, CheckTakeout,
            ListingFails, Restart, clock, row, vars, Since, Timed, OnTime
      <3> QED BY <2>1, <2>2, <2>3, <3>1, <3>2, FolderSame DEF Ripening
    <2> QED BY <2>4, <2>5
  <1> QED BY <1>2, <1>3

\* THEOREM.  When every turn is prompt, the export alone in the folder and its parts
\* such that CountParts calls them complete, a finished export that is waited for
\* is taken within two intervals, however Google has paused before.
THEOREM ReadyIsTaken ==
  ASSUME "crowd" \notin Events, "beside" \notin Events,
         Complete(Export, Cardinality(Export))
  PROVE  Spec => []TakenInTime
  <1>1. Init => Ripening
    BY DEF Init, Ripening
  <1>2. Timed /\ Ripening /\ [Next]_vars => Ripening'
    BY StepRipening
  <1>3. Timed /\ Ripening => TakenInTime
    BY TimeAssumption DEF Timed, Ripening, TakenInTime, TypeOK, Since
  <1> QED BY <1>1, <1>2, <1>3, AlwaysTimed, PTL DEF Spec
=============================================================================
