-------------------------- MODULE PhotosTrackProofs --------------------------
(***************************************************************************)
(* Proofs about PhotosTrack, for any number of people, goroutines, slots   *)
(* and parts: the types, the limiter's count and the claim lock, whatever  *)
(* Events allows; no orphaned track where requests are not cancelled; no   *)
(* stamp on a running track where every end carries one.                   *)
(***************************************************************************)
EXTENDS PhotosTrack, FiniteSetTheorems, TLAPS

\* Where a request is on its way to a waiting screen, and those screens.
Moves == {"move", "moving", "askImmich", "askGoogle"}
Waiting == {"awaiting_upload", "awaiting_takeout"}
MovesWait == \A t \in Tasks : task[t].pc \in Moves => task[t].job \in Waiting

\* Runner.claim is held by the task that is between its check and its write.
LockHeld == \A t \in Tasks : task[t].pc \in Locked <=> claim = t

\* A step of task t moves the limiter's count and the lock as t's place says.
SlotFollows(t) ==
  \/ used' = used /\ (task[t].pc \in InSlot <=> task'[t].pc \in InSlot)
  \/ used' = used + 1 /\ used < Slots /\ task[t].pc \notin InSlot /\ task'[t].pc \in InSlot
  \/ used' = used - 1 /\ task[t].pc \in InSlot /\ task'[t].pc \notin InSlot
LockFollows(t) ==
  \/ claim' = claim /\ (task[t].pc \in Locked <=> task'[t].pc \in Locked)
  \/ claim = NoTask /\ claim' = t /\ task'[t].pc \in Locked
  \/ claim = t /\ claim' = NoTask /\ task'[t].pc \notin Locked

\* Parts of TypeOK that most steps treat alike.
RowTyped == /\ photos \in [Users -> PhotosStates]
            /\ leftOut \in [Users -> BOOLEAN]
            /\ finished \in [Users -> Stamps]
RestTyped == /\ expected \in [Users -> 0..MaxPart]
             /\ auto \in [Users -> BOOLEAN]
             /\ tokens \in [Users -> SUBSET Providers]
             /\ staged \in [Users -> SUBSET Parts]

\* The inductive invariant behind types, slots and lock.  TypeOK is not
\* inductive alone: a move writes its target, and a release must not take the
\* limiter below zero.
Sound == TypeOK /\ SlotsAccounted /\ MovesWait /\ LockHeld

----------------------------------------------------------------------------
(* What the small steps do *)

\* A task's record has the parts TaskStates gives it.
LEMMA Typed ==
  ASSUME TypeOK, NEW t \in Tasks
  PROVE  /\ task[t].pc \in PCs
         /\ task[t].user \in Users \cup {NoUser}
         /\ task[t].job \in Jobs
  BY DEF TypeOK, TaskStates

\* Becoming something concerns the task alone.
LEMMA Becomes ==
  ASSUME TypeOK, NEW t \in Tasks, NEW p \in PCs,
         NEW u \in Users \cup {NoUser}, NEW j \in Jobs, Become(t, p, u, j)
  PROVE  /\ task' \in [Tasks -> TaskStates]
         /\ task'[t].pc = p /\ task'[t].user = u /\ task'[t].job = j
         /\ \A w \in Tasks \ {t} : task'[w] = task[w]
  BY DEF TypeOK, Become, TaskStates

\* So does a step, which keeps the person and the purpose.
LEMMA Steps ==
  ASSUME TypeOK, NEW t \in Tasks, NEW p \in PCs, Step(t, p)
  PROVE  /\ task' \in [Tasks -> TaskStates]
         /\ task'[t].pc = p
         /\ task'[t].user = task[t].user /\ task'[t].job = task[t].job
         /\ \A w \in Tasks \ {t} : task'[w] = task[w]
  BY DEF TypeOK, Become, Step, TaskStates

\* And the end of a goroutine.
LEMMA Ends ==
  ASSUME TypeOK, NEW t \in Tasks, End(t)
  PROVE  /\ task' \in [Tasks -> TaskStates]
         /\ task'[t].pc = "idle" /\ task'[t].user = NoUser /\ task'[t].job = "none"
         /\ \A w \in Tasks \ {t} : task'[w] = task[w]
  BY DEF TypeOK, End, Idle, TaskStates, PCs, Jobs

\* SetPhotosState writes one row, within its type.
LEMMA Writes ==
  ASSUME TypeOK, NEW u, NEW s \in PhotosStates, NEW lo \in BOOLEAN,
         SetPhotosState(u, s, lo)
  PROVE  /\ RowTyped'
         /\ \A v \in Users : photos'[v] = IF v = u THEN s ELSE photos[v]
  BY DEF TypeOK, RowTyped, SetPhotosState, Stamps

\* A step that leaves the rows alone leaves them within their type.
LEMMA Keeps ==
  ASSUME TypeOK, UNCHANGED row
  PROVE  RowTyped' /\ photos' = photos
  BY DEF TypeOK, RowTyped, row

\* A token dropped leaves a set of tokens.
LEMMA Forgets ==
  ASSUME TypeOK, NEW u, NEW p, DeleteToken(u, p)
  PROVE  tokens' \in [Users -> SUBSET Providers]
  BY DEF TypeOK, DeleteToken

----------------------------------------------------------------------------
(* The limiter, the lock and the targets, one task moving at a time *)

\* While a task is inside, the count is not zero.
LEMMA Inside ==
  ASSUME TypeOK, SlotsAccounted, NEW t \in Tasks, task[t].pc \in InSlot
  PROVE  used >= 1
<1> DEFINE S == {w \in Tasks : task[w].pc \in InSlot}
<1>1. IsFiniteSet(S) /\ S # {}
  BY TasksAssumption, FS_Subset
<1>2. Cardinality(S) # 0 /\ Cardinality(S) \in Nat
  BY <1>1, FS_EmptySet, FS_CardinalityType
<1> QED BY <1>2 DEF SlotsAccounted, TypeOK

\* The count follows a task that goes in, comes out or stays where it is.
LEMMA Slot ==
  ASSUME TypeOK, SlotsAccounted, NEW t \in Tasks,
         \A w \in Tasks \ {t} : task'[w] = task[w], SlotFollows(t)
  PROVE  SlotsAccounted' /\ used' \in 0..Slots
<1> DEFINE S == {w \in Tasks : task[w].pc \in InSlot}
           T == {w \in Tasks : task'[w].pc \in InSlot}
<1>1. IsFiniteSet(S)
  BY TasksAssumption, FS_Subset
<1>2. CASE used' = used /\ (task[t].pc \in InSlot <=> task'[t].pc \in InSlot)
  <2>1. T = S BY <1>2
  <2> QED BY <1>2, <2>1 DEF SlotsAccounted, TypeOK
<1>3. CASE used' = used + 1 /\ used < Slots /\ task[t].pc \notin InSlot
                                    /\ task'[t].pc \in InSlot
  <2>1. T = S \cup {t} /\ t \notin S BY <1>3
  <2>2. Cardinality(T) = Cardinality(S) + 1 BY <2>1, <1>1, FS_AddElement
  <2> QED BY <1>3, <2>2, SlotsAssumption DEF SlotsAccounted, TypeOK
<1>4. CASE used' = used - 1 /\ task[t].pc \in InSlot /\ task'[t].pc \notin InSlot
  <2>1. T = S \ {t} /\ t \in S BY <1>4
  <2>2. Cardinality(T) = Cardinality(S) - 1 BY <2>1, <1>1, FS_RemoveElement
  <2> QED BY <1>4, <2>2, Inside, SlotsAssumption DEF SlotsAccounted, TypeOK
<1> QED BY <1>2, <1>3, <1>4 DEF SlotFollows

\* The lock follows a task that takes it, releases it or does neither.
LEMMA Mutex ==
  ASSUME TypeOK, LockHeld, NEW t \in Tasks,
         \A w \in Tasks \ {t} : task'[w] = task[w], LockFollows(t)
  PROVE  LockHeld' /\ claim' \in Tasks \cup {NoTask}
  BY TasksAssumption DEF LockHeld, LockFollows, TypeOK

\* One task moves, and lock and slots follow it.
LEMMA Moved ==
  ASSUME Sound, NEW t \in Tasks,
         task' \in [Tasks -> TaskStates], \A w \in Tasks \ {t} : task'[w] = task[w],
         RowTyped', RestTyped', SlotFollows(t), LockFollows(t),
         task'[t].pc \in Moves => task'[t].job \in Waiting
  PROVE  Sound'
<1>1. SlotsAccounted' /\ used' \in 0..Slots
  BY Slot DEF Sound
<1>2. LockHeld' /\ claim' \in Tasks \cup {NoTask}
  BY Mutex DEF Sound
<1>3. MovesWait'
  BY DEF Sound, MovesWait
<1>4. TypeOK'
  BY <1>1, <1>2 DEF TypeOK, RowTyped, RestTyped
<1> QED BY <1>1, <1>2, <1>3, <1>4 DEF Sound

\* A step in which a task moves without lock, slot or write.
LEMMA Quiet ==
  ASSUME Sound, NEW t \in Tasks, task' \in [Tasks -> TaskStates],
         \A w \in Tasks \ {t} : task'[w] = task[w],
         task[t].pc \notin InSlot \cup Locked, task'[t].pc \notin InSlot \cup Locked,
         task'[t].pc \in Moves => task'[t].job \in Waiting,
         UNCHANGED <<row, settings, tokens, staged, claim, used>>
  PROVE  Sound'
<1>1. TypeOK'
  BY DEF Sound, TypeOK, row, settings
<1>2. SlotFollows(t) /\ LockFollows(t)
  BY DEF SlotFollows, LockFollows
<1> QED BY <1>1, <1>2, Moved DEF TypeOK, RowTyped, RestTyped

----------------------------------------------------------------------------
(* Types, slots, lock *)

\* Sound holds of a fresh database: nothing runs, nobody holds the lock.
LEMMA SoundInit == Init => Sound
<1> SUFFICES ASSUME Init PROVE Sound
  OBVIOUS
<1>1. TypeOK
  <2>1. photos \in [Users -> PhotosStates] /\ finished \in [Users -> Stamps]
    BY DEF Init, PhotosStates, Stamps
  <2>2. task \in [Tasks -> TaskStates]
    BY DEF Init, TaskStates, Idle, PCs, Jobs
  <2> QED BY <2>1, <2>2, SlotsAssumption, PartsAssumption DEF Init, TypeOK
<1>2. SlotsAccounted
  <2>1. {t \in Tasks : task[t].pc \in InSlot} = {}
    BY DEF Init, Idle, InSlot
  <2> QED BY <2>1, FS_EmptySet DEF Init, SlotsAccounted
<1>3. MovesWait /\ LockHeld
  BY TasksAssumption DEF Init, Idle, MovesWait, Moves, LockHeld, Locked
<1> QED BY <1>1, <1>2, <1>3 DEF Sound

\* Every step of the code keeps types, count, targets and lock in agreement.
LEMMA SoundStep == Sound /\ [Next]_vars => Sound'
<1> SUFFICES ASSUME Sound, [Next]_vars PROVE Sound'
  OBVIOUS
<1>sound. TypeOK /\ SlotsAccounted /\ MovesWait /\ LockHeld
  BY DEF Sound
<1>stutter. CASE UNCHANGED vars
  BY <1>stutter, <1>sound
    DEF Sound, TypeOK, SlotsAccounted, MovesWait, LockHeld, vars
<1>AskImmich. ASSUME NEW t \in Tasks, AskImmich(t) PROVE Sound'
  <2>1. /\ task' \in [Tasks -> TaskStates]
        /\ \A w \in Tasks \ {t} : task'[w] = task[w]
    BY <1>AskImmich, <1>sound, Typed, Steps DEF AskImmich, PCs, Jobs
  <2>2. SlotFollows(t) /\ LockFollows(t)
    BY <1>AskImmich, <1>sound, Typed, Steps
      DEF AskImmich, At, SlotFollows, LockFollows, InSlot, Locked, PCs, Jobs
  <2>3. task'[t].pc \in Moves => task'[t].job \in Waiting
    BY <1>AskImmich, <1>sound, Typed, Steps
      DEF AskImmich, At, MovesWait, Moves, Waiting, PCs, Jobs
  <2>4. RowTyped'
    BY <1>AskImmich, <1>sound, Keeps DEF AskImmich
  <2>5. RestTyped'
    BY <1>AskImmich, <1>sound, Forgets
      DEF AskImmich, TypeOK, RestTyped, settings
  <2> QED BY <2>1, <2>2, <2>3, <2>4, <2>5, Moved
<1>AskGoogle. ASSUME NEW t \in Tasks, AskGoogle(t) PROVE Sound'
  <2>1. /\ task' \in [Tasks -> TaskStates]
        /\ \A w \in Tasks \ {t} : task'[w] = task[w]
    BY <1>AskGoogle, <1>sound, Typed, Steps, Ends DEF AskGoogle, PCs, Jobs
  <2>2. SlotFollows(t) /\ LockFollows(t)
    BY <1>AskGoogle, <1>sound, Typed, Steps, Ends
      DEF AskGoogle, At, SlotFollows, LockFollows, InSlot, Locked, PCs, Jobs
  <2>3. task'[t].pc \in Moves => task'[t].job \in Waiting
    BY <1>AskGoogle, <1>sound, Typed, Steps, Ends
      DEF AskGoogle, At, MovesWait, Moves, Waiting, PCs, Jobs
  <2>4. RowTyped'
    BY <1>AskGoogle, <1>sound, Writes, Keeps
      DEF AskGoogle, failPhotos, PhotosStates
  <2>5. RestTyped'
    BY <1>AskGoogle, <1>sound, Forgets
      DEF AskGoogle, TypeOK, RestTyped, settings
  <2> QED BY <2>1, <2>2, <2>3, <2>4, <2>5, Moved
<1>UnlessRunning. ASSUME NEW t \in Tasks, UnlessRunning(t) PROVE Sound'
  <2>1. /\ task' \in [Tasks -> TaskStates]
        /\ \A w \in Tasks \ {t} : task'[w] = task[w]
    BY <1>UnlessRunning, <1>sound, Typed, Steps, Ends
      DEF UnlessRunning, PCs, Jobs
  <2>2. SlotFollows(t) /\ LockFollows(t)
    BY <1>UnlessRunning, <1>sound, Typed, Steps, Ends
      DEF UnlessRunning, At, SlotFollows, LockFollows, Lock, InSlot, Locked,
          PCs, Jobs
  <2>3. task'[t].pc \in Moves => task'[t].job \in Waiting
    BY <1>UnlessRunning, <1>sound, Typed, Steps, Ends
      DEF UnlessRunning, At, MovesWait, Moves, Waiting, PCs, Jobs
  <2>4. RowTyped'
    BY <1>UnlessRunning, <1>sound, Keeps DEF UnlessRunning
  <2>5. RestTyped'
    BY <1>UnlessRunning, <1>sound
      DEF UnlessRunning, TypeOK, RestTyped, settings
  <2> QED BY <2>1, <2>2, <2>3, <2>4, <2>5, Moved
<1>Move. ASSUME NEW t \in Tasks, Move(t) PROVE Sound'
  <2>1. /\ task' \in [Tasks -> TaskStates]
        /\ \A w \in Tasks \ {t} : task'[w] = task[w]
    BY <1>Move, <1>sound, Typed, Ends DEF Move, PCs, Jobs
  <2>2. SlotFollows(t) /\ LockFollows(t)
    BY <1>Move, <1>sound, Typed, Ends
      DEF Move, At, SlotFollows, LockFollows, Unlock, InSlot, Locked, PCs,
          Jobs
  <2>3. task'[t].pc \in Moves => task'[t].job \in Waiting
    BY <1>Move, <1>sound, Typed, Ends DEF Move, At, Moves, Waiting, PCs, Jobs
  <2>4. RowTyped'
    BY <1>Move, <1>sound, Writes
      DEF Move, PhotosStates, MovesWait, Moves, Waiting, At
  <2>5. RestTyped'
    BY <1>Move, <1>sound DEF Move, TypeOK, RestTyped, settings
  <2> QED BY <2>1, <2>2, <2>3, <2>4, <2>5, Moved
<1>ReconnectPhotos. ASSUME NEW t \in Tasks, ReconnectPhotos(t) PROVE Sound'
  <2>1. /\ task' \in [Tasks -> TaskStates]
        /\ \A w \in Tasks \ {t} : task'[w] = task[w]
    BY <1>ReconnectPhotos, <1>sound, Typed, Ends
      DEF ReconnectPhotos, PCs, Jobs
  <2>2. SlotFollows(t) /\ LockFollows(t)
    BY <1>ReconnectPhotos, <1>sound, Typed, Ends
      DEF ReconnectPhotos, At, SlotFollows, LockFollows, InSlot, Locked, PCs,
          Jobs
  <2>3. task'[t].pc \in Moves => task'[t].job \in Waiting
    BY <1>ReconnectPhotos, <1>sound, Typed, Ends
      DEF ReconnectPhotos, At, Moves, Waiting, PCs, Jobs
  <2>4. RowTyped'
    BY <1>ReconnectPhotos, <1>sound, Writes DEF ReconnectPhotos, PhotosStates
  <2>5. RestTyped'
    BY <1>ReconnectPhotos, <1>sound
      DEF ReconnectPhotos, TypeOK, RestTyped, settings
  <2> QED BY <2>1, <2>2, <2>3, <2>4, <2>5, Moved
<1>LaunchPhotosImport. ASSUME NEW t \in Tasks, LaunchPhotosImport(t) PROVE Sound'
  <2>1. /\ task' \in [Tasks -> TaskStates]
        /\ \A w \in Tasks \ {t} : task'[w] = task[w]
    BY <1>LaunchPhotosImport, <1>sound, Typed, Steps, Ends
      DEF LaunchPhotosImport, PCs, Jobs
  <2>2. SlotFollows(t) /\ LockFollows(t)
    BY <1>LaunchPhotosImport, <1>sound, Typed, Steps, Ends
      DEF LaunchPhotosImport, At, SlotFollows, LockFollows, InSlot, Locked,
          PCs, Jobs
  <2>3. task'[t].pc \in Moves => task'[t].job \in Waiting
    BY <1>LaunchPhotosImport, <1>sound, Typed, Steps, Ends
      DEF LaunchPhotosImport, At, Moves, Waiting, PCs, Jobs
  <2>4. RowTyped'
    BY <1>LaunchPhotosImport, <1>sound, Keeps DEF LaunchPhotosImport
  <2>5. RestTyped'
    BY <1>LaunchPhotosImport, <1>sound, Forgets
      DEF LaunchPhotosImport, TypeOK, RestTyped, settings
  <2> QED BY <2>1, <2>2, <2>3, <2>4, <2>5, Moved
<1>Recheck. ASSUME NEW t \in Tasks, Recheck(t) PROVE Sound'
  <2>1. /\ task' \in [Tasks -> TaskStates]
        /\ \A w \in Tasks \ {t} : task'[w] = task[w]
    BY <1>Recheck, <1>sound, Typed, Steps, Ends DEF Recheck, PCs, Jobs
  <2>2. SlotFollows(t) /\ LockFollows(t)
    BY <1>Recheck, <1>sound, Typed, Steps, Ends
      DEF Recheck, At, SlotFollows, LockFollows, Lock, InSlot, Locked, PCs,
          Jobs
  <2>3. task'[t].pc \in Moves => task'[t].job \in Waiting
    BY <1>Recheck, <1>sound, Typed, Steps, Ends
      DEF Recheck, At, Moves, Waiting, PCs, Jobs
  <2>4. RowTyped'
    BY <1>Recheck, <1>sound, Keeps DEF Recheck
  <2>5. RestTyped'
    BY <1>Recheck, <1>sound DEF Recheck, TypeOK, RestTyped, settings
  <2> QED BY <2>1, <2>2, <2>3, <2>4, <2>5, Moved
<1>Claim. ASSUME NEW t \in Tasks, Claim(t) PROVE Sound'
  <2>1. /\ task' \in [Tasks -> TaskStates]
        /\ \A w \in Tasks \ {t} : task'[w] = task[w]
    BY <1>Claim, <1>sound, Typed, Steps DEF Claim, PCs, Jobs
  <2>2. SlotFollows(t) /\ LockFollows(t)
    BY <1>Claim, <1>sound, Typed, Steps
      DEF Claim, At, SlotFollows, LockFollows, Unlock, InSlot, Locked, PCs,
          Jobs
  <2>3. task'[t].pc \in Moves => task'[t].job \in Waiting
    BY <1>Claim, <1>sound, Typed, Steps
      DEF Claim, At, Moves, Waiting, PCs, Jobs
  <2>4. RowTyped'
    BY <1>Claim, <1>sound, Writes DEF Claim, PhotosStates
  <2>5. RestTyped'
    BY <1>Claim, <1>sound DEF Claim, TypeOK, RestTyped, settings
  <2> QED BY <2>1, <2>2, <2>3, <2>4, <2>5, Moved
<1>AcceptPhotos. ASSUME NEW t \in Tasks, AcceptPhotos(t) PROVE Sound'
  <2>1. /\ task' \in [Tasks -> TaskStates]
        /\ \A w \in Tasks \ {t} : task'[w] = task[w]
    BY <1>AcceptPhotos, <1>sound, Typed, Steps, Ends
      DEF AcceptPhotos, photosFinished, PCs, Jobs
  <2>2. SlotFollows(t) /\ LockFollows(t)
    BY <1>AcceptPhotos, <1>sound, Typed, Steps, Ends
      DEF AcceptPhotos, At, SlotFollows, LockFollows, photosFinished, Unlock,
          InSlot, Locked, PCs, Jobs
  <2>3. task'[t].pc \in Moves => task'[t].job \in Waiting
    BY <1>AcceptPhotos, <1>sound, Typed, Steps, Ends
      DEF AcceptPhotos, At, photosFinished, Moves, Waiting, PCs, Jobs
  <2>4. RowTyped'
    BY <1>AcceptPhotos, <1>sound, Writes DEF AcceptPhotos, PhotosStates
  <2>5. RestTyped'
    BY <1>AcceptPhotos, <1>sound DEF AcceptPhotos, TypeOK, RestTyped, settings
  <2> QED BY <2>1, <2>2, <2>3, <2>4, <2>5, Moved
<1>SetPhotosParts. ASSUME NEW t \in Tasks, SetPhotosParts(t) PROVE Sound'
  <2>1. /\ task' \in [Tasks -> TaskStates]
        /\ \A w \in Tasks \ {t} : task'[w] = task[w]
    BY <1>SetPhotosParts, <1>sound, Typed, Steps, Ends
      DEF SetPhotosParts, PCs, Jobs
  <2>2. SlotFollows(t) /\ LockFollows(t)
    BY <1>SetPhotosParts, <1>sound, Typed, Steps, Ends
      DEF SetPhotosParts, At, SlotFollows, LockFollows, InSlot, Locked, PCs,
          Jobs
  <2>3. task'[t].pc \in Moves => task'[t].job \in Waiting
    BY <1>SetPhotosParts, <1>sound, Typed, Steps, Ends
      DEF SetPhotosParts, At, Moves, Waiting, PCs, Jobs
  <2>4. RowTyped'
    BY <1>SetPhotosParts, <1>sound, Keeps DEF SetPhotosParts
  <2>5. RestTyped'
    <3>1. PICK n \in Parts : expected' = [expected EXCEPT ![task[t].user] = n]
      BY <1>SetPhotosParts DEF SetPhotosParts
    <3>2. n \in 0..MaxPart
      BY PartsAssumption DEF Parts
    <3>3. expected' \in [Users -> 0..MaxPart]
      BY <3>1, <3>2, <1>sound DEF TypeOK
    <3> QED
      BY <1>SetPhotosParts, <1>sound, <3>3 DEF SetPhotosParts, TypeOK, RestTyped
  <2> QED BY <2>1, <2>2, <2>3, <2>4, <2>5, Moved
<1>ClaimForImport. ASSUME NEW t \in Tasks, ClaimForImport(t) PROVE Sound'
  <2>1. /\ task' \in [Tasks -> TaskStates]
        /\ \A w \in Tasks \ {t} : task'[w] = task[w]
    BY <1>ClaimForImport, <1>sound, Typed, Steps, Ends
      DEF ClaimForImport, PCs, Jobs
  <2>2. SlotFollows(t) /\ LockFollows(t)
    BY <1>ClaimForImport, <1>sound, Typed, Steps, Ends
      DEF ClaimForImport, At, SlotFollows, LockFollows, Lock, InSlot, Locked,
          PCs, Jobs
  <2>3. task'[t].pc \in Moves => task'[t].job \in Waiting
    BY <1>ClaimForImport, <1>sound, Typed, Steps, Ends
      DEF ClaimForImport, At, Moves, Waiting, PCs, Jobs
  <2>4. RowTyped'
    BY <1>ClaimForImport, <1>sound, Keeps DEF ClaimForImport
  <2>5. RestTyped'
    BY <1>ClaimForImport, <1>sound
      DEF ClaimForImport, TypeOK, RestTyped, settings
  <2> QED BY <2>1, <2>2, <2>3, <2>4, <2>5, Moved
<1>ClaimUpload. ASSUME NEW t \in Tasks, ClaimUpload(t) PROVE Sound'
  <2>1. /\ task' \in [Tasks -> TaskStates]
        /\ \A w \in Tasks \ {t} : task'[w] = task[w]
    BY <1>ClaimUpload, <1>sound, Typed, Becomes DEF ClaimUpload, PCs, Jobs
  <2>2. SlotFollows(t) /\ LockFollows(t)
    BY <1>ClaimUpload, <1>sound, Typed, Becomes
      DEF ClaimUpload, At, SlotFollows, LockFollows, Unlock, InSlot, Locked,
          PCs, Jobs
  <2>3. task'[t].pc \in Moves => task'[t].job \in Waiting
    BY <1>ClaimUpload, <1>sound, Typed, Becomes
      DEF ClaimUpload, At, Moves, Waiting, PCs, Jobs
  <2>4. RowTyped'
    BY <1>ClaimUpload, <1>sound, Writes DEF ClaimUpload, PhotosStates
  <2>5. RestTyped'
    BY <1>ClaimUpload, <1>sound DEF ClaimUpload, TypeOK, RestTyped, settings
  <2> QED BY <2>1, <2>2, <2>3, <2>4, <2>5, Moved
<1>StartUploadedImport. ASSUME NEW t \in Tasks, StartUploadedImport(t) PROVE Sound'
  <2>1. /\ task' \in [Tasks -> TaskStates]
        /\ \A w \in Tasks \ {t} : task'[w] = task[w]
    BY <1>StartUploadedImport, <1>sound, Typed, Steps, Ends
      DEF StartUploadedImport, PCs, Jobs
  <2>2. SlotFollows(t) /\ LockFollows(t)
    BY <1>StartUploadedImport, <1>sound, Typed, Steps, Ends
      DEF StartUploadedImport, At, SlotFollows, LockFollows, InSlot, Locked,
          PCs, Jobs
  <2>3. task'[t].pc \in Moves => task'[t].job \in Waiting
    BY <1>StartUploadedImport, <1>sound, Typed, Steps, Ends
      DEF StartUploadedImport, At, Moves, Waiting, PCs, Jobs
  <2>4. RowTyped'
    BY <1>StartUploadedImport, <1>sound, Writes, Keeps
      DEF StartUploadedImport, failPhotos, PhotosStates
  <2>5. RestTyped'
    BY <1>StartUploadedImport, <1>sound, Forgets
      DEF StartUploadedImport, TypeOK, RestTyped, settings
  <2> QED BY <2>1, <2>2, <2>3, <2>4, <2>5, Moved
<1>ReconnectUpload. ASSUME NEW t \in Tasks, ReconnectUpload(t) PROVE Sound'
  <2>1. /\ task' \in [Tasks -> TaskStates]
        /\ \A w \in Tasks \ {t} : task'[w] = task[w]
    BY <1>ReconnectUpload, <1>sound, Typed, Ends
      DEF ReconnectUpload, PCs, Jobs
  <2>2. SlotFollows(t) /\ LockFollows(t)
    BY <1>ReconnectUpload, <1>sound, Typed, Ends
      DEF ReconnectUpload, At, SlotFollows, LockFollows, InSlot, Locked, PCs,
          Jobs
  <2>3. task'[t].pc \in Moves => task'[t].job \in Waiting
    BY <1>ReconnectUpload, <1>sound, Typed, Ends
      DEF ReconnectUpload, At, Moves, Waiting, PCs, Jobs
  <2>4. RowTyped'
    BY <1>ReconnectUpload, <1>sound, Writes DEF ReconnectUpload, PhotosStates
  <2>5. RestTyped'
    BY <1>ReconnectUpload, <1>sound
      DEF ReconnectUpload, TypeOK, RestTyped, settings
  <2> QED BY <2>1, <2>2, <2>3, <2>4, <2>5, Moved
<1>CheckTakeout. ASSUME NEW t \in Tasks, CheckTakeout(t) PROVE Sound'
  <2>1. /\ task' \in [Tasks -> TaskStates]
        /\ \A w \in Tasks \ {t} : task'[w] = task[w]
        /\ task[t].pc = "look" /\ task'[t].pc \in {"idle", "reconnect", "queued"}
        /\ UNCHANGED <<claim, used>>
    BY <1>CheckTakeout, <1>sound, Typed, Becomes, Steps, Ends
      DEF CheckTakeout, At, PCs, Jobs
  <2>2. SlotFollows(t) /\ LockFollows(t)
    BY <2>1 DEF SlotFollows, LockFollows, InSlot, Locked
  <2>3. task'[t].pc \in Moves => task'[t].job \in Waiting
    BY <2>1 DEF Moves
  <2>4. RowTyped'
    BY <1>CheckTakeout, <1>sound, Writes, Keeps
      DEF CheckTakeout, failPhotos, PhotosStates
  <2>5. RestTyped'
    BY <1>CheckTakeout, <1>sound, Forgets
      DEF CheckTakeout, TypeOK, RestTyped, settings
  <2> QED BY <2>1, <2>2, <2>3, <2>4, <2>5, Moved
<1>Acquire. ASSUME NEW t \in Tasks, Acquire(t) PROVE Sound'
  <2>1. /\ task' \in [Tasks -> TaskStates]
        /\ \A w \in Tasks \ {t} : task'[w] = task[w]
    BY <1>Acquire, <1>sound, Typed, Steps DEF Acquire, PCs, Jobs
  <2>2. SlotFollows(t) /\ LockFollows(t)
    BY <1>Acquire, <1>sound, Typed, Steps
      DEF Acquire, At, SlotFollows, LockFollows, InSlot, Locked, PCs, Jobs
  <2>3. task'[t].pc \in Moves => task'[t].job \in Waiting
    BY <1>Acquire, <1>sound, Typed, Steps
      DEF Acquire, At, Moves, Waiting, PCs, Jobs
  <2>4. RowTyped'
    BY <1>Acquire, <1>sound, Keeps DEF Acquire
  <2>5. RestTyped'
    BY <1>Acquire, <1>sound DEF Acquire, TypeOK, RestTyped, settings
  <2> QED BY <2>1, <2>2, <2>3, <2>4, <2>5, Moved
<1>RunTakeoutDownload. ASSUME NEW t \in Tasks, RunTakeoutDownload(t) PROVE Sound'
  <2>1. /\ task' \in [Tasks -> TaskStates]
        /\ \A w \in Tasks \ {t} : task'[w] = task[w]
    BY <1>RunTakeoutDownload, <1>sound, Typed, Steps, Ends
      DEF RunTakeoutDownload, Stop, PCs, Jobs
  <2>2. SlotFollows(t) /\ LockFollows(t)
    BY <1>RunTakeoutDownload, <1>sound, Typed, Steps, Ends
      DEF RunTakeoutDownload, At, SlotFollows, LockFollows, Stop, Free,
          InSlot, Locked, PCs, Jobs
  <2>3. task'[t].pc \in Moves => task'[t].job \in Waiting
    BY <1>RunTakeoutDownload, <1>sound, Typed, Steps, Ends
      DEF RunTakeoutDownload, At, Stop, Moves, Waiting, PCs, Jobs
  <2>4. RowTyped'
    BY <1>RunTakeoutDownload, <1>sound, Writes, Keeps
      DEF RunTakeoutDownload, Stop, failPhotos, PhotosStates
  <2>5. RestTyped'
    BY <1>RunTakeoutDownload, <1>sound, Forgets
      DEF RunTakeoutDownload, TypeOK, RestTyped, Stop, settings, Parts
  <2> QED BY <2>1, <2>2, <2>3, <2>4, <2>5, Moved
<1>BeginImport. ASSUME NEW t \in Tasks, BeginImport(t) PROVE Sound'
  <2>1. /\ task' \in [Tasks -> TaskStates]
        /\ \A w \in Tasks \ {t} : task'[w] = task[w]
    BY <1>BeginImport, <1>sound, Typed, Steps DEF BeginImport, PCs, Jobs
  <2>2. SlotFollows(t) /\ LockFollows(t)
    BY <1>BeginImport, <1>sound, Typed, Steps
      DEF BeginImport, At, SlotFollows, LockFollows, InSlot, Locked, PCs, Jobs
  <2>3. task'[t].pc \in Moves => task'[t].job \in Waiting
    BY <1>BeginImport, <1>sound, Typed, Steps
      DEF BeginImport, At, Moves, Waiting, PCs, Jobs
  <2>4. RowTyped'
    BY <1>BeginImport, <1>sound, Writes DEF BeginImport, PhotosStates
  <2>5. RestTyped'
    BY <1>BeginImport, <1>sound DEF BeginImport, TypeOK, RestTyped, settings
  <2> QED BY <2>1, <2>2, <2>3, <2>4, <2>5, Moved
<1>ValidateArchives. ASSUME NEW t \in Tasks, ValidateArchives(t) PROVE Sound'
  <2>1. /\ task' \in [Tasks -> TaskStates]
        /\ \A w \in Tasks \ {t} : task'[w] = task[w]
    BY <1>ValidateArchives, <1>sound, Typed, Steps, Ends
      DEF ValidateArchives, Stop, PCs, Jobs
  <2>2. SlotFollows(t) /\ LockFollows(t)
    BY <1>ValidateArchives, <1>sound, Typed, Steps, Ends
      DEF ValidateArchives, At, SlotFollows, LockFollows, Stop, Free, InSlot,
          Locked, PCs, Jobs
  <2>3. task'[t].pc \in Moves => task'[t].job \in Waiting
    BY <1>ValidateArchives, <1>sound, Typed, Steps, Ends
      DEF ValidateArchives, At, Stop, Moves, Waiting, PCs, Jobs
  <2>4. RowTyped'
    BY <1>ValidateArchives, <1>sound, Writes, Keeps
      DEF ValidateArchives, Stop, failPhotos, PhotosStates
  <2>5. RestTyped'
    BY <1>ValidateArchives, <1>sound
      DEF ValidateArchives, TypeOK, RestTyped, Stop, settings
  <2> QED BY <2>1, <2>2, <2>3, <2>4, <2>5, Moved
<1>RunProblemsRetry. ASSUME NEW t \in Tasks, RunProblemsRetry(t) PROVE Sound'
  <2>1. /\ task' \in [Tasks -> TaskStates]
        /\ \A w \in Tasks \ {t} : task'[w] = task[w]
    BY <1>RunProblemsRetry, <1>sound, Typed, Steps, Ends
      DEF RunProblemsRetry, Stop, PCs, Jobs
  <2>2. SlotFollows(t) /\ LockFollows(t)
    BY <1>RunProblemsRetry, <1>sound, Typed, Steps, Ends
      DEF RunProblemsRetry, At, SlotFollows, LockFollows, Stop, Free, InSlot,
          Locked, PCs, Jobs
  <2>3. task'[t].pc \in Moves => task'[t].job \in Waiting
    BY <1>RunProblemsRetry, <1>sound, Typed, Steps, Ends
      DEF RunProblemsRetry, At, Stop, Moves, Waiting, PCs, Jobs
  <2>4. RowTyped'
    BY <1>RunProblemsRetry, <1>sound, Writes, Keeps
      DEF RunProblemsRetry, Stop, failPhotos, PhotosStates
  <2>5. RestTyped'
    BY <1>RunProblemsRetry, <1>sound
      DEF RunProblemsRetry, TypeOK, RestTyped, Stop, settings
  <2> QED BY <2>1, <2>2, <2>3, <2>4, <2>5, Moved
<1>ImportWithImmichGo. ASSUME NEW t \in Tasks, ImportWithImmichGo(t) PROVE Sound'
  <2>1. /\ task' \in [Tasks -> TaskStates]
        /\ \A w \in Tasks \ {t} : task'[w] = task[w]
    BY <1>ImportWithImmichGo, <1>sound, Typed, Steps, Ends
      DEF ImportWithImmichGo, Stop, photosFinished, PCs, Jobs
  <2>2. SlotFollows(t) /\ LockFollows(t)
    BY <1>ImportWithImmichGo, <1>sound, Typed, Steps, Ends
      DEF ImportWithImmichGo, At, SlotFollows, LockFollows, Stop,
          photosFinished, Free, InSlot, Locked, PCs, Jobs
  <2>3. task'[t].pc \in Moves => task'[t].job \in Waiting
    BY <1>ImportWithImmichGo, <1>sound, Typed, Steps, Ends
      DEF ImportWithImmichGo, At, Stop, photosFinished, Moves, Waiting, PCs,
          Jobs
  <2>4. RowTyped'
    BY <1>ImportWithImmichGo, <1>sound, Writes, Keeps
      DEF ImportWithImmichGo, Stop, failPhotos, PhotosStates
  <2>5. RestTyped'
    BY <1>ImportWithImmichGo, <1>sound, Forgets
      DEF ImportWithImmichGo, TypeOK, RestTyped, Stop, settings
  <2> QED BY <2>1, <2>2, <2>3, <2>4, <2>5, Moved
<1>ReconnectRun. ASSUME NEW t \in Tasks, ReconnectRun(t) PROVE Sound'
  <2>1. /\ task' \in [Tasks -> TaskStates]
        /\ \A w \in Tasks \ {t} : task'[w] = task[w]
    BY <1>ReconnectRun, <1>sound, Typed, Ends DEF ReconnectRun, PCs, Jobs
  <2>2. SlotFollows(t) /\ LockFollows(t)
    BY <1>ReconnectRun, <1>sound, Typed, Ends
      DEF ReconnectRun, At, SlotFollows, LockFollows, Free, InSlot, Locked,
          PCs, Jobs
  <2>3. task'[t].pc \in Moves => task'[t].job \in Waiting
    BY <1>ReconnectRun, <1>sound, Typed, Ends
      DEF ReconnectRun, At, Moves, Waiting, PCs, Jobs
  <2>4. RowTyped'
    BY <1>ReconnectRun, <1>sound, Writes DEF ReconnectRun, PhotosStates
  <2>5. RestTyped'
    BY <1>ReconnectRun, <1>sound DEF ReconnectRun, TypeOK, RestTyped, settings
  <2> QED BY <2>1, <2>2, <2>3, <2>4, <2>5, Moved
<1>ReleaseFinished. ASSUME NEW t \in Tasks, ReleaseFinished(t) PROVE Sound'
  <2>1. /\ task' \in [Tasks -> TaskStates]
        /\ \A w \in Tasks \ {t} : task'[w] = task[w]
        /\ task[t].pc \notin InSlot \cup Locked /\ task'[t].pc \notin InSlot \cup Locked
        /\ task'[t].pc \in Moves => task'[t].job \in Waiting
    BY <1>ReleaseFinished, <1>sound, Typed, Steps, Ends
      DEF ReleaseFinished, At, PCs, Jobs, InSlot, Locked, Moves, Waiting
  <2> QED
    BY <1>ReleaseFinished, <2>1, Quiet DEF ReleaseFinished
<1>Forget. ASSUME NEW t \in Tasks, Forget(t) PROVE Sound'
  <2>1. /\ task' \in [Tasks -> TaskStates]
        /\ \A w \in Tasks \ {t} : task'[w] = task[w]
    BY <1>Forget, <1>sound, Typed, Ends DEF Forget, PCs, Jobs
  <2>2. SlotFollows(t) /\ LockFollows(t)
    BY <1>Forget, <1>sound, Typed, Ends
      DEF Forget, At, SlotFollows, LockFollows, InSlot, Locked, PCs, Jobs
  <2>3. task'[t].pc \in Moves => task'[t].job \in Waiting
    BY <1>Forget, <1>sound, Typed, Ends
      DEF Forget, At, Moves, Waiting, PCs, Jobs
  <2>4. RowTyped'
    BY <1>Forget, <1>sound, Keeps DEF Forget
  <2>5. RestTyped'
    <3>1. PICK gone \in {{"immich"}, Providers} :
            tokens' = [tokens EXCEPT ![task[t].user] = @ \ gone]
      BY <1>Forget DEF Forget
    <3>2. tokens' \in [Users -> SUBSET Providers]
      BY <3>1, <1>sound DEF TypeOK
    <3> QED
      BY <1>Forget, <1>sound, <3>2 DEF Forget, settings, TypeOK, RestTyped
  <2> QED BY <2>1, <2>2, <2>3, <2>4, <2>5, Moved
<1>ForgetAll. ASSUME NEW t \in Tasks, ForgetAll(t) PROVE Sound'
  <2>1. /\ task' \in [Tasks -> TaskStates]
        /\ \A w \in Tasks \ {t} : task'[w] = task[w]
    BY <1>ForgetAll, <1>sound, Typed, Ends DEF ForgetAll, PCs, Jobs
  <2>2. SlotFollows(t) /\ LockFollows(t)
    BY <1>ForgetAll, <1>sound, Typed, Ends
      DEF ForgetAll, At, SlotFollows, LockFollows, InSlot, Locked, PCs, Jobs
  <2>3. task'[t].pc \in Moves => task'[t].job \in Waiting
    BY <1>ForgetAll, <1>sound, Typed, Ends
      DEF ForgetAll, At, Moves, Waiting, PCs, Jobs
  <2>4. RowTyped'
    BY <1>ForgetAll, <1>sound, Keeps DEF ForgetAll
  <2>5. RestTyped'
    BY <1>ForgetAll, <1>sound DEF ForgetAll, TypeOK, RestTyped, settings
  <2> QED BY <2>1, <2>2, <2>3, <2>4, <2>5, Moved
<1>StampFinished. ASSUME NEW t \in Tasks, StampFinished(t) PROVE Sound'
  <2>1. /\ task' \in [Tasks -> TaskStates]
        /\ \A w \in Tasks \ {t} : task'[w] = task[w]
    BY <1>StampFinished, <1>sound, Typed, Ends DEF StampFinished, PCs, Jobs
  <2>2. SlotFollows(t) /\ LockFollows(t)
    BY <1>StampFinished, <1>sound, Typed, Ends
      DEF StampFinished, At, SlotFollows, LockFollows, InSlot, Locked, PCs,
          Jobs
  <2>3. task'[t].pc \in Moves => task'[t].job \in Waiting
    BY <1>StampFinished, <1>sound, Typed, Ends
      DEF StampFinished, At, Moves, Waiting, PCs, Jobs
  <2>4. RowTyped'
    BY <1>StampFinished, <1>sound DEF StampFinished, RowTyped, TypeOK, Stamps
  <2>5. RestTyped'
    BY <1>StampFinished, <1>sound
      DEF StampFinished, TypeOK, RestTyped, settings
  <2> QED BY <2>1, <2>2, <2>3, <2>4, <2>5, Moved
<1>StillExpired. ASSUME NEW t \in Tasks, StillExpired(t) PROVE Sound'
  <2>1. /\ task' \in [Tasks -> TaskStates]
        /\ \A w \in Tasks \ {t} : task'[w] = task[w]
    BY <1>StillExpired, <1>sound, Typed, Steps, Ends
      DEF StillExpired, PCs, Jobs
  <2>2. SlotFollows(t) /\ LockFollows(t)
    BY <1>StillExpired, <1>sound, Typed, Steps, Ends
      DEF StillExpired, At, SlotFollows, LockFollows, Lock, InSlot, Locked,
          PCs, Jobs
  <2>3. task'[t].pc \in Moves => task'[t].job \in Waiting
    BY <1>StillExpired, <1>sound, Typed, Steps, Ends
      DEF StillExpired, At, Moves, Waiting, PCs, Jobs
  <2>4. RowTyped'
    BY <1>StillExpired, <1>sound, Keeps DEF StillExpired
  <2>5. RestTyped'
    BY <1>StillExpired, <1>sound DEF StillExpired, TypeOK, RestTyped, settings
  <2> QED BY <2>1, <2>2, <2>3, <2>4, <2>5, Moved
<1>PurgeUser. ASSUME NEW t \in Tasks, PurgeUser(t) PROVE Sound'
  <2>1. /\ task' \in [Tasks -> TaskStates]
        /\ \A w \in Tasks \ {t} : task'[w] = task[w]
    BY <1>PurgeUser, <1>sound, Typed, Ends DEF PurgeUser, PCs, Jobs
  <2>2. SlotFollows(t) /\ LockFollows(t)
    BY <1>PurgeUser, <1>sound, Typed, Ends
      DEF PurgeUser, At, SlotFollows, LockFollows, Unlock, InSlot, Locked,
          PCs, Jobs
  <2>3. task'[t].pc \in Moves => task'[t].job \in Waiting
    BY <1>PurgeUser, <1>sound, Typed, Ends
      DEF PurgeUser, At, Moves, Waiting, PCs, Jobs
  <2>4. RowTyped'
    BY <1>PurgeUser, <1>sound, Keeps DEF PurgeUser
  <2>5. RestTyped'
    BY <1>PurgeUser, <1>sound DEF PurgeUser, TypeOK, RestTyped, settings
  <2> QED BY <2>1, <2>2, <2>3, <2>4, <2>5, Moved
<1>Abandon. ASSUME NEW t \in Tasks, Abandon(t) PROVE Sound'
  <2>1. /\ task' \in [Tasks -> TaskStates]
        /\ \A w \in Tasks \ {t} : task'[w] = task[w]
    BY <1>Abandon, <1>sound, Typed, Ends DEF Abandon, PCs, Jobs
  <2>2. SlotFollows(t) /\ LockFollows(t)
    BY <1>Abandon, <1>sound, Typed, Ends, TasksAssumption
      DEF Abandon, At, SlotFollows, LockFollows, InRequest, LockHeld, InSlot,
          Locked, PCs, Jobs
  <2>3. task'[t].pc \in Moves => task'[t].job \in Waiting
    BY <1>Abandon, <1>sound, Typed, Ends
      DEF Abandon, At, Moves, Waiting, PCs, Jobs
  <2>4. RowTyped'
    BY <1>Abandon, <1>sound, Writes, Keeps
      DEF Abandon, PhotosStates, MovesWait, Moves, Waiting, At, Target
  <2>5. RestTyped'
    BY <1>Abandon, <1>sound DEF Abandon, TypeOK, RestTyped, settings
  <2> QED BY <2>1, <2>2, <2>3, <2>4, <2>5, Moved
<1>Overrun. ASSUME NEW t \in Tasks, Overrun(t) PROVE Sound'
  <2>1. /\ task' \in [Tasks -> TaskStates]
        /\ \A w \in Tasks \ {t} : task'[w] = task[w]
    BY <1>Overrun, <1>sound, Typed, Ends DEF Overrun, PCs, Jobs
  <2>2. SlotFollows(t) /\ LockFollows(t)
    BY <1>Overrun, <1>sound, Typed, Ends
      DEF Overrun, SlotFollows, LockFollows, Free, InSlot, Locked, PCs, Jobs
  <2>3. task'[t].pc \in Moves => task'[t].job \in Waiting
    BY <1>Overrun, <1>sound, Typed, Ends DEF Overrun, Moves, Waiting, PCs, Jobs
  <2>4. RowTyped'
    BY <1>Overrun, <1>sound, Keeps DEF Overrun
  <2>5. RestTyped'
    BY <1>Overrun, <1>sound DEF Overrun, TypeOK, RestTyped, settings
  <2> QED BY <2>1, <2>2, <2>3, <2>4, <2>5, Moved
<1>BeginPhotosUpload. ASSUME NEW t \in Tasks, NEW u \in Users, BeginPhotosUpload(t, u) PROVE Sound'
  <2>1. /\ task' \in [Tasks -> TaskStates]
        /\ \A w \in Tasks \ {t} : task'[w] = task[w]
        /\ task[t].pc \notin InSlot \cup Locked /\ task'[t].pc \notin InSlot \cup Locked
        /\ task'[t].pc \in Moves => task'[t].job \in Waiting
    BY <1>BeginPhotosUpload, <1>sound, Typed, Becomes
      DEF BeginPhotosUpload, At, PCs, Jobs, InSlot, Locked, Moves, Waiting
  <2> QED
    BY <1>BeginPhotosUpload, <2>1, Quiet DEF BeginPhotosUpload
<1>StartPhotosTakeout. ASSUME NEW t \in Tasks, NEW u \in Users, StartPhotosTakeout(t, u) PROVE Sound'
  <2>1. /\ task' \in [Tasks -> TaskStates]
        /\ \A w \in Tasks \ {t} : task'[w] = task[w]
        /\ task[t].pc \notin InSlot \cup Locked /\ task'[t].pc \notin InSlot \cup Locked
        /\ task'[t].pc \in Moves => task'[t].job \in Waiting
    BY <1>StartPhotosTakeout, <1>sound, Typed, Becomes
      DEF StartPhotosTakeout, At, PCs, Jobs, InSlot, Locked, Moves, Waiting
  <2> QED
    BY <1>StartPhotosTakeout, <2>1, Quiet DEF StartPhotosTakeout
<1>LaunchFromWizard. ASSUME NEW t \in Tasks, NEW u \in Users,
                            NEW j \in {"import", "problems"}, LaunchFromWizard(t, u, j) PROVE Sound'
  <2>j. j \in Jobs
    BY DEF Jobs
  <2>1. /\ task' \in [Tasks -> TaskStates]
        /\ \A w \in Tasks \ {t} : task'[w] = task[w]
        /\ task[t].pc \notin InSlot \cup Locked /\ task'[t].pc \notin InSlot \cup Locked
        /\ task'[t].pc \in Moves => task'[t].job \in Waiting
    BY <1>LaunchFromWizard, <1>sound, Typed, <2>j, Becomes
      DEF LaunchFromWizard, At, PCs, Jobs, InSlot, Locked, Moves, Waiting
  <2> QED
    BY <1>LaunchFromWizard, <2>1, Quiet DEF LaunchFromWizard
<1>Settle. ASSUME NEW t \in Tasks, NEW u \in Users, Settle(t, u) PROVE Sound'
  <2>1. /\ task' \in [Tasks -> TaskStates]
        /\ \A w \in Tasks \ {t} : task'[w] = task[w]
    BY <1>Settle, <1>sound, Typed, Becomes DEF Settle, PCs, Jobs
  <2>2. SlotFollows(t) /\ LockFollows(t)
    BY <1>Settle, <1>sound, Typed, Becomes
      DEF Settle, At, SlotFollows, LockFollows, Lock, InSlot, Locked, PCs,
          Jobs
  <2>3. task'[t].pc \in Moves => task'[t].job \in Waiting
    BY <1>Settle, <1>sound, Typed, Becomes
      DEF Settle, At, Moves, Waiting, PCs, Jobs
  <2>4. RowTyped'
    BY <1>Settle, <1>sound, Keeps DEF Settle
  <2>5. RestTyped'
    BY <1>Settle, <1>sound DEF Settle, TypeOK, RestTyped, settings
  <2> QED BY <2>1, <2>2, <2>3, <2>4, <2>5, Moved
<1>DeclarePhotosParts. ASSUME NEW t \in Tasks, NEW u \in Users, DeclarePhotosParts(t, u) PROVE Sound'
  <2>1. /\ task' \in [Tasks -> TaskStates]
        /\ \A w \in Tasks \ {t} : task'[w] = task[w]
        /\ task[t].pc \notin InSlot \cup Locked /\ task'[t].pc \notin InSlot \cup Locked
        /\ task'[t].pc \in Moves => task'[t].job \in Waiting
    BY <1>DeclarePhotosParts, <1>sound, Typed, Becomes
      DEF DeclarePhotosParts, At, PCs, Jobs, InSlot, Locked, Moves, Waiting
  <2> QED
    BY <1>DeclarePhotosParts, <2>1, Quiet DEF DeclarePhotosParts
<1>SetAutoImport. ASSUME NEW t \in Tasks, NEW u \in Users, SetAutoImport(t, u) PROVE Sound'
  <2>1. /\ task' \in [Tasks -> TaskStates]
        /\ \A w \in Tasks \ {t} : task'[w] = task[w]
    BY <1>SetAutoImport, <1>sound, Typed, Becomes
      DEF SetAutoImport, PCs, Jobs, TypeOK
  <2>2. SlotFollows(t) /\ LockFollows(t)
    BY <1>SetAutoImport, <1>sound, Typed, Becomes
      DEF SetAutoImport, At, SlotFollows, LockFollows, InSlot, Locked, PCs,
          Jobs
  <2>3. task'[t].pc \in Moves => task'[t].job \in Waiting
    BY <1>SetAutoImport, <1>sound, Typed, Becomes
      DEF SetAutoImport, At, Moves, Waiting, PCs, Jobs
  <2>4. RowTyped'
    BY <1>SetAutoImport, <1>sound, Keeps DEF SetAutoImport
  <2>5. RestTyped'
    BY <1>SetAutoImport, <1>sound DEF SetAutoImport, TypeOK, RestTyped
  <2> QED BY <2>1, <2>2, <2>3, <2>4, <2>5, Moved
<1>AutoImportIfEnabled. ASSUME NEW t \in Tasks, NEW u \in Users, AutoImportIfEnabled(t, u) PROVE Sound'
  <2>1. /\ task' \in [Tasks -> TaskStates]
        /\ \A w \in Tasks \ {t} : task'[w] = task[w]
        /\ task[t].pc \notin InSlot \cup Locked /\ task'[t].pc \notin InSlot \cup Locked
        /\ task'[t].pc \in Moves => task'[t].job \in Waiting
    BY <1>AutoImportIfEnabled, <1>sound, Typed, Becomes
      DEF AutoImportIfEnabled, At, PCs, Jobs, InSlot, Locked, Moves, Waiting
  <2> QED
    BY <1>AutoImportIfEnabled, <2>1, Quiet DEF AutoImportIfEnabled
<1>StartImportIfComplete. ASSUME NEW t \in Tasks, NEW u \in Users, StartImportIfComplete(t, u) PROVE Sound'
  <2>1. /\ task' \in [Tasks -> TaskStates]
        /\ \A w \in Tasks \ {t} : task'[w] = task[w]
        /\ task[t].pc \notin InSlot \cup Locked /\ task'[t].pc \notin InSlot \cup Locked
        /\ task'[t].pc \in Moves => task'[t].job \in Waiting
    BY <1>StartImportIfComplete, <1>sound, Typed, Becomes
      DEF StartImportIfComplete, At, PCs, Jobs, InSlot, Locked, Moves, Waiting
  <2> QED
    BY <1>StartImportIfComplete, <2>1, Quiet DEF StartImportIfComplete
<1>PollTakeout. ASSUME NEW t \in Tasks, NEW u \in Users, PollTakeout(t, u) PROVE Sound'
  <2>1. /\ task' \in [Tasks -> TaskStates]
        /\ \A w \in Tasks \ {t} : task'[w] = task[w]
        /\ task[t].pc \notin InSlot \cup Locked /\ task'[t].pc \notin InSlot \cup Locked
        /\ task'[t].pc \in Moves => task'[t].job \in Waiting
    BY <1>PollTakeout, <1>sound, Typed, Becomes
      DEF PollTakeout, At, PCs, Jobs, InSlot, Locked, Moves, Waiting
  <2> QED
    BY <1>PollTakeout, <2>1, Quiet DEF PollTakeout
<1>SweepIdle. ASSUME NEW t \in Tasks, NEW u \in Users, SweepIdle(t, u) PROVE Sound'
  <2>1. /\ task' \in [Tasks -> TaskStates]
        /\ \A w \in Tasks \ {t} : task'[w] = task[w]
        /\ task[t].pc \notin InSlot \cup Locked /\ task'[t].pc \notin InSlot \cup Locked
        /\ task'[t].pc \in Moves => task'[t].job \in Waiting
    BY <1>SweepIdle, <1>sound, Typed, Becomes
      DEF SweepIdle, At, PCs, Jobs, InSlot, Locked, Moves, Waiting
  <2> QED
    BY <1>SweepIdle, <2>1, Quiet DEF SweepIdle
<1>PurgeStaging. ASSUME NEW t \in Tasks, NEW u \in Users, PurgeStaging(t, u) PROVE Sound'
  <2>1. /\ task' \in [Tasks -> TaskStates]
        /\ \A w \in Tasks \ {t} : task'[w] = task[w]
        /\ task[t].pc \notin InSlot \cup Locked /\ task'[t].pc \notin InSlot \cup Locked
        /\ task'[t].pc \in Moves => task'[t].job \in Waiting
    BY <1>PurgeStaging, <1>sound, Typed, Becomes
      DEF PurgeStaging, At, PCs, Jobs, InSlot, Locked, Moves, Waiting
  <2> QED
    BY <1>PurgeStaging, <2>1, Quiet DEF PurgeStaging
<1>PartLands. ASSUME NEW u \in Users, PartLands(u) PROVE Sound'
  <2>1. TypeOK'
    BY <1>PartLands, <1>sound DEF PartLands, TypeOK, row, settings, Parts
  <2>2. SlotsAccounted' /\ MovesWait' /\ LockHeld'
    BY <1>PartLands, <1>sound
      DEF PartLands, SlotsAccounted, MovesWait, LockHeld
  <2> QED BY <2>1, <2>2 DEF Sound
<1>Connect. ASSUME NEW u \in Users, Connect(u) PROVE Sound'
  <2>1. TypeOK'
    BY <1>Connect, <1>sound DEF Connect, TypeOK, row, settings
  <2>2. SlotsAccounted' /\ MovesWait' /\ LockHeld'
    BY <1>Connect, <1>sound DEF Connect, SlotsAccounted, MovesWait, LockHeld
  <2> QED BY <2>1, <2>2 DEF Sound
<1>RetentionPasses. ASSUME NEW u \in Users, RetentionPasses(u) PROVE Sound'
  <2>1. TypeOK'
    BY <1>RetentionPasses, <1>sound
      DEF RetentionPasses, TypeOK, settings, Stamps
  <2>2. SlotsAccounted' /\ MovesWait' /\ LockHeld'
    BY <1>RetentionPasses, <1>sound
      DEF RetentionPasses, SlotsAccounted, MovesWait, LockHeld
  <2> QED BY <2>1, <2>2 DEF Sound
<1>Restart. CASE Restart
  <2>1. task' = [t \in Tasks |-> Idle] /\ claim' = NoTask /\ used' = 0
    BY <1>Restart DEF Restart
  <2>2. \A t \in Tasks : task'[t] \in TaskStates /\ task'[t].pc = "idle"
    BY <2>1 DEF TaskStates, Idle, PCs, Jobs
  <2>3. photos' \in [Users -> PhotosStates]
    BY <1>Restart, <1>sound DEF Restart, TypeOK, PhotosStates
  <2>4. leftOut' \in [Users -> BOOLEAN] /\ finished' \in [Users -> Stamps]
    BY <1>Restart, <1>sound DEF Restart, TypeOK, Stamps
  <2>5. /\ task' \in [Tasks -> TaskStates]
        /\ claim' \in Tasks \cup {NoTask}
        /\ used' \in 0..Slots
    BY <2>1, <2>2, SlotsAssumption
  <2>6. TypeOK'
    BY <1>Restart, <1>sound, <2>3, <2>4, <2>5 DEF Restart, TypeOK, settings
  <2>7. {t \in Tasks : task'[t].pc \in InSlot} = {}
    BY <2>2 DEF InSlot
  <2>8. SlotsAccounted'
    BY <2>1, <2>7, FS_EmptySet DEF SlotsAccounted
  <2>9. MovesWait' /\ LockHeld'
    BY <2>1, <2>2, TasksAssumption DEF MovesWait, Moves, LockHeld, Locked
  <2> QED BY <2>6, <2>8, <2>9 DEF Sound
<1> QED
  BY <1>stutter, <1>AskImmich, <1>AskGoogle, <1>UnlessRunning, <1>Move,
     <1>ReconnectPhotos, <1>LaunchPhotosImport, <1>Recheck, <1>Claim,
     <1>AcceptPhotos, <1>SetPhotosParts, <1>ClaimForImport, <1>ClaimUpload,
     <1>StartUploadedImport, <1>ReconnectUpload, <1>CheckTakeout, <1>Acquire,
     <1>RunTakeoutDownload, <1>BeginImport, <1>ValidateArchives,
     <1>RunProblemsRetry, <1>ImportWithImmichGo, <1>ReconnectRun,
     <1>ReleaseFinished, <1>Forget, <1>ForgetAll, <1>StampFinished,
     <1>StillExpired, <1>PurgeUser, <1>Abandon, <1>Overrun, <1>BeginPhotosUpload,
     <1>StartPhotosTakeout, <1>LaunchFromWizard, <1>Settle,
     <1>DeclarePhotosParts, <1>SetAutoImport, <1>AutoImportIfEnabled,
     <1>StartImportIfComplete, <1>PollTakeout, <1>SweepIdle, <1>PurgeStaging,
     <1>PartLands, <1>Connect, <1>RetentionPasses, <1>Restart
    DEF Next, Continue, Start

\* Every variable keeps its type, whatever happens: PhotosTrack's TypeOK.
THEOREM Typing == Spec => []TypeOK
<1>1. Sound => TypeOK
  BY DEF Sound
<1> QED BY <1>1, SoundInit, SoundStep, PTL DEF Spec

\* The limiter's count is the number of goroutines inside, in every state:
\* acquire and the deferred release balance on every path out of a run.
THEOREM LimiterCounts == Spec => []SlotsAccounted
<1>1. Sound => SlotsAccounted
  BY DEF Sound
<1> QED BY <1>1, SoundInit, SoundStep, PTL DEF Spec
=============================================================================
