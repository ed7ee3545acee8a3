-------------------------- MODULE DriveDoneProofs ---------------------------
(***************************************************************************)
(* More proofs about DriveTrack, for any people, goroutines, slots and      *)
(* credentials, on pages that are up to date.  A track that is done stays   *)
(* done: nothing in the code guards the state of a copy that is queued, but *)
(* there is one copy of a track at a time, and none once it is done.  A     *)
(* task deletes the credential it asked about, though the statement names   *)
(* the provider only.  A track that failed can be tried again.              *)
(***************************************************************************)
EXTENDS DriveTrackProofs

----------------------------------------------------------------------------
(* What a task is for *)

\* The points of a task that connects an account, and those of a copy alone.
ConnectPCs == {"consented", "flow", "poll", "granted", "spend", "ready"}
OnlyCopyPCs == CopyPCs \cup {"askNextcloud", "reconnect"}

\* Where a task is says what it is for.
JobFits(t) ==
  /\ task[t].pc \in ConnectPCs => task[t].job = "connect"
  /\ task[t].pc \in OnlyCopyPCs => Copying(t)
  /\ task[t].pc = "askGoogle" => Copying(t) \/ task[t].job = "photos"

\* A track has one copy at most, queued or not, and none once it is done.
OneCopy ==
  \A s, t \in Tasks :
    Copying(s) /\ Copying(t) /\ task[s].user = task[t].user => s = t
DoneQuiet ==
  \A u \in Users, t \in Tasks : drive[u] = "done" => ~(task[t].user = u /\ Copying(t))

\* A step that starts no copy, and moves the row only for a copy of that track or
\* for a task that has connected an account; "done" is written by a copy that ends.
Calm(t) ==
  /\ JobFits(t)'
  /\ Copying(t)' => Copying(t) /\ task'[t].user = task[t].user
  /\ \A u \in Users : drive'[u] # drive[u] =>
       /\ task[t].user = u
       /\ Copying(t) \/ (task[t].job = "connect" /\ task'[t].job = "none")
  /\ \A u \in Users : drive'[u] = "done" =>
       drive[u] = "done" \/ (task[t].user = u /\ Copying(t) /\ ~Copying(t)')

----------------------------------------------------------------------------
(* The steps of one task are calm *)

\* An idle task is for nothing.
LEMMA IdleFits ==
  ASSUME NEW t, task'[t] = Idle
  PROVE  JobFits(t)' /\ ~Copying(t)' /\ task'[t].job = "none"
  BY DEF JobFits, ConnectPCs, OnlyCopyPCs, CopyPCs, Copying, Idle

\* The last write of a copy, or of a task that has connected an account.
LEMMA EndsCalm ==
  ASSUME RowTyped, TaskTyped, NEW t \in Tasks, NEW s \in DriveStates \ {"done"}, Ends(t, s),
         Copying(t) \/ task[t].job = "connect"
  PROVE  Calm(t)
  <1>1. task'[t] = Idle /\ \A v \in Users : drive'[v] = IF v = task[t].user THEN s ELSE drive[v]
    BY EndIs, SetDriveStateIs DEF Ends
  <1> QED BY <1>1, IdleFits DEF Calm

\* A step that leaves the state of the row alone, and the task's purpose.
LEMMA StillCalm ==
  ASSUME NEW t \in Tasks, drive' = drive, JobFits(t)',
         Copying(t)' => Copying(t) /\ task'[t].user = task[t].user
  PROVE  Calm(t)
  BY DEF Calm

\* A task that ends and writes nothing of the state.
LEMMA EndCalm ==
  ASSUME TaskTyped, NEW t \in Tasks, End(t), drive' = drive
  PROVE  Calm(t)
  BY EndIs, IdleFits, StillCalm

\* A task that only goes on.
LEMMA GoesOnCalm ==
  ASSUME NEW t \in Tasks, NEW p \in PCs, drive' = drive, task'[t].pc = p,
         task'[t].job = task[t].job, task'[t].user = task[t].user,
         p \in ConnectPCs => task[t].job = "connect",
         p \in OnlyCopyPCs => Copying(t),
         p = "askGoogle" => Copying(t)
  PROVE  Calm(t)
  BY StillCalm DEF JobFits, Copying

\* A task of a connection.
LEMMA ConnectCalm ==
  ASSUME RowTyped, TaskTyped, NEW t \in Tasks, JobFits(t),
         Consented(t) \/ FlowStarted(t) \/ Poll(t) \/ Granted(t) \/ Spend(t) \/ Ready(t)
  PROVE  Calm(t)
  <1>0. task[t].pc \in ConnectPCs /\ task[t].job = "connect"
    BY DEF JobFits, ConnectPCs, Consented, FlowStarted, Poll, Granted, Spend, Ready, At
  <1>1. CASE Consented(t) \/ FlowStarted(t) \/ Ready(t)
    BY <1>0, <1>1, EndsCalm DEF Consented, FlowStarted, Ready, DriveStates
  <1>2. CASE Poll(t)
    <2>1. drive' = drive
      BY <1>2 DEF Poll, halves
    <2>2. CASE End(t)
      BY <2>1, <2>2, EndCalm
    <2>3. CASE \E c \in Creds : task' = [task EXCEPT ![t].pc = "granted", ![t].has["nextcloud"] = c]
      <3>1. "granted" \in PCs /\ "granted" \notin OnlyCopyPCs /\ "nextcloud" \in Providers
        BY DEF PCs, OnlyCopyPCs, CopyPCs, Providers
      <3>2. PICK c \in Creds : task' = [task EXCEPT ![t].pc = "granted", ![t].has["nextcloud"] = c]
        BY <2>3
      <3>3. /\ task'[t].pc = "granted" /\ task'[t].job = task[t].job
            /\ task'[t].user = task[t].user
        BY <3>1, <3>2, GotoWithIs
      <3> QED BY <1>0, <2>1, <3>1, <3>3, GoesOnCalm
    <2> QED BY <1>2, <2>2, <2>3 DEF Poll, Fresh
  <1>3. CASE Granted(t) \/ Spend(t)
    <2>1. drive' = drive /\ (Goto(t, "spend") \/ Goto(t, "ready"))
      BY <1>3 DEF Granted, Spend, PutToken, halves
    <2> QED BY <1>0, <2>1, GotoIs, GoesOnCalm DEF PCs, OnlyCopyPCs, CopyPCs
  <1> QED BY <1>1, <1>2, <1>3

\* The answers of the providers.
LEMMA AskCalm ==
  ASSUME RowTyped, TaskTyped, NEW t \in Tasks, JobFits(t),
         AskGoogle(t) \/ AskNextcloud(t) \/ ReconnectDrive(t)
  PROVE  Calm(t)
  <1>0. {"askNextcloud", "reconnect", "queued"} \subseteq PCs
        /\ "askNextcloud" \notin ConnectPCs /\ "reconnect" \notin ConnectPCs
    BY DEF PCs, InSlot, ConnectPCs
  <1>1. CASE AskGoogle(t)
    <2>1. drive' = drive /\ (Copying(t) \/ task[t].job = "photos")
      BY <1>1 DEF AskGoogle, halves, At, JobFits
    <2>2. CASE End(t)
      BY <2>1, <2>2, EndCalm
    <2>3. CASE task[t].job # "photos" /\ (Goto(t, "askNextcloud") \/ Goto(t, "reconnect"))
      BY <1>0, <2>1, <2>3, GotoIs, GoesOnCalm
    <2>4. CASE task[t].job # "photos"
               /\ task' = [task EXCEPT ![t].pc = "askNextcloud", ![t].about = @ \cup {"google"}]
      <3>1. task[t].about \cup {"google"} \in SUBSET Providers
        BY DEF TaskTyped, TaskStates, Providers
      <3>2. task' = [task EXCEPT ![t].pc = "askNextcloud",
                                 ![t].about = task[t].about \cup {"google"}]
        BY <2>4
      <3>3. /\ task'[t].pc = "askNextcloud" /\ task'[t].job = task[t].job
            /\ task'[t].user = task[t].user
        BY <1>0, <3>1, <3>2, GotoAboutIs
      <3> QED BY <1>0, <2>1, <2>4, <3>3, GoesOnCalm
    <2> QED BY <1>1, <2>2, <2>3, <2>4 DEF AskGoogle
  <1>2. CASE AskNextcloud(t)
    <2>1. Copying(t)
      BY <1>2 DEF AskNextcloud, At, JobFits, OnlyCopyPCs
    <2>2. CASE Goto(t, "reconnect") /\ UNCHANGED halves
      <3>1. drive' = drive
        BY <2>2 DEF halves
      <3> QED BY <1>0, <2>1, <2>2, <3>1, GotoIs, GoesOnCalm
    <2>3. CASE /\ task' = [task EXCEPT ![t].pc = "queued", ![t].job = "run",
                                       ![t].has["nextcloud"] = None]
               /\ UNCHANGED halves
      <3>1. /\ task'[t].pc = "queued" /\ task'[t].job = "run"
            /\ task'[t].user = task[t].user /\ drive' = drive
        BY <2>3 DEF TaskTyped, TaskStates, halves
      <3>2. JobFits(t)'
        BY <3>1 DEF JobFits, Copying, ConnectPCs
      <3> QED BY <2>1, <3>1, <3>2, StillCalm
    <2>4. CASE Ends(t, "failed")
      BY <2>1, <2>4, EndsCalm DEF DriveStates
    <2> QED BY <1>2, <2>2, <2>3, <2>4 DEF AskNextcloud
  <1>3. CASE ReconnectDrive(t)
    <2>1. Copying(t) /\ Ends(t, "selecting")
      BY <1>3 DEF ReconnectDrive, At, JobFits, OnlyCopyPCs
    <2> QED BY <2>1, EndsCalm DEF DriveStates
  <1> QED BY <1>1, <1>2, <1>3

\* A run, whose row is its own.
LEMMA CopyCalm ==
  ASSUME RowTyped, TaskTyped, NEW t \in Tasks, JobFits(t),
         \/ Acquire(t) \/ Begin(t) \/ ReadNextcloud(t) \/ RecordQuota(t) \/ Stats(t)
         \/ Rclone(t) \/ VerifyDrive(t)
  PROVE  Calm(t)
  <1>0. Copying(t) /\ task[t] \in TaskStates
    BY DEF JobFits, OnlyCopyPCs, CopyPCs, Acquire, Begin, ReadNextcloud, RecordQuota,
           Stats, Rclone, VerifyDrive, At, TaskTyped
  <1>1. ASSUME NEW p \in InSlot \cup {"reconnect"}, task'[t].pc = p,
               task'[t].job = task[t].job, task'[t].user = task[t].user,
               drive' = drive \/ \E s \in {"copying", "verifying"} :
                                   SetDriveState(task[t].user, s)
        PROVE  Calm(t)
    <2>1. JobFits(t)'
      BY <1>0, <1>1 DEF JobFits, Copying, InSlot, ConnectPCs
    <2>2. drive' = drive \/ \E s \in {"copying", "verifying"} :
            \A v \in Users : drive'[v] = IF v = task[t].user THEN s ELSE drive[v]
      BY <1>1, SetDriveStateIs DEF DriveStates
    <2> QED BY <1>0, <1>1, <2>1, <2>2 DEF Calm
  <1>2. ASSUME NEW p \in InSlot \cup {"reconnect"}, Goto(t, p),
               UNCHANGED halves \/ \E s \in {"copying", "verifying"} :
                                     SetDriveState(task[t].user, s)
        PROVE  Calm(t)
    <2>1. /\ task'[t].pc = p /\ task'[t].job = task[t].job
          /\ task'[t].user = task[t].user
      BY <1>2, GotoIs DEF PCs, InSlot
    <2> QED BY <1>1, <1>2, <2>1 DEF halves
  <1>3. ASSUME Ends(t, "failed") PROVE Calm(t)
    BY <1>0, <1>3, EndsCalm DEF DriveStates
  <1>4. CASE Acquire(t) \/ Begin(t)
    BY <1>2, <1>4 DEF Acquire, Begin, InSlot
  <1>5. CASE ReadNextcloud(t)
    <2>1. CASE \E c : /\ task' = [task EXCEPT ![t].pc = "quota", ![t].has["nextcloud"] = c]
                      /\ UNCHANGED halves
      <3>1. /\ task'[t].pc = "quota" /\ task'[t].job = task[t].job
            /\ task'[t].user = task[t].user
        BY <2>1 DEF TaskTyped, TaskStates
      <3> QED BY <1>1, <2>1, <3>1 DEF InSlot, halves
    <2> QED BY <1>2, <1>3, <1>5, <2>1 DEF ReadNextcloud
  <1>6. CASE RecordQuota(t)
    BY <1>2, <1>3, <1>6 DEF RecordQuota, InSlot
  <1>7. CASE Stats(t)
    <2>1. task'[t] = task[t] /\ task[t].pc = "copy" /\ "copy" \in InSlot
      BY <1>7 DEF Stats, At, InSlot
    <2> QED BY <1>1, <1>7, <2>1 DEF Stats
  <1>8. CASE Rclone(t)
    BY <1>2, <1>8 DEF Rclone, InSlot
  <1>9. CASE VerifyDrive(t)
    <2>1. CASE /\ SetDriveState(task[t].user, "done")
               /\ task' = [task EXCEPT ![t] = [Idle EXCEPT !.pc = "release", !.job = "release",
                                                           !.user = task[t].user]]
      <3>1. task'[t].pc = "release" /\ task'[t].job = "release"
        BY <2>1 DEF TaskTyped, Idle
      <3>2. JobFits(t)' /\ ~Copying(t)'
        BY <3>1 DEF JobFits, Copying, ConnectPCs, OnlyCopyPCs, CopyPCs
      <3>3. \A v \in Users : drive'[v] = IF v = task[t].user THEN "done" ELSE drive[v]
        BY <2>1, SetDriveStateIs DEF DriveStates
      <3> QED BY <1>0, <3>2, <3>3 DEF Calm
    <2> QED BY <1>3, <1>9, <2>1 DEF VerifyDrive
  <1> QED BY <1>4, <1>5, <1>6, <1>7, <1>8, <1>9

\* Forgetting credentials leaves the state of the row alone.
LEMMA ForgetCalm ==
  ASSUME RowTyped, TaskTyped, NEW t \in Tasks, JobFits(t),
         \/ Release(t) \/ RevokeNextcloud(t) \/ DropNextcloud(t) \/ RevokeGoogle(t)
         \/ DropGoogle(t) \/ Touch(t) \/ Abandon(t) \/ Overrun(t)
  PROVE  Calm(t)
  <1>1. drive' = drive
    BY DEF Release, RevokeNextcloud, DropNextcloud, RevokeGoogle, DropGoogle, Touch, Abandon,
           Overrun, halves
  <1>2. \/ End(t) \/ Goto(t, "revokeGoogle") \/ Goto(t, "touch")
        \/ \E a : task' = [task EXCEPT ![t].pc = "revokeNextcloud", ![t].about = a]
        \/ \E c : task' = [task EXCEPT ![t].pc = "dropNextcloud", ![t].has["nextcloud"] = c]
        \/ \E c : task' = [task EXCEPT ![t].pc = "dropGoogle", ![t].has["google"] = c]
    BY DEF Release, RevokeNextcloud, DropNextcloud, RevokeGoogle, DropGoogle, Touch, Abandon,
           Overrun, AfterGoogle, AfterNextcloud
  <1>3. CASE End(t)
    BY <1>1, <1>3, EndCalm
  <1>4. CASE ~End(t)
    <2>1. \E p \in {"revokeGoogle", "touch", "revokeNextcloud", "dropNextcloud", "dropGoogle"} :
            /\ task'[t].pc = p /\ task'[t].job = task[t].job
            /\ task'[t].user = task[t].user
      BY <1>2, <1>4 DEF Goto, TaskTyped, TaskStates
    <2> QED BY <1>1, <2>1, GoesOnCalm DEF PCs, ConnectPCs, OnlyCopyPCs, CopyPCs
  <1> QED BY <1>3, <1>4

----------------------------------------------------------------------------
(* The invariant *)

\* A done track is left only by a step of a task that connects an account.
DoneLeft ==
  \A u \in Users : drive[u] = "done" /\ drive'[u] # "done" =>
    \E t \in Tasks : /\ task[t].user = u /\ task[t].job = "connect"
                     /\ task'[t] # task[t]

Quiet == (\A t \in Tasks : JobFits(t)) /\ OneCopy /\ DoneQuiet

\* A calm step of one task.
LEMMA CalmKeeps ==
  ASSUME TaskTyped, Quiet, NEW t \in Tasks, Others(t), Calm(t)
  PROVE  Quiet' /\ DoneLeft
  <1>1. \A s \in Tasks : Copying(s)' => Copying(s) /\ task'[s].user = task[s].user
    BY DEF Others, Calm, Copying
  <1>2. \A s \in Tasks : JobFits(s)'
    BY DEF Quiet, Others, Calm, JobFits, Copying
  <1>3. OneCopy'
    BY <1>1 DEF Quiet, OneCopy
  <1>4. DoneQuiet'
    <2> SUFFICES ASSUME NEW u \in Users, NEW s \in Tasks, drive'[u] = "done",
                        task'[s].user = u, Copying(s)'
                 PROVE  FALSE
      BY DEF DoneQuiet
    <2>1. task[s].user = u /\ Copying(s)
      BY <1>1
    <2>2. task[t].user = u /\ Copying(t) /\ ~Copying(t)'
      BY <2>1 DEF Calm, Quiet, DoneQuiet
    <2>3. s = t
      BY <2>1, <2>2 DEF Quiet, OneCopy
    <2> QED BY <2>2, <2>3
  <1>5. DoneLeft
    BY DEF Quiet, DoneQuiet, Calm, DoneLeft
  <1> QED BY <1>2, <1>3, <1>4, <1>5 DEF Quiet

\* What starts a task, on a page that is up to date and without a second copy.
LEMMA StartKeeps ==
  ASSUME RowTyped, TaskTyped, Quiet, "stale" \notin Events, "again" \notin Events,
         NEW t \in Tasks, NEW u \in Users, Start(t, u), Others(t)
  PROVE  Quiet' /\ DoneLeft
  <1>1. CASE \/ OauthCallback(t, u) \/ StartNextcloud(t, u) \/ PollNextcloud(t, u)
             \/ SweepIdle(t, u) \/ PhotosFinished(t, u) \/ PhotosAsks(t, u)
    <2>1. drive' = drive
      BY <1>1 DEF OauthCallback, StartNextcloud, PollNextcloud, SweepIdle, PhotosFinished,
                  PhotosAsks, PutToken, halves
    <2>2. \/ task'[t].job = "connect" /\ task'[t].pc \in ConnectPCs
          \/ task'[t].job \in {"sweep", "release"} /\ task'[t].pc \in {"revokeNextcloud", "release"}
          \/ task'[t].job = "photos" /\ task'[t].pc = "askGoogle"
      <3>1. ASSUME NEW j, NEW p, NEW h, Begins(t, u, j, p, h)
            PROVE  task'[t].job = j /\ task'[t].pc = p
        BY <3>1 DEF Begins, Become, TaskTyped
      <3>2. CASE OauthCallback(t, u) \/ StartNextcloud(t, u) \/ PollNextcloud(t, u)
        BY <3>1, <3>2 DEF OauthCallback, StartNextcloud, PollNextcloud, ConnectPCs
      <3>3. CASE SweepIdle(t, u)
        BY <3>3 DEF SweepIdle, Become, TaskTyped, Idle
      <3>4. CASE PhotosFinished(t, u)
        BY <3>4 DEF PhotosFinished, Become, TaskTyped, Idle
      <3>5. CASE PhotosAsks(t, u)
        BY <3>1, <3>5 DEF PhotosAsks
      <3> QED BY <1>1, <3>2, <3>3, <3>4, <3>5
    <2>3. JobFits(t)' /\ ~Copying(t)'
      BY <2>2 DEF JobFits, Copying, ConnectPCs, OnlyCopyPCs, CopyPCs
    <2> QED BY <2>1, <2>3, StillCalm, CalmKeeps
  <1>2. CASE StartDrive(t, u)
    <2>1. /\ drive[u] # "done"
          /\ \A s \in Tasks : ~(task[s].user = u /\ Copying(s))
      BY <1>2 DEF StartDrive, OffersStart
    <2>2. CASE UNCHANGED halves
               /\ \E h : Begins(t, u, "start", "askGoogle", h)
      <3>1. drive' = drive
        BY <2>2 DEF halves
      <3>2. task'[t].user = u /\ task'[t].job = "start" /\ task'[t].pc = "askGoogle"
        BY <2>2 DEF Begins, Become, TaskTyped
      <3>3. JobFits(t)'
        BY <3>2 DEF JobFits, Copying, ConnectPCs, OnlyCopyPCs, CopyPCs
      <3>4. \A s \in Tasks \ {t} : /\ task'[s].user = task[s].user
                                   /\ Copying(s)' <=> Copying(s)
                                   /\ JobFits(s)' <=> JobFits(s)
        BY DEF Others, Copying, JobFits
      <3>5. OneCopy'
        BY <2>1, <3>2, <3>4 DEF Quiet, OneCopy
      <3>6. DoneQuiet'
        BY <2>1, <3>1, <3>2, <3>4 DEF Quiet, DoneQuiet
      <3> QED BY <3>1, <3>3, <3>4, <3>5, <3>6 DEF Quiet, DoneLeft
    <2>3. CASE SetDriveState(u, "failed") /\ UNCHANGED task
      <3>1. \A v \in Users : drive'[v] = IF v = u THEN "failed" ELSE drive[v]
        BY <2>3, SetDriveStateIs DEF DriveStates
      <3>2. (\A s \in Tasks : JobFits(s)') /\ OneCopy'
        BY <2>3 DEF Quiet, OneCopy, JobFits, Copying
      <3>3. DoneQuiet'
        BY <2>3, <3>1 DEF Quiet, DoneQuiet, Copying
      <3> QED BY <2>1, <3>1, <3>2, <3>3 DEF Quiet, DoneLeft
    <2> QED BY <1>2, <2>2, <2>3 DEF StartDrive
  <1> QED BY <1>1, <1>2 DEF Start

\* A step that leaves every task as it is, or forgets them all, and leaves done
\* what is done.
LEMMA RestKeeps ==
  ASSUME Quiet, task' = task \/ task' = [t \in Tasks |-> Idle],
         \A u \in Users : drive'[u] = "done" <=> drive[u] = "done"
  PROVE  Quiet' /\ DoneLeft
  <1>1. DoneLeft
    BY DEF DoneLeft
  <1>2. CASE task' = task
    BY <1>1, <1>2 DEF Quiet, OneCopy, DoneQuiet, JobFits, Copying
  <1>3. CASE task' = [t \in Tasks |-> Idle]
    <2>1. \A t \in Tasks : JobFits(t)' /\ ~Copying(t)'
      BY <1>3, IdleFits
    <2> QED BY <1>1, <2>1 DEF Quiet, OneCopy, DoneQuiet
  <1> QED BY <1>2, <1>3

\* Every step, on pages that are up to date.
LEMMA QuietStep ==
  ASSUME "stale" \notin Events, "again" \notin Events, Accounts, Quiet, [Next]_vars
  PROVE  Quiet' /\ DoneLeft
  <1>0. RowTyped /\ CredsTyped /\ TaskTyped /\ CopyFits /\ Quiet
    BY DEF Accounts
  <1>1. CASE \E t \in Tasks : Continue(t) \/ Stats(t) \/ Abandon(t) \/ Overrun(t)
    <2>1. PICK t \in Tasks : Continue(t) \/ Stats(t) \/ Abandon(t) \/ Overrun(t)
      BY <1>1
    <2>2. Others(t)
      BY <1>0, <2>1, ContinueProper, CutProper DEF Proper
    <2>3. JobFits(t)
      BY <1>0 DEF Quiet
    <2>4. Calm(t)
      BY <1>0, <2>1, <2>3, ConnectCalm, AskCalm, CopyCalm, ForgetCalm DEF Continue
    <2> QED BY <1>0, <2>2, <2>4, CalmKeeps
  <1>2. CASE \E t \in Tasks, u \in Users : Start(t, u)
    BY <1>0, <1>2, StartProper, StartKeeps DEF Proper
  <1>3. CASE (\E u \in Users : PhotosAgain(u) \/ Refuse(u) \/ IdlePasses(u)) \/ UNCHANGED vars
    <2>1. drive' = drive /\ task' = task
      BY <1>3 DEF PhotosAgain, Refuse, IdlePasses, vars, halves
    <2> QED BY <1>0, <2>1, RestKeeps
  <1>4. CASE Restart
    <2>1. task' = [t \in Tasks |-> Idle]
          /\ \A u \in Users : drive'[u] = "done" <=> drive[u] = "done"
      BY <1>4 DEF Restart, Working
    <2> QED BY <1>0, <2>1, RestKeeps
  <1> QED BY <1>1, <1>2, <1>3, <1>4 DEF Next

\* At first no copy runs.
LEMMA QuietInit == Init => Quiet
  BY DEF Init, Quiet, JobFits, OneCopy, DoneQuiet, Copying, Idle, ConnectPCs, OnlyCopyPCs, CopyPCs

\* A finished copy stays finished unless the person connects an account again, as
\* long as the buttons are those the row offers and Start is not pressed while a
\* copy waits: a second copy that was queued before the first is done overwrites it.
THEOREM DoneStays ==
  ASSUME "stale" \notin Events, "again" \notin Events
  PROVE  Spec => FinishedStays
  <1> DEFINE Inv == Accounts /\ Quiet
  <1>1. Init => Inv
    BY QuietInit, AccountsInductive
  <1>2. Inv /\ [Next]_vars => Inv' /\ [DoneLeft]_vars
    BY QuietStep, AccountsInductive
  <1> HIDE DEF Inv
  <1> QED BY <1>1, <1>2, PTL DEF Spec, FinishedStays, DoneLeft

----------------------------------------------------------------------------
(* Whose credentials are whose *)

\* Of u's tasks that connect an account, all are at one of these points.
Connects(u, pcs) ==
  \A s \in Tasks : task[s].user = u /\ task[s].job = "connect" => task[s].pc \in pcs

\* A copy has the credentials of the row, and nobody is connecting an account; once
\* Google has refused a copy that failed, its owner may be at Google's consent.
CopyOwns(t) ==
  LET u == task[t].user IN
  Copying(t) /\ task[t].pc # "reconnect" =>
    /\ tokens[u]["nextcloud"] # None
    /\ \/ /\ task[t].about = {} /\ Connects(u, {})
          /\ tokens[u]["google"] = task[t].has["google"] /\ tokens[u]["google"] # None
       \/ /\ task[t].about = {"google"} /\ Connects(u, {"consented"})
          /\ task[t].job = "run" /\ task[t].pc = "askNextcloud"
    /\ task[t].pc \notin {"queued", "begin", "readNextcloud"} =>
         tokens[u]["nextcloud"] = task[t].has["nextcloud"]

\* A release forgets only for a track that is done, and drops what it has revoked
\* unless another release has.
DropsRight(t) ==
  LET u == task[t].user IN
  task[t].job = "release" /\ task[t].pc # "release" =>
    /\ drive[u] = "done"
    /\ "google" \in task[t].about \/ task[t].pc \in {"revokeGoogle", "dropGoogle"} => photosDone[u]
    /\ task[t].pc = "dropNextcloud" => tokens[u]["nextcloud"] \in {None, task[t].has["nextcloud"]}
    /\ task[t].pc = "dropGoogle" => tokens[u]["google"] \in {None, task[t].has["google"]}

\* A track that is done offers nothing to connect.
DoneSafe(u) ==
  drive[u] = "done" =>
    /\ photosDone[u] \/ tokens[u]["google"] # None
    /\ tokens[u]["nextcloud"] # None \/ tokens[u]["flow"] = None
    /\ Connects(u, {})

\* There are no tasks of the sweep and of the Photos half.
ReleasePCs == {"release", "revokeNextcloud", "dropNextcloud", "revokeGoogle", "dropGoogle"}
JobsHere(t) ==
  /\ task[t].job \in {"none", "start", "run", "connect", "release"}
  /\ task[t].pc = "idle" <=> task[t].job = "none"
  /\ task[t].pc # "idle" => task[t].user \in Users
  /\ task[t].pc \in ReleasePCs => task[t].job = "release"
  /\ task[t].pc = "granted" => task[t].has["nextcloud"] # None
  /\ task[t].pc # "touch"

Owned ==
  /\ \A t \in Tasks : CopyOwns(t) /\ DropsRight(t) /\ JobsHere(t)
  /\ \A u \in Users : DoneSafe(u)

\* A step of a copy: it is the only one of its track, which is not done.
LEMMA CopyFrame ==
  ASSUME Owned, Quiet, NEW t \in Tasks, NEW u \in Users, task[t].user = u, Copying(t), Others(t),
         photosDone' = photosDone,
         \A v \in Users \ {u} : tokens'[v] = tokens[v] /\ drive'[v] = drive[v],
         task'[t].job # "connect", task'[t].user \in {u, NoUser},
         CopyOwns(t)', DropsRight(t)', JobsHere(t)',
         drive'[u] = "done" => /\ tokens'[u]["google"] # None /\ tokens'[u]["nextcloud"] # None
                               /\ Connects(u, {})
  PROVE  Owned'
  <1>1. ASSUME NEW s \in Tasks \ {t}
        PROVE  CopyOwns(s)' /\ DropsRight(s)' /\ JobsHere(s)'
    <2>1. task'[s] = task[s] /\ CopyOwns(s) /\ DropsRight(s) /\ JobsHere(s)
      BY DEF Others, Owned
    <2>2. CASE task[s].user = u
      <3>1. ~Copying(s) /\ ~(task[s].job = "release" /\ task[s].pc # "release")
        BY <2>1, <2>2 DEF Quiet, OneCopy, DoneQuiet, DropsRight
      <3> QED BY <2>1, <3>1 DEF CopyOwns, DropsRight, JobsHere, Copying
    <2>3. CASE task[s].user # u
      <3>1. \A pcs : Connects(task[s].user, pcs) => Connects(task[s].user, pcs)'
        BY <2>1 DEF Connects, Others
      <3>2. task[s].pc # "idle" => task[s].user \in Users \ {u}
        BY <2>1, <2>3 DEF JobsHere
      <3> QED BY <2>1, <3>1, <3>2 DEF CopyOwns, DropsRight, JobsHere, Copying
    <2> QED BY <2>2, <2>3
  <1>2. ASSUME NEW v \in Users PROVE DoneSafe(v)'
    <2>1. DoneSafe(v) /\ (Connects(v, {}) => Connects(v, {})')
      BY DEF Owned, Connects, Others
    <2> QED BY <2>1 DEF DoneSafe
  <1> QED BY <1>1, <1>2 DEF Owned

\* A step of a task that connects an account: no copy of the track relies on what
\* it writes, and the track is not done.
LEMMA ConnectFrame ==
  ASSUME Owned, NEW t \in Tasks, NEW u \in Users, task[t].user = u, task[t].job = "connect",
         Others(t), photosDone' = photosDone, drive'[u] # "done" \/ drive'[u] = drive[u],
         \A v \in Users \ {u} : tokens'[v] = tokens[v] /\ drive'[v] = drive[v],
         tokens'[u]["google"] = tokens[u]["google"],
         task[t].pc = "consented" => /\ tokens'[u]["nextcloud"] = tokens[u]["nextcloud"]
                                    /\ task'[t].job = "none",
         task'[t].job \in {"connect", "none"}, JobsHere(t)',
         task'[t].job = "connect" => task'[t].user = u
  PROVE  Owned'
  <1>0. drive[u] # "done" /\ drive'[u] # "done"
    BY DEF Owned, DoneSafe, Connects
  <1>1. ASSUME NEW s \in Tasks \ {t}
        PROVE  CopyOwns(s)' /\ DropsRight(s)' /\ JobsHere(s)'
    <2>1. task'[s] = task[s] /\ CopyOwns(s) /\ DropsRight(s) /\ JobsHere(s)
      BY DEF Others, Owned
    <2>2. CASE task[s].user = u
      <3>1. ~(task[s].job = "release" /\ task[s].pc # "release")
        BY <1>0, <2>1, <2>2 DEF DropsRight
      <3>2. Copying(s) /\ task[s].pc # "reconnect" =>
              /\ task[t].pc = "consented" /\ task[s].about = {"google"}
              /\ Connects(u, {"consented"})
        BY <2>1, <2>2 DEF CopyOwns, Connects
      <3>3. Connects(u, {"consented"}) /\ task[t].pc = "consented" /\ task'[t].job # "connect"
              => Connects(u, {"consented"})'
        BY DEF Connects, Others
      <3>4. CASE Copying(s) /\ task[s].pc # "reconnect"
        <4>1. task'[t].job = "none"
          BY <3>2, <3>4
        <4>2. CopyOwns(s)'
          BY <2>1, <2>2, <3>2, <3>3, <3>4, <4>1 DEF CopyOwns, Copying
        <4>3. DropsRight(s)' /\ JobsHere(s)'
          BY <2>1, <3>1 DEF DropsRight, JobsHere
        <4> QED BY <4>2, <4>3
      <3>5. CASE ~(Copying(s) /\ task[s].pc # "reconnect")
        BY <2>1, <3>1, <3>5 DEF CopyOwns, DropsRight, JobsHere, Copying
      <3> QED BY <3>4, <3>5
    <2>3. CASE task[s].user # u
      <3>1. \A pcs : Connects(task[s].user, pcs) => Connects(task[s].user, pcs)'
        BY <2>1, <2>3 DEF Connects, Others
      <3>2. task[s].pc # "idle" => task[s].user \in Users \ {u}
        BY <2>1, <2>3 DEF JobsHere
      <3> QED BY <2>1, <3>1, <3>2 DEF CopyOwns, DropsRight, JobsHere, Copying
    <2> QED BY <2>2, <2>3
  <1>2. CopyOwns(t)' /\ DropsRight(t)'
    BY DEF CopyOwns, DropsRight, Copying
  <1>3. ASSUME NEW v \in Users PROVE DoneSafe(v)'
    <2>1. CASE v = u
      BY <1>0, <2>1 DEF DoneSafe
    <2>2. CASE v # u
      <3>1. DoneSafe(v) /\ (Connects(v, {}) => Connects(v, {})')
        BY <2>2 DEF Owned, Connects, Others
      <3> QED BY <2>2, <3>1 DEF DoneSafe
    <2> QED BY <2>1, <2>2
  <1> QED BY <1>1, <1>2, <1>3 DEF Owned

\* A step of a task that does not connect an account leaves the others connecting.
LEMMA ConnectsKept ==
  ASSUME NEW t \in Tasks, Others(t), task'[t].job # "connect", NEW u, NEW pcs, Connects(u, pcs)
  PROVE  Connects(u, pcs)'
  BY DEF Connects, Others

\* A step that keeps the credentials, finishes no copy and takes none up again.
LEMMA SteadyFrame ==
  ASSUME Owned, NEW t \in Tasks, Others(t), tokens' = tokens,
         \A v \in Users : /\ photosDone[v] => photosDone'[v]
                          /\ drive'[v] = "done" <=> drive[v] = "done",
         task'[t].job # "connect", CopyOwns(t)', DropsRight(t)', JobsHere(t)'
  PROVE  Owned'
  <1>1. ASSUME NEW s \in Tasks \ {t}
        PROVE  CopyOwns(s)' /\ DropsRight(s)' /\ JobsHere(s)'
    <2>1. task'[s] = task[s] /\ CopyOwns(s) /\ DropsRight(s) /\ JobsHere(s)
      BY DEF Others, Owned
    <2>2. \A pcs : Connects(task[s].user, pcs) => Connects(task[s].user, pcs)'
      BY <2>1 DEF Connects, Others
    <2>3. CopyOwns(s)'
      BY <2>1, <2>2 DEF CopyOwns, Copying
    <2>4. DropsRight(s)' /\ JobsHere(s)'
      <3>1. task[s].pc # "idle" => task[s].user \in Users
        BY <2>1 DEF JobsHere
      <3> QED BY <2>1, <3>1 DEF DropsRight, JobsHere
    <2> QED BY <2>3, <2>4
  <1>2. ASSUME NEW v \in Users PROVE DoneSafe(v)'
    <2>1. DoneSafe(v) /\ (Connects(v, {}) => Connects(v, {})')
      BY ConnectsKept DEF Owned
    <2> QED BY <2>1 DEF DoneSafe
  <1> QED BY <1>1, <1>2 DEF Owned

\* A step of a copy that keeps the credentials, and goes on or ends.
LEMMA CopySteady ==
  ASSUME Owned, Quiet, NEW t \in Tasks, NEW u \in Users, task[t].user = u, Copying(t), Others(t),
         tokens' = tokens, photosDone' = photosDone,
         \A v \in Users : drive'[v] = drive[v] \/ (v = u /\ drive'[v] # "done"),
         \/ task'[t] = Idle
         \/ /\ task'[t].user = u /\ Copying(t)' /\ CopyOwns(t)'
            /\ task'[t].pc \notin ReleasePCs \cup {"idle", "granted", "touch"}
  PROVE  Owned'
  <1>1. drive[u] # "done"
    BY DEF Quiet, DoneQuiet
  <1>2. CASE task'[t] = Idle
    <2>1. CopyOwns(t)' /\ DropsRight(t)' /\ JobsHere(t)'
      BY <1>2 DEF CopyOwns, DropsRight, JobsHere, Copying, Idle, ReleasePCs
    <2> QED BY <1>1, <1>2, <2>1, SteadyFrame DEF Idle
  <1>3. CASE /\ task'[t].user = u /\ Copying(t)' /\ CopyOwns(t)'
             /\ task'[t].pc \notin ReleasePCs \cup {"idle", "granted", "touch"}
    <2>1. DropsRight(t)' /\ JobsHere(t)' /\ task'[t].job # "connect"
      BY <1>3 DEF DropsRight, JobsHere, Copying
    <2> QED BY <1>1, <1>3, <2>1, SteadyFrame
  <1> QED BY <1>2, <1>3

\* A step of a release drops credentials of a track that is done, Google's only
\* once Photos is done too.
LEMMA DropFrame ==
  ASSUME Owned, Quiet, NEW t \in Tasks, NEW u \in Users, task[t].user = u, Others(t),
         task[t].job = "release", task[t].pc # "release",
         drive' = drive, photosDone' = photosDone,
         \A v \in Users \ {u} : tokens'[v] = tokens[v],
         \A p \in Providers : tokens'[u][p] \in {tokens[u][p], None},
         tokens'[u]["google"] # tokens[u]["google"] => photosDone[u],
         tokens'[u]["nextcloud"] # tokens[u]["nextcloud"] => tokens'[u]["flow"] = None,
         task'[t].job \in {"release", "none"}, DropsRight(t)', JobsHere(t)'
  PROVE  Owned'
  <1>0. drive[u] = "done" /\ DoneSafe(u)
    BY DEF Owned, DropsRight
  <1>1. ASSUME NEW s \in Tasks \ {t}
        PROVE  CopyOwns(s)' /\ DropsRight(s)' /\ JobsHere(s)'
    <2>1. task'[s] = task[s] /\ CopyOwns(s) /\ DropsRight(s) /\ JobsHere(s)
      BY DEF Others, Owned
    <2>2. \A pcs : Connects(task[s].user, pcs) => Connects(task[s].user, pcs)'
      BY <2>1 DEF Connects, Others
    <2>3. CopyOwns(s)'
      <3>1. Copying(s) => task[s].user \in Users \ {u}
        BY <1>0, <2>1 DEF Quiet, DoneQuiet, JobsHere, Copying
      <3> QED BY <2>1, <2>2, <3>1 DEF CopyOwns, Copying
    <2>4. JobsHere(s)'
      BY <2>1 DEF JobsHere
    <2>5. CASE task[s].user = u
      <3>1. DropsRight(s)'
        BY <2>1, <2>5 DEF DropsRight, Providers
      <3> QED BY <2>3, <2>4, <3>1
    <2>6. CASE task[s].user # u
      <3>1. task[s].pc # "idle" => task[s].user \in Users \ {u}
        BY <2>1, <2>6 DEF JobsHere
      <3>2. task[s].job = "release" => task[s].pc # "idle"
        BY <2>1 DEF JobsHere
      <3> QED BY <2>1, <2>3, <2>4, <3>1, <3>2 DEF DropsRight
    <2> QED BY <2>3, <2>4, <2>5, <2>6
  <1>2. CopyOwns(t)'
    BY DEF CopyOwns, Copying
  <1>3. ASSUME NEW v \in Users PROVE DoneSafe(v)'
    <2>1. DoneSafe(v) /\ (Connects(v, {}) => Connects(v, {})')
      BY ConnectsKept DEF Owned
    <2>2. CASE v = u
      BY <2>1, <2>2 DEF DoneSafe, Providers
    <2>3. CASE v # u
      BY <2>1, <2>3 DEF DoneSafe
    <2> QED BY <2>2, <2>3
  <1> QED BY <1>1, <1>2, <1>3 DEF Owned

\* A task that begins to connect an account: no copy of the track relies on what it
\* will write, and the track is not done.
LEMMA OfferFrame ==
  ASSUME Owned, NEW t \in Tasks, NEW u \in Users, Others(t),
         drive' = drive, photosDone' = photosDone, drive[u] # "done",
         \A v \in Users \ {u} : tokens'[v] = tokens[v],
         task'[t].job = "connect", task'[t].user = u, JobsHere(t)',
         \/ /\ task'[t].pc = "consented" /\ tokens[u]["google"] = None
            /\ tokens'[u]["nextcloud"] = tokens[u]["nextcloud"]
         \/ tokens[u]["nextcloud"] = None
  PROVE  Owned'
  <1>1. ASSUME NEW s \in Tasks \ {t}
        PROVE  CopyOwns(s)' /\ DropsRight(s)' /\ JobsHere(s)'
    <2>1. task'[s] = task[s] /\ CopyOwns(s) /\ DropsRight(s) /\ JobsHere(s)
      BY DEF Others, Owned
    <2>2. JobsHere(s)'
      BY <2>1 DEF JobsHere
    <2>3. CASE task[s].user = u
      <3>1. DropsRight(s)'
        BY <2>1, <2>3 DEF DropsRight
      <3>2. CASE Copying(s) /\ task[s].pc # "reconnect"
        <4>1. /\ task'[t].pc = "consented" /\ tokens'[u]["nextcloud"] = tokens[u]["nextcloud"]
              /\ task[s].about = {"google"} /\ Connects(u, {"consented"})
          BY <2>1, <2>3, <3>2 DEF CopyOwns
        <4>2. Connects(u, {"consented"})'
          BY <4>1 DEF Connects, Others
        <4> QED BY <2>1, <2>2, <2>3, <3>1, <3>2, <4>1, <4>2 DEF CopyOwns, Copying
      <3>3. CASE ~(Copying(s) /\ task[s].pc # "reconnect")
        BY <2>1, <2>2, <3>1, <3>3 DEF CopyOwns, Copying
      <3> QED BY <3>2, <3>3
    <2>4. CASE task[s].user # u
      <3>1. \A pcs : Connects(task[s].user, pcs) => Connects(task[s].user, pcs)'
        BY <2>1, <2>4 DEF Connects, Others
      <3>2. task[s].pc # "idle" => task[s].user \in Users \ {u}
        BY <2>1, <2>4 DEF JobsHere
      <3>3. CopyOwns(s)' /\ DropsRight(s)'
        BY <2>1, <3>1, <3>2 DEF CopyOwns, DropsRight, JobsHere, Copying
      <3> QED BY <2>2, <3>3
    <2> QED BY <2>3, <2>4
  <1>2. CopyOwns(t)' /\ DropsRight(t)'
    BY DEF CopyOwns, DropsRight, Copying
  <1>3. ASSUME NEW v \in Users PROVE DoneSafe(v)'
    <2>1. CASE v = u
      BY <2>1 DEF DoneSafe
    <2>2. CASE v # u
      <3>1. DoneSafe(v) /\ (Connects(v, {}) => Connects(v, {})')
        BY <2>2 DEF Owned, Connects, Others
      <3> QED BY <2>2, <3>1 DEF DoneSafe
    <2> QED BY <2>1, <2>2
  <1> QED BY <1>1, <1>2, <1>3 DEF Owned

----------------------------------------------------------------------------
(* Every step keeps to its own credentials *)

\* A credential is deleted by a task that has it in memory.
Clears ==
  \A u \in Users, p \in {"google", "nextcloud"} :
    tokens[u][p] # None /\ tokens'[u][p] = None =>
      \E t \in Tasks : /\ task[t].user = u /\ task'[t] # task[t]
                       /\ task[t].has[p] = tokens[u][p]

\* A preflight that is refused deletes the credential that was asked about.
LEMMA CopyRefused ==
  ASSUME CredsTyped, Owned, Quiet, NEW t \in Tasks, NEW u \in Users, task[t].user = u,
         Copying(t), NEW p \in {"google", "nextcloud"}, Refuses(t, p), Others(t),
         drive' = drive, photosDone' = photosDone,
         task[t].pc \notin {"reconnect", "queued", "begin", "readNextcloud"},
         p = "google" => task[t].about = {},
         task'[t].user = u, task'[t].job = task[t].job,
         \/ task'[t].pc = "reconnect"
         \/ /\ task'[t].pc = "askNextcloud" /\ task'[t].about = {"google"}
            /\ task[t].job = "run" /\ p = "google" /\ task'[t].has = task[t].has
  PROVE  Owned' /\ Clears
  <1>1. tokens' = [tokens EXCEPT ![u][p] = None] /\ p \in Providers
    BY DEF Refuses, DeleteToken, Providers
  <1>2. /\ \A v \in Users \ {u} : tokens'[v] = tokens[v]
        /\ \A q \in Providers : tokens'[u][q] = IF q = p THEN None ELSE tokens[u][q]
    BY <1>1 DEF CredsTyped
  <1>3. drive[u] # "done" /\ CopyOwns(t)
    BY DEF Quiet, DoneQuiet, Owned
  <1>4. tokens[u]["nextcloud"] = task[t].has["nextcloud"] /\ tokens[u]["nextcloud"] # None
    BY <1>3 DEF CopyOwns
  <1>5. task[t].about = {} \/ task[t].about = {"google"}
    BY <1>3 DEF CopyOwns
  <1>6. p = "google" => tokens[u]["google"] = task[t].has["google"] /\ Connects(u, {})
    BY <1>3 DEF CopyOwns
  <1>7. CopyOwns(t)'
    <2>1. CASE task'[t].pc = "reconnect"
      BY <2>1 DEF CopyOwns
    <2>2. CASE /\ task'[t].pc = "askNextcloud" /\ task'[t].about = {"google"}
               /\ task[t].job = "run" /\ p = "google" /\ task'[t].has = task[t].has
      <3>1. Connects(u, {"consented"})'
        BY <1>6, <2>2 DEF Connects, Others
      <3>2. tokens'[u]["nextcloud"] = tokens[u]["nextcloud"]
        BY <1>2, <2>2 DEF Providers
      <3> QED BY <1>4, <2>2, <3>1, <3>2 DEF CopyOwns
    <2> QED BY <2>1, <2>2
  <1>8. task'[t].pc \in {"reconnect", "askNextcloud"} /\ task'[t].job \in {"start", "run"}
    BY DEF Copying
  <1>9. DropsRight(t)' /\ JobsHere(t)'
    BY <1>8 DEF DropsRight, JobsHere, ReleasePCs
  <1>10. Owned'
    BY <1>2, <1>3, <1>7, <1>8, <1>9, CopyFrame
  <1>11. task'[t] # task[t]
    BY <1>6, <1>3 DEF CopyOwns
  <1>12. Clears
    BY <1>2, <1>4, <1>6, <1>11 DEF Clears, Providers
  <1> QED BY <1>10, <1>12

\* A step that keeps every credential deletes none.
LEMMA KeptClears == ASSUME tokens' = tokens PROVE Clears
  BY DEF Clears

\* A copy that ends with a failure, or for the wizard.
LEMMA CopyEndsOwned ==
  ASSUME RowTyped, TaskTyped, Owned, Quiet, NEW t \in Tasks, Copying(t), task[t].user \in Users,
         tokens' = tokens, NEW s \in {"selecting", "failed"}, Ends(t, s)
  PROVE  Owned' /\ Clears
  <1>0. s \in DriveStates /\ s # "done"
    BY DEF DriveStates
  <1>1. /\ task'[t] = Idle /\ Others(t)
        /\ \A v \in Users : drive'[v] = IF v = task[t].user THEN s ELSE drive[v]
    BY <1>0, EndsIs, EndIs DEF Ends
  <1>2. photosDone' = photosDone
    BY DEF Ends, SetDriveState
  <1>3. Owned'
    BY <1>0, <1>1, <1>2, CopySteady
  <1> QED BY <1>3, KeptClears

\* The answers of the providers, and what a copy does with them.
LEMMA AskOwned ==
  ASSUME RowTyped, CredsTyped, TaskTyped, Owned, Quiet, CopyFits, NEW t \in Tasks, Others(t),
         AskGoogle(t) \/ AskNextcloud(t) \/ ReconnectDrive(t)
  PROVE  Owned' /\ Clears
  <1>0. /\ Copying(t) /\ task[t].user \in Users /\ CopyOwns(t) /\ task[t] \in TaskStates
        /\ drive[task[t].user] # "done"
    BY DEF Owned, Quiet, DoneQuiet, JobFits, JobsHere, CopyFits, AskGoogle, AskNextcloud,
           ReconnectDrive, At, OnlyCopyPCs, TaskTyped
  <1> PICK u \in Users : u = task[t].user
    BY <1>0
  <1>1. CASE AskGoogle(t)
    <2>1. /\ drive' = drive /\ photosDone' = photosDone /\ task[t].pc = "askGoogle"
          /\ task[t].job # "photos" /\ task[t].about = {} /\ Connects(u, {})
          /\ tokens[u]["nextcloud"] # None
      BY <1>0, <1>1 DEF AskGoogle, halves, At, Copying, CopyOwns
    <2>2. CASE UNCHANGED tokens /\ Goto(t, "askNextcloud")
      <3>1. task'[t] = [task[t] EXCEPT !.pc = "askNextcloud"]
        BY <2>2 DEF Goto, TaskTyped
      <3>2. /\ task'[t].pc = "askNextcloud" /\ task'[t].user = u /\ task'[t].job = task[t].job
            /\ task'[t].has = task[t].has /\ task'[t].about = task[t].about
        BY <1>0, <3>1 DEF TaskStates
      <3>3. Connects(u, {})'
        BY <2>1, <3>2, <1>0 DEF Connects, Others, Copying
      <3>4. CopyOwns(t)' /\ Copying(t)'
        BY <1>0, <2>1, <2>2, <3>2, <3>3 DEF CopyOwns, Copying
      <3>5. Owned'
        BY <1>0, <2>1, <2>2, <3>2, <3>4, CopySteady DEF ReleasePCs
      <3> QED BY <2>2, <3>5, KeptClears
    <2>3. CASE Refuses(t, "google") /\ task[t].job = "start" /\ Goto(t, "reconnect")
      <3>1. task'[t].pc = "reconnect" /\ task'[t].user = u /\ task'[t].job = task[t].job
        BY <2>3, GotoIs DEF PCs, InSlot
      <3> QED BY <1>0, <2>1, <2>3, <3>1, CopyRefused
    <2>4. CASE /\ Refuses(t, "google") /\ task[t].job = "run"
               /\ task' = [task EXCEPT ![t].pc = "askNextcloud", ![t].about = @ \cup {"google"}]
      <3>1. /\ task'[t].pc = "askNextcloud" /\ task'[t].user = u /\ task'[t].job = task[t].job
            /\ task'[t].has = task[t].has /\ task'[t].about = task[t].about \cup {"google"}
        BY <1>0, <2>4 DEF TaskTyped, TaskStates
      <3>2. task'[t].about = {"google"}
        BY <2>1, <3>1
      <3> QED BY <1>0, <2>1, <2>4, <3>1, <3>2, CopyRefused
    <2> QED BY <1>0, <1>1, <2>1, <2>2, <2>3, <2>4 DEF AskGoogle, Copying
  <1>2. CASE AskNextcloud(t)
    <2>1. task[t].pc = "askNextcloud"
      BY <1>2 DEF AskNextcloud, At
    <2>2. CASE Refuses(t, "nextcloud") /\ Goto(t, "reconnect") /\ UNCHANGED halves
      <3>1. task'[t].pc = "reconnect" /\ task'[t].user = u /\ task'[t].job = task[t].job
        BY <2>2, GotoIs DEF PCs, InSlot
      <3>2. drive' = drive /\ photosDone' = photosDone
        BY <2>2 DEF halves
      <3> QED BY <1>0, <2>1, <2>2, <3>1, <3>2, CopyRefused
    <2>3. CASE UNCHANGED tokens /\ Goto(t, "reconnect") /\ UNCHANGED halves
      <3>1. task'[t].pc = "reconnect" /\ task'[t].user = u /\ task'[t].job = task[t].job
        BY <2>3, GotoIs DEF PCs, InSlot
      <3>2. drive' = drive /\ photosDone' = photosDone /\ Copying(t)' /\ CopyOwns(t)'
        BY <1>0, <2>3, <3>1 DEF halves, Copying, CopyOwns
      <3>3. Owned'
        BY <1>0, <2>3, <3>1, <3>2, CopySteady DEF ReleasePCs
      <3> QED BY <2>3, <3>3, KeptClears
    <2>4. CASE /\ UNCHANGED tokens /\ task[t].job = "start" /\ UNCHANGED halves
               /\ task' = [task EXCEPT ![t].pc = "queued", ![t].job = "run",
                                       ![t].has["nextcloud"] = None]
      <3>1. /\ task'[t].pc = "queued" /\ task'[t].user = u /\ task'[t].job = "run"
            /\ task'[t].has["google"] = task[t].has["google"]
            /\ task'[t].about = task[t].about
        BY <1>0, <2>4 DEF TaskTyped, TaskStates, Providers
      <3>2. /\ task[t].about = {} /\ Connects(u, {}) /\ tokens[u]["nextcloud"] # None
            /\ tokens[u]["google"] = task[t].has["google"] /\ tokens[u]["google"] # None
        BY <1>0, <2>1, <2>4 DEF CopyOwns
      <3>3. Connects(u, {})'
        BY <3>1, <3>2 DEF Connects, Others
      <3>4. CopyOwns(t)' /\ Copying(t)' /\ drive' = drive /\ photosDone' = photosDone
        BY <2>4, <3>1, <3>2, <3>3 DEF CopyOwns, Copying, halves
      <3>5. Owned'
        BY <1>0, <2>4, <3>1, <3>4, CopySteady DEF ReleasePCs
      <3> QED BY <2>4, <3>5, KeptClears
    <2>5. CASE UNCHANGED tokens /\ Ends(t, "failed")
      BY <1>0, <2>5, CopyEndsOwned
    <2> QED BY <1>2, <2>2, <2>3, <2>4, <2>5 DEF AskNextcloud
  <1>3. CASE ReconnectDrive(t)
    <2>1. Ends(t, "selecting") /\ tokens' = tokens
      BY <1>3 DEF ReconnectDrive, creds
    <2> QED BY <1>0, <2>1, CopyEndsOwned
  <1> QED BY <1>1, <1>2, <1>3

\* A copy that goes on with the credentials of the row.
LEMMA CopyGoes ==
  ASSUME Owned, Quiet, NEW t \in Tasks, NEW u \in Users, task[t].user = u, Copying(t), Others(t),
         task[t].pc \notin {"reconnect", "askNextcloud"},
         tokens' = tokens, photosDone' = photosDone,
         \A v \in Users : drive'[v] = drive[v] \/ (v = u /\ drive'[v] # "done"),
         task'[t].user = u, task'[t].job = task[t].job, task'[t].about = task[t].about,
         task'[t].has["google"] = task[t].has["google"],
         task'[t].pc \notin ReleasePCs \cup {"idle", "granted", "touch"},
         task'[t].pc \notin {"queued", "begin", "readNextcloud", "reconnect"} =>
           tokens[u]["nextcloud"] = task'[t].has["nextcloud"]
  PROVE  Owned' /\ Clears
  <1>1. CopyOwns(t)
    BY DEF Owned
  <1>2. /\ task[t].about = {} /\ Connects(u, {}) /\ tokens[u]["nextcloud"] # None
        /\ tokens[u]["google"] = task[t].has["google"] /\ tokens[u]["google"] # None
    BY <1>1 DEF CopyOwns
  <1>3. Connects(u, {})'
    BY <1>2 DEF Connects, Others, Copying
  <1>4. CopyOwns(t)' /\ Copying(t)'
    BY <1>2, <1>3 DEF CopyOwns, Copying
  <1>5. Owned'
    BY <1>4, CopySteady
  <1> QED BY <1>5, KeptClears

\* The copy is over: what it has used is still there, for the release that follows.
LEMMA CopyDoneOwned ==
  ASSUME RowTyped, TaskTyped, Owned, Quiet, NEW t \in Tasks, NEW u \in Users, task[t].user = u,
         Copying(t), Others(t), task[t].pc = "verify", tokens' = tokens, SetDriveState(u, "done"),
         task' = [task EXCEPT ![t] = [Idle EXCEPT !.pc = "release", !.job = "release",
                                                  !.user = u]]
  PROVE  Owned' /\ Clears
  <1>1. /\ task'[t].pc = "release" /\ task'[t].job = "release" /\ task'[t].user = u
        /\ task'[t].has = NoCreds
    BY DEF TaskTyped, Idle
  <1>2. CopyOwns(t)' /\ DropsRight(t)' /\ JobsHere(t)'
    BY <1>1 DEF CopyOwns, DropsRight, JobsHere, Copying
  <1>3. CopyOwns(t)
    BY DEF Owned
  <1>4. Connects(u, {}) /\ tokens'[u]["google"] # None /\ tokens'[u]["nextcloud"] # None
    BY <1>3 DEF CopyOwns
  <1>5. \A v \in Users : drive'[v] = IF v = u THEN "done" ELSE drive[v]
    BY SetDriveStateIs DEF DriveStates
  <1>6. photosDone' = photosDone
    BY DEF SetDriveState
  <1>7. Owned'
    BY <1>1, <1>2, <1>4, <1>5, <1>6, CopyFrame
  <1> QED BY <1>7, KeptClears

\* A run, and what cuts it short.
LEMMA RunOwned ==
  ASSUME RowTyped, CredsTyped, TaskTyped, Owned, Quiet, CopyFits, NEW t \in Tasks, Others(t),
         \/ Acquire(t) \/ Begin(t) \/ ReadNextcloud(t) \/ RecordQuota(t) \/ Stats(t)
         \/ Rclone(t) \/ VerifyDrive(t)
  PROVE  Owned' /\ Clears
  <1>0. /\ Copying(t) /\ task[t].user \in Users /\ task[t] \in TaskStates
        /\ drive[task[t].user] # "done" /\ task[t].pc \in CopyPCs
    BY DEF Quiet, DoneQuiet, JobFits, CopyFits, Acquire, Begin, ReadNextcloud, RecordQuota, Stats,
           Rclone, VerifyDrive, At, OnlyCopyPCs, CopyPCs, TaskTyped
  <1> PICK u \in Users : u = task[t].user
    BY <1>0
  <1>1. /\ CopyOwns(t) /\ task[t].pc \notin {"reconnect", "askNextcloud"}
        /\ task[t].pc \notin {"queued", "begin", "readNextcloud"} =>
             tokens[u]["nextcloud"] = task[t].has["nextcloud"]
    BY <1>0 DEF Owned, CopyPCs, CopyOwns
  <1>2. ASSUME NEW q \in {"begin", "readNextcloud", "copy", "verify", "askGoogle", "reconnect"},
               Goto(t, q), tokens' = tokens, photosDone' = photosDone,
               \A v \in Users : drive'[v] = drive[v] \/ (v = u /\ drive'[v] # "done"),
               q \in {"copy", "verify", "askGoogle"} =>
                 task[t].pc \notin {"queued", "begin", "readNextcloud"}
        PROVE  Owned' /\ Clears
    <2>1. task'[t] = [task[t] EXCEPT !.pc = q]
      BY <1>2 DEF Goto, TaskTyped
    <2>2. /\ task'[t].pc = q /\ task'[t].user = u /\ task'[t].job = task[t].job
          /\ task'[t].has = task[t].has /\ task'[t].about = task[t].about
      BY <1>0, <2>1 DEF TaskStates
    <2>3. q \notin ReleasePCs \cup {"idle", "granted", "touch", "queued"}
      BY DEF ReleasePCs
    <2> QED BY <1>0, <1>1, <1>2, <2>2, <2>3, CopyGoes
  <1>3. ASSUME Ends(t, "failed"), tokens' = tokens
        PROVE  Owned' /\ Clears
    BY <1>0, <1>3, CopyEndsOwned
  <1>4. ASSUME UNCHANGED halves
        PROVE  /\ photosDone' = photosDone
               /\ \A v \in Users : drive'[v] = drive[v] \/ (v = u /\ drive'[v] # "done")
    BY <1>4 DEF halves
  <1>5. ASSUME NEW s \in {"copying", "verifying"}, SetDriveState(u, s)
        PROVE  /\ photosDone' = photosDone
               /\ \A v \in Users : drive'[v] = drive[v] \/ (v = u /\ drive'[v] # "done")
    <2>1. s \in DriveStates /\ s # "done"
      BY DEF DriveStates
    <2> QED BY <1>5, <2>1, SetDriveStateIs DEF SetDriveState
  <1>6. CASE Acquire(t)
    BY <1>2, <1>4, <1>6 DEF Acquire, creds
  <1>7. CASE Begin(t)
    BY <1>2, <1>5, <1>7 DEF Begin, creds
  <1>8. CASE ReadNextcloud(t)
    <2>1. CASE /\ task' = [task EXCEPT ![t].pc = "quota",
                                       ![t].has["nextcloud"] = tokens[u]["nextcloud"]]
               /\ UNCHANGED halves /\ UNCHANGED creds
      <3>1. /\ task'[t].pc = "quota" /\ task'[t].user = u /\ task'[t].job = task[t].job
            /\ task'[t].about = task[t].about
            /\ task'[t].has["google"] = task[t].has["google"]
            /\ task'[t].has["nextcloud"] = tokens[u]["nextcloud"]
        BY <1>0, <2>1 DEF TaskTyped, TaskStates, Providers
      <3>2. tokens' = tokens /\ "quota" \notin ReleasePCs \cup {"idle", "granted", "touch"}
        BY <2>1 DEF creds, ReleasePCs
      <3> QED BY <1>0, <1>1, <1>4, <2>1, <3>1, <3>2, CopyGoes
    <2> QED BY <1>2, <1>3, <1>4, <1>8, <2>1 DEF ReadNextcloud, creds
  <1>9. CASE RecordQuota(t)
    <2>1. task[t].pc = "quota"
      BY <1>9 DEF RecordQuota, At
    <2>2. CASE Refuses(t, "nextcloud") /\ Goto(t, "reconnect") /\ UNCHANGED halves
      <3>1. task'[t].pc = "reconnect" /\ task'[t].user = u /\ task'[t].job = task[t].job
        BY <2>2, GotoIs DEF PCs, InSlot
      <3>2. drive' = drive /\ photosDone' = photosDone
        BY <2>2 DEF halves
      <3> QED BY <1>0, <2>1, <2>2, <3>1, <3>2, CopyRefused
    <2> QED BY <1>2, <1>3, <1>4, <1>9, <2>1, <2>2 DEF RecordQuota
  <1>10. CASE Stats(t)
    <2>1. task'[t] = task[t] /\ tokens' = tokens /\ task[t].pc = "copy"
      BY <1>10 DEF Stats, creds, At
    <2>2. "copy" \notin ReleasePCs \cup {"idle", "granted", "touch"}
      BY DEF ReleasePCs
    <2> QED BY <1>0, <1>1, <1>5, <1>10, <2>1, <2>2, CopyGoes DEF Stats
  <1>11. CASE Rclone(t)
    <2>1. task[t].pc = "copy" /\ tokens' = tokens
      BY <1>11 DEF Rclone, At, creds
    <2> QED BY <1>2, <1>4, <1>5, <1>11, <2>1 DEF Rclone
  <1>12. CASE VerifyDrive(t)
    <2>1. task[t].pc = "verify" /\ tokens' = tokens
      BY <1>12 DEF VerifyDrive, At, creds
    <2> QED BY <1>0, <1>3, <1>12, <2>1, CopyDoneOwned DEF VerifyDrive
  <1> QED BY <1>6, <1>7, <1>8, <1>9, <1>10, <1>11, <1>12

\* A request that is cut off, and a copy whose day is over.
LEMMA CutOwned ==
  ASSUME TaskTyped, Owned, NEW t \in Tasks, Abandon(t) \/ Overrun(t)
  PROVE  Owned' /\ Clears
  <1>1. task'[t] = Idle /\ Others(t) /\ UNCHANGED halves /\ UNCHANGED creds
    BY EndIs DEF Abandon, Overrun
  <1>2. CopyOwns(t)' /\ DropsRight(t)' /\ JobsHere(t)' /\ task'[t].job # "connect"
    BY <1>1 DEF CopyOwns, DropsRight, JobsHere, Copying, Idle, ReleasePCs
  <1>3. tokens' = tokens /\ drive' = drive /\ photosDone' = photosDone
    BY <1>1 DEF halves, creds
  <1>4. Owned'
    BY <1>1, <1>2, <1>3, SteadyFrame
  <1> QED BY <1>3, <1>4, KeptClears

\* A task that ends leaves nothing to be kept.
LEMMA IdleOwned ==
  ASSUME NEW t, task'[t] = Idle
  PROVE  CopyOwns(t)' /\ DropsRight(t)' /\ JobsHere(t)' /\ task'[t].job = "none"
  BY DEF CopyOwns, DropsRight, JobsHere, Copying, Idle, ReleasePCs

\* Connecting an account, as far as it goes on its own.
LEMMA ConnectOwned ==
  ASSUME RowTyped, CredsTyped, TaskTyped, Owned, Quiet, CopyFits, NEW t \in Tasks, Others(t),
         Consented(t) \/ FlowStarted(t) \/ Poll(t) \/ Granted(t) \/ Spend(t) \/ Ready(t)
  PROVE  Owned' /\ Clears
  <1>0. /\ task[t].pc \in ConnectPCs /\ task[t].job = "connect" /\ task[t].user \in Users
        /\ task[t] \in TaskStates
    BY DEF JobFits, Quiet, ConnectPCs, CopyFits, TaskTyped,
           Consented, FlowStarted, Poll, Granted, Spend, Ready, At
  <1> PICK u \in Users : u = task[t].user
    BY <1>0
  <1>1. drive[u] # "done"
    BY <1>0 DEF Owned, DoneSafe, Connects
  <1>2. ASSUME task'[t] = Idle, tokens' = tokens, photosDone' = photosDone,
               \A v \in Users : drive'[v] = drive[v] \/ (v = u /\ drive'[v] # "done")
        PROVE  Owned' /\ Clears
    <2>1. Owned'
      BY <1>1, <1>2, IdleOwned, SteadyFrame
    <2> QED BY <1>2, <2>1, KeptClears
  <1>3. CASE Consented(t) \/ FlowStarted(t) \/ Ready(t)
    <2>1. PICK s \in {"selecting", "consent_pending"} : Ends(t, s)
      BY <1>3 DEF Consented, FlowStarted, Ready
    <2>2. s \in DriveStates /\ s # "done"
      BY DEF DriveStates
    <2>3. task'[t] = Idle /\ \A v \in Users : drive'[v] = IF v = u THEN s ELSE drive[v]
      BY <2>1, <2>2, EndsIs, EndIs DEF Ends
    <2>4. tokens' = tokens /\ photosDone' = photosDone
      BY <1>3 DEF Consented, FlowStarted, Ready, creds, Ends, SetDriveState
    <2> QED BY <1>2, <2>2, <2>3, <2>4
  <1>4. ASSUME NEW q \in {"granted", "spend", "ready"}, task[t].pc # "consented",
               task'[t].pc = q, task'[t].user = u, task'[t].job = "connect",
               q = "granted" => task'[t].has["nextcloud"] # None,
               drive' = drive, photosDone' = photosDone,
               \A v \in Users \ {u} : tokens'[v] = tokens[v],
               tokens'[u]["google"] = tokens[u]["google"]
        PROVE  Owned'
    <2>1. JobsHere(t)'
      BY <1>4 DEF JobsHere, ReleasePCs
    <2> QED BY <1>0, <1>4, <2>1, ConnectFrame
  <1>5. CASE Poll(t)
    <2>1. /\ tokens' = tokens /\ drive' = drive /\ photosDone' = photosDone
          /\ task[t].pc # "consented"
      BY <1>5 DEF Poll, halves, At
    <2>2. CASE End(t)
      BY <1>2, <2>1, <2>2, EndIs
    <2>3. CASE \E c \in Creds \ {None} :
                 task' = [task EXCEPT ![t].pc = "granted", ![t].has["nextcloud"] = c]
      <3>1. /\ task'[t].pc = "granted" /\ task'[t].user = u /\ task'[t].job = "connect"
            /\ task'[t].has["nextcloud"] # None
        BY <1>0, <2>3 DEF TaskTyped, TaskStates, Providers
      <3>2. Owned'
        BY <1>4, <2>1, <3>1
      <3> QED BY <2>1, <3>2, KeptClears
    <2> QED BY <1>5, <2>2, <2>3 DEF Poll, Fresh
  <1>6. CASE Granted(t)
    <2>1. /\ task[t].pc = "granted" /\ drive' = drive /\ photosDone' = photosDone
          /\ tokens' = [tokens EXCEPT ![u]["nextcloud"] = task[t].has["nextcloud"]]
          /\ Goto(t, "spend")
      BY <1>6 DEF Granted, PutToken, At
    <2>2. task'[t].pc = "spend" /\ task'[t].user = u /\ task'[t].job = "connect"
      BY <1>0, <2>1, GotoIs DEF PCs
    <2>3. /\ \A v \in Users \ {u} : tokens'[v] = tokens[v]
          /\ tokens'[u]["google"] = tokens[u]["google"]
          /\ tokens'[u]["nextcloud"] = task[t].has["nextcloud"]
      BY <2>1 DEF CredsTyped, Providers
    <2>4. Owned'
      BY <1>4, <2>1, <2>2, <2>3
    <2>5. task[t].has["nextcloud"] # None
      BY <2>1 DEF Owned, JobsHere
    <2>6. Clears
      BY <2>3, <2>5 DEF Clears
    <2> QED BY <2>4, <2>6
  <1>7. CASE Spend(t)
    <2>1. /\ task[t].pc = "spend" /\ drive' = drive /\ photosDone' = photosDone
          /\ tokens' = [tokens EXCEPT ![u]["flow"] = None]
          /\ Goto(t, "ready")
      BY <1>7 DEF Spend, DeleteToken, At, halves
    <2>2. task'[t].pc = "ready" /\ task'[t].user = u /\ task'[t].job = "connect"
      BY <1>0, <2>1, GotoIs DEF PCs
    <2>3. /\ \A v \in Users \ {u} : tokens'[v] = tokens[v]
          /\ tokens'[u]["google"] = tokens[u]["google"]
          /\ tokens'[u]["nextcloud"] = tokens[u]["nextcloud"]
      BY <2>1 DEF CredsTyped, Providers
    <2>4. Owned'
      BY <1>4, <2>1, <2>2, <2>3
    <2>5. Clears
      BY <2>3 DEF Clears
    <2> QED BY <2>4, <2>5
  <1> QED BY <1>3, <1>5, <1>6, <1>7

\* Where a release goes once it has dropped what it revoked.
LEMMA AfterIs ==
  ASSUME TaskTyped, NEW t \in Tasks, task[t].job = "release", NEW u \in Users, task[t].user = u
  PROVE  /\ AfterGoogle(t) => task'[t] = Idle
         /\ AfterNextcloud(t) =>
              \/ task'[t] = Idle
              \/ /\ "google" \in task[t].about
                 /\ task'[t].pc = "revokeGoogle" /\ task'[t].job = "release"
                 /\ task'[t].user = u
  <1>1. AfterGoogle(t) => task'[t] = Idle
    BY EndIs DEF AfterGoogle
  <1>2. Goto(t, "revokeGoogle") => /\ task'[t].pc = "revokeGoogle" /\ task'[t].job = "release"
                                   /\ task'[t].user = u
    BY GotoIs DEF PCs
  <1> QED BY <1>1, <1>2 DEF AfterNextcloud

\* Forgetting credentials.
LEMMA ForgetOwned ==
  ASSUME RowTyped, CredsTyped, TaskTyped, Owned, Quiet, CopyFits, NEW t \in Tasks, Others(t),
         \/ Release(t) \/ RevokeNextcloud(t) \/ DropNextcloud(t) \/ RevokeGoogle(t)
         \/ DropGoogle(t) \/ Touch(t)
  PROVE  Owned' /\ Clears
  <1>0. /\ task[t].pc \in ReleasePCs /\ task[t].job = "release" /\ task[t].user \in Users
        /\ task[t] \in TaskStates /\ DropsRight(t)
        /\ drive' = drive /\ photosDone' = photosDone
    BY DEF Owned, JobsHere, ReleasePCs, CopyFits, TaskTyped, halves, Release, RevokeNextcloud,
           DropNextcloud, RevokeGoogle, DropGoogle, Touch, At
  <1> PICK u \in Users : u = task[t].user
    BY <1>0
  <1>1. ASSUME tokens' = tokens, task'[t] = Idle
        PROVE  Owned' /\ Clears
    <2>1. Owned'
      BY <1>0, <1>1, IdleOwned, SteadyFrame
    <2> QED BY <1>1, <2>1, KeptClears
  <1>2. ASSUME tokens' = tokens, NEW q \in ReleasePCs, task'[t].pc = q, task'[t].user = u,
               task'[t].job = "release", DropsRight(t)'
        PROVE  Owned' /\ Clears
    <2>1. CopyOwns(t)' /\ JobsHere(t)'
      BY <1>2 DEF CopyOwns, JobsHere, Copying, ReleasePCs
    <2>2. Owned'
      BY <1>0, <1>2, <2>1, SteadyFrame
    <2> QED BY <1>2, <2>2, KeptClears
  <1>3. CASE Release(t)
    <2>1. tokens' = tokens
      BY <1>3 DEF Release, creds
    <2>2. CASE End(t)
      BY <1>1, <2>1, <2>2, EndIs
    <2>3. CASE \E a : /\ task' = [task EXCEPT ![t].pc = "revokeNextcloud", ![t].about = a]
                      /\ drive[u] = "done" /\ ("google" \in a => photosDone[u])
      <3>1. PICK a : /\ task' = [task EXCEPT ![t].pc = "revokeNextcloud", ![t].about = a]
                     /\ drive[u] = "done" /\ ("google" \in a => photosDone[u])
        BY <2>3
      <3>2. /\ task'[t].pc = "revokeNextcloud" /\ task'[t].user = u
            /\ task'[t].job = "release" /\ task'[t].about = a
        BY <1>0, <3>1 DEF TaskTyped, TaskStates
      <3>3. DropsRight(t)'
        BY <1>0, <3>1, <3>2 DEF DropsRight
      <3> QED BY <1>2, <2>1, <3>2, <3>3 DEF ReleasePCs
    <2>4. End(t) \/ \E a : /\ task' = [task EXCEPT ![t].pc = "revokeNextcloud", ![t].about = a]
                            /\ drive[u] = "done" /\ ("google" \in a => photosDone[u])
      <3> DEFINE a == (IF drive[u] = "done" THEN {"nextcloud"} ELSE {})
                      \cup (IF drive[u] = "done" /\ photosDone[u] THEN {"google"} ELSE {})
      <3>1. IF a = {} THEN End(t)
            ELSE task' = [task EXCEPT ![t].pc = "revokeNextcloud", ![t].about = a]
        BY <1>3 DEF Release
      <3>2. (a # {} => drive[u] = "done") /\ ("google" \in a => photosDone[u])
        OBVIOUS
      <3> HIDE DEF a
      <3> QED BY <3>1, <3>2
    <2> QED BY <2>2, <2>3, <2>4
  <1>4. CASE RevokeNextcloud(t)
    <2>1. /\ tokens' = tokens /\ task[t].pc = "revokeNextcloud"
          /\ task' = [task EXCEPT ![t].pc = "dropNextcloud",
                                  ![t].has["nextcloud"] = tokens[u]["nextcloud"]]
      BY <1>4 DEF RevokeNextcloud, At
    <2>2. /\ task'[t].pc = "dropNextcloud" /\ task'[t].user = u
          /\ task'[t].job = "release" /\ task'[t].about = task[t].about
          /\ task'[t].has["nextcloud"] = tokens[u]["nextcloud"]
      BY <1>0, <2>1 DEF TaskTyped, TaskStates, Providers
    <2>3. DropsRight(t)'
      BY <1>0, <2>1, <2>2 DEF DropsRight
    <2> QED BY <1>2, <2>1, <2>2, <2>3 DEF ReleasePCs
  <1>5. CASE RevokeGoogle(t)
    <2>1. tokens' = tokens /\ task[t].pc = "revokeGoogle"
      BY <1>5 DEF RevokeGoogle, At
    <2>2. CASE AfterGoogle(t)
      BY <1>0, <1>1, <2>1, <2>2, AfterIs
    <2>3. CASE task' = [task EXCEPT ![t].pc = "dropGoogle", ![t].has["google"] = tokens[u]["google"]]
      <3>1. /\ task'[t].pc = "dropGoogle" /\ task'[t].user = u
            /\ task'[t].job = "release" /\ task'[t].about = task[t].about
            /\ task'[t].has["google"] = tokens[u]["google"]
        BY <1>0, <2>3 DEF TaskTyped, TaskStates, Providers
      <3>2. DropsRight(t)'
        BY <1>0, <2>1, <3>1 DEF DropsRight
      <3> QED BY <1>2, <2>1, <3>1, <3>2 DEF ReleasePCs
    <2> QED BY <1>5, <2>2, <2>3 DEF RevokeGoogle
  <1>6. CASE DropNextcloud(t)
    <2> DEFINE c == IF task[t].has["nextcloud"] = None THEN tokens[u]["nextcloud"] ELSE None
    <2>1. /\ task[t].pc = "dropNextcloud" /\ AfterNextcloud(t)
          /\ tokens' = [tokens EXCEPT ![u]["nextcloud"] = c, ![u]["flow"] = None]
      BY <1>6 DEF DropNextcloud, At, CredsTyped, Providers
    <2>2. /\ \A v \in Users \ {u} : tokens'[v] = tokens[v]
          /\ tokens'[u]["google"] = tokens[u]["google"] /\ tokens'[u]["nextcloud"] = c
          /\ tokens'[u]["flow"] = None
      BY <2>1 DEF CredsTyped, Providers
    <2>3. \/ task'[t] = Idle
          \/ /\ "google" \in task[t].about
             /\ task'[t].pc = "revokeGoogle" /\ task'[t].job = "release" /\ task'[t].user = u
      BY <1>0, <2>1, AfterIs
    <2>4. /\ drive[u] = "done" /\ ("google" \in task[t].about => photosDone[u])
          /\ tokens[u]["nextcloud"] \in {None, task[t].has["nextcloud"]}
      BY <1>0, <2>1 DEF DropsRight
    <2>5. DropsRight(t)' /\ JobsHere(t)' /\ task'[t].job \in {"release", "none"}
      <3>1. CASE task'[t] = Idle
        BY <3>1, IdleOwned
      <3>2. CASE /\ "google" \in task[t].about
                 /\ task'[t].pc = "revokeGoogle" /\ task'[t].job = "release" /\ task'[t].user = u
        BY <1>0, <2>4, <3>2 DEF DropsRight, JobsHere, ReleasePCs
      <3> QED BY <2>3, <3>1, <3>2
    <2>6. \A p \in Providers : tokens'[u][p] \in {tokens[u][p], None}
      BY <2>2 DEF Providers
    <2>7. Owned'
      BY <1>0, <2>1, <2>2, <2>5, <2>6, DropFrame
    <2>8. task'[t] # task[t]
      BY <1>0, <2>1, <2>3 DEF Idle
    <2>9. Clears
      BY <2>2, <2>4, <2>8 DEF Clears
    <2> QED BY <2>7, <2>9
  <1>7. CASE DropGoogle(t)
    <2>1. /\ task[t].pc = "dropGoogle" /\ AfterGoogle(t)
          /\ tokens' = [tokens EXCEPT ![u]["google"] = None]
      BY <1>7 DEF DropGoogle, DeleteToken, At
    <2>2. /\ \A v \in Users \ {u} : tokens'[v] = tokens[v]
          /\ tokens'[u]["google"] = None /\ tokens'[u]["nextcloud"] = tokens[u]["nextcloud"]
          /\ tokens'[u]["flow"] = tokens[u]["flow"]
      BY <2>1 DEF CredsTyped, Providers
    <2>3. task'[t] = Idle
      BY <1>0, <2>1, AfterIs
    <2>4. /\ drive[u] = "done" /\ photosDone[u]
          /\ tokens[u]["google"] \in {None, task[t].has["google"]}
      BY <1>0, <2>1 DEF DropsRight
    <2>5. DropsRight(t)' /\ JobsHere(t)' /\ task'[t].job \in {"release", "none"}
      BY <2>3, IdleOwned
    <2>6. \A p \in Providers : tokens'[u][p] \in {tokens[u][p], None}
      BY <2>2 DEF Providers
    <2>7. Owned'
      BY <1>0, <2>1, <2>2, <2>4, <2>5, <2>6, DropFrame
    <2>8. task'[t] # task[t]
      BY <1>0, <2>1, <2>3 DEF Idle
    <2>9. Clears
      BY <2>2, <2>4, <2>8 DEF Clears
    <2> QED BY <2>7, <2>9
  <1>8. CASE Touch(t)
    BY <1>0, <1>8 DEF Touch, At, ReleasePCs
  <1> QED BY <1>3, <1>4, <1>5, <1>6, <1>7, <1>8

\* What starts a task, on a page that is up to date.
LEMMA StartOwned ==
  ASSUME RowTyped, CredsTyped, TaskTyped, Owned, Quiet,
         "stale" \notin Events, "photos" \notin Events, \A v \in Users : ~still[v],
         NEW t \in Tasks, NEW u \in Users, Start(t, u), Others(t)
  PROVE  Owned' /\ Clears
  <1>0. DoneSafe(u) /\ tokens[u] \in [Providers -> Creds]
    BY DEF Owned, CredsTyped
  <1>1. ASSUME NEW p, NEW j, NEW h, Begins(t, u, j, p, h)
        PROVE  /\ task'[t].pc = p /\ task'[t].user = u /\ task'[t].job = j
               /\ task'[t].has = h /\ task'[t].about = {}
    BY <1>1 DEF Begins, Become, TaskTyped
  <1>2. ASSUME NEW q \in {"consented", "flow", "poll"}, NEW h, Begins(t, u, "connect", q, h)
        PROVE  task'[t].pc = q /\ task'[t].job = "connect" /\ task'[t].user = u /\ JobsHere(t)'
    <2>1. task'[t].pc = q /\ task'[t].job = "connect" /\ task'[t].user = u
      BY <1>1, <1>2
    <2> QED BY <2>1 DEF JobsHere, ReleasePCs
  <1>3. CASE OauthCallback(t, u)
    <2>1. /\ tokens[u]["google"] = None /\ ~Connecting(u)
          /\ drive[u] \notin {"done", "failed"} \/ ~photosDone[u]
          /\ Begins(t, u, "connect", "consented", NoCreds)
      BY <1>3 DEF OauthCallback, OffersGoogle
    <2>2. PICK c : tokens' = [tokens EXCEPT ![u]["google"] = c]
      BY <1>3 DEF OauthCallback, PutToken
    <2>3. drive' = drive /\ photosDone' = photosDone
      BY <1>3 DEF OauthCallback, PutToken
    <2>4. /\ \A v \in Users \ {u} : tokens'[v] = tokens[v]
          /\ tokens'[u]["nextcloud"] = tokens[u]["nextcloud"]
      BY <2>2 DEF CredsTyped, Providers
    <2>5. drive[u] # "done"
      BY <1>0, <2>1 DEF DoneSafe
    <2>6. Owned'
      BY <1>2, <2>1, <2>3, <2>4, <2>5, OfferFrame
    <2>7. Clears
      BY <2>1, <2>4 DEF Clears
    <2> QED BY <2>6, <2>7
  <1>4. CASE StartNextcloud(t, u)
    <2>1. /\ tokens[u]["nextcloud"] = None /\ drive[u] # "done"
          /\ Begins(t, u, "connect", "flow", NoCreds)
      BY <1>4 DEF StartNextcloud, OffersNextcloud
    <2>2. PICK c : tokens' = [tokens EXCEPT ![u]["flow"] = c]
      BY <1>4 DEF StartNextcloud, PutToken
    <2>3. drive' = drive /\ photosDone' = photosDone
      BY <1>4 DEF StartNextcloud, PutToken
    <2>4. /\ \A v \in Users \ {u} : tokens'[v] = tokens[v]
          /\ \A p \in {"google", "nextcloud"} : tokens'[u][p] = tokens[u][p]
      BY <2>2 DEF CredsTyped, Providers
    <2>5. Owned'
      BY <1>2, <2>1, <2>3, <2>4, OfferFrame
    <2>6. Clears
      BY <2>4 DEF Clears
    <2> QED BY <2>5, <2>6
  <1>5. CASE PollNextcloud(t, u)
    <2>1. /\ tokens[u]["nextcloud"] = None /\ tokens[u]["flow"] # None
          /\ Begins(t, u, "connect", "poll", [NoCreds EXCEPT !["flow"] = tokens[u]["flow"]])
          /\ tokens' = tokens /\ drive' = drive /\ photosDone' = photosDone
      BY <1>5 DEF PollNextcloud, halves, creds
    <2>2. drive[u] # "done"
      BY <1>0, <2>1 DEF DoneSafe
    <2>3. Owned'
      BY <1>2, <2>1, <2>2, OfferFrame
    <2> QED BY <2>1, <2>3, KeptClears
  <1>6. CASE StartDrive(t, u)
    <2>1. tokens' = tokens /\ drive[u] # "done" /\ task[t].pc = "idle"
      BY <1>6 DEF StartDrive, OffersStart, creds, At
    <2>2. CASE /\ tokens[u]["google"] # None /\ tokens[u]["nextcloud"] # None
               /\ Begins(t, u, "start", "askGoogle", [tokens[u] EXCEPT !["flow"] = None])
               /\ UNCHANGED halves
      <3>1. /\ task'[t].pc = "askGoogle" /\ task'[t].user = u /\ task'[t].job = "start"
            /\ task'[t].has = [tokens[u] EXCEPT !["flow"] = None] /\ task'[t].about = {}
        BY <1>1, <2>2
      <3>2. /\ task'[t].has["google"] = tokens[u]["google"]
            /\ task'[t].has["nextcloud"] = tokens[u]["nextcloud"]
        BY <1>0, <3>1 DEF Providers
      <3>3. \A s \in Tasks : ~(task[s].user = u /\ task[s].job = "connect")
        BY <1>6 DEF StartDrive, OffersStart, Connecting
      <3>4. Connects(u, {})'
        BY <3>1, <3>3 DEF Connects, Others
      <3>5. CopyOwns(t)' /\ DropsRight(t)' /\ JobsHere(t)'
        BY <2>1, <2>2, <3>1, <3>2, <3>4 DEF CopyOwns, DropsRight, JobsHere, Copying, ReleasePCs
      <3>6. drive' = drive /\ photosDone' = photosDone
        BY <2>2 DEF halves
      <3>7. Owned'
        BY <2>1, <3>1, <3>5, <3>6, SteadyFrame
      <3> QED BY <2>1, <3>7, KeptClears
    <2>3. CASE SetDriveState(u, "failed") /\ UNCHANGED task
      <3>1. \A v \in Users : drive'[v] = IF v = u THEN "failed" ELSE drive[v]
        BY <2>3, SetDriveStateIs DEF DriveStates
      <3>2. photosDone' = photosDone /\ task'[t] = task[t] /\ task[t].job = "none"
        BY <2>1, <2>3 DEF SetDriveState, Owned, JobsHere
      <3>3. CopyOwns(t)' /\ DropsRight(t)' /\ JobsHere(t)'
        BY <2>1, <3>2 DEF CopyOwns, DropsRight, JobsHere, Copying, ReleasePCs
      <3>4. Owned'
        BY <2>1, <3>1, <3>2, <3>3, SteadyFrame
      <3> QED BY <2>1, <3>4, KeptClears
    <2> QED BY <1>6, <2>2, <2>3 DEF StartDrive
  <1>7. CASE PhotosFinished(t, u)
    <2>1. /\ tokens' = tokens /\ drive' = drive /\ photosDone' = [photosDone EXCEPT ![u] = TRUE]
          /\ task' = [task EXCEPT ![t] = [Idle EXCEPT !.pc = "release", !.job = "release",
                                                     !.user = u]]
      BY <1>7 DEF PhotosFinished, creds, Become
    <2>2. task'[t].pc = "release" /\ task'[t].job = "release" /\ task'[t].user = u
      BY <2>1 DEF TaskTyped, Idle
    <2>3. CopyOwns(t)' /\ DropsRight(t)' /\ JobsHere(t)'
      BY <2>2 DEF CopyOwns, DropsRight, JobsHere, Copying
    <2>4. \A v \in Users : photosDone[v] => photosDone'[v]
      BY <2>1 DEF RowTyped
    <2>5. Owned'
      BY <2>1, <2>2, <2>3, <2>4, SteadyFrame
    <2> QED BY <2>1, <2>5, KeptClears
  <1> QED BY <1>3, <1>4, <1>5, <1>6, <1>7 DEF Start, SweepIdle, PhotosAsks

\* A restart forgets the tasks and keeps the credentials.
LEMMA RestartOwned ==
  ASSUME Owned, Restart
  PROVE  Owned' /\ Clears
  <1>1. /\ tokens' = tokens /\ photosDone' = photosDone /\ \A t \in Tasks : task'[t] = Idle
        /\ \A u \in Users : drive'[u] = "done" => drive[u] = "done"
    BY DEF Restart, creds, Working
  <1>2. \A t \in Tasks : CopyOwns(t)' /\ DropsRight(t)' /\ JobsHere(t)' /\ task'[t].job = "none"
    BY <1>1, IdleOwned
  <1>3. \A u \in Users : DoneSafe(u)'
    BY <1>1, <1>2 DEF Owned, DoneSafe, Connects
  <1> QED BY <1>1, <1>2, <1>3, KeptClears DEF Owned

\* A step that changes no more than what the providers accept.
LEMMA SameOwned ==
  ASSUME Owned, UNCHANGED halves, tokens' = tokens, task' = task
  PROVE  Owned' /\ Clears
  <1>1. drive' = drive /\ photosDone' = photosDone
    BY DEF halves
  <1>2. \A t \in Tasks : CopyOwns(t)' /\ DropsRight(t)' /\ JobsHere(t)'
    BY <1>1 DEF Owned, CopyOwns, DropsRight, JobsHere, Copying, Connects
  <1>3. \A u \in Users : DoneSafe(u)'
    BY <1>1 DEF Owned, DoneSafe, Connects
  <1> QED BY <1>2, <1>3, KeptClears DEF Owned

\* Nobody is idle for the retention period.
Awake == \A u \in Users : ~still[u]

\* Where nobody is idle, no step makes anybody so.
LEMMA AwakeStep ==
  ASSUME "idle" \notin Events, RowTyped, Awake, [Next]_vars
  PROVE  Awake'
  <1>1. still' = still \/ (\E v : still' = [still EXCEPT ![v] = FALSE])
          \/ \A u \in Users : still'[u] \in {FALSE, still[u]}
    <2>1. CASE \E t \in Tasks : Continue(t) \/ Stats(t) \/ Abandon(t) \/ Overrun(t)
      <3>1. PICK t \in Tasks : Continue(t) \/ Stats(t) \/ Abandon(t) \/ Overrun(t)
        BY <2>1
      <3>2. CASE Consented(t) \/ FlowStarted(t) \/ Poll(t) \/ Granted(t) \/ Spend(t) \/ Ready(t)
        BY <3>2 DEF Consented, FlowStarted, Poll, Granted, Spend, Ready, Ends, SetDriveState,
                    PutToken, Bump, halves
      <3>3. CASE AskGoogle(t) \/ AskNextcloud(t) \/ ReconnectDrive(t)
        BY <3>3 DEF AskGoogle, AskNextcloud, ReconnectDrive, Ends, SetDriveState, Bump, halves
      <3>4. CASE Acquire(t) \/ Begin(t) \/ ReadNextcloud(t) \/ RecordQuota(t) \/ Rclone(t)
                 \/ VerifyDrive(t) \/ Stats(t)
        BY <3>4 DEF Acquire, Begin, ReadNextcloud, RecordQuota, Rclone, VerifyDrive, Stats,
                    Ends, SetDriveState, Bump, halves
      <3>5. CASE Release(t) \/ RevokeNextcloud(t) \/ DropNextcloud(t) \/ RevokeGoogle(t)
                 \/ DropGoogle(t) \/ Touch(t) \/ Abandon(t) \/ Overrun(t)
        BY <3>5 DEF Release, RevokeNextcloud, DropNextcloud, RevokeGoogle, DropGoogle, Touch,
                    Abandon, Overrun, Bump, halves
      <3> QED BY <3>1, <3>2, <3>3, <3>4, <3>5 DEF Continue
    <2>2. CASE \E t \in Tasks, u \in Users : Start(t, u)
      BY ZenonT(60), <2>2 DEF Start, OauthCallback, StartNextcloud, PollNextcloud, StartDrive, SweepIdle,
                  PhotosFinished, PhotosAsks, PutToken, SetDriveState, Bump, halves
    <2>3. CASE (\E u \in Users : PhotosAgain(u) \/ Refuse(u) \/ IdlePasses(u)) \/ UNCHANGED vars
      BY <2>3 DEF PhotosAgain, Refuse, IdlePasses, Bump, halves, vars
    <2>4. CASE Restart
      BY <2>4 DEF Restart
    <2> QED BY <2>1, <2>2, <2>3, <2>4 DEF Next
  <1> QED BY <1>1 DEF Awake, RowTyped

\* Every step, on pages that are up to date, with the Photos half and the sweep at rest.
LEMMA OwnedStep ==
  ASSUME Events \cap {"again", "stale", "photos", "idle"} = {},
         Accounts, Quiet, Awake, Owned, [Next]_vars
  PROVE  Owned' /\ Clears
  <1>0. RowTyped /\ CredsTyped /\ TaskTyped /\ CopyFits
    BY DEF Accounts
  <1>1. CASE \E t \in Tasks : Continue(t) \/ Stats(t) \/ Abandon(t) \/ Overrun(t)
    <2>1. PICK t \in Tasks : Continue(t) \/ Stats(t) \/ Abandon(t) \/ Overrun(t)
      BY <1>1
    <2>2. Others(t)
      BY <1>0, <2>1, ContinueProper, CutProper DEF Proper
    <2> QED BY <1>0, <2>1, <2>2, ConnectOwned, AskOwned, RunOwned, ForgetOwned, CutOwned
            DEF Continue
  <1>2. CASE \E t \in Tasks, u \in Users : Start(t, u)
    <2>1. PICK t \in Tasks, u \in Users : Start(t, u)
      BY <1>2
    <2>2. Others(t)
      BY <1>0, <2>1, StartProper DEF Proper
    <2> QED BY <1>0, <2>1, <2>2, StartOwned DEF Awake
  <1>3. CASE (\E u \in Users : PhotosAgain(u) \/ Refuse(u) \/ IdlePasses(u)) \/ UNCHANGED vars
    <2>1. UNCHANGED halves /\ tokens' = tokens /\ task' = task
      BY <1>3 DEF PhotosAgain, Refuse, IdlePasses, vars, halves
    <2> QED BY <2>1, SameOwned
  <1>4. CASE Restart
    BY <1>4, RestartOwned
  <1> QED BY <1>1, <1>2, <1>3, <1>4 DEF Next

\* At first no job has anything.
LEMMA OwnedInit == Init => Owned /\ Awake
  <1> SUFFICES ASSUME Init PROVE Owned /\ Awake
    OBVIOUS
  <1>1. \A t \in Tasks : CopyOwns(t) /\ DropsRight(t) /\ JobsHere(t)
    BY DEF Init, CopyOwns, DropsRight, JobsHere, Copying, Idle, ReleasePCs
  <1>2. \A u \in Users : DoneSafe(u) /\ ~still[u]
    BY DEF Init, DoneSafe
  <1> QED BY <1>1, <1>2 DEF Owned, Awake

\* A task deletes the credential it asked about or revoked, never one that has taken
\* its place: nothing in the statement says so, which names the provider only, but on
\* pages that are up to date nobody connects an account while another task relies on
\* it.  A refusal, a restart, a browser that leaves and a copy that overruns do not
\* change that; the Photos half's own checks and the sweep do.
THEOREM CredentialsCleared ==
  ASSUME Events \cap {"again", "stale", "photos", "idle"} = {}
  PROVE  Spec => ClearsWhatItAsked
  <1> DEFINE Inv == Accounts /\ Quiet /\ Awake /\ Owned
  <1>1. Init => Inv
    BY QuietInit, OwnedInit, AccountsInductive
  <1>2. Inv /\ [Next]_vars => Inv' /\ [Clears]_vars
    BY QuietStep, AwakeStep, OwnedStep, AccountsInductive DEF Accounts
  <1> HIDE DEF Inv
  <1> QED BY <1>1, <1>2, PTL DEF Spec, ClearsWhatItAsked, Clears

----------------------------------------------------------------------------
(* A track that failed can be tried again *)

\* A run that has begun has moved its track on from an earlier failure.
Tried ==
  \A t \in Tasks : task[t].job = "run" /\ task[t].pc \notin {"idle", "queued", "begin"} =>
                     drive[task[t].user] # "failed"

\* Both credentials are in the tokens table.
Both(u) == tokens[u]["google"] # None /\ tokens[u]["nextcloud"] # None

\* A step of one task, about one person.
LEMMA RetryFrame ==
  ASSUME FailedCanRetry, Tried, CopyFits, NEW t \in Tasks, NEW u \in Users,
         task[t].user = u \/ task[t].pc = "idle", Others(t), task'[t].user \in {u, NoUser},
         \A v \in Users \ {u} : tokens'[v] = tokens[v] /\ drive'[v] = drive[v],
         drive'[u] = "failed" =>
           \/ Both(u)'
           \/ task'[t].user = u /\ task'[t].pc = "reconnect"
           \/ \E s \in Tasks \ {t} : task[s].user = u /\ task[s].pc = "reconnect",
         drive'[u] = "failed" =>
           drive[u] = "failed" \/ \A s \in Tasks \ {t} : task[s].user = u => task[s].job # "run",
         task'[t].job = "run" /\ task'[t].pc \notin {"idle", "queued", "begin"} =>
           task'[t].user = u /\ drive'[u] # "failed"
  PROVE  FailedCanRetry' /\ Tried'
  <1>1. ASSUME NEW v \in Users, drive'[v] = "failed"
        PROVE  Both(v)' \/ \E s \in Tasks : task'[s].user = v /\ task'[s].pc = "reconnect"
    <2>1. CASE v = u
      BY <1>1, <2>1 DEF Others
    <2>2. CASE v # u
      <3>1. Both(v) \/ \E s \in Tasks : task[s].user = v /\ task[s].pc = "reconnect"
        BY <1>1, <2>2 DEF FailedCanRetry, Both, At
      <3>2. Both(v) => Both(v)'
        BY <2>2 DEF Both
      <3>3. ASSUME NEW s \in Tasks, task[s].user = v, task[s].pc = "reconnect"
            PROVE  task'[s] = task[s]
        BY <2>2, <3>3 DEF Others
      <3> QED BY <3>1, <3>2, <3>3
    <2> QED BY <2>1, <2>2
  <1>2. ASSUME NEW s \in Tasks, task'[s].job = "run",
               task'[s].pc \notin {"idle", "queued", "begin"}
        PROVE  drive'[task'[s].user] # "failed"
    <2>1. CASE s = t
      BY <1>2, <2>1
    <2>2. CASE s # t
      <3>1. task'[s] = task[s] /\ task[s].user \in Users /\ drive[task[s].user] # "failed"
        BY <1>2, <2>2 DEF Others, CopyFits, Tried
      <3> QED BY <1>2, <2>2, <3>1
    <2> QED BY <2>1, <2>2
  <1>3. FailedCanRetry'
    BY <1>1 DEF FailedCanRetry, Both, At
  <1> QED BY <1>2, <1>3 DEF Tried

\* A step of a copy, the only one of its track: it leaves the track in another state,
\* or as a failure with both credentials, or about to be reconnected, or as it was.
LEMMA CopyRetry ==
  ASSUME FailedCanRetry, Tried, CopyFits, Quiet, NEW t \in Tasks, NEW u \in Users,
         task[t].user = u, Copying(t), Others(t), task'[t].user \in {u, NoUser},
         task'[t].job = "run" => task'[t].user = u,
         \A v \in Users \ {u} : tokens'[v] = tokens[v] /\ drive'[v] = drive[v],
         \/ drive'[u] # "failed"
         \/ Both(u)' /\ task'[t].job # "run"
         \/ /\ drive'[u] = drive[u] /\ task'[t].pc = "reconnect" /\ task'[t].user = u
            /\ task'[t].job = "run" => drive[u] # "failed"
         \/ /\ drive'[u] = drive[u] /\ tokens'[u] = tokens[u] /\ task[t].pc # "reconnect"
            /\ task'[t].job = "run" /\ task'[t].pc \notin {"queued", "begin"} => drive[u] # "failed"
  PROVE  FailedCanRetry' /\ Tried'
  <1>1. \A s \in Tasks \ {t} : task[s].user = u => task[s].job # "run" /\ task[s].pc # "reconnect"
    BY DEF Quiet, OneCopy, JobFits, OnlyCopyPCs, Copying
  <1>2. task'[t].job = "run" /\ task'[t].pc \notin {"idle", "queued", "begin"} =>
          drive'[u] # "failed"
    OBVIOUS
  <1>3. ASSUME drive'[u] = "failed"
        PROVE  Both(u)' \/ (task'[t].user = u /\ task'[t].pc = "reconnect")
    <2>1. CASE drive[u] = "failed" /\ tokens'[u] = tokens[u] /\ task[t].pc # "reconnect"
      <3>1. ~\E s \in Tasks : task[s].user = u /\ task[s].pc = "reconnect"
        BY <1>1, <2>1
      <3> QED BY <2>1, <3>1 DEF FailedCanRetry, Both, At
    <2> QED BY <1>3, <2>1
  <1> QED BY <1>1, <1>2, <1>3, RetryFrame

\* A copy that ends with a failure has both credentials in the tokens table.
LEMMA EndsRetry ==
  ASSUME RowTyped, TaskTyped, FailedCanRetry, Tried, CopyFits, Quiet, NEW t \in Tasks,
         NEW u \in Users, task[t].user = u, Copying(t), tokens' = tokens,
         NEW s \in {"selecting", "failed"}, Ends(t, s), s = "failed" => Both(u)
  PROVE  FailedCanRetry' /\ Tried'
  <1>1. s \in DriveStates
    BY DEF DriveStates
  <1>2. /\ task'[t] = Idle /\ Others(t)
        /\ \A v \in Users : drive'[v] = IF v = u THEN s ELSE drive[v]
    BY <1>1, EndsIs, EndIs DEF Ends
  <1>3. task'[t].user = NoUser /\ task'[t].job = "none"
    BY <1>2 DEF Idle
  <1>4. drive'[u] # "failed" \/ Both(u)'
    BY <1>2 DEF Both
  <1> QED BY <1>2, <1>3, <1>4, CopyRetry

\* The answers of the providers.
LEMMA AskRetry ==
  ASSUME RowTyped, CredsTyped, TaskTyped, FailedCanRetry, Tried, CopyFits, Quiet, Owned,
         NEW t \in Tasks, Others(t), AskGoogle(t) \/ AskNextcloud(t) \/ ReconnectDrive(t)
  PROVE  FailedCanRetry' /\ Tried'
  <1>0. /\ Copying(t) /\ task[t].user \in Users /\ CopyOwns(t) /\ task[t] \in TaskStates
        /\ task[t].pc \in {"askGoogle", "askNextcloud", "reconnect"}
        /\ task[t].job = "run" => drive[task[t].user] # "failed"
    BY DEF Owned, Quiet, JobFits, JobsHere, CopyFits, AskGoogle, AskNextcloud, ReconnectDrive, At,
           OnlyCopyPCs, TaskTyped, Tried
  <1> PICK u \in Users : u = task[t].user
    BY <1>0
  <1>1. ASSUME NEW p \in {"google", "nextcloud"}, UNCHANGED tokens \/ Refuses(t, p)
        PROVE  \A v \in Users \ {u} : tokens'[v] = tokens[v]
    BY <1>1 DEF Refuses, DeleteToken, CredsTyped
  <1>2. CASE AskGoogle(t)
    <2>1. drive' = drive /\ task[t].job # "photos" /\ task[t].pc = "askGoogle"
          /\ \A v \in Users \ {u} : tokens'[v] = tokens[v]
      BY <1>0, <1>1, <1>2 DEF AskGoogle, halves, Copying, At
    <2>2. CASE Goto(t, "askNextcloud") /\ UNCHANGED tokens
      <3>1. task'[t].pc = "askNextcloud" /\ task'[t].user = u /\ task'[t].job = task[t].job
        BY <2>2, GotoIs DEF PCs, InSlot
      <3> QED BY <1>0, <2>1, <2>2, <3>1, CopyRetry
    <2>3. CASE Goto(t, "reconnect")
      <3>1. task'[t].pc = "reconnect" /\ task'[t].user = u /\ task'[t].job = task[t].job
        BY <2>3, GotoIs DEF PCs, InSlot
      <3> QED BY <1>0, <2>1, <3>1, CopyRetry
    <2>4. CASE /\ task[t].job = "run"
               /\ task' = [task EXCEPT ![t].pc = "askNextcloud", ![t].about = @ \cup {"google"}]
      <3>1. task'[t].user = u /\ drive'[u] # "failed"
        BY <1>0, <2>1, <2>4 DEF TaskTyped, TaskStates
      <3> QED BY <1>0, <2>1, <3>1, CopyRetry
    <2> QED BY <1>0, <1>2, <2>1, <2>2, <2>3, <2>4 DEF AskGoogle, Copying
  <1>3. CASE AskNextcloud(t)
    <2>1. task[t].pc = "askNextcloud"
      BY <1>3 DEF AskNextcloud, At
    <2>2. \A v \in Users \ {u} : tokens'[v] = tokens[v]
      BY <1>1, <1>3 DEF AskNextcloud
    <2>3. CASE Goto(t, "reconnect") /\ UNCHANGED halves
      <3>1. task'[t].pc = "reconnect" /\ task'[t].user = u /\ task'[t].job = task[t].job
        BY <2>3, GotoIs DEF PCs, InSlot
      <3>2. drive' = drive
        BY <2>3 DEF halves
      <3> QED BY <1>0, <2>2, <3>1, <3>2, CopyRetry
    <2>4. CASE /\ UNCHANGED tokens /\ task[t].job = "start" /\ UNCHANGED halves
               /\ task' = [task EXCEPT ![t].pc = "queued", ![t].job = "run",
                                       ![t].has["nextcloud"] = None]
      <3>1. task'[t].pc = "queued" /\ task'[t].user = u /\ task'[t].job = "run"
        BY <1>0, <2>4 DEF TaskTyped, TaskStates
      <3>2. drive' = drive
        BY <2>4 DEF halves
      <3> QED BY <1>0, <2>1, <2>4, <3>1, <3>2, CopyRetry
    <2>5. CASE UNCHANGED tokens /\ Ends(t, "failed") /\ task[t].about = {}
      <3>1. Both(u)
        BY <1>0, <2>1, <2>5 DEF CopyOwns, Both
      <3> QED BY <1>0, <2>5, <3>1, EndsRetry
    <2> QED BY <1>3, <2>3, <2>4, <2>5 DEF AskNextcloud
  <1>4. CASE ReconnectDrive(t)
    <2>1. Ends(t, "selecting") /\ tokens' = tokens
      BY <1>4 DEF ReconnectDrive, creds
    <2> QED BY <1>0, <2>1, EndsRetry
  <1> QED BY <1>2, <1>3, <1>4

\* A run, and a copy whose day is over.
LEMMA RunRetry ==
  ASSUME RowTyped, CredsTyped, TaskTyped, FailedCanRetry, Tried, CopyFits, Quiet, Owned,
         NEW t \in Tasks, Others(t),
         \/ Acquire(t) \/ Begin(t) \/ ReadNextcloud(t) \/ RecordQuota(t) \/ Stats(t)
         \/ Rclone(t) \/ VerifyDrive(t) \/ Overrun(t)
  PROVE  FailedCanRetry' /\ Tried'
  <1>0. /\ Copying(t) /\ task[t].user \in Users /\ CopyOwns(t) /\ task[t] \in TaskStates
        /\ task[t].job = "run"
        /\ task[t].pc \notin {"idle", "queued", "begin"} => drive[task[t].user] # "failed"
    <2>1. task[t].job = "run"
      BY DEF CopyFits, Acquire, Begin, ReadNextcloud, RecordQuota, Stats, Rclone, VerifyDrive,
             Overrun, HasSlot, At, CopyPCs
    <2>2. task[t].user \in Users
      BY <2>1 DEF Owned, JobsHere
    <2> QED BY <2>1, <2>2 DEF Owned, TaskTyped, Tried, Copying
  <1> PICK u \in Users : u = task[t].user
    BY <1>0
  <1>1. Both(u) \/ task[t].pc \in {"reconnect", "askNextcloud"}
    BY <1>0 DEF CopyOwns, Both
  <1>2. ASSUME NEW q \in PCs, task'[t].pc = q, task'[t].user = u, task'[t].job = "run",
               drive' = drive, \A v \in Users \ {u} : tokens'[v] = tokens[v],
               q = "begin" => task[t].pc = "queued" /\ tokens' = tokens,
               q # "begin" => task[t].pc \notin {"idle", "queued", "begin"}
        PROVE  FailedCanRetry' /\ Tried'
    <2>1. CASE q = "begin"
      BY <1>0, <1>2, <2>1, CopyRetry
    <2>2. CASE q # "begin"
      BY <1>0, <1>2, <2>2, CopyRetry
    <2> QED BY <2>1, <2>2
  <1>3. ASSUME NEW s \in DriveStates \ {"failed"}, tokens' = tokens, SetDriveState(u, s),
               task'[t].user = u
        PROVE  FailedCanRetry' /\ Tried'
    <2>1. \A v \in Users : drive'[v] = IF v = u THEN s ELSE drive[v]
      BY <1>3, SetDriveStateIs
    <2> QED BY <1>0, <1>3, <2>1, CopyRetry
  <1>4. ASSUME Ends(t, "failed"), tokens' = tokens, task[t].pc \notin {"reconnect", "askNextcloud"}
        PROVE  FailedCanRetry' /\ Tried'
    BY <1>0, <1>1, <1>4, EndsRetry
  <1>5. CASE Acquire(t)
    <2>1. /\ task'[t].pc = "begin" /\ task'[t].user = u /\ task'[t].job = "run"
          /\ tokens' = tokens /\ drive' = drive /\ task[t].pc = "queued" /\ "begin" \in PCs
      BY <1>0, <1>5, GotoIs DEF Acquire, PCs, InSlot, halves, creds, At
    <2> QED BY <1>2, <2>1
  <1>6. CASE Begin(t) \/ Stats(t)
    <2>1. tokens' = tokens /\ SetDriveState(u, "copying") /\ "copying" \in DriveStates \ {"failed"}
      BY <1>6 DEF Begin, Stats, creds, DriveStates
    <2>2. task'[t].user = u
      BY <1>6, GotoIs DEF Begin, Stats, PCs, InSlot
    <2> QED BY <1>3, <2>1, <2>2
  <1>7. CASE ReadNextcloud(t)
    <2>1. tokens' = tokens /\ task[t].pc = "readNextcloud"
      BY <1>7 DEF ReadNextcloud, creds, At
    <2>2. CASE UNCHANGED halves /\ Goto(t, "reconnect")
      <3>1. /\ task'[t].pc = "reconnect" /\ task'[t].user = u /\ task'[t].job = "run"
            /\ drive' = drive /\ "reconnect" \in PCs
        BY <1>0, <2>2, GotoIs DEF PCs, InSlot, halves
      <3> QED BY <1>2, <2>1, <3>1
    <2>3. CASE /\ UNCHANGED halves
               /\ task' = [task EXCEPT ![t].pc = "quota",
                                       ![t].has["nextcloud"] = tokens[u]["nextcloud"]]
      <3>1. /\ task'[t].pc = "quota" /\ task'[t].user = u /\ task'[t].job = "run"
            /\ drive' = drive /\ "quota" \in PCs
        BY <1>0, <2>3 DEF TaskTyped, TaskStates, PCs, InSlot, halves
      <3> QED BY <1>2, <2>1, <3>1
    <2>4. CASE Ends(t, "failed")
      BY <1>4, <2>1, <2>4
    <2> QED BY <1>7, <2>2, <2>3, <2>4 DEF ReadNextcloud
  <1>8. CASE RecordQuota(t)
    <2>1. task[t].pc = "quota" /\ \A v \in Users \ {u} : tokens'[v] = tokens[v]
      BY <1>8 DEF RecordQuota, Refuses, DeleteToken, CredsTyped, At
    <2>2. CASE UNCHANGED halves /\ (Goto(t, "copy") \/ Goto(t, "reconnect"))
      <3>1. PICK q \in {"copy", "reconnect"} : Goto(t, q)
        BY <2>2
      <3>2. /\ task'[t].pc = q /\ task'[t].user = u /\ task'[t].job = "run"
            /\ drive' = drive /\ q \in PCs /\ q # "begin"
        BY <1>0, <2>2, <3>1, GotoIs DEF PCs, InSlot, halves
      <3> QED BY <1>2, <2>1, <3>2
    <2>3. CASE Ends(t, "failed") /\ UNCHANGED tokens
      BY <1>4, <2>1, <2>3
    <2> QED BY <1>8, <2>2, <2>3 DEF RecordQuota
  <1>9. CASE Rclone(t)
    <2>1. task[t].pc = "copy" /\ tokens' = tokens
      BY <1>9 DEF Rclone, At, creds
    <2>2. CASE UNCHANGED halves /\ Goto(t, "askGoogle")
      <3>1. /\ task'[t].pc = "askGoogle" /\ task'[t].user = u /\ task'[t].job = "run"
            /\ drive' = drive /\ "askGoogle" \in PCs
        BY <1>0, <2>2, GotoIs DEF PCs, InSlot, halves
      <3> QED BY <1>2, <2>1, <3>1
    <2>3. CASE Goto(t, "verify") /\ SetDriveState(u, "verifying")
      <3>1. task'[t].user = u /\ "verifying" \in DriveStates \ {"failed"}
        BY <2>3, GotoIs DEF PCs, InSlot, DriveStates
      <3> QED BY <1>3, <2>1, <2>3, <3>1
    <2> QED BY <1>9, <2>2, <2>3 DEF Rclone
  <1>10. CASE VerifyDrive(t)
    <2>1. task[t].pc = "verify" /\ tokens' = tokens
      BY <1>10 DEF VerifyDrive, At, creds
    <2>2. CASE Ends(t, "failed")
      BY <1>4, <2>1, <2>2
    <2>3. CASE /\ SetDriveState(u, "done")
               /\ task' = [task EXCEPT ![t] = [Idle EXCEPT !.pc = "release", !.job = "release",
                                                           !.user = u]]
      <3>1. task'[t].user = u /\ "done" \in DriveStates \ {"failed"}
        BY <2>3 DEF TaskTyped, Idle, DriveStates
      <3> QED BY <1>3, <2>1, <2>3, <3>1
    <2> QED BY <1>10, <2>2, <2>3 DEF VerifyDrive
  <1>11. CASE Overrun(t)
    <2>1. /\ task'[t] = Idle /\ tokens' = tokens /\ drive' = drive
      BY <1>11, EndIs DEF Overrun, halves, creds
    <2>2. task'[t].user = NoUser /\ task'[t].job = "none"
      BY <2>1 DEF Idle
    <2> QED BY <1>0, <2>1, <2>2, CopyRetry
  <1> QED BY <1>5, <1>6, <1>7, <1>8, <1>9, <1>10, <1>11

\* A step of a task that is not a copy, and takes no credential of a track that failed.
LEMMA OtherRetry ==
  ASSUME FailedCanRetry, Tried, CopyFits, Quiet, NEW t \in Tasks, NEW u \in Users,
         task[t].user = u \/ task[t].pc = "idle", task[t].pc # "reconnect",
         Others(t), task'[t].user \in {u, NoUser},
         task'[t].job # "run", \A v \in Users \ {u} : tokens'[v] = tokens[v] /\ drive'[v] = drive[v],
         drive'[u] = drive[u] \/ drive'[u] # "failed",
         drive[u] = "failed" /\ Both(u) => Both(u)'
  PROVE  FailedCanRetry' /\ Tried'
  <1>1. ASSUME drive'[u] = "failed"
        PROVE  Both(u)' \/ \E s \in Tasks \ {t} : task[s].user = u /\ task[s].pc = "reconnect"
    BY <1>1 DEF FailedCanRetry, Both, At
  <1> QED BY <1>1, RetryFrame

\* Connecting an account gives credentials, and takes no more than a spent flow.
LEMMA ConnectRetry ==
  ASSUME RowTyped, CredsTyped, TaskTyped, FailedCanRetry, Tried, CopyFits, Quiet, Owned,
         NEW t \in Tasks, Others(t),
         Consented(t) \/ FlowStarted(t) \/ Poll(t) \/ Granted(t) \/ Spend(t) \/ Ready(t)
  PROVE  FailedCanRetry' /\ Tried'
  <1>0. /\ task[t].pc \in ConnectPCs /\ task[t].job = "connect" /\ task[t].user \in Users
        /\ task[t] \in TaskStates /\ task[t].pc # "reconnect"
    BY DEF JobFits, Quiet, ConnectPCs, CopyFits, TaskTyped,
           Consented, FlowStarted, Poll, Granted, Spend, Ready, At
  <1> PICK u \in Users : u = task[t].user
    BY <1>0
  <1>1. task'[t].user \in {u, NoUser} /\ task'[t].job # "run"
    <2>1. End(t) => task'[t].user = NoUser /\ task'[t].job = "none"
      BY EndIs DEF Idle
    <2>2. \/ End(t) \/ Goto(t, "spend") \/ Goto(t, "ready")
          \/ \E c : task' = [task EXCEPT ![t].pc = "granted", ![t].has["nextcloud"] = c]
      BY DEF Consented, FlowStarted, Poll, Granted, Spend, Ready, Ends
    <2> QED BY <1>0, <2>1, <2>2 DEF Goto, TaskTyped, TaskStates
  <1>2. /\ \A v \in Users \ {u} : drive'[v] = drive[v]
        /\ drive'[u] = drive[u] \/ drive'[u] # "failed"
    BY DEF Consented, FlowStarted, Poll, Granted, Spend, Ready, Ends, SetDriveState, PutToken,
           RowTyped, halves
  <1>3. /\ \A v \in Users \ {u} : tokens'[v] = tokens[v]
        /\ Both(u) => Both(u)'
    <2>1. CASE tokens' = tokens
      BY <2>1 DEF Both
    <2>2. CASE Granted(t)
      <3>1. tokens' = [tokens EXCEPT ![u]["nextcloud"] = task[t].has["nextcloud"]]
        BY <2>2 DEF Granted, PutToken
      <3>2. task[t].has["nextcloud"] # None
        BY <2>2 DEF Granted, At, Owned, JobsHere
      <3> QED BY <3>1, <3>2 DEF CredsTyped, Providers, Both
    <2>3. CASE Spend(t)
      BY <2>3 DEF Spend, DeleteToken, CredsTyped, Providers, Both
    <2> QED BY <2>1, <2>2, <2>3 DEF Consented, FlowStarted, Poll, Ready, creds
  <1> QED BY <1>0, <1>1, <1>2, <1>3, OtherRetry

\* Forgetting is for tracks that are done.
LEMMA ForgetRetry ==
  ASSUME RowTyped, CredsTyped, TaskTyped, FailedCanRetry, Tried, CopyFits, Quiet, Owned,
         NEW t \in Tasks, Others(t),
         \/ Release(t) \/ RevokeNextcloud(t) \/ DropNextcloud(t) \/ RevokeGoogle(t)
         \/ DropGoogle(t) \/ Touch(t)
  PROVE  FailedCanRetry' /\ Tried'
  <1>0. /\ task[t].pc \in ReleasePCs /\ task[t].job = "release" /\ task[t].user \in Users
        /\ task[t] \in TaskStates /\ DropsRight(t) /\ drive' = drive /\ task[t].pc # "reconnect"
    BY DEF Owned, JobsHere, ReleasePCs, CopyFits, TaskTyped, halves, Release, RevokeNextcloud,
           DropNextcloud, RevokeGoogle, DropGoogle, Touch, At
  <1> PICK u \in Users : u = task[t].user
    BY <1>0
  <1>1. task'[t].user \in {u, NoUser} /\ task'[t].job # "run"
    <2>1. End(t) => task'[t].user = NoUser /\ task'[t].job = "none"
      BY EndIs DEF Idle
    <2>2. \/ End(t) \/ Goto(t, "revokeGoogle")
          \/ \E a : task' = [task EXCEPT ![t].pc = "revokeNextcloud", ![t].about = a]
          \/ \E c : task' = [task EXCEPT ![t].pc = "dropNextcloud", ![t].has["nextcloud"] = c]
          \/ \E c : task' = [task EXCEPT ![t].pc = "dropGoogle", ![t].has["google"] = c]
      BY <1>0 DEF Release, RevokeNextcloud, DropNextcloud, RevokeGoogle, DropGoogle, Touch,
                  AfterGoogle, AfterNextcloud
    <2> QED BY <1>0, <2>1, <2>2 DEF Goto, TaskTyped, TaskStates
  <1>2. tokens' = tokens \/ drive[u] = "done"
    BY <1>0 DEF Release, RevokeNextcloud, DropNextcloud, RevokeGoogle, DropGoogle, Touch, creds,
                DropsRight, At
  <1>3. \A v \in Users \ {u} : tokens'[v] = tokens[v]
    BY DEF Release, RevokeNextcloud, DropNextcloud, RevokeGoogle, DropGoogle, Touch, creds,
           DeleteToken, CredsTyped
  <1>4. drive[u] = "failed" /\ Both(u) => Both(u)'
    BY <1>2 DEF Both
  <1> QED BY <1>0, <1>1, <1>3, <1>4, OtherRetry

\* What starts a task.
LEMMA StartRetry ==
  ASSUME RowTyped, CredsTyped, TaskTyped, FailedCanRetry, Tried, CopyFits, Quiet, Owned,
         "again" \notin Events, "stale" \notin Events, "photos" \notin Events,
         \A v \in Users : ~still[v], NEW t \in Tasks, NEW u \in Users, Start(t, u), Others(t)
  PROVE  FailedCanRetry' /\ Tried'
  <1>0. task[t].pc = "idle" /\ tokens[u] \in [Providers -> Creds]
    BY DEF Start, OauthCallback, StartNextcloud, PollNextcloud, StartDrive, SweepIdle,
           PhotosFinished, PhotosAsks, Begins, At, CredsTyped
  <1>1. ASSUME NEW p, NEW j \in {"connect", "start"}, NEW h, Begins(t, u, j, p, h), drive' = drive,
               \A v \in Users \ {u} : tokens'[v] = tokens[v], Both(u) => Both(u)'
        PROVE  FailedCanRetry' /\ Tried'
    <2>1. task'[t].user = u /\ task'[t].job = j
      BY <1>1 DEF Begins, Become, TaskTyped
    <2> QED BY <1>0, <1>1, <2>1, OtherRetry
  <1>2. CASE OauthCallback(t, u)
    <2>1. PICK c \in Creds \ {None} : tokens' = [tokens EXCEPT ![u]["google"] = c]
      BY <1>2 DEF OauthCallback, PutToken, Fresh
    <2>2. (\A v \in Users \ {u} : tokens'[v] = tokens[v]) /\ (Both(u) => Both(u)')
      BY <2>1 DEF CredsTyped, Providers, Both
    <2> QED BY <1>1, <1>2, <2>2 DEF OauthCallback, PutToken
  <1>3. CASE StartNextcloud(t, u)
    <2>1. PICK c \in Creds \ {None} : tokens' = [tokens EXCEPT ![u]["flow"] = c]
      BY <1>3 DEF StartNextcloud, PutToken, Fresh
    <2>2. (\A v \in Users \ {u} : tokens'[v] = tokens[v]) /\ (Both(u) => Both(u)')
      BY <2>1 DEF CredsTyped, Providers, Both
    <2> QED BY <1>1, <1>3, <2>2 DEF StartNextcloud, PutToken
  <1>4. CASE PollNextcloud(t, u)
    <2>1. tokens' = tokens /\ drive' = drive
      BY <1>4 DEF PollNextcloud, halves, creds
    <2> QED BY <1>1, <1>4, <2>1 DEF PollNextcloud, Both
  <1>5. CASE StartDrive(t, u)
    <2>1. tokens' = tokens
      BY <1>5 DEF StartDrive, creds
    <2>2. CASE \E h : Begins(t, u, "start", "askGoogle", h) /\ UNCHANGED halves
      BY <1>1, <2>1, <2>2 DEF halves, Both
    <2>3. CASE SetDriveState(u, "failed") /\ UNCHANGED task
      <3>1. \A v \in Users : drive'[v] = IF v = u THEN "failed" ELSE drive[v]
        BY <2>3, SetDriveStateIs DEF DriveStates
      <3>2. /\ drive[u] = "failed" \/ Both(u)
            /\ \A s \in Tasks : ~(task[s].user = u /\ Copying(s))
        BY <1>5 DEF StartDrive, OffersStart, Both
      <3>3. \A s \in Tasks : ~(task[s].user = u /\ task[s].pc = "reconnect")
        BY <3>2 DEF Quiet, JobFits, OnlyCopyPCs
      <3>4. Both(u)
        BY <3>2, <3>3 DEF FailedCanRetry, Both, At
      <3>5. \A v \in Users : drive'[v] = "failed" => drive[v] = "failed" \/ v = u
        BY <3>1
      <3>6. FailedCanRetry'
        BY <2>1, <2>3, <3>4, <3>5 DEF FailedCanRetry, Both, At
      <3>7. Tried'
        <4> SUFFICES ASSUME NEW s \in Tasks, task[s].job = "run",
                            task[s].pc \notin {"idle", "queued", "begin"}
                     PROVE  drive'[task[s].user] # "failed"
          BY <2>3 DEF Tried
        <4>1. task[s].user \in Users /\ task[s].user # u
          BY <3>2 DEF CopyFits, Copying
        <4> QED BY <3>1, <4>1 DEF Tried
      <3> QED BY <3>6, <3>7
    <2> QED BY <1>5, <2>2, <2>3 DEF StartDrive
  <1>6. CASE PhotosFinished(t, u)
    <2>1. /\ tokens' = tokens /\ drive' = drive
          /\ task' = [task EXCEPT ![t] = [Idle EXCEPT !.pc = "release", !.job = "release",
                                                     !.user = u]]
      BY <1>6 DEF PhotosFinished, creds, Become
    <2>2. task'[t].job = "release" /\ task'[t].user = u
      BY <2>1 DEF TaskTyped, Idle
    <2> QED BY <1>0, <2>1, <2>2, OtherRetry DEF Both
  <1> QED BY <1>2, <1>3, <1>4, <1>5, <1>6 DEF Start, SweepIdle, PhotosAsks

\* A track that failed can be tried again: whatever the providers refuse, whatever cannot
\* be opened and however long a copy takes, both credentials are there, or the track is
\* about to go back to where the wizard offers to connect.  That holds for a process that
\* goes on and a browser that waits; the last write is lost with either.
THEOREM FailedRetried ==
  ASSUME Events \cap {"again", "stale", "photos", "idle", "restart", "disconnect"} = {}
  PROVE  Spec => []FailedCanRetry
  <1> DEFINE Inv == Accounts /\ Quiet /\ Awake /\ Owned /\ FailedCanRetry /\ Tried
  <1>1. ASSUME Init PROVE FailedCanRetry /\ Tried
    BY <1>1 DEF Init, FailedCanRetry, Tried, Idle
  <1>2. Init => Inv
    BY <1>1, QuietInit, OwnedInit, AccountsInductive
  <1>3. ASSUME Inv, [Next]_vars PROVE FailedCanRetry' /\ Tried'
    <2>0. RowTyped /\ CredsTyped /\ TaskTyped /\ CopyFits
      BY <1>3 DEF Accounts
    <2>1. CASE \E t \in Tasks : Continue(t) \/ Stats(t) \/ Abandon(t) \/ Overrun(t)
      <3>1. PICK t \in Tasks : Continue(t) \/ Stats(t) \/ Overrun(t)
        BY <2>1 DEF Abandon
      <3>2. Others(t)
        BY <2>0, <3>1, ContinueProper, CutProper DEF Proper
      <3> QED BY <1>3, <2>0, <3>1, <3>2, ConnectRetry, AskRetry, RunRetry, ForgetRetry
              DEF Continue
    <2>2. CASE \E t \in Tasks, u \in Users : Start(t, u)
      <3>1. PICK t \in Tasks, u \in Users : Start(t, u)
        BY <2>2
      <3>2. Others(t)
        BY <2>0, <3>1, StartProper DEF Proper
      <3> QED BY <1>3, <2>0, <3>1, <3>2, StartRetry DEF Awake
    <2>3. CASE (\E u \in Users : PhotosAgain(u) \/ Refuse(u) \/ IdlePasses(u)) \/ UNCHANGED vars
      <3>1. drive' = drive /\ tokens' = tokens /\ task' = task
        BY <2>3 DEF PhotosAgain, Refuse, IdlePasses, vars, halves, creds
      <3> QED BY <1>3, <3>1 DEF FailedCanRetry, Tried, At
    <2> QED BY <1>3, <2>1, <2>2, <2>3 DEF Next, Restart
  <1>4. Inv /\ [Next]_vars => Inv'
    BY <1>3, QuietStep, AwakeStep, OwnedStep, AccountsInductive DEF Accounts
  <1>5. Inv => FailedCanRetry
    OBVIOUS
  <1> HIDE DEF Inv
  <1> QED BY <1>2, <1>4, <1>5, PTL DEF Spec
=============================================================================
