-------------------------- MODULE DriveTrackProofs --------------------------
(***************************************************************************)
(* Proofs about DriveTrack, for any people, goroutines, slots and          *)
(* credentials: its types with the accounts of the limiter, and that a     *)
(* track shown as running has a copy in its slot.                          *)
(***************************************************************************)
EXTENDS DriveTrack, FiniteSetTheorems, TLAPS

----------------------------------------------------------------------------
(* What a step of one task does *)

\* The runs that have a slot.
Inside == {t \in Tasks : HasSlot(t)}

\* Only a detached copy is past the queue, and whatever is alive serves somebody.
CopyPCs == {"queued", "begin", "readNextcloud", "quota", "copy", "verify"}
CopyFits == \A t \in Tasks : /\ task[t].pc \in CopyPCs => task[t].job = "run"
                             /\ task[t].pc # "idle" => task[t].user \in Users

\* A step of t leaves the other tasks alone, and t as CopyFits wants it.
Others(t) == \A s \in Tasks \ {t} : task'[s] = task[s]
Fits(t) == /\ task'[t].pc \in CopyPCs => task'[t].job = "run"
           /\ task'[t].pc # "idle" => task'[t].user \in Users

\* The parts of TypeOK, but for the count of slots.

RowTyped == /\ drive \in [Users -> DriveStates]
            /\ photosDone \in [Users -> BOOLEAN]
            /\ still \in [Users -> BOOLEAN]
CredsTyped == /\ tokens \in [Users -> [Providers -> Creds]]
              /\ live \in [Users -> [Providers -> SUBSET (Creds \ {None})]]
TaskTyped == task \in [Tasks -> TaskStates]

\* The slot of one task, before and after a step of it.
Keeps(t) == used' = used /\ (HasSlot(t)' <=> HasSlot(t))
Leaves(t) == used' = used - 1 /\ HasSlot(t) /\ ~HasSlot(t)'
Enters(t) == used < Slots /\ used' = used + 1 /\ ~HasSlot(t) /\ HasSlot(t)'

\* A step of the task alone, well typed, that accounts for its slot.
Proper(t) ==
  /\ RowTyped' /\ CredsTyped' /\ TaskTyped' /\ Others(t) /\ Fits(t)
  /\ Keeps(t) \/ Leaves(t) \/ Enters(t)

\* An idle task is a task.
LEMMA IdleTyped == Idle \in TaskStates /\ NoCreds \in [Providers -> Creds]
  BY CredsAssumption DEF Idle, TaskStates, NoCreds, Creds, None, PCs, Jobs

\* A task that becomes another.
LEMMA BecomeIs ==
  ASSUME TaskTyped, NEW t \in Tasks, NEW r \in TaskStates, Become(t, r)
  PROVE  TaskTyped' /\ Others(t) /\ task'[t] = r
  BY DEF TaskTyped, Become, Others

\* A task that only goes on.
LEMMA GotoIs ==
  ASSUME TaskTyped, NEW t \in Tasks, NEW p \in PCs, Goto(t, p)
  PROVE  /\ TaskTyped' /\ Others(t)
         /\ task'[t].pc = p /\ task'[t].job = task[t].job
         /\ task'[t].user = task[t].user
  BY DEF TaskTyped, Goto, Others, TaskStates

\* A task that ends.
LEMMA EndIs ==
  ASSUME TaskTyped, NEW t \in Tasks, End(t)
  PROVE  /\ TaskTyped' /\ Others(t) /\ Fits(t) /\ ~HasSlot(t)'
         /\ task'[t] = Idle
  BY BecomeIs, IdleTyped DEF End, Fits, CopyPCs, HasSlot, Idle, InSlot

\* Writes of the row.
LEMMA SetDriveStateIs ==
  ASSUME RowTyped, NEW u, NEW s \in DriveStates, SetDriveState(u, s)
  PROVE  RowTyped' /\ \A v \in Users : drive'[v] = IF v = u THEN s ELSE drive[v]
  BY DEF RowTyped, SetDriveState, Bump

\* A credential is stored: the tokens keep their type, the track stays.
LEMMA PutTokenIs ==
  ASSUME RowTyped, CredsTyped, NEW u, NEW p \in Providers, NEW c \in Creds, PutToken(u, p, c)
  PROVE  RowTyped' /\ tokens' \in [Users -> [Providers -> Creds]] /\ drive' = drive
  BY DEF RowTyped, CredsTyped, PutToken, Bump

\* A credential is deleted.
LEMMA DeleteTokenIs ==
  ASSUME CredsTyped, NEW u, NEW p \in Providers, DeleteToken(u, p)
  PROVE  tokens' \in [Users -> [Providers -> Creds]]
  <1>1. tokens' = [v \in Users |-> IF v = u THEN [tokens[v] EXCEPT ![p] = None] ELSE tokens[v]]
    BY DEF CredsTyped, DeleteToken
  <1>2. None \in Creds
    BY CredsAssumption DEF Creds, None
  <1>3. ASSUME NEW v \in Users PROVE [tokens[v] EXCEPT ![p] = None] \in [Providers -> Creds]
    BY <1>2 DEF CredsTyped
  <1> QED BY <1>1, <1>3 DEF CredsTyped

\* What the providers accept.
LEMMA MadeIs ==
  ASSUME CredsTyped, NEW u, NEW p \in Providers, NEW c \in Creds \ {None},
         Made(u, p, c) \/ Revoked(u, p, c)
  PROVE  live' \in [Users -> [Providers -> SUBSET (Creds \ {None})]]
  <1>1. ASSUME NEW v \in Users
        PROVE  /\ [live[v] EXCEPT ![p] = @ \cup {c}] \in [Providers -> SUBSET (Creds \ {None})]
               /\ [live[v] EXCEPT ![p] = @ \ {c}] \in [Providers -> SUBSET (Creds \ {None})]
    <2>1. live[v] \in [Providers -> SUBSET (Creds \ {None})]
      BY DEF CredsTyped
    <2> HIDE DEF CredsTyped
    <2>2. live[v][p] \cup {c} \in SUBSET (Creds \ {None}) /\ live[v][p] \ {c} \in SUBSET (Creds \ {None})
      BY <2>1
    <2> QED BY <2>1, <2>2
  <1>2. CASE Made(u, p, c)
    <2>1. live' = [v \in Users |-> IF v = u THEN [live[v] EXCEPT ![p] = @ \cup {c}] ELSE live[v]]
      BY <1>2 DEF CredsTyped, Made
    <2> QED BY <1>1, <2>1 DEF CredsTyped
  <1>3. CASE Revoked(u, p, c)
    <2>1. live' = [v \in Users |-> IF v = u THEN [live[v] EXCEPT ![p] = @ \ {c}] ELSE live[v]]
      BY <1>3 DEF CredsTyped, Revoked
    <2> QED BY <1>1, <2>1 DEF CredsTyped
  <1> QED BY <1>2, <1>3

\* The last act of a task.
LEMMA EndsIs ==
  ASSUME RowTyped, TaskTyped, NEW t \in Tasks, NEW s \in DriveStates, Ends(t, s)
  PROVE  /\ RowTyped' /\ TaskTyped' /\ Others(t) /\ Fits(t)
         /\ Keeps(t) \/ Leaves(t)
         /\ ~HasSlot(t)'
         /\ \A v \in Users : drive'[v] = IF v = task[t].user THEN s ELSE drive[v]
  <1>1. SetDriveState(task[t].user, s) /\ End(t) /\ Free(t)
    BY DEF Ends
  <1>2. Keeps(t) \/ Leaves(t)
    BY <1>1, EndIs DEF Keeps, Leaves, Free
  <1> QED BY <1>1, <1>2, EndIs, SetDriveStateIs

\* A row at work after the step is that of a task with a slot after it, or was at
\* work before and is not that of the task with the slot that moved.
Honest(t) ==
  \A v \in Users : drive'[v] \in Working =>
    \/ task'[t].user = v /\ HasSlot(t)'
    \/ drive[v] \in Working /\ ~(task[t].user = v /\ HasSlot(t))

\* A step that writes nothing of the row.
LEMMA RowSame == ASSUME RowTyped, UNCHANGED halves PROVE RowTyped' /\ drive' = drive
  BY DEF RowTyped, halves
\* A step that leaves the credentials as they are.
LEMMA CredsSame == ASSUME CredsTyped, UNCHANGED creds PROVE CredsTyped'
  BY DEF CredsTyped, creds

\* A task ends with a write that leaves the track at rest.
LEMMA EndsProper ==
  ASSUME RowTyped, TaskTyped, CredsTyped', NEW t \in Tasks, NEW s \in DriveStates \ Working,
         Ends(t, s)
  PROVE  Proper(t) /\ Honest(t)
  BY EndsIs DEF Proper, Honest

\* A task goes on with its slot, or without one, as before.
LEMMA GoesProper ==
  ASSUME RowTyped', CredsTyped', TaskTyped', NEW t \in Tasks, Others(t), Fits(t),
         used' = used, HasSlot(t)' <=> HasSlot(t),
         task'[t].user = task[t].user \/ ~HasSlot(t), drive' = drive
  PROVE  Proper(t) /\ Honest(t)
  BY DEF Proper, Honest, Keeps

\* A task that goes on with a credential in memory.
LEMMA GotoWithIs ==
  ASSUME TaskTyped, NEW t \in Tasks, NEW p \in PCs, NEW q \in Providers, NEW c \in Creds,
         task' = [task EXCEPT ![t].pc = p, ![t].has[q] = c]
  PROVE  /\ TaskTyped' /\ Others(t)
         /\ task'[t].pc = p /\ task'[t].job = task[t].job /\ task'[t].user = task[t].user
  <1>1. task[t] \in TaskStates
    BY DEF TaskTyped
  <1>2. [task[t].has EXCEPT ![q] = c] \in [Providers -> Creds]
    BY <1>1 DEF TaskStates
  <1>3. task' = [task EXCEPT ![t] = [task[t] EXCEPT !.pc = p, !.has = [@ EXCEPT ![q] = c]]]
    OBVIOUS
  <1> HIDE DEF Providers, Creds
  <1>4. [task[t] EXCEPT !.pc = p, !.has = [@ EXCEPT ![q] = c]] \in TaskStates
    BY <1>1, <1>2 DEF TaskStates
  <1> QED BY <1>1, <1>3, <1>4 DEF TaskTyped, Others, TaskStates

\* A task that goes on with what it found, or with what it has to forget.
LEMMA GotoAboutIs ==
  ASSUME TaskTyped, NEW t \in Tasks, NEW p \in PCs, NEW a \in SUBSET Providers,
         task' = [task EXCEPT ![t].pc = p, ![t].about = a]
  PROVE  /\ TaskTyped' /\ Others(t)
         /\ task'[t].pc = p /\ task'[t].job = task[t].job /\ task'[t].user = task[t].user
  BY DEF TaskTyped, Others, TaskStates

\* A task that begins has no slot yet.
LEMMA BeginsIs ==
  ASSUME TaskTyped, NEW t \in Tasks, NEW u \in Users, NEW j \in Jobs, NEW p \in PCs \ CopyPCs,
         NEW h \in [Providers -> Creds], j # "run", Begins(t, u, j, p, h)
  PROVE  /\ TaskTyped' /\ Others(t) /\ Fits(t) /\ ~HasSlot(t) /\ ~HasSlot(t)'
  <1>1. [pc |-> p, user |-> u, job |-> j, has |-> h, about |-> {}] \in TaskStates
    BY DEF TaskStates
  <1>2. /\ TaskTyped' /\ Others(t)
        /\ task'[t] = [pc |-> p, user |-> u, job |-> j, has |-> h, about |-> {}]
    BY <1>1, BecomeIs DEF Begins
  <1> QED BY <1>2 DEF Begins, At, HasSlot, Fits, InSlot

----------------------------------------------------------------------------
(* Each action accounts for its slot *)

\* Where a task goes on to keeps what it has.
LEMMA GotoProper ==
  ASSUME RowTyped', CredsTyped', TaskTyped, NEW t \in Tasks, NEW p \in PCs,
         Goto(t, p), p \in CopyPCs => task[t].job = "run", task[t].user \in Users,
         task[t].job # "run" \/ (p \in InSlot <=> task[t].pc \in InSlot),
         used' = used, drive' = drive
  PROVE  Proper(t) /\ Honest(t)
  BY GotoIs, GoesProper DEF Fits, HasSlot

\* A task without a slot ends, and writes nothing.
LEMMA EndProper ==
  ASSUME RowTyped', CredsTyped', TaskTyped, NEW t \in Tasks, End(t), ~HasSlot(t),
         used' = used, drive' = drive
  PROVE  Proper(t) /\ Honest(t)
  BY EndIs, GoesProper

\* What starts a task.
LEMMA StartProper ==
  ASSUME RowTyped, CredsTyped, TaskTyped, NEW t \in Tasks, NEW u \in Users, Start(t, u)
  PROVE  Proper(t) /\ Honest(t)
  <1>0. /\ "google" \in Providers /\ "nextcloud" \in Providers /\ "flow" \in Providers
        /\ tokens[u] \in [Providers -> Creds]
    BY DEF Providers, CredsTyped
  <1>1. CASE OauthCallback(t, u)
    <2>1. PICK c \in Creds \ {None} : Made(u, "google", c) /\ PutToken(u, "google", c)
      BY <1>1 DEF OauthCallback, Fresh
    <2>2. RowTyped' /\ CredsTyped' /\ drive' = drive
      BY <1>0, <2>1, PutTokenIs, MadeIs DEF CredsTyped
    <2>3. Begins(t, u, "connect", "consented", NoCreds) /\ used' = used
      BY <1>1 DEF OauthCallback
    <2>4. TaskTyped' /\ Others(t) /\ Fits(t) /\ ~HasSlot(t) /\ ~HasSlot(t)'
      BY <2>3, BeginsIs, IdleTyped DEF Jobs, PCs, CopyPCs
    <2> QED BY <2>2, <2>3, <2>4, GoesProper
  <1>2. CASE StartNextcloud(t, u)
    <2>1. PICK c \in Creds \ {None} : Made(u, "flow", c) /\ PutToken(u, "flow", c)
      BY <1>2 DEF StartNextcloud, Fresh
    <2>2. RowTyped' /\ CredsTyped' /\ drive' = drive
      BY <1>0, <2>1, PutTokenIs, MadeIs DEF CredsTyped
    <2>3. Begins(t, u, "connect", "flow", NoCreds) /\ used' = used
      BY <1>2 DEF StartNextcloud
    <2>4. TaskTyped' /\ Others(t) /\ Fits(t) /\ ~HasSlot(t) /\ ~HasSlot(t)'
      BY <2>3, BeginsIs, IdleTyped DEF Jobs, PCs, CopyPCs
    <2> QED BY <2>2, <2>3, <2>4, GoesProper
  <1>3. CASE PollNextcloud(t, u)
    <2>1. RowTyped' /\ CredsTyped' /\ drive' = drive /\ used' = used
      BY <1>3, RowSame, CredsSame DEF PollNextcloud
    <2>2. [NoCreds EXCEPT !["flow"] = tokens[u]["flow"]] \in [Providers -> Creds]
      BY <1>0, IdleTyped
    <2>3. TaskTyped' /\ Others(t) /\ Fits(t) /\ ~HasSlot(t) /\ ~HasSlot(t)'
      BY <1>3, <2>2, BeginsIs DEF PollNextcloud, Jobs, PCs, CopyPCs
    <2> QED BY <2>1, <2>3, GoesProper
  <1>4. CASE StartDrive(t, u)
    <2>1. CredsTyped' /\ used' = used
      BY <1>4, CredsSame DEF StartDrive
    <2>2. CASE Begins(t, u, "start", "askGoogle", [tokens[u] EXCEPT !["flow"] = None])
               /\ UNCHANGED halves
      <3>1. [tokens[u] EXCEPT !["flow"] = None] \in [Providers -> Creds]
        BY <1>0, CredsAssumption DEF Creds, None
      <3>2. TaskTyped' /\ Others(t) /\ Fits(t) /\ ~HasSlot(t) /\ ~HasSlot(t)'
        BY <2>2, <3>1, BeginsIs DEF Jobs, PCs, CopyPCs, InSlot
      <3> QED BY <2>1, <2>2, <3>2, RowSame, GoesProper
    <2>3. CASE SetDriveState(u, "failed") /\ UNCHANGED task /\ At(t, "idle")
      <3>1. RowTyped' /\ \A v \in Users : drive'[v] = IF v = u THEN "failed" ELSE drive[v]
        BY <2>3, SetDriveStateIs DEF DriveStates
      <3>2. ~HasSlot(t) /\ ~HasSlot(t)'
        BY <2>3 DEF At, HasSlot, InSlot
      <3>3. TaskTyped' /\ Others(t) /\ Fits(t)
        BY <2>3 DEF TaskTyped, Others, Fits, At, CopyPCs
      <3> QED BY <2>1, <3>1, <3>2, <3>3 DEF Proper, Honest, Keeps, Working
    <2> QED BY <1>4, <2>2, <2>3 DEF StartDrive
  <1>5. CASE SweepIdle(t, u)
    <2>1. RowTyped' /\ CredsTyped' /\ drive' = drive /\ used' = used
      BY <1>5, RowSame, CredsSame DEF SweepIdle
    <2> DEFINE r == [Idle EXCEPT !.pc = "revokeNextcloud", !.user = u, !.job = "sweep",
                                 !.about = {"nextcloud", "google"}]
    <2>2. r \in TaskStates
      BY IdleTyped DEF Idle, TaskStates, PCs, Jobs, Providers
    <2>3. TaskTyped' /\ Others(t) /\ task'[t] = r /\ At(t, "idle")
      BY <1>5, <2>2, BecomeIs DEF SweepIdle
    <2>4. Fits(t) /\ ~HasSlot(t) /\ ~HasSlot(t)'
      BY <2>3 DEF Fits, CopyPCs, HasSlot, At, InSlot, Idle
    <2> QED BY <2>1, <2>3, <2>4, GoesProper
  <1>6. CASE PhotosFinished(t, u)
    <2>1. RowTyped' /\ CredsTyped' /\ drive' = drive /\ used' = used
      BY <1>6, CredsSame DEF PhotosFinished, RowTyped, Bump
    <2> DEFINE r == [Idle EXCEPT !.pc = "release", !.job = "release", !.user = u]
    <2>2. r \in TaskStates
      BY IdleTyped DEF Idle, TaskStates, PCs, Jobs
    <2>3. TaskTyped' /\ Others(t) /\ task'[t] = r /\ At(t, "idle")
      BY <1>6, <2>2, BecomeIs DEF PhotosFinished
    <2>4. Fits(t) /\ ~HasSlot(t) /\ ~HasSlot(t)'
      BY <2>3 DEF Fits, CopyPCs, HasSlot, At, InSlot, Idle
    <2> QED BY <2>1, <2>3, <2>4, GoesProper
  <1>7. CASE PhotosAsks(t, u)
    <2>1. RowTyped' /\ CredsTyped' /\ drive' = drive /\ used' = used
      BY <1>7, RowSame, CredsSame DEF PhotosAsks
    <2>2. [NoCreds EXCEPT !["google"] = tokens[u]["google"]] \in [Providers -> Creds]
      BY <1>0, IdleTyped
    <2>3. TaskTyped' /\ Others(t) /\ Fits(t) /\ ~HasSlot(t) /\ ~HasSlot(t)'
      BY <1>7, <2>2, BeginsIs DEF PhotosAsks, Jobs, PCs, CopyPCs, InSlot
    <2> QED BY <2>1, <2>3, GoesProper
  <1> QED BY <1>1, <1>2, <1>3, <1>4, <1>5, <1>6, <1>7 DEF Start

\* Connecting an account, as far as it goes on its own.
LEMMA ConnectProper ==
  ASSUME RowTyped, CredsTyped, TaskTyped, CopyFits, NEW t \in Tasks,
         Consented(t) \/ FlowStarted(t) \/ Poll(t) \/ Granted(t) \/ Spend(t) \/ Ready(t)
  PROVE  Proper(t) /\ Honest(t)
  <1>0. /\ "nextcloud" \in Providers /\ "flow" \in Providers
        /\ task[t] \in TaskStates
        /\ task[t].pc # "idle" => task[t].user \in Users
    BY DEF Providers, TaskTyped, CopyFits
  <1>1. CASE Consented(t) \/ Ready(t)
    BY <1>1, CredsSame, EndsProper DEF Consented, Ready, DriveStates, Working
  <1>2. CASE FlowStarted(t)
    BY <1>2, CredsSame, EndsProper DEF FlowStarted, DriveStates, Working
  <1>3. CASE Poll(t)
    <2>1. RowTyped' /\ drive' = drive /\ used' = used /\ tokens' = tokens
      BY <1>3, RowSame DEF Poll
    <2>2. CASE End(t) /\ UNCHANGED live
      <3>1. CredsTyped' /\ ~HasSlot(t)
        BY <1>3, <2>1, <2>2 DEF CredsTyped, Poll, At, HasSlot, InSlot
      <3> QED BY <2>1, <2>2, <3>1, EndProper
    <2>3. CASE \E c \in Fresh(task[t].user, "nextcloud") :
             /\ live' = [live EXCEPT ![task[t].user]["flow"] = @ \ {task[t].has["flow"]},
                                     ![task[t].user]["nextcloud"] = @ \cup {c}]
             /\ task' = [task EXCEPT ![t].pc = "granted", ![t].has["nextcloud"] = c]
      <3> DEFINE u == task[t].user
      <3>1. PICK c \in Creds \ {None} :
             /\ live' = [live EXCEPT ![u]["flow"] = @ \ {task[t].has["flow"]},
                                     ![u]["nextcloud"] = @ \cup {c}]
             /\ task' = [task EXCEPT ![t].pc = "granted", ![t].has["nextcloud"] = c]
        BY <2>3 DEF Fresh
      <3>2. u \in Users
        BY <1>0, <1>3 DEF Poll, At
      <3>3. live[u] \in [Providers -> SUBSET (Creds \ {None})]
        BY <3>2 DEF CredsTyped
      <3> DEFINE l == [live[u] EXCEPT !["flow"] = @ \ {task[t].has["flow"]},
                                      !["nextcloud"] = @ \cup {c}]
      <3>4. l \in [Providers -> SUBSET (Creds \ {None})]
        BY <3>3
      <3>5. live' = [live EXCEPT ![u] = l]
        BY <3>1, <3>2, <3>3 DEF CredsTyped
      <3>6. CredsTyped'
        BY <2>1, <3>4, <3>5 DEF CredsTyped
      <3>7. /\ TaskTyped' /\ Others(t) /\ task'[t].pc = "granted"
            /\ task'[t].job = task[t].job /\ task'[t].user = task[t].user
        BY <1>0, <3>1, GotoWithIs DEF PCs
      <3>8. Fits(t) /\ ~HasSlot(t) /\ ~HasSlot(t)'
        BY <1>3, <3>2, <3>7 DEF Fits, CopyPCs, HasSlot, InSlot, Poll, At
      <3> QED BY <2>1, <3>6, <3>7, <3>8, GoesProper
    <2> QED BY <1>3, <2>2, <2>3 DEF Poll
  <1>4. CASE Granted(t)
    <2>1. task[t].has["nextcloud"] \in Creds
      BY <1>0 DEF TaskStates
    <2>2. RowTyped' /\ CredsTyped' /\ drive' = drive /\ used' = used
      BY <1>0, <1>4, <2>1, PutTokenIs DEF Granted, CredsTyped
    <2> QED BY <1>0, <1>4, <2>2, GotoProper DEF Granted, At, PCs, CopyPCs, InSlot
  <1>5. CASE Spend(t)
    <2>1. RowTyped' /\ CredsTyped' /\ drive' = drive /\ used' = used
      BY <1>0, <1>5, RowSame, DeleteTokenIs DEF Spend, CredsTyped
    <2> QED BY <1>0, <1>5, <2>1, GotoProper DEF Spend, At, PCs, CopyPCs, InSlot
  <1> QED BY <1>1, <1>2, <1>3, <1>4, <1>5

\* A preflight that refuses deletes a credential.
LEMMA RefusesIs ==
  ASSUME CredsTyped, NEW t \in Tasks, NEW p \in Providers, Refuses(t, p), live' = live
  PROVE  CredsTyped'
  BY DeleteTokenIs DEF Refuses, CredsTyped

\* Asking the providers, before a copy or after one that failed.
LEMMA AskProper ==
  ASSUME RowTyped, CredsTyped, TaskTyped, CopyFits, NEW t \in Tasks,
         AskGoogle(t) \/ AskNextcloud(t) \/ ReconnectDrive(t)
  PROVE  Proper(t) /\ Honest(t)
  <1>0. /\ "google" \in Providers /\ "nextcloud" \in Providers
        /\ task[t] \in TaskStates
        /\ task[t].pc # "idle" => task[t].user \in Users
    BY DEF Providers, TaskTyped, CopyFits
  <1>1. CASE AskGoogle(t)
    <2>1. /\ RowTyped' /\ drive' = drive /\ used' = used /\ live' = live
          /\ task[t].pc = "askGoogle" /\ task[t].user \in Users
      BY <1>0, <1>1, RowSame DEF AskGoogle, At
    <2>2. CredsTyped'
      BY <1>0, <1>1, <2>1, RefusesIs DEF AskGoogle, CredsTyped
    <2>3. CASE task[t].job = "photos" /\ End(t)
      BY <2>1, <2>2, <2>3, EndProper DEF HasSlot
    <2>4. CASE Goto(t, "askNextcloud") \/ Goto(t, "reconnect")
      BY <2>1, <2>2, <2>4, GotoProper DEF PCs, CopyPCs, InSlot
    <2>5. CASE task' = [task EXCEPT ![t].pc = "askNextcloud", ![t].about = @ \cup {"google"}]
      <3>1. task[t].about \cup {"google"} \in SUBSET Providers
        BY <1>0 DEF TaskStates
      <3>2. task' = [task EXCEPT ![t].pc = "askNextcloud",
                                 ![t].about = task[t].about \cup {"google"}]
        BY <2>5
      <3>3. /\ TaskTyped' /\ Others(t)
            /\ task'[t].pc = "askNextcloud" /\ task'[t].job = task[t].job
            /\ task'[t].user = task[t].user
        BY <3>1, <3>2, GotoAboutIs DEF PCs, InSlot
      <3>4. Fits(t) /\ (HasSlot(t)' <=> HasSlot(t))
        BY <2>1, <3>3 DEF Fits, CopyPCs, HasSlot, InSlot
      <3> QED BY <2>1, <2>2, <3>3, <3>4, GoesProper
    <2> QED BY <1>1, <2>3, <2>4, <2>5 DEF AskGoogle
  <1>2. CASE AskNextcloud(t)
    <2>1. live' = live /\ task[t].pc = "askNextcloud" /\ task[t].user \in Users
      BY <1>0, <1>2 DEF AskNextcloud, At
    <2>2. CredsTyped'
      BY <1>0, <1>2, <2>1, RefusesIs DEF AskNextcloud, CredsTyped
    <2>3. CASE Goto(t, "reconnect") /\ UNCHANGED <<halves, used>>
      BY <2>1, <2>2, <2>3, RowSame, GotoProper DEF PCs, CopyPCs, InSlot
    <2>4. CASE /\ task[t].job = "start" /\ UNCHANGED <<halves, used>>
               /\ task' = [task EXCEPT ![t].pc = "queued", ![t].job = "run",
                                       ![t].has["nextcloud"] = None]
      <3>1. [task[t].has EXCEPT !["nextcloud"] = None] \in [Providers -> Creds]
        BY <1>0, CredsAssumption DEF TaskStates, Creds, None
      <3> DEFINE r == [task[t] EXCEPT !.pc = "queued", !.job = "run",
                                      !.has = [task[t].has EXCEPT !["nextcloud"] = None]]
      <3>2. r \in TaskStates
        <4> HIDE DEF Providers, Creds
        <4> QED BY <1>0, <3>1 DEF TaskStates, PCs, Jobs
      <3>3. task' = [task EXCEPT ![t] = r]
        BY <2>4
      <3>4. TaskTyped' /\ Others(t) /\ task'[t] = r
        BY <3>2, <3>3, BecomeIs DEF Become
      <3>5. r.pc = "queued" /\ r.job = "run" /\ r.user = task[t].user
        BY <1>0 DEF TaskStates
      <3>6. Fits(t) /\ ~HasSlot(t)' /\ ~HasSlot(t)
        BY <2>1, <2>4, <3>4, <3>5 DEF Fits, HasSlot, InSlot
      <3> QED BY <2>2, <2>4, <3>4, <3>6, RowSame, GoesProper
    <2>5. CASE Ends(t, "failed")
      BY <2>2, <2>5, EndsProper DEF DriveStates, Working
    <2> QED BY <1>2, <2>3, <2>4, <2>5 DEF AskNextcloud
  <1>3. CASE ReconnectDrive(t)
    BY <1>3, CredsSame, EndsProper DEF ReconnectDrive, DriveStates, Working
  <1> QED BY <1>1, <1>2, <1>3

\* The run from the queue to its end.
LEMMA CopyProper ==
  ASSUME RowTyped, CredsTyped, TaskTyped, CopyFits, NEW t \in Tasks,
         \/ Acquire(t) \/ Begin(t) \/ ReadNextcloud(t) \/ RecordQuota(t) \/ Stats(t)
         \/ Rclone(t) \/ VerifyDrive(t)
  PROVE  Proper(t) /\ Honest(t)
  <1>0. /\ "nextcloud" \in Providers
        /\ task[t] \in TaskStates
        /\ task[t].pc \in CopyPCs /\ task[t].job = "run" /\ task[t].user \in Users
    BY DEF Providers, TaskTyped, CopyFits, CopyPCs, Acquire, Begin, ReadNextcloud, RecordQuota,
           Stats, Rclone, VerifyDrive, At
  <1> DEFINE u == task[t].user
  <1>1. CASE Acquire(t)
    <2>1. RowTyped' /\ CredsTyped' /\ drive' = drive
      BY <1>1, RowSame, CredsSame DEF Acquire
    <2>2. TaskTyped' /\ Others(t) /\ task'[t].pc = "begin"
          /\ task'[t].job = task[t].job /\ task'[t].user = task[t].user
      BY <1>1, GotoIs DEF Acquire, PCs, InSlot
    <2>3. Fits(t) /\ Enters(t)
      BY <1>0, <1>1, <2>2 DEF Acquire, At, Fits, Enters, HasSlot, InSlot
    <2> QED BY <2>1, <2>2, <2>3 DEF Proper, Honest, Enters
  <1>2. ASSUME NEW p \in InSlot, NEW s \in DriveStates, SetDriveState(u, s), Goto(t, p),
               HasSlot(t), CredsTyped', used' = used
        PROVE  Proper(t) /\ Honest(t)
    <2>1. RowTyped' /\ \A v \in Users : drive'[v] = IF v = u THEN s ELSE drive[v]
      BY <1>2, SetDriveStateIs
    <2>2. TaskTyped' /\ Others(t) /\ task'[t].pc = p
          /\ task'[t].job = task[t].job /\ task'[t].user = u
      BY <1>2, GotoIs DEF PCs
    <2>3. Fits(t) /\ HasSlot(t)'
      BY <1>0, <2>2 DEF Fits, HasSlot
    <2> QED BY <1>2, <2>1, <2>2, <2>3 DEF Proper, Honest, Keeps
  <1>3. CASE Begin(t)
    <2>1. HasSlot(t)
      BY <1>0, <1>3 DEF Begin, At, HasSlot, InSlot
    <2> QED BY <1>2, <1>3, <2>1, CredsSame DEF Begin, InSlot, DriveStates
  <1>4. CASE ReadNextcloud(t)
    <2>1. CredsTyped' /\ task[t].pc = "readNextcloud"
      BY <1>4, CredsSame DEF ReadNextcloud, At
    <2> DEFINE c == tokens[u]["nextcloud"]
    <2>2. CASE Goto(t, "reconnect") /\ UNCHANGED <<halves, used>>
      BY <1>0, <2>1, <2>2, RowSame, GotoProper DEF PCs, CopyPCs, InSlot
    <2>3. CASE /\ task' = [task EXCEPT ![t].pc = "quota", ![t].has["nextcloud"] = c]
               /\ UNCHANGED <<halves, used>>
      <3>1. c \in Creds
        BY <1>0 DEF CredsTyped
      <3>2. TaskTyped' /\ Others(t) /\ task'[t].pc = "quota"
            /\ task'[t].job = task[t].job /\ task'[t].user = task[t].user
        BY <1>0, <2>3, <3>1, GotoWithIs DEF PCs, InSlot
      <3>3. Fits(t) /\ (HasSlot(t)' <=> HasSlot(t))
        BY <1>0, <2>1, <3>2 DEF Fits, HasSlot, InSlot
      <3> QED BY <2>1, <2>3, <3>2, <3>3, RowSame, GoesProper
    <2>4. CASE Ends(t, "failed")
      BY <2>1, <2>4, EndsProper DEF DriveStates, Working
    <2> QED BY <1>4, <2>2, <2>3, <2>4 DEF ReadNextcloud
  <1>5. CASE RecordQuota(t)
    <2>1. live' = live /\ task[t].pc = "quota"
      BY <1>5 DEF RecordQuota, At
    <2>2. CredsTyped'
      BY <1>0, <1>5, <2>1, RefusesIs DEF RecordQuota, CredsTyped
    <2>3. CASE (Goto(t, "copy") \/ Goto(t, "reconnect")) /\ UNCHANGED <<halves, used>>
      BY <1>0, <2>1, <2>2, <2>3, RowSame, GotoProper DEF PCs, CopyPCs, InSlot
    <2>4. CASE Ends(t, "failed")
      BY <2>2, <2>4, EndsProper DEF DriveStates, Working
    <2> QED BY <1>5, <2>3, <2>4 DEF RecordQuota
  <1>6. CASE Stats(t)
    <2>1. RowTyped' /\ \A v \in Users : drive'[v] = IF v = u THEN "copying" ELSE drive[v]
      BY <1>6, SetDriveStateIs DEF Stats, DriveStates
    <2>2. /\ CredsTyped' /\ TaskTyped' /\ Others(t) /\ Fits(t) /\ Keeps(t)
          /\ HasSlot(t)' /\ task'[t].user = u
      BY <1>0, <1>6, CredsSame
      DEF Stats, At, TaskTyped, Others, Fits, Keeps, HasSlot, InSlot
    <2> QED BY <2>1, <2>2 DEF Proper, Honest
  <1>7. CASE Rclone(t)
    <2>1. HasSlot(t) /\ task[t].pc = "copy"
      BY <1>0, <1>7 DEF Rclone, At, HasSlot, InSlot
    <2>2. CredsTyped' /\ used' = used
      BY <1>7, CredsSame DEF Rclone
    <2>3. CASE Goto(t, "askGoogle") /\ UNCHANGED halves
      BY <1>0, <2>1, <2>2, <2>3, RowSame, GotoProper DEF PCs, CopyPCs, InSlot
    <2>4. CASE Goto(t, "verify") /\ SetDriveState(u, "verifying")
      BY <1>2, <2>1, <2>2, <2>4 DEF InSlot, DriveStates
    <2> QED BY <1>7, <2>3, <2>4 DEF Rclone
  <1>8. CASE VerifyDrive(t)
    <2>1. CredsTyped' /\ HasSlot(t)
      BY <1>0, <1>8, CredsSame DEF VerifyDrive, At, HasSlot, InSlot
    <2>2. CASE Ends(t, "failed")
      BY <2>1, <2>2, EndsProper DEF DriveStates, Working
    <2>3. CASE /\ SetDriveState(u, "done") /\ Free(t)
               /\ task' = [task EXCEPT ![t] = [Idle EXCEPT !.pc = "release", !.job = "release",
                                                           !.user = u]]
      <3> DEFINE r == [Idle EXCEPT !.pc = "release", !.job = "release", !.user = u]
      <3>1. r \in TaskStates
        BY <1>0, IdleTyped DEF Idle, TaskStates, PCs, Jobs
      <3>2. TaskTyped' /\ Others(t) /\ task'[t] = r
        BY <2>3, <3>1, BecomeIs DEF Become
      <3>3. r.pc = "release" /\ r.job = "release" /\ r.user = u
        BY DEF Idle
      <3>4. Fits(t) /\ ~HasSlot(t)'
        BY <1>0, <3>2, <3>3 DEF Fits, CopyPCs, HasSlot
      <3>5. Leaves(t)
        BY <2>1, <2>3, <3>4 DEF Leaves, Free
      <3>6. RowTyped' /\ \A v \in Users : drive'[v] = IF v = u THEN "done" ELSE drive[v]
        BY <2>3, SetDriveStateIs DEF DriveStates
      <3> QED BY <2>1, <3>2, <3>4, <3>5, <3>6 DEF Proper, Honest, Working
    <2> QED BY <1>8, <2>2, <2>3 DEF VerifyDrive
  <1> QED BY <1>1, <1>3, <1>4, <1>5, <1>6, <1>7, <1>8

\* Where a task goes once it is done with a provider.
LEMMA AfterProper ==
  ASSUME RowTyped', CredsTyped', TaskTyped, NEW t \in Tasks, task[t].user \in Users,
         task[t].pc \notin InSlot, used' = used, drive' = drive,
         AfterGoogle(t) \/ AfterNextcloud(t)
  PROVE  Proper(t) /\ Honest(t)
  <1>1. Goto(t, "touch") \/ Goto(t, "revokeGoogle") \/ End(t)
    BY DEF AfterGoogle, AfterNextcloud
  <1> QED BY <1>1, GotoProper, EndProper DEF PCs, CopyPCs, InSlot, HasSlot

\* Forgetting credentials.
LEMMA ForgetProper ==
  ASSUME RowTyped, CredsTyped, TaskTyped, CopyFits, NEW t \in Tasks,
         \/ Release(t) \/ RevokeNextcloud(t) \/ DropNextcloud(t) \/ RevokeGoogle(t)
         \/ DropGoogle(t) \/ Touch(t)
  PROVE  Proper(t) /\ Honest(t)
  <1> DEFINE u == task[t].user
  <1>0. /\ "google" \in Providers /\ "nextcloud" \in Providers /\ "flow" \in Providers
        /\ task[t] \in TaskStates /\ u \in Users
        /\ task[t].pc \in PCs \ InSlot /\ ~HasSlot(t)
        /\ used' = used /\ drive' = drive /\ RowTyped'
    BY RowSame DEF Providers, TaskTyped, TaskStates, CopyFits, Release, RevokeNextcloud,
           DropNextcloud, RevokeGoogle, DropGoogle, Touch, At, HasSlot, PCs, InSlot,
           RowTyped, Bump
  <1>1. tokens[u] \in [Providers -> Creds] /\ None \in Creds
    BY <1>0, CredsAssumption DEF CredsTyped, Creds, None
  <1>2. ASSUME NEW p \in Providers, NEW q \in PCs \ InSlot, q \notin CopyPCs, CredsTyped',
               task' = [task EXCEPT ![t].pc = q, ![t].has[p] = tokens[u][p]]
        PROVE  Proper(t) /\ Honest(t)
    <2>1. TaskTyped' /\ Others(t) /\ task'[t].pc = q
          /\ task'[t].job = task[t].job /\ task'[t].user = u
      BY <1>1, <1>2, GotoWithIs
    <2>2. Fits(t) /\ ~HasSlot(t)'
      BY <1>0, <1>2, <2>1 DEF Fits, HasSlot
    <2> QED BY <1>0, <1>2, <2>1, <2>2, GoesProper
  <1>3. ASSUME NEW p \in Providers, tokens' = tokens,
               live' = live \/ (tokens[u][p] # None /\ Revoked(u, p, tokens[u][p]))
        PROVE  CredsTyped'
    BY <1>1, <1>3, MadeIs DEF CredsTyped
  <1>4. CASE Release(t)
    <2> DEFINE about == (IF drive[u] = "done" THEN {"nextcloud"} ELSE {})
                        \cup (IF drive[u] = "done" /\ photosDone[u] THEN {"google"} ELSE {})
    <2>1. CredsTyped'
      BY <1>4, CredsSame DEF Release
    <2>2. CASE End(t)
      BY <1>0, <2>1, <2>2, EndProper
    <2>3. CASE task' = [task EXCEPT ![t].pc = "revokeNextcloud", ![t].about = about]
      <3>1. about \in SUBSET Providers
        BY <1>0
      <3>2. TaskTyped' /\ Others(t) /\ task'[t].pc = "revokeNextcloud"
            /\ task'[t].job = task[t].job /\ task'[t].user = u
        BY <2>3, <3>1, GotoAboutIs DEF PCs
      <3>3. Fits(t) /\ ~HasSlot(t)'
        BY <1>0, <3>2 DEF Fits, HasSlot, CopyPCs, InSlot
      <3> QED BY <1>0, <2>1, <3>2, <3>3, GoesProper
    <2> QED BY <1>4, <2>2, <2>3 DEF Release
  <1>5. CASE RevokeNextcloud(t)
    <2>1. CredsTyped'
      BY <1>0, <1>3, <1>5 DEF RevokeNextcloud
    <2>2. task' = [task EXCEPT ![t].pc = "dropNextcloud",
                               ![t].has["nextcloud"] = tokens[u]["nextcloud"]]
      BY <1>5 DEF RevokeNextcloud
    <2>3. "dropNextcloud" \in PCs \ InSlot /\ "dropNextcloud" \notin CopyPCs
      BY DEF PCs, InSlot, CopyPCs
    <2> QED BY <1>0, <1>2, <2>1, <2>2, <2>3
  <1>6. CASE DropNextcloud(t)
    <2> DEFINE c == IF task[t].has["nextcloud"] = None THEN tokens[u]["nextcloud"] ELSE None
    <2>1. [tokens[u] EXCEPT !["nextcloud"] = c, !["flow"] = None] \in [Providers -> Creds]
      BY <1>1
    <2>2. tokens' = [tokens EXCEPT ![u] = [tokens[u] EXCEPT !["nextcloud"] = c,
                                                            !["flow"] = None]]
      BY <1>0, <1>1, <1>6 DEF DropNextcloud, CredsTyped
    <2> DEFINE d == [tokens[u] EXCEPT !["nextcloud"] = c, !["flow"] = None]
    <2>3. tokens' \in [Users -> [Providers -> Creds]]
      <3>1. d \in [Providers -> Creds] /\ tokens' = [tokens EXCEPT ![u] = d]
        BY <2>1, <2>2
      <3> HIDE DEF d
      <3> QED BY <3>1 DEF CredsTyped
    <2>4. CredsTyped'
      BY <1>6, <2>3 DEF CredsTyped, DropNextcloud
    <2> QED BY <1>0, <1>6, <2>4, AfterProper DEF DropNextcloud
  <1>7. CASE RevokeGoogle(t)
    <2>1. tokens' = tokens
      BY <1>7 DEF RevokeGoogle
    <2>2. CASE AfterGoogle(t) /\ UNCHANGED live
      BY <1>0, <1>3, <2>1, <2>2, AfterProper
    <2>3. CASE /\ task' = [task EXCEPT ![t].pc = "dropGoogle", ![t].has["google"] = tokens[u]["google"]]
               /\ tokens[u]["google"] # None
               /\ UNCHANGED live \/ Revoked(u, "google", tokens[u]["google"])
      <3>1. CredsTyped'
        BY <1>0, <1>3, <2>1, <2>3
      <3>2. "dropGoogle" \in PCs \ InSlot /\ "dropGoogle" \notin CopyPCs
        BY DEF PCs, InSlot, CopyPCs
      <3> QED BY <1>0, <1>2, <2>3, <3>1, <3>2
    <2> QED BY <1>7, <2>2, <2>3 DEF RevokeGoogle
  <1>8. CASE DropGoogle(t)
    <2>1. CredsTyped'
      BY <1>0, <1>8, DeleteTokenIs DEF DropGoogle, CredsTyped
    <2> QED BY <1>0, <1>8, <2>1, AfterProper DEF DropGoogle
  <1>9. CASE Touch(t)
    BY <1>0, <1>9, CredsSame, EndProper DEF Touch
  <1> QED BY <1>4, <1>5, <1>6, <1>7, <1>8, <1>9

\* A task whose context ends with the browser's writes nothing more and had no
\* slot; the copy whose day is over gives its slot back but leaves the row.
LEMMA CutProper ==
  ASSUME RowTyped, CredsTyped, TaskTyped, NEW t \in Tasks
  PROVE  /\ Abandon(t) => Proper(t) /\ Honest(t)
         /\ Overrun(t) => Proper(t)
  <1>1. ASSUME Abandon(t) PROVE Proper(t) /\ Honest(t)
    <2>1. RowTyped' /\ CredsTyped' /\ drive' = drive /\ used' = used
      BY <1>1, RowSame, CredsSame DEF Abandon
    <2>2. End(t) /\ ~HasSlot(t)
      BY <1>1 DEF Abandon, HasSlot
    <2> QED BY <2>1, <2>2, EndProper
  <1>2. ASSUME Overrun(t) PROVE Proper(t)
    <2>1. RowTyped' /\ CredsTyped'
      BY <1>2, RowSame, CredsSame DEF Overrun
    <2>2. TaskTyped' /\ Others(t) /\ Fits(t) /\ Leaves(t)
      BY <1>2, EndIs DEF Overrun, Leaves, Free
    <2> QED BY <2>1, <2>2 DEF Proper
  <1> QED BY <1>1, <1>2

\* What one task does on its own.
LEMMA ContinueProper ==
  ASSUME RowTyped, CredsTyped, TaskTyped, CopyFits, NEW t \in Tasks, Continue(t) \/ Stats(t)
  PROVE  Proper(t) /\ Honest(t)
  BY ConnectProper, AskProper, CopyProper, ForgetProper DEF Continue

----------------------------------------------------------------------------
(* The types, and the accounts of the limiter *)

\* The limiter counts the runs that have a slot.
Counted == used = Cardinality(Inside) /\ used \in 0..Slots
\* What every step preserves.
Accounts == RowTyped /\ CredsTyped /\ TaskTyped /\ CopyFits /\ Counted

\* A step of one task keeps the limiter's count.
LEMMA CountKept ==
  ASSUME Counted, NEW t \in Tasks, Others(t), Keeps(t) \/ Leaves(t) \/ Enters(t)
  PROVE  Counted'
  <1>1. IsFiniteSet(Inside) /\ Cardinality(Inside) \in Nat /\ Slots \in Nat
    BY TasksAssumption, SlotsAssumption, FS_Subset, FS_CardinalityType DEF Inside
  <1>2. \A s \in Tasks \ {t} : HasSlot(s)' <=> HasSlot(s)
    BY DEF Others, HasSlot
  <1>3. CASE Keeps(t)
    <2>1. Inside' = Inside
      BY <1>2, <1>3 DEF Inside, Keeps
    <2> QED BY <1>3, <2>1 DEF Counted, Keeps
  <1>4. CASE Leaves(t)
    <2>1. Inside' = Inside \ {t} /\ t \in Inside
      BY <1>2, <1>4 DEF Inside, Leaves
    <2>2. /\ Cardinality(Inside') = Cardinality(Inside) - 1
          /\ Cardinality(Inside') \in Nat
      BY <1>1, <2>1, FS_RemoveElement, FS_CardinalityType
    <2> QED BY <1>1, <1>4, <2>2 DEF Counted, Leaves
  <1>5. CASE Enters(t)
    <2>1. Inside' = Inside \cup {t} /\ t \notin Inside
      BY <1>2, <1>5 DEF Inside, Enters
    <2>2. Cardinality(Inside') = Cardinality(Inside) + 1
      BY <1>1, <2>1, FS_AddElement
    <2> QED BY <1>1, <1>5, <2>2 DEF Counted, Enters
  <1> QED BY <1>3, <1>4, <1>5

\* A step of one task keeps all of the accounts.
LEMMA ProperKeeps ==
  ASSUME Accounts, NEW t \in Tasks, Proper(t)
  PROVE  Accounts'
  <1>1. CopyFits'
    BY DEF Accounts, Proper, Others, Fits, CopyFits
  <1> QED BY <1>1, CountKept DEF Accounts, Proper

\* A step that touches neither the tasks nor the limiter.
LEMMA WorldKeeps ==
  ASSUME Accounts, RowTyped', CredsTyped', task' = task, used' = used
  PROVE  Accounts'
  BY DEF Accounts, TaskTyped, CopyFits, Counted, Inside, HasSlot

\* A restart begins with no task and with every slot free.
LEMMA RestartKeeps ==
  ASSUME Accounts, Restart
  PROVE  Accounts'
  <1>1. task' = [t \in Tasks |-> Idle] /\ used' = 0
    BY DEF Restart
  <1>2. TaskTyped' /\ CopyFits' /\ Inside' = {}
    BY <1>1, IdleTyped DEF TaskTyped, CopyFits, CopyPCs, Inside, HasSlot, Idle, InSlot
  <1>3. Counted'
    BY <1>1, <1>2, SlotsAssumption, FS_EmptySet DEF Counted
  <1>4. RowTyped' /\ CredsTyped'
    BY CredsSame DEF Accounts, RowTyped, Restart, DriveStates
  <1> QED BY <1>2, <1>3, <1>4 DEF Accounts

\* The first state, and every step.
LEMMA AccountsInductive ==
  /\ Init => Accounts
  /\ Accounts /\ [Next]_vars => Accounts'
  <1>1. ASSUME Init PROVE Accounts
    <2>1. TaskTyped /\ CopyFits /\ Inside = {}
      BY <1>1, IdleTyped
      DEF Init, TaskTyped, CopyFits, CopyPCs, Inside, HasSlot, Idle, InSlot
    <2>2. Counted
      BY <1>1, <2>1, SlotsAssumption, FS_EmptySet DEF Init, Counted
    <2>3. RowTyped /\ CredsTyped
      BY <1>1, IdleTyped DEF Init, RowTyped, CredsTyped, DriveStates
    <2> QED BY <2>1, <2>2, <2>3 DEF Accounts
  <1>2. ASSUME Accounts, [Next]_vars PROVE Accounts'
    <2>0. RowTyped /\ CredsTyped /\ TaskTyped /\ CopyFits
      BY <1>2 DEF Accounts
    <2>1. CASE \E t \in Tasks : Continue(t) \/ Stats(t) \/ Abandon(t) \/ Overrun(t)
      BY <1>2, <2>0, <2>1, ContinueProper, CutProper, ProperKeeps
    <2>2. CASE \E t \in Tasks, u \in Users : Start(t, u)
      BY <1>2, <2>0, <2>2, StartProper, ProperKeeps
    <2>3. CASE \E u \in Users : PhotosAgain(u) \/ Refuse(u) \/ IdlePasses(u)
      <3>1. PICK u \in Users : PhotosAgain(u) \/ Refuse(u) \/ IdlePasses(u)
        BY <2>3
      <3>2. task' = task /\ used' = used
        BY <3>1 DEF PhotosAgain, Refuse, IdlePasses
      <3>3. RowTyped'
        BY <2>0, <3>1 DEF RowTyped, PhotosAgain, Refuse, IdlePasses, Bump, halves
      <3>4. CASE Refuse(u)
        <4>1. PICK p \in {"google", "nextcloud"} :
                tokens[u][p] \in live[u][p] /\ Revoked(u, p, tokens[u][p])
          BY <3>4 DEF Refuse
        <4>2. p \in Providers /\ tokens[u][p] \in Creds \ {None}
          BY <2>0, <4>1 DEF CredsTyped, Providers
        <4>3. CredsTyped'
          BY <2>0, <3>4, <4>1, <4>2, MadeIs DEF Refuse, CredsTyped
        <4> QED BY <1>2, <3>2, <3>3, <4>3, WorldKeeps
      <3>5. CASE PhotosAgain(u) \/ IdlePasses(u)
        <4>1. CredsTyped'
          BY <2>0, <3>5, CredsSame DEF PhotosAgain, IdlePasses
        <4> QED BY <1>2, <3>2, <3>3, <4>1, WorldKeeps
      <3> QED BY <3>1, <3>4, <3>5
    <2>4. CASE Restart
      BY <1>2, <2>4, RestartKeeps
    <2>5. CASE UNCHANGED vars
      <3>1. /\ UNCHANGED halves /\ UNCHANGED creds /\ task' = task /\ used' = used
        BY <2>5 DEF vars, halves, creds
      <3> QED BY <1>2, <2>0, <3>1, RowSame, CredsSame, WorldKeeps
    <2> QED BY <1>2, <2>1, <2>2, <2>3, <2>4, <2>5 DEF Next
  <1> QED BY <1>1, <1>2

\* Every variable stays within its type, and so the limiter between nothing and
\* its capacity: no release without its acquire, on whichever way a copy ends.
THEOREM DriveTyped == Spec => []TypeOK
  <1>1. Accounts => TypeOK
    BY DEF Accounts, RowTyped, CredsTyped, TaskTyped, Counted, TypeOK
  <1> QED BY <1>1, AccountsInductive, PTL DEF Spec

\* The limiter's count is the number of copies past it, at every moment.
THEOREM SlotsCounted == Spec => [](used = Cardinality(Inside))
  <1>1. Accounts => used = Cardinality(Inside)
    BY DEF Accounts, Counted
  <1> QED BY <1>1, AccountsInductive, PTL DEF Spec

----------------------------------------------------------------------------
(* A track at work has a copy in its slot *)

\* An honest step of one task orphans no track.
LEMMA HonestKeeps ==
  ASSUME CopyHasRun, NEW t \in Tasks, Others(t), Honest(t)
  PROVE  CopyHasRun'
  <1> SUFFICES ASSUME NEW u \in Users, drive'[u] \in Working
               PROVE  \E s \in Tasks : task'[s].user = u /\ HasSlot(s)'
    BY DEF CopyHasRun
  <1>1. CASE task'[t].user = u /\ HasSlot(t)'
    BY <1>1
  <1>2. CASE drive[u] \in Working /\ ~(task[t].user = u /\ HasSlot(t))
    <2>1. PICK s \in Tasks : task[s].user = u /\ HasSlot(s)
      BY <1>2 DEF CopyHasRun
    <2>2. s \in Tasks \ {t} /\ task'[s] = task[s]
      BY <1>2, <2>1 DEF Others
    <2>3. task'[s].user = u /\ HasSlot(s)'
      BY <2>1, <2>2 DEF HasSlot
    <2> QED BY <2>3
  <1> QED BY <1>1, <1>2 DEF Honest

\* A track shown as copying or verifying has a copy that is running, as long as no
\* copy outlives the day its context gives it: no late write of a callback or a
\* poll, no second copy of the same track, no answer of a provider and no restart
\* leaves a card that turns for ever.
THEOREM CopyNeverOrphaned ==
  ASSUME "overrun" \notin Events
  PROVE  Spec => []CopyHasRun
  <1>1. Init => CopyHasRun
    BY DEF Init, CopyHasRun, Working
  <1>2. ASSUME Accounts, CopyHasRun, [Next]_vars PROVE CopyHasRun'
    <2>0. RowTyped /\ CredsTyped /\ TaskTyped /\ CopyFits
      BY <1>2 DEF Accounts
    <2>1. ASSUME NEW t \in Tasks, Proper(t), Honest(t) PROVE CopyHasRun'
      BY <1>2, <2>1, HonestKeeps DEF Proper
    <2>2. CASE \E t \in Tasks : Continue(t) \/ Stats(t) \/ Abandon(t) \/ Overrun(t)
      <3>1. \A t \in Tasks : ~Overrun(t)
        BY DEF Overrun
      <3> QED BY <2>0, <2>1, <2>2, <3>1, ContinueProper, CutProper
    <2>3. CASE \E t \in Tasks, u \in Users : Start(t, u)
      BY <2>0, <2>1, <2>3, StartProper
    <2>4. CASE (\E u \in Users : PhotosAgain(u) \/ Refuse(u) \/ IdlePasses(u)) \/ UNCHANGED vars
      <3>1. drive' = drive /\ task' = task
        BY <2>4 DEF PhotosAgain, Refuse, IdlePasses, vars, halves
      <3> QED BY <1>2, <3>1 DEF CopyHasRun, HasSlot
    <2>5. CASE Restart
      <3>1. \A u \in Users : drive'[u] \notin Working
        BY <2>5 DEF Restart, Working
      <3> QED BY <3>1 DEF CopyHasRun
    <2> QED BY <1>2, <2>2, <2>3, <2>4, <2>5 DEF Next
  <1> QED BY <1>1, <1>2, AccountsInductive, PTL DEF Spec
=============================================================================
