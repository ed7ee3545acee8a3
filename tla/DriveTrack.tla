----------------------------- MODULE DriveTrack -----------------------------
(***************************************************************************)
(* The Drive half of a migration and the credentials behind it: connecting *)
(* Google and Nextcloud, starting the copy, the copy itself, and forgetting *)
(* what no half needs any more.  Nothing here takes a lock.  StartDrive     *)
(* queues a copy whatever the row says, and the row keeps saying "selecting"*)
(* until that copy has its slot; credentials are asked by value and deleted *)
(* by provider; the Google token serves both halves.                        *)
(*                                                                         *)
(* A member of Tasks is a request, a detached copy, a release or a sweep's *)
(* turn for one person.  Each database statement and each network call is  *)
(* one step.                                                               *)
(***************************************************************************)
EXTENDS Integers, FiniteSets

CONSTANTS
  Users,      \* people who migrate
  Tasks,      \* goroutines that may be alive at once (bounds concurrency)
  NoUser,     \* an idle task serves nobody
  Slots,      \* MAX_CONCURRENT: the capacity of Runner.limiter
  MaxCred,    \* bound on the credentials of one provider that are told apart
  Events      \* which of AllEvents may happen in this instance

(***************************************************************************)
(*   restart    the process stops and starts again                         *)
(*   disconnect a browser goes away and its request's context is cancelled *)
(*   refuse     a provider no longer accepts a credential                  *)
(*   unreadable a stored credential cannot be opened (the key has changed) *)
(*   again      Start is pressed while a copy of it is waiting or running, *)
(*              or a Photos half that was done is taken up again           *)
(*   stale      a button of a page that the row has moved on from, or that *)
(*              another tab is pressing at the same time                   *)
(*   photos     the Photos half checks the Google token                    *)
(*   idle       a migration does not move for the retention period         *)
(*   overrun    a copy takes longer than the day its context gives it      *)
(***************************************************************************)
AllEvents == {"restart", "disconnect", "refuse", "unreadable", "again", "stale",
              "photos", "idle", "overrun"}

ASSUME TasksAssumption == IsFiniteSet(Tasks) /\ NoUser \notin Users
ASSUME SlotsAssumption == Slots \in Nat \ {0}
ASSUME CredsAssumption == MaxCred \in Nat \ {0}
ASSUME EventsAssumption == Events \subseteq AllEvents

VARIABLES
  drive,       \* [Users -> DriveStates]              migrations.drive_state
  photosDone,  \* [Users -> BOOLEAN]                  migrations.photos_state = done
  still,       \* [Users -> BOOLEAN]                  updated_at is older than the retention
  tokens,      \* [Users -> [Providers -> Creds]]     the tokens table
  live,        \* [Users -> [Providers -> SUBSET Creds]] what the providers accept
  task,        \* [Tasks -> TaskStates]               the goroutines
  used         \* 0..Slots                            len(Runner.limiter)

halves == <<drive, photosDone, still>>
creds == <<tokens, live>>
vars == <<drive, photosDone, still, tokens, live, task, used>>

----------------------------------------------------------------------------
(* Types *)

\* Two more are declared, importing and cancelled; nothing writes them.
DriveStates == {"not_started", "consent_pending", "selecting", "copying", "verifying",
                "done", "failed"}
\* The states only the process can leave.
Working == {"copying", "verifying"}
\* "flow" is the Login Flow that the person has not granted yet.
Providers == {"google", "nextcloud", "flow"}
None == 0
Creds == None..MaxCred
NoCreds == [p \in Providers |-> None]

\* Where a copy is, from the moment it is queued, and where it has a slot.
InSlot == {"begin", "readNextcloud", "quota", "copy", "askGoogle", "askNextcloud",
           "verify", "reconnect"}
Jobs == {"none", "start", "run", "photos", "connect", "release", "sweep"}
PCs == {"idle", "queued", "consented", "flow", "poll", "granted", "spend", "ready",
        "release", "revokeNextcloud", "dropNextcloud", "revokeGoogle", "dropGoogle",
        "touch"} \cup InSlot

(***************************************************************************)
(* has: the credentials the task has in memory.  about: the providers that *)
(* have refused (asks), or whose credentials are to be forgotten.          *)
(***************************************************************************)
TaskStates == [pc : PCs, user : Users \cup {NoUser}, job : Jobs,
               has : [Providers -> Creds], about : SUBSET Providers]
Idle == [pc |-> "idle", user |-> NoUser, job |-> "none", has |-> NoCreds, about |-> {}]

----------------------------------------------------------------------------
(* Steps of one task *)

At(t, p) == task[t].pc = p
Become(t, r) == task' = [task EXCEPT ![t] = r]
Goto(t, p) == task' = [task EXCEPT ![t].pc = p]
End(t) == Become(t, Idle)
Begins(t, u, job, p, has) ==
  /\ At(t, "idle")
  /\ Become(t, [pc |-> p, user |-> u, job |-> job, has |-> has, about |-> {}])

\* A copy that is starting, waiting for its slot, or running.
Copying(t) == task[t].job \in {"start", "run"}
HasSlot(t) == task[t].job = "run" /\ task[t].pc \in InSlot
\* A mutant: a request that ends gives back a slot as well.
FreeAnyway(t) == used' = used - 1
Free(t) == used' = IF HasSlot(t) THEN used - 1 ELSE used

\* Every write of the row is a sign of life.
Bump(u) == still' = [still EXCEPT ![u] = FALSE]
SetDriveState(u, s) ==
  /\ drive' = [drive EXCEPT ![u] = s] /\ Bump(u) /\ UNCHANGED photosDone
PutToken(u, p, c) ==
  /\ tokens' = [tokens EXCEPT ![u][p] = c]
  /\ Bump(u) /\ UNCHANGED <<drive, photosDone>>
DeleteToken(u, p) == tokens' = [tokens EXCEPT ![u][p] = None]

\* A credential the provider has just made: not one that anybody still has.
Fresh(u, p) ==
  {c \in Creds \ {None} : /\ c \notin live[u][p] /\ tokens[u][p] # c
                          /\ \A t \in Tasks : task[t].user = u => task[t].has[p] # c}
Made(u, p, c) == live' = [live EXCEPT ![u][p] = @ \cup {c}]
Revoked(u, p, c) == live' = [live EXCEPT ![u][p] = @ \ {c}]

\* The task's last act: it writes the state it leaves the track in.
Ends(t, s) == SetDriveState(task[t].user, s) /\ End(t) /\ Free(t)

----------------------------------------------------------------------------
(* What the wizard's pages offer *)

Connecting(u) == \E t \in Tasks : task[t].user = u /\ task[t].job = "connect"
OffersGoogle(u) ==
  \/ "stale" \in Events
  \/ /\ tokens[u]["google"] = None /\ ~Connecting(u)
     /\ drive[u] \notin {"done", "failed"} \/ ~photosDone[u]
OffersNextcloud(u) ==
  \/ "stale" \in Events
  \/ /\ tokens[u]["google"] # None /\ tokens[u]["nextcloud"] = None /\ ~Connecting(u)
     /\ drive[u] \notin {"done", "failed"}
OffersStart(u) ==
  /\ \/ "stale" \in Events
     \/ /\ ~Connecting(u)
        /\ \/ drive[u] = "failed"
           \/ /\ tokens[u]["google"] # None /\ tokens[u]["nextcloud"] # None
              /\ drive[u] \in {"not_started", "selecting", "consent_pending"}
  /\ \/ "again" \in Events
     \/ \A t \in Tasks : ~(task[t].user = u /\ Copying(t))

----------------------------------------------------------------------------
(* Connecting *)

\* Google's consent comes back: the code is exchanged, the token stored, and
\* then Drive is set to selecting, whichever half had asked for it.
OauthCallback(t, u) ==
  /\ OffersGoogle(u)
  /\ Begins(t, u, "connect", "consented", NoCreds)
  /\ \E c \in Fresh(u, "google") : Made(u, "google", c) /\ PutToken(u, "google", c)
  /\ UNCHANGED used
Consented(t) == At(t, "consented") /\ Ends(t, "selecting") /\ UNCHANGED creds

StartNextcloud(t, u) ==
  /\ OffersNextcloud(u)
  /\ Begins(t, u, "connect", "flow", NoCreds)
  /\ \E c \in Fresh(u, "flow") : Made(u, "flow", c) /\ PutToken(u, "flow", c)
  /\ UNCHANGED used
FlowStarted(t) == At(t, "flow") /\ Ends(t, "consent_pending") /\ UNCHANGED creds

\* The page's polling looks after a flow, as long as there is one to look after.
PollNextcloud(t, u) ==
  /\ tokens[u]["nextcloud"] = None /\ tokens[u]["flow"] # None
  /\ Begins(t, u, "connect", "poll", [NoCreds EXCEPT !["flow"] = tokens[u]["flow"]])
  /\ UNCHANGED <<halves, creds, used>>

\* A granted flow answers once, with the app password it made; before and after
\* that it only says "not yet".
Poll(t) ==
  LET u == task[t].user  f == task[t].has["flow"] IN
  /\ At(t, "poll")
  /\ \/ End(t) /\ UNCHANGED live
     \/ /\ f \in live[u]["flow"]
        /\ \E c \in Fresh(u, "nextcloud") :
             /\ live' = [live EXCEPT ![u]["flow"] = @ \ {f}, ![u]["nextcloud"] = @ \cup {c}]
             /\ task' = [task EXCEPT ![t].pc = "granted", ![t].has["nextcloud"] = c]
  /\ UNCHANGED <<halves, tokens, used>>
Granted(t) ==
  /\ At(t, "granted") /\ Goto(t, "spend")
  /\ PutToken(task[t].user, "nextcloud", task[t].has["nextcloud"])
  /\ UNCHANGED <<live, used>>
Spend(t) ==
  /\ At(t, "spend") /\ Goto(t, "ready") /\ DeleteToken(task[t].user, "flow")
  /\ UNCHANGED <<halves, live, used>>
Ready(t) == At(t, "ready") /\ Ends(t, "selecting") /\ UNCHANGED creds

----------------------------------------------------------------------------
(* Starting *)

\* StartDrive reads both credentials; neither the row's state nor whether a
\* copy is already waiting is looked at.
StartDrive(t, u) ==
  /\ OffersStart(u) /\ At(t, "idle")
  /\ \/ /\ tokens[u]["google"] # None /\ tokens[u]["nextcloud"] # None
        /\ Begins(t, u, "start", "askGoogle", [tokens[u] EXCEPT !["flow"] = None])
        /\ UNCHANGED halves
     \/ /\ "unreadable" \in Events
        /\ tokens[u]["google"] # None
        /\ SetDriveState(u, "failed") /\ UNCHANGED task
  /\ UNCHANGED <<creds, used>>

\* A preflight asks with the credential in memory.  A refusal deletes whatever
\* the tokens table has for that provider; anything else counts as fine.
Refuses(t, p) ==
  /\ task[t].has[p] \notin live[task[t].user][p]
  /\ DeleteToken(task[t].user, p)

\* Google's preflight: before a copy, after one that rclone gave up, or for the
\* Photos half.
AskGoogle(t) ==
  /\ At(t, "askGoogle")
  /\ \/ /\ UNCHANGED tokens
        /\ IF task[t].job = "photos" THEN End(t) ELSE Goto(t, "askNextcloud")
     \/ /\ Refuses(t, "google")
        /\ CASE task[t].job = "photos" -> End(t)
             [] task[t].job = "start" -> Goto(t, "reconnect")
             [] OTHER -> task' = [task EXCEPT ![t].pc = "askNextcloud",
                                              ![t].about = @ \cup {"google"}]
  /\ UNCHANGED <<halves, live, used>>

\* Nextcloud's preflight.  A start that passes becomes the detached copy; a
\* copy that failed goes where the two answers send it.
AskNextcloud(t) ==
  /\ At(t, "askNextcloud")
  /\ \/ /\ Refuses(t, "nextcloud") /\ Goto(t, "reconnect") /\ UNCHANGED <<halves, used>>
     \/ /\ UNCHANGED tokens
        /\ CASE task[t].job = "start" ->
                  /\ task' = [task EXCEPT ![t].pc = "queued", ![t].job = "run",
                                          ![t].has["nextcloud"] = None]
                  /\ UNCHANGED <<halves, used>>
             [] task[t].about # {} -> Goto(t, "reconnect") /\ UNCHANGED <<halves, used>>
             [] OTHER -> Ends(t, "failed")
  /\ UNCHANGED live

\* A mutant: a credential that was refused is a copy that failed.
ReconnectDriveFails(t) == At(t, "reconnect") /\ Ends(t, "failed") /\ UNCHANGED creds
\* Back to where the wizard offers to connect again.
ReconnectDrive(t) == At(t, "reconnect") /\ Ends(t, "selecting") /\ UNCHANGED creds

----------------------------------------------------------------------------
(* The copy *)

Acquire(t) ==
  /\ At(t, "queued") /\ used < Slots /\ used' = used + 1
  /\ Goto(t, "begin") /\ UNCHANGED <<halves, creds>>
Begin(t) ==
  /\ At(t, "begin") /\ Goto(t, "readNextcloud")
  /\ SetDriveState(task[t].user, "copying") /\ UNCHANGED <<creds, used>>
\* A mutant: the copy goes on with what it had in memory.
ReadNextcloudBlind(t) ==
  /\ At(t, "readNextcloud")
  /\ Goto(t, IF tokens[task[t].user]["nextcloud"] = None THEN "reconnect" ELSE "quota")
  /\ UNCHANGED <<halves, creds, used>>
\* The app password is read again, since the copy may have waited for long.
ReadNextcloud(t) ==
  LET c == tokens[task[t].user]["nextcloud"] IN
  /\ At(t, "readNextcloud")
  /\ \/ c = None /\ Goto(t, "reconnect") /\ UNCHANGED <<halves, used>>
     \/ /\ c # None
        /\ task' = [task EXCEPT ![t].pc = "quota", ![t].has["nextcloud"] = c]
        /\ UNCHANGED <<halves, used>>
     \/ "unreadable" \in Events /\ Ends(t, "failed")
  /\ UNCHANGED creds
\* The environment of rclone, and the quota as a warning, unless Nextcloud
\* refuses.
RecordQuota(t) ==
  /\ At(t, "quota")
  /\ \/ Goto(t, "copy") /\ UNCHANGED <<halves, tokens, used>>
     \/ Refuses(t, "nextcloud") /\ Goto(t, "reconnect") /\ UNCHANGED <<halves, used>>
     \/ Ends(t, "failed") /\ UNCHANGED tokens
  /\ UNCHANGED live
\* A mutant: a line that is handled after the end still writes.
StatsLate(t) ==
  /\ At(t, "copy") \/ At(t, "release")
  /\ SetDriveState(task[t].user, "copying")
  /\ UNCHANGED <<creds, task, used>>
\* Every line of rclone's statistics writes the state again.
Stats(t) ==
  /\ At(t, "copy") /\ SetDriveState(task[t].user, "copying")
  /\ UNCHANGED <<creds, task, used>>
\* A mutant: a copy that failed is simply run again.
RcloneForever(t) ==
  /\ At(t, "copy")
  /\ \/ Goto(t, "begin") /\ UNCHANGED halves
     \/ Goto(t, "verify") /\ SetDriveState(task[t].user, "verifying")
  /\ UNCHANGED <<creds, used>>
Rclone(t) ==
  /\ At(t, "copy")
  /\ \/ Goto(t, "askGoogle") /\ UNCHANGED halves
     \/ Goto(t, "verify") /\ SetDriveState(task[t].user, "verifying")
  /\ UNCHANGED <<creds, used>>
\* A mutant: only the other half forgets.
VerifyDriveKeeps(t) ==
  /\ At(t, "verify") /\ (Ends(t, "failed") \/ Ends(t, "done")) /\ UNCHANGED creds
VerifyDrive(t) ==
  /\ At(t, "verify")
  /\ \/ Ends(t, "failed")
     \/ /\ SetDriveState(task[t].user, "done") /\ Free(t)
        /\ task' = [task EXCEPT ![t] = [Idle EXCEPT !.pc = "release", !.job = "release",
                                                    !.user = task[t].user]]
  /\ UNCHANGED creds

----------------------------------------------------------------------------
(* Forgetting *)

\* What no half needs any more, by a row that is read once.
Release(t) ==
  LET u == task[t].user
      about == (IF drive[u] = "done" THEN {"nextcloud"} ELSE {})
               \cup (IF drive[u] = "done" /\ photosDone[u] THEN {"google"} ELSE {}) IN
  /\ At(t, "release")
  /\ IF about = {} THEN End(t)
     ELSE task' = [task EXCEPT ![t].pc = "revokeNextcloud", ![t].about = about]
  /\ UNCHANGED <<halves, creds, used>>

\* Where a task goes once it is done with Nextcloud, and at last.
AfterGoogle(t) == IF task[t].job = "sweep" THEN Goto(t, "touch") ELSE End(t)
AfterNextcloud(t) ==
  IF "google" \in task[t].about THEN Goto(t, "revokeGoogle") ELSE AfterGoogle(t)

\* The app password is revoked where it lives, which may fail, then dropped.
RevokeNextcloud(t) ==
  LET u == task[t].user  c == tokens[u]["nextcloud"] IN
  /\ At(t, "revokeNextcloud")
  /\ task' = [task EXCEPT ![t].pc = "dropNextcloud", ![t].has["nextcloud"] = c]
  /\ \/ UNCHANGED live
     \/ c # None /\ Revoked(u, "nextcloud", c)
  /\ UNCHANGED <<halves, tokens, used>>
\* The drop is by provider, and the rest of an unfinished flow goes with it.
DropNextcloud(t) ==
  LET u == task[t].user IN
  /\ At(t, "dropNextcloud")
  /\ tokens' = [tokens EXCEPT
       ![u]["nextcloud"] = IF task[t].has["nextcloud"] = None THEN @ ELSE None,
       ![u]["flow"] = None]
  /\ AfterNextcloud(t) /\ UNCHANGED <<halves, live, used>>
RevokeGoogle(t) ==
  LET u == task[t].user  c == tokens[u]["google"] IN
  /\ At(t, "revokeGoogle")
  /\ IF c = None THEN AfterGoogle(t) /\ UNCHANGED live
     ELSE /\ task' = [task EXCEPT ![t].pc = "dropGoogle", ![t].has["google"] = c]
          /\ UNCHANGED live \/ Revoked(u, "google", c)
  /\ UNCHANGED <<halves, tokens, used>>
DropGoogle(t) ==
  /\ At(t, "dropGoogle") /\ DeleteToken(task[t].user, "google")
  /\ AfterGoogle(t) /\ UNCHANGED <<halves, live, used>>

\* The sweep of one person whose row has not moved and does not say "working".
SweepIdle(t, u) ==
  /\ still[u] /\ drive[u] \notin Working
  /\ At(t, "idle")
  /\ Become(t, [Idle EXCEPT !.pc = "revokeNextcloud", !.user = u, !.job = "sweep",
                            !.about = {"nextcloud", "google"}])
  /\ UNCHANGED <<halves, creds, used>>
Touch(t) ==
  /\ At(t, "touch") /\ Bump(task[t].user) /\ End(t)
  /\ UNCHANGED <<drive, photosDone, creds, used>>

----------------------------------------------------------------------------
(* The Photos half, as far as it shares the row and the Google token *)

PhotosFinished(t, u) ==
  /\ ~photosDone[u] /\ At(t, "idle")
  /\ photosDone' = [photosDone EXCEPT ![u] = TRUE] /\ Bump(u) /\ UNCHANGED drive
  /\ Become(t, [Idle EXCEPT !.pc = "release", !.job = "release", !.user = u])
  /\ UNCHANGED <<creds, used>>
\* "Send the files" looks only at whether Photos is running, so it takes up a
\* half that was done.
PhotosAgain(u) ==
  /\ "again" \in Events
  /\ photosDone[u] /\ photosDone' = [photosDone EXCEPT ![u] = FALSE]
  /\ Bump(u) /\ UNCHANGED <<drive, creds, task, used>>
\* StartPhotosTakeout, checkTakeout and runTakeoutDownload ask Google too.
PhotosAsks(t, u) ==
  /\ "photos" \in Events /\ ~photosDone[u] /\ tokens[u]["google"] # None
  /\ Begins(t, u, "photos", "askGoogle", [NoCreds EXCEPT !["google"] = tokens[u]["google"]])
  /\ UNCHANGED <<halves, creds, used>>

----------------------------------------------------------------------------
(* The world *)

\* The person withdraws a grant, or changes a password.
Refuse(u) ==
  /\ "refuse" \in Events
  /\ \E p \in {"google", "nextcloud"} :
       tokens[u][p] \in live[u][p] /\ Revoked(u, p, tokens[u][p])
  /\ UNCHANGED <<halves, tokens, task, used>>

\* The retention is weeks; a task is hours at most, but for the wait for a slot.
IdlePasses(u) ==
  /\ "idle" \in Events /\ ~still[u]
  /\ \A t \in Tasks : task[t].user = u => At(t, "queued")
  /\ still' = [still EXCEPT ![u] = TRUE]
  /\ UNCHANGED <<drive, photosDone, creds, task, used>>

\* The context of a request is cancelled: what it had still to write is not.
Abandon(t) ==
  /\ "disconnect" \in Events /\ task[t].job \in {"start", "connect"}
  /\ End(t) /\ UNCHANGED <<halves, creds, used>>

\* The day of a copy is over: rclone is killed, and the writes that should say
\* so have the same expired context.
Overrun(t) ==
  /\ "overrun" \in Events /\ HasSlot(t)
  /\ End(t) /\ Free(t) /\ UNCHANGED <<halves, creds>>

\* A mutant: a copy that is being verified is not repaired.
RestartCopying ==
  /\ "restart" \in Events
  /\ task' = [t \in Tasks |-> Idle] /\ used' = 0
  /\ drive' = [u \in Users |-> IF drive[u] = "copying" THEN "selecting" ELSE drive[u]]
  /\ still' = [u \in Users |-> IF drive[u] = "copying" THEN FALSE ELSE still[u]]
  /\ UNCHANGED <<photosDone, creds>>
\* Every goroutine is gone; RecoverInterrupted repairs the rows at work.
Restart ==
  /\ "restart" \in Events
  /\ task' = [t \in Tasks |-> Idle] /\ used' = 0
  /\ drive' = [u \in Users |-> IF drive[u] \in Working THEN "selecting" ELSE drive[u]]
  /\ still' = [u \in Users |-> IF drive[u] \in Working THEN FALSE ELSE still[u]]
  /\ UNCHANGED <<photosDone, creds>>

----------------------------------------------------------------------------
Init ==
  /\ drive = [u \in Users |-> "not_started"]
  /\ photosDone = [u \in Users |-> FALSE]
  /\ still = [u \in Users |-> FALSE]
  /\ tokens = [u \in Users |-> NoCreds]
  /\ live = [u \in Users |-> [p \in Providers |-> {}]]
  /\ task = [t \in Tasks |-> Idle]
  /\ used = 0

\* What one task does next on its own.  The copy's statistics are left out: they
\* bring it no nearer to its end.
Continue(t) ==
  \/ Consented(t) \/ FlowStarted(t) \/ Poll(t) \/ Granted(t) \/ Spend(t) \/ Ready(t)
  \/ AskGoogle(t) \/ AskNextcloud(t) \/ ReconnectDrive(t)
  \/ Acquire(t) \/ Begin(t) \/ ReadNextcloud(t) \/ RecordQuota(t) \/ Rclone(t)
  \/ VerifyDrive(t)
  \/ Release(t) \/ RevokeNextcloud(t) \/ DropNextcloud(t) \/ RevokeGoogle(t)
  \/ DropGoogle(t) \/ Touch(t)

\* What starts a task: a button, a poll of the page, a sweep, the other half.
Start(t, u) ==
  \/ OauthCallback(t, u) \/ StartNextcloud(t, u) \/ PollNextcloud(t, u)
  \/ StartDrive(t, u) \/ SweepIdle(t, u) \/ PhotosFinished(t, u) \/ PhotosAsks(t, u)

Next ==
  \/ \E t \in Tasks : Continue(t) \/ Stats(t) \/ Abandon(t) \/ Overrun(t)
  \/ \E t \in Tasks, u \in Users : Start(t, u)
  \/ \E u \in Users : PhotosAgain(u) \/ Refuse(u) \/ IdlePasses(u)
  \/ Restart

Spec == Init /\ [][Next]_vars

\* Goroutines are scheduled, network calls and rclone end, and those who wait
\* for a slot get it in turn.
Fairness == \A t \in Tasks : SF_vars(Continue(t))
FairSpec == Spec /\ Fairness

----------------------------------------------------------------------------
(* Properties *)

\* Every variable stays within its type.
TypeOK ==
  /\ drive \in [Users -> DriveStates]
  /\ photosDone \in [Users -> BOOLEAN]
  /\ still \in [Users -> BOOLEAN]
  /\ tokens \in [Users -> [Providers -> Creds]]
  /\ live \in [Users -> [Providers -> SUBSET (Creds \ {None})]]
  /\ task \in [Tasks -> TaskStates]
  /\ used \in 0..Slots

\* A track shown as copying or verifying has a copy that is running: "without it
\* a copy left in copying by a restart is a dead end" (RecoverInterrupted).  No
\* late write of a poll or a callback, and no end of another copy, breaks it.
CopyHasRun ==
  \A u \in Users : drive[u] \in Working =>
    \E t \in Tasks : task[t].user = u /\ HasSlot(t)

\* A finished copy stays finished: only a step in which the person connects an
\* account again moves the track on, never a copy that was queued before
\* (Terminal: "an end state for its track").
FinishedStays ==
  [][\A u \in Users :
       drive[u] = "done" /\ drive'[u] # "done" =>
         \E t \in Tasks : /\ task[t].user = u /\ task[t].job = "connect"
                          /\ task'[t] # task[t]]_vars

\* Of the two halves "the state of one never touches the other" (README.md): the
\* card of a Drive half that is done has no button, so on pages that are up to
\* date nothing moves it.  FinishedStays allows what oauthCallback does.
HalvesApart == [][\A u \in Users : drive[u] = "done" => drive'[u] = "done"]_vars

\* A failed track can be tried again, or is about to be moved to where the
\* wizard offers to connect: its card has no button but "try again", and that
\* needs both credentials ("a failed track keeps its credentials, so try again
\* works without reconnecting", credentials.go).
FailedCanRetry ==
  \A u \in Users : drive[u] = "failed" =>
    \/ tokens[u]["google"] # None /\ tokens[u]["nextcloud"] # None
    \/ \E t \in Tasks : task[t].user = u /\ At(t, "reconnect")

\* A task deletes the credential it asked about or revoked, never one that has
\* taken its place meanwhile: "a refusal clears the dead credential"
\* (preflightGoogle), although the statement names only the provider.
ClearsWhatItAsked ==
  [][\A u \in Users, p \in {"google", "nextcloud"} :
       tokens[u][p] # None /\ tokens'[u][p] = None =>
         \E t \in Tasks : /\ task[t].user = u /\ task'[t] # task[t]
                          /\ task[t].has[p] = tokens[u][p]]_vars

\* A copy that is shown as running comes to an end, though it may wait for its
\* slot behind others.
CopyEnds == \A u \in Users : drive[u] \in Working ~> drive[u] \notin Working

\* When both halves are done, both credentials are forgotten, whichever half
\* was last and however the two releases overlap: each writes done before it
\* reads the row, so the last one to read sees both (releaseFinished).
BothForgotten ==
  \A u \in Users :
    (drive[u] = "done" /\ photosDone[u])
      ~> \/ tokens[u]["google"] = None /\ tokens[u]["nextcloud"] = None
         \/ drive[u] # "done" \/ ~photosDone[u]
=============================================================================
