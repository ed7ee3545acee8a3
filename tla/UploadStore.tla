----------------------------- MODULE UploadStore -----------------------------
(***************************************************************************)
(* The resumable upload of one person's archives (package upload, behind   *)
(* web/upload.go): sessions of chunks under names, a running hash kept in  *)
(* each session's manifest, and finished archives beside them.  Everything *)
(* is on disk; a restart loses requests and locks only.                    *)
(*                                                                         *)
(* A file is the sequence of its chunks and is its own hash: SHA-256 is    *)
(* taken to be free of collisions, so a running hash is what it has        *)
(* consumed.  A step is what one request does between two writes to the    *)
(* disk; writes that crash can separate are separate steps.                *)
(***************************************************************************)
EXTENDS Integers, Sequences

CONSTANTS
  Plain,     \* names under which browsers announce files
  Bytes,     \* contents of a chunk
  Hole,      \* what is read where nothing was written
  Files,     \* contents of the files that browsers send
  MaxChunks, \* bound on the chunks of a file
  NoFile,    \* no archive, no hash
  Tasks,     \* requests that may be served at once (bounds concurrency)
  NoTask,    \* nobody holds a session's lock
  Events     \* which of AllEvents may happen in this instance

(***************************************************************************)
(*   crash     the process stops and starts again                          *)
(*   overlap   several tabs, or one reloaded in the middle of a request    *)
(*   unhashed  clients that announce no hash ("works, without those        *)
(*             guarantees", web/upload.go); the wizard always sends one    *)
(*   abort     the route that discards an upload; the wizard never calls it *)
(***************************************************************************)
AllEvents == {"crash", "overlap", "unhashed", "abort"}

ASSUME FilesAssumption ==
  /\ MaxChunks \in Nat \ {0}
  /\ \A f \in Files : f \in Seq(Bytes) /\ Len(f) \in 1..MaxChunks
  /\ Hole \notin Bytes /\ NoFile \notin Files
ASSUME TasksAssumption == NoTask \notin Tasks
ASSUME EventsAssumption == Events \subseteq AllEvents

\* The name a file is announced by, or that name with its hash in front.
Names == [plain : Plain, tag : Files \cup {NoFile}]
Chunks == 1..MaxChunks
\* What a browser announces: a file, with or without its hash.
Announcements == {a \in [file : Files, hash : Files \cup {NoFile}] : a.hash \in {a.file, NoFile}}
\* The bytes of a data file, as far as it may reach.
Datas == [Chunks -> Bytes \cup {Hole}]
NoData == [i \in {} |-> Hole]

VARIABLES
  manifest,  \* [Names -> Manifests \cup {NoManifest}]  manifest.json of a session
  data,      \* [Names -> Datas \cup {NoData}]          data of a session
  archive,   \* [Names -> archives \cup {NoFile}]       the finished file
  sumFile,   \* [Names -> Files \cup {NoFile}]          its .sha256
  lock,      \* [Names -> Tasks \cup {NoTask}]          Store.locks
  task,      \* [Tasks -> TaskStates]                   requests being served
  open,      \* SUBSET (Names \X Announcements)         uploads a tab is at
  sent,      \* SUBSET (Names \X Announcements \X Chunks)  chunks on the wire
  acked      \* SUBSET (Names \X Announcements)         uploads reported done

vars == <<manifest, data, archive, sumFile, lock, task, open, sent, acked>>

\* absorbed is what the running hash has consumed, Absorbed and HashState in one.
Manifests == [hash : Files \cup {NoFile}, size : Chunks, received : SUBSET Chunks,
              absorbed : UNION {[1..k -> Bytes \cup {Hole}] : k \in 0..MaxChunks},
              stale : BOOLEAN]
NoManifest == [none |-> TRUE]

\* A mutant: a file of whole chunks gets one more.
FreshOneMore(a) == [hash |-> a.hash, size |-> Len(a.file) + 1, received |-> {},
                    absorbed |-> <<>>, stale |-> FALSE]

Fresh(a) == [hash |-> a.hash, size |-> Len(a.file), received |-> {},
             absorbed |-> <<>>, stale |-> FALSE]

Idle == [pc |-> "idle"]
\* A request at pc, about a name and an announcement; index is of a chunk.
Request(pc, n, a, i) == [pc |-> pc, name |-> n, ann |-> a, index |-> i]
PCs == {"open", "create", "chunk", "record", "recordStale",
        "place", "note", "clean", "discard", "reset", "abort"}
TaskStates == {Idle} \cup
  [pc : PCs, name : Names, ann : Announcements, index : Chunks \cup {0}]

Crash == "crash" \in Events
Overlap == "overlap" \in Events

----------------------------------------------------------------------------
(* Steps of one request *)

At(t, p) == task[t].pc = p
Go(t, p) == task' = [task EXCEPT ![t].pc = p]
End(t) == task' = [task EXCEPT ![t] = Idle]
Start(t, p, n, a, i) == task' = [task EXCEPT ![t] = Request(p, n, a, i)]
Lock(t, n) == lock[n] = NoTask /\ lock' = [lock EXCEPT ![n] = t]
Unlock(n) == lock' = [lock EXCEPT ![n] = NoTask]
\* Locked and unlocked within the step.
Free(n) == lock[n] = NoTask /\ UNCHANGED lock

\* One tab waits for the answer before it asks for something else; a chunk that
\* it gave up on may still be under way.
MayAsk == Overlap \/ \A t \in Tasks : task[t].pc \in {"idle", "chunk", "record", "recordStale"}

\* Begin answers with the name to use from then on.
Answer(n, a) == open' = (IF Overlap THEN open ELSE {}) \cup {<<n, a>>}

WriteManifest(n, m) == manifest' = [manifest EXCEPT ![n] = m]
HasSession(n) == manifest[n] # NoManifest

----------------------------------------------------------------------------
(* Begin *)

\* A mutant: finished archives are looked for by name only.
FindAssembledNot(a) == {}

findAssembled(a) ==
  {n \in Names : /\ a.hash # NoFile /\ sumFile[n] = a.hash
                 /\ archive[n] # NoFile /\ Len(archive[n]) = Len(a.file)}

findSession(a) ==
  {n \in Names : /\ a.hash # NoFile /\ HasSession(n)
                 /\ manifest[n].hash = a.hash /\ manifest[n].size = Len(a.file)}

\* Begin until it takes the session's lock: the same content under any name,
\* then the announced name, unless an archive of other content has it.
Begin(t, p, a) ==
  LET n == [plain |-> p, tag |-> NoFile]
      known == IF findAssembled(a) # {} THEN findAssembled(a) ELSE findSession(a)
      taken == archive[n] # NoFile IN
  /\ At(t, "idle") /\ MayAsk
  /\ \/ /\ \E k \in known : Answer(k, a)
        /\ UNCHANGED task
     \/ /\ known = {} /\ taken /\ (a.hash = NoFile \/ sumFile[n] = a.hash)
        /\ Answer(n, a) /\ UNCHANGED task
     \/ /\ known = {} /\ ~(taken /\ (a.hash = NoFile \/ sumFile[n] = a.hash))
        /\ Start(t, "open", IF taken THEN [n EXCEPT !.tag = a.hash] ELSE n, a, 0)
        /\ UNCHANGED open
  /\ UNCHANGED <<manifest, data, archive, sumFile, lock, sent, acked>>

\* Can the session go on as this file's?
Same(m, a) == m.size = Len(a.file) /\ (a.hash = NoFile \/ m.hash \in {NoFile, a.hash})

\* RemoveAll removes a directory's files in no given order.
RemoveSome(n) ==
  \E d \in {{"data"}, {"manifest"}, {"data", "manifest"}} :
    /\ data' = IF "data" \in d THEN [data EXCEPT ![n] = NoData] ELSE data
    /\ manifest' = IF "manifest" \in d THEN [manifest EXCEPT ![n] = NoManifest] ELSE manifest

\* Begin under the lock: resume, adopting the hash; or replace; or create.
OpenSession(t) ==
  LET n == task[t].name
      a == task[t].ann
      m == manifest[n] IN
  /\ At(t, "open")
  /\ \/ /\ HasSession(n) /\ Same(m, a) /\ Free(n)
        /\ WriteManifest(n, [m EXCEPT !.hash = IF @ = NoFile THEN a.hash ELSE @])
        /\ Answer(n, a) /\ End(t) /\ UNCHANGED data
     \/ /\ HasSession(n) /\ ~Same(m, a) /\ Lock(t, n)
        /\ RemoveSome(n) /\ Go(t, "create") /\ UNCHANGED open
     \/ /\ ~HasSession(n) /\ Free(n)
        /\ WriteManifest(n, Fresh(a))
        /\ Answer(n, a) /\ End(t) /\ UNCHANGED data
  /\ UNCHANGED <<archive, sumFile, sent, acked>>

ReplaceSession(t) ==
  LET n == task[t].name IN
  /\ At(t, "create")
  /\ data' = [data EXCEPT ![n] = NoData]
  /\ WriteManifest(n, Fresh(task[t].ann))
  /\ Answer(n, task[t].ann) /\ Unlock(n) /\ End(t)
  /\ UNCHANGED <<archive, sumFile, sent, acked>>

----------------------------------------------------------------------------
(* WriteChunk *)

\* A tab sends what was missing when it asked; copies it gave up on arrive at any
\* time until a restart breaks their connections.
Sends(n, a, i) ==
  \/ <<n, a, i>> \in sent
  \/ <<n, a>> \in open /\ i \in 1..Len(a.file) /\ (Overlap \/ i \notin manifest[n].received)

\* The session is looked up and the body read before the lock is taken, which
\* may take as long as the connection likes.  A short body changes nothing.
WriteChunk(t, n, a, i) ==
  /\ At(t, "idle")
  /\ HasSession(n) /\ i <= manifest[n].size /\ Sends(n, a, i)
  /\ Start(t, "chunk", n, a, i)
  /\ sent' = sent \cup {<<n, a, i>>}
  /\ UNCHANGED <<manifest, data, archive, sumFile, lock, open, acked>>

\* os.O_CREATE
Opened(n) == IF data[n] = NoData THEN [i \in Chunks |-> Hole] ELSE data[n]

\* The chunk at its offset, unless those bytes are there already.  A chunk the
\* hash has consumed and that changes makes the hash stale.  An index that the
\* session no longer has panics, and the request ends there.
StoreChunk(t) ==
  LET n == task[t].name
      i == task[t].index
      m == manifest[n]
      byte == task[t].ann.file[i]
      changed == i \in m.received /\ Opened(n)[i] # byte IN
  /\ At(t, "chunk")
  /\ \/ /\ ~HasSession(n)
        /\ Free(n) /\ End(t) /\ UNCHANGED data
     \/ /\ HasSession(n) /\ i > m.size
        /\ data' = [data EXCEPT ![n] = Opened(n)]
        /\ Free(n) /\ End(t)
     \/ /\ HasSession(n) /\ i <= m.size
        /\ data' = [data EXCEPT ![n] = [Opened(n) EXCEPT ![i] = byte]]
        /\ Lock(t, n)
        /\ Go(t, IF changed /\ i <= Len(m.absorbed) THEN "recordStale" ELSE "record")
  /\ UNCHANGED <<manifest, archive, sumFile, open, sent, acked>>

\* How far the running hash can go.
Reach(m) == CHOOSE k \in Len(m.absorbed)..m.size :
              /\ Len(m.absorbed) + 1 .. k \subseteq m.received
              /\ k = m.size \/ k + 1 \notin m.received

\* absorb: the hash consumes the chunks next in line.
absorb(m, d) ==
  IF m.hash = NoFile \/ m.stale THEN m
  ELSE [m EXCEPT !.absorbed = [i \in 1..Reach(m) |-> IF i <= Len(@) THEN @[i] ELSE d[i]]]

\* Nothing to read back at or after chunk i.
PastEnd(d, i) == \A k \in i..MaxChunks : d[k] = Hole

\* A mutant: the rewritten chunk is not remembered.
ReceivedOnly(t) == [manifest[task[t].name] EXCEPT !.received = @ \cup {task[t].index}]

Received(t) ==
  [manifest[task[t].name] EXCEPT !.received = @ \cup {task[t].index},
                                 !.stale = @ \/ At(t, "recordStale")]

RecordChunk(t) ==
  LET n == task[t].name
      m == Received(t)
      next == absorb(m, data[n])
      lost == \E i \in Len(m.absorbed) + 1 .. Len(next.absorbed) : PastEnd(data[n], i) IN
  /\ task[t].pc \in {"record", "recordStale"}
  /\ manifest' = IF lost THEN manifest ELSE [manifest EXCEPT ![n] = next]
  /\ Unlock(n) /\ End(t)
  /\ UNCHANGED <<data, archive, sumFile, open, sent, acked>>

----------------------------------------------------------------------------
(* Complete and Abort *)

Content(d, size) == [i \in 1..size |-> d[i]]

\* A mutant: the running hash, stale or not.
SumOfRunning(m, d) == IF Len(m.absorbed) = m.size THEN m.absorbed ELSE Content(d, m.size)

\* sum: the running hash if it kept up, or a pass over the data.
sum(m, d) ==
  IF ~m.stale /\ Len(m.absorbed) = m.size THEN m.absorbed ELSE Content(d, m.size)

\* A mutant: the last chunk is in, so the others must be.
WholeByLast(m) == m.size \in m.received

\* Every chunk is there.
Whole(m) == m.received = 1..m.size

\* A mutant: a restart in the middle is not thought of.
MovedNever(n) == FALSE

\* A crash between the rename and the cleanup leaves a session without data.
Moved(n) == data[n] = NoData /\ archive[n] # NoFile

\* Idempotent: no session any more but an archive.
CompleteAgain(t, n, a) ==
  /\ At(t, "idle") /\ MayAsk /\ <<n, a>> \in open /\ Free(n)
  /\ ~HasSession(n) /\ archive[n] # NoFile
  /\ acked' = acked \cup {<<n, a>>}
  /\ UNCHANGED <<manifest, data, archive, sumFile, task, open, sent>>

\* Complete until its first write: no hole, and the bytes announced.
Complete(t, n, a) ==
  LET m == manifest[n]
      proven == m.hash # NoFile =>
                  (data[n] = NoData => ~m.stale /\ Len(m.absorbed) = m.size)
      right == m.hash # NoFile => sum(m, data[n]) = m.hash IN
  /\ At(t, "idle") /\ MayAsk /\ <<n, a>> \in open
  /\ HasSession(n) /\ Whole(m) /\ Lock(t, n)
  /\ \/ Moved(n) /\ Start(t, "clean", n, a, 0)
     \/ ~Moved(n) /\ proven /\ ~right /\ Start(t, "discard", n, a, 0)
     \/ ~Moved(n) /\ data[n] # NoData /\ right /\ Start(t, "place", n, a, 0)
  /\ UNCHANGED <<manifest, data, archive, sumFile, open, sent, acked>>

\* A mutant: the chunks are gone, the manifest still claims them.
ResetHashOnly(t) ==
  LET n == task[t].name IN
  /\ At(t, "reset")
  /\ WriteManifest(n, [manifest[n] EXCEPT !.absorbed = <<>>, !.stale = FALSE])
  /\ Unlock(n) /\ End(t)
  /\ UNCHANGED <<data, archive, sumFile, open, sent, acked>>

\* A mismatch: all the chunks go, the session stays.
DiscardData(t) ==
  /\ At(t, "discard")
  /\ data' = [data EXCEPT ![task[t].name] = NoData]
  /\ Go(t, "reset")
  /\ UNCHANGED <<manifest, archive, sumFile, lock, open, sent, acked>>

ResetManifest(t) ==
  LET n == task[t].name IN
  /\ At(t, "reset")
  /\ WriteManifest(n, [manifest[n] EXCEPT !.received = {}, !.absorbed = <<>>, !.stale = FALSE])
  /\ Unlock(n) /\ End(t)
  /\ UNCHANGED <<data, archive, sumFile, open, sent, acked>>

\* Truncated to the size and renamed into place.
Place(t) ==
  LET n == task[t].name IN
  /\ At(t, "place")
  /\ archive' = [archive EXCEPT ![n] = Content(data[n], manifest[n].size)]
  /\ data' = [data EXCEPT ![n] = NoData]
  /\ Go(t, IF manifest[n].hash = NoFile THEN "clean" ELSE "note")
  /\ UNCHANGED <<manifest, sumFile, lock, open, sent, acked>>

RecordHash(t) ==
  LET n == task[t].name IN
  /\ At(t, "note")
  /\ sumFile' = [sumFile EXCEPT ![n] = manifest[n].hash]
  /\ Go(t, "clean")
  /\ UNCHANGED <<manifest, data, archive, lock, open, sent, acked>>

Clean(t) ==
  LET n == task[t].name IN
  /\ At(t, "clean")
  /\ data' = [data EXCEPT ![n] = NoData]
  /\ WriteManifest(n, NoManifest)
  /\ acked' = acked \cup {<<n, task[t].ann>>}
  /\ Unlock(n) /\ End(t)
  /\ UNCHANGED <<archive, sumFile, open, sent>>

Abort(t, n, a) ==
  /\ "abort" \in Events
  /\ At(t, "idle") /\ MayAsk /\ <<n, a>> \in open
  /\ HasSession(n) /\ Lock(t, n) /\ RemoveSome(n)
  /\ Start(t, "abort", n, a, 0)
  /\ UNCHANGED <<archive, sumFile, open, sent, acked>>

AbortRest(t) ==
  LET n == task[t].name IN
  /\ At(t, "abort")
  /\ data' = [data EXCEPT ![n] = NoData]
  /\ WriteManifest(n, NoManifest)
  /\ Unlock(n) /\ End(t)
  /\ UNCHANGED <<archive, sumFile, open, sent, acked>>

----------------------------------------------------------------------------
\* The process stops and starts: requests and locks are gone, the disk is not.
Restart ==
  /\ Crash /\ \E t \in Tasks : task[t] # Idle
  /\ task' = [t \in Tasks |-> Idle]
  /\ lock' = [n \in Names |-> NoTask]
  /\ sent' = {}
  /\ UNCHANGED <<manifest, data, archive, sumFile, open, acked>>

Init ==
  /\ manifest = [n \in Names |-> NoManifest]
  /\ data = [n \in Names |-> NoData]
  /\ archive = [n \in Names |-> NoFile]
  /\ sumFile = [n \in Names |-> NoFile]
  /\ lock = [n \in Names |-> NoTask]
  /\ task = [t \in Tasks |-> Idle]
  /\ open = {} /\ sent = {} /\ acked = {}

Continue(t) ==
  \/ OpenSession(t) \/ ReplaceSession(t) \/ StoreChunk(t) \/ RecordChunk(t)
  \/ DiscardData(t) \/ ResetManifest(t) \/ Place(t) \/ RecordHash(t) \/ Clean(t)
  \/ AbortRest(t)

\* What browsers announce in this instance.
Announced == {a \in Announcements : a.hash # NoFile \/ "unhashed" \in Events}

Next ==
  \/ \E t \in Tasks : Continue(t)
  \/ \E t \in Tasks, p \in Plain, a \in Announced : Begin(t, p, a)
  \/ \E t \in Tasks, n \in Names, a \in Announced :
       \/ \E i \in Chunks : WriteChunk(t, n, a, i)
       \/ CompleteAgain(t, n, a) \/ Complete(t, n, a) \/ Abort(t, n, a)
  \/ Restart

Spec == Init /\ [][Next]_vars

\* The wizard's loop: what is missing, then the end.
Wizard(t, n, a) ==
  /\ <<n, a>> \in open
  /\ \/ Complete(t, n, a) \/ CompleteAgain(t, n, a)
     \/ HasSession(n) /\ \E i \in Chunks \ manifest[n].received : WriteChunk(t, n, a, i)

\* Requests are served, those that wait for a lock get it in turn, and the
\* person opens the page again until the wizard says the upload is done.
FairSpec ==
  /\ Spec
  /\ \A t \in Tasks : SF_vars(Continue(t))
  /\ SF_vars(\E t \in Tasks, n \in Names, a \in Announced : Wizard(t, n, a))

----------------------------------------------------------------------------
(* Properties *)

Archived == UNION {[1..k -> Bytes \cup {Hole}] : k \in Chunks}

\* Every file on disk and every request has the shape the code gives it.
TypeOK ==
  /\ manifest \in [Names -> Manifests \cup {NoManifest}]
  /\ data \in [Names -> Datas \cup {NoData}]
  /\ archive \in [Names -> Archived \cup {NoFile}]
  /\ sumFile \in [Names -> Files \cup {NoFile}]
  /\ lock \in [Names -> Tasks \cup {NoTask}]
  /\ task \in [Tasks -> TaskStates]
  /\ open \subseteq Names \X Announcements /\ acked \subseteq Names \X Announcements
  /\ sent \subseteq Names \X Announcements \X Chunks

\* "The manifest must never claim a chunk the disk does not hold" (WriteChunk),
\* when nobody works on the session; after the move the archive is the disk's.
ManifestHonest ==
  \A n \in Names :
    lock[n] = NoTask /\ HasSession(n) /\ archive[n] = NoFile =>
      \A i \in manifest[n].received : data[n] # NoData /\ data[n][i] # Hole

\* The running hash has consumed what is on the disk, or says that it has not:
\* else the wrong bytes would be taken for the announced ones.
HashFollowsData ==
  \A n \in Names :
    lock[n] = NoTask /\ HasSession(n) /\ ~manifest[n].stale /\ data[n] # NoData =>
      \A i \in DOMAIN manifest[n].absorbed : manifest[n].absorbed[i] = data[n][i]

\* A finished archive is never replaced by other content of its name: Begin stores
\* that "beside it under a name carrying its hash, so no finished export is ever
\* thrown away".
ArchiveKept ==
  [][\A n \in Names : archive[n] # NoFile => archive'[n] = archive[n]]_vars

\* The same content is kept once, whatever the names it is announced by: "the
\* same content resumes under any name" (Session).
StoredOnce ==
  \A n, k \in Names : archive[n] # NoFile /\ archive[n] = archive[k] => n = k

\* An upload "survives a closed tab, a dropped connection or a restart" (package
\* upload): once restarts stop, whoever stays at one file is told that it is done,
\* wherever the last restart hit.
Survives ==
  <>[][~Restart]_vars =>
    \A n \in Names, a \in Announced :
      <<n, a>> \in open ~> <<n, a>> \in acked \/ <<n, a>> \notin open

\* The store as its callers see it.
Promised == INSTANCE Archives WITH
  acked <- {<<p[1], p[2].file>> : p \in {q \in acked : q[2].hash # NoFile}}

\* The store keeps its promise: archives appear whole and once, and are
\* acknowledged to the browser that sent them (Begin, Complete).
KeepsPromise == Promised!Spec
=============================================================================
