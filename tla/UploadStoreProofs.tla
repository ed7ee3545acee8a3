------------------------- MODULE UploadStoreProofs -------------------------
(***************************************************************************)
(* Proofs about UploadStore, for any names, files, requests and chunks: its *)
(* types and locks; without crashes, that the manifest and its hash follow  *)
(* the disk; and for one tab of a browser that announces hashes, that the   *)
(* store implements Archives and keeps a content once.                      *)
(***************************************************************************)
EXTENDS UploadStore, FiniteSetTheorems, SequenceTheorems, TLAPS

----------------------------------------------------------------------------
(* Chunks in a row *)

\* A set of numbers up to n has a greatest one: the sets of those at or above
\* each of its members have a smallest.
LEMMA MaxExists ==
  ASSUME NEW n \in Nat, NEW K \in SUBSET (0..n), K # {}
  PROVE  \E k \in K : \A j \in K : j <= k
  <1> DEFINE Above(k) == {j \in K : j >= k}
             T == {Above(k) : k \in K}
  <1>1. SUBSET (0..n) = FiniteSubsetsOf(0..n)
    <2>1. IsFiniteSet(0..n)
      BY FS_Interval
    <2> QED BY <2>1, FS_FiniteSubsetsOfFinite
  <1>2. IsWellFoundedOn(StrictSubsetOrdering(0..n), SUBSET (0..n))
    BY <1>1, FS_StrictSubsetOrderingWellFounded
  <1>3. T \subseteq SUBSET (0..n) /\ T # {}
    OBVIOUS
  <1>4. PICK A \in T : \A B \in T : <<B, A>> \notin StrictSubsetOrdering(0..n)
    BY <1>2, <1>3, WFMin
  <1>5. PICK k \in K : A = Above(k)
    OBVIOUS
  <1>6. ASSUME NEW j \in K, j > k PROVE FALSE
    <2>1. \A i \in K : i \in Int
      OBVIOUS
    <2>2. \A i \in K : i >= j => i >= k
      BY <1>6, <2>1
    <2>3. k >= k /\ ~(k >= j)
      BY <1>6, <2>1
    <2>4. Above(j) \subseteq Above(k) /\ k \in Above(k) /\ k \notin Above(j)
      BY <2>2, <2>3
    <2>5. <<Above(j), A>> \in StrictSubsetOrdering(0..n)
      BY <1>5, <2>4 DEF StrictSubsetOrdering
    <2> QED BY <1>4, <2>5
  <1> QED BY <1>6

\* What a hash can have consumed.
Absorbeds == UNION {[1..k -> Bytes \cup {Hole}] : k \in 0..MaxChunks}

\* It is a sequence of bytes.
LEMMA AbsorbedIs ==
  ASSUME NEW s \in Absorbeds
  PROVE  /\ Len(s) \in 0..MaxChunks /\ DOMAIN s = 1..Len(s)
         /\ \A i \in 1..Len(s) : s[i] \in Bytes \cup {Hole}
  <1>1. PICK k \in 0..MaxChunks : s \in [1..k -> Bytes \cup {Hole}]
    BY DEF Absorbeds
  <1>2. s \in Seq(Bytes \cup {Hole}) /\ k \in Nat /\ DOMAIN s = 1..k
    BY <1>1, SeqDef, FilesAssumption
  <1>3. Len(s) \in Nat /\ DOMAIN s = 1..Len(s)
    BY <1>2, LenProperties
  <1>4. Len(s) = k
    BY <1>2, <1>3
  <1> QED BY <1>1, <1>4

\* And a function of the chunks in a row is one.
LEMMA IsAbsorbed ==
  ASSUME NEW k \in 0..MaxChunks, NEW s \in [1..k -> Bytes \cup {Hole}]
  PROVE  s \in Absorbeds /\ Len(s) = k
  <1>1. s \in Absorbeds
    BY DEF Absorbeds
  <1>2. DOMAIN s = 1..k /\ DOMAIN s = 1..Len(s) /\ Len(s) \in 0..MaxChunks
    BY <1>1, AbsorbedIs
  <1> QED BY <1>1, <1>2

\* The hash is never past the file, and never past a chunk that is missing.
Fitting(m) ==
  /\ Len(m.absorbed) <= m.size
  /\ 1..Len(m.absorbed) \subseteq m.received
  /\ m.received \subseteq 1..m.size

\* The choice of Reach has a candidate.
LEMMA ReachIs ==
  ASSUME NEW m \in Manifests, Fitting(m)
  PROVE  /\ Reach(m) \in Len(m.absorbed)..m.size
         /\ Len(m.absorbed) + 1 .. Reach(m) \subseteq m.received
  <1>1. /\ m.absorbed \in Absorbeds /\ m.size \in Chunks /\ MaxChunks \in Nat
    BY FilesAssumption DEF Manifests, Absorbeds
  <1>2. Len(m.absorbed) \in Nat /\ m.size \in Nat /\ m.size <= MaxChunks
    BY <1>1, AbsorbedIs DEF Chunks
  <1> DEFINE l == Len(m.absorbed)
             K == {k \in 0..m.size : l <= k /\ l + 1 .. k \subseteq m.received}
  <1>3. l \in K
    BY <1>2 DEF Fitting
  <1>4. PICK k \in K : \A j \in K : j <= k
    <2> HIDE DEF K
    <2>1. K \in SUBSET (0..m.size) /\ K # {}
      BY <1>3 DEF K
    <2> QED BY <1>2, <2>1, MaxExists
  <1>5. k = m.size \/ k + 1 \notin m.received
    <2> SUFFICES ASSUME k # m.size, k + 1 \in m.received PROVE FALSE
      OBVIOUS
    <2>1. k + 1 \in 0..m.size /\ l <= k + 1
      BY <1>2
    <2>2. l + 1 .. k + 1 \subseteq m.received
      BY <1>2
    <2>3. k + 1 \in K
      BY <2>1, <2>2
    <2> QED BY <1>2, <1>4, <2>3
  <1>6. k \in l..m.size /\ l + 1 .. k \subseteq m.received
    BY <1>2
  <1> QED BY <1>5, <1>6 DEF Reach

\* The hash takes the chunks next in line from the disk, and nothing else moves.
LEMMA AbsorbIs ==
  ASSUME NEW m \in Manifests, Fitting(m), NEW d \in Datas
  PROVE  LET new == absorb(m, d) IN
         /\ new \in Manifests /\ Fitting(new)
         /\ new.hash = m.hash /\ new.size = m.size
         /\ new.received = m.received /\ new.stale = m.stale
         /\ Len(new.absorbed) >= Len(m.absorbed)
         /\ \A i \in 1..Len(new.absorbed) :
              new.absorbed[i] = IF i <= Len(m.absorbed) THEN m.absorbed[i] ELSE d[i]
  <1>1. m.absorbed \in Absorbeds /\ m.size \in 1..MaxChunks /\ MaxChunks \in Nat
    BY FilesAssumption DEF Manifests, Absorbeds, Chunks
  <1>2. /\ Len(m.absorbed) \in 0..MaxChunks
        /\ \A i \in 1..Len(m.absorbed) : m.absorbed[i] \in Bytes \cup {Hole}
    BY <1>1, AbsorbedIs
  <1>3. CASE m.hash = NoFile \/ m.stale
    BY <1>2, <1>3 DEF absorb
  <1>4. CASE ~(m.hash = NoFile \/ m.stale)
    <2> DEFINE a == [i \in 1..Reach(m) |-> IF i <= Len(m.absorbed) THEN m.absorbed[i] ELSE d[i]]
    <2>1. /\ Reach(m) \in Len(m.absorbed)..m.size
          /\ Len(m.absorbed) + 1 .. Reach(m) \subseteq m.received
      BY ReachIs
    <2>2. Reach(m) \in 0..MaxChunks
      BY <1>1, <1>2, <2>1
    <2>3. \A i \in 1..Reach(m) : d[i] \in Bytes \cup {Hole}
      BY <1>1, <2>2 DEF Datas, Chunks
    <2>4. a \in [1..Reach(m) -> Bytes \cup {Hole}]
      BY <1>2, <2>2, <2>3
    <2>5. a \in Absorbeds /\ Len(a) = Reach(m)
      BY <2>2, <2>4, IsAbsorbed
    <2>6. absorb(m, d) = [m EXCEPT !.absorbed = a]
      BY <1>4 DEF absorb
    <2> HIDE DEF a
    <2>7. [m EXCEPT !.absorbed = a] \in Manifests
      BY <2>5 DEF Manifests, Absorbeds
    <2>8. [m EXCEPT !.absorbed = a].absorbed = a
      BY DEF Manifests
    <2>9. 1..Reach(m) \subseteq m.received
      BY <1>2, <2>1 DEF Fitting
    <2>10. Fitting([m EXCEPT !.absorbed = a])
      BY <1>1, <2>1, <2>5, <2>8, <2>9 DEF Fitting, Manifests
    <2>11. LET new == [m EXCEPT !.absorbed = a] IN
             /\ new.hash = m.hash /\ new.size = m.size
             /\ new.received = m.received /\ new.stale = m.stale
      BY DEF Manifests
    <2>12. \A i \in 1..Reach(m) : a[i] = IF i <= Len(m.absorbed) THEN m.absorbed[i] ELSE d[i]
      BY DEF a
    <2>13. Reach(m) >= Len(m.absorbed)
      BY <1>1, <1>2, <2>1
    <2> QED BY <2>5, <2>6, <2>7, <2>8, <2>10, <2>11, <2>12, <2>13
  <1> QED BY <1>3, <1>4

\* There are chunks: a data file is never taken for none.
LEMMA DatasReal == NoData \notin Datas
  <1>1. 1 \in Chunks
    BY FilesAssumption DEF Chunks
  <1> QED BY <1>1 DEF NoData, Datas

\* A hash that has consumed nothing.
LEMMA NothingAbsorbed == <<>> \in Absorbeds /\ Len(<<>>) = 0
  <1>1. <<>> \in [1..0 -> Bytes \cup {Hole}]
    OBVIOUS
  <1>2. 0 \in 0..MaxChunks
    BY FilesAssumption
  <1>3. Len(<<>>) = 0
    BY EmptySeq
  <1> QED BY <1>1, <1>2, <1>3 DEF Absorbeds

\* A new session has nothing.
LEMMA FreshIs ==
  ASSUME NEW a \in Announcements
  PROVE  Fresh(a) \in Manifests /\ Fitting(Fresh(a)) /\ Fresh(a) # NoManifest
  <1>1. a.file \in Files /\ a.hash \in Files \cup {NoFile} /\ Len(a.file) \in Chunks
    BY FilesAssumption DEF Announcements, Chunks
  <1>2. Fresh(a) \in Manifests
    BY <1>1, NothingAbsorbed DEF Fresh, Manifests, Absorbeds
  <1>3. Fitting(Fresh(a))
    <2> DEFINE l == Len(<<>>)
    <2>1. l = 0 /\ Len(a.file) \in Nat
      BY <1>1, NothingAbsorbed, FilesAssumption DEF Chunks
    <2>2. l <= Len(a.file) /\ 1..l \subseteq {} /\ {} \subseteq 1..Len(a.file)
      BY <2>1
    <2> QED BY <2>2 DEF Fresh, Fitting
  <1>4. Fresh(a) # NoManifest
    BY DEF Fresh, NoManifest
  <1> QED BY <1>2, <1>3, <1>4

\* What stands for no session is no manifest.
LEMMA ManifestsReal == NoManifest \notin Manifests
  BY DEF Manifests, NoManifest

----------------------------------------------------------------------------
(* Requests and locks *)

\* A request that holds its session's lock.
LockedPCs == PCs \ {"open", "chunk"}

\* What a request relies on between two of its steps.
Order(t) ==
  LET n == task[t].name IN
  /\ task[t].pc \in LockedPCs => lock[n] = t
  /\ task[t].pc \in {"record", "recordStale", "place", "note", "discard", "reset"} => HasSession(n)
  /\ task[t].pc \in {"record", "recordStale", "place"} => data[n] # NoData
  /\ task[t].pc \in {"chunk", "record", "recordStale"} => task[t].index \in 1..Len(task[t].ann.file)
  /\ task[t].pc \in {"record", "recordStale"} => task[t].index <= manifest[n].size

SessionFits(n) == HasSession(n) => Fitting(manifest[n])

SentFits == \A s \in sent : s[3] \in 1..Len(s[2].file)

\* The inductive invariant of the types.
Sound ==
  /\ TypeOK /\ SentFits
  /\ \A t \in Tasks : Order(t)
  /\ \A n \in Names : SessionFits(n)

\* A request that is not idle has a name, an announcement and an index.
LEMMA Working ==
  ASSUME TypeOK, NEW t \in Tasks, task[t].pc # "idle"
  PROVE  /\ task[t] \in [pc : PCs, name : Names, ann : Announcements, index : Chunks \cup {0}]
         /\ task[t].pc \in PCs /\ task[t].name \in Names
         /\ task[t].ann \in Announcements /\ task[t].index \in Chunks \cup {0}
  <1>1. task[t] \in TaskStates
    BY DEF TypeOK
  <1>2. task[t] # Idle
    BY DEF Idle
  <1> QED BY <1>1, <1>2 DEF TaskStates

\* A request goes on: only where it is changes.
LEMMA GoIs ==
  ASSUME TypeOK, NEW t \in Tasks, task[t].pc # "idle", NEW p \in PCs, Go(t, p)
  PROVE  /\ task' \in [Tasks -> TaskStates]
         /\ \A s \in Tasks \ {t} : task'[s] = task[s]
         /\ task'[t].pc = p /\ task'[t].name = task[t].name
         /\ task'[t].ann = task[t].ann /\ task'[t].index = task[t].index
  <1>1. task[t] \in [pc : PCs, name : Names, ann : Announcements, index : Chunks \cup {0}]
    BY Working
  <1>2. task \in [Tasks -> TaskStates]
    BY DEF TypeOK
  <1>3. task' = [task EXCEPT ![t] = [task[t] EXCEPT !.pc = p]]
    BY DEF Go
  <1>4. [task[t] EXCEPT !.pc = p] \in [pc : PCs, name : Names, ann : Announcements, index : Chunks \cup {0}]
    BY <1>1
  <1>5. [task[t] EXCEPT !.pc = p] \in TaskStates
    BY <1>4 DEF TaskStates
  <1>6. task'[t] = [task[t] EXCEPT !.pc = p]
    BY <1>2, <1>3
  <1> QED BY <1>1, <1>2, <1>3, <1>5, <1>6

\* A request ends.
LEMMA EndIs ==
  ASSUME TypeOK, NEW t \in Tasks, End(t)
  PROVE  /\ task' \in [Tasks -> TaskStates]
         /\ \A s \in Tasks \ {t} : task'[s] = task[s]
         /\ task'[t] = Idle /\ task'[t].pc = "idle"
  BY DEF TypeOK, End, TaskStates, Idle

\* A request starts, with its own name, announcement and chunk.
LEMMA StartIs ==
  ASSUME TypeOK, NEW t \in Tasks, NEW p \in PCs, NEW n \in Names, NEW a \in Announcements,
         NEW i \in Chunks \cup {0}, Start(t, p, n, a, i)
  PROVE  /\ task' \in [Tasks -> TaskStates]
         /\ \A s \in Tasks \ {t} : task'[s] = task[s]
         /\ task'[t].pc = p /\ task'[t].name = n /\ task'[t].ann = a /\ task'[t].index = i
  <1>1. Request(p, n, a, i) \in TaskStates
    BY DEF Request, TaskStates
  <1> QED BY <1>1 DEF TypeOK, Start, Request

\* A step of request t at name n: what other requests stand on stays.
Near(t, n) ==
  /\ \A s \in Tasks \ {t} : task'[s] = task[s]
  /\ \A k \in Names \ {n} : manifest'[k] = manifest[k] /\ data'[k] = data[k] /\ lock'[k] = lock[k]
  /\ \/ lock[n] \in {NoTask, t}
     \/ manifest'[n] = manifest[n] /\ data'[n] = data[n] /\ lock'[n] = lock[n]

\* The lock keeps the others out.
LEMMA OthersKeep ==
  ASSUME Sound, NEW t \in Tasks, NEW n \in Names, Near(t, n), NEW s \in Tasks \ {t}
  PROVE  Order(s)'
  <1>1. task'[s] = task[s] /\ Order(s)
    BY DEF Near, Sound
  <1>2. CASE task[s].pc = "idle"
    BY <1>1, <1>2 DEF Order, LockedPCs, PCs
  <1>3. CASE task[s].pc # "idle"
    <2>1. task[s].name \in Names /\ task[s].pc \in PCs
      BY <1>3, Working DEF Sound
    <2>2. CASE task[s].pc \in LockedPCs
      <3>1. lock[task[s].name] = s /\ s # NoTask
        BY <1>1, <2>2, TasksAssumption DEF Order
      <3>2. LET k == task[s].name IN
              manifest'[k] = manifest[k] /\ data'[k] = data[k] /\ lock'[k] = lock[k]
        BY <2>1, <3>1 DEF Near
      <3> QED BY <1>1, <3>2 DEF Order, HasSession
    <2>3. CASE task[s].pc \in {"open", "chunk"}
      BY <1>1, <2>3 DEF Order, LockedPCs
    <2> QED BY <2>1, <2>2, <2>3 DEF LockedPCs
  <1> QED BY <1>2, <1>3

\* So a step has to keep what concerns its own request and session.
LEMMA SoundLocally ==
  ASSUME Sound, NEW t \in Tasks, NEW n \in Names, Near(t, n),
         TypeOK', SentFits', Order(t)', SessionFits(n)'
  PROVE  Sound'
  <1>1. ASSUME NEW s \in Tasks PROVE Order(s)'
    BY <1>1, OthersKeep
  <1>2. ASSUME NEW k \in Names PROVE SessionFits(k)'
    BY <1>2 DEF Sound, SessionFits, HasSession, Near
  <1> QED BY <1>1, <1>2 DEF Sound

\* Deleting a session in any order leaves the types.
LEMMA RemoveSomeIs ==
  ASSUME TypeOK, NEW n \in Names, RemoveSome(n)
  PROVE  /\ manifest' \in [Names -> Manifests \cup {NoManifest}]
         /\ data' \in [Names -> Datas \cup {NoData}]
         /\ \A k \in Names \ {n} : manifest'[k] = manifest[k] /\ data'[k] = data[k]
         /\ manifest'[n] \in {manifest[n], NoManifest} /\ data'[n] \in {data[n], NoData}
  BY DEF TypeOK, RemoveSome

\* A session is opened or found again.
LEMMA OpenSound ==
  ASSUME Sound, NEW t \in Tasks, OpenSession(t)
  PROVE  Sound'
  <1>1. TypeOK /\ task[t].pc = "open" /\ "open" \in PCs /\ "create" \in PCs
    BY DEF Sound, OpenSession, At, PCs
  <1>n. PICK n \in Names : n = task[t].name
    BY <1>1, Working
  <1> DEFINE a == task[t].ann
             m == manifest[n]
  <1>2. n = task[t].name /\ a \in Announcements /\ lock[n] = NoTask /\ t # NoTask
    BY <1>1, <1>n, Working, TasksAssumption DEF OpenSession, Free, Lock
  <1>3. SentFits'
    BY DEF OpenSession, Sound, SentFits
  <1>4. CASE HasSession(n) /\ Same(m, a) /\ Free(n)
               /\ WriteManifest(n, [m EXCEPT !.hash = IF @ = NoFile THEN a.hash ELSE @])
               /\ Answer(n, a) /\ End(t) /\ UNCHANGED data
    <2> DEFINE w == [m EXCEPT !.hash = IF @ = NoFile THEN a.hash ELSE @]
    <2>1. m \in Manifests /\ Fitting(m) /\ a.hash \in Files \cup {NoFile}
      BY <1>1, <1>2, <1>4 DEF TypeOK, HasSession, Sound, SessionFits, Announcements
    <2>2. w \in Manifests /\ Fitting(w)
      BY <2>1 DEF Manifests, Fitting
    <2> HIDE DEF w
    <2>3. /\ manifest' \in [Names -> Manifests \cup {NoManifest}] /\ manifest'[n] = w
          /\ \A k \in Names \ {n} : manifest'[k] = manifest[k]
      BY <1>1, <1>2, <1>4, <2>2 DEF TypeOK, WriteManifest, w
    <2>4. /\ task' \in [Tasks -> TaskStates] /\ task'[t].pc = "idle"
          /\ \A s \in Tasks \ {t} : task'[s] = task[s]
      BY <1>1, <1>4, EndIs
    <2>5. open' \subseteq Names \X Announcements
      BY <1>1, <1>2, <1>4 DEF TypeOK, Answer
    <2>6. TypeOK'
      BY <1>1, <1>4, <2>3, <2>4, <2>5 DEF OpenSession, TypeOK, Free
    <2>7. Near(t, n)
      BY <1>2, <1>4, <2>3, <2>4 DEF Near, Free
    <2>8. Order(t)' /\ SessionFits(n)'
      BY <2>2, <2>3, <2>4 DEF Order, LockedPCs, PCs, SessionFits
    <2> QED BY <1>2, <1>3, <2>6, <2>7, <2>8, SoundLocally
  <1>5. CASE HasSession(n) /\ ~Same(m, a) /\ Lock(t, n)
               /\ RemoveSome(n) /\ Go(t, "create") /\ UNCHANGED open
    <2>1. /\ manifest' \in [Names -> Manifests \cup {NoManifest}]
          /\ data' \in [Names -> Datas \cup {NoData}]
          /\ \A k \in Names \ {n} : manifest'[k] = manifest[k] /\ data'[k] = data[k]
          /\ manifest'[n] \in {manifest[n], NoManifest}
      BY <1>1, <1>2, <1>5, RemoveSomeIs
    <2>2. /\ task' \in [Tasks -> TaskStates] /\ task'[t].pc = "create" /\ task'[t].name = n
          /\ \A s \in Tasks \ {t} : task'[s] = task[s]
      BY <1>1, <1>2, <1>5, GoIs
    <2>3. /\ lock' \in [Names -> Tasks \cup {NoTask}] /\ lock'[n] = t
          /\ \A k \in Names \ {n} : lock'[k] = lock[k]
      BY <1>1, <1>2, <1>5 DEF TypeOK, Lock
    <2>4. TypeOK'
      BY <1>1, <1>5, <2>1, <2>2, <2>3 DEF OpenSession, TypeOK
    <2>5. Near(t, n)
      BY <1>2, <2>1, <2>2, <2>3 DEF Near
    <2>6. Order(t)'
      BY <2>2, <2>3 DEF Order
    <2>7. SessionFits(n)'
      BY <1>2, <2>1 DEF Sound, SessionFits, HasSession
    <2> QED BY <1>2, <1>3, <2>4, <2>5, <2>6, <2>7, SoundLocally
  <1>6. CASE ~HasSession(n) /\ Free(n) /\ WriteManifest(n, Fresh(a))
               /\ Answer(n, a) /\ End(t) /\ UNCHANGED data
    <2>1. Fresh(a) \in Manifests /\ Fitting(Fresh(a))
      BY <1>2, FreshIs
    <2>2. /\ manifest' \in [Names -> Manifests \cup {NoManifest}] /\ manifest'[n] = Fresh(a)
          /\ \A k \in Names \ {n} : manifest'[k] = manifest[k]
      BY <1>1, <1>2, <1>6, <2>1 DEF TypeOK, WriteManifest
    <2>3. /\ task' \in [Tasks -> TaskStates] /\ task'[t].pc = "idle"
          /\ \A s \in Tasks \ {t} : task'[s] = task[s]
      BY <1>1, <1>6, EndIs
    <2>4. open' \subseteq Names \X Announcements
      BY <1>1, <1>2, <1>6 DEF TypeOK, Answer
    <2>5. TypeOK'
      BY <1>1, <1>6, <2>2, <2>3, <2>4 DEF OpenSession, TypeOK, Free
    <2>6. Near(t, n)
      BY <1>2, <1>6, <2>2, <2>3 DEF Near, Free
    <2>7. Order(t)' /\ SessionFits(n)'
      BY <2>1, <2>2, <2>3 DEF Order, LockedPCs, PCs, SessionFits
    <2> QED BY <1>2, <1>3, <2>5, <2>6, <2>7, SoundLocally
  <1> QED BY <1>2, <1>4, <1>5, <1>6 DEF OpenSession

\* The last step of a request that holds the lock: m and d are left on the disk.
LEMMA LastStep ==
  ASSUME Sound, NEW t \in Tasks, NEW n \in Names, n = task[t].name, task[t].pc \in LockedPCs,
         End(t), Unlock(n),
         NEW m \in Manifests \cup {NoManifest}, m # NoManifest => Fitting(m), WriteManifest(n, m),
         NEW d \in Datas \cup {NoData}, data' = [data EXCEPT ![n] = d],
         open' \subseteq Names \X Announcements, acked' \subseteq Names \X Announcements,
         UNCHANGED <<archive, sumFile, sent>>
  PROVE  Sound'
  <1>1. TypeOK /\ lock[n] = t
    BY DEF Sound, Order
  <1>2. /\ task' \in [Tasks -> TaskStates] /\ task'[t].pc = "idle"
        /\ \A s \in Tasks \ {t} : task'[s] = task[s]
    BY <1>1, EndIs
  <1>3. /\ manifest' \in [Names -> Manifests \cup {NoManifest}] /\ manifest'[n] = m
        /\ data' \in [Names -> Datas \cup {NoData}]
        /\ lock' \in [Names -> Tasks \cup {NoTask}]
        /\ \A k \in Names \ {n} : manifest'[k] = manifest[k] /\ data'[k] = data[k] /\ lock'[k] = lock[k]
    BY <1>1 DEF TypeOK, WriteManifest, Unlock
  <1>4. TypeOK'
    BY <1>1, <1>2, <1>3 DEF TypeOK
  <1>5. SentFits'
    BY DEF Sound, SentFits
  <1>6. Near(t, n)
    BY <1>1, <1>2, <1>3 DEF Near
  <1>7. Order(t)'
    BY <1>2 DEF Order, LockedPCs, PCs
  <1>8. SessionFits(n)'
    BY <1>3 DEF SessionFits, HasSession
  <1> QED BY <1>4, <1>5, <1>6, <1>7, <1>8, SoundLocally

\* A step in between: the session and its lock stay, d and the archive change.
LEMMA MiddleStep ==
  ASSUME Sound, NEW t \in Tasks, NEW n \in Names, n = task[t].name, task[t].pc \in LockedPCs,
         NEW p \in {"reset", "note", "clean"}, Go(t, p), p # "clean" => HasSession(n),
         NEW d \in Datas \cup {NoData}, data' = [data EXCEPT ![n] = d],
         archive' \in [Names -> Archived \cup {NoFile}],
         sumFile' \in [Names -> Files \cup {NoFile}],
         UNCHANGED <<manifest, lock, open, sent, acked>>
  PROVE  Sound'
  <1>1. TypeOK /\ lock[n] = t /\ p \in PCs /\ task[t].pc # "idle"
    BY DEF Sound, Order, PCs, LockedPCs
  <1>2. /\ task' \in [Tasks -> TaskStates] /\ task'[t].pc = p /\ task'[t].name = n
        /\ \A s \in Tasks \ {t} : task'[s] = task[s]
    BY <1>1, GoIs
  <1>3. /\ data' \in [Names -> Datas \cup {NoData}]
        /\ \A k \in Names \ {n} : data'[k] = data[k]
    BY <1>1 DEF TypeOK
  <1>4. TypeOK'
    BY <1>1, <1>2, <1>3 DEF TypeOK
  <1>5. SentFits'
    BY DEF Sound, SentFits
  <1>6. Near(t, n)
    BY <1>1, <1>2, <1>3 DEF Near
  <1>7. Order(t)'
    BY <1>1, <1>2 DEF Order, LockedPCs, HasSession
  <1>8. SessionFits(n)'
    BY DEF Sound, SessionFits, HasSession
  <1> QED BY <1>4, <1>5, <1>6, <1>7, <1>8, SoundLocally

\* Replacing, recording, resetting, cleaning and the end of a deletion.
LEMMA LastSound ==
  ASSUME Sound, NEW t \in Tasks,
         \/ ReplaceSession(t) \/ RecordChunk(t) \/ ResetManifest(t) \/ Clean(t) \/ AbortRest(t)
  PROVE  Sound'
  <1>1. TypeOK /\ task[t].pc \in {"create", "record", "recordStale", "reset", "clean", "abort"}
    BY DEF Sound, ReplaceSession, RecordChunk, ResetManifest, Clean, AbortRest, At
  <1>2. task[t].pc \in LockedPCs /\ task[t].pc # "idle"
    BY <1>1 DEF LockedPCs, PCs
  <1>3. PICK n \in Names : n = task[t].name
    BY <1>1, <1>2, Working
  <1>4. /\ task[t].ann \in Announcements /\ data[n] \in Datas \cup {NoData}
        /\ open \subseteq Names \X Announcements /\ acked \subseteq Names \X Announcements
        /\ manifest[n] \in Manifests \cup {NoManifest} /\ data = [data EXCEPT ![n] = data[n]]
        /\ manifest = [manifest EXCEPT ![n] = manifest[n]] /\ SessionFits(n)
    BY <1>1, <1>2, Working DEF TypeOK, Sound
  <1>5. CASE ReplaceSession(t)
    <2>1. Fresh(task[t].ann) \in Manifests /\ Fitting(Fresh(task[t].ann))
      BY <1>4, FreshIs
    <2>2. open' \subseteq Names \X Announcements
      BY <1>3, <1>4, <1>5 DEF ReplaceSession, Answer
    <2> QED BY <1>2, <1>3, <1>4, <1>5, <2>1, <2>2, LastStep DEF ReplaceSession
  <1>6. CASE RecordChunk(t)
    <2> DEFINE m == Received(t)
               next == absorb(m, data[n])
    <2>1. /\ task[t].pc \in {"record", "recordStale"} /\ HasSession(n) /\ data[n] # NoData
          /\ task[t].index \in 1..Len(task[t].ann.file) /\ task[t].index <= manifest[n].size
      BY <1>3, <1>6 DEF RecordChunk, Sound, Order
    <2>2. manifest[n] \in Manifests /\ data[n] \in Datas /\ Fitting(manifest[n])
      BY <1>4, <2>1 DEF HasSession, SessionFits
    <2>3. manifest[n].size \in Nat /\ manifest[n].size <= MaxChunks
      BY <2>2, FilesAssumption DEF Manifests, Chunks
    <2>4. task[t].ann.file \in Files
      BY <1>4 DEF Announcements
    <2>5. task[t].index \in 1..manifest[n].size
      BY <2>1, <2>3, <2>4, FilesAssumption
    <2>6. task[t].index \in Chunks
      BY <2>3, <2>5, FilesAssumption DEF Chunks
    <2>7. m \in Manifests
      BY <1>3, <2>2, <2>6 DEF Received, Manifests
    <2>8. Fitting(m)
      BY <1>3, <2>2, <2>5 DEF Received, Manifests, Fitting
    <2>9. next \in Manifests /\ Fitting(next)
      BY <2>2, <2>7, <2>8, AbsorbIs
    <2>10. PICK w \in Manifests : Fitting(w) /\ WriteManifest(n, w)
      BY <1>3, <1>4, <1>6, <2>2, <2>9 DEF RecordChunk, WriteManifest
    <2>11. UNCHANGED <<data, archive, sumFile, open, sent, acked>> /\ Unlock(n) /\ End(t)
      BY <1>3, <1>6 DEF RecordChunk
    <2> QED BY <1>2, <1>3, <1>4, <2>10, <2>11, LastStep
  <1>7. CASE ResetManifest(t)
    <2> DEFINE w == [manifest[n] EXCEPT !.received = {}, !.absorbed = <<>>, !.stale = FALSE]
    <2>1. HasSession(n)
      BY <1>3, <1>7 DEF ResetManifest, At, Sound, Order
    <2>2. manifest[n] \in Manifests /\ manifest[n].size \in Nat
      BY <1>4, <2>1, FilesAssumption DEF HasSession, Manifests, Chunks
    <2>3. w \in Manifests
      BY <2>2, NothingAbsorbed DEF Manifests, Absorbeds
    <2>4. w.absorbed = <<>> /\ w.received = {} /\ w.size = manifest[n].size
      BY <2>2 DEF Manifests
    <2>5. Fitting(w)
      BY <2>2, <2>4, NothingAbsorbed DEF Fitting
    <2>6. /\ WriteManifest(n, w) /\ Unlock(n) /\ End(t)
          /\ UNCHANGED <<data, archive, sumFile, open, sent, acked>>
      BY <1>3, <1>7 DEF ResetManifest
    <2> HIDE DEF w
    <2> QED BY <1>2, <1>3, <1>4, <2>3, <2>5, <2>6, LastStep
  <1>8. CASE Clean(t) \/ AbortRest(t)
    <2>1. /\ data' = [data EXCEPT ![n] = NoData] /\ WriteManifest(n, NoManifest)
          /\ Unlock(n) /\ End(t) /\ UNCHANGED <<archive, sumFile, open, sent>>
      BY <1>3, <1>8 DEF Clean, AbortRest
    <2>2. acked' \subseteq Names \X Announcements
      BY <1>3, <1>4, <1>8 DEF Clean, AbortRest
    <2> QED BY <1>2, <1>3, <1>4, <2>1, <2>2, LastStep
  <1> QED BY <1>5, <1>6, <1>7, <1>8

\* A part of the data, as long as the session says.
LEMMA ContentIs ==
  ASSUME NEW d \in Datas, NEW k \in Chunks
  PROVE  Content(d, k) \in Archived
  <1>1. \A i \in 1..k : d[i] \in Bytes \cup {Hole}
    BY FilesAssumption DEF Datas, Chunks
  <1>2. Content(d, k) \in [1..k -> Bytes \cup {Hole}]
    BY <1>1 DEF Content
  <1> QED BY <1>2 DEF Archived

\* Discarding the data, moving it and noting its hash.
LEMMA MiddleSound ==
  ASSUME Sound, NEW t \in Tasks, DiscardData(t) \/ Place(t) \/ RecordHash(t)
  PROVE  Sound'
  <1>1. TypeOK /\ task[t].pc \in {"discard", "place", "note"}
    BY DEF Sound, DiscardData, Place, RecordHash, At
  <1>2. task[t].pc \in LockedPCs /\ task[t].pc # "idle"
    BY <1>1 DEF LockedPCs, PCs
  <1>3. PICK n \in Names : n = task[t].name
    BY <1>1, <1>2, Working
  <1>4. HasSession(n) /\ manifest[n] \in Manifests /\ data = [data EXCEPT ![n] = data[n]]
        /\ data[n] \in Datas \cup {NoData}
    BY <1>1, <1>3 DEF TypeOK, Sound, Order, HasSession
  <1>5. archive \in [Names -> Archived \cup {NoFile}] /\ sumFile \in [Names -> Files \cup {NoFile}]
    BY <1>1 DEF TypeOK
  <1>6. CASE DiscardData(t)
    BY <1>2, <1>3, <1>4, <1>5, <1>6, MiddleStep DEF DiscardData
  <1>7. CASE Place(t)
    <2>1. data[n] \in Datas /\ manifest[n].size \in Chunks
      BY <1>3, <1>4, <1>7 DEF Place, At, Sound, Order, Manifests
    <2>2. archive' \in [Names -> Archived \cup {NoFile}]
      BY <1>3, <1>5, <1>7, <2>1, ContentIs DEF Place
    <2>3. PICK p \in {"reset", "note", "clean"} : Go(t, p)
      BY <1>7 DEF Place
    <2> QED BY <1>2, <1>3, <1>4, <1>5, <1>7, <2>2, <2>3, MiddleStep DEF Place
  <1>8. CASE RecordHash(t)
    <2>1. manifest[n].hash \in Files \cup {NoFile}
      BY <1>4 DEF Manifests
    <2>2. sumFile' \in [Names -> Files \cup {NoFile}]
      BY <1>3, <1>5, <1>8, <2>1 DEF RecordHash
    <2> QED BY <1>2, <1>3, <1>4, <1>5, <1>8, <2>2, MiddleStep DEF RecordHash
  <1> QED BY <1>6, <1>7, <1>8

\* A chunk is written.
LEMMA StoreSound ==
  ASSUME Sound, NEW t \in Tasks, StoreChunk(t)
  PROVE  Sound'
  <1>1. TypeOK /\ task[t].pc = "chunk"
    BY DEF Sound, StoreChunk, At
  <1>2. PICK n \in Names : n = task[t].name
    BY <1>1, Working
  <1> DEFINE i == task[t].index
             byte == task[t].ann.file[i]
  <1>3. /\ task[t].ann.file \in Files /\ i \in 1..Len(task[t].ann.file)
        /\ data[n] \in Datas \cup {NoData} /\ manifest[n] \in Manifests \cup {NoManifest}
    BY <1>1, Working DEF Sound, Order, Announcements, TypeOK
  <1>4. byte \in Bytes /\ i \in Chunks
    BY <1>3, FilesAssumption, ElementOfSeq DEF Chunks
  <1>5. Opened(n) \in Datas
    BY <1>3 DEF Opened, Datas
  <1>6. [Opened(n) EXCEPT ![i] = byte] \in Datas /\ [Opened(n) EXCEPT ![i] = byte] # NoData
    <2>1. [Opened(n) EXCEPT ![i] = byte] \in Datas
      BY <1>4, <1>5 DEF Datas
    <2> QED BY <2>1, DatasReal
  <1>7. SentFits' /\ SessionFits(n)'
    BY DEF StoreChunk, Sound, SentFits, SessionFits, HasSession
  <1>8. CASE Free(n) /\ End(t) /\ \E d \in Datas \cup {NoData} : data' = [data EXCEPT ![n] = d]
    <2>1. /\ task' \in [Tasks -> TaskStates] /\ task'[t].pc = "idle"
          /\ \A s \in Tasks \ {t} : task'[s] = task[s]
      BY <1>1, <1>8, EndIs
    <2>2. /\ data' \in [Names -> Datas \cup {NoData}]
          /\ \A k \in Names \ {n} : data'[k] = data[k]
      BY <1>1, <1>8 DEF TypeOK
    <2>3. TypeOK'
      BY <1>1, <1>8, <2>1, <2>2 DEF TypeOK, StoreChunk, Free
    <2>4. Near(t, n)
      BY <1>8, <2>1, <2>2 DEF Near, StoreChunk, Free
    <2>5. Order(t)'
      BY <2>1 DEF Order, LockedPCs, PCs
    <2> QED BY <1>7, <2>3, <2>4, <2>5, SoundLocally
  <1>9. CASE /\ HasSession(n) /\ i <= manifest[n].size /\ Lock(t, n)
             /\ data' = [data EXCEPT ![n] = [Opened(n) EXCEPT ![i] = byte]]
             /\ Go(t, "record") \/ Go(t, "recordStale")
    <2>1. PICK p \in {"record", "recordStale"} : Go(t, p)
      BY <1>9
    <2>2. /\ task' \in [Tasks -> TaskStates] /\ task'[t].pc = p /\ task'[t].name = n
          /\ task'[t].ann = task[t].ann /\ task'[t].index = i
          /\ \A s \in Tasks \ {t} : task'[s] = task[s]
      BY <1>1, <1>2, <2>1, GoIs DEF PCs
    <2>3. /\ data' \in [Names -> Datas \cup {NoData}] /\ data'[n] # NoData
          /\ lock' \in [Names -> Tasks \cup {NoTask}] /\ lock'[n] = t /\ lock[n] = NoTask
          /\ \A k \in Names \ {n} : data'[k] = data[k] /\ lock'[k] = lock[k]
      BY <1>1, <1>6, <1>9 DEF TypeOK, Lock
    <2>4. TypeOK'
      BY <1>1, <2>2, <2>3 DEF TypeOK, StoreChunk
    <2>5. Near(t, n)
      BY <2>2, <2>3 DEF Near, StoreChunk
    <2>6. Order(t)'
      BY <1>3, <1>9, <2>2, <2>3 DEF Order, StoreChunk, HasSession
    <2> QED BY <1>7, <2>4, <2>5, <2>6, SoundLocally
  <1> QED
    <2>1. data = [data EXCEPT ![n] = data[n]]
      BY <1>1 DEF TypeOK
    <2>2. \/ /\ Free(n) /\ End(t)
             /\ data' = data \/ data' = [data EXCEPT ![n] = Opened(n)]
          \/ /\ HasSession(n) /\ i <= manifest[n].size /\ Lock(t, n)
             /\ data' = [data EXCEPT ![n] = [Opened(n) EXCEPT ![i] = byte]]
             /\ Go(t, "record") \/ Go(t, "recordStale")
      BY <1>2 DEF StoreChunk
    <2> QED BY <1>3, <1>5, <1>8, <1>9, <2>1, <2>2

\* Starting to announce, to send a chunk, to complete and to discard.
LEMMA FirstSound ==
  ASSUME Sound, NEW t \in Tasks, NEW a \in Announcements,
         \/ \E p \in Plain : Begin(t, p, a)
         \/ \E n \in Names :
              \/ \E i \in Chunks : WriteChunk(t, n, a, i)
              \/ CompleteAgain(t, n, a) \/ Complete(t, n, a) \/ Abort(t, n, a)
  PROVE  Sound'
  <1>1. TypeOK /\ task[t].pc = "idle" /\ t # NoTask
    BY TasksAssumption DEF Sound, Begin, WriteChunk, CompleteAgain, Complete, Abort, At
  <1>2. ASSUME NEW p \in Plain, Begin(t, p, a) PROVE Sound'
    <2> DEFINE n == [plain |-> p, tag |-> NoFile]
    <2>1. n \in Names /\ [n EXCEPT !.tag = a.hash] \in Names /\ "open" \in PCs
      BY DEF Names, Announcements, PCs
    <2>2. open' \subseteq Names \X Announcements
      <3>1. \A k \in findAssembled(a) \cup findSession(a) : k \in Names
        BY DEF findAssembled, findSession
      <3> QED BY <1>1, <1>2, <2>1, <3>1 DEF Begin, Answer, TypeOK
    <2>3. /\ task' \in [Tasks -> TaskStates] /\ task'[t].pc \in {"idle", "open"}
          /\ \A s \in Tasks \ {t} : task'[s] = task[s]
      <3>1. CASE UNCHANGED task
        BY <1>1, <3>1 DEF TypeOK
      <3>2. CASE \E k \in Names : Start(t, "open", k, a, 0)
        BY <1>1, <2>1, <3>2, StartIs
      <3> QED BY <1>2, <2>1, <3>1, <3>2 DEF Begin
    <2>4. TypeOK' /\ SentFits'
      BY <1>1, <1>2, <2>2, <2>3 DEF TypeOK, Begin, Sound, SentFits
    <2>5. Near(t, n)
      BY <1>2, <2>3 DEF Near, Begin
    <2>6. Order(t)'
      BY <2>3 DEF Order, LockedPCs, PCs
    <2>7. SessionFits(n)'
      BY <1>2, <2>1 DEF Begin, Sound, SessionFits, HasSession
    <2> HIDE DEF n
    <2> QED BY <2>1, <2>4, <2>5, <2>6, <2>7, SoundLocally
  <1>3. ASSUME NEW n \in Names, NEW i \in Chunks, WriteChunk(t, n, a, i) PROVE Sound'
    <2>1. i \in 1..Len(a.file)
      BY <1>3 DEF WriteChunk, Sends, Sound, SentFits
    <2>2. /\ task' \in [Tasks -> TaskStates] /\ \A s \in Tasks \ {t} : task'[s] = task[s]
          /\ task'[t].pc = "chunk" /\ task'[t].ann = a /\ task'[t].index = i
      BY <1>1, <1>3, StartIs DEF WriteChunk, PCs
    <2>3. TypeOK'
      BY <1>1, <1>3, <2>2 DEF TypeOK, WriteChunk
    <2>4. SentFits'
      BY <1>3, <2>1 DEF WriteChunk, Sound, SentFits
    <2>5. Near(t, n)
      BY <1>3, <2>2 DEF Near, WriteChunk
    <2>6. Order(t)'
      BY <2>1, <2>2 DEF Order, LockedPCs
    <2>7. SessionFits(n)'
      BY <1>3 DEF WriteChunk, Sound, SessionFits, HasSession
    <2> QED BY <2>3, <2>4, <2>5, <2>6, <2>7, SoundLocally
  <1>4. ASSUME NEW n \in Names, CompleteAgain(t, n, a) PROVE Sound'
    <2>1. TypeOK'
      BY <1>1, <1>4 DEF TypeOK, CompleteAgain, Free
    <2>2. SentFits' /\ SessionFits(n)' /\ Order(t)' /\ Near(t, n)
      BY <1>4 DEF CompleteAgain, Free, Sound, SentFits, SessionFits, HasSession, Order, Near
    <2> QED BY <2>1, <2>2, SoundLocally
  <1>5. ASSUME NEW n \in Names, Complete(t, n, a) PROVE Sound'
    <2>1. PICK p \in {"clean", "discard", "place"} :
            Start(t, p, n, a, 0) /\ (p = "place" => data[n] # NoData)
      BY <1>5 DEF Complete
    <2>2. /\ task' \in [Tasks -> TaskStates] /\ \A s \in Tasks \ {t} : task'[s] = task[s]
          /\ task'[t].pc = p /\ task'[t].name = n
      BY <1>1, <2>1, StartIs DEF PCs
    <2>3. /\ lock' \in [Names -> Tasks \cup {NoTask}] /\ lock'[n] = t /\ lock[n] = NoTask
          /\ \A k \in Names \ {n} : lock'[k] = lock[k]
      BY <1>1, <1>5 DEF TypeOK, Complete, Lock
    <2>4. TypeOK' /\ SentFits'
      BY <1>1, <1>5, <2>2, <2>3 DEF TypeOK, Complete, Sound, SentFits
    <2>5. Near(t, n)
      BY <1>5, <2>2, <2>3 DEF Near, Complete
    <2>6. Order(t)' /\ SessionFits(n)'
      BY <1>5, <2>1, <2>2, <2>3 DEF Order, Complete, Sound, SessionFits, HasSession
    <2> QED BY <2>4, <2>5, <2>6, SoundLocally
  <1>6. ASSUME NEW n \in Names, Abort(t, n, a) PROVE Sound'
    <2>1. /\ task' \in [Tasks -> TaskStates] /\ \A s \in Tasks \ {t} : task'[s] = task[s]
          /\ task'[t].pc = "abort" /\ task'[t].name = n
      BY <1>1, <1>6, StartIs DEF PCs, Abort
    <2>2. /\ manifest' \in [Names -> Manifests \cup {NoManifest}]
          /\ data' \in [Names -> Datas \cup {NoData}]
          /\ \A k \in Names \ {n} : manifest'[k] = manifest[k] /\ data'[k] = data[k]
          /\ manifest'[n] \in {manifest[n], NoManifest}
      BY <1>1, <1>6, RemoveSomeIs DEF Abort
    <2>3. /\ lock' \in [Names -> Tasks \cup {NoTask}] /\ lock'[n] = t /\ lock[n] = NoTask
          /\ \A k \in Names \ {n} : lock'[k] = lock[k]
      BY <1>1, <1>6 DEF TypeOK, Abort, Lock
    <2>4. TypeOK' /\ SentFits'
      BY <1>1, <1>6, <2>1, <2>2, <2>3 DEF TypeOK, Abort, Sound, SentFits
    <2>5. Near(t, n)
      BY <2>1, <2>2, <2>3 DEF Near
    <2>6. Order(t)' /\ SessionFits(n)'
      BY <2>1, <2>2, <2>3 DEF Order, Sound, SessionFits, HasSession
    <2> QED BY <2>4, <2>5, <2>6, SoundLocally
  <1> QED BY <1>2, <1>3, <1>4, <1>5, <1>6

\* Sound at first.
LEMMA SoundInit == Init => Sound
  <1> SUFFICES ASSUME Init PROVE Sound
    OBVIOUS
  <1>1. TypeOK
    BY DEF Init, TypeOK, TaskStates
  <1>2. \A t \in Tasks : Order(t)
    BY DEF Init, Idle, Order, LockedPCs, PCs
  <1>3. SentFits /\ \A n \in Names : SessionFits(n)
    BY DEF Init, SentFits, SessionFits, HasSession
  <1> QED BY <1>1, <1>2, <1>3 DEF Sound

\* Every step, a restart in the middle of any of them included.
LEMMA SoundStep == Sound /\ [Next]_vars => Sound'
  <1> SUFFICES ASSUME Sound, [Next]_vars PROVE Sound'
    OBVIOUS
  <1>1. ASSUME NEW t \in Tasks, Continue(t) PROVE Sound'
    BY <1>1, OpenSound, StoreSound, LastSound, MiddleSound DEF Continue
  <1>2. ASSUME NEW t \in Tasks, NEW p \in Plain, NEW a \in Announced, Begin(t, p, a) PROVE Sound'
    BY <1>2, FirstSound DEF Announced
  <1>3. ASSUME NEW t \in Tasks, NEW n \in Names, NEW a \in Announced,
               \/ \E i \in Chunks : WriteChunk(t, n, a, i)
               \/ CompleteAgain(t, n, a) \/ Complete(t, n, a) \/ Abort(t, n, a)
        PROVE  Sound'
    BY <1>3, FirstSound DEF Announced
  <1>4. CASE Restart
    <2>1. TypeOK' /\ SentFits' /\ \A n \in Names : SessionFits(n)'
      BY <1>4 DEF Restart, Sound, TypeOK, TaskStates, SentFits, SessionFits, HasSession
    <2>2. \A t \in Tasks : Order(t)'
      BY <1>4 DEF Restart, Idle, Order, LockedPCs, PCs
    <2> QED BY <2>1, <2>2 DEF Sound
  <1>5. CASE UNCHANGED vars
    BY <1>5 DEF vars, Sound, TypeOK, SentFits, Order, SessionFits, HasSession
  <1> QED BY <1>1, <1>2, <1>3, <1>4, <1>5 DEF Next

\* Files, locks and requests keep the shapes the code gives them, through every
\* interleaving of requests, deletions and restarts; in particular the running
\* hash never claims more than the chunks received in a row (absorb, Complete).
THEOREM UploadTyped == Spec => []TypeOK
  <1>1. Sound => TypeOK
    BY DEF Sound
  <1> QED BY <1>1, SoundInit, SoundStep, PTL DEF Spec

\* Every step of a request stays near it.
LEMMA ContinueNear ==
  ASSUME Sound, NEW t \in Tasks, NEW n \in Names, n = task[t].name, Continue(t)
  PROVE  Near(t, n)
  <1>1. TypeOK /\ Order(t)
    BY DEF Sound
  <1>2. \A s \in Tasks \ {t} : task'[s] = task[s]
    BY <1>1 DEF Continue, OpenSession, ReplaceSession, StoreChunk, RecordChunk, DiscardData,
                ResetManifest, Place, RecordHash, Clean, AbortRest, End, Go, TypeOK
  <1>3. \A k \in Names \ {n} : manifest'[k] = manifest[k] /\ data'[k] = data[k] /\ lock'[k] = lock[k]
    <2>1. CASE OpenSession(t)
      BY <1>1, <2>1, RemoveSomeIs DEF OpenSession, WriteManifest, Free, Lock, TypeOK
    <2>2. CASE StoreChunk(t)
      BY <1>1, <2>2 DEF StoreChunk, Free, Lock, TypeOK
    <2>3. CASE \/ ReplaceSession(t) \/ RecordChunk(t) \/ DiscardData(t) \/ ResetManifest(t)
               \/ Place(t) \/ RecordHash(t) \/ Clean(t) \/ AbortRest(t)
      BY <1>1, <2>3 DEF ReplaceSession, RecordChunk, DiscardData, ResetManifest, Place,
                        RecordHash, Clean, AbortRest, WriteManifest, Unlock, TypeOK
    <2> QED BY <2>1, <2>2, <2>3 DEF Continue
  <1>4. lock[n] \in {NoTask, t}
    <2>1. CASE OpenSession(t) \/ StoreChunk(t)
      BY <2>1 DEF OpenSession, StoreChunk, Free, Lock
    <2>2. CASE \/ ReplaceSession(t) \/ RecordChunk(t) \/ DiscardData(t) \/ ResetManifest(t)
               \/ Place(t) \/ RecordHash(t) \/ Clean(t) \/ AbortRest(t)
      BY <1>1, <2>2 DEF ReplaceSession, RecordChunk, DiscardData, ResetManifest, Place,
                        RecordHash, Clean, AbortRest, At, Order, LockedPCs, PCs
    <2> QED BY <2>1, <2>2 DEF Continue
  <1> QED BY <1>2, <1>3, <1>4 DEF Near

\* A request that starts concerns its own name.
LEMMA AskNear ==
  ASSUME TypeOK, NEW t \in Tasks, NEW n \in Names, NEW a \in Announcements,
         \/ \E i \in Chunks : WriteChunk(t, n, a, i)
         \/ CompleteAgain(t, n, a) \/ Complete(t, n, a) \/ Abort(t, n, a)
  PROVE  Near(t, n)
  <1>1. CASE \E i \in Chunks : WriteChunk(t, n, a, i)
    BY <1>1 DEF WriteChunk, Start, Near, TypeOK
  <1>2. CASE CompleteAgain(t, n, a)
    BY <1>2 DEF CompleteAgain, Free, Near
  <1>3. CASE Complete(t, n, a)
    BY <1>3 DEF Complete, Lock, Start, Near, TypeOK
  <1>4. CASE Abort(t, n, a)
    BY <1>4, RemoveSomeIs DEF Abort, Lock, Start, Near, TypeOK
  <1> QED BY <1>1, <1>2, <1>3, <1>4

\* And so does a plain one.
LEMMA BeginNear ==
  ASSUME TypeOK, NEW t \in Tasks, NEW n \in Names, NEW a \in Announcements,
         NEW p \in Plain, Begin(t, p, a)
  PROVE  Near(t, n)
  BY DEF Begin, Start, Near, TypeOK

----------------------------------------------------------------------------
(* Without crashes: the manifest and its hash follow the disk *)

\* A chunk that the manifest claims is on the disk.
Honest(n) ==
  HasSession(n) => \A i \in manifest[n].received : data[n] # NoData /\ data[n][i] # Hole

\* The hash has consumed what is on the disk, or is stale.
Follows(n) ==
  HasSession(n) /\ ~manifest[n].stale /\ data[n] # NoData =>
    \A i \in DOMAIN manifest[n].absorbed : manifest[n].absorbed[i] = data[n][i]

\* When nobody holds the lock.
AtRest(n) == lock[n] = NoTask => Honest(n) /\ Follows(n)

\* Between the chunk and its record the manifest lags, and never claims.
AtWork(t) ==
  LET n == task[t].name IN
  /\ task[t].pc \in {"record", "recordStale"} => Honest(n) /\ data[n][task[t].index] # Hole
  /\ task[t].pc = "record" => Follows(n)

\* The inductive invariant.
OnDisk ==
  /\ Sound
  /\ \A t \in Tasks : AtWork(t)
  /\ \A n \in Names : AtRest(n)

\* What a step does to one name and one request leaves the others as they were.
LEMMA OnDiskLocally ==
  ASSUME OnDisk, Sound', NEW t \in Tasks, NEW n \in Names, Near(t, n), AtWork(t)', AtRest(n)'
  PROVE  OnDisk'
  <1>1. ASSUME NEW s \in Tasks \ {t} PROVE AtWork(s)'
    <2>1. task'[s] = task[s] /\ AtWork(s) /\ Order(s) /\ TypeOK
      BY DEF Near, OnDisk, Sound
    <2>2. CASE task[s].pc \notin {"record", "recordStale"}
      BY <2>1, <2>2 DEF AtWork
    <2>3. CASE task[s].pc \in {"record", "recordStale"}
      <3>1. task[s].name \in Names /\ lock[task[s].name] = s /\ s # NoTask
        BY <2>1, <2>3, Working, TasksAssumption DEF Order, LockedPCs, PCs
      <3>2. LET k == task[s].name IN
              manifest'[k] = manifest[k] /\ data'[k] = data[k] /\ lock'[k] = lock[k]
        BY <3>1 DEF Near
      <3> QED BY <2>1, <2>3, <3>2 DEF AtWork, Honest, Follows, HasSession
    <2> QED BY <2>2, <2>3
  <1>2. ASSUME NEW k \in Names \ {n} PROVE AtRest(k)'
    <2>1. manifest'[k] = manifest[k] /\ data'[k] = data[k] /\ lock'[k] = lock[k] /\ AtRest(k)
      BY DEF Near, OnDisk
    <2> QED BY <2>1 DEF AtRest, Honest, Follows, HasSession
  <1> QED BY <1>1, <1>2 DEF OnDisk

\* A session without chunks is honest, and its hash follows.
LEMMA FreshFollows ==
  ASSUME NEW n \in Names, HasSession(n) => manifest[n].received = {} /\ manifest[n].absorbed = <<>>
  PROVE  Honest(n) /\ Follows(n)
  BY DEF Honest, Follows

\* The chunk gets to the disk before the manifest hears of it; one that changes
\* what the hash has consumed is remembered.
LEMMA StoreOnDisk ==
  ASSUME OnDisk, NEW t \in Tasks, StoreChunk(t), NEW n \in Names, n = task[t].name
  PROVE  AtWork(t)' /\ AtRest(n)'
  <1> DEFINE i == task[t].index
             m == manifest[n]
             byte == task[t].ann.file[i]
             changed == i \in m.received /\ Opened(n)[i] # byte
  <1>1. TypeOK /\ task[t].pc = "chunk" /\ t # NoTask
    BY TasksAssumption DEF OnDisk, Sound, StoreChunk, At
  <1>2. /\ task[t].ann.file \in Files /\ i \in 1..Len(task[t].ann.file)
        /\ data[n] \in Datas \cup {NoData} /\ m \in Manifests \cup {NoManifest}
    BY <1>1, Working DEF OnDisk, Sound, Order, Announcements, TypeOK
  <1>3. byte \in Bytes /\ byte # Hole /\ i \in Chunks
    BY <1>2, FilesAssumption, ElementOfSeq DEF Chunks
  <1>4. /\ lock[n] = NoTask /\ Honest(n) /\ Follows(n)
        /\ HasSession(n) => Fitting(m)
    BY <1>1 DEF StoreChunk, Free, Lock, OnDisk, AtRest, Sound, SessionFits
  <1>5. Opened(n) \in Datas /\ (data[n] # NoData => Opened(n) = data[n])
    BY <1>2 DEF Opened, Datas
  <1>6. HasSession(n) =>
          /\ \A j \in m.received : Opened(n)[j] # Hole
          /\ m.stale \/ \A j \in DOMAIN m.absorbed : m.absorbed[j] = Opened(n)[j]
    <2> SUFFICES ASSUME HasSession(n)
                 PROVE  /\ \A j \in m.received : Opened(n)[j] # Hole
                        /\ m.stale \/ \A j \in DOMAIN m.absorbed : m.absorbed[j] = Opened(n)[j]
      OBVIOUS
    <2>1. CASE data[n] # NoData
      BY <1>4, <1>5, <2>1 DEF Honest, Follows
    <2>2. CASE data[n] = NoData
      <3>1. m.received = {}
        BY <1>4, <2>2 DEF Honest
      <3>2. m.absorbed \in Absorbeds
        BY <1>2 DEF HasSession, Manifests, Absorbeds
      <3>3. DOMAIN m.absorbed = {}
        BY <1>4, <3>1, <3>2, AbsorbedIs DEF Fitting
      <3> QED BY <3>1, <3>3
    <2> QED BY <2>1, <2>2
  <1>7. UNCHANGED manifest
    BY DEF StoreChunk
  <1>8. CASE End(t) /\ data'[n] \in {data[n], Opened(n)}
    <2>1. task'[t].pc = "idle"
      BY <1>1, <1>8, EndIs
    <2>2. AtWork(t)'
      BY <2>1 DEF AtWork
    <2>3. Honest(n)' /\ Follows(n)'
      <3>1. CASE data'[n] = data[n]
        BY <1>4, <1>7, <3>1 DEF Honest, Follows, HasSession
      <3>2. CASE data'[n] = Opened(n)
        BY <1>5, <1>6, <1>7, <3>2, DatasReal DEF Honest, Follows, HasSession
      <3> QED BY <1>8, <3>1, <3>2
    <2> QED BY <2>2, <2>3 DEF AtRest
  <1>9. CASE /\ HasSession(n) /\ i <= m.size /\ Lock(t, n)
             /\ data' = [data EXCEPT ![n] = [Opened(n) EXCEPT ![i] = byte]]
             /\ Go(t, IF changed /\ i <= Len(m.absorbed) THEN "recordStale" ELSE "record")
    <2> DEFINE p == IF changed /\ i <= Len(m.absorbed) THEN "recordStale" ELSE "record"
    <2>1. p \in {"record", "recordStale"} /\ p \in PCs
      BY DEF PCs
    <2>2. task'[t].pc = p /\ task'[t].name = n /\ task'[t].index = i
      <3> HIDE DEF p
      <3>1. Go(t, p)
        BY <1>9 DEF p
      <3> QED BY <1>1, <2>1, <3>1, GoIs
    <2>3. data'[n] = [Opened(n) EXCEPT ![i] = byte] /\ lock'[n] = t
      BY <1>1, <1>9 DEF TypeOK, Lock
    <2>4. data'[n] \in Datas /\ data'[n] # NoData
      <3>1. data'[n] \in Datas
        BY <1>3, <1>5, <2>3 DEF Datas
      <3> QED BY <3>1, DatasReal
    <2>5. /\ data'[n][i] = byte
          /\ \A j \in Chunks \ {i} : data'[n][j] = Opened(n)[j]
      BY <1>3, <1>5, <2>3 DEF Datas
    <2>6. m \in Manifests /\ m.received \subseteq Chunks
      BY <1>2, <1>9 DEF HasSession, Manifests
    <2>7. Honest(n)'
      BY <1>3, <1>6, <1>7, <1>9, <2>4, <2>5, <2>6 DEF Honest, HasSession
    <2>8. ASSUME p = "record" PROVE Follows(n)'
      <3>1. /\ DOMAIN m.absorbed = 1..Len(m.absorbed) /\ DOMAIN m.absorbed \subseteq Chunks
            /\ DOMAIN m.absorbed \subseteq m.received
        BY <1>4, <1>9, <2>6, AbsorbedIs DEF Manifests, Absorbeds, Fitting
      <3>2. i \in DOMAIN m.absorbed => Opened(n)[i] = byte
        BY <2>8, <3>1
      <3> QED BY <1>6, <1>7, <1>9, <2>5, <3>1, <3>2 DEF Follows, HasSession
    <2> QED BY <1>1, <1>3, <2>1, <2>2, <2>3, <2>5, <2>7, <2>8 DEF AtWork, AtRest
  <1> QED
    <2>1. data' = data \/ data' = [data EXCEPT ![n] = Opened(n)] => data'[n] \in {data[n], Opened(n)}
      BY <1>1 DEF TypeOK
    <2>2. \/ End(t) /\ (data' = data \/ data' = [data EXCEPT ![n] = Opened(n)])
          \/ /\ HasSession(n) /\ i <= m.size /\ Lock(t, n)
             /\ data' = [data EXCEPT ![n] = [Opened(n) EXCEPT ![i] = byte]]
             /\ Go(t, IF changed /\ i <= Len(m.absorbed) THEN "recordStale" ELSE "record")
      BY DEF StoreChunk
    <2> QED BY <1>8, <1>9, <2>1, <2>2

\* The record claims the chunk just stored, and the hash goes on from what it has
\* consumed with what is on the disk.
LEMMA RecordOnDisk ==
  ASSUME OnDisk, Sound', NEW t \in Tasks, RecordChunk(t), NEW n \in Names, n = task[t].name
  PROVE  AtWork(t)' /\ AtRest(n)'
  <1> DEFINE i == task[t].index
             m == Received(t)
             next == absorb(m, data[n])
             lost == \E j \in Len(m.absorbed) + 1 .. Len(next.absorbed) : PastEnd(data[n], j)
  <1>1. /\ TypeOK /\ task[t].pc \in {"record", "recordStale"} /\ HasSession(n) /\ data[n] # NoData
        /\ i \in 1..Len(task[t].ann.file) /\ i <= manifest[n].size
    BY DEF OnDisk, Sound, Order, RecordChunk
  <1>2. /\ manifest[n] \in Manifests /\ data[n] \in Datas /\ Fitting(manifest[n])
        /\ task[t].ann.file \in Files
    BY <1>1, Working DEF TypeOK, HasSession, OnDisk, Sound, SessionFits, Announcements
  <1>3. /\ manifest[n].size \in Nat /\ manifest[n].size <= MaxChunks
        /\ i \in 1..manifest[n].size /\ i \in Chunks
    BY <1>1, <1>2, FilesAssumption DEF Manifests, Chunks
  <1>4. m \in Manifests /\ Fitting(m)
    BY <1>2, <1>3 DEF Received, Manifests, Fitting
  <1>5. /\ m.received = manifest[n].received \cup {i} /\ m.absorbed = manifest[n].absorbed
        /\ m.stale = (manifest[n].stale \/ task[t].pc = "recordStale")
    BY <1>2 DEF Received, Manifests, At
  <1>6. /\ Honest(n) /\ data[n][i] # Hole
        /\ task[t].pc = "record" => Follows(n)
    BY <1>1 DEF OnDisk, AtWork
  <1>7. /\ next \in Manifests /\ Fitting(next)
        /\ next.received = m.received /\ next.stale = m.stale
        /\ Len(next.absorbed) >= Len(m.absorbed)
        /\ \A j \in 1..Len(next.absorbed) :
             next.absorbed[j] = IF j <= Len(m.absorbed) THEN m.absorbed[j] ELSE data[n][j]
    <2> HIDE DEF m
    <2> QED BY SMTT(30), <1>2, <1>4, AbsorbIs
  <1>8. Len(m.absorbed) \in Nat /\ Len(next.absorbed) \in Nat
        /\ DOMAIN m.absorbed = 1..Len(m.absorbed) /\ DOMAIN next.absorbed = 1..Len(next.absorbed)
    <2>1. \A w \in Manifests : w.absorbed \in Absorbeds
      BY DEF Manifests, Absorbeds
    <2> HIDE DEF m, next
    <2> QED BY <1>4, <1>7, <2>1, AbsorbedIs
  <1>9. task'[t].pc = "idle" /\ AtWork(t)'
    BY <1>1, EndIs DEF RecordChunk, AtWork
  <1>10. UNCHANGED data /\ manifest'[n] = IF lost THEN manifest[n] ELSE next
    BY <1>1 DEF RecordChunk, TypeOK
  <1> HIDE DEF m, next
  <1>11. Honest(n)'
    BY <1>5, <1>6, <1>7, <1>10, <1>1 DEF Honest, HasSession
  <1>12. Follows(n)'
    <2>1. CASE lost
      <3>1. ~m.stale
        <4> SUFFICES ASSUME m.stale PROVE FALSE
          OBVIOUS
        <4>1. next = m
          BY DEF next, absorb
        <4> QED BY <1>8, <2>1, <4>1
      <3>2. Follows(n)
        BY <1>1, <1>5, <1>6, <3>1
      <3> QED BY <1>10, <2>1, <3>2 DEF Follows, HasSession
    <2>2. CASE ~lost
      <3>1. ASSUME ~next.stale, NEW j \in 1..Len(next.absorbed)
            PROVE  next.absorbed[j] = data[n][j]
        <4>1. Follows(n) /\ ~manifest[n].stale
          BY <1>1, <1>5, <1>6, <1>7, <3>1
        <4>2. j <= Len(m.absorbed) => m.absorbed[j] = data[n][j]
          BY <1>1, <1>5, <1>8, <4>1 DEF Follows
        <4> QED BY <1>7, <4>2
      <3> QED BY <1>8, <1>10, <2>2, <3>1 DEF Follows
    <2> QED BY <2>1, <2>2
  <1> QED BY <1>9, <1>11, <1>12 DEF AtRest

\* The other steps of a request leave the session locked, empty or gone.
LEMMA RestOnDisk ==
  ASSUME OnDisk, Sound', NEW t \in Tasks, NEW n \in Names, n = task[t].name,
         \/ OpenSession(t) \/ ReplaceSession(t) \/ DiscardData(t) \/ ResetManifest(t)
         \/ Place(t) \/ RecordHash(t) \/ Clean(t) \/ AbortRest(t)
  PROVE  AtWork(t)' /\ AtRest(n)'
  <1>1. TypeOK /\ Order(t) /\ t # NoTask
    BY TasksAssumption DEF OnDisk, Sound
  <1>2. task[t].pc # "idle"
    BY DEF OpenSession, ReplaceSession, DiscardData, ResetManifest, Place, RecordHash, Clean,
           AbortRest, At
  <1>3. task'[t].pc \notin {"record", "recordStale"}
    <2>1. CASE End(t)
      BY <1>1, <2>1, EndIs
    <2>2. CASE \E p \in {"create", "reset", "note", "clean"} : Go(t, p)
      BY <1>1, <1>2, <2>2, GoIs DEF PCs
    <2> QED BY <2>1, <2>2 DEF OpenSession, ReplaceSession, DiscardData, ResetManifest, Place,
                              RecordHash, Clean, AbortRest
  <1>4. AtWork(t)'
    BY <1>3 DEF AtWork
  <1>5. AtRest(n)'
    <2>1. CASE OpenSession(t)
      <3>1. lock[n] = NoTask /\ Honest(n) /\ Follows(n) /\ task[t].ann \in Announcements
        BY <1>1, <1>2, <2>1, Working DEF OpenSession, Free, Lock, OnDisk, AtRest
      <3>2. CASE Lock(t, n)
        BY <1>1, <3>2 DEF Lock, TypeOK, AtRest
      <3>3. CASE HasSession(n) /\ UNCHANGED data
                 /\ \E h \in Files \cup {NoFile} : WriteManifest(n, [manifest[n] EXCEPT !.hash = h])
        <4>1. manifest[n] \in Manifests
          BY <1>1, <3>3 DEF TypeOK, HasSession
        <4>2. PICK h \in Files \cup {NoFile} : manifest'[n] = [manifest[n] EXCEPT !.hash = h]
          BY <1>1, <3>3 DEF TypeOK, WriteManifest
        <4>3. /\ manifest'[n].received = manifest[n].received
              /\ manifest'[n].absorbed = manifest[n].absorbed
              /\ manifest'[n].stale = manifest[n].stale
          BY <4>1, <4>2 DEF Manifests
        <4> QED BY <3>1, <3>3, <4>3 DEF AtRest, Honest, Follows, HasSession
      <3>4. CASE WriteManifest(n, Fresh(task[t].ann))
        BY <1>1, <3>4, FreshFollows, FreshIs DEF TypeOK, WriteManifest, Fresh, AtRest, Honest,
                                                 Follows, HasSession
      <3>5. HasSession(n) => manifest[n].hash \in Files \cup {NoFile}
        BY <1>1 DEF TypeOK, HasSession, Manifests
      <3>6. task[t].ann.hash \in Files \cup {NoFile}
        BY <3>1 DEF Announcements
      <3> QED
        <4>1. \/ Lock(t, n)
              \/ /\ HasSession(n) /\ UNCHANGED data
                 /\ WriteManifest(n, [manifest[n] EXCEPT !.hash =
                                        IF @ = NoFile THEN task[t].ann.hash ELSE @])
              \/ WriteManifest(n, Fresh(task[t].ann))
          BY <2>1 DEF OpenSession
        <4>2. PICK h : h = IF manifest[n].hash = NoFile THEN task[t].ann.hash ELSE manifest[n].hash
          OBVIOUS
        <4>3. HasSession(n) => h \in Files \cup {NoFile}
          BY <3>5, <3>6, <4>2
        <4> QED BY <3>2, <3>3, <3>4, <4>1, <4>2, <4>3
    <2>2. CASE ReplaceSession(t)
      BY <1>1, <2>2 DEF ReplaceSession, TypeOK, WriteManifest, Fresh, AtRest, Honest, Follows,
                        HasSession
    <2>3. CASE DiscardData(t) \/ Place(t) \/ RecordHash(t)
      BY <1>1, <2>3 DEF DiscardData, Place, RecordHash, At, Order, LockedPCs, PCs, AtRest
    <2>4. CASE ResetManifest(t)
      <3>1. manifest[n] \in Manifests
        BY <1>1, <2>4 DEF ResetManifest, At, Order, HasSession, TypeOK
      <3>2. manifest'[n].received = {} /\ manifest'[n].absorbed = <<>>
        BY <1>1, <2>4, <3>1 DEF ResetManifest, WriteManifest, TypeOK, Manifests
      <3> QED BY <3>2 DEF AtRest, Honest, Follows
    <2>5. CASE Clean(t) \/ AbortRest(t)
      BY <1>1, <2>5 DEF Clean, AbortRest, WriteManifest, TypeOK, AtRest, Honest, Follows, HasSession
    <2> QED BY <2>1, <2>2, <2>3, <2>4, <2>5
  <1> QED BY <1>4, <1>5

\* A request that starts finds the disk as it was.
LEMMA AskOnDisk ==
  ASSUME OnDisk, NEW t \in Tasks, NEW n \in Names, NEW a \in Announcements,
         \/ \E p \in Plain : Begin(t, p, a)
         \/ \E i \in Chunks : WriteChunk(t, n, a, i)
         \/ CompleteAgain(t, n, a) \/ Complete(t, n, a) \/ Abort(t, n, a)
  PROVE  AtWork(t)' /\ AtRest(n)'
  <1>1. TypeOK /\ task[t].pc = "idle" /\ t # NoTask /\ AtRest(n)
    BY TasksAssumption DEF OnDisk, Sound, Begin, WriteChunk, CompleteAgain, Complete, Abort, At
  <1>2. task'[t].pc \notin {"record", "recordStale"}
    <2>1. CASE UNCHANGED task
      BY <1>1, <2>1
    <2>2. CASE \E p \in {"open", "chunk", "clean", "discard", "place", "abort"} :
                 \E k, i : Start(t, p, k, a, i)
      BY <1>1, <2>2 DEF Start, Request, TypeOK
    <2> QED BY <2>1, <2>2 DEF Begin, WriteChunk, CompleteAgain, Complete, Abort
  <1>3. AtRest(n)'
    <2>1. CASE Complete(t, n, a) \/ Abort(t, n, a)
      BY <1>1, <2>1 DEF Complete, Abort, Lock, TypeOK, AtRest
    <2>2. CASE \/ \E p \in Plain : Begin(t, p, a)
               \/ \E i \in Chunks : WriteChunk(t, n, a, i)
               \/ CompleteAgain(t, n, a)
      BY <1>1, <2>2 DEF Begin, WriteChunk, CompleteAgain, Free, AtRest, Honest, Follows, HasSession
    <2> QED BY <2>1, <2>2
  <1> QED BY <1>2, <1>3 DEF AtWork

\* At first there is nothing on the disk.
LEMMA OnDiskInit == Init => OnDisk
  <1> SUFFICES ASSUME Init PROVE OnDisk
    OBVIOUS
  <1>1. \A t \in Tasks : AtWork(t)
    BY DEF Init, Idle, AtWork
  <1>2. \A n \in Names : AtRest(n)
    BY DEF Init, AtRest, Honest, Follows, HasSession
  <1> QED BY <1>1, <1>2, SoundInit DEF OnDisk

\* Every step but a crash keeps it.
LEMMA OnDiskStep ==
  ASSUME "crash" \notin Events
  PROVE  OnDisk /\ [Next]_vars => OnDisk'
  <1> SUFFICES ASSUME OnDisk, [Next]_vars PROVE OnDisk'
    OBVIOUS
  <1>1. Sound /\ Sound' /\ TypeOK
    BY SoundStep DEF OnDisk, Sound
  <1>2. ASSUME NEW t \in Tasks, Continue(t) PROVE OnDisk'
    <2>1. task[t].pc # "idle"
      BY <1>2 DEF Continue, OpenSession, ReplaceSession, StoreChunk, RecordChunk, DiscardData,
                  ResetManifest, Place, RecordHash, Clean, AbortRest, At
    <2>2. PICK n \in Names : n = task[t].name
      BY <1>1, <2>1, Working
    <2>3. AtWork(t)' /\ AtRest(n)'
      BY <1>1, <1>2, <2>2, StoreOnDisk, RecordOnDisk, RestOnDisk DEF Continue
    <2> QED BY <1>1, <1>2, <2>2, <2>3, ContinueNear, OnDiskLocally
  <1>3. ASSUME NEW t \in Tasks, NEW p \in Plain, NEW a \in Announced, Begin(t, p, a) PROVE OnDisk'
    <2>1. a \in Announcements
      BY DEF Announced
    <2>2. [plain |-> p, tag |-> NoFile] \in Names
      BY DEF Names
    <2>3. PICK n \in Names : TRUE
      BY <2>2
    <2> QED BY <1>1, <1>3, <2>1, <2>3, BeginNear, AskOnDisk, OnDiskLocally
  <1>4. ASSUME NEW t \in Tasks, NEW n \in Names, NEW a \in Announced,
               \/ \E i \in Chunks : WriteChunk(t, n, a, i)
               \/ CompleteAgain(t, n, a) \/ Complete(t, n, a) \/ Abort(t, n, a)
        PROVE  OnDisk'
    <2>1. a \in Announcements
      BY DEF Announced
    <2> QED BY <1>1, <1>4, <2>1, AskNear, AskOnDisk, OnDiskLocally
  <1>5. CASE Restart
    BY <1>5 DEF Restart, Crash
  <1>6. CASE UNCHANGED vars
    BY <1>1, <1>6 DEF vars, OnDisk, AtWork, AtRest, Honest, Follows, HasSession
  <1> QED BY <1>2, <1>3, <1>4, <1>5, <1>6 DEF Next

\* Without crashes the manifest never claims a chunk that the disk does not hold
\* when nobody works on the session (WriteChunk): with several tabs, late chunks,
\* replaced, discarded and deleted sessions.
THEOREM UploadHonest ==
  ASSUME "crash" \notin Events
  PROVE  Spec => []ManifestHonest
  <1>1. OnDisk => ManifestHonest
    BY DEF OnDisk, AtRest, Honest, ManifestHonest
  <1>2. Init => OnDisk
    BY OnDiskInit
  <1>3. OnDisk /\ [Next]_vars => OnDisk'
    BY OnDiskStep
  <1> QED BY <1>1, <1>2, <1>3, PTL DEF Spec

\* Nor does a running hash stand for bytes that are not on the disk, unless it
\* says that it is stale: what Complete compares is what the archive will hold.
THEOREM UploadHashFollows ==
  ASSUME "crash" \notin Events
  PROVE  Spec => []HashFollowsData
  <1>1. OnDisk => HashFollowsData
    BY DEF OnDisk, AtRest, Follows, HashFollowsData
  <1>2. Init => OnDisk
    BY OnDiskInit
  <1>3. OnDisk /\ [Next]_vars => OnDisk'
    BY OnDiskStep
  <1> QED BY <1>1, <1>2, <1>3, PTL DEF Spec

----------------------------------------------------------------------------
(* One tab that announces hashes: each content at one name *)

\* A request for which a tab waits; chunks it gave up on do not count.
Asking(t) == task[t].pc \notin {"idle", "chunk", "record", "recordStale"}
OneAsker == \A s, t \in Tasks : Asking(s) /\ Asking(t) => s = t

Hashed(a) == a.hash = a.file

\* Name n is, or is about to be, the place of content f.
Meant(n, f) ==
  \/ HasSession(n) /\ manifest[n].hash = f
  \/ archive[n] = f
  \/ \E t \in Tasks : /\ task[t].pc \in {"open", "create"}
                      /\ task[t].name = n /\ task[t].ann.file = f

\* A name with a hash in front is for that content, and each content has one name.
NamedRight == \A n \in Names, f \in Files : Meant(n, f) => n.tag \in {NoFile, f}
Once == \A n, k \in Names, f \in Files : Meant(n, f) /\ Meant(k, f) => n = k

SessionHashed(n) ==
  HasSession(n) => manifest[n].hash # NoFile /\ manifest[n].size = Len(manifest[n].hash)

\* An archive is a file, whose hash is noted and whose session is gone but while
\* the request that moved it is on its way.
Landed(n) ==
  archive[n] # NoFile =>
    /\ archive[n] \in Files
    /\ HasSession(n) => \E t \in Tasks : task[t].pc \in {"note", "clean"} /\ task[t].name = n
    /\ sumFile[n] = archive[n] \/ \E t \in Tasks : task[t].pc = "note" /\ task[t].name = n

SumLater(n) == sumFile[n] # NoFile => archive[n] # NoFile

\* What a tab's request relies on: the place is free until its own file is in it.
Asks(t) ==
  LET n == task[t].name
      a == task[t].ann IN
  /\ Asking(t) => Hashed(a)
  /\ task[t].pc \in {"open", "create", "place", "discard", "reset", "abort"} => archive[n] = NoFile
  /\ task[t].pc \in {"place", "note", "clean", "discard", "reset", "abort"} => <<n, a>> \in open
  /\ task[t].pc = "place" => Content(data[n], manifest[n].size) = a.file
  /\ task[t].pc \in {"note", "clean"} => archive[n] = a.file

\* A tab is at the name of its file.
OpenRight ==
  \A p \in open : /\ Hashed(p[2])
                  /\ archive[p[1]] \in {NoFile, p[2].file}
                  /\ HasSession(p[1]) => manifest[p[1]].hash = p[2].file

Kept ==
  /\ OneAsker /\ NamedRight /\ Once /\ OpenRight
  /\ \A n \in Names : SessionHashed(n) /\ Landed(n) /\ SumLater(n)
  /\ \A t \in Tasks : Asks(t)

\* A late chunk changes neither names nor contents, only what a session holds.
LEMMA ChunkKept ==
  ASSUME Sound, Kept, NEW t \in Tasks, NEW n \in Names, Near(t, n),
         ~Asking(t), ~Asking(t)', UNCHANGED <<archive, sumFile, open>>,
         HasSession(n)' <=> HasSession(n),
         HasSession(n) => manifest'[n].hash = manifest[n].hash /\ manifest'[n].size = manifest[n].size
  PROVE  Kept'
  <1>1. \A k \in Names : /\ HasSession(k)' <=> HasSession(k)
                         /\ HasSession(k) => /\ manifest'[k].hash = manifest[k].hash
                                             /\ manifest'[k].size = manifest[k].size
    BY DEF Near, HasSession
  <1>2. \A s \in Tasks : \/ task'[s] = task[s]
                         \/ ~Asking(s) /\ ~Asking(s)'
    BY DEF Near
  <1>3. \A k \in Names : \A f : Meant(k, f)' <=> Meant(k, f)
    BY <1>1, <1>2 DEF Meant, Asking
  <1>4. OneAsker' /\ NamedRight' /\ Once'
    BY <1>2, <1>3 DEF Kept, OneAsker, NamedRight, Once, Asking
  <1>5. OpenRight'
    <2>1. \A p \in open : p[1] \in Names
      BY DEF Sound, TypeOK
    <2> QED BY <1>1, <2>1 DEF Kept, OpenRight
  <1>6. \A k \in Names : SessionHashed(k)' /\ Landed(k)' /\ SumLater(k)'
    BY <1>1, <1>2 DEF Kept, SessionHashed, Landed, SumLater, Asking
  <1>7. ASSUME NEW s \in Tasks PROVE Asks(s)'
    <2>1. CASE ~Asking(s)'
      BY <2>1 DEF Asks, Asking
    <2>2. CASE Asking(s)'
      <3>1. task'[s] = task[s] /\ Asks(s) /\ s # t /\ Order(s)
        BY <1>2, <2>2 DEF Kept, Sound
      <3>2. task[s].pc = "place" =>
              LET k == task[s].name IN data'[k] = data[k] /\ manifest'[k] = manifest[k]
        <4> SUFFICES ASSUME task[s].pc = "place"
                     PROVE  LET k == task[s].name IN data'[k] = data[k] /\ manifest'[k] = manifest[k]
          OBVIOUS
        <4>1. task[s].name \in Names /\ lock[task[s].name] = s /\ s # NoTask
          BY <3>1, Working, TasksAssumption DEF Sound, Order, LockedPCs, PCs
        <4> QED BY <3>1, <4>1 DEF Near
      <3> QED BY <3>1, <3>2 DEF Asks, Asking
    <2> QED BY <2>1, <2>2
  <1> QED BY <1>4, <1>5, <1>6, <1>7 DEF Kept

\* A step of the tab's own request, about announcement a at name n: nobody else
\* asks, so what it keeps of its name and of itself is all there is to keep.
LEMMA AskerKept ==
  ASSUME Kept, NEW t \in Tasks, NEW n \in Names, NEW a,
         \A s \in Tasks \ {t} : task'[s] = task[s] /\ ~Asking(s),
         \A k \in Names \ {n} : /\ manifest'[k] = manifest[k]
                                /\ archive'[k] = archive[k] /\ sumFile'[k] = sumFile[k],
         task[t].pc \in {"note", "clean"} => task[t].name = n,
         task'[t].pc \in {"open", "create"} => task'[t].name = n,
         \A f \in Files : Meant(n, f)' =>
           \/ Meant(n, f)
           \/ f = a /\ n.tag \in {NoFile, a} /\ \A k \in Names : ~Meant(k, a),
         SessionHashed(n)', Landed(n)', SumLater(n)', Asks(t)', OpenRight'
  PROVE  Kept'
  <1>1. \A s \in Tasks \ {t} : ~Asking(s)'
    BY DEF Asking
  <1>2. OneAsker'
    BY <1>1 DEF OneAsker
  <1>3. \A k \in Names \ {n}, f \in Files : Meant(k, f)' => Meant(k, f)
    BY <1>1 DEF Meant, HasSession, Asking
  <1>4. NamedRight'
    BY <1>3 DEF Kept, NamedRight
  <1>5. Once'
    BY <1>3 DEF Kept, Once
  <1>6. ASSUME NEW k \in Names \ {n} PROVE SessionHashed(k)' /\ Landed(k)' /\ SumLater(k)'
    <2>1. SessionHashed(k) /\ Landed(k) /\ SumLater(k)
      BY DEF Kept
    <2>2. /\ manifest'[k] = manifest[k] /\ archive'[k] = archive[k] /\ sumFile'[k] = sumFile[k]
      OBVIOUS
    <2>3. ~ \E s \in Tasks : task[s].pc \in {"note", "clean"} /\ task[s].name = k
      BY DEF Asking
    <2> QED BY <2>1, <2>2, <2>3 DEF SessionHashed, Landed, SumLater, HasSession
  <1>7. \A s \in Tasks \ {t} : Asks(s)'
    BY <1>1 DEF Asks, Asking
  <1> QED BY <1>2, <1>4, <1>5, <1>6, <1>7 DEF Kept

\* While one request asks, nobody else does.
LEMMA Alone ==
  ASSUME Kept, NEW t \in Tasks, Asking(t)
  PROVE  \A s \in Tasks \ {t} : ~Asking(s)
  BY DEF Kept, OneAsker

\* What browsers announce here comes with its hash.
LEMMA AnnouncedHashed ==
  ASSUME "unhashed" \notin Events, NEW a \in Announced
  PROVE  a \in Announcements /\ Hashed(a) /\ a.file \in Files /\ a.hash # NoFile
  BY FilesAssumption DEF Announced, Announcements, Hashed

\* When nobody asks, every archive has its hash noted, and no session.
LEMMA AtPeace ==
  ASSUME Sound, Kept, "overlap" \notin Events, MayAsk
  PROVE  /\ \A s \in Tasks : ~Asking(s)
         /\ \A k \in Names : archive[k] # NoFile =>
              archive[k] \in Files /\ ~HasSession(k) /\ sumFile[k] = archive[k]
  <1>1. \A s \in Tasks : ~Asking(s)
    BY DEF MayAsk, Overlap, Asking
  <1> QED BY <1>1 DEF Kept, Landed, Asking

\* Under the lock the session is resumed, replaced or created for the same file.
LEMMA OpenKept ==
  ASSUME Sound, Kept, "overlap" \notin Events, NEW t \in Tasks,
         OpenSession(t) \/ ReplaceSession(t)
  PROVE  Kept'
  <1>1. TypeOK /\ task[t].pc \in {"open", "create"} /\ Asking(t)
    BY DEF Sound, OpenSession, ReplaceSession, At, Asking
  <1>2. PICK n \in Names, a \in Announcements : n = task[t].name /\ a = task[t].ann
    BY <1>1, Working
  <1>3. /\ Hashed(a) /\ archive[n] = NoFile /\ Meant(n, a.file) /\ SessionHashed(n) /\ SumLater(n)
        /\ \A s \in Tasks \ {t} : ~Asking(s)
    BY <1>1, <1>2, Alone DEF Kept, Asks, Meant
  <1>4. /\ a.file \in Files /\ a.file # NoFile
        /\ UNCHANGED <<archive, sumFile>>
        /\ \A k \in Names \ {n} : manifest'[k] = manifest[k]
    BY <1>1, <1>2, FilesAssumption, RemoveSomeIs DEF Announcements, OpenSession, ReplaceSession,
                   WriteManifest, TypeOK
  <1>5. CASE /\ End(t) /\ Answer(n, a) /\ HasSession(n)'
             /\ manifest'[n].hash = a.file /\ manifest'[n].size = Len(a.file)
    <2>1. /\ task'[t].pc = "idle" /\ \A s \in Tasks \ {t} : task'[s] = task[s]
      BY <1>1, <1>5, EndIs
    <2>2. open' = {<<n, a>>}
      BY <1>5 DEF Answer, Overlap
    <2>3. SessionHashed(n)' /\ Landed(n)' /\ SumLater(n)' /\ Asks(t)' /\ OpenRight'
      BY <1>3, <1>4, <1>5, <2>1, <2>2 DEF SessionHashed, Landed, SumLater, Asks, Asking, OpenRight
    <2>4. \A f \in Files : Meant(n, f)' => Meant(n, f)
      <3>1. \A s \in Tasks : task'[s].pc \notin {"open", "create"}
        BY <1>3, <2>1 DEF Asking
      <3> QED BY <1>3, <1>4, <1>5, <3>1, FilesAssumption DEF Meant
    <2> QED BY <1>1, <1>3, <1>4, <2>1, <2>3, <2>4, AskerKept
  <1>6. CASE RemoveSome(n) /\ Go(t, "create") /\ UNCHANGED open
    <2>1. /\ task'[t].pc = "create" /\ task'[t].name = n /\ task'[t].ann = a
          /\ \A s \in Tasks \ {t} : task'[s] = task[s]
      BY <1>1, <1>2, <1>6, GoIs DEF PCs
    <2>2. manifest'[n] \in {manifest[n], NoManifest}
      BY <1>1, <1>6, RemoveSomeIs
    <2>3. SessionHashed(n)' /\ Landed(n)' /\ SumLater(n)' /\ Asks(t)'
      BY <1>3, <1>4, <2>1, <2>2 DEF SessionHashed, Landed, SumLater, Asks, Asking, HasSession
    <2>4. OpenRight'
      BY <1>4, <1>6, <2>2 DEF Kept, OpenRight, HasSession, Sound, TypeOK
    <2>5. \A f \in Files : Meant(n, f)' => Meant(n, f)
      BY <1>1, <1>2, <1>3, <1>4, <2>1, <2>2 DEF Meant, Asking, HasSession
    <2> QED BY <1>1, <1>3, <1>4, <2>1, <2>3, <2>4, <2>5, AskerKept
  <1> QED
    <2>1. CASE \/ ReplaceSession(t)
               \/ ~HasSession(n) /\ WriteManifest(n, Fresh(a)) /\ Answer(n, a) /\ End(t)
      <3>1. manifest'[n] = Fresh(a) /\ End(t) /\ Answer(n, a)
        BY <1>1, <1>2, <2>1 DEF ReplaceSession, WriteManifest, TypeOK
      <3>2. /\ HasSession(n)'
            /\ manifest'[n].hash = a.file /\ manifest'[n].size = Len(a.file)
        BY <1>3, <3>1, FreshIs DEF HasSession, Fresh, Hashed
      <3> QED BY <1>5, <3>1, <3>2
    <2>2. CASE /\ HasSession(n) /\ Same(manifest[n], a) /\ Answer(n, a) /\ End(t)
               /\ WriteManifest(n, [manifest[n] EXCEPT !.hash = IF @ = NoFile THEN a.hash ELSE @])
      <3>1. manifest[n] \in Manifests
        BY <1>1, <2>2 DEF TypeOK, HasSession
      <3>2. manifest[n].hash = a.file /\ manifest[n].size = Len(a.file)
        BY <1>3, <1>4, <2>2 DEF Same, SessionHashed, Hashed
      <3>3. manifest'[n] = [manifest[n] EXCEPT !.hash = a.file]
        BY <1>1, <1>4, <2>2, <3>1, <3>2 DEF WriteManifest, TypeOK
      <3>4. manifest'[n].hash = a.file /\ manifest'[n].size = Len(a.file) /\ manifest'[n] \in Manifests
        BY <1>4, <3>1, <3>2, <3>3 DEF Manifests
      <3> QED BY <1>5, <2>2, <3>4, ManifestsReal DEF HasSession
    <2> QED BY <1>2, <1>6, <2>1, <2>2 DEF OpenSession

\* A tab is sent to the place its content has; to a new one only if it has none.
LEMMA BeginKept ==
  ASSUME Sound, Kept, "overlap" \notin Events, "unhashed" \notin Events,
         NEW t \in Tasks, NEW p \in Plain, NEW a \in Announced, Begin(t, p, a)
  PROVE  Kept'
  <1> DEFINE first == [plain |-> p, tag |-> NoFile]
             taken == archive[first] # NoFile
             name == IF taken THEN [first EXCEPT !.tag = a.hash] ELSE first
  <1>1. TypeOK /\ MayAsk /\ task[t].pc = "idle" /\ first \in Names
        /\ UNCHANGED <<manifest, data, archive, sumFile>>
    BY DEF Sound, Begin, At, Names
  <1>2. a \in Announcements /\ Hashed(a) /\ a.file \in Files /\ a.hash = a.file /\ a.file # NoFile
    BY AnnouncedHashed DEF Hashed
  <1>3. /\ \A s \in Tasks : ~Asking(s)
        /\ \A k \in Names : archive[k] # NoFile =>
             archive[k] \in Files /\ ~HasSession(k) /\ sumFile[k] = archive[k]
        /\ \A k \in Names : SessionHashed(k) /\ SumLater(k)
    BY <1>1, AtPeace DEF Kept
  <1>4. \A k \in findAssembled(a) : k \in Names /\ archive[k] = a.file /\ ~HasSession(k)
    BY <1>2, <1>3 DEF findAssembled
  <1>5. \A k \in findSession(a) : k \in Names /\ archive[k] = NoFile
                                  /\ HasSession(k) /\ manifest[k].hash = a.file
    BY <1>2, <1>3 DEF findSession
  <1>6. CASE /\ UNCHANGED task
             /\ \E k \in Names : /\ Answer(k, a) /\ archive[k] \in {NoFile, a.file}
                                 /\ HasSession(k) => manifest[k].hash = a.file
    <2>1. OpenRight'
      BY <1>1, <1>2, <1>6 DEF OpenRight, Answer, Overlap, HasSession
    <2>2. \A k \in Names : \A f : Meant(k, f)' => Meant(k, f)
      BY <1>1, <1>6 DEF Meant, HasSession
    <2>3. \A k \in Names : SessionHashed(k)' /\ Landed(k)' /\ SumLater(k)'
      BY <1>1, <1>6 DEF Kept, SessionHashed, Landed, SumLater, HasSession
    <2>4. \A s \in Tasks : Asks(s)' /\ ~Asking(s)'
      BY <1>3, <1>6 DEF Asks, Asking
    <2> QED BY <2>1, <2>2, <2>3, <2>4 DEF Kept, OneAsker, NamedRight, Once
  <1>7. CASE /\ findAssembled(a) = {} /\ findSession(a) = {}
             /\ Start(t, "open", name, a, 0) /\ UNCHANGED open
    <2>1. \A k \in Names : ~Meant(k, a.file)
      <3> SUFFICES ASSUME NEW k \in Names, Meant(k, a.file) PROVE FALSE
        OBVIOUS
      <3>1. CASE HasSession(k) /\ manifest[k].hash = a.file
        BY <1>2, <1>3, <1>7, <3>1 DEF SessionHashed, findSession
      <3>2. CASE archive[k] = a.file
        BY <1>2, <1>3, <1>7, <3>2 DEF findAssembled
      <3> QED BY <1>3, <3>1, <3>2 DEF Meant, Asking
    <2>2. PICK n \in Names : n = name /\ n.tag \in {NoFile, a.file}
      <3>1. CASE taken
        <4>1. name = [plain |-> p, tag |-> a.file]
          BY <1>2, <3>1
        <4>2. [plain |-> p, tag |-> a.file] \in Names
          BY <1>2 DEF Names
        <4> QED BY <4>1, <4>2
      <3>2. CASE ~taken
        BY <1>1, <3>2
      <3> QED BY <3>1, <3>2
    <2>3. archive[n] = NoFile
      <3> SUFFICES ASSUME archive[n] # NoFile PROVE FALSE
        OBVIOUS
      <3>1. taken /\ n.tag = a.file
        BY <1>1, <1>2, <2>2 DEF Names
      <3>2. archive[n] \in Files /\ Meant(n, archive[n])
        BY <1>3 DEF Meant
      <3>3. archive[n] = a.file
        BY <1>2, <3>1, <3>2 DEF Kept, NamedRight
      <3> QED BY <2>1, <3>3 DEF Meant
    <2>4. /\ task'[t].pc = "open" /\ task'[t].name = n /\ task'[t].ann = a
          /\ \A s \in Tasks \ {t} : task'[s] = task[s]
      BY <1>1, <1>2, <1>7, <2>2, StartIs DEF PCs
    <2>5. SessionHashed(n)' /\ Landed(n)' /\ SumLater(n)'
      BY <1>1, <1>3, <2>3 DEF SessionHashed, Landed, SumLater, HasSession
    <2>6. Asks(t)' /\ OpenRight'
      BY <1>1, <1>2, <1>7, <2>3, <2>4 DEF Asks, Kept, OpenRight, HasSession
    <2>7. \A f \in Files : Meant(n, f)' => Meant(n, f) \/ f = a.file
      BY <1>1, <1>3, <2>4 DEF Meant, HasSession, Asking
    <2> QED BY <1>1, <1>3, <2>1, <2>2, <2>4, <2>5, <2>6, <2>7, AskerKept
  <1> QED
    <2>1. first \in Names
      BY <1>1
    <2>2. ASSUME taken, sumFile[first] = a.hash
          PROVE  archive[first] = a.file /\ ~HasSession(first)
      BY <1>1, <1>2, <1>3, <2>2
    <2>3. CASE \E k \in findAssembled(a) \cup findSession(a) : Answer(k, a) /\ UNCHANGED task
      BY <1>4, <1>5, <1>6, <2>3
    <2>4. CASE taken /\ sumFile[first] = a.hash /\ Answer(first, a) /\ UNCHANGED task
      BY <1>6, <2>1, <2>2, <2>4
    <2> QED BY <1>2, <1>7, <2>3, <2>4 DEF Begin

\* What the hash says is what the data holds.
LEMMA SumIsContent ==
  ASSUME Sound, NEW n \in Names, HasSession(n), Follows(n), data[n] # NoData
  PROVE  sum(manifest[n], data[n]) = Content(data[n], manifest[n].size)
  <1> DEFINE m == manifest[n]
  <1>1. m \in Manifests
    BY DEF Sound, TypeOK, HasSession
  <1>2. CASE ~m.stale /\ Len(m.absorbed) = m.size
    <2>1. m.absorbed \in Absorbeds
      BY <1>1 DEF Manifests, Absorbeds
    <2>2. PICK k \in 0..MaxChunks : m.absorbed \in [1..k -> Bytes \cup {Hole}]
      BY <2>1 DEF Absorbeds
    <2>3. Len(m.absorbed) = k
      BY <2>2, IsAbsorbed
    <2>4. \A i \in 1..m.size : m.absorbed[i] = data[n][i]
      BY <1>2, <2>2, <2>3 DEF Follows
    <2>5. m.absorbed = [i \in 1..m.size |-> data[n][i]]
      BY <1>2, <2>2, <2>3, <2>4
    <2> QED BY <1>2, <2>5 DEF sum, Content
  <1>3. CASE ~(~m.stale /\ Len(m.absorbed) = m.size)
    BY <1>3 DEF sum
  <1> QED BY <1>2, <1>3

\* Completing, and discarding, start at a session whose place is still free.
LEMMA CompleteKept ==
  ASSUME OnDisk, Kept, "overlap" \notin Events, NEW t \in Tasks,
         NEW n \in Names, NEW a \in Announcements, Complete(t, n, a) \/ Abort(t, n, a)
  PROVE  Kept'
  <1>1. /\ Sound /\ TypeOK /\ MayAsk /\ task[t].pc = "idle" /\ <<n, a>> \in open
        /\ HasSession(n) /\ lock[n] = NoTask
        /\ UNCHANGED <<archive, sumFile, open>>
    BY DEF OnDisk, Sound, Complete, Abort, At, Lock
  <1>2. /\ \A s \in Tasks : ~Asking(s)
        /\ archive[n] = NoFile
        /\ Hashed(a) /\ manifest[n].hash = a.file /\ a.file # NoFile
        /\ SessionHashed(n) /\ SumLater(n)
    <2>1. a.file \in Files
      BY DEF Announcements
    <2> QED BY <1>1, <2>1, AtPeace, FilesAssumption DEF Kept, OpenRight
  <1>3. manifest[n] \in Manifests /\ Follows(n)
    BY <1>1 DEF TypeOK, HasSession, OnDisk, AtRest
  <1>4. /\ \A k \in Names \ {n} : manifest'[k] = manifest[k]
        /\ manifest'[n] \in {manifest[n], NoManifest}
    BY <1>1, RemoveSomeIs DEF Complete, Abort
  <1>5. PICK p \in {"discard", "place", "abort"} :
          /\ Start(t, p, n, a, 0)
          /\ p = "place" => /\ Content(data[n], manifest[n].size) = a.file
                            /\ UNCHANGED <<manifest, data>>
    <2>1. CASE Abort(t, n, a)
      BY <2>1 DEF Abort
    <2>2. CASE Complete(t, n, a) /\ Start(t, "discard", n, a, 0)
      BY <2>2
    <2>3. CASE /\ Complete(t, n, a) /\ Start(t, "place", n, a, 0) /\ data[n] # NoData
               /\ manifest[n].hash # NoFile => sum(manifest[n], data[n]) = manifest[n].hash
      <3>1. Content(data[n], manifest[n].size) = a.file
        BY <1>1, <1>2, <1>3, <2>3, SumIsContent
      <3>2. UNCHANGED <<manifest, data>>
        BY <2>3 DEF Complete
      <3> QED BY <2>3, <3>1, <3>2
    <2> QED BY <1>2, <2>1, <2>2, <2>3 DEF Complete, Moved
  <1>6. /\ task'[t].pc = p /\ task'[t].name = n /\ task'[t].ann = a
        /\ \A s \in Tasks \ {t} : task'[s] = task[s]
    BY <1>1, <1>5, StartIs DEF PCs
  <1>7. SessionHashed(n)' /\ Landed(n)' /\ SumLater(n)'
    BY <1>1, <1>2, <1>4 DEF SessionHashed, Landed, SumLater, HasSession
  <1>8. Asks(t)'
    BY <1>1, <1>2, <1>5, <1>6 DEF Asks
  <1>9. OpenRight'
    BY <1>1, <1>4 DEF Kept, OpenRight, HasSession, TypeOK
  <1>10. \A f \in Files : Meant(n, f)' => Meant(n, f)
    BY <1>1, <1>2, <1>4, <1>6 DEF Meant, HasSession, Asking
  <1> QED BY <1>1, <1>2, <1>4, <1>6, <1>7, <1>8, <1>9, <1>10, AskerKept

\* Moving, noting, discarding, resetting and cleaning.
LEMMA FinishKept ==
  ASSUME Sound, Kept, NEW t \in Tasks,
         \/ DiscardData(t) \/ ResetManifest(t) \/ Place(t) \/ RecordHash(t)
         \/ Clean(t) \/ AbortRest(t)
  PROVE  Kept'
  <1>1. /\ TypeOK /\ Asking(t) /\ UNCHANGED open
        /\ task[t].pc \in {"discard", "reset", "place", "note", "clean", "abort"}
    BY DEF Sound, DiscardData, ResetManifest, Place, RecordHash, Clean, AbortRest, At, Asking
  <1>2. PICK n \in Names, a \in Announcements : n = task[t].name /\ a = task[t].ann
    BY <1>1, Working DEF Asking
  <1>3. a.file \in Files /\ a.file # NoFile
    BY FilesAssumption DEF Announcements
  <1>4. /\ Hashed(a) /\ SessionHashed(n) /\ Landed(n) /\ SumLater(n)
        /\ <<n, a>> \in open /\ archive[n] \in {NoFile, a.file}
        /\ HasSession(n) => manifest[n].hash = a.file
        /\ \A s \in Tasks \ {t} : ~Asking(s)
    BY <1>1, <1>2, Alone DEF Kept, Asks, OpenRight
  <1>5. \A p \in PCs : Go(t, p) => /\ task'[t].pc = p /\ task'[t].name = n /\ task'[t].ann = a
                                   /\ \A s \in Tasks \ {t} : task'[s] = task[s]
    BY <1>1, <1>2, GoIs DEF Asking
  <1>6. End(t) => task'[t].pc = "idle" /\ \A s \in Tasks \ {t} : task'[s] = task[s]
    BY <1>1, EndIs
  <1>7. CASE DiscardData(t)
    <2>1. task'[t].pc = "reset" /\ task'[t].name = n /\ task'[t].ann = a
          /\ \A s \in Tasks \ {t} : task'[s] = task[s]
      BY <1>5, <1>7 DEF DiscardData, PCs
    <2>2. UNCHANGED <<manifest, archive, sumFile>> /\ archive[n] = NoFile
      BY <1>2, <1>7 DEF DiscardData, At, Kept, Asks
    <2>3. SessionHashed(n)' /\ Landed(n)' /\ SumLater(n)' /\ Asks(t)'
      BY <1>1, <1>4, <2>1, <2>2 DEF SessionHashed, Landed, SumLater, Asks, HasSession
    <2>4. OpenRight'
      BY <1>1, <2>2 DEF Kept, OpenRight, HasSession
    <2>5. \A f \in Files : Meant(n, f)' => Meant(n, f)
      BY <1>4, <2>1, <2>2 DEF Meant, HasSession, Asking
    <2> QED BY <1>2, <1>4, <2>1, <2>2, <2>3, <2>4, <2>5, AskerKept
  <1>8. CASE ResetManifest(t)
    <2>1. task'[t].pc = "idle" /\ \A s \in Tasks \ {t} : task'[s] = task[s]
      BY <1>6, <1>8 DEF ResetManifest
    <2>2. /\ UNCHANGED <<archive, sumFile>> /\ archive[n] = NoFile
          /\ \A k \in Names \ {n} : manifest'[k] = manifest[k]
      BY <1>1, <1>2, <1>8 DEF ResetManifest, At, Kept, Asks, WriteManifest, TypeOK
    <2>3. manifest[n] \in Manifests /\ HasSession(n)
      BY <1>1, <1>2, <1>8 DEF ResetManifest, At, Sound, Order, HasSession, TypeOK
    <2>4. manifest'[n].hash = manifest[n].hash /\ manifest'[n].size = manifest[n].size
      BY <1>1, <1>2, <1>8, <2>3 DEF ResetManifest, WriteManifest, TypeOK, Manifests
    <2>5. SessionHashed(n)' /\ Landed(n)' /\ SumLater(n)' /\ Asks(t)'
      BY <1>4, <2>1, <2>2, <2>3, <2>4 DEF SessionHashed, Landed, SumLater, Asks, Asking, HasSession
    <2>6. OpenRight'
      BY <1>1, <2>2, <2>3, <2>4 DEF Kept, OpenRight, HasSession, TypeOK
    <2>7. \A f \in Files : Meant(n, f)' => Meant(n, f)
      BY <1>4, <2>1, <2>2, <2>3, <2>4 DEF Meant, HasSession, Asking
    <2> QED BY <1>2, <1>4, <2>1, <2>2, <2>5, <2>6, <2>7, AskerKept
  <1>9. CASE Place(t)
    <2>1. /\ HasSession(n) /\ archive[n] = NoFile
          /\ Content(data[n], manifest[n].size) = a.file
      BY <1>2, <1>9 DEF Place, At, Sound, Order, Kept, Asks
    <2>2. manifest[n].hash = a.file /\ Meant(n, a.file)
      BY <1>4, <2>1 DEF Meant
    <2>3. task'[t].pc = "note" /\ task'[t].name = n /\ task'[t].ann = a
          /\ \A s \in Tasks \ {t} : task'[s] = task[s]
      BY <1>2, <1>3, <1>5, <1>9, <2>2 DEF Place, PCs
    <2>4. /\ UNCHANGED <<manifest, sumFile>> /\ archive'[n] = a.file
          /\ \A k \in Names \ {n} : archive'[k] = archive[k]
      BY <1>1, <1>2, <1>9, <2>1 DEF Place, TypeOK
    <2>5. SessionHashed(n)' /\ Landed(n)' /\ SumLater(n)' /\ Asks(t)'
      BY <1>1, <1>3, <1>4, <2>3, <2>4 DEF SessionHashed, Landed, SumLater, Asks, HasSession
    <2>6. OpenRight'
      BY <1>1, <2>1, <2>2, <2>4 DEF Kept, OpenRight, HasSession, TypeOK
    <2>7. \A f \in Files : Meant(n, f)' => Meant(n, f)
      BY <1>4, <2>2, <2>3, <2>4 DEF Meant, HasSession, Asking
    <2> QED BY <1>2, <1>4, <2>3, <2>4, <2>5, <2>6, <2>7, AskerKept
  <1>10. CASE RecordHash(t)
    <2>1. HasSession(n) /\ archive[n] = a.file /\ manifest[n].hash = a.file
      BY <1>2, <1>4, <1>10 DEF RecordHash, At, Sound, Order, Kept, Asks
    <2>2. task'[t].pc = "clean" /\ task'[t].name = n /\ task'[t].ann = a
          /\ \A s \in Tasks \ {t} : task'[s] = task[s]
      BY <1>5, <1>10 DEF RecordHash, PCs
    <2>3. /\ UNCHANGED <<manifest, archive>> /\ sumFile'[n] = a.file
          /\ \A k \in Names \ {n} : sumFile'[k] = sumFile[k]
      BY <1>1, <1>2, <1>10, <2>1 DEF RecordHash, TypeOK
    <2>4. SessionHashed(n)' /\ Landed(n)' /\ SumLater(n)' /\ Asks(t)'
      BY <1>1, <1>3, <1>4, <2>1, <2>2, <2>3 DEF SessionHashed, Landed, SumLater, Asks, HasSession
    <2>5. OpenRight'
      BY <1>1, <2>3 DEF Kept, OpenRight, HasSession
    <2>6. \A f \in Files : Meant(n, f)' => Meant(n, f)
      BY <1>4, <2>2, <2>3 DEF Meant, HasSession, Asking
    <2> QED BY <1>2, <1>4, <2>2, <2>3, <2>4, <2>5, <2>6, AskerKept
  <1>11. CASE Clean(t) \/ AbortRest(t)
    <2>1. task'[t].pc = "idle" /\ \A s \in Tasks \ {t} : task'[s] = task[s]
      BY <1>6, <1>11 DEF Clean, AbortRest
    <2>2. /\ UNCHANGED <<archive, sumFile>> /\ ~HasSession(n)'
          /\ \A k \in Names \ {n} : manifest'[k] = manifest[k]
      BY <1>1, <1>2, <1>11 DEF Clean, AbortRest, WriteManifest, TypeOK, HasSession
    <2>3. archive[n] = NoFile \/ sumFile[n] = archive[n]
      <3>1. task[t].pc \in {"clean", "abort"}
        BY <1>11 DEF Clean, AbortRest, At
      <3> QED BY <1>4, <3>1 DEF Landed, Asking
    <2>4. SessionHashed(n)' /\ Landed(n)' /\ SumLater(n)' /\ Asks(t)'
      BY <1>4, <2>1, <2>2, <2>3 DEF SessionHashed, Landed, SumLater, Asks, Asking
    <2>5. OpenRight'
      BY <1>1, <2>2 DEF Kept, OpenRight, HasSession, TypeOK
    <2>6. \A f \in Files : Meant(n, f)' => Meant(n, f)
      BY <1>4, <2>1, <2>2 DEF Meant, Asking
    <2> QED BY <1>2, <1>4, <2>1, <2>2, <2>4, <2>5, <2>6, AskerKept
  <1> QED BY <1>7, <1>8, <1>9, <1>10, <1>11

\* Sending, storing and recording a chunk.
LEMMA LateChunkKept ==
  ASSUME Sound, Kept, NEW t \in Tasks,
         \/ StoreChunk(t) \/ RecordChunk(t)
         \/ \E n \in Names, a \in Announcements, i \in Chunks : WriteChunk(t, n, a, i)
  PROVE  Kept'
  <1>1. TypeOK
    BY DEF Sound
  <1>2. CASE StoreChunk(t)
    <2>1. task[t].pc = "chunk"
      BY <1>2 DEF StoreChunk, At
    <2>2. PICK n \in Names : n = task[t].name
      BY <1>1, <2>1, Working
    <2>3. task'[t].pc \in {"idle", "record", "recordStale"}
      <3>1. CASE End(t)
        BY <1>1, <3>1, EndIs
      <3>2. CASE \E p \in {"record", "recordStale"} : Go(t, p)
        BY <1>1, <2>1, <3>2, GoIs DEF PCs
      <3> QED BY <1>2, <3>1, <3>2 DEF StoreChunk
    <2>4. Near(t, n) /\ UNCHANGED <<manifest, archive, sumFile, open>>
      BY <1>2, <2>2, ContinueNear DEF Continue, StoreChunk
    <2> QED BY <2>1, <2>3, <2>4, ChunkKept DEF Asking, HasSession
  <1>3. CASE RecordChunk(t)
    <2>1. task[t].pc \in {"record", "recordStale"} /\ task'[t].pc = "idle"
      BY <1>1, <1>3, EndIs DEF RecordChunk
    <2>2. PICK n \in Names : n = task[t].name
      BY <1>1, <2>1, Working
    <2>3. Near(t, n) /\ UNCHANGED <<archive, sumFile, open>>
      BY <1>3, <2>2, ContinueNear DEF Continue, RecordChunk
    <2>4. /\ manifest[n] \in Manifests /\ Fitting(manifest[n]) /\ data[n] \in Datas
          /\ HasSession(n) /\ task[t].index \in 1..manifest[n].size
      <3>1. /\ HasSession(n) /\ data[n] # NoData
            /\ task[t].index \in 1..Len(task[t].ann.file) /\ task[t].index <= manifest[n].size
        BY <2>1, <2>2 DEF Sound, Order
      <3>2. task[t].ann.file \in Files /\ manifest[n] \in Manifests
        BY <1>1, <2>1, <3>1, Working DEF Announcements, TypeOK, HasSession
      <3> QED BY <1>1, <2>2, <3>1, <3>2, FilesAssumption DEF TypeOK, Sound, SessionFits, Manifests,
                                                          Chunks
    <2>5. task[t].index \in Chunks
      BY <2>4, FilesAssumption DEF Manifests, Chunks
    <2>6. /\ Received(t) \in Manifests /\ Fitting(Received(t))
          /\ Received(t).hash = manifest[n].hash /\ Received(t).size = manifest[n].size
      BY <2>2, <2>4, <2>5 DEF Received, Manifests, Fitting
    <2>7. LET next == absorb(Received(t), data[n]) IN
            next \in Manifests /\ next.hash = manifest[n].hash /\ next.size = manifest[n].size
      BY <2>4, <2>6, AbsorbIs
    <2>8. /\ HasSession(n)' /\ manifest'[n].hash = manifest[n].hash
          /\ manifest'[n].size = manifest[n].size
      BY <1>1, <1>3, <2>2, <2>4, <2>7, ManifestsReal DEF RecordChunk, TypeOK, HasSession
    <2> QED BY <2>1, <2>3, <2>4, <2>8, ChunkKept DEF Asking
  <1>4. CASE \E n \in Names, a \in Announcements, i \in Chunks : WriteChunk(t, n, a, i)
    <2>1. PICK n \in Names, a \in Announcements, i \in Chunks : WriteChunk(t, n, a, i)
      BY <1>4
    <2>2. task[t].pc = "idle" /\ task'[t].pc = "chunk"
      BY <1>1, <2>1, StartIs DEF WriteChunk, At, PCs
    <2>3. Near(t, n) /\ UNCHANGED <<manifest, archive, sumFile, open>>
      BY <1>1, <2>1, AskNear DEF WriteChunk
    <2> QED BY <2>2, <2>3, ChunkKept DEF Asking, HasSession
  <1> QED BY <1>2, <1>3, <1>4

\* Asking again for the end of an upload that is done changes only who knows.
LEMMA AgainKept ==
  ASSUME Kept, NEW t \in Tasks, NEW n \in Names, NEW a, CompleteAgain(t, n, a)
  PROVE  Kept'
  BY DEF CompleteAgain, Free, Kept, OneAsker, NamedRight, Once, OpenRight, SessionHashed, Landed,
         SumLater, Asks, Asking, Meant, HasSession

\* At first nothing is kept.
LEMMA KeptInit == Init => OnDisk /\ Kept
  <1> SUFFICES ASSUME Init PROVE Kept
    BY OnDiskInit
  <1>1. /\ \A n \in Names : SessionHashed(n) /\ Landed(n) /\ SumLater(n)
        /\ OpenRight
    BY DEF Init, SessionHashed, Landed, SumLater, OpenRight, HasSession
  <1>2. \A t \in Tasks : Asks(t) /\ ~Asking(t)
    BY DEF Init, Idle, Asks, Asking
  <1>3. OneAsker
    BY <1>2 DEF OneAsker
  <1>4. \A n \in Names, f \in Files : ~Meant(n, f)
    BY FilesAssumption DEF Init, Idle, Meant, HasSession
  <1> QED BY <1>1, <1>2, <1>3, <1>4 DEF Kept, NamedRight, Once

\* Every step keeps it, with one tab that announces hashes.
LEMMA KeptStep ==
  ASSUME "crash" \notin Events, "overlap" \notin Events, "unhashed" \notin Events
  PROVE  OnDisk /\ Kept /\ [Next]_vars => OnDisk' /\ Kept'
  <1> SUFFICES ASSUME OnDisk, Kept, [Next]_vars PROVE Kept'
    BY OnDiskStep
  <1>1. Sound
    BY DEF OnDisk
  <1>2. ASSUME NEW t \in Tasks, Continue(t) PROVE Kept'
    BY <1>1, <1>2, OpenKept, FinishKept, LateChunkKept DEF Continue
  <1>3. ASSUME NEW t \in Tasks, NEW p \in Plain, NEW a \in Announced, Begin(t, p, a) PROVE Kept'
    BY <1>1, <1>3, BeginKept
  <1>4. ASSUME NEW t \in Tasks, NEW n \in Names, NEW a \in Announced,
               \/ \E i \in Chunks : WriteChunk(t, n, a, i)
               \/ CompleteAgain(t, n, a) \/ Complete(t, n, a) \/ Abort(t, n, a)
        PROVE  Kept'
    <2>1. a \in Announcements
      BY DEF Announced
    <2> QED BY <1>1, <1>4, <2>1, LateChunkKept, AgainKept, CompleteKept
  <1>5. CASE Restart
    BY <1>5 DEF Restart, Crash
  <1>6. CASE UNCHANGED vars
    BY <1>6 DEF vars, Kept, OneAsker, NamedRight, Once, OpenRight, SessionHashed, Landed,
                SumLater, Asks, Asking, Meant, HasSession
  <1> QED BY <1>2, <1>3, <1>4, <1>5, <1>6 DEF Next

\* The same content is kept once, whatever the names a browser announces it by
\* (Begin, findAssembled, findSession), when one tab that announces hashes sends
\* it and the process does not crash.
THEOREM UploadStoredOnce ==
  ASSUME "crash" \notin Events, "overlap" \notin Events, "unhashed" \notin Events
  PROVE  Spec => []StoredOnce
  <1>1. Kept => StoredOnce
    BY DEF Kept, Landed, Once, Meant, StoredOnce
  <1>2. Init => OnDisk /\ Kept
    BY KeptInit
  <1>3. OnDisk /\ Kept /\ [Next]_vars => OnDisk' /\ Kept'
    BY KeptStep
  <1> QED BY <1>1, <1>2, <1>3, PTL DEF Spec

----------------------------------------------------------------------------
(* The store implements Archives *)

\* What its callers know, as Archives has it.
Known == {<<p[1], p[2].file>> : p \in {q \in acked : q[2].hash # NoFile}}

\* An archive lands where none was, as the file of the tab that completes it.
LEMMA PlaceLands ==
  ASSUME Sound, Kept, NEW t \in Tasks, Place(t)
  PROVE  \E n \in Names, f \in Files : Promised!Land(n, f)
  <1>1. TypeOK /\ task[t].pc = "place"
    BY DEF Sound, Place, At
  <1>2. PICK n \in Names, a \in Announcements : n = task[t].name /\ a = task[t].ann
    BY <1>1, Working
  <1>3. /\ a.file \in Files /\ archive[n] = NoFile
        /\ Content(data[n], manifest[n].size) = a.file
    BY <1>1, <1>2 DEF Announcements, Kept, Asks
  <1>4. archive' = [archive EXCEPT ![n] = a.file] /\ Known' = Known
    BY <1>2, <1>3 DEF Place, Known
  <1> QED BY <1>3, <1>4 DEF Promised!Land, Known

\* An upload is reported done when its own file is in place.
LEMMA AckAcknowledges ==
  ASSUME NEW n \in Names, NEW a \in Announcements, a.file # NoFile, Hashed(a),
         archive[n] = a.file, UNCHANGED archive, acked' = acked \cup {<<n, a>>}
  PROVE  \E k \in Names, f \in Files : Promised!Acknowledge(k, f)
  <1>1. a.file \in Files
    BY DEF Announcements
  <1>2. Known' = Known \cup {<<n, a.file>>}
    <2> DEFINE p == <<n, a>>
               Hash(q) == q[2].hash # NoFile
    <2>1. p[1] = n /\ p[2] = a /\ Hash(p)
      BY DEF Hashed
    <2> HIDE DEF p, Hash
    <2>2. {q \in acked \cup {p} : Hash(q)} = {q \in acked : Hash(q)} \cup {p}
      BY <2>1
    <2>3. {<<q[1], q[2].file>> : q \in {q \in acked : Hash(q)} \cup {p}}
            = {<<q[1], q[2].file>> : q \in {q \in acked : Hash(q)}} \cup {<<p[1], p[2].file>>}
      OBVIOUS
    <2>4. Known' = {<<q[1], q[2].file>> : q \in {q \in acked \cup {p} : Hash(q)}}
      BY DEF Known, Hash, p
    <2> QED BY <2>1, <2>2, <2>3, <2>4 DEF Known, Hash
  <1> QED BY <1>1, <1>2 DEF Promised!Acknowledge, Known

\* Each step is one of the abstract store, or changes nothing that it promises.
LEMMA StepPromised ==
  ASSUME "unhashed" \notin Events
  PROVE  Sound /\ Kept /\ [Next]_vars => [Promised!Next]_<<archive, Known>>
  <1> SUFFICES ASSUME Sound, Kept, [Next]_vars
               PROVE  \/ Promised!Next
                      \/ archive' = archive /\ Known' = Known
    OBVIOUS
  <1>1. CASE UNCHANGED <<archive, acked>>
    BY <1>1 DEF Known
  <1>2. ASSUME NEW t \in Tasks, Place(t) PROVE Promised!Next
    BY <1>2, PlaceLands DEF Promised!Next
  <1>3. ASSUME NEW t \in Tasks, Clean(t) PROVE Promised!Next
    <2>1. task[t].pc = "clean" /\ TypeOK
      BY <1>3 DEF Clean, At, Sound
    <2>2. PICK n \in Names, a \in Announcements : n = task[t].name /\ a = task[t].ann
      BY <2>1, Working
    <2>3. Hashed(a) /\ archive[n] = a.file /\ a.file # NoFile
      BY <2>1, <2>2, FilesAssumption DEF Kept, Asks, Asking, Announcements
    <2> QED BY <1>3, <2>2, <2>3, AckAcknowledges DEF Clean, Promised!Next
  <1>4. ASSUME NEW t \in Tasks, NEW n \in Names, NEW a \in Announced, CompleteAgain(t, n, a)
        PROVE  Promised!Next
    <2>1. a \in Announcements /\ Hashed(a) /\ a.file \in Files
      BY AnnouncedHashed
    <2>2. archive[n] = a.file /\ a.file # NoFile
      BY <1>4, <2>1, FilesAssumption DEF CompleteAgain, Kept, OpenRight
    <2> QED BY <1>4, <2>1, <2>2, AckAcknowledges DEF CompleteAgain, Promised!Next
  <1>5. ASSUME NEW t \in Tasks, Continue(t), ~Place(t), ~Clean(t) PROVE UNCHANGED <<archive, acked>>
    BY <1>5 DEF Continue, OpenSession, ReplaceSession, StoreChunk, RecordChunk, DiscardData,
                ResetManifest, RecordHash, AbortRest
  <1>6. ASSUME NEW t \in Tasks, NEW a \in Announced,
               \/ \E p \in Plain : Begin(t, p, a)
               \/ \E n \in Names : \/ \E i \in Chunks : WriteChunk(t, n, a, i)
                                   \/ Complete(t, n, a) \/ Abort(t, n, a)
        PROVE  UNCHANGED <<archive, acked>>
    BY <1>6 DEF Begin, WriteChunk, Complete, Abort
  <1>7. Restart \/ UNCHANGED vars => UNCHANGED <<archive, acked>>
    BY DEF Restart, vars
  <1> QED BY <1>1, <1>2, <1>3, <1>4, <1>5, <1>6, <1>7 DEF Next

\* The store keeps its promise to one tab that announces hashes, without crashes:
\* an archive appears whole, where none was, stays, and is reported done only to
\* whom sent that file (Begin, WriteChunk, Complete, Abort).
THEOREM UploadKeepsPromise ==
  ASSUME "crash" \notin Events, "overlap" \notin Events, "unhashed" \notin Events
  PROVE  Spec => KeepsPromise
  <1>1. Init => Promised!Init
    BY DEF Init, Promised!Init
  <1>2. OnDisk => Sound
    BY DEF OnDisk
  <1>3. Sound /\ Kept /\ [Next]_vars => [Promised!Next]_<<archive, Known>>
    BY StepPromised
  <1>4. Init => OnDisk /\ Kept
    BY KeptInit
  <1>5. OnDisk /\ Kept /\ [Next]_vars => OnDisk' /\ Kept'
    BY KeptStep
  <1> QED BY <1>1, <1>2, <1>3, <1>4, <1>5, PTL DEF Spec, KeepsPromise, Promised!Spec, Known
=============================================================================
