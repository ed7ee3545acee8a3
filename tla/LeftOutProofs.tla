--------------------------- MODULE LeftOutProofs ---------------------------
(***************************************************************************)
(* Proofs about LeftOut, for any set of files, any names in the log, any    *)
(* number of problems that is shown, and any sequence of runs and retries.  *)
(* The first parts are about the log: how it is read, what a list made from *)
(* it names, how many files are in each count.  Then come three invariants, *)
(* each on the one before: Sound (types, and a run fits the record that it  *)
(* is of), Matching (what the record says was brought over is there) and    *)
(* Counting (what is missing is counted).  Each theorem says which events   *)
(* it leaves out: those that make the code break its property.              *)
(***************************************************************************)
EXTENDS LeftOut, FiniteSetTheorems, TLAPS

----------------------------------------------------------------------------
(* Counting up, and functions that are defined by it *)

\* What holds of 0, and of every number after one that it holds of, holds of all.
LEMMA Climb ==
  ASSUME NEW N \in Nat, NEW S, 0 \in S, \A n \in 1..N : n - 1 \in S => n \in S
  PROVE  0..N \subseteq S
<1> DEFINE T == {n \in 0..N : n \notin S}
<1> SUFFICES ASSUME T # {} PROVE FALSE
  OBVIOUS
<1>1. PICK m \in T : \A n \in T : <<n, m>> \notin OpToRel(<, Nat)
  <2>1. T \subseteq Nat
    OBVIOUS
  <2> HIDE DEF T
  <2> QED BY <2>1, NatLessThanWellFounded, WFMin
<1>2. m \in 1..N /\ m - 1 \in 0..N /\ m - 1 \in T
  OBVIOUS
<1>3. <<m - 1, m>> \in OpToRel(<, Nat)
  BY <1>2 DEF OpToRel
<1> QED BY <1>1, <1>2, <1>3

\* A value for 0 and one for every number after the one before: there is such a
\* function.
Unfolds(g, N, x0, F) == g[0] = x0 /\ \A n \in 1..N : g[n] = F[<<n, g[n - 1]>>]

\* Such a function there is, built up number by number.
LEMMA Recursion ==
  ASSUME NEW N \in Nat, NEW X, NEW x0 \in X, NEW F \in [(1..N) \X X -> X]
  PROVE  \E g \in [0..N -> X] : Unfolds(g, N, x0, F)
<1> DEFINE Good(n, g) == g \in [0..n -> X] /\ g[0] = x0 /\ \A m \in 1..n : g[m] = F[<<m, g[m - 1]>>]
           S == {n \in 0..N : \E g : Good(n, g)}
<1>1. 0 \in S
  <2>1. 0 \in 0..0 /\ 1..0 = {}
    OBVIOUS
  <2>2. Good(0, [n \in 0..0 |-> x0])
    BY <2>1
  <2> HIDE DEF Good
  <2> QED BY <2>2
<1>2. ASSUME NEW n \in 1..N, n - 1 \in S PROVE n \in S
  <2>1. PICK g : Good(n - 1, g)
    BY <1>2
  <2> DEFINE h == [m \in 0..n |-> IF m < n THEN g[m] ELSE F[<<n, g[n - 1]>>]]
  <2>2. g[n - 1] \in X /\ F[<<n, g[n - 1]>>] \in X
    <3>1. n - 1 \in 0..n - 1
      OBVIOUS
    <3> QED BY <2>1, <3>1
  <2>3. h \in [0..n -> X] /\ h[0] = x0
    <3>1. \A m \in 0..n : m < n => m \in 0..n - 1
      OBVIOUS
    <3> QED BY <2>1, <2>2, <3>1
  <2>4. ASSUME NEW m \in 1..n PROVE h[m] = F[<<m, h[m - 1]>>]
    <3>1. CASE m = n
      <4>1. n \in 0..n /\ n - 1 \in 0..n /\ ~(n < n) /\ n - 1 < n
        OBVIOUS
      <4> QED BY <3>1, <4>1
    <3>2. CASE m # n
      <4>1. m \in 1..n - 1 /\ m \in 0..n /\ m - 1 \in 0..n /\ m < n /\ m - 1 < n
        BY <3>2
      <4> QED BY <2>1, <4>1
    <3> QED BY <3>1, <3>2
  <2> HIDE DEF h
  <2>5. Good(n, h) /\ n \in 0..N
    BY <2>3, <2>4
  <2> HIDE DEF Good
  <2> QED BY <2>5
<1>3. PICK g : Good(N, g)
  <2>1. 0..N \subseteq S
    <3> HIDE DEF S
    <3> QED BY <1>1, <1>2, Climb
  <2> QED BY <2>1
<1> QED BY <1>3 DEF Unfolds

----------------------------------------------------------------------------
(* Lists of problems *)

NamesOf(ps) == {ps[k].file : k \in DOMAIN ps}

\* The names on a list that are files: what the log cut short is no file.
Real(ps) == NamesOf(ps) \cap Files

\* No file is on the list twice.
Apart(ps) == \A j, k \in DOMAIN ps : ps[j].file = ps[k].file /\ ps[k].file \in Files => j = k

Logged == {LogName[f] : f \in Files}

Listed(ps) == ps \in Seq(Problem) /\ NamesOf(ps) \subseteq Logged /\ Apart(ps)

\* q is made of the problems of ps whose files are in F, as j says.
Picks(q, ps, F, n, j) ==
  /\ j \in [1..Len(q) -> 1..n]
  /\ \A a, b \in 1..Len(q) : j[a] = j[b] => a = b
  /\ \A a \in 1..Len(q) : q[a] = ps[j[a]] /\ ps[j[a]].file \in F
  /\ \A i \in 1..n : ps[i].file \in F => \E a \in 1..Len(q) : j[a] = i

\* Keep goes through the list one by one.
LEMMA KeepSteps ==
  ASSUME NEW X, NEW ps \in Seq(X), NEW F
  PROVE  \E g : /\ Keep(ps, F) = g[Len(ps)]
                /\ g[0] = <<>>
                /\ \A n \in 1..Len(ps) :
                     g[n] = IF ps[n].file \in F THEN Append(g[n - 1], ps[n]) ELSE g[n - 1]
<1> DEFINE N == Len(ps)
           Y == Seq(X)
           none == <<>>
           Next1(n, q) == IF ps[n].file \in F THEN Append(q, ps[n]) ELSE q
           G == [p \in (1..N) \X Y |-> Next1(p[1], p[2])]
           Def(g) == g = [n \in 0..N |-> IF n = 0 THEN none ELSE Next1(n, g[n - 1])]
           kept == CHOOSE g : Def(g)
<1>1. N \in Nat /\ none \in Y
  OBVIOUS
<1>2. \A n \in 1..N, q \in Y : Next1(n, q) \in Y
  OBVIOUS
<1>3. Keep(ps, F) = kept[N]
  BY DEF Keep
<1> HIDE DEF Y, N, none, Next1
<1>4. G \in [(1..N) \X Y -> Y]
  BY <1>2
<1>5. \A n \in 1..N, q \in Y : G[<<n, q>>] = Next1(n, q)
  OBVIOUS
<1> HIDE DEF G
<1>6. PICK g \in [0..N -> Y] : Unfolds(g, N, none, G)
  BY <1>1, <1>4, Recursion
<1>7. Def(g)
  <2>1. ASSUME NEW n \in 0..N, n # 0 PROVE g[n] = Next1(n, g[n - 1])
    <3>1. n \in 1..N /\ n - 1 \in 0..N
      BY <1>1, <2>1
    <3>2. g[n - 1] \in Y
      BY <3>1
    <3> QED BY <1>5, <1>6, <3>1, <3>2 DEF Unfolds
  <2>2. \A n \in 0..N : g[n] = IF n = 0 THEN none ELSE Next1(n, g[n - 1])
    BY <1>6, <2>1 DEF Unfolds
  <2> QED BY <1>6, <2>2
<1>8. Def(kept)
  <2> HIDE DEF Def
  <2> QED BY <1>7
<1> HIDE DEF kept
<1>9. kept[0] = none
  <2>1. 0 \in 0..N
    BY <1>1
  <2> QED BY <1>8, <2>1
<1>10. ASSUME NEW n \in 1..N PROVE kept[n] = Next1(n, kept[n - 1])
  <2>1. n \in 0..N /\ n # 0
    BY <1>1
  <2> QED BY <1>8, <2>1
<1> QED BY <1>3, <1>9, <1>10 DEF none, Next1, N

\* What is kept is a list, in an order that j gives.
LEMMA KeepIs ==
  ASSUME NEW X, NEW ps \in Seq(X), NEW F
  PROVE  /\ Keep(ps, F) \in Seq(X)
         /\ \E j : Picks(Keep(ps, F), ps, F, Len(ps), j)
<1>1. PICK kept : /\ Keep(ps, F) = kept[Len(ps)]
                  /\ kept[0] = <<>>
                  /\ \A n \in 1..Len(ps) : kept[n] = IF ps[n].file \in F
                                                     THEN Append(kept[n - 1], ps[n])
                                                     ELSE kept[n - 1]
  BY KeepSteps
<1> DEFINE N == Len(ps)
           Good(n) == kept[n] \in Seq(X) /\ \E j : Picks(kept[n], ps, F, n, j)
           S == {n \in 0..N : Good(n)}
<1>0. N \in Nat /\ \A n \in 1..N : ps[n] \in X
  OBVIOUS
<1>6. 0 \in S
  <2>1. <<>> \in Seq(X) /\ Picks(<<>>, ps, F, 0, <<>>)
    BY DEF Picks
  <2>2. Good(0)
    BY <1>1, <2>1
  <2> HIDE DEF Good
  <2> QED BY <1>0, <2>2
<1>7. ASSUME NEW n \in 1..N, n - 1 \in S PROVE n \in S
  <2> DEFINE q == kept[n - 1]
  <2>1. PICK j : Picks(q, ps, F, n - 1, j)
    BY <1>7 DEF q
  <2>2. q \in Seq(X) /\ n \in 0..N
    BY <1>7, <1>0
  <2> HIDE DEF q
  <2>3. CASE ps[n].file \in F
    <3> DEFINE r == Append(q, ps[n])
               h == [a \in 1..Len(r) |-> IF a <= Len(q) THEN j[a] ELSE n]
    <3>1. /\ r \in Seq(X) /\ Len(r) = Len(q) + 1
          /\ r[Len(q) + 1] = ps[n] /\ \A a \in 1..Len(q) : r[a] = q[a]
      BY <1>0, <2>2
    <3> HIDE DEF r
    <3>2. /\ h[Len(q) + 1] = n /\ \A a \in 1..Len(q) : h[a] = j[a]
          /\ \A a \in 1..Len(r) : a \in 1..Len(q) \/ a = Len(q) + 1
          /\ \A a \in 1..Len(q) : a \in 1..Len(r) /\ j[a] \in 1..n - 1
          /\ Len(q) + 1 \in 1..Len(r)
      <4>1. Len(q) \in Nat
        BY <2>2
      <4>2. \A a \in 1..Len(q) : a \in 1..Len(r) /\ a <= Len(q) /\ j[a] \in 1..n - 1
        BY <2>1, <3>1, <4>1 DEF Picks
      <4>3. Len(q) + 1 \in 1..Len(r) /\ ~(Len(q) + 1 <= Len(q))
        BY <3>1, <4>1
      <4>4. \A a \in 1..Len(r) : a \in 1..Len(q) \/ a = Len(q) + 1
        BY <3>1, <4>1
      <4> QED BY <4>2, <4>3, <4>4
    <3>3. h \in [1..Len(r) -> 1..n]
      <4>1. \A a \in 1..Len(r) : h[a] \in 1..n
        BY <3>2
      <4> QED BY <4>1
    <3> HIDE DEF h
    <3>4. Picks(r, ps, F, n, h)
      <4>1. ASSUME NEW a \in 1..Len(r), NEW b \in 1..Len(r), h[a] = h[b] PROVE a = b
        <5>1. \A c \in 1..Len(q) : h[c] # n /\ h[c] = j[c]
          BY <3>2
        <5> QED BY <2>1, <3>2, <4>1, <5>1 DEF Picks
      <4>2. \A a \in 1..Len(r) : r[a] = ps[h[a]] /\ ps[h[a]].file \in F
        BY <2>1, <2>3, <3>1, <3>2 DEF Picks
      <4>3. \A i \in 1..n : ps[i].file \in F => \E a \in 1..Len(r) : h[a] = i
        <5>1. \A i \in 1..n : i = n \/ i \in 1..n - 1
          OBVIOUS
        <5> QED BY <2>1, <3>2, <5>1 DEF Picks
      <4> QED BY <3>3, <4>1, <4>2, <4>3 DEF Picks
    <3>5. kept[n] = r
      BY <1>1, <2>3 DEF r, q
    <3>6. Good(n)
      BY <3>1, <3>4, <3>5
    <3> HIDE DEF Good
    <3> QED BY <2>2, <3>6
  <2>4. CASE ps[n].file \notin F
    <3>1. Picks(q, ps, F, n, j)
      <4>1. \A i \in 1..n - 1 : i \in 1..n
        OBVIOUS
      <4>2. \A i \in 1..n : i = n \/ i \in 1..n - 1
        OBVIOUS
      <4> QED BY <2>1, <2>4, <4>1, <4>2 DEF Picks
    <3>2. kept[n] = q
      BY <1>1, <2>4 DEF q
    <3>3. Good(n)
      BY <2>2, <3>1, <3>2
    <3> HIDE DEF Good
    <3> QED BY <2>2, <3>3
  <2> QED BY <2>3, <2>4
<1>8. N \in S
  <2> HIDE DEF S, N
  <2>1. 0..N \subseteq S
    BY <1>0, <1>6, <1>7, Climb
  <2> QED BY <1>0, <2>1
<1> QED BY <1>1, <1>8

----------------------------------------------------------------------------
(* What the reader makes of a log *)

Readings == [problems : Seq(Problem), named : SUBSET Logged,
             open : SUBSET Logged, order : Seq(Logged)]

\* How each label moves a file.
Listing(s, x, r) ==
  /\ r.named = s.named \cup {x}
  /\ r.problems = IF x \in s.named THEN s.problems ELSE Add(s.problems, Left(x, FALSE))

Moved(s, x, label, r) ==
  /\ r \in Readings
  /\ label = "ERR" => Listing(s, x, r) /\ r.open = s.open \ {x} /\ r.order = s.order
  /\ label = "discovered" =>
       /\ r.problems = s.problems /\ r.named = s.named /\ r.open = s.open \cup {x}
       /\ r.order = IF x \in Range(s.order) THEN s.order ELSE Append(s.order, x)
  /\ label = "metadata" => r = s
  /\ label \in {"uploaded", "duplicate"} =>
       /\ r.problems = s.problems /\ r.named = s.named
       /\ r.open = s.open \ {x} /\ r.order = s.order

Line(label, x) == [label |-> label, file |-> x]

\* A line moves the reading as Moved says.
LEMMA ReadLineIs ==
  ASSUME NEW s \in Readings, NEW x \in Logged, NEW label
  PROVE  Moved(s, x, label, ReadLine(s, Line(label, x)))
<1> DEFINE r == ReadLine(s, Line(label, x))
           added == IF x \in s.named THEN s.problems ELSE Add(s.problems, Left(x, FALSE))
<1>1. /\ s.problems \in Seq(Problem) /\ s.named \in SUBSET Logged
      /\ s.open \in SUBSET Logged /\ s.order \in Seq(Logged)
      /\ s = [problems |-> s.problems, named |-> s.named, open |-> s.open, order |-> s.order]
  BY DEF Readings
<1>2. Left(x, FALSE) \in Problem
  BY LogNameAssumption DEF Left, Problem, Names, Logged
<1>3. added \in Seq(Problem) /\ Append(s.order, x) \in Seq(Logged)
  <2>1. \A ps \in Seq(Problem), p \in Problem : Append(ps, p) \in Seq(Problem)
    OBVIOUS
  <2>2. Append(s.order, x) \in Seq(Logged)
    BY <1>1
  <2> QED BY <1>1, <1>2, <2>1, <2>2 DEF Add
<1>4. CASE label = "ERR"
  <2>1. r = [s EXCEPT !.problems = added, !.named = @ \cup {x}, !.open = @ \ {x}]
    BY <1>4 DEF ReadLine, Line
  <2> HIDE DEF added, r
  <2>2. r = [problems |-> added, named |-> s.named \cup {x}, open |-> s.open \ {x},
             order |-> s.order]
    BY <1>1, <2>1
  <2>3. r \in Readings
    BY <1>1, <1>3, <2>2 DEF Readings
  <2>4. Moved(s, x, label, r)
    BY <1>4, <2>2, <2>3 DEF Moved, Listing, added
  <2> QED BY <2>4 DEF r
<1>5. CASE label = "discovered"
  <2> DEFINE order == IF x \in Range(s.order) THEN s.order ELSE Append(s.order, x)
  <2>1. r = [s EXCEPT !.open = @ \cup {x}, !.order = order]
    BY <1>5 DEF ReadLine, Line
  <2>0. order \in Seq(Logged)
    BY <1>1, <1>3
  <2> HIDE DEF r, order
  <2>2. r = [problems |-> s.problems, named |-> s.named, open |-> s.open \cup {x},
             order |-> order]
    BY <1>1, <2>1
  <2>3. r \in Readings
    BY <1>1, <2>0, <2>2 DEF Readings
  <2>4. Moved(s, x, label, r)
    BY <1>5, <2>2, <2>3 DEF Moved, order
  <2> QED BY <2>4 DEF r
<1>6. CASE label = "metadata"
  BY <1>6 DEF ReadLine, Line, Moved
<1>7. CASE label \notin {"ERR", "discovered", "metadata"}
  <2>1. r = [s EXCEPT !.open = @ \ {x}]
    BY <1>7 DEF ReadLine, Line
  <2> HIDE DEF r
  <2>2. r = [problems |-> s.problems, named |-> s.named, open |-> s.open \ {x},
             order |-> s.order]
    BY <1>1, <2>1
  <2>3. r \in Readings
    BY <1>1, <2>2 DEF Readings
  <2> QED BY <1>7, <2>2, <2>3 DEF Moved, r
<1> QED BY <1>4, <1>5, <1>6, <1>7

\* How each outcome moves it.
ReadOn(s, x, o, r) ==
  /\ r \in Readings
  /\ \/ r.order = s.order
     \/ x \notin Range(s.order) /\ r.order = Append(s.order, x)
  /\ o \in {"errors", "extra"} => Listing(s, x, r) /\ r.open = s.open \ {x}
  /\ o \notin {"errors", "extra"} => r.problems = s.problems /\ r.named = s.named
  /\ o = "pending" => r.open = s.open \cup {x}
  /\ o \notin {"errors", "extra", "pending"} => r.open \subseteq s.open

\* So do all lines about a file, one after another.
LEMMA ReadFileIs ==
  ASSUME NEW s \in Readings, NEW f \in Files, NEW o \in DOMAIN Outcomes
  PROVE  ReadOn(s, LogName[f], o, ReadFile(s, f, o))
<1> DEFINE x == LogName[f]
           found == ReadLine(s, Line("discovered", x))
           up == ReadLine(found, Line("uploaded", x))
           known == ReadLine(found, Line("duplicate", x))
           err == ReadLine(found, Line("ERR", x))
           both == ReadLine(up, Line("ERR", x))
<1>1. x \in Logged
  BY DEF Logged
<1> HIDE DEF x
<1>2. Moved(s, x, "discovered", found)
  BY <1>1, ReadLineIs
<1>3. found \in Readings
  BY <1>2 DEF Moved
<1> HIDE DEF found
<1>4. /\ Moved(found, x, "uploaded", up) /\ Moved(found, x, "duplicate", known)
      /\ Moved(found, x, "ERR", err) /\ ReadLine(found, Line("metadata", x)) = found
  <2>1. Moved(found, x, "metadata", ReadLine(found, Line("metadata", x)))
    BY <1>1, <1>3, ReadLineIs
  <2> QED BY SMTT(30), <1>1, <1>3, <2>1, ReadLineIs DEF Moved
<1>5. up \in Readings
  BY <1>4 DEF Moved
<1> HIDE DEF up, known, err
<1>13. Moved(up, x, "ERR", both)
  BY <1>1, <1>5, ReadLineIs
<1> HIDE DEF both
<1>6. /\ \A l1, l2, l3 : Outcomes[o].lines = <<l1, l2, l3>> =>
           ReadFile(s, f, o) = ReadLine(ReadLine(ReadLine(s, Line(l1, x)), Line(l2, x)), Line(l3, x))
      /\ \A l1, l2 : Outcomes[o].lines = <<l1, l2>> =>
           ReadFile(s, f, o) = ReadLine(ReadLine(s, Line(l1, x)), Line(l2, x))
      /\ Outcomes[o].lines = <<>> => ReadFile(s, f, o) = s
  BY DEF ReadFile, Line, x
<1>7. CASE o = "processed"
  <2>1. Outcomes[o].lines = <<"discovered", "metadata", "uploaded">>
    BY <1>7 DEF Outcomes
  <2>2. ReadFile(s, f, o) = up
    BY <1>4, <1>6, <2>1 DEF found, up
  <2> QED BY <1>2, <1>4, <1>13, <1>7, <2>2 DEF Moved, ReadOn, Listing, x
<1>8. CASE o = "extra"
  <2>1. Outcomes[o].lines = <<"discovered", "uploaded", "ERR">>
    BY <1>8 DEF Outcomes
  <2>2. ReadFile(s, f, o) = both
    BY <1>4, <1>6, <2>1 DEF found, up, both
  <2> QED BY <1>2, <1>4, <1>13, <1>8, <2>2 DEF Moved, ReadOn, Listing, x
<1>9. CASE o = "discarded"
  <2>1. Outcomes[o].lines = <<"discovered", "duplicate">>
    BY <1>9 DEF Outcomes
  <2>2. ReadFile(s, f, o) = known
    BY <1>4, <1>6, <2>1 DEF found, known
  <2> QED BY <1>2, <1>4, <1>13, <1>9, <2>2 DEF Moved, ReadOn, Listing, x
<1>10. CASE o = "errors"
  <2>1. Outcomes[o].lines = <<"discovered", "ERR">>
    BY <1>10 DEF Outcomes
  <2>2. ReadFile(s, f, o) = err
    BY <1>4, <1>6, <2>1 DEF found, err
  <2> QED BY <1>2, <1>4, <1>13, <1>10, <2>2 DEF Moved, ReadOn, Listing, x
<1>11. CASE o = "pending"
  <2>1. Outcomes[o].lines = <<"discovered", "metadata">>
    BY <1>11 DEF Outcomes
  <2>2. ReadFile(s, f, o) = found
    BY <1>4, <1>6, <2>1 DEF found
  <2> QED BY <1>2, <1>4, <1>13, <1>11, <2>2 DEF Moved, ReadOn, Listing, x
<1>12. CASE o \in {"lost", "skipped"}
  <2>1. Outcomes[o].lines = <<>>
    BY <1>12 DEF Outcomes
  <2> QED BY <1>6, <1>12, <2>1 DEF ReadOn, x
<1> QED BY <1>7, <1>8, <1>9, <1>10, <1>11, <1>12 DEF Outcomes

Runs(sent, out) ==
  /\ sent \in Seq(Files) /\ out \in [DOMAIN sent -> DOMAIN Outcomes]
  /\ \A i, j \in DOMAIN sent : sent[i] = sent[j] => i = j

Start == [problems |-> <<>>, named |-> {}, open |-> {}, order |-> <<>>]

\* The log is read file by file.
LEMMA ReadLogSteps ==
  ASSUME NEW sent, NEW out, Runs(sent, out)
  PROVE  /\ ReadLog(sent, out)[0] = Start
         /\ \A n \in 1..Len(sent) :
              ReadLog(sent, out)[n] = ReadFile(ReadLog(sent, out)[n - 1], sent[n], out[n])
<1> DEFINE N == Len(sent)
           G == [p \in (1..N) \X Readings |-> ReadFile(p[2], sent[p[1]], out[p[1]])]
           Def(g) == g = [n \in 0..N |-> IF n = 0 THEN Start
                                         ELSE ReadFile(g[n - 1], sent[n], out[n])]
           read == CHOOSE g : Def(g)
<1>1. N \in Nat /\ DOMAIN sent = 1..N /\ \A n \in 1..N : sent[n] \in Files /\ out[n] \in DOMAIN Outcomes
  BY DEF Runs
<1>2. Start \in Readings
  <2>1. <<>> \in Seq(Problem) /\ <<>> \in Seq(Logged)
    OBVIOUS
  <2> QED BY <2>1 DEF Start, Readings
<1>3. ReadLog(sent, out) = read
  BY DEF ReadLog, Start
<1> HIDE DEF N
<1>4. \A n \in 1..N, q \in Readings : ReadFile(q, sent[n], out[n]) \in Readings
  BY <1>1, ReadFileIs DEF ReadOn
<1>5. G \in [(1..N) \X Readings -> Readings]
  BY <1>4
<1>6. \A n \in 1..N, q \in Readings : G[<<n, q>>] = ReadFile(q, sent[n], out[n])
  OBVIOUS
<1> HIDE DEF G
<1>7. PICK g \in [0..N -> Readings] : Unfolds(g, N, Start, G)
  BY <1>1, <1>2, <1>5, Recursion
<1>8. Def(g)
  <2>1. ASSUME NEW n \in 0..N, n # 0 PROVE g[n] = ReadFile(g[n - 1], sent[n], out[n])
    <3>1. n \in 1..N /\ n - 1 \in 0..N
      BY <1>1, <2>1
    <3>2. g[n - 1] \in Readings
      BY <3>1
    <3> QED BY <1>6, <1>7, <3>1, <3>2 DEF Unfolds
  <2>2. \A n \in 0..N : g[n] = IF n = 0 THEN Start ELSE ReadFile(g[n - 1], sent[n], out[n])
    BY <1>7, <2>1 DEF Unfolds
  <2> QED BY <1>7, <2>2
<1>9. Def(read)
  <2> HIDE DEF Def
  <2> QED BY <1>8
<1> HIDE DEF read
<1>10. read[0] = Start
  <2>1. 0 \in 0..N
    BY <1>1
  <2> QED BY <1>9, <2>1
<1>11. ASSUME NEW n \in 1..N PROVE read[n] = ReadFile(read[n - 1], sent[n], out[n])
  <2>1. n \in 0..N /\ n # 0
    BY <1>1
  <2> QED BY <1>9, <2>1
<1> QED BY <1>3, <1>10, <1>11 DEF N

\* A name that is a file's is the name of that file only.
LEMMA NameOfOne ==
  ASSUME NEW f \in Files, LogName[f] \in Files
  PROVE  LogName[f] = f
BY LogNameAssumption

\* What has been read of n files: each name with an error is on the list once, and
\* none of a file is both there and open.
Reading(s, sent, out, n) ==
  /\ s \in Readings
  /\ Len(s.problems) <= MaxProblems
  /\ \A k \in DOMAIN s.problems : s.problems[k].file \in s.named
  /\ \A j, k \in DOMAIN s.problems : s.problems[j].file = s.problems[k].file => j = k
  /\ \A j, k \in DOMAIN s.order : s.order[j] = s.order[k] => j = k
  /\ s.open \cap s.named \cap Files = {}
  /\ \A x \in s.named : \E i \in 1..n : LogName[sent[i]] = x /\ out[i] \in {"errors", "extra"}
  /\ \A x \in s.open : \E i \in 1..n : LogName[sent[i]] = x /\ out[i] = "pending"

\* A sequence with one more at its end.
LEMMA AppendIs ==
  ASSUME NEW X, NEW q \in Seq(X), NEW x \in X
  PROVE  /\ Len(q) \in Nat /\ DOMAIN q = 1..Len(q)
         /\ Len(Append(q, x)) = Len(q) + 1 /\ DOMAIN Append(q, x) = 1..Len(q) + 1
         /\ \A k \in 1..Len(q) : Append(q, x)[k] = q[k]
         /\ Append(q, x)[Len(q) + 1] = x
         /\ \A k \in DOMAIN Append(q, x) : k \in DOMAIN q \/ k = Len(q) + 1
OBVIOUS

\* A problem more, of a file that has none.
LEMMA AddIs ==
  ASSUME NEW ps \in Seq(Problem), NEW x \in Logged, Len(ps) <= MaxProblems
  PROVE  LET qs == Add(ps, Left(x, FALSE)) IN
         /\ Len(qs) <= MaxProblems
         /\ \A k \in DOMAIN qs : \/ k \in DOMAIN ps /\ qs[k] = ps[k]
                                 \/ k = Len(ps) + 1 /\ qs[k].file = x
<1>1. CASE Len(ps) < MaxProblems
  <2> DEFINE p == Left(x, FALSE)
  <2>1. p \in Problem /\ p.file = x
    BY LogNameAssumption DEF Left, Problem, Names, Logged
  <2>2. Add(ps, p) = Append(ps, p)
    BY <1>1 DEF Add
  <2> HIDE DEF p
  <2>3. /\ Len(Append(ps, p)) = Len(ps) + 1 /\ Len(ps) \in Nat /\ DOMAIN ps = 1..Len(ps)
        /\ \A k \in 1..Len(ps) : Append(ps, p)[k] = ps[k]
        /\ Append(ps, p)[Len(ps) + 1] = p
        /\ \A k \in DOMAIN Append(ps, p) : k \in DOMAIN ps \/ k = Len(ps) + 1
    BY <2>1, AppendIs
  <2>4. Len(Add(ps, p)) <= MaxProblems
    BY <1>1, <2>2, <2>3, MaxProblemsAssumption
  <2> QED BY <2>1, <2>2, <2>3, <2>4 DEF p
<1>2. CASE ~(Len(ps) < MaxProblems)
  BY <1>2 DEF Add
<1> QED BY <1>1, <1>2

\* One file more.
LEMMA ReadingStep ==
  ASSUME NEW sent, NEW out, Runs(sent, out), NEW n \in 1..Len(sent), NEW s,
         Reading(s, sent, out, n - 1)
  PROVE  Reading(ReadFile(s, sent[n], out[n]), sent, out, n)
<1> DEFINE r == ReadFile(s, sent[n], out[n])
           x == LogName[sent[n]]
           o == out[n]
<1>1. /\ Len(sent) \in Nat /\ DOMAIN sent = 1..Len(sent) /\ sent[n] \in Files
      /\ o \in DOMAIN Outcomes /\ \A i \in 1..n - 1 : i \in 1..n /\ i \in DOMAIN sent /\ i # n
  BY DEF Runs
<1>2. s \in Readings /\ ReadOn(s, x, o, r)
  BY <1>1, ReadFileIs DEF Reading
<1> HIDE DEF r
<1>3. x \in Logged /\ r \in Readings /\ n \in 1..n
  BY <1>1, <1>2 DEF Logged, ReadOn
<1>4. x \in Files => x \notin s.named
  <2> SUFFICES ASSUME x \in Files, x \in s.named PROVE FALSE
    OBVIOUS
  <2>1. PICK i \in 1..n - 1 : LogName[sent[i]] = x
    BY DEF Reading
  <2>2. sent[i] \in Files
    BY <1>1 DEF Runs
  <2>3. sent[i] = x /\ sent[n] = x
    BY <1>1, <2>1, <2>2, NameOfOne
  <2> QED BY <1>1, <2>3 DEF Runs
<1>5. \/ r.named = s.named
      \/ o \in {"errors", "extra"} /\ r.named = s.named \cup {x}
  BY <1>2 DEF ReadOn, Listing
<1>6. \/ r.problems = s.problems
      \/ x \notin s.named /\ x \in r.named /\ r.problems = Add(s.problems, Left(x, FALSE))
  BY <1>2 DEF ReadOn, Listing
<1>7. \/ r.open \subseteq s.open /\ (r.named # s.named => r.open = s.open \ {x})
      \/ o = "pending" /\ r.named = s.named /\ r.open = s.open \cup {x}
  <2>1. CASE o \in {"errors", "extra"}
    BY <1>2, <2>1 DEF ReadOn
  <2>2. CASE o \notin {"errors", "extra"}
    BY <1>2, <2>2 DEF ReadOn
  <2> QED BY <2>1, <2>2
<1>8. /\ Len(r.problems) <= MaxProblems
      /\ \A k \in DOMAIN r.problems : r.problems[k].file \in r.named
      /\ \A j, k \in DOMAIN r.problems : r.problems[j].file = r.problems[k].file => j = k
  <2>1. CASE r.problems = s.problems
    BY <1>5, <2>1 DEF Reading
  <2>2. CASE x \notin s.named /\ x \in r.named /\ r.problems = Add(s.problems, Left(x, FALSE))
    <3>1. s.problems \in Seq(Problem) /\ Len(s.problems) <= MaxProblems
      BY DEF Reading, Readings
    <3>2. /\ Len(r.problems) <= MaxProblems
          /\ \A k \in DOMAIN r.problems :
               \/ k \in DOMAIN s.problems /\ r.problems[k] = s.problems[k]
               \/ k = Len(s.problems) + 1 /\ r.problems[k].file = x
      BY <1>3, <2>2, <3>1, AddIs
    <3>3. \A k \in DOMAIN s.problems : s.problems[k].file \in s.named /\ s.problems[k].file # x
      BY <2>2 DEF Reading
    <3>4. \A j, k \in DOMAIN s.problems : s.problems[j].file = s.problems[k].file => j = k
      BY DEF Reading
    <3>5. s.named \subseteq r.named
      BY <1>5
    <3> QED BY <2>2, <3>2, <3>3, <3>4, <3>5
  <2> QED BY <1>6, <2>1, <2>2
<1>9. \A j, k \in DOMAIN r.order : r.order[j] = r.order[k] => j = k
  <2>1. CASE r.order = s.order
    BY <2>1 DEF Reading
  <2>2. CASE x \notin Range(s.order) /\ r.order = Append(s.order, x)
    <3>1. s.order \in Seq(Logged)
      BY <1>2 DEF Readings
    <3>2. /\ \A k \in DOMAIN s.order : s.order[k] # x
          /\ \A j, k \in DOMAIN s.order : s.order[j] = s.order[k] => j = k
      BY <2>2 DEF Range, Reading
    <3>3. /\ \A k \in DOMAIN s.order : r.order[k] = s.order[k]
          /\ \A k \in DOMAIN r.order : k \in DOMAIN s.order \/ k = Len(s.order) + 1
          /\ r.order[Len(s.order) + 1] = x
      BY <1>3, <2>2, <3>1, AppendIs
    <3> QED BY <3>2, <3>3
  <2> QED BY <1>2, <2>1, <2>2 DEF ReadOn
<1>10. r.open \cap r.named \cap Files = {}
  BY <1>4, <1>5, <1>7 DEF Reading
<1>11. \A y \in r.named : \E i \in 1..n : LogName[sent[i]] = y /\ out[i] \in {"errors", "extra"}
  BY <1>1, <1>3, <1>5 DEF Reading
<1>12. \A y \in r.open : \E i \in 1..n : LogName[sent[i]] = y /\ out[i] = "pending"
  BY <1>1, <1>3, <1>7 DEF Reading
<1> QED BY <1>3, <1>8, <1>9, <1>10, <1>11, <1>12 DEF Reading, r

\* All of them.
LEMMA ReadingIs ==
  ASSUME NEW sent, NEW out, Runs(sent, out)
  PROVE  Reading(ReadLog(sent, out)[Len(sent)], sent, out, Len(sent))
<1> DEFINE N == Len(sent)
           Good(n) == Reading(ReadLog(sent, out)[n], sent, out, n)
           S == {n \in 0..N : Good(n)}
<1>1. N \in Nat
  BY DEF Runs
<1>2. Good(0)
  <2>1. Start \in Readings
    <3>1. <<>> \in Seq(Problem) /\ <<>> \in Seq(Logged)
      OBVIOUS
    <3> QED BY <3>1 DEF Start, Readings
  <2>2. Start.problems = <<>> /\ Start.order = <<>> /\ Start.named = {} /\ Start.open = {}
    BY DEF Start
  <2>3. Reading(Start, sent, out, 0)
    BY <2>1, <2>2, MaxProblemsAssumption DEF Reading
  <2> QED BY <2>3, ReadLogSteps
<1>3. \A n \in 1..N : Good(n - 1) => Good(n)
  BY ReadingStep, ReadLogSteps
<1> HIDE DEF Good, N
<1>4. 0 \in S /\ \A n \in 1..N : n - 1 \in S => n \in S
  BY <1>1, <1>2, <1>3
<1>5. 0..N \subseteq S
  <2> HIDE DEF S
  <2> QED BY <1>1, <1>4, Climb
<1>6. Good(N)
  BY <1>1, <1>5
<1> QED BY <1>6 DEF Good, N

\* Two sequences, one behind the other.
LEMMA ConcatIs ==
  ASSUME NEW X, NEW q \in Seq(X), NEW r \in Seq(X)
  PROVE  /\ q \o r \in Seq(X) /\ Len(q \o r) = Len(q) + Len(r)
         /\ \A k \in DOMAIN (q \o r) :
              \/ k \in DOMAIN q /\ (q \o r)[k] = q[k]
              \/ k - Len(q) \in DOMAIN r /\ k \notin DOMAIN q /\ (q \o r)[k] = r[k - Len(q)]
         /\ \A k \in DOMAIN q : k \in DOMAIN (q \o r) /\ (q \o r)[k] = q[k]
         /\ \A k \in DOMAIN r : Len(q) + k \in DOMAIN (q \o r) /\ (q \o r)[Len(q) + k] = r[k]
OBVIOUS

\* The list is cut, not changed.
LEMMA ShownIs ==
  ASSUME NEW q \in Seq(Problem)
  PROVE  /\ Shown(q) \in Seq(Problem) /\ Len(Shown(q)) <= MaxProblems
         /\ \A k \in DOMAIN Shown(q) : k \in DOMAIN q /\ Shown(q)[k] = q[k]
<1>1. MaxProblems \in Nat /\ Len(q) \in Nat
  BY MaxProblemsAssumption
<1>2. CASE Len(q) <= MaxProblems
  BY <1>2 DEF Shown
<1>3. CASE ~(Len(q) <= MaxProblems)
  <2>1. Shown(q) = SubSeq(q, 1, MaxProblems)
    BY <1>3 DEF Shown
  <2>2. /\ SubSeq(q, 1, MaxProblems) \in Seq(Problem)
        /\ Len(SubSeq(q, 1, MaxProblems)) = MaxProblems
        /\ \A k \in 1..MaxProblems : k \in DOMAIN q /\ SubSeq(q, 1, MaxProblems)[k] = q[k]
        /\ DOMAIN SubSeq(q, 1, MaxProblems) = 1..MaxProblems
    BY <1>1, <1>3
  <2> QED BY <1>1, <2>1, <2>2
<1> QED BY <1>2, <1>3

\* What the log says is about files that the run had trouble with, or (extra) seemed
\* to have; a file is named once.
Told(ps, sent, out) ==
  /\ Listed(ps) /\ Len(ps) <= MaxProblems
  /\ \A k \in DOMAIN ps : \E i \in DOMAIN sent :
       ps[k].file = LogName[sent[i]] /\ out[i] \in {"errors", "extra", "pending"}

\* What an import reports as left out is told by its log.
LEMMA ProblemsTold ==
  ASSUME NEW sent, NEW out, Runs(sent, out)
  PROVE  Told(immichProblems(sent, out), sent, out)
<1> DEFINE s == ReadLog(sent, out)[Len(sent)]
           found == [i \in DOMAIN s.order |-> Left(s.order[i], TRUE)]
           kept == Keep(found, s.open)
           all == s.problems \o kept
<1>1. immichProblems(sent, out) = Shown(all)
  BY DEF immichProblems
<1>2. Reading(s, sent, out, Len(sent))
  BY ReadingIs
<1>3. Len(sent) \in Nat /\ DOMAIN sent = 1..Len(sent)
  BY DEF Runs
<1> HIDE DEF s
<1>4. /\ s.problems \in Seq(Problem) /\ s.order \in Seq(Logged)
      /\ s.open \subseteq Logged /\ s.named \subseteq Logged
  BY <1>2 DEF Reading, Readings
<1>5. /\ found \in Seq(Problem) /\ Len(found) = Len(s.order)
      /\ \A i \in DOMAIN s.order : i \in DOMAIN found /\ found[i].file = s.order[i]
      /\ DOMAIN found = DOMAIN s.order
  <2>1. \A i \in DOMAIN s.order : s.order[i] \in Logged
    BY <1>4
  <2>2. \A x \in Logged : Left(x, TRUE) \in Problem /\ Left(x, TRUE).file = x
    BY LogNameAssumption DEF Left, Problem, Names, Logged
  <2>3. DOMAIN s.order = 1..Len(s.order) /\ Len(s.order) \in Nat
    BY <1>4
  <2>4. found \in [1..Len(s.order) -> Problem]
    BY <2>1, <2>2, <2>3
  <2>5. found \in Seq(Problem) /\ Len(found) = Len(s.order)
    <3> HIDE DEF found
    <3> QED BY <2>3, <2>4
  <2> QED BY <2>1, <2>2, <2>5
<1> HIDE DEF found
<1>6. kept \in Seq(Problem) /\ \E j : Picks(kept, found, s.open, Len(found), j)
  BY <1>5, KeepIs
<1>7. PICK j : Picks(kept, found, s.open, Len(found), j)
  BY <1>6
<1> HIDE DEF kept
<1>8. Len(kept) \in Nat /\ DOMAIN kept = 1..Len(kept) /\ DOMAIN found = 1..Len(found)
  BY <1>5, <1>6
<1>9. \A a \in DOMAIN kept : kept[a].file \in s.open /\ kept[a].file = s.order[j[a]] /\ j[a] \in DOMAIN s.order
  BY <1>5, <1>7, <1>8 DEF Picks
<1>10. \A a, b \in DOMAIN kept : kept[a].file = kept[b].file => a = b
  <2>1. \A a, b \in DOMAIN s.order : s.order[a] = s.order[b] => a = b
    BY <1>2 DEF Reading
  <2>2. \A a, b \in DOMAIN kept : j[a] = j[b] => a = b
    BY <1>7, <1>8 DEF Picks
  <2> QED BY <1>9, <2>1, <2>2
<1>11. /\ all \in Seq(Problem)
       /\ \A k \in DOMAIN all :
            \/ k \in DOMAIN s.problems /\ all[k] = s.problems[k]
            \/ /\ k - Len(s.problems) \in DOMAIN kept /\ k \notin DOMAIN s.problems
               /\ all[k] = kept[k - Len(s.problems)]
  BY <1>4, <1>6, ConcatIs
<1> HIDE DEF all
<1>12. \A k \in DOMAIN s.problems : s.problems[k].file \in s.named
  BY <1>2 DEF Reading
<1>13. Apart(all)
  <2> SUFFICES ASSUME NEW a \in DOMAIN all, NEW b \in DOMAIN all,
                      all[a].file = all[b].file, all[b].file \in Files
               PROVE  a = b
    BY DEF Apart
  <2>1. \A c, d \in DOMAIN s.problems : s.problems[c].file = s.problems[d].file => c = d
    BY <1>2 DEF Reading
  <2>2. s.open \cap s.named \cap Files = {}
    BY <1>2 DEF Reading
  <2>3. a \in Nat /\ b \in Nat /\ Len(s.problems) \in Nat
    BY <1>4, <1>11
  <2> QED BY SMTT(30), <1>9, <1>10, <1>11, <1>12, <2>1, <2>2, <2>3
<1>14. \A k \in DOMAIN all : all[k].file \in s.named \cup s.open
  BY <1>9, <1>11, <1>12
<1>15. \A x \in s.named \cup s.open : \E i \in DOMAIN sent :
         x = LogName[sent[i]] /\ out[i] \in {"errors", "extra", "pending"}
  BY <1>2, <1>3 DEF Reading
<1> DEFINE ps == Shown(all)
<1>16. /\ ps \in Seq(Problem) /\ Len(ps) <= MaxProblems
       /\ \A k \in DOMAIN ps : k \in DOMAIN all /\ ps[k] = all[k]
  BY <1>11, ShownIs
<1> HIDE DEF ps
<1>17. Apart(ps)
  BY <1>13, <1>16 DEF Apart
<1>18. NamesOf(ps) \subseteq Logged
  BY <1>4, <1>14, <1>16 DEF NamesOf
<1>19. Told(ps, sent, out)
  BY <1>14, <1>15, <1>16, <1>17, <1>18 DEF Told, Listed
<1> QED BY <1>1, <1>19 DEF ps

----------------------------------------------------------------------------
(* Counting *)

In(sent, out, c) == {sent[i] : i \in With(out, c)}

Counts == {"processed", "discarded", "errors", "pending", "none"}

\* A sequence without repetition has as many members as positions.
LEMMA Image ==
  ASSUME NEW f, NEW K, K \subseteq DOMAIN f, IsFiniteSet(K),
         \A i, j \in K : f[i] = f[j] => i = j
  PROVE  IsFiniteSet({f[i] : i \in K}) /\ Cardinality({f[i] : i \in K}) = Cardinality(K)
<1> DEFINE g == [i \in K |-> f[i]]
           T == {f[i] : i \in K}
<1>1. g \in Bijection(K, T)
  BY DEF Bijection, Injection, Surjection, IsInjective
<1>2. ExistsBijection(K, T)
  BY <1>1 DEF ExistsBijection
<1> QED BY <1>2, FS_Bijection

\* Two sets apart have as many members as both together.
LEMMA Disjoint ==
  ASSUME NEW S, NEW T, IsFiniteSet(S), IsFiniteSet(T), S \cap T = {}
  PROVE  /\ IsFiniteSet(S \cup T)
         /\ Cardinality(S) \in Nat /\ Cardinality(T) \in Nat
         /\ Cardinality(S \cup T) = Cardinality(S) + Cardinality(T)
<1>1. Cardinality(S) \in Nat /\ Cardinality(T) \in Nat
  BY FS_CardinalityType
<1>2. /\ IsFiniteSet(S \cup T)
      /\ Cardinality(S \cup T) = Cardinality(S) + Cardinality(T) - Cardinality(S \cap T)
  BY FS_Union
<1>3. Cardinality(S \cap T) = 0
  BY FS_EmptySet
<1> QED BY <1>1, <1>2, <1>3

\* A sequence has as many positions as it is long.
LEMMA DomainFinite ==
  ASSUME NEW X, NEW q \in Seq(X)
  PROVE  /\ DOMAIN q = 1..Len(q) /\ Len(q) \in Nat
         /\ IsFiniteSet(DOMAIN q) /\ Cardinality(DOMAIN q) = Len(q)
<1>1. DOMAIN q = 1..Len(q) /\ Len(q) \in Nat
  OBVIOUS
<1>2. IsFiniteSet(1..Len(q)) /\ Cardinality(1..Len(q)) = Len(q)
  BY <1>1, FS_Interval
<1> QED BY <1>1, <1>2

\* A list of files without repetition.
LEMMA AllReal ==
  ASSUME NEW ps \in Seq(Problem), Apart(ps), NamesOf(ps) \subseteq Files
  PROVE  Cardinality(NamesOf(ps)) = Len(ps)
<1> DEFINE f == [k \in DOMAIN ps |-> ps[k].file]
<1>1. \A i, j \in DOMAIN ps : f[i] = f[j] => i = j
  BY DEF Apart, NamesOf
<1>2. NamesOf(ps) = {f[k] : k \in DOMAIN ps}
  BY DEF NamesOf
<1>3. DOMAIN f = DOMAIN ps
  OBVIOUS
<1> HIDE DEF f
<1>4. Cardinality({f[k] : k \in DOMAIN ps}) = Cardinality(DOMAIN ps)
  <2>1. IsFiniteSet(DOMAIN ps) /\ DOMAIN ps \subseteq DOMAIN f
    BY <1>3, DomainFinite
  <2> QED BY <1>1, <2>1, Image
<1> QED BY <1>2, <1>4, DomainFinite

\* Every file sent is in one count.
LEMMA InOne ==
  ASSUME NEW sent, NEW out, Runs(sent, out)
  PROVE  /\ \A c \in Counts :
              /\ IsFiniteSet(With(out, c)) /\ Cardinality(With(out, c)) \in Nat
              /\ IsFiniteSet(In(sent, out, c)) /\ In(sent, out, c) \subseteq Files
              /\ Cardinality(In(sent, out, c)) = Cardinality(With(out, c))
         /\ \A c, d \in Counts : c # d => /\ With(out, c) \cap With(out, d) = {}
                                          /\ In(sent, out, c) \cap In(sent, out, d) = {}
         /\ UNION {With(out, c) : c \in Counts} = DOMAIN sent
         /\ UNION {In(sent, out, c) : c \in Counts} = Range(sent)
         /\ IsFiniteSet(Range(sent)) /\ Cardinality(Range(sent)) = Len(sent)
         /\ DOMAIN sent = DOMAIN out
<1>1. /\ sent \in Seq(Files) /\ DOMAIN out = DOMAIN sent
      /\ \A i \in DOMAIN sent : sent[i] \in Files /\ out[i] \in DOMAIN Outcomes
      /\ \A i, j \in DOMAIN sent : sent[i] = sent[j] => i = j
  BY DEF Runs
<1>2. IsFiniteSet(DOMAIN sent) /\ Cardinality(DOMAIN sent) = Len(sent)
  BY <1>1, DomainFinite
<1>3. \A o \in DOMAIN Outcomes : Outcomes[o].count \in Counts
  BY DEF Outcomes, Counts
<1>4. ASSUME NEW c \in Counts
      PROVE  /\ IsFiniteSet(With(out, c)) /\ Cardinality(With(out, c)) \in Nat
             /\ IsFiniteSet(In(sent, out, c)) /\ In(sent, out, c) \subseteq Files
             /\ Cardinality(In(sent, out, c)) = Cardinality(With(out, c))
  <2>1. With(out, c) \in SUBSET DOMAIN sent
    BY <1>1 DEF With
  <2>2. IsFiniteSet(With(out, c)) /\ Cardinality(With(out, c)) \in Nat
    BY <1>2, <2>1, FS_Subset, FS_CardinalityType
  <2>3. IsFiniteSet(In(sent, out, c)) /\ Cardinality(In(sent, out, c)) = Cardinality(With(out, c))
    BY <1>1, <2>1, <2>2, Image DEF In
  <2> QED BY <1>1, <2>1, <2>2, <2>3 DEF In
<1>5. ASSUME NEW c \in Counts, NEW d \in Counts, c # d
      PROVE  /\ With(out, c) \cap With(out, d) = {}
             /\ In(sent, out, c) \cap In(sent, out, d) = {}
  BY <1>1, <1>5 DEF With, In
<1>6. UNION {With(out, c) : c \in Counts} = DOMAIN sent
  <2>1. \A i \in DOMAIN sent : \E c \in Counts : i \in With(out, c)
    BY <1>1, <1>3 DEF With
  <2>2. \A c \in Counts : With(out, c) \subseteq DOMAIN sent
    BY <1>1 DEF With
  <2> QED BY <2>1, <2>2
<1>7. UNION {In(sent, out, c) : c \in Counts} = Range(sent)
  BY <1>6 DEF In, Range
<1>8. IsFiniteSet(Range(sent)) /\ Cardinality(Range(sent)) = Len(sent)
  BY <1>1, <1>2, Image DEF Range
<1> QED BY <1>1, <1>4, <1>5, <1>6, <1>7, <1>8

\* Together the counts are all that were sent.
LEMMA SumOfCounts ==
  ASSUME NEW sent, NEW out, Runs(sent, out)
  PROVE  LET n(c) == Cardinality(With(out, c)) IN
         /\ Len(sent) = n("processed") + n("discarded") + n("errors") + n("pending") + n("none")
         /\ \A c \in Counts : n(c) \in Nat
         /\ Cardinality(With(out, "errors") \cup With(out, "pending") \cup With(out, "none"))
              = n("errors") + n("pending") + n("none")
         /\ Len(sent) \in Nat
<1> DEFINE W(c) == With(out, c)
           n(c) == Cardinality(W(c))
<1>1. /\ \A c \in Counts : IsFiniteSet(W(c)) /\ n(c) \in Nat
      /\ \A c, d \in Counts : c # d => W(c) \cap W(d) = {}
      /\ UNION {W(c) : c \in Counts} = DOMAIN sent
  BY InOne
<1>2. Cardinality(DOMAIN sent) = Len(sent) /\ Len(sent) \in Nat
  BY DomainFinite DEF Runs
<1> HIDE DEF W
<1>3. {"processed", "discarded", "errors", "pending", "none"} = Counts
  BY DEF Counts
<1>4. /\ IsFiniteSet(W("errors") \cup W("pending"))
      /\ Cardinality(W("errors") \cup W("pending")) = n("errors") + n("pending")
  <2>1. W("errors") \cap W("pending") = {} /\ IsFiniteSet(W("errors")) /\ IsFiniteSet(W("pending"))
    BY <1>1, <1>3
  <2> QED BY <2>1, Disjoint
<1> DEFINE L == W("errors") \cup W("pending") \cup W("none")
<1>5. IsFiniteSet(L) /\ Cardinality(L) = n("errors") + n("pending") + n("none")
  <2>1. (W("errors") \cup W("pending")) \cap W("none") = {} /\ IsFiniteSet(W("none"))
    BY <1>1, <1>3
  <2> QED BY <1>4, <2>1, Disjoint
<1>6. /\ IsFiniteSet(L \cup W("processed"))
      /\ Cardinality(L \cup W("processed")) = Cardinality(L) + n("processed")
  <2>1. L \cap W("processed") = {} /\ IsFiniteSet(W("processed"))
    BY <1>1, <1>3
  <2> HIDE DEF L
  <2> QED BY <1>5, <2>1, Disjoint
<1> DEFINE M == L \cup W("processed")
<1>7. /\ IsFiniteSet(M \cup W("discarded"))
      /\ Cardinality(M \cup W("discarded")) = Cardinality(M) + n("discarded")
  <2>1. M \cap W("discarded") = {} /\ IsFiniteSet(W("discarded"))
    BY <1>1, <1>3
  <2>2. IsFiniteSet(M)
    BY <1>6
  <2> HIDE DEF M
  <2> QED BY <2>1, <2>2, Disjoint
<1>8. M \cup W("discarded") = DOMAIN sent
  BY <1>1, <1>3
<1>9. Len(sent) = n("processed") + n("discarded") + n("errors") + n("pending") + n("none")
  <2>1. Cardinality(M) = Cardinality(L) + n("processed")
    BY <1>6
  <2>2. \A c \in {"processed", "discarded", "errors", "pending", "none"} : n(c) \in Nat
    BY <1>1, <1>3
  <2> HIDE DEF M, L, n
  <2> QED BY <1>2, <1>5, <1>7, <1>8, <2>1, <2>2
<1> QED BY <1>1, <1>2, <1>5, <1>9 DEF W

\* A list as long as the files with trouble names, of the files, no other.
LEMMA LogSays ==
  ASSUME NEW sent, NEW out, NEW ps, Runs(sent, out), Told(ps, sent, out),
         ~(NamesOther(out) /\ NamesFewer(sent, out, ps)),
         Len(ps) = Cardinality(With(out, "errors") \cup With(out, "pending") \cup With(out, "none"))
  PROVE  Real(ps) \subseteq In(sent, out, "errors") \cup In(sent, out, "pending")
                              \cup In(sent, out, "none")
<1> DEFINE left == With(out, "errors") \cup With(out, "pending") \cup With(out, "none")
<1>0. /\ left \subseteq DOMAIN sent /\ DOMAIN out = DOMAIN sent
      /\ \A i \in DOMAIN sent : sent[i] \in Files
      /\ ps \in Seq(Problem)
  BY DEF Runs, With, Told, Listed
<1>1. \A k \in DOMAIN ps : \E i \in left : ps[k].file = LogName[sent[i]]
  <2>1. CASE ~NamesOther(out)
    <3> SUFFICES ASSUME NEW k \in DOMAIN ps PROVE \E i \in left : ps[k].file = LogName[sent[i]]
      OBVIOUS
    <3>1. PICK i \in DOMAIN sent : /\ ps[k].file = LogName[sent[i]]
                                   /\ out[i] \in {"errors", "extra", "pending"}
      BY DEF Told
    <3>2. out[i] \in {"errors", "pending"}
      BY <1>0, <2>1, <3>1 DEF NamesOther
    <3>3. Outcomes[out[i]].count \in {"errors", "pending"}
      BY <3>2 DEF Outcomes
    <3>4. i \in left
      BY <1>0, <3>3 DEF With
    <3> QED BY <3>1, <3>4
  <2>2. CASE ~NamesFewer(sent, out, ps)
    <3> DEFINE K == {k \in DOMAIN ps : \E i \in left : ps[k].file = LogName[sent[i]]}
    <3>1. ~(Cardinality(K) < Cardinality(left))
      BY <2>2 DEF NamesFewer
    <3>2. K \in SUBSET DOMAIN ps
      OBVIOUS
    <3>3. /\ IsFiniteSet(DOMAIN ps) /\ Cardinality(DOMAIN ps) = Len(ps) /\ Len(ps) \in Nat
      BY <1>0, DomainFinite
    <3>4. Cardinality(left) = Len(ps)
      OBVIOUS
    <3> HIDE DEF K, left
    <3>5. /\ Cardinality(K) <= Cardinality(DOMAIN ps) /\ IsFiniteSet(K)
          /\ Cardinality(DOMAIN ps) = Cardinality(K) => DOMAIN ps = K
      BY <3>2, <3>3, FS_Subset
    <3>6. Cardinality(K) \in Nat
      BY <3>5, FS_CardinalityType
    <3>7. DOMAIN ps = K
      BY <3>1, <3>3, <3>4, <3>5, <3>6
    <3> QED BY <3>7 DEF K
  <2> QED BY <2>1, <2>2
<1>2. ASSUME NEW x \in Real(ps)
      PROVE  \E i \in left : x = sent[i]
  <2>1. PICK k \in DOMAIN ps : x = ps[k].file
    BY DEF Real, NamesOf
  <2>2. PICK i \in left : x = LogName[sent[i]]
    BY <1>1, <2>1
  <2>3. x \in Files
    BY DEF Real
  <2> QED BY <1>0, <2>2, <2>3, NameOfOne
<1> QED BY <1>2 DEF In

----------------------------------------------------------------------------
(* The parts of a list *)

\* The names of a list, as the model writes them.
LEMMA NamesAre ==
  ASSUME NEW ps \in Seq(Problem)
  PROVE  NamesOf(ps) \subseteq Names /\ {p.file : p \in Range(ps)} = NamesOf(ps)
<1>1. \A k \in DOMAIN ps : ps[k] \in Problem
  OBVIOUS
<1>2. NamesOf(ps) \subseteq Names
  BY <1>1 DEF NamesOf, Problem
<1> QED BY <1>2 DEF NamesOf, Range

\* A part of a list is a list, with the names that were asked for.
LEMMA KeepListed ==
  ASSUME NEW ps, NEW F, Listed(ps)
  PROVE  Listed(Keep(ps, F)) /\ NamesOf(Keep(ps, F)) = NamesOf(ps) \cap F
<1> DEFINE q == Keep(ps, F)
<1>1. ps \in Seq(Problem) /\ q \in Seq(Problem)
  BY KeepIs DEF Listed
<1>2. PICK j : Picks(q, ps, F, Len(ps), j)
  BY <1>1, KeepIs
<1> HIDE DEF q
<1>3. /\ DOMAIN ps = 1..Len(ps) /\ DOMAIN q = 1..Len(q)
  BY <1>1
<1>4. \A a \in DOMAIN q : j[a] \in DOMAIN ps /\ q[a] = ps[j[a]] /\ q[a].file \in F
  BY <1>2, <1>3 DEF Picks
<1>5. \A i \in DOMAIN ps : ps[i].file \in F => \E a \in DOMAIN q : q[a] = ps[i]
  <2> SUFFICES ASSUME NEW i \in DOMAIN ps, ps[i].file \in F
               PROVE  \E a \in DOMAIN q : q[a] = ps[i]
    OBVIOUS
  <2>1. PICK a \in DOMAIN q : j[a] = i
    BY <1>2, <1>3 DEF Picks
  <2> QED BY <1>4, <2>1
<1>6. NamesOf(q) = NamesOf(ps) \cap F
  BY <1>4, <1>5 DEF NamesOf
<1>7. Apart(q)
  <2>1. \A a, b \in DOMAIN q : j[a] = j[b] => a = b
    BY <1>2, <1>3 DEF Picks
  <2> QED BY <1>4, <2>1 DEF Listed, Apart
<1>8. Listed(q)
  BY <1>1, <1>6, <1>7 DEF Listed
<1> QED BY <1>6, <1>8 DEF q

\* As many as have their file in F.
LEMMA KeepLen ==
  ASSUME NEW ps \in Seq(Problem), NEW F
  PROVE  Len(Keep(ps, F)) = Cardinality({i \in DOMAIN ps : ps[i].file \in F})
<1> DEFINE q == Keep(ps, F)
           T == {i \in DOMAIN ps : ps[i].file \in F}
<1>1. q \in Seq(Problem)
  BY KeepIs
<1>2. PICK j : Picks(q, ps, F, Len(ps), j)
  BY KeepIs
<1> HIDE DEF q
<1>3. DOMAIN ps = 1..Len(ps) /\ DOMAIN q = 1..Len(q)
  BY <1>1
<1>4. T = {j[a] : a \in DOMAIN q} /\ DOMAIN q \subseteq DOMAIN j
  BY SMTT(30), <1>2, <1>3 DEF Picks
<1>5. IsFiniteSet(DOMAIN q) /\ Cardinality(DOMAIN q) = Len(q)
  BY <1>1, DomainFinite
<1>6. \A a, b \in DOMAIN q : j[a] = j[b] => a = b
  BY <1>2, <1>3 DEF Picks
<1>7. Cardinality({j[a] : a \in DOMAIN q}) = Cardinality(DOMAIN q)
  <2> DEFINE D == DOMAIN q
  <2>1. D \subseteq DOMAIN j /\ IsFiniteSet(D) /\ \A a, b \in D : j[a] = j[b] => a = b
    BY <1>4, <1>5, <1>6
  <2> HIDE DEF D
  <2>2. Cardinality({j[a] : a \in D}) = Cardinality(D)
    BY <2>1, Image
  <2> QED BY <2>2 DEF D
<1> QED BY <1>4, <1>5, <1>7 DEF q

\* What is kept and what is not are all of it.
LEMMA KeepSplits ==
  ASSUME NEW ps \in Seq(Problem), NEW F
  PROVE  Len(ps) = Len(Keep(ps, Names \ F)) + Len(Keep(ps, F))
<1> DEFINE S == {i \in DOMAIN ps : ps[i].file \in Names \ F}
           T == {i \in DOMAIN ps : ps[i].file \in F}
<1>1. \A i \in DOMAIN ps : ps[i].file \in Names
  BY NamesAre DEF NamesOf
<1>2. S \cup T = DOMAIN ps /\ S \cap T = {}
  BY <1>1
<1>3. IsFiniteSet(DOMAIN ps) /\ Cardinality(DOMAIN ps) = Len(ps)
  BY DomainFinite
<1>4. IsFiniteSet(S) /\ IsFiniteSet(T)
  BY <1>2, <1>3, FS_Subset
<1>5. Cardinality(S \cup T) = Cardinality(S) + Cardinality(T)
  BY <1>2, <1>4, Disjoint
<1> QED BY <1>2, <1>3, <1>5, KeepLen

\* Two lists without a file in common are one list.
LEMMA ConcatListed ==
  ASSUME NEW q, NEW r, Listed(q), Listed(r), NamesOf(q) \cap NamesOf(r) \cap Files = {}
  PROVE  Listed(q \o r) /\ NamesOf(q \o r) = NamesOf(q) \cup NamesOf(r)
<1>1. q \in Seq(Problem) /\ r \in Seq(Problem)
  BY DEF Listed
<1> DEFINE all == q \o r
<1>2. /\ all \in Seq(Problem) /\ Len(q) \in Nat
      /\ \A k \in DOMAIN all :
           \/ k \in DOMAIN q /\ all[k] = q[k]
           \/ k - Len(q) \in DOMAIN r /\ k \notin DOMAIN q /\ all[k] = r[k - Len(q)]
      /\ \A k \in DOMAIN q : k \in DOMAIN all /\ all[k] = q[k]
      /\ \A k \in DOMAIN r : Len(q) + k \in DOMAIN all /\ all[Len(q) + k] = r[k]
      /\ \A k \in DOMAIN all : k \in Nat
  <2>1. /\ all \in Seq(Problem) /\ Len(q) \in Nat
        /\ \A k \in DOMAIN all :
             \/ k \in DOMAIN q /\ all[k] = q[k]
             \/ k - Len(q) \in DOMAIN r /\ k \notin DOMAIN q /\ all[k] = r[k - Len(q)]
        /\ \A k \in DOMAIN q : k \in DOMAIN all /\ all[k] = q[k]
        /\ \A k \in DOMAIN r : Len(q) + k \in DOMAIN all /\ all[Len(q) + k] = r[k]
    BY <1>1, ConcatIs, DomainFinite
  <2> HIDE DEF all
  <2>2. DOMAIN all = 1..Len(all) /\ Len(all) \in Nat
    BY <2>1
  <2> QED BY <2>1, <2>2
<1> HIDE DEF all
<1>3. NamesOf(all) = NamesOf(q) \cup NamesOf(r)
  <2>1. ASSUME NEW k \in DOMAIN all PROVE all[k].file \in NamesOf(q) \cup NamesOf(r)
    BY <1>2 DEF NamesOf
  <2>2. ASSUME NEW k \in DOMAIN q PROVE q[k].file \in NamesOf(all)
    BY <1>2 DEF NamesOf
  <2>3. ASSUME NEW k \in DOMAIN r PROVE r[k].file \in NamesOf(all)
    <3>1. Len(q) + k \in DOMAIN all /\ all[Len(q) + k] = r[k]
      BY <1>2
    <3> QED BY <3>1 DEF NamesOf
  <2>4. NamesOf(all) \subseteq NamesOf(q) \cup NamesOf(r)
    BY <2>1 DEF NamesOf
  <2>5. NamesOf(q) \subseteq NamesOf(all) /\ NamesOf(r) \subseteq NamesOf(all)
    BY <2>2, <2>3 DEF NamesOf
  <2> QED BY <2>4, <2>5
<1>4. Apart(all)
  <2> SUFFICES ASSUME NEW a \in DOMAIN all, NEW b \in DOMAIN all,
                      all[a].file = all[b].file, all[b].file \in Files
               PROVE  a = b
    BY DEF Apart
  <2>1. \A c \in DOMAIN q : q[c].file \in NamesOf(q)
    BY DEF NamesOf
  <2>2. \A c \in DOMAIN r : r[c].file \in NamesOf(r)
    BY DEF NamesOf
  <2>3. /\ \A c, d \in DOMAIN q : q[c].file = q[d].file /\ q[d].file \in Files => c = d
        /\ \A c, d \in DOMAIN r : r[c].file = r[d].file /\ r[d].file \in Files => c = d
    BY DEF Listed, Apart
  <2> QED BY <1>2, <2>1, <2>2, <2>3
<1>5. Listed(all)
  BY <1>2, <1>3, <1>4 DEF Listed
<1> QED BY <1>3, <1>5 DEF all

\* A mark on every problem changes no name.
LEMMA NotFoundListed ==
  ASSUME NEW q, Listed(q)
  PROVE  LET r == [k \in DOMAIN q |-> notFound(q[k])] IN
         Listed(r) /\ NamesOf(r) = NamesOf(q) /\ Len(r) = Len(q)
<1> DEFINE r == [k \in DOMAIN q |-> notFound(q[k])]
<1>1. q \in Seq(Problem) /\ DOMAIN q = 1..Len(q) /\ Len(q) \in Nat
  BY DEF Listed
<1>2. \A p \in Problem : notFound(p) \in Problem /\ notFound(p).file = p.file
  BY DEF notFound, Problem
<1>3. \A k \in DOMAIN q : q[k] \in Problem
  BY <1>1
<1>4. r \in [1..Len(q) -> Problem]
  BY <1>1, <1>2, <1>3
<1>5. DOMAIN r = DOMAIN q /\ \A k \in DOMAIN q : r[k].file = q[k].file
  BY <1>2, <1>3
<1> HIDE DEF r
<1>6. r \in Seq(Problem) /\ Len(r) = Len(q)
  BY <1>1, <1>4
<1>7. NamesOf(r) = NamesOf(q)
  BY <1>5 DEF NamesOf
<1>8. Apart(r)
  BY <1>5 DEF Listed, Apart
<1>9. Listed(r)
  BY <1>6, <1>7, <1>8 DEF Listed
<1> QED BY <1>6, <1>7, <1>9 DEF r

\* The empty list.
LEMMA NoneListed == Listed(<<>>) /\ NamesOf(<<>>) = {} /\ Real(<<>>) = {} /\ Len(<<>>) = 0
BY DEF Listed, NamesOf, Real, Apart

----------------------------------------------------------------------------
(* The invariant of the run and its record *)

Verifies == [checked : Nat, matched : Nat, mismatch : Nat, problems : Seq(Problem)]

RecordOK(v) ==
  /\ v \in Verifies /\ v.matched + v.mismatch = v.checked
  /\ Listed(v.problems) /\ Len(v.problems) <= MaxProblems

Reports == [processed : Nat, discarded : Nat, errors : Nat, pending : Nat]

RunStates ==
  [kind : {"none", "full", "retry"},
   pc : {"idle", "copy", "immichgo", "assets", "record", "finish"},
   prev : Verifies, missing : Seq(Problem), sent : Seq(Files),
   report : Reports, named : Seq(Problem), left : Nat]

Seen(r) == r.processed + r.discarded + r.errors + r.pending

\* What the run q has to do with the record v: a retry is of that record, and each
\* name on it was sent or is marked as not found; what the report counts was sent,
\* and the log of a retry names only what was sent.
RunFits(q, v) ==
  /\ q \in RunStates
  /\ q.kind = "none" => q = NoRun
  /\ q.kind = "full" => q.pc \in {"immichgo", "assets", "record", "finish"}
  /\ q.kind = "retry" => q.pc \in {"copy", "immichgo", "assets", "record", "finish"}
  /\ q.kind = "retry" /\ q.pc # "finish" => q.prev = v /\ ProblemsComplete(v)
  /\ q.pc \in {"immichgo", "assets", "record"} =>
       /\ Listed(q.missing)
       /\ \A i, j \in DOMAIN q.sent : q.sent[i] = q.sent[j] => i = j
       /\ NamesOf(q.missing) \cap Range(q.sent) = {}
       /\ q.kind = "full" => q.missing = <<>>
       /\ q.kind = "retry" => /\ NamesOf(v.problems) = NamesOf(q.missing) \cup Range(q.sent)
                              /\ Len(v.problems) = Len(q.missing) + Len(q.sent)
  /\ q.pc \in {"assets", "record"} =>
       /\ Seen(q.report) <= Len(q.sent)
       /\ Listed(q.named) /\ Len(q.named) <= MaxProblems
       /\ q.kind = "retry" => NamesOf(q.named) \subseteq Range(q.sent)

Sound ==
  /\ photos \in PhotosStates /\ leftOut \in BOOLEAN /\ accepted \in BOOLEAN
  /\ staged \subseteq Files /\ immich \subseteq Files /\ given \subseteq Files
  /\ assets \in Nat
  /\ RecordOK(verified) /\ RunFits(run, verified)
  /\ run.kind = "none" <=> photos # "importing"

\* To have no run goes with any record, and the empty record is a sound one.
LEMMA NoRunFits ==
  /\ RecordOK(NoVerify)
  /\ NoRun \in RunStates /\ NoRun.kind = "none" /\ NoRun.pc = "idle"
  /\ \A v : RunFits(NoRun, v)
<1>1. NoVerify \in Verifies /\ NoVerify.problems = <<>> /\ NoVerify.matched + NoVerify.mismatch = NoVerify.checked
  <2>1. <<>> \in Seq(Problem)
    OBVIOUS
  <2> QED BY <2>1 DEF NoVerify, Verifies
<1>2. RecordOK(NoVerify)
  BY <1>1, NoneListed, MaxProblemsAssumption DEF RecordOK
<1>3. NoReport \in Reports
  BY DEF NoReport, Report, Reports
<1>4. NoRun \in RunStates /\ NoRun.kind = "none" /\ NoRun.pc = "idle"
  <2>1. <<>> \in Seq(Problem) /\ <<>> \in Seq(Files)
    OBVIOUS
  <2> HIDE DEF NoReport, NoVerify
  <2> QED BY <1>1, <1>3, <2>1 DEF NoRun, RunStates
<1> QED BY <1>2, <1>4 DEF RunFits

\* All files of a set, each once.
LEMMA SetToSeqIs ==
  ASSUME NEW S, S \subseteq Files
  PROVE  LET q == SetToSeq(S) IN
         /\ q \in Seq(Files) /\ Range(q) = S
         /\ \A i, j \in DOMAIN q : q[i] = q[j] => i = j
<1> DEFINE n == Cardinality(S)
<1>1. IsFiniteSet(S) /\ n \in Nat /\ ExistsBijection(1..n, S)
  BY FilesAssumption, FS_Subset, FS_CardinalityType
<1>2. PICK f \in [1..n -> S] : IsInjective(f)
  BY <1>1 DEF ExistsBijection, Bijection, Injection
<1> DEFINE q == SetToSeq(S)
<1>3. q \in [1..n -> S] /\ IsInjective(q)
  BY <1>2 DEF SetToSeq
<1> HIDE DEF q
<1>4. q \in Seq(Files) /\ DOMAIN q = 1..n
  BY <1>1, <1>3
<1>5. q \in Injection(1..n, S)
  BY <1>3 DEF Injection
<1>6. IsFiniteSet(1..n) /\ Cardinality(1..n) = n
  BY <1>1, FS_Interval
<1>7. q \in Surjection(1..n, S)
  BY <1>1, <1>5, <1>6, FS_Injection
<1>8. Range(q) = S
  BY <1>4, <1>7 DEF Surjection, Range
<1> QED BY <1>3, <1>4, <1>8 DEF IsInjective, q

\* The names of an import's list that are files are theirs alone.
LEMMA LoggedReal == \A x \in Logged \cap Files : LogName[x] = x
BY LogNameAssumption DEF Logged

\* What immich-go reports, and the log names, fits what it was sent.
LEMMA ReportFits ==
  ASSUME NEW sent, NEW out, Runs(sent, out), NEW named,
         named \in {immichProblems(sent, out), <<>>}
  PROVE  /\ Counted(out) \in Reports /\ Seen(Counted(out)) <= Len(sent)
         /\ Listed(named) /\ Len(named) <= MaxProblems
         /\ Range(sent) \subseteq Logged => NamesOf(named) \subseteq Range(sent)
<1>1. Counted(out) \in Reports /\ Seen(Counted(out)) <= Len(sent)
  <2> DEFINE n(c) == Cardinality(With(out, c))
  <2>1. /\ Len(sent) = n("processed") + n("discarded") + n("errors") + n("pending") + n("none")
        /\ n("processed") \in Nat /\ n("discarded") \in Nat /\ n("errors") \in Nat
        /\ n("pending") \in Nat /\ n("none") \in Nat /\ Len(sent) \in Nat
    BY SumOfCounts DEF Counts
  <2>2. Counted(out) = [processed |-> n("processed"), discarded |-> n("discarded"),
                        errors |-> n("errors"), pending |-> n("pending")]
    BY DEF Counted, Report
  <2> HIDE DEF n
  <2> QED BY <2>1, <2>2 DEF Reports, Seen
<1>2. CASE named = <<>>
  BY <1>1, <1>2, NoneListed, MaxProblemsAssumption
<1>3. CASE named = immichProblems(sent, out)
  <2>1. Told(named, sent, out)
    BY <1>3, ProblemsTold
  <2>2. ASSUME Range(sent) \subseteq Logged PROVE NamesOf(named) \subseteq Range(sent)
    <3>1. \A i \in DOMAIN sent : sent[i] \in Logged \cap Files /\ sent[i] \in Range(sent)
      BY <2>2 DEF Runs, Range
    <3>2. \A i \in DOMAIN sent : LogName[sent[i]] \in Range(sent)
      BY <3>1, LoggedReal
    <3> QED BY <2>1, <3>2 DEF Told, NamesOf
  <2> QED BY <1>1, <2>1, <2>2 DEF Told
<1> QED BY <1>2, <1>3

\* Of a list of which the files found are copied: the rest marked, and the copies.
NotFound(ps, found) == LET gone == Keep(ps, Names \ found)
                       IN [k \in DOMAIN gone |-> notFound(gone[k])]
Copies(ps, found) == LET kept == Keep(ps, found) IN [k \in DOMAIN kept |-> kept[k].file]

\* The copies and the marks of a retry share the list out.
LEMMA SplitIs ==
  ASSUME NEW ps, Listed(ps), NEW found, found \subseteq NamesOf(ps) \cap Files
  PROVE  LET missing == NotFound(ps, found)
             sent == Copies(ps, found)
         IN /\ Listed(missing) /\ NamesOf(missing) = NamesOf(ps) \ found
            /\ sent \in Seq(Files) /\ Range(sent) = found
            /\ \A i, j \in DOMAIN sent : sent[i] = sent[j] => i = j
            /\ Len(ps) = Len(missing) + Len(sent)
            /\ Len(missing) \in Nat /\ Len(sent) \in Nat
<1> DEFINE gone == Keep(ps, Names \ found)
           kept == Keep(ps, found)
           missing == [k \in DOMAIN gone |-> notFound(gone[k])]
           sent == [k \in DOMAIN kept |-> kept[k].file]
<1>1. ps \in Seq(Problem) /\ NamesOf(ps) \subseteq Names
  BY NamesAre DEF Listed
<1>2. /\ Listed(gone) /\ NamesOf(gone) = NamesOf(ps) \ found
      /\ Listed(kept) /\ NamesOf(kept) = found
  <2>1. /\ Listed(gone) /\ NamesOf(gone) = NamesOf(ps) \cap (Names \ found)
        /\ Listed(kept) /\ NamesOf(kept) = NamesOf(ps) \cap found
    BY KeepListed
  <2> QED BY <1>1, <2>1
<1>3. Len(ps) = Len(gone) + Len(kept)
  BY <1>1, KeepSplits
<1> HIDE DEF gone, kept
<1>4. Listed(missing) /\ NamesOf(missing) = NamesOf(ps) \ found /\ Len(missing) = Len(gone)
  BY <1>2, NotFoundListed
<1>5. gone \in Seq(Problem) /\ kept \in Seq(Problem)
  BY <1>2 DEF Listed
<1>6. /\ DOMAIN kept = 1..Len(kept) /\ Len(kept) \in Nat /\ Len(gone) \in Nat
      /\ \A k \in DOMAIN kept : kept[k].file \in Files
  BY <1>2, <1>5 DEF NamesOf
<1>7. sent \in [1..Len(kept) -> Files] /\ \A k \in DOMAIN kept : sent[k] = kept[k].file
  BY <1>6
<1>8. Range(sent) = found
  BY <1>2 DEF Range, NamesOf
<1>9. \A i, j \in DOMAIN sent : sent[i] = sent[j] => i = j
  BY <1>2, <1>6 DEF Listed, Apart
<1> HIDE DEF sent, missing
<1>10. sent \in Seq(Files) /\ Len(sent) = Len(kept)
  BY <1>6, <1>7
<1>11. missing = NotFound(ps, found) /\ sent = Copies(ps, found)
  BY DEF sent, missing, gone, kept, NotFound, Copies
<1> QED BY <1>3, <1>4, <1>6, <1>8, <1>9, <1>10, <1>11

\* What a retry sent, as the record has it.
LEMMA SentIs ==
  ASSUME Sound, run.kind = "retry", run.pc \in {"assets", "record"}
  PROVE  /\ Listed(Sent) /\ NamesOf(Sent) = Range(run.sent) /\ Len(Sent) = Len(run.sent)
         /\ Len(Sent) \in Nat
         /\ PassedOver = Len(run.sent) - Seen(run.report)
         /\ PassedOver \in Nat
<1>1. /\ Listed(verified.problems) /\ run.prev = verified /\ Listed(run.missing)
      /\ NamesOf(run.missing) \cap Range(run.sent) = {}
      /\ NamesOf(verified.problems) = NamesOf(run.missing) \cup Range(run.sent)
      /\ \A i, j \in DOMAIN run.sent : run.sent[i] = run.sent[j] => i = j
      /\ run.sent \in Seq(Files) /\ Seen(run.report) <= Len(run.sent) /\ run.report \in Reports
  BY DEF Sound, RecordOK, RunFits, RunStates
<1>2. Marked = NamesOf(run.missing)
  <2>1. run.missing \in Seq(Problem)
    BY <1>1 DEF Listed
  <2> QED BY <2>1, NamesAre DEF Marked
<1>3. verified.problems \in Seq(Problem)
  BY <1>1 DEF Listed
<1>4. NamesOf(verified.problems) \subseteq Names
  BY <1>3, NamesAre
<1>5. Listed(Sent) /\ NamesOf(Sent) = Range(run.sent)
  <2>1. Sent = Keep(verified.problems, Names \ NamesOf(run.missing))
    BY <1>1, <1>2 DEF Sent
  <2>2. Listed(Sent) /\ NamesOf(Sent) = NamesOf(verified.problems) \cap (Names \ NamesOf(run.missing))
    BY <1>1, <2>1, KeepListed
  <2> QED BY <1>1, <1>4, <2>2
<1>6. Sent \in Seq(Problem) /\ Apart(Sent) /\ NamesOf(Sent) \subseteq Files
  <2>1. Range(run.sent) \subseteq Files
    BY <1>1 DEF Range
  <2> QED BY <1>5, <2>1 DEF Listed
<1>7. Cardinality(NamesOf(Sent)) = Len(Sent)
  BY <1>6, AllReal
<1>8. Cardinality(Range(run.sent)) = Len(run.sent)
  <2>1. IsFiniteSet(DOMAIN run.sent) /\ Cardinality(DOMAIN run.sent) = Len(run.sent)
    BY <1>1, DomainFinite
  <2> DEFINE q == run.sent
  <2>2. IsFiniteSet(DOMAIN q) /\ \A i, j \in DOMAIN q : q[i] = q[j] => i = j
    BY <1>1, <2>1
  <2> HIDE DEF q
  <2>3. Cardinality({q[i] : i \in DOMAIN q}) = Cardinality(DOMAIN q)
    BY <2>2, Image
  <2> QED BY <2>1, <2>3 DEF Range, q
<1>9. Len(Sent) = Len(run.sent) /\ Len(Sent) \in Nat
  BY <1>5, <1>6, <1>7, <1>8
<1>10. Seen(run.report) \in Nat
  BY <1>1 DEF Reports, Seen
<1> HIDE DEF Sent
<1>11. PassedOver = Len(run.sent) - Seen(run.report) /\ PassedOver \in Nat
  <2>1. PassedOver = IF Seen(run.report) < Len(Sent) THEN Len(Sent) - Seen(run.report) ELSE 0
    BY DEF PassedOver, Seen
  <2> QED BY <1>1, <1>9, <1>10, <2>1
<1> QED BY <1>5, <1>9, <1>11

\* What the record will be made of: the names that count, and the files that failed.
Noted == IF run.report.errors + run.report.pending > 0 THEN run.named ELSE <<>>
Bad == run.report.errors + run.report.pending + (IF run.kind = "retry" THEN PassedOver ELSE 0)

\* A record, once its difference is known.
LEMMA VerifyIs ==
  ASSUME NEW checked, NEW matched, NEW mismatch, NEW ps, checked - mismatch = matched
  PROVE  Verify(checked, mismatch, ps)
           = [checked |-> checked, matched |-> matched, mismatch |-> mismatch, problems |-> ps]
BY DEF Verify

\* The record that an import leaves.
LEMMA OutcomeIs ==
  ASSUME Sound, run.kind = "full", run.pc = "record"
  PROVE  /\ RecordOK(Outcome)
         /\ Outcome.matched = run.report.processed /\ Outcome.mismatch = Bad
         /\ Outcome.problems = Noted
<1>1. /\ run.report \in Reports /\ Listed(run.named) /\ Len(run.named) <= MaxProblems
  BY DEF Sound, RunFits, RunStates
<1>2. /\ run.report.processed \in Nat /\ run.report.errors \in Nat /\ run.report.pending \in Nat
  BY <1>1 DEF Reports
<1>3. Listed(Noted) /\ Len(Noted) <= MaxProblems
  BY <1>1, NoneListed, MaxProblemsAssumption DEF Noted
<1> DEFINE p == run.report.processed
           bad == run.report.errors + run.report.pending
<1>4. Outcome = Verify(p + bad, bad, Noted)
  BY DEF Outcome, Noted
<1>5. bad \in Nat /\ p + bad \in Nat /\ p + bad - bad = p /\ p \in Nat
  BY <1>2
<1>6. Bad = bad
  BY <1>5 DEF Bad
<1> HIDE DEF p, bad, Noted
<1>7. Noted \in Seq(Problem)
  BY <1>3 DEF Listed
<1>8. Outcome = [checked |-> p + bad, matched |-> p, mismatch |-> bad, problems |-> Noted]
  BY <1>4, <1>5, VerifyIs
<1>9. RecordOK(Outcome)
  BY <1>3, <1>5, <1>7, <1>8 DEF RecordOK, Verifies
<1> QED BY <1>6, <1>8, <1>9 DEF p

\* A retry's counts: s files sent, w not found, and of those sent p brought over,
\* d there already, b failed and o passed over; k of its n names are of the log.
LEMMA RetryCounts ==
  ASSUME NEW checked \in Nat, NEW matched \in Nat, NEW mismatch \in Nat,
         matched + mismatch = checked,
         NEW s \in Nat, NEW w \in Nat, mismatch = s + w,
         NEW p \in Nat, NEW d \in Nat, NEW b \in Nat, NEW o \in Nat, o = s - (p + d + b),
         NEW k \in Nat, k <= s
  PROVE  /\ b + o + w \in Nat /\ b + o + w <= mismatch /\ b + o \in Nat
         /\ checked - (b + o + w) = matched + p + d
         /\ matched + p + d \in Nat /\ matched + p + d + (b + o + w) = checked
         /\ k + w <= mismatch
         /\ k + w = b + o + w => k = b + o
         /\ s + w = mismatch /\ checked - (s + w) = matched
OBVIOUS

\* The record that a retry leaves: no more left out than before, and what it says
\* was brought over is what was, with what the retry brought or found there.
LEMMA FoldedIs ==
  ASSUME Sound, run.kind = "retry", run.pc = "record"
  PROVE  /\ RecordOK(Folded)
         /\ Folded.checked = verified.checked /\ Folded.mismatch <= verified.mismatch
         /\ Reached(run.report) =>
              /\ Folded.matched = verified.matched + run.report.processed + run.report.discarded
              /\ Folded.mismatch = Bad + Len(run.missing)
              /\ Real(Folded.problems) = Real(Noted) \cup Real(run.missing)
              /\ ProblemsComplete(Folded) => Len(Noted) = Bad
         /\ ~Reached(run.report) =>
              /\ Folded.matched = verified.matched /\ Folded.mismatch = verified.mismatch
              /\ Real(Folded.problems) = Real(verified.problems)
<1> DEFINE missing == run.missing
           r == run.report
<1>1. /\ RecordOK(verified) /\ run.prev = verified /\ ProblemsComplete(verified)
      /\ Listed(missing) /\ NamesOf(missing) \cap Range(run.sent) = {}
      /\ NamesOf(verified.problems) = NamesOf(missing) \cup Range(run.sent)
      /\ Len(verified.problems) = Len(missing) + Len(run.sent)
      /\ run.sent \in Seq(Files) /\ r \in Reports
      /\ Listed(run.named) /\ NamesOf(run.named) \subseteq Range(run.sent)
  BY DEF Sound, RunFits, RunStates
<1>2. /\ Listed(Sent) /\ NamesOf(Sent) = Range(run.sent) /\ Len(Sent) = Len(run.sent)
      /\ Len(Sent) \in Nat /\ PassedOver = Len(run.sent) - Seen(r) /\ PassedOver \in Nat
  BY SentIs
<1>3. /\ verified.checked \in Nat /\ verified.matched \in Nat /\ verified.mismatch \in Nat
      /\ verified.matched + verified.mismatch = verified.checked
      /\ Len(verified.problems) = verified.mismatch /\ Len(verified.problems) <= MaxProblems
  BY <1>1 DEF RecordOK, Verifies, ProblemsComplete
<1>4. Len(missing) \in Nat /\ missing \in Seq(Problem)
  BY <1>1 DEF Listed
<1>5. r.processed \in Nat /\ r.discarded \in Nat /\ r.errors \in Nat /\ r.pending \in Nat
  BY <1>1 DEF Reports
<1>6. Listed(Noted) /\ NamesOf(Noted) \subseteq Range(run.sent)
  BY <1>1, NoneListed DEF Noted
<1>7. Len(Noted) \in Nat /\ Len(Noted) <= Len(run.sent) /\ Noted \in Seq(Problem)
  <2>1. Noted \in Seq(Problem) /\ Apart(Noted) /\ NamesOf(Noted) \subseteq Files
    <3>1. Range(run.sent) \subseteq Files
      BY <1>1 DEF Range
    <3> QED BY <1>6, <3>1 DEF Listed
  <2>2. Cardinality(NamesOf(Noted)) = Len(Noted)
    BY <2>1, AllReal
  <2>3. Sent \in Seq(Problem) /\ Apart(Sent) /\ NamesOf(Sent) \subseteq Files
    <3>1. Range(run.sent) \subseteq Files
      BY <1>1 DEF Range
    <3> QED BY <1>2, <3>1 DEF Listed
  <2>4. Cardinality(NamesOf(Sent)) = Len(Sent)
    BY <2>3, AllReal
  <2>5. IsFiniteSet(NamesOf(Sent))
    BY <2>3, FilesAssumption, FS_Subset
  <2>6. Cardinality(NamesOf(Noted)) <= Cardinality(NamesOf(Sent))
    BY <1>2, <1>6, <2>5, FS_Subset
  <2> QED BY <1>2, <2>1, <2>2, <2>4, <2>6
<1>8. /\ Listed(Noted \o missing) /\ Len(Noted \o missing) = Len(Noted) + Len(missing)
      /\ NamesOf(Noted \o missing) = NamesOf(Noted) \cup NamesOf(missing)
  <2>1. NamesOf(Noted) \cap NamesOf(missing) \cap Files = {}
    BY <1>1, <1>6
  <2>2. Len(Noted \o missing) = Len(Noted) + Len(missing)
    BY <1>4, <1>7, ConcatIs
  <2> QED BY <1>1, <1>6, <2>1, <2>2, ConcatListed
<1>9. /\ Listed(Sent \o missing) /\ Len(Sent \o missing) = Len(Sent) + Len(missing)
      /\ NamesOf(Sent \o missing) = NamesOf(Sent) \cup NamesOf(missing)
  <2>1. NamesOf(Sent) \cap NamesOf(missing) \cap Files = {}
    BY <1>1, <1>2
  <2>2. Sent \in Seq(Problem)
    BY <1>2 DEF Listed
  <2>3. Len(Sent \o missing) = Len(Sent) + Len(missing)
    BY <1>4, <2>2, ConcatIs
  <2> QED BY <1>1, <1>2, <2>1, <2>3, ConcatListed
<1> DEFINE bad == r.errors + r.pending
           m == bad + PassedOver + Len(missing)
<1>10. Bad = bad + PassedOver
  BY DEF Bad
<1>13. bad \in Nat /\ PassedOver = Len(run.sent) - (r.processed + r.discarded + bad)
  <2>1. bad \in Nat /\ Seen(r) = r.processed + r.discarded + bad
    <3>1. Seen(r) = r.processed + r.discarded + r.errors + r.pending
      BY DEF Seen
    <3> HIDE DEF r
    <3> QED BY <1>5, <3>1
  <2>2. PassedOver = Len(run.sent) - Seen(r)
    BY <1>2
  <2> HIDE DEF r, bad
  <2> QED BY <2>1, <2>2
<1>14. /\ m \in Nat /\ m <= verified.mismatch /\ bad + PassedOver \in Nat
       /\ verified.checked - m = verified.matched + r.processed + r.discarded
       /\ verified.matched + r.processed + r.discarded \in Nat
       /\ verified.matched + r.processed + r.discarded + m = verified.checked
       /\ Len(Noted) + Len(missing) <= verified.mismatch
       /\ Len(Noted) + Len(missing) = m => Len(Noted) = bad + PassedOver
       /\ Len(Sent) + Len(missing) = verified.mismatch
       /\ verified.checked - (Len(Sent) + Len(missing)) = verified.matched
  <2>1. /\ Len(verified.problems) = Len(missing) + Len(run.sent)
        /\ Len(verified.problems) = verified.mismatch
        /\ Len(Sent) = Len(run.sent) /\ Len(Sent) \in Nat /\ Len(missing) \in Nat
    BY <1>1, <1>2, <1>3, <1>4
  <2> DEFINE s == Len(run.sent)
             w == Len(missing)
             o == PassedOver
             n == Len(Noted)
             v == verified
  <2>2. /\ v.mismatch = s + w /\ s \in Nat /\ w \in Nat
        /\ v.checked \in Nat /\ v.matched \in Nat /\ v.mismatch \in Nat
        /\ v.matched + v.mismatch = v.checked
        /\ o \in Nat /\ o = s - (r.processed + r.discarded + bad)
        /\ r.processed \in Nat /\ r.discarded \in Nat /\ bad \in Nat
        /\ n \in Nat /\ n <= s
    <3> HIDE DEF bad, r
    <3>1. v.mismatch = s + w /\ s \in Nat /\ w \in Nat
      <4> HIDE DEF missing
      <4> QED BY <2>1
    <3>2. o \in Nat /\ o = s - (r.processed + r.discarded + bad)
      BY <1>2, <1>13
    <3> QED BY <1>3, <1>5, <1>7, <1>13, <3>1, <3>2
  <2>3. Len(Sent) = s
    BY <2>1
  <2> HIDE DEF bad, r, s, w, o, n, v
  <2>4. /\ bad + o + w \in Nat /\ bad + o + w <= v.mismatch /\ bad + o \in Nat
        /\ v.checked - (bad + o + w) = v.matched + r.processed + r.discarded
        /\ v.matched + r.processed + r.discarded \in Nat
        /\ v.matched + r.processed + r.discarded + (bad + o + w) = v.checked
        /\ n + w <= v.mismatch
        /\ n + w = bad + o + w => n = bad + o
        /\ s + w = v.mismatch /\ v.checked - (s + w) = v.matched
    BY <2>2, RetryCounts
  <2> QED BY <2>3, <2>4 DEF s, w, o, n, v
<1>11. CASE Reached(r)
  <2>1. Folded = Verify(verified.checked, m, Noted \o missing)
    BY <1>1, <1>11 DEF Folded, Noted
  <2>2. verified.mismatch <= MaxProblems
    BY <1>3
  <2>3. /\ m \in Nat /\ m <= verified.mismatch
        /\ verified.checked - m = verified.matched + r.processed + r.discarded
    BY <1>14
  <2>4. Len(Noted \o missing) <= MaxProblems
    <3> DEFINE a == Len(Noted) + Len(missing)
    <3>1. a <= verified.mismatch /\ a \in Nat
      BY <1>4, <1>7, <1>14
    <3>2. Len(Noted \o missing) = a
      BY <1>8
    <3> HIDE DEF a, missing
    <3> QED BY <1>3, <2>2, <3>1, <3>2, MaxProblemsAssumption
  <2> DEFINE ps == Noted \o missing
             matched == verified.matched + r.processed + r.discarded
  <2>5. Folded = [checked |-> verified.checked, matched |-> matched, mismatch |-> m, problems |-> ps]
    <3>1. verified.checked - m = matched
      BY <2>3
    <3>2. Folded = Verify(verified.checked, m, ps)
      BY <2>1
    <3>3. Verify(verified.checked, m, ps) = [checked |-> verified.checked, matched |-> matched,
                                             mismatch |-> m, problems |-> ps]
      <4> HIDE DEF m, ps, matched
      <4> QED BY <3>1, VerifyIs
    <3> QED BY <3>2, <3>3
  <2>6. matched \in Nat /\ matched + m = verified.checked
    BY <1>14
  <2>7. ps \in Seq(Problem) /\ Real(ps) = Real(Noted) \cup Real(missing)
    BY <1>8 DEF Listed, Real
  <2>8. Len(ps) = m => Len(Noted) = Bad
    BY <1>8, <1>10, <1>14
  <2> HIDE DEF m, ps, matched
  <2>9. RecordOK(Folded)
    BY <1>3, <1>8, <2>3, <2>4, <2>5, <2>6, <2>7 DEF RecordOK, Verifies, ps
  <2>10. m = Bad + Len(missing)
    BY <1>10 DEF m
  <2> QED BY <1>11, <2>3, <2>5, <2>7, <2>8, <2>9, <2>10 DEF ProblemsComplete, matched
<1>12. CASE ~Reached(r)
  <2> DEFINE k == Len(Sent) + Len(missing)
             ps == Sent \o missing
  <2>1. Folded = Verify(verified.checked, k, ps)
    BY <1>1, <1>12 DEF Folded
  <2>2. k = verified.mismatch
    BY <1>14
  <2>3. verified.checked - k = verified.matched
    BY <1>14
  <2>4. Len(ps) <= MaxProblems /\ ps \in Seq(Problem) /\ Listed(ps)
    BY <1>3, <1>9, <2>2 DEF Listed
  <2>5. Real(ps) = Real(verified.problems)
    BY <1>1, <1>2, <1>9 DEF Real
  <2>6. Folded = [checked |-> verified.checked, matched |-> verified.matched,
                  mismatch |-> verified.mismatch, problems |-> ps]
    <3>1. Verify(verified.checked, k, ps) = [checked |-> verified.checked, matched |-> verified.matched,
                                             mismatch |-> k, problems |-> ps]
      <4> HIDE DEF k, ps
      <4> QED BY <2>3, VerifyIs
    <3> QED BY <2>1, <2>2, <3>1
  <2> HIDE DEF ps
  <2>7. RecordOK(Folded)
    BY <1>3, <2>4, <2>6 DEF RecordOK, Verifies
  <2> QED BY <1>3, <1>12, <2>5, <2>6, <2>7
<1> QED BY <1>11, <1>12

----------------------------------------------------------------------------
(* The record and the run stay sound *)

\* Where a run is tells whose it is, and that the half is importing.
LEMMA WhichRun ==
  ASSUME Sound
  PROVE  /\ run.kind \in {"none", "full", "retry"} /\ run \in RunStates
         /\ run.pc = "copy" => run.kind = "retry"
         /\ run.pc \in {"immichgo", "assets", "record", "finish"} => run.kind \in {"full", "retry"}
         /\ run.pc \in {"copy", "immichgo", "assets", "record", "finish"} => photos = "importing"
         /\ photos # "importing" => run = NoRun
<1>1. run \in RunStates /\ (run.kind = "none" => run = NoRun /\ run.pc = "idle")
      /\ (run.kind = "full" => run.pc # "copy") /\ (run.kind = "none" <=> photos # "importing")
  BY NoRunFits DEF Sound, RunFits
<1>2. run.kind \in {"none", "full", "retry"}
  BY <1>1 DEF RunStates
<1> QED BY <1>1, <1>2

\* A run that ends leaves no state of its own.
LEMMA RunEnds ==
  ASSUME Sound, run' = NoRun, photos' \in PhotosStates \ {"importing"},
         leftOut' \in BOOLEAN, accepted' = accepted, immich' \subseteq Files,
         UNCHANGED <<staged, given, assets>>, RecordOK(verified')
  PROVE  Sound'
BY NoRunFits DEF Sound

\* A run sends files of the archives.
LEMMA SentFiles == ASSUME Sound PROVE Range(run.sent) \subseteq Files
BY DEF Sound, RunFits, RunStates, Range

\* Sound at first.
LEMMA SoundInit == Init => Sound
<1> SUFFICES ASSUME Init PROVE Sound
  OBVIOUS
<1>1. RecordOK(verified) /\ RunFits(run, verified) /\ run.kind = "none"
  BY NoRunFits DEF Init
<1> QED BY <1>1 DEF Init, Sound, PhotosStates

\* Sound after each step that does more than end a run.
LEMMA SoundLaunch == ASSUME Sound, LaunchImport PROVE Sound'
<1> DEFINE q == SetToSeq(staged)
<1>1. /\ q \in Seq(Files) /\ \A i, j \in DOMAIN q : q[i] = q[j] => i = j
  BY SetToSeqIs DEF Sound
<1>2. NoRun \in RunStates /\ NoRun.missing = <<>>
  BY NoRunFits DEF NoRun
<1>3. run' = [NoRun EXCEPT !.kind = "full", !.pc = "immichgo", !.sent = q]
  BY DEF LaunchImport
<1> HIDE DEF q
<1>4. /\ run' \in RunStates /\ run'.kind = "full" /\ run'.pc = "immichgo"
      /\ run'.sent = q /\ run'.missing = <<>>
  BY <1>1, <1>2, <1>3 DEF RunStates
<1>5. RunFits(run', verified')
  BY <1>1, <1>4, NoneListed DEF RunFits
<1>6. /\ photos' = "importing" /\ leftOut' = FALSE /\ accepted' = FALSE /\ given' = staged
      /\ UNCHANGED <<staged, immich, verified, assets>>
  BY DEF LaunchImport, record
<1> QED BY <1>4, <1>5, <1>6 DEF Sound, PhotosStates

\* A retry starts from the record.
LEMMA SoundRetry == ASSUME Sound, RetryPhotosProblems PROVE Sound'
<1>1. verified \in Verifies /\ ProblemsComplete(verified)
  BY DEF Sound, RecordOK, RetryPhotosProblems, CanRetryProblems
<1>2. NoRun \in RunStates
  BY NoRunFits
<1>3. run' = [NoRun EXCEPT !.kind = "retry", !.pc = "copy", !.prev = verified]
  BY DEF RetryPhotosProblems
<1>4. /\ run' \in RunStates /\ run'.kind = "retry" /\ run'.pc = "copy" /\ run'.prev = verified
  BY <1>1, <1>2, <1>3 DEF RunStates
<1>5. /\ photos' = "importing" /\ leftOut' = FALSE
      /\ UNCHANGED <<accepted, staged, immich, given, verified, assets>>
  BY DEF RetryPhotosProblems, record
<1>6. RunFits(run', verified')
  BY <1>1, <1>4, <1>5 DEF RunFits
<1> QED BY <1>4, <1>5, <1>6 DEF Sound, PhotosStates

\* What the copying of a retry does, where a copy that fails leaves nothing behind.
LEMMA Extracting ==
  ASSUME Sound, extractProblems, "partial" \notin Events
  PROVE  \E found \in SUBSET (staged \cap NamesOf(verified.problems)) :
           IF found = {}
           THEN /\ PutVerification([verified EXCEPT !.problems = NotFound(verified.problems, found)])
                /\ restoreLeftOut
           ELSE /\ run' = [run EXCEPT !.pc = "immichgo",
                                      !.missing = NotFound(verified.problems, found),
                                      !.sent = Copies(verified.problems, found)]
                /\ UNCHANGED <<state, verified>>
<1>1. run.pc = "copy" /\ run.kind = "retry"
  BY WhichRun DEF extractProblems
<1>2. run.prev = verified /\ verified.problems \in Seq(Problem)
  BY <1>1 DEF Sound, RunFits, RecordOK, Listed
<1>3. {p.file : p \in Range(verified.problems)} = NamesOf(verified.problems)
  BY <1>2, NamesAre
<1> DEFINE Copied(ps, found, pieces) ==
             IF found = {}
             THEN /\ PutVerification([run.prev EXCEPT !.problems = NotFound(ps, found)])
                  /\ restoreLeftOut
             ELSE /\ run' = [run EXCEPT !.pc = "immichgo", !.missing = NotFound(ps, found),
                                        !.sent = Copies(ps, found \cup pieces)]
                  /\ UNCHANGED <<state, verified>>
           F(ps) == {p.file : p \in Range(ps)}
<1>4. \E found \in SUBSET (staged \cap F(run.prev.problems)), pieces \in SUBSET {} :
        Copied(run.prev.problems, found, pieces)
  <2>1. \E found \in SUBSET (staged \cap F(run.prev.problems)),
           pieces \in SUBSET (IF "partial" \in Events THEN staged ELSE {}) :
          Copied(run.prev.problems, found, pieces)
    BY Zenon DEF extractProblems, NotFound, Copies
  <2> QED BY <2>1
<1> HIDE DEF Copied, F
<1>5. PICK found \in SUBSET (staged \cap NamesOf(verified.problems)), pieces \in SUBSET {} :
        Copied(verified.problems, found, pieces)
  BY <1>2, <1>3, <1>4 DEF F
<1>6. pieces = {} /\ found \cup pieces = found
  OBVIOUS
<1>7. Copied(verified.problems, found, {})
  BY <1>5, <1>6
<1> QED BY <1>2, <1>5, <1>6, <1>7 DEF Copied

\* Its copies and its marks share the list out.
LEMMA SoundExtract == ASSUME Sound, extractProblems, "partial" \notin Events PROVE Sound'
<1>1. /\ run.pc = "copy" /\ run.kind = "retry" /\ photos = "importing" /\ run \in RunStates
      /\ UNCHANGED <<staged, immich, given, assets>>
  BY WhichRun DEF extractProblems
<1>2. run.prev = verified /\ Listed(verified.problems) /\ ProblemsComplete(verified)
  BY <1>1 DEF Sound, RunFits, RecordOK
<1> DEFINE ps == verified.problems
<1>3. PICK found \in SUBSET (staged \cap NamesOf(ps)) :
        IF found = {}
        THEN PutVerification([verified EXCEPT !.problems = NotFound(ps, found)]) /\ restoreLeftOut
        ELSE /\ run' = [run EXCEPT !.pc = "immichgo", !.missing = NotFound(ps, found),
                                   !.sent = Copies(ps, found)]
             /\ UNCHANGED <<state, verified>>
  BY Extracting
<1>4. found \subseteq NamesOf(ps) \cap Files
  BY DEF Sound
<1> DEFINE m == NotFound(ps, found)
           s == Copies(ps, found)
<1>5. /\ Listed(m) /\ NamesOf(m) = NamesOf(ps) \ found
      /\ s \in Seq(Files) /\ Range(s) = found
      /\ \A i, j \in DOMAIN s : s[i] = s[j] => i = j
      /\ Len(ps) = Len(m) + Len(s) /\ Len(m) \in Nat /\ Len(s) \in Nat
  BY <1>2, <1>4, SplitIs
<1>6. CASE found = {}
  <2> HIDE DEF m, s
  <2>1. PutVerification([verified EXCEPT !.problems = m]) /\ restoreLeftOut
    BY <1>3, <1>6 DEF m
  <2>2. Len(s) = 0
    <3>1. \A i \in DOMAIN s : s[i] \in Range(s)
      BY DEF Range
    <3>2. DOMAIN s = {}
      BY <1>5, <1>6, <3>1
    <3>3. IsFiniteSet(DOMAIN s) /\ Cardinality(DOMAIN s) = Len(s)
      BY <1>5, DomainFinite
    <3> QED BY <3>2, <3>3, FS_EmptySet
  <2>3. Len(m) = Len(ps)
    BY <1>5, <2>2
  <2>4. RecordOK([verified EXCEPT !.problems = m])
    <3>1. m \in Seq(Problem)
      BY <1>5 DEF Listed
    <3> QED BY <1>5, <2>3, <3>1 DEF Sound, RecordOK, Verifies
  <2>5. RecordOK(verified')
    BY <2>1, <2>4 DEF PutVerification, Sound
  <2> QED BY <1>1, <2>1, <2>5, RunEnds DEF restoreLeftOut, failPhotos, PhotosStates, Sound
<1>7. CASE found # {}
  <2> HIDE DEF m, s
  <2>1. run' = [run EXCEPT !.pc = "immichgo", !.missing = m, !.sent = s] /\ UNCHANGED <<state, verified>>
    BY <1>3, <1>7 DEF m, s
  <2>2. m \in Seq(Problem)
    BY <1>5 DEF Listed
  <2>3. /\ run' \in RunStates /\ run'.kind = "retry" /\ run'.pc = "immichgo"
        /\ run'.prev = verified /\ run'.missing = m /\ run'.sent = s
    BY <1>1, <1>2, <1>5, <2>1, <2>2 DEF RunStates
  <2>4. NamesOf(m) \cap Range(s) = {} /\ NamesOf(ps) = NamesOf(m) \cup Range(s)
    BY <1>4, <1>5
  <2> HIDE DEF m, s
  <2>5. RunFits(run', verified)
    BY <1>2, <1>5, <2>3, <2>4 DEF RunFits
  <2> QED BY <1>1, <2>1, <2>3, <2>5 DEF Sound, state
<1> QED BY <1>6, <1>7

\* What a report comes to.  Of a file that is marked no copy was sent.
Reporting(out, landed, named) ==
  LET in(c) == In(run.sent, out, c) IN
  /\ Runs(run.sent, out) /\ Possible(out)
  /\ "cancel" \in Events
       \/ ~(NamesOther(out) /\ NamesFewer(run.sent, out, immichProblems(run.sent, out)))
  /\ landed \subseteq in("errors")
  /\ immich' = immich \cup in("processed") \cup landed
  /\ named \in {immichProblems(run.sent, out), <<>>}
  /\ run' = [run EXCEPT !.pc = "assets", !.report = Counted(out), !.named = named]
  /\ UNCHANGED <<photos, leftOut, accepted, staged, given, verified, assets>>

\* A report comes of one fate of each file sent.
LEMMA ReportComes ==
  ASSUME Sound, ImmichGoReports
  PROVE  /\ run.pc = "immichgo" /\ run.kind \in {"full", "retry"} /\ photos = "importing"
         /\ \E out, landed, named : Reporting(out, landed, named)
<1>1. /\ run.pc = "immichgo" /\ run.kind \in {"full", "retry"} /\ photos = "importing"
  BY WhichRun DEF ImmichGoReports
<1>2. /\ run.sent \in Seq(Files) /\ Listed(run.missing)
      /\ \A i, j \in DOMAIN run.sent : run.sent[i] = run.sent[j] => i = j
      /\ NamesOf(run.missing) \cap Range(run.sent) = {}
  BY <1>1 DEF Sound, RunFits, RunStates
<1>3. Marked \cap Range(run.sent) = {}
  <2>1. run.missing \in Seq(Problem)
    BY <1>2 DEF Listed
  <2> QED BY <1>2, <2>1, NamesAre DEF Marked
<1>4. PICK out \in {o \in [DOMAIN run.sent -> DOMAIN Outcomes] : Possible(o)} :
        /\ "cancel" \in Events
             \/ ~(NamesOther(out) /\ NamesFewer(run.sent, out, immichProblems(run.sent, out)))
        /\ \E landed \in SUBSET (In(run.sent, out, "errors")
                                   \cup (In(run.sent, out, "processed") \cap Marked)) :
             immich' = immich \cup (In(run.sent, out, "processed") \ Marked) \cup landed
        /\ \E named \in {immichProblems(run.sent, out)}
                          \cup (IF "noLog" \in Events THEN {<<>>} ELSE {}) :
             run' = [run EXCEPT !.pc = "assets", !.report = Counted(out), !.named = named]
  BY Zenon DEF ImmichGoReports, In
<1>5. Runs(run.sent, out)
  BY <1>2 DEF Runs
<1>6. In(run.sent, out, "processed") \subseteq Range(run.sent)
  BY DEF In, With, Range, Runs
<1>7. PICK landed \in SUBSET (In(run.sent, out, "errors")
                                \cup (In(run.sent, out, "processed") \cap Marked)) :
        immich' = immich \cup (In(run.sent, out, "processed") \ Marked) \cup landed
  BY <1>4
<1>8. /\ In(run.sent, out, "processed") \cap Marked = {}
      /\ In(run.sent, out, "processed") \ Marked = In(run.sent, out, "processed")
  BY <1>3, <1>6
<1>9. PICK named \in {immichProblems(run.sent, out), <<>>} :
        run' = [run EXCEPT !.pc = "assets", !.report = Counted(out), !.named = named]
  BY <1>4
<1>10. UNCHANGED <<photos, leftOut, accepted, staged, given, verified, assets>>
  BY DEF ImmichGoReports, state, record
<1>11. landed \subseteq In(run.sent, out, "errors")
  BY <1>7, <1>8
<1>12. immich' = immich \cup In(run.sent, out, "processed") \cup landed
  BY <1>7, <1>8
<1>13. Reporting(out, landed, named)
  BY <1>4, <1>5, <1>9, <1>10, <1>11, <1>12 DEF Reporting
<1> QED BY <1>1, <1>13

\* What it counts and names fits what was sent.
LEMMA SoundReport == ASSUME Sound, ImmichGoReports PROVE Sound'
<1>1. run.pc = "immichgo" /\ run.kind \in {"full", "retry"} /\ photos = "importing" /\ run \in RunStates
  BY ReportComes, WhichRun
<1>2. PICK out, landed, named : Reporting(out, landed, named)
  BY ReportComes
<1>3. Runs(run.sent, out) /\ named \in {immichProblems(run.sent, out), <<>>}
  BY <1>2 DEF Reporting
<1> DEFINE c == Counted(out)
<1>4. /\ c \in Reports /\ Seen(c) <= Len(run.sent) /\ Listed(named) /\ Len(named) <= MaxProblems
      /\ Range(run.sent) \subseteq Logged => NamesOf(named) \subseteq Range(run.sent)
  BY <1>3, ReportFits
<1>5. run.kind = "retry" => Range(run.sent) \subseteq Logged
  BY <1>1 DEF Sound, RunFits, RecordOK, Listed
<1> HIDE DEF c
<1>6. run' = [run EXCEPT !.pc = "assets", !.report = c, !.named = named]
  BY <1>2 DEF Reporting, c
<1>7. named \in Seq(Problem)
  BY <1>4 DEF Listed
<1>8. /\ run' \in RunStates /\ run'.pc = "assets" /\ run'.kind = run.kind /\ run'.prev = run.prev
      /\ run'.missing = run.missing /\ run'.sent = run.sent /\ run'.report = c /\ run'.named = named
  BY <1>1, <1>4, <1>6, <1>7 DEF RunStates
<1>9. RunFits(run', verified)
  <2>1. RunFits(run, verified)
    BY DEF Sound
  <2> QED BY <1>1, <1>4, <1>5, <1>8, <2>1 DEF RunFits
<1>10. immich' \subseteq Files
  <2>1. Range(run.sent) \subseteq Files
    BY SentFiles
  <2>2. \A k : In(run.sent, out, k) \subseteq Range(run.sent)
    BY <1>3 DEF In, With, Range, Runs
  <2>3. immich' = immich \cup In(run.sent, out, "processed") \cup landed
        /\ landed \subseteq In(run.sent, out, "errors")
    BY <1>2 DEF Reporting
  <2> QED BY <2>1, <2>2, <2>3 DEF Sound
<1>11. UNCHANGED <<photos, leftOut, accepted, staged, given, verified, assets>>
  BY <1>2 DEF Reporting
<1> QED BY <1>1, <1>8, <1>9, <1>10, <1>11 DEF Sound

\* The count of the library moves, the run stays.
LEMMA SoundAssets == ASSUME Sound, SetPhotosAssets PROVE Sound'
<1>1. /\ run.pc = "assets" /\ run' = [run EXCEPT !.pc = "record"]
      /\ UNCHANGED <<photos, leftOut, accepted, staged, immich, given, verified>>
  BY DEF SetPhotosAssets, state
<1>2. run \in RunStates /\ run.kind \in {"full", "retry"} /\ photos = "importing"
  BY <1>1, WhichRun
<1>3. assets' \in Nat
  <2>1. assets \in Nat /\ run.report.processed \in Nat
    BY <1>2 DEF Sound, RunStates, Reports
  <2> QED BY <2>1 DEF SetPhotosAssets, AssetsAdded
<1>4. /\ run' \in RunStates /\ run'.pc = "record" /\ run'.kind = run.kind /\ run'.prev = run.prev
      /\ run'.missing = run.missing /\ run'.sent = run.sent /\ run'.report = run.report
      /\ run'.named = run.named
  BY <1>1, <1>2 DEF RunStates
<1>5. RunFits(run', verified)
  <2>1. /\ run.kind = "retry" => run.prev = verified /\ ProblemsComplete(verified)
        /\ Listed(run.missing)
        /\ \A i, j \in DOMAIN run.sent : run.sent[i] = run.sent[j] => i = j
        /\ NamesOf(run.missing) \cap Range(run.sent) = {}
        /\ run.kind = "full" => run.missing = <<>>
        /\ run.kind = "retry" =>
             /\ NamesOf(verified.problems) = NamesOf(run.missing) \cup Range(run.sent)
             /\ Len(verified.problems) = Len(run.missing) + Len(run.sent)
        /\ Seen(run.report) <= Len(run.sent)
        /\ Listed(run.named) /\ Len(run.named) <= MaxProblems
        /\ run.kind = "retry" => NamesOf(run.named) \subseteq Range(run.sent)
    BY <1>1 DEF Sound, RunFits
  <2> QED BY <1>2, <1>4, <2>1 DEF RunFits
<1> QED BY <1>1, <1>2, <1>3, <1>4, <1>5 DEF Sound

\* The record that is stored is a sound one.
LEMMA SoundRecord == ASSUME Sound, RecordOutcome PROVE Sound'
<1> DEFINE v == IF run.kind = "retry" THEN Folded ELSE Outcome
<1>1. /\ run.pc = "record" /\ PutVerification(v)
      /\ run' = [NoRun EXCEPT !.kind = run.kind, !.pc = "finish", !.left = v.mismatch]
      /\ UNCHANGED <<photos, leftOut, accepted, staged, immich, given, assets>>
  BY DEF RecordOutcome, state
<1>2. run \in RunStates /\ run.kind \in {"full", "retry"} /\ photos = "importing"
  BY <1>1, WhichRun
<1>3. RecordOK(v)
  BY <1>1, <1>2, OutcomeIs, FoldedIs
<1> HIDE DEF v
<1>4. RecordOK(verified')
  BY <1>1, <1>3 DEF PutVerification, Sound
<1>5. v.mismatch \in Nat
  BY <1>3 DEF RecordOK, Verifies
<1>6. run' \in RunStates /\ run'.kind = run.kind /\ run'.pc = "finish"
  <2>1. NoRun \in RunStates
    BY NoRunFits
  <2> QED BY <1>1, <1>2, <1>5, <2>1 DEF RunStates
<1>7. RunFits(run', verified')
  BY <1>2, <1>6 DEF RunFits
<1> QED BY <1>1, <1>2, <1>4, <1>6, <1>7 DEF Sound

\* Every step keeps it.
LEMMA SoundStep ==
  ASSUME Sound, [Next]_vars, "partial" \notin Events
  PROVE  Sound'
<1>1. CASE PartLands
  BY <1>1 DEF PartLands, Sound, state, record
<1>2. CASE LaunchImport
  BY <1>2, SoundLaunch
<1>3. CASE RetryPhotosProblems
  BY <1>3, SoundRetry
<1>4. CASE AcceptPhotos
  BY <1>4 DEF AcceptPhotos, Sound, record, PhotosStates
<1>5. CASE extractProblems
  BY <1>5, SoundExtract
<1>6. CASE RetryCannotStart
  BY <1>6, RunEnds DEF RetryCannotStart, restoreLeftOut, failPhotos, PhotosStates, record, Sound
<1>7. CASE ImmichGoReports
  BY <1>7, SoundReport
<1>8. CASE ImmichGoBreaks
  BY <1>8, RunEnds, SentFiles
     DEF ImmichGoBreaks, restoreLeftOut, failPhotos, PhotosStates, record, Sound
<1>9. CASE ImmichRefuses
  BY <1>9, RunEnds, SentFiles DEF ImmichRefuses, PhotosStates, record, Sound
<1>10. CASE FinishEmpty
  BY <1>10, RunEnds DEF FinishEmpty, failPhotos, PhotosStates, record, Sound
<1>11. CASE SetPhotosAssets
  BY <1>11, SoundAssets
<1>12. CASE RecordOutcome
  BY <1>12, SoundRecord
<1>13. CASE FinishPhotosImport
  BY <1>13, RunEnds DEF FinishPhotosImport, failPhotos, PhotosStates, record, Sound
<1>14. CASE Restart
  BY <1>14, RunEnds DEF Restart, PhotosStates, record, Sound
<1>15. CASE UNCHANGED vars
  BY <1>15 DEF vars, Sound
<1> QED BY <1>1, <1>2, <1>3, <1>4, <1>5, <1>6, <1>7, <1>8, <1>9, <1>10, <1>11, <1>12, <1>13,
           <1>14, <1>15 DEF Next

\* And it holds every variable to its type.
LEMMA SoundTyped == Sound => TypeOK
<1> SUFFICES ASSUME Sound PROVE TypeOK
  OBVIOUS
<1>1. verified.problems \in Seq(Problem)
  BY DEF Sound, RecordOK, Listed
<1>2. Range(verified.problems) \subseteq Problem
  BY <1>1 DEF Range
<1>3. \A k \in {"checked", "matched", "mismatch"} : verified[k] \in Nat
  BY DEF Sound, RecordOK, Verifies
<1>4. run.kind \in {"none", "full", "retry"}
  BY WhichRun
<1> QED BY <1>2, <1>3, <1>4 DEF Sound, TypeOK, RecordOK

\* Where a copy that fails leaves nothing behind, every variable keeps its type, no
\* count of the record falls below zero, and its list stays one that can be shown:
\* of any number of files, any number of names shown, any sequence of retries.
THEOREM LeftOutTyped == "partial" \notin Events => (Spec => []TypeOK)
<1> SUFFICES ASSUME "partial" \notin Events PROVE Spec => []TypeOK
  OBVIOUS
<1>1. Init => Sound
  BY SoundInit
<1>2. Sound /\ [Next]_vars => Sound'
  BY SoundStep
<1>3. Sound => TypeOK
  BY SoundTyped
<1> QED BY <1>1, <1>2, <1>3, PTL DEF Spec

\* A retry only improves on the record of the import that it is of: it keeps what
\* was looked at, never leaves out more, and never takes from the files counted.
THEOREM RetryOnlyImproves == "partial" \notin Events => (Spec => RetryImproves)
<1> SUFFICES ASSUME "partial" \notin Events PROVE Spec => RetryImproves
  OBVIOUS
<1> DEFINE Better == run.kind = "retry" =>
                       /\ verified'.checked = verified.checked
                       /\ verified'.mismatch <= verified.mismatch
                       /\ assets' >= assets
<1>1. Sound /\ [Next]_vars => [Better]_vars
  <2> SUFFICES ASSUME Sound, [Next]_vars, run.kind = "retry"
               PROVE  /\ verified'.checked = verified.checked
                      /\ verified'.mismatch <= verified.mismatch
                      /\ assets' >= assets
    BY DEF Better
  <2>1. verified \in Verifies /\ verified.mismatch \in Nat /\ assets \in Nat /\ assets >= assets
        /\ verified.mismatch <= verified.mismatch /\ photos = "importing"
    BY DEF Sound, RecordOK, Verifies
  <2>2. CASE UNCHANGED <<verified, assets>>
    BY <2>1, <2>2
  <2>3. CASE extractProblems
    <3>1. UNCHANGED assets
      BY <2>3 DEF extractProblems
    <3>2. verified' = verified \/ \E ps : verified' = [verified EXCEPT !.problems = ps]
      BY <2>3, Extracting DEF PutVerification
    <3> QED BY <2>1, <3>1, <3>2 DEF Verifies
  <2>4. CASE SetPhotosAssets
    <3>1. UNCHANGED verified
      BY <2>4 DEF SetPhotosAssets
    <3>2. run.report.processed \in Nat
      BY <2>4, WhichRun DEF RunStates, Reports
    <3>3. assets' >= assets
      BY <2>1, <2>4, <3>2 DEF SetPhotosAssets, AssetsAdded
    <3> QED BY <2>1, <3>1, <3>3
  <2>5. CASE RecordOutcome
    <3>1. run.pc = "record" /\ UNCHANGED assets /\ (verified' = Folded \/ verified' = verified)
      BY <2>5 DEF RecordOutcome, PutVerification
    <3>2. Folded.checked = verified.checked /\ Folded.mismatch <= verified.mismatch
      BY <3>1, FoldedIs
    <3> QED BY <2>1, <3>1, <3>2
  <2>6. CASE \/ PartLands \/ LaunchImport \/ RetryPhotosProblems \/ AcceptPhotos
             \/ RetryCannotStart \/ ImmichGoReports \/ ImmichGoBreaks \/ ImmichRefuses
             \/ FinishEmpty \/ FinishPhotosImport \/ Restart \/ UNCHANGED vars
    <3>1. UNCHANGED <<verified, assets>>
      BY <2>6 DEF PartLands, LaunchImport, RetryPhotosProblems, AcceptPhotos, RetryCannotStart,
                  ImmichGoReports, ImmichGoBreaks, ImmichRefuses, FinishEmpty,
                  FinishPhotosImport, Restart, record, vars
    <3> QED BY <2>2, <3>1
  <2> QED BY <2>3, <2>4, <2>5, <2>6 DEF Next
<1>2. Sound /\ [Next]_vars => Sound'
  BY SoundStep
<1>3. [][Better]_vars => RetryImproves
  BY DEF RetryImproves, Better
<1> QED BY <1>1, <1>2, <1>3, SoundInit, PTL DEF Spec

----------------------------------------------------------------------------
(* What a report says of the library and of what was given *)

NotedOf(q) == IF q.report.errors + q.report.pending > 0 THEN q.named ELSE <<>>
BadOf(q) == q.report.errors + q.report.pending
              + (IF q.kind = "retry" THEN Len(q.sent) - Seen(q.report) ELSE 0)

\* The files sent are in five parts: P processed, D discarded, E with an error, O
\* without an outcome, N passed over; L of those with an error are there all the same.
Says(P, D, E, O, N, L) ==
  /\ P \subseteq Files /\ D \subseteq Files /\ E \subseteq Files /\ O \subseteq Files /\ N \subseteq Files
  /\ P \cap D = {} /\ (P \cup D) \cap (E \cup O \cup N) = {} /\ E \cap O = {} /\ (E \cup O) \cap N = {}
  /\ P \cup D \cup E \cup O \cup N = Range(run.sent)
  /\ P \cap immich = {} /\ D \subseteq immich /\ L \subseteq E /\ immich' = immich \cup P \cup L
  /\ run'.kind = run.kind /\ run'.pc = "assets" /\ run'.missing = run.missing
  /\ run'.report.processed = Cardinality(P) /\ run'.report.discarded = Cardinality(D)
  /\ run'.report.errors = Cardinality(E) /\ run'.report.pending = Cardinality(O)
  /\ run.kind = "full" => N = {} \/ P \cup D \cup E \cup O = {}
  /\ BadOf(run') = Cardinality(E) + Cardinality(O)
                     + (IF run.kind = "retry" THEN Cardinality(N) ELSE 0)
  /\ Len(NotedOf(run')) = BadOf(run') => Real(NotedOf(run')) \subseteq E \cup O \cup N
  /\ UNCHANGED <<photos, leftOut, accepted, staged, given, verified, assets>>

\* Every report says such a thing, where the log errs in one direction only.
LEMMA ReportSays ==
  ASSUME Sound, ImmichGoReports, "cancel" \notin Events
  PROVE  \E P, D, E, O, N, L : Says(P, D, E, O, N, L)
<1>1. run.pc = "immichgo" /\ run.kind \in {"full", "retry"} /\ run \in RunStates
  BY ReportComes, WhichRun
<1>2. PICK out, landed, named : Reporting(out, landed, named)
  BY ReportComes
<1> DEFINE in(c) == In(run.sent, out, c)
           n(c) == Cardinality(With(out, c))
           log == immichProblems(run.sent, out)
           c == Counted(out)
<1>3. Runs(run.sent, out) /\ Possible(out) /\ named \in {log, <<>>}
      /\ ~(NamesOther(out) /\ NamesFewer(run.sent, out, log))
  BY <1>2 DEF Reporting
<1>4. /\ \A k \in Counts : in(k) \subseteq Files /\ Cardinality(in(k)) = n(k) /\ n(k) \in Nat
      /\ \A k, l \in Counts : k # l => in(k) \cap in(l) = {}
      /\ UNION {in(k) : k \in Counts} = Range(run.sent)
      /\ DOMAIN out = DOMAIN run.sent
  BY <1>3, InOne
<1>5. /\ Len(run.sent) = n("processed") + n("discarded") + n("errors") + n("pending") + n("none")
      /\ Cardinality(With(out, "errors") \cup With(out, "pending") \cup With(out, "none"))
           = n("errors") + n("pending") + n("none")
  BY <1>3, SumOfCounts
<1>6. run' = [run EXCEPT !.pc = "assets", !.report = c, !.named = named]
  BY <1>2 DEF Reporting
<1>7. /\ c.processed = n("processed") /\ c.discarded = n("discarded")
      /\ c.errors = n("errors") /\ c.pending = n("pending")
  BY DEF Counted, Report
<1> HIDE DEF c, log
<1>8. /\ run'.kind = run.kind /\ run'.pc = "assets" /\ run'.missing = run.missing
      /\ run'.sent = run.sent /\ run'.report = c /\ run'.named = named
  BY <1>1, <1>6 DEF RunStates
<1> DEFINE P == in("processed")
           D == in("discarded")
           E == in("errors")
           O == in("pending")
           N == in("none")
<1>9. /\ {in(k) : k \in Counts} = {P, D, E, O, N}
      /\ "processed" \in Counts /\ "discarded" \in Counts /\ "errors" \in Counts
      /\ "pending" \in Counts /\ "none" \in Counts
  BY DEF Counts
<1>10. /\ P \subseteq Files /\ D \subseteq Files /\ E \subseteq Files /\ O \subseteq Files /\ N \subseteq Files
       /\ Cardinality(P) = n("processed") /\ Cardinality(D) = n("discarded")
       /\ Cardinality(E) = n("errors") /\ Cardinality(O) = n("pending") /\ Cardinality(N) = n("none")
  BY <1>4, <1>9
<1>11. P \cup D \cup E \cup O \cup N = Range(run.sent)
  BY <1>4, <1>9
<1>12. P \cap D = {} /\ (P \cup D) \cap (E \cup O \cup N) = {} /\ E \cap O = {} /\ (E \cup O) \cap N = {}
  <2>1. /\ P \cap D = {} /\ P \cap E = {} /\ P \cap O = {} /\ P \cap N = {} /\ D \cap E = {}
        /\ D \cap O = {} /\ D \cap N = {} /\ E \cap O = {} /\ E \cap N = {} /\ O \cap N = {}
    BY <1>4, <1>9
  <2> QED BY <2>1
<1>13. P \cap immich = {} /\ D \subseteq immich
  <2>1. \A o \in DOMAIN Outcomes :
          /\ Outcomes[o].count = "processed" => o \in {"processed", "extra"}
          /\ Outcomes[o].count = "discarded" => o = "discarded"
    BY DEF Outcomes
  <2>2. \A i \in DOMAIN out : out[i] \in DOMAIN Outcomes
    BY <1>3 DEF Runs
  <2>3. \A i \in With(out, "processed") : run.sent[i] \notin immich
    BY <1>3, <2>1, <2>2 DEF With, Possible
  <2>4. \A i \in With(out, "discarded") : run.sent[i] \in immich
    BY <1>3, <2>1, <2>2 DEF With, Possible
  <2> QED BY <2>3, <2>4 DEF In
<1>14. landed \subseteq E /\ immich' = immich \cup P \cup landed
       /\ UNCHANGED <<photos, leftOut, accepted, staged, given, verified, assets>>
  BY <1>2 DEF Reporting
<1>15. run.kind = "full" => N = {} \/ P \cup D \cup E \cup O = {}
  <2> SUFFICES ASSUME run.kind = "full" PROVE N = {} \/ P \cup D \cup E \cup O = {}
    OBVIOUS
  <2>1. \A o \in DOMAIN Outcomes : Outcomes[o].count = "none" <=> o = "skipped"
    BY DEF Outcomes
  <2>2. \A i \in DOMAIN out : out[i] \in DOMAIN Outcomes
    BY <1>3 DEF Runs
  <2>3. (\A i \in DOMAIN out : out[i] = "skipped") \/ (\A i \in DOMAIN out : out[i] # "skipped")
    BY <1>3 DEF Possible
  <2>4. CASE \A i \in DOMAIN out : out[i] = "skipped"
    <3>1. \A k : k # "none" => With(out, k) = {}
      BY <2>1, <2>2, <2>4 DEF With
    <3> QED BY <3>1 DEF In
  <2>5. CASE \A i \in DOMAIN out : out[i] # "skipped"
    <3>1. With(out, "none") = {}
      BY <2>1, <2>2, <2>5 DEF With
    <3> QED BY <3>1 DEF In
  <2> QED BY <2>3, <2>4, <2>5
<1> DEFINE e == n("errors")
           o == n("pending")
           s == n("none")
<1>16. /\ e \in Nat /\ o \in Nat /\ s \in Nat
       /\ n("processed") \in Nat /\ n("discarded") \in Nat
  BY <1>4, <1>9
<1>17. BadOf(run') = e + o + (IF run.kind = "retry" THEN s ELSE 0)
  <2>1. Seen(c) = n("processed") + n("discarded") + e + o
    BY <1>7 DEF Seen
  <2> HIDE DEF n
  <2>2. Len(run.sent) - Seen(c) = s
    BY <1>5, <1>16, <2>1
  <2> QED BY <1>7, <1>8, <2>2 DEF BadOf
<1>18. Len(NotedOf(run')) = BadOf(run') => Real(NotedOf(run')) \subseteq E \cup O \cup N
  <2> SUFFICES ASSUME Len(NotedOf(run')) = BadOf(run')
               PROVE  Real(NotedOf(run')) \subseteq E \cup O \cup N
    OBVIOUS
  <2>1. NotedOf(run') = IF e + o > 0 THEN named ELSE <<>>
    BY <1>7, <1>8 DEF NotedOf
  <2>2. CASE NotedOf(run') = <<>>
    BY <2>2, NoneListed
  <2>3. CASE NotedOf(run') # <<>>
    <3>1. e + o > 0 /\ NotedOf(run') = log
      BY <1>3, <2>1, <2>3
    <3>2. run.kind = "full" => s = 0
      <4>1. E # {} \/ O # {}
        <5>1. E = {} => e = 0
          BY <1>10, FS_EmptySet
        <5>2. O = {} => o = 0
          BY <1>10, FS_EmptySet
        <5> HIDE DEF E, O, e, o
        <5> QED BY <1>16, <3>1, <5>1, <5>2
      <4>2. run.kind = "full" => N = {}
        BY <1>15, <4>1
      <4> QED BY <1>10, <4>2, FS_EmptySet
    <3>3. BadOf(run') = e + o + s
      <4> HIDE DEF e, o, s
      <4> QED BY <1>1, <1>16, <1>17, <3>2
    <3>4. Told(log, run.sent, out)
      BY <1>3, ProblemsTold DEF log
    <3>5. Len(log) = Cardinality(With(out, "errors") \cup With(out, "pending") \cup With(out, "none"))
      BY <1>5, <3>1, <3>3
    <3>6. Real(log) \subseteq E \cup O \cup N
      BY <1>3, <3>4, <3>5, LogSays
    <3> QED BY <3>1, <3>6
  <2> QED BY <2>2, <2>3
<1>19. /\ run'.report.processed = Cardinality(P) /\ run'.report.discarded = Cardinality(D)
       /\ run'.report.errors = Cardinality(E) /\ run'.report.pending = Cardinality(O)
  BY <1>7, <1>8, <1>10
<1>20. BadOf(run') = Cardinality(E) + Cardinality(O) + (IF run.kind = "retry" THEN Cardinality(N) ELSE 0)
  BY <1>10, <1>17
<1> HIDE DEF P, D, E, O, N
<1>21. Says(P, D, E, O, N, landed)
  BY <1>8, <1>10, <1>11, <1>12, <1>13, <1>14, <1>15, <1>18, <1>19, <1>20 DEF Says
<1> QED BY <1>21

----------------------------------------------------------------------------
(* What the record says was brought over *)

\* No more than the library holds; and where the list is whole, no more than it
\* holds beside the files on the list, so that a retry of them can add to it.
MatchedFits(v, lib) ==
  /\ v.matched <= Cardinality(lib)
  /\ ProblemsComplete(v) => v.matched <= Cardinality(lib \ Real(v.problems))

\* The same of the record that the run q will leave.
WillMatch(q, v, lib) ==
  LET n == q.report.processed + (IF q.kind = "retry" THEN v.matched + q.report.discarded ELSE 0)
  IN /\ n <= Cardinality(lib)
     /\ Len(NotedOf(q)) = BadOf(q)
          => n <= Cardinality(lib \ (Real(NotedOf(q)) \cup Real(q.missing)))

Matching ==
  /\ MatchedFits(verified, immich)
  /\ run.pc \in {"assets", "record"} => WillMatch(run, verified, immich)

\* A set of files has no fewer members than one inside it.
LEMMA Grows ==
  ASSUME NEW T, T \subseteq Files, NEW S, S \subseteq T
  PROVE  /\ IsFiniteSet(T) /\ IsFiniteSet(S) /\ Cardinality(S) \in Nat /\ Cardinality(T) \in Nat
         /\ Cardinality(S) <= Cardinality(T)
<1>1. IsFiniteSet(T)
  BY FilesAssumption, FS_Subset
<1> QED BY <1>1, FS_Subset, FS_CardinalityType

\* Three sets apart, in one set of files.
LEMMA ThreeApart ==
  ASSUME NEW T, T \subseteq Files, NEW A, NEW B, NEW C, A \subseteq T, B \subseteq T, C \subseteq T,
         A \cap B = {}, A \cap C = {}, B \cap C = {}
  PROVE  /\ Cardinality(A) \in Nat /\ Cardinality(B) \in Nat /\ Cardinality(C) \in Nat
         /\ Cardinality(T) \in Nat
         /\ Cardinality(A) + Cardinality(B) + Cardinality(C) <= Cardinality(T)
<1>1. IsFiniteSet(A) /\ IsFiniteSet(B) /\ IsFiniteSet(C)
  BY Grows
<1>2. /\ IsFiniteSet(A \cup B) /\ Cardinality(A \cup B) = Cardinality(A) + Cardinality(B)
      /\ Cardinality(A) \in Nat /\ Cardinality(B) \in Nat
  BY <1>1, Disjoint
<1>3. /\ Cardinality((A \cup B) \cup C) = Cardinality(A \cup B) + Cardinality(C)
      /\ Cardinality(C) \in Nat
  <2>1. (A \cup B) \cap C = {}
    OBVIOUS
  <2> QED BY <1>1, <1>2, <2>1, Disjoint
<1>4. /\ Cardinality((A \cup B) \cup C) <= Cardinality(T) /\ Cardinality(T) \in Nat
  <2>1. (A \cup B) \cup C \subseteq T
    OBVIOUS
  <2> QED BY <2>1, Grows
<1> QED BY <1>2, <1>3, <1>4

\* Five sets apart, as the five parts of what was sent.
LEMMA FiveApart ==
  ASSUME NEW A, NEW B, NEW C, NEW D, NEW E, IsFiniteSet(A), IsFiniteSet(B), IsFiniteSet(C),
         IsFiniteSet(D), IsFiniteSet(E), A \cap B = {}, (A \cup B) \cap (C \cup D \cup E) = {},
         C \cap D = {}, (C \cup D) \cap E = {}
  PROVE  Cardinality(A \cup B \cup C \cup D \cup E)
           = Cardinality(A) + Cardinality(B) + Cardinality(C) + Cardinality(D) + Cardinality(E)
<1>1. /\ IsFiniteSet(A \cup B) /\ Cardinality(A \cup B) = Cardinality(A) + Cardinality(B)
      /\ Cardinality(A) \in Nat /\ Cardinality(B) \in Nat
  BY Disjoint
<1>2. /\ IsFiniteSet(C \cup D) /\ Cardinality(C \cup D) = Cardinality(C) + Cardinality(D)
      /\ Cardinality(C) \in Nat /\ Cardinality(D) \in Nat
  BY Disjoint
<1> DEFINE S == A \cup B
           T == C \cup D
<1>3. /\ IsFiniteSet(T \cup E) /\ Cardinality(T \cup E) = Cardinality(T) + Cardinality(E)
      /\ Cardinality(E) \in Nat
  BY <1>2, Disjoint
<1>4. Cardinality(S \cup (T \cup E)) = Cardinality(S) + Cardinality(T \cup E)
  <2>1. S \cap (T \cup E) = {} /\ IsFiniteSet(S) /\ IsFiniteSet(T \cup E)
    BY <1>1, <1>3
  <2> HIDE DEF S, T
  <2> QED BY <2>1, Disjoint
<1>5. Cardinality(A \cup B \cup C \cup D \cup E) = Cardinality(S \cup (T \cup E))
  <2>1. A \cup B \cup C \cup D \cup E = S \cup (T \cup E)
    OBVIOUS
  <2> QED BY <2>1
<1> DEFINE all == Cardinality(A \cup B \cup C \cup D \cup E)
<1>6. all = Cardinality(S) + (Cardinality(T) + Cardinality(E))
  BY <1>3, <1>4, <1>5
<1> HIDE DEF all
<1> QED BY <1>1, <1>2, <1>3, <1>6 DEF all

\* A library that grows holds what was said of it.
LEMMA MatchedGrows ==
  ASSUME NEW v \in Verifies, NEW lib, NEW lib2, lib \subseteq lib2, lib2 \subseteq Files,
         MatchedFits(v, lib)
  PROVE  MatchedFits(v, lib2)
<1>1. v.matched \in Nat
  BY DEF Verifies
<1>2. /\ Cardinality(lib) <= Cardinality(lib2) /\ Cardinality(lib) \in Nat /\ Cardinality(lib2) \in Nat
  BY Grows
<1> DEFINE A == lib \ Real(v.problems)
           B == lib2 \ Real(v.problems)
<1>3. A \subseteq B /\ B \subseteq Files
  OBVIOUS
<1> HIDE DEF A, B
<1>4. Cardinality(A) <= Cardinality(B) /\ Cardinality(A) \in Nat /\ Cardinality(B) \in Nat
  BY <1>3, Grows
<1>5. ProblemsComplete(v) => v.matched <= Cardinality(B)
  BY <1>1, <1>4 DEF MatchedFits, A
<1> QED BY <1>1, <1>2, <1>5 DEF MatchedFits, B

\* Of a list of which no file is copied, all names stay, marked.
LEMMA NoneCopied ==
  ASSUME NEW ps, Listed(ps)
  PROVE  LET m == NotFound(ps, {}) IN Listed(m) /\ Len(m) = Len(ps) /\ Real(m) = Real(ps)
<1> DEFINE m == NotFound(ps, {})
           s == Copies(ps, {})
<1>1. /\ Listed(m) /\ NamesOf(m) = NamesOf(ps) \ {}
      /\ s \in Seq(Files) /\ Range(s) = {}
      /\ Len(ps) = Len(m) + Len(s) /\ Len(m) \in Nat /\ Len(s) \in Nat
  BY SplitIs
<1> HIDE DEF m, s
<1>2. DOMAIN s = {}
  BY <1>1 DEF Range
<1>3. Cardinality(DOMAIN s) = Len(s)
  BY <1>1, DomainFinite
<1>4. Len(s) = 0
  BY <1>2, <1>3, FS_EmptySet
<1> QED BY <1>1, <1>4 DEF Real, m

\* What the run does to the record: none of it changes what is said of the library
\* but the outcome that it stores.
RecordMoves(v) == /\ v.checked = verified.checked /\ v.matched = verified.matched
                  /\ v.mismatch = verified.mismatch
                  /\ Len(v.problems) = Len(verified.problems)
                  /\ Real(v.problems) = Real(verified.problems)

\* The copying of a retry changes nothing of what the record says.
LEMMA ExtractMoves ==
  ASSUME Sound, extractProblems, "partial" \notin Events
  PROVE  /\ run.kind = "retry" /\ RecordMoves(verified') /\ UNCHANGED <<immich, given, accepted>>
         /\ \/ photos' = "failed" /\ leftOut' /\ run' = NoRun
            \/ UNCHANGED <<photos, leftOut>> /\ run'.pc = "immichgo" /\ run'.kind = "retry"
<1>1. /\ run.pc = "copy" /\ run.kind = "retry" /\ run \in RunStates
      /\ UNCHANGED <<staged, immich, given, assets>>
  BY WhichRun DEF extractProblems
<1> DEFINE ps == verified.problems
<1>2. PICK found \in SUBSET (staged \cap NamesOf(ps)) :
        IF found = {}
        THEN PutVerification([verified EXCEPT !.problems = NotFound(ps, found)]) /\ restoreLeftOut
        ELSE /\ run' = [run EXCEPT !.pc = "immichgo", !.missing = NotFound(ps, found),
                                   !.sent = Copies(ps, found)]
             /\ UNCHANGED <<state, verified>>
  BY Extracting
<1>3. Listed(ps) /\ verified \in Verifies
  BY DEF Sound, RecordOK
<1>4. CASE found = {}
  <2> DEFINE m == NotFound(ps, {})
  <2>1. Len(m) = Len(ps) /\ Real(m) = Real(ps)
    BY <1>3, NoneCopied
  <2>2. PutVerification([verified EXCEPT !.problems = m]) /\ restoreLeftOut
    BY <1>2, <1>4
  <2> HIDE DEF m
  <2>3. RecordMoves(verified')
    BY <1>3, <2>1, <2>2 DEF PutVerification, RecordMoves, Verifies
  <2> QED BY <1>1, <2>2, <2>3 DEF restoreLeftOut, failPhotos
<1>5. CASE found # {}
  <2> DEFINE m == NotFound(ps, found)
             s == Copies(ps, found)
  <2>1. run' = [run EXCEPT !.pc = "immichgo", !.missing = m, !.sent = s] /\ UNCHANGED <<state, verified>>
    BY <1>2, <1>5
  <2> HIDE DEF m, s
  <2>2. run'.pc = "immichgo" /\ run'.kind = "retry"
    BY <1>1, <2>1 DEF RunStates
  <2> QED BY <1>1, <2>1, <2>2 DEF RecordMoves, state
<1> QED BY <1>4, <1>5

\* What the record of the run will be made of, as the model has it.
LEMMA NotedAndBad ==
  ASSUME Sound, run.pc \in {"assets", "record"}
  PROVE  Noted = NotedOf(run) /\ Bad = BadOf(run)
<1>1. run.kind \in {"full", "retry"}
  BY WhichRun
<1>2. run.kind = "retry" => PassedOver = Len(run.sent) - Seen(run.report)
  BY SentIs
<1> QED BY <1>1, <1>2 DEF Noted, NotedOf, Bad, BadOf

\* After a report: what it brought is there, beside what was there.
LEMMA MatchReport ==
  ASSUME Sound, MatchedFits(verified, immich), ImmichGoReports, "cancel" \notin Events
  PROVE  WillMatch(run', verified, immich')
<1>1. run.pc = "immichgo" /\ run.kind \in {"full", "retry"}
  BY ReportComes
<1>2. PICK P, D, E, O, N, L : Says(P, D, E, O, N, L)
  BY ReportSays
<1> DEFINE noted == Real(NotedOf(run'))
           missing == Real(run.missing)
           whole == Len(NotedOf(run')) = BadOf(run')
           rest == immich' \ (noted \cup missing)
<1>3. /\ P \subseteq Files /\ D \subseteq Files /\ E \subseteq Files
      /\ P \cap D = {} /\ (P \cup D) \cap (E \cup O \cup N) = {}
      /\ P \cup D \cup E \cup O \cup N = Range(run.sent)
      /\ P \cap immich = {} /\ D \subseteq immich /\ L \subseteq E /\ immich' = immich \cup P \cup L
      /\ run'.kind = run.kind /\ run'.missing = run.missing
      /\ run'.report.processed = Cardinality(P) /\ run'.report.discarded = Cardinality(D)
      /\ whole => noted \subseteq E \cup O \cup N
  BY <1>2 DEF Says
<1>4. immich \subseteq Files /\ immich' \subseteq Files
  BY <1>3 DEF Sound
<1>5. rest \subseteq Files /\ rest \subseteq immich' /\ run'.missing = run.missing
  BY <1>3, <1>4
<1>6. CASE run.kind = "full"
  <2>1. missing = {}
    BY <1>1, <1>6, NoneListed DEF Sound, RunFits
  <2>2. P \subseteq immich' /\ (whole => P \subseteq rest)
    BY <1>3, <2>1
  <2> HIDE DEF whole, rest
  <2>3. Cardinality(P) <= Cardinality(immich') /\ (whole => Cardinality(P) <= Cardinality(rest))
    BY <1>4, <1>5, <2>2, Grows
  <2>4. Cardinality(P) \in Nat
    BY <1>3, Grows
  <2>5. run'.report.processed + 0 = Cardinality(P) /\ run'.kind # "retry"
    BY <1>3, <1>6, <2>4
  <2> QED BY <1>3, <2>3, <2>5 DEF WillMatch, whole, rest
<1>7. CASE run.kind = "retry"
  <2> DEFINE A == immich \ Real(verified.problems)
             m == verified.matched
  <2>1. /\ NamesOf(verified.problems) = NamesOf(run.missing) \cup Range(run.sent)
        /\ NamesOf(run.missing) \cap Range(run.sent) = {}
        /\ ProblemsComplete(verified)
    BY <1>1, <1>7 DEF Sound, RunFits
  <2>2. m <= Cardinality(A) /\ m \in Nat
    BY <2>1 DEF MatchedFits, Sound, RecordOK, Verifies
  <2>3. Range(run.sent) \subseteq Files
    BY SentFiles
  <2>4. Range(run.sent) \subseteq Real(verified.problems) /\ missing \subseteq Real(verified.problems)
        /\ missing \cap Range(run.sent) = {}
    BY <2>1, <2>3 DEF Real
  <2>5. A \subseteq Files /\ A \cap P = {} /\ A \cap D = {}
    BY <1>3, <1>4, <2>4
  <2>6. A \subseteq immich' /\ P \subseteq immich' /\ D \subseteq immich'
    BY <1>3
  <2>7. whole => A \subseteq rest /\ P \subseteq rest /\ D \subseteq rest
    BY <1>3, <2>4, <2>6
  <2> HIDE DEF A, whole, rest
  <2>8. /\ Cardinality(A) + Cardinality(P) + Cardinality(D) <= Cardinality(immich')
        /\ Cardinality(A) \in Nat /\ Cardinality(P) \in Nat /\ Cardinality(D) \in Nat
        /\ Cardinality(immich') \in Nat
    <3>1. P \cap D = {}
      BY <1>3
    <3> QED BY <1>4, <2>5, <2>6, <3>1, ThreeApart
  <2>9. whole => /\ Cardinality(A) + Cardinality(P) + Cardinality(D) <= Cardinality(rest)
                 /\ Cardinality(rest) \in Nat
    <3>1. P \cap D = {}
      BY <1>3
    <3> QED BY <1>5, <2>5, <2>7, <3>1, ThreeApart
  <2> HIDE DEF m
  <2>10. /\ Cardinality(P) + (m + Cardinality(D)) <= Cardinality(immich')
         /\ whole => Cardinality(P) + (m + Cardinality(D)) <= Cardinality(rest)
    BY <2>2, <2>8, <2>9
  <2> QED BY <1>3, <1>7, <2>10 DEF WillMatch, whole, rest, m
<1> QED BY <1>1, <1>6, <1>7

\* And the record that comes of it says no more.
LEMMA MatchRecord ==
  ASSUME Sound, Matching, RecordOutcome
  PROVE  MatchedFits(verified', immich)
<1>1. /\ run.pc = "record" /\ run.kind \in {"full", "retry"}
      /\ verified' = verified \/ verified' = IF run.kind = "retry" THEN Folded ELSE Outcome
  BY WhichRun DEF RecordOutcome, PutVerification
<1>2. MatchedFits(verified, immich) /\ WillMatch(run, verified, immich)
  BY <1>1 DEF Matching
<1>3. Noted = NotedOf(run) /\ Bad = BadOf(run)
  BY <1>1, NotedAndBad
<1>4. /\ run.report.processed \in Nat /\ run.report.discarded \in Nat /\ verified.matched \in Nat
      /\ run.kind = "full" => run.missing = <<>>
      /\ run.kind = "retry" => ProblemsComplete(verified)
  BY <1>1 DEF Sound, RunFits, RunStates, Reports, RecordOK, Verifies
<1>5. CASE run.kind = "full"
  <2>1. /\ Outcome.matched = run.report.processed /\ Outcome.mismatch = Bad
        /\ Outcome.problems = Noted
    BY <1>1, <1>5, OutcomeIs
  <2>2. /\ run.report.processed + 0 <= Cardinality(immich)
        /\ Len(Noted) = Bad => run.report.processed + 0
                                 <= Cardinality(immich \ (Real(Noted) \cup Real(run.missing)))
    BY <1>2, <1>3, <1>5 DEF WillMatch
  <2>3. Real(Noted) \cup Real(run.missing) = Real(Noted)
    BY <1>4, <1>5, NoneListed
  <2>4. run.report.processed + 0 = run.report.processed
    BY <1>4
  <2>5. MatchedFits(Outcome, immich)
    BY <2>1, <2>2, <2>3, <2>4 DEF MatchedFits, ProblemsComplete
  <2> QED BY <1>1, <1>2, <1>5, <2>5
<1>6. CASE run.kind = "retry" /\ Reached(run.report)
  <2> DEFINE n == verified.matched + run.report.processed + run.report.discarded
  <2>1. /\ Folded.matched = n
        /\ Real(Folded.problems) = Real(Noted) \cup Real(run.missing)
        /\ ProblemsComplete(Folded) => Len(Noted) = Bad
    BY <1>1, <1>6, FoldedIs
  <2>2. n = run.report.processed + (verified.matched + run.report.discarded)
    BY <1>4
  <2> HIDE DEF n
  <2>3. /\ n <= Cardinality(immich)
        /\ Len(Noted) = Bad => n <= Cardinality(immich \ (Real(Noted) \cup Real(run.missing)))
    BY <1>2, <1>3, <1>6, <2>2 DEF WillMatch
  <2>4. MatchedFits(Folded, immich)
    BY <2>1, <2>3 DEF MatchedFits
  <2> QED BY <1>1, <1>2, <1>6, <2>4
<1>7. CASE run.kind = "retry" /\ ~Reached(run.report)
  <2>1. /\ Folded.matched = verified.matched /\ Folded.mismatch = verified.mismatch
        /\ Real(Folded.problems) = Real(verified.problems)
    BY <1>1, <1>7, FoldedIs
  <2>2. MatchedFits(Folded, immich)
    BY <1>2, <1>4, <1>7, <2>1 DEF MatchedFits
  <2> QED BY <1>1, <1>2, <1>7, <2>2
<1> QED BY <1>1, <1>5, <1>6, <1>7

\* At first nothing is said.
LEMMA MatchingInit == Init => Matching
<1> SUFFICES ASSUME Init PROVE Matching
  OBVIOUS
<1>1. verified = NoVerify /\ immich \subseteq Files /\ run = NoRun
  BY DEF Init
<1>2. NoVerify.matched = 0 /\ run.pc = "idle"
  BY <1>1, NoRunFits DEF NoVerify
<1>3. Cardinality(immich) \in Nat /\ Cardinality(immich \ Real(NoVerify.problems)) \in Nat
  BY <1>1, Grows
<1> QED BY <1>1, <1>2, <1>3 DEF Matching, MatchedFits

\* Every step keeps it.
LEMMA MatchingStep ==
  ASSUME Sound, Matching, [Next]_vars, "partial" \notin Events, "cancel" \notin Events
  PROVE  Matching'
<1>0. verified \in Verifies /\ immich \subseteq Files /\ MatchedFits(verified, immich)
  BY DEF Sound, RecordOK, Matching
<1>1. CASE ImmichGoReports
  <2>1. PICK P, D, E, O, N, L : Says(P, D, E, O, N, L)
    BY <1>1, ReportSays
  <2>2. UNCHANGED verified /\ immich \subseteq immich' /\ immich' \subseteq Files
    BY <1>0, <2>1 DEF Says
  <2>3. WillMatch(run', verified', immich')
    BY <1>0, <1>1, <2>2, MatchReport
  <2>4. MatchedFits(verified', immich')
    BY <1>0, <2>2, MatchedGrows
  <2> QED BY <2>3, <2>4 DEF Matching
<1>2. CASE RecordOutcome
  <2>1. UNCHANGED immich /\ run'.pc = "finish"
    BY <1>2 DEF RecordOutcome, NoRun
  <2> QED BY <1>2, <2>1, MatchRecord DEF Matching
<1>3. CASE extractProblems
  <2>1. RecordMoves(verified') /\ UNCHANGED immich /\ run'.pc \notin {"assets", "record"}
    BY <1>3, ExtractMoves, NoRunFits
  <2> QED BY <1>0, <2>1 DEF Matching, MatchedFits, RecordMoves, ProblemsComplete
<1>4. CASE SetPhotosAssets
  <2>1. /\ run.pc = "assets" /\ UNCHANGED <<verified, immich>>
        /\ run' = [run EXCEPT !.pc = "record"] /\ run \in RunStates
    BY <1>4, WhichRun DEF SetPhotosAssets
  <2>2. /\ run'.kind = run.kind /\ run'.report = run.report /\ run'.named = run.named
        /\ run'.sent = run.sent /\ run'.missing = run.missing
    BY <2>1 DEF RunStates
  <2>3. NotedOf(run') = NotedOf(run) /\ BadOf(run') = BadOf(run)
    BY <2>2 DEF NotedOf, BadOf
  <2>4. WillMatch(run, verified, immich)
    BY <2>1 DEF Matching
  <2>5. WillMatch(run', verified, immich)
    BY <2>2, <2>3, <2>4 DEF WillMatch
  <2> QED BY <1>0, <2>1, <2>5 DEF Matching
<1>5. CASE ImmichGoBreaks \/ ImmichRefuses
  <2>1. /\ UNCHANGED verified /\ run' = NoRun
        /\ \E landed \in SUBSET Range(run.sent) : immich' = immich \cup landed
    BY <1>5 DEF ImmichGoBreaks, ImmichRefuses, restoreLeftOut, failPhotos, record
  <2>2. immich \subseteq immich' /\ immich' \subseteq Files
    BY <1>0, <2>1, SentFiles
  <2>3. MatchedFits(verified', immich')
    BY <1>0, <2>1, <2>2, MatchedGrows
  <2> QED BY <2>1, <2>3, NoRunFits DEF Matching
<1>6. CASE \/ PartLands \/ AcceptPhotos \/ UNCHANGED vars
  <2>1. UNCHANGED <<verified, immich, run>>
    BY <1>6 DEF PartLands, AcceptPhotos, vars, record
  <2> QED BY <2>1 DEF Matching
<1>7. CASE \/ LaunchImport \/ RetryPhotosProblems \/ RetryCannotStart
           \/ FinishEmpty \/ FinishPhotosImport \/ Restart
  <2>1. UNCHANGED <<verified, immich>> /\ run'.pc \notin {"assets", "record"}
    BY <1>7, NoRunFits DEF LaunchImport, RetryPhotosProblems, RetryCannotStart, FinishEmpty,
       FinishPhotosImport, Restart, restoreLeftOut, failPhotos, record, NoRun
  <2> QED BY <1>0, <2>1 DEF Matching
<1> QED BY <1>1, <1>2, <1>3, <1>4, <1>5, <1>6, <1>7 DEF Next

\* Where the log of one import does not name one file too many and another too few,
\* the record never says that more was brought over than the library holds.
THEOREM MatchedAreThere ==
  "partial" \notin Events /\ "cancel" \notin Events => (Spec => []MatchedIsThere)
<1> SUFFICES ASSUME "partial" \notin Events, "cancel" \notin Events
             PROVE  Spec => []MatchedIsThere
  OBVIOUS
<1>1. Init => Sound /\ Matching
  BY SoundInit, MatchingInit
<1>2. Sound /\ Matching /\ [Next]_vars => Sound' /\ Matching'
  BY SoundStep, MatchingStep
<1>3. Matching => MatchedIsThere
  BY DEF Matching, MatchedFits, MatchedIsThere
<1> QED BY <1>1, <1>2, <1>3, PTL DEF Spec

----------------------------------------------------------------------------
(* What is left out is counted *)

\* The files missing are no more than the record leaves out; and where the list is
\* whole, neither are these and the files on the list together.
LeftFits(v, lost) ==
  /\ Cardinality(lost) <= v.mismatch
  /\ ProblemsComplete(v) => Cardinality(lost \cup Real(v.problems)) <= v.mismatch

\* The same of the record that the run q will leave.
WillCount(q, lost) ==
  LET n == BadOf(q) + Len(q.missing)
  IN /\ Cardinality(lost) <= n
     /\ Len(NotedOf(q)) = BadOf(q)
          => Cardinality(lost \cup Real(NotedOf(q)) \cup Real(q.missing)) <= n

Lost == given \ immich

HasOutcome(q) == q.kind = "retry" \/ Reached(q.report)

Counting ==
  /\ photos = "failed" /\ leftOut => LeftFits(verified, Lost)
  /\ run.kind = "retry" /\ run.pc # "finish" => LeftFits(verified, Lost)
  /\ run.pc = "finish" => LeftFits(verified, Lost) /\ run.left = verified.mismatch
  /\ photos = "done" /\ ~accepted => given \subseteq immich
  /\ run.kind = "full" /\ run.pc = "immichgo" => given = Range(run.sent)
  /\ run.pc = "record" => HasOutcome(run)
  /\ run.pc \in {"assets", "record"} /\ HasOutcome(run) => WillCount(run, Lost)

\* What covers the files missing covers fewer of them.
LEMMA LeftShrinks ==
  ASSUME NEW v \in Verifies, NEW lost, NEW lost2, lost2 \subseteq lost, lost \subseteq Files,
         LeftFits(v, lost)
  PROVE  LeftFits(v, lost2)
<1>1. v.mismatch \in Nat
  BY DEF Verifies
<1>2. Cardinality(lost2) <= Cardinality(lost) /\ Cardinality(lost) \in Nat /\ Cardinality(lost2) \in Nat
  BY Grows
<1> DEFINE A == lost2 \cup Real(v.problems)
           B == lost \cup Real(v.problems)
<1>3. A \subseteq B /\ B \subseteq Files
  BY DEF Real
<1> HIDE DEF A, B
<1>4. Cardinality(A) <= Cardinality(B) /\ Cardinality(A) \in Nat /\ Cardinality(B) \in Nat
  BY <1>3, Grows
<1>5. ProblemsComplete(v) => Cardinality(A) <= v.mismatch
  BY <1>1, <1>4 DEF LeftFits, B
<1> QED BY <1>1, <1>2, <1>5 DEF LeftFits, A

\* After a report: a file that is missing, or on the list, is none of those that it
\* brought or found there, so their number takes from what was left out.
LEMMA CountReport ==
  ASSUME Sound, Counting, ImmichGoReports, "cancel" \notin Events, HasOutcome(run')
  PROVE  WillCount(run', Lost')
<1>1. run.pc = "immichgo" /\ run.kind \in {"full", "retry"}
  BY ReportComes
<1>2. PICK P, D, E, O, N, L : Says(P, D, E, O, N, L)
  BY ReportSays
<1> DEFINE noted == Real(NotedOf(run'))
           missing == Real(run.missing)
           whole == Len(NotedOf(run')) = BadOf(run')
           all == Lost' \cup noted \cup missing
           p == Cardinality(P)
           d == Cardinality(D)
           e == Cardinality(E)
           o == Cardinality(O)
           s == Cardinality(N)
           w == Len(run.missing)
<1>3. /\ P \subseteq Files /\ D \subseteq Files /\ E \subseteq Files /\ O \subseteq Files /\ N \subseteq Files
      /\ P \cap D = {} /\ (P \cup D) \cap (E \cup O \cup N) = {} /\ E \cap O = {} /\ (E \cup O) \cap N = {}
      /\ P \cup D \cup E \cup O \cup N = Range(run.sent)
      /\ P \cap immich = {} /\ D \subseteq immich /\ L \subseteq E /\ immich' = immich \cup P \cup L
      /\ run'.kind = run.kind /\ run'.missing = run.missing
      /\ run'.report.processed = p /\ run'.report.discarded = d
      /\ run'.report.errors = e /\ run'.report.pending = o
      /\ run.kind = "full" => N = {} \/ P \cup D \cup E \cup O = {}
      /\ BadOf(run') = e + o + (IF run.kind = "retry" THEN s ELSE 0)
      /\ whole => noted \subseteq E \cup O \cup N
      /\ UNCHANGED given
  BY <1>2 DEF Says
<1>4. /\ IsFiniteSet(P) /\ IsFiniteSet(D) /\ IsFiniteSet(E) /\ IsFiniteSet(O) /\ IsFiniteSet(N)
      /\ p \in Nat /\ d \in Nat /\ e \in Nat /\ o \in Nat /\ s \in Nat
  BY <1>3, Grows
<1>5. given \subseteq Files /\ w \in Nat /\ Listed(run.missing)
  BY <1>1 DEF Sound, RunFits, Listed
<1>6. Lost' = (given \ immich) \ (P \cup L) /\ Lost' \subseteq Lost /\ Lost' \cap (P \cup D) = {}
  BY <1>3 DEF Lost
<1>7. all \subseteq Files /\ Lost \subseteq Files
  BY <1>5, <1>6 DEF Lost, Real
<1>8. CASE run.kind = "full"
  <2>1. missing = {} /\ w = 0 /\ given = Range(run.sent)
    BY <1>1, <1>8, NoneListed DEF Sound, RunFits, Counting
  <2>2. N = {}
    <3>1. SUFFICES ASSUME P \cup D \cup E \cup O = {} PROVE FALSE
      BY <1>3, <1>8
    <3>2. p = 0 /\ d = 0 /\ e = 0 /\ o = 0
      BY <3>1, FS_EmptySet
    <3>3. run'.report \in Reports
      <4>1. Sound'
        BY SoundReport
      <4> QED BY <4>1 DEF Sound, RunFits, RunStates
    <3>4. run'.report = [processed |-> 0, discarded |-> 0, errors |-> 0, pending |-> 0]
      <4> HIDE DEF p, d, e, o
      <4> QED BY <1>3, <3>2, <3>3 DEF Reports
    <3>5. run'.report = NoReport /\ run'.kind = "full"
      BY <1>3, <1>8, <3>4 DEF NoReport, Report
    <3> QED BY <3>5 DEF HasOutcome, Reached
  <2>3. Lost' \subseteq E \cup O /\ (whole => all \subseteq E \cup O)
    BY <1>3, <1>6, <2>1, <2>2
  <2>4. Cardinality(E \cup O) = e + o
    BY <1>3, <1>4, Disjoint
  <2>5. BadOf(run') + w = e + o
    BY <1>3, <1>4, <1>8, <2>1
  <2>6. E \cup O \subseteq Files
    BY <1>3
  <2> HIDE DEF whole, all, w, e, o
  <2>7. Cardinality(Lost') <= e + o /\ (whole => Cardinality(all) <= e + o)
    BY <2>3, <2>4, <2>6, Grows
  <2> QED BY <1>3, <2>5, <2>7 DEF WillCount, whole, all, w
<1>9. CASE run.kind = "retry"
  <2> DEFINE U == Lost \cup Real(verified.problems)
  <2>1. /\ NamesOf(verified.problems) = NamesOf(run.missing) \cup Range(run.sent)
        /\ NamesOf(run.missing) \cap Range(run.sent) = {}
        /\ Len(verified.problems) = w + Len(run.sent)
        /\ ProblemsComplete(verified)
    BY <1>1, <1>9 DEF Sound, RunFits
  <2>2. Cardinality(U) <= verified.mismatch /\ verified.mismatch = Len(verified.problems)
    BY <1>1, <1>9, <2>1 DEF Counting, LeftFits, ProblemsComplete
  <2>3. Range(run.sent) \subseteq Files
    BY SentFiles
  <2>4. Range(run.sent) \subseteq Real(verified.problems) /\ missing \subseteq Real(verified.problems)
        /\ missing \cap Range(run.sent) = {}
    BY <2>1, <2>3 DEF Real
  <2>5. U \subseteq Files
    BY <1>7 DEF Real
  <2>6. P \subseteq U /\ D \subseteq U /\ Lost' \subseteq U /\ (whole => all \subseteq U)
    BY <1>3, <1>6, <2>4
  <2>7. /\ Lost' \cap P = {} /\ Lost' \cap D = {}
        /\ whole => all \cap P = {} /\ all \cap D = {}
    BY <1>3, <1>6, <2>4
  <2>8. Len(run.sent) = p + d + e + o + s
    <3>1. run.sent \in Seq(Files) /\ \A i, j \in DOMAIN run.sent : run.sent[i] = run.sent[j] => i = j
      BY <1>1 DEF Sound, RunFits, RunStates
    <3>2. Cardinality(Range(run.sent)) = Len(run.sent)
      <4> DEFINE q == run.sent
      <4>1. IsFiniteSet(DOMAIN q) /\ Cardinality(DOMAIN q) = Len(q) /\ \A i, j \in DOMAIN q : q[i] = q[j] => i = j
        BY <3>1, DomainFinite
      <4> HIDE DEF q
      <4>2. Cardinality({q[i] : i \in DOMAIN q}) = Cardinality(DOMAIN q)
        BY <4>1, Image
      <4> QED BY <4>1, <4>2 DEF Range, q
    <3>3. Cardinality(P \cup D \cup E \cup O \cup N) = p + d + e + o + s
      <4>1. /\ P \cap D = {} /\ (P \cup D) \cap (E \cup O \cup N) = {}
            /\ E \cap O = {} /\ (E \cup O) \cap N = {}
        BY <1>3
      <4> QED BY <1>4, <4>1, FiveApart
    <3> QED BY <1>3, <3>2, <3>3
  <2>9. BadOf(run') = e + o + s
    BY <1>3, <1>9
  <2> HIDE DEF whole, all, U
  <2>10. /\ Cardinality(Lost') + p + d <= Cardinality(U)
         /\ Cardinality(Lost') \in Nat /\ Cardinality(U) \in Nat
    <3>1. P \cap D = {}
      BY <1>3
    <3> QED BY <2>5, <2>6, <2>7, <3>1, ThreeApart
  <2>11. ASSUME whole PROVE Cardinality(all) + p + d <= Cardinality(U) /\ Cardinality(all) \in Nat
    <3>1. all \subseteq U /\ all \cap P = {} /\ all \cap D = {} /\ P \cap D = {}
      BY <1>3, <2>6, <2>7, <2>11
    <3> QED BY <2>5, <2>6, <3>1, ThreeApart
  <2>12. Cardinality(U) <= w + (p + d + e + o + s)
    BY <2>1, <2>2, <2>8
  <2> DEFINE x == Cardinality(Lost')
             y == Cardinality(all)
             u == Cardinality(U)
             n == BadOf(run') + w
  <2>13. n = e + o + s + w
    BY <2>9
  <2> HIDE DEF p, d, e, o, s, w, x, y, u, n
  <2>14. x <= n /\ (whole => y <= n)
    BY <1>4, <1>5, <2>10, <2>11, <2>12, <2>13 DEF x, y, u
  <2> QED BY <1>3, <2>14 DEF WillCount, whole, all, w, x, y, n
<1> QED BY <1>1, <1>8, <1>9

\* And the record that is stored counts them.
LEMMA CountRecord ==
  ASSUME Sound, Counting, RecordOutcome, "unstored" \notin Events
  PROVE  LeftFits(verified', Lost) /\ run'.left = verified'.mismatch /\ run'.pc = "finish"
<1> DEFINE v == IF run.kind = "retry" THEN Folded ELSE Outcome
           w == Len(run.missing)
<1>1. /\ run.pc = "record" /\ run.kind \in {"full", "retry"} /\ verified' = v
      /\ run' = [NoRun EXCEPT !.kind = run.kind, !.pc = "finish", !.left = v.mismatch]
  BY WhichRun DEF RecordOutcome, PutVerification
<1>2. HasOutcome(run) /\ WillCount(run, Lost)
  BY <1>1 DEF Counting
<1>3. Noted = NotedOf(run) /\ Bad = BadOf(run)
  BY <1>1, NotedAndBad
<1>4. /\ run.kind = "full" => run.missing = <<>>
      /\ run.kind = "retry" => ProblemsComplete(verified) /\ LeftFits(verified, Lost)
  BY <1>1 DEF Sound, RunFits, Counting
<1>5. /\ Cardinality(Lost) <= Bad + w
      /\ Len(Noted) = Bad => Cardinality(Lost \cup Real(Noted) \cup Real(run.missing)) <= Bad + w
  BY <1>2, <1>3 DEF WillCount
<1>6. CASE run.kind = "full"
  <2>1. /\ Outcome.mismatch = Bad /\ Outcome.problems = Noted /\ RecordOK(Outcome)
    BY <1>1, <1>6, OutcomeIs
  <2>2. Bad \in Nat /\ w = 0 /\ Real(run.missing) = {}
    BY <1>4, <1>6, <2>1, NoneListed DEF RecordOK, Verifies
  <2>3. Bad + w = Bad
    BY <2>2
  <2>4. LeftFits(Outcome, Lost)
    BY <1>5, <2>1, <2>2, <2>3 DEF LeftFits, ProblemsComplete
  <2> QED BY <1>1, <1>6, <2>4, NoRunFits DEF RunStates
<1>7. CASE run.kind = "retry"
  <2>1. LeftFits(Folded, Lost)
    <3>1. CASE Reached(run.report)
      <4>1. /\ Folded.mismatch = Bad + w
            /\ Real(Folded.problems) = Real(Noted) \cup Real(run.missing)
            /\ ProblemsComplete(Folded) => Len(Noted) = Bad
        BY <1>1, <1>7, <3>1, FoldedIs
      <4>2. Lost \cup Real(Folded.problems) = Lost \cup Real(Noted) \cup Real(run.missing)
        BY <4>1
      <4> QED BY <1>5, <4>1, <4>2 DEF LeftFits
    <3>2. CASE ~Reached(run.report)
      <4>1. Folded.mismatch = verified.mismatch /\ Real(Folded.problems) = Real(verified.problems)
        BY <1>1, <1>7, <3>2, FoldedIs
      <4> QED BY <1>4, <1>7, <4>1 DEF LeftFits
    <3> QED BY <3>1, <3>2
  <2> QED BY <1>1, <1>7, <2>1, NoRunFits DEF RunStates
<1> QED BY <1>1, <1>6, <1>7

\* At first nothing is given.
LEMMA CountingInit == Init => Counting
BY NoRunFits DEF Init, Counting

\* Every step keeps it.
LEMMA CountingStep ==
  ASSUME Sound, Counting, [Next]_vars,
         "partial" \notin Events, "cancel" \notin Events, "unstored" \notin Events
  PROVE  Counting'
<1>0. /\ verified \in Verifies /\ immich \subseteq Files /\ given \subseteq Files /\ Lost \subseteq Files
      /\ NoRun.kind = "none" /\ NoRun.pc = "idle"
      /\ photos # "importing" => run = NoRun
      /\ photos \in PhotosStates /\ run.kind \in {"none", "full", "retry"} /\ run \in RunStates
  BY WhichRun, NoRunFits DEF Sound, RecordOK, Lost
<1>1. CASE PartLands
  BY <1>1 DEF PartLands, Counting, state, record, Lost
<1>2. CASE LaunchImport
  <2>1. /\ photos' = "importing" /\ given' = staged
        /\ run' = [NoRun EXCEPT !.kind = "full", !.pc = "immichgo", !.sent = SetToSeq(staged)]
    BY <1>2 DEF LaunchImport
  <2>2. Range(SetToSeq(staged)) = staged
    BY SetToSeqIs DEF Sound
  <2>3. run'.kind = "full" /\ run'.pc = "immichgo" /\ run'.sent = SetToSeq(staged)
    BY <2>1, NoRunFits DEF RunStates
  <2> QED BY <2>1, <2>2, <2>3 DEF Counting
<1>3. CASE RetryPhotosProblems
  <2>1. /\ photos' = "importing" /\ UNCHANGED <<verified, given, immich>>
        /\ LeftFits(verified, Lost)
    BY <1>3 DEF RetryPhotosProblems, Counting, record
  <2>2. run' = [NoRun EXCEPT !.kind = "retry", !.pc = "copy", !.prev = verified]
    BY <1>3 DEF RetryPhotosProblems
  <2>3. run'.kind = "retry" /\ run'.pc = "copy"
    BY <2>2, NoRunFits DEF RunStates
  <2> QED BY <2>1, <2>3 DEF Counting, Lost
<1>4. CASE AcceptPhotos
  <2>1. photos' = "done" /\ accepted' /\ UNCHANGED run /\ run = NoRun
    BY <1>0, <1>4 DEF AcceptPhotos
  <2> QED BY <1>0, <2>1 DEF Counting
<1>5. CASE extractProblems
  <2>1. /\ run.kind = "retry" /\ RecordMoves(verified') /\ UNCHANGED <<immich, given, accepted>>
        /\ \/ photos' = "failed" /\ leftOut' /\ run' = NoRun
           \/ UNCHANGED <<photos, leftOut>> /\ run'.pc = "immichgo" /\ run'.kind = "retry"
    BY <1>5, ExtractMoves
  <2>2. photos = "importing" /\ run.pc = "copy"
    BY <1>5, WhichRun DEF extractProblems
  <2>3. LeftFits(verified, Lost)
    BY <2>1, <2>2 DEF Counting
  <2>4. LeftFits(verified', Lost') /\ Lost' = Lost
    BY <2>1, <2>3 DEF LeftFits, RecordMoves, ProblemsComplete, Lost
  <2> QED BY <1>0, <2>1, <2>2, <2>4 DEF Counting
<1>6. CASE RetryCannotStart
  <2>1. run.pc = "copy" /\ run.kind = "retry" /\ run' = NoRun /\ photos' = "failed"
        /\ UNCHANGED <<verified, immich, given>>
    BY <1>6, WhichRun DEF RetryCannotStart, restoreLeftOut, failPhotos, record
  <2> QED BY <1>0, <2>1 DEF Counting, Lost
<1>7. CASE ImmichGoReports
  <2>1. run.pc = "immichgo" /\ photos = "importing"
    BY <1>7, ReportComes
  <2>2. PICK P, D, E, O, N, L : Says(P, D, E, O, N, L)
    BY <1>7, ReportSays
  <2>3. /\ UNCHANGED <<photos, leftOut, accepted, given, verified>> /\ immich \subseteq immich'
        /\ run'.kind = run.kind /\ run'.pc = "assets"
    BY <2>2 DEF Says
  <2>4. HasOutcome(run') => WillCount(run', Lost')
    BY <1>7, CountReport
  <2>5. run.kind = "retry" => LeftFits(verified', Lost')
    <3>1. Lost' \subseteq Lost
      BY <2>3 DEF Lost
    <3> QED BY <1>0, <2>1, <2>3, <3>1, LeftShrinks DEF Counting
  <2> QED BY <2>1, <2>3, <2>4, <2>5 DEF Counting
<1>8. CASE ImmichGoBreaks
  <2>1. /\ UNCHANGED <<verified, given>> /\ run' = NoRun /\ photos' = "failed"
        /\ run.pc = "immichgo" /\ (leftOut' => run.kind = "retry")
        /\ \E landed \in SUBSET Range(run.sent) : immich' = immich \cup landed
    BY <1>8 DEF ImmichGoBreaks, restoreLeftOut, failPhotos, record
  <2>2. Lost' \subseteq Lost
    BY <2>1 DEF Lost
  <2>3. run.kind = "retry" => LeftFits(verified', Lost')
    BY <1>0, <2>1, <2>2, LeftShrinks DEF Counting
  <2> QED BY <1>0, <2>1, <2>3 DEF Counting
<1>9. CASE ImmichRefuses \/ Restart
  <2>1. photos' = "not_started" /\ run' = NoRun
    BY <1>9 DEF ImmichRefuses, Restart
  <2> QED BY <1>0, <2>1 DEF Counting
<1>10. CASE FinishEmpty
  <2>1. photos' = "failed" /\ leftOut' = FALSE /\ run' = NoRun
    BY <1>10 DEF FinishEmpty, failPhotos
  <2> QED BY <1>0, <2>1 DEF Counting
<1>11. CASE SetPhotosAssets
  <2>1. /\ run.pc = "assets" /\ UNCHANGED <<photos, leftOut, accepted, verified, immich, given>>
        /\ run' = [run EXCEPT !.pc = "record"] /\ HasOutcome(run)
    BY <1>11 DEF SetPhotosAssets, state, HasOutcome
  <2>2. /\ run'.kind = run.kind /\ run'.report = run.report /\ run'.named = run.named
        /\ run'.sent = run.sent /\ run'.missing = run.missing /\ run'.pc = "record"
    BY <1>0, <2>1 DEF RunStates
  <2>3. NotedOf(run') = NotedOf(run) /\ BadOf(run') = BadOf(run) /\ HasOutcome(run')
    BY <2>1, <2>2 DEF NotedOf, BadOf, HasOutcome
  <2>4. WillCount(run, Lost) /\ Lost' = Lost
    BY <2>1 DEF Counting, Lost
  <2>5. WillCount(run', Lost')
    BY <2>2, <2>3, <2>4 DEF WillCount
  <2> QED BY <2>1, <2>2, <2>3, <2>4, <2>5 DEF Counting
<1>12. CASE RecordOutcome
  <2>1. LeftFits(verified', Lost) /\ run'.left = verified'.mismatch /\ run'.pc = "finish"
    BY <1>12, CountRecord
  <2>2. UNCHANGED <<photos, leftOut, accepted, immich, given>> /\ photos = "importing"
    BY <1>12, WhichRun DEF RecordOutcome, state
  <2>3. Lost' = Lost
    BY <2>2 DEF Lost
  <2> QED BY <2>1, <2>2, <2>3 DEF Counting
<1>13. CASE FinishPhotosImport
  <2>1. /\ run.pc = "finish" /\ UNCHANGED <<immich, given, verified>> /\ run' = NoRun
        /\ \/ run.left > 0 /\ photos' = "failed"
           \/ run.left = 0 /\ photos' = "done"
    BY <1>13 DEF FinishPhotosImport, failPhotos, record
  <2>2. LeftFits(verified, Lost) /\ run.left = verified.mismatch
    BY <2>1 DEF Counting
  <2>3. run.left = 0 => given \subseteq immich
    <3> SUFFICES ASSUME run.left = 0 PROVE Lost = {}
      BY DEF Lost
    <3>1. IsFiniteSet(Lost) /\ Cardinality(Lost) \in Nat
      BY <1>0, Grows
    <3>2. Cardinality(Lost) = 0
      BY <2>2, <3>1 DEF LeftFits
    <3> QED BY <3>1, <3>2, FS_EmptySet
  <2> QED BY <1>0, <2>1, <2>2, <2>3 DEF Counting, Lost
<1>14. CASE UNCHANGED vars
  BY <1>14 DEF vars, Counting, Lost
<1> QED BY <1>1, <1>2, <1>3, <1>4, <1>5, <1>6, <1>7, <1>8, <1>9, <1>10, <1>11, <1>12, <1>13, <1>14
        DEF Next

\* The card that shows the files left out never says too few of them: where copies
\* that fail leave nothing behind, each log errs in one direction and the records
\* are stored, of any number of files and through any sequence of runs and retries.
THEOREM CardIsHonest ==
  "partial" \notin Events /\ "cancel" \notin Events /\ "unstored" \notin Events
    => (Spec => []CardCountsAll)
<1> SUFFICES ASSUME "partial" \notin Events, "cancel" \notin Events, "unstored" \notin Events
             PROVE  Spec => []CardCountsAll
  OBVIOUS
<1>1. Init => Sound /\ Counting
  BY SoundInit, CountingInit
<1>2. Sound /\ Counting /\ [Next]_vars => Sound' /\ Counting'
  BY SoundStep, CountingStep
<1>3. Counting => CardCountsAll
  BY DEF Counting, LeftFits, Lost, CardCountsAll
<1> QED BY <1>1, <1>2, <1>3, PTL DEF Spec

\* And there the half is done only when every file that the import was given is in
\* the library, or the person has said that the result will do.
THEOREM NothingIsDropped ==
  "partial" \notin Events /\ "cancel" \notin Events /\ "unstored" \notin Events
    => (Spec => []NothingDropped)
<1> SUFFICES ASSUME "partial" \notin Events, "cancel" \notin Events, "unstored" \notin Events
             PROVE  Spec => []NothingDropped
  OBVIOUS
<1>1. Init => Sound /\ Counting
  BY SoundInit, CountingInit
<1>2. Sound /\ Counting /\ [Next]_vars => Sound' /\ Counting'
  BY SoundStep, CountingStep
<1>3. Counting => NothingDropped
  BY DEF Counting, NothingDropped
<1> QED BY <1>1, <1>2, <1>3, PTL DEF Spec
=============================================================================
