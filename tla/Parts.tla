------------------------------- MODULE Parts -------------------------------
(***************************************************************************)
(* core.CountParts: a set of archives measured against the number of files *)
(* that make up the export.  Google numbers the parts of a split export at *)
(* the end of their names (-001, -002, ...); a name that was changed, or   *)
(* an export in one file, has no number.                                   *)
(***************************************************************************)
EXTENDS Integers, FiniteSets

CONSTANTS
  Archive,  \* names of archives
  Number    \* [Archive -> Nat \cup {NoNumber}]: what partNumber finds in a name

NoNumber == -1

ASSUME NumberAssumption ==
  IsFiniteSet(Archive) /\ Number \in [Archive -> Nat \cup {NoNumber}]

Numbered(S) == {a \in S : Number[a] # NoNumber}

\* A mutant: every archive with a number is a part, -000 too.
SeenZero(S) == {Number[a] : a \in Numbered(S)}

\* The parts that are here.  Google counts from 1: -000 is a name shaped like a
\* part and yet no part.
Seen(S) == {Number[a] : a \in Numbered(S)} \ {0}

\* A mutant: the files are what counts, whatever their names.
NeverByNumber(S) == FALSE

\* With one name shaped like a part, or nothing here, the numbers are what
\* counts; else there is only the number of files to go by.  The comment in the
\* function wants this ("a renamed or duplicated file" must not "stand in for a part
\* that never arrived"); that of the type denies it (NameNeverBlocks).
ByNumber(S) == Numbered(S) # {} \/ S = {}

Have(S) == IF ByNumber(S) THEN Cardinality(Seen(S)) ELSE Cardinality(S)
\* The type's comment has it filled "only when every name carried a number".
Missing(S, n) == IF ByNumber(S) THEN 1..n \ Seen(S) ELSE {}
TooMany(S, n) == (\E k \in Seen(S) : k > n) \/ Have(S) > n

\* Parts.Complete of CountParts(S, n).
Complete(S, n) == n > 0 /\ ~TooMany(S, n) /\ Have(S) = n /\ Missing(S, n) = {}
=============================================================================
