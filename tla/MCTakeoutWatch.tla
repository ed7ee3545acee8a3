--------------------------- MODULE MCTakeoutWatch ---------------------------
(* Small instances of TakeoutWatch for TLC. *)
EXTENDS TakeoutWatch, TLC

CONSTANTS p1, p2, placeholder, copy, renamed, zero

\* An export of two parts, with nothing beside it.
TwoParts == {p1, p2}
TwoNumbers == (p1 :> 1) @@ (p2 :> 2)

\* An export of one part and the placeholder, both with the number 1, as the
\* runner's test names them: takeout-1-001.zip and takeout-001.zip.
OnePart == {p1}
WithPlaceholder == {p1, placeholder}
BothFirst == (p1 :> 1) @@ (placeholder :> 1)

\* An export of two parts, the name of one of which was changed.
OneRenamed == {p1, renamed}
RenamedNumbers == (p1 :> 1) @@ (renamed :> NoNumber)

\* An export of two parts among everything that CountParts tells apart: a second
\* copy of a number, a name without one, -000.
AllKinds == {p1, p2, copy, renamed, zero}
KindNumbers == (p1 :> 1) @@ (p2 :> 2) @@ (copy :> 2) @@ (renamed :> NoNumber) @@ (zero :> 0)
=============================================================================
