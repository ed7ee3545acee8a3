----------------------------- MODULE MCLeftOut -----------------------------
(* A small instance of LeftOut for TLC. *)
EXTENDS LeftOut, TLC

CONSTANTS f1, f2, f3, cut

Three == {f1, f2, f3}

\* Two names that the log leaves alone, and one that it cuts short.
CutOne == (f1 :> f1) @@ (f2 :> f2) @@ (f3 :> cut)
=============================================================================
