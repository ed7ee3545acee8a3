------------------------------ MODULE Archives ------------------------------
(***************************************************************************)
(* What the upload store promises its callers (the comments of package     *)
(* upload and of Begin): an archive appears whole or not at all, once      *)
(* there it stays what it is, and an upload is reported done only when its *)
(* own file is the one in place.                                           *)
(***************************************************************************)
CONSTANTS Names, Files, NoFile

VARIABLES
  archive,   \* [Names -> Files \cup {NoFile}]  finished archives
  acked      \* SUBSET (Names \X Files)         uploads reported done

Init == archive = [n \in Names |-> NoFile] /\ acked = {}

\* A file lands where none was.
Land(n, f) ==
  /\ archive[n] = NoFile
  /\ archive' = [archive EXCEPT ![n] = f]
  /\ UNCHANGED acked

Acknowledge(n, f) ==
  /\ archive[n] = f
  /\ acked' = acked \cup {<<n, f>>}
  /\ UNCHANGED archive

Next == \E n \in Names, f \in Files : Land(n, f) \/ Acknowledge(n, f)

Spec == Init /\ [][Next]_<<archive, acked>>
=============================================================================
