--------------------------- MODULE MCUploadStore ---------------------------
(* Small instances of UploadStore for TLC. *)
EXTENDS UploadStore, TLC

CONSTANTS t1, t2, x, y, p1, p2

TwoTasks == {t1, t2}
OneName == {p1}
TwoNames == {p1, p2}
TwoBytes == {x, y}
\* One file, or two that differ in their first chunk and in their size.
One == {<<x, y>>}
Mixed == {<<x, y>>, <<y>>}
TaskSymmetry == Permutations(Tasks)
=============================================================================
