--------------------------- MODULE MCPhotosTrack ---------------------------
(* Small instances of PhotosTrack for TLC. *)
EXTENDS PhotosTrack, TLC

CONSTANTS t1, t2, t3, u1

OneUser == {u1}
TwoTasks == {t1, t2}
ThreeTasks == {t1, t2, t3}

\* Tasks are interchangeable.  Used by runs without liveness.
TaskSymmetry == Permutations(Tasks)
=============================================================================
