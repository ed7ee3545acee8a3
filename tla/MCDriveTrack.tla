---------------------------- MODULE MCDriveTrack ----------------------------
(* Instances of DriveTrack for TLC. *)
EXTENDS DriveTrack, TLC

CONSTANTS t1, t2, t3, u1

OneUser == {u1}
TwoTasks == {t1, t2}
ThreeTasks == {t1, t2, t3}
TaskSymmetry == Permutations(Tasks)
=============================================================================
