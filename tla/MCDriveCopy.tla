---------------------------- MODULE MCDriveCopy ----------------------------
(* Small instances of DriveCopy for TLC. *)
EXTENDS DriveCopy

CONSTANTS f1, f2, doc, takeout

\* Two files, a Google document and an export of Google Takeout.
FourFiles == {f1, f2, doc, takeout}
\* An export of Google Takeout and nothing else.
OnlyTakeout == {takeout}
Exports == {takeout}
Documents == {doc}
NoDocuments == {}
=============================================================================
