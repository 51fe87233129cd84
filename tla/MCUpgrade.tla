------------------------------ MODULE MCUpgrade ------------------------------
(* Upgrade with the index of the access control, two documents and two migrations. *)
EXTENDS Upgrade

CONSTANTS d1, d2, f1, f2
MCDocuments == {d1, d2}
MCFolders == {f1, f2}
=============================================================================
