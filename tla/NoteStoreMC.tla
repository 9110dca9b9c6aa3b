------------------------------ MODULE NoteStoreMC ------------------------------
(* NoteStore on small instances; the .cfg files give the constants.        *)
EXTENDS NoteStore, TLC

(* Texts are compared and stored, never looked into.                       *)
Symmetry == Permutations(Texts)
=============================================================================
