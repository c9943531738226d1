------------------------- MODULE MCDocumentSession --------------------------
(* Small instances of DocumentSession for TLC.  The users' edits are interchangeable. *)
EXTENDS DocumentSession, TLC

Symmetry == Permutations(Edit)
==============================================================================
