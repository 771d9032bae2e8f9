----------------------------- MODULE MCHaMaster -----------------------------
(* HaMaster for model checking: documents and tasks of one kind are         *)
(* interchangeable.                                                         *)
EXTENDS HaMaster, TLC

Symmetric == Permutations(Content) \cup Permutations(Writer) \cup Permutations(Reloader)
=============================================================================
