------------------------- MODULE MCStatePersistence -------------------------
(* A small instance of StatePersistence.                                   *)
EXTENDS StatePersistence, TLC

\* Saves are interchangeable, and so are files.
FileSymmetry == Permutations(Savers) \cup Permutations(Inodes)
=============================================================================
