--------------------------- MODULE PodLogReadsMC ---------------------------
(* Reads are interchangeable, and so are the users they impersonate.       *)
EXTENDS PodLogReads, TLC

Symmetry == Permutations(Reads) \cup Permutations(Users)
=============================================================================
