----------------------------- MODULE MCHostFat -----------------------------
(* Two names, two root entries and two clusters: enough for a chain, a file  *)
(* in a directory, cross-linked chains, and a rename over another name.      *)
EXTENDS HostFat, TLC

MCSymmetry == Permutations(Names) \cup Permutations(Bytes)
=============================================================================
