---------------------------- MODULE MCCacheFetch ----------------------------
(* TLC instance of CacheFetch. *)
EXTENDS CacheFetch, TLC

CONSTANTS p1, p2, i1, i2, i3, i4

OneProcess == {p1}
TwoProcesses == {p1, p2}
MCInodes == {i1, i2, i3, i4}

(* Inodes are interchangeable. *)
Symmetry == Permutations(MCInodes)
=============================================================================
