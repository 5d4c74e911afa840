------------------------------- MODULE MCRouter -------------------------------
(* Small instances of Router for TLC. *)
EXTENDS Router, TLC

CONSTANTS f1, f2

FileSymmetry == Permutations(Files)

(* Bound: not all of the files are rewritten. *)
NotAllRewritten == \E f \in Files : epoch[f] = 1
===============================================================================
