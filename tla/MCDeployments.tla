------------------------------- MODULE MCDeployments -------------------------------
(* Small instances of Deployments for TLC. *)
EXTENDS Deployments, TLC

CONSTANTS r1, r2, q1, q2, t1

\* Two projects whose paths end alike, and a todo of the first.
OneStem == [q \in Repos |-> "stem"]
OfFirst == [t \in Tasks |-> q1]

CallerSymmetry == Permutations(Callers)
==================================================================================
