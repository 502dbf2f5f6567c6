------------------------------ MODULE MCReplay ------------------------------
(* Model checking of Replay: the sources are interchangeable.              *)
EXTENDS Replay, TLC

SourceSymmetry == Permutations(Sources)
=============================================================================
