---------------------------- MODULE MCSegmenter ----------------------------
(* For TLC: the devices are interchangeable.                               *)
EXTENDS Segmenter, TLC

Symmetry == Permutations(Devices)
=============================================================================
