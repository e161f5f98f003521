-------------------------- MODULE MCKeyframeCommands --------------------------
(* A model of two bones and a timeline of three frames, from which every     *)
(* column but the first may be removed.                                     *)
EXTENDS KeyframeCommands, TLC

LaterColumns == 1 .. LastFrame
BoneSymmetry == Permutations(Bones)
=============================================================================
