------------------------------ MODULE MCBinary ------------------------------
(* Two objects of each class, as many blocks as they can own and one to    *)
(* copy to, and no bytes, or two that tell two tokens of one length apart. *)
EXTENDS Binary, TLC

CONSTANTS o1, o2, o3, o4, v1, b1, b2, b3, b4, b5, m1

MCBlock == {b1, b2, b3, b4, b5}

MCData == {<<>>, <<0, 1>>, <<1, 0>>}

(* malloc may return any block.                                            *)
Symmetry == Permutations(MCBlock)
==============================================================================
