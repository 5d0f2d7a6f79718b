--------------------------- MODULE MCBlockTransfer ---------------------------
(* BlockTransfer with clients of one resource, who send requests without a *)
(* payload, of one block, and bodies of two and three.                     *)
EXTENDS BlockTransfer, TLC

CONSTANTS c1, c2, empty, one, two, three, u1, u2

MCLength == [d \in Body |-> CASE d = empty -> 0
                              [] d = one -> 1
                              [] d = two -> 2
                              [] d = three -> 3]

(* malloc may return any buffer, and the clients are alike.                *)
Symmetry == Permutations({u1, u2}) \cup Permutations({c1, c2})
==============================================================================
