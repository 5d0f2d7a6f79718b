-------------------------- MODULE MCResourceServer --------------------------
(* ResourceServer with two clients, two resources that compete for the     *)
(* path, and one code of each kind: read, write, and the one on which the  *)
(* application unregisters the resource.                                   *)
EXTENDS ResourceServer, TLC

CONSTANTS c1, c2, r1, r2

MCClient == {c1, c2}
MCResource == {r1, r2}

(* Clients are interchangeable, and so are resources.                      *)
Symmetry == Permutations(MCClient) \cup Permutations(MCResource)
==============================================================================
