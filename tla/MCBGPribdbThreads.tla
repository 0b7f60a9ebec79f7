------------------------- MODULE MCBGPribdbThreads -------------------------
(* Two prefixes, three hashes, one of them falsy, one producer and one consumer. *)
EXTENDS BGPribdbThreads, TLC

CONSTANTS p1, p2

MCPrefixes == {p1, p2}
MCHashes == {0, 1, 2}
Symmetry == Permutations(MCPrefixes)
=============================================================================
