----------------------------- MODULE MCBGPribdb -----------------------------
(* BGPribdb with two prefixes and two paths that hash differently. *)
EXTENDS BGPribdb

CONSTANTS p1, p2, pathA, pathB

MCPrefixes == {p1, p2}
MCPaths == {pathA, pathB}
MCHashes == {1, 2}
MCPathHash == [pa \in MCPaths |-> IF pa = pathA THEN 1 ELSE 2]
=============================================================================
