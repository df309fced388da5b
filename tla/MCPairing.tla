----------------------------- MODULE MCPairing -----------------------------
(* Small instances of Pairing for TLC. *)
EXTENDS Pairing, TLC

CONSTANTS id1, id2, d1, d2, s1, s2, none

MCIds == {id1, id2}
MCDevices == {d1, d2}
MCStreams == {s1, s2}

MCSymmetry == Permutations(MCIds) \cup Permutations(MCDevices) \cup Permutations(MCStreams)
=============================================================================
