---------------------------- MODULE MCPeerStarts ----------------------------
(* Instances of PeerStarts for TLC. *)
EXTENDS PeerStarts, TLC

\* Identities are interchangeable: no action compares them but for equality.
Symmetry ==
  UNION {Permutations(S) : S \in {Endpoints, Phones, Grants, Requests, Workspaces, Handlers}}
=============================================================================
