-------------------------- MODULE MCAgentCommands --------------------------
(* Small instances of AgentCommands for TLC. *)
EXTENDS AgentCommands, TLC

CONSTANTS c1, c2, p1, p2, b1, b2, b3, t1, t2

MCSymmetry ==
  Permutations(Commands) \cup Permutations(Processes) \cup Permutations(Bridges)
    \cup Permutations(Tasks)

\* The clock moves, or many epochs are minted, but not both.
MCClockOrEpochs == clock = 0 \/ nextEpoch <= 1
=============================================================================
