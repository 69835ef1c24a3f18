---------------------------- MODULE MCAgentEvents ----------------------------
\* Turns are interchangeable; a window of the program listens to turns only.
EXTENDS AgentEvents, TLC

Symmetry == Permutations(Turn)
=============================================================================
