--------------------------- MODULE MCProjectInputs ---------------------------
\* A small instance of ProjectInputs for TLC.
EXTENDS ProjectInputs, TLC

Symmetry ==
  Permutations(Processor) \cup Permutations(Creator) \cup Permutations(Revision)
    \cup Permutations(Value)
=============================================================================
