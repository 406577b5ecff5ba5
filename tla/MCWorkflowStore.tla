--------------------------- MODULE MCWorkflowStore ---------------------------
\* A small instance of WorkflowStore for TLC.
EXTENDS WorkflowStore, TLC

Symmetry == Permutations(Workflow)
=============================================================================
