-------------------------- MODULE MCWorkflowRuntime --------------------------
\* A small instance of WorkflowRuntime for TLC.
EXTENDS WorkflowRuntime, TLC

Symmetry ==
  Permutations(Workflow) \cup Permutations(Worker) \cup Permutations(Dispatcher)
=============================================================================
