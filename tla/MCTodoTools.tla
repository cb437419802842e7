---------------------------- MODULE MCTodoTools ----------------------------
EXTENDS TodoTools, TLC

CallerSymmetry == Permutations(Callers)
=============================================================================
