-------------------------- MODULE MCProjectSessions --------------------------
\* Executors and sessions are each interchangeable: the properties of the run
\* name neither.
EXTENDS ProjectSessions, TLC

Symmetry == Permutations(Executors) \union Permutations(Sessions)
=============================================================================
