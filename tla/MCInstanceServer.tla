---- MODULE MCInstanceServer ----
EXTENDS InstanceServer, TLC

\* Callers and processes are interchangeable (sound for the safety runs).
Symmetry == Permutations(Callers) \union Permutations(Procs)
====
