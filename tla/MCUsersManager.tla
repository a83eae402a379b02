---- MODULE MCUsersManager ----
(* Instances of UsersManager for TLC. *)
EXTENDS UsersManager, TLC

Symmetry == Permutations(Slots) \union Permutations(Uids) \union Permutations(Revs)
====
