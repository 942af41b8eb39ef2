------------------------ MODULE MCManagerAccounts ------------------------
(* Instances of ManagerAccounts. *)
EXTENDS ManagerAccounts, TLC

Symmetry == Permutations(Clients)
=============================================================================
