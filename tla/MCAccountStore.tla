--------------------------- MODULE MCAccountStore ---------------------------
(* Instances of AccountStore for TLC.                                      *)
EXTENDS AccountStore, TLC

\* Accounts, tokens and tasks are interchangeable.
StoreSymmetry == Permutations(Accounts) \cup Permutations(Tokens) \cup Permutations(Tasks)
=============================================================================
