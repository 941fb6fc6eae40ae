------------------------------ MODULE MCSessions ------------------------------
(***************************************************************************)
(* Finite instances of Sessions for TLC.  Addresses, passwords and request *)
(* slots are only compared for equality, so they are interchangeable;      *)
(* tokens are not, for Fresh chooses one.                                  *)
(***************************************************************************)
EXTENDS Sessions, TLC

Symmetry ==
  Permutations(Emails) \cup Permutations(Passwords) \cup Permutations(Requests)
===============================================================================
