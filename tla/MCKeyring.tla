------------------------------- MODULE MCKeyring -------------------------------
(***************************************************************************)
(* Finite instances of Keyring for TLC.                                    *)
(***************************************************************************)
EXTENDS Keyring, TLC

Symmetry == Permutations(Wraps) \cup Permutations(Keys) \cup Permutations(Handles)
===============================================================================
