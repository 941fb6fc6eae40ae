------------------------------ MODULE MCBlobStore -------------------------------
(***************************************************************************)
(* Finite instances of BlobStore for TLC: contents and uploads are only    *)
(* compared for equality.                                                  *)
(***************************************************************************)
EXTENDS BlobStore, TLC

Symmetry == Permutations(Contents) \cup Permutations(Uploads)
=================================================================================
