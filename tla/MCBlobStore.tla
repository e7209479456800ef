---------------------------- MODULE MCBlobStore -----------------------------
(* Instance of BlobStore for TLC.                                           *)
EXTENDS BlobStore, TLC

CONSTANTS t1, t2, b1, b2

MCSize == b1 :> 1 @@ b2 :> 2

Symmetric == Permutations(Tasks)
=============================================================================
