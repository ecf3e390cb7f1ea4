--------------------------- MODULE MCHybridStorage ---------------------------
(***************************************************************************)
(* Small instances of the hybrid backend.                                  *)
(***************************************************************************)
EXTENDS HybridStorage, TLC

CONSTANTS w1, w2, r1, r2, k1, k2

Interchangeable == Permutations({k1, k2})
=============================================================================
