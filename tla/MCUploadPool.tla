---------------------------- MODULE MCUploadPool ----------------------------
(* Model-checking instance of UploadPool: a batch holds two rows, or fewer  *)
(* when one is large; a large row is beyond the cap of a batch and beyond   *)
(* the budget of the pool.                                                  *)
EXTENDS UploadPool
=============================================================================
