-------------------------- MODULE MCTransferThread --------------------------
(***************************************************************************)
(* Small instances of TransferThread for TLC.                              *)
(***************************************************************************)
EXTENDS TransferThread, TLC

\* Jobs are interchangeable: no action and no safety property names one.
JobSymmetry == Permutations(Jobs)

\* sm_s3_max_retries accepts any cell; the code treats a negative one as none.
NoRetries == -1
=============================================================================
