--------------------------- MODULE MCS3Extension ---------------------------
(***************************************************************************)
(* Small instances of S3Extension for TLC.                                 *)
(***************************************************************************)
EXTENDS S3Extension, TLC

\* Plugins, clients and jobs are interchangeable in every safety property.
ExtensionSymmetry == Permutations(Plugins) \cup Permutations(Clients) \cup Permutations(Jobs)
=============================================================================
