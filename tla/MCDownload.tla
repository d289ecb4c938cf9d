----------------------------- MODULE MCDownload -----------------------------
(***************************************************************************)
(* Small instances of Download for TLC.                                    *)
(***************************************************************************)
EXTENDS Download, TLC

\* Versions of the object by their lengths.
OneVersion == <<3>>
TwoVersions == <<2, 3>>

CallSymmetry == Permutations(Calls)
=============================================================================
