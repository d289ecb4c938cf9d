------------------------------ MODULE MCUpload ------------------------------
(***************************************************************************)
(* A small instance of Upload for TLC.                                     *)
(***************************************************************************)
EXTENDS Upload

\* The file, and a longer and a shorter one that take its place.
ThreeFiles == <<2, 3, 1>>
=============================================================================
