----------------------------- MODULE MCProgress -----------------------------
(***************************************************************************)
(* Small instances of Progress for TLC.                                    *)
(***************************************************************************)
EXTENDS Progress, TLC

\* Versions of the object by their lengths in chunks.
TwoVersions == <<2, 3>>

\* The second chunk is less than a percent, and only the longer object exceeds a cell.
ByteCounts == [n \in 0..3 |-> CASE n = 0 -> 0 [] n = 1 -> 200 [] n = 2 -> 201 [] n = 3 -> 203]

CallSymmetry == Permutations(Calls)
=============================================================================
