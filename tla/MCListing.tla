----------------------------- MODULE MCListing -----------------------------
(***************************************************************************)
(* A small instance of Listing for TLC.                                    *)
(***************************************************************************)
EXTENDS Listing

\* "h", "b", and "c" with "/x".
TheHost == <<104>>
TheBucket == <<98>>
ThePublicBase == <<<<99>>, <<47, 120>>>>

\* "s://h/".
OneEndpoint == {<<115, 58, 47, 47, 104, 47>>}
\* No public site, and "s://c/x/".
TwoSites == {<<>>, <<115, 58, 47, 47, 99, 47, 120, 47>>}

\* "a+/", "a+/%&=" and "?# " followed by a byte above 127.
ThreeKeys == {<<97, 43, 47>>, <<97, 43, 47, 37, 38, 61>>, <<63, 35, 32, 195>>}
\* All of them, and "a+/".
TwoPrefixes == {<<>>, <<97, 43, 47>>}
=============================================================================
