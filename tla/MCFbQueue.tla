----------------------------- MODULE MCFbQueue -----------------------------
(* Instances of FbQueue for TLC.                                           *)
EXTENDS FbQueue

\* As after boot; and a hidden cursor and a lower region, in a control sequence.
MCModes == {<<TRUE, TRUE, 0, Rows>>, <<FALSE, FALSE, 1, Rows>>}
=============================================================================
