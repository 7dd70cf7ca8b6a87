--------------------------- MODULE MCEscapeParser ---------------------------
(* Instances of EscapeParser for TLC.                                      *)
EXTENDS EscapeParser
=============================================================================
