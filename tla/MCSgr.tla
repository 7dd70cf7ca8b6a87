-------------------------------- MODULE MCSgr --------------------------------
(* Instances of Sgr for TLC.                                               *)
EXTENDS Sgr
=============================================================================
