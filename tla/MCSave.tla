------------------------------- MODULE MCSave --------------------------------
(* Instances of Save for TLC.                                              *)
EXTENDS Save
=============================================================================
