-------------------------- MODULE MCCodingDispatch --------------------------
(* Small instances of CodingDispatch for TLC.                              *)
EXTENDS CodingDispatch
=============================================================================
