---------------------------- MODULE MCSbusParser ----------------------------
(***************************************************************************)
(* SbusParser with frames of a header, two channels, the flags and the     *)
(* footer, and a buffer that holds two frames.                             *)
(***************************************************************************)
EXTENDS SbusParser
=============================================================================
