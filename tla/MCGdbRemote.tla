---------------------------- MODULE MCGdbRemote ----------------------------
(***************************************************************************)
(* The instance of GdbRemote that TLC checks: three commands, so that one  *)
(* can follow a late reply, memory of two chunks with a short last one, an *)
(* event and a second connection.                                          *)
(***************************************************************************)
EXTENDS GdbRemote
=============================================================================
