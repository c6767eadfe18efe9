--------------------------- MODULE MCBinaryStream ---------------------------
(***************************************************************************)
(* The instance of BinaryStream that TLC checks: bytes of eight values, so *)
(* that the wrap of the 64-bit values fits TLC's integers, bytes enough for*)
(* two events with a field in each (their request ids tell them apart), and*)
(* members enough for an array of two entries, one of them possibly empty. *)
(***************************************************************************)
EXTENDS BinaryStream
=============================================================================
