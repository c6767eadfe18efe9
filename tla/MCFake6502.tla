----------------------------- MODULE MCFake6502 -----------------------------
(***************************************************************************)
(* The instance of the remote API and its 6502 that TLC checks: two        *)
(* clients, so that one can follow the other, with two messages each; a    *)
(* header of two bytes and blocks of two, so that a command can come in    *)
(* parts and a stream takes one block, or a full one and a part.           *)
(***************************************************************************)
EXTENDS Fake6502
=============================================================================
