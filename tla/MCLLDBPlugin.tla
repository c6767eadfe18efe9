---------------------------- MODULE MCLLDBPlugin ----------------------------
(***************************************************************************)
(* The instance of LLDBPlugin that TLC checks: two threads, so that the    *)
(* thread to select is not the one selected before, two events waiting, so *)
(* that a stop can be behind another event, and two stops.                 *)
(***************************************************************************)
EXTENDS LLDBPlugin
=============================================================================
