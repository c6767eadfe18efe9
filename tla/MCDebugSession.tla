--------------------------- MODULE MCDebugSession ---------------------------
(***************************************************************************)
(* The instance of DebugSession that TLC checks: three sessions, so that a *)
(* session can follow one that was itself a follower, each with at most    *)
(* two stops, so that a debuggee can be continued once.                    *)
(***************************************************************************)
EXTENDS DebugSession
=============================================================================
