----------------------------- MODULE BackendApi -----------------------------
(***************************************************************************)
(* The plugin interface of pd_backend.h as BackendSession sees it: one     *)
(* synchronous call, update(action, requests) -> (state, replies), against *)
(* a plugin that owns a debuggee.  The plugin is a record                  *)
(*   state     the PDDebugState it returned last,                          *)
(*   target    whether a file_target_request named a loadable file,        *)
(*   debuggee  what the debugged process is doing,                         *)
(*   stops     how many times the debuggee has stopped so far.             *)
(* UpdateResults is what one call may do; LLDBPlugin.tla is shown to       *)
(* implement it (BackendContract.tla), DebugSession.tla is built on it.    *)
(***************************************************************************)
EXTENDS Naturals

CONSTANT MaxStops      \* bound: how many times one debuggee may stop

ASSUME MaxStopsAssumption == MaxStops \in Nat

StopState    == {"StopBreakpoint", "StopException", "Trace"}
PDDebugState == {"NoTarget", "Running"} \union StopState

\* The actions the front end sends; the others have no caller in the code.
PDAction == {"None", "Run"}

\* What the request stream handed to update may hold.
Request == {"none", "file_target_request", "exception_location_request"}

Target   == {"none", "valid", "invalid"}
Debuggee == {"none", "running", "halted", "exited"}

Plugin == [state : PDDebugState, target : Target, debuggee : Debuggee, stops : Nat]

NewPlugin == [state |-> "NoTarget", target |-> "none", debuggee |-> "none", stops |-> 0]

\* The replies update leaves in its writer: the target_reply, if any, and
\* whether there is an exception_location_reply.
Result == [plugin : Plugin, target_reply : Target, located : BOOLEAN]

-----------------------------------------------------------------------------
\* The three parts of update, in the order the plugin runs them.

AfterRequests(p, request) ==
    IF request = "file_target_request"
    THEN {[p EXCEPT !.target = t] : t \in {"valid", "invalid"}}
    ELSE {p}

Launched(p)  == [p EXCEPT !.state = "Running", !.debuggee = "running"]
Continued(p) == [p EXCEPT !.state = "Running",
                          !.debuggee = IF @ = "halted" THEN "running" ELSE @]

\* Launching needs a valid target and may fail all the same.
AfterAction(p, action) ==
    IF action # "Run" THEN {p}
    ELSE IF p.state # "NoTarget" THEN {Continued(p)}
    ELSE {p} \union {q \in {Launched(p)} : p.target = "valid"}

Halted(p) == [p EXCEPT !.debuggee = "halted",
                       !.stops = IF p.debuggee = "halted" THEN @ ELSE @ + 1]
Exited(p) == [p EXCEPT !.debuggee = "exited"]

\* A running plugin waits for the debuggee.  A stop that is there when the wait
\* begins is reported; one that happens during the call is reported or is left
\* for the next call.
AfterWait(p) ==
    LET reported == {[Halted(p) EXCEPT !.state = st] : st \in StopState}
    IN  IF p.state # "Running" THEN {p}
        ELSE IF p.debuggee = "halted" THEN reported
        ELSE {p} \union {q \in reported \union {Halted(p)} :
                              p.debuggee = "running" /\ p.stops < MaxStops}
                 \union {q \in {Exited(p)} : p.debuggee = "running"}

\* A location is replied when it was asked for, and when the call finds the
\* debuggee stopped.
UpdateResults(p, action, request) ==
    UNION {UNION {{[plugin |-> r,
                    target_reply |-> IF request = "file_target_request"
                                     THEN q.target ELSE "none",
                    located |-> \/ request = "exception_location_request"
                                \/ q2.state = "Running" /\ r.state # "Running"]
                   : r \in AfterWait(q2)}
                  : q2 \in AfterAction(q, action)}
           : q \in AfterRequests(p, request)}
=============================================================================
