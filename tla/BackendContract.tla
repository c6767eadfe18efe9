--------------------------- MODULE BackendContract --------------------------
(***************************************************************************)
(* The abstract specification of a backend plugin: the calls to update,    *)
(* each one step, and the debuggee between them.  It is what BackendSession*)
(* relies on, and what a plugin has to implement.                          *)
(***************************************************************************)
EXTENDS BackendApi

VARIABLES
    plugin,     \* the plugin as BackendApi describes it
    reply       \* what the last update left in its writer

vars == <<plugin, reply>>

NoReply == [target_reply |-> "none", located |-> FALSE]

Init == plugin = NewPlugin /\ reply = NoReply

\* BackendSession::start does not ask a running plugin to run.
Update(action, request) ==
    /\ action = "Run" => plugin.state # "Running"
    /\ \E r \in UpdateResults(plugin, action, request) :
          /\ plugin' = r.plugin
          /\ reply' = [target_reply |-> r.target_reply, located |-> r.located]

DebuggeeStops ==
    /\ plugin.debuggee = "running" /\ plugin.stops < MaxStops
    /\ plugin' = Halted(plugin)
    /\ UNCHANGED reply

DebuggeeExits ==
    /\ plugin.debuggee = "running"
    /\ plugin' = Exited(plugin)
    /\ UNCHANGED reply

Next ==
    \/ \E action \in PDAction, request \in Request : Update(action, request)
    \/ DebuggeeStops
    \/ DebuggeeExits

Spec == Init /\ [][Next]_vars
=============================================================================
