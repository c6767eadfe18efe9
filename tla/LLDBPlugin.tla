----------------------------- MODULE LLDBPlugin -----------------------------
(***************************************************************************)
(* The LLDB backend plugin: one call of update at a time (process_events,  *)
(* do_action, update_lldb_event with its loop over the threads of the      *)
(* stopped process), against a debugged process that runs, stops and exits *)
(* on its own and posts state-changed events to the plugin's listener.     *)
(* The process may change between any two steps of a call.                 *)
(***************************************************************************)
EXTENDS BackendApi, Sequences

CONSTANTS
    MaxThreads,     \* bound: threads of the debugged process
    MaxEvents       \* bound: events waiting in the listener when one is posted

ASSUME LLDBAssumption == MaxThreads \in Nat /\ MaxEvents \in Nat

NoThread == 0
Thread   == 1..MaxThreads

\* Stop reasons by what the switch does with them: "none" stands for every reason
\* that selects no thread, "signal" for signals and watchpoints.
StopReason == {"none", "trace", "plan_complete", "exception", "breakpoint", "signal"}

\* Events by what the switch does with them: "other" returns at once.
ListenerEvent == {"stopped", "restarted", "other"}

VARIABLES
    state,      \* plugin->state
    target,     \* plugin->target: none yet, valid or invalid
    selected,   \* plugin->selected_thread_id
    process,    \* the debugged process
    reasons,    \* the stop reason of each thread of the stopped process
    events,     \* events in plugin->listener
    stops,      \* stops with a reason some thread reports, so far
    pc,         \* where the call of update is; "idle" between calls
    action,     \* the PDAction of the call
    index,      \* thread_index of the loop
    chosen,     \* selected_thread of the loop
    replies,    \* what the call wrote to its writer
    entry       \* the abstract plugin and reply when the call began (history)

call == <<pc, action, index, chosen, replies, entry>>
proc == <<process, reasons, events, stops>>
vars == <<state, target, selected, proc, call>>

TargetMsg(t)   == [reply |-> "target_reply", target |-> t, thread |-> NoThread]
LocationMsg(t) == [reply |-> "exception_location_reply", target |-> "none", thread |-> t]

Reply == [reply : {"target_reply", "exception_location_reply"},
          target : Target, thread : Thread \union {NoThread}]

Reported(rs) == \E i \in 1..Len(rs) : rs[i] # "none"

-----------------------------------------------------------------------------
(* The refinement mapping: while a call is in progress the abstract plugin is *)
(* still what it was when the call began.                                    *)

\* A stop shows once its event is the next one the listener returns.
StopVisible == process = "stopped" /\ Reported(reasons)
                 /\ events # << >> /\ Head(events) = "stopped"

PluginNow ==
    [state |-> state,
     target |-> target,
     debuggee |-> IF state \in StopState \/ StopVisible THEN "halted"
                  ELSE IF process = "stopped" THEN "running" ELSE process,
     stops |-> IF process = "stopped" /\ Reported(reasons)
                    /\ state \notin StopState /\ ~StopVisible
               THEN stops - 1 ELSE stops]

ReplyNow ==
    LET targetReplies == {i \in 1..Len(replies) : replies[i].reply = "target_reply"}
    IN  [target_reply |-> IF targetReplies = {} THEN "none"
                          ELSE replies[CHOOSE i \in targetReplies : TRUE].target,
         located |-> \E i \in 1..Len(replies) :
                         replies[i].reply = "exception_location_reply"]

PluginMap == IF pc = "idle" THEN PluginNow ELSE entry.plugin
ReplyMap  == IF pc = "idle" THEN ReplyNow ELSE entry.reply

Contract == INSTANCE BackendContract WITH plugin <- PluginMap, reply <- ReplyMap

-----------------------------------------------------------------------------
\* create_instance: no target, no process, thread 0 selected.
Init ==
    /\ state = "NoTarget"
    /\ target = "none"
    /\ selected = NoThread
    /\ process = "none"
    /\ reasons = << >>
    /\ events = << >>
    /\ stops = 0
    /\ pc = "idle"
    /\ action = "None"
    /\ index = 1
    /\ chosen = FALSE
    /\ replies = << >>
    /\ entry = [plugin |-> NewPlugin, reply |-> Contract!NoReply]

(* update: process_events. *)

\* exception_location_reply describes the thread that is selected NOW.
Location == LocationMsg(selected)

\* Mutant: the writer keeps the replies of the call before.
AnswersAppended(request, t) ==
    replies \o CASE request = "file_target_request"        -> <<TargetMsg(t)>>
                 [] request = "exception_location_request" -> <<Location>>
                 [] OTHER                                  -> << >>

\* The call begins with an empty writer.
Answers(request, t) ==
    CASE request = "file_target_request"        -> <<TargetMsg(t)>>
      [] request = "exception_location_request" -> <<Location>>
      [] OTHER                                  -> << >>

\* A file_target_request creates the target; LLDB decides whether it is valid.
\* BackendSession::start does not ask a running plugin to run.
ProcessEvents(a, request) ==
    /\ pc = "idle"
    /\ a = "Run" => state # "Running"
    /\ pc' = "action"
    /\ action' = a
    /\ entry' = [plugin |-> PluginNow, reply |-> ReplyNow]
    /\ target' \in IF request = "file_target_request" THEN {"valid", "invalid"} ELSE {target}
    /\ replies' = Answers(request, target')
    /\ UNCHANGED <<state, selected, proc, index, chosen>>

(* update: do_action. *)

\* Mutant: events are looked for only in the call that starts the process.
AfterActionPcOnRun(st) == IF st = "Running" /\ action = "Run" THEN "wait" ELSE "idle"

\* Where update goes after do_action: it looks for an event when it is running.
AfterActionPc(st) == IF st = "Running" THEN "wait" ELSE "idle"

NoAction ==
    /\ pc = "action" /\ action = "None"
    /\ pc' = AfterActionPc(state)
    /\ UNCHANGED <<state, target, selected, proc, action, index, chosen, replies, entry>>

\* on_run without a target process: Launch succeeds.  The listener is the debugger's own,
\* which LLDB notifies from the launch on, before AddListener names it again.
Launch ==
    /\ pc = "action" /\ action = "Run" /\ state = "NoTarget"
    /\ target = "valid"
    /\ state' = "Running"
    /\ process' = "running"
    /\ pc' = "wait"
    /\ UNCHANGED <<target, selected, reasons, events, stops,
                   action, index, chosen, replies, entry>>

\* Mutant: on_run goes on after a failed launch.
LaunchFailsRunning ==
    /\ pc = "action" /\ action = "Run" /\ state = "NoTarget"
    /\ state' = "Running"
    /\ pc' = "idle"
    /\ UNCHANGED <<target, selected, proc, action, index, chosen, replies, entry>>

\* on_run, Launch fails (always, without a valid target): the state stays.
LaunchFails ==
    /\ pc = "action" /\ action = "Run" /\ state = "NoTarget"
    /\ pc' = "idle"
    /\ UNCHANGED <<state, target, selected, proc, action, index, chosen, replies, entry>>

\* on_run with a process: it continues, and LLDB announces that it runs.
Continue ==
    /\ pc = "action" /\ action = "Run" /\ state # "NoTarget"
    /\ state' = "Running"
    /\ process' = "running"
    /\ reasons' = << >>
    /\ events' = Append(events, "other")
    /\ pc' = "wait"
    /\ UNCHANGED <<target, selected, stops, action, index, chosen, replies, entry>>

(* update: update_lldb_event. *)

\* WaitForEvent(1, evt) runs out: the state of the empty event is invalid.
WaitTimesOut ==
    /\ pc = "wait" /\ events = << >>
    /\ pc' = "idle"
    /\ UNCHANGED <<state, target, selected, proc, action, index, chosen, replies, entry>>

\* Mutant: the restarted flag is not looked at.
IsStopOrRestart(e) == e \in {"stopped", "restarted"}

\* Only a stop the process did not restart from is looked at.
IsStop(e) == e = "stopped"

TakeEvent ==
    /\ pc = "wait" /\ events # << >>
    /\ events' = Tail(events)
    /\ IF IsStop(Head(events))
       THEN pc' = "threads" /\ index' = 1 /\ chosen' = FALSE
       ELSE pc' = "idle" /\ UNCHANGED <<index, chosen>>
    /\ UNCHANGED <<state, target, selected, process, reasons, stops,
                   action, replies, entry>>

\* What the switch on the stop reason does to the state ...
StateOnReason(r, st) ==
    CASE r \in {"trace", "plan_complete"} -> "Trace"
      [] r = "exception"  -> "StopException"
      [] r = "breakpoint" -> "StopBreakpoint"
      [] OTHER            -> st

\* ... and whether it sends the exception state first.
SendsOnReason(r, st) ==
    \/ r = "plan_complete"
    \/ r = "exception"  /\ st # "StopException"
    \/ r = "breakpoint" /\ st # "StopBreakpoint"

\* Mutant: the last thread with a reason wins.
SelectsAny(r) == r # "none"

\* The first thread with a reason to stop becomes the selected one.
Selects(r) == r # "none" /\ ~chosen

\* Mutant: the location is sent before the selection changes.
SelectionLocationEarly(i, st) == IF st = "StopException" THEN << >> ELSE <<LocationMsg(selected)>>

\* Selecting thread i sends its location, unless the stop is an exception.
SelectionLocation(i, st) == IF st = "StopException" THEN << >> ELSE <<LocationMsg(i)>>

\* One turn of the loop: thread_index < GetNumThreads().
VisitThread ==
    /\ pc = "threads" /\ index <= Len(reasons)
    /\ LET r    == reasons[index]
           st   == StateOnReason(r, state)
           sent == IF SendsOnReason(r, state) THEN <<Location>> ELSE << >>
       IN  IF Selects(r)
           THEN /\ selected' = index
                /\ chosen' = TRUE
                /\ state' = "StopException"
                /\ replies' = replies \o sent \o SelectionLocation(index, st)
           ELSE /\ state' = st
                /\ replies' = replies \o sent
                /\ UNCHANGED <<selected, chosen>>
    /\ index' = index + 1
    /\ UNCHANGED <<target, proc, pc, action, entry>>

EndOfThreads ==
    /\ pc = "threads" /\ index > Len(reasons)
    /\ pc' = "idle"
    /\ UNCHANGED <<state, target, selected, proc, action, index, chosen, replies, entry>>

-----------------------------------------------------------------------------
(* The debugged process, as LLDB reports it.                                *)

\* All threads stop, each with a reason or none, and a stopped event is posted.
ProcessStops ==
    /\ process = "running"
    /\ stops < MaxStops /\ Len(events) < MaxEvents
    /\ \E n \in Thread : \E rs \in [1..n -> StopReason] :
          /\ reasons' = rs
          /\ stops' = IF Reported(rs) THEN stops + 1 ELSE stops
    /\ process' = "stopped"
    /\ events' = Append(events, "stopped")
    /\ UNCHANGED <<state, target, selected, call>>

\* A stop LLDB resumes from by itself: the event carries the restarted flag.  Or
\* any event that is no stop.
ProcessEvent ==
    /\ process = "running"
    /\ Len(events) < MaxEvents
    /\ events' \in {Append(events, e) : e \in {"restarted", "other"}}
    /\ UNCHANGED <<state, target, selected, process, reasons, stops, call>>

\* The exit is an event the plugin does nothing about.
ProcessExits ==
    /\ process = "running"
    /\ Len(events) < MaxEvents
    /\ process' = "exited"
    /\ events' = Append(events, "other")
    /\ UNCHANGED <<state, target, selected, reasons, stops, call>>

-----------------------------------------------------------------------------
UpdateStep ==
    \/ NoAction
    \/ Launch
    \/ LaunchFails
    \/ Continue
    \/ WaitTimesOut
    \/ TakeEvent
    \/ VisitThread
    \/ EndOfThreads

Process == ProcessStops \/ ProcessEvent \/ ProcessExits

Next ==
    \/ \E a \in PDAction, request \in Request : ProcessEvents(a, request)
    \/ UpdateStep
    \/ Process

Spec == Init /\ [][Next]_vars

\* A call that began ends, and a running plugin is polled (RunningIsPolled in
\* DebugSession).  Nothing is assumed of the process.
Fairness ==
    /\ WF_vars(UpdateStep)
    /\ WF_vars(state = "Running" /\ ProcessEvents("None", "none"))

FairSpec == Spec /\ Fairness

-----------------------------------------------------------------------------
(* Properties.                                                              *)

TypeOK ==
    /\ state \in PDDebugState
    /\ target \in Target
    /\ selected \in Thread \union {NoThread}
    /\ process \in {"none", "running", "stopped", "exited"}
    /\ reasons \in Seq(StopReason) /\ Len(reasons) <= MaxThreads
    /\ events \in Seq(ListenerEvent)
    /\ stops \in 0..MaxStops
    /\ pc \in {"idle", "action", "wait", "threads"}
    /\ action \in PDAction
    /\ index \in 1..(MaxThreads + 1)
    /\ chosen \in BOOLEAN
    /\ replies \in Seq(Reply) /\ Len(replies) <= MaxThreads + 2
    /\ entry.plugin \in Plugin

\* update implements the contract BackendSession relies on: every call, whatever
\* the process does while it lasts, is one step of BackendContract.
ImplementsContract == Contract!Spec

\* When update returns a stop, the process is stopped for a reason, and its event
\* is consumed: a stop is never reported a second time after the process goes on.
StopIsCurrent ==
    pc = "idle" /\ state \in StopState =>
        /\ process = "stopped" /\ Reported(reasons)
        /\ \A i \in 1..Len(events) : events[i] # "stopped"

\* The selected thread of a stop is the first one with a reason to stop, whatever
\* was selected at earlier stops.
SelectionIsFirst ==
    pc = "idle" /\ state \in StopState =>
        /\ selected \in 1..Len(reasons)
        /\ reasons[selected] # "none"
        /\ \A i \in 1..(selected - 1) : reasons[i] = "none"

\* Unless an exception is among the reasons, the last location replied by the call
\* that notices a stop is the selected thread's.
StopIsLocated ==
    (pc = "threads" /\ index > Len(reasons) /\ chosen
        /\ \A i \in 1..Len(reasons) : reasons[i] # "exception")
            => replies # << >> /\ replies[Len(replies)] = LocationMsg(selected)

\* A process that stopped for a reason is noticed by the polling.
StopNoticed == (process = "stopped" /\ Reported(reasons)) ~> (state \in StopState)

-----------------------------------------------------------------------------
(* What a comment of the code says, and the code does not do.               *)

\* exception_location_reply: "Get the filename & line of the exception/breakpoint".
\* BackendSession takes the first location of the replies: after a call that found
\* a stop that one should be the selected thread's.
FirstLocationIsStop ==
    (pc = "threads" /\ index > Len(reasons) /\ chosen) =>
        \E i \in 1..Len(replies) :
            /\ replies[i] = LocationMsg(selected)
            /\ \A j \in 1..(i - 1) : replies[j].reply # "exception_location_reply"
=============================================================================
