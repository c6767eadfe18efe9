---------------------------- MODULE DebugSession ----------------------------
(***************************************************************************)
(* The life of a debugging session: MainWindow on the UI thread, one       *)
(* BackendSession on a QThread of its own for each opened executable, the  *)
(* BackendRequests object between them, and the 50 ms QTimer that polls    *)
(* the backend plugin.  The two threads share no state: every call between *)
(* them is a queued Qt connection, that is a message posted to the event   *)
(* queue of the receiver's thread.  A slot runs to its end before its      *)
(* thread takes the next event, so a slot is one action.                   *)
(***************************************************************************)
EXTENDS BackendApi, Sequences

CONSTANTS
    MaxSessions,     \* bound: how many sessions one run of the program opens
    AddedPlugins     \* names of the backends in the libraries main() adds

ASSUME MaxSessionsAssumption == MaxSessions \in Nat

Session   == 1..MaxSessions
NoSession == 0

VARIABLES
    registered,  \* names of the backend plugins PluginHandler found at start
    ui,          \* "idle", "closing" (blocked in QThread::wait) or "exited"
    afterClose,  \* what the handler that is closing the backend does next
    backend,     \* m_backend, m_backend_thread, m_backend_requests: set and cleared together
    opened,      \* sessions created so far; their numbers are 1..opened
    uiQueue,     \* events posted to the UI thread
    hooked,      \* the source view is connected to the current m_backend_requests
    view,        \* the stop the source view shows
    announced,   \* sessions whose session_ended reached BackendRequests
    thread,      \* the backend thread of a session
    slots,       \* slot calls posted to a session's thread
    debugState,  \* m_debugState
    timers,      \* QTimers start() has created; m_timer is the last one, 0 is nullptr
    ticking,     \* the active QTimers of the session
    plugin       \* the session's plugin instance (BackendApi)

uiVars  == <<registered, ui, afterClose, backend, opened, uiQueue, hooked, view, announced>>
sesVars == <<thread, slots, debugState, timers, ticking, plugin>>
vars    == <<uiVars, sesVars>>

-----------------------------------------------------------------------------
(* Events posted to the UI thread.  A target_reply is for MainWindow, the   *)
(* two others for the BackendRequests object of their session.              *)

Event(e, s, status, stop) == [event |-> e, session |-> s, status |-> status, stop |-> stop]

NoEvent        == Event("none", NoSession, FALSE, 0)
TargetReply(s, ok) == Event("target_reply", s, ok, 0)
PcChanged(s, k)    == Event("program_counter_changed", s, FALSE, k)
SessionEnded(s)    == Event("session_ended", s, FALSE, 0)

UiEvent == [event : {"none", "target_reply", "program_counter_changed", "session_ended"},
            session : Session \union {NoSession}, status : BOOLEAN, stop : Nat]

NoView == [session |-> NoSession, stop |-> 0]

Slot == {"file_target_request", "start"}

Live(s) == thread[s] \in {"running", "quitting"}

TypeOK ==
    /\ registered \subseteq AddedPlugins
    /\ ui \in {"idle", "closing", "exited"}
    /\ afterClose \in {"nothing", "open", "exit"}
    /\ backend \in Session \union {NoSession}
    /\ opened \in 0..MaxSessions
    /\ uiQueue \in Seq(UiEvent)
    /\ hooked \in BOOLEAN
    /\ view \in [session : Session \union {NoSession}, stop : Nat]
    /\ announced \subseteq Session
    /\ thread \in [Session -> {"none", "running", "quitting", "finished"}]
    /\ slots \in [Session -> Seq(Slot)]
    /\ debugState \in [Session -> PDDebugState]
    /\ timers \in [Session -> Nat]
    /\ ticking \in [Session -> SUBSET (Nat \ {0})]     \* a null m_timer never ticks
    /\ plugin \in [Session -> Plugin]

-----------------------------------------------------------------------------
(* MainWindow, on the UI thread.                                            *)

\* A library may fail to load.  The constructor tries the dummy backend, which main()
\* does not add today; nothing would be asked of it.
Init ==
    /\ registered \in SUBSET AddedPlugins
    /\ ui = "idle"
    /\ afterClose = "nothing"
    /\ opened = IF "Dummy Backend" \in registered /\ MaxSessions > 0 THEN 1 ELSE 0
    /\ backend = opened
    /\ uiQueue = << >>
    /\ hooked = FALSE
    /\ view = NoView
    /\ announced = {}
    /\ thread = [s \in Session |-> IF s = opened THEN "running" ELSE "none"]
    /\ slots = [s \in Session |-> << >>]
    /\ debugState = [s \in Session |-> "NoTarget"]
    /\ timers = [s \in Session |-> 0]
    /\ ticking = [s \in Session |-> {}]
    /\ plugin = [s \in Session |-> NewPlugin]

\* Mutant: the start is posted ahead of the request.
SetupSlotsStarted == <<"start", "file_target_request">>

\* What a new session is asked first.
SetupSlots == <<"file_target_request">>

\* create_backend_session("LLDB"), setup_backend and file_target_request: the
\* request is posted before control returns to the event loop.
OpenSession ==
    IF "LLDB" \in registered
    THEN /\ backend' = opened + 1
         /\ opened' = opened + 1
         /\ thread' = [thread EXCEPT ![opened + 1] = "running"]
         /\ slots' = [slots EXCEPT ![opened + 1] = SetupSlots]
    ELSE /\ backend' = NoSession
         /\ UNCHANGED <<opened, thread, slots>>

\* Mutant: quit() is not called.
BeginCloseWithoutQuit(next) ==
    /\ ui' = "closing"
    /\ afterClose' = next
    /\ UNCHANGED thread

\* close_current_backend up to wait(): the UI thread blocks until the backend
\* thread has finished.
BeginClose(next) ==
    /\ ui' = "closing"
    /\ afterClose' = next
    /\ thread' = [thread EXCEPT ![backend] = "quitting"]

\* The menu entry.  Without a backend the close does nothing.
OpenDebugExecutable ==
    /\ ui = "idle"
    /\ opened < MaxSessions
    /\ IF backend = NoSession
       THEN OpenSession /\ UNCHANGED <<ui, afterClose>>
       ELSE BeginClose("open") /\ UNCHANGED <<backend, opened, slots>>
    /\ UNCHANGED <<registered, uiQueue, hooked, view, announced,
                   debugState, timers, ticking, plugin>>

\* The window is closed, exec() returns and ~MainWindow closes the backend.
CloseWindow ==
    /\ ui = "idle"
    /\ IF backend = NoSession
       THEN ui' = "exited" /\ UNCHANGED <<afterClose, thread>>
       ELSE BeginClose("exit")
    /\ UNCHANGED <<registered, backend, opened, uiQueue, hooked, view, announced,
                   slots, debugState, timers, ticking, plugin>>

\* Mutant: the events outlive their receiver.
KeepRequestsEvents(q) == q

\* Deleting a QObject withdraws the events posted to it; Qt nulls them in place.
WithdrawRequestsEvents(q) ==
    [i \in 1..Len(q) |-> IF q[i].event = "target_reply" THEN q[i] ELSE NoEvent]

\* Mutant: a wait that gives up while the thread is still running.
WaitGivesUp == thread[backend] # "none"

\* QThread::wait has no deadline.
WaitReturns == thread[backend] = "finished"

\* wait() returned: the thread and the requests object are deleted, the pointers
\* cleared, and the handler that asked for the close goes on.
CloseFinished ==
    /\ ui = "closing"
    /\ WaitReturns
    /\ uiQueue' = WithdrawRequestsEvents(uiQueue)
    /\ hooked' = FALSE
    /\ afterClose' = "nothing"
    /\ IF afterClose = "open"
       THEN OpenSession /\ ui' = "idle"
       ELSE /\ ui' = IF afterClose = "exit" THEN "exited" ELSE "idle"
            /\ backend' = NoSession
            /\ UNCHANGED <<opened, thread, slots>>
    /\ UNCHANGED <<registered, view, announced, debugState, timers, ticking, plugin>>

-----------------------------------------------------------------------------
(* The UI thread takes the next posted event.                               *)

NextUiEvent(e) ==
    /\ ui = "idle"
    /\ uiQueue # << >>
    /\ Head(uiQueue).event = e
    /\ uiQueue' = Tail(uiQueue)

\* MainWindow::target_reply(true): start_backend() is emitted to the session that
\* is current NOW, and the source view is connected to its requests object.
TargetAccepted ==
    /\ NextUiEvent("target_reply")
    /\ Head(uiQueue).status
    /\ IF backend = NoSession
       THEN UNCHANGED <<slots, hooked>>
       ELSE /\ slots' = [slots EXCEPT ![backend] = Append(@, "start")]
            /\ hooked' = TRUE
    /\ UNCHANGED <<registered, ui, afterClose, backend, opened, view, announced,
                   thread, debugState, timers, ticking, plugin>>

\* Mutant: a refused target is only reported to the user.
TargetRefusedKept ==
    /\ NextUiEvent("target_reply")
    /\ ~Head(uiQueue).status
    /\ UNCHANGED <<registered, ui, afterClose, backend, opened, hooked, view, announced,
                   sesVars>>

\* MainWindow::target_reply(false): the current backend is closed.
TargetRefused ==
    /\ NextUiEvent("target_reply")
    /\ ~Head(uiQueue).status
    /\ IF backend = NoSession
       THEN UNCHANGED <<ui, afterClose, thread>>
       ELSE BeginClose("nothing")
    /\ UNCHANGED <<registered, backend, opened, hooked, view, announced,
                   slots, debugState, timers, ticking, plugin>>

\* BackendRequests emits the signal again; program_counter_changed moves the
\* source view when it is connected, session_ended has no receiver today.
RequestsSignal ==
    /\ \E e \in {"program_counter_changed", "session_ended"} :
          /\ NextUiEvent(e)
          /\ view' = IF e = "program_counter_changed" /\ hooked
                     THEN [session |-> Head(uiQueue).session, stop |-> Head(uiQueue).stop]
                     ELSE view
          /\ announced' = IF e = "session_ended"
                          THEN announced \union {Head(uiQueue).session}
                          ELSE announced
    /\ UNCHANGED <<registered, ui, afterClose, backend, opened, hooked, sesVars>>

\* The event loop passes over an event that was withdrawn.
SkipWithdrawn ==
    /\ NextUiEvent("none")
    /\ UNCHANGED <<registered, ui, afterClose, backend, opened, hooked, view,
                   announced, sesVars>>

-----------------------------------------------------------------------------
(* BackendSession, on the thread of session s.                              *)

\* update_current_pc: the first location in the replies is signalled.
CurrentPc(s, r) == IF r.located THEN <<PcChanged(s, r.plugin.stops)>> ELSE << >>

Changed(s, r) == r.plugin.state # debugState[s]

\* Mutant: only a debuggee known to be running can stop.
InternalSignalsFromRunning(s, r) ==
    IF debugState[s] = "Running" /\ Changed(s, r) THEN CurrentPc(s, r) ELSE << >>

\* What internal_update signals: the location, when the state became a stop.
InternalSignals(s, r) ==
    IF Changed(s, r) /\ r.plugin.state # "Running" THEN CurrentPc(s, r) ELSE << >>

\* Mutant: m_timer is not checked for nullptr.
InternalTickingUnchecked(s, r) ==
    IF ~Changed(s, r) THEN ticking[s]
    ELSE IF r.plugin.state # "Running" THEN ticking[s] \ {timers[s]}
    ELSE ticking[s] \union {timers[s]}

\* internal_update on the timer: m_timer stops with the debuggee, restarts with it.
InternalTicking(s, r) ==
    IF ~Changed(s, r) THEN ticking[s]
    ELSE IF r.plugin.state # "Running" THEN ticking[s] \ {timers[s]}
    ELSE ticking[s] \union {t \in {timers[s]} : t # 0}

\* internal_update's effect on the plugin and on m_debugState.
InternalUpdate(s, r) ==
    /\ plugin' = [plugin EXCEPT ![s] = r.plugin]
    /\ debugState' = [debugState EXCEPT ![s] = r.plugin.state]

\* file_target_request: the request is written, update() runs internal_update and
\* then update_current_pc once more, and the target_reply found is signalled.
FileTargetRequest(s) ==
    /\ Live(s)
    /\ slots[s] # << >> /\ Head(slots[s]) = "file_target_request"
    /\ slots' = [slots EXCEPT ![s] = Tail(@)]
    /\ \E r \in UpdateResults(plugin[s], "None", "file_target_request") :
          /\ InternalUpdate(s, r)
          /\ ticking' = [ticking EXCEPT ![s] = InternalTicking(s, r)]
          /\ uiQueue' = uiQueue \o InternalSignals(s, r) \o CurrentPc(s, r)
                          \o <<TargetReply(s, r.target_reply = "valid")>>
    /\ UNCHANGED <<registered, ui, afterClose, backend, opened, hooked, view,
                   announced, thread, timers>>

\* Mutant: only the first timer is started.
FirstTimer(s) == {t \in {timers[s] + 1} : t = 1}

\* The timer start() creates and starts.
NewTimer(s) == {timers[s] + 1}

\* start: nothing while running; otherwise internal_update(Run), and a new QTimer
\* that becomes m_timer and is started whatever the plugin answered.
Start(s) ==
    /\ Live(s)
    /\ slots[s] # << >> /\ Head(slots[s]) = "start"
    /\ slots' = [slots EXCEPT ![s] = Tail(@)]
    /\ IF debugState[s] = "Running"
       THEN UNCHANGED <<plugin, debugState, timers, ticking, uiQueue>>
       ELSE \E r \in UpdateResults(plugin[s], "Run", "none") :
              /\ InternalUpdate(s, r)
              /\ timers' = [timers EXCEPT ![s] = @ + 1]
              /\ ticking' = [ticking EXCEPT
                               ![s] = InternalTicking(s, r) \union NewTimer(s)]
              /\ uiQueue' = uiQueue \o InternalSignals(s, r)
    /\ UNCHANGED <<registered, ui, afterClose, backend, opened, hooked, view,
                   announced, thread>>

\* A QTimer of the session fires: update().
Timeout(s) ==
    /\ Live(s)
    /\ ticking[s] # {}
    /\ \E r \in UpdateResults(plugin[s], "None", "none") :
          /\ InternalUpdate(s, r)
          /\ ticking' = [ticking EXCEPT ![s] = InternalTicking(s, r)]
          /\ uiQueue' = uiQueue \o InternalSignals(s, r) \o CurrentPc(s, r)
    /\ UNCHANGED <<registered, ui, afterClose, backend, opened, hooked, view,
                   announced, thread, slots, timers>>

\* quit() was called and the event loop returns, before or after the slots that
\* are still posted: QThread::finished deletes the session, which stops m_timer,
\* signals session_ended and destroys the plugin instance.  The other QTimers are
\* children of the session and go with it.
ThreadFinished(s) ==
    /\ thread[s] = "quitting"
    /\ thread' = [thread EXCEPT ![s] = "finished"]
    /\ slots' = [slots EXCEPT ![s] = << >>]
    /\ ticking' = [ticking EXCEPT ![s] = {}]
    /\ uiQueue' = Append(uiQueue, SessionEnded(s))
    /\ UNCHANGED <<registered, ui, afterClose, backend, opened, hooked, view,
                   announced, debugState, timers, plugin>>

-----------------------------------------------------------------------------
(* The debuggee, between two updates.                                       *)

DebuggeeStops(s) ==
    /\ Live(s)
    /\ plugin[s].debuggee = "running"
    /\ plugin[s].stops < MaxStops
    /\ plugin' = [plugin EXCEPT ![s] = Halted(@)]
    /\ UNCHANGED <<uiVars, thread, slots, debugState, timers, ticking>>

DebuggeeExits(s) ==
    /\ Live(s)
    /\ plugin[s].debuggee = "running"
    /\ plugin' = [plugin EXCEPT ![s] = Exited(@)]
    /\ UNCHANGED <<uiVars, thread, slots, debugState, timers, ticking>>

-----------------------------------------------------------------------------
UiThread ==
    \/ OpenDebugExecutable
    \/ CloseWindow
    \/ CloseFinished
    \/ TargetAccepted
    \/ TargetRefused
    \/ RequestsSignal
    \/ SkipWithdrawn

BackendThread(s) ==
    \/ FileTargetRequest(s)
    \/ Start(s)
    \/ Timeout(s)
    \/ ThreadFinished(s)

Next ==
    \/ UiThread
    \/ \E s \in Session : BackendThread(s) \/ DebuggeeStops(s) \/ DebuggeeExits(s)

Spec == Init /\ [][Next]_vars

\* Both event loops keep running: a posted event is taken, an active timer fires,
\* a thread told to quit finishes and wait() then returns.  Nothing is assumed of
\* the user, of the file or of the debuggee.
Fairness ==
    /\ WF_vars(CloseFinished)
    /\ WF_vars(TargetAccepted \/ TargetRefused \/ RequestsSignal \/ SkipWithdrawn)
    /\ \A s \in Session :
          /\ WF_vars(FileTargetRequest(s) \/ Start(s))
          /\ WF_vars(Timeout(s))
          /\ WF_vars(ThreadFinished(s))

FairSpec == Spec /\ Fairness

-----------------------------------------------------------------------------
(* Properties.                                                              *)

\* The main window never holds a deleted session, and no session runs that the
\* window has lost: a thread is live exactly when its session is the current one,
\* save that of a closing backend, which may have finished already.
\* (close_current_backend quits, waits, deletes and clears in this order.)
OneLiveSession ==
    /\ \A s \in Session : Live(s) => s = backend
    /\ backend # NoSession =>
         \/ thread[backend] = "running" /\ ui = "idle"
         \/ thread[backend] \in {"quitting", "finished"} /\ ui = "closing"

\* A plugin is never asked to run before its own file_target_request was handled,
\* whichever session's reply caused the start.
RunAfterTarget ==
    \A s \in Session : timers[s] > 0 => plugin[s].target # "none"

\* While a live session believes its debuggee runs, m_timer is active: the poll
\* that will notice the stop is never lost.
RunningIsPolled ==
    \A s \in Session :
        Live(s) /\ debugState[s] = "Running" => timers[s] \in ticking[s]

\* A source view only ever moves to a location of the session that is current,
\* although locations of a closed session may still be posted.
ViewFollowsSession ==
    [][view' # view => view'.session = backend]_vars

\* The first stop of a debuggee is shown in the source view, or its session is
\* being closed, or the window is.
FirstStopIsShown ==
    \A s \in Session :
        (Live(s) /\ plugin[s].debuggee = "halted" /\ plugin[s].stops = 1)
            ~> (view = [session |-> s, stop |-> 1] \/ thread[s] # "running")

\* Closing never hangs the UI thread: wait() returns.
CloseReturns == (ui = "closing") ~> (ui # "closing")

\* A session whose target could not be created does not stay the current one.
RefusedTargetCloses ==
    \A s \in Session : (plugin[s].target = "invalid") ~> (backend # s)

-----------------------------------------------------------------------------
(* What comments of the code say, and the code does not do.                 *)

\* MainWindow.cpp: "target_reply will get a status back if it's possible to start
\* the file or not and the debugging can procedde after that": a session is only
\* started on its own reply.
StartOnOwnReply ==
    [][\A s \in Session :
          Len(slots'[s]) > Len(slots[s]) /\ thread[s] # "none"
             => Head(uiQueue).session = s]_vars

\* IBackendRequests.h:139: session_ended "is being sent when the the current debugging
\* session has ended": it reaches the requests object in the end, at the latest when
\* the window has nothing else to do, unless the program is left.
SessionEndAnnounced ==
    \A s \in Session : thread[s] = "finished" ~> s \in announced \/ ui = "exited"
=============================================================================
