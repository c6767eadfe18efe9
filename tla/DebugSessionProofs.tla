------------------------- MODULE DebugSessionProofs -------------------------
(***************************************************************************)
(* Theorems about DebugSession, for any number of sessions, of stops and   *)
(* any set of plugins.  One inductive invariant, IInv, carries them all.   *)
(***************************************************************************)
EXTENDS DebugSession, SequenceTheorems, TLAPS

-----------------------------------------------------------------------------
(* What a call of update may do (BackendApi).                               *)

\* A result is built from the three parts of update.
LEMMA ResultParts ==
    ASSUME NEW p \in Plugin, NEW action \in PDAction, NEW request \in Request,
           NEW r \in UpdateResults(p, action, request)
    PROVE  \E q \in AfterRequests(p, request) : \E q2 \in AfterAction(q, action) :
              /\ r.plugin \in AfterWait(q2)
              /\ r.target_reply = IF request = "file_target_request"
                                  THEN q.target ELSE "none"
              /\ r.located \in BOOLEAN
<1> DEFINE Out(q, q2, r2) ==
                [plugin |-> r2,
                 target_reply |-> IF request = "file_target_request"
                                  THEN q.target ELSE "none",
                 located |-> \/ request = "exception_location_request"
                             \/ q2.state = "Running" /\ r2.state # "Running"]
           After(q, q2) == {Out(q, q2, r2) : r2 \in AfterWait(q2)}
           Acted(q)     == UNION {After(q, q2) : q2 \in AfterAction(q, action)}
<1>1. r \in UNION {Acted(q) : q \in AfterRequests(p, request)}
  BY DEF UpdateResults
<1> HIDE DEF Acted
<1>2. PICK q \in AfterRequests(p, request) : r \in Acted(q)
  BY <1>1
<1> USE DEF Acted
<1> HIDE DEF After
<1>3. PICK q2 \in AfterAction(q, action) : r \in After(q, q2)
  BY <1>2
<1> USE DEF After
<1> HIDE DEF Out
<1>4. PICK r2 \in AfterWait(q2) : r = Out(q, q2, r2)
  BY <1>3
<1> QED
  BY <1>4 DEF Out

\* Reading the requests creates a target, and changes nothing else.
LEMMA RequestsCreateTarget ==
    ASSUME NEW p \in Plugin, NEW request \in Request, NEW q \in AfterRequests(p, request)
    PROVE  /\ q \in Plugin
           /\ q.state = p.state
           /\ request = "file_target_request" => q.target \in {"valid", "invalid"}
           /\ request # "file_target_request" => q = p
  BY DEF AfterRequests, Plugin, Target

\* Only Run changes the plugin, and then to Running.
LEMMA ActionRuns ==
    ASSUME NEW p \in Plugin, NEW action \in PDAction, NEW q \in AfterAction(p, action)
    PROVE  /\ q \in Plugin
           /\ q.target = p.target
           /\ action = "None" => q = p
  BY DEF AfterAction, Launched, Continued, Plugin, PDAction, PDDebugState, Debuggee

\* A halt or an exit is the debuggee's alone.
LEMMA HaltedFacts ==
    ASSUME NEW p \in Plugin
    PROVE  /\ Halted(p) \in Plugin /\ Halted(p).target = p.target /\ Halted(p).state = p.state
           /\ Exited(p) \in Plugin /\ Exited(p).target = p.target /\ Exited(p).state = p.state
<1>1. p.stops \in Nat /\ p.stops + 1 \in Nat
  BY DEF Plugin
<1> DEFINE n == IF p.debuggee = "halted" THEN p.stops ELSE p.stops + 1
<1>2. n \in Nat
  BY <1>1
<1> HIDE DEF n
<1>3. Halted(p) = [p EXCEPT !.debuggee = "halted", !.stops = n]
  BY DEF Halted, n
<1> QED  BY <1>2, <1>3 DEF Exited, Plugin, Debuggee

\* Waiting only ever leaves Running.
LEMMA WaitStops ==
    ASSUME NEW p \in Plugin, NEW q \in AfterWait(p)
    PROVE  /\ q \in Plugin
           /\ q.target = p.target
           /\ q.state = "Running" => p.state = "Running"
<1>1. /\ Halted(p) \in Plugin /\ Halted(p).target = p.target /\ Halted(p).state = p.state
      /\ Exited(p) \in Plugin /\ Exited(p).target = p.target /\ Exited(p).state = p.state
  BY HaltedFacts
<1>3. ASSUME NEW st \in StopState
      PROVE  LET h == [Halted(p) EXCEPT !.state = st]
             IN  h \in Plugin /\ h.target = p.target /\ h.state # "Running"
  BY <1>1 DEF Plugin, StopState, PDDebugState
<1>4. CASE p.state # "Running"
  BY <1>4 DEF AfterWait
<1>5. CASE p.state = "Running"
  <2>1. \/ q = p \/ q = Halted(p) \/ q = Exited(p)
        \/ \E st \in StopState : q = [Halted(p) EXCEPT !.state = st]
    BY <1>5, Zenon DEF AfterWait
  <2> QED  BY <1>1, <1>3, <1>5, <2>1
<1> QED  BY <1>4, <1>5

\* A call keeps the types; only a file_target_request changes the target, to one;
\* and only Run makes a plugin run.
LEMMA UpdateFacts ==
    ASSUME NEW p \in Plugin, NEW action \in PDAction, NEW request \in Request,
           NEW r \in UpdateResults(p, action, request)
    PROVE  /\ r.plugin \in Plugin
           /\ r.located \in BOOLEAN
           /\ request = "file_target_request" => r.plugin.target # "none"
           /\ request # "file_target_request" => r.plugin.target = p.target
           /\ action = "None" /\ r.plugin.state = "Running" => p.state = "Running"
<1>0. PICK q \in AfterRequests(p, request) :
         \E q2 \in AfterAction(q, action) : r.plugin \in AfterWait(q2) /\ r.located \in BOOLEAN
  BY ResultParts
<1>1. PICK q2 \in AfterAction(q, action) : r.plugin \in AfterWait(q2) /\ r.located \in BOOLEAN
  BY <1>0
<1>2. /\ q \in Plugin /\ q.state = p.state
      /\ request = "file_target_request" => q.target \in {"valid", "invalid"}
      /\ request # "file_target_request" => q = p
  BY <1>1, RequestsCreateTarget
<1>3. q2 \in Plugin /\ q2.target = q.target /\ (action = "None" => q2 = q)
  BY <1>1, <1>2, ActionRuns
<1>4. /\ r.plugin \in Plugin /\ r.plugin.target = q2.target
      /\ r.plugin.state = "Running" => q2.state = "Running"
  BY <1>1, <1>3, WaitStops
<1> QED  BY <1>1, <1>2, <1>3, <1>4

-----------------------------------------------------------------------------
(* The inductive invariant.                                                 *)

\* The session's own file_target_request was handled, or will be before any start.
Asked(s) == \/ plugin[s].target # "none"
            \/ slots[s] # << >> /\ Head(slots[s]) = "file_target_request"

\* A location belongs to the current session.  A reply may belong to an earlier
\* one: what makes the start it causes harmless is that the session was asked.
ExpectedEvent ==
    {e \in UiEvent :
        /\ e.event = "program_counter_changed" => e.session = backend /\ backend # NoSession
        /\ e.event = "session_ended" => e.session \in Session
        /\ e.event = "target_reply" /\ ui = "idle" /\ backend # NoSession => Asked(backend)}

ExpectedSlot(s) == {c \in Slot : c = "start" => Asked(s)}

\* A session that was not opened yet is as Init left it.
Pristine(s) ==
    /\ thread[s] = "none"
    /\ debugState[s] = "NoTarget"
    /\ plugin[s] = NewPlugin
    /\ timers[s] = 0
    /\ slots[s] = << >>

SessionsInOrder ==
    /\ backend <= opened
    /\ \A s \in Session : s > opened => Pristine(s)

\* Opening after a close is within the bound, as it was when the close began.
ClosingHasBackend ==
    /\ ui = "closing" => backend # NoSession
    /\ ui = "idle" => afterClose = "nothing"
    /\ afterClose = "open" => opened < MaxSessions

\* m_debugState is what the plugin returned last.
DebugStateIsPlugins == \A s \in Session : debugState[s] = plugin[s].state

EventsExpected == uiQueue \in Seq(ExpectedEvent)
SlotsExpected  == \A s \in Session : slots[s] \in Seq(ExpectedSlot(s))

IInv ==
    /\ TypeOK
    /\ OneLiveSession
    /\ RunAfterTarget
    /\ RunningIsPolled
    /\ SessionsInOrder
    /\ ClosingHasBackend
    /\ DebugStateIsPlugins
    /\ EventsExpected
    /\ SlotsExpected

\* The initial states: no session, no event, and whatever plugins were found.
LEMMA InitIInv == Init => IInv
<1> SUFFICES ASSUME Init PROVE IInv
  OBVIOUS
<1>1. NewPlugin \in Plugin /\ NewPlugin.state = "NoTarget"
  BY DEF NewPlugin, Plugin, PDDebugState, Target, Debuggee
<1>2. opened = 0 \/ (opened = 1 /\ MaxSessions > 0)
  BY Zenon DEF Init
<1>3. opened \in 0..MaxSessions /\ opened \in {0, 1}
  BY <1>2, MaxSessionsAssumption
<1>4. /\ registered \subseteq AddedPlugins
      /\ ui = "idle" /\ afterClose = "nothing" /\ backend = opened
      /\ uiQueue = << >> /\ hooked = FALSE /\ view = NoView /\ announced = {}
  BY Zenon DEF Init
<1>5. /\ thread = [s \in Session |-> IF s = opened THEN "running" ELSE "none"]
      /\ slots = [s \in Session |-> << >>]
      /\ debugState = [s \in Session |-> "NoTarget"]
      /\ timers = [s \in Session |-> 0]
      /\ ticking = [s \in Session |-> {}]
      /\ plugin = [s \in Session |-> NewPlugin]
  BY Zenon DEF Init
<1>6. \A s \in Session : /\ slots[s] = << >> /\ debugState[s] = "NoTarget"
                         /\ timers[s] = 0 /\ ticking[s] = {} /\ plugin[s] = NewPlugin
                         /\ thread[s] = IF s = opened THEN "running" ELSE "none"
  BY <1>5
<1>7. TypeOK
  <2>1. uiQueue \in Seq(UiEvent) /\ slots \in [Session -> Seq(Slot)]
    BY <1>4, <1>5
  <2>2. thread \in [Session -> {"none", "running", "quitting", "finished"}]
    BY <1>5
  <2>3. /\ debugState \in [Session -> PDDebugState]
        /\ timers \in [Session -> Nat]
        /\ ticking \in [Session -> SUBSET (Nat \ {0})]
        /\ plugin \in [Session -> Plugin]
    BY <1>1, <1>5 DEF PDDebugState
  <2>4. backend \in Session \union {NoSession}
    BY <1>3, <1>4, MaxSessionsAssumption DEF Session, NoSession
  <2>5. view \in [session : Session \union {NoSession}, stop : Nat]
    BY <1>4 DEF NoView
  <2> QED  BY <1>3, <1>4, <2>1, <2>2, <2>3, <2>4, <2>5 DEF TypeOK
<1>8. OneLiveSession
  <2>1. \A s \in Session : Live(s) => s = backend
    BY <1>4, <1>6 DEF Live
  <2>2. backend # NoSession => backend \in Session
    BY <1>3, <1>4, MaxSessionsAssumption DEF Session, NoSession
  <2> QED  BY <1>4, <1>6, <2>1, <2>2 DEF OneLiveSession
<1>9. RunAfterTarget /\ RunningIsPolled
  BY <1>6 DEF RunAfterTarget, RunningIsPolled
<1>10. SessionsInOrder
  BY <1>3, <1>4, <1>6 DEF SessionsInOrder, Pristine, Session
<1>11. ClosingHasBackend
  BY <1>4 DEF ClosingHasBackend
<1>12. DebugStateIsPlugins
  BY <1>1, <1>6 DEF DebugStateIsPlugins
<1>13. EventsExpected /\ SlotsExpected
  BY <1>4, <1>6, EmptySeq DEF EventsExpected, SlotsExpected
<1> QED
  BY <1>7, <1>8, <1>9, <1>10, <1>11, <1>12, <1>13 DEF IInv

-----------------------------------------------------------------------------
(* Steps of the UI thread.                                                  *)

\* What NextUiEvent takes, and what it leaves.
LEMMA NextUiEventFacts ==
    ASSUME IInv, NEW e, NextUiEvent(e)
    PROVE  /\ uiQueue' \in Seq(ExpectedEvent)
           /\ Head(uiQueue) \in ExpectedEvent
           /\ Head(uiQueue).event = e /\ ui = "idle"
  BY HeadTailProperties DEF IInv, EventsExpected, NextUiEvent

\* Every event the invariant expects in the queue is an event of UiEvent.
LEMMA ExpectedIsUiEvent ==
    ASSUME NEW q \in Seq(ExpectedEvent)
    PROVE  q \in Seq(UiEvent)
  BY SeqMonotonic DEF ExpectedEvent

\* A step that only touches the queue, the view and what was announced.
LEMMA ViewStep ==
    ASSUME IInv, uiQueue' \in Seq(ExpectedEvent),
           view' \in [session : Session \union {NoSession}, stop : Nat],
           announced' \subseteq Session,
           UNCHANGED <<registered, ui, afterClose, backend, opened, hooked, sesVars>>
    PROVE  IInv'
<1> USE DEF IInv, sesVars
<1>1. TypeOK'
  BY ExpectedIsUiEvent DEF TypeOK
<1>2. OneLiveSession' /\ RunAfterTarget' /\ RunningIsPolled'
  BY DEF OneLiveSession, RunAfterTarget, RunningIsPolled, Live
<1>3. SessionsInOrder' /\ ClosingHasBackend' /\ DebugStateIsPlugins'
  BY DEF SessionsInOrder, ClosingHasBackend, DebugStateIsPlugins, Pristine
<1>4. ExpectedEvent' = ExpectedEvent /\ \A s \in Session : ExpectedSlot(s)' = ExpectedSlot(s)
  BY DEF ExpectedEvent, ExpectedSlot, Asked
<1>5. EventsExpected' /\ SlotsExpected'
  BY <1>4 DEF EventsExpected, SlotsExpected
<1> QED
  BY <1>1, <1>2, <1>3, <1>5

\* A location or an end of session is taken from the queue: nothing else moves.
LEMMA RequestsSignalIInv == IInv /\ RequestsSignal => IInv'
<1> SUFFICES ASSUME IInv, RequestsSignal PROVE IInv'
  OBVIOUS
<1>1. PICK e \in {"program_counter_changed", "session_ended"} :
         /\ NextUiEvent(e)
         /\ view' = IF e = "program_counter_changed" /\ hooked
                    THEN [session |-> Head(uiQueue).session, stop |-> Head(uiQueue).stop]
                    ELSE view
         /\ announced' = IF e = "session_ended"
                         THEN announced \union {Head(uiQueue).session}
                         ELSE announced
  BY DEF RequestsSignal
<1>2. /\ uiQueue' \in Seq(ExpectedEvent) /\ Head(uiQueue) \in UiEvent
      /\ e = "session_ended" => Head(uiQueue).session \in Session
  BY <1>1, NextUiEventFacts DEF ExpectedEvent
<1>3. view' \in [session : Session \union {NoSession}, stop : Nat]
  BY <1>1, <1>2 DEF UiEvent, IInv, TypeOK
<1>4. announced' \subseteq Session
  BY <1>1, <1>2 DEF IInv, TypeOK
<1> QED
  BY <1>2, <1>3, <1>4, ViewStep DEF RequestsSignal

\* A withdrawn event is passed over.
LEMMA SkipWithdrawnIInv == IInv /\ SkipWithdrawn => IInv'
<1> SUFFICES ASSUME IInv, SkipWithdrawn PROVE IInv'
  OBVIOUS
<1>1. uiQueue' \in Seq(ExpectedEvent)
  BY NextUiEventFacts DEF SkipWithdrawn
<1> QED
  BY <1>1, ViewStep DEF SkipWithdrawn, IInv, TypeOK

-----------------------------------------------------------------------------
(* Steps of a session's thread, and of its debuggee.                        *)

\* The events a live session may post, when p is its plugin afterwards.
PostedEvent(s, p) ==
    {e \in UiEvent :
        /\ e.event \in {"program_counter_changed", "target_reply"}
        /\ e.session = s
        /\ e.event = "target_reply" => p.target # "none"}

\* A step of a live session s keeps the invariant when it keeps the timer of a
\* running debuggee active, has a target once it has a timer, and does not lose
\* the request that makes it Asked.
LEMMA SessionStep ==
    ASSUME IInv, NEW s \in Session, Live(s),
           NEW p \in Plugin, NEW n \in Nat, NEW T \in SUBSET (Nat \ {0}),
           NEW q \in Seq(Slot), NEW ev \in Seq(PostedEvent(s, p)),
           plugin' = [plugin EXCEPT ![s] = p],
           debugState' = [debugState EXCEPT ![s] = p.state],
           timers' = [timers EXCEPT ![s] = n],
           ticking' = [ticking EXCEPT ![s] = T],
           slots' = [slots EXCEPT ![s] = q],
           uiQueue' = uiQueue \o ev,
           p.state = "Running" => n \in T,
           n > 0 => p.target # "none",
           plugin[s].target # "none" => p.target # "none",
           p.target # "none" \/ q = slots[s],
           UNCHANGED <<registered, ui, afterClose, backend, opened, hooked, view,
                       announced, thread>>
    PROVE  IInv'
<1> USE DEF IInv
<1>1. s = backend /\ backend # NoSession /\ s <= opened
  BY DEF OneLiveSession, SessionsInOrder, Pristine, Live, Session, NoSession
<1>2. /\ plugin'[s] = p /\ debugState'[s] = p.state /\ timers'[s] = n
      /\ ticking'[s] = T /\ slots'[s] = q
      /\ \A x \in Session \ {s} :
            /\ plugin'[x] = plugin[x] /\ debugState'[x] = debugState[x]
            /\ timers'[x] = timers[x] /\ ticking'[x] = ticking[x] /\ slots'[x] = slots[x]
  BY DEF TypeOK
<1>3. Asked(s) => Asked(s)'
  BY <1>2 DEF Asked
<1>4. \A x \in Session \ {s} : Asked(x)' = Asked(x)
  BY <1>2 DEF Asked
<1>5. ExpectedEvent \subseteq ExpectedEvent'
  BY <1>1, <1>3 DEF ExpectedEvent
<1>6. PostedEvent(s, p) \subseteq ExpectedEvent'
  BY <1>1, <1>2 DEF PostedEvent, ExpectedEvent, Asked
<1>7. EventsExpected'
  <2>1. uiQueue \in Seq(ExpectedEvent') /\ ev \in Seq(ExpectedEvent')
    BY <1>5, <1>6, SeqMonotonic DEF EventsExpected
  <2>2. uiQueue \o ev \in Seq(ExpectedEvent')
    BY <2>1, ConcatProperties
  <2> QED  BY <2>2 DEF EventsExpected
<1>8. SlotsExpected'
  <2> SUFFICES ASSUME NEW x \in Session PROVE slots'[x] \in Seq(ExpectedSlot(x)')
    BY DEF SlotsExpected
  <2>1. CASE x # s
    BY <1>2, <1>4, <2>1 DEF SlotsExpected, ExpectedSlot
  <2>2. CASE x = s /\ p.target # "none"
    <3>1. Slot \subseteq ExpectedSlot(s)'
      BY <1>2, <2>2 DEF ExpectedSlot, Asked
    <3> QED  BY <1>2, <2>2, <3>1, SeqMonotonic
  <2>3. CASE x = s /\ q = slots[s]
    <3>1. ExpectedSlot(s) \subseteq ExpectedSlot(s)'
      BY <1>3 DEF ExpectedSlot
    <3> QED  BY <1>2, <2>3, <3>1, SeqMonotonic DEF SlotsExpected
  <2> QED  BY <2>1, <2>2, <2>3
<1>9. TypeOK'
  <2>1. uiQueue' \in Seq(UiEvent)
    BY <1>7, SeqMonotonic DEF EventsExpected, ExpectedEvent
  <2>2. p.state \in PDDebugState
    BY DEF Plugin
  <2> QED  BY <2>1, <2>2 DEF TypeOK
<1>10. OneLiveSession' /\ ClosingHasBackend'
  BY DEF OneLiveSession, ClosingHasBackend, Live
<1>11. RunAfterTarget'
  BY <1>2 DEF RunAfterTarget
<1>12. RunningIsPolled'
  BY <1>2 DEF RunningIsPolled, Live
<1>13. SessionsInOrder'
  <2>1. \A x \in Session : x > opened => Pristine(x)'
    <3> SUFFICES ASSUME NEW x \in Session, x > opened PROVE Pristine(x)'
      OBVIOUS
    <3>1. x \in Session \ {s}
      BY <1>1 DEF TypeOK, Session
    <3>2. Pristine(x)
      BY DEF SessionsInOrder
    <3> QED  BY <1>2, <3>1, <3>2 DEF Pristine
  <2> QED  BY <2>1 DEF SessionsInOrder
<1>14. DebugStateIsPlugins'
  BY <1>2 DEF DebugStateIsPlugins
<1> QED
  BY <1>7, <1>8, <1>9, <1>10, <1>11, <1>12, <1>13, <1>14

\* What internal_update and update_current_pc signal are locations of the session.
LEMMA SignalsPosted ==
    ASSUME IInv, NEW s \in Session, NEW r, r.plugin \in Plugin
    PROVE  /\ CurrentPc(s, r) \in Seq(PostedEvent(s, r.plugin))
           /\ InternalSignals(s, r) \in Seq(PostedEvent(s, r.plugin))
<1>1. PcChanged(s, r.plugin.stops) \in PostedEvent(s, r.plugin)
  BY DEF PcChanged, Event, PostedEvent, UiEvent, Plugin
<1>2. CurrentPc(s, r) \in Seq(PostedEvent(s, r.plugin))
  <2>1. CASE r.located
    BY <1>1, <2>1 DEF CurrentPc
  <2>2. CASE ~r.located
    BY <2>2, EmptySeq DEF CurrentPc
  <2> QED  BY <2>1, <2>2
<1> QED
  BY <1>2, EmptySeq DEF InternalSignals

\* internal_update keeps the types, and never starts a null timer.
LEMMA InternalTickingType ==
    ASSUME IInv, NEW s \in Session, NEW r
    PROVE  InternalTicking(s, r) \in SUBSET (Nat \ {0})
  BY DEF IInv, TypeOK, InternalTicking

\* The first slot of a session: its plugin gets a target, and the session is Asked
\* before its reply is posted.
LEMMA FileTargetRequestIInv ==
    ASSUME IInv, NEW s \in Session, FileTargetRequest(s)
    PROVE  IInv'
<1>1. PICK r \in UpdateResults(plugin[s], "None", "file_target_request") :
         /\ InternalUpdate(s, r)
         /\ ticking' = [ticking EXCEPT ![s] = InternalTicking(s, r)]
         /\ uiQueue' = uiQueue \o InternalSignals(s, r) \o CurrentPc(s, r)
                         \o <<TargetReply(s, r.target_reply = "valid")>>
  BY DEF FileTargetRequest
<1>2. plugin[s] \in Plugin /\ slots[s] \in Seq(Slot) /\ timers[s] \in Nat
  BY DEF IInv, TypeOK
<1>3. /\ r.plugin \in Plugin /\ r.plugin.target # "none"
      /\ r.plugin.state = "Running" => plugin[s].state = "Running"
  BY <1>1, <1>2, UpdateFacts DEF PDAction, Request
<1> DEFINE ok  == r.target_reply = "valid"
           ev0 == InternalSignals(s, r)
           ev1 == CurrentPc(s, r)
           ev  == ev0 \o ev1 \o <<TargetReply(s, ok)>>
           P   == PostedEvent(s, r.plugin)
<1>4. TargetReply(s, ok) \in P
  BY <1>3 DEF TargetReply, Event, PostedEvent, UiEvent
<1>5. ev0 \in Seq(P) /\ ev1 \in Seq(P)
  BY <1>3, SignalsPosted
<1>6. uiQueue \in Seq(UiEvent) /\ ev0 \in Seq(UiEvent) /\ ev1 \in Seq(UiEvent)
      /\ <<TargetReply(s, ok)>> \in Seq(UiEvent)
  BY <1>4, <1>5, SeqMonotonic DEF IInv, TypeOK, PostedEvent
<1> HIDE DEF ok, ev0, ev1, P
<1>7. ev \in Seq(P)
  BY <1>4, <1>5, ConcatProperties
<1>8. uiQueue' = uiQueue \o ev
  BY <1>1, <1>6, ConcatAssociative, ConcatProperties DEF ok, ev0, ev1
<1>9. r.plugin.state = "Running" => timers[s] \in InternalTicking(s, r)
  BY <1>3 DEF IInv, InternalTicking, Changed, RunningIsPolled, DebugStateIsPlugins,
              FileTargetRequest
<1>10. /\ timers' = [timers EXCEPT ![s] = timers[s]]
       /\ slots' = [slots EXCEPT ![s] = Tail(slots[s])]
       /\ Tail(slots[s]) \in Seq(Slot)
       /\ Live(s)
  BY <1>2, HeadTailProperties DEF FileTargetRequest, IInv, TypeOK
<1>11. InternalTicking(s, r) \in SUBSET (Nat \ {0})
  BY InternalTickingType
<1>12. /\ plugin' = [plugin EXCEPT ![s] = r.plugin]
       /\ debugState' = [debugState EXCEPT ![s] = r.plugin.state]
       /\ UNCHANGED <<registered, ui, afterClose, backend, opened, hooked, view,
                      announced, thread>>
  BY <1>1 DEF FileTargetRequest, InternalUpdate
<1>13. ev \in Seq(PostedEvent(s, r.plugin))
  BY <1>7 DEF P
<1> HIDE DEF ev
<1> QED
  BY <1>1, <1>2, <1>3, <1>8, <1>9, <1>10, <1>11, <1>12, <1>13, SessionStep

\* A poll: the timer that is m_timer stays active as long as the plugin is running.
LEMMA TimeoutIInv ==
    ASSUME IInv, NEW s \in Session, Timeout(s)
    PROVE  IInv'
<1>1. PICK r \in UpdateResults(plugin[s], "None", "none") :
         /\ InternalUpdate(s, r)
         /\ ticking' = [ticking EXCEPT ![s] = InternalTicking(s, r)]
         /\ uiQueue' = uiQueue \o InternalSignals(s, r) \o CurrentPc(s, r)
  BY DEF Timeout
<1>2. plugin[s] \in Plugin /\ slots[s] \in Seq(Slot) /\ timers[s] \in Nat
  BY DEF IInv, TypeOK
<1>3. /\ r.plugin \in Plugin /\ r.plugin.target = plugin[s].target
      /\ r.plugin.state = "Running" => plugin[s].state = "Running"
  BY <1>1, <1>2, UpdateFacts DEF PDAction, Request
<1> DEFINE ev0 == InternalSignals(s, r)
           ev1 == CurrentPc(s, r)
           P   == PostedEvent(s, r.plugin)
<1>4. ev0 \in Seq(P) /\ ev1 \in Seq(P)
  BY <1>3, SignalsPosted
<1>5. uiQueue \in Seq(UiEvent) /\ ev0 \in Seq(UiEvent) /\ ev1 \in Seq(UiEvent)
  BY <1>4, SeqMonotonic DEF IInv, TypeOK, PostedEvent
<1> HIDE DEF ev0, ev1, P
<1>6. ev0 \o ev1 \in Seq(P)
  BY <1>4, ConcatProperties
<1>7. uiQueue' = uiQueue \o (ev0 \o ev1)
  BY <1>1, <1>5, ConcatAssociative DEF ev0, ev1
<1>8. r.plugin.state = "Running" => timers[s] \in InternalTicking(s, r)
  BY <1>3 DEF IInv, InternalTicking, Changed, RunningIsPolled, DebugStateIsPlugins, Timeout
<1>9. /\ timers' = [timers EXCEPT ![s] = timers[s]]
      /\ slots' = [slots EXCEPT ![s] = slots[s]]
      /\ Live(s)
      /\ timers[s] > 0 => r.plugin.target # "none"
  BY <1>3 DEF Timeout, IInv, TypeOK, RunAfterTarget
<1>10. InternalTicking(s, r) \in SUBSET (Nat \ {0})
  BY InternalTickingType
<1>11. /\ plugin' = [plugin EXCEPT ![s] = r.plugin]
       /\ debugState' = [debugState EXCEPT ![s] = r.plugin.state]
       /\ UNCHANGED <<registered, ui, afterClose, backend, opened, hooked, view,
                      announced, thread>>
  BY <1>1 DEF Timeout, InternalUpdate
<1>12. ev0 \o ev1 \in Seq(PostedEvent(s, r.plugin))
  BY <1>6 DEF P
<1> QED
  BY <1>1, <1>2, <1>3, <1>7, <1>8, <1>9, <1>10, <1>11, <1>12, SessionStep

\* A start: it comes after the request of its own session, and starts the new m_timer.
LEMMA StartIInv ==
    ASSUME IInv, NEW s \in Session, Start(s)
    PROVE  IInv'
<1>1. plugin[s] \in Plugin /\ slots[s] \in Seq(Slot) /\ timers[s] \in Nat
  BY DEF IInv, TypeOK
<1>2. plugin[s].target # "none"
  <2>1. Head(slots[s]) \in ExpectedSlot(s)
    BY HeadTailProperties DEF IInv, SlotsExpected, Start
  <2> QED  BY <2>1 DEF ExpectedSlot, Asked, Start
<1>3. /\ slots' = [slots EXCEPT ![s] = Tail(slots[s])]
      /\ Tail(slots[s]) \in Seq(Slot)
      /\ Live(s)
      /\ UNCHANGED <<registered, ui, afterClose, backend, opened, hooked, view,
                     announced, thread>>
  BY <1>1, HeadTailProperties DEF Start
<1>4. CASE debugState[s] = "Running"
  <2>1. /\ plugin' = [plugin EXCEPT ![s] = plugin[s]]
        /\ debugState' = [debugState EXCEPT ![s] = plugin[s].state]
        /\ timers' = [timers EXCEPT ![s] = timers[s]]
        /\ ticking' = [ticking EXCEPT ![s] = ticking[s]]
        /\ uiQueue' = uiQueue
    BY <1>4 DEF Start, IInv, TypeOK, DebugStateIsPlugins
  <2>2. uiQueue' = uiQueue \o << >> /\ << >> \in Seq(PostedEvent(s, plugin[s]))
    BY <2>1, ConcatEmptySeq, EmptySeq DEF IInv, TypeOK
  <2>3. ticking[s] \in SUBSET (Nat \ {0}) /\ (plugin[s].state = "Running" => timers[s] \in ticking[s])
    BY <1>3 DEF IInv, TypeOK, RunningIsPolled, DebugStateIsPlugins
  <2> QED
    BY <1>1, <1>2, <1>3, <2>1, <2>2, <2>3, SessionStep
<1>5. CASE debugState[s] # "Running"
  <2>1. PICK r \in UpdateResults(plugin[s], "Run", "none") :
           /\ InternalUpdate(s, r)
           /\ timers' = [timers EXCEPT ![s] = timers[s] + 1]
           /\ ticking' = [ticking EXCEPT ![s] = InternalTicking(s, r) \union NewTimer(s)]
           /\ uiQueue' = uiQueue \o InternalSignals(s, r)
    BY <1>5 DEF Start
  <2>2. r.plugin \in Plugin /\ r.plugin.target = plugin[s].target
    BY <1>1, <2>1, UpdateFacts DEF PDAction, Request
  <2>3. /\ plugin' = [plugin EXCEPT ![s] = r.plugin]
        /\ debugState' = [debugState EXCEPT ![s] = r.plugin.state]
    BY <2>1 DEF InternalUpdate
  <2>4. InternalSignals(s, r) \in Seq(PostedEvent(s, r.plugin))
    BY <2>2, SignalsPosted
  <2> DEFINE T == InternalTicking(s, r) \union NewTimer(s)
  <2>5. T \in SUBSET (Nat \ {0}) /\ timers[s] + 1 \in T /\ timers[s] + 1 \in Nat
    BY <1>1, InternalTickingType DEF NewTimer
  <2> HIDE DEF T
  <2>6. ticking' = [ticking EXCEPT ![s] = T]
    BY <2>1 DEF T
  <2> QED
    BY <1>1, <1>2, <1>3, <2>1, <2>2, <2>3, <2>4, <2>5, <2>6, SessionStep
<1> QED
  BY <1>4, <1>5

\* What the debuggee does between two updates leaves the plugin's state.
LEMMA DebuggeeIInv ==
    ASSUME IInv, NEW s \in Session, DebuggeeStops(s) \/ DebuggeeExits(s)
    PROVE  IInv'
<1>1. /\ plugin[s] \in Plugin
      /\ timers[s] \in Nat /\ ticking[s] \in SUBSET (Nat \ {0}) /\ slots[s] \in Seq(Slot)
  BY DEF IInv, TypeOK
<1>2. PICK p \in Plugin : /\ p.state = plugin[s].state /\ p.target = plugin[s].target
                          /\ plugin' = [plugin EXCEPT ![s] = p]
  BY <1>1, HaltedFacts DEF DebuggeeStops, DebuggeeExits
<1>3. /\ debugState' = [debugState EXCEPT ![s] = p.state]
      /\ timers' = [timers EXCEPT ![s] = timers[s]]
      /\ ticking' = [ticking EXCEPT ![s] = ticking[s]]
      /\ slots' = [slots EXCEPT ![s] = slots[s]]
      /\ uiQueue' = uiQueue /\ Live(s)
      /\ UNCHANGED <<registered, ui, afterClose, backend, opened, hooked, view,
                     announced, thread>>
  BY <1>2 DEF IInv, TypeOK, DebugStateIsPlugins, DebuggeeStops, DebuggeeExits, uiVars
<1>4. uiQueue' = uiQueue \o << >> /\ << >> \in Seq(PostedEvent(s, p))
  BY <1>3, ConcatEmptySeq, EmptySeq DEF IInv, TypeOK
<1>5. /\ p.state = "Running" => timers[s] \in ticking[s]
      /\ timers[s] > 0 => p.target # "none"
      /\ plugin[s].target # "none" => p.target # "none"
  BY <1>2, <1>3 DEF IInv, RunningIsPolled, RunAfterTarget, DebugStateIsPlugins
<1> QED
  BY <1>1, <1>2, <1>3, <1>4, <1>5, SessionStep

\* The session is deleted with its slots: its start can no longer happen.
LEMMA ThreadFinishedIInv ==
    ASSUME IInv, NEW s \in Session, ThreadFinished(s)
    PROVE  IInv'
<1> USE DEF IInv
<1>1. /\ thread'[s] = "finished" /\ slots'[s] = << >> /\ ticking'[s] = {}
      /\ \A x \in Session \ {s} :
            thread'[x] = thread[x] /\ slots'[x] = slots[x] /\ ticking'[x] = ticking[x]
      /\ UNCHANGED <<registered, ui, afterClose, backend, opened, hooked, view,
                     announced, debugState, timers, plugin>>
  BY DEF ThreadFinished, TypeOK
<1>2. s = backend /\ ui = "closing" /\ backend # NoSession /\ s <= opened
  BY DEF ThreadFinished, OneLiveSession, Live, SessionsInOrder, Session, NoSession
<1>3. ExpectedEvent \subseteq ExpectedEvent'
  BY <1>1, <1>2 DEF ExpectedEvent
<1>4. SessionEnded(s) \in ExpectedEvent'
  BY DEF SessionEnded, Event, ExpectedEvent, UiEvent
<1>5. EventsExpected'
  <2>1. uiQueue \in Seq(ExpectedEvent')
    BY <1>3, SeqMonotonic DEF EventsExpected
  <2> DEFINE E == ExpectedEvent'
             e == SessionEnded(s)
  <2>2. uiQueue \in Seq(E) /\ e \in E /\ uiQueue' = Append(uiQueue, e)
    BY <1>4, <2>1 DEF ThreadFinished
  <2> HIDE DEF E, e
  <2>3. uiQueue' \in Seq(E)
    BY <2>2
  <2> QED  BY <2>3 DEF EventsExpected, E
<1>6. SlotsExpected'
  <2>1. slots'[s] \in Seq(ExpectedSlot(s)')
    BY <1>1, EmptySeq
  <2>2. ASSUME NEW x \in Session \ {s} PROVE slots'[x] \in Seq(ExpectedSlot(x)')
    BY <1>1 DEF SlotsExpected, ExpectedSlot, Asked
  <2> QED  BY <2>1, <2>2 DEF SlotsExpected
<1>7. TypeOK'
  <2>1. uiQueue' \in Seq(UiEvent)
    BY <1>5, SeqMonotonic DEF EventsExpected, ExpectedEvent
  <2> QED  BY <1>1, <2>1 DEF TypeOK, ThreadFinished
<1>8. OneLiveSession' /\ ClosingHasBackend'
  BY <1>1, <1>2 DEF OneLiveSession, ClosingHasBackend, Live
<1>9. RunAfterTarget' /\ DebugStateIsPlugins'
  BY <1>1 DEF RunAfterTarget, DebugStateIsPlugins
<1>10. RunningIsPolled'
  BY <1>1 DEF RunningIsPolled, Live
<1>11. SessionsInOrder'
  <2>1. \A x \in Session : x > opened => Pristine(x)'
    <3> SUFFICES ASSUME NEW x \in Session, x > opened PROVE Pristine(x)'
      OBVIOUS
    <3>1. x \in Session \ {s}
      BY <1>2 DEF TypeOK, Session
    <3>2. Pristine(x)
      BY DEF SessionsInOrder
    <3> QED  BY <1>1, <3>1, <3>2 DEF Pristine
  <2> QED  BY <1>1, <2>1 DEF SessionsInOrder
<1> QED
  BY <1>5, <1>6, <1>7, <1>8, <1>9, <1>10, <1>11

-----------------------------------------------------------------------------
(* Opening and closing.                                                     *)

\* The step that begins a close.
LEMMA CloseStep ==
    ASSUME IInv, ui = "idle", backend # NoSession,
           NEW next \in {"nothing", "open", "exit"}, next = "open" => opened < MaxSessions,
           BeginClose(next), uiQueue' \in Seq(ExpectedEvent),
           UNCHANGED <<registered, backend, opened, hooked, view, announced,
                       slots, debugState, timers, ticking, plugin>>
    PROVE  IInv'
<1> USE DEF IInv
<1>1. /\ ui' = "closing" /\ afterClose' = next
      /\ backend \in Session /\ thread[backend] = "running"
      /\ thread'[backend] = "quitting"
      /\ \A x \in Session \ {backend} : thread'[x] = thread[x]
      /\ thread' \in [Session -> {"none", "running", "quitting", "finished"}]
  BY DEF BeginClose, TypeOK, OneLiveSession
<1>2. ExpectedEvent \subseteq ExpectedEvent'
  BY <1>1 DEF ExpectedEvent
<1>3. EventsExpected'
  BY <1>2, SeqMonotonic DEF EventsExpected
<1>4. SlotsExpected'
  BY DEF SlotsExpected, ExpectedSlot, Asked
<1>5. TypeOK'
  BY <1>1, ExpectedIsUiEvent DEF TypeOK
<1>6. OneLiveSession'
  BY <1>1 DEF OneLiveSession, Live
<1>7. RunAfterTarget' /\ DebugStateIsPlugins' /\ ClosingHasBackend'
  BY <1>1 DEF RunAfterTarget, DebugStateIsPlugins, ClosingHasBackend
<1>8. RunningIsPolled'
  BY <1>1 DEF RunningIsPolled, Live
<1>9. SessionsInOrder'
  <2>1. \A x \in Session : x > opened => Pristine(x)'
    BY <1>1 DEF SessionsInOrder, Pristine
  <2> QED  BY <2>1 DEF SessionsInOrder
<1> QED
  BY <1>3, <1>4, <1>5, <1>6, <1>7, <1>8, <1>9

\* The step that opens a session while none is live.
LEMMA OpenStep ==
    ASSUME IInv, opened < MaxSessions, \A s \in Session : ~Live(s), OpenSession,
           ui' = "idle", afterClose' = "nothing", hooked' \in BOOLEAN,
           uiQueue' \in Seq({e \in ExpectedEvent : e.event # "program_counter_changed"}),
           UNCHANGED <<registered, view, announced, debugState, timers, ticking, plugin>>
    PROVE  IInv'
<1> USE DEF IInv
<1>1. opened \in 0..MaxSessions /\ MaxSessions \in Nat
  BY MaxSessionsAssumption DEF TypeOK
<1>2. uiQueue' \in Seq(UiEvent)
  BY SeqMonotonic DEF ExpectedEvent
<1>3. RunAfterTarget' /\ DebugStateIsPlugins'
  BY DEF RunAfterTarget, DebugStateIsPlugins
<1>4. CASE "LLDB" \in registered
  <2>0. PICK n \in Session : n = opened + 1
    BY <1>1 DEF Session
  <2>1. /\ n \in Session /\ Pristine(n) /\ n # NoSession
        /\ backend' = n /\ opened' = n
        /\ thread'[n] = "running" /\ slots'[n] = SetupSlots
        /\ \A x \in Session \ {n} : thread'[x] = thread[x] /\ slots'[x] = slots[x]
        /\ thread' \in [Session -> {"none", "running", "quitting", "finished"}]
        /\ slots' = [slots EXCEPT ![n] = SetupSlots]
    <3>1. n > opened /\ n # NoSession
      BY <1>1, <2>0 DEF NoSession
    <3>2. /\ backend' = n /\ opened' = n
          /\ thread' = [thread EXCEPT ![n] = "running"]
          /\ slots' = [slots EXCEPT ![n] = SetupSlots]
      BY <1>4, <2>0 DEF OpenSession
    <3>3. Pristine(n)
      BY <3>1 DEF SessionsInOrder
    <3> QED  BY <3>1, <3>2, <3>3 DEF TypeOK
  <2>2. SetupSlots \in Seq(Slot) /\ SetupSlots # << >> /\ Head(SetupSlots) = "file_target_request"
    BY DEF SetupSlots, Slot
  <2>3. Asked(n)'
    BY <2>1, <2>2 DEF Asked
  <2>4. {e \in ExpectedEvent : e.event # "program_counter_changed"} \subseteq ExpectedEvent'
    BY <2>1, <2>3 DEF ExpectedEvent
  <2>5. EventsExpected'
    BY <2>4, SeqMonotonic DEF EventsExpected
  <2>6. SlotsExpected'
    <3>1. SetupSlots \in Seq(ExpectedSlot(n)')
      BY <2>3 DEF SetupSlots, Slot, ExpectedSlot
    <3>2. ASSUME NEW x \in Session \ {n} PROVE slots'[x] \in Seq(ExpectedSlot(x)')
      BY <2>1 DEF SlotsExpected, ExpectedSlot, Asked
    <3> QED  BY <2>1, <3>1, <3>2 DEF SlotsExpected
  <2>7. TypeOK'
    <3>1. slots' \in [Session -> Seq(Slot)]
      BY <2>1, <2>2 DEF TypeOK
    <3>2. opened' \in 0..MaxSessions
      BY <1>1, <2>1 DEF Session
    <3> QED  BY <1>2, <2>1, <3>1, <3>2 DEF TypeOK
  <2>8. OneLiveSession'
    BY <2>1 DEF OneLiveSession, Live
  <2>9. RunningIsPolled'
    BY <2>1 DEF RunningIsPolled, Live, Pristine
  <2>10. ClosingHasBackend'
    BY DEF ClosingHasBackend
  <2>11. SessionsInOrder'
    <3>1. \A x \in Session : x > n => Pristine(x)'
      <4> SUFFICES ASSUME NEW x \in Session, x > n PROVE Pristine(x)'
        OBVIOUS
      <4>1. x \in Session \ {n} /\ x > opened
        BY <1>1, <2>0 DEF Session
      <4>2. Pristine(x)
        BY <4>1 DEF SessionsInOrder
      <4> QED  BY <2>1, <4>1, <4>2 DEF Pristine
    <3>2. backend' <= opened'
      BY <1>1, <2>1 DEF Session
    <3> QED  BY <2>1, <3>1, <3>2 DEF SessionsInOrder
  <2> QED
    BY <1>3, <2>5, <2>6, <2>7, <2>8, <2>9, <2>10, <2>11
<1>5. CASE "LLDB" \notin registered
  <2>1. backend' = NoSession /\ UNCHANGED <<opened, thread, slots>>
    BY <1>5 DEF OpenSession
  <2>2. {e \in ExpectedEvent : e.event # "program_counter_changed"} \subseteq ExpectedEvent'
    BY <2>1 DEF ExpectedEvent
  <2>3. EventsExpected'
    BY <2>2, SeqMonotonic DEF EventsExpected
  <2>4. SlotsExpected'
    BY <2>1 DEF SlotsExpected, ExpectedSlot, Asked
  <2>5. TypeOK'
    BY <1>2, <2>1 DEF TypeOK
  <2>6. OneLiveSession' /\ RunningIsPolled' /\ ClosingHasBackend'
    BY <2>1 DEF OneLiveSession, RunningIsPolled, ClosingHasBackend, Live
  <2>7. SessionsInOrder'
    <3>1. backend' <= opened'
      BY <1>1, <2>1 DEF NoSession
    <3>2. \A x \in Session : x > opened => Pristine(x)'
      BY <2>1 DEF SessionsInOrder, Pristine
    <3> QED  BY <2>1, <3>1, <3>2 DEF SessionsInOrder
  <2> QED
    BY <1>3, <2>3, <2>4, <2>5, <2>6, <2>7
<1> QED
  BY <1>4, <1>5

\* With no current session, no posted event is a location.
LEMMA NoSessionNoLocations ==
    ASSUME IInv, backend = NoSession
    PROVE  uiQueue \in Seq({e \in ExpectedEvent : e.event # "program_counter_changed"})
<1>1. ExpectedEvent \subseteq {e \in ExpectedEvent : e.event # "program_counter_changed"}
  BY DEF ExpectedEvent
<1> QED  BY <1>1, SeqMonotonic DEF IInv, EventsExpected

\* The menu entry opens the first session, or begins the close of the current one.
LEMMA OpenDebugExecutableIInv == IInv /\ OpenDebugExecutable => IInv'
<1> SUFFICES ASSUME IInv, OpenDebugExecutable PROVE IInv'
  OBVIOUS
<1>1. ui = "idle" /\ opened < MaxSessions
  BY DEF OpenDebugExecutable
<1>2. CASE backend = NoSession
  <2>1. /\ OpenSession /\ ui' = "idle" /\ afterClose' = "nothing"
        /\ hooked' \in BOOLEAN /\ uiQueue' = uiQueue
        /\ UNCHANGED <<registered, view, announced, debugState, timers, ticking, plugin>>
    BY <1>1, <1>2 DEF OpenDebugExecutable, IInv, TypeOK, ClosingHasBackend
  <2>2. \A s \in Session : ~Live(s)
    BY <1>2 DEF IInv, OneLiveSession, Session, NoSession
  <2>3. uiQueue' \in Seq({e \in ExpectedEvent : e.event # "program_counter_changed"})
    BY <1>2, <2>1, NoSessionNoLocations
  <2> QED  BY <1>1, <2>1, <2>2, <2>3, OpenStep
<1>3. CASE backend # NoSession
  <2>1. /\ BeginClose("open") /\ uiQueue' \in Seq(ExpectedEvent)
        /\ UNCHANGED <<registered, backend, opened, hooked, view, announced,
                       slots, debugState, timers, ticking, plugin>>
    BY <1>3 DEF OpenDebugExecutable, IInv, EventsExpected
  <2> QED  BY <1>1, <1>3, <2>1, CloseStep
<1> QED
  BY <1>2, <1>3

\* A refused target begins the close of the current session.
LEMMA TargetRefusedIInv == IInv /\ TargetRefused => IInv'
<1> SUFFICES ASSUME IInv, TargetRefused PROVE IInv'
  OBVIOUS
<1>1. uiQueue' \in Seq(ExpectedEvent) /\ ui = "idle"
  BY NextUiEventFacts DEF TargetRefused
<1>2. CASE backend = NoSession
  <2>1. /\ UNCHANGED <<registered, ui, afterClose, backend, opened, hooked, sesVars>>
        /\ view' \in [session : Session \union {NoSession}, stop : Nat]
        /\ announced' \subseteq Session
    BY <1>2 DEF TargetRefused, sesVars, IInv, TypeOK
  <2> QED  BY <1>1, <2>1, ViewStep
<1>3. CASE backend # NoSession
  <2>1. /\ BeginClose("nothing")
        /\ UNCHANGED <<registered, backend, opened, hooked, view, announced,
                       slots, debugState, timers, ticking, plugin>>
    BY <1>3 DEF TargetRefused
  <2> QED  BY <1>1, <1>3, <2>1, CloseStep
<1> QED
  BY <1>2, <1>3

\* wait() has returned: the closed session is gone and the next one may be opened.
LEMMA CloseFinishedIInv == IInv /\ CloseFinished => IInv'
<1> SUFFICES ASSUME IInv, CloseFinished PROVE IInv'
  OBVIOUS
<1>1. /\ ui = "closing" /\ thread[backend] = "finished"
      /\ uiQueue' = WithdrawRequestsEvents(uiQueue)
      /\ hooked' = FALSE /\ afterClose' = "nothing"
      /\ UNCHANGED <<registered, view, announced, debugState, timers, ticking, plugin>>
  BY DEF CloseFinished, WaitReturns
<1>2. \A s \in Session : ~Live(s)
  BY <1>1 DEF IInv, OneLiveSession, Live
<1> DEFINE E == {e \in ExpectedEvent : e.event # "program_counter_changed"}
<1>3. uiQueue' \in Seq(E)
  <2>1. uiQueue \in Seq(ExpectedEvent)
    BY DEF IInv, EventsExpected
  <2>2. ASSUME NEW i \in 1..Len(uiQueue)
        PROVE  (IF uiQueue[i].event = "target_reply" THEN uiQueue[i] ELSE NoEvent) \in E
    <3>1. uiQueue[i] \in ExpectedEvent
      BY <2>1
    <3>2. NoEvent \in E
      BY DEF NoEvent, Event, ExpectedEvent, UiEvent
    <3> QED  BY <3>1, <3>2
  <2>3. Len(uiQueue) \in Nat
    BY <2>1
  <2> HIDE DEF E
  <2> QED  BY <1>1, <2>2, <2>3 DEF WithdrawRequestsEvents
<1>4. CASE afterClose = "open"
  <2>1. OpenSession /\ ui' = "idle" /\ opened < MaxSessions
    BY <1>4 DEF CloseFinished, IInv, ClosingHasBackend
  <2> QED  BY <1>1, <1>2, <1>3, <2>1, OpenStep
<1>5. CASE afterClose # "open"
  <2>1. /\ ui' \in {"idle", "exited"} /\ backend' = NoSession
        /\ UNCHANGED <<opened, thread, slots>>
    BY <1>5 DEF CloseFinished
  <2>2. E \subseteq ExpectedEvent'
    BY <2>1 DEF ExpectedEvent
  <2>3. EventsExpected'
    BY <1>3, <2>2, SeqMonotonic DEF EventsExpected
  <2>4. SlotsExpected'
    BY <1>1, <2>1 DEF IInv, SlotsExpected, ExpectedSlot, Asked
  <2>5. TypeOK'
    <3>1. uiQueue' \in Seq(UiEvent)
      BY <1>3, SeqMonotonic DEF ExpectedEvent
    <3> QED  BY <1>1, <2>1, <3>1 DEF IInv, TypeOK
  <2>6. OneLiveSession' /\ RunningIsPolled'
    BY <1>2, <2>1 DEF OneLiveSession, RunningIsPolled, Live
  <2>7. RunAfterTarget' /\ DebugStateIsPlugins' /\ ClosingHasBackend'
    BY <1>1, <2>1 DEF IInv, RunAfterTarget, DebugStateIsPlugins, ClosingHasBackend
  <2>8. SessionsInOrder'
    BY <1>1, <2>1 DEF IInv, TypeOK, SessionsInOrder, Pristine, NoSession
  <2> QED  BY <2>3, <2>4, <2>5, <2>6, <2>7, <2>8 DEF IInv
<1> QED
  BY <1>4, <1>5

\* The window exits, or begins the close of the current session.
LEMMA CloseWindowIInv == IInv /\ CloseWindow => IInv'
<1> SUFFICES ASSUME IInv, CloseWindow PROVE IInv'
  OBVIOUS
<1> USE DEF IInv
<1>1. ui = "idle" /\ uiQueue' = uiQueue
  BY DEF CloseWindow
<1>2. CASE backend # NoSession
  <2>1. /\ BeginClose("exit") /\ uiQueue' \in Seq(ExpectedEvent)
        /\ UNCHANGED <<registered, backend, opened, hooked, view, announced,
                       slots, debugState, timers, ticking, plugin>>
    BY <1>2 DEF CloseWindow, EventsExpected
  <2> HIDE DEF IInv
  <2> QED  BY <1>1, <1>2, <2>1, CloseStep
<1>3. CASE backend = NoSession
  <2>1. /\ ui' = "exited"
        /\ UNCHANGED <<registered, afterClose, backend, opened, uiQueue, hooked, view,
                       announced, thread, slots, debugState, timers, ticking, plugin>>
    BY <1>3 DEF CloseWindow
  <2>2. ExpectedEvent \subseteq ExpectedEvent'
    BY <1>3, <2>1 DEF ExpectedEvent
  <2>3. EventsExpected'
    BY <2>1, <2>2, SeqMonotonic DEF EventsExpected
  <2>4. SlotsExpected'
    BY <2>1 DEF SlotsExpected, ExpectedSlot, Asked
  <2>5. TypeOK'
    BY <2>1 DEF TypeOK
  <2>6. OneLiveSession' /\ RunningIsPolled' /\ RunAfterTarget' /\ DebugStateIsPlugins'
    BY <1>3, <2>1 DEF OneLiveSession, RunningIsPolled, RunAfterTarget, DebugStateIsPlugins, Live
  <2>7. ClosingHasBackend'
    BY <1>1, <2>1 DEF ClosingHasBackend
  <2>8. SessionsInOrder'
    BY <2>1 DEF SessionsInOrder, Pristine
  <2> QED  BY <2>3, <2>4, <2>5, <2>6, <2>7, <2>8
<1> QED
  BY <1>2, <1>3

\* A reply starts the session that is current, and that one is Asked.
LEMMA TargetAcceptedIInv == IInv /\ TargetAccepted => IInv'
<1> SUFFICES ASSUME IInv, TargetAccepted PROVE IInv'
  OBVIOUS
<1>1. /\ uiQueue' \in Seq(ExpectedEvent) /\ ui = "idle"
      /\ Head(uiQueue) \in ExpectedEvent /\ Head(uiQueue).event = "target_reply"
  BY NextUiEventFacts DEF TargetAccepted
<1>2. CASE backend = NoSession
  <2>1. /\ UNCHANGED <<registered, ui, afterClose, backend, opened, hooked, sesVars>>
        /\ view' \in [session : Session \union {NoSession}, stop : Nat]
        /\ announced' \subseteq Session
    BY <1>2 DEF TargetAccepted, sesVars, IInv, TypeOK
  <2> QED  BY <1>1, <2>1, ViewStep
<1>3. CASE backend # NoSession
  <2> USE DEF IInv
  <2>1. PICK s \in Session : s = backend
    BY <1>3 DEF TypeOK
  <2>2. /\ slots' = [slots EXCEPT ![s] = Append(slots[s], "start")] /\ hooked' = TRUE
        /\ UNCHANGED <<registered, ui, afterClose, backend, opened, view, announced,
                       thread, debugState, timers, ticking, plugin>>
    BY <1>3, <2>1 DEF TargetAccepted
  <2>3. Asked(s)
    BY <1>1, <1>3, <2>1 DEF ExpectedEvent
  <2>4. /\ slots[s] \in Seq(Slot) /\ "start" \in Slot
        /\ slots'[s] = Append(slots[s], "start")
        /\ \A x \in Session \ {s} : slots'[x] = slots[x]
    BY <2>2 DEF TypeOK, Slot
  <2>5. Asked(s)'
    <3>1. slots[s] # << >> => slots'[s] # << >> /\ Head(slots'[s]) = Head(slots[s])
      BY <2>4
    <3> QED  BY <2>2, <2>3, <3>1 DEF Asked
  <2>6. EventsExpected'
    <3>1. ExpectedEvent \subseteq ExpectedEvent'
      BY <2>1, <2>2, <2>5 DEF ExpectedEvent
    <3> QED  BY <1>1, <3>1, SeqMonotonic DEF EventsExpected
  <2>7. SlotsExpected'
    <3>1. slots'[s] \in Seq(ExpectedSlot(s)')
      <4>1. Slot \subseteq ExpectedSlot(s)'
        BY <2>5 DEF ExpectedSlot
      <4>2. slots'[s] \in Seq(Slot)
        BY <2>4
      <4> QED  BY <4>1, <4>2, SeqMonotonic
    <3>2. ASSUME NEW x \in Session \ {s} PROVE slots'[x] \in Seq(ExpectedSlot(x)')
      BY <2>2, <2>4 DEF SlotsExpected, ExpectedSlot, Asked
    <3> QED  BY <3>1, <3>2 DEF SlotsExpected
  <2>8. TypeOK'
    <3>1. slots' \in [Session -> Seq(Slot)]
      BY <2>2, <2>4 DEF TypeOK
    <3>2. uiQueue' \in Seq(UiEvent)
      BY <1>1, ExpectedIsUiEvent
    <3> QED  BY <2>2, <3>1, <3>2 DEF TypeOK
  <2>9. OneLiveSession' /\ RunningIsPolled' /\ RunAfterTarget' /\ DebugStateIsPlugins'
    BY <2>2 DEF OneLiveSession, RunningIsPolled, RunAfterTarget, DebugStateIsPlugins, Live
  <2>10. ClosingHasBackend'
    BY <2>2 DEF ClosingHasBackend
  <2>11. SessionsInOrder'
    <3>1. s <= opened /\ opened \in Nat /\ s \in Nat
      BY <2>1 DEF SessionsInOrder, TypeOK, Session
    <3>2. \A x \in Session : x > opened => Pristine(x)'
      <4> SUFFICES ASSUME NEW x \in Session, x > opened PROVE Pristine(x)'
        OBVIOUS
      <4>1. x \in Session \ {s} /\ Pristine(x)
        BY <3>1 DEF SessionsInOrder, Session
      <4> QED  BY <2>2, <2>4, <4>1 DEF Pristine
    <3> QED  BY <2>2, <3>2 DEF SessionsInOrder
  <2> QED  BY <2>6, <2>7, <2>8, <2>9, <2>10, <2>11
<1> QED
  BY <1>2, <1>3

-----------------------------------------------------------------------------
(* The theorems.                                                            *)

\* Every step keeps the invariant.
LEMMA NextIInv == IInv /\ [Next]_vars => IInv'
<1> SUFFICES ASSUME IInv, [Next]_vars PROVE IInv'
  OBVIOUS
<1>1. CASE UiThread
  BY <1>1, OpenDebugExecutableIInv, CloseWindowIInv, CloseFinishedIInv, TargetAcceptedIInv,
     TargetRefusedIInv, RequestsSignalIInv, SkipWithdrawnIInv DEF UiThread
<1>2. ASSUME NEW s \in Session, BackendThread(s)
      PROVE  IInv'
  BY <1>2, FileTargetRequestIInv, StartIInv, TimeoutIInv, ThreadFinishedIInv DEF BackendThread
<1>3. ASSUME NEW s \in Session, DebuggeeStops(s) \/ DebuggeeExits(s)
      PROVE  IInv'
  BY <1>3, DebuggeeIInv
<1>4. CASE UNCHANGED vars
  <2>1. /\ UNCHANGED <<registered, ui, afterClose, backend, opened, hooked, sesVars>>
        /\ uiQueue' = uiQueue /\ view' = view /\ announced' = announced
    BY <1>4 DEF vars, uiVars
  <2> QED  BY <2>1, ViewStep DEF IInv, TypeOK, EventsExpected
<1> QED
  BY <1>1, <1>2, <1>3, <1>4 DEF Next

\* The invariant the theorems below are read from.
THEOREM Invariance == Spec => []IInv
  BY InitIInv, NextIInv, PTL DEF Spec

\* Every variable keeps its type; no null timer is ever started.
THEOREM TypeCorrect == Spec => []TypeOK
<1>1. IInv => TypeOK
  BY DEF IInv
<1> QED  BY <1>1, Invariance, PTL

\* MainWindow::close_current_backend: no backend thread outlives the window's hold
\* on it, and the window holds no deleted session once a close is over.
THEOREM OneLive == Spec => []OneLiveSession
<1>1. IInv => OneLiveSession
  BY DEF IInv
<1> QED  BY <1>1, Invariance, PTL

\* BackendSession::start reaches the plugin only after a file_target_request did,
\* although the reply that causes it may be another session's.
THEOREM RunAfter == Spec => []RunAfterTarget
<1>1. IInv => RunAfterTarget
  BY DEF IInv
<1> QED  BY <1>1, Invariance, PTL

\* internal_update and start: a running debuggee's m_timer is active.
THEOREM Polled == Spec => []RunningIsPolled
<1>1. IInv => RunningIsPolled
  BY DEF IInv
<1> QED  BY <1>1, Invariance, PTL

\* The source view only moves to locations of the session that is current.
THEOREM ViewFollows == Spec => ViewFollowsSession
<1>1. IInv /\ [Next]_vars => [view' # view => view'.session = backend]_vars
  <2> SUFFICES ASSUME IInv, Next, view' # view PROVE view'.session = backend
    BY DEF vars, uiVars
  <2>1. RequestsSignal
    BY DEF Next, UiThread, BackendThread, OpenDebugExecutable, CloseWindow, CloseFinished,
           TargetAccepted, TargetRefused, SkipWithdrawn, FileTargetRequest, Start, Timeout,
           ThreadFinished, DebuggeeStops, DebuggeeExits, uiVars
  <2>2. PICK e \in {"program_counter_changed", "session_ended"} :
           /\ NextUiEvent(e)
           /\ view' = IF e = "program_counter_changed" /\ hooked
                      THEN [session |-> Head(uiQueue).session, stop |-> Head(uiQueue).stop]
                      ELSE view
    BY <2>1 DEF RequestsSignal
  <2>3. e = "program_counter_changed" /\ view'.session = Head(uiQueue).session
    BY <2>2
  <2> QED  BY <2>2, <2>3, NextUiEventFacts DEF ExpectedEvent
<1> QED  BY <1>1, Invariance, PTL DEF Spec, ViewFollowsSession
=============================================================================
