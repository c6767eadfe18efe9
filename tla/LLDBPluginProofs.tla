-------------------------- MODULE LLDBPluginProofs --------------------------
(***************************************************************************)
(* Theorems about LLDBPlugin, for any number of threads, of events and of  *)
(* stops: what the plugin reports as a stop is the stop the process is at, *)
(* with the first thread that has a reason.  IInv carries them.            *)
(***************************************************************************)
EXTENDS LLDBPlugin, SequenceTheorems, TLAPS

-----------------------------------------------------------------------------
(* The inductive invariant.                                                 *)

Pending == \E i \in 1..Len(events) : events[i] = "stopped"

\* The first thread with a reason among the first n, if there is one.
FirstAmong(n) ==
    /\ selected \in 1..n
    /\ reasons[selected] # "none"
    /\ \A i \in 1..(selected - 1) : reasons[i] = "none"

NoneAmong(n) == \A i \in 1..n : reasons[i] = "none"

\* The types, with a bound on the replies that says how far the call has got.
Types ==
    /\ state \in PDDebugState
    /\ target \in Target
    /\ selected \in Thread \union {NoThread}
    /\ process \in {"none", "running", "stopped", "exited"}
    /\ reasons \in Seq(StopReason) /\ Len(reasons) <= MaxThreads
    /\ events \in Seq(ListenerEvent)
    /\ stops \in 0..MaxStops
    /\ pc \in {"idle", "action", "wait", "threads"}
    /\ action \in PDAction
    /\ index \in 1..(MaxThreads + 1)
    /\ chosen \in BOOLEAN
    /\ replies \in Seq(Reply)
    /\ entry.plugin \in Plugin

RepliesBounded ==
    /\ pc \in {"action", "wait"} => Len(replies) <= 1
    /\ pc = "threads" => /\ index <= Len(reasons) + 1
                         /\ Len(replies) <= IF chosen THEN index + 1 ELSE 1
    /\ Len(replies) <= MaxThreads + 2

\* What the state of the plugin says of the process.
ProcessFollows ==
    /\ process = "none" => state = "NoTarget"
    /\ process \in {"running", "exited"} => state = "Running"
    /\ process = "stopped" /\ Reported(reasons) => stops > 0

\* Where a call may be in which state.
CallFollows ==
    /\ pc = "action" /\ action = "Run" => state # "Running"
    /\ pc = "wait" => state = "Running"
    /\ state = "NoTarget" => process = "none"

\* One stop, one event: it is pending until the loop over the threads begins.
StopPending ==
    Pending =>
        /\ process = "stopped" /\ state = "Running" /\ pc # "threads"
        /\ \A i, j \in 1..Len(events) :
              events[i] = "stopped" /\ events[j] = "stopped" => i = j

\* A stop that was found is the one the process is at.
StopFound ==
    state \in StopState =>
        /\ process = "stopped" /\ Reported(reasons) /\ ~Pending
        /\ pc # "threads" => FirstAmong(Len(reasons))

\* The loop has found the first of the threads it has visited, if one has a reason.
LoopFollows ==
    pc = "threads" =>
        /\ process = "stopped" /\ ~Pending
        /\ chosen => state \in StopState /\ FirstAmong(index - 1)
        /\ ~chosen => state = "Running" /\ NoneAmong(index - 1)

\* The last location the loop sent, once a thread is chosen, is that thread's.
LocationFollows ==
    (pc = "threads" /\ chosen /\ \A i \in 1..(index - 1) : reasons[i] # "exception")
        => replies # << >> /\ replies[Len(replies)] = LocationMsg(selected)

IInv ==
    /\ Types
    /\ RepliesBounded
    /\ ProcessFollows
    /\ CallFollows
    /\ StopPending
    /\ StopFound
    /\ LoopFollows
    /\ LocationFollows

-----------------------------------------------------------------------------
(* Sequences and messages.                                                  *)

\* A message of update is one of its two replies.
LEMMA MessageTypes ==
    ASSUME NEW t \in Target, NEW n \in Thread \union {NoThread}
    PROVE  TargetMsg(t) \in Reply /\ LocationMsg(n) \in Reply
  BY DEF TargetMsg, LocationMsg, Reply, Target, NoThread

\* Posting an event to the listener.
LEMMA PostFacts ==
    ASSUME Types, NEW e \in ListenerEvent, events' = Append(events, e)
    PROVE  /\ events' \in Seq(ListenerEvent)
           /\ Len(events) \in Nat /\ Len(events') = Len(events) + 1
           /\ \A i \in 1..Len(events) : events'[i] = events[i]
           /\ events'[Len(events) + 1] = e
<1>1. events \in Seq(ListenerEvent)
  BY DEF Types
<1> QED  BY <1>1, AppendProperties, LenProperties

\* An event that is no stop leaves what is pending as it was.
LEMMA PostOther ==
    ASSUME IInv, NEW e \in ListenerEvent, e # "stopped", events' = Append(events, e)
    PROVE  /\ Pending' => Pending
           /\ Pending' => \A i, j \in 1..Len(events') :
                 events'[i] = "stopped" /\ events'[j] = "stopped" => i = j
<1>1. /\ Len(events) \in Nat /\ Len(events') = Len(events) + 1
      /\ \A i \in 1..Len(events) : events'[i] = events[i]
      /\ events'[Len(events) + 1] = e
  BY PostFacts DEF IInv
<1>2. \A i \in 1..Len(events') :
         events'[i] = "stopped" => i \in 1..Len(events) /\ events[i] = "stopped"
  BY <1>1
<1>3. Pending' => Pending
  BY <1>2 DEF Pending
<1>4. Pending => \A i, j \in 1..Len(events) :
         events[i] = "stopped" /\ events[j] = "stopped" => i = j
  BY DEF IInv, StopPending
<1> QED  BY <1>2, <1>3, <1>4

\* Nothing the loop has to say when it is not running.
LEMMA OutsideLoop ==
    ASSUME pc' # "threads"
    PROVE  LoopFollows' /\ LocationFollows'
  BY DEF LoopFollows, LocationFollows

-----------------------------------------------------------------------------
(* The steps of a call.                                                     *)

\* The initial states.
LEMMA InitIInv == Init => IInv
<1> SUFFICES ASSUME Init PROVE IInv
  OBVIOUS
<1>1. /\ state = "NoTarget" /\ target = "none" /\ selected = NoThread /\ process = "none"
      /\ reasons = << >> /\ events = << >> /\ stops = 0 /\ pc = "idle" /\ action = "None"
      /\ index = 1 /\ chosen = FALSE /\ replies = << >> /\ entry.plugin = NewPlugin
  BY DEF Init
<1>2. NewPlugin \in Plugin
  BY DEF NewPlugin, Plugin, PDDebugState, Target, Debuggee
<1>3. Types
  <2>1. /\ reasons \in Seq(StopReason) /\ Len(reasons) = 0
        /\ events \in Seq(ListenerEvent) /\ replies \in Seq(Reply)
    BY <1>1, EmptySeq
  <2>2. index \in 1..(MaxThreads + 1) /\ stops \in 0..MaxStops /\ Len(reasons) <= MaxThreads
    BY <1>1, <2>1, LLDBAssumption, MaxStopsAssumption
  <2> QED  BY <1>1, <1>2, <2>1, <2>2 DEF Types, PDDebugState, Target, PDAction
<1>4. ~Pending
  BY <1>1 DEF Pending
<1> QED
  BY <1>1, <1>3, <1>4, LLDBAssumption
     DEF IInv, RepliesBounded, ProcessFollows, CallFollows, StopPending, StopFound,
         LoopFollows, LocationFollows, StopState

\* What a call finds: the abstract plugin is well formed.
LEMMA PluginNowType == IInv => PluginNow \in Plugin
<1> SUFFICES ASSUME IInv PROVE PluginNow \in Plugin
  OBVIOUS
<1>1. state \in PDDebugState /\ target \in Target /\ stops \in Nat
      /\ process \in {"none", "running", "stopped", "exited"}
  BY MaxStopsAssumption DEF IInv, Types
<1>2. process = "stopped" /\ Reported(reasons) => stops - 1 \in Nat
  BY <1>1 DEF IInv, ProcessFollows
<1> DEFINE d == IF state \in StopState \/ StopVisible THEN "halted"
                ELSE IF process = "stopped" THEN "running" ELSE process
           n == IF process = "stopped" /\ Reported(reasons)
                     /\ state \notin StopState /\ ~StopVisible
                THEN stops - 1 ELSE stops
<1>3. d \in Debuggee
  BY <1>1 DEF Debuggee
<1>4. n \in Nat
  BY <1>1, <1>2
<1>5. PluginNow = [state |-> state, target |-> target, debuggee |-> d, stops |-> n]
  BY DEF PluginNow
<1> HIDE DEF d, n
<1> QED  BY <1>1, <1>3, <1>4, <1>5 DEF Plugin

\* process_events writes at most one reply.
LEMMA ProcessEventsIInv ==
    ASSUME IInv, NEW a \in PDAction, NEW request \in Request, ProcessEvents(a, request)
    PROVE  IInv'
<1>1. /\ pc = "idle" /\ pc' = "action" /\ action' = a
      /\ a = "Run" => state # "Running"
      /\ entry'.plugin = PluginNow
      /\ target' \in Target
      /\ replies' = Answers(request, target')
      /\ UNCHANGED <<state, selected, proc, index, chosen>>
  BY DEF ProcessEvents, IInv, Types, Target
<1>2. UNCHANGED <<state, selected, process, reasons, events, stops, index, chosen>>
  BY <1>1 DEF proc
<1>3. selected \in Thread \union {NoThread}
  BY DEF IInv, Types
<1>4. replies' \in Seq(Reply) /\ Len(replies') <= 1
  BY <1>1, <1>3, MessageTypes DEF Answers, Location
<1>5. Types'
  BY <1>1, <1>2, <1>4, PluginNowType DEF IInv, Types
<1>6. RepliesBounded'
  BY <1>1, <1>4, LLDBAssumption DEF RepliesBounded
<1>7. ProcessFollows' /\ CallFollows'
  BY <1>1, <1>2 DEF IInv, ProcessFollows, CallFollows, Reported
<1>8. StopPending' /\ StopFound'
  BY <1>1, <1>2 DEF IInv, StopPending, StopFound, Pending, FirstAmong, Reported
<1> QED  BY <1>1, <1>5, <1>6, <1>7, <1>8, OutsideLoop DEF IInv

\* Steps that only move the call on, outside of the loop.
LEMMA MoveOn ==
    ASSUME IInv, pc \in {"action", "wait"}, pc' \in {"idle", "wait"},
           pc' = "wait" => state = "Running",
           UNCHANGED <<state, target, selected, proc, action, index, chosen, replies, entry>>
    PROVE  IInv'
<1>1. UNCHANGED <<state, target, selected, process, reasons, events, stops,
                  action, index, chosen, replies, entry>>
  BY DEF proc
<1>2. Types'
  BY <1>1 DEF IInv, Types
<1>3. RepliesBounded'
  BY <1>1 DEF IInv, RepliesBounded
<1>4. ProcessFollows' /\ CallFollows'
  BY <1>1 DEF IInv, ProcessFollows, CallFollows, Reported
<1>5. StopPending' /\ StopFound'
  BY <1>1 DEF IInv, StopPending, StopFound, Pending, FirstAmong, Reported
<1> QED  BY <1>2, <1>3, <1>4, <1>5, OutsideLoop DEF IInv

\* No action, a failed launch and a wait that runs out change nothing but pc.
LEMMA NoAction_LaunchFails_WaitTimesOutIInv ==
    ASSUME IInv, NoAction \/ LaunchFails \/ WaitTimesOut
    PROVE  IInv'
<1>1. CASE NoAction
  BY <1>1, MoveOn DEF NoAction, AfterActionPc
<1>2. CASE LaunchFails
  BY <1>2, MoveOn DEF LaunchFails
<1>3. CASE WaitTimesOut
  BY <1>3, MoveOn DEF WaitTimesOut
<1> QED  BY <1>1, <1>2, <1>3

\* A process is launched when there was none.
LEMMA LaunchIInv == IInv /\ Launch => IInv'
<1> SUFFICES ASSUME IInv, Launch PROVE IInv'
  OBVIOUS
<1>1. /\ pc = "action" /\ state = "NoTarget" /\ state' = "Running"
      /\ process' = "running" /\ pc' = "wait"
      /\ UNCHANGED <<target, selected, reasons, events, stops,
                     action, index, chosen, replies, entry>>
  BY DEF Launch
<1>2. process = "none"
  BY <1>1 DEF IInv, CallFollows
<1>3. Types'
  BY <1>1 DEF IInv, Types, PDDebugState
<1>4. RepliesBounded'
  BY <1>1 DEF IInv, RepliesBounded
<1>5. ProcessFollows' /\ CallFollows'
  BY <1>1 DEF ProcessFollows, CallFollows
<1>6. ~Pending'
  BY <1>1, <1>2 DEF IInv, StopPending, Pending
<1>7. StopPending' /\ StopFound'
  BY <1>1, <1>6 DEF StopPending, StopFound, StopState
<1> QED  BY <1>1, <1>3, <1>4, <1>5, <1>7, OutsideLoop DEF IInv

\* A process that goes on was stopped, and its stop is not pending any more.
LEMMA ContinueIInv == IInv /\ Continue => IInv'
<1> SUFFICES ASSUME IInv, Continue PROVE IInv'
  OBVIOUS
<1>1. /\ pc = "action" /\ action = "Run" /\ state # "NoTarget" /\ state' = "Running"
      /\ process' = "running" /\ reasons' = << >> /\ events' = Append(events, "other")
      /\ pc' = "wait"
      /\ UNCHANGED <<target, selected, stops, action, index, chosen, replies, entry>>
  BY DEF Continue
<1>2. state \in StopState
  BY <1>1 DEF IInv, Types, CallFollows, PDDebugState
<1>3. ~Pending
  BY <1>2 DEF IInv, StopFound
<1>4. ~Pending'
  BY <1>1, <1>3, PostOther DEF ListenerEvent
<1>5. events' \in Seq(ListenerEvent)
  BY <1>1, PostFacts DEF IInv, ListenerEvent
<1>6. Types'
  BY <1>1, <1>5, EmptySeq, LLDBAssumption DEF IInv, Types, PDDebugState
<1>7. RepliesBounded'
  BY <1>1 DEF IInv, RepliesBounded
<1>8. ProcessFollows' /\ CallFollows'
  BY <1>1 DEF ProcessFollows, CallFollows
<1>9. StopPending' /\ StopFound'
  BY <1>1, <1>4 DEF StopPending, StopFound, StopState
<1> QED  BY <1>1, <1>6, <1>7, <1>8, <1>9, OutsideLoop DEF IInv

-----------------------------------------------------------------------------
(* The loop over the threads.                                               *)

\* Taking the event of a stop starts the loop; any other ends the call.
LEMMA TakeEventIInv == IInv /\ TakeEvent => IInv'
<1> SUFFICES ASSUME IInv, TakeEvent PROVE IInv'
  OBVIOUS
<1>1. /\ pc = "wait" /\ events # << >> /\ events' = Tail(events)
      /\ UNCHANGED <<state, target, selected, process, reasons, stops,
                     action, replies, entry>>
      /\ \/ Head(events) = "stopped" /\ pc' = "threads" /\ index' = 1 /\ chosen' = FALSE
         \/ Head(events) # "stopped" /\ pc' = "idle" /\ UNCHANGED <<index, chosen>>
  BY DEF TakeEvent, IsStop
<1>2. state = "Running"
  BY <1>1 DEF IInv, CallFollows
<1>3. events \in Seq(ListenerEvent) /\ Len(events) \in Nat \ {0} /\ events[1] = Head(events)
  BY <1>1, EmptySeq DEF IInv, Types
<1>4. /\ Tail(events) \in Seq(ListenerEvent) /\ Len(Tail(events)) = Len(events) - 1
      /\ \A i \in 1..Len(Tail(events)) : Tail(events)[i] = events[i + 1]
  BY <1>1, <1>3, HeadTailProperties
<1>5. \A i \in 1..Len(events') :
         i + 1 \in 1..Len(events) /\ events'[i] = events[i + 1]
  BY <1>1, <1>3, <1>4
<1>6. Pending => \A i, j \in 1..Len(events) :
         events[i] = "stopped" /\ events[j] = "stopped" => i = j
  BY DEF IInv, StopPending
<1>7. Pending' => Pending /\ Head(events) # "stopped"
  <2> SUFFICES ASSUME NEW i \in 1..Len(events'), events'[i] = "stopped"
               PROVE  Pending /\ Head(events) # "stopped"
    BY DEF Pending
  <2>1. i + 1 \in 1..Len(events) /\ events[i + 1] = "stopped"
    BY <1>5
  <2>2. Pending
    BY <2>1 DEF Pending
  <2>3. i + 1 # 1 /\ 1 \in 1..Len(events)
    BY <1>3
  <2> QED  BY <1>3, <1>6, <2>1, <2>2, <2>3
<1>8. Head(events) = "stopped" => process = "stopped"
  <2>1. 1 \in 1..Len(events)
    BY <1>3
  <2> QED  BY <1>3, <2>1 DEF IInv, StopPending, Pending
<1>9. Types'
  <2>1. events' \in Seq(ListenerEvent)
    BY <1>1, <1>4
  <2>2. index' \in 1..(MaxThreads + 1) /\ chosen' \in BOOLEAN
        /\ pc' \in {"idle", "action", "wait", "threads"}
    <3>1. 1 \in 1..(MaxThreads + 1)
      BY LLDBAssumption
    <3>2. CASE Head(events) = "stopped"
      BY <1>1, <3>1, <3>2
    <3>3. CASE Head(events) # "stopped"
      BY <1>1, <3>3 DEF IInv, Types
    <3> QED  BY <3>2, <3>3
  <2> QED  BY <1>1, <2>1, <2>2 DEF IInv, Types
<1>10. RepliesBounded'
  BY <1>1, LenProperties DEF IInv, RepliesBounded, Types
<1>11. ProcessFollows' /\ CallFollows'
  BY <1>1, <1>2 DEF IInv, ProcessFollows, CallFollows, Reported
<1>12. StopPending'
  <2> SUFFICES ASSUME Pending' PROVE StopPending'
    BY DEF StopPending
  <2>1. \A i, j \in 1..Len(events') :
           events'[i] = "stopped" /\ events'[j] = "stopped" => i = j
    <3> SUFFICES ASSUME NEW i \in 1..Len(events'), NEW j \in 1..Len(events'),
                        events'[i] = "stopped", events'[j] = "stopped"
                 PROVE  i = j
      OBVIOUS
    <3>1. i + 1 = j + 1
      BY <1>5, <1>6, <1>7
    <3> QED  BY <3>1
  <2>2. process = "stopped" /\ pc' # "threads"
    BY <1>1, <1>7 DEF IInv, StopPending
  <2> QED  BY <1>1, <1>2, <2>1, <2>2 DEF StopPending
<1>13. StopFound'
  BY <1>1, <1>2 DEF StopFound, StopState
<1>14. LoopFollows'
  BY <1>1, <1>2, <1>7, <1>8 DEF LoopFollows, NoneAmong
<1>15. LocationFollows'
  BY <1>1 DEF LocationFollows
<1> QED  BY <1>9, <1>10, <1>11, <1>12, <1>13, <1>14, <1>15 DEF IInv

\* What the loop knows while it lasts.
LEMMA LoopFacts ==
    ASSUME IInv, pc = "threads"
    PROVE  /\ process = "stopped" /\ ~Pending
           /\ index \in Nat \ {0} /\ index <= Len(reasons) + 1
           /\ Len(reasons) \in Nat /\ Len(reasons) <= MaxThreads
           /\ Len(replies) \in Nat /\ replies \in Seq(Reply)
  BY LLDBAssumption, LenProperties DEF IInv, Types, RepliesBounded, LoopFollows

\* The loop ends at the last thread.
LEMMA EndOfThreadsIInv == IInv /\ EndOfThreads => IInv'
<1> SUFFICES ASSUME IInv, EndOfThreads PROVE IInv'
  OBVIOUS
<1>1. /\ pc = "threads" /\ index > Len(reasons) /\ pc' = "idle"
      /\ UNCHANGED <<state, target, selected, process, reasons, events, stops,
                     action, index, chosen, replies, entry>>
  BY DEF EndOfThreads, proc
<1>2. index - 1 = Len(reasons)
  BY <1>1, LoopFacts
<1>3. Types'
  BY <1>1 DEF IInv, Types
<1>4. RepliesBounded'
  BY <1>1 DEF IInv, RepliesBounded
<1>5. ProcessFollows' /\ CallFollows'
  BY <1>1 DEF IInv, ProcessFollows, CallFollows, Reported
<1>6. StopPending'
  BY <1>1 DEF IInv, StopPending, Pending
<1>7. StopFound'
  <2> SUFFICES ASSUME state \in StopState PROVE StopFound'
    BY <1>1 DEF StopFound
  <2>1. chosen
    BY <1>1 DEF IInv, LoopFollows, Types, StopState
  <2>2. FirstAmong(Len(reasons))
    BY <1>1, <1>2, <2>1 DEF IInv, LoopFollows
  <2> QED  BY <1>1, <2>2 DEF IInv, StopFound, FirstAmong, Reported, Pending
<1> QED  BY <1>1, <1>3, <1>4, <1>5, <1>6, <1>7, OutsideLoop DEF IInv

\* The loop visits thread `index`: a thread with a reason is selected if none was before.
LEMMA VisitThreadIInv == IInv /\ VisitThread => IInv'
<1> SUFFICES ASSUME IInv, VisitThread PROVE IInv'
  OBVIOUS
<1> DEFINE r    == reasons[index]
           st   == StateOnReason(r, state)
           sent == IF SendsOnReason(r, state) THEN <<Location>> ELSE << >>
           last == SelectionLocation(index, st)
<1>1. /\ pc = "threads" /\ pc' = "threads" /\ index <= Len(reasons) /\ index' = index + 1
      /\ UNCHANGED <<target, process, reasons, events, stops, action, entry>>
  BY DEF VisitThread, proc
<1>2. \/ /\ r # "none" /\ chosen = FALSE /\ selected' = index /\ chosen' = TRUE
         /\ state' = "StopException" /\ replies' = replies \o sent \o last
      \/ /\ r = "none" \/ chosen = TRUE
         /\ state' = st /\ replies' = replies \o sent
         /\ UNCHANGED <<selected, chosen>>
  BY DEF VisitThread, Selects, IInv, Types
<1>3. /\ process = "stopped" /\ ~Pending
      /\ index \in Nat \ {0} /\ Len(reasons) \in Nat /\ Len(reasons) <= MaxThreads
      /\ Len(replies) \in Nat /\ replies \in Seq(Reply)
  BY <1>1, LoopFacts
<1>4. /\ index \in 1..Len(reasons) /\ index \in Thread /\ index' - 1 = index
      /\ r \in StopReason /\ selected \in Thread \union {NoThread}
      /\ state \in PDDebugState /\ MaxThreads \in Nat
  BY <1>1, <1>3, LLDBAssumption DEF IInv, Types, Thread
<1>5. /\ chosen = TRUE => state \in StopState /\ FirstAmong(index - 1)
      /\ chosen = FALSE => state = "Running" /\ NoneAmong(index - 1)
  BY <1>1 DEF IInv, LoopFollows, Types
<1>6. /\ st \in PDDebugState
      /\ r = "none" => st = state /\ sent = << >>
      /\ state \in StopState => st \in StopState
      /\ st = "StopException" => r = "exception" \/ state = "StopException"
  BY <1>4 DEF StateOnReason, SendsOnReason, PDDebugState, StopState
<1>7. /\ sent \in Seq(Reply) /\ Len(sent) <= 1 /\ Len(sent) \in Nat
      /\ sent = << >> \/ sent = <<LocationMsg(selected)>>
  <2>1. LocationMsg(selected) \in Reply
    BY <1>4 DEF LocationMsg, Reply, Target
  <2>2. /\ << >> \in Seq(Reply) /\ Len(<< >>) = 0
        /\ <<LocationMsg(selected)>> \in Seq(Reply) /\ Len(<<LocationMsg(selected)>>) = 1
    BY <2>1
  <2>3. sent = << >> \/ sent = <<LocationMsg(selected)>>
    BY DEF Location
  <2> QED  BY <2>2, <2>3
<1>8. /\ last \in Seq(Reply) /\ Len(last) <= 1 /\ Len(last) \in Nat
      /\ st # "StopException" => last = <<LocationMsg(index)>>
  <2>1. LocationMsg(index) \in Reply
    BY <1>4 DEF LocationMsg, Reply, Target
  <2>2. /\ << >> \in Seq(Reply) /\ Len(<< >>) = 0
        /\ <<LocationMsg(index)>> \in Seq(Reply) /\ Len(<<LocationMsg(index)>>) = 1
    BY <2>1
  <2>3. last = IF st = "StopException" THEN << >> ELSE <<LocationMsg(index)>>
    BY DEF SelectionLocation
  <2> QED  BY <2>2, <2>3
<1> HIDE DEF r, st, sent, last
<1>9. /\ replies \o sent \in Seq(Reply)
      /\ Len(replies \o sent) = Len(replies) + Len(sent)
      /\ \A i \in 1..(Len(replies) + Len(sent)) : (replies \o sent)[i] =
            IF i <= Len(replies) THEN replies[i] ELSE sent[i - Len(replies)]
  BY <1>3, <1>7, ConcatProperties
<1>10. /\ (replies \o sent) \o last \in Seq(Reply)
       /\ Len((replies \o sent) \o last) = Len(replies \o sent) + Len(last)
       /\ \A i \in 1..(Len(replies \o sent) + Len(last)) : ((replies \o sent) \o last)[i] =
             IF i <= Len(replies \o sent) THEN (replies \o sent)[i]
                                          ELSE last[i - Len(replies \o sent)]
  BY <1>8, <1>9, ConcatProperties
<1>11. state' \in PDDebugState /\ selected' \in Thread \union {NoThread} /\ chosen' \in BOOLEAN
  BY <1>2, <1>4, <1>6 DEF IInv, Types, PDDebugState, StopState
<1>12. replies' \in Seq(Reply)
  BY <1>2, <1>9, <1>10
<1>13. index' \in 1..(MaxThreads + 1)
  BY <1>1, <1>3, <1>4
<1>14. Types'
  BY <1>1, <1>11, <1>12, <1>13 DEF IInv, Types
<1>15. RepliesBounded'
  <2>1. Len(replies) <= IF chosen THEN index + 1 ELSE 1
    BY <1>1 DEF IInv, RepliesBounded
  <2>2. Len(replies') <= IF chosen' THEN index' + 1 ELSE 1
    <3>1. CASE r # "none" /\ chosen = FALSE
      <4>1. chosen' = TRUE /\ Len(replies') = Len(replies) + Len(sent) + Len(last)
        BY <1>2, <1>9, <1>10, <3>1
      <4> QED  BY <1>1, <1>3, <1>7, <1>8, <2>1, <3>1, <4>1
    <3>2. CASE chosen = TRUE
      <4>1. chosen' = TRUE /\ Len(replies') = Len(replies) + Len(sent)
        BY <1>2, <1>9, <3>2
      <4> QED  BY <1>1, <1>3, <1>7, <2>1, <3>2, <4>1
    <3>3. CASE r = "none" /\ chosen = FALSE
      <4>1. chosen' = FALSE /\ Len(replies') = Len(replies) + 0
        BY <1>2, <1>6, <1>9, <3>3, EmptySeq
      <4> QED  BY <1>3, <2>1, <3>3, <4>1
    <3> QED  BY <3>1, <3>2, <3>3 DEF IInv, Types
  <2>3. index' + 1 <= MaxThreads + 2 /\ 1 <= MaxThreads + 2
    BY <1>1, <1>3, <1>4
  <2>4. Len(replies') <= MaxThreads + 2
    <3>1. Len(replies') \in Nat
      BY <1>12, LenProperties
    <3> QED  BY <1>1, <1>3, <1>4, <2>2, <2>3, <3>1
  <2>5. index' <= Len(reasons') + 1
    BY <1>1, <1>3
  <2> QED  BY <1>1, <2>2, <2>4, <2>5 DEF RepliesBounded
<1>16. ProcessFollows'
  BY <1>1, <1>3 DEF IInv, ProcessFollows, Reported
<1>17. state' # "NoTarget"
  BY <1>2, <1>5, <1>6 DEF StopState, IInv, Types
<1>18. CallFollows'
  BY <1>1, <1>17 DEF CallFollows
<1>19. ~Pending'
  BY <1>1, <1>3 DEF Pending
<1>20. StopPending'
  BY <1>19 DEF StopPending
<1>21. LoopFollows'
  <2>1. CASE r # "none" /\ chosen = FALSE
    <3>1. state' \in StopState /\ chosen' = TRUE /\ selected' = index
      BY <1>2, <2>1 DEF StopState
    <3>2. FirstAmong(index - 1)'
      BY <1>1, <1>3, <1>4, <1>5, <2>1, <3>1 DEF FirstAmong, NoneAmong, r
    <3> QED  BY <1>1, <1>3, <1>19, <3>1, <3>2 DEF LoopFollows
  <2>2. CASE chosen = TRUE
    <3>1. state' \in StopState /\ chosen' = TRUE /\ selected' = selected
      BY <1>2, <1>5, <1>6, <2>2
    <3>2. FirstAmong(index - 1)'
      BY <1>1, <1>3, <1>4, <1>5, <2>2, <3>1 DEF FirstAmong
    <3> QED  BY <1>1, <1>3, <1>19, <3>1, <3>2 DEF LoopFollows
  <2>3. CASE r = "none" /\ chosen = FALSE
    <3>1. state' = "Running" /\ chosen' = FALSE
      BY <1>2, <1>5, <1>6, <2>3
    <3>2. NoneAmong(index - 1)'
      BY <1>1, <1>3, <1>4, <1>5, <2>3 DEF NoneAmong, r
    <3> QED  BY <1>1, <1>3, <1>19, <3>1, <3>2 DEF LoopFollows
  <2> QED  BY <2>1, <2>2, <2>3 DEF IInv, Types
<1>22. StopFound'
  <2> SUFFICES ASSUME state' \in StopState PROVE StopFound'
    BY DEF StopFound
  <2>1. chosen' /\ FirstAmong(index - 1)'
    BY <1>1, <1>21 DEF LoopFollows, StopState
  <2>2. selected' \in 1..Len(reasons') /\ reasons'[selected'] # "none"
    BY <1>1, <1>3, <1>4, <2>1 DEF FirstAmong
  <2> QED  BY <1>1, <1>3, <1>19, <2>2 DEF StopFound, Reported
<1>23. LocationFollows'
  <2> SUFFICES ASSUME chosen', \A i \in 1..(index' - 1) : reasons'[i] # "exception"
               PROVE  replies' # << >> /\ replies'[Len(replies')] = LocationMsg(selected')
    BY DEF LocationFollows
  <2>1. r # "exception" /\ \A i \in 1..(index - 1) : reasons[i] # "exception"
    BY <1>1, <1>3, <1>4 DEF r
  <2>2. CASE r # "none" /\ chosen = FALSE
    <3>1. state = "Running" /\ st # "StopException"
      BY <1>5, <1>6, <2>1, <2>2
    <3>2. last = <<LocationMsg(index)>> /\ Len(last) = 1 /\ last[1] = LocationMsg(index)
      BY <1>8, <3>1
    <3>3. replies' = (replies \o sent) \o last /\ selected' = index
      BY <1>2, <2>2
    <3>4. Len(replies \o sent) \in Nat
      BY <1>3, <1>7, <1>9
    <3>5. Len(replies') = Len(replies \o sent) + 1 /\ replies'[Len(replies')] = last[1]
      BY <1>10, <3>2, <3>3, <3>4
    <3> QED  BY <1>12, <3>2, <3>3, <3>4, <3>5, EmptySeq
  <2>3. CASE chosen = TRUE
    <3>1. replies # << >> /\ replies[Len(replies)] = LocationMsg(selected)
      BY <1>1, <2>1, <2>3 DEF IInv, LocationFollows
    <3>2. replies' = replies \o sent /\ selected' = selected
      BY <1>2, <2>3
    <3>3. Len(replies) \in Nat \ {0}
      BY <1>3, <3>1, EmptySeq
    <3>4. CASE sent = << >>
      <4>1. replies' = replies
        BY <1>3, <3>2, <3>4, ConcatEmptySeq
      <4> QED  BY <3>1, <3>2, <4>1
    <3>5. CASE sent = <<LocationMsg(selected)>>
      <4>1. Len(sent) = 1 /\ sent[1] = LocationMsg(selected)
        BY <3>5
      <4>2. Len(replies') = Len(replies) + 1 /\ replies'[Len(replies')] = sent[1]
        BY <1>9, <3>2, <3>3, <4>1
      <4> QED  BY <1>12, <3>2, <3>3, <4>1, <4>2, EmptySeq
    <3> QED  BY <1>7, <3>4, <3>5
  <2> QED  BY <1>2, <2>2, <2>3
<1> QED
  BY <1>14, <1>15, <1>16, <1>18, <1>20, <1>21, <1>22, <1>23 DEF IInv

-----------------------------------------------------------------------------
(* The debugged process.                                                    *)

\* A process that stops posts the only stopped event of the listener.
LEMMA ProcessStopsIInv == IInv /\ ProcessStops => IInv'
<1> SUFFICES ASSUME IInv, ProcessStops PROVE IInv'
  OBVIOUS
<1>1. /\ process = "running" /\ process' = "stopped" /\ stops < MaxStops
      /\ events' = Append(events, "stopped")
      /\ UNCHANGED <<state, target, selected, pc, action, index, chosen, replies, entry>>
  BY DEF ProcessStops, call
<1>2. PICK n \in Thread : \E rs \in [1..n -> StopReason] :
         reasons' = rs /\ stops' = IF Reported(rs) THEN stops + 1 ELSE stops
  BY DEF ProcessStops
<1>3. PICK rs \in [1..n -> StopReason] :
         reasons' = rs /\ stops' = IF Reported(rs) THEN stops + 1 ELSE stops
  BY <1>2
<1>4. /\ state = "Running" /\ pc # "threads" /\ ~Pending
  BY <1>1 DEF IInv, ProcessFollows, StopPending, LoopFollows
<1>5. /\ events' \in Seq(ListenerEvent)
      /\ Len(events) \in Nat /\ Len(events') = Len(events) + 1
      /\ \A i \in 1..Len(events) : events'[i] = events[i]
  BY <1>1, PostFacts DEF IInv, ListenerEvent
<1>6. reasons' \in Seq(StopReason) /\ Len(reasons') <= MaxThreads
  <2>1. n \in Nat /\ n <= MaxThreads
    BY LLDBAssumption DEF Thread
  <2>2. rs \in Seq(StopReason) /\ Len(rs) = n
    BY <2>1, SeqDef, LenProperties
  <2> QED  BY <1>3, <2>1, <2>2
<1>7. stops' \in 0..MaxStops /\ (Reported(reasons') => stops' > 0)
  <2>1. stops \in 0..MaxStops
    BY DEF IInv, Types
  <2> QED  BY <1>1, <1>3, <2>1, MaxStopsAssumption
<1>8. Types'
  BY <1>1, <1>5, <1>6, <1>7 DEF IInv, Types
<1>9. RepliesBounded'
  BY <1>1, <1>4 DEF IInv, RepliesBounded
<1>10. ProcessFollows' /\ CallFollows'
  BY <1>1, <1>4, <1>7 DEF IInv, ProcessFollows, CallFollows, Reported
<1>11. StopPending'
  <2>1. \A i \in 1..Len(events') : events'[i] = "stopped" => i = Len(events) + 1
    BY <1>4, <1>5 DEF Pending
  <2> QED  BY <1>1, <1>4, <2>1 DEF StopPending
<1>12. StopFound'
  BY <1>1, <1>4 DEF StopFound, StopState
<1> QED  BY <1>1, <1>4, <1>8, <1>9, <1>10, <1>11, <1>12, OutsideLoop DEF IInv

\* Any other event of a process that runs, and its exit.
LEMMA ProcessEvent_ProcessExitsIInv ==
    ASSUME IInv, ProcessEvent \/ ProcessExits
    PROVE  IInv'
<1>1. PICK e \in {"restarted", "other"} : events' = Append(events, e)
  BY DEF ProcessEvent, ProcessExits
<1>2. /\ process = "running" /\ process' \in {"running", "exited"}
      /\ UNCHANGED <<state, target, selected, reasons, stops,
                     pc, action, index, chosen, replies, entry>>
  BY DEF ProcessEvent, ProcessExits, call
<1>3. state = "Running" /\ pc # "threads" /\ ~Pending
  BY <1>2 DEF IInv, ProcessFollows, StopPending, LoopFollows
<1>4. events' \in Seq(ListenerEvent) /\ ~Pending'
  BY <1>1, <1>3, PostFacts, PostOther DEF IInv, ListenerEvent
<1>5. Types'
  BY <1>2, <1>4 DEF IInv, Types
<1>6. RepliesBounded'
  BY <1>2 DEF IInv, RepliesBounded
<1>7. ProcessFollows' /\ CallFollows'
  BY <1>2, <1>3 DEF IInv, ProcessFollows, CallFollows
<1>8. StopPending' /\ StopFound'
  BY <1>2, <1>3, <1>4 DEF StopPending, StopFound, StopState
<1> QED  BY <1>2, <1>3, <1>5, <1>6, <1>7, <1>8, OutsideLoop DEF IInv

-----------------------------------------------------------------------------
(* The theorems.                                                            *)

\* Every step of update and of the process keeps the invariant.
LEMMA NextIInv == IInv /\ [Next]_vars => IInv'
<1> SUFFICES ASSUME IInv, [Next]_vars PROVE IInv'
  OBVIOUS
<1>1. ASSUME NEW a \in PDAction, NEW request \in Request, ProcessEvents(a, request)
      PROVE  IInv'
  BY <1>1, ProcessEventsIInv
<1>2. CASE NoAction \/ LaunchFails \/ WaitTimesOut
  BY <1>2, NoAction_LaunchFails_WaitTimesOutIInv
<1>3. CASE Launch
  BY <1>3, LaunchIInv
<1>4. CASE Continue
  BY <1>4, ContinueIInv
<1>5. CASE TakeEvent
  BY <1>5, TakeEventIInv
<1>6. CASE VisitThread
  BY <1>6, VisitThreadIInv
<1>7. CASE EndOfThreads
  BY <1>7, EndOfThreadsIInv
<1>8. CASE ProcessStops
  BY <1>8, ProcessStopsIInv
<1>9. CASE ProcessEvent \/ ProcessExits
  BY <1>9, ProcessEvent_ProcessExitsIInv
<1>10. CASE UNCHANGED vars
  <2>1. UNCHANGED <<state, target, selected, process, reasons, events, stops,
                    pc, action, index, chosen, replies, entry>>
    BY <1>10 DEF vars, proc, call
  <2> QED
    BY <2>1 DEF IInv, Types, RepliesBounded, ProcessFollows, CallFollows, StopPending,
                StopFound, LoopFollows, LocationFollows, Pending, FirstAmong, NoneAmong,
                Reported
<1> QED
  BY <1>1, <1>2, <1>3, <1>4, <1>5, <1>6, <1>7, <1>8, <1>9, <1>10
     DEF Next, UpdateStep, Process

\* The inductive invariant of the plugin and its process.
THEOREM Invariance == Spec => []IInv
<1> QED  BY InitIInv, NextIInv, PTL DEF Spec

\* The state of the plugin and of a call keeps its types; a call writes at most two
\* replies more than the process has threads.
THEOREM TypeCorrect == Spec => []TypeOK
<1>1. IInv => TypeOK
  BY DEF IInv, Types, RepliesBounded, TypeOK
<1> QED  BY <1>1, Invariance, PTL

\* When update returns a stop, the process is at that stop and its event is consumed.
THEOREM StopCurrent == Spec => []StopIsCurrent
<1>1. IInv => StopIsCurrent
  BY DEF IInv, StopFound, StopIsCurrent, Pending
<1> QED  BY <1>1, Invariance, PTL

\* update selects the first thread of the stop that has a reason.
THEOREM SelectionFirst == Spec => []SelectionIsFirst
<1>1. IInv => SelectionIsFirst
  BY DEF IInv, StopFound, FirstAmong, SelectionIsFirst
<1> QED  BY <1>1, Invariance, PTL

\* The last location update_lldb_event sends is that of the thread it selected,
\* unless a thread stopped at an exception.
THEOREM StopLocated == Spec => []StopIsLocated
<1>1. IInv => StopIsLocated
  <2> SUFFICES ASSUME IInv, pc = "threads", index > Len(reasons), chosen,
                      \A i \in 1..Len(reasons) : reasons[i] # "exception"
               PROVE  replies # << >> /\ replies[Len(replies)] = LocationMsg(selected)
    BY DEF StopIsLocated
  <2>1. index - 1 = Len(reasons)
    BY LoopFacts
  <2> QED  BY <2>1 DEF IInv, LocationFollows
<1> QED  BY <1>1, Invariance, PTL

=============================================================================
