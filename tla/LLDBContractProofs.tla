------------------------- MODULE LLDBContractProofs -------------------------
(***************************************************************************)
(* The LLDB plugin implements the contract that BackendSession relies on:  *)
(* a call of update, with all its steps and with whatever the process does *)
(* meanwhile, is one step of BackendContract.                              *)
(***************************************************************************)
EXTENDS LLDBPluginProofs

-----------------------------------------------------------------------------
(* What a call has done so far to the abstract plugin it began with.        *)

\* After the requests, and after the action.
Before == [entry.plugin EXCEPT !.target = target]
After  == IF action # "Run" THEN Before
          ELSE IF entry.plugin.state = "NoTarget" THEN Launched(Before)
          ELSE Continued(Before)

\* The process may have stopped or exited meanwhile.
Drifted(p, now) ==
    \/ now = p
    \/ /\ p.state = "Running" /\ p.debuggee = "running"
       /\ \/ p.stops < MaxStops /\ now = Halted(p)
          \/ now = Exited(p)

\* A stop whose event was taken.
AtStop(p) ==
    /\ process = "stopped"
    /\ Reported(reasons) =>
           \/ p.debuggee = "halted" /\ stops = p.stops
           \/ p.debuggee = "running" /\ p.stops < MaxStops /\ stops = p.stops + 1
    /\ ~Reported(reasons) => p.debuggee = "running" /\ stops = p.stops

\* The replies of a call that was asked this, and has found a stop or not.
Told(rs, t, request, found) ==
    /\ request = "file_target_request" => rs # << >> /\ rs[1] = TargetMsg(t)
    /\ \A i \in 1..Len(rs) :
           request # "file_target_request" \/ i # 1 => rs[i].reply = "exception_location_reply"
    /\ (\E i \in 1..Len(rs) : rs[i].reply = "exception_location_reply")
           <=> request = "exception_location_request" \/ found

Asked(request) ==
    /\ Told(replies, target, request, pc = "threads" /\ chosen)
    /\ request = "file_target_request" => target \in {"valid", "invalid"}
    /\ request # "file_target_request" => target = entry.plugin.target

CallSoFar ==
    pc # "idle" =>
        /\ action = "Run" => entry.plugin.state # "Running"
        /\ \E request \in Request : Asked(request)
        /\ pc = "action" => state = entry.plugin.state /\ Drifted(Before, PluginNow)
        /\ pc \in {"wait", "threads"} =>
               /\ After.state = "Running"
               /\ action = "Run" /\ entry.plugin.state = "NoTarget" => target = "valid"
        /\ pc = "wait" => Drifted(After, PluginNow)
        /\ pc = "threads" => AtStop(After)

-----------------------------------------------------------------------------
(* The abstract plugin.                                                     *)

LEMMA PluginEqual ==
    ASSUME NEW p \in Plugin, NEW q \in Plugin, p.state = q.state, p.target = q.target,
           p.debuggee = q.debuggee, p.stops = q.stops
    PROVE  p = q
  BY DEF Plugin

LEMMA HaltedIs ==
    ASSUME NEW p \in Plugin
    PROVE  /\ Halted(p) \in Plugin
           /\ Halted(p).state = p.state /\ Halted(p).target = p.target
           /\ Halted(p).debuggee = "halted"
           /\ Halted(p).stops = IF p.debuggee = "halted" THEN p.stops ELSE p.stops + 1
           /\ Exited(p) \in Plugin
           /\ Exited(p).state = p.state /\ Exited(p).target = p.target
           /\ Exited(p).debuggee = "exited" /\ Exited(p).stops = p.stops
<1>1. /\ Exited(p) \in Plugin
      /\ Exited(p).state = p.state /\ Exited(p).target = p.target
      /\ Exited(p).debuggee = "exited" /\ Exited(p).stops = p.stops
  BY DEF Exited, Plugin, Debuggee
<1>2. CASE p.debuggee = "halted"
  <2>1. Halted(p) = [p EXCEPT !.debuggee = "halted", !.stops = p.stops]
    BY <1>2 DEF Halted
  <2> QED  BY <1>1, <1>2, <2>1 DEF Plugin, Debuggee
<1>3. CASE p.debuggee # "halted"
  <2>1. Halted(p) = [p EXCEPT !.debuggee = "halted", !.stops = p.stops + 1]
    BY <1>3 DEF Halted
  <2>2. p.stops \in Nat
    BY DEF Plugin
  <2>3. /\ Halted(p).state = p.state /\ Halted(p).target = p.target
        /\ Halted(p).debuggee = "halted" /\ Halted(p).stops = p.stops + 1
        /\ Halted(p) = [state |-> p.state, target |-> p.target, debuggee |-> "halted",
                        stops |-> p.stops + 1]
    BY <2>1 DEF Plugin
  <2>4. Halted(p) \in Plugin
    BY <2>2, <2>3 DEF Plugin, Debuggee
  <2> QED  BY <1>1, <1>3, <2>3, <2>4
<1> QED  BY <1>2, <1>3

LEMMA ActedIs ==
    ASSUME NEW p \in Plugin
    PROVE  /\ Launched(p) \in Plugin
           /\ Launched(p).state = "Running" /\ Launched(p).target = p.target
           /\ Launched(p).debuggee = "running" /\ Launched(p).stops = p.stops
           /\ Continued(p) \in Plugin
           /\ Continued(p).state = "Running" /\ Continued(p).target = p.target
           /\ Continued(p).debuggee = (IF p.debuggee = "halted" THEN "running" ELSE p.debuggee)
           /\ Continued(p).stops = p.stops
  BY DEF Launched, Continued, Plugin, Debuggee, PDDebugState

LEMMA NowIs ==
    ASSUME IInv
    PROVE  /\ PluginNow \in Plugin
           /\ PluginNow.state = state /\ PluginNow.target = target
           /\ PluginNow.debuggee = IF state \in StopState \/ StopVisible THEN "halted"
                                   ELSE IF process = "stopped" THEN "running" ELSE process
           /\ PluginNow.stops = IF process = "stopped" /\ Reported(reasons)
                                     /\ state \notin StopState /\ ~StopVisible
                                THEN stops - 1 ELSE stops
  BY PluginNowType DEF PluginNow

LEMMA BeforeIs ==
    ASSUME IInv
    PROVE  /\ Before \in Plugin
           /\ Before.state = entry.plugin.state /\ Before.target = target
           /\ Before.debuggee = entry.plugin.debuggee /\ Before.stops = entry.plugin.stops
<1>1. entry.plugin \in Plugin /\ target \in Target
  BY DEF IInv, Types
<1> QED  BY <1>1 DEF Before, Plugin

LEMMA AfterIs ==
    ASSUME IInv
    PROVE  After \in Plugin /\ After.target = target
  BY BeforeIs, ActedIs DEF After

Fields ==
    /\ PluginNow \in Plugin /\ Before \in Plugin /\ After \in Plugin
    /\ PluginNow.state = state /\ PluginNow.target = target
    /\ PluginNow.debuggee = IF state \in StopState \/ StopVisible THEN "halted"
                            ELSE IF process = "stopped" THEN "running" ELSE process
    /\ PluginNow.stops = IF process = "stopped" /\ Reported(reasons)
                              /\ state \notin StopState /\ ~StopVisible
                         THEN stops - 1 ELSE stops
    /\ Before.target = target /\ Before.state = entry.plugin.state
    /\ Before.debuggee = entry.plugin.debuggee /\ Before.stops = entry.plugin.stops

LEMMA FieldsHold == IInv => Fields
  BY NowIs, BeforeIs, AfterIs DEF Fields

LEMMA NextFieldsHold == IInv' => Fields'
  BY FieldsHold, PTL

-----------------------------------------------------------------------------
(* The end of a call.                                                       *)

\* The replies are what the contract says of them.
LEMMA ReplyIs ==
    ASSUME IInv, NEW request \in Request, NEW found \in BOOLEAN, Told(replies, target, request, found)
    PROVE  ReplyNow = [target_reply |-> IF request = "file_target_request" THEN target ELSE "none",
                       located |-> request = "exception_location_request" \/ found]
<1> DEFINE S == {i \in 1..Len(replies) : replies[i].reply = "target_reply"}
           Located == \E i \in 1..Len(replies) : replies[i].reply = "exception_location_reply"
<1>1. ReplyNow = [target_reply |-> IF S = {} THEN "none"
                                   ELSE replies[CHOOSE i \in S : TRUE].target,
                  located |-> Located]
  BY DEF ReplyNow
<1>2. Located <=> request = "exception_location_request" \/ found
  BY DEF Told
<1>3. CASE request = "file_target_request"
  <2>1. replies # << >> /\ replies[1] = TargetMsg(target)
    BY <1>3 DEF Told
  <2>2. 1 \in 1..Len(replies)
    <3>1. replies \in Seq(Reply)
      BY DEF IInv, Types
    <3> QED  BY <2>1, <3>1, EmptySeq, LenProperties
  <2>3. replies[1].reply = "target_reply" /\ replies[1].target = target
    BY <2>1 DEF TargetMsg
  <2>4. S = {1}
    BY <2>2, <2>3 DEF Told
  <2>5. (CHOOSE i \in S : TRUE) = 1
    BY <2>4
  <2> HIDE DEF S, Located
  <2>6. ReplyNow = [target_reply |-> target, located |-> Located]
    BY <1>1, <2>3, <2>4, <2>5
  <2> QED  BY <1>2, <1>3, <2>6, Zenon
<1>4. CASE request # "file_target_request"
  <2>1. S = {}
    BY <1>4 DEF Told
  <2> HIDE DEF S, Located
  <2>2. ReplyNow = [target_reply |-> "none", located |-> Located]
    BY <1>1, <2>1
  <2> QED  BY <1>2, <1>4, <2>2, Zenon
<1> QED  BY <1>3, <1>4

\* The contract is built on the operators the plugin is described with.
LEMMA SameOperators ==
    /\ Contract!PDAction = PDAction /\ Contract!Request = Request
    /\ \A p : Contract!AfterWait(p) = AfterWait(p)
    /\ \A p, a : Contract!AfterAction(p, a) = AfterAction(p, a)
    /\ \A p, q : Contract!AfterRequests(p, q) = AfterRequests(p, q)
<1>1. Contract!PDAction = PDAction /\ Contract!Request = Request
  BY DEF Contract!PDAction, PDAction, Contract!Request, Request
<1>2. ASSUME NEW p  PROVE Contract!AfterWait(p) = AfterWait(p)
  BY Zenon DEF Contract!AfterWait, AfterWait, Contract!Halted, Halted, Contract!Exited, Exited,
         Contract!StopState, StopState
<1>3. ASSUME NEW p, NEW a  PROVE Contract!AfterAction(p, a) = AfterAction(p, a)
  BY Zenon DEF Contract!AfterAction, AfterAction, Contract!Launched, Launched,
         Contract!Continued, Continued
<1>4. ASSUME NEW p, NEW q  PROVE Contract!AfterRequests(p, q) = AfterRequests(p, q)
  BY Zenon DEF Contract!AfterRequests, AfterRequests
<1> QED  BY <1>1, <1>2, <1>3, <1>4

LEMMA CallIsOneStep ==
    ASSUME IInv, CallSoFar, pc # "idle", pc' = "idle", UNCHANGED <<target, replies>>,
           NEW request \in Request, Asked(request),
           NEW p \in AfterAction(Before, action), PluginNow' \in AfterWait(p),
           PluginNow'.state = state',
           pc = "threads" /\ chosen <=> p.state = "Running" /\ state' # "Running"
    PROVE  Contract!Next
<1> DEFINE r == [plugin |-> PluginNow', target_reply |-> ReplyNow'.target_reply,
                 located |-> ReplyNow'.located]
<1>1. PluginMap = entry.plugin /\ PluginMap' = PluginNow' /\ ReplyMap' = ReplyNow'
  BY DEF PluginMap, ReplyMap
<1>2. action \in PDAction /\ (action = "Run" => entry.plugin.state # "Running")
  BY DEF IInv, Types, CallSoFar
<1>3. Before \in AfterRequests(entry.plugin, request)
  <2>1. CASE request = "file_target_request"
    BY <2>1 DEF AfterRequests, Before, Asked
  <2>2. CASE request # "file_target_request"
    <3>1. Before = entry.plugin
      BY <2>2, BeforeIs, PluginEqual DEF Asked, IInv, Types
    <3> QED  BY <2>2, <3>1 DEF AfterRequests
  <2> QED  BY <2>1, <2>2
<1>4. ReplyNow' = [target_reply |-> IF request = "file_target_request" THEN target ELSE "none",
                   located |-> request = "exception_location_request"
                                  \/ (pc = "threads" /\ chosen)]
  <2>1. ReplyNow' = ReplyNow
    BY DEF ReplyNow
  <2>2. (pc = "threads" /\ chosen) \in BOOLEAN
    OBVIOUS
  <2> QED  BY <2>1, <2>2, ReplyIs, Zenon DEF Asked
<1>5. r \in Contract!UpdateResults(entry.plugin, action, request)
  <2>1. r = [plugin |-> PluginNow',
             target_reply |-> IF request = "file_target_request" THEN target ELSE "none",
             located |-> request = "exception_location_request"
                            \/ (pc = "threads" /\ chosen)]
    BY <1>4
  <2>2. r = [plugin |-> PluginNow',
             target_reply |-> IF request = "file_target_request" THEN Before.target ELSE "none",
             located |-> \/ request = "exception_location_request"
                         \/ p.state = "Running" /\ PluginNow'.state # "Running"]
    BY <2>1, BeforeIs, Zenon
  <2> HIDE DEF r
  <2>3. /\ Before \in Contract!AfterRequests(entry.plugin, request)
        /\ p \in Contract!AfterAction(Before, action)
        /\ PluginNow' \in Contract!AfterWait(p)
    BY <1>3, SameOperators
  <2> DEFINE Outcome(q, q2, x) ==
                 [plugin |-> x,
                  target_reply |-> IF request = "file_target_request" THEN q.target ELSE "none",
                  located |-> \/ request = "exception_location_request"
                              \/ q2.state = "Running" /\ x.state # "Running"]
             Waited(q, q2) == {Outcome(q, q2, x) : x \in Contract!AfterWait(q2)}
             Acted(q) == UNION {Waited(q, q2) : q2 \in Contract!AfterAction(q, action)}
  <2>4. r \in Waited(Before, p)
    BY <2>2, <2>3, Zenon
  <2>5. Contract!UpdateResults(entry.plugin, action, request)
            = UNION {Acted(q) : q \in Contract!AfterRequests(entry.plugin, request)}
    BY DEF Contract!UpdateResults
  <2> HIDE DEF Waited
  <2>6. r \in Acted(Before)
    BY <2>3, <2>4
  <2> HIDE DEF Acted
  <2> QED  BY <2>3, <2>5, <2>6
<1>6. Contract!Update(action, request)
  <2>1. ReplyMap' = [target_reply |-> r.target_reply, located |-> r.located] /\ PluginMap' = r.plugin
    BY <1>1, <1>4, Zenon
  <2> HIDE DEF r
  <2> QED  BY <1>1, <1>2, <1>5, <2>1, Zenon DEF Contract!Update
<1> QED  BY <1>2, <1>6, SameOperators DEF Contract!Next

-----------------------------------------------------------------------------
(* What may be asked is asked of every step of a call.                      *)

LEMMA AskedStays ==
    ASSUME UNCHANGED <<target, replies, entry>>,
           (pc = "threads" /\ chosen)' <=> (pc = "threads" /\ chosen),
           NEW request, Asked(request)
    PROVE  Asked(request)'
  BY DEF Asked, Told

\* A call begins.
LEMMA BeginsCall ==
    ASSUME IInv, IInv', NEW a \in PDAction, NEW request \in Request, ProcessEvents(a, request)
    PROVE  CallSoFar' /\ UNCHANGED <<PluginMap, ReplyMap>>
<1>1. /\ pc = "idle" /\ pc' = "action" /\ action' = a /\ (a = "Run" => state # "Running")
      /\ entry' = [plugin |-> PluginNow, reply |-> ReplyNow]
      /\ target' \in IF request = "file_target_request" THEN {"valid", "invalid"} ELSE {target}
      /\ replies' = Answers(request, target')
      /\ state' = state /\ UNCHANGED proc
  BY DEF ProcessEvents
<1>2. UNCHANGED <<PluginMap, ReplyMap>>
  BY <1>1 DEF PluginMap, ReplyMap
<1>3. entry'.plugin = PluginNow /\ entry'.plugin.state = state /\ entry'.plugin.target = target
  BY <1>1, NowIs
<1>4. Asked(request)'
  <2>1. Told(replies', target', request, FALSE)
    BY <1>1 DEF Told, Answers, TargetMsg, Location, LocationMsg
  <2> QED  BY <1>1, <1>3, <2>1 DEF Asked
<1>5. PluginNow' = Before'
  <2>1. /\ PluginNow'.state = PluginNow.state /\ PluginNow'.target = target'
        /\ PluginNow'.debuggee = PluginNow.debuggee /\ PluginNow'.stops = PluginNow.stops
    BY <1>1 DEF PluginNow, proc, StopVisible, Reported
  <2>2. /\ PluginNow' \in Plugin /\ Before' \in Plugin
        /\ Before'.state = PluginNow.state /\ Before'.target = target'
        /\ Before'.debuggee = PluginNow.debuggee /\ Before'.stops = PluginNow.stops
    BY <1>3, NextFieldsHold DEF Fields
  <2> QED  BY <2>1, <2>2, PluginEqual
<1> QED  BY <1>1, <1>2, <1>3, <1>4, <1>5 DEF CallSoFar, Drifted

-----------------------------------------------------------------------------
(* What the contract allows.                                                *)

LEMMA WaitAllows ==
    ASSUME NEW p \in Plugin, NEW q \in Plugin,
           \/ p.state # "Running" /\ q = p
           \/ p.state = "Running" /\ p.debuggee # "halted" /\ Drifted(p, q)
           \/ /\ p.state = "Running" /\ q.state \in StopState
              /\ q.target = p.target /\ q.debuggee = "halted"
              /\ \/ p.debuggee = "halted" /\ q.stops = p.stops
                 \/ p.debuggee = "running" /\ p.stops < MaxStops /\ q.stops = p.stops + 1
    PROVE  q \in AfterWait(p)
<1>1. CASE p.state # "Running" /\ q = p
  BY <1>1 DEF AfterWait
<1>2. CASE p.state = "Running" /\ p.debuggee # "halted" /\ Drifted(p, q)
  <2>1. CASE q = p
    BY <1>2, <2>1 DEF AfterWait
  <2>2. CASE p.debuggee = "running" /\ p.stops < MaxStops /\ q = Halted(p)
    BY <1>2, <2>2 DEF AfterWait
  <2>3. CASE p.debuggee = "running" /\ q = Exited(p)
    BY <1>2, <2>3 DEF AfterWait
  <2> QED  BY <1>2, <2>1, <2>2, <2>3 DEF Drifted
<1>3. CASE /\ p.state = "Running" /\ q.state \in StopState
           /\ q.target = p.target /\ q.debuggee = "halted"
           /\ \/ p.debuggee = "halted" /\ q.stops = p.stops
              \/ p.debuggee = "running" /\ p.stops < MaxStops /\ q.stops = p.stops + 1
  <2>1. Halted(p).stops = q.stops
    BY <1>3, HaltedIs
  <2> DEFINE h == [Halted(p) EXCEPT !.state = q.state]
  <2>2. q = h
    <3>1. Halted(p) \in Plugin /\ Halted(p).target = p.target /\ Halted(p).debuggee = "halted"
      BY HaltedIs
    <3>2. h \in Plugin /\ h.state = q.state /\ h.target = q.target /\ h.debuggee = q.debuggee
          /\ h.stops = q.stops
      <4>1. q.state \in PDDebugState
        BY DEF Plugin
      <4> QED  BY <1>3, <2>1, <3>1, <4>1 DEF Plugin
    <3> HIDE DEF h
    <3> QED  BY <3>2, PluginEqual
  <2>3. q \in {[Halted(p) EXCEPT !.state = st] : st \in StopState}
    BY <1>3, <2>2
  <2>4. CASE p.debuggee = "halted"
    BY <1>3, <2>3, <2>4, Zenon DEF AfterWait
  <2>5. CASE p.debuggee = "running" /\ p.stops < MaxStops
    <3>1. p.debuggee # "halted"
      BY <2>5
    <3> QED  BY <1>3, <2>3, <2>5, <3>1, Zenon DEF AfterWait
  <2> QED  BY <1>3, <2>4, <2>5
<1> QED  BY <1>1, <1>2, <1>3

LEMMA ActionAllows ==
    ASSUME IInv
    PROVE  /\ action # "Run" \/ entry.plugin.state = "NoTarget" => Before \in AfterAction(Before, action)
           /\ (action = "Run" /\ entry.plugin.state = "NoTarget" => target = "valid")
                  => After \in AfterAction(Before, action)
           /\ action # "Run" => After = Before
           /\ action = "Run" /\ entry.plugin.state = "NoTarget" => After = Launched(Before)
           /\ action = "Run" /\ entry.plugin.state # "NoTarget" => After = Continued(Before)
<1>1. Before.state = entry.plugin.state /\ Before.target = target
  BY BeforeIs
<1> HIDE DEF Before
<1> QED  BY <1>1 DEF After, AfterAction

\* The process, on its own, lets a running debuggee stop or exit, and nothing else.
LEMMA ProcessDrifts ==
    ASSUME IInv, IInv', Process, NEW p \in Plugin, Drifted(p, PluginNow)
    PROVE  /\ PluginNow = p /\ state = "Running" /\ process = "running"
           /\ Drifted(p, PluginNow')
<1>1. Fields /\ Fields'
  BY FieldsHold, NextFieldsHold
<1>2. process = "running" /\ UNCHANGED <<state, target>>
  BY DEF Process, ProcessStops, ProcessEvent, ProcessExits
<1>3. state = "Running" /\ state \notin StopState /\ ~StopVisible
  BY <1>2 DEF IInv, ProcessFollows, StopVisible, StopState
<1>4. PluginNow.debuggee = "running" /\ PluginNow.stops = stops
  BY <1>1, <1>2, <1>3 DEF Fields
<1>5. PluginNow = p
  BY <1>4, HaltedIs DEF Drifted
<1>6. /\ p.state = "Running" /\ p.target = target /\ p.debuggee = "running" /\ p.stops = stops
      /\ stops \in Nat
  BY <1>1, <1>3, <1>4, <1>5 DEF Fields, Plugin
<1>7. /\ PluginNow' \in Plugin /\ PluginNow'.state = "Running" /\ PluginNow'.target = target
      /\ PluginNow'.debuggee = IF StopVisible' THEN "halted"
                               ELSE IF process' = "stopped" THEN "running" ELSE process'
      /\ PluginNow'.stops = IF process' = "stopped" /\ Reported(reasons') /\ ~StopVisible'
                            THEN stops' - 1 ELSE stops'
  BY <1>1, <1>2, <1>3 DEF Fields, Reported
<1>8. CASE ProcessEvent
  <2>1. process' = "running" /\ stops' = stops /\ ~StopVisible'
    BY <1>2, <1>8 DEF ProcessEvent, StopVisible
  <2>2. PluginNow' = p
    BY <1>6, <1>7, <2>1, PluginEqual
  <2> QED  BY <1>2, <1>3, <1>5, <2>2 DEF Drifted
<1>9. CASE ProcessExits
  <2>1. process' = "exited" /\ stops' = stops /\ ~StopVisible'
    BY <1>9 DEF ProcessExits, StopVisible
  <2>2. PluginNow' = Exited(p)
    BY <1>6, <1>7, <2>1, HaltedIs, PluginEqual
  <2> QED  BY <1>2, <1>3, <1>5, <1>6, <2>2 DEF Drifted
<1>10. CASE ProcessStops
  <2>1. /\ process' = "stopped" /\ stops < MaxStops
        /\ stops' = IF Reported(reasons') THEN stops + 1 ELSE stops
    BY <1>10 DEF ProcessStops
  <2>2. CASE StopVisible'
    <3>1. Reported(reasons')
      BY <2>2 DEF StopVisible, Reported
    <3>2. PluginNow' = Halted(p)
      BY <1>6, <1>7, <2>1, <2>2, <3>1, HaltedIs, PluginEqual
    <3> QED  BY <1>2, <1>3, <1>5, <1>6, <2>1, <3>2 DEF Drifted
  <2>3. CASE ~StopVisible'
    <3>1. PluginNow'.stops = stops
      BY <1>6, <1>7, <2>1, <2>3
    <3>2. PluginNow' = p
      BY <1>6, <1>7, <2>1, <2>3, <3>1, PluginEqual
    <3> QED  BY <1>2, <1>3, <1>5, <3>2 DEF Drifted
  <2> QED  BY <2>2, <2>3
<1> QED  BY <1>8, <1>9, <1>10 DEF Process

-----------------------------------------------------------------------------
(* The steps.                                                               *)

\* While a call goes on the contract sees nothing.
LEMMA Unseen ==
    ASSUME pc # "idle", pc' # "idle", entry' = entry
    PROVE  UNCHANGED <<PluginMap, ReplyMap>>
  BY DEF PluginMap, ReplyMap

\* The process, between two calls and within one.
LEMMA ProcessRefines ==
    ASSUME IInv, IInv', CallSoFar, Process
    PROVE  CallSoFar' /\ [Contract!Next]_(Contract!vars)
<1>1. Fields /\ UNCHANGED call /\ UNCHANGED target /\ pc' = pc
  BY FieldsHold DEF Process, ProcessStops, ProcessEvent, ProcessExits, call
<1>2. process = "running" /\ state' = state
  BY DEF Process, ProcessStops, ProcessEvent, ProcessExits
<1>3. CASE pc = "idle"
  <2>1. Drifted(PluginNow, PluginNow')
    BY <1>1, ProcessDrifts DEF Drifted, Fields
  <2>2. PluginMap = PluginNow /\ PluginMap' = PluginNow' /\ ReplyMap' = ReplyMap
    BY <1>1, <1>3 DEF PluginMap, ReplyMap, ReplyNow, call
  <2>a. CallSoFar'
    BY <1>1, <1>3 DEF CallSoFar
  <2>3. CASE PluginNow' = PluginNow
    BY <2>2, <2>3, <2>a DEF Contract!vars
  <2>4. CASE /\ PluginNow.debuggee = "running" /\ PluginNow.stops < MaxStops
             /\ PluginNow' = Halted(PluginNow)
    BY <2>2, <2>4, <2>a DEF Contract!Next, Contract!DebuggeeStops, Contract!Halted, Halted
  <2>5. CASE PluginNow.debuggee = "running" /\ PluginNow' = Exited(PluginNow)
    BY <2>2, <2>5, <2>a DEF Contract!Next, Contract!DebuggeeExits, Contract!Exited, Exited
  <2> QED  BY <2>1, <2>3, <2>4, <2>5 DEF Drifted
<1>4. CASE pc # "idle"
  <2>1. UNCHANGED <<pc, chosen, action, replies, entry, target>>
    BY <1>1 DEF call
  <2>2. Before' = Before /\ After' = After
    BY <2>1 DEF Before, After
  <2>3. pc # "threads"
    BY <1>2 DEF IInv, LoopFollows
  <2>4. pc = "action" => Drifted(Before, PluginNow')
    BY <1>1, ProcessDrifts DEF CallSoFar, Fields
  <2>5. pc = "wait" => Drifted(After, PluginNow')
    BY <1>1, ProcessDrifts DEF CallSoFar, Fields
  <2>6. \E request \in Request : Asked(request)'
    <3>1. PICK request \in Request : Asked(request)
      BY <1>4 DEF CallSoFar
    <3> QED  BY <2>1, <3>1, AskedStays
  <2>7. CallSoFar'
    <3>1. /\ action' = "Run" => entry'.plugin.state # "Running"
          /\ pc' = "action" => state' = entry'.plugin.state /\ Drifted(Before', PluginNow')
          /\ pc' = "wait" => Drifted(After', PluginNow') /\ After'.state = "Running"
                /\ (action' = "Run" /\ entry'.plugin.state = "NoTarget" => target' = "valid")
          /\ pc' # "threads"
      BY <1>2, <1>4, <2>1, <2>2, <2>3, <2>4, <2>5 DEF CallSoFar
    <3> QED  BY <2>6, <3>1 DEF CallSoFar, Drifted
  <2> QED  BY <1>4, <2>1, <2>7, Unseen DEF Contract!vars
<1> QED  BY <1>3, <1>4

\* A step from the requests or the action to the wait.
LEMMA ReachesWait ==
    ASSUME IInv, IInv', CallSoFar, pc = "action", pc' = "wait",
           UNCHANGED <<target, action, chosen, replies, entry>>,
           action = "Run" /\ entry.plugin.state = "NoTarget" => target = "valid",
           After.state = "Running", Drifted(After, PluginNow')
    PROVE  CallSoFar' /\ UNCHANGED <<PluginMap, ReplyMap>>
<1>1. UNCHANGED <<PluginMap, ReplyMap>>
  BY Unseen
<1>2. \E request \in Request : Asked(request)'
  <2>1. PICK request \in Request : Asked(request)
    BY DEF CallSoFar
  <2> QED  BY <2>1, AskedStays
<1>3. Before' = Before /\ After' = After
  BY DEF Before, After
<1> QED  BY <1>1, <1>2, <1>3 DEF CallSoFar, Drifted

\* A step that ends the call.
LEMMA EndsCall ==
    ASSUME IInv, IInv', CallSoFar, pc # "idle", pc' = "idle", UNCHANGED <<target, replies>>,
           NEW p \in AfterAction(Before, action), PluginNow' \in AfterWait(p),
           pc = "threads" /\ chosen <=> p.state = "Running" /\ state' # "Running"
    PROVE  CallSoFar' /\ Contract!Next
<1>1. PICK request \in Request : Asked(request)
  BY DEF CallSoFar
<1>2. PluginNow'.state = state'
  BY NextFieldsHold DEF Fields
<1>3. Contract!Next
  BY <1>1, <1>2, CallIsOneStep
<1> QED  BY <1>3 DEF CallSoFar

LEMMA NoAction_LaunchFailsRefine ==
    ASSUME IInv, IInv', CallSoFar, NoAction \/ LaunchFails
    PROVE  CallSoFar' /\ [Contract!Next]_(Contract!vars)
<1>1. /\ pc = "action" /\ UNCHANGED <<state, target, action, chosen, replies, entry>>
      /\ UNCHANGED proc
      /\ \/ action = "None" /\ pc' = (IF state = "Running" THEN "wait" ELSE "idle")
         \/ action = "Run" /\ state = "NoTarget" /\ pc' = "idle"
  BY DEF NoAction, LaunchFails, AfterActionPc
<1>2. PluginNow' = PluginNow
  BY <1>1 DEF PluginNow, proc, StopVisible, Reported
<1>3. Drifted(Before, PluginNow) /\ state = entry.plugin.state /\ Fields
  BY <1>1, FieldsHold DEF CallSoFar
<1>4. CASE state = "Running"
  <2>1. After = Before /\ action # "Run" /\ pc' = "wait"
    BY <1>1, <1>4 DEF After
  <2> QED  BY <1>1, <1>2, <1>3, <1>4, <2>1, ReachesWait DEF Fields, Contract!vars
<1>5. CASE state # "Running"
  <2>1. PluginNow' = Before /\ Before.state # "Running" /\ Before \in Plugin
    BY <1>2, <1>3, <1>5 DEF Drifted, Fields
  <2>2. Before \in AfterAction(Before, action)
    BY <1>1, <1>3, ActionAllows
  <2>3. PluginNow' \in AfterWait(Before)
    BY <2>1, WaitAllows
  <2>4. pc' = "idle"
    BY <1>1, <1>5
  <2> QED  BY <1>1, <2>1, <2>2, <2>3, <2>4, EndsCall
<1> QED  BY <1>4, <1>5

LEMMA LaunchRefines ==
    ASSUME IInv, IInv', CallSoFar, Launch
    PROVE  CallSoFar' /\ [Contract!Next]_(Contract!vars)
<1>1. /\ pc = "action" /\ action = "Run" /\ state = "NoTarget" /\ target = "valid"
      /\ state' = "Running" /\ process' = "running" /\ pc' = "wait" /\ stops' = stops
      /\ UNCHANGED <<target, action, chosen, replies, entry>>
  BY DEF Launch
<1>2. Drifted(Before, PluginNow) /\ state = entry.plugin.state /\ Fields /\ Fields'
  BY <1>1, FieldsHold, NextFieldsHold DEF CallSoFar
<1>3. process = "none" /\ state \notin StopState /\ ~StopVisible
  BY <1>1 DEF IInv, CallFollows, StopState, StopVisible
<1>4. PluginNow = Before /\ Before \in Plugin /\ Before.stops = stops
  BY <1>1, <1>2, <1>3 DEF Drifted, Fields
<1>5. After = Launched(Before)
  BY <1>1, <1>2, ActionAllows
<1>6. /\ PluginNow' \in Plugin /\ PluginNow'.state = "Running" /\ PluginNow'.target = target
      /\ PluginNow'.debuggee = "running" /\ PluginNow'.stops = stops
  <2>1. ~StopVisible' /\ state' \notin StopState
    BY <1>1 DEF StopVisible, StopState
  <2> QED  BY <1>1, <1>2, <2>1 DEF Fields
<1>7. PluginNow' = After /\ After.state = "Running"
  <2>1. Before.target = target
    BY <1>2 DEF Fields
  <2> QED  BY <1>4, <1>5, <1>6, <2>1, ActedIs, PluginEqual
<1> QED  BY <1>1, <1>7, ReachesWait DEF Drifted, Contract!vars

LEMMA ContinueRefines ==
    ASSUME IInv, IInv', CallSoFar, Continue
    PROVE  CallSoFar' /\ [Contract!Next]_(Contract!vars)
<1>1. /\ pc = "action" /\ action = "Run" /\ state # "NoTarget"
      /\ state' = "Running" /\ process' = "running" /\ pc' = "wait" /\ stops' = stops
      /\ UNCHANGED <<target, action, chosen, replies, entry>>
  BY DEF Continue
<1>2. Drifted(Before, PluginNow) /\ state = entry.plugin.state /\ Fields /\ Fields'
  BY <1>1, FieldsHold, NextFieldsHold DEF CallSoFar
<1>3. state \in StopState /\ state # "Running"
  BY <1>1 DEF IInv, Types, CallFollows, PDDebugState
<1>4. /\ PluginNow = Before /\ Before \in Plugin
      /\ Before.debuggee = "halted" /\ Before.stops = stops
  BY <1>1, <1>2, <1>3 DEF Drifted, Fields
<1>5. After = Continued(Before)
  BY <1>1, <1>2, ActionAllows
<1>6. /\ PluginNow' \in Plugin /\ PluginNow'.state = "Running" /\ PluginNow'.target = target
      /\ PluginNow'.debuggee = "running" /\ PluginNow'.stops = stops
  <2>1. ~StopVisible' /\ state' \notin StopState
    BY <1>1 DEF StopVisible, StopState
  <2> QED  BY <1>1, <1>2, <2>1 DEF Fields
<1>7. PluginNow' = After /\ After.state = "Running"
  <2>1. Before.target = target
    BY <1>2 DEF Fields
  <2> QED  BY <1>4, <1>5, <1>6, <2>1, ActedIs, PluginEqual
<1> QED  BY <1>1, <1>2, <1>7, ReachesWait DEF Drifted, Contract!vars

\* What the wait begins with.
LEMMA WaitFacts ==
    ASSUME IInv, CallSoFar, pc = "wait"
    PROVE  /\ After \in Plugin /\ After \in AfterAction(Before, action)
           /\ After.state = "Running" /\ After.target = target
           /\ Drifted(After, PluginNow)
           /\ state = "Running" /\ state \notin StopState
           /\ PluginNow.debuggee # "halted" => After.debuggee # "halted"
<1>1. /\ After.state = "Running" /\ Drifted(After, PluginNow)
      /\ action = "Run" /\ entry.plugin.state = "NoTarget" => target = "valid"
  BY DEF CallSoFar
<1>2. After \in Plugin /\ After.target = target /\ After \in AfterAction(Before, action)
  BY <1>1, AfterIs, ActionAllows
<1>3. state = "Running" /\ state \notin StopState
  BY DEF IInv, CallFollows, StopState
<1> QED  BY <1>1, <1>2, <1>3 DEF Drifted

LEMMA WaitTimesOutRefines ==
    ASSUME IInv, IInv', CallSoFar, WaitTimesOut
    PROVE  CallSoFar' /\ [Contract!Next]_(Contract!vars)
<1>1. /\ pc = "wait" /\ pc' = "idle" /\ events = << >>
      /\ UNCHANGED <<state, target, proc, replies>>
  BY DEF WaitTimesOut
<1>2. PluginNow' = PluginNow /\ PluginNow \in Plugin
  BY <1>1, FieldsHold DEF PluginNow, proc, StopVisible, Reported, Fields
<1>3. PluginNow.debuggee # "halted"
  <2>1. ~StopVisible /\ process # "halted"
    BY <1>1 DEF StopVisible, IInv, Types
  <2> QED  BY <1>1, <2>1, WaitFacts, FieldsHold DEF Fields
<1>4. PluginNow' \in AfterWait(After)
  BY <1>1, <1>2, <1>3, WaitFacts, WaitAllows
<1> QED  BY <1>1, <1>4, WaitFacts, EndsCall

\* An event that is no stop ends the call, and may make a stop behind it visible.
LEMMA TakeOtherRefines ==
    ASSUME IInv, IInv', CallSoFar, TakeEvent, Head(events) # "stopped"
    PROVE  CallSoFar' /\ [Contract!Next]_(Contract!vars)
<1>1. /\ pc = "wait" /\ pc' = "idle"
      /\ UNCHANGED <<state, target, process, reasons, stops, replies>>
  BY DEF TakeEvent, IsStop
<1>2. Fields /\ Fields'
  BY FieldsHold, NextFieldsHold
<1>3. state = "Running" /\ state \notin StopState /\ ~StopVisible
  BY <1>1, WaitFacts DEF StopVisible
<1>4. PluginNow.debuggee # "halted" /\ process # "halted"
  BY <1>2, <1>3 DEF IInv, Types, Fields
<1>5. /\ After \in Plugin /\ After.state = "Running" /\ After.debuggee # "halted"
      /\ Drifted(After, PluginNow)
  BY <1>1, <1>4, WaitFacts
<1>6. Drifted(After, PluginNow')
  <2>1. CASE StopVisible'
    <3>1. process = "stopped" /\ Reported(reasons)
      BY <1>1, <2>1 DEF StopVisible, Reported
    <3>2. /\ PluginNow.debuggee = "running" /\ PluginNow.stops = stops - 1
          /\ stops \in 1..MaxStops
      BY <1>2, <1>3, <3>1, MaxStopsAssumption DEF Fields, IInv, Types, ProcessFollows
    <3>3. PluginNow = After
      BY <1>5, <3>2, HaltedIs DEF Drifted
    <3>4. /\ PluginNow' \in Plugin /\ PluginNow'.state = "Running"
          /\ PluginNow'.target = After.target
          /\ PluginNow'.debuggee = "halted" /\ PluginNow'.stops = stops
      BY <1>1, <1>2, <1>3, <2>1, <3>3 DEF Fields
    <3>5. After.stops + 1 = stops /\ After.stops < MaxStops /\ After.debuggee = "running"
      BY <3>2, <3>3, MaxStopsAssumption
    <3>6. PluginNow' = Halted(After)
      BY <1>5, <3>4, <3>5, HaltedIs, PluginEqual
    <3> QED  BY <1>5, <3>5, <3>6 DEF Drifted
  <2>2. CASE ~StopVisible'
    <3>1. PluginNow' = PluginNow
      BY <1>1, <1>3, <2>2 DEF PluginNow, Reported
    <3> QED  BY <1>5, <3>1
  <2> QED  BY <2>1, <2>2
<1>7. PluginNow' \in AfterWait(After)
  BY <1>2, <1>5, <1>6, WaitAllows DEF Fields
<1>8. After \in AfterAction(Before, action)
  BY <1>1, WaitFacts
<1> QED  BY <1>1, <1>5, <1>7, <1>8, <1>3, EndsCall

\* A stop begins the loop over the threads.
LEMMA TakeStopRefines ==
    ASSUME IInv, IInv', CallSoFar, TakeEvent, Head(events) = "stopped"
    PROVE  CallSoFar' /\ [Contract!Next]_(Contract!vars)
<1>1. /\ pc = "wait" /\ pc' = "threads" /\ chosen' = FALSE /\ events # << >>
      /\ UNCHANGED <<state, target, process, reasons, stops, action, replies, entry>>
  BY DEF TakeEvent, IsStop
<1>2. process = "stopped"
  BY <1>1 DEF IInv, LoopFollows
<1>3. /\ After \in Plugin /\ After.state = "Running" /\ Drifted(After, PluginNow)
      /\ state \notin StopState
  BY <1>1, WaitFacts
<1>4. StopVisible <=> Reported(reasons)
  BY <1>1, <1>2 DEF StopVisible
<1>5. /\ PluginNow.debuggee = IF Reported(reasons) THEN "halted" ELSE "running"
      /\ PluginNow.stops = stops
  BY <1>2, <1>3, <1>4, FieldsHold DEF Fields
<1>6. AtStop(After)
  BY <1>2, <1>3, <1>5, HaltedIs DEF Drifted, AtStop
<1>7. UNCHANGED <<PluginMap, ReplyMap>>
  BY <1>1, Unseen
<1>8. \E request \in Request : Asked(request)'
  <2>1. PICK request \in Request : Asked(request)
    BY <1>1 DEF CallSoFar
  <2> QED  BY <1>1, <2>1, AskedStays
<1>9. After' = After /\ AtStop(After)'
  BY <1>1, <1>6 DEF After, Before, AtStop, Reported
<1> QED  BY <1>1, <1>3, <1>7, <1>8, <1>9 DEF CallSoFar, Contract!vars

\* More locations leave the target's reply alone.
LEMMA ToldMore ==
    ASSUME NEW rs \in Seq(Reply), NEW more \in Seq(Reply), NEW t, NEW request, NEW found,
           Told(rs, t, request, found),
           \A i \in 1..Len(more) : more[i].reply = "exception_location_reply"
    PROVE  Told(rs \o more, t, request, found \/ more # << >>)
<1>1. /\ Len(rs \o more) = Len(rs) + Len(more) /\ Len(rs) \in Nat /\ Len(more) \in Nat
      /\ \A i \in 1..(Len(rs) + Len(more)) :
            (rs \o more)[i] = IF i <= Len(rs) THEN rs[i] ELSE more[i - Len(rs)]
      /\ rs \o more \in Seq(Reply)
  BY ConcatProperties, LenProperties
<1>2. /\ \A i \in 1..Len(rs) : (rs \o more)[i] = rs[i]
      /\ \A i \in (Len(rs) + 1)..(Len(rs) + Len(more)) :
            (rs \o more)[i].reply = "exception_location_reply"
  BY <1>1
<1>3. /\ rs # << >> => Len(rs) >= 1
      /\ more # << >> => Len(more) >= 1
      /\ more = << >> => Len(more) = 0
  BY <1>1, EmptySeq
<1>4. request = "file_target_request" => rs \o more # << >> /\ (rs \o more)[1] = TargetMsg(t)
  <2>1. ASSUME request = "file_target_request"
        PROVE  rs # << >> /\ rs[1] = TargetMsg(t) /\ Len(rs) >= 1
    BY <2>1, <1>3 DEF Told
  <2>2. ASSUME Len(rs) >= 1  PROVE rs \o more # << >> /\ (rs \o more)[1] = rs[1]
    BY <2>2, <1>1, <1>2, EmptySeq
  <2> QED  BY <2>1, <2>2
<1>5. \A i \in 1..(Len(rs) + Len(more)) :
         request # "file_target_request" \/ i # 1 =>
             (rs \o more)[i].reply = "exception_location_reply"
  BY <1>1, <1>2 DEF Told
<1>6. (\E i \in 1..(Len(rs) + Len(more)) : (rs \o more)[i].reply = "exception_location_reply")
          <=> (\E i \in 1..Len(rs) : rs[i].reply = "exception_location_reply") \/ more # << >>
  <2>1. ASSUME NEW i \in 1..(Len(rs) + Len(more)),
               (rs \o more)[i].reply = "exception_location_reply"
        PROVE  (\E j \in 1..Len(rs) : rs[j].reply = "exception_location_reply") \/ more # << >>
    BY <2>1, <1>1, <1>2, <1>3
  <2>2. ASSUME NEW i \in 1..Len(rs), rs[i].reply = "exception_location_reply"
        PROVE  \E j \in 1..(Len(rs) + Len(more)) : (rs \o more)[j].reply = "exception_location_reply"
    BY <2>2, <1>1, <1>2
  <2>3. ASSUME more # << >>
        PROVE  \E j \in 1..(Len(rs) + Len(more)) : (rs \o more)[j].reply = "exception_location_reply"
    <3>1. Len(rs) + 1 \in (Len(rs) + 1)..(Len(rs) + Len(more))
          /\ Len(rs) + 1 \in 1..(Len(rs) + Len(more))
      BY <2>3, <1>1, <1>3
    <3> QED  BY <3>1, <1>2
  <2> QED  BY <2>1, <2>2, <2>3
<1> QED  BY <1>1, <1>4, <1>5, <1>6 DEF Told

\* The loop changes what the contract sees at its end only; it sends a location as soon as it
\* has chosen a thread, and not before.
LEMMA VisitThreadRefines ==
    ASSUME IInv, IInv', CallSoFar, VisitThread
    PROVE  CallSoFar' /\ [Contract!Next]_(Contract!vars)
<1> DEFINE r    == reasons[index]
           st   == StateOnReason(r, state)
           sent == IF SendsOnReason(r, state) THEN <<Location>> ELSE << >>
           last == SelectionLocation(index, st)
<1>1. /\ pc = "threads" /\ pc' = "threads" /\ index <= Len(reasons)
      /\ UNCHANGED <<target, process, reasons, stops, action, entry>>
  BY DEF VisitThread, proc
<1>2. \/ /\ r # "none" /\ chosen = FALSE /\ chosen' = TRUE
         /\ replies' = replies \o sent \o last
      \/ /\ r = "none" \/ chosen = TRUE
         /\ replies' = replies \o sent
         /\ UNCHANGED chosen
  BY DEF VisitThread, Selects, IInv, Types
<1>3. /\ index \in Thread /\ r \in StopReason /\ selected \in Thread \union {NoThread}
      /\ replies \in Seq(Reply) /\ (chosen = FALSE => state = "Running")
  <2>1. /\ index \in Nat \ {0} /\ Len(reasons) \in Nat /\ Len(reasons) <= MaxThreads
        /\ replies \in Seq(Reply)
    BY <1>1, LoopFacts
  <2>2. index \in 1..Len(reasons)
    BY <1>1, <2>1
  <2>3. reasons \in Seq(StopReason) /\ selected \in Thread \union {NoThread}
    BY DEF IInv, Types
  <2>4. chosen = FALSE => state = "Running"
    BY <1>1 DEF IInv, LoopFollows
  <2> QED  BY <2>1, <2>2, <2>3, <2>4, LLDBAssumption, ElementOfSeq DEF Thread
<1>4. /\ r = "none" => sent = << >>
      /\ r # "none" /\ state = "Running" /\ st = "StopException" => sent = <<Location>>
  BY <1>3 DEF StateOnReason, SendsOnReason, StopReason
<1>5. /\ sent \in Seq(Reply) /\ sent \in {<< >>, <<LocationMsg(selected)>>}
      /\ last \in Seq(Reply) /\ last \in {<< >>, <<LocationMsg(index)>>}
      /\ st # "StopException" => last = <<LocationMsg(index)>>
  <2>1. "none" \in Target
    BY DEF Target
  <2>2. LocationMsg(index) \in Reply /\ LocationMsg(selected) \in Reply
    BY <1>3, <2>1, MessageTypes
  <2>3. /\ sent = << >> \/ sent = <<LocationMsg(selected)>>
        /\ last = IF st = "StopException" THEN << >> ELSE <<LocationMsg(index)>>
    BY DEF Location, SelectionLocation
  <2>4. /\ << >> \in Seq(Reply) /\ <<LocationMsg(selected)>> \in Seq(Reply)
        /\ <<LocationMsg(index)>> \in Seq(Reply)
    BY <2>2, EmptySeq
  <2> HIDE DEF st, sent, last
  <2>5. sent \in Seq(Reply) /\ sent \in {<< >>, <<LocationMsg(selected)>>}
    <3>1. CASE sent = << >>
      BY <3>1, <2>4, Zenon
    <3>2. CASE sent = <<LocationMsg(selected)>>
      BY <3>2, <2>4, Zenon
    <3> QED  BY <2>3, <3>1, <3>2
  <2>6. CASE st = "StopException"
    <3>1. last = << >>
      BY <2>3, <2>6
    <3> QED  BY <3>1, <2>4, <2>5, <2>6, Zenon
  <2>7. CASE st # "StopException"
    <3>1. last = <<LocationMsg(index)>>
      BY <2>3, <2>7
    <3> QED  BY <3>1, <2>4, <2>5, Zenon
  <2> QED  BY <2>6, <2>7
<1>6. \A n : /\ <<LocationMsg(n)>> # << >> /\ Len(<<LocationMsg(n)>>) = 1 /\ Len(<< >>) = 0
             /\ <<LocationMsg(n)>>[1].reply = "exception_location_reply"
  BY DEF LocationMsg
<1> HIDE DEF r, st, sent, last
<1>7. /\ \A i \in 1..Len(sent) : sent[i].reply = "exception_location_reply"
      /\ \A i \in 1..Len(last) : last[i].reply = "exception_location_reply"
  BY <1>5, <1>6
<1>8. \E request \in Request : Asked(request)'
  <2>1. PICK request \in Request : Asked(request)
    BY <1>1 DEF CallSoFar
  <2>2. Told(replies, target, request, chosen)
    BY <1>1, <2>1 DEF Asked, Told
  <2>3. Told(replies \o sent, target, request, chosen \/ sent # << >>)
    BY <1>3, <1>5, <1>7, <2>2, ToldMore
  <2>4. CASE r # "none" /\ chosen = FALSE /\ chosen' = TRUE /\ replies' = replies \o sent \o last
    <3>1. replies \o sent \in Seq(Reply)
      BY <1>3, <1>5, ConcatProperties
    <3>2. Told((replies \o sent) \o last, target, request, (chosen \/ sent # << >>) \/ last # << >>)
      BY <1>5, <1>7, <2>3, <3>1, ToldMore
    <3>3. sent # << >> \/ last # << >>
      BY <1>3, <1>4, <1>5, <1>6, <2>4 DEF Location
    <3>4. Told(replies', target', request, (pc = "threads" /\ chosen)')
      BY <1>1, <2>4, <3>2, <3>3 DEF Told
    <3> QED  BY <1>1, <2>1, <3>4 DEF Asked
  <2>5. CASE (r = "none" \/ chosen = TRUE) /\ replies' = replies \o sent /\ UNCHANGED chosen
    <3>1. sent # << >> => chosen
      BY <1>4, <2>5
    <3>2. Told(replies', target', request, (pc = "threads" /\ chosen)')
      BY <1>1, <2>3, <2>5, <3>1 DEF Told
    <3> QED  BY <1>1, <2>1, <3>2 DEF Asked
  <2> QED  BY <1>2, <2>4, <2>5
<1>9. After' = After /\ (AtStop(After) => AtStop(After)')
  BY <1>1 DEF After, Before, AtStop, Reported
<1>10. CallSoFar'
  <2>1. /\ pc' = "threads" /\ AtStop(After)' /\ After'.state = "Running"
        /\ (action' = "Run" => entry'.plugin.state # "Running")
        /\ (action' = "Run" /\ entry'.plugin.state = "NoTarget" => target' = "valid")
    BY <1>1, <1>9 DEF CallSoFar
  <2> QED  BY <1>8, <2>1 DEF CallSoFar
<1> QED  BY <1>1, <1>10, Unseen DEF Contract!vars

\* At the end of the loop a thread was chosen exactly if the stop is one that is reported.
LEMMA EndOfThreadsRefines ==
    ASSUME IInv, IInv', CallSoFar, EndOfThreads
    PROVE  CallSoFar' /\ [Contract!Next]_(Contract!vars)
<1>1. /\ pc = "threads" /\ pc' = "idle" /\ index > Len(reasons)
      /\ UNCHANGED <<state, target, proc, replies>>
  BY DEF EndOfThreads
<1>2. /\ AtStop(After) /\ After.state = "Running"
      /\ (action = "Run" /\ entry.plugin.state = "NoTarget" => target = "valid")
  BY <1>1 DEF CallSoFar
<1>3. After \in Plugin /\ After.target = target /\ After \in AfterAction(Before, action)
  BY <1>2, AfterIs, ActionAllows
<1>4. PluginNow' = PluginNow /\ Fields
  BY <1>1, FieldsHold DEF PluginNow, proc, StopVisible, Reported
<1>5. index - 1 = Len(reasons) /\ process = "stopped" /\ ~Pending
  BY <1>1, LoopFacts
<1>6. ~StopVisible
  <2>1. events \in Seq(ListenerEvent)
    BY DEF IInv, Types
  <2>2. ASSUME events # << >>, Head(events) = "stopped"  PROVE FALSE
    <3>1. events[1] = "stopped" /\ 1 \in 1..Len(events)
      BY <2>1, <2>2, LenProperties, EmptySeq
    <3> QED  BY <1>5, <3>1 DEF Pending
  <2> QED  BY <2>2 DEF StopVisible
<1>7. CASE chosen
  <2>1. state \in StopState /\ FirstAmong(Len(reasons))
    BY <1>1, <1>5, <1>7 DEF IInv, LoopFollows
  <2>2. Reported(reasons)
    BY <2>1 DEF FirstAmong, Reported
  <2>3. /\ PluginNow.state \in StopState /\ PluginNow.target = After.target
        /\ PluginNow.debuggee = "halted" /\ PluginNow.stops = stops /\ PluginNow \in Plugin
    BY <1>3, <1>4, <2>1 DEF Fields
  <2>4. PluginNow' \in AfterWait(After)
    BY <1>2, <1>3, <1>4, <2>2, <2>3, WaitAllows DEF AtStop
  <2>5. state' # "Running"
    BY <1>1, <2>1 DEF StopState
  <2> QED  BY <1>1, <1>2, <1>3, <1>7, <2>4, <2>5, EndsCall
<1>8. CASE ~chosen
  <2>1. state = "Running" /\ NoneAmong(Len(reasons))
    BY <1>1, <1>5, <1>8 DEF IInv, LoopFollows
  <2>2. ~Reported(reasons) /\ state \notin StopState
    BY <2>1 DEF NoneAmong, Reported, StopState
  <2>3. /\ PluginNow.state = After.state /\ PluginNow.target = After.target
        /\ PluginNow.debuggee = "running" /\ PluginNow.stops = stops /\ PluginNow \in Plugin
    BY <1>2, <1>3, <1>4, <1>5, <1>6, <2>1, <2>2 DEF Fields
  <2>4. PluginNow = After
    BY <1>2, <1>3, <2>2, <2>3, PluginEqual DEF AtStop
  <2>5. PluginNow' \in AfterWait(After)
    BY <1>2, <1>3, <1>4, <2>3, <2>4, WaitAllows DEF Drifted
  <2>6. state' = "Running"
    BY <1>1, <2>1
  <2> QED  BY <1>1, <1>2, <1>3, <1>8, <2>5, <2>6, EndsCall
<1> QED  BY <1>7, <1>8

LEMMA InitRefines == Init => CallSoFar /\ Contract!Init
<1> SUFFICES ASSUME Init PROVE CallSoFar /\ Contract!Init
  OBVIOUS
<1>1. pc = "idle" /\ PluginMap = PluginNow /\ ReplyMap = ReplyNow
  BY DEF Init, PluginMap, ReplyMap
<1>2. PluginNow = Contract!NewPlugin
  BY DEF Init, PluginNow, StopVisible, StopState, Contract!NewPlugin
<1>3. ReplyNow = Contract!NoReply
  BY DEF Init, ReplyNow, Contract!NoReply
<1> QED  BY <1>1, <1>2, <1>3 DEF CallSoFar, Contract!Init

LEMMA StepRefines ==
    IInv /\ IInv' /\ CallSoFar /\ [Next]_vars => CallSoFar' /\ [Contract!Next]_(Contract!vars)
<1> SUFFICES ASSUME IInv, IInv', CallSoFar, [Next]_vars
             PROVE  CallSoFar' /\ [Contract!Next]_(Contract!vars)
  OBVIOUS
<1>1. CASE \E a \in PDAction, request \in Request : ProcessEvents(a, request)
  BY <1>1, BeginsCall DEF Contract!vars
<1>2. CASE NoAction \/ LaunchFails
  BY <1>2, NoAction_LaunchFailsRefine
<1>3. CASE Launch
  BY <1>3, LaunchRefines
<1>4. CASE Continue
  BY <1>4, ContinueRefines
<1>5. CASE WaitTimesOut
  BY <1>5, WaitTimesOutRefines
<1>6. CASE TakeEvent
  BY <1>6, TakeOtherRefines, TakeStopRefines
<1>7. CASE VisitThread
  BY <1>7, VisitThreadRefines
<1>8. CASE EndOfThreads
  BY <1>8, EndOfThreadsRefines
<1>9. CASE Process
  BY <1>9, ProcessRefines
<1>10. CASE UNCHANGED vars
  <2>1. UNCHANGED <<state, target, process, reasons, events, stops, pc, action, chosen,
                    replies, entry>>
    BY <1>10 DEF vars, proc, call
  <2>2. CallSoFar'
    BY <2>1 DEF CallSoFar, Asked, Told, Drifted, AtStop, After, Before, PluginNow,
                StopVisible, Reported
  <2>3. UNCHANGED <<PluginMap, ReplyMap>>
    BY <2>1 DEF PluginMap, ReplyMap, PluginNow, ReplyNow, StopVisible, Reported
  <2> QED  BY <2>2, <2>3 DEF Contract!vars
<1> QED
  BY <1>1, <1>2, <1>3, <1>4, <1>5, <1>6, <1>7, <1>8, <1>9, <1>10 DEF Next, UpdateStep

\* Every call of the LLDB plugin, whatever the process does while it lasts, is one step of the
\* contract BackendSession relies on: for any number of threads, of events and of stops.
THEOREM Implements == Spec => ImplementsContract
<1>1. Init => Contract!Init /\ CallSoFar
  BY InitRefines
<1>2. IInv /\ IInv' /\ CallSoFar /\ [Next]_vars => CallSoFar' /\ [Contract!Next]_(Contract!vars)
  BY StepRefines
<1> QED  BY <1>1, <1>2, Invariance, PTL DEF Spec, ImplementsContract, Contract!Spec
=============================================================================
