--------------------------- MODULE AmigaUaeProofs ---------------------------
(***************************************************************************)
(* A program is launched with its breakpoints armed and with the line      *)
(* tables of its file, and the location that is shown is where the         *)
(* emulator has stopped, at the line the tables have for it: for any       *)
(* executables, any breakpoints set in any order before and after each     *)
(* run, and any emulators that answer late or not at all.                  *)
(***************************************************************************)
EXTENDS AmigaUae, SequenceTheorems, WellFoundedInduction, TLAPS

-----------------------------------------------------------------------------
(* The inductive invariant.                                                 *)

BreakpointSet == {OnLine(s) : s \in SourceLines} \union {OnAddress(a) : a \in Addresses}

Types ==
    /\ breakpoints \in Seq(BreakpointSet)
    /\ next \in Nat
    /\ pc \in {"idle", "incoming", "event", "action", "stepped", "handshake", "arm", "panicked"}
    /\ "armed" \in DOMAIN uae

\* What the user asked for is in the list: nothing is ever taken from it.
AskedInList == \A b \in asked : \E i \in 1..Len(breakpoints) : breakpoints[i] = b

\* The breakpoints that were sent are armed, unless the connection or the emulator has gone;
\* the lines do not change while they are sent.
ArmedSoFar ==
    pc = "arm" =>
        /\ next >= 1
        /\ stream /\ alive =>
               \A i \in 1..Len(breakpoints) :
                   i < next /\ PlaceOf(breakpoints[i]) # NoPlace =>
                       PlaceOf(breakpoints[i]) \in uae.armed

IInv == Types /\ AskedInList /\ ArmedSoFar

-----------------------------------------------------------------------------
(* The emulator's end of an exchange.                                       *)

\* Only z0 disarms anything, and Z0 arms its place.
LEMMA ExecutedArms ==
    ASSUME "armed" \in DOMAIN uae, NEW command, NEW done \in Executed(command)
    PROVE  /\ "armed" \in DOMAIN done.uae
           /\ command.name # "z0" => uae.armed \subseteq done.uae.armed
           /\ command.name = "Z0" => command.place \in done.uae.armed
<1>1. CASE command.name = "s"
  <2>1. Executed(command) = {[uae |-> [uae EXCEPT !.run = "no", !.at = a], answer |-> StopPacket] :
                                 a \in Reachable(uae.exe)}
    BY <1>1 DEF Executed
  <2>2. PICK a \in Reachable(uae.exe) :
            done = [uae |-> [uae EXCEPT !.run = "no", !.at = a], answer |-> StopPacket]
    BY <2>1, Zenon
  <2>3. done.uae = [uae EXCEPT !.run = "no", !.at = a]
    BY <2>2
  <2> QED  BY <1>1, <2>3
<1>2. CASE command.name = "c"
  <2>1. done.uae = [uae EXCEPT !.run = "free", !.at = 0]
    BY <1>2 DEF Executed
  <2> QED  BY <1>2, <2>1
<1>3. CASE command.name = "Z0"
  <2>1. done.uae = [uae EXCEPT !.armed = uae.armed \union {command.place}]
    BY <1>3 DEF Executed
  <2> QED  BY <1>3, <2>1
<1>4. CASE command.name = "z0"
  <2>1. done.uae = [uae EXCEPT !.armed = uae.armed \ {command.place}]
    BY <1>4 DEF Executed
  <2> QED  BY <1>4, <2>1
<1>5. CASE command.name = "vRun"
  <2>1. done.uae = [uae EXCEPT !.exe = command.exe, !.run = "free", !.at = 0]
    BY <1>5 DEF Executed
  <2> QED  BY <1>5, <2>1
<1>6. CASE command.name \notin {"s", "c", "Z0", "z0", "vRun"}
  <2>1. Executed(command) \in {{[uae |-> uae, answer |-> Packet("registers", uae.at, NoExe)]},
                               {[uae |-> uae, answer |-> DataPacket]},
                               {[uae |-> uae, answer |-> OK]}}
    BY <1>6 DEF Executed
  <2>2. done.uae = uae
    BY <2>1
  <2> QED  BY <1>6, <2>2
<1> QED  BY <1>1, <1>2, <1>3, <1>4, <1>5, <1>6

\* An exchange does not bring a connection or an emulator back.
LEMMA ExchangeArms ==
    ASSUME "armed" \in DOMAIN uae, NEW command, NEW reply, Exchange(command, reply)
    PROVE  /\ "armed" \in DOMAIN uae'
           /\ stream' => stream
           /\ alive' = alive
           /\ command.name # "z0" => uae.armed \subseteq uae'.armed
           /\ command.name = "Z0" /\ stream /\ alive => command.place \in uae'.armed
<1>1. CASE ~stream \/ ~alive
  BY <1>1 DEF Exchange
<1>2. CASE stream /\ alive
  <2>1. PICK done \in Executed(command) : uae' = done.uae
    BY <1>2 DEF Exchange
  <2>2. UNCHANGED <<stream, alive>>
    BY <1>2 DEF Exchange
  <2> QED  BY <1>2, <2>1, <2>2, ExecutedArms
<1> QED  BY <1>1, <1>2

LEMMA SendArms ==
    ASSUME "armed" \in DOMAIN uae, NEW name \in {"Z0", "z0"}, NEW place, Send(name, place)
    PROVE  /\ "armed" \in DOMAIN uae'
           /\ stream' => stream
           /\ alive' = alive
           /\ name = "Z0" => uae.armed \subseteq uae'.armed
           /\ name = "Z0" /\ stream /\ alive /\ place # NoPlace => place \in uae'.armed
<1>1. CASE place = NoPlace
  BY <1>1 DEF Send
<1>2. CASE place # NoPlace
  <2>1. PICK reply : Exchange(Command(name, place, NoExe), reply)
    BY <1>2 DEF Send
  <2>2. /\ Command(name, place, NoExe).name = name
        /\ Command(name, place, NoExe).place = place
    BY DEF Command
  <2> QED  BY <2>1, <2>2, ExchangeArms
<1> QED  BY <1>1, <1>2

\* Registers are read, or the plugin panics; memory too.
LEMMA RegistersRead ==
    ASSUME NEW then, ReadRegisters(then)
    PROVE  \E reply :
             /\ Exchange(Plainly("g"), reply)
             /\ \/ pc' = then /\ location' = IF reply = NoPacket THEN location ELSE reply.at
                \/ pc' = "panicked" /\ location' = location
  BY Zenon DEF ReadRegisters, Panic

LEMMA MemoryRead ==
    ASSUME GetMemory
    PROVE  /\ UNCHANGED <<exe, breakpoints, asked, location>>
           /\ pc' \in {"action", "panicked"}
           /\ \E reply : Exchange(Plainly("m"), reply)
<1>1. UNCHANGED <<exe, breakpoints, asked, location>> /\ (pc' = "action" \/ pc' = "panicked")
  BY Zenon DEF GetMemory, Panic
<1>2. \E reply : Exchange(Plainly("m"), reply)
  BY Zenon DEF GetMemory
<1> QED  BY <1>1, <1>2

-----------------------------------------------------------------------------
(* The steps.                                                               *)

\* A step that leaves the list alone and is not within the sending of breakpoints.
LEMMA OutsideArm ==
    ASSUME IInv, UNCHANGED <<breakpoints, asked>>, next' \in Nat,
           pc' \in {"idle", "incoming", "event", "action", "stepped", "handshake", "panicked"},
           "armed" \in DOMAIN uae'
    PROVE  IInv'
  BY DEF IInv, Types, AskedInList, ArmedSoFar

LEMMA EventStep ==
    ASSUME IInv, NEW event \in Event, HandleEvent(event)
    PROVE  IInv'
<1> USE DEF IInv
<1>0. pc' \in {"action", "panicked"}
  BY RegistersRead, MemoryRead DEF HandleEvent, GetRegisters
<1>1. pc' \in {"action", "panicked"} /\ next' \in Nat
  BY <1>0 DEF HandleEvent, Types
<1>2. ASSUME NEW b \in BreakpointSet, SetBreakpoint(b)
      PROVE  breakpoints' \in Seq(BreakpointSet) /\ AskedInList' /\ "armed" \in DOMAIN uae'
  <2>1. /\ breakpoints' = Append(breakpoints, b) /\ asked' = asked \union {b}
        /\ breakpoints \in Seq(BreakpointSet)
        /\ Send("Z0", PlaceOf(b))
    BY <1>2 DEF SetBreakpoint, Types
  <2>2. /\ breakpoints' \in Seq(BreakpointSet) /\ Len(breakpoints) \in Nat
        /\ Len(breakpoints') = Len(breakpoints) + 1
        /\ \A i \in 1..Len(breakpoints) : breakpoints'[i] = breakpoints[i]
        /\ breakpoints'[Len(breakpoints) + 1] = b
    BY <2>1, AppendProperties, LenProperties
  <2>3. ASSUME NEW a \in asked' PROVE \E i \in 1..Len(breakpoints') : breakpoints'[i] = a
    <3>1. CASE a = b
      <4>1. Len(breakpoints) + 1 \in 1..Len(breakpoints')
        BY <2>2
      <4> QED  BY <2>2, <3>1, <4>1
    <3>2. CASE a \in asked
      <4>1. PICK i \in 1..Len(breakpoints) : breakpoints[i] = a
        BY <3>2 DEF AskedInList
      <4>2. i \in 1..Len(breakpoints')
        BY <2>2
      <4> QED  BY <2>2, <4>1, <4>2
    <3> QED  BY <2>1, <2>3, <3>1, <3>2
  <2>4. "armed" \in DOMAIN uae'
    BY <2>1, SendArms DEF Types
  <2> QED  BY <2>2, <2>3, <2>4 DEF AskedInList
<1>3. breakpoints' \in Seq(BreakpointSet) /\ AskedInList' /\ "armed" \in DOMAIN uae'
  <2>1. CASE event.kind \in {"none", "set file"}
    BY <2>1 DEF HandleEvent, Offline, Types, AskedInList
  <2>2. CASE event.kind = "registers"
    <3>0. GetRegisters
      BY <2>2 DEF HandleEvent
    <3>1. PICK reply : Exchange(Plainly("g"), reply)
      BY <3>0, RegistersRead DEF GetRegisters
    <3> QED  BY <3>0, <3>1, ExchangeArms DEF GetRegisters, Types, AskedInList
  <2>6. CASE event.kind = "memory"
    <3>0. GetMemory
      BY <2>6 DEF HandleEvent
    <3>1. PICK reply : Exchange(Plainly("m"), reply)
      BY <3>0, MemoryRead
    <3> QED  BY <3>0, <3>1, MemoryRead, ExchangeArms DEF Types, AskedInList
  <2>3. CASE event.kind = "set line"
    <3>1. OnLine(event.source) \in BreakpointSet
      BY <2>3 DEF Event, BreakpointSet
    <3> QED  BY <1>2, <2>3, <3>1 DEF HandleEvent
  <2>4. CASE event.kind = "set address"
    <3>1. OnAddress(event.address) \in BreakpointSet
      BY <2>4 DEF Event, BreakpointSet
    <3> QED  BY <1>2, <2>4, <3>1 DEF HandleEvent
  <2>5. CASE event.kind = "delete address"
    <3>1. Send("z0", AtAddress(event.address)) /\ UNCHANGED breakpoints /\ asked' \subseteq asked
      BY <2>5 DEF HandleEvent, DeleteBreakpoint
    <3> QED  BY <3>1, SendArms DEF Types, AskedInList
  <2> QED  BY <2>1, <2>2, <2>3, <2>4, <2>5, <2>6 DEF HandleEvent
<1> QED  BY <1>1, <1>3 DEF Types, ArmedSoFar

LEMMA ActionStep ==
    ASSUME IInv, NEW action \in Action, HandleAction(action)
    PROVE  IInv'
<1> USE DEF IInv
<1>1. UNCHANGED <<breakpoints, asked>> /\ pc = "action"
  BY DEF HandleAction
<1>2. CASE NoAction(action)
  BY <1>1, <1>2, OutsideArm DEF NoAction, link, Types
<1>3. ASSUME NEW state, Step(state) PROVE IInv'
  <2>1. PICK reply : Exchange(Plainly("s"), reply)
    BY <1>3 DEF Step
  <2>2. pc' \in {"idle", "stepped"} /\ UNCHANGED next
    BY <1>3 DEF Step
  <2> QED  BY <1>1, <2>1, <2>2, ExchangeArms, OutsideArm DEF Types
<1>4. CASE StepOver
  BY <1>1, <1>4, OutsideArm DEF StepOver, Types
<1>5. CASE Stop
  BY <1>1, <1>5, OutsideArm DEF Stop, Types
<1>6. CASE Continue
  <2>1. PICK reply : Exchange(Plainly("c"), reply)
    BY <1>6 DEF Continue
  <2> QED  BY <1>1, <1>6, <2>1, ExchangeArms, OutsideArm DEF Continue, Types
\* The breakpoints are sent from the first one on, over the lines that were just loaded.
<1>7. CASE Run
  <2>1. /\ pc' \in {"idle", "handshake", "arm"}
        /\ next' = IF pc' = "idle" THEN 0 ELSE 1
        /\ "armed" \in DOMAIN uae'
    BY <1>7 DEF Run, Connects, Emulator, Types
  <2>2. Types' /\ AskedInList'
    BY <1>1, <2>1 DEF Types, AskedInList
  <2>3. ArmedSoFar'
    BY <1>1, <2>1, LenProperties DEF ArmedSoFar, Types
  <2> QED  BY <2>2, <2>3
<1> QED  BY <1>2, <1>3, <1>4, <1>5, <1>6, <1>7 DEF HandleAction

LEMMA HandshakeStep ==
    ASSUME IInv, Handshake
    PROVE  IInv'
<1> USE DEF IInv
<1>1. PICK reply : /\ Exchange(Plainly("QStartNoAckMode"), reply)
                   /\ pc' = IF reply = NoPacket THEN "idle" ELSE "arm"
                   /\ next' = IF reply = NoPacket THEN 0 ELSE 1
  BY DEF Handshake
<1>2. UNCHANGED <<breakpoints, asked>> /\ "armed" \in DOMAIN uae'
  BY <1>1, ExchangeArms DEF Handshake, session, Types
<1>3. Types' /\ AskedInList'
  BY <1>1, <1>2 DEF Types, AskedInList
<1>4. ArmedSoFar'
  BY <1>1, <1>2, LenProperties DEF ArmedSoFar, Types
<1> QED  BY <1>3, <1>4

LEMMA SendBreakpointStep ==
    ASSUME IInv, SendBreakpoint
    PROVE  IInv'
<1> USE DEF IInv
<1>1. /\ pc = "arm" /\ pc' = "arm" /\ next' = next + 1 /\ next \in Nat
      /\ UNCHANGED <<breakpoints, asked, hunks>>
      /\ Send("Z0", PlaceOf(breakpoints[next]))
  BY DEF SendBreakpoint, session, Types
<1>2. /\ "armed" \in DOMAIN uae'
      /\ stream' => stream
      /\ alive' = alive
      /\ uae.armed \subseteq uae'.armed
      /\ stream /\ alive /\ PlaceOf(breakpoints[next]) # NoPlace =>
             PlaceOf(breakpoints[next]) \in uae'.armed
  BY <1>1, SendArms DEF Types
<1>3. Types' /\ AskedInList'
  BY <1>1, <1>2 DEF Types, AskedInList
<1>4. \A i \in 1..Len(breakpoints) : PlaceOf(breakpoints[i])' = PlaceOf(breakpoints[i])
  BY <1>1 DEF PlaceOf
<1>5. ASSUME stream', alive', NEW i \in 1..Len(breakpoints), i < next + 1,
             PlaceOf(breakpoints[i]) # NoPlace
      PROVE  PlaceOf(breakpoints[i]) \in uae'.armed
  <2>1. CASE i = next
    BY <1>2, <1>5, <2>1
  <2>2. CASE i < next
    BY <1>1, <1>2, <1>5, <2>2 DEF ArmedSoFar
  <2> QED  BY <1>1, <1>5, <2>1, <2>2
<1>6. ArmedSoFar'
  BY <1>1, <1>4, <1>5 DEF ArmedSoFar
<1> QED  BY <1>3, <1>6

LEMMA LaunchStep ==
    ASSUME IInv, Launch
    PROVE  IInv'
<1>1. PICK reply : Exchange(Command("vRun", NoPlace, exe), reply)
  BY DEF Launch
<1> QED  BY <1>1, ExchangeArms, OutsideArm DEF Launch, IInv, Types

\* What the emulator does of its own accord disarms nothing, unless it goes.
LEMMA EmulatorStep ==
    ASSUME IInv, EmulatorStops \/ EmulatorFrame \/ EmulatorQuits
    PROVE  IInv'
<1> USE DEF IInv
<1>1. /\ UNCHANGED <<breakpoints, asked, hunks, pc, next, stream>>
      /\ "armed" \in DOMAIN uae'
      /\ alive' => alive /\ uae'.armed = uae.armed
  <2>1. CASE EmulatorStops
    <3>1. PICK a : uae' = [uae EXCEPT !.run = "no", !.at = a]
      BY <2>1 DEF EmulatorStops
    <3> QED  BY <2>1, <3>1 DEF EmulatorStops, Sends, session, update, Types
  <2>2. CASE EmulatorFrame
    BY <2>2 DEF EmulatorFrame, Sends, session, update, Types
  <2>3. CASE EmulatorQuits
    BY <2>3 DEF EmulatorQuits, Emulator, session, update, Types
  <2> QED  BY <2>1, <2>2, <2>3
<1>2. \A i \in 1..Len(breakpoints) : PlaceOf(breakpoints[i])' = PlaceOf(breakpoints[i])
  BY <1>1 DEF PlaceOf
<1>3. Types' /\ AskedInList'
  BY <1>1 DEF Types, AskedInList
<1>4. ArmedSoFar'
  BY <1>1, <1>2 DEF ArmedSoFar
<1> QED  BY <1>3, <1>4

-----------------------------------------------------------------------------
(* The theorems.                                                            *)

LEMMA InitIInv == Init => IInv
  BY EmptySeq DEF Init, IInv, Types, AskedInList, ArmedSoFar, Emulator

LEMMA NextIInv == IInv /\ [Next]_vars => IInv'
<1> SUFFICES ASSUME IInv, [Next]_vars PROVE IInv'
  OBVIOUS
<1>1. CASE Update
  BY <1>1, OutsideArm DEF Update, IInv, Types
<1>2. CASE UpdatePc
  <2>1. PICK reply : /\ Exchange(Plainly("g"), reply)
                     /\ pc' \in {"event", "idle", "panicked"}
    BY <1>2, RegistersRead DEF UpdatePc
  <2> QED  BY <1>2, <2>1, ExchangeArms, OutsideArm DEF UpdatePc, IInv, Types
<1>3. CASE \E event \in Event : HandleEvent(event)
  BY <1>3, EventStep
<1>4. CASE \E action \in Action : HandleAction(action)
  BY <1>4, ActionStep
<1>5. CASE Handshake \/ SendBreakpoint \/ Launch
  BY <1>5, HandshakeStep, SendBreakpointStep, LaunchStep
<1>6. CASE EmulatorStops \/ EmulatorFrame \/ EmulatorQuits
  BY <1>6, EmulatorStep
<1>7. CASE UNCHANGED vars
  BY <1>7 DEF vars, session, update, link, IInv, Types, AskedInList, ArmedSoFar, PlaceOf
<1> QED  BY <1>1, <1>2, <1>3, <1>4, <1>5, <1>6, <1>7 DEF Next, Plugin

\* The invariant the next theorem follows from: what is asked for is in the list, and the part
\* of the list that was sent is armed.
THEOREM Invariance == Spec => []IInv
  BY InitIInv, NextIInv, PTL DEF Spec

\* A program is launched with every breakpoint armed that the user asked for and that has a
\* place, whenever it was set and whatever failed before.
THEOREM LaunchedArmed == Spec => BreakpointsArmed
<1>1. IInv /\ [Next]_vars =>
          [pc = "arm" /\ pc' = "idle" /\ stream /\ alive =>
               \A b \in asked : PlaceOf(b) # NoPlace => PlaceOf(b) \in uae'.armed]_vars
  <2> SUFFICES ASSUME IInv, Next, pc = "arm", pc' = "idle", stream, alive,
                      NEW b \in asked, PlaceOf(b) # NoPlace
               PROVE  PlaceOf(b) \in uae'.armed
    OBVIOUS
  <2>1. Launch
    BY DEF Next, Plugin, Update, UpdatePc, HandleEvent, HandleAction, Handshake, SendBreakpoint,
           EmulatorStops, EmulatorFrame, EmulatorQuits, Sends, update
  <2>2. PICK i \in 1..Len(breakpoints) : breakpoints[i] = b
    BY DEF IInv, AskedInList
  <2>3. i < next
    BY <2>1, LenProperties DEF Launch, IInv, Types
  <2>4. PlaceOf(b) \in uae.armed
    BY <2>2, <2>3 DEF IInv, ArmedSoFar
  <2>5. PICK reply : Exchange(Command("vRun", NoPlace, exe), reply)
    BY <2>1 DEF Launch
  <2>6. Command("vRun", NoPlace, exe).name # "z0"
    BY DEF Command
  <2>7. uae.armed \subseteq uae'.armed
    BY <2>5, <2>6, ExchangeArms DEF IInv, Types
  <2> QED  BY <2>4, <2>7
<1> QED  BY <1>1, Invariance, PTL DEF Spec, BreakpointsArmed

-----------------------------------------------------------------------------
(* Where the program has stopped.  The location lags behind the emulator   *)
(* while a stop is unread, or within an update.                            *)

Kind == {"ok", "S", "data", "registers", "AS"}

UnreadSet == [kind : Kind, at : {0}, exe : Exe \union {NoExe}]

LinkTypes ==
    /\ {"exe", "run", "at", "armed"} \subseteq DOMAIN uae
    /\ inbox \in Seq(UnreadSet)
    /\ exe \in Exe \union {NoExe}

StopUnread == \E i \in 1..Len(inbox) : inbox[i].kind = "S"

Located ==
    pc \in {"idle", "event", "action"} /\ clean /\ stream /\ alive
        /\ debugState \in {"StopException", "Trace"} /\ uae.run = "no"
        => location = uae.at \/ StopUnread

LInv == LinkTypes /\ Located

LEMMA PacketTypes ==
    ASSUME NEW kind \in Kind, NEW at, NEW name \in Exe \union {NoExe}
    PROVE  /\ Late(Packet(kind, at, name)) \in UnreadSet
           /\ Packet(kind, 0, name) \in UnreadSet
           /\ Packet(kind, at, name) # NoPacket
           /\ Packet(kind, at, name).at = at
<1>1. Late(Packet(kind, at, name)) = Packet(kind, 0, name)
  BY DEF Late, Packet
<1>2. Packet(kind, 0, name) \in UnreadSet
  BY DEF Packet, UnreadSet
<1>3. Packet(kind, at, name).kind = kind /\ NoPacket.kind = "none" /\ kind # "none"
  BY DEF Packet, NoPacket, Kind
<1>4. Packet(kind, at, name).at = at
  BY DEF Packet
<1> QED  BY <1>1, <1>2, <1>3, <1>4

\* What the emulator makes of a command.  Only s, c and vRun move it.
LEMMA ExecutedShape ==
    ASSUME LinkTypes, NEW command, command.exe \in Exe \union {NoExe},
           NEW done \in Executed(command)
    PROVE  /\ {"exe", "run", "at", "armed"} \subseteq DOMAIN done.uae
           /\ Late(done.answer) \in UnreadSet /\ done.answer # NoPacket
           /\ command.name \notin {"s", "c", "vRun"} =>
                  done.uae.run = uae.run /\ done.uae.at = uae.at
           /\ command.name = "g" => done.answer.at = uae.at
<1>a. {"ok", "S", "data", "registers", "AS"} \subseteq Kind /\ NoExe \in Exe \union {NoExe}
  BY DEF Kind
<1>b. {"exe", "run", "at", "armed"} \subseteq DOMAIN uae
  BY DEF LinkTypes
<1>1. CASE command.name = "s"
  <2>1. Executed(command) = {[uae |-> [uae EXCEPT !.run = "no", !.at = a], answer |-> StopPacket] :
                                 a \in Reachable(uae.exe)}
    BY <1>1 DEF Executed
  <2>2. PICK a \in Reachable(uae.exe) :
            done = [uae |-> [uae EXCEPT !.run = "no", !.at = a], answer |-> StopPacket]
    BY <2>1, Zenon
  <2>3. done.uae = [uae EXCEPT !.run = "no", !.at = a] /\ done.answer = Packet("S", 0, NoExe)
    BY <2>2 DEF StopPacket
  <2>4. Late(done.answer) \in UnreadSet /\ done.answer # NoPacket
    BY <2>3, <1>a, PacketTypes
  <2> QED  BY <1>1, <1>b, <2>3, <2>4
<1>2. CASE command.name = "c"
  <2>1. done.uae = [uae EXCEPT !.run = "free", !.at = 0] /\ done.answer = Packet("ok", 0, NoExe)
    BY <1>2 DEF Executed, OK
  <2>2. Late(done.answer) \in UnreadSet /\ done.answer # NoPacket
    BY <2>1, <1>a, PacketTypes
  <2> QED  BY <1>2, <1>b, <2>1, <2>2
<1>3. CASE command.name = "Z0"
  <2>1. /\ done.uae = [uae EXCEPT !.armed = uae.armed \union {command.place}]
        /\ done.answer = Packet("ok", 0, NoExe)
    BY <1>3 DEF Executed, OK
  <2>2. Late(done.answer) \in UnreadSet /\ done.answer # NoPacket
    BY <2>1, <1>a, PacketTypes
  <2> QED  BY <1>3, <1>b, <2>1, <2>2
<1>4. CASE command.name = "z0"
  <2>1. /\ done.uae = [uae EXCEPT !.armed = uae.armed \ {command.place}]
        /\ done.answer = Packet("ok", 0, NoExe)
    BY <1>4 DEF Executed, OK
  <2>2. Late(done.answer) \in UnreadSet /\ done.answer # NoPacket
    BY <2>1, <1>a, PacketTypes
  <2> QED  BY <1>4, <1>b, <2>1, <2>2
<1>5. CASE command.name = "vRun"
  <2>1. /\ done.uae = [uae EXCEPT !.exe = command.exe, !.run = "free", !.at = 0]
        /\ done.answer = Packet("AS", 0, command.exe)
    BY <1>5 DEF Executed
  <2>2. Late(done.answer) \in UnreadSet /\ done.answer # NoPacket
    BY <2>1, <1>a, PacketTypes
  <2> QED  BY <1>5, <1>b, <2>1, <2>2
<1>6. CASE command.name = "g"
  <2>1. done.uae = uae /\ done.answer = Packet("registers", uae.at, NoExe)
    BY <1>6 DEF Executed
  <2>2. /\ Late(done.answer) \in UnreadSet /\ done.answer # NoPacket
        /\ done.answer.at = uae.at
    BY <2>1, <1>a, PacketTypes
  <2> QED  BY <1>6, <1>b, <2>1, <2>2
<1>7. CASE command.name = "m"
  <2>0. Executed(command) = {[uae |-> uae, answer |-> DataPacket]}
    BY <1>7 DEF Executed
  <2>1. done.uae = uae /\ done.answer = Packet("data", 0, NoExe)
    BY <2>0 DEF DataPacket
  <2>2. Late(done.answer) \in UnreadSet /\ done.answer # NoPacket
    BY <2>1, <1>a, PacketTypes
  <2> QED  BY <1>7, <1>b, <2>1, <2>2
<1>8. CASE command.name \notin {"s", "c", "Z0", "z0", "vRun", "g", "m"}
  <2>0. Executed(command) = {[uae |-> uae, answer |-> OK]}
    BY <1>8 DEF Executed
  <2>1. done.uae = uae /\ done.answer = Packet("ok", 0, NoExe)
    BY <2>0 DEF OK
  <2>2. Late(done.answer) \in UnreadSet /\ done.answer # NoPacket
    BY <2>1, <1>a, PacketTypes
  <2> QED  BY <1>8, <1>b, <2>1, <2>2
<1> QED  BY <1>1, <1>2, <1>3, <1>4, <1>5, <1>6, <1>7, <1>8

\* One call of the gdb client.  When it leaves the stream clean it was undisturbed: nothing was
\* unread, and the reply is the answer.
LEMMA ExchangeShape ==
    ASSUME LinkTypes, exe' \in Exe \union {NoExe},
           NEW command, command.exe \in Exe \union {NoExe}, NEW reply, Exchange(command, reply)
    PROVE  /\ LinkTypes'
           /\ stream' => stream
           /\ alive' = alive
           /\ clean' => clean
           /\ clean' /\ stream /\ alive =>
                  /\ inbox = << >>
                  /\ \E done \in Executed(command) : uae' = done.uae /\ reply = done.answer
           /\ clean' /\ stream' /\ alive /\ reply = NoPacket => FALSE
<1>a. inbox \in Seq(UnreadSet) /\ {"exe", "run", "at", "armed"} \subseteq DOMAIN uae
  BY DEF LinkTypes
<1>1. CASE ~stream /\ reply = NoPacket /\ UNCHANGED <<stream, alive, serverAck, uae, inbox, clean>>
  BY <1>1, <1>a DEF LinkTypes
<1>2. CASE /\ stream /\ ~alive
           /\ \/ inbox = << >> /\ stream' \in BOOLEAN /\ reply = NoPacket /\ UNCHANGED inbox
              \/ inbox # << >> /\ reply \in {NoPacket, Head(inbox)} /\ inbox' = Tail(inbox)
                 /\ UNCHANGED stream
           /\ clean' = FALSE
           /\ UNCHANGED <<alive, serverAck, uae>>
  <2>1. inbox' \in Seq(UnreadSet)
    BY <1>2, <1>a, HeadTailProperties
  <2> QED  BY <1>2, <1>a, <2>1 DEF LinkTypes
<1>3. ASSUME stream /\ alive,
             NEW done \in Executed(command), uae' = done.uae,
             \/ /\ reply = Head(Append(inbox, done.answer)) /\ ~Mismatch
                /\ inbox' = Tail(Append(inbox, Late(done.answer)))
                /\ clean' = (clean /\ inbox = << >>)
             \/ /\ reply = NoPacket
                /\ inbox' \in {Append(inbox, Late(done.answer)),
                               Tail(Append(inbox, Late(done.answer))), << >>}
                /\ clean' = FALSE,
             UNCHANGED <<stream, alive>>
      PROVE  /\ LinkTypes'
             /\ clean' => clean /\ inbox = << >> /\ reply = done.answer /\ reply # NoPacket
  <2>1. /\ {"exe", "run", "at", "armed"} \subseteq DOMAIN done.uae
        /\ Late(done.answer) \in UnreadSet /\ done.answer # NoPacket
    BY <1>3, ExecutedShape
  <2>2. Append(inbox, Late(done.answer)) \in Seq(UnreadSet) /\ << >> \in Seq(UnreadSet)
    BY <1>a, <2>1, AppendProperties, EmptySeq
  <2>3. Append(inbox, Late(done.answer)) # << >>
    BY <1>a, <2>1, AppendProperties
  <2>4. Tail(Append(inbox, Late(done.answer))) \in Seq(UnreadSet)
    BY <2>2, <2>3, HeadTailProperties
  <2>5. inbox' \in Seq(UnreadSet)
    BY <1>3, <2>2, <2>4
  <2>6. LinkTypes'
    BY <1>3, <2>1, <2>5 DEF LinkTypes
  <2>7. ASSUME inbox = << >>  PROVE Head(Append(inbox, done.answer)) = done.answer
    BY <2>7
  <2> QED  BY <1>3, <2>1, <2>6, <2>7
<1>4. CASE /\ stream /\ alive
           /\ \E done \in Executed(command) :
                LET left == Append(inbox, Late(done.answer))
                IN  /\ uae' = done.uae
                    /\ serverAck' = (serverAck /\ command.name # "QStartNoAckMode")
                    /\ \/ /\ reply = Head(Append(inbox, done.answer)) /\ ~Mismatch
                          /\ inbox' = Tail(left)
                          /\ clean' = (clean /\ inbox = << >>)
                       \/ /\ reply = NoPacket
                          /\ inbox' \in {left, Tail(left), << >>} /\ Len(inbox') <= MaxUnread
                          /\ clean' = FALSE
           /\ UNCHANGED <<stream, alive>>
  <2>1. PICK done \in Executed(command) :
                /\ uae' = done.uae
                /\ \/ /\ reply = Head(Append(inbox, done.answer)) /\ ~Mismatch
                      /\ inbox' = Tail(Append(inbox, Late(done.answer)))
                      /\ clean' = (clean /\ inbox = << >>)
                   \/ /\ reply = NoPacket
                      /\ inbox' \in {Append(inbox, Late(done.answer)),
                                     Tail(Append(inbox, Late(done.answer))), << >>}
                      /\ clean' = FALSE
    BY <1>4, Zenon
  <2>2. /\ LinkTypes'
        /\ clean' => clean /\ inbox = << >> /\ reply = done.answer /\ reply # NoPacket
    BY <1>3, <1>4, <2>1, Zenon
  <2> QED  BY <1>4, <2>1, <2>2, Zenon
<1> QED  BY <1>1, <1>2, <1>4, Zenon DEF Exchange

\* A call that leaves the plugin where it was and is no s, c or vRun keeps the location true.
LEMMA ExchangeLocates ==
    ASSUME LinkTypes, exe' \in Exe \union {NoExe},
           NEW command, command.exe \in Exe \union {NoExe}, NEW reply, Exchange(command, reply),
           command.name \notin {"s", "c", "vRun"},
           clean', stream', alive'
    PROVE  /\ clean /\ stream /\ alive /\ inbox = << >> /\ reply # NoPacket
           /\ uae'.run = uae.run /\ uae'.at = uae.at
           /\ command.name = "g" => reply.at = uae.at
<1>1. clean /\ stream /\ alive /\ inbox = << >> /\ reply # NoPacket
  BY ExchangeShape
<1>2. PICK done \in Executed(command) : uae' = done.uae /\ reply = done.answer
  BY <1>1, ExchangeShape
<1> QED  BY <1>1, <1>2, ExecutedShape

LEMMA SendLocates ==
    ASSUME LInv, exe' \in Exe \union {NoExe}, NEW name, NEW place, Send(name, place),
           name \notin {"s", "c", "vRun"}
    PROVE  /\ LinkTypes'
           /\ clean' /\ stream' /\ alive' =>
                  /\ clean /\ stream /\ alive
                  /\ uae'.run = uae.run /\ uae'.at = uae.at
                  /\ inbox' # inbox => inbox = << >>
<1>1. CASE place = NoPlace
  BY <1>1 DEF Send, LInv, LinkTypes
<1>2. CASE place # NoPlace
  <2>1. PICK reply : Exchange(Command(name, place, NoExe), reply)
    BY <1>2, Zenon DEF Send
  <2>2. /\ Command(name, place, NoExe).exe \in Exe \union {NoExe}
        /\ Command(name, place, NoExe).name = name
    BY DEF Command
  <2>3. LinkTypes
    BY DEF LInv
  <2>4. LinkTypes'
    BY <2>1, <2>2, <2>3, ExchangeShape
  <2>5. clean' /\ stream' /\ alive' =>
            /\ clean /\ stream /\ alive /\ inbox = << >>
            /\ uae'.run = uae.run /\ uae'.at = uae.at
    BY <2>1, <2>2, <2>3, ExchangeLocates
  <2> QED  BY <2>4, <2>5
<1> QED  BY <1>1, <1>2

-----------------------------------------------------------------------------
(* The steps.                                                               *)

LEMMA InitLInv == Init => LInv
<1> SUFFICES ASSUME Init PROVE LInv
  OBVIOUS
<1>1. {"exe", "run", "at", "armed"} \subseteq DOMAIN uae
  BY DEF Init, Emulator
<1>2. inbox \in Seq(UnreadSet)
  BY EmptySeq DEF Init
<1> QED  BY <1>1, <1>2 DEF Init, LInv, LinkTypes, Located

\* What is read is what is first.  In a clean update nothing else is, and a stop that stays
\* behind is still unread.
LEMMA UpdateLocates ==
    ASSUME LInv, Update
    PROVE  LInv'
<1>a. inbox \in Seq(UnreadSet) /\ LinkTypes
  BY DEF LInv, LinkTypes
<1>1. CASE ~stream /\ UNCHANGED inbox
  BY <1>1, <1>a DEF Update, LInv, LinkTypes, Located
<1>2. CASE stream /\ ~needsAck
  <2>1. PICK k \in 0..Len(inbox) :
            /\ inbox' = SubSeq(inbox, k + 1, Len(inbox))
            /\ IF k > 0 /\ inbox[1].kind = "S"
               THEN debugState' = "StopException" /\ pc' = "incoming"
               ELSE pc' = "event" /\ debugState' = debugState
            /\ clean' = (clean /\ k <= 1)
    BY <1>2, Zenon DEF Update
  <2>2. Len(inbox) \in Nat /\ \A i \in 1..Len(inbox) : inbox[i] \in UnreadSet
    BY <1>a, LenProperties, ElementOfSeq
  <2>3. /\ inbox' \in Seq(UnreadSet)
        /\ Len(inbox') = Len(inbox) - k
        /\ \A i \in 1..(Len(inbox) - k) : inbox'[i] = inbox[k + i]
    <3>1. \A i \in (k + 1)..Len(inbox) : inbox[i] \in UnreadSet
      BY <2>2
    <3>2. /\ SubSeq(inbox, k + 1, Len(inbox)) \in Seq(UnreadSet)
          /\ Len(SubSeq(inbox, k + 1, Len(inbox))) = Len(inbox) - k
      BY <2>2, <3>1, SubSeqProperties
    <3>3. \A i \in 1..(Len(inbox) - k) : SubSeq(inbox, k + 1, Len(inbox))[i] = inbox[k + i]
      BY <2>2, <3>1, SubSeqProperties
    <3> QED  BY <2>1, <3>2, <3>3
  <2>4. LinkTypes'
    BY <2>3, <1>a DEF Update, LinkTypes
  <2>5. ASSUME clean', StopUnread, ~(k > 0 /\ inbox[1].kind = "S")
        PROVE  StopUnread'
    <3>1. PICK i \in 1..Len(inbox) : inbox[i].kind = "S"
      BY <2>5 DEF StopUnread
    <3>2. k <= 1
      BY <2>1, <2>5
    <3>3. k = 1 => i # 1
      BY <2>5, <3>1
    <3>4. i > k
      BY <2>2, <3>2, <3>3
    <3>5. i - k \in 1..(Len(inbox) - k) /\ k + (i - k) = i
      BY <2>2, <3>4
    <3>6. inbox'[i - k].kind = "S" /\ i - k \in 1..Len(inbox')
      BY <2>3, <3>1, <3>5
    <3> QED  BY <3>6 DEF StopUnread
  <2>6. Located'
    <3>1. CASE k > 0 /\ inbox[1].kind = "S"
      BY <2>1, <3>1 DEF Located
    <3>2. CASE ~(k > 0 /\ inbox[1].kind = "S")
      <4>1. pc' = "event" /\ debugState' = debugState /\ clean' = (clean /\ k <= 1)
        BY <2>1, <3>2
      <4>2. /\ pc = "idle" /\ stream' = stream /\ alive' = alive /\ uae' = uae
            /\ location' = location
        BY DEF Update
      <4> QED  BY <4>1, <4>2, <3>2, <2>5 DEF LInv, Located
    <3> QED  BY <3>1, <3>2
  <2> QED  BY <2>4, <2>6 DEF LInv
<1>3. CASE stream /\ needsAck /\ inbox' \in {inbox} \union (IF inbox = << >> THEN {} ELSE {Tail(inbox)})
                  /\ clean' = (clean /\ inbox = << >>)
  <2>1. inbox' \in Seq(UnreadSet)
    BY <1>3, <1>a, HeadTailProperties
  <2>2. clean' => inbox' = inbox
    BY <1>3
  <2>3. LinkTypes'
    BY <2>1, <1>a DEF Update, LinkTypes
  <2>4. /\ pc = "idle" /\ stream' = stream /\ alive' = alive /\ uae' = uae
        /\ location' = location /\ (stream /\ needsAck => debugState' = debugState)
    BY DEF Update
  <2>5. Located'
    BY <1>3, <2>2, <2>4 DEF LInv, Located, StopUnread
  <2> QED  BY <2>3, <2>5 DEF LInv
<1> QED  BY <1>1, <1>2, <1>3 DEF Update

LEMMA UpdatePcLocates ==
    ASSUME LInv, UpdatePc
    PROVE  LInv'
<1>1. PICK reply : /\ Exchange(Plainly("g"), reply)
                   /\ \/ location' = IF reply = NoPacket THEN location ELSE reply.at
                      \/ pc' = "panicked"
  BY RegistersRead DEF UpdatePc
<1>2. LinkTypes /\ exe' \in Exe \union {NoExe} /\ exe' = exe
  BY DEF LInv, LinkTypes, UpdatePc
<1>3. Plainly("g").name = "g" /\ Plainly("g").exe \in Exe \union {NoExe}
  BY DEF Plainly, Command
<1>4. LinkTypes'
  BY <1>1, <1>2, <1>3, ExchangeShape
<1>5. clean' /\ stream' /\ alive' => location' = uae'.at \/ pc' = "panicked"
  BY <1>1, <1>2, <1>3, ExchangeLocates
<1> QED  BY <1>4, <1>5 DEF LInv, Located

LEMMA EventLocates ==
    ASSUME LInv, NEW event \in Event, HandleEvent(event)
    PROVE  LInv'
<1>a. /\ LinkTypes /\ pc = "event" /\ debugState' = debugState
  BY DEF LInv, HandleEvent
<1>1. CASE Offline /\ exe' \in Exe \union {NoExe}
  BY <1>1, <1>a DEF LInv, LinkTypes, Located, StopUnread, Offline
<1>2. CASE GetRegisters
  <2>1. PICK reply : /\ Exchange(Plainly("g"), reply)
                     /\ \/ location' = IF reply = NoPacket THEN location ELSE reply.at
                        \/ pc' = "panicked"
    BY <1>2, RegistersRead DEF GetRegisters
  <2>2. exe' \in Exe \union {NoExe}
    BY <1>2, <1>a DEF LinkTypes, GetRegisters
  <2>3. Plainly("g").name = "g" /\ Plainly("g").exe \in Exe \union {NoExe}
    BY DEF Plainly, Command
  <2>4. LinkTypes'
    BY <1>a, <2>1, <2>2, <2>3, ExchangeShape
  <2>5. clean' /\ stream' /\ alive' => location' = uae'.at \/ pc' = "panicked"
    BY <1>a, <2>1, <2>2, <2>3, ExchangeLocates
  <2> QED  BY <2>4, <2>5 DEF LInv, Located
<1>3. ASSUME NEW name \in {"Z0", "z0"}, NEW place, Send(name, place), exe' = exe,
             location' = location
      PROVE  LInv'
  <2>1. exe' \in Exe \union {NoExe} /\ name \notin {"s", "c", "vRun"}
    BY <1>3, <1>a DEF LinkTypes
  <2>2. /\ LinkTypes'
        /\ clean' /\ stream' /\ alive' =>
                  /\ clean /\ stream /\ alive
                  /\ uae'.run = uae.run /\ uae'.at = uae.at
                  /\ inbox' # inbox => inbox = << >>
    BY <1>3, <2>1, SendLocates
  <2>3. clean' /\ stream' /\ alive' /\ StopUnread => StopUnread'
    <3>1. inbox = << >> => ~StopUnread
      BY DEF StopUnread
    <3> QED  BY <2>2, <3>1 DEF StopUnread
  <2>4. Located'
    BY <1>a, <1>3, <2>2, <2>3 DEF LInv, Located
  <2> QED  BY <2>2, <2>4 DEF LInv
<1>4. CASE \E b : SetBreakpoint(b)
  <2>1. PICK b : SetBreakpoint(b)
    BY <1>4
  <2> QED  BY <2>1, <1>3 DEF SetBreakpoint
<1>5. CASE DeleteBreakpoint(event.address)
  BY <1>3, <1>5 DEF DeleteBreakpoint
<1>6. CASE event.kind = "none" /\ Offline /\ UNCHANGED exe
  BY <1>1, <1>6, <1>a DEF LinkTypes
<1>7. CASE event.kind = "set file" /\ Offline /\ exe' = event.exe
  <2>1. event.exe \in Exe
    BY <1>7 DEF Event
  <2> QED  BY <1>1, <1>7, <2>1
<1>8. CASE GetMemory
  <2>1. PICK reply : Exchange(Plainly("m"), reply)
    BY <1>8, MemoryRead
  <2>2. exe' \in Exe \union {NoExe} /\ location' = location
    BY <1>8, <1>a, MemoryRead DEF LinkTypes
  <2>3. /\ Plainly("m").name \notin {"s", "c", "vRun"}
        /\ Plainly("m").exe \in Exe \union {NoExe}
    BY DEF Plainly, Command
  <2>4. LinkTypes'
    BY <1>a, <2>1, <2>2, <2>3, ExchangeShape
  <2>5. clean' /\ stream' /\ alive' =>
            /\ clean /\ stream /\ alive /\ inbox = << >>
            /\ uae'.run = uae.run /\ uae'.at = uae.at
    BY <1>a, <2>1, <2>2, <2>3, ExchangeLocates
  <2>6. inbox = << >> => ~StopUnread
    BY DEF StopUnread
  <2> QED  BY <1>a, <2>2, <2>4, <2>5, <2>6 DEF LInv, Located
<1> QED  BY <1>2, <1>4, <1>5, <1>6, <1>7, <1>8 DEF HandleEvent

LEMMA ActionLocates ==
    ASSUME LInv, NEW action \in Action, HandleAction(action)
    PROVE  LInv'
<1>a. /\ LinkTypes /\ pc = "action" /\ exe' \in Exe \union {NoExe} /\ location' = location
      /\ inbox \in Seq(UnreadSet) /\ {"exe", "run", "at", "armed"} \subseteq DOMAIN uae
      /\ exe' = exe
  BY DEF LInv, LinkTypes, HandleAction
<1>b. Plainly("s").exe \in Exe \union {NoExe} /\ Plainly("c").exe \in Exe \union {NoExe}
  BY DEF Plainly, Command
<1>1. CASE NoAction(action)
  BY <1>1, <1>a DEF LInv, LinkTypes, Located, StopUnread, NoAction, link
<1>2. ASSUME NEW state, Step(state)
      PROVE  LInv'
  <2>1. PICK reply : /\ Exchange(Plainly("s"), reply)
                     /\ pc' = IF reply = NoPacket THEN "idle" ELSE "stepped"
    BY <1>2, Zenon DEF Step
  <2>2. LinkTypes' /\ (clean' /\ stream' /\ alive' => reply # NoPacket)
    BY <2>1, <1>a, <1>b, ExchangeShape
  <2> QED  BY <2>1, <2>2 DEF LInv, Located
<1>3. CASE StepOver
  <2>1. {"exe", "run", "at", "armed"} \subseteq DOMAIN uae' /\ inbox' = inbox
    BY <1>3, <1>a DEF StepOver
  <2> QED  BY <1>3, <1>a, <2>1 DEF LInv, LinkTypes, Located, StepOver
<1>4. CASE Stop
  <2>1. {"exe", "run", "at", "armed"} \subseteq DOMAIN uae' /\ inbox' = inbox
    BY <1>4, <1>a DEF Stop
  <2> QED  BY <1>4, <1>a, <2>1 DEF LInv, LinkTypes, Located, Stop
<1>5. CASE Continue
  <2>1. PICK reply : /\ Exchange(Plainly("c"), reply)
                     /\ debugState' = IF reply = NoPacket THEN debugState ELSE "Running"
    BY <1>5, Zenon DEF Continue
  <2>2. LinkTypes' /\ (clean' /\ stream' /\ alive' => reply # NoPacket)
    BY <2>1, <1>a, <1>b, ExchangeShape
  <2> QED  BY <2>1, <2>2 DEF LInv, Located
<1>6. CASE Run
  <2>1. Connects
    BY <1>6 DEF Run
  <2>2. CASE pc' = "arm" /\ UNCHANGED <<uae, inbox>>
    BY <2>2, <1>a DEF LInv, LinkTypes, Located
  <2>3. CASE ~stream' /\ UNCHANGED <<uae, inbox>>
    BY <2>3, <1>a DEF LInv, LinkTypes, Located
  <2>4. CASE pc' = "handshake" /\ uae' = Emulator /\ inbox' = << >>
    <3>1. {"exe", "run", "at", "armed"} \subseteq DOMAIN uae'
      BY <2>4 DEF Emulator
    <3>2. inbox' \in Seq(UnreadSet)
      BY <2>4, EmptySeq
    <3> QED  BY <2>4, <1>a, <3>1, <3>2 DEF LInv, LinkTypes, Located
  <2> QED  BY <2>1, <2>2, <2>3, <2>4 DEF Connects
<1> QED  BY <1>1, <1>2, <1>3, <1>4, <1>5, <1>6 DEF HandleAction

\* The steps of a launch: none of them ends with the plugin at rest at a stop.
LEMMA LaunchLocates ==
    ASSUME LInv, Handshake \/ SendBreakpoint \/ Launch
    PROVE  LInv'
<1>a. LinkTypes /\ exe \in Exe \union {NoExe}
  BY DEF LInv, LinkTypes
<1>1. CASE Handshake
  <2>1. PICK reply : /\ Exchange(Plainly("QStartNoAckMode"), reply)
                     /\ pc' = IF reply = NoPacket THEN "idle" ELSE "arm"
    BY <1>1, Zenon DEF Handshake
  <2>2. Plainly("QStartNoAckMode").exe \in Exe \union {NoExe} /\ exe' \in Exe \union {NoExe}
    BY <1>1, <1>a DEF Plainly, Command, Handshake, session
  <2>3. LinkTypes' /\ (clean' /\ stream' /\ alive' => reply # NoPacket)
    BY <2>1, <2>2, <1>a, ExchangeShape
  <2> QED  BY <2>1, <2>3 DEF LInv, Located
<1>2. CASE SendBreakpoint
  <2>1. Send("Z0", PlaceOf(breakpoints[next])) /\ pc' = "arm" /\ exe' \in Exe \union {NoExe}
    BY <1>2, <1>a DEF SendBreakpoint, session
  <2>2. LinkTypes'
    BY <2>1, SendLocates
  <2> QED  BY <2>1, <2>2 DEF LInv, Located
<1>3. CASE Launch
  <2>1. PICK reply : Exchange(Command("vRun", NoPlace, exe), reply)
    BY <1>3, Zenon DEF Launch
  <2>2. Command("vRun", NoPlace, exe).exe \in Exe \union {NoExe} /\ exe' \in Exe \union {NoExe}
    BY <1>3, <1>a DEF Command, Launch
  <2>3. LinkTypes' /\ debugState' = "Running"
    BY <1>3, <2>1, <2>2, <1>a, ExchangeShape DEF Launch
  <2> QED  BY <2>3 DEF LInv, Located
<1> QED  BY <1>1, <1>2, <1>3

LEMMA EmulatorLocates ==
    ASSUME LInv, EmulatorStops \/ EmulatorFrame \/ EmulatorQuits
    PROVE  LInv'
<1>a. /\ inbox \in Seq(UnreadSet) /\ {"exe", "run", "at", "armed"} \subseteq DOMAIN uae
      /\ exe \in Exe \union {NoExe}
  BY DEF LInv, LinkTypes
<1>b. StopPacket \in UnreadSet /\ StopPacket.kind = "S" /\ DataPacket \in UnreadSet
  BY DEF StopPacket, DataPacket, Packet, UnreadSet, Kind
<1>1. CASE EmulatorStops
  <2>1. inbox' = Append(inbox, StopPacket) /\ exe' = exe
    BY <1>1 DEF EmulatorStops, Sends, session
  <2>2. /\ inbox' \in Seq(UnreadSet)
        /\ Len(inbox') = Len(inbox) + 1 /\ Len(inbox) \in Nat
        /\ inbox'[Len(inbox) + 1] = StopPacket
    BY <1>a, <1>b, <2>1, AppendProperties, LenProperties
  <2>3. StopUnread'
    <3>1. Len(inbox) + 1 \in 1..Len(inbox')
      BY <2>2
    <3> QED  BY <3>1, <2>2, <1>b DEF StopUnread
  <2>4. PICK a \in StopsAt(uae) : uae' = [uae EXCEPT !.run = "no", !.at = a]
    BY <1>1 DEF EmulatorStops
  <2>5. {"exe", "run", "at", "armed"} \subseteq DOMAIN uae'
    BY <1>a, <2>4
  <2> QED  BY <1>a, <2>1, <2>2, <2>3, <2>5 DEF LInv, LinkTypes, Located
<1>2. CASE EmulatorFrame
  <2>1. inbox' \in Seq(UnreadSet)
    BY <1>2, <1>a, <1>b, AppendProperties DEF EmulatorFrame, Sends
  <2>2. uae' = uae /\ exe' = exe /\ uae'.run # "no"
    BY <1>2 DEF EmulatorFrame, Sends, session
  <2> QED  BY <1>a, <2>1, <2>2 DEF LInv, LinkTypes, Located
<1>3. CASE EmulatorQuits
  <2>1. uae' = Emulator /\ inbox' = inbox /\ exe' = exe /\ ~alive'
    BY <1>3 DEF EmulatorQuits, session
  <2>2. {"exe", "run", "at", "armed"} \subseteq DOMAIN uae'
    BY <2>1 DEF Emulator
  <2> QED  BY <1>a, <2>1, <2>2 DEF LInv, LinkTypes, Located
<1> QED  BY <1>1, <1>2, <1>3

LEMMA NextLInv == LInv /\ [Next]_vars => LInv'
<1> SUFFICES ASSUME LInv, [Next]_vars PROVE LInv'
  OBVIOUS
<1>1. CASE Update
  BY <1>1, UpdateLocates
<1>2. CASE UpdatePc
  BY <1>2, UpdatePcLocates
<1>3. CASE \E event \in Event : HandleEvent(event)
  BY <1>3, EventLocates
<1>4. CASE \E action \in Action : HandleAction(action)
  BY <1>4, ActionLocates
<1>5. CASE Handshake \/ SendBreakpoint \/ Launch
  BY <1>5, LaunchLocates
<1>6. CASE EmulatorStops \/ EmulatorFrame \/ EmulatorQuits
  BY <1>6, EmulatorLocates
<1>7. CASE UNCHANGED vars
  BY <1>7 DEF vars, session, update, link, LInv, LinkTypes, Located, StopUnread
<1> QED  BY <1>1, <1>2, <1>3, <1>4, <1>5, <1>6, <1>7 DEF Next, Plugin

\* While every reply was read as the reply it is, the location that is shown of a stopped program
\* is where the emulator has stopped, for any program and any stops.
THEOREM StopLocated == Spec => []LocationIsWhereStopped
<1>1. LInv => LocationIsWhereStopped
  <2>1. inbox = << >> => ~StopUnread
    BY DEF StopUnread
  <2> QED  BY <2>1 DEF LInv, Located, LocationIsWhereStopped
<1> QED  BY <1>1, InitLInv, NextLInv, PTL DEF Spec

-----------------------------------------------------------------------------
(* The line tables of a file.                                               *)

LEMMA Ind ==
    ASSUME NEW S, 0 \in S, \A n \in Nat : n \in S => n + 1 \in S
    PROVE  Nat \subseteq S
<1> DEFINE R == OpToRel(<, Nat)
<1>1. IsWellFoundedOn(R, Nat)
  BY NatLessThanWellFounded
<1>2. \A x, y \in Nat : x < y => <<x, y>> \in R
  BY DEF OpToRel
<1> HIDE DEF R
<1> SUFFICES ASSUME Nat \ S # {}
             PROVE  FALSE
  OBVIOUS
<1>3. PICK x \in Nat \ S : \A y \in Nat \ S : ~(<<y, x>> \in R)
  BY <1>1, WFMin
<1>4. x - 1 \in Nat /\ x - 1 < x
  BY <1>3
<1>5. x - 1 \in S
  BY <1>2, <1>3, <1>4
<1> QED  BY <1>3, <1>4, <1>5

\* The entries a block holds.
EntriesOfBlock(b) == {<<b.name, l.line, b.base + l.offset>> : l \in ToSet(b.lines)}

EntriesOfFile(file) == {<<file.name, l.line, l.offset>> : l \in ToSet(file.lines)}

LEMMA AppendedEntries ==
    ASSUME NEW files \in Seq(SourceFileSet), NEW file \in SourceFileSet
    PROVE  EntriesOf(Append(files, file)) = EntriesOf(files) \union EntriesOfFile(file)
<1>1. ToSet(Append(files, file)) = ToSet(files) \union {file}
  <2>1. /\ Append(files, file) \in Seq(SourceFileSet)
        /\ Len(Append(files, file)) = Len(files) + 1 /\ Len(files) \in Nat
        /\ \A i \in 1..Len(files) : Append(files, file)[i] = files[i]
        /\ Append(files, file)[Len(files) + 1] = file
    BY AppendProperties, LenProperties
  <2>2. /\ DOMAIN Append(files, file) = 1..(Len(files) + 1)
        /\ DOMAIN files = 1..Len(files)
    BY <2>1, LenProperties
  <2> DEFINE longer == Append(files, file)
             n == Len(files)
  <2> HIDE DEF longer, n
  <2>3. /\ n \in Nat /\ DOMAIN longer = 1..(n + 1) /\ DOMAIN files = 1..n
        /\ \A i \in 1..n : longer[i] = files[i]
        /\ longer[n + 1] = file
    BY <2>1, <2>2 DEF longer, n
  <2>4. 1..(n + 1) = (1..n) \union {n + 1}
    BY <2>3
  <2>5. {longer[i] : i \in DOMAIN longer} = {files[i] : i \in DOMAIN files} \union {file}
    BY <2>3, <2>4
  <2> QED  BY <2>5 DEF longer, ToSet
<1> QED  BY <1>1 DEF EntriesOf, EntriesOfFile

\* parse_debug adds the entries of its block, and they have the type that is looked up.
LEMMA ParseDebugAdds ==
    ASSUME NEW files \in Seq(SourceFileSet), NEW block \in BlockSet
    PROVE  /\ ParseDebug(files, block) \in Seq(SourceFileSet)
           /\ EntriesOf(ParseDebug(files, block)) = EntriesOf(files) \union EntriesOfBlock(block)
<1> DEFINE lines == [i \in DOMAIN block.lines |->
                         Line(block.lines[i].line, block.base + block.lines[i].offset)]
           file == SourceFile(block.name, lines)
<1>1. block.lines \in Seq(LineSet) /\ block.base \in Nat /\ block.name \in STRING
  BY DEF BlockSet
<1>2. /\ DOMAIN block.lines = 1..Len(block.lines) /\ Len(block.lines) \in Nat
      /\ \A i \in DOMAIN block.lines : block.lines[i] \in LineSet
  BY <1>1, LenProperties, ElementOfSeq
<1>3. \A i \in DOMAIN block.lines :
          Line(block.lines[i].line, block.base + block.lines[i].offset) \in LineSet
  BY <1>1, <1>2 DEF LineSet, Line
<1>4. lines \in Seq(LineSet)
  BY <1>2, <1>3
<1>5. file \in SourceFileSet
  BY <1>1, <1>4 DEF SourceFile, SourceFileSet
<1>6. EntriesOfFile(file) = EntriesOfBlock(block)
  <2>1. file.name = block.name /\ file.lines = lines
    BY DEF SourceFile
  <2>2. /\ ToSet(lines) = {lines[i] : i \in DOMAIN block.lines}
        /\ ToSet(block.lines) = {block.lines[i] : i \in DOMAIN block.lines}
    BY DEF ToSet
  <2>3. \A i \in DOMAIN block.lines :
            lines[i].line = block.lines[i].line /\ lines[i].offset = block.base + block.lines[i].offset
    BY DEF Line
  <2> HIDE DEF lines, file
  <2>4. EntriesOfFile(file) =
            {<<block.name, lines[i].line, lines[i].offset>> : i \in DOMAIN block.lines}
    BY <2>1, <2>2 DEF EntriesOfFile
  <2>5. EntriesOfBlock(block) =
            {<<block.name, block.lines[i].line, block.base + block.lines[i].offset>> :
                 i \in DOMAIN block.lines}
    BY <2>2 DEF EntriesOfBlock
  <2> QED  BY <2>3, <2>4, <2>5
<1>7. ParseDebug(files, block) = Append(files, file)
  BY DEF ParseDebug
<1> HIDE DEF file
<1> QED  BY <1>5, <1>6, <1>7, AppendedEntries, AppendProperties

\* fill_hunk, block by block.
LEMMA FillHunkSteps ==
    ASSUME NEW blocks \in Seq(BlockSet)
    PROVE  \E g \in [0..Len(blocks) -> Seq(SourceFileSet)] :
               /\ FillHunk(blocks) = g[Len(blocks)]
               /\ g[0] = << >>
               /\ \A n \in 1..Len(blocks) :
                      g[n] = IF blocks[n].kind = "lines" THEN ParseDebug(g[n - 1], blocks[n])
                             ELSE g[n - 1]
<1> DEFINE L == Len(blocks)
           rest(g, n) == IF n = 0 THEN << >>
                         ELSE IF blocks[n].kind = "lines" THEN ParseDebug(g[n - 1], blocks[n])
                         ELSE g[n - 1]
           F(g) == [n \in 0..L |-> rest(g, n)]
           files == CHOOSE g : g = F(g)
           T == Seq(SourceFileSet)
           Some(k) == \E g \in [0..L -> T] : \A n \in 0..k : g[n] = rest(g, n)
           S == {k \in Nat : k <= L => Some(k)}
<1>1. FillHunk(blocks) = files[L]
  BY DEF FillHunk
<1>2. L \in Nat /\ (\A n \in 1..L : blocks[n] \in BlockSet)
  BY LenProperties, ElementOfSeq
<1>3. << >> \in T
  BY EmptySeq
<1>4. \A s \in T, n \in 1..L : ParseDebug(s, blocks[n]) \in T
  BY <1>2, ParseDebugAdds
<1> HIDE DEF T, L
<1>5. 0 \in S
  <2> DEFINE g == [n \in 0..L |-> << >>]
  <2>1. g \in [0..L -> T]
    BY <1>3
  <2>2. \A n \in 0..0 : g[n] = rest(g, n)
    BY <1>2
  <2> HIDE DEF g
  <2> QED  BY <2>1, <2>2
<1>6. ASSUME NEW k \in Nat, k \in S
      PROVE  k + 1 \in S
  <2> SUFFICES ASSUME k + 1 <= L
               PROVE  Some(k + 1)
    <3> HIDE DEF Some
    <3> QED  BY <1>6
  <2>1. k <= L /\ k + 1 \in 1..L /\ k \in 0..L /\ k + 1 \in 0..L
    BY <1>2
  <2>2. PICK g \in [0..L -> T] : \A n \in 0..k : g[n] = rest(g, n)
    <3>1. Some(k)
      <4> HIDE DEF Some
      <4> QED  BY <1>6, <2>1
    <3> QED  BY <3>1
  <2> DEFINE v == IF blocks[k + 1].kind = "lines" THEN ParseDebug(g[k], blocks[k + 1]) ELSE g[k]
             h == [g EXCEPT ![k + 1] = v]
  <2>3. v \in T
    BY <1>4, <2>1, <2>2
  <2> HIDE DEF v
  <2>4. h \in [0..L -> T] /\ h[k + 1] = v /\ \A n \in 0..L : n # k + 1 => h[n] = g[n]
    BY <2>1, <2>2, <2>3
  <2> HIDE DEF h
  <2>5. ASSUME NEW n \in 0..(k + 1)
        PROVE  h[n] = rest(h, n)
    <3>1. n # 0 => n - 1 \in 0..L /\ n - 1 # k + 1
      BY <2>1, <1>2
    <3>2. rest(h, n) = rest(g, n)
      BY <2>4, <3>1
    <3>3. CASE n = k + 1
      <4>1. n # 0 /\ n - 1 = k
        BY <3>3
      <4>2. rest(g, n) = v
        BY <3>3, <4>1 DEF v
      <4> QED  BY <2>4, <3>2, <3>3, <4>2
    <3>4. CASE n \in 0..k
      <4>1. n \in 0..L /\ n # k + 1
        BY <2>1, <3>4, <1>2
      <4>2. h[n] = g[n] /\ g[n] = rest(g, n)
        BY <2>2, <2>4, <3>4, <4>1
      <4> QED  BY <3>2, <4>2
    <3> QED  BY <3>3, <3>4
  <2> QED  BY <2>4, <2>5
<1>7. L \in S
  <2> HIDE DEF S
  <2>1. \A n \in Nat : n \in S => n + 1 \in S
    BY <1>6
  <2>2. Nat \subseteq S
    BY <1>5, <2>1, Ind
  <2> QED  BY <1>2, <2>2
<1>8. PICK g \in [0..L -> T] : \A n \in 0..L : g[n] = rest(g, n)
  BY <1>2, <1>7
<1>9. g = F(g)
  <2>1. g = [n \in 0..L |-> g[n]]
    OBVIOUS
  <2> QED  BY <1>8, <2>1
<1>10. files = F(files)
  <2> HIDE DEF F
  <2> QED  BY <1>9
<1>11. ASSUME NEW f, f = F(f)
       PROVE  \A n \in 0..L : f[n] = rest(f, n)
  <2>1. \A n \in 0..L : F(f)[n] = rest(f, n)
    OBVIOUS
  <2> HIDE DEF F
  <2> QED  BY <1>11, <2>1
<1>12. \A n \in 0..L : files[n] = rest(files, n)
  <2> HIDE DEF files
  <2> QED  BY <1>10, <1>11
<1>13. files \in [0..L -> T]
  <2> DEFINE S2 == {k \in Nat : k <= L => files[k] \in T}
  <2> HIDE DEF files
  <2>1. 0 \in S2
    BY <1>2, <1>3, <1>12
  <2>2. ASSUME NEW k \in Nat, k \in S2 PROVE k + 1 \in S2
    <3> SUFFICES ASSUME k + 1 <= L PROVE files[k + 1] \in T
      OBVIOUS
    <3>1. k + 1 \in 1..L /\ k + 1 \in 0..L /\ files[k] \in T /\ k + 1 # 0 /\ (k + 1) - 1 = k
      BY <1>2, <2>2
    <3>2. files[k + 1] = IF blocks[k + 1].kind = "lines" THEN ParseDebug(files[k], blocks[k + 1])
                         ELSE files[k]
      BY <1>12, <3>1
    <3> QED  BY <1>4, <3>1, <3>2
  <2>3. Nat \subseteq S2
    <3> HIDE DEF S2
    <3>1. \A n \in Nat : n \in S2 => n + 1 \in S2
      BY <2>2
    <3> QED  BY <2>1, <3>1, Ind
  <2>4. \A n \in 0..L : files[n] \in T
    BY <1>2, <2>3
  <2>5. files = [n \in 0..L |-> files[n]]
    <3>1. files = [n \in 0..L |-> rest(files, n)]
      BY <1>10
    <3> QED  BY <1>12, <3>1
  <2> QED  BY <2>4, <2>5
<1> HIDE DEF files
<1>14. files[0] = << >>
  BY <1>2, <1>12
<1>15. \A n \in 1..L : files[n] = IF blocks[n].kind = "lines"
                                  THEN ParseDebug(files[n - 1], blocks[n]) ELSE files[n - 1]
  BY <1>2, <1>12
<1> QED  BY <1>1, <1>13, <1>14, <1>15 DEF L, T

\* fill_hunk keeps every entry of its debug blocks, at its offset from the start of the segment.
LEMMA FillHunkIs ==
    ASSUME NEW blocks \in Seq(BlockSet)
    PROVE  /\ FillHunk(blocks) \in Seq(SourceFileSet)
           /\ EntriesOf(FillHunk(blocks)) = EntriesIn(blocks)
<1> DEFINE L == Len(blocks)
           Before(k) == UNION {EntriesOfBlock(blocks[i]) : i \in 1..k}
<1>1. L \in Nat /\ DOMAIN blocks = 1..L /\ (\A n \in 1..L : blocks[n] \in BlockSet)
  BY LenProperties, ElementOfSeq
<1>2. PICK g \in [0..L -> Seq(SourceFileSet)] :
          /\ FillHunk(blocks) = g[L]
          /\ g[0] = << >>
          /\ \A n \in 1..L :
                 g[n] = IF blocks[n].kind = "lines" THEN ParseDebug(g[n - 1], blocks[n])
                        ELSE g[n - 1]
  BY FillHunkSteps
<1>3. EntriesIn(blocks) = Before(L)
  <2>1. ToSet(blocks) = {blocks[i] : i \in 1..L}
    BY <1>1 DEF ToSet
  <2> HIDE DEF L
  <2>2. EntriesIn(blocks) = UNION {EntriesOfBlock(b) : b \in ToSet(blocks)}
    BY DEF EntriesIn, EntriesOfBlock
  <2>3. {EntriesOfBlock(b) : b \in ToSet(blocks)} = {EntriesOfBlock(blocks[i]) : i \in 1..L}
    BY <2>1
  <2> QED  BY <2>2, <2>3
<1> HIDE DEF L
<1> DEFINE S == {k \in Nat : k <= L => EntriesOf(g[k]) = Before(k)}
<1>4. 0 \in S
  <2>1. EntriesOf(g[0]) = {}
    BY <1>2 DEF EntriesOf, ToSet
  <2>2. Before(0) = {}
    OBVIOUS
  <2> QED  BY <2>1, <2>2
<1>5. ASSUME NEW k \in Nat, k \in S
      PROVE  k + 1 \in S
  <2> SUFFICES ASSUME k + 1 <= L
               PROVE  EntriesOf(g[k + 1]) = Before(k + 1)
    OBVIOUS
  <2>0. k + 1 \in 1..L /\ k \in 0..L /\ (k + 1) - 1 = k /\ k <= L
    BY <1>1
  <2>1. EntriesOf(g[k]) = Before(k)
    <3> HIDE DEF Before
    <3> QED  BY <1>5, <2>0
  <2>2. g[k] \in Seq(SourceFileSet) /\ blocks[k + 1] \in BlockSet
    BY <1>1, <1>2, <2>0
  <2>3. g[k + 1] = IF blocks[k + 1].kind = "lines" THEN ParseDebug(g[k], blocks[k + 1]) ELSE g[k]
    BY <1>2, <2>0
  <2>4. Before(k + 1) = Before(k) \union EntriesOfBlock(blocks[k + 1])
    <3>1. 1..(k + 1) = (1..k) \union {k + 1}
      OBVIOUS
    <3> QED  BY <3>1
  <2> HIDE DEF Before, S
  <2>5. CASE blocks[k + 1].kind = "lines"
    BY <2>1, <2>2, <2>3, <2>4, <2>5, ParseDebugAdds
  <2>6. CASE blocks[k + 1].kind # "lines"
    <3>1. blocks[k + 1].lines = << >>
      BY <2>2, <2>6 DEF BlockSet
    <3>2. EntriesOfBlock(blocks[k + 1]) = {}
      BY <3>1 DEF EntriesOfBlock, ToSet
    <3> QED  BY <2>1, <2>3, <2>4, <2>6, <3>2
  <2> QED  BY <2>5, <2>6
<1>6. L \in S
  <2> HIDE DEF S
  <2>1. \A n \in Nat : n \in S => n + 1 \in S
    BY <1>5
  <2>2. Nat \subseteq S
    BY <1>4, <2>1, Ind
  <2> QED  BY <1>1, <2>2
<1>7. L \in 0..L
  BY <1>1
<1> HIDE DEF Before
<1> QED  BY <1>2, <1>3, <1>6, <1>7

\* parse_file: so does each of the hunks the header names.
LEMMA ParseFileIs ==
    ASSUME NEW file \in [count : Nat, hunks : Seq(Seq(BlockSet))], Parses(file)
    PROVE  /\ ParseFile(file) \in Seq(Seq(SourceFileSet))
           /\ \A h \in DOMAIN ParseFile(file) :
                  EntriesOf(ParseFile(file)[h]) = EntriesIn(file.hunks[h])
<1>1. file.count \in Nat /\ file.count <= Len(file.hunks) /\ file.hunks \in Seq(Seq(BlockSet))
  BY DEF Parses
<1>2. \A h \in 1..file.count : file.hunks[h] \in Seq(BlockSet)
  BY <1>1, LenProperties, ElementOfSeq
<1>3. \A h \in 1..file.count :
          /\ FillHunk(file.hunks[h]) \in Seq(SourceFileSet)
          /\ EntriesOf(FillHunk(file.hunks[h])) = EntriesIn(file.hunks[h])
  BY <1>2, FillHunkIs
<1>4. ParseFile(file) = [h \in 1..file.count |-> FillHunk(file.hunks[h])]
  BY DEF ParseFile
<1> DEFINE table == [h \in 1..file.count |-> FillHunk(file.hunks[h])]
<1>5. /\ table \in Seq(Seq(SourceFileSet))
      /\ DOMAIN table = 1..file.count
  <2> DEFINE T == Seq(SourceFileSet)
  <2>1. \A h \in 1..file.count : FillHunk(file.hunks[h]) \in T
    BY <1>3
  <2> HIDE DEF T
  <2>2. table \in Seq(T)
    BY <1>1, <2>1
  <2> QED  BY <2>2 DEF T
<1>6. \A h \in 1..file.count : table[h] = FillHunk(file.hunks[h])
  OBVIOUS
<1> HIDE DEF table
<1>7. ParseFile(file) = table
  BY <1>4 DEF table
<1>8. \A h \in 1..file.count : EntriesOf(table[h]) = EntriesIn(file.hunks[h])
  BY <1>3, <1>6
<1> QED  BY <1>5, <1>7, <1>8

-----------------------------------------------------------------------------
(* Where a breakpoint is.                                                   *)

LEMMA MinIs ==
    ASSUME NEW S \in SUBSET Nat, S # {}
    PROVE  Min(S) \in S /\ \A y \in S : Min(S) <= y
<1> DEFINE R == OpToRel(<, Nat)
<1>1. IsWellFoundedOn(R, Nat)
  BY NatLessThanWellFounded
<1>2. \A x, y \in Nat : x < y => <<x, y>> \in R
  BY DEF OpToRel
<1> HIDE DEF R
<1>3. PICK x \in S : \A y \in S : ~(<<y, x>> \in R)
  BY <1>1, WFMin
<1>4. \A y \in S : x =< y
  <2> SUFFICES ASSUME NEW y \in S
               PROVE  x =< y
    OBVIOUS
  <2>1. x \in Nat /\ y \in Nat /\ ~(<<y, x>> \in R)
    BY <1>3
  <2>2. ~(y < x)
    BY <1>2, <2>1, Zenon
  <2> QED  BY <2>1, <2>2
<1> QED  BY <1>3, <1>4 DEF Min

\* get_address_seg finds an entry of a line table, or nothing.
LEMMA GetAddressSegIs ==
    ASSUME NEW tables \in Seq(Seq(SourceFileSet)), NEW name, NEW line
    PROVE  GetAddressSeg(tables, name, line) \in PlaceSet \union {NoPlace}
<1> DEFINE LinesIn(file)  == {i \in DOMAIN file.lines : file.name = name /\ file.lines[i].line = line}
           FilesIn(files) == {f \in DOMAIN files : LinesIn(files[f]) # {}}
           found          == {h \in DOMAIN tables : FilesIn(tables[h]) # {}}
           files          == tables[Min(found)]
           file           == files[Min(FilesIn(files))]
           place          == Place(Min(found) - 1, file.lines[Min(LinesIn(file))].offset)
<1>1. GetAddressSeg(tables, name, line) = IF found = {} THEN NoPlace ELSE place
  BY DEF GetAddressSeg
<1>2. ASSUME found # {}
      PROVE  place \in PlaceSet
  <2>1. DOMAIN tables = 1..Len(tables) /\ Len(tables) \in Nat
    BY LenProperties
  <2>2. found \in SUBSET Nat
    BY <2>1
  <2>3. Min(found) \in found
    BY <1>2, <2>2, MinIs
  <2>4. files \in Seq(SourceFileSet) /\ FilesIn(files) # {} /\ Min(found) \in 1..Len(tables)
    BY <2>1, <2>3, ElementOfSeq
  <2>5. Min(found) - 1 \in Nat
    <3> DEFINE m == Min(found)
    <3>1. m \in 1..Len(tables)
      BY <2>4
    <3> HIDE DEF m
    <3>2. m - 1 \in Nat
      BY <2>1, <3>1
    <3> QED  BY <3>2 DEF m
  <2> HIDE DEF files, found
  <2>6. DOMAIN files = 1..Len(files) /\ Len(files) \in Nat
    BY <2>4, LenProperties
  <2>7. Min(FilesIn(files)) \in FilesIn(files)
    <3>1. FilesIn(files) \in SUBSET Nat
      BY <2>6
    <3> HIDE DEF FilesIn
    <3> QED  BY <2>4, <3>1, MinIs
  <2>8. file \in SourceFileSet /\ LinesIn(file) # {}
    BY <2>4, <2>6, <2>7, ElementOfSeq
  <2> HIDE DEF file
  <2>9. file.lines \in Seq(LineSet)
    BY <2>8 DEF SourceFileSet
  <2>10. DOMAIN file.lines = 1..Len(file.lines) /\ Len(file.lines) \in Nat
    BY <2>9, LenProperties
  <2>11. Min(LinesIn(file)) \in LinesIn(file)
    <3>1. LinesIn(file) \in SUBSET Nat
      BY <2>10
    <3> HIDE DEF LinesIn
    <3> QED  BY <2>8, <3>1, MinIs
  <2>12. file.lines[Min(LinesIn(file))] \in LineSet
    BY <2>9, <2>10, <2>11, ElementOfSeq
  <2> QED  BY <2>5, <2>12 DEF Place, PlaceSet, LineSet
<1> HIDE DEF found, place
<1> QED  BY <1>1, <1>2

\* The line has an entry in the hunk.
Knows(files, name, line) == \E o : <<name, line, o>> \in EntriesOf(files)

EntryIn(files, name, line, o) ==
    \E f \in DOMAIN files : \E i \in DOMAIN files[f].lines :
        /\ files[f].name = name
        /\ files[f].lines[i].line = line
        /\ files[f].lines[i].offset = o

LEMMA EntryIs ==
    ASSUME NEW files, NEW name, NEW line, NEW o
    PROVE  <<name, line, o>> \in EntriesOf(files) <=> EntryIn(files, name, line, o)
<1>1. <<name, line, o>> \in EntriesOf(files) <=>
          \E file \in ToSet(files) : \E l \in ToSet(file.lines) :
              <<name, line, o>> = <<file.name, l.line, l.offset>>
  BY DEF EntriesOf
<1>2. \A file, l : <<name, line, o>> = <<file.name, l.line, l.offset>> <=>
                       file.name = name /\ l.line = line /\ l.offset = o
  OBVIOUS
<1>3. <<name, line, o>> \in EntriesOf(files) <=>
          \E file \in ToSet(files) : \E l \in ToSet(file.lines) :
              file.name = name /\ l.line = line /\ l.offset = o
  BY <1>1, <1>2
<1> QED  BY <1>3, Zenon DEF ToSet, EntryIn

\* get_address_seg leads to an entry of the line, in the first hunk that has one, and nowhere
\* only for a line that no hunk has: for any line tables.
THEOREM LineLeadsToEntry ==
    ASSUME NEW tables \in Seq(Seq(SourceFileSet)), NEW name, NEW line,
           NEW place, place = GetAddressSeg(tables, name, line)
    PROVE  /\ place = NoPlace => \A h \in DOMAIN tables : ~Knows(tables[h], name, line)
           /\ place # NoPlace =>
                  /\ place.seg + 1 \in DOMAIN tables
                  /\ <<name, line, place.offset>> \in EntriesOf(tables[place.seg + 1])
                  /\ \A h \in 1..place.seg : ~Knows(tables[h], name, line)
<1> DEFINE LinesIn(file)  == {i \in DOMAIN file.lines : file.name = name /\ file.lines[i].line = line}
           FilesIn(files) == {f \in DOMAIN files : LinesIn(files[f]) # {}}
           found          == {h \in DOMAIN tables : FilesIn(tables[h]) # {}}
           m              == Min(found)
           files          == tables[m]
           f              == Min(FilesIn(files))
           i              == Min(LinesIn(files[f]))
<1>1. place = IF found = {} THEN NoPlace ELSE Place(m - 1, files[f].lines[i].offset)
  BY DEF GetAddressSeg
<1>2. DOMAIN tables = 1..Len(tables) /\ Len(tables) \in Nat
      /\ \A h \in DOMAIN tables : tables[h] \in Seq(SourceFileSet)
  BY LenProperties, ElementOfSeq
<1>3. \A h \in DOMAIN tables : Knows(tables[h], name, line) => h \in found
  <2> SUFFICES ASSUME NEW h \in DOMAIN tables, Knows(tables[h], name, line)
               PROVE  h \in found
    OBVIOUS
  <2>1. PICK o : <<name, line, o>> \in EntriesOf(tables[h])
    BY DEF Knows
  <2>2. PICK g \in DOMAIN tables[h] : \E k \in DOMAIN tables[h][g].lines :
            tables[h][g].name = name /\ tables[h][g].lines[k].line = line
    <3>1. EntryIn(tables[h], name, line, o)
      BY <2>1, EntryIs
    <3> QED  BY <3>1, Zenon DEF EntryIn
  <2>3. g \in FilesIn(tables[h])
    BY <2>2
  <2> QED  BY <2>3
<1>4. CASE found = {}
  BY <1>1, <1>3, <1>4
<1>5. CASE found # {}
  <2>1. m \in found /\ \A h \in found : m <= h
    <3>1. found \in SUBSET Nat
      BY <1>2
    <3> HIDE DEF found
    <3> QED  BY <1>5, <3>1, MinIs
  <2>2. m \in DOMAIN tables /\ FilesIn(files) # {} /\ files \in Seq(SourceFileSet)
    BY <1>2, <2>1
  <2> HIDE DEF found, m, files
  <2>3. f \in FilesIn(files)
    <3>1. DOMAIN files = 1..Len(files) /\ Len(files) \in Nat
      BY <2>2, LenProperties
    <3>2. FilesIn(files) \in SUBSET Nat
      BY <3>1
    <3> HIDE DEF FilesIn
    <3> QED  BY <2>2, <3>2, MinIs
  <2>a. f \in DOMAIN files /\ LinesIn(files[f]) # {}
    BY <2>3
  <2>4. f \in DOMAIN files /\ LinesIn(files[f]) # {} /\ files[f] \in SourceFileSet
    <3> HIDE DEF f, FilesIn, LinesIn
    <3> QED  BY <2>a, <2>2, LenProperties, ElementOfSeq
  <2> HIDE DEF f
  <2>5. i \in LinesIn(files[f])
    <3>1. files[f].lines \in Seq(LineSet)
      BY <2>4 DEF SourceFileSet
    <3>2. DOMAIN files[f].lines = 1..Len(files[f].lines) /\ Len(files[f].lines) \in Nat
      BY <3>1, LenProperties
    <3>3. LinesIn(files[f]) \in SUBSET Nat
      BY <3>2
    <3> HIDE DEF LinesIn
    <3> QED  BY <2>4, <3>3, MinIs
  <2>6. /\ i \in DOMAIN files[f].lines /\ files[f].name = name /\ files[f].lines[i].line = line
    BY <2>5
  <2> HIDE DEF i
  <2> DEFINE o == files[f].lines[i].offset
  <2>7. <<name, line, o>> \in EntriesOf(files)
    <3>1. EntryIn(files, name, line, o)
      BY <2>4, <2>6, Zenon DEF EntryIn, o
    <3> QED  BY <3>1, EntryIs
  <2> HIDE DEF o
  <2>8. place.seg = m - 1 /\ place.offset = o
    BY <1>1, <1>5 DEF Place, o
  <2>9. m \in 1..Len(tables)
    BY <1>2, <2>2
  <2>10. place.seg + 1 = m /\ place.seg \in Nat
    BY <1>2, <2>8, <2>9
  <2>11. \A h \in 1..place.seg : ~Knows(tables[h], name, line)
    <3> SUFFICES ASSUME NEW h \in 1..place.seg, Knows(tables[h], name, line)
                 PROVE  FALSE
      OBVIOUS
    <3>1. h \in DOMAIN tables /\ h < m
      BY <1>2, <2>9, <2>10
    <3>2. m <= h
      BY <1>3, <2>1, <3>1
    <3> QED  BY <1>2, <2>9, <3>1, <3>2
  <2>12. place # NoPlace
    <3>1. NoPlace.seg = -2
      BY DEF NoPlace, Place
    <3> QED  BY <2>10, <3>1
  <2> QED  BY <2>2, <2>7, <2>8, <2>10, <2>11, <2>12 DEF files
<1> QED  BY <1>4, <1>5

LEMMA PlaceOfIs ==
    ASSUME hunks \in Seq(Seq(SourceFileSet)), NEW b \in BreakpointSet
    PROVE  PlaceOf(b) \in PlaceSet \union {NoPlace}
<1>1. CASE b.source # NoSource
  <2>1. PlaceOf(b) = GetAddressSeg(hunks, b.source.name, b.source.line)
    BY <1>1 DEF PlaceOf
  <2> QED  BY <2>1, GetAddressSegIs
<1>2. CASE b.source = NoSource
  <2>1. PlaceOf(b) = AtAddress(b.address)
    BY <1>2 DEF PlaceOf
  <2>2. CASE b \in {OnAddress(a) : a \in Addresses}
    <3>1. PICK a \in Addresses : b = OnAddress(a)
      BY <2>2
    <3>2. b.address \in Nat
      BY <3>1, AmigaAssumption DEF OnAddress, Breakpoint
    <3> QED  BY <2>1, <3>2 DEF AtAddress, Place, PlaceSet
  <2>3. CASE b \in {OnLine(s) : s \in SourceLines}
    <3>1. PICK s \in SourceLines : b = OnLine(s)
      BY <2>3
    <3>2. s = NoSource /\ s.line \in Nat
      BY <1>2, <3>1, AmigaAssumption DEF OnLine, Breakpoint
    <3>3. NoSource.line = -1
      BY DEF NoSource, Source
    <3>4. -1 \in Nat
      BY <3>2, <3>3, Zenon
    <3> QED  BY <3>4
  <2> QED  BY <2>2, <2>3 DEF BreakpointSet
<1> QED  BY <1>1, <1>2

-----------------------------------------------------------------------------
(* The types of the connection.                                             *)

Code == UNION {CodeOf(e) : e \in Exe}

EmulatorSet ==
    [exe : Exe \union {NoExe}, run : {"no", "free", "over"}, at : {0} \union Code,
     armed : SUBSET PlaceSet]

LinkOK ==
    /\ stream \in BOOLEAN /\ alive \in BOOLEAN /\ serverAck \in BOOLEAN /\ clean \in BOOLEAN
    /\ uae \in EmulatorSet
    /\ inbox \in Seq(PacketSet) /\ Len(inbox) <= MaxUnread

\* The commands that say what to load or where to stop.
Obeyable(command) ==
    /\ command.name = "vRun" => command.exe \in Exe
    /\ command.name = "Z0" => command.place \in PlaceSet

LEMMA CodeIs == Code \subseteq Nat
<1> SUFFICES ASSUME NEW e \in Exe, NEW a \in CodeOf(e)
             PROVE  a \in Nat
  BY DEF Code
<1>1. e # NoExe /\ Loaded[e] \in Seq([address : Nat, size : Nat])
  BY AmigaAssumption
<1>2. SegmentsOf(e) = Loaded[e]
  BY <1>1 DEF SegmentsOf
<1>3. PICK s \in DOMAIN Loaded[e] : a \in Span(Loaded[e][s])
  BY <1>2 DEF CodeOf
<1>4. Loaded[e][s] \in [address : Nat, size : Nat]
  BY <1>1, <1>3, ElementOfSeq, LenProperties
<1> QED  BY <1>3, <1>4 DEF Span

LEMMA ReachableIs ==
    ASSUME NEW name \in Exe \union {NoExe}
    PROVE  /\ Reachable(name) \subseteq {0} \union Code
           /\ CodeOf(name) \subseteq Code
<1>1. CASE name = NoExe
  <2>1. CodeOf(name) = {}
    BY <1>1 DEF CodeOf, SegmentsOf
  <2> QED  BY <1>1, <2>1 DEF Reachable
<1>2. CASE name # NoExe
  BY <1>2 DEF Reachable, Code
<1> QED  BY <1>1, <1>2

LEMMA PacketIs ==
    /\ \A kind \in {"none", "ok", "S", "data"} : Packet(kind, 0, NoExe) \in PacketSet
    /\ \A at \in {0} \union Code : Packet("registers", at, NoExe) \in PacketSet
    /\ \A name \in Exe : Packet("AS", 0, name) \in PacketSet
    /\ \A packet \in PacketSet : Late(packet) \in PacketSet /\ packet.at \in Nat
<1>1. \A kind \in {"none", "ok", "S", "data"} : Packet(kind, 0, NoExe) \in PacketSet
  BY DEF Packet, PacketSet
<1>2. \A at \in {0} \union Code : Packet("registers", at, NoExe) \in PacketSet
  BY DEF Packet, PacketSet, Code
<1>3. \A name \in Exe : Packet("AS", 0, name) \in PacketSet
  BY DEF Packet, PacketSet
<1>4. ASSUME NEW packet \in PacketSet
      PROVE  Late(packet) \in PacketSet /\ packet.at \in Nat
  <2>1. CASE packet \in [kind : {"none", "ok", "S", "data"}, at : {0}, exe : {NoExe}]
    BY <2>1 DEF Late, PacketSet
  <2>2. CASE packet \in [kind : {"registers"}, at : {0} \union Code, exe : {NoExe}]
    <3>1. Late(packet) \in [kind : {"registers"}, at : {0} \union Code, exe : {NoExe}]
      BY <2>2 DEF Late
    <3> QED  BY <2>2, <3>1, CodeIs DEF PacketSet, Code
  <2>3. CASE packet \in [kind : {"AS"}, at : {0}, exe : Exe]
    BY <2>3 DEF Late, PacketSet
  <2> QED  BY <2>1, <2>2, <2>3 DEF PacketSet, Code
<1> QED  BY <1>1, <1>2, <1>3, <1>4

LEMMA ExecutedTypes ==
    ASSUME uae \in EmulatorSet, NEW command, Obeyable(command), NEW done \in Executed(command)
    PROVE  done.uae \in EmulatorSet /\ done.answer \in PacketSet
<1>a. /\ OK \in PacketSet /\ StopPacket \in PacketSet /\ DataPacket \in PacketSet
      /\ Packet("registers", uae.at, NoExe) \in PacketSet
  BY PacketIs DEF OK, StopPacket, DataPacket, EmulatorSet
<1>1. CASE command.name = "s"
  <2>1. Executed(command) = {[uae |-> [uae EXCEPT !.run = "no", !.at = a], answer |-> StopPacket] :
                                 a \in Reachable(uae.exe)}
    BY <1>1 DEF Executed
  <2>2. PICK a \in Reachable(uae.exe) :
            done = [uae |-> [uae EXCEPT !.run = "no", !.at = a], answer |-> StopPacket]
    BY <2>1, Zenon
  <2>3. a \in {0} \union Code
    <3>1. uae.exe \in Exe \union {NoExe}
      BY DEF EmulatorSet
    <3> QED  BY <2>2, <3>1, ReachableIs
  <2>4. done.uae = [uae EXCEPT !.run = "no", !.at = a] /\ done.answer = StopPacket
    BY <2>2
  <2> QED  BY <1>a, <2>3, <2>4 DEF EmulatorSet
<1>2. CASE command.name = "c"
  <2>1. done.uae = [uae EXCEPT !.run = "free", !.at = 0] /\ done.answer = OK
    BY <1>2 DEF Executed
  <2> QED  BY <1>a, <2>1 DEF EmulatorSet
<1>3. CASE command.name = "Z0"
  <2>1. done.uae = [uae EXCEPT !.armed = uae.armed \union {command.place}] /\ done.answer = OK
    BY <1>3 DEF Executed
  <2>2. command.place \in PlaceSet
    BY <1>3 DEF Obeyable
  <2> QED  BY <1>a, <2>1, <2>2 DEF EmulatorSet
<1>4. CASE command.name = "z0"
  <2>1. done.uae = [uae EXCEPT !.armed = uae.armed \ {command.place}] /\ done.answer = OK
    BY <1>4 DEF Executed
  <2> QED  BY <1>a, <2>1 DEF EmulatorSet
<1>5. CASE command.name = "vRun"
  <2>1. /\ done.uae = [uae EXCEPT !.exe = command.exe, !.run = "free", !.at = 0]
        /\ done.answer = Packet("AS", 0, command.exe)
    BY <1>5 DEF Executed
  <2>2. command.exe \in Exe
    BY <1>5 DEF Obeyable
  <2> QED  BY <2>1, <2>2, PacketIs DEF EmulatorSet
<1>6. CASE command.name \notin {"s", "c", "Z0", "z0", "vRun"}
  <2>1. Executed(command) \in {{[uae |-> uae, answer |-> Packet("registers", uae.at, NoExe)]},
                               {[uae |-> uae, answer |-> DataPacket]},
                               {[uae |-> uae, answer |-> OK]}}
    BY <1>6 DEF Executed
  <2>2. done.uae = uae /\ done.answer \in {OK, DataPacket, Packet("registers", uae.at, NoExe)}
    BY <2>1
  <2> QED  BY <1>a, <2>2
<1> QED  BY <1>1, <1>2, <1>3, <1>4, <1>5, <1>6

\* One call of the gdb client: what is unread stays within its bound, and what is read as the
\* reply is a packet of the emulator, or none.
LEMMA ExchangeTypes ==
    ASSUME LinkOK, NEW command, Obeyable(command), NEW reply, Exchange(command, reply)
    PROVE  LinkOK' /\ reply \in PacketSet
<1>a. /\ inbox \in Seq(PacketSet) /\ Len(inbox) <= MaxUnread /\ Len(inbox) \in Nat
      /\ MaxUnread \in Nat /\ NoPacket \in PacketSet
      /\ << >> \in Seq(PacketSet) /\ Len(<< >>) = 0
  BY LenProperties, EmptySeq, PacketIs, AmigaAssumption DEF LinkOK, NoPacket
<1>1. CASE ~stream /\ reply = NoPacket /\ UNCHANGED <<stream, alive, serverAck, uae, inbox, clean>>
  BY <1>1, <1>a DEF LinkOK
<1>2. CASE /\ stream /\ ~alive
           /\ \/ inbox = << >> /\ stream' \in BOOLEAN /\ reply = NoPacket /\ UNCHANGED inbox
              \/ inbox # << >> /\ reply \in {NoPacket, Head(inbox)} /\ inbox' = Tail(inbox)
                 /\ UNCHANGED stream
           /\ clean' = FALSE
           /\ UNCHANGED <<alive, serverAck, uae>>
  <2>1. CASE inbox = << >> /\ stream' \in BOOLEAN /\ reply = NoPacket /\ inbox' = inbox
    BY <1>2, <1>a, <2>1 DEF LinkOK
  <2>2. CASE inbox # << >> /\ reply \in {NoPacket, Head(inbox)} /\ inbox' = Tail(inbox)
             /\ stream' = stream
    <3>1. /\ Head(inbox) \in PacketSet /\ Tail(inbox) \in Seq(PacketSet)
          /\ Len(Tail(inbox)) = Len(inbox) - 1
      BY <1>a, <2>2, HeadTailProperties
    <3>2. Len(inbox') <= MaxUnread
      BY <1>a, <2>2, <3>1
    <3> QED  BY <1>2, <1>a, <2>2, <3>1, <3>2 DEF LinkOK
  <2> QED  BY <1>2, <2>1, <2>2
<1>3. CASE /\ stream /\ alive
           /\ \E done \in Executed(command) :
                LET left == Append(inbox, Late(done.answer))
                IN  /\ uae' = done.uae
                    /\ serverAck' = (serverAck /\ command.name # "QStartNoAckMode")
                    /\ \/ /\ reply = Head(Append(inbox, done.answer)) /\ ~Mismatch
                          /\ inbox' = Tail(left)
                          /\ clean' = (clean /\ inbox = << >>)
                       \/ /\ reply = NoPacket
                          /\ inbox' \in {left, Tail(left), << >>} /\ Len(inbox') <= MaxUnread
                          /\ clean' = FALSE
           /\ UNCHANGED <<stream, alive>>
  <2>1. PICK done \in Executed(command) :
            /\ uae' = done.uae
            /\ serverAck' = (serverAck /\ command.name # "QStartNoAckMode")
            /\ \/ /\ reply = Head(Append(inbox, done.answer)) /\ ~Mismatch
                  /\ inbox' = Tail(Append(inbox, Late(done.answer)))
                  /\ clean' = (clean /\ inbox = << >>)
               \/ /\ reply = NoPacket
                  /\ inbox' \in {Append(inbox, Late(done.answer)),
                                 Tail(Append(inbox, Late(done.answer))), << >>}
                  /\ Len(inbox') <= MaxUnread
                  /\ clean' = FALSE
    BY <1>3, Zenon
  <2>2. done.uae \in EmulatorSet /\ done.answer \in PacketSet /\ Late(done.answer) \in PacketSet
    <3>1. done.uae \in EmulatorSet /\ done.answer \in PacketSet
      BY ExecutedTypes DEF LinkOK
    <3> QED  BY <3>1, PacketIs
  <2> DEFINE left == Append(inbox, Late(done.answer))
             read == Append(inbox, done.answer)
  <2>3. /\ left \in Seq(PacketSet) /\ left # << >> /\ Len(left) = Len(inbox) + 1
        /\ read \in Seq(PacketSet) /\ read # << >>
    BY <1>a, <2>2, AppendProperties
  <2> HIDE DEF left, read
  <2>4. /\ Tail(left) \in Seq(PacketSet) /\ Len(Tail(left)) = Len(left) - 1
        /\ Head(read) \in PacketSet
    BY <2>3, HeadTailProperties
  <2>5. \/ reply = Head(read) /\ inbox' = Tail(left) /\ clean' = (clean /\ inbox = << >>)
        \/ reply = NoPacket /\ inbox' \in {left, Tail(left), << >>} /\ Len(inbox') <= MaxUnread
           /\ clean' = FALSE
    BY <2>1, Zenon DEF left, read
  <2>6. inbox' \in Seq(PacketSet) /\ reply \in PacketSet
    BY <1>a, <2>3, <2>4, <2>5
  <2>7. Len(inbox') <= MaxUnread
    BY <1>a, <2>3, <2>4, <2>5
  <2>8. clean' \in BOOLEAN
    BY <2>5, Zenon DEF LinkOK
  <2>9. serverAck' \in BOOLEAN
    BY <2>1, Zenon DEF LinkOK
  <2> QED  BY <1>3, <2>1, <2>2, <2>6, <2>7, <2>8, <2>9 DEF LinkOK
<1> QED  BY <1>1, <1>2, <1>3, Zenon DEF Exchange

LEMMA SendTypes ==
    ASSUME LinkOK, NEW name \in {"Z0", "z0"}, NEW place \in PlaceSet \union {NoPlace},
           Send(name, place)
    PROVE  LinkOK'
<1>1. CASE place = NoPlace
  BY <1>1 DEF Send, LinkOK
<1>2. CASE place # NoPlace
  <2>1. PICK reply : Exchange(Command(name, place, NoExe), reply)
    BY <1>2, Zenon DEF Send
  <2>2. Obeyable(Command(name, place, NoExe))
    BY <1>2 DEF Obeyable, Command
  <2> QED  BY <2>1, <2>2, ExchangeTypes
<1> QED  BY <1>1, <1>2

-----------------------------------------------------------------------------
(* The types of the plugin, and the tables of a launch.                     *)

PluginOK ==
    /\ exe \in Exe \union {NoExe}
    /\ hunks \in Seq(Seq(SourceFileSet))
    /\ segments \in Seq([address : Nat, size : Nat])
    /\ Len(breakpoints) <= MaxBreakpoints
    /\ location \in Nat
    /\ debugState \in {"NoTarget", "Running", "StopException", "Trace"}
    /\ next <= Len(breakpoints) + 1
    /\ needsAck \in BOOLEAN
    /\ connections \in 0..MaxConnections

\* Between run and launch the executable stays the one whose lines were loaded.
Launching ==
    pc \in {"handshake", "arm"} =>
        /\ exe # NoExe
        /\ Parses(Files[exe]) => hunks = ParseFile(Files[exe])

TInv == IInv /\ PluginOK /\ LinkOK /\ Launching

LEMMA InitTInv == Init => TInv
<1> SUFFICES ASSUME Init PROVE TInv
  OBVIOUS
<1>1. IInv
  BY InitIInv
<1>2. PluginOK
  <2>1. << >> \in Seq(Seq(SourceFileSet)) /\ << >> \in Seq([address : Nat, size : Nat])
    BY EmptySeq
  <2>2. Len(<< >>) = 0 /\ MaxBreakpoints \in Nat /\ MaxConnections \in Nat
    BY AmigaAssumption
  <2> QED  BY <2>1, <2>2 DEF Init, PluginOK
<1>3. LinkOK
  <2>1. Emulator \in EmulatorSet
    BY DEF Emulator, EmulatorSet
  <2>2. << >> \in Seq(PacketSet) /\ Len(<< >>) = 0 /\ MaxUnread \in Nat
    BY EmptySeq, AmigaAssumption
  <2>3. uae \in EmulatorSet
    BY <2>1 DEF Init
  <2>4. inbox \in Seq(PacketSet) /\ Len(inbox) <= MaxUnread
    <3>1. inbox = << >>
      BY DEF Init
    <3> QED  BY <2>2, <3>1
  <2>5. stream = FALSE /\ alive = FALSE /\ serverAck = TRUE /\ clean = TRUE
    BY DEF Init
  <2> QED  BY <2>3, <2>4, <2>5 DEF LinkOK
<1>4. Launching
  BY DEF Init, Launching
<1> QED  BY <1>1, <1>2, <1>3, <1>4 DEF TInv

LEMMA PlainlyIs ==
    ASSUME NEW name \in {"s", "c", "g", "m", "QStartNoAckMode"}
    PROVE  Obeyable(Plainly(name))
  BY DEF Obeyable, Plainly, Command

LEMMA UpdateTypes ==
    ASSUME TInv, Update
    PROVE  PluginOK' /\ LinkOK' /\ Launching'
<1>a. /\ inbox \in Seq(PacketSet) /\ Len(inbox) <= MaxUnread /\ Len(inbox) \in Nat
      /\ MaxUnread \in Nat
  BY LenProperties, AmigaAssumption DEF TInv, LinkOK
<1>1. /\ UNCHANGED <<exe, hunks, segments, breakpoints, location, next, stream, needsAck, alive,
                     serverAck, uae, connections>>
      /\ pc' \in {"incoming", "event"}
      /\ debugState' \in {debugState, "NoTarget", "StopException"}
      /\ clean' \in BOOLEAN
  BY DEF Update, TInv, LinkOK
<1>2. inbox' \in Seq(PacketSet) /\ Len(inbox') <= MaxUnread
  <2>1. CASE inbox' = inbox
    BY <1>a, <2>1
  <2>2. CASE \E k \in 0..Len(inbox) : inbox' = SubSeq(inbox, k + 1, Len(inbox))
    <3>1. PICK k \in 0..Len(inbox) : inbox' = SubSeq(inbox, k + 1, Len(inbox))
      BY <2>2
    <3>2. \A i \in (k + 1)..Len(inbox) : inbox[i] \in PacketSet
      <4>1. \A i \in 1..Len(inbox) : inbox[i] \in PacketSet
        BY <1>a, ElementOfSeq
      <4> QED  BY <1>a, <3>1, <4>1
    <3>3. /\ SubSeq(inbox, k + 1, Len(inbox)) \in Seq(PacketSet)
          /\ Len(SubSeq(inbox, k + 1, Len(inbox))) = Len(inbox) - k
      BY <1>a, <3>1, <3>2, SubSeqProperties
    <3> QED  BY <1>a, <3>1, <3>3
  <2>3. CASE inbox # << >> /\ inbox' = Tail(inbox)
    <3>1. Tail(inbox) \in Seq(PacketSet) /\ Len(Tail(inbox)) = Len(inbox) - 1
      BY <1>a, <2>3, HeadTailProperties
    <3> QED  BY <1>a, <2>3, <3>1
  <2>4. \/ inbox' = inbox
        \/ \E k \in 0..Len(inbox) : inbox' = SubSeq(inbox, k + 1, Len(inbox))
        \/ inbox # << >> /\ inbox' = Tail(inbox)
    BY DEF Update
  <2> QED  BY <2>1, <2>2, <2>3, <2>4
<1>3. PluginOK'
  BY <1>1 DEF TInv, PluginOK
<1>4. LinkOK'
  BY <1>1, <1>2 DEF TInv, LinkOK
<1>5. Launching'
  BY <1>1 DEF Launching
<1> QED  BY <1>3, <1>4, <1>5

LEMMA UpdatePcTypes ==
    ASSUME TInv, UpdatePc
    PROVE  PluginOK' /\ LinkOK' /\ Launching'
<1>1. PICK reply : /\ Exchange(Plainly("g"), reply)
                   /\ location' \in {location, reply.at}
                   /\ pc' \in {"event", "idle", "panicked"}
  BY RegistersRead DEF UpdatePc
<1>2. LinkOK' /\ reply \in PacketSet
  BY <1>1, PlainlyIs, ExchangeTypes DEF TInv
<1>3. reply.at \in Nat
  BY <1>2, PacketIs
<1>4. UNCHANGED <<exe, hunks, segments, breakpoints, debugState, next, needsAck, connections>>
  BY DEF UpdatePc
<1>5. PluginOK'
  BY <1>1, <1>3, <1>4 DEF TInv, PluginOK
<1> QED  BY <1>1, <1>2, <1>5 DEF Launching

LEMMA EventTypes ==
    ASSUME TInv, NEW event \in Event, HandleEvent(event)
    PROVE  PluginOK' /\ LinkOK' /\ Launching'
<1>a. UNCHANGED <<hunks, segments, debugState, next, needsAck, connections>>
  BY DEF HandleEvent
<1>b. PluginOK /\ LinkOK /\ IInv /\ Len(breakpoints) \in Nat /\ MaxBreakpoints \in Nat /\ next \in Nat
  BY LenProperties, AmigaAssumption DEF TInv, IInv, Types
<1>1. Launching'
  <2>1. pc' \in {"action", "panicked"}
    BY RegistersRead, MemoryRead DEF HandleEvent, GetRegisters
  <2> QED  BY <2>1 DEF Launching
<1>2. CASE Offline /\ exe' \in Exe \union {NoExe}
  <2>1. PluginOK'
    BY <1>2, <1>a, <1>b DEF PluginOK, Offline
  <2>2. LinkOK'
    BY <1>2, <1>b DEF LinkOK, Offline
  <2> QED  BY <1>1, <2>1, <2>2
<1>3. CASE event.kind = "none" /\ Offline /\ UNCHANGED exe
  BY <1>2, <1>3, <1>b DEF PluginOK
<1>4. CASE event.kind = "set file" /\ Offline /\ exe' = event.exe
  <2>1. event.exe \in Exe
    BY <1>4 DEF Event
  <2> QED  BY <1>2, <1>4, <2>1
<1>5. CASE GetRegisters
  <2>1. PICK reply : /\ Exchange(Plainly("g"), reply)
                     /\ location' \in {location, reply.at}
    BY <1>5, RegistersRead DEF GetRegisters
  <2>2. LinkOK' /\ reply \in PacketSet
    BY <1>b, <2>1, PlainlyIs, ExchangeTypes
  <2>3. reply.at \in Nat
    BY <2>2, PacketIs
  <2>4. UNCHANGED <<exe, breakpoints>>
    BY <1>5 DEF GetRegisters
  <2>5. PluginOK'
    BY <1>a, <1>b, <2>1, <2>3, <2>4 DEF PluginOK
  <2> QED  BY <1>1, <2>2, <2>5
<1>6. ASSUME NEW b \in BreakpointSet, SetBreakpoint(b)
      PROVE  PluginOK' /\ LinkOK'
  <2>1. /\ breakpoints' = Append(breakpoints, b) /\ Len(breakpoints) < MaxBreakpoints
        /\ Send("Z0", PlaceOf(b)) /\ UNCHANGED <<exe, location>>
    BY <1>6 DEF SetBreakpoint
  <2>2. Len(breakpoints') = Len(breakpoints) + 1
    BY <1>b, <2>1, AppendProperties DEF IInv, Types
  <2>3. PlaceOf(b) \in PlaceSet \union {NoPlace}
    BY <1>b, PlaceOfIs DEF PluginOK
  <2>4. LinkOK'
    BY <1>b, <2>1, <2>3, SendTypes
  <2>5. Len(breakpoints') <= MaxBreakpoints /\ next' <= Len(breakpoints') + 1
    <3>1. next <= Len(breakpoints) + 1
      BY <1>b DEF PluginOK
    <3> QED  BY <1>a, <1>b, <2>1, <2>2, <3>1
  <2>6. PluginOK'
    BY <1>a, <1>b, <2>1, <2>5 DEF PluginOK
  <2> QED  BY <2>4, <2>6
<1>7. CASE event.kind = "set line" /\ SetBreakpoint(OnLine(event.source))
  <2>1. OnLine(event.source) \in BreakpointSet
    BY <1>7 DEF Event, BreakpointSet
  <2> QED  BY <1>1, <1>6, <1>7, <2>1
<1>8. CASE event.kind = "set address" /\ SetBreakpoint(OnAddress(event.address))
  <2>1. OnAddress(event.address) \in BreakpointSet
    BY <1>8 DEF Event, BreakpointSet
  <2> QED  BY <1>1, <1>6, <1>8, <2>1
<1>9. CASE event.kind = "delete address" /\ DeleteBreakpoint(event.address)
  <2>1. event.address \in Nat
    BY <1>9, AmigaAssumption DEF Event
  <2>2. AtAddress(event.address) \in PlaceSet
    BY <2>1 DEF AtAddress, Place, PlaceSet
  <2>3. Send("z0", AtAddress(event.address)) /\ UNCHANGED <<exe, breakpoints, location>>
    BY <1>9 DEF DeleteBreakpoint
  <2>4. LinkOK'
    BY <1>b, <2>2, <2>3, SendTypes
  <2>5. PluginOK'
    BY <1>a, <1>b, <2>3 DEF PluginOK
  <2> QED  BY <1>1, <2>4, <2>5
<1>10. CASE GetMemory
  <2>1. PICK reply : Exchange(Plainly("m"), reply)
    BY <1>10, MemoryRead
  <2>2. LinkOK'
    BY <1>b, <2>1, PlainlyIs, ExchangeTypes
  <2>3. UNCHANGED <<exe, breakpoints, location>>
    BY <1>10, MemoryRead
  <2>4. PluginOK'
    BY <1>a, <1>b, <2>3 DEF PluginOK
  <2> QED  BY <1>1, <2>2, <2>4
<1> QED  BY <1>3, <1>4, <1>5, <1>7, <1>8, <1>9, <1>10 DEF HandleEvent

LEMMA ActionTypes ==
    ASSUME TInv, NEW action \in Action, HandleAction(action)
    PROVE  PluginOK' /\ LinkOK' /\ Launching'
<1>a. UNCHANGED <<exe, segments, breakpoints, asked, location>>
  BY DEF HandleAction
<1>b. /\ PluginOK /\ LinkOK /\ Len(breakpoints) \in Nat /\ next \in Nat
      /\ MaxConnections \in Nat /\ MaxUnread \in Nat
  BY LenProperties, AmigaAssumption DEF TInv, IInv, Types
<1>1. CASE NoAction(action)
  <2>1. LinkOK' /\ PluginOK'
    BY <1>1, <1>a, <1>b DEF NoAction, link, LinkOK, PluginOK
  <2>2. Launching'
    BY <1>1 DEF NoAction, Launching
  <2> QED  BY <2>1, <2>2
<1>2. ASSUME NEW state \in {"NoTarget", "Running", "StopException", "Trace"}, Step(state)
      PROVE  PluginOK' /\ LinkOK' /\ Launching'
  <2>1. PICK reply : Exchange(Plainly("s"), reply)
    BY <1>2, Zenon DEF Step
  <2>2. LinkOK'
    BY <1>b, <2>1, PlainlyIs, ExchangeTypes
  <2>3. UNCHANGED <<hunks, next, needsAck, connections>> /\ debugState' = state
        /\ pc' \in {"idle", "stepped"}
    BY <1>2 DEF Step
  <2>4. PluginOK'
    BY <1>2, <1>a, <1>b, <2>3 DEF PluginOK
  <2> QED  BY <2>2, <2>3, <2>4 DEF Launching
<1>3. CASE StepOver
  <2>1. uae' \in EmulatorSet
    <3>1. uae \in EmulatorSet /\ uae' \in {uae, [uae EXCEPT !.run = "over", !.at = 0]}
      BY <1>3, <1>b DEF StepOver, LinkOK
    <3> QED  BY <3>1 DEF EmulatorSet
  <2>2. LinkOK'
    BY <1>3, <1>b, <2>1 DEF StepOver, LinkOK
  <2>3. PluginOK' /\ Launching'
    BY <1>3, <1>a, <1>b DEF StepOver, PluginOK, Launching
  <2> QED  BY <2>2, <2>3
<1>4. CASE Stop
  <2>1. uae' \in EmulatorSet
    <3>1. uae \in EmulatorSet
          /\ uae' \in {uae, [uae EXCEPT !.exe = NoExe, !.run = "no", !.at = 0]}
      BY <1>4, <1>b DEF Stop, LinkOK
    <3> QED  BY <3>1 DEF EmulatorSet
  <2>2. LinkOK'
    BY <1>4, <1>b, <2>1 DEF Stop, LinkOK
  <2>3. hunks' \in Seq(Seq(SourceFileSet)) /\ debugState' \in {debugState, "NoTarget"}
    BY <1>4, <1>b, EmptySeq DEF Stop, PluginOK
  <2>4. PluginOK' /\ Launching'
    BY <1>4, <1>a, <1>b, <2>3 DEF Stop, PluginOK, Launching
  <2> QED  BY <2>2, <2>4
<1>5. CASE Continue
  <2>1. PICK reply : /\ Exchange(Plainly("c"), reply)
                     /\ debugState' = IF reply = NoPacket THEN debugState ELSE "Running"
    BY <1>5, Zenon DEF Continue
  <2>2. LinkOK'
    BY <1>b, <2>1, PlainlyIs, ExchangeTypes
  <2>3. UNCHANGED <<hunks, next, needsAck, connections>> /\ pc' = "idle"
    BY <1>5 DEF Continue
  <2>4. PluginOK'
    BY <1>a, <1>b, <2>1, <2>3 DEF PluginOK
  <2> QED  BY <2>2, <2>3, <2>4 DEF Launching
<1>6. CASE Run
  <2>1. exe \in Exe /\ LoadInfo /\ Connects /\ next' = (IF pc' = "idle" THEN 0 ELSE 1)
        /\ UNCHANGED <<debugState, needsAck>>
    BY <1>6, <1>b DEF Run, PluginOK
  <2>2. Files[exe] \in [count : Nat, hunks : Seq(Seq(BlockSet))]
    BY <2>1, AmigaAssumption
  <2>3. hunks' \in Seq(Seq(SourceFileSet))
    <3>1. CASE Parses(Files[exe])
      BY <2>1, <2>2, <3>1, ParseFileIs DEF LoadInfo
    <3>2. CASE ~Parses(Files[exe])
      BY <2>1, <3>2, <1>b DEF LoadInfo, PluginOK
    <3> QED  BY <3>1, <3>2
  <2>4. LinkOK'
    <3>1. Emulator \in EmulatorSet
      BY DEF Emulator, EmulatorSet
    <3>2. << >> \in Seq(PacketSet) /\ Len(<< >>) = 0 /\ 0 <= MaxUnread
      BY <1>b, EmptySeq
    <3> QED  BY <2>1, <3>1, <3>2, <1>b DEF Connects, LinkOK
  <2>5. connections' \in 0..MaxConnections
    <3>1. connections \in 0..MaxConnections
      BY <1>b DEF PluginOK
    <3>2. connections' = connections \/ (connections < MaxConnections /\ connections' = connections + 1)
      BY <2>1 DEF Connects
    <3> QED  BY <1>b, <3>1, <3>2
  <2>6. next' <= Len(breakpoints) + 1
    BY <1>b, <2>1
  <2>7. PluginOK'
    BY <1>a, <1>b, <2>1, <2>3, <2>5, <2>6 DEF PluginOK
  <2>8. Launching'
    <3>1. exe # NoExe /\ (Parses(Files[exe]) => hunks' = ParseFile(Files[exe]))
      BY <2>1, AmigaAssumption DEF LoadInfo
    <3> QED  BY <1>a, <3>1 DEF Launching
  <2> QED  BY <2>4, <2>7, <2>8
<1>7. debugState \in {"NoTarget", "Running", "StopException", "Trace"}
  BY <1>b DEF PluginOK
<1> QED  BY <1>1, <1>2, <1>3, <1>4, <1>5, <1>6, <1>7 DEF HandleAction

LEMMA HandshakeTypes ==
    ASSUME TInv, Handshake
    PROVE  PluginOK' /\ LinkOK' /\ Launching'
<1>1. PICK reply : /\ Exchange(Plainly("QStartNoAckMode"), reply)
                   /\ pc' = IF reply = NoPacket THEN "idle" ELSE "arm"
                   /\ next' = IF reply = NoPacket THEN 0 ELSE 1
                   /\ needsAck' = (needsAck /\ reply # OK)
  BY Zenon DEF Handshake
<1>2. LinkOK'
  BY <1>1, PlainlyIs, ExchangeTypes DEF TInv
<1>3. UNCHANGED <<exe, hunks, segments, breakpoints, asked, location, debugState, connections>>
      /\ pc = "handshake"
  BY DEF Handshake, session
<1>4. Len(breakpoints) \in Nat /\ PluginOK
  BY LenProperties DEF TInv, IInv, Types
<1>5. next' <= Len(breakpoints) + 1
  BY <1>1, <1>4
<1>6. needsAck' \in BOOLEAN
  BY <1>1, <1>4, Zenon DEF PluginOK
<1>7. PluginOK'
  BY <1>3, <1>4, <1>5, <1>6 DEF PluginOK
<1>8. Launching'
  BY <1>3 DEF TInv, Launching
<1> QED  BY <1>2, <1>7, <1>8

LEMMA SendBreakpointTypes ==
    ASSUME TInv, SendBreakpoint
    PROVE  PluginOK' /\ LinkOK' /\ Launching'
<1>1. /\ pc = "arm" /\ next <= Len(breakpoints) /\ next' = next + 1
      /\ Send("Z0", PlaceOf(breakpoints[next]))
      /\ UNCHANGED <<exe, hunks, segments, breakpoints, asked, location, debugState, pc, needsAck,
                     connections>>
  BY DEF SendBreakpoint, session
<1>2. /\ PluginOK /\ LinkOK /\ breakpoints \in Seq(BreakpointSet) /\ Len(breakpoints) \in Nat
      /\ next \in Nat /\ next >= 1
  BY <1>1, LenProperties DEF TInv, IInv, Types, ArmedSoFar
<1>3. breakpoints[next] \in BreakpointSet
  BY <1>1, <1>2, ElementOfSeq
<1>4. PlaceOf(breakpoints[next]) \in PlaceSet \union {NoPlace}
  BY <1>2, <1>3, PlaceOfIs DEF PluginOK
<1>5. LinkOK'
  BY <1>1, <1>2, <1>4, SendTypes
<1>6. next' <= Len(breakpoints) + 1
  BY <1>1, <1>2
<1>7. PluginOK'
  BY <1>1, <1>2, <1>6 DEF PluginOK
<1>8. Launching'
  BY <1>1 DEF TInv, Launching
<1> QED  BY <1>5, <1>7, <1>8

LEMMA LaunchTypes ==
    ASSUME TInv, Launch
    PROVE  PluginOK' /\ LinkOK' /\ Launching'
<1>1. PICK reply : /\ Exchange(Command("vRun", NoPlace, exe), reply)
                   /\ IF reply = NoPacket THEN UNCHANGED segments ELSE StoreSegments(reply)
  BY Zenon DEF Launch
<1>2. /\ pc = "arm" /\ pc' = "idle" /\ next' = 0 /\ debugState' = "Running"
      /\ UNCHANGED <<exe, hunks, breakpoints, asked, location, needsAck, connections>>
  BY DEF Launch
<1>3. PluginOK /\ LinkOK /\ Len(breakpoints) \in Nat /\ exe \in Exe
  BY <1>2, LenProperties DEF TInv, IInv, Types, Launching, PluginOK
<1>4. Obeyable(Command("vRun", NoPlace, exe))
  BY <1>3 DEF Obeyable, Command
<1>5. LinkOK' /\ reply \in PacketSet
  BY <1>1, <1>3, <1>4, ExchangeTypes
<1>6. segments' \in Seq([address : Nat, size : Nat])
  <2>1. CASE segments' = segments
    BY <1>3, <2>1 DEF PluginOK
  <2>2. CASE reply.kind # "AS" /\ segments' = << >>
    BY <2>2, EmptySeq
  <2>3. CASE reply.kind = "AS" /\ segments' = SegmentsOf(reply.exe)
    <3>1. reply.exe \in Exe
      BY <1>5, <2>3 DEF PacketSet
    <3> QED  BY <2>3, <3>1, AmigaAssumption DEF SegmentsOf
  <2> QED  BY <1>1, <2>1, <2>2, <2>3 DEF StoreSegments
<1>7. PluginOK'
  BY <1>2, <1>3, <1>6 DEF PluginOK
<1>8. Launching'
  BY <1>2 DEF Launching
<1> QED  BY <1>5, <1>7, <1>8

LEMMA SendsTypes ==
    ASSUME TInv, NEW packet \in PacketSet, Sends(packet), uae' \in EmulatorSet
    PROVE  PluginOK' /\ LinkOK' /\ Launching'
<1>1. /\ Len(inbox) < MaxUnread /\ inbox' = Append(inbox, packet)
      /\ UNCHANGED <<exe, hunks, segments, breakpoints, asked, location, debugState, pc, next,
                     stream, needsAck, alive, serverAck, clean, connections>>
  BY DEF Sends, session, update
<1>2. PluginOK /\ LinkOK /\ Launching /\ inbox \in Seq(PacketSet) /\ Len(inbox) \in Nat
      /\ MaxUnread \in Nat
  BY LenProperties, AmigaAssumption DEF TInv, LinkOK
<1>3. inbox' \in Seq(PacketSet) /\ Len(inbox') = Len(inbox) + 1
  BY <1>1, <1>2, AppendProperties
<1>4. Len(inbox') <= MaxUnread
  BY <1>1, <1>2, <1>3
<1>5. LinkOK'
  BY <1>1, <1>2, <1>3, <1>4 DEF LinkOK
<1>6. PluginOK' /\ Launching'
  BY <1>1, <1>2 DEF PluginOK, Launching
<1> QED  BY <1>5, <1>6

LEMMA EmulatorTypes ==
    ASSUME TInv, EmulatorStops \/ EmulatorFrame \/ EmulatorQuits
    PROVE  PluginOK' /\ LinkOK' /\ Launching'
<1>a. uae \in EmulatorSet
  BY DEF TInv, LinkOK
<1>1. CASE EmulatorStops
  <2>1. PICK a \in StopsAt(uae) : uae' = [uae EXCEPT !.run = "no", !.at = a]
    BY <1>1 DEF EmulatorStops
  <2>2. uae.exe \in Exe \union {NoExe}
    BY <1>a DEF EmulatorSet
  <2>3. a \in {0} \union Code
    BY <2>1, <2>2, ReachableIs DEF StopsAt
  <2>4. uae' \in EmulatorSet
    BY <1>a, <2>1, <2>3 DEF EmulatorSet
  <2>5. StopPacket \in PacketSet
    BY PacketIs DEF StopPacket
  <2> QED  BY <1>1, <2>4, <2>5, SendsTypes DEF EmulatorStops
<1>2. CASE EmulatorFrame
  <2>1. DataPacket \in PacketSet
    BY PacketIs DEF DataPacket
  <2> QED  BY <1>2, <1>a, <2>1, SendsTypes DEF EmulatorFrame
<1>3. CASE EmulatorQuits
  <2>1. Emulator \in EmulatorSet
    BY DEF Emulator, EmulatorSet
  <2>2. /\ alive' = FALSE /\ serverAck' = TRUE /\ uae' = Emulator
        /\ UNCHANGED <<exe, hunks, segments, breakpoints, asked, location, debugState, pc, next,
                       stream, needsAck, inbox, clean, connections>>
    BY <1>3 DEF EmulatorQuits, session, update
  <2> QED  BY <2>1, <2>2 DEF TInv, PluginOK, LinkOK, Launching
<1> QED  BY <1>1, <1>2, <1>3

LEMMA NextTInv == TInv /\ [Next]_vars => TInv'
<1> SUFFICES ASSUME TInv, [Next]_vars PROVE TInv'
  OBVIOUS
<1>a. IInv'
  BY NextIInv DEF TInv
<1>1. CASE Update
  BY <1>1, <1>a, UpdateTypes DEF TInv
<1>2. CASE UpdatePc
  BY <1>2, <1>a, UpdatePcTypes DEF TInv
<1>3. CASE \E event \in Event : HandleEvent(event)
  BY <1>3, <1>a, EventTypes DEF TInv
<1>4. CASE \E action \in Action : HandleAction(action)
  BY <1>4, <1>a, ActionTypes DEF TInv
<1>5. CASE Handshake \/ SendBreakpoint \/ Launch
  BY <1>5, <1>a, HandshakeTypes, SendBreakpointTypes, LaunchTypes DEF TInv
<1>6. CASE EmulatorStops \/ EmulatorFrame \/ EmulatorQuits
  BY <1>6, <1>a, EmulatorTypes DEF TInv
<1>7. CASE UNCHANGED vars
  BY <1>7, <1>a DEF vars, session, update, link, TInv, PluginOK, LinkOK, Launching
<1> QED  BY <1>1, <1>2, <1>3, <1>4, <1>5, <1>6, <1>7 DEF Next, Plugin

LEMMA TypesInvariant == Spec => []TInv
  BY InitTInv, NextTInv, PTL DEF Spec

\* What is read and kept stays within its bounds, whatever the files hold and whatever the
\* emulator answers.
THEOREM TypeCorrect == Spec => []TypeOK
<1>1. TInv => TypeOK
  <2> SUFFICES ASSUME TInv PROVE TypeOK
    OBVIOUS
  <2>1. /\ breakpoints \in Seq(BreakpointSet) /\ Len(breakpoints) \in Nat /\ next \in Nat
        /\ DOMAIN breakpoints = 1..Len(breakpoints) /\ PluginOK /\ LinkOK
        /\ MaxBreakpoints \in Nat
    BY LenProperties, AmigaAssumption DEF TInv, IInv, Types
  <2>2. \A b \in DOMAIN breakpoints : breakpoints[b] \in BreakpointSet
    BY <2>1, ElementOfSeq
  <2>3. asked \subseteq {breakpoints[b] : b \in DOMAIN breakpoints}
    BY <2>1 DEF TInv, IInv, AskedInList
  <2>4. next \in 0..(MaxBreakpoints + 1)
    <3>1. next <= Len(breakpoints) + 1 /\ Len(breakpoints) <= MaxBreakpoints
      BY <2>1 DEF PluginOK
    <3> QED  BY <2>1, <3>1
  <2>5. uae.run \in {"no", "free", "over"} /\ uae.armed \subseteq PlaceSet
    BY <2>1 DEF LinkOK, EmulatorSet
  <2>6. \A v \in {stream, needsAck, alive, serverAck, clean} : v \in BOOLEAN
    BY <2>1, Zenon DEF LinkOK, PluginOK
  <2>7. pc \in {"idle", "incoming", "event", "action", "stepped", "handshake", "arm", "panicked"}
    BY DEF TInv, IInv, Types
  <2> QED  BY <2>1, <2>2, <2>3, <2>4, <2>5, <2>6, <2>7
           DEF TypeOK, PluginOK, LinkOK, BreakpointSet
<1> QED  BY <1>1, TypesInvariant, PTL

\* A program is launched with the line tables of its file: every entry of a debug block, at its
\* offset in the segment, and no other.
THEOREM TablesLoaded == Spec => []TablesOfTheFile
<1>1. TInv => TablesOfTheFile
  <2> SUFFICES ASSUME TInv, pc = "arm", Parses(Files[exe]), NEW h \in DOMAIN hunks
               PROVE  EntriesOf(hunks[h]) = EntriesIn(Files[exe].hunks[h])
    BY DEF TablesOfTheFile
  <2>1. exe \in Exe /\ hunks = ParseFile(Files[exe])
    BY DEF TInv, Launching, PluginOK
  <2>2. Files[exe] \in [count : Nat, hunks : Seq(Seq(BlockSet))]
    BY <2>1, AmigaAssumption
  <2> QED  BY <2>1, <2>2, ParseFileIs
<1> QED  BY <1>1, TypesInvariant, PTL

-----------------------------------------------------------------------------
(* Which line is shown.                                                     *)

\* try_find_line knows an offset that has an entry, and nothing behind all of its entries.
LEMMA TryFindLineIs ==
    ASSUME NEW file \in SourceFileSet, NEW o \in Nat
    PROVE  /\ (\E i \in DOMAIN file.lines : file.lines[i].offset = o) =>
                  /\ TryFindLine(file, o) # NoSource
                  /\ \E i \in DOMAIN file.lines :
                         /\ file.lines[i].offset = o
                         /\ TryFindLine(file, o) = Source(file.name, file.lines[i].line)
           /\ (\A i \in DOMAIN file.lines : file.lines[i].offset < o) =>
                  TryFindLine(file, o) = NoSource
<1> DEFINE At     == {i \in DOMAIN file.lines : file.lines[i].offset = o}
           Before == {i \in DOMAIN file.lines : file.lines[i].offset < o}
           After  == {i \in DOMAIN file.lines : file.lines[i].offset > o}
<1>1. file.lines \in Seq(LineSet)
  BY DEF SourceFileSet
<1>2. /\ DOMAIN file.lines = 1..Len(file.lines) /\ Len(file.lines) \in Nat
      /\ \A i \in DOMAIN file.lines : file.lines[i] \in LineSet
  BY <1>1, LenProperties, ElementOfSeq
<1>3. TryFindLine(file, o) =
          CASE At # {}                 -> Source(file.name, file.lines[Min(At)].line)
            [] At = {} /\ After # {}   -> Source(file.name, IF Before = {} THEN 0
                                                 ELSE file.lines[Max(Before)].line)
            [] At = {} /\ After = {}   -> NoSource
  BY DEF TryFindLine
<1>4. ASSUME At # {}
      PROVE  /\ TryFindLine(file, o) # NoSource
             /\ \E i \in DOMAIN file.lines :
                    /\ file.lines[i].offset = o
                    /\ TryFindLine(file, o) = Source(file.name, file.lines[i].line)
  <2>1. At \in SUBSET Nat
    BY <1>2
  <2>2. Min(At) \in At
    BY <1>4, <2>1, MinIs
  <2>3. Min(At) \in DOMAIN file.lines /\ file.lines[Min(At)].offset = o
    BY <2>2
  <2> HIDE DEF At, Before, After
  <2>4. TryFindLine(file, o) = Source(file.name, file.lines[Min(At)].line)
    BY <1>3, <1>4
  <2>5. file.lines[Min(At)].line \in Nat
    BY <1>2, <2>3 DEF LineSet
  <2>6. /\ Source(file.name, file.lines[Min(At)].line).line = file.lines[Min(At)].line
        /\ NoSource.line = -1
    BY DEF Source, NoSource
  <2>7. -1 \notin Nat
    OBVIOUS
  <2>8. TryFindLine(file, o) # NoSource
    BY <2>4, <2>5, <2>6, <2>7, Zenon
  <2> QED  BY <2>3, <2>4, <2>8
<1>5. ASSUME \A i \in DOMAIN file.lines : file.lines[i].offset < o
      PROVE  TryFindLine(file, o) = NoSource
  <2>1. \A i \in DOMAIN file.lines : file.lines[i].offset \in Nat
    BY <1>2 DEF LineSet
  <2>2. At = {} /\ After = {}
    BY <1>5, <2>1
  <2> HIDE DEF At, Before, After
  <2> QED  BY <1>3, <2>2
<1> QED  BY <1>4, <1>5

\* The line shown for an offset of the first segment is that of an entry of the offset.
ShownAs(tables, o) ==
    \E g \in EntriesOf(tables[1]) : g[3] = o /\ ResolveFileLine(tables, o, 0) = Source(g[1], g[2])

\* resolve_file_line: over tables in the order of their addresses, an offset with an entry is
\* found by that entry or by another one of the offset.
LEMMA ResolveFileLineIs ==
    ASSUME NEW tables \in Seq(Seq(SourceFileSet)), tables # << >>, InAddressOrder(tables[1])
    PROVE  \A f \in DOMAIN tables[1] : \A j \in DOMAIN tables[1][f].lines :
               ShownAs(tables, tables[1][f].lines[j].offset)
<1> SUFFICES ASSUME NEW f \in DOMAIN tables[1], NEW j \in DOMAIN tables[1][f].lines,
                    NEW o, o = tables[1][f].lines[j].offset
             PROVE  \E g \in EntriesOf(tables[1]) :
                        g[3] = o /\ ResolveFileLine(tables, o, 0) = Source(g[1], g[2])
  BY DEF ShownAs
<1> DEFINE files == tables[1]
           known == {h \in DOMAIN files : TryFindLine(files[h], o) # NoSource}
<1>1. Len(tables) \in Nat /\ Len(tables) # 0 /\ files \in Seq(SourceFileSet)
  <2>1. Len(tables) \in Nat /\ Len(tables) # 0
    BY LenProperties, EmptySeq
  <2>2. 1 \in 1..Len(tables)
    BY <2>1
  <2> QED  BY <2>1, <2>2, ElementOfSeq
<1>2. ResolveFileLine(tables, o, 0) =
          IF known = {} THEN NoSource ELSE TryFindLine(files[Min(known)], o)
  <2>1. ~(0 >= Len(tables)) /\ 0 + 1 = 1
    BY <1>1
  <2> QED  BY <2>1 DEF ResolveFileLine
<1>3. /\ f \in DOMAIN files /\ j \in DOMAIN files[f].lines /\ o = files[f].lines[j].offset
      /\ InAddressOrder(files)
  OBVIOUS
<1> HIDE DEF files
<1>4. /\ DOMAIN files = 1..Len(files) /\ Len(files) \in Nat
      /\ \A h \in DOMAIN files : files[h] \in SourceFileSet
  BY <1>1, LenProperties, ElementOfSeq
<1>5. \A h \in DOMAIN files : \A i \in DOMAIN files[h].lines : files[h].lines[i].offset \in Nat
  <2> SUFFICES ASSUME NEW h \in DOMAIN files, NEW i \in DOMAIN files[h].lines
               PROVE  files[h].lines[i].offset \in Nat
    OBVIOUS
  <2>1. files[h].lines \in Seq(LineSet)
    BY <1>4 DEF SourceFileSet
  <2>2. files[h].lines[i] \in LineSet
    BY <2>1, LenProperties, ElementOfSeq
  <2> QED  BY <2>2 DEF LineSet
<1>6. o \in Nat
  BY <1>3, <1>5
<1>7. f \in known
  BY <1>3, <1>4, <1>6, TryFindLineIs
<1>8. known \in SUBSET Nat
  BY <1>4
<1>9. Min(known) \in known /\ Min(known) <= f
  BY <1>7, <1>8, MinIs
<1> DEFINE m == Min(known)
<1>10. m \in DOMAIN files /\ TryFindLine(files[m], o) # NoSource /\ m <= f
  BY <1>9
<1> HIDE DEF known, m
\* An earlier table than that of the entry does not reach behind the offset.
<1>11. \E i \in DOMAIN files[m].lines : files[m].lines[i].offset = o
  <2>1. CASE m = f
    BY <1>3, <2>1
  <2>2. CASE m # f
    <3>1. m < f
      BY <1>3, <1>4, <1>10, <2>2
    <3>2. \A i \in DOMAIN files[m].lines : files[m].lines[i].offset <= o
      BY <1>3, <1>10, <3>1 DEF InAddressOrder
    <3>3. PICK i \in DOMAIN files[m].lines : ~(files[m].lines[i].offset < o)
      BY <1>4, <1>6, <1>10, TryFindLineIs
    <3>4. files[m].lines[i].offset \in Nat /\ files[m].lines[i].offset <= o
      BY <1>5, <1>10, <3>2
    <3>5. files[m].lines[i].offset = o
      BY <1>6, <3>3, <3>4
    <3> QED  BY <3>5
  <2> QED  BY <2>1, <2>2
<1>12. PICK i \in DOMAIN files[m].lines :
           /\ files[m].lines[i].offset = o
           /\ TryFindLine(files[m], o) = Source(files[m].name, files[m].lines[i].line)
  BY <1>4, <1>6, <1>10, <1>11, TryFindLineIs
<1> DEFINE g == <<files[m].name, files[m].lines[i].line, files[m].lines[i].offset>>
<1>13. g \in EntriesOf(files)
  <2>1. files[m] \in ToSet(files) /\ files[m].lines[i] \in ToSet(files[m].lines)
    BY <1>10 DEF ToSet
  <2>2. g \in {<<files[m].name, l.line, l.offset>> : l \in ToSet(files[m].lines)}
    BY <2>1, Zenon
  <2> HIDE DEF g
  <2> QED  BY <2>1, <2>2, Zenon DEF EntriesOf
<1>14. ResolveFileLine(tables, o, 0) = Source(g[1], g[2]) /\ g[3] = o
  BY <1>2, <1>7, <1>12 DEF m
<1> HIDE DEF g
<1> QED  BY <1>13, <1>14 DEF files

\* The line that is shown for an address of the first segment is one the table has an entry of
\* at the address, whatever the executables and wherever they are loaded, if their tables do
\* not overlap.
THEOREM FirstSegmentShown == Spec => []FirstSegmentLines
<1>1. TInv => FirstSegmentLines
  <2> SUFFICES ASSUME TInv, segments # << >>, hunks # << >>, InAddressOrder(hunks[1]),
                      NEW e \in EntriesOf(hunks[1]), e[3] < segments[1].size
               PROVE  LineOf(segments[1].address + e[3]) \in
                          {Source(g[1], g[2]) : g \in {g \in EntriesOf(hunks[1]) : g[3] = e[3]}}
    BY DEF FirstSegmentLines, ShownAsTheLineOf
  <2>1. /\ hunks \in Seq(Seq(SourceFileSet)) /\ segments \in Seq([address : Nat, size : Nat])
        /\ Len(segments) \in Nat /\ Len(segments) # 0 /\ DOMAIN segments = 1..Len(segments)
    BY LenProperties, EmptySeq DEF TInv, PluginOK
  <2>2. segments[1] \in [address : Nat, size : Nat] /\ 1 \in DOMAIN segments
    <3>1. 1 \in 1..Len(segments)
      BY <2>1
    <3> QED  BY <2>1, <3>1, ElementOfSeq
  <2>a. PICK f \in DOMAIN hunks[1] :
            e \in {<<hunks[1][f].name, l.line, l.offset>> : l \in ToSet(hunks[1][f].lines)}
    BY DEF EntriesOf, ToSet
  <2>3. PICK j \in DOMAIN hunks[1][f].lines :
            e = <<hunks[1][f].name, hunks[1][f].lines[j].line, hunks[1][f].lines[j].offset>>
    BY <2>a DEF ToSet
  <2> DEFINE o == hunks[1][f].lines[j].offset
             a == segments[1].address + o
             within == {s \in DOMAIN segments : a \in Span(segments[s])}
  <2>4. e[3] = o
    BY <2>3
  <2>5. o \in Nat
    <3>1. Len(hunks) \in Nat /\ Len(hunks) # 0
      BY <2>1, LenProperties, EmptySeq
    <3>2. 1 \in 1..Len(hunks)
      BY <3>1
    <3>3. hunks[1] \in Seq(SourceFileSet)
      BY <2>1, <3>2, ElementOfSeq
    <3>4. hunks[1][f] \in SourceFileSet
      BY <3>3, LenProperties, ElementOfSeq
    <3>5. hunks[1][f].lines \in Seq(LineSet)
      BY <3>4 DEF SourceFileSet
    <3>6. hunks[1][f].lines[j] \in LineSet
      BY <3>5, LenProperties, ElementOfSeq
    <3> QED  BY <3>6 DEF LineSet
  <2>b. o = hunks[1][f].lines[j].offset /\ hunks # << >> /\ InAddressOrder(hunks[1])
    OBVIOUS
  <2> HIDE DEF o
  <2>6. PICK g \in EntriesOf(hunks[1]) : g[3] = o /\ ResolveFileLine(hunks, o, 0) = Source(g[1], g[2])
    <3>1. hunks \in Seq(Seq(SourceFileSet))
      BY <2>1
    <3>2. ShownAs(hunks, hunks[1][f].lines[j].offset)
      BY <3>1, <2>b, ResolveFileLineIs
    <3> QED  BY <2>b, <3>2 DEF ShownAs
  <2>7. a \in Span(segments[1]) /\ a - segments[1].address = o
    BY <2>2, <2>4, <2>5 DEF Span
  <2>8. Min(within) = 1
    <3>1. 1 \in within /\ within \in SUBSET Nat /\ \A s \in within : s >= 1 /\ s \in Nat
      BY <2>1, <2>2, <2>7
    <3> HIDE DEF within
    <3>2. Min(within) \in within /\ Min(within) <= 1
      BY <3>1, MinIs
    <3>3. Min(within) >= 1 /\ Min(within) \in Nat
      BY <3>1, <3>2
    <3> QED  BY <3>2, <3>3
  <2>9. LineOf(a) = ResolveFileLine(hunks, o, 0)
    <3>1. LineOf(a) = IF within = {} THEN NoSource
                      ELSE ResolveFileLine(hunks, a - segments[Min(within)].address, 0)
      BY DEF LineOf
    <3>2. within # {}
      BY <2>2, <2>7
    <3> HIDE DEF within, a
    <3> QED  BY <2>7, <2>8, <3>1, <3>2
  <2> QED  BY <2>4, <2>6, <2>9
<1> QED  BY <1>1, TypesInvariant, PTL
=============================================================================
