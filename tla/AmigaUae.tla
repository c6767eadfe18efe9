------------------------------ MODULE AmigaUae ------------------------------
(***************************************************************************)
(* The Amiga plugin: its updates (events first, then the action), the run  *)
(* that loads line tables, connects, arms the breakpoints and launches the *)
(* program, and what it shows of a stop.                                   *)
(*                                                                         *)
(* The emulator is external, as the plugin uses it.  Exchange stands for   *)
(* the calls of the gdb client (GdbRemote), one command and one reply, with*)
(* what they can do to a caller: refuse, be late, lose the connection, or  *)
(* take for the reply what came before it.                                 *)
(***************************************************************************)
EXTENDS AmigaDebugInfo

CONSTANTS
    Files,           \* the executables, by name
    Loaded,          \* where the emulator puts the segments of each
    SourceLines,     \* source lines breakpoints are set at
    Addresses,       \* addresses breakpoints are set and deleted at
    MaxBreakpoints,  \* bound: breakpoints in the list
    MaxUnread,       \* bound: packets the plugin did not read
    MaxConnections   \* bound: emulators, one after the other

Exe == DOMAIN Files
NoExe == ""

ASSUME AmigaAssumption ==
    /\ DOMAIN Loaded = Exe /\ NoExe \notin Exe
    /\ \A exe \in Exe : /\ Files[exe] \in [count : Nat, hunks : Seq(Seq(BlockSet))]
                         /\ Loaded[exe] \in Seq([address : Nat, size : Nat])
    /\ SourceLines \subseteq [name : STRING, line : Nat]
    /\ Addresses \subseteq Nat
    /\ {MaxBreakpoints, MaxUnread, MaxConnections} \subseteq Nat

VARIABLES
    exe,          \* amiga_exe_file_path
    hunks,        \* debug_info.hunks
    segments,     \* segments
    breakpoints,  \* breakpoints
    asked,        \* those the user has set and not deleted (history)
    location,     \* exception_location
    debugState,   \* debug_state
    pc,           \* where the update is; "idle" between updates, "panicked" after a panic
    next,         \* the breakpoint send_breakpoints is at
    stream,       \* conn.stream is Some
    needsAck,     \* conn.needs_ack
    alive,        \* the emulator has its end of the stream open
    serverAck,    \* the emulator acknowledges commands
    uae,          \* the emulator: what is loaded, runs, is armed, and its program counter
    inbox,        \* what it sent and the plugin did not read
    clean,        \* every reply was read as the reply it is (history, of a connection)
    connections   \* connections so far

session  == <<exe, hunks, segments, breakpoints, asked, location, debugState>>
update   == <<pc, next>>
link     == <<stream, needsAck, alive, serverAck, uae, inbox, clean, connections>>
vars     == <<session, update, link>>

-----------------------------------------------------------------------------
(* The emulator.                                                            *)

SegmentsOf(name) == IF name = NoExe THEN << >> ELSE Loaded[name]

Span(segment) == segment.address..(segment.address + segment.size - 1)

CodeOf(name) == UNION {Span(SegmentsOf(name)[s]) : s \in DOMAIN SegmentsOf(name)}

\* A breakpoint is armed at a place in a segment, or at an address, the place in no segment.
AtAddress(address) == Place(-1, address)

AddressOf(place, name) ==
    CASE place.seg = -1                                -> place.offset
      [] place.seg \in 0..(Len(SegmentsOf(name)) - 1)  ->
             SegmentsOf(name)[place.seg + 1].address + place.offset
      [] OTHER                                         -> -1

\* Where it may stop: at a breakpoint, or anywhere in a program that was stepped over.
Reachable(name) == IF name = NoExe THEN {0} ELSE CodeOf(name)

StopsAt(u) ==
    IF u.run = "over" THEN Reachable(u.exe)
    ELSE {AddressOf(place, u.exe) : place \in u.armed} \intersect CodeOf(u.exe)

Emulator == [exe |-> NoExe, run |-> "no", at |-> 0, armed |-> {}]

Packet(kind, at, name) == [kind |-> kind, at |-> at, exe |-> name]
NoPacket   == Packet("none", 0, NoExe)
OK         == Packet("ok", 0, NoExe)
StopPacket == Packet("S", 0, NoExe)

\* Some memory, or a frame: an even number of characters, and no stop.
DataPacket == Packet("data", 0, NoExe)

Command(name, place, file) == [name |-> name, place |-> place, exe |-> file]
Plainly(name) == Command(name, NoPlace, NoExe)

\* What the emulator does with a command, and answers.
Executed(command) ==
    LET to(u, answer) == [uae |-> u, answer |-> answer]
    IN  CASE command.name = "s"    -> {to([uae EXCEPT !.run = "no", !.at = a], StopPacket) :
                                        a \in Reachable(uae.exe)}
          [] command.name = "c"    -> {to([uae EXCEPT !.run = "free", !.at = 0], OK)}
          [] command.name = "g"    -> {to(uae, Packet("registers", uae.at, NoExe))}
          [] command.name = "m"    -> {to(uae, DataPacket)}
          [] command.name = "Z0"   -> {to([uae EXCEPT !.armed = @ \union {command.place}], OK)}
          [] command.name = "z0"   -> {to([uae EXCEPT !.armed = @ \ {command.place}], OK)}
          [] command.name = "vRun" -> {to([uae EXCEPT !.exe = command.exe, !.run = "free", !.at = 0],
                                          Packet("AS", 0, command.exe))}
          [] OTHER                 -> {to(uae, OK)}

PacketSet == [kind : {"none", "ok", "S", "data"}, at : {0}, exe : {NoExe}]
               \union [kind : {"registers"}, at : {0} \union UNION {CodeOf(e) : e \in Exe},
                       exe : {NoExe}]
               \union [kind : {"AS"}, at : {0}, exe : Exe]

-----------------------------------------------------------------------------
(* The connection.                                                          *)

\* The modes of the two ends differ, or something is before the acknowledgement: what is read
\* is an illegal reply.
Mismatch == needsAck # serverAck \/ (needsAck /\ inbox # << >>)

\* A reply that comes late: what it says of the program counter is not kept.
Late(packet) == [packet EXCEPT !.at = 0]

\* What can be read as a reply.
Replies(command) == {NoPacket} \union ToSet(inbox) \union {done.answer : done \in Executed(command)}

\* Some call of the gdb client that sends a command and reads its reply; NoPacket is a failure.
Exchange(command, reply) ==
    \/ /\ ~stream /\ reply = NoPacket
       /\ UNCHANGED <<stream, alive, serverAck, uae, inbox, clean>>
    \/ /\ stream /\ ~alive
       /\ \/ inbox = << >> /\ stream' \in BOOLEAN /\ reply = NoPacket /\ UNCHANGED inbox
          \/ inbox # << >> /\ reply \in {NoPacket, Head(inbox)} /\ inbox' = Tail(inbox)
             /\ UNCHANGED stream
       /\ clean' = FALSE
       /\ UNCHANGED <<alive, serverAck, uae>>
    \/ /\ stream /\ alive
       /\ \E done \in Executed(command) :
            LET left == Append(inbox, Late(done.answer))
            IN  /\ uae' = done.uae
                /\ serverAck' = (serverAck /\ command.name # "QStartNoAckMode")
                /\ \/ /\ reply = Head(Append(inbox, done.answer)) /\ ~Mismatch
                      /\ inbox' = Tail(left)
                      /\ clean' = (clean /\ inbox = << >>)
                   \/ /\ reply = NoPacket
                      /\ inbox' \in {left, Tail(left), << >>} /\ Len(inbox') <= MaxUnread
                      /\ clean' = FALSE
       /\ UNCHANGED <<stream, alive>>

\* write_source_line_location: what is shown with the location.  The lines are always looked for
\* in those of segment 0.
LineOf(address) ==
    LET within == {s \in DOMAIN segments : address \in Span(segments[s])}
    IN  IF within = {} THEN NoSource
        ELSE ResolveFileLine(hunks, address - segments[Min(within)].address, 0)

-----------------------------------------------------------------------------
\* The events that change something or ask the emulator; the others are answered from what is
\* there.  Memory is asked for itself and for its disassembly.
Event == [kind : {"none", "registers", "memory"}]
           \union [kind : {"set file"}, exe : Exe]
           \union [kind : {"set line"}, source : SourceLines]
           \union [kind : {"set address", "delete address"}, address : Addresses]

Action == {"none", "break", "run", "step", "step over", "stop"}

Init ==
    /\ exe = NoExe /\ hunks = << >> /\ segments = << >> /\ breakpoints = << >> /\ asked = {}
    /\ location = 0 /\ debugState = "NoTarget"
    /\ pc = "idle" /\ next = 0
    /\ stream = FALSE /\ needsAck = TRUE /\ alive = FALSE /\ serverAck = TRUE
    /\ uae = Emulator /\ inbox = << >> /\ clean = TRUE /\ connections = 0

\* Mutant: the state stays what it was when a stop is read.
UpdateKeepsState ==
    /\ pc = "idle"
    /\ \/ /\ ~stream
          /\ debugState' = "NoTarget"
          /\ pc' = "event"
          /\ UNCHANGED <<inbox, clean>>
       \/ /\ stream /\ ~needsAck
          /\ \E k \in 0..Len(inbox) :
                /\ inbox' = SubSeq(inbox, k + 1, Len(inbox))
                /\ pc' = IF k > 0 /\ inbox[1].kind = "S" THEN "incoming" ELSE "event"
                /\ clean' = (clean /\ k <= 1)
          /\ UNCHANGED debugState
       \/ /\ stream /\ needsAck
          /\ inbox' \in {inbox} \union (IF inbox = << >> THEN {} ELSE {Tail(inbox)})
          /\ clean' = (clean /\ inbox = << >>)
          /\ pc' = "event"
          /\ UNCHANGED debugState
    /\ UNCHANGED <<exe, hunks, segments, breakpoints, asked, location, next,
                   stream, needsAck, alive, serverAck, uae, connections>>

\* update_conn_incoming: whatever has come is read, and known by what is first.
Update ==
    /\ pc = "idle"
    /\ \/ /\ ~stream
          /\ debugState' = "NoTarget"
          /\ pc' = "event"
          /\ UNCHANGED <<inbox, clean>>
       \/ /\ stream /\ ~needsAck
          /\ \E k \in 0..Len(inbox) :
                /\ inbox' = SubSeq(inbox, k + 1, Len(inbox))
                /\ IF k > 0 /\ inbox[1].kind = "S"
                   THEN debugState' = "StopException" /\ pc' = "incoming"
                   ELSE pc' = "event" /\ UNCHANGED debugState
                /\ clean' = (clean /\ k <= 1)
       \/ /\ stream /\ needsAck
          /\ inbox' \in {inbox} \union (IF inbox = << >> THEN {} ELSE {Tail(inbox)})
          /\ clean' = (clean /\ inbox = << >>)
          /\ pc' = "event"
          /\ UNCHANGED debugState
    /\ UNCHANGED <<exe, hunks, segments, breakpoints, asked, location, next,
                   stream, needsAck, alive, serverAck, uae, connections>>

\* The digits of registers and memory are converted in pairs, which panics at the last one of an
\* odd number: those of a stop, "S05", and of some segments.
MayBeOdd(reply)  == reply.kind \in {"S", "AS"}
MayBeEven(reply) == reply.kind # "S"

Panic == pc' = "panicked" /\ UNCHANGED location

\* get_registers of the client, with what is kept of it.  Any reply of even length has an address
\* in it; without one the update goes on, too.
ReadRegisters(then) ==
    \E reply \in Replies(Plainly("g")) :
        /\ Exchange(Plainly("g"), reply)
        /\ \/ /\ MayBeEven(reply)
              /\ location' = IF reply = NoPacket THEN location ELSE reply.at
              /\ pc' = then
           \/ MayBeOdd(reply) /\ Panic

\* update_pc, of an incoming stop or after a step.
UpdatePc ==
    /\ pc \in {"incoming", "stepped"}
    /\ ReadRegisters(IF pc = "incoming" THEN "event" ELSE "idle")
    /\ UNCHANGED <<exe, hunks, segments, breakpoints, asked, debugState, next,
                   needsAck, connections>>

-----------------------------------------------------------------------------
(* The event of the update.                                                 *)

Breakpoint(source, address) == [source |-> source, address |-> address]
OnLine(source)     == Breakpoint(source, -1)
OnAddress(address) == Breakpoint(NoSource, address)

PlaceOf(b) ==
    IF b.source # NoSource THEN GetAddressSeg(hunks, b.source.name, b.source.line)
    ELSE AtAddress(b.address)

\* toggle_breakpoint_fileline and set_breakpoint_at_address: a failure changes nothing.
Send(name, place) ==
    IF place = NoPlace THEN UNCHANGED <<stream, alive, serverAck, uae, inbox, clean>>
    ELSE \E reply \in Replies(Command(name, place, NoExe)) : Exchange(Command(name, place, NoExe), reply)

\* Mutant: a breakpoint is kept for later only when it cannot be sent.
SetBreakpointUnsent(b) ==
    /\ Len(breakpoints) < MaxBreakpoints
    /\ breakpoints' = IF PlaceOf(b) = NoPlace \/ ~stream THEN Append(breakpoints, b) ELSE breakpoints
    /\ asked' = asked \union {b}
    /\ Send("Z0", PlaceOf(b))
    /\ UNCHANGED <<exe, location>>


SetBreakpoint(b) ==
    /\ Len(breakpoints) < MaxBreakpoints
    /\ breakpoints' = Append(breakpoints, b)
    /\ asked' = asked \union {b}
    /\ Send("Z0", PlaceOf(b))
    /\ UNCHANGED <<exe, location>>

\* Only the emulator forgets the breakpoint: the list keeps it.
DeleteBreakpoint(address) ==
    /\ Send("z0", AtAddress(address))
    /\ asked' = asked \ {OnAddress(address)}
    /\ UNCHANGED <<exe, breakpoints, location>>

GetRegisters == ReadRegisters("action") /\ UNCHANGED <<exe, breakpoints, asked>>

\* get_memory and write_disassembly, of one chunk: nothing is kept of the reply.
GetMemory ==
    /\ \E reply \in Replies(Plainly("m")) :
         /\ Exchange(Plainly("m"), reply)
         /\ \/ MayBeEven(reply) /\ pc' = "action" /\ UNCHANGED location
            \/ MayBeOdd(reply) /\ Panic
    /\ UNCHANGED <<exe, breakpoints, asked>>

Offline ==
    UNCHANGED <<breakpoints, asked, location, stream, alive, serverAck, uae, inbox, clean>>

HandleEvent(event) ==
    /\ pc = "event"
    /\ \/ event.kind = "registers" /\ GetRegisters
       \/ event.kind = "memory" /\ GetMemory
       \/ /\ pc' = "action"
          /\ \/ event.kind = "none" /\ Offline /\ UNCHANGED exe
             \/ event.kind = "set file" /\ Offline /\ exe' = event.exe
             \/ event.kind = "set line" /\ SetBreakpoint(OnLine(event.source))
             \/ event.kind = "set address" /\ SetBreakpoint(OnAddress(event.address))
             \/ event.kind = "delete address" /\ DeleteBreakpoint(event.address)
    /\ UNCHANGED <<hunks, segments, debugState, next, needsAck, connections>>

-----------------------------------------------------------------------------
(* The action of the update.                                                *)

\* Mutant: the registers are not read after a step.
StepOnly(state) ==
    /\ \E reply \in Replies(Plainly("s")) : Exchange(Plainly("s"), reply)
    /\ pc' = "idle"
    /\ debugState' = state
    /\ UNCHANGED <<hunks, next, needsAck, connections>>

\* step, which reads the registers when it has a reply; Trace comes either way.
Step(state) ==
    /\ \E reply \in Replies(Plainly("s")) :
         /\ Exchange(Plainly("s"), reply)
         /\ pc' = IF reply = NoPacket THEN "idle" ELSE "stepped"
    /\ debugState' = state
    /\ UNCHANGED <<hunks, next, needsAck, connections>>

\* step_over sends and reads nothing.
StepOver ==
    /\ uae' = IF stream /\ alive THEN [uae EXCEPT !.run = "over", !.at = 0] ELSE uae
    /\ debugState' = "Running"
    /\ pc' = "idle"
    /\ UNCHANGED <<hunks, next, needsAck, stream, alive, serverAck, inbox, clean, connections>>

\* The kill command.  To an emulator that has gone it may fail, as without a connection.
Stop ==
    /\ \/ stream /\ hunks' = << >> /\ debugState' = "NoTarget"
       \/ ~(stream /\ alive) /\ UNCHANGED <<hunks, debugState>>
    /\ uae' = IF stream /\ alive THEN [uae EXCEPT !.exe = NoExe, !.run = "no", !.at = 0] ELSE uae
    /\ pc' = "idle"
    /\ UNCHANGED <<next, needsAck, stream, alive, serverAck, inbox, clean, connections>>

Continue ==
    /\ debugState = "Trace"
    /\ \E reply \in Replies(Plainly("c")) :
         /\ Exchange(Plainly("c"), reply)
         /\ debugState' = IF reply = NoPacket THEN debugState ELSE "Running"
    /\ pc' = "idle"
    /\ UNCHANGED <<hunks, next, needsAck, connections>>

\* load_info keeps the lines it had when the executable cannot be parsed.
LoadInfo == hunks' = IF Parses(Files[exe]) THEN ParseFile(Files[exe]) ELSE hunks

\* connect: a new emulator, which acknowledges; the client stays in the mode it was in.
Connects ==
    \/ stream /\ pc' = "arm" /\ UNCHANGED <<stream, alive, serverAck, uae, inbox, clean, connections>>
    \/ ~stream /\ pc' = "idle" /\ UNCHANGED <<stream, alive, serverAck, uae, inbox, clean, connections>>
    \/ /\ ~stream /\ connections < MaxConnections
       /\ connections' = connections + 1
       /\ stream' = TRUE /\ alive' = TRUE /\ serverAck' = TRUE
       /\ uae' = Emulator /\ inbox' = << >> /\ clean' = TRUE
       /\ pc' = "handshake"

\* Mutant: the breakpoints are sent with a new connection only.
RunSendsOnce ==
    /\ debugState # "Trace" /\ exe # NoExe
    /\ LoadInfo
    /\ Connects
    /\ next' = IF pc' = "idle" THEN 0 ELSE IF stream THEN Len(breakpoints) + 1 ELSE 1
    /\ UNCHANGED <<debugState, needsAck>>


Run ==
    /\ debugState # "Trace" /\ exe # NoExe
    /\ LoadInfo
    /\ Connects
    /\ next' = IF pc' = "idle" THEN 0 ELSE 1
    /\ UNCHANGED <<debugState, needsAck>>

NoAction(action) ==
    /\ action = "none" \/ (action = "run" /\ debugState # "Trace" /\ exe = NoExe)
    /\ pc' = "idle"
    /\ UNCHANGED <<hunks, debugState, next, link>>

HandleAction(action) ==
    /\ pc = "action"
    /\ \/ NoAction(action)
       \/ action = "break" /\ Step(debugState)
       \/ action = "step" /\ Step("Trace")
       \/ action = "step over" /\ StepOver
       \/ action = "stop" /\ Stop
       \/ action = "run" /\ (Continue \/ Run)
    /\ UNCHANGED <<exe, segments, breakpoints, asked, location>>

\* request_no_ack_mode, of connect.  Without a reply there is no run.
Handshake ==
    /\ pc = "handshake"
    /\ \E reply \in Replies(Plainly("QStartNoAckMode")) :
         /\ Exchange(Plainly("QStartNoAckMode"), reply)
         /\ pc' = IF reply = NoPacket THEN "idle" ELSE "arm"
         /\ next' = IF reply = NoPacket THEN 0 ELSE 1
         /\ needsAck' = (needsAck /\ reply # OK)
    /\ UNCHANGED <<session, connections>>

\* send_breakpoints: those without lines are left out, and a failure is no reason to stop.
SendBreakpoint ==
    /\ pc = "arm" /\ next <= Len(breakpoints)
    /\ Send("Z0", PlaceOf(breakpoints[next]))
    /\ next' = next + 1
    /\ UNCHANGED <<session, pc, needsAck, connections>>

\* store_segments, of a reply that is one.
StoreSegments(reply) == segments' = IF reply.kind = "AS" THEN SegmentsOf(reply.exe) ELSE << >>

\* The plugin takes the program for running with and without a reply.
Launch ==
    /\ pc = "arm" /\ next > Len(breakpoints)
    /\ \E reply \in Replies(Command("vRun", NoPlace, exe)) :
         /\ Exchange(Command("vRun", NoPlace, exe), reply)
         /\ IF reply = NoPacket THEN UNCHANGED segments ELSE StoreSegments(reply)
    /\ debugState' = "Running"
    /\ pc' = "idle"
    /\ next' = 0
    /\ UNCHANGED <<exe, hunks, breakpoints, asked, location,
                   needsAck, connections>>

-----------------------------------------------------------------------------
(* The emulator, of its own accord.                                         *)

Sends(packet) ==
    /\ Len(inbox) < MaxUnread
    /\ inbox' = Append(inbox, packet)
    /\ UNCHANGED <<session, update, stream, needsAck, alive, serverAck, clean, connections>>

\* It stops at a breakpoint, or behind what was stepped over.
EmulatorStops ==
    /\ alive /\ uae.run # "no"
    /\ \E a \in StopsAt(uae) : uae' = [uae EXCEPT !.run = "no", !.at = a]
    /\ Sends(StopPacket)

EmulatorFrame ==
    /\ alive /\ uae.run # "no"
    /\ Sends(DataPacket)
    /\ UNCHANGED uae

EmulatorQuits ==
    /\ alive /\ alive' = FALSE
    /\ serverAck' = TRUE
    /\ uae' = Emulator
    /\ UNCHANGED <<session, update, stream, needsAck, inbox, clean, connections>>

-----------------------------------------------------------------------------
Plugin ==
    \/ Update
    \/ UpdatePc
    \/ \E event \in Event : HandleEvent(event)
    \/ \E action \in Action : HandleAction(action)
    \/ Handshake \/ SendBreakpoint \/ Launch

Next == Plugin \/ EmulatorStops \/ EmulatorFrame \/ EmulatorQuits

Spec == Init /\ [][Next]_vars

\* An update that was begun comes to its end, or panics.  While the program runs the session
\* polls, and what was sent arrives at some poll: of all that may be left for later, something is
\* read again and again.  In the other states an update comes with an event or an action only, if
\* at all.
FairSpec ==
    /\ Spec
    /\ []<>(pc \in {"idle", "panicked"})
    /\ SF_vars(debugState = "Running" /\ Update /\ inbox' # inbox)
-----------------------------------------------------------------------------
PlaceSet == [seg : {-1} \union Nat, offset : Nat]

TypeOK ==
    /\ exe \in Exe \union {NoExe}
    /\ hunks \in Seq(Seq(SourceFileSet))
    /\ segments \in Seq([address : Nat, size : Nat])
    /\ Len(breakpoints) <= MaxBreakpoints
    /\ \A b \in DOMAIN breakpoints :
           breakpoints[b] \in {OnLine(l) : l \in SourceLines} \union {OnAddress(a) : a \in Addresses}
    /\ asked \subseteq {breakpoints[b] : b \in DOMAIN breakpoints}
    /\ location \in Nat
    /\ debugState \in {"NoTarget", "Running", "StopException", "Trace"}
    /\ pc \in {"idle", "incoming", "event", "action", "stepped", "handshake", "arm",
              "panicked"}
    /\ next \in 0..(MaxBreakpoints + 1)
    /\ \A v \in {stream, needsAck, alive, serverAck, clean} : v \in BOOLEAN
    /\ uae.run \in {"no", "free", "over"} /\ uae.armed \subseteq PlaceSet
    /\ inbox \in Seq(PacketSet) /\ Len(inbox) <= MaxUnread
    /\ connections \in 0..MaxConnections

\* A program is launched with every breakpoint armed that the user asked for and that has a
\* place: also those set before there was an executable, a connection or line tables (lib.rs:250,
\* "storing breakpoint and send it later"), and whatever failed on the way.
BreakpointsArmed ==
    [][pc = "arm" /\ pc' = "idle" /\ stream /\ alive =>
           \A b \in asked : PlaceOf(b) # NoPlace => PlaceOf(b) \in uae'.armed]_vars

\* The line tables a program is launched with are those of its file: each entry of a debug block,
\* at its offset in the segment, and no other.
TablesOfTheFile ==
    pc = "arm" /\ Parses(Files[exe]) =>
        \A h \in DOMAIN hunks : EntriesOf(hunks[h]) = EntriesIn(Files[exe].hunks[h])

\* While replies and events are read as what they are, the location is where the emulator has
\* stopped.
LocationIsWhereStopped ==
    clean /\ pc = "idle" /\ stream /\ alive /\ debugState \in {"StopException", "Trace"}
        /\ uae.run = "no" /\ inbox = << >>
        => location = uae.at

\* A stop of the running program, when it is next to be read, is noticed by a poll, as long as
\* nothing was read as what it is not: the plugin does not go on taking the program for running.
StopNoticed ==
    debugState = "Running" /\ inbox # << >> /\ inbox[1] = StopPacket
        /\ stream /\ ~needsAck /\ clean
        ~> debugState # "Running" \/ ~clean

\* An address with an entry in the table of its segment is shown as that line.
ShownAsTheLineOf(s) ==
    \A e \in EntriesOf(hunks[s]) :
        LET name == e[1] line == e[2] offset == e[3]
        IN  offset < segments[s].size =>
                LineOf(segments[s].address + offset) \in
                    {Source(g[1], g[2]) : g \in {g \in EntriesOf(hunks[s]) : g[3] = offset}}

\* The tables of a hunk follow each other, as the units of a linked program do.
InAddressOrder(files) ==
    \A f, g \in DOMAIN files : f < g =>
        \A i \in DOMAIN files[f].lines, j \in DOMAIN files[g].lines :
            files[f].lines[i].offset <= files[g].lines[j].offset

\* A breakpoint of the first segment is shown, when it stops the program, at the line it was set
\* at, over tables of several files.
FirstSegmentLines ==
    segments # << >> /\ hunks # << >> /\ InAddressOrder(hunks[1]) => ShownAsTheLineOf(1)

\* lib.rs:204, "Write source/line if we can find debug info for it": so in every segment.
SegmentLines == \A s \in DOMAIN segments \intersect DOMAIN hunks : ShownAsTheLineOf(s)
=============================================================================
