------------------------------ MODULE GdbRemote ------------------------------
(***************************************************************************)
(* The client of the gdb remote protocol: commands and their replies, the  *)
(* acknowledgement of commands with resends, the mode without              *)
(* acknowledgements, events read between commands, memory fetched in       *)
(* chunks, a read that times out, and a server that goes away.             *)
(*                                                                         *)
(* The server is external, as the tests of the crate play it.  What it has *)
(* sent and the client has not read is one queue.  A packet is two units   *)
(* of it, because a read returns any part of what was sent: several        *)
(* packets at once, or a packet in two reads.                              *)
(***************************************************************************)
EXTENDS Integers, Sequences, SequencesExt

CONSTANTS
    ChunkSize,       \* size_per_loop of get_memory: (PACKET_SIZE - 4) / 2
    MemorySizes,     \* sizes get_memory is asked for
    MaxCommands,     \* bound: commands sent
    MaxEvents,       \* bound: events the server sends of its own accord
    MaxConnections   \* bound: connections, one after the other

ASSUME GdbAssumption ==
    /\ ChunkSize \in Nat \ {0} /\ MemorySizes \subseteq Nat \ {0}
    /\ {MaxCommands, MaxEvents, MaxConnections} \subseteq Nat

VARIABLES
    stream,      \* stream is Some
    needsAck,    \* needs_ack
    last,        \* temp_string: the last command built, sent again after a nak
    pc,          \* what the client waits for; "idle" between calls, "panicked" after a panic
    caller,      \* the function that is called
    memory,      \* the loop of get_memory: data_size, addr and dest, by its parts
    collected,   \* temp_data of read_incoming_event
    result,      \* what the last call returned
    sent,        \* commands sent so far: their numbers are 1..sent
    clean,       \* nothing stray was there when the command was sent, or came since (history)
    connections, \* connections so far
    alive,       \* the server has its end of the stream open
    serverAck,   \* the server acknowledges commands
    requests,    \* commands the server has not taken yet
    inbox,       \* what the server sent and the client did not read
    executed,    \* how often the server executed each command (history)
    events       \* events sent so far

client == <<stream, needsAck, last, pc, caller, memory, collected, result, sent, clean>>
server == <<alive, serverAck, requests, inbox, executed, events>>
vars   == <<client, connections, server>>

-----------------------------------------------------------------------------
(* What is sent.  A packet has the number of the command it replies to.     *)

Number == 1..MaxCommands

PacketKind == {"ok", "text", "empty", "error", "data", "event"}

Packet(kind, to, addr, size) == [kind |-> kind, to |-> to, addr |-> addr, size |-> size]

NoPacket == Packet("none", 0, 0, 0)

Unit(part, packet) == [part |-> part, packet |-> packet]

Ack  == <<Unit("ack", NoPacket)>>
Nak  == <<Unit("nak", NoPacket)>>
Whole(packet) == <<Unit("head", packet), Unit("tail", packet)>>

\* A packet whose first byte was read as an acknowledgement.
Beheaded(units) == <<Unit("junk", NoPacket)>> \o Tail(units)

\* validate_checksum accepts what was read: exactly one packet.
IsPacket(units) == Len(units) = 2 /\ units = Whole(units[1].packet)

\* Fewer than four bytes may have been read, for which the slice of the payload panics.
MaybeShort(units) == Len(units) = 1 \/ \A i \in 1..Len(units) : units[i].part \in {"ack", "nak"}

Command(name, n, addr, size) == [name |-> name, n |-> n, addr |-> addr, size |-> size]

NoCommand == Command("none", 0, 0, 0)

\* step_over and "k" are sent without a look at a reply.
Awaited == {"command", "registers", "noack", "memory"}

\* convert_hex_data_to_binary takes two digits at a time and panics at the last one of an odd
\* number.  An error is "E01"; an event is a stop, "S05", or a frame, and text is of any length.
MayBeOdd(packet)  == packet.kind \in {"error", "text", "event"}
MayBeEven(packet) == packet.kind # "error"

Memory(left, addr, dest) == [left |-> left, addr |-> addr, dest |-> dest]

NoMemory == Memory(0, 0, << >>)

Result(status, packet) == [status |-> status, packet |-> packet]

NoResult == Result("none", NoPacket)

-----------------------------------------------------------------------------
Init ==
    /\ stream = FALSE
    /\ needsAck = TRUE
    /\ last = NoCommand
    /\ pc = "idle"
    /\ caller = "none"
    /\ memory = NoMemory
    /\ collected = << >>
    /\ result = NoResult
    /\ sent = 0
    /\ clean = TRUE
    /\ connections = 0
    /\ alive = FALSE
    /\ serverAck = TRUE
    /\ requests = << >>
    /\ inbox = << >>
    /\ executed = [n \in Number |-> 0]
    /\ events = 0

\* connect.  The mode of the client stays what it was; a new server acknowledges.
Connect ==
    /\ pc = "idle" /\ ~stream
    /\ connections < MaxConnections
    /\ connections' = connections + 1
    /\ stream' = TRUE
    /\ alive' = TRUE
    /\ serverAck' = TRUE
    /\ requests' = << >>
    /\ inbox' = << >>
    /\ result' = NoResult
    /\ UNCHANGED <<needsAck, last, pc, caller, memory, collected, sent, clean,
                   executed, events>>

-----------------------------------------------------------------------------
(* Commands.                                                                *)

\* send_command: the bytes go to the server, or nowhere if it has gone.  "stray" is what
\* is left in the inbox.
Send(command, stray) ==
    /\ sent < MaxCommands
    /\ last' = command
    /\ sent' = sent + 1
    /\ requests' = IF alive THEN Append(requests, command) ELSE requests
    /\ clean' = (stray = << >> /\ requests = << >> /\ (pc = "reply" => clean))

\* read_reply: an acknowledgement comes first in the mode with them.
Reading == IF needsAck THEN "ack" ELSE "reply"

\* send_command_wait_reply_raw, and request_no_ack_mode or get_registers around it.
Request(name) ==
    /\ pc = "idle" /\ stream
    /\ Send(Command(name, sent + 1, 0, 0), inbox)
    /\ pc' = Reading
    /\ caller' = name
    /\ result' = NoResult
    /\ memory' = NoMemory
    /\ UNCHANGED <<stream, needsAck, collected, connections,
                   alive, serverAck, inbox, executed, events>>

\* step_over, and the kill command: nothing is read.
SendOnly ==
    /\ pc = "idle" /\ stream
    /\ Send(Command("silent", sent + 1, 0, 0), inbox)
    /\ result' = NoResult
    /\ memory' = NoMemory
    /\ UNCHANGED <<stream, needsAck, pc, caller, collected, connections,
                   alive, serverAck, inbox, executed, events>>

Min2(a, b) == IF a < b THEN a ELSE b

ChunkCommand(m) == Command("memory", sent + 1, m.addr, Min2(m.left, ChunkSize))

\* get_memory, of addresses from 0.
GetMemory(size) ==
    /\ pc = "idle" /\ stream
    /\ memory' = Memory(size, 0, << >>)
    /\ Send(ChunkCommand(memory'), inbox)
    /\ pc' = Reading
    /\ caller' = "memory"
    /\ result' = NoResult
    /\ UNCHANGED <<stream, needsAck, collected, connections,
                   alive, serverAck, inbox, executed, events>>

-----------------------------------------------------------------------------
(* The end of a call.                                                       *)

Return(status, packet) ==
    /\ pc' = "idle"
    /\ caller' = "none"
    /\ collected' = << >>
    /\ result' = Result(status, packet)

\* A call that fails gives up what it collected.
Fail ==
    /\ Return(IF caller = "event" THEN "no event" ELSE "failed", NoPacket)
    /\ memory' = NoMemory

Panic ==
    /\ pc' = "panicked"
    /\ UNCHANGED <<caller, collected, result, memory>>

\* Mutant: the command is sent again after a timeout.
TimesOutResends ==
    /\ pc \in {"ack", "reply"}
    /\ IF caller \in Awaited /\ alive /\ Len(requests) < 2
       THEN requests' = Append(requests, last) /\ UNCHANGED <<pc, caller, memory, collected, result>>
       ELSE Fail /\ UNCHANGED requests
    /\ UNCHANGED <<stream, needsAck, last, sent, clean, connections,
                   alive, serverAck, inbox, executed, events>>

\* The read times out, the connection was reset, the command could not be sent, or the stream
\* ended where an acknowledgement is due, which makes it an illegal reply.  The stream stays.
TimesOut ==
    /\ pc \in {"ack", "reply"}
    /\ Fail
    /\ UNCHANGED <<stream, needsAck, last, sent, clean, connections, server>>

-----------------------------------------------------------------------------
(* handle_send_ack.                                                         *)

ReadAck ==
    /\ pc = "ack" /\ inbox # << >> /\ Head(inbox).part = "ack"
    /\ inbox' = Tail(inbox)
    /\ pc' = "reply"
    /\ UNCHANGED <<stream, needsAck, last, caller, memory, collected, result, sent, clean,
                   connections, alive, serverAck, requests, executed, events>>

\* The command is sent again as often as the server asks for it: the loop has no limit.
ReadNak ==
    /\ pc = "ack" /\ inbox # << >> /\ Head(inbox).part = "nak"
    /\ inbox' = Tail(inbox)
    /\ requests' = IF alive THEN Append(requests, last) ELSE requests
    /\ UNCHANGED <<client, connections, alive, serverAck, executed, events>>

\* Mutant: whatever is not an acknowledgement asks for the command again.
ReadIllegalResends ==
    /\ pc = "ack" /\ inbox # << >> /\ Head(inbox).part \notin {"ack", "nak"}
    /\ inbox' = Tail(inbox)
    /\ requests' = IF alive THEN Append(requests, last) ELSE requests
    /\ UNCHANGED <<client, connections, alive, serverAck, executed, events>>

\* Anything else is an illegal reply; one byte of it is gone.
ReadIllegal ==
    /\ pc = "ack" /\ inbox # << >> /\ Head(inbox).part \notin {"ack", "nak"}
    /\ inbox' = Beheaded(inbox)
    /\ Fail
    /\ UNCHANGED <<stream, needsAck, last, sent, clean,
                   connections, alive, serverAck, requests, executed, events>>

-----------------------------------------------------------------------------
(* The reply.                                                               *)

\* Some of what was sent is read.
Take(k) ==
    /\ k \in 1..Len(inbox)
    /\ inbox' = SubSeq(inbox, k + 1, Len(inbox))

\* Mutant: any reply will do.
MayBeOKAny(packet) == TRUE

\* A reply that begins with "OK": that of the server to QStartNoAckMode does, and some text, as
\* that to a breakpoint.
IsOK(packet)    == packet.kind = "ok"
MayBeOK(packet) == packet.kind \in {"ok", "text"}

\* The mode changes on "OK".
NeedsAckAfter(packet) ==
    \/ caller = "noack" /\ MayBeOK(packet) /\ needsAck' = FALSE
    \/ ~(caller = "noack" /\ IsOK(packet)) /\ UNCHANGED needsAck

\* Mutant: the last chunk counts as a whole one.
MemoryAfterWhole(packet) ==
    Memory(memory.left - ChunkSize, memory.addr + ChunkSize, Append(memory.dest, packet))

\* Mutant: every chunk is asked for at the same address.
MemoryAfterSame(packet) ==
    Memory(memory.left - last.size, memory.addr, Append(memory.dest, packet))

\* A part of dest; the loop goes on by what it asked for.
MemoryAfter(packet) ==
    Memory(memory.left - last.size, memory.addr + last.size, Append(memory.dest, packet))

\* send_command_wait_reply_raw accepts the packet, and get_registers can convert it.
ReplyAccepted(packet) ==
    /\ caller = "registers" => MayBeEven(packet)
    /\ NeedsAckAfter(packet)
    /\ Return("ok", packet)
    /\ UNCHANGED <<last, memory, sent, clean, requests>>

\* The packet has an odd number of digits.
OddPanics(packet) ==
    /\ \/ caller = "registers" /\ MayBeOdd(packet)
       \/ caller = "memory" /\ MayBeOdd(packet) /\ packet.kind # "error"
    /\ Panic
    /\ UNCHANGED <<needsAck, last, sent, clean, requests>>

\* An error ends get_memory, which fails when there was nothing before.  The digits of data are
\* in lower case, so that no chunk of it begins like one.
MemoryRefused(packet) ==
    /\ packet.kind = "error"
    /\ Return(IF memory.addr = 0 THEN "failed" ELSE "ok", packet)
    /\ UNCHANGED <<needsAck, last, memory, sent, clean, requests>>

\* The last chunk, or one after which the next is asked for at once.
MemoryAccepted(packet, stray) ==
    /\ packet.kind # "error"
    /\ memory' = MemoryAfter(packet)
    /\ IF memory'.left = 0
       THEN /\ Return("ok", packet)
            /\ UNCHANGED <<last, sent, clean, requests>>
       ELSE /\ Send(ChunkCommand(memory'), stray)
            /\ pc' = Reading
            /\ UNCHANGED <<caller, collected, result>>
    /\ UNCHANGED needsAck

ReadReply(k) ==
    /\ pc = "reply" /\ caller \in Awaited
    /\ Take(k)
    /\ LET read   == SubSeq(inbox, 1, k)
           packet == read[1].packet
       IN  \/ IsPacket(read) /\ caller # "memory" /\ ReplyAccepted(packet)
           \/ IsPacket(read) /\ caller = "memory" /\ (MemoryRefused(packet)
                                                       \/ MemoryAccepted(packet, inbox'))
           \/ IsPacket(read) /\ OddPanics(packet)
           \/ /\ ~IsPacket(read)
              /\ Fail \/ (MaybeShort(read) /\ Panic)
              /\ UNCHANGED <<needsAck, last, sent, clean, requests>>
    /\ UNCHANGED <<stream, connections, alive, serverAck, executed, events>>

\* A read of nothing: the connection is given up.
Disconnected ==
    /\ pc = "reply" /\ caller \in Awaited
    /\ inbox = << >> /\ ~alive
    /\ stream' = FALSE
    /\ Fail
    /\ UNCHANGED <<needsAck, last, sent, clean, connections, server>>

-----------------------------------------------------------------------------
(* read_incoming_event.                                                     *)

BeginEvents ==
    /\ pc = "idle" /\ stream
    /\ pc' = "poll"
    /\ caller' = "event"
    /\ result' = NoResult
    /\ memory' = NoMemory
    /\ UNCHANGED <<stream, needsAck, last, collected, sent, clean, connections, server>>

\* has_incoming_data is also true at the end of the stream.
PollReadable ==
    /\ pc = "poll"
    /\ inbox # << >> \/ ~alive
    /\ pc' = Reading
    /\ UNCHANGED <<stream, needsAck, last, caller, memory, collected, result, sent, clean,
                   connections, server>>

\* The event is known by the first bytes of what was collected, without the very first.
EventOf(units) ==
    IF units # << >> /\ units[1].part = "head" THEN units[1].packet ELSE NoPacket

EndEvents ==
    \/ Return(IF collected = << >> THEN "no event" ELSE "event", EventOf(collected))
    \/ collected # << >> /\ MaybeShort(collected) /\ Panic

\* Nothing more has come, though more may be on its way.
PollNothing ==
    /\ pc = "poll"
    /\ inbox = << >> => alive
    /\ EndEvents
    /\ UNCHANGED <<stream, needsAck, last, memory, sent, clean, connections, server>>

Collect(k) ==
    /\ pc = "reply" /\ caller = "event"
    /\ Take(k)
    /\ collected' = collected \o SubSeq(inbox, 1, k)
    /\ pc' = "poll"
    /\ UNCHANGED <<stream, needsAck, last, caller, memory, result, sent, clean,
                   connections, alive, serverAck, requests, executed, events>>

\* Mutant: the end of the stream is not told from a packet.
CollectEndPolls ==
    /\ pc = "reply" /\ caller = "event"
    /\ inbox = << >> /\ ~alive
    /\ pc' = "poll"
    /\ UNCHANGED <<stream, needsAck, last, caller, memory, collected, result, sent, clean,
                   connections, server>>

\* A read of nothing ends the loop; the stream stays.
CollectEnd ==
    /\ pc = "reply" /\ caller = "event"
    /\ inbox = << >> /\ ~alive
    /\ EndEvents
    /\ UNCHANGED <<stream, needsAck, last, memory, sent, clean, connections, server>>

-----------------------------------------------------------------------------
(* The server: it acknowledges, executes and replies, or asks again.        *)

\* Of a chunk the server may have a part only, or nothing.
Chunks(command) ==
    {Packet("data", command.n, command.addr, size) : size \in 0..command.size}

Simply(kind, command) == Packet(kind, command.n, 0, 0)

Answers(command) ==
    CASE command.name = "noack"     -> {Simply("ok", command), Simply("empty", command)}
      [] command.name = "memory"    -> {Simply("error", command)} \union Chunks(command)
      [] command.name = "registers" -> {Simply("error", command), Simply("data", command)}
      [] OTHER                      -> {Simply("text", command)}

ServerExecutes ==
    /\ alive /\ requests # << >>
    /\ LET command == Head(requests)
           ack     == IF serverAck THEN Ack ELSE << >>
       IN  /\ executed' = [executed EXCEPT ![command.n] = @ + 1]
           /\ \E answer \in Answers(command) :
                 /\ inbox' \in {inbox \o ack \o Whole(answer)} \union
                        (IF command.name = "silent" THEN {inbox \o ack} ELSE {})
                 /\ serverAck' = (serverAck /\ ~(command.name = "noack" /\ answer.kind = "ok"))
    /\ requests' = Tail(requests)
    /\ UNCHANGED <<client, connections, alive, events>>

ServerAsksAgain ==
    /\ alive /\ requests # << >> /\ serverAck
    /\ inbox' = inbox \o Nak
    /\ requests' = Tail(requests)
    /\ UNCHANGED <<client, connections, alive, serverAck, executed, events>>

\* The target stops, or the frame of the picture is over.
ServerEvent ==
    /\ alive
    /\ events < MaxEvents
    /\ events' = events + 1
    /\ inbox' = inbox \o Whole(Packet("event", events + 1, 0, 0))
    /\ clean' = FALSE
    /\ UNCHANGED <<stream, needsAck, last, pc, caller, memory, collected, result, sent,
                   connections, alive, serverAck, requests, executed>>

ServerQuits ==
    /\ alive
    /\ alive' = FALSE
    /\ requests' = << >>
    /\ UNCHANGED <<client, connections, serverAck, inbox, executed, events>>

-----------------------------------------------------------------------------
Call == Connect \/ Request("command") \/ Request("registers") \/ Request("noack") \/ SendOnly
          \/ (\E size \in MemorySizes : GetMemory(size)) \/ BeginEvents

Proceed == TimesOut \/ ReadAck \/ ReadNak \/ ReadIllegal
             \/ (\E k \in 1..Len(inbox) : ReadReply(k) \/ Collect(k))
             \/ Disconnected \/ PollReadable \/ PollNothing \/ CollectEnd

Server == ServerExecutes \/ ServerAsksAgain \/ ServerEvent \/ ServerQuits

Next == Call \/ Proceed \/ Server

Spec == Init /\ [][Next]_vars

\* A call goes on: data is read, or the read times out.
FairSpec == Spec /\ WF_vars(Proceed)
-----------------------------------------------------------------------------
PacketSet == [kind : PacketKind \union {"none"}, to : Nat, addr : Nat, size : Nat]
UnitSet   == [part : {"ack", "nak", "head", "tail", "junk"}, packet : PacketSet]
CommandSet == [name : Awaited \union {"silent", "none"}, n : 0..MaxCommands, addr : Nat, size : Nat]

TypeOK ==
    /\ stream \in BOOLEAN /\ needsAck \in BOOLEAN /\ clean \in BOOLEAN
    /\ last \in CommandSet
    /\ pc \in {"idle", "ack", "reply", "poll", "panicked"}
    /\ caller \in Awaited \union {"event", "none"}
    /\ memory.left \in Nat /\ memory.addr \in Nat /\ memory.dest \in Seq(PacketSet)
    /\ collected \in Seq(UnitSet)
    /\ result \in [status : {"none", "ok", "failed", "event", "no event"}, packet : PacketSet]
    /\ sent \in 0..MaxCommands /\ connections \in 0..MaxConnections
    /\ alive \in BOOLEAN /\ serverAck \in BOOLEAN
    /\ requests \in Seq(CommandSet) /\ inbox \in Seq(UnitSet)
    /\ executed \in [Number -> Nat]
    /\ events \in 0..MaxEvents

\* With nothing stray on the stream, an accepted reply is that of the command that was sent,
\* through acknowledgements, resends and packets that come in parts: the pairing is by order
\* alone, so this is as far as it goes, and it holds again once the events of the update after
\* a late reply have drained the stream.
ReplyIsForCommand ==
    result.status = "ok" /\ clean => result.packet.to = last.n /\ executed[last.n] = 1

\* A command is resent after a nak only, which the server sends in place of executing it: it
\* is executed once at most.  A nak that is still there from an earlier command makes the one
\* in hand go out twice; "clean" leaves that out.
ExecutedOnce == clean /\ last # NoCommand => executed[last.n] <= 1

\* The client stops expecting acknowledgements only when the server stopped sending them.
ModeLeftTogether == [][needsAck /\ ~needsAck' /\ clean => ~serverAck']_vars

\* What follows a chunk is not part of it, and is next to it when the chunk came whole.
Follows(chunk, addr) ==
    /\ chunk.addr + chunk.size <= addr
    /\ chunk.size = ChunkSize => addr = chunk.addr + chunk.size

\* Whatever parts of its chunks the server gives: what get_memory returns begins where it was
\* asked to, holds nothing twice, has a gap behind a chunk that came short only, and is not
\* longer than the size that is returned with it; also when an error ended it early.
MemoryWithoutGaps ==
    result.status = "ok" /\ last.name = "memory" /\ clean =>
        /\ memory.dest # << >> /\ memory.dest[1].addr = 0
        /\ \A i \in 2..Len(memory.dest) : Follows(memory.dest[i - 1], memory.dest[i].addr)
        /\ Follows(Last(memory.dest), memory.addr)

\* lib.rs:335, of an error behind some chunks: "If we have already got some data we just return
\* what we got".  So the size that get_memory returns is that of what it got.
ReturnsWhatItGot ==
    result.status = "ok" /\ result.packet.kind = "error" /\ last.name = "memory" /\ clean =>
        memory.addr = FoldSeq(LAMBDA chunk, size : size + chunk.size, 0, memory.dest)

Returned == pc \in {"idle", "panicked"}

\* Every call returns, or panics, when what disturbs it comes to an end: the server does not ask
\* for commands again for ever, and sends MaxEvents events at most.  It may be late, keep silent,
\* answer anything and go at any time.  Without the first a call may go on for ever, because the
\* loop of handle_send_ack has no limit (lib.rs:194-200): the timeout is that of one read.
CallReturns == ([]<><<ServerAsksAgain>>_vars) \/ (~Returned ~> Returned)
=============================================================================
