-------------------------- MODULE GdbRemoteProofs --------------------------
(***************************************************************************)
(* Theorems about GdbRemote, for any number of commands, events and        *)
(* connections and any size of memory: while nothing stray is on the       *)
(* stream, a reply that is accepted is that of the command in hand, which  *)
(* was executed once; the two ends leave the mode with acknowledgements    *)
(* together; and memory that comes in chunks holds nothing twice and has a *)
(* gap only where the server gave less than it was asked for.              *)
(***************************************************************************)
EXTENDS GdbRemote, SequenceTheorems, TLAPS

-----------------------------------------------------------------------------
(* The inductive invariant.                                                 *)

\* Commands have the numbers 1..sent, and the last of them is the one in hand.
RequestSet == [name : Awaited \union {"silent"}, n : 1..sent, addr : Nat, size : Nat]

UnaskedSet == {u \in UnitSet : u.part # "nak"}

Numbered ==
    /\ last.n = sent
    /\ last.name = "none" <=> sent = 0
    /\ sent = 0 => last = NoCommand
    /\ requests \in Seq(RequestSet)
    /\ \A n \in Number : n > sent => executed[n] = 0
    /\ sent = 0 => inbox \in Seq(UnaskedSet)

\* While it waits, a call has no result, and waits for the reply to its own command.
Waiting ==
    /\ pc \in {"ack", "reply", "poll", "panicked"} => result.status = "none"
    /\ pc \in {"ack", "reply"} => caller # "none"
    /\ pc \in {"ack", "reply"} /\ caller \in Awaited => last.name = caller
    /\ pc = "poll" => caller = "event"
    /\ result.status = "ok" => sent > 0

\* What can be on the stream of the command in hand, once it was executed.
FitSet ==
    {u \in UnitSet :
        /\ u.part # "nak"
        /\ u.part \in {"head", "tail"} =>
               /\ u.packet \in Answers(last)
               /\ last.name = "noack" /\ u.packet.kind = "ok" => ~serverAck}

\* The command in hand is on its way, or asked for again, or executed.
Paired ==
    clean /\ sent > 0 =>
        /\ executed[sent] \in {0, 1}
        /\ requests = << >> \/ (requests = <<last>> /\ executed[sent] = 0 /\ inbox = << >>)
        /\ executed[sent] = 0 => inbox \in {<< >>, Nak}
        /\ executed[sent] = 1 => inbox \in Seq(FitSet)

Contiguous(m) ==
    /\ m.dest = << >> => m.addr = 0
    /\ m.dest # << >> =>
           /\ m.dest[1].addr = 0
           /\ \A i \in 2..Len(m.dest) : Follows(m.dest[i - 1], m.dest[i].addr)
           /\ Follows(m.dest[Len(m.dest)], m.addr)

\* The chunk in hand is the next one.
Fetching ==
    pc \in {"ack", "reply"} /\ caller = "memory" =>
        /\ memory.left > 0
        /\ last.addr = memory.addr
        /\ last.size = Min2(memory.left, ChunkSize)
        /\ clean => Contiguous(memory)

Fetched ==
    result.status = "ok" /\ last.name = "memory" /\ clean =>
        memory.dest # << >> /\ Contiguous(memory)

IInv ==
    /\ TypeOK
    /\ Numbered
    /\ Waiting
    /\ Paired
    /\ ReplyIsForCommand
    /\ Fetching
    /\ Fetched

-----------------------------------------------------------------------------
(* Sequences, packets and commands.                                         *)

LEMMA Bounds ==
    /\ MaxCommands \in Nat /\ MaxEvents \in Nat /\ MaxConnections \in Nat
    /\ ChunkSize \in Nat /\ ChunkSize > 0
    /\ \A size \in MemorySizes : size \in Nat /\ size > 0
  BY GdbAssumption

LEMMA TakenIn ==
    ASSUME NEW S, NEW s \in Seq(S), NEW k \in 1..Len(s)
    PROVE  /\ SubSeq(s, 1, k) \in Seq(S) /\ SubSeq(s, k + 1, Len(s)) \in Seq(S)
           /\ Len(SubSeq(s, 1, k)) = k
           /\ s[1] \in S /\ SubSeq(s, 1, k)[1] = s[1]
<1>1. Len(s) \in Nat /\ 1 \in 1..Len(s) /\ \A i \in 1..Len(s) : s[i] \in S
  BY LenProperties, ElementOfSeq
<1>2. \A i \in 1..k : s[i] \in S
  BY <1>1
<1>3. \A i \in (k + 1)..Len(s) : s[i] \in S
  BY <1>1
<1>4. /\ SubSeq(s, 1, k) \in Seq(S) /\ Len(SubSeq(s, 1, k)) = k
      /\ \A i \in 1..k : SubSeq(s, 1, k)[i] = s[i]
  BY <1>1, <1>2, SubSeqProperties
<1>5. SubSeq(s, k + 1, Len(s)) \in Seq(S)
  BY <1>1, <1>3, SubSeqProperties
<1> QED  BY <1>1, <1>4, <1>5

LEMMA PacketTypes ==
    /\ NoPacket \in PacketSet
    /\ \A command \in CommandSet : Answers(command) \subseteq PacketSet
    /\ \A n \in Nat : Packet("event", n, 0, 0) \in PacketSet
<1>1. NoPacket \in PacketSet /\ \A n \in Nat : Packet("event", n, 0, 0) \in PacketSet
  BY DEF NoPacket, Packet, PacketSet, PacketKind
<1>2. ASSUME NEW command \in CommandSet, NEW answer \in Answers(command)
      PROVE  answer \in PacketSet
  <2>1. command.n \in Nat /\ command.addr \in Nat /\ command.size \in Nat
    BY GdbAssumption DEF CommandSet
  <2>2. CASE answer \in Chunks(command)
    BY <2>1, <2>2 DEF Chunks, Packet, PacketSet, PacketKind
  <2>3. CASE \E kind \in PacketKind : answer = Simply(kind, command)
    BY <2>1, <2>3 DEF Simply, Packet, PacketSet, PacketKind
  <2> QED  BY <2>2, <2>3 DEF Answers, PacketKind
<1> QED  BY <1>1, <1>2

LEMMA AnswerTo ==
    ASSUME NEW command \in CommandSet, NEW answer \in Answers(command)
    PROVE  /\ answer.to = command.n
           /\ command.name = "memory" /\ answer.kind # "error" =>
                  answer.addr = command.addr /\ answer.size <= command.size
<1>1. CASE answer \in Chunks(command)
  BY <1>1 DEF Chunks, Packet
<1>2. CASE \E kind : answer = Simply(kind, command)
  BY <1>2 DEF Answers, Chunks, Simply, Packet
<1> QED  BY <1>1, <1>2 DEF Answers

LEMMA UnitTypes ==
    /\ Unit("junk", NoPacket) \in UnitSet
    /\ Ack \in Seq(UnitSet) /\ Nak \in Seq(UnitSet) /\ Nak # << >>
    /\ \A packet \in PacketSet : Whole(packet) \in Seq(UnitSet)
<1>1. \A part \in {"ack", "nak", "head", "tail", "junk"} : \A packet \in PacketSet :
          Unit(part, packet) \in UnitSet
  BY DEF Unit, UnitSet
<1> QED  BY <1>1, PacketTypes DEF Ack, Nak, Whole

LEMMA CommandTypes ==
    ASSUME NEW name \in Awaited \union {"silent"}, NEW n \in 1..MaxCommands,
           NEW addr \in Nat, NEW size \in Nat
    PROVE  /\ Command(name, n, addr, size) \in CommandSet
           /\ Command(name, n, addr, size).name = name
           /\ Command(name, n, addr, size).n = n
  BY GdbAssumption DEF Command, CommandSet

\* What is accepted for a packet is the packet whose head is first on the stream.
LEMMA AcceptedPacket ==
    ASSUME NEW units, IsPacket(units)
    PROVE  units[1] = Unit("head", units[1].packet) /\ units[1].part = "head"
<1>1. units = Whole(units[1].packet)
  BY DEF IsPacket
<1>2. Whole(units[1].packet)[1] = Unit("head", units[1].packet)
  BY DEF Whole
<1>3. units[1] = Unit("head", units[1].packet)
  BY <1>1, <1>2
<1> QED  BY <1>3 DEF Unit

\* The types of what the two ends keep.
ResultSet == [status : {"none", "ok", "failed", "event", "no event"}, packet : PacketSet]

CallTypes ==
    /\ pc \in {"idle", "ack", "reply", "poll", "panicked"}
    /\ caller \in Awaited \union {"event", "none"}
    /\ memory.left \in Nat /\ memory.addr \in Nat /\ memory.dest \in Seq(PacketSet)
    /\ collected \in Seq(UnitSet)
    /\ result \in ResultSet

SendTypes ==
    /\ last \in CommandSet /\ sent \in 0..MaxCommands /\ clean \in BOOLEAN
    /\ requests \in Seq(CommandSet)

LinkTypes ==
    /\ stream \in BOOLEAN /\ needsAck \in BOOLEAN /\ alive \in BOOLEAN /\ serverAck \in BOOLEAN
    /\ inbox \in Seq(UnitSet)
    /\ executed \in [Number -> Nat]

CountTypes ==
    connections \in 0..MaxConnections /\ events \in 0..MaxEvents

Shape == CallTypes /\ SendTypes /\ LinkTypes /\ CountTypes

Claims == Numbered /\ Waiting /\ Paired /\ ReplyIsForCommand /\ Fetching /\ Fetched

\* The invariant by its parts, of a state and of the next.
LEMMA Parts == IInv <=> Shape /\ Claims
  BY DEF IInv, TypeOK, Shape, CallTypes, SendTypes, LinkTypes, CountTypes, ResultSet, Claims

LEMMA NextParts == IInv' <=> Shape' /\ Claims'
  BY DEF IInv, TypeOK, Shape, CallTypes, SendTypes, LinkTypes, CountTypes, ResultSet, Claims

\* The command that is next, and what there is between calls.
LEMMA NextCommand ==
    ASSUME IInv, sent < MaxCommands, NEW name \in Awaited \union {"silent"},
           NEW addr \in Nat, NEW size \in Nat
    PROVE  Command(name, sent + 1, addr, size) \in CommandSet
<1>1. sent \in 0..MaxCommands
  BY Parts DEF Shape, SendTypes
<1>2. sent + 1 \in 1..MaxCommands
  BY <1>1, Bounds
<1> QED  BY <1>2, CommandTypes

LEMMA NothingTypes ==
    /\ NoResult \in ResultSet /\ NoResult.status = "none"
    /\ NoMemory.left = 0 /\ NoMemory.addr = 0 /\ NoMemory.dest \in Seq(PacketSet)
<1>1. << >> \in Seq(PacketSet)
  BY EmptySeq
<1> QED  BY <1>1, PacketTypes DEF NoResult, Result, ResultSet, NoMemory, Memory

-----------------------------------------------------------------------------
(* Parts of steps.                                                          *)

\* A call that ends without an accepted reply.
LEMMA CallEnds ==
    ASSUME IInv, pc' \in {"idle", "panicked"}, result'.status # "ok",
           pc' = "panicked" => result'.status = "none", UNCHANGED sent
    PROVE  Waiting' /\ ReplyIsForCommand' /\ Fetching' /\ Fetched'
  BY DEF IInv, Waiting, ReplyIsForCommand, Fetching, Fetched

LEMMA FailEnds ==
    ASSUME IInv, Fail \/ (pc = "reply" /\ Panic), UNCHANGED sent
    PROVE  CallTypes' /\ Waiting' /\ ReplyIsForCommand' /\ Fetching' /\ Fetched'
<1>1. CASE Fail
  <2>1. /\ pc' = "idle" /\ caller' = "none" /\ collected' = << >> /\ memory' = NoMemory
        /\ \E status \in {"no event", "failed"} : result' = Result(status, NoPacket)
    BY <1>1 DEF Fail, Return
  <2>2. result' \in ResultSet /\ result'.status \in {"no event", "failed"}
    <3>1. PICK status \in {"no event", "failed"} : result' = Result(status, NoPacket)
      BY <2>1
    <3>2. NoPacket \in PacketSet
      BY PacketTypes
    <3>3. Result(status, NoPacket) \in ResultSet /\ Result(status, NoPacket).status = status
      BY <3>2 DEF Result, ResultSet
    <3> QED  BY <3>1, <3>3
  <2>3. Waiting' /\ ReplyIsForCommand' /\ Fetching' /\ Fetched'
    BY <2>1, <2>2, CallEnds
  <2>4. collected' \in Seq(UnitSet)
    BY <2>1, EmptySeq
  <2>5. CallTypes'
    <3>1. memory' = NoMemory /\ pc' = "idle" /\ caller' = "none"
      BY <2>1
    <3>2. memory'.left \in Nat /\ memory'.addr \in Nat /\ memory'.dest \in Seq(PacketSet)
      BY <3>1, NothingTypes
    <3> QED  BY <2>2, <2>4, <3>1, <3>2 DEF CallTypes
  <2> QED  BY <2>3, <2>5
<1>2. CASE pc = "reply" /\ Panic
  <2>1. pc' = "panicked" /\ UNCHANGED <<caller, collected, result, memory>>
    BY <1>2 DEF Panic
  <2>2. result.status = "none"
    BY <1>2 DEF IInv, Waiting
  <2>3. CallTypes'
    BY <2>1, Parts DEF Shape, CallTypes
  <2> QED  BY <2>1, <2>2, <2>3, CallEnds
<1> QED  BY <1>1, <1>2

\* The rest of what is on the stream is what was there, or its first byte is gone.
Less ==
    /\ \A S \in SUBSET UnitSet :
           inbox \in Seq(S) /\ Unit("junk", NoPacket) \in S => inbox' \in Seq(S)
    /\ inbox = << >> => inbox' = << >>
    /\ inbox = Nak => inbox' \in {<< >>, Nak}

LEMMA SameIsLess == UNCHANGED inbox => Less
  BY DEF Less

LEMMA TakeIsLess ==
    ASSUME inbox \in Seq(UnitSet), NEW k \in Nat, Take(k)
    PROVE  Less
<1>1. k \in 1..Len(inbox) /\ inbox' = SubSeq(inbox, k + 1, Len(inbox))
  BY DEF Take
<1>2. ASSUME NEW S \in SUBSET UnitSet, inbox \in Seq(S)
      PROVE  inbox' \in Seq(S)
  BY <1>1, <1>2, TakenIn
<1>3. inbox # << >>
  BY <1>1
<1>4. ASSUME inbox = Nak PROVE inbox' = << >>
  <2>1. Len(inbox) = 1
    BY <1>4 DEF Nak
  <2> QED  BY <1>1, <2>1, SubSeqEmpty
<1> QED  BY <1>2, <1>3, <1>4 DEF Less

LEMMA TailIsLess ==
    ASSUME inbox \in Seq(UnitSet), inbox # << >>, inbox' = Tail(inbox)
    PROVE  Less
<1>1. ASSUME NEW S \in SUBSET UnitSet, inbox \in Seq(S)
      PROVE  inbox' \in Seq(S)
  BY <1>1, HeadTailProperties
<1>2. ASSUME inbox = Nak PROVE inbox' = << >>
  BY <1>2 DEF Nak
<1> QED  BY <1>1, <1>2 DEF Less

LEMMA BeheadedIsLess ==
    ASSUME inbox \in Seq(UnitSet), inbox # << >>, inbox' = Beheaded(inbox),
           Head(inbox).part # "nak"
    PROVE  Less
<1>1. ASSUME NEW S \in SUBSET UnitSet, inbox \in Seq(S), Unit("junk", NoPacket) \in S
      PROVE  inbox' \in Seq(S)
  <2>1. Tail(inbox) \in Seq(S)
    BY <1>1, HeadTailProperties
  <2>2. <<Unit("junk", NoPacket)>> \in Seq(S)
    BY <1>1
  <2> QED  BY <2>1, <2>2, ConcatProperties DEF Beheaded
<1>2. inbox # Nak
  BY DEF Nak, Unit
<1> QED  BY <1>1, <1>2 DEF Less

LEMMA JunkFits ==
    /\ Unit("junk", NoPacket) \in UnaskedSet
    /\ Unit("junk", NoPacket) \in FitSet
    /\ UnaskedSet \subseteq UnitSet /\ FitSet \subseteq UnitSet
<1>1. Unit("junk", NoPacket).part = "junk"
  BY DEF Unit
<1> QED  BY <1>1, UnitTypes DEF UnaskedSet, FitSet

\* Reading disturbs neither the numbers nor the pairing.
LEMMA ReadKeeps ==
    ASSUME IInv, Less, UNCHANGED <<last, sent, clean, serverAck, requests, executed>>
    PROVE  inbox' \in Seq(UnitSet) /\ Numbered' /\ Paired'
<1>1. inbox \in Seq(UnitSet)
  BY DEF IInv, TypeOK
<1>2. inbox' \in Seq(UnitSet)
  BY <1>1, UnitTypes DEF Less
<1>3. Numbered'
  BY JunkFits DEF Less, IInv, Numbered, RequestSet, UnaskedSet
<1>4. inbox \in Seq(FitSet) => inbox' \in Seq(FitSet)
  BY JunkFits DEF Less
<1>5. FitSet' = FitSet
  BY DEF FitSet
<1>6. Paired'
  BY <1>4, <1>5 DEF Less, IInv, Paired
<1> QED  BY <1>2, <1>3, <1>6

\* A command that is sent is the one in hand, and was not executed.
LEMMA Sends ==
    ASSUME IInv, NEW command, Send(command, inbox'),
           sent < MaxCommands => command \in CommandSet,
           command.name \in Awaited \union {"silent"}, command.n = sent + 1,
           inbox' \in Seq(UnitSet), UNCHANGED <<alive, executed>>
    PROVE  /\ last' = command /\ sent' = sent + 1 /\ sent' > 0
           /\ SendTypes'
           /\ clean' /\ pc = "reply" => clean
           /\ Numbered' /\ Paired'
<1>1. /\ sent \in 0..MaxCommands /\ MaxCommands \in Nat /\ sent < MaxCommands
      /\ requests \in Seq(RequestSet)
      /\ executed \in [Number -> Nat] /\ \A n \in Number : n > sent => executed[n] = 0
  BY GdbAssumption DEF IInv, TypeOK, Numbered, Send
<1>2. /\ last' = command /\ sent' = sent + 1
      /\ requests' = IF alive THEN Append(requests, command) ELSE requests
      /\ clean' \in BOOLEAN
      /\ clean' => inbox' = << >> /\ requests = << >> /\ (pc = "reply" => clean)
  BY DEF Send
<1>3. /\ sent' \in 1..MaxCommands /\ sent' \in Number /\ command \in CommandSet
      /\ command.name # "none"
  BY <1>1, <1>2 DEF Number, Awaited
<1>4. requests' \in Seq(RequestSet')
  <2>1. RequestSet \subseteq RequestSet'
    BY <1>1, <1>2 DEF RequestSet
  <2>2. requests \in Seq(RequestSet')
    BY <1>1, <2>1, SeqMonotonic
  <2>3. command \in RequestSet'
    BY <1>1, <1>2, <1>3 DEF CommandSet, RequestSet
  <2>4. Append(requests, command) \in Seq(RequestSet')
    BY <2>2, <2>3, AppendProperties
  <2> QED  BY <1>2, <2>2, <2>4
<1>5. requests' \in Seq(CommandSet)
  <2>1. RequestSet' \subseteq CommandSet
    BY <1>1, <1>3 DEF RequestSet, CommandSet
  <2> QED  BY <1>4, <2>1, SeqMonotonic
<1>6. executed'[sent'] = 0 /\ \A n \in Number : n > sent' => executed'[n] = 0
  BY <1>1, <1>2, <1>3 DEF Number
<1>7. Numbered'
  BY <1>1, <1>2, <1>3, <1>4, <1>6 DEF Numbered
<1>8. Paired'
  <2>1. ASSUME clean' PROVE requests' = << >> \/ requests' = <<last'>>
    BY <1>2, <2>1
  <2> QED  BY <1>2, <1>6, <2>1 DEF Paired
<1>9. SendTypes' /\ sent' > 0
  BY <1>1, <1>2, <1>3, <1>5 DEF SendTypes
<1> QED  BY <1>2, <1>7, <1>8, <1>9

-----------------------------------------------------------------------------
(* The steps of the client.                                                 *)

LEMMA ConnectStep ==
    ASSUME IInv, Connect
    PROVE  IInv'
<1>1. /\ pc = "idle" /\ UNCHANGED <<needsAck, last, pc, caller, memory, collected, sent, clean,
                                    executed, events>>
      /\ connections < MaxConnections /\ connections' = connections + 1
      /\ stream' = TRUE /\ alive' = TRUE /\ serverAck' = TRUE
      /\ requests' = << >> /\ inbox' = << >> /\ result' = NoResult
  BY DEF Connect
<1>2. << >> \in Seq(CommandSet) /\ << >> \in Seq(UnitSet) /\ << >> \in Seq(RequestSet)
      /\ << >> \in Seq(UnaskedSet) /\ << >> \in Seq(FitSet')
  BY EmptySeq
<1>3. CallTypes'
  BY <1>1, NothingTypes, Parts DEF Shape, CallTypes
<1>4. SendTypes' /\ LinkTypes'
  BY <1>1, <1>2, Parts DEF Shape, SendTypes, LinkTypes
<1>5. CountTypes'
  <2>1. connections \in 0..MaxConnections /\ events \in 0..MaxEvents
    BY Parts DEF Shape, CountTypes
  <2>2. connections' \in 0..MaxConnections
    BY <1>1, <2>1, Bounds
  <2> QED  BY <1>1, <2>1, <2>2 DEF CountTypes
<1>6. Numbered'
  BY <1>1, <1>2, Parts DEF Claims, Numbered, RequestSet, UnaskedSet
<1>7. Waiting' /\ ReplyIsForCommand' /\ Fetching' /\ Fetched'
  BY <1>1, NothingTypes, Parts DEF Claims, Waiting, ReplyIsForCommand, Fetching, Fetched
<1>8. Paired'
  BY <1>1, <1>2, Parts DEF Claims, Paired
<1> QED  BY <1>3, <1>4, <1>5, <1>6, <1>7, <1>8, NextParts DEF Shape, Claims

LEMMA RequestStep ==
    ASSUME IInv, NEW name \in {"command", "registers", "noack"}, Request(name)
    PROVE  IInv'
<1>1. /\ pc = "idle" /\ stream /\ pc' \in {"ack", "reply"} /\ caller' = name
      /\ result' = NoResult /\ memory' = NoMemory
      /\ Send(Command(name, sent + 1, 0, 0), inbox')
      /\ UNCHANGED <<stream, needsAck, collected, connections,
                     alive, serverAck, inbox, executed, events>>
  BY DEF Request, Reading
<1>2. sent < MaxCommands => Command(name, sent + 1, 0, 0) \in CommandSet
  BY NextCommand DEF Awaited
<1>3. /\ Command(name, sent + 1, 0, 0).name = name
      /\ Command(name, sent + 1, 0, 0).n = sent + 1
  BY DEF Command
<1>4. inbox' \in Seq(UnitSet)
  BY <1>1, Parts DEF Shape, LinkTypes
<1>5. /\ last' = Command(name, sent + 1, 0, 0)
      /\ SendTypes' /\ sent' > 0 /\ Numbered' /\ Paired'
  BY <1>1, <1>2, <1>3, <1>4, Sends DEF Awaited
<1>6. CallTypes'
  BY <1>1, NothingTypes, Parts DEF Shape, CallTypes, Awaited
<1>7. LinkTypes' /\ CountTypes'
  BY <1>1, Parts DEF Shape, LinkTypes, CountTypes
<1>8. Waiting' /\ ReplyIsForCommand' /\ Fetching' /\ Fetched'
  BY <1>1, <1>3, <1>5, NothingTypes DEF Waiting, ReplyIsForCommand, Fetching, Fetched
<1> QED  BY <1>5, <1>6, <1>7, <1>8, NextParts DEF Shape, Claims

LEMMA SendOnlyStep ==
    ASSUME IInv, SendOnly
    PROVE  IInv'
<1>1. /\ pc = "idle" /\ result' = NoResult /\ memory' = NoMemory
      /\ Send(Command("silent", sent + 1, 0, 0), inbox')
      /\ UNCHANGED <<stream, needsAck, pc, caller, collected, connections,
                     alive, serverAck, inbox, executed, events>>
  BY DEF SendOnly
<1>2. sent < MaxCommands => Command("silent", sent + 1, 0, 0) \in CommandSet
  BY NextCommand
<1>3. /\ Command("silent", sent + 1, 0, 0).name = "silent"
      /\ Command("silent", sent + 1, 0, 0).n = sent + 1
  BY DEF Command
<1>4. inbox' \in Seq(UnitSet)
  BY <1>1, Parts DEF Shape, LinkTypes
<1>5. SendTypes' /\ Numbered' /\ Paired'
  BY <1>1, <1>2, <1>3, <1>4, Sends
<1>6. CallTypes'
  BY <1>1, NothingTypes, Parts DEF Shape, CallTypes
<1>7. LinkTypes' /\ CountTypes'
  BY <1>1, Parts DEF Shape, LinkTypes, CountTypes
<1>8. Waiting' /\ ReplyIsForCommand' /\ Fetching' /\ Fetched'
  BY <1>1, NothingTypes DEF Waiting, ReplyIsForCommand, Fetching, Fetched
<1> QED  BY <1>5, <1>6, <1>7, <1>8, NextParts DEF Shape, Claims

\* The command for the first chunk, or for the next.
LEMMA ChunkTypes ==
    ASSUME IInv, sent < MaxCommands, NEW m, m.left \in Nat, m.addr \in Nat
    PROVE  ChunkCommand(m) \in CommandSet
<1>1. Min2(m.left, ChunkSize) \in Nat
  BY Bounds DEF Min2
<1> QED  BY <1>1, NextCommand DEF ChunkCommand, Awaited

LEMMA ChunkFields ==
    ASSUME NEW m
    PROVE  /\ ChunkCommand(m).name = "memory" /\ ChunkCommand(m).n = sent + 1
           /\ ChunkCommand(m).addr = m.addr /\ ChunkCommand(m).size = Min2(m.left, ChunkSize)
  BY DEF ChunkCommand, Command

LEMMA GetMemoryStep ==
    ASSUME IInv, NEW size \in MemorySizes, GetMemory(size)
    PROVE  IInv'
<1>1. /\ pc = "idle" /\ pc' \in {"ack", "reply"} /\ caller' = "memory"
      /\ result' = NoResult /\ memory' = Memory(size, 0, << >>)
      /\ Send(ChunkCommand(memory'), inbox')
      /\ UNCHANGED <<stream, needsAck, collected, connections,
                     alive, serverAck, inbox, executed, events>>
  BY DEF GetMemory, Reading
<1>2. /\ memory'.left \in Nat /\ memory'.left > 0 /\ memory'.addr = 0
      /\ memory'.dest = << >>
  BY <1>1, Bounds DEF Memory
<1>3. sent < MaxCommands => ChunkCommand(memory') \in CommandSet
  BY <1>2, ChunkTypes
<1>4. inbox' \in Seq(UnitSet)
  BY <1>1, Parts DEF Shape, LinkTypes
<1>5. /\ last' = ChunkCommand(memory') /\ last'.name = "memory" /\ last'.addr = memory'.addr
      /\ last'.size = Min2(memory'.left, ChunkSize)
      /\ SendTypes' /\ sent' > 0 /\ Numbered' /\ Paired'
  BY <1>1, <1>3, <1>4, ChunkFields, Sends DEF Awaited
<1>6. memory'.dest \in Seq(PacketSet)
  BY <1>2, EmptySeq
<1>7. CallTypes'
  BY <1>1, <1>2, <1>6, NothingTypes, Parts DEF Shape, CallTypes, Awaited
<1>8. LinkTypes' /\ CountTypes'
  BY <1>1, Parts DEF Shape, LinkTypes, CountTypes
<1>9. Waiting' /\ ReplyIsForCommand' /\ Fetched'
  BY <1>1, <1>5, NothingTypes DEF Waiting, ReplyIsForCommand, Fetched
<1>10. Fetching'
  BY <1>1, <1>2, <1>5 DEF Fetching, Contiguous
<1> QED  BY <1>5, <1>7, <1>8, <1>9, <1>10, NextParts DEF Shape, Claims

\* A call that fails, whatever it had read.
LEMMA FailStep ==
    ASSUME IInv, Less, Fail \/ (pc = "reply" /\ Panic), stream' \in BOOLEAN,
           UNCHANGED <<needsAck, last, sent, clean, connections, alive, serverAck, requests,
                       executed, events>>
    PROVE  IInv'
<1>1. CallTypes' /\ Waiting' /\ ReplyIsForCommand' /\ Fetching' /\ Fetched'
  BY FailEnds
<1>2. inbox' \in Seq(UnitSet) /\ Numbered' /\ Paired'
  BY ReadKeeps
<1>3. SendTypes' /\ LinkTypes' /\ CountTypes'
  BY <1>2, Parts DEF Shape, SendTypes, LinkTypes, CountTypes
<1> QED  BY <1>1, <1>2, <1>3, NextParts DEF Shape, Claims

LEMMA TimesOutStep == IInv /\ (TimesOut \/ Disconnected) => IInv'
<1>1. ASSUME IInv, TimesOut PROVE IInv'
  <2>1. Less
    BY <1>1, SameIsLess DEF TimesOut, server
  <2>2. stream' \in BOOLEAN
    BY <1>1, Parts DEF Shape, LinkTypes, TimesOut
  <2> QED  BY <1>1, <2>1, <2>2, FailStep DEF TimesOut, server
<1>2. ASSUME IInv, Disconnected PROVE IInv'
  <2>1. Less
    BY <1>2, SameIsLess DEF Disconnected, server
  <2> QED  BY <1>2, <2>1, FailStep DEF Disconnected, server
<1> QED  BY <1>1, <1>2

LEMMA ReadIllegalStep ==
    ASSUME IInv, ReadIllegal
    PROVE  IInv'
<1>1. inbox \in Seq(UnitSet) /\ stream \in BOOLEAN
  BY Parts DEF Shape, LinkTypes
<1>2. Less
  BY <1>1, BeheadedIsLess DEF ReadIllegal
<1> QED  BY <1>1, <1>2, FailStep DEF ReadIllegal

LEMMA ReadAckStep ==
    ASSUME IInv, ReadAck
    PROVE  IInv'
<1>1. /\ pc = "ack" /\ inbox # << >> /\ inbox' = Tail(inbox) /\ pc' = "reply"
      /\ UNCHANGED <<stream, needsAck, last, caller, memory, collected, result, sent, clean,
                     connections, alive, serverAck, requests, executed, events>>
  BY DEF ReadAck
<1>2. Less
  BY <1>1, TailIsLess, Parts DEF Shape, LinkTypes
<1>3. inbox' \in Seq(UnitSet) /\ Numbered' /\ Paired'
  BY <1>1, <1>2, ReadKeeps
<1>4. CallTypes' /\ SendTypes' /\ LinkTypes' /\ CountTypes'
  BY <1>1, <1>3, Parts DEF Shape, CallTypes, SendTypes, LinkTypes, CountTypes
<1>5. Waiting' /\ ReplyIsForCommand' /\ Fetching' /\ Fetched'
  BY <1>1, Parts DEF Claims, Waiting, ReplyIsForCommand, Fetching, Contiguous, Fetched
<1> QED  BY <1>3, <1>4, <1>5, NextParts DEF Shape, Claims

\* A nak is on the stream only in place of the reply, so the command goes out again when it
\* was not executed.
LEMMA ReadNakStep ==
    ASSUME IInv, ReadNak
    PROVE  IInv'
<1>1. /\ pc = "ack" /\ inbox # << >> /\ inbox' = Tail(inbox) /\ Head(inbox).part = "nak"
      /\ requests' = IF alive THEN Append(requests, last) ELSE requests
      /\ UNCHANGED <<stream, needsAck, last, pc, caller, memory, collected, result, sent, clean,
                     connections, alive, serverAck, executed, events>>
  BY DEF ReadNak, client
<1>2. inbox \in Seq(UnitSet) /\ inbox' \in Seq(UnitSet)
  BY <1>1, HeadTailProperties, Parts DEF Shape, LinkTypes
<1>3. inbox \notin Seq(UnaskedSet) /\ inbox \notin Seq(FitSet)
  BY <1>1, HeadTailProperties DEF UnaskedSet, FitSet
<1>4. sent > 0
  BY <1>3, Parts DEF Shape, SendTypes, Claims, Numbered
<1>5. requests' \in Seq(RequestSet) /\ RequestSet' = RequestSet
  <2>1. last \in RequestSet
    BY <1>4, Parts DEF Shape, SendTypes, Claims, Numbered, CommandSet, RequestSet
  <2>2. requests \in Seq(RequestSet)
    BY Parts DEF Claims, Numbered
  <2>3. Append(requests, last) \in Seq(RequestSet)
    BY <2>1, <2>2, AppendProperties
  <2> QED  BY <1>1, <2>2, <2>3 DEF RequestSet
<1>6. Numbered'
  BY <1>1, <1>4, <1>5, Parts DEF Claims, Numbered
<1>7. Paired'
  <2>1. SUFFICES ASSUME clean, sent > 0
                 PROVE  /\ executed[sent] = 0 /\ inbox' = << >>
                        /\ requests' = << >> \/ requests' = <<last>>
    BY <1>1 DEF Paired
  <2>2. executed[sent] = 0 /\ inbox = Nak /\ requests = << >>
    BY <1>1, <1>3, <2>1, Parts DEF Claims, Paired
  <2>3. inbox' = << >>
    BY <1>1, <2>2 DEF Nak
  <2>4. requests' = << >> \/ requests' = <<last>>
    BY <1>1, <2>2
  <2> QED  BY <2>2, <2>3, <2>4
<1>8. SendTypes'
  <2>1. RequestSet \subseteq CommandSet
    BY Bounds, Parts DEF Shape, SendTypes, RequestSet, CommandSet
  <2>2. requests' \in Seq(CommandSet)
    BY <1>5, <2>1, SeqMonotonic
  <2> QED  BY <1>1, <2>2, Parts DEF Shape, SendTypes
<1>9. CallTypes' /\ LinkTypes' /\ CountTypes'
  BY <1>1, <1>2, Parts DEF Shape, CallTypes, LinkTypes, CountTypes
<1>10. Waiting' /\ ReplyIsForCommand' /\ Fetching' /\ Fetched'
  BY <1>1, Parts DEF Claims, Waiting, ReplyIsForCommand, Fetching, Contiguous, Fetched
<1> QED  BY <1>6, <1>7, <1>8, <1>9, <1>10, NextParts DEF Shape, Claims

-----------------------------------------------------------------------------
(* Events.                                                                  *)

LEMMA BeginEventsStep ==
    ASSUME IInv, BeginEvents
    PROVE  IInv'
<1>1. /\ pc' = "poll" /\ caller' = "event" /\ result' = NoResult /\ memory' = NoMemory
      /\ UNCHANGED <<stream, needsAck, last, collected, sent, clean, connections, alive, serverAck,
                     requests, inbox, executed, events>>
  BY DEF BeginEvents, server
<1>2. inbox' \in Seq(UnitSet) /\ Numbered' /\ Paired'
  BY <1>1, SameIsLess, ReadKeeps
<1>3. CallTypes'
  BY <1>1, NothingTypes, Parts DEF Shape, CallTypes
<1>4. SendTypes' /\ LinkTypes' /\ CountTypes'
  BY <1>1, Parts DEF Shape, SendTypes, LinkTypes, CountTypes
<1>5. Waiting' /\ ReplyIsForCommand' /\ Fetching' /\ Fetched'
  BY <1>1, NothingTypes DEF Waiting, ReplyIsForCommand, Fetching, Fetched
<1> QED  BY <1>2, <1>3, <1>4, <1>5, NextParts DEF Shape, Claims

LEMMA PollReadableStep ==
    ASSUME IInv, PollReadable
    PROVE  IInv'
<1>1. /\ pc = "poll" /\ pc' \in {"ack", "reply"}
      /\ UNCHANGED <<stream, needsAck, last, caller, memory, collected, result, sent, clean,
                     connections, alive, serverAck, requests, inbox, executed, events>>
  BY DEF PollReadable, Reading, server
<1>2. caller = "event" /\ result.status = "none"
  BY <1>1, Parts DEF Claims, Waiting
<1>3. inbox' \in Seq(UnitSet) /\ Numbered' /\ Paired'
  BY <1>1, SameIsLess, ReadKeeps
<1>4. CallTypes' /\ SendTypes' /\ LinkTypes' /\ CountTypes'
  BY <1>1, Parts DEF Shape, CallTypes, SendTypes, LinkTypes, CountTypes
<1>5. Waiting' /\ ReplyIsForCommand' /\ Fetching' /\ Fetched'
  BY <1>1, <1>2 DEF Waiting, ReplyIsForCommand, Fetching, Fetched, Awaited
<1> QED  BY <1>3, <1>4, <1>5, NextParts DEF Shape, Claims

LEMMA CollectStep ==
    ASSUME IInv, NEW k \in Nat, Collect(k)
    PROVE  IInv'
<1>1. /\ pc = "reply" /\ caller = "event" /\ pc' = "poll" /\ Take(k)
      /\ collected' = collected \o SubSeq(inbox, 1, k)
      /\ UNCHANGED <<stream, needsAck, last, caller, memory, result, sent, clean,
                     connections, alive, serverAck, requests, executed, events>>
  BY DEF Collect
<1>2. inbox \in Seq(UnitSet) /\ collected \in Seq(UnitSet) /\ k \in 1..Len(inbox)
  BY <1>1, Parts DEF Shape, CallTypes, LinkTypes, Take
<1>3. collected' \in Seq(UnitSet)
  BY <1>1, <1>2, TakenIn, ConcatProperties
<1>4. inbox' \in Seq(UnitSet) /\ Numbered' /\ Paired'
  BY <1>1, <1>2, TakeIsLess, ReadKeeps
<1>5. CallTypes' /\ SendTypes' /\ LinkTypes' /\ CountTypes'
  BY <1>1, <1>3, <1>4, Parts DEF Shape, CallTypes, SendTypes, LinkTypes, CountTypes
<1>6. result.status = "none"
  BY <1>1, Parts DEF Claims, Waiting
<1>7. Waiting' /\ ReplyIsForCommand' /\ Fetching' /\ Fetched'
  BY <1>1, <1>6 DEF Waiting, ReplyIsForCommand, Fetching, Fetched
<1> QED  BY <1>4, <1>5, <1>7, NextParts DEF Shape, Claims

\* What was collected is handed over, or too short.
LEMMA EventsEndStep ==
    ASSUME IInv, PollNothing \/ CollectEnd
    PROVE  IInv'
<1>1. /\ pc \in {"poll", "reply"} /\ EndEvents
      /\ UNCHANGED <<stream, needsAck, last, memory, sent, clean, connections, alive, serverAck,
                     requests, inbox, executed, events>>
  BY DEF PollNothing, CollectEnd, server
<1>2. inbox' \in Seq(UnitSet) /\ Numbered' /\ Paired'
  BY <1>1, SameIsLess, ReadKeeps
<1>3. result.status = "none" /\ collected \in Seq(UnitSet)
  BY <1>1, Parts DEF Shape, CallTypes, Claims, Waiting
<1>4. EventOf(collected) \in PacketSet
  <2>1. CASE collected # << >> /\ collected[1].part = "head"
    <3>1. collected[1] \in UnitSet
      BY <1>3, <2>1, EmptySeq, ElementOfSeq
    <3> QED  BY <2>1, <3>1 DEF EventOf, UnitSet
  <2>2. CASE ~(collected # << >> /\ collected[1].part = "head")
    BY <2>2, PacketTypes DEF EventOf
  <2> QED  BY <2>1, <2>2
<1>5. /\ pc' \in {"idle", "panicked"} /\ caller' \in {caller, "none"}
      /\ collected' \in Seq(UnitSet) /\ result' \in ResultSet
      /\ result'.status # "ok" /\ (pc' = "panicked" => result'.status = "none")
  <2>1. CASE Panic
    BY <1>3, <2>1, Parts DEF Panic, Shape, CallTypes
  <2>2. CASE \E status \in {"no event", "event"} : Return(status, EventOf(collected))
    <3>1. PICK status \in {"no event", "event"} : Return(status, EventOf(collected))
      BY <2>2
    <3>2. /\ Result(status, EventOf(collected)) \in ResultSet
          /\ Result(status, EventOf(collected)).status = status
      BY <1>4 DEF Result, ResultSet
    <3>3. << >> \in Seq(UnitSet)
      BY EmptySeq
    <3> QED  BY <3>1, <3>2, <3>3 DEF Return
  <2> QED  BY <1>1, <2>1, <2>2 DEF EndEvents
<1>6. CallTypes' /\ SendTypes' /\ LinkTypes' /\ CountTypes'
  BY <1>1, <1>5, Parts DEF Shape, CallTypes, SendTypes, LinkTypes, CountTypes
<1>7. Waiting' /\ ReplyIsForCommand' /\ Fetching' /\ Fetched'
  BY <1>1, <1>5, CallEnds
<1> QED  BY <1>2, <1>6, <1>7, NextParts DEF Shape, Claims

-----------------------------------------------------------------------------
(* Replies.                                                                 *)

\* A packet that is accepted on an undisturbed stream answers the command in hand.
LEMMA AcceptedReply ==
    ASSUME IInv, pc = "reply", caller \in Awaited, NEW k \in 1..Len(inbox),
           IsPacket(SubSeq(inbox, 1, k)),
           NEW packet, packet = SubSeq(inbox, 1, k)[1].packet
    PROVE  /\ packet \in PacketSet /\ sent > 0 /\ last.name = caller
           /\ clean =>
                  /\ executed[last.n] = 1 /\ packet.to = last.n
                  /\ packet \in Answers(last)
                  /\ last.name = "noack" /\ packet.kind = "ok" => ~serverAck
<1>1. inbox \in Seq(UnitSet) /\ last \in CommandSet /\ sent \in Nat
  BY Bounds, Parts DEF Shape, SendTypes, LinkTypes
<1>2. /\ SubSeq(inbox, 1, k)[1] = inbox[1] /\ inbox[1] \in UnitSet
      /\ inbox[1].part = "head" /\ inbox[1].packet = packet
  BY <1>1, TakenIn, AcceptedPacket
<1>3. packet \in PacketSet
  BY <1>2 DEF UnitSet
<1>4. last.name = caller /\ sent > 0 /\ last.n = sent
  BY <1>1, Parts DEF Claims, Waiting, Numbered, Awaited
<1>5. ASSUME clean
      PROVE  /\ executed[last.n] = 1 /\ packet.to = last.n
             /\ packet \in Answers(last)
             /\ last.name = "noack" /\ packet.kind = "ok" => ~serverAck
  <2>1. inbox # << >> /\ inbox # Nak
    BY <1>2 DEF Nak, Unit
  <2>2. executed[sent] = 1 /\ inbox \in Seq(FitSet)
    BY <1>4, <1>5, <2>1, Parts DEF Claims, Paired
  <2>3. inbox[1] \in FitSet
    BY <2>2, TakenIn
  <2>4. packet \in Answers(last) /\ (last.name = "noack" /\ packet.kind = "ok" => ~serverAck)
    BY <1>2, <2>3 DEF FitSet
  <2> QED  BY <1>1, <1>4, <2>2, <2>4, AnswerTo
<1> QED  BY <1>3, <1>4, <1>5

LEMMA ReplyAcceptedStep ==
    ASSUME IInv, pc = "reply", caller \in Awaited \ {"memory"}, NEW k \in Nat, Take(k),
           IsPacket(SubSeq(inbox, 1, k)),
           NEW packet, packet = SubSeq(inbox, 1, k)[1].packet, ReplyAccepted(packet),
           UNCHANGED <<stream, connections, alive, serverAck, executed, events>>
    PROVE  IInv'
<1>1. /\ NeedsAckAfter(packet) /\ pc' = "idle" /\ caller' = "none"
      /\ collected' = << >> /\ result' = Result("ok", packet)
      /\ UNCHANGED <<last, memory, sent, clean, requests>>
  BY DEF ReplyAccepted, Return
<1>2. k \in 1..Len(inbox) /\ inbox \in Seq(UnitSet) /\ needsAck \in BOOLEAN
  BY Parts DEF Take, Shape, LinkTypes
<1>3. /\ packet \in PacketSet /\ sent > 0 /\ last.name = caller
      /\ clean => executed[last.n] = 1 /\ packet.to = last.n
  BY <1>2, AcceptedReply
<1>4. inbox' \in Seq(UnitSet) /\ Numbered' /\ Paired'
  BY <1>1, <1>2, TakeIsLess, ReadKeeps
<1>5. Result("ok", packet) \in ResultSet /\ Result("ok", packet).status = "ok"
      /\ Result("ok", packet).packet = packet
  BY <1>3 DEF Result, ResultSet
<1>6. << >> \in Seq(UnitSet) /\ needsAck' \in BOOLEAN
  BY <1>1, <1>2, EmptySeq DEF NeedsAckAfter
<1>7. CallTypes' /\ SendTypes' /\ LinkTypes' /\ CountTypes'
  BY <1>1, <1>4, <1>5, <1>6, Parts DEF Shape, CallTypes, SendTypes, LinkTypes, CountTypes
<1>8. Waiting' /\ ReplyIsForCommand' /\ Fetching' /\ Fetched'
  BY <1>1, <1>3, <1>5 DEF Waiting, ReplyIsForCommand, Fetching, Fetched
<1> QED  BY <1>4, <1>7, <1>8, NextParts DEF Shape, Claims

LEMMA MemoryRefusedStep ==
    ASSUME IInv, pc = "reply", caller = "memory", NEW k \in Nat, Take(k),
           IsPacket(SubSeq(inbox, 1, k)),
           NEW packet, packet = SubSeq(inbox, 1, k)[1].packet, MemoryRefused(packet),
           UNCHANGED <<stream, connections, alive, serverAck, executed, events>>
    PROVE  IInv'
<1>1. /\ pc' = "idle" /\ caller' = "none" /\ collected' = << >>
      /\ result' = Result(IF memory.addr = 0 THEN "failed" ELSE "ok", packet)
      /\ UNCHANGED <<needsAck, last, memory, sent, clean, requests>>
  BY DEF MemoryRefused, Return
<1>2. k \in 1..Len(inbox) /\ inbox \in Seq(UnitSet)
  BY Parts DEF Take, Shape, LinkTypes
<1>3. /\ packet \in PacketSet /\ sent > 0
      /\ clean => executed[last.n] = 1 /\ packet.to = last.n
  BY <1>2, AcceptedReply DEF Awaited
<1>4. inbox' \in Seq(UnitSet) /\ Numbered' /\ Paired'
  BY <1>1, <1>2, TakeIsLess, ReadKeeps
<1>5. \A status \in {"ok", "failed"} :
          /\ Result(status, packet) \in ResultSet /\ Result(status, packet).status = status
          /\ Result(status, packet).packet = packet
  BY <1>3 DEF Result, ResultSet
<1>6. << >> \in Seq(UnitSet)
  BY EmptySeq
<1>7. CallTypes' /\ SendTypes' /\ LinkTypes' /\ CountTypes'
  BY <1>1, <1>4, <1>5, <1>6, Parts DEF Shape, CallTypes, SendTypes, LinkTypes, CountTypes
<1>8. result'.status = "ok" => memory.addr # 0
  BY <1>1, <1>5
<1>9. result'.status = "ok" /\ clean => memory.dest # << >> /\ Contiguous(memory)
  BY <1>8, Parts DEF Claims, Fetching, Contiguous
<1>10. Waiting' /\ ReplyIsForCommand' /\ Fetching' /\ Fetched'
  BY <1>1, <1>3, <1>5, <1>9 DEF Waiting, ReplyIsForCommand, Fetching, Fetched
<1> QED  BY <1>4, <1>7, <1>10, NextParts DEF Shape, Claims

\* A chunk follows on those before it.
LEMMA ChunkAdded ==
    ASSUME IInv, pc = "reply", caller = "memory", NEW packet \in PacketSet,
           memory' = MemoryAfter(packet),
           clean => packet.addr = last.addr /\ packet.size <= last.size
    PROVE  /\ memory'.left \in Nat /\ memory'.addr \in Nat /\ memory'.dest \in Seq(PacketSet)
           /\ memory'.dest # << >>
           /\ clean => Contiguous(memory')
<1>1. /\ memory.left \in Nat /\ memory.left > 0 /\ memory.addr \in Nat
      /\ memory.dest \in Seq(PacketSet)
      /\ last.addr = memory.addr /\ last.size = Min2(memory.left, ChunkSize)
      /\ clean => Contiguous(memory)
  BY Parts DEF Shape, CallTypes, Claims, Fetching
<1>2. last.size \in Nat /\ last.size <= memory.left /\ last.size <= ChunkSize
  BY <1>1, Bounds DEF Min2
<1>3. /\ memory'.left = memory.left - last.size /\ memory'.addr = memory.addr + last.size
      /\ memory'.dest = Append(memory.dest, packet)
  BY DEF MemoryAfter, Memory
<1>4. /\ memory'.dest \in Seq(PacketSet) /\ memory'.dest # << >>
      /\ Len(memory.dest) \in Nat /\ Len(memory'.dest) = Len(memory.dest) + 1
      /\ \A i \in 1..Len(memory.dest) : memory'.dest[i] = memory.dest[i]
      /\ memory'.dest[Len(memory.dest) + 1] = packet
  BY <1>1, <1>3, AppendProperties, LenProperties
<1>5. ASSUME clean PROVE Contiguous(memory')
  <2>1. packet.addr = memory.addr /\ packet.size <= last.size /\ packet.size \in Nat
    BY <1>1, <1>5 DEF PacketSet
  <2>2. Follows(memory'.dest[Len(memory'.dest)], memory'.addr)
    <3>1. Follows(packet, memory.addr + last.size)
      BY <1>1, <1>2, <2>1, Bounds DEF Follows
    <3> QED  BY <1>3, <1>4, <3>1
  <2>3. CASE memory.dest = << >>
    <3>1. Len(memory.dest) = 0 /\ memory.addr = 0
      BY <1>1, <1>5, <2>3 DEF Contiguous
    <3> QED  BY <1>4, <2>1, <2>2, <3>1 DEF Contiguous
  <2>4. CASE memory.dest # << >>
    <3>1. Len(memory.dest) >= 1
      BY <1>1, <2>4, EmptySeq
    <3>2. memory'.dest[1].addr = 0
      BY <1>1, <1>4, <1>5, <2>4, <3>1 DEF Contiguous
    <3>3. ASSUME NEW i \in 2..Len(memory'.dest)
          PROVE  Follows(memory'.dest[i - 1], memory'.dest[i].addr)
      <4>1. CASE i \in 2..Len(memory.dest)
        <5>1. i - 1 \in 1..Len(memory.dest) /\ i \in 1..Len(memory.dest)
          BY <1>4, <4>1
        <5>2. memory'.dest[i] = memory.dest[i] /\ memory'.dest[i - 1] = memory.dest[i - 1]
          BY <1>4, <5>1
        <5>3. Follows(memory.dest[i - 1], memory.dest[i].addr)
          BY <1>1, <1>5, <2>4, <4>1 DEF Contiguous
        <5> QED  BY <5>2, <5>3
      <4>2. CASE i = Len(memory.dest) + 1
        <5>1. /\ memory'.dest[i] = packet
              /\ memory'.dest[i - 1] = memory.dest[Len(memory.dest)]
          BY <1>4, <3>1, <4>2
        <5>2. Follows(memory.dest[Len(memory.dest)], memory.addr)
          BY <1>1, <1>5, <2>4 DEF Contiguous
        <5> QED  BY <2>1, <5>1, <5>2
      <4> QED  BY <1>4, <3>3, <4>1, <4>2
    <3> QED  BY <1>4, <2>2, <3>2, <3>3 DEF Contiguous
  <2> QED  BY <2>3, <2>4
<1>6. memory'.left \in Nat /\ memory'.addr \in Nat
  BY <1>1, <1>2, <1>3
<1> QED  BY <1>4, <1>5, <1>6

LEMMA MemoryAcceptedStep ==
    ASSUME IInv, pc = "reply", caller = "memory", NEW k \in Nat, Take(k),
           IsPacket(SubSeq(inbox, 1, k)),
           NEW packet, packet = SubSeq(inbox, 1, k)[1].packet, MemoryAccepted(packet, inbox'),
           UNCHANGED <<stream, connections, alive, serverAck, executed, events>>
    PROVE  IInv'
<1>1. /\ packet.kind # "error" /\ memory' = MemoryAfter(packet) /\ UNCHANGED needsAck
      /\ memory'.left = 0 => Return("ok", packet) /\ UNCHANGED <<last, sent, clean, requests>>
      /\ memory'.left # 0 => /\ Send(ChunkCommand(memory'), inbox') /\ pc' = Reading
                            /\ UNCHANGED <<caller, collected, result>>
  BY DEF MemoryAccepted
<1>2. k \in 1..Len(inbox) /\ inbox \in Seq(UnitSet) /\ last \in CommandSet
  BY Parts DEF Take, Shape, SendTypes, LinkTypes
<1>3. /\ packet \in PacketSet /\ sent > 0 /\ last.name = "memory"
      /\ clean => /\ executed[last.n] = 1 /\ packet.to = last.n
                  /\ packet.addr = last.addr /\ packet.size <= last.size
  BY <1>1, <1>2, AcceptedReply, AnswerTo DEF Awaited
<1>4. /\ memory'.left \in Nat /\ memory'.addr \in Nat /\ memory'.dest \in Seq(PacketSet)
      /\ memory'.dest # << >>
      /\ clean => Contiguous(memory')
  BY <1>1, <1>3, ChunkAdded
<1>5. Less
  BY <1>2, TakeIsLess
\* The memory is complete.
<1>6. CASE memory'.left = 0
  <2>1. /\ pc' = "idle" /\ caller' = "none" /\ collected' = << >>
        /\ result' = Result("ok", packet) /\ UNCHANGED <<last, sent, clean, requests>>
    BY <1>1, <1>6 DEF Return
  <2>2. inbox' \in Seq(UnitSet) /\ Numbered' /\ Paired'
    BY <1>5, <2>1, ReadKeeps
  <2>3. Result("ok", packet) \in ResultSet /\ Result("ok", packet).status = "ok"
        /\ Result("ok", packet).packet = packet
    BY <1>3 DEF Result, ResultSet
  <2>4. << >> \in Seq(UnitSet)
    BY EmptySeq
  <2>5. CallTypes'
    BY <1>4, <2>1, <2>3, <2>4 DEF CallTypes
  <2>6. SendTypes' /\ LinkTypes' /\ CountTypes'
    BY <1>1, <2>1, <2>2, Parts DEF Shape, SendTypes, LinkTypes, CountTypes
  <2>7. Waiting' /\ ReplyIsForCommand' /\ Fetching' /\ Fetched'
    BY <1>3, <1>4, <2>1, <2>3 DEF Waiting, ReplyIsForCommand, Fetching, Fetched
  <2> QED  BY <2>2, <2>5, <2>6, <2>7, NextParts DEF Shape, Claims
\* The next chunk is asked for.
<1>7. CASE memory'.left # 0
  <2>1. /\ Send(ChunkCommand(memory'), inbox') /\ pc' \in {"ack", "reply"}
        /\ UNCHANGED <<caller, collected, result>>
    BY <1>1, <1>7 DEF Reading
  <2>2. sent < MaxCommands => ChunkCommand(memory') \in CommandSet
    BY <1>4, ChunkTypes
  <2>3. inbox' \in Seq(UnitSet)
    BY <1>2, <1>5, UnitTypes DEF Less
  <2>4. /\ last' = ChunkCommand(memory') /\ last'.name = "memory" /\ last'.addr = memory'.addr
        /\ last'.size = Min2(memory'.left, ChunkSize)
        /\ SendTypes' /\ sent' > 0 /\ Numbered' /\ Paired'
        /\ clean' => clean
    BY <2>1, <2>2, <2>3, ChunkFields, Sends DEF Awaited
  <2>5. result.status = "none"
    BY Parts DEF Claims, Waiting
  <2>6. CallTypes'
    BY <1>4, <2>1, Parts DEF Shape, CallTypes
  <2>7. LinkTypes' /\ CountTypes'
    BY <1>1, <2>3, Parts DEF Shape, LinkTypes, CountTypes
  <2>8. Waiting' /\ ReplyIsForCommand' /\ Fetched'
    BY <2>1, <2>4, <2>5 DEF Waiting, ReplyIsForCommand, Fetched
  <2>9. Fetching'
    BY <1>4, <1>7, <2>4 DEF Fetching
  <2> QED  BY <2>4, <2>6, <2>7, <2>8, <2>9, NextParts DEF Shape, Claims
<1> QED  BY <1>6, <1>7

LEMMA ReadReplyStep ==
    ASSUME IInv, NEW k \in Nat, ReadReply(k)
    PROVE  IInv'
<1> DEFINE read   == SubSeq(inbox, 1, k)
           packet == read[1].packet
<1>1. /\ pc = "reply" /\ caller \in Awaited /\ Take(k)
      /\ UNCHANGED <<stream, connections, alive, serverAck, executed, events>>
  BY DEF ReadReply
<1>2. CASE IsPacket(read) /\ caller # "memory" /\ ReplyAccepted(packet)
  BY <1>1, <1>2, ReplyAcceptedStep
<1>3. CASE IsPacket(read) /\ caller = "memory" /\ MemoryRefused(packet)
  BY <1>1, <1>3, MemoryRefusedStep
<1>4. CASE IsPacket(read) /\ caller = "memory" /\ MemoryAccepted(packet, inbox')
  BY <1>1, <1>4, MemoryAcceptedStep
<1>5. CASE (Fail \/ Panic) /\ UNCHANGED <<needsAck, last, sent, clean, requests>>
  <2>1. inbox \in Seq(UnitSet) /\ stream \in BOOLEAN
    BY Parts DEF Shape, LinkTypes
  <2>2. Less
    BY <1>1, <2>1, TakeIsLess
  <2> QED  BY <1>1, <1>5, <2>1, <2>2, FailStep
<1>6. CASE OddPanics(packet)
  BY <1>5, <1>6 DEF OddPanics
<1> QED  BY <1>2, <1>3, <1>4, <1>5, <1>6 DEF ReadReply

-----------------------------------------------------------------------------
(* The steps of the server.                                                 *)

\* What the server does changes nothing of a call.
LEMMA CallStays ==
    ASSUME IInv, UNCHANGED <<stream, needsAck, last, pc, caller, memory, collected, result, sent>>,
           clean' => clean,
           result.status = "ok" /\ clean' => executed'[last.n] = executed[last.n]
    PROVE  CallTypes' /\ Waiting' /\ ReplyIsForCommand' /\ Fetching' /\ Fetched'
<1>1. CallTypes'
  BY Parts DEF Shape, CallTypes
<1>2. Waiting' /\ ReplyIsForCommand' /\ Fetching' /\ Fetched'
  BY Parts DEF Claims, Waiting, ReplyIsForCommand, Fetching, Contiguous, Fetched
<1> QED  BY <1>1, <1>2

\* The command the server takes is the one in hand, when the stream is undisturbed.
LEMMA TakenRequest ==
    ASSUME IInv, requests # << >>
    PROVE  /\ Head(requests) \in RequestSet /\ Head(requests) \in CommandSet
           /\ Tail(requests) \in Seq(RequestSet) /\ Tail(requests) \in Seq(CommandSet)
           /\ sent > 0 /\ Head(requests).n \in Number /\ Head(requests).n <= sent
           /\ clean => /\ Head(requests) = last /\ Tail(requests) = << >>
                       /\ executed[sent] = 0 /\ inbox = << >>
<1>1. /\ requests \in Seq(RequestSet) /\ requests \in Seq(CommandSet)
      /\ sent \in 0..MaxCommands /\ MaxCommands \in Nat
  BY Bounds, Parts DEF Shape, SendTypes, Claims, Numbered
<1>2. /\ Head(requests) \in RequestSet /\ Head(requests) \in CommandSet
      /\ Tail(requests) \in Seq(RequestSet) /\ Tail(requests) \in Seq(CommandSet)
  BY <1>1, HeadTailProperties
<1>3. sent > 0 /\ Head(requests).n \in Number /\ Head(requests).n <= sent
  BY <1>1, <1>2 DEF RequestSet, Number
<1>4. ASSUME clean
      PROVE  /\ Head(requests) = last /\ Tail(requests) = << >>
             /\ executed[sent] = 0 /\ inbox = << >>
  <2>1. requests = <<last>> /\ executed[sent] = 0 /\ inbox = << >>
    BY <1>3, <1>4, Parts DEF Claims, Paired
  <2> QED  BY <2>1
<1> QED  BY <1>2, <1>3, <1>4

LEMMA ServerExecutesStep ==
    ASSUME IInv, ServerExecutes
    PROVE  IInv'
<1> DEFINE command == Head(requests)
           ack     == IF serverAck THEN Ack ELSE << >>
<1>1. /\ requests # << >> /\ requests' = Tail(requests)
      /\ executed' = [executed EXCEPT ![command.n] = @ + 1]
      /\ UNCHANGED <<stream, needsAck, last, pc, caller, memory, collected, result, sent, clean,
                     connections, alive, events>>
  BY DEF ServerExecutes, client
<1>2. PICK answer \in Answers(command) :
          /\ inbox' = inbox \o ack \o Whole(answer) \/ inbox' = inbox \o ack
          /\ serverAck' = (serverAck /\ ~(command.name = "noack" /\ answer.kind = "ok"))
  BY DEF ServerExecutes
<1>3. /\ command \in CommandSet /\ command.n \in Number /\ command.n <= sent /\ sent > 0
      /\ requests' \in Seq(RequestSet) /\ requests' \in Seq(CommandSet)
      /\ clean => command = last /\ requests' = << >> /\ executed[sent] = 0 /\ inbox = << >>
  BY <1>1, TakenRequest
<1>4. /\ executed \in [Number -> Nat] /\ inbox \in Seq(UnitSet) /\ serverAck \in BOOLEAN
      /\ sent \in 0..MaxCommands /\ MaxCommands \in Nat /\ last.n = sent
  BY Bounds, Parts DEF Shape, SendTypes, LinkTypes, Claims, Numbered
<1>5. answer \in PacketSet
  BY <1>2, <1>3, PacketTypes
<1>6. LinkTypes'
  <2>1. inbox' \in Seq(UnitSet)
    <3>1. ack \in Seq(UnitSet) /\ Whole(answer) \in Seq(UnitSet)
      BY <1>5, UnitTypes, EmptySeq
    <3>2. inbox \o ack \in Seq(UnitSet) /\ inbox \o ack \o Whole(answer) \in Seq(UnitSet)
      BY <1>4, <3>1, ConcatProperties
    <3> QED  BY <1>2, <3>2
  <2>2. executed' \in [Number -> Nat]
    BY <1>1, <1>3, <1>4
  <2>3. serverAck' \in BOOLEAN
    BY <1>2, <1>4
  <2> QED  BY <1>1, <2>1, <2>2, <2>3, Parts DEF Shape, LinkTypes
<1>7. SendTypes' /\ CountTypes'
  BY <1>1, <1>3, Parts DEF Shape, SendTypes, CountTypes
<1>8. Numbered'
  <2>1. \A n \in Number : n > sent => executed'[n] = 0
    BY <1>1, <1>3, <1>4, Parts DEF Claims, Numbered, Number
  <2> QED  BY <1>1, <1>3, <2>1, Parts DEF Claims, Numbered, RequestSet
<1>9. ASSUME clean
      PROVE  executed'[sent] = 1 /\ requests' = << >> /\ inbox' \in Seq(FitSet')
  <2>1. command = last /\ command.n = sent /\ requests' = << >> /\ executed[sent] = 0
        /\ inbox = << >>
    BY <1>3, <1>4, <1>9
  <2>2. executed'[sent] = 1
    BY <1>1, <1>3, <1>4, <2>1
  <2>3. /\ Unit("ack", NoPacket) \in FitSet'
        /\ Unit("head", answer) \in FitSet' /\ Unit("tail", answer) \in FitSet'
    <3>1. /\ Unit("ack", NoPacket) \in UnitSet
          /\ Unit("head", answer) \in UnitSet /\ Unit("tail", answer) \in UnitSet
      BY <1>5, PacketTypes DEF Unit, UnitSet
    <3>2. answer \in Answers(last') /\ (last'.name = "noack" /\ answer.kind = "ok" => ~serverAck')
      BY <1>1, <1>2, <2>1
    <3>3. Unit("ack", NoPacket).part = "ack"
      BY DEF Unit
    <3>4. \A part \in {"head", "tail"} :
              Unit(part, answer).part = part /\ Unit(part, answer).packet = answer
      BY DEF Unit
    <3> QED  BY <3>1, <3>2, <3>3, <3>4 DEF FitSet
  <2>4. /\ Ack \in Seq(FitSet') /\ Whole(answer) \in Seq(FitSet') /\ << >> \in Seq(FitSet')
    BY <2>3, EmptySeq DEF Ack, Whole
  <2>5. ack \in Seq(FitSet') /\ inbox \in Seq(FitSet')
    BY <2>1, <2>4
  <2>6. inbox \o ack \in Seq(FitSet') /\ inbox \o ack \o Whole(answer) \in Seq(FitSet')
    BY <2>4, <2>5, ConcatProperties
  <2> QED  BY <1>2, <2>1, <2>2, <2>6
<1>10. Paired'
  BY <1>1, <1>9 DEF Paired
\* An accepted reply says that the command was taken before.
<1>11. ~(result.status = "ok" /\ clean)
  BY <1>3, <1>4, Parts DEF Claims, ReplyIsForCommand
<1>12. CallTypes' /\ Waiting' /\ ReplyIsForCommand' /\ Fetching' /\ Fetched'
  BY <1>1, <1>11, CallStays
<1> QED  BY <1>6, <1>7, <1>8, <1>10, <1>12, NextParts DEF Shape, Claims

LEMMA ServerAsksAgainStep ==
    ASSUME IInv, ServerAsksAgain
    PROVE  IInv'
<1>1. /\ requests # << >> /\ requests' = Tail(requests) /\ inbox' = inbox \o Nak
      /\ UNCHANGED <<stream, needsAck, last, pc, caller, memory, collected, result, sent, clean,
                     connections, alive, serverAck, executed, events>>
  BY DEF ServerAsksAgain, client
<1>2. /\ sent > 0
      /\ requests' \in Seq(RequestSet) /\ requests' \in Seq(CommandSet)
      /\ clean => requests' = << >> /\ executed[sent] = 0 /\ inbox = << >>
  BY <1>1, TakenRequest
<1>3. inbox' \in Seq(UnitSet)
  BY <1>1, UnitTypes, ConcatProperties, Parts DEF Shape, LinkTypes
<1>4. SendTypes' /\ LinkTypes'
  BY <1>1, <1>2, <1>3, Parts DEF Shape, SendTypes, LinkTypes
<1>5. CountTypes'
  BY <1>1, Parts DEF Shape, CountTypes
<1>6. Numbered'
  BY <1>1, <1>2, Parts DEF Claims, Numbered, RequestSet
<1>7. Paired'
  <2>1. << >> \o Nak = Nak
    BY UnitTypes, ConcatEmptySeq
  <2>2. ASSUME clean PROVE inbox' = Nak /\ requests' = << >> /\ executed[sent] = 0
    BY <1>1, <1>2, <2>1, <2>2
  <2> QED  BY <1>1, <2>2 DEF Paired
<1>8. CallTypes' /\ Waiting' /\ ReplyIsForCommand' /\ Fetching' /\ Fetched'
  BY <1>1, CallStays
<1> QED  BY <1>4, <1>5, <1>6, <1>7, <1>8, NextParts DEF Shape, Claims

LEMMA ServerEventStep ==
    ASSUME IInv, ServerEvent
    PROVE  IInv'
<1> DEFINE event == Packet("event", events + 1, 0, 0)
<1>1. /\ events < MaxEvents /\ events' = events + 1
      /\ inbox' = inbox \o Whole(event) /\ clean' = FALSE
      /\ UNCHANGED <<stream, needsAck, last, pc, caller, memory, collected, result, sent,
                     connections, alive, serverAck, requests, executed>>
  BY DEF ServerEvent
<1>2. events \in 0..MaxEvents /\ connections \in 0..MaxConnections
  BY Parts DEF Shape, CountTypes
<1>3. event \in PacketSet /\ events' \in 0..MaxEvents
  BY <1>1, <1>2, Bounds, PacketTypes
<1>4. Whole(event) \in Seq(UnitSet) /\ Whole(event) \in Seq(UnaskedSet)
  <2>1. \A part \in {"head", "tail"} :
            Unit(part, event) \in UnitSet /\ Unit(part, event).part = part
    BY <1>3 DEF Unit, UnitSet
  <2>2. \A part \in {"head", "tail"} : Unit(part, event) \in UnaskedSet
    BY <2>1 DEF UnaskedSet
  <2> QED  BY <2>1, <2>2 DEF Whole
<1>5. inbox' \in Seq(UnitSet) /\ (sent = 0 => inbox' \in Seq(UnaskedSet))
  BY <1>1, <1>4, ConcatProperties, Parts DEF Shape, LinkTypes, Claims, Numbered
<1>6. SendTypes' /\ LinkTypes' /\ CountTypes'
  BY <1>1, <1>2, <1>3, <1>5, Parts DEF Shape, SendTypes, LinkTypes, CountTypes
<1>7. Numbered'
  BY <1>1, <1>5, Parts DEF Claims, Numbered, RequestSet, UnaskedSet
<1>8. Paired'
  BY <1>1 DEF Paired
<1>9. CallTypes' /\ Waiting' /\ ReplyIsForCommand' /\ Fetching' /\ Fetched'
  BY <1>1, CallStays
<1> QED  BY <1>6, <1>7, <1>8, <1>9, NextParts DEF Shape, Claims

LEMMA ServerQuitsStep ==
    ASSUME IInv, ServerQuits
    PROVE  IInv'
<1>1. /\ alive' = FALSE /\ requests' = << >>
      /\ UNCHANGED <<stream, needsAck, last, pc, caller, memory, collected, result, sent, clean,
                     connections, serverAck, inbox, executed, events>>
  BY DEF ServerQuits, client
<1>2. << >> \in Seq(RequestSet) /\ << >> \in Seq(CommandSet)
  BY EmptySeq
<1>3. SendTypes' /\ LinkTypes' /\ CountTypes'
  BY <1>1, <1>2, Parts DEF Shape, SendTypes, LinkTypes, CountTypes
<1>4. Numbered'
  BY <1>1, <1>2, Parts DEF Claims, Numbered, RequestSet, UnaskedSet
<1>5. Paired'
  BY <1>1, Parts DEF Claims, Paired, FitSet
<1>6. CallTypes' /\ Waiting' /\ ReplyIsForCommand' /\ Fetching' /\ Fetched'
  BY <1>1, CallStays
<1> QED  BY <1>3, <1>4, <1>5, <1>6, NextParts DEF Shape, Claims

-----------------------------------------------------------------------------
(* The theorems.                                                            *)

LEMMA InitIInv == Init => IInv
<1> SUFFICES ASSUME Init PROVE IInv
  OBVIOUS
<1>1. /\ << >> \in Seq(UnitSet) /\ << >> \in Seq(CommandSet) /\ << >> \in Seq(RequestSet)
      /\ << >> \in Seq(UnaskedSet)
  BY EmptySeq
<1>2. NoCommand \in CommandSet /\ NoCommand.n = 0 /\ NoCommand.name = "none"
  BY Bounds DEF NoCommand, Command, CommandSet
<1>3. CallTypes
  BY <1>1, NothingTypes DEF Init, CallTypes
<1>4. SendTypes /\ LinkTypes /\ CountTypes
  <2>1. SendTypes
    BY <1>1, <1>2, Bounds DEF Init, SendTypes
  <2>2. LinkTypes
    BY <1>1 DEF Init, LinkTypes
  <2>3. CountTypes
    BY Bounds DEF Init, CountTypes
  <2> QED  BY <2>1, <2>2, <2>3
<1>5. Numbered
  BY <1>1, <1>2 DEF Init, Numbered
<1>6. Waiting /\ Paired /\ ReplyIsForCommand /\ Fetching /\ Fetched
  BY NothingTypes DEF Init, Waiting, Paired, ReplyIsForCommand, Fetching, Fetched
<1> QED  BY <1>3, <1>4, <1>5, <1>6, Parts DEF Shape, Claims

LEMMA NextIInv == IInv /\ [Next]_vars => IInv'
<1> SUFFICES ASSUME IInv, [Next]_vars PROVE IInv'
  OBVIOUS
<1>1. CASE Call
  BY <1>1, ConnectStep, RequestStep, SendOnlyStep, GetMemoryStep, BeginEventsStep DEF Call
<1>2. CASE TimesOut \/ ReadAck \/ ReadNak \/ ReadIllegal \/ Disconnected
  BY <1>2, TimesOutStep, ReadAckStep, ReadNakStep, ReadIllegalStep
<1>3. CASE \E k \in 1..Len(inbox) : ReadReply(k) \/ Collect(k)
  <2>1. \A k \in 1..Len(inbox) : k \in Nat
    OBVIOUS
  <2> QED  BY <1>3, <2>1, ReadReplyStep, CollectStep
<1>4. CASE PollReadable \/ PollNothing \/ CollectEnd
  BY <1>4, PollReadableStep, EventsEndStep
<1>5. CASE Server
  BY <1>5, ServerExecutesStep, ServerAsksAgainStep, ServerEventStep, ServerQuitsStep DEF Server
<1>6. CASE UNCHANGED vars
  <2>1. UNCHANGED <<stream, needsAck, last, pc, caller, memory, collected, result, sent, clean,
                    connections, alive, serverAck, requests, inbox, executed, events>>
    BY <1>6 DEF vars, client, server
  <2>2. SendTypes' /\ LinkTypes' /\ CountTypes'
    BY <2>1, Parts DEF Shape, SendTypes, LinkTypes, CountTypes
  <2>3. Numbered' /\ Paired'
    BY <2>1, SameIsLess, ReadKeeps
  <2>4. CallTypes' /\ Waiting' /\ ReplyIsForCommand' /\ Fetching' /\ Fetched'
    BY <2>1, CallStays
  <2> QED  BY <2>2, <2>3, <2>4, NextParts DEF Shape, Claims
<1> QED  BY <1>1, <1>2, <1>3, <1>4, <1>5, <1>6 DEF Next, Proceed

\* The invariant the theorems below follow from: on an undisturbed stream the command in hand is
\* on its way, asked for again, or executed and answered.
THEOREM Invariance == Spec => []IInv
  BY InitIInv, NextIInv, PTL DEF Spec

\* The variables of the client and the server have their types.
THEOREM TypeCorrect == Spec => []TypeOK
<1>1. IInv => TypeOK
  BY DEF IInv
<1> QED  BY <1>1, Invariance, PTL

\* With nothing stray on the stream, a reply that is accepted is that of the command in hand.
THEOREM ReplyPaired == Spec => []ReplyIsForCommand
<1>1. IInv => ReplyIsForCommand
  BY DEF IInv
<1> QED  BY <1>1, Invariance, PTL

\* A command that is sent again after a nak is executed once at most.
THEOREM AtMostOnce == Spec => []ExecutedOnce
<1>1. IInv => ExecutedOnce
  <2>1. SUFFICES ASSUME IInv, clean, last # NoCommand PROVE executed[last.n] <= 1
    BY DEF ExecutedOnce
  <2>2. sent > 0
    <3>1. sent \in 0..MaxCommands /\ (sent = 0 => last = NoCommand)
      BY <2>1, Parts DEF Shape, SendTypes, Claims, Numbered
    <3> QED  BY <2>1, <3>1, Bounds
  <2> QED  BY <2>1, <2>2, Parts DEF Claims, Paired, Numbered
<1> QED  BY <1>1, Invariance, PTL

\* The memory get_memory returns holds nothing twice and has a gap behind a short chunk only, over
\* any number of chunks of which the server gives any part.
THEOREM NoGaps == Spec => []MemoryWithoutGaps
<1>1. IInv => MemoryWithoutGaps
  <2>1. SUFFICES ASSUME IInv, result.status = "ok", last.name = "memory", clean
                 PROVE  MemoryWithoutGaps
    BY DEF MemoryWithoutGaps
  <2>2. memory.dest # << >> /\ Contiguous(memory)
    BY <2>1, Parts DEF Claims, Fetched
  <2> QED  BY <2>2 DEF MemoryWithoutGaps, Contiguous, Last
<1> QED  BY <1>1, Invariance, PTL

\* The client stops expecting acknowledgements only when the server has stopped sending them.
THEOREM LeftTogether == Spec => ModeLeftTogether
<1>1. IInv /\ [Next]_vars => [needsAck /\ ~needsAck' /\ clean => ~serverAck']_vars
  <2> SUFFICES ASSUME IInv, Next, needsAck, ~needsAck', clean PROVE ~serverAck'
    OBVIOUS
  <2>1. PICK k \in 1..Len(inbox) : ReadReply(k)
    BY DEF Next, Call, Proceed, Server, Connect, Request, SendOnly, GetMemory, BeginEvents, TimesOut,
           ReadAck, ReadNak, ReadIllegal, Collect, Disconnected, PollReadable, PollNothing,
           CollectEnd, ServerExecutes, ServerAsksAgain, ServerEvent, ServerQuits, client
  <2> DEFINE read   == SubSeq(inbox, 1, k)
             packet == read[1].packet
  <2>2. /\ pc = "reply" /\ caller \in Awaited /\ IsPacket(read)
        /\ caller = "noack" /\ MayBeOK(packet) /\ serverAck' = serverAck
    BY <2>1 DEF ReadReply, ReplyAccepted, MemoryRefused, MemoryAccepted, OddPanics, NeedsAckAfter
  <2>3. packet \in Answers(last) /\ last.name = "noack" /\ (packet.kind = "ok" => ~serverAck)
    BY <2>2, AcceptedReply
  <2>4. packet.kind = "ok"
    BY <2>2, <2>3 DEF Answers, MayBeOK, Simply, Packet
  <2> QED  BY <2>2, <2>3, <2>4
<1> QED  BY <1>1, Invariance, PTL DEF Spec, ModeLeftTogether
=============================================================================
