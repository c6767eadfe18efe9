---------------------------- MODULE BinaryStream ----------------------------
(***************************************************************************)
(* The request and reply streams of the backend interface: the binary      *)
(* writer (pd_binary_writer.c) that puts events, fields and arrays of      *)
(* entries into a buffer, and the binary reader (pd_binary_reader.c) that  *)
(* walks over them.  A buffer is a function from the offset where something*)
(* was written to the item that starts there; an item knows how many bytes *)
(* it takes and what its size field, of 16 or 32 bits, says.               *)
(***************************************************************************)
EXTENDS Integers, Sequences, FiniteSets

CONSTANTS
    Byte,         \* how many values a byte has: 256 in the code
    Events,       \* event numbers
    Ids,          \* names of fields and arrays
    FieldTypes,   \* the types of field the callers write
    Values,       \* bit patterns written to numeric fields
    Lengths,      \* lengths of the strings (with their terminator) and data blocks
    MaxBytes,     \* bound: offset no writer goes beyond; 2 MB in the code, never checked
    MaxRequests,  \* bound: request ids
    MaxMembers    \* bound: fields and arrays of one event, fields of one entry, entries of one array

W16 == Byte * Byte
W32 == W16 * W16
W64 == W32 * W32

SignedType   == {"S8", "S16", "S32", "S64"}
UnsignedType == {"U8", "U16", "U32", "U64"}
IntType      == SignedType \union UnsignedType

\* sizeof of a numeric type.
Bytes == [S8 |-> 1, U8 |-> 1, S16 |-> 2, U16 |-> 2, S32 |-> 4, U32 |-> 4,
          S64 |-> 8, U64 |-> 8, Float |-> 4, Double |-> 8]

\* What a numeric type of as many bytes goes up to.
Width(t) == CASE Bytes[t] = 1 -> Byte
              [] Bytes[t] = 2 -> W16
              [] Bytes[t] = 4 -> W32
              [] Bytes[t] = 8 -> W64

RequestId == "_request_id"

Start == 4     \* the first bytes of a buffer hold its size

\* The code checks neither the length of a string, nor how many fields an entry is given,
\* nor that it is given an event number or an id that it can tell from its own.
ASSUME StreamAssumption ==
    /\ Byte \in Nat \ {0, 1}
    /\ Events \subseteq Nat \ {0}
    /\ RequestId \notin Ids
    /\ FieldTypes \subseteq DOMAIN Bytes \union {"String", "Data"}
    /\ Values \union Lengths \subseteq Nat
    /\ \A id \in Ids \union {RequestId} :
           Len(id) \in Nat /\ \A n \in Lengths \union {8} : Len(id) + 4 + n < W16
    /\ MaxBytes \in Start..(W32 - 1)
    /\ MaxRequests \in Nat
    /\ MaxMembers \in 0..(W16 - 1)

VARIABLES
    mem,        \* the buffer of the writer; a reset does not clear it
    writer,     \* WriterData
    reader,     \* ReaderData
    iterator,   \* a PDReaderIterator of the reader's caller; NoIterator is 0
    event,      \* what read_get_event returned last; -1 before the first call
    entryCount, \* what read_next_entry returned last; -1 before the first call
    phase,      \* "writing", or "reading" what was written
    sent,       \* history: the events written, with their members and where they are
    seen,       \* history: how many events read_get_event returned
    walked,     \* history: the member the iterator walks over and how many entries it returned
    refused,    \* history: a begin was refused since the last reset
    used        \* history: the request ids handed out

written == <<sent, used, refused>>
reading == <<reader, iterator, event, entryCount, seen, walked>>
vars    == <<mem, writer, phase, written, reading>>

NoIterator == [offset |-> 0, size |-> 0]
NoWalk     == [member |-> 0, entries |-> 0]
NoReader   == [data |-> 0, nextEvent |-> 0, dataEnd |-> 0]

-----------------------------------------------------------------------------
(* The writer: operators on a record of WriterData and its buffer.          *)

Fresh(request_id) ==
    [data |-> Start, request_id |-> request_id, eventOffset |-> 0, arrayOffset |-> 0,
     entryOffset |-> 0, event |-> FALSE, array |-> FALSE, entry |-> FALSE, count |-> 0]

\* What is written at an offset replaces the items that started in its bytes.
Store(m, o, item) ==
    [p \in (DOMAIN m \ (o..(o + item.bytes - 1))) \union {o} |->
        IF p = o THEN item ELSE m[p]]

\* writeIdSize and the value after it: the size field has 16 bits.
Field(id, type, value, length) ==
    [type |-> type, id |-> id, value |-> value, bytes |-> Len(id) + 4 + length,
     size |-> (Len(id) + 4 + length) % W16]

\* Mutant: the size of a data block leaves out the terminator of its id.
DataFieldShort(id, length) ==
    [type |-> "Data", id |-> id, value |-> length, bytes |-> Len(id) + 6 + length,
     size |-> (Len(id) + 5 + length) % W32]

\* write_data: the size field has 32 bits.
DataField(id, length) ==
    [type |-> "Data", id |-> id, value |-> length, bytes |-> Len(id) + 6 + length,
     size |-> (Len(id) + 6 + length) % W32]

\* The header of an event, an array or an entry.  Its size is written by the end;
\* until then the bytes are what they were.
Header(type, id, value, length) ==
    [type |-> type, id |-> id, value |-> value, bytes |-> length, size |-> 0]

Put(b, item) ==
    [mem |-> Store(b.mem, b.writer.data, item),
     writer |-> [b.writer EXCEPT !.data = @ + item.bytes]]

\* A field inside an entry is counted.
PutField(b, item) ==
    LET p == Put(b, item)
    IN  IF b.writer.entry THEN [p EXCEPT !.writer.count = @ + 1] ELSE p

\* The size from the header at an offset to here goes into the header.  If a refused
\* begin has moved the offset the bytes are somebody else's.
Patch(b, offset) ==
    IF offset \in DOMAIN b.mem
    THEN [b EXCEPT !.mem[offset].size = (b.writer.data - offset) % W32]
    ELSE b

EventBegin(b, e) ==
    LET w == [b.writer EXCEPT !.request_id = @ + 1, !.eventOffset = b.writer.data]
    IN  IF w.event
        THEN [b EXCEPT !.writer = w]
        ELSE PutField(Put([b EXCEPT !.writer = [w EXCEPT !.event = TRUE]],
                          Header("Event", "", e, 7)),
                      Field(RequestId, "U64", b.writer.request_id, 8))

EventEnd(b) ==
    IF ~b.writer.event THEN b
    ELSE [Patch(b, b.writer.eventOffset) EXCEPT !.writer.event = FALSE]

\* Mutant: the count goes on from the entry before.
EntryBeginCounting(b) ==
    LET w == [b.writer EXCEPT !.entryOffset = b.writer.data]
    IN  IF w.entry
        THEN [b EXCEPT !.writer = w]
        ELSE Put([b EXCEPT !.writer = [w EXCEPT !.entry = TRUE]],
                 Header("ArrayEntry", "", 0, 7))

EntryBegin(b) ==
    LET w == [b.writer EXCEPT !.entryOffset = b.writer.data]
    IN  IF w.entry
        THEN [b EXCEPT !.writer = w]
        ELSE Put([b EXCEPT !.writer = [w EXCEPT !.entry = TRUE, !.count = 0]],
                 Header("ArrayEntry", "", 0, 7))

EntryEnd(b) ==
    IF ~b.writer.entry THEN b
    ELSE LET p == Patch(b, b.writer.entryOffset)
         IN  [p EXCEPT !.writer.entry = FALSE,
                       !.mem = IF b.writer.entryOffset \in DOMAIN p.mem
                               THEN [@ EXCEPT ![b.writer.entryOffset].value =
                                                  b.writer.count % W16]
                               ELSE @]

ArrayBegin(b, id) ==
    LET w == [b.writer EXCEPT !.arrayOffset = b.writer.data]
    IN  IF w.array
        THEN [b EXCEPT !.writer = w]
        ELSE Put([b EXCEPT !.writer = [w EXCEPT !.array = TRUE]],
                 Header("Array", id, 0, Len(id) + 6))

\* Mutant: no empty entry marks the end of the array.
ArrayEndUnmarked(b) ==
    IF ~b.writer.array THEN b
    ELSE [Patch(b, b.writer.arrayOffset) EXCEPT !.writer.array = FALSE]

\* An empty entry marks the end of the array.
ArrayEnd(b) ==
    IF ~b.writer.array THEN b
    ELSE [Patch(EntryEnd(EntryBegin(b)), b.writer.arrayOffset) EXCEPT !.writer.array = FALSE]

-----------------------------------------------------------------------------
(* The calls of the writer.  What a call does is said by the operators above;*)
(* the guards here are what its callers keep to: a member is written to an   *)
(* open event, an array ends before its event, and a stream in which a begin *)
(* was refused is dropped (Recycle).  The two header arrays only ever refuse.*)

Buffer == [mem |-> mem, writer |-> writer]

\* The caller writes to b instead of the buffer there was.
Write(b) ==
    /\ phase = "writing"
    /\ b.writer.data <= MaxBytes
    /\ mem' = b.mem
    /\ writer' = b.writer
    /\ UNCHANGED <<phase, reading>>

Last(s)   == s[Len(s)]
Message   == Last(sent)
\* A member remembers where it was written, as an event and an entry do.
Member(id, type, value) ==
    [id |-> id, type |-> type, value |-> value, at |-> writer.data, entries |-> << >>]

\* The member of the event, or of the entry, that is open.
WithMember(m) ==
    LET n == Len(sent) IN
    IF ~writer.entry
    THEN [sent EXCEPT ![n].members = Append(@, m)]
    ELSE LET k == Len(sent[n].members)
             j == Len(sent[n].members[k].entries)
         IN  [sent EXCEPT ![n].members[k].entries[j].fields = Append(@, m)]

MoreMembers ==
    LET ms == IF writer.entry THEN Last(Last(Message.members).entries).fields ELSE Message.members
    IN  Len(ms) < MaxMembers

write_event_begin(e) ==
    /\ writer.request_id <= MaxRequests
    /\ ~refused
    /\ Write(EventBegin(Buffer, e))
    /\ refused' = writer.event
    /\ IF writer.event
       THEN UNCHANGED <<sent, used>>
       ELSE /\ sent' = Append(sent, [event |-> e, request |-> writer.request_id,
                                     at |-> writer.data, members |-> << >>])
            /\ used' = used \union {writer.request_id}

\* The end of an event that was not begun is refused and changes nothing.
write_event_end ==
    /\ ~writer.array /\ ~refused
    /\ Write(EventEnd(Buffer))
    /\ UNCHANGED written

\* Fields are written to an open event; between the entries of an array there are none.
write_field(id, item) ==
    /\ writer.event /\ ~refused
    /\ writer.array => writer.entry
    /\ MoreMembers
    /\ Write(PutField(Buffer, item))
    /\ sent' = WithMember(Member(id, item.type, item.value))
    /\ UNCHANGED <<used, refused>>

write_number(id, t, v) ==
    t \in DOMAIN Bytes /\ v < Width(t) /\ write_field(id, Field(id, t, v, Bytes[t]))

write_string(id, length) == write_field(id, Field(id, "String", length, length))
write_data(id, length)   == write_field(id, DataField(id, length))

write_array_begin(id) ==
    /\ writer.event /\ ~refused
    /\ ~writer.array => MoreMembers
    /\ Write(ArrayBegin(Buffer, id))
    /\ refused' = writer.array
    /\ sent' = IF writer.array THEN sent ELSE WithMember(Member(id, "Array", 0))
    /\ UNCHANGED used

write_array_entry_begin ==
    /\ writer.array /\ ~refused
    /\ Len(Last(Message.members).entries) < MaxMembers
    /\ Write(EntryBegin(Buffer))
    /\ refused' = writer.entry
    /\ sent' = IF writer.entry THEN sent
               ELSE [sent EXCEPT ![Len(sent)].members[Len(Message.members)].entries =
                                     Append(@, [at |-> writer.data, fields |-> << >>])]
    /\ UNCHANGED used

write_array_entry_end ==
    /\ ~refused
    /\ Write(EntryEnd(Buffer))
    /\ UNCHANGED written

write_array_end ==
    /\ ~refused
    /\ Write(ArrayEnd(Buffer))
    /\ refused' = (writer.array /\ writer.entry)
    /\ UNCHANGED <<sent, used>>

\* Mutant: the request ids start again.
ResetWriterIds == Fresh(1)

\* pd_binary_writer_reset keeps the buffer, what is in it, and the request id.
ResetWriter == Fresh(writer.request_id)

-----------------------------------------------------------------------------
(* The reader.                                                              *)

\* Mutant: the stream reaches to the end of the buffer.
InitStreamWhole == [data |-> Start, nextEvent |-> 0, dataEnd |-> MaxBytes]

\* pd_binary_reader_init_stream(get_data, get_size): get_size leaves out the first
\* four bytes, init_stream counts them.
InitStream == [data |-> Start, nextEvent |-> 0, dataEnd |-> writer.data - Start]

\* What the reader finds where nothing was written.
Garbage == Header("None", "", 0, 0)

ItemAt(o) == IF o \in DOMAIN mem THEN mem[o] ELSE Garbage

\* findIdByRange: the walk steps by the size field of each item, of 32 bits for data
\* and arrays, of 16 for all others.  0 is a null pointer; so is the end of a walk
\* that does not get on, which hangs in the code.
FindId(id, start, end) ==
    LET step(o)  == IF ItemAt(o).type \in {"Data", "Array"} THEN ItemAt(o).size
                                                             ELSE ItemAt(o).size % W16
        found[o \in Nat] == IF o >= end \/ step(o) = 0 THEN 0
                            ELSE IF ItemAt(o).id = id THEN o
                            ELSE found[o + step(o)]
    IN  found[start]

\* findId: in the event, or in the entry the iterator is at.
Find(id, it) ==
    IF it = NoIterator THEN FindId(id, reader.data, reader.nextEvent)
    ELSE FindId(id, it.offset, it.offset + it.size)

\* The caller has read nothing yet.
FromTheStart ==
    /\ event' = -1 /\ seen' = 0
    /\ iterator' = NoIterator /\ entryCount' = -1 /\ walked' = NoWalk

\* The number that getX makes of the bytes of a field: S16 comes out unsigned, U32
\* signed, and the low half of a 64-bit value is an int whose sign extends over the
\* high half.
GetNumber(t, v) ==
    CASE t \in {"S8", "S32", "U32"} -> IF 2 * v < Width(t) THEN v ELSE v - Width(t)
      [] t \in {"S64", "U64"}       -> IF 2 * (v % W32) < W32 THEN v
                                      ELSE (W64 - W32) + (v % W32)
      [] OTHER                      -> v

\* Mutant: 32-bit values are taken from two of their bytes.
ConvertTwoBytes(t, v, asked) ==
    IF Bytes[t] = 4 THEN v \div W16 ELSE GetNumber(t, v) % Width(asked)

\* findValue: what a caller that asks for a type gets from a field of type t.
Convert(t, v, asked) == GetNumber(t, v) % Width(asked)

\* Where read_get_event looks.
EventAt == IF reader.nextEvent = 0 THEN reader.data ELSE reader.nextEvent

EventThere ==
    /\ reader.nextEvent < reader.dataEnd
    /\ EventAt < reader.dataEnd
    /\ ItemAt(EventAt).type = "Event"

read_get_event ==
    /\ phase = "reading"
    /\ IF EventThere
       THEN /\ reader' = [reader EXCEPT !.nextEvent = EventAt + ItemAt(EventAt).size,
                                        !.data = EventAt + 7]
            /\ event' = ItemAt(EventAt).value
            /\ seen' = seen + 1
       ELSE event' = 0 /\ UNCHANGED <<reader, seen>>
    /\ iterator' = NoIterator
    /\ entryCount' = -1
    /\ walked' = NoWalk
    /\ UNCHANGED <<mem, writer, phase, written>>

First(members, id) ==
    LET S == {i \in 1..Len(members) : members[i].id = id}
    IN  IF S = {} THEN 0 ELSE CHOOSE i \in S : \A j \in S : i <= j

\* read_find_array: the iterator is at the first entry, before it was read.
read_find_array(id) ==
    /\ phase = "reading" /\ event > 0
    /\ Find(id, NoIterator) # 0
    /\ ItemAt(Find(id, NoIterator)).type = "Array"
    /\ iterator' = [offset |-> Find(id, NoIterator) + Len(id) + 6, size |-> 0]
    /\ entryCount' = -1
    /\ walked' = [member |-> First(sent[seen].members, id), entries |-> 0]
    /\ UNCHANGED <<mem, writer, phase, written, reader, event, seen>>

EntryIterator(start) == [offset |-> start + 7, size |-> ItemAt(start).size - 7]

\* read_next_entry: the size in the iterator leads to the next entry.  Callers stop
\* at an entry without fields.
read_next_entry ==
    /\ phase = "reading"
    /\ iterator # NoIterator /\ entryCount # 0
    /\ LET start == iterator.offset + iterator.size
       IN  /\ ItemAt(start).type = "ArrayEntry"
           /\ iterator' = EntryIterator(start)
           /\ entryCount' = ItemAt(start).value
    /\ walked' = [walked EXCEPT !.entries = @ + 1]
    /\ UNCHANGED <<mem, writer, phase, written, reader, event, seen>>

\* pd_binary_reader_reset, as update_current_pc and internal_update use it.  The data
\* of the event read last is at hand again only through read_get_event.
reader_reset ==
    /\ phase = "reading"
    /\ reader' = [reader EXCEPT !.data = Start, !.nextEvent = 0]
    /\ FromTheStart
    /\ UNCHANGED <<mem, writer, phase, written>>

-----------------------------------------------------------------------------
(* BackendSession::internal_update, for one of its two writers.             *)

Init ==
    /\ mem = << >>
    /\ writer = Fresh(1)
    /\ phase = "writing"
    /\ reader = NoReader
    /\ event = -1 /\ seen = 0
    /\ iterator = NoIterator /\ entryCount = -1 /\ walked = NoWalk
    /\ sent = << >> /\ refused = FALSE /\ used = {}

\* What was written is finalized and given to the reader.  Callers have ended what they
\* began (PDMessage_end_msg), and no begin was refused.
Deliver ==
    /\ phase = "writing"
    /\ ~writer.event /\ ~writer.array /\ ~refused
    /\ phase' = "reading"
    /\ reader' = InitStream
    /\ FromTheStart
    /\ UNCHANGED <<mem, writer, written>>

\* The writer is reset for the next round, after the reader is done or because what is
\* in it is of no use.
Recycle ==
    /\ phase = "reading" \/ refused
    /\ phase' = "writing"
    /\ writer' = ResetWriter
    /\ sent' = << >> /\ refused' = FALSE
    /\ reader' = NoReader
    /\ FromTheStart
    /\ UNCHANGED <<mem, used>>

Next ==
    \/ \E e \in Events : write_event_begin(e)
    \/ write_event_end
    \/ \E id \in Ids, t \in FieldTypes \ {"String", "Data"}, v \in Values : write_number(id, t, v)
    \/ \E id \in Ids, n \in Lengths : "String" \in FieldTypes /\ write_string(id, n)
    \/ \E id \in Ids, n \in Lengths : "Data" \in FieldTypes /\ write_data(id, n)
    \/ \E id \in Ids : write_array_begin(id)
    \/ write_array_entry_begin
    \/ write_array_entry_end
    \/ write_array_end
    \/ read_get_event
    \/ \E id \in Ids : read_find_array(id)
    \/ read_next_entry
    \/ reader_reset
    \/ Deliver
    \/ Recycle

Spec == Init /\ [][Next]_vars

-----------------------------------------------------------------------------
(* Properties.                                                              *)

Item == [type : DOMAIN Bytes \union {"String", "Data", "Event", "Array", "ArrayEntry"},
         id : Ids \union {RequestId, ""}, value : Nat, bytes : Nat, size : Nat]

Offset == 0..MaxBytes

TypeOK ==
    /\ DOMAIN mem \subseteq Offset /\ \A o \in DOMAIN mem : mem[o] \in Item
    /\ writer \in [data : Offset, request_id : Nat, eventOffset : Offset,
                   arrayOffset : Offset, entryOffset : Offset, event : BOOLEAN,
                   array : BOOLEAN, entry : BOOLEAN, count : 0..MaxMembers]
    /\ reader \in [data : Offset, nextEvent : Offset, dataEnd : Offset]
    /\ iterator \in [offset : Offset, size : Offset]
    /\ event \in Events \union {-1, 0}
    /\ entryCount \in -1..MaxMembers
    /\ phase \in {"writing", "reading"}
    /\ seen \in 0..Len(sent) /\ refused \in BOOLEAN /\ used \subseteq 1..MaxRequests
    /\ walked \in [member : Nat, entries : Nat]

\* The reader returns the events in the order they were written, and ends when and
\* only when it has returned them all, although it takes the buffer to be four bytes
\* shorter than it is and although older events are still in the bytes behind it.
EventsInOrder ==
    phase = "reading" =>
        /\ event > 0 => seen \in 1..Len(sent) /\ event = sent[seen].event
        /\ event = 0 => seen = Len(sent)

FoundIs(o, members, id) ==
    LET k == First(members, id)
    IN  IF k = 0 THEN o = 0
        ELSE o # 0 /\ ItemAt(o).type = members[k].type /\ ItemAt(o).value = members[k].value

\* In the event that was read every id leads to the first member written under it, an
\* id that was not written leads nowhere (not into an entry, nor into the next event),
\* and the request id is the one write_event_begin returned.
MembersFound ==
    phase = "reading" /\ event > 0 =>
        /\ \A id \in Ids : FoundIs(Find(id, NoIterator), sent[seen].members, id)
        /\ ItemAt(Find(RequestId, NoIterator)).value = sent[seen].request

\* The iterator of an array goes over its entries in order.  At each one it reports how
\* many fields it has and finds exactly these; it reports 0 behind the last one or at
\* an entry that was written without fields, never earlier.
EntriesFound ==
    entryCount >= 0 =>
        LET entries == sent[seen].members[walked.member].entries
            fields  == entries[walked.entries].fields
        IN  IF walked.entries > Len(entries) THEN entryCount = 0
            ELSE /\ entryCount = Len(fields)
                 /\ \A id \in Ids : FoundIs(Find(id, iterator), fields, id)

\* No event is given a request id that an earlier one was given, before or after a
\* reset: a reply can always be paired with one request.
RequestIdsUnique ==
    [][Len(sent') > Len(sent) => Last(sent').request \notin used]_vars

Means(t, v) == IF t \in SignedType /\ 2 * v >= Width(t) THEN v - Width(t) ELSE v

Represents(t, n) ==
    IF t \in SignedType THEN n \in -(Width(t) \div 2)..(Width(t) \div 2 - 1)
                        ELSE n \in 0..(Width(t) - 1)

\* Whatever integer type a caller asks for, a field that holds a number which the type
\* can represent is read as that number, if it is not negative and the low half of
\* its 64 bits is below the sign bit of an int.
NumbersConverted ==
    \A o \in DOMAIN mem : mem[o].type \in IntType =>
        LET t == mem[o].type
            n == Means(t, mem[o].value)
        IN  \A asked \in IntType :
                n >= 0 /\ 2 * (n % W32) < W32 /\ Represents(asked, n)
                    => Convert(t, mem[o].value, asked) = n

-----------------------------------------------------------------------------
(* What a comment of the code says, and the code does not do.               *)

\* pd_readwrite.h: PDReadStatus_Ok, "Read operation completed without any problems".  A
\* caller that asks for the type that was written gets this status; it should get the
\* value too.
OkMeansValue ==
    \A o \in DOMAIN mem :
        mem[o].type \in IntType => Convert(mem[o].type, mem[o].value, mem[o].type) = mem[o].value
=============================================================================
