# Formal models of ProDBG

ProDBG is a debugger front end written in C++ with Qt. Debuggers for particular targets
are plugins behind a C interface: a plugin is called synchronously with an action and a
stream of requests, and answers with a state and a stream of replies. This directory holds
TLA+ models of the parts of the program where order, threads and boundaries matter, the
TLC configurations that check them on small instances, and TLAPS proofs.

Paths are relative to the repository's root.

## 1. Inventory

| Component | Source | State | Operations | Interacts with |
|---|---|---|---|---|
| Session lifecycle | `src/prodbg/MainWindow.cpp`, `main.cpp` | current session, its thread, its requests object | open an executable, take a `target_reply`, close, exit | posts slots to the session's thread; receives its signals; blocks in `QThread::wait` |
| BackendSession, BackendRequests | `src/prodbg/Backend/` | last `PDDebugState`, poll timer(s), two writers, one reader, plugin instance | `file_target_request`, `start`, `update` (50 ms timer), destruction | calls the plugin; posts signals to the UI thread |
| Plugin interface | `api/include/pd_backend.h` | the plugin's own | `create_instance`, `update`, `destroy_instance` | called by BackendSession |
| LLDB plugin | `src/plugins/lldb/lldb_plugin.cpp` | state, target, process, listener, selected thread | requests, run, look for a process event | LLDB and the debugged process, which runs concurrently |
| Binary streams | `api/src/remote/pd_binary_writer.c`, `pd_binary_reader.c` | buffer, offsets of what is open, request id; position of the reader | events, fields, data, arrays, entries; find by id, iterate; reset | every request and every reply goes through them |
| Remote API | `api/src/remote/remote_api.c`, `remote_connection.c` | listening socket, one client, the command in hand | accept, receive a command or a stream, update a plugin, send the replies | TCP, a plugin |
| Fake 6502 target | `examples/fake_6502` | run state, where the loop of the CPU is, its instruction counter | execute, look for commands, break, run, step | remote API |
| gdb remote protocol | `src/crates/gdb-remote` | socket, acknowledgement mode, last command, timeouts | command and reply, commands without a reply, incoming events, memory in chunks | a gdb server over TCP |
| Amiga UAE plugin | `src/addons/amiga_uae_plugin` | state, breakpoints, segments, line tables, location of the last stop | events, breakpoints, run, step, stop | gdb remote protocol, hunk parser, the emulator |
| Hunk parser | `src/crates/amiga_hunk_parser` | none | parse the line tables of an executable | files |
| Dummy backend | `src/plugins/dummy_backend` | canned values | canned answers | none; not loaded today |
| Rust API | `api/rust/prodbg` | none | bindings of the C interface | plugins |
| Recent executables | `src/prodbg/RecentExecutables.cpp` | list of at most 8 files | put on top, read and write settings | settings, menu |
| Breakpoint model | `src/prodbg/BreakpointModel.cpp` | breakpoints by line and by address | toggle, look up | code views |
| Plugin handler, services | `src/prodbg/Core`, `Service.cpp`, `IdService.cpp` | registered plugins | add, find, hash an event name | shared libraries |
| Views | `src/prodbg/SourceCodeWidget.cpp`, `CodeView*`, `MemoryView` | what they show | follow the program counter, cache memory | signals of BackendRequests |
| Configuration, dialogs, plugin UI | `src/prodbg/Config`, `PluginUI`, `AmigaUAE` | settings | user input | Qt |

Vendored code (capstone, edbee, flatbuffers, tool windows, LLDB headers) is left aside.

### What is hard

* Two threads that share nothing and post events to each other: replies of one session
  arrive when the next one is current; a session is destroyed while its signals are posted;
  the UI thread blocks until the other one has finished.
* Polling: the only way a stop is noticed is a timer that is stopped and started by the
  state the plugin answered last, and of which every start creates another.
* A debugged process that goes on between any two steps of a call.
* A stream format in which sizes of 16 and 32 bits, a header that is counted once and left
  out once, and bytes left over from earlier rounds decide what is read.
* Sockets that deliver any part of what was sent: commands and streams run into each other,
  a client goes in the middle of one, and the next must not see what is left of it.
* A target that calls the same update from its main loop and from the loop it stops in.
* Replies that are paired with commands by order alone, while acknowledgements, resends,
  timeouts, events and commands without a reply share the stream.
* Breakpoints that are kept in the plugin and in the emulator, and that may be set before
  there is an executable, a connection or a line table to find their place in.

What makes each component correct is said with the runs below; `PROJECT.json` lists each
hazard at its line, with the properties that would notice it.

## 2. Modules

    BackendApi         what one call of a plugin may do (operators and constants)
      |-- BackendContract   the calls as a specification: what a plugin promises
      |     ^ refined by
      |-- LLDBPlugin        the LLDB plugin in steps, with the process beside it
      |     MCLLDBPlugin    ... instance: MCLLDBPlugin.cfg, StopLocation.cfg
      |     LLDBPluginProofs    ... theorems
      |     LLDBContractProofs  ... the theorem that it implements the contract
      |-- DebugSession      MainWindow, sessions, threads, timers, over any plugin
            MCDebugSession  ... instance: MCDebugSession.cfg, StaleTargetReply.cfg,
                                SessionEnded.cfg
            DebugSessionProofs  ... theorems
    BinaryStream       writer, reader and the buffer between them
      MCBinaryStream   ... instance: MCBinaryStream.cfg, WideValue.cfg
      BinaryStreamProofs   ... theorems
    RemoteConnection   listener, client and PDRemote_update, over any plugin and any caller
      |-- RemoteConnectionProofs   ... theorems
      |-- Fake6502     a CPU that calls it, and its plugin
            Fake6502Proofs   ... theorems
            MCFake6502 ... instance: MCFake6502.cfg
    GdbRemote          client of the gdb protocol and a server
      GdbRemoteProofs  ... theorems
      MCGdbRemote      ... instance: MCGdbRemote.cfg, ShortMemory.cfg
    AmigaDebugInfo     hunk parser and line tables (operators)
      |-- AmigaUae     the plugin and the emulator, over what GdbRemote does to a caller
            AmigaUaeProofs   ... theorems
            MCAmigaUae ... instance: MCAmigaUae.cfg, SegmentLines.cfg

`DebugSession` and `LLDBPlugin` are composed through `BackendApi`: the first is checked
against everything `UpdateResults` allows, the second is shown to do nothing else. So a
property of `DebugSession` holds for the front end with the LLDB plugin.

`Fake6502` restricts `RemoteConnection`: its target calls `PDRemote_update` at two places of
its loop and answers with its own plugin. It is shown to implement `RemoteConnection`, so what
is true of any target is true of it. `AmigaUae` takes from `GdbRemote` only what a call can do
to its caller (`Exchange`): the two have no state in common, and together they would be too
large to check.

### BackendApi and BackendContract

A plugin is a record of the state it answered last, the kind of target it was given, what
its debuggee does and how many times it stopped. `UpdateResults(p, action, request)` is the
set of what a call may return; it goes through requests, action and wait in the order
`update` of the LLDB plugin does. `BackendContract` makes each call one atomic step, with
the debuggee's stops and exits between the calls.

### DebugSession

One action per slot, because a slot runs to its end before its thread takes the next event:

| Action | Code |
|---|---|
| `OpenDebugExecutable`, `OpenSession` | `MainWindow::open_debug_executable`, `setup_backend` |
| `CloseWindow` | `MainWindow::~MainWindow` |
| `BeginClose`, `CloseFinished` | `close_current_backend` up to `wait()`, and from its return; between them the UI thread takes no events, the backend thread does |
| `TargetAccepted`, `TargetRefused` | `MainWindow::target_reply` |
| `RequestsSignal` | the signals BackendRequests passes on, and `SourceCodeWidget` |
| `SkipWithdrawn` | an event whose receiver was deleted: Qt nulls it in the queue |
| `FileTargetRequest`, `Start`, `Timeout` | the slots of BackendSession; `internal_update` and `update_current_pc` are operators they use |
| `ThreadFinished` | the end of the event loop, `thread_finished` and `~BackendSession` |
| `DebuggeeStops`, `DebuggeeExits` | the process, between two calls of the plugin |

A posted event is a member of `uiQueue` or `slots[s]`. Sessions are numbered in the order
they are opened, so that an event still names the session that posted it: the real event
does not, which is what the run `stale_target_reply` shows. Handlers that nothing is
connected to (stop, step, break, the disabled menus) are not modelled: no event reaches
them.

### LLDBPlugin

A call of `update` is a sequence of steps: `ProcessEvents`, one of `NoAction`, `Launch`,
`LaunchFails`, `Continue`, then `WaitTimesOut` or `TakeEvent`, and one `VisitThread` for each
thread of a stopped process. The process (`ProcessStops`, `ProcessEvent`, `ProcessExits`) may
take its steps between any of these. Stop reasons are kept apart by what the switch does with
them. The process is external: modelled from the calls the plugin makes to it.

The refinement mapping to `BackendContract` leaves the abstract plugin as it was when the
call began, and moves it when the call returns. A stop of the process shows in the abstract
plugin when its event is the next one of the listener.

### BinaryStream

A buffer is a function from offsets to the items that start there; an item knows how many
bytes it takes and what its size field says, which is all the reader walks by. Writing over
old bytes removes the items that began in them; a reset keeps the rest. The writer's
operations are operators on a record of `WriterData` and a buffer (`EventBegin`, `EntryEnd`
...); the actions of the same names as the functions of the code apply them under the
conditions its callers keep to. A begin that is refused moves the offset all the same, as in
the code, and its stream can only be dropped. What was written, and at which offset each event,
member, entry and field of it begins, is kept as `sent`, the reference the reader is compared
with.

Event numbers are not zero, names and strings fit the 16-bit size, a buffer is shorter than
what its 32-bit size field can say and an array has no more entries than its 16-bit count
(`StreamAssumption`): the code checks none of this. `Byte`, how many values a byte has, is a
parameter, so that TLC can wrap a 64-bit value in its own integers: with `Byte = 8` the widest
one has eight digits to the base 8.

### RemoteConnection and Fake6502

What a client sends is one sequence of bytes, and a byte is its offset in it. So a socket is
two counters, how much has `arrived` and how much was `taken`, and a command that is read at a
wrong offset is told from one that is read at the right one without spelling out the bytes.
`recv` returns what has arrived, up to what it was asked for; `torn` records that it returned
less.

| Action | Code |
|---|---|
| `UpdateIdle`, `UpdateLost`, `UpdateCommand` | `PDRemote_update`: no client or nothing to read; the client has gone; a command of four bytes, by its kind |
| `RecvBlock`, `RecvLost` | a turn of the loop of `RemoteConnection_recvStream` |
| `PluginUpdate` | the call of the plugin, and whether its reply is to be sent |
| `SendBlock`, `SendFails` | a turn of the loop of `RemoteConnection_sendStream` |
| `Connect`, `Post`, `Arrive`, `Leave` | the clients and the network (external) |
| `CallRunning`, `SkipUpdate` | `execute6502` while the CPU runs: every `CheckEvery` instructions it looks for a command |
| `StepOn`, `EnterLoop`, `TraceInLoop`, `CallInLoop`, `LeaveLoop` | `updateDebugger` and the loop of the stopped CPU |
| `DoAction` | the plugin's `update` |

A client that goes may take the process with it, after which `pc` is `"ended"` and the system
closes what was open:

* within a stream it sends (`RecvLost`): `recvStream` has moved its pointer by four bytes
  (`remote_connection.c:359`) and by each block (`:381`), and frees it there (`:376`), which is no
  pointer that `malloc` gave; the allocator aborts. Strictly this is undefined behaviour; an
  allocator that lets it pass is not modelled.
* at a reply (`SendFails`): the sends do not ask for SIGPIPE to be ignored, so on Unix a second send
  to a connection that was reset ends the process; elsewhere, and at the first send, it fails and
  the socket is closed.

The invariants hold with and without such an end; `MessagesObeyed` makes an exception of it.

A stream whose size is below that of its own header is left out: the subtraction in
`PDRemote_update` goes negative and what follows is undefined.

### GdbRemote

A call is the wait for what it reads next: `ack`, `reply`, or `poll` for an event. A read
takes any part of what the server has sent (`Take`), may find nothing for two seconds
(`TimesOut`), or the connection may end (`Disconnected`). Packets have two halves, so that a
reply may come in two reads and two packets in one. Commands carry their number, as a history:
the code pairs a reply with a command by order alone.

`Request` is a command whose reply is read; `SendOnly` one whose reply is not (the kill command
and `step_over`); `GetMemory` the loop over the chunks; `BeginEvents`, `PollReadable`,
`Collect` and the ends of both are the loop that looks for an event. The server executes and
answers, asks for a command again (as often as it likes), sends events of its own accord, or
quits. Of a chunk of memory it may give a part only, or nothing (`Chunks`).

A call may end in a panic: on a packet of fewer than four characters (`MaybeShort`, the slice at
`lib.rs:385`), and on one with an odd number of digits where registers or memory are expected
(`OddPanics`): `convert_hex_data_to_binary` takes the digits in pairs and indexes the second of the
last pair (`lib.rs:396-399`). The stop `S05` and the error `E01` are such packets.

### AmigaDebugInfo and AmigaUae

A file is a sequence of hunks, a hunk a sequence of blocks, and a block the number of longs it
says it has, with its lines. `Readable` says on which blocks the parser gives up: it skips a
block by as many bytes as the block has longs, so a hunk with a name makes it fail. The tables
and the look-up of a line or of an address are operators.

An update is `Update` (what the plugin reads first while its target runs), `UpdatePc` after a
stop, `HandleEvent`, and `HandleAction`; `Run` goes on with `Handshake`, one `SendBreakpoint`
for each of the list, and `Launch`. The emulator may stop, send a frame or quit between any
two of these. `Exchange` is one call of the gdb client: it sends nothing without a stream,
may lose the stream, and returns the reply, nothing, or what was there before it. A reply of odd
length that is read as registers or memory panics (`pc` is `"panicked"`). The events that ask the
emulator are `GetRegisters` and `GetMemory`, which stands for the memory event and for the
disassembly, of one chunk; the exception location is answered from what is there, and is no event
of the model.

## 3. Runs

| Run | Bounds | Shows |
|---|---|---|
| `debug_session` | 3 sessions, 2 stops each | the invariants and the liveness of the lifecycle |
| `lldb` | 2 threads, 2 waiting events, 2 stops | the plugin implements the contract, reports the current stop, its first thread, its location, and notices stops |
| `binary_stream` | 76 bytes, 2 request ids, 2 members, byte of 8 values | what is written is read |
| `remote` | 2 clients, 2 messages each, streams and replies of two blocks, look every 2 instructions | commands arrive whole and in order, replies are not continued after a cut, the CPU obeys and steps |
| `gdb` | 3 commands, memory of 3 with chunks of 2, 1 event, 2 connections, any number of naks | replies, executions, memory and modes agree; calls return, unless the server asks again for ever |
| `amiga` | a file of two segments and three sources and one that does not parse, 1 breakpoint, 2 unread packets, 1 connection | breakpoints are armed, stops are located and, by a plugin that is polled while Running only, noticed, lines are found |
| `stale_target_reply` | as `debug_session` | violated: a reply of a closed session starts the next one |
| `session_ended` | as `debug_session` | violated: the signal is withdrawn and never delivered, though the event loop goes on |
| `lldb_location` | as `lldb` | violated: the first location is that of the thread selected before |
| `wide_value` | one event, 60 bytes | violated: a 64-bit value with bit 31 set is changed |
| `short_memory` | 3 commands, memory of 3 with chunks of 2, 1 connection | violated: after a chunk that came short the size returned is not that of what came |
| `segment_lines` | as `amiga` | violated: a stop in the second segment is shown at a line of the first |

The violation runs are findings: each states what a comment of the repository says, and
`PROJECT.json` quotes it beside the lines that do otherwise.

Why the bounds are enough. A session interacts with the one before it (events still posted)
and the one after it; three sessions let a middle one have both. Two stops let one follow
another; two threads let the selected one change or cease to exist. 76 bytes hold two events
with a field in each, or one with an array of two entries, and after a reset the events of
two rounds lie in one buffer.

Two clients of `remote` let one wait while the other is served, and let one follow another;
two messages each let a command follow a stream; a body of 3 bytes and blocks of 2 make a
short last block. In `gdb` three commands let one that is late meet the next and the one after;
memory of 3 takes two chunks, the last one short, and each of them may come short; one event, and
the naks, put something on the stream that no command asked for; a second connection meets the
state the first one left. Naks need no bound, because each takes the place of the command it
refuses. In `amiga` the second file has a named hunk, so that a launch may have the
tables of no file, and the first has two segments and three source files, which is the least
in which an offset can be found in the wrong one. Two unread packets let a stop lie behind
something else. The run has one breakpoint and one connection, because its liveness takes too long
with more of them. With two breakpoints, of which one may fail and the next be sent, the invariants
and `BreakpointsArmed` hold, too (2.1 million states), and what is proved of `AmigaUae` holds for
any number of both.

TLC explores about 34 thousand states of `debug_session`, 118 thousand of `lldb`, 1.2 million
of `binary_stream`, 0.8 million of `remote`, 1.6 million of `gdb` and 0.6 million of `amiga`.

Deadlock is checked in `binary_stream` only. In the others the system may really stop: the
window may be closed, the process may have exited, the clients, the server or the emulator
may have gone with all their commands sent.

### Properties

`debug_session`
* `OneLiveSession`: a thread is live exactly when its session is the window's current one;
  what `close_current_backend` does in order, and what makes it safe to delete the objects.
* `RunAfterTarget`: a plugin is asked to run only after its own target request was handled,
  even though another session's reply may cause the start.
* `RunningIsPolled`: while the debuggee is believed to run, the timer that polls is active.
* `ViewFollowsSession`: the view never moves to a location of a closed session.
* `FirstStopIsShown`, `CloseReturns`, `RefusedTargetCloses`: liveness.

`lldb`
* `ImplementsContract`: the refinement. `StopIsCurrent`, `SelectionIsFirst`,
  `StopIsLocated`: what a reported stop means. `StopNoticed`: liveness of the polling.

`binary_stream`
* `EventsInOrder`, `MembersFound`, `EntriesFound`: the reader against `sent`.
* `NumbersConverted`: a number survives the conversion to any type that can represent it,
  where the code does not lose it (see `wide_value`).
* `RequestIdsUnique`: no request id is used twice, across resets.

`remote`
* `CommandsInOrder`: what the plugin is called with is what the client sent, whole, in order
  and once, while no `recv` came back short. The condition is the code's: it takes what one
  `recv` returns for all it asked for (see the hazards).
* `NothingAfterCutReply`: after a reply that was cut nothing more is sent on its connection.
* `OneInstructionPerStep`: a stopped CPU executes one instruction for each Step.
* `MessagesObeyed`: liveness across clients that come and go, for as long as none of them takes
  the process with it.

`gdb`
* `ReplyIsForCommand`: an accepted reply is that of the command. It is stated for an undisturbed
  stream (`clean`), because the code pairs by order: a reply that came after its timeout, or
  that of a command whose reply is never read, is taken for the next one's. `clean` holds again
  once nothing stray is left when a command is sent, so the run also covers what follows.
* `ExecutedOnce`: resends, on an undisturbed stream; a nak that is left from an earlier command
  makes the next one go out twice.
* `ModeLeftTogether`: the client does not leave the acknowledging mode before the server. One
  direction only: a server may have left it whose reply came late, and a client keeps the mode
  off over a reconnect to a server that starts with it on. In both cases the client reads illegal
  replies until the stream is drained.
* `MemoryWithoutGaps`: what `get_memory` returns begins where it was asked to and holds nothing
  twice, and it has a gap behind a chunk that came short only. Such a gap is real: the code goes
  on by what it asked for. `ReturnsWhatItGot` is the finding: the size that is returned counts it.
* `CallReturns`: a call ends, or panics, provided the server does not ask for commands again for
  ever and sends a bounded number of events. Both provisos are needed: the loop of
  `handle_send_ack` (`lib.rs:194-200`) has no limit, and `read_incoming_event` (`:283`) reads while
  data comes. The timeout, which is there "to make sure we never gets infitite blocked" (`:134`),
  is that of one read and ends neither: without the first proviso TLC finds the endless call.

`amiga`
* `BreakpointsArmed`: at every launch the emulator has all that was asked for.
* `TablesOfTheFile`, `FirstSegmentLines`: the line tables, and a stop looked up in them. The
  second speaks of tables that follow each other (`InAddressOrder`): `resolve_file_line` takes
  the first file that knows a line, and a file with entries before and behind an address takes
  it for one of its own lines.
* `LocationIsWhereStopped`: what the plugin says of a stop. `StopNoticed`: that a stop which is
  next to be read is noticed while the plugin is Running. A stop behind a frame or a late reply
  is lost in the code, and in the model; `clean` and the place of the stop leave it out.
* `SegmentLines` is the finding: the look-up goes through the tables of all segments for an
  offset that belongs to one.

### Fairness

`debug_session`: weak fairness of the event loop of each thread (a posted event is taken), of
an active timer, of a thread told to quit, and of the return of `wait()`. Qt's loops take
events in order and its timers fire; nothing is assumed of the user, of the file or of the
debuggee. A weakly fair `Timeout` is enough, because an active timer stays active until a
slot of the same thread stops it.

`lldb`: a call that began goes on, and a running plugin is polled. The second is what
`RunningIsPolled` establishes for the front end. Nothing is assumed of the process.

`session_ended` has the same fairness: the event loops go on, and the signal is not delivered.

`remote`: the CPU goes on executing, and what a client has sent arrives. Nothing is assumed
of the clients, which may be silent or go at any time; hence the disjuncts of
`MessagesObeyed`.

`gdb`: the client's own steps go on, because a read that finds nothing times
out after two seconds. Nothing is assumed of the server; that it does not ask again for ever is
part of `CallReturns`.

`amiga`: an update that was begun comes to its end or panics, and while the state is Running, which
is when `BackendSession` polls (`BackendSession.cpp:605-614`, and `RunningIsPolled`), an update
reads what has come now and again (`SF`): a packet that stays readable is not overlooked every
time. In the other states nothing is assumed: no update need come.

`binary_stream` has no fairness: it has no liveness property.

## 4. Proofs

`DebugSessionProofs` proves, for every number of sessions and stops and every set of plugins:

| Theorem | Property |
|---|---|
| `Invariance` | the inductive invariant `IInv` |
| `TypeCorrect` | `TypeOK` |
| `OneLive` | `OneLiveSession` |
| `RunAfter` | `RunAfterTarget` |
| `Polled` | `RunningIsPolled` |
| `ViewFollows` | `ViewFollowsSession` |

The assumptions are those of the modules: `MaxSessions` and `MaxStops` are natural numbers.

The argument. The properties are not inductive alone. `IInv` adds what a step relies on:

* `EventsExpected`: every posted location is of the current session, because the older ones
  were withdrawn with their receiver. `ViewFollowsSession` needs this at the step in which a
  location is taken.
* `Asked(s)`: the target request of a session was handled, or it is the first of its posted
  slots. `EventsExpected` and `SlotsExpected` say that it holds of the current session whenever
  a reply is posted, and of every session to which a start is posted. This carries
  `RunAfterTarget`, although a stale reply may post the start: request and start go through one
  queue, and `OpenSession` posts the request before control returns to the event loop.
* `DebugStateIsPlugins`: `m_debugState` is what the plugin answered last. With it the only
  call that turns a session Running is the one made with Run, in `start`, which activates the
  new timer afterwards; so `RunningIsPolled` is kept.
* `SessionsInOrder` and `ClosingHasBackend`: sessions beyond `opened` are as they were at the
  beginning, and a window that is closing has a backend. `OneLiveSession` needs both when the
  next session is opened.

Lemmas about `UpdateResults` (what a call may change) come first, then one lemma for each
action, then the theorems.

`LLDBPluginProofs` proves, for every number of threads, waiting events and stops:

| Theorem | Property |
|---|---|
| `Invariance` | the inductive invariant `IInv` |
| `TypeCorrect` | `TypeOK` |
| `StopCurrent` | `StopIsCurrent` |
| `SelectionFirst` | `SelectionIsFirst` |
| `StopLocated` | `StopIsLocated` |

The assumptions: `MaxThreads`, `MaxEvents` and `MaxStops` are natural numbers. What its `IInv`
adds to the properties:

* `StopPending`: the stopped event of a stop is in the listener at most once, and only while
  the plugin still believes the process runs and is not in the loop. Taking it makes the
  listener free of stops, which is what `StopIsCurrent` says of a stop that was found.
* `ProcessFollows` and `CallFollows`: a process that runs belongs to a plugin that is Running;
  only `Continue` makes it run again, so it stays stopped while the loop reads its threads.
* `LoopFollows`: the threads visited so far had no reason, or the selected one is the first of
  them that had. The bound on `index` turns this into `SelectionIsFirst` at the end.
* `LocationFollows`: `StopIsLocated` for the threads visited so far. A thread visited later
  sends the selected thread's location again or nothing.
* `RepliesBounded`: how many replies a call has written, by how far it has got.

`LLDBContractProofs` goes on from it:

| Theorem | Property |
|---|---|
| `Implements` | `ImplementsContract` |

A step of the contract is a whole call, and a call of the plugin is many steps with the process
between them. So the proof keeps, in `CallSoFar`, what the call has done so far to the abstract
plugin it began with: `Before` and `After` are that plugin after the requests and after the
action, the process has since done nothing, stopped or exited (`Drifted`), or it has stopped
and its event is taken (`AtStop`), and the replies are those to the request, with a location if
a thread was chosen (`Told`). One lemma for each step shows that it keeps this and that the
abstract plugin does not move; at the step that ends the call `CallSoFar` names the member of
`UpdateResults` that it was. This is what carries the theorems of `DebugSessionProofs`, which
hold for any plugin that keeps to `UpdateResults`, over to this one.

`BinaryStreamProofs` proves, for any events, names, values and sizes:

| Theorem | Property |
|---|---|
| `Invariance` | the inductive invariant `IInv` |
| `TypeCorrect` | `TypeOK` |
| `InOrder` | `EventsInOrder` |
| `FindsMembers` | `MembersFound` |
| `FindsEntries` | `EntriesFound` |
| `Conversions` | `NumbersConverted` |
| `IdsUnique` | `RequestIdsUnique` |

The properties speak of what the reader finds, the writer only of where it writes. What joins
them is the layout of the buffer, which is `Written`, the first half of `IInv`: the events of
`sent` follow each other without gaps from the start of the buffer to `data` (`StreamAt`), and
so do the members of an event, the entries of an array up to the empty one that closes it, and
the fields of an entry (`MembersAt`, `ArrayAt`, `EntriesAt`, `FieldsAt`; `Chained` and `NextAt`
say "without gaps"). Every item but an open one has the size that leads to the next. The
proof goes in four parts:

1. Writing behind an offset leaves everything before it as it was (`Keeps`, and one lemma
   `...Kept` for each level of the layout).
2. Each operation of the writer appends what `sent` says it does (one lemma `...Writes` for
   each). The end of an entry, an array or an event goes back and fills in a size: it turns the
   open item into one that leads on. A begin that is refused moves an offset and writes nothing,
   and since nothing more is claimed of its stream until a reset (`refused`), that is enough.
3. The walk of `findIdByRange`. `FindIdStep` says that the recursive function has a value,
   which needs a proof: the definition is sound because the walk only goes forward, whatever
   sizes it meets. `ChainWalk` follows it over a chain without gaps: it stops at the first item
   with the id. `FieldsAreFound`, `MembersAreFound` and `MessageWalk` apply it to an entry and
   to an event.
4. `Reading`, the second half of `IInv`: between two calls the reader is at the end of an event
   it has read (`ReadSoFar`), and its iterator, if it has one, is at an entry of an array of
   that event, or at the empty one (`Walking`). With part 3 each property follows at once.

`NumbersConverted` needs one fact of the buffer, which holds of stale items too: a number is
below the width of its type (`NumberOK`). It is claimed for the types that the properties
convert into narrower ones or into signs; a refused begin followed by an end may count an
entry in an item that is no array, and the invariant allows for it. `IdsUnique` needs that the
ids handed out are below the next one: a refused begin takes an id as well, and a reset keeps
the counter.

`RemoteConnectionProofs` proves, for any clients, any plugin that replies and any sizes:

| Theorem | Property |
|---|---|
| `Invariance` | the inductive invariant `IInv` |
| `TypeCorrect` | `TypeOK` |
| `CallsInOrder` | `CommandsInOrder` |
| `CutReplyIsLast` | `NothingAfterCutReply` |

`CommandsInOrder` says nothing of the bytes; the invariant has to. Messages follow each other
without gaps, so that an offset at which one begins determines which one it is. On a connection
that is not torn, the bytes taken end where the message after the obeyed ones begins, plus what
was taken of the one in hand: all but `left` of it. So the next four bytes are the header of
the next message, and `left = 0` at its end. For replies, `unsent` of the client in hand is
`left` while sending and 0 otherwise, and only a connection that was closed keeps a remainder.

`Fake6502Proofs` takes over from it:

| Theorem | Property |
|---|---|
| `ImplementsRemote` | `CpuSpec => Spec`: each step of the CPU is one of `RemoteConnection` or a stutter |
| `CpuCallsInOrder` | `CommandsInOrder`, of the CPU |
| `CpuTypeCorrect` | `CpuTypeOK` |
| `OneInstruction` | `OneInstructionPerStep` |

`GdbRemoteProofs` proves, for any sizes and any numbers of commands, events and connections, and
naks without limit:

| Theorem | Property |
|---|---|
| `Invariance` | the inductive invariant `IInv` |
| `TypeCorrect` | `TypeOK` |
| `ReplyPaired` | `ReplyIsForCommand` |
| `AtMostOnce` | `ExecutedOnce` |
| `NoGaps` | `MemoryWithoutGaps` |
| `LeftTogether` | `ModeLeftTogether` |

Its centre is `Paired`. On an undisturbed stream the command in hand was executed at most
once, and is in one of three places: in the server's queue, with nothing on the stream; asked
for again, with only the nak there; or executed, with only its answers, acknowledgements and
events there. A nak is sent in place of an execution, so resending keeps it; a read can only
accept an answer in the third. `FitSet` adds that the answer `OK` to QStartNoAckMode is there
only after the server has left the mode, which is `ModeLeftTogether`. `Fetching` and `Fetched`
follow the chunks: whatever part of them came, they begin at the address that was asked for, each
lies behind the one before, next to it if that came whole, and the next is asked for behind them.

`AmigaUaeProofs` proves, for any files, breakpoints, addresses and emulators:

| Theorem | Property |
|---|---|
| `Invariance` | the inductive invariant `IInv` |
| `LaunchedArmed` | `BreakpointsArmed` |
| `StopLocated` | `LocationIsWhereStopped` |
| `TypeCorrect` | `TypeOK` |
| `TablesLoaded` | `TablesOfTheFile` |
| `FirstSegmentShown` | `FirstSegmentLines` |
| `LineLeadsToEntry` | a line leads to an entry of it in the first hunk that has one, if any has |

`IInv` has two facts besides types: what is asked for is in the list (`AskedInList`), and while
a launch is at entry `next` of the list, all before it with a place are armed, or the
connection is lost (`ArmedSoFar`). Between two launches nothing is claimed of the emulator.
`LocationIsWhereStopped` has an invariant of its own, `LInv`: when no call is under way on a
connection that has lost no reply, the plugin shows the place of the stop, or the stop is still
unread (`Located`). The second half is what a stop that comes between two calls needs.

The next three follow from `TInv`, which adds to `IInv` the types of the plugin (`PluginOK`) and
of the connection (`LinkOK`), and that the tables are those of the file from run to launch
(`Launching`): the file is set by events only, and none is handled in between. Types are not all
local. That an armed place is one, and never the place of an unknown line, needs that
`get_address_seg` finds an entry of the tables (`GetAddressSegIs`) and that what is in the list
was asked for; that the location is an address, that whatever is taken for a reply is some
packet of the emulator. `FillHunkIs` is the theorem about the parser, by induction over the
blocks of a hunk (over a set, as in `BinaryStreamProofs`): it keeps every entry, at the offset
from the start of the segment. `ResolveFileLineIs` is the one about the lookup: in tables in the
order of their addresses, a file before the one with the entry knows no line behind its own last
entry, so the first file that knows one has an entry at that address. `LineLeadsToEntry` is the
way back: where a breakpoint on a line is armed.

The assumptions of all of these are those of the modules: the bounds are natural numbers, the
sizes positive where the code divides by or steps with them, and `NoClient` and `NoExe` are not
among the clients and the files.

For `AmigaUae` these are also that offsets, lines and addresses are natural numbers, and that
only debug blocks have lines.

Only model-checked: liveness, which is out of the prover's reach under fairness:
`FirstStopIsShown`, `CloseReturns` and `RefusedTargetCloses` of the session, `StopNoticed` of
both plugins, `MessagesObeyed` and `CallReturns`. The findings are traces and need no proof.

## 5. Not modelled, and the plan

Done: the parts of the repository that have an order, a boundary or a failure of their own: the
session and its threads, the LLDB plugin, the binary streams, the remote API with the CPU of the
example that uses it, the gdb client, and the Amiga plugin with the line tables. Not all of them
are in today's build: `fake_6502` is commented out of `units.misc.lua`, and the remote API has no
other user in the repository. What the modules leave out is under "components" in `PROJECT.json`,
and in short:

* Undefined behaviour beyond which there is nothing to model: sizes that do not fit their field,
  a buffer that overflows, a stream smaller than its header, `PDRemote_update` after a failed
  create.
* What a recv of fewer bytes does to the bytes themselves (a command of which some are not
  initialized): `damaged`, whatever they are.
* The panic of the Amiga plugin on a path of fewer than four characters.
* Contents no state depends on: registers, disassembly, call stacks, memory, frames, the
  instruction set of the 6502, the path of the hard disk image.
* Code that is there and does not run: the code and disassembly views and most requests
  (`#if 0` or commented out), `RecentExecutables::set_file` and `BreakpointModel` (no caller),
  the dummy backend (not loaded), `PDRemote_destroy` (declared, never defined), `save_state` and
  `load_state` (no caller). A model of them could be checked against nothing that uses it.

Most lines of the repository are not the program's own: the headers of capstone and of LLDB
alone are the larger part, and the CPU of the example is an instruction table. The map covers
most of the code with behaviour, and a small share of all lines.

Every invariant and every action property of a passing run is proved.

Left out for good: Qt widgets, dialogs and settings (input and output), the blocks of a file
that the hunk parser reads and no one uses, the Rust bindings (they forward each call), and the
rounding of floating point numbers.
