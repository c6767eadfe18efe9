-------------------------- MODULE RemoteConnection --------------------------
(***************************************************************************)
(* The remote API of a target: the listening socket with one client at a   *)
(* time, and PDRemote_update, which accepts, polls, receives a command or  *)
(* a stream in blocks, calls the plugin and sends its reply in blocks.     *)
(*                                                                         *)
(* What a client sends is one sequence of bytes.  A byte is named by its   *)
(* offset in it, so a socket is two counters: how much has arrived and how *)
(* much of that was taken.  recv returns what has arrived, up to what it   *)
(* was asked for.  The clients (debuggers) are external.                   *)
(***************************************************************************)
EXTENDS Integers, Sequences, FiniteSetsExt

CONSTANTS
    Client,         \* connections that debuggers may open
    NoClient,       \* INVALID_SOCKET
    Action,         \* the numbers of actions a command may carry (PDAction)
    Body,           \* sizes of streams without their header
    ReplySize,      \* sizes of the streams a plugin replies
    HeaderSize,     \* bytes of a command, and of the header of a stream: 4
    BlockSize,      \* bytes sent or received by one call: 1024
    MaxPosts        \* bound: messages of the clients that are not closed

ASSUME RemoteAssumption ==
    /\ NoClient \notin Client
    /\ Action \subseteq Nat /\ Body \subseteq Nat /\ ReplySize \subseteq Nat \ {0}
    /\ HeaderSize \in Nat \ {0} /\ BlockSize \in Nat \ {0} /\ MaxPosts \in Nat

VARIABLES
    phase,      \* a connection: "away", "open", "gone" (its client left) or "closed"
    posted,     \* the messages a client sent, each with the offset it starts at
    arrived,    \* bytes of a client that have come to the target's socket
    taken,      \* bytes of a client that recv has returned
    torn,       \* recv returned less than it was asked for (history)
    backlog,    \* clients that wait for accept
    socket,     \* conn->socket
    pc,         \* where PDRemote_update is; "idle" outside of it, "ended" with its process
    call,       \* what the plugin is called with
    left,       \* bytes recvStream or sendStream still has to transfer
    obeyed,     \* what the plugin was called with for each client, until torn (history)
    unsent      \* bytes missing from the last stream sent to each client (history)

network == <<phase, posted, arrived>>
inbound == <<taken, torn, obeyed>>
update  == <<pc, call, left>>
vars    == <<network, inbound, unsent, backlog, socket, update>>

Min2(a, b) == IF a < b THEN a ELSE b

Message == [kind : {"action"}, value : Action] \union [kind : {"stream"}, value : Body]

Length(m) == HeaderSize + (IF m.kind = "stream" THEN m.value ELSE 0)

At(m, offset) == [kind |-> m.kind, value |-> m.value, start |-> offset]

NoCall == [kind |-> "none", value |-> 0, start |-> 0]

\* The end of the last message of a client.
Total(c) ==
    LET n == Len(posted[c])
    IN  IF n = 0 THEN 0 ELSE posted[c][n].start + Length(posted[c][n])

\* PDRemote_create: a listening socket, no client, nothing received.
Init ==
    /\ phase = [c \in Client |-> "away"]
    /\ posted = [c \in Client |-> << >>]
    /\ arrived = [c \in Client |-> 0]
    /\ taken = [c \in Client |-> 0]
    /\ torn = [c \in Client |-> FALSE]
    /\ backlog = << >>
    /\ socket = NoClient
    /\ pc = "idle"
    /\ call = NoCall
    /\ left = 0
    /\ obeyed = [c \in Client |-> << >>]
    /\ unsent = [c \in Client |-> 0]

-----------------------------------------------------------------------------
(* The clients.  Their messages are bounded together.  Nothing follows the  *)
(* end of the process, with which the system closes what it had open.       *)

Open(c) == phase[c] = "open" /\ pc # "ended"

\* RemoteConnection_connect on the other side: the system queues the connection
\* until it is accepted, and takes its bytes meanwhile.
Connect(c) ==
    /\ phase[c] = "away" /\ pc # "ended"
    /\ phase' = [phase EXCEPT ![c] = "open"]
    /\ backlog' = Append(backlog, c)
    /\ UNCHANGED <<posted, arrived, inbound, unsent, socket, update>>

\* A client sends an action or a stream.
Post(c, m) ==
    /\ Open(c)
    /\ MapThenSumSet(LAMBDA d : Len(posted[d]), Client) < MaxPosts
    /\ posted' = [posted EXCEPT ![c] = Append(@, At(m, Total(c)))]
    /\ UNCHANGED <<phase, arrived, inbound, unsent, backlog, socket, update>>

\* Some more bytes come through.
Arrive(c) ==
    /\ Open(c)
    /\ arrived' \in {[arrived EXCEPT ![c] = n] : n \in (arrived[c] + 1)..Total(c)}
    /\ UNCHANGED <<phase, posted, inbound, unsent, backlog, socket, update>>

\* A client goes.  What it had not sent is lost; what had arrived may be, too.
Leave(c) ==
    /\ Open(c)
    /\ phase' = [phase EXCEPT ![c] = "gone"]
    /\ arrived' \in {arrived, [arrived EXCEPT ![c] = taken[c]]}
    /\ UNCHANGED <<posted, inbound, unsent, backlog, socket, update>>

-----------------------------------------------------------------------------
(* PDRemote_update.                                                         *)

Waiting(c) == arrived[c] - taken[c]

\* select reports data, and the end of a connection.
pollRead(c) == c # NoClient /\ (Waiting(c) > 0 \/ phase[c] = "gone")

\* A client is only accepted while there is none.
updateListner ==
    IF socket = NoClient /\ backlog # << >> THEN Head(backlog) ELSE socket

Accept ==
    /\ socket' = updateListner
    /\ backlog' = IF updateListner = socket THEN backlog ELSE Tail(backlog)

\* Mutant: what was asked for is taken for what came.
RecvAll(c, n) ==
    /\ Waiting(c) > 0
    /\ taken' = [taken EXCEPT ![c] = @ + n]
    /\ UNCHANGED torn

\* recv of at most n bytes, when there are some.
Recv(c, n) ==
    LET k == Min2(n, Waiting(c))
    IN  /\ k > 0
        /\ taken' = [taken EXCEPT ![c] = @ + k]
        /\ torn' = [torn EXCEPT ![c] = @ \/ k < n]

\* What a command of k bytes is taken for: a message when it is the whole header of
\* one; the bytes missing are not initialized, and bytes of a body can be anything.
Meaning(c, k) ==
    LET headers == {m \in {posted[c][i] : i \in DOMAIN posted[c]} :
                        k = HeaderSize /\ m.start = taken[c]}
    IN  IF headers # {} THEN headers
        ELSE {At(m, taken[c]) : m \in Message}

\* Mutant: the size of the header is not taken off the size of the stream.
StreamLeftWhole(m) == HeaderSize + m.value

\* The header of a stream is part of its size and was received already.
StreamLeft(m) == m.value

\* An action, or a stream without a body, goes to the plugin; else recvStream follows.
Dispatch(m) ==
    /\ call' = m
    /\ left' = IF m.kind = "stream" THEN StreamLeft(m) ELSE 0
    /\ pc' = IF left' = 0 THEN "plugin" ELSE "stream"

\* RemoteConnection_disconnect: the socket is closed, and what came for it is dropped.
Disconnect(c) ==
    /\ socket' = NoClient
    /\ phase' = [phase EXCEPT ![c] = "closed"]
    /\ posted' = [posted EXCEPT ![c] = << >>]
    /\ arrived' = [arrived EXCEPT ![c] = 0]
    /\ taken' = [taken EXCEPT ![c] = 0]
    /\ torn' = [torn EXCEPT ![c] = FALSE]
    /\ obeyed' = [obeyed EXCEPT ![c] = << >>]
    /\ unsent' = [unsent EXCEPT ![c] = 0]

\* The plugin is called with no action and an empty reader.
DispatchNothing ==
    /\ call' = NoCall
    /\ left' = 0
    /\ pc' = "plugin"

\* Nothing to read.
UpdateIdle ==
    /\ pc = "idle"
    /\ ~pollRead(updateListner)
    /\ Accept
    /\ DispatchNothing
    /\ UNCHANGED <<network, inbound, unsent>>

\* recv returns 0: the client has gone, and the socket is closed.
UpdateLost ==
    /\ pc = "idle"
    /\ pollRead(updateListner) /\ Waiting(updateListner) = 0
    /\ backlog' = IF updateListner = socket THEN backlog ELSE Tail(backlog)
    /\ Disconnect(updateListner)
    /\ DispatchNothing

\* The command is received, whole or in part.
UpdateCommand ==
    /\ pc = "idle"
    /\ pollRead(updateListner)
    /\ Accept
    /\ Recv(updateListner, HeaderSize)
    /\ \E m \in Meaning(updateListner, Min2(HeaderSize, Waiting(updateListner))) : Dispatch(m)
    /\ UNCHANGED <<network, obeyed, unsent>>

\* recvStream: the next block.  It moves on by the block it asked for, so a shorter
\* one leaves a hole in the data.
RecvBlock ==
    LET block == Min2(left, BlockSize)
    IN  /\ pc = "stream"
        /\ Recv(socket, block)
        /\ left' = left - block
        /\ pc' = IF left' = 0 THEN "plugin" ELSE "stream"
        /\ call' = IF Waiting(socket) < block THEN [call EXCEPT !.kind = "damaged"] ELSE call
        /\ UNCHANGED <<network, backlog, socket, obeyed, unsent>>

\* The client goes within a stream.  recvStream frees its buffer by the pointer it has moved,
\* which is not one that malloc gave: the allocator ends the process.
RecvLost ==
    /\ pc = "stream"
    /\ pollRead(socket) /\ Waiting(socket) = 0
    /\ Disconnect(socket)
    /\ call' = NoCall
    /\ left' = 0
    /\ pc' = "ended"
    /\ UNCHANGED backlog

Called == IF call.kind = "none" \/ torn[socket] THEN obeyed
          ELSE [obeyed EXCEPT ![socket] = Append(@, call)]

\* The plugin is called; a reply of size n is sent if there is a client, size 0 is none.
PluginUpdate(n) ==
    /\ pc = "plugin"
    /\ obeyed' = Called
    /\ IF n > 0 /\ socket # NoClient
       THEN /\ unsent' = [unsent EXCEPT ![socket] = n]
            /\ left' = n
            /\ pc' = "send"
       ELSE /\ pc' = "idle"
            /\ UNCHANGED <<unsent, left>>
    /\ call' = NoCall
    /\ UNCHANGED <<network, taken, torn, backlog, socket>>

\* sendStream: the next block.  The client reads what it is sent.
SendBlock ==
    LET block == Min2(left, BlockSize)
    IN  /\ pc = "send"
        /\ unsent' = [unsent EXCEPT ![socket] = @ - block]
        /\ left' = left - block
        /\ pc' = IF left' = 0 THEN "idle" ELSE "send"
        /\ UNCHANGED <<network, inbound, backlog, socket, call>>

\* Mutant: the rest of a stream is given up, the connection is kept.
SendFailsConnected ==
    /\ pc = "send"
    /\ phase[socket] = "gone"
    /\ left' = 0
    /\ pc' = "idle"
    /\ UNCHANGED <<network, inbound, unsent, backlog, socket, call>>

\* send fails once the client has gone: the socket is closed, the rest is not sent.  Or, on Unix
\* when the connection was shut down already, its signal (SIGPIPE) ends the process.
SendFails ==
    /\ pc = "send"
    /\ phase[socket] = "gone"
    /\ Disconnect(socket)
    /\ left' = 0
    /\ pc' \in {"idle", "ended"}
    /\ UNCHANGED <<backlog, call>>

-----------------------------------------------------------------------------
BeginUpdate == UpdateIdle \/ UpdateLost \/ UpdateCommand
Transfer    == RecvBlock \/ RecvLost \/ SendBlock \/ SendFails

Network == \E c \in Client :
    Connect(c) \/ (\E m \in Message : Post(c, m)) \/ Arrive(c) \/ Leave(c)

\* Any plugin, called at any time.
Next ==
    \/ Network
    \/ BeginUpdate
    \/ Transfer
    \/ \E n \in ReplySize \union {0} : PluginUpdate(n)

Spec == Init /\ [][Next]_vars

-----------------------------------------------------------------------------
TypeOK ==
    /\ phase \in [Client -> {"away", "open", "gone", "closed"}]
    /\ posted \in [Client -> Seq([kind : {"action", "stream"},
                                  value : Nat, start : Nat])]
    /\ arrived \in [Client -> Nat] /\ taken \in [Client -> Nat]
    /\ \A c \in Client : taken[c] <= arrived[c] /\ arrived[c] <= Total(c)
    /\ torn \in [Client -> BOOLEAN]
    /\ backlog \in Seq(Client)
    /\ socket \in Client \union {NoClient}
    /\ pc \in {"idle", "stream", "plugin", "send", "ended"}
    /\ call \in [kind : {"none", "action", "stream", "damaged"},
                 value : Nat, start : Nat]
    /\ left \in Nat
    /\ obeyed \in [Client -> Seq([kind : {"action", "stream", "damaged"},
                                  value : Nat, start : Nat])]
    /\ unsent \in [Client -> Nat]

\* What the plugin is called with for a client is what that client sent, whole, in order
\* and once, as long as no recv on its connection came back short: recvStream takes all of a
\* stream and nothing of the next message, and neither a connection that was closed nor a torn
\* one before it spoils the commands of the next client.  Where a client that is lost ends the
\* process there is none.
CommandsInOrder ==
    \A c \in Client :
        /\ Len(obeyed[c]) <= Len(posted[c])
        /\ \A i \in 1..Len(obeyed[c]) : obeyed[c][i] = posted[c][i]

\* No stream to a client follows one that was cut: sendStream gives up after a block that
\* failed, and nothing is sent on that connection again.
NothingAfterCutReply ==
    [][pc # "send" /\ pc' = "send" => unsent[socket] = 0]_vars
=============================================================================
