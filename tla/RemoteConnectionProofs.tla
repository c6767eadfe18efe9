---------------------- MODULE RemoteConnectionProofs ----------------------
(***************************************************************************)
(* Theorems about RemoteConnection, for any number of clients, any sizes   *)
(* of messages and blocks, and any plugin: while no recv on a connection   *)
(* came back short, what the plugin is called with is what the client      *)
(* sent, whole and in order.  IInv carries it: the bytes taken from an     *)
(* untorn connection end where a message ends, but for the one in hand.    *)
(***************************************************************************)
EXTENDS RemoteConnection, SequenceTheorems, TLAPS

-----------------------------------------------------------------------------
(* The inductive invariant.                                                 *)

Entry == [kind : {"action", "stream"}, value : Nat, start : Nat]

\* The end of the n-th message of a client, which is where the next one starts.
End(c, n) == IF n = 0 THEN 0 ELSE posted[c][n].start + Length(posted[c][n])

Types ==
    /\ phase \in [Client -> {"away", "open", "gone", "closed"}]
    /\ posted \in [Client -> Seq(Entry)]
    /\ arrived \in [Client -> Nat] /\ taken \in [Client -> Nat]
    /\ torn \in [Client -> BOOLEAN]
    /\ backlog \in Seq(Client)
    /\ socket \in Client \union {NoClient}
    /\ pc \in {"idle", "stream", "plugin", "send", "ended"}
    /\ call \in [kind : {"none", "action", "stream", "damaged"}, value : Nat, start : Nat]
    /\ left \in Nat
    /\ obeyed \in [Client -> Seq([kind : {"action", "stream", "damaged"},
                                  value : Nat, start : Nat])]
    /\ unsent \in [Client -> Nat]

Bytes == \A c \in Client : taken[c] <= arrived[c] /\ arrived[c] <= Total(c)

\* Each message starts where the one before it ends, and after all before it.
Chained ==
    \A c \in Client : \A i \in 1..Len(posted[c]) :
        /\ posted[c][i].start = End(c, i - 1)
        /\ \A j \in 1..(i - 1) : End(c, j) <= posted[c][i].start

\* A transfer has a client and bytes left; a call without a client has nothing in hand.
Placed ==
    /\ pc \in {"stream", "send"} => socket # NoClient /\ left > 0
    /\ pc = "stream" => call.kind # "none"
    /\ pc = "plugin" => left = 0
    /\ pc = "plugin" /\ call.kind # "none" => socket # NoClient

InHand(c) == c = socket /\ pc \in {"stream", "plugin"} /\ call.kind # "none"

Framed ==
    \A c \in Client :
        ~torn[c] =>
            /\ ~InHand(c) => taken[c] = End(c, Len(obeyed[c]))
            /\ InHand(c) =>
                   /\ Len(obeyed[c]) < Len(posted[c])
                   /\ call = posted[c][Len(obeyed[c]) + 1]
                   /\ taken[c] + left = End(c, Len(obeyed[c]) + 1)

\* What is missing at a client is what is being sent to it.
Missing ==
    \A c \in Client : unsent[c] = IF pc = "send" /\ c = socket THEN left ELSE 0

IInv ==
    /\ Types
    /\ Bytes
    /\ Chained
    /\ Placed
    /\ CommandsInOrder
    /\ Framed
    /\ Missing

-----------------------------------------------------------------------------
(* Messages and their ends.                                                 *)

LEMMA MessageTypes ==
    ASSUME NEW m \in Message
    PROVE  /\ m.kind \in {"action", "stream"} /\ m.value \in Nat
           /\ Length(m) \in Nat /\ Length(m) > 0
           /\ \A n \in Nat : At(m, n) \in Entry /\ Length(At(m, n)) = Length(m)
                             /\ At(m, n).start = n
<1>1. HeaderSize \in Nat /\ HeaderSize > 0 /\ Action \subseteq Nat /\ Body \subseteq Nat
  BY RemoteAssumption
<1>2. m.kind \in {"action", "stream"} /\ m.value \in Nat
  BY <1>1 DEF Message
<1>3. Length(m) \in Nat /\ Length(m) > 0
  BY <1>1, <1>2 DEF Length
<1>4. ASSUME NEW n \in Nat
      PROVE  At(m, n) \in Entry /\ Length(At(m, n)) = Length(m) /\ At(m, n).start = n
  BY <1>2 DEF At, Entry, Length
<1> QED  BY <1>2, <1>3, <1>4

LEMMA EntryLength ==
    ASSUME NEW e \in Entry
    PROVE  Length(e) \in Nat /\ Length(e) > 0
  BY RemoteAssumption DEF Entry, Length

LEMMA EndTypes ==
    ASSUME Types, NEW c \in Client
    PROVE  /\ Len(posted[c]) \in Nat
           /\ \A n \in 0..Len(posted[c]) : End(c, n) \in Nat
           /\ \A n \in 1..Len(posted[c]) :
                 /\ posted[c][n] \in Entry
                 /\ End(c, n) = posted[c][n].start + Length(posted[c][n])
                 /\ End(c, n) > posted[c][n].start
           /\ Total(c) = End(c, Len(posted[c])) /\ Total(c) \in Nat
<1>1. posted[c] \in Seq(Entry) /\ Len(posted[c]) \in Nat
  BY LenProperties DEF Types
<1>2. \A n \in 1..Len(posted[c]) : posted[c][n] \in Entry
  BY <1>1, ElementOfSeq
<1>3. \A n \in 1..Len(posted[c]) :
          /\ Length(posted[c][n]) \in Nat /\ Length(posted[c][n]) > 0
          /\ posted[c][n].start \in Nat
  BY <1>2, EntryLength DEF Entry
<1>4. \A n \in 1..Len(posted[c]) :
          /\ End(c, n) = posted[c][n].start + Length(posted[c][n])
          /\ End(c, n) \in Nat /\ End(c, n) > posted[c][n].start
  BY <1>1, <1>3 DEF End
<1>5. End(c, 0) = 0
  BY DEF End
<1>6. Total(c) = End(c, Len(posted[c]))
  BY <1>1 DEF Total, End
<1> QED  BY <1>1, <1>2, <1>4, <1>5, <1>6

\* In a chain the ends are in order, so that no two messages start at the same offset.
LEMMA ChainOrder ==
    ASSUME Types, Chained, NEW c \in Client,
           NEW i \in 1..Len(posted[c]), NEW j \in 1..Len(posted[c]),
           posted[c][i].start = posted[c][j].start
    PROVE  i = j
<1>1. CASE i < j
  <2>1. End(c, i) <= posted[c][j].start
    BY <1>1, EndTypes DEF Chained
  <2>2. End(c, i) > posted[c][i].start /\ End(c, i) \in Nat
    BY EndTypes
  <2>3. posted[c][i].start \in Nat
    BY EndTypes DEF Entry
  <2> QED  BY <2>1, <2>2, <2>3
<1>2. CASE j < i
  <2>1. End(c, j) <= posted[c][i].start
    BY <1>2, EndTypes DEF Chained
  <2>2. End(c, j) > posted[c][j].start /\ End(c, j) \in Nat
    BY EndTypes
  <2>3. posted[c][j].start \in Nat
    BY EndTypes DEF Entry
  <2> QED  BY <2>1, <2>2, <2>3
<1> QED  BY <1>1, <1>2, EndTypes

\* Every end is at most the total.
LEMMA EndBelowTotal ==
    ASSUME Types, Chained, NEW c \in Client, NEW i \in 1..Len(posted[c])
    PROVE  End(c, i) <= Total(c)
<1>1. CASE i = Len(posted[c])
  BY <1>1, EndTypes
<1>2. CASE i < Len(posted[c])
  <2>1. End(c, i) <= posted[c][Len(posted[c])].start
    BY <1>2, EndTypes DEF Chained
  <2>2. posted[c][Len(posted[c])].start \in Nat
        /\ End(c, Len(posted[c])) > posted[c][Len(posted[c])].start
    BY EndTypes DEF Entry
  <2>3. Total(c) = End(c, Len(posted[c])) /\ Total(c) \in Nat /\ End(c, i) \in Nat
    BY EndTypes
  <2> QED  BY <2>1, <2>2, <2>3
<1> QED  BY <1>1, <1>2, EndTypes

-----------------------------------------------------------------------------
(* The network.                                                             *)

\* A message is appended: the ends before it are what they were.
LEMMA PostFacts ==
    ASSUME Types, NEW c \in Client, NEW m \in Message, Post(c, m)
    PROVE  /\ posted' \in [Client -> Seq(Entry)]
           /\ \A d \in Client : d # c => posted'[d] = posted[d]
           /\ Len(posted'[c]) = Len(posted[c]) + 1
           /\ \A i \in 1..Len(posted[c]) : posted'[c][i] = posted[c][i]
           /\ posted'[c][Len(posted[c]) + 1] = At(m, Total(c))
           /\ Types'
<1>1. posted[c] \in Seq(Entry) /\ At(m, Total(c)) \in Entry
  BY EndTypes, MessageTypes DEF Types
<1>2. posted' = [posted EXCEPT ![c] = Append(posted[c], At(m, Total(c)))]
  BY DEF Post
<1>3. posted'[c] = Append(posted[c], At(m, Total(c)))
  BY <1>2 DEF Types
<1>4. posted' \in [Client -> Seq(Entry)]
  BY <1>1, <1>2, AppendProperties DEF Types
<1>5. \A d \in Client : d # c => posted'[d] = posted[d]
  BY <1>2 DEF Types
<1>6. Types'
  BY <1>4 DEF Types, Post, inbound, update
<1> QED  BY <1>1, <1>3, <1>4, <1>5, <1>6, AppendProperties

LEMMA PostEnds ==
    ASSUME Types, NEW c \in Client, NEW m \in Message, Post(c, m)
    PROVE  /\ \A d \in Client : \A n \in 0..Len(posted[d]) : End(d, n)' = End(d, n)
           /\ \A d \in Client : d # c => Total(d)' = Total(d)
           /\ Total(c)' = Total(c) + Length(m)
<1>0. /\ \A d \in Client : d # c => posted'[d] = posted[d]
      /\ Len(posted'[c]) = Len(posted[c]) + 1 /\ Len(posted[c]) \in Nat
      /\ \A i \in 1..Len(posted[c]) : posted'[c][i] = posted[c][i]
  BY PostFacts, EndTypes
<1>1. ASSUME NEW d \in Client, NEW n \in 0..Len(posted[d])
      PROVE  End(d, n)' = End(d, n)
  <2>1. CASE n = 0
    BY <2>1 DEF End
  <2>2. CASE n # 0
    <3>1. n \in 1..Len(posted[d])
      BY <2>2, EndTypes
    <3>2. posted'[d][n] = posted[d][n]
      BY <1>0, <3>1
    <3> QED  BY <2>2, <3>2 DEF End, Length
  <2> QED  BY <2>1, <2>2
<1>2. ASSUME NEW d \in Client, d # c
      PROVE  Total(d)' = Total(d)
  BY <1>2, PostFacts DEF Total
<1>3. Total(c)' = Total(c) + Length(m)
  <2>1. posted'[c][Len(posted'[c])] = At(m, Total(c)) /\ Len(posted'[c]) # 0
    BY <1>0, PostFacts
  <2>2. Length(At(m, Total(c))) = Length(m) /\ At(m, Total(c)).start = Total(c)
    BY EndTypes, MessageTypes
  <2> QED  BY <2>1, <2>2 DEF Total, Length
<1> QED  BY <1>1, <1>2, <1>3, EndTypes, MessageTypes

LEMMA PostStep ==
    ASSUME IInv, NEW c \in Client, NEW m \in Message, Post(c, m)
    PROVE  IInv'
<1> USE DEF IInv
<1>0. /\ \A d \in Client : d # c => posted'[d] = posted[d]
      /\ Len(posted'[c]) = Len(posted[c]) + 1
      /\ \A i \in 1..Len(posted[c]) : posted'[c][i] = posted[c][i]
      /\ posted'[c][Len(posted[c]) + 1] = At(m, Total(c))
      /\ \A d \in Client : \A n \in 0..Len(posted[d]) : End(d, n)' = End(d, n)
      /\ \A d \in Client : d # c => Total(d)' = Total(d)
      /\ Total(c)' = Total(c) + Length(m)
      /\ Length(m) \in Nat
      /\ \A d \in Client : Len(posted[d]) \in Nat
  BY PostFacts, PostEnds, EndTypes, MessageTypes
<1>00. UNCHANGED <<arrived, taken, torn, obeyed, unsent, socket, pc, call, left>>
  BY DEF Post, inbound, update
<1>1. Types'
  BY PostFacts
<1>2. Bytes'
  <2> SUFFICES ASSUME NEW d \in Client PROVE taken'[d] <= arrived'[d] /\ arrived'[d] <= Total(d)'
    BY DEF Bytes
  <2>1. taken[d] \in Nat /\ arrived[d] \in Nat /\ Total(d) \in Nat
    BY EndTypes DEF Types
  <2>2. Total(d)' = Total(d) \/ Total(d)' = Total(d) + Length(m)
    BY <1>0
  <2>3. Length(m) \in Nat
    BY <1>0
  <2>4. taken[d] <= arrived[d] /\ arrived[d] <= Total(d)
    BY DEF Bytes
  <2> QED  BY <2>1, <2>2, <2>3, <2>4, <1>00
<1>3. Chained'
  <2> SUFFICES ASSUME NEW d \in Client, NEW i \in 1..Len(posted'[d])
               PROVE  /\ posted'[d][i].start = End(d, i - 1)'
                      /\ \A j \in 1..(i - 1) : End(d, j)' <= posted'[d][i].start
    BY DEF Chained
  <2>1. CASE i \in 1..Len(posted[d])
    <3>1. posted'[d][i] = posted[d][i]
      BY <1>0, <2>1
    <3>2. i - 1 \in 0..Len(posted[d]) /\ \A j \in 1..(i - 1) : j \in 0..Len(posted[d])
      BY <1>0, <2>1
    <3>3. /\ End(d, i - 1)' = End(d, i - 1)
          /\ \A j \in 1..(i - 1) : End(d, j)' = End(d, j)
      BY <1>0, <3>2
    <3> QED  BY <2>1, <3>1, <3>3 DEF Chained
  <2>2. CASE i \notin 1..Len(posted[d])
    <3>1. d = c /\ i = Len(posted[c]) + 1 /\ i - 1 = Len(posted[c])
      BY <2>2, <1>0
    <3>2. posted'[d][i].start = Total(c)
      BY <3>1, <1>0, MessageTypes, EndTypes
    <3>3. \A j \in 0..Len(posted[c]) : End(c, j)' = End(c, j)
      BY PostEnds
    <3>4. \A j \in 1..Len(posted[c]) : End(c, j) <= Total(c)
      BY EndBelowTotal
    <3> QED  BY <3>1, <3>2, <3>3, <3>4, EndTypes
  <2> QED  BY <2>1, <2>2
<1>4. Placed' /\ Missing'
  BY DEF Post, update, Placed, Missing
<1>5. CommandsInOrder'
  <2> SUFFICES ASSUME NEW d \in Client
               PROVE  /\ Len(obeyed[d]) <= Len(posted'[d])
                      /\ \A i \in 1..Len(obeyed[d]) : obeyed[d][i] = posted'[d][i]
    BY <1>00 DEF CommandsInOrder
  <2>1. /\ Len(obeyed[d]) <= Len(posted[d])
        /\ \A i \in 1..Len(obeyed[d]) : obeyed[d][i] = posted[d][i]
    BY DEF CommandsInOrder
  <2>2. Len(obeyed[d]) \in Nat
    BY LenProperties DEF Types
  <2>3. Len(posted'[d]) >= Len(posted[d]) /\ Len(posted[d]) \in Nat
    BY <1>0
  <2>4. ASSUME NEW i \in 1..Len(obeyed[d]) PROVE posted'[d][i] = posted[d][i]
    <3>1. i \in 1..Len(posted[d])
      BY <2>1, <2>2, <2>3
    <3> QED  BY <3>1, <1>0
  <2> QED  BY <2>1, <2>2, <2>3, <2>4
<1>6. Framed'
  <2> SUFFICES ASSUME NEW d \in Client, ~torn[d]
               PROVE  /\ ~InHand(d) => taken[d] = End(d, Len(obeyed[d]))'
                      /\ InHand(d) =>
                             /\ Len(obeyed[d]) < Len(posted'[d])
                             /\ call = posted'[d][Len(obeyed[d]) + 1]
                             /\ taken[d] + left = End(d, Len(obeyed[d]) + 1)'
    BY <1>00 DEF Framed, InHand, End
  <2>1. Len(obeyed[d]) \in 0..Len(posted[d])
    <3>1. Len(obeyed[d]) \in Nat
      BY LenProperties DEF Types
    <3> QED  BY <3>1, <1>0 DEF CommandsInOrder
  <2>2. Len(posted'[d]) >= Len(posted[d])
    BY <1>0
  <2>3. End(d, Len(obeyed[d]))' = End(d, Len(obeyed[d]))
    BY <2>1, <1>0, <1>00
  <2>4. ASSUME Len(obeyed[d]) < Len(posted[d])
        PROVE  /\ posted'[d][Len(obeyed[d]) + 1] = posted[d][Len(obeyed[d]) + 1]
               /\ End(d, Len(obeyed[d]) + 1)' = End(d, Len(obeyed[d]) + 1)
    <3>1. Len(obeyed[d]) + 1 \in 1..Len(posted[d]) /\ Len(obeyed[d]) + 1 \in 0..Len(posted[d])
      BY <2>1, <2>4, <1>0
    <3> QED  BY <3>1, <1>0, <1>00
  <2> QED  BY <2>1, <2>2, <2>3, <2>4, <1>0 DEF Framed
<1> QED  BY <1>1, <1>2, <1>3, <1>4, <1>5, <1>6

\* A step that leaves the messages and what is done with them alone.
LEMMA QuietStep ==
    ASSUME IInv, UNCHANGED <<posted, taken, torn, obeyed, unsent, socket, pc, call, left>>
    PROVE  Chained' /\ Placed' /\ CommandsInOrder' /\ Framed' /\ Missing'
  BY DEF IInv, Chained, Placed, CommandsInOrder, Framed, Missing, InHand, End, Length

LEMMA NetworkStep ==
    ASSUME IInv, NEW c \in Client, Connect(c) \/ Arrive(c) \/ Leave(c)
    PROVE  IInv'
<1> USE DEF IInv
<1>1. UNCHANGED <<posted, taken, torn, obeyed, unsent, socket, pc, call, left>>
  BY DEF Connect, Arrive, Leave, inbound, update
<1>2. Chained' /\ Placed' /\ CommandsInOrder' /\ Framed' /\ Missing'
  BY <1>1, QuietStep
<1>3. \A d \in Client : Total(d)' = Total(d) /\ Total(d) \in Nat
  BY <1>1, EndTypes DEF Total, Length
<1>4. Types' /\ Bytes'
  <2>1. CASE Connect(c)
    <3>1. Types'
      BY <2>1, AppendProperties DEF Connect, Types, inbound, update
    <3> QED  BY <2>1, <3>1, <1>3 DEF Connect, Bytes, inbound
  <2>2. CASE Arrive(c)
    <3>1. PICK n \in (arrived[c] + 1)..Total(c) : arrived' = [arrived EXCEPT ![c] = n]
      BY <2>2 DEF Arrive
    <3>2. arrived[c] \in Nat /\ Total(c) \in Nat /\ taken[c] \in Nat
      BY <1>3 DEF Types
    <3>3. n \in Nat /\ n > arrived[c] /\ n <= Total(c)
      BY <3>1, <3>2
    <3>4. Types'
      BY <2>2, <3>1, <3>3 DEF Arrive, Types, inbound, update
    <3>5. Bytes'
      BY <3>1, <3>2, <3>3, <1>1, <1>3 DEF Bytes, Types
    <3> QED  BY <3>4, <3>5
  <2>3. CASE Leave(c)
    <3>1. arrived' = arrived \/ arrived' = [arrived EXCEPT ![c] = taken[c]]
      BY <2>3 DEF Leave
    <3>2. Types'
      BY <2>3, <3>1 DEF Leave, Types, inbound, update
    <3>3. arrived[c] \in Nat /\ Total(c) \in Nat /\ taken[c] \in Nat
      BY <1>3 DEF Types
    <3>4. \A d \in Client : arrived'[d] = arrived[d] \/ arrived'[d] = taken[d]
      BY <3>1 DEF Types
    <3>5. Bytes'
      <4> SUFFICES ASSUME NEW d \in Client
                   PROVE  taken[d] <= arrived'[d] /\ arrived'[d] <= Total(d)
        BY <1>1, <1>3 DEF Bytes
      <4>1. /\ taken[d] \in Nat /\ arrived[d] \in Nat /\ Total(d) \in Nat
            /\ taken[d] <= arrived[d] /\ arrived[d] <= Total(d)
        BY <1>3 DEF Bytes, Types
      <4> QED  BY <3>4, <4>1
    <3> QED  BY <3>2, <3>5
  <2> QED  BY <2>1, <2>2, <2>3
<1> QED  BY <1>2, <1>4

-----------------------------------------------------------------------------
(* Connections end.                                                         *)

\* A connection that is closed has no messages and nothing in hand; the others are as they were.
LEMMA Disconnected ==
    ASSUME IInv, NEW c \in Client, Disconnect(c), backlog' \in Seq(Client),
           socket \in {c, NoClient},
           UNCHANGED call \/ call' = NoCall, left' = 0,
           \/ pc' \in {"idle", "ended"}
           \/ pc' = "plugin" /\ call' = NoCall
    PROVE  IInv'
<1> USE DEF IInv
<1>1. /\ posted'[c] = << >> /\ arrived'[c] = 0 /\ taken'[c] = 0 /\ obeyed'[c] = << >>
      /\ unsent'[c] = 0 /\ torn'[c] = FALSE
  BY DEF Disconnect, Types
<1>2. \A d \in Client : d # c =>
          /\ posted'[d] = posted[d] /\ arrived'[d] = arrived[d] /\ taken'[d] = taken[d]
          /\ obeyed'[d] = obeyed[d] /\ unsent'[d] = unsent[d] /\ torn'[d] = torn[d]
  BY DEF Disconnect, Types
<1>3. Types'
  <2>1. posted' \in [Client -> Seq(Entry)]
    BY EmptySeq DEF Disconnect, Types
  <2>2. obeyed' \in [Client -> Seq([kind : {"action", "stream", "damaged"},
                                    value : Nat, start : Nat])]
    BY EmptySeq DEF Disconnect, Types
  <2>3. NoCall \in [kind : {"none", "action", "stream", "damaged"}, value : Nat, start : Nat]
    BY DEF NoCall
  <2> QED  BY <2>1, <2>2, <2>3 DEF Disconnect, Types
<1>4. socket' = NoClient /\ NoClient \notin Client
  BY RemoteAssumption DEF Disconnect
<1>5. \A d \in Client : d # c => socket # d
  BY <1>4
<1>6. \A d \in Client : ~InHand(d)' /\ (d # c => ~InHand(d))
  BY <1>4, <1>5 DEF InHand
<1>7. Len(posted'[c]) = 0 /\ Len(obeyed'[c]) = 0 /\ End(c, 0)' = 0 /\ Total(c)' = 0
  BY <1>1, EmptySeq DEF End, Total
<1>8. \A d \in Client : d # c => Total(d)' = Total(d) /\ \A n \in Nat : End(d, n)' = End(d, n)
  BY <1>2 DEF Total, End, Length
<1>9. Bytes'
  BY <1>1, <1>2, <1>7, <1>8 DEF Bytes
<1>10. Chained'
  <2> SUFFICES ASSUME NEW d \in Client, NEW i \in 1..Len(posted'[d])
               PROVE  /\ posted'[d][i].start = End(d, i - 1)'
                      /\ \A j \in 1..(i - 1) : End(d, j)' <= posted'[d][i].start
    BY DEF Chained
  <2>1. d # c
    BY <1>7
  <2>2. posted'[d] = posted[d] /\ Len(posted[d]) \in Nat
    BY <2>1, <1>2, EndTypes
  <2>3. i \in 1..Len(posted[d]) /\ i - 1 \in Nat
    BY <2>2
  <2>4. /\ posted[d][i].start = End(d, i - 1)
        /\ \A j \in 1..(i - 1) : End(d, j) <= posted[d][i].start
    BY <2>3 DEF Chained
  <2> QED  BY <2>1, <2>2, <2>3, <2>4, <1>8
<1>11. Placed'
  BY <1>4 DEF Placed, NoCall
<1>12. CommandsInOrder'
  <2> SUFFICES ASSUME NEW d \in Client
               PROVE  /\ Len(obeyed'[d]) <= Len(posted'[d])
                      /\ \A i \in 1..Len(obeyed'[d]) : obeyed'[d][i] = posted'[d][i]
    BY DEF CommandsInOrder
  <2> QED  BY <1>2, <1>7 DEF CommandsInOrder
<1>13. Framed'
  <2> SUFFICES ASSUME NEW d \in Client, ~torn'[d]
               PROVE  taken'[d] = End(d, Len(obeyed[d]))'
    BY <1>6 DEF Framed
  <2>1. CASE d = c
    BY <2>1, <1>1, <1>7
  <2>2. CASE d # c
    <3>1. taken[d] = End(d, Len(obeyed[d])) /\ Len(obeyed[d]) \in Nat
      BY <2>2, <1>2, <1>6, LenProperties DEF Framed, Types
    <3> QED  BY <2>2, <3>1, <1>2, <1>8
  <2> QED  BY <2>1, <2>2
<1>14. Missing'
  BY <1>1, <1>2, <1>4, <1>5 DEF Missing
<1> QED  BY <1>3, <1>9, <1>10, <1>11, <1>12, <1>13, <1>14

\* A client is accepted only while there is none; a connection that can be read is a client's.
LEMMA Accepted ==
    ASSUME Types
    PROVE  /\ updateListner \in Client \union {NoClient}
           /\ socket # NoClient => updateListner = socket
           /\ pollRead(updateListner) => updateListner \in Client
           /\ (IF updateListner = socket THEN backlog ELSE Tail(backlog)) \in Seq(Client)
<1>1. backlog # << >> => Head(backlog) \in Client /\ Tail(backlog) \in Seq(Client)
  BY HeadTailProperties DEF Types
<1>2. updateListner # socket => backlog # << >>
  BY DEF updateListner
<1> QED  BY <1>1, <1>2 DEF updateListner, pollRead, Types

-----------------------------------------------------------------------------
(* The steps of PDRemote_update.                                            *)

LEMMA IdleStep ==
    ASSUME IInv, UpdateIdle
    PROVE  IInv'
<1> USE DEF IInv
<1>1. /\ UNCHANGED <<phase, posted, arrived, taken, torn, obeyed, unsent>>
      /\ pc = "idle" /\ pc' = "plugin" /\ call' = NoCall /\ left' = 0
      /\ socket' = updateListner
  BY DEF UpdateIdle, Accept, DispatchNothing, network, inbound
<1>2. Types'
  <2>1. backlog' \in Seq(Client) /\ socket' \in Client \union {NoClient}
    BY Accepted DEF UpdateIdle, Accept
  <2>2. NoCall \in [kind : {"none", "action", "stream", "damaged"}, value : Nat, start : Nat]
    BY DEF NoCall
  <2> QED  BY <1>1, <2>1, <2>2 DEF Types
<1>3. \A d \in Client : ~InHand(d) /\ ~InHand(d)'
  BY <1>1 DEF InHand, NoCall
<1>4. \A d \in Client : Total(d)' = Total(d) /\ \A n \in Nat : End(d, n)' = End(d, n)
  BY <1>1 DEF Total, End, Length
<1>5. Bytes' /\ CommandsInOrder'
  BY <1>1, <1>4 DEF Bytes, CommandsInOrder
<1>6. Chained'
  BY <1>1 DEF Chained, End, Length
<1>7. Placed' /\ Missing'
  BY <1>1 DEF Placed, Missing, NoCall
<1>8. Framed'
  BY <1>1, <1>3 DEF Framed, End, Length
<1> QED  BY <1>2, <1>5, <1>6, <1>7, <1>8

LEMMA LostStep ==
    ASSUME IInv, UpdateLost \/ RecvLost \/ SendFails
    PROVE  IInv'
<1> USE DEF IInv
<1>1. CASE UpdateLost
  <2>1. updateListner \in Client /\ backlog' \in Seq(Client)
    BY <1>1, Accepted DEF UpdateLost
  <2>2. socket \in {updateListner, NoClient}
    BY Accepted
  <2>3. /\ Disconnect(updateListner)
        /\ call' = NoCall /\ left' = 0 /\ pc' = "plugin"
    BY <1>1 DEF UpdateLost, DispatchNothing
  <2> QED  BY <2>1, <2>2, <2>3, Disconnected
<1>2. CASE RecvLost \/ SendFails
  <2>1. socket \in Client /\ backlog' \in Seq(Client)
    BY <1>2 DEF RecvLost, SendFails, Types, Placed
  <2>2. /\ Disconnect(socket) /\ left' = 0
        /\ call' = NoCall \/ UNCHANGED call
        /\ pc' \in {"idle", "ended"}
    BY <1>2 DEF RecvLost, SendFails
  <2> QED  BY <2>1, <2>2, Disconnected
<1> QED  BY <1>1, <1>2

\* What recv returns was there, and a connection that is not torn after it was not before,
\* and gave all that was asked for.
LEMMA RecvFacts ==
    ASSUME Types, Bytes, NEW c \in Client, NEW n \in Nat, Recv(c, n)
    PROVE  /\ Waiting(c) \in Nat /\ Waiting(c) > 0
           /\ Waiting(c) = arrived[c] - taken[c]
           /\ taken'[c] \in Nat /\ taken'[c] <= arrived[c]
           /\ ~torn'[c] => ~torn[c] /\ taken'[c] = taken[c] + n /\ n <= Waiting(c)
           /\ taken' \in [Client -> Nat] /\ torn' \in [Client -> BOOLEAN]
           /\ \A d \in Client : d # c => taken'[d] = taken[d] /\ torn'[d] = torn[d]
<1>1. /\ taken[c] \in Nat /\ arrived[c] \in Nat /\ taken[c] <= arrived[c]
      /\ Waiting(c) = arrived[c] - taken[c]
  BY DEF Types, Bytes, Waiting
<1>2. PICK k \in Int : /\ k = Min2(n, Waiting(c)) /\ k > 0
                       /\ taken' = [taken EXCEPT ![c] = @ + k]
                       /\ torn' = [torn EXCEPT ![c] = @ \/ k < n]
  <2>1. Min2(n, Waiting(c)) \in Int
    BY <1>1 DEF Min2
  <2> QED  BY <2>1 DEF Recv
<1>3. k \in Nat /\ k <= n /\ k <= Waiting(c) /\ (k = n \/ k = Waiting(c))
  BY <1>1, <1>2 DEF Min2
<1>4. taken'[c] = taken[c] + k /\ taken' \in [Client -> Nat]
  <2>1. taken[c] + k \in Nat
    BY <1>1, <1>3
  <2>2. taken' = [taken EXCEPT ![c] = taken[c] + k]
    BY <1>2
  <2>3. taken \in [Client -> Nat]
    BY DEF Types
  <2> QED  BY <2>1, <2>2, <2>3
<1>5. (torn'[c] = (torn[c] \/ k < n)) /\ torn' \in [Client -> BOOLEAN]
  <2>1. torn[c] \in BOOLEAN /\ torn \in [Client -> BOOLEAN]
    BY DEF Types
  <2>2. (k < n) \in BOOLEAN
    OBVIOUS
  <2> QED  BY <1>2, <2>1, <2>2
<1>6. \A d \in Client : d # c => taken'[d] = taken[d] /\ torn'[d] = torn[d]
  BY <1>2 DEF Types
<1>7. ~torn'[c] => ~torn[c] /\ k = n
  BY <1>3, <1>5
<1> QED  BY <1>1, <1>2, <1>3, <1>4, <1>5, <1>6, <1>7

\* What is received between two messages is taken for the message that was sent next.
LEMMA NextMessage ==
    ASSUME IInv, NEW c \in Client, ~InHand(c), ~torn[c], Waiting(c) > 0,
           NEW m \in Meaning(c, HeaderSize)
    PROVE  /\ Len(obeyed[c]) \in Nat /\ Len(obeyed[c]) < Len(posted[c])
           /\ m = posted[c][Len(obeyed[c]) + 1]
           /\ taken[c] = posted[c][Len(obeyed[c]) + 1].start
<1> USE DEF IInv
<1> DEFINE n == Len(obeyed[c])
<1>1. n \in Nat /\ n <= Len(posted[c]) /\ Len(posted[c]) \in Nat
  BY LenProperties DEF Types, CommandsInOrder
<1>2. taken[c] = End(c, n)
  BY DEF Framed
<1>3. End(c, n) < End(c, Len(posted[c]))
  BY <1>1, <1>2, EndTypes DEF Types, Bytes, Waiting
<1>4. n < Len(posted[c]) /\ n + 1 \in 1..Len(posted[c]) /\ (n + 1) - 1 = n
  BY <1>1, <1>3, EndTypes
<1>5. posted[c][n + 1].start = taken[c]
  BY <1>2, <1>4 DEF Chained
<1>6. DOMAIN posted[c] = 1..Len(posted[c])
  BY LenProperties DEF Types
<1>7. PICK i \in 1..Len(posted[c]) : m = posted[c][i] /\ posted[c][i].start = taken[c]
  BY <1>4, <1>5, <1>6 DEF Meaning
<1>8. i = n + 1
  BY <1>4, <1>5, <1>7, ChainOrder
<1> QED  BY <1>1, <1>4, <1>5, <1>7, <1>8

\* A command is one of the kinds a client sends, whatever its bytes are.
LEMMA MeaningTypes ==
    ASSUME Types, NEW c \in Client, NEW k, NEW m \in Meaning(c, k)
    PROVE  m \in Entry
<1>1. \A i \in DOMAIN posted[c] : posted[c][i] \in Entry
  BY EndTypes, LenProperties DEF Types
<1>2. taken[c] \in Nat
  BY DEF Types
<1>3. \A e \in Message : At(e, taken[c]) \in Entry
  BY <1>2, MessageTypes
<1> QED  BY <1>1, <1>3 DEF Meaning

LEMMA CommandStep ==
    ASSUME IInv, UpdateCommand
    PROVE  IInv'
<1> USE DEF IInv
<1>1. PICK c \in Client :
          /\ c = updateListner /\ socket' = c
          /\ backlog' \in Seq(Client)
          /\ Recv(c, HeaderSize)
          /\ \E m \in Meaning(c, Min2(HeaderSize, Waiting(c))) : Dispatch(m)
  BY Accepted DEF UpdateCommand, Accept
<1>2. PICK m \in Meaning(c, Min2(HeaderSize, Waiting(c))) : Dispatch(m)
  BY <1>1
<1>3. UNCHANGED <<phase, posted, arrived, obeyed, unsent>> /\ pc = "idle"
  BY DEF UpdateCommand, network
<1>4. HeaderSize \in Nat /\ HeaderSize > 0 /\ c # NoClient
  BY RemoteAssumption
<1>5. /\ Waiting(c) \in Nat /\ Waiting(c) > 0
      /\ taken'[c] \in Nat /\ taken'[c] <= arrived[c]
      /\ ~torn'[c] => ~torn[c] /\ taken'[c] = taken[c] + HeaderSize /\ HeaderSize <= Waiting(c)
      /\ taken' \in [Client -> Nat] /\ torn' \in [Client -> BOOLEAN]
      /\ \A d \in Client : d # c => taken'[d] = taken[d] /\ torn'[d] = torn[d]
  BY <1>1, <1>4, RecvFacts
<1>6. m \in Entry
  BY MeaningTypes
<1>7. /\ call' = m /\ call'.kind # "none"
      /\ left' = (IF m.kind = "stream" THEN m.value ELSE 0) /\ left' \in Nat
      /\ pc' = IF left' = 0 THEN "plugin" ELSE "stream"
  BY <1>2, <1>6 DEF Dispatch, StreamLeft, Entry
<1>8. Types'
  <2>1. call' \in [kind : {"none", "action", "stream", "damaged"}, value : Nat, start : Nat]
    BY <1>6, <1>7 DEF Entry
  <2> QED  BY <1>1, <1>3, <1>5, <1>7, <2>1 DEF Types
<1>9. \A d \in Client : Total(d)' = Total(d) /\ \A n \in Nat : End(d, n)' = End(d, n)
  BY <1>3 DEF Total, End, Length
<1>10. Bytes'
  BY <1>3, <1>5, <1>9 DEF Bytes
<1>11. Chained' /\ CommandsInOrder'
  BY <1>3 DEF Chained, CommandsInOrder, End, Length
<1>12. Placed'
  BY <1>1, <1>4, <1>7 DEF Placed
<1>13. Missing'
  BY <1>3, <1>7 DEF Missing
<1>14. Framed'
  <2>1. \A d \in Client : ~InHand(d) /\ (InHand(d)' <=> d = c)
    BY <1>1, <1>3, <1>7 DEF InHand
  <2> SUFFICES ASSUME NEW d \in Client, ~torn'[d]
               PROVE  /\ d # c => taken'[d] = End(d, Len(obeyed[d]))'
                      /\ d = c =>
                             /\ Len(obeyed[d]) < Len(posted[d])
                             /\ call' = posted[d][Len(obeyed[d]) + 1]
                             /\ taken'[d] + left' = End(d, Len(obeyed[d]) + 1)'
    BY <1>3, <2>1 DEF Framed
  <2>2. CASE d # c
    <3>1. taken[d] = End(d, Len(obeyed[d])) /\ Len(obeyed[d]) \in Nat
      BY <1>5, <2>1, <2>2, LenProperties DEF Framed, Types
    <3> QED  BY <1>3, <1>5, <1>9, <2>2, <3>1
  <2>3. CASE d = c
    <3>1. ~torn[c] /\ taken'[c] = taken[c] + HeaderSize /\ Min2(HeaderSize, Waiting(c)) = HeaderSize
      BY <1>4, <1>5, <2>3 DEF Min2
    <3>2. /\ Len(obeyed[c]) \in Nat /\ Len(obeyed[c]) < Len(posted[c])
          /\ m = posted[c][Len(obeyed[c]) + 1]
          /\ taken[c] = posted[c][Len(obeyed[c]) + 1].start
      BY <1>5, <2>1, <3>1, NextMessage
    <3>3. taken'[c] + left' = m.start + Length(m)
      BY <1>4, <1>6, <1>7, <3>1, <3>2 DEF Length, Entry
    <3>4. Len(obeyed[c]) + 1 \in 1..Len(posted[c])
      BY <3>2, EndTypes
    <3>5. End(c, Len(obeyed[c]) + 1) = m.start + Length(m)
      BY <3>2, <3>4, EndTypes
    <3> QED  BY <1>3, <1>7, <1>9, <2>3, <3>2, <3>3, <3>5
  <2> QED  BY <2>2, <2>3
<1> QED  BY <1>8, <1>10, <1>11, <1>12, <1>13, <1>14

LEMMA BlockStep ==
    ASSUME IInv, RecvBlock
    PROVE  IInv'
<1> USE DEF IInv
<1> DEFINE c == socket
           block == Min2(left, BlockSize)
<1>1. c \in Client /\ left \in Nat /\ left > 0 /\ call.kind # "none" /\ pc = "stream"
  BY DEF RecvBlock, Types, Placed
<1>2. block \in Nat /\ block > 0 /\ block <= left
  BY <1>1, RemoteAssumption DEF Min2
<1>3. Recv(c, block)
  BY DEF RecvBlock
<1>4. /\ Waiting(c) \in Nat /\ Waiting(c) > 0
      /\ taken'[c] \in Nat /\ taken'[c] <= arrived[c]
      /\ ~torn'[c] => ~torn[c] /\ taken'[c] = taken[c] + block /\ block <= Waiting(c)
      /\ taken' \in [Client -> Nat] /\ torn' \in [Client -> BOOLEAN]
      /\ \A d \in Client : d # c => taken'[d] = taken[d] /\ torn'[d] = torn[d]
  BY <1>1, <1>2, <1>3, RecvFacts
<1>5. /\ left' = left - block /\ left' \in Nat
      /\ pc' = IF left' = 0 THEN "plugin" ELSE "stream"
      /\ call' = IF Waiting(c) < block THEN [call EXCEPT !.kind = "damaged"] ELSE call
      /\ UNCHANGED <<phase, posted, arrived, backlog, socket, obeyed, unsent>>
  BY <1>1, <1>2 DEF RecvBlock, network
<1>6. call' \in [kind : {"none", "action", "stream", "damaged"}, value : Nat, start : Nat]
      /\ call'.kind # "none"
  BY <1>1, <1>5 DEF Types
<1>7. Types'
  BY <1>4, <1>5, <1>6 DEF Types
<1>8. \A d \in Client : Total(d)' = Total(d) /\ \A n \in Nat : End(d, n)' = End(d, n)
  BY <1>5 DEF Total, End, Length
<1>9. Bytes'
  BY <1>4, <1>5, <1>8 DEF Bytes
<1>10. Chained' /\ CommandsInOrder'
  BY <1>5 DEF Chained, CommandsInOrder, End, Length
<1>11. Placed'
  BY <1>1, <1>5, <1>6, RemoteAssumption DEF Placed
<1>12. Missing'
  BY <1>1, <1>5 DEF Missing
<1>13. Framed'
  <2>1. \A d \in Client : (InHand(d) <=> d = c) /\ (InHand(d)' <=> d = c)
    BY <1>1, <1>5, <1>6 DEF InHand
  <2> SUFFICES ASSUME NEW d \in Client, ~torn'[d]
               PROVE  /\ d # c => taken'[d] = End(d, Len(obeyed[d]))'
                      /\ d = c =>
                             /\ Len(obeyed[d]) < Len(posted[d])
                             /\ call' = posted[d][Len(obeyed[d]) + 1]
                             /\ taken'[d] + left' = End(d, Len(obeyed[d]) + 1)'
    BY <1>5, <2>1 DEF Framed
  <2>2. Len(obeyed[d]) \in Nat
    BY LenProperties DEF Types
  <2>3. CASE d # c
    <3>1. taken[d] = End(d, Len(obeyed[d]))
      BY <1>4, <2>1, <2>3 DEF Framed
    <3> QED  BY <1>4, <1>5, <1>8, <2>2, <2>3, <3>1
  <2>4. CASE d = c
    <3>1. /\ Len(obeyed[d]) < Len(posted[d])
          /\ call = posted[d][Len(obeyed[d]) + 1]
          /\ taken[d] + left = End(d, Len(obeyed[d]) + 1)
      BY <1>4, <2>1, <2>4 DEF Framed
    <3>2. taken'[d] = taken[d] + block /\ call' = call
      BY <1>2, <1>4, <1>5, <2>4
    <3>3. taken'[d] + left' = taken[d] + left
      <4>1. taken[d] \in Nat
        BY DEF Types
      <4>2. \A x, y, z \in Nat : (x + y) + (z - y) = x + z
        OBVIOUS
      <4>3. taken'[d] + left' = (taken[d] + block) + (left - block)
        BY <1>5, <3>2
      <4> QED  BY <1>1, <1>2, <4>1, <4>2, <4>3
    <3> QED  BY <1>5, <1>8, <2>2, <2>4, <3>1, <3>2, <3>3
  <2> QED  BY <2>3, <2>4
<1> QED  BY <1>7, <1>9, <1>10, <1>11, <1>12, <1>13

LEMMA PluginStep ==
    ASSUME IInv, NEW n \in ReplySize \union {0}, PluginUpdate(n)
    PROVE  IInv'
<1> USE DEF IInv
<1>1. /\ n \in Nat /\ pc = "plugin" /\ left = 0 /\ call' = NoCall /\ pc' \in {"idle", "send"}
      /\ UNCHANGED <<phase, posted, arrived, taken, torn, backlog, socket>>
      /\ obeyed' = Called
  BY RemoteAssumption DEF PluginUpdate, Placed, network
<1>2. \/ /\ n > 0 /\ socket \in Client
         /\ unsent' = [unsent EXCEPT ![socket] = n] /\ left' = n /\ pc' = "send"
      \/ UNCHANGED <<unsent, left>> /\ pc' = "idle"
  BY DEF PluginUpdate, Types
<1>3. \A d \in Client : /\ Len(obeyed[d]) \in Nat /\ Len(posted[d]) \in Nat
                        /\ Len(obeyed[d]) <= Len(posted[d])
                        /\ \A i \in 1..Len(obeyed[d]) : obeyed[d][i] = posted[d][i]
  BY LenProperties DEF Types, CommandsInOrder
\* What is recorded of the call, for each client.
<1>4. ASSUME NEW d \in Client
      PROVE  \/ /\ obeyed'[d] = obeyed[d]
                /\ ~torn[d] => ~InHand(d)
             \/ /\ obeyed'[d] = Append(obeyed[d], call)
                /\ ~torn[d] /\ InHand(d)
  <2>1. CASE d = socket /\ call.kind # "none" /\ ~torn[socket]
    BY <1>1, <2>1 DEF Called, Types, InHand
  <2>2. CASE ~(d = socket /\ call.kind # "none" /\ ~torn[socket])
    <3>1. obeyed'[d] = obeyed[d]
      BY <1>1, <2>2 DEF Called, Types
    <3> QED  BY <2>2, <3>1 DEF InHand
  <2> QED  BY <2>1, <2>2
<1>5. obeyed' \in [Client -> Seq([kind : {"action", "stream", "damaged"},
                                  value : Nat, start : Nat])]
  <2>1. CASE call.kind = "none" \/ torn[socket]
    BY <1>1, <2>1 DEF Called, Types
  <2>2. CASE ~(call.kind = "none" \/ torn[socket])
    <3>1. socket \in Client
      BY <1>1, <2>2 DEF Placed, Types
    <3>2. call \in [kind : {"action", "stream", "damaged"}, value : Nat, start : Nat]
      BY <2>2 DEF Types
    <3>3. obeyed' = [obeyed EXCEPT ![socket] = Append(obeyed[socket], call)]
      BY <1>1, <2>2 DEF Called
    <3>4. Append(obeyed[socket], call)
              \in Seq([kind : {"action", "stream", "damaged"}, value : Nat, start : Nat])
      BY <3>1, <3>2, AppendProperties DEF Types
    <3> QED  BY <3>3, <3>4 DEF Types
  <2> QED  BY <2>1, <2>2
<1>6. Types'
  <2>1. NoCall \in [kind : {"none", "action", "stream", "damaged"}, value : Nat, start : Nat]
    BY DEF NoCall
  <2>2. left' \in Nat /\ unsent' \in [Client -> Nat]
    BY <1>1, <1>2 DEF Types
  <2> QED  BY <1>1, <1>5, <2>1, <2>2 DEF Types
<1>7. \A d \in Client : ~InHand(d)'
  BY <1>1 DEF InHand, NoCall
<1>8. \A d \in Client : Total(d)' = Total(d) /\ \A i \in Nat : End(d, i)' = End(d, i)
  BY <1>1 DEF Total, End, Length
<1>9. Bytes' /\ Chained'
  BY <1>1, <1>8 DEF Bytes, Chained, End, Length
<1>10. Placed'
  BY <1>1, <1>2, RemoteAssumption DEF Placed, NoCall
<1>11. Missing'
  <2>1. \A d \in Client : unsent[d] = 0
    BY <1>1 DEF Missing
  <2> QED  BY <1>1, <1>2, <2>1 DEF Missing, Types
\* A call in hand is the next message of its client, and no byte of it is left.
<1>12. ASSUME NEW d \in Client, ~torn[d], InHand(d)
       PROVE  /\ Len(obeyed[d]) < Len(posted[d])
              /\ call = posted[d][Len(obeyed[d]) + 1]
              /\ taken[d] = End(d, Len(obeyed[d]) + 1)
  BY <1>1, <1>12 DEF Framed, Types
<1>13. CommandsInOrder'
  <2> SUFFICES ASSUME NEW d \in Client
               PROVE  /\ Len(obeyed'[d]) <= Len(posted[d])
                      /\ \A i \in 1..Len(obeyed'[d]) : obeyed'[d][i] = posted[d][i]
    BY <1>1 DEF CommandsInOrder
  <2>1. CASE obeyed'[d] = obeyed[d]
    BY <1>3, <2>1
  <2>2. CASE obeyed'[d] = Append(obeyed[d], call) /\ ~torn[d] /\ InHand(d)
    <3>1. /\ Len(obeyed'[d]) = Len(obeyed[d]) + 1
          /\ obeyed'[d][Len(obeyed[d]) + 1] = call
          /\ \A i \in 1..Len(obeyed[d]) : obeyed'[d][i] = obeyed[d][i]
      BY <2>2, <1>3, AppendProperties DEF Types
    <3>2. \A i \in 1..(Len(obeyed[d]) + 1) : i \in 1..Len(obeyed[d]) \/ i = Len(obeyed[d]) + 1
      BY <1>3
    <3> QED  BY <1>3, <1>12, <2>2, <3>1, <3>2
  <2> QED  BY <1>4, <2>1, <2>2
<1>14. Framed'
  <2>1. ASSUME NEW d \in Client, ~torn[d]
        PROVE  taken[d] = End(d, Len(obeyed'[d]))
    <3>1. CASE obeyed'[d] = obeyed[d] /\ ~InHand(d)
      BY <2>1, <3>1 DEF Framed
    <3>2. CASE obeyed'[d] = Append(obeyed[d], call) /\ InHand(d)
      <4>1. Len(obeyed'[d]) = Len(obeyed[d]) + 1
        BY <1>3, <3>2, AppendProperties DEF Types
      <4> QED  BY <1>12, <2>1, <3>2, <4>1
    <3> QED  BY <1>4, <2>1, <3>1, <3>2
  <2>2. ASSUME NEW d \in Client
        PROVE  End(d, Len(obeyed'[d])) = End(d, Len(obeyed[d]))'
    BY <1>1 DEF End, Length
  <2> QED  BY <1>1, <1>7, <2>1, <2>2 DEF Framed
<1> QED  BY <1>6, <1>9, <1>10, <1>11, <1>13, <1>14

LEMMA SendStep ==
    ASSUME IInv, SendBlock
    PROVE  IInv'
<1> USE DEF IInv
<1> DEFINE block == Min2(left, BlockSize)
<1>1. socket \in Client /\ left \in Nat /\ left > 0 /\ pc = "send"
  BY DEF SendBlock, Types, Placed
<1>2. block \in Nat /\ block > 0 /\ block <= left
  BY <1>1, RemoteAssumption DEF Min2
<1>3. /\ left' = left - block /\ left' \in Nat
      /\ pc' = IF left' = 0 THEN "idle" ELSE "send"
      /\ unsent' = [unsent EXCEPT ![socket] = @ - block]
      /\ UNCHANGED <<phase, posted, arrived, taken, torn, obeyed, backlog, socket, call>>
  BY <1>1, <1>2 DEF SendBlock, network, inbound
<1>4. unsent[socket] = left /\ unsent' = [unsent EXCEPT ![socket] = left']
  <2>1. unsent[socket] = left
    BY <1>1 DEF Missing
  <2> QED  BY <1>3, <2>1
<1>5. Types'
  BY <1>3, <1>4 DEF Types
<1>6. Bytes' /\ Chained' /\ CommandsInOrder'
  BY <1>3 DEF Bytes, Chained, CommandsInOrder, Total, End, Length
<1>7. Placed'
  BY <1>1, <1>3, RemoteAssumption DEF Placed
<1>8. Framed'
  BY <1>1, <1>3 DEF Framed, InHand, End, Length
<1>9. Missing'
  BY <1>1, <1>3, <1>4 DEF Missing, Types
<1> QED  BY <1>5, <1>6, <1>7, <1>8, <1>9

-----------------------------------------------------------------------------
(* The theorems.                                                            *)

LEMMA InitIInv == Init => IInv
<1> SUFFICES ASSUME Init PROVE IInv
  OBVIOUS
<1>1. NoCall \in [kind : {"none", "action", "stream", "damaged"}, value : Nat, start : Nat]
  BY DEF NoCall
<1>2. Types
  BY <1>1, EmptySeq DEF Init, Types
<1>3. \A c \in Client : Len(posted[c]) = 0 /\ Len(obeyed[c]) = 0 /\ Total(c) = 0 /\ End(c, 0) = 0
  BY EmptySeq DEF Init, Total, End
<1>4. Bytes /\ Chained
  BY <1>3 DEF Init, Bytes, Chained
<1>5. Placed /\ Missing
  BY DEF Init, Placed, Missing
<1>6. CommandsInOrder /\ Framed
  BY <1>3 DEF Init, CommandsInOrder, Framed, InHand
<1> QED  BY <1>2, <1>4, <1>5, <1>6 DEF IInv

LEMMA NextIInv == IInv /\ [Next]_vars => IInv'
<1> SUFFICES ASSUME IInv, [Next]_vars PROVE IInv'
  OBVIOUS
<1>1. CASE Network
  BY <1>1, PostStep, NetworkStep DEF Network
<1>2. CASE BeginUpdate
  BY <1>2, IdleStep, LostStep, CommandStep DEF BeginUpdate
<1>3. CASE Transfer
  BY <1>3, BlockStep, LostStep, SendStep DEF Transfer
<1>4. CASE \E n \in ReplySize \union {0} : PluginUpdate(n)
  BY <1>4, PluginStep
<1>5. CASE UNCHANGED vars
  BY <1>5 DEF vars, network, inbound, update, IInv, Types, Bytes, Chained, Placed,
              CommandsInOrder, Framed, Missing, InHand, End, Total, Length
<1> QED  BY <1>1, <1>2, <1>3, <1>4, <1>5 DEF Next

\* The invariant that the theorems below follow from: what is taken from a connection that is
\* not torn ends where a message that the plugin was called with ends.
THEOREM Invariance == Spec => []IInv
  BY InitIInv, NextIInv, PTL DEF Spec

\* recv never returns bytes that have not come, and each variable of the update has the values
\* that PDRemote_update gives it.
THEOREM TypeCorrect == Spec => []TypeOK
<1>1. IInv => TypeOK
  BY DEF IInv, Types, Bytes, TypeOK, Entry
<1> QED  BY <1>1, Invariance, PTL

\* Whatever the sizes of messages and blocks and whenever clients go: what the plugin is
\* called with is what its client sent, while no recv on the connection came back short.
THEOREM CallsInOrder == Spec => []CommandsInOrder
<1>1. IInv => CommandsInOrder
  BY DEF IInv
<1> QED  BY <1>1, Invariance, PTL

\* A stream only begins where the one before it to this client went out whole: a send that
\* fails closes the connection.
THEOREM CutReplyIsLast == Spec => NothingAfterCutReply
<1>1. IInv /\ [Next]_vars => [pc # "send" /\ pc' = "send" => unsent[socket] = 0]_vars
  <2> SUFFICES ASSUME IInv, Next, pc # "send", pc' = "send" PROVE unsent[socket] = 0
    OBVIOUS
  <2>1. PICK n \in ReplySize \union {0} : PluginUpdate(n)
    BY DEF Next, Network, Connect, Post, Arrive, Leave, update, BeginUpdate, UpdateIdle,
           UpdateLost, UpdateCommand, DispatchNothing, Dispatch, Transfer, RecvBlock, RecvLost,
           SendBlock, SendFails
  <2>2. socket \in Client
    BY <2>1 DEF PluginUpdate, IInv, Types
  <2> QED  BY <2>2 DEF IInv, Missing
<1> QED  BY <1>1, Invariance, PTL DEF Spec, NothingAfterCutReply
=============================================================================
