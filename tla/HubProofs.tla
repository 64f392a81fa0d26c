----------------------------- MODULE HubProofs -----------------------------
(***************************************************************************)
(* The safety properties of module Hub, for any replicas, connections,     *)
(* rooms, callers, buffer size and number of messages, with or without a   *)
(* backplane.                                                              *)
(***************************************************************************)
EXTENDS Hub, SequenceTheorems, TLAPS

Asks == {[to |-> "all"], [to |-> "conn"]} \cup [to : {"room"}, room : Rooms]
Envelopes == [room : Rooms \cup {Everyone}, msg : Msgs]
Ops == {Idle} \cup [kind : {"join", "leave"}, conn : Conns, room : Rooms]
Pendings == {Sent} \cup [hub : Hubs, room : Rooms \cup {Everyone}, left : 1..MaxResend]

Types ==
    /\ mode \in Modes
    /\ conns \subseteq Conns
    /\ rooms \in [Rooms -> SUBSET Conns]
    /\ crooms \in [Conns -> SUBSET Rooms]
    /\ closed \in [Conns -> BOOLEAN]
    /\ send \in [Conns -> Seq(Msgs)]
    /\ hpc \in [Conns -> HandlerStates]
    /\ wpc \in [Conns -> PumpStates]
    /\ out \in [Conns -> 0..MaxMsg]
    /\ peer \in [Conns -> {"up", "stalled", "down"}]
    /\ closing \subseteq Conns
    /\ op \in [Roomers -> Ops]
    /\ mixed \subseteq Conns
    /\ cast \in [Casters -> [msg : 0..MaxMsg, targets : SUBSET Conns]]
    /\ net \in [Hubs -> Seq(Envelopes)]
    /\ last \in [Callers -> Pendings]
    /\ live \subseteq Hubs
    /\ asked \in Seq(Asks) /\ Len(asked) <= MaxMsg
    /\ due \in Seq(SUBSET Conns) /\ Len(due) = Len(asked)
    /\ got \in [Conns -> Seq(Msgs)]

\* The buffer of a connection never overflows, the write pump holds a message exactly
\* while it writes, and who fans out has one.
BufferInv ==
    /\ \A c \in Conns : Len(send[c]) <= SendBuf
    /\ \A c \in Conns : wpc[c] = "write" => out[c] # 0
    /\ \A g \in Casters : cast[g].targets # {} => cast[g].msg # 0

BeforeUnregister == {"none", "connect", "registered", "read", "leaving"}

\* Unless they ran into one another, one Join or Leave at most is under way, which has
\* changed Conn.rooms and not yet Hub.rooms; none outlives unregister or follows it.
RoomsOf(c) ==
    c \notin mixed =>
      /\ \A g, k \in Roaming(c) : g = k
      /\ hpc[c] \in BeforeUnregister =>
           /\ Roaming(c) = {} => Member(c) = crooms[c]
           /\ \A g \in Roaming(c) :
                 crooms[c] = IF op[g].kind = "join" THEN Member(c) \cup {op[g].room}
                                                    ELSE Member(c) \ {op[g].room}
      /\ hpc[c] \in {"close", "wait", "gone"} =>
           Roaming(c) = {} /\ Member(c) = {} /\ c \notin conns
RoomInv == \A c \in Conns : RoomsOf(c)

-----------------------------------------------------------------------------
\* A message that went through the backplane.
Pub(m) == asked[m].to # "conn"

\* Of the messages of s, those of the backplane are in order.
InOrder(s) == \A i, j \in 1..Len(s) : i < j /\ Pub(s[i]) /\ Pub(s[j]) => s[i] < s[j]

\* All messages are ones that were sent: those of a connection, and those not yet there.
SentTo(c) ==
    /\ \A i \in 1..Len(send[c]) : send[c][i] <= Len(asked)
    /\ \A i \in 1..Len(got[c]) : got[c][i] <= Len(asked)
    /\ out[c] <= Len(asked)
SentInv ==
    /\ \A c \in Conns : SentTo(c)
    /\ \A g \in Casters : cast[g].msg <= Len(asked)
    /\ \A h \in Hubs : \A i \in 1..Len(net[h]) : net[h][i].msg <= Len(asked)

\* The messages before the connection's client: written, being written, waiting.
Reached(c, m) ==
    \/ \E i \in 1..Len(got[c]) : got[c][i] = m
    \/ out[c] = m /\ m # 0
    \/ \E i \in 1..Len(send[c]) : send[c][i] = m

\* The envelopes on their way to a hub are in order, and behind the one it fans out to its
\* own connections.  Callers fan out nothing that went through the backplane.
WireInv ==
    /\ \A h \in Hubs : /\ \A i, j \in 1..Len(net[h]) : i < j => net[h][i].msg < net[h][j].msg
                       /\ \A i \in 1..Len(net[h]) : cast[h].msg < net[h][i].msg
                       /\ \A c \in cast[h].targets : Home[c] = h
    /\ \A g \in Callers : cast[g].msg # 0 => ~Pub(cast[g].msg)

\* What reached a connection is older than what is on its way to it.
PipeTo(c) ==
    \A m \in Msgs : Reached(c, m) /\ Pub(m) =>
        /\ \A i \in 1..Len(net[Home[c]]) : m < net[Home[c]][i].msg
        /\ cast[Home[c]].msg # 0 => m <= cast[Home[c]].msg
        /\ c \in cast[Home[c]].targets => m < cast[Home[c]].msg
PipeInv == \A c \in Conns : PipeTo(c)

\* And it is in order.
ClientOf(c) ==
    /\ InOrder(got[c]) /\ InOrder(send[c])
    /\ \A i \in 1..Len(got[c]), j \in 1..Len(send[c]) :
          Pub(got[c][i]) /\ Pub(send[c][j]) => got[c][i] < send[c][j]
    /\ out[c] # 0 /\ Pub(out[c]) =>
          /\ \A i \in 1..Len(got[c]) : Pub(got[c][i]) => got[c][i] < out[c]
          /\ \A j \in 1..Len(send[c]) : Pub(send[c][j]) => out[c] < send[c][j]
ClientInv == \A c \in Conns : ClientOf(c)

IInv ==
    /\ Types /\ BufferInv /\ RoomInv /\ SentInv
    /\ mode = "ok" => WireInv /\ PipeInv /\ ClientInv

-----------------------------------------------------------------------------
(* Sequences. *)

\* The oldest element of a sequence, and the rest, one place further to the front.
LEMMA TailAt ==
    ASSUME NEW S, NEW s \in Seq(S), s # << >>
    PROVE  /\ Tail(s) \in Seq(S) /\ Head(s) \in S /\ Head(s) = s[1]
           /\ Len(s) \in Nat /\ Len(s) >= 1 /\ Len(Tail(s)) = Len(s) - 1
           /\ \A i \in 1..Len(Tail(s)) : Tail(s)[i] = s[i + 1] /\ i + 1 \in 1..Len(s)
OBVIOUS

\* A sequence and one element more.
LEMMA AppendAt ==
    ASSUME NEW S, NEW s \in Seq(S), NEW x \in S
    PROVE  /\ Append(s, x) \in Seq(S) /\ Len(s) \in Nat /\ Len(Append(s, x)) = Len(s) + 1
           /\ \A i \in 1..Len(s) : Append(s, x)[i] = s[i]
           /\ Append(s, x)[Len(s) + 1] = x
           /\ \A i \in 1..Len(Append(s, x)) : i \in 1..Len(s) \/ i = Len(s) + 1
OBVIOUS

-----------------------------------------------------------------------------
(* Steps that leave a part of the state alone. *)

OrderInv == WireInv /\ PipeInv /\ ClientInv

\* A connection whose messages do not move keeps them in order.
LEMMA LineStays ==
    ASSUME NEW c \in Conns, UNCHANGED asked,
           send'[c] = send[c], got'[c] = got[c], out'[c] = out[c]
    PROVE  /\ SentTo(c) => SentTo(c)'
           /\ ClientOf(c) => ClientOf(c)'
           /\ UNCHANGED <<cast, net>> /\ PipeTo(c) => PipeTo(c)'
<1>1. SentTo(c) => SentTo(c)'
  BY DEF SentTo
<1>2. ClientOf(c) => ClientOf(c)'
  BY DEF ClientOf, InOrder, Pub
<1>3. UNCHANGED <<cast, net>> /\ PipeTo(c) => PipeTo(c)'
  BY DEF PipeTo, Pub, Reached
<1> QED
  BY <1>1, <1>2, <1>3

\* When no message moves, all stay in order.
LEMMA MessagesStay ==
    ASSUME SentInv, UNCHANGED <<cast, net, asked, send, out, got>>
    PROVE  SentInv' /\ (OrderInv => OrderInv')
<1>1. SentInv'
  BY LineStays DEF SentInv
<1>2. WireInv => WireInv'
  BY DEF WireInv, Pub
<1>3. (PipeInv => PipeInv') /\ (ClientInv => ClientInv')
  BY LineStays DEF PipeInv, ClientInv
<1> QED
  BY <1>1, <1>2, <1>3 DEF OrderInv

\* Connections that do not move keep their rooms.
LEMMA RoomsStay ==
    ASSUME RoomInv, UNCHANGED <<conns, rooms, crooms, mixed, op, hpc>>
    PROVE  RoomInv'
BY DEF RoomInv, RoomsOf, Member, Roaming

-----------------------------------------------------------------------------
(* The handler. *)

Handling(c) ==
    \/ Upgrade(c) \/ Reject(c) \/ register(c) \/ StartPumps(c) \/ ReadErr(c) \/ unregister(c)
    \/ HandlerClose(c) \/ HandlerReturns(c) \/ Panic(c)

\* The handler moves no message.  It unregisters the connection from its rooms; a Join or
\* Leave that is under way then counts as mixed.
LEMMA HandlerKeeps ==
    ASSUME IInv, NEW c \in Conns, Handling(c)
    PROVE  IInv'
<1>1. /\ UNCHANGED <<crooms, send, closing, out, got, peer, op>>
      /\ UNCHANGED <<mode, cast, net, last, live, asked, due>>
  BY DEF Handling, Upgrade, Reject, register, StartPumps, ReadErr, unregister, HandlerClose,
    HandlerReturns, Panic, HandlerStep, wire
<1>2. SentInv' /\ (OrderInv => OrderInv')
  BY <1>1, MessagesStay DEF IInv
<1>3. Types /\ RoomInv
  BY DEF IInv
<1>4. Types'
  <2>2. /\ conns' \in {conns, conns \ {c}, conns \cup {c}}
        /\ rooms' = [r \in Rooms |-> rooms[r] \ {c}] \/ rooms' = rooms
        /\ \E s \in HandlerStates : hpc' = [hpc EXCEPT ![c] = s]
        /\ closed' = [closed EXCEPT ![c] = TRUE] \/ closed' = closed
        /\ wpc' = [wpc EXCEPT ![c] = "run"] \/ wpc' = wpc
        /\ mixed' \in {mixed, mixed \cup {c}}
    BY DEF HandlerStates, Handling, Upgrade, Reject, register, StartPumps, ReadErr,
      unregister, HandlerClose, HandlerReturns, Panic, HandlerStep
  <2>3. hpc' \in [Conns -> HandlerStates] /\ conns' \subseteq Conns /\ mixed' \subseteq Conns
    BY <1>3, <2>2 DEF Types
  <2>4. rooms' \in [Rooms -> SUBSET Conns]
    <3>1. CASE rooms' = rooms
      BY <1>3, <3>1 DEF Types
    <3>2. CASE rooms' = [r \in Rooms |-> rooms[r] \ {c}]
      <4>1. \A r \in Rooms : rooms[r] \ {c} \in SUBSET Conns
        BY <1>3 DEF Types
      <4> QED
        BY <3>2, <4>1
    <3> QED
      BY <2>2, <3>1, <3>2
  <2>5. closed' \in [Conns -> BOOLEAN] /\ wpc' \in [Conns -> PumpStates]
    <3>1. closed' \in [Conns -> BOOLEAN]
      BY <1>3, <2>2 DEF Types
    <3>2. wpc' \in [Conns -> PumpStates]
      BY <1>3, <2>2 DEF Types, PumpStates
    <3> QED
      BY <3>1, <3>2
  <2> QED
    BY <1>1, <1>3, <2>3, <2>4, <2>5 DEF Types
<1>5. BufferInv'
  BY <1>1 DEF IInv, Types, BufferInv, Handling, Upgrade, Reject, register, StartPumps, ReadErr,
    unregister, HandlerClose, HandlerReturns, Panic, HandlerStep
<1>6. RoomInv'
  <2>1. \A d \in Conns : Roaming(d)' = Roaming(d)
    BY <1>1 DEF Roaming
  <2>2. /\ \/ conns' = conns \ {c} \/ conns' = conns \cup {c} \/ conns' = conns
        /\ \/ rooms' = [r \in Rooms |-> rooms[r] \ {c}] \/ rooms' = rooms
        /\ \E s \in HandlerStates : hpc' = [hpc EXCEPT ![c] = s]
        /\ mixed' = mixed \/ mixed' = mixed \cup {c}
    BY DEF Handling, Upgrade, Reject, register, StartPumps, ReadErr,
      unregister, HandlerClose, HandlerReturns, Panic, HandlerStep, HandlerStates
  <2>3. ASSUME NEW d \in Conns, d # c PROVE RoomsOf(d)'
    <3>1. /\ Member(d)' = Member(d) /\ hpc'[d] = hpc[d] /\ (d \in conns' <=> d \in conns)
          /\ d \in mixed' <=> d \in mixed
      BY <1>3, <2>2, <2>3 DEF Member, Types
    <3>2. RoomsOf(d)
      BY <1>3 DEF RoomInv
    <3> QED
      BY <1>1, <2>1, <3>1, <3>2 DEF RoomsOf
  <2>4. RoomsOf(c)'
    <3>1. CASE unregister(c)
      <4>1. /\ hpc'[c] = "close" /\ c \notin conns' /\ Member(c)' = {}
            /\ c \notin mixed' => Roaming(c) = {}
        BY <1>3, <3>1 DEF unregister, HandlerStep, Member, Types
      <4> QED
        BY <2>1, <4>1 DEF RoomsOf, BeforeUnregister
    <3>2. CASE ~unregister(c)
      <4>1. /\ rooms' = rooms /\ mixed' = mixed
            /\ \/ hpc[c] \in {"none", "connect", "registered", "read"}
                 /\ hpc'[c] \in {"connect", "registered", "read", "leaving", "rejected"}
               \/ hpc'[c] = "panicked"
               \/ hpc[c] \in {"close", "wait"} /\ hpc'[c] \in {"wait", "gone"} /\ conns' = conns
        BY <1>3, <3>2 DEF Handling, Upgrade, Reject, register, StartPumps, ReadErr, HandlerClose,
          HandlerReturns, Panic, HandlerStep, Types
      <4>2. Member(c)' = Member(c) /\ RoomsOf(c)
        BY <1>3, <4>1 DEF Member, RoomInv
      <4> QED
        BY <1>1, <2>1, <4>1, <4>2 DEF RoomsOf, BeforeUnregister
    <3> QED
      BY <3>1, <3>2
  <2> QED
    BY <2>3, <2>4 DEF RoomInv
<1> QED
  BY <1>1, <1>2, <1>4, <1>5, <1>6 DEF IInv, OrderInv

-----------------------------------------------------------------------------
(* The write pump. *)

\* What the write pump does to the message it holds and to those around it.
PumpMoves(c) ==
    \/ Take(c) \/ Written(c)
    \/ UNCHANGED <<send, got>> /\ out' \in {out, [out EXCEPT ![c] = 0]}

\* The write pump moves messages of its connection, oldest first.
LEMMA PumpKeeps ==
    ASSUME IInv, NEW c \in Conns, writePump(c)
    PROVE  IInv'
<1>1. /\ UNCHANGED <<conns, rooms, crooms, mixed, closed, closing, hpc, peer, op>>
      /\ UNCHANGED <<mode, cast, net, last, live, asked, due>>
  BY DEF writePump, Take, Written, WriteErr, Drained, Bye, PingErr, CloseDone, Wild, PumpStep, wire, maps
<1>2. PumpMoves(c)
  BY DEF PumpMoves, writePump, WriteErr, Drained, Bye, PingErr, CloseDone, Wild
<1>3. \E s \in PumpStates : wpc' = [wpc EXCEPT ![c] = s]
  BY DEF writePump, Take, Written, WriteErr, Drained, Bye, PingErr, CloseDone, Wild, PumpStep, PumpStates
<1>4. Types /\ BufferInv /\ SentInv /\ RoomInv
  BY DEF IInv
<1>5. RoomInv'
  BY <1>1, <1>4, RoomsStay
<1>6. ASSUME Take(c)
      PROVE  /\ send[c] \in Seq(Msgs) /\ got[c] \in Seq(Msgs)
             /\ Tail(send[c]) \in Seq(Msgs) /\ Head(send[c]) \in Msgs
             /\ Head(send[c]) = send[c][1] /\ 1 \in 1..Len(send[c])
             /\ Len(Tail(send[c])) = Len(send[c]) - 1
             /\ \A i \in 1..Len(Tail(send[c])) :
                   Tail(send[c])[i] = send[c][i + 1] /\ i + 1 \in 1..Len(send[c])
             /\ send'[c] = Tail(send[c]) /\ out'[c] = Head(send[c]) /\ got' = got
  BY <1>4, <1>6, TailAt DEF Types, Take
<1>7. ASSUME Written(c)
      PROVE  /\ send[c] \in Seq(Msgs) /\ got[c] \in Seq(Msgs)
             /\ out[c] \in Msgs /\ Append(got[c], out[c]) \in Seq(Msgs)
             /\ Len(Append(got[c], out[c])) = Len(got[c]) + 1
             /\ \A i \in 1..Len(got[c]) : Append(got[c], out[c])[i] = got[c][i]
             /\ Append(got[c], out[c])[Len(got[c]) + 1] = out[c]
             /\ \A i \in 1..(Len(got[c]) + 1) : i \in 1..Len(got[c]) \/ i = Len(got[c]) + 1
             /\ got'[c] = Append(got[c], out[c]) /\ out'[c] = 0 /\ send' = send
  <2>1. /\ out[c] \in Msgs /\ got[c] \in Seq(Msgs) /\ send[c] \in Seq(Msgs)
        /\ got'[c] = Append(got[c], out[c]) /\ out'[c] = 0 /\ send' = send
    BY <1>4, <1>7, HubAssumption DEF Types, BufferInv, Written, PumpStep, Msgs
  <2> QED
    BY <2>1, AppendAt
<1>8. Types'
  <2>1. wpc' \in [Conns -> PumpStates]
    BY <1>3, <1>4 DEF Types
  <2>2. /\ send' \in [Conns -> Seq(Msgs)] /\ got' \in [Conns -> Seq(Msgs)]
        /\ out' \in [Conns -> 0..MaxMsg]
    <3>1. CASE Take(c)
      BY <1>4, <1>6, <3>1, HubAssumption DEF Types, Take, Msgs
    <3>2. CASE Written(c)
      BY <1>4, <1>7, <3>2, HubAssumption DEF Types, Written
    <3>3. CASE UNCHANGED <<send, got>> /\ out' \in {out, [out EXCEPT ![c] = 0]}
      <4>1. 0 \in 0..MaxMsg
        BY HubAssumption
      <4>2. out' = out \/ out' = [out EXCEPT ![c] = 0]
        BY <3>3
      <4>3. out' \in [Conns -> 0..MaxMsg]
        BY <1>4, <4>1, <4>2 DEF Types
      <4> QED
        BY <1>4, <3>3, <4>3 DEF Types
    <3> QED
      BY <1>2, <3>1, <3>2, <3>3 DEF PumpMoves
  <2> QED
    BY <1>1, <1>4, <2>1, <2>2 DEF Types
<1>9. BufferInv'
  <2>1. \A d \in Conns : Len(send'[d]) <= SendBuf
    <3>1. CASE Take(c)
      BY <1>4, <1>6, <3>1, HubAssumption DEF Types, BufferInv, Take
    <3>2. CASE send' = send
      BY <1>4, <3>2 DEF BufferInv
    <3> QED
      BY <1>2, <1>7, <3>1, <3>2 DEF PumpMoves
  <2>2. \A d \in Conns : wpc'[d] = "write" => out'[d] # 0
    <3>1. CASE Take(c)
      BY <1>4, <1>6, <3>1 DEF Types, BufferInv, Take, PumpStep, Msgs
    <3>2. CASE ~Take(c)
      <4>1. wpc'[c] # "write" /\ \A d \in Conns : d # c => wpc'[d] = wpc[d] /\ out'[d] = out[d]
        BY <1>4, <3>2 DEF Types, writePump, Written, WriteErr, Drained, Bye, PingErr, CloseDone,
          Wild, PumpStep
      <4> QED
        BY <1>4, <4>1 DEF BufferInv
    <3> QED
      BY <3>1, <3>2
  <2> QED
    BY <1>1, <1>4, <2>1, <2>2 DEF BufferInv
<1>10. ASSUME NEW d \in Conns, d # c
       PROVE  send'[d] = send[d] /\ got'[d] = got[d] /\ out'[d] = out[d]
  BY <1>2, <1>4, <1>10 DEF PumpMoves, Take, Written, Types
<1>11. SentInv'
  <2>1. SentTo(c)'
    <3>0. SentTo(c)
      BY <1>4 DEF SentInv
    <3>1. CASE Take(c)
      BY <1>1, <1>6, <3>0, <3>1 DEF SentTo
    <3>2. CASE Written(c)
      <4>1. Len(asked) \in Nat /\ Len(got[c]) \in Nat
        BY <1>4, <1>7, <3>2 DEF Types
      <4>2. \A i \in 1..Len(got'[c]) : got'[c][i] <= Len(asked)
        BY <1>7, <3>0, <3>2, <4>1 DEF SentTo
      <4> QED
        BY <1>1, <1>7, <3>0, <3>2, <4>1, <4>2 DEF SentTo
    <3>3. CASE UNCHANGED <<send, got>> /\ out' \in {out, [out EXCEPT ![c] = 0]}
      BY <1>1, <1>4, <3>0, <3>3 DEF SentTo, Types
    <3> QED
      BY <1>2, <3>1, <3>2, <3>3 DEF PumpMoves
  <2> QED
    BY <1>1, <1>4, <1>10, <2>1, LineStays DEF SentInv
<1>12. ASSUME OrderInv PROVE OrderInv'
  <2>1. WireInv'
    BY <1>1, <1>12 DEF OrderInv, WireInv, Pub
  <2>2. PipeTo(c)'
    <3>1. ASSUME NEW m, Reached(c, m)' PROVE Reached(c, m)
      <4>1. CASE Take(c)
        BY <1>6, <3>1, <4>1 DEF Reached
      <4>2. CASE Written(c)
        <5>1. Len(got[c]) \in Nat /\ out[c] # 0
          BY <1>7, <4>2 DEF Msgs
        <5> QED
          BY <1>7, <3>1, <4>2, <5>1 DEF Reached
      <4>3. CASE UNCHANGED <<send, got>> /\ out' \in {out, [out EXCEPT ![c] = 0]}
        BY <1>4, <3>1, <4>3 DEF Reached, Types
      <4> QED
        BY <1>2, <4>1, <4>2, <4>3 DEF PumpMoves
    <3> QED
      BY <1>1, <1>12, <3>1 DEF OrderInv, PipeInv, PipeTo, Pub
  <2>3. ClientOf(c)'
    <3>0. ClientOf(c) /\ \A m : Pub(m)' = Pub(m)
      BY <1>1, <1>12 DEF OrderInv, ClientInv, Pub
    <3>1. CASE Take(c)
      <4>1. InOrder(got[c])'
        BY <1>6, <3>0, <3>1 DEF ClientOf, InOrder
      <4>2. InOrder(send[c])'
        <5>1. SUFFICES ASSUME NEW i \in 1..Len(send'[c]), NEW j \in 1..Len(send'[c]),
                              i < j, Pub(send'[c][i]), Pub(send'[c][j])
                       PROVE  send'[c][i] < send'[c][j]
          BY <3>0 DEF InOrder
        <5>2. send'[c][i] = send[c][i + 1] /\ i + 1 \in 1..Len(send[c])
          BY <1>6, <3>1
        <5>3. send'[c][j] = send[c][j + 1] /\ j + 1 \in 1..Len(send[c])
          BY <1>6, <3>1
        <5>4. i + 1 < j + 1
          BY <5>1
        <5>5. InOrder(send[c])
          BY <3>0 DEF ClientOf
        <5> QED
          BY <5>1, <5>2, <5>3, <5>4, <5>5 DEF InOrder
      <4>3. \A i \in 1..Len(got[c]), j \in 1..Len(Tail(send[c])) :
               Pub(got[c][i]) /\ Pub(send[c][j + 1]) => got[c][i] < send[c][j + 1]
        BY <1>6, <3>0, <3>1 DEF ClientOf
      <4>4. Pub(send[c][1]) =>
               /\ \A i \in 1..Len(got[c]) : Pub(got[c][i]) => got[c][i] < send[c][1]
               /\ \A j \in 1..Len(Tail(send[c])) :
                     Pub(send[c][j + 1]) => send[c][1] < send[c][j + 1]
        BY <1>6, <3>0, <3>1 DEF ClientOf, InOrder
      <4> QED
        BY <1>6, <3>0, <3>1, <4>1, <4>2, <4>3, <4>4 DEF ClientOf
    <3>2. CASE Written(c)
      <4>0. out[c] # 0 /\ Len(got[c]) \in Nat
        BY <1>7, <3>2 DEF Msgs
      <4>1. InOrder(got[c])'
        <5>1. SUFFICES ASSUME NEW i \in 1..(Len(got[c]) + 1), NEW j \in 1..(Len(got[c]) + 1),
                              i < j, Pub(got'[c][i]), Pub(got'[c][j])
                       PROVE  got'[c][i] < got'[c][j]
          BY <1>7, <3>0, <3>2 DEF InOrder
        <5>2. i \in 1..Len(got[c]) /\ got'[c][i] = got[c][i]
          BY <1>7, <3>2, <4>0, <5>1
        <5>3. CASE j \in 1..Len(got[c])
          BY <1>7, <3>0, <3>2, <5>1, <5>2, <5>3 DEF ClientOf, InOrder
        <5>4. CASE j = Len(got[c]) + 1
          BY <1>7, <3>0, <3>2, <4>0, <5>1, <5>2, <5>4 DEF ClientOf
        <5> QED
          BY <1>7, <3>2, <5>3, <5>4
      <4>2. InOrder(send[c])'
        BY <1>7, <3>0, <3>2 DEF ClientOf, InOrder
      <4>3. ASSUME NEW i \in 1..(Len(got[c]) + 1), NEW j \in 1..Len(send[c]),
                   Pub(got'[c][i]), Pub(send[c][j])
            PROVE  got'[c][i] < send[c][j]
        BY <1>7, <3>0, <3>2, <4>0, <4>3 DEF ClientOf
      <4> QED
        BY <1>7, <3>0, <3>2, <4>1, <4>2, <4>3 DEF ClientOf
    <3>3. CASE UNCHANGED <<send, got>> /\ out' \in {out, [out EXCEPT ![c] = 0]}
      BY <1>1, <1>4, <3>0, <3>3 DEF ClientOf, InOrder, Types, Pub
    <3> QED
      BY <1>2, <3>1, <3>2, <3>3 DEF PumpMoves
  <2> QED
    BY <1>1, <1>10, <1>12, <2>1, <2>2, <2>3, LineStays DEF OrderInv, PipeInv, ClientInv
<1> QED
  BY <1>1, <1>4, <1>5, <1>8, <1>9, <1>11, <1>12 DEF IInv, OrderInv

-----------------------------------------------------------------------------
(* Rooms. *)

\* The two halves of Join and Leave change the rooms of one connection only.
LEMMA RoomsKeep ==
    ASSUME IInv, NEW g \in Roomers,
           RoomOp(g) \/ \E c \in Conns, r \in Rooms : Join(g, c, r) \/ Leave(g, c, r)
    PROVE  IInv'
<1>1. /\ UNCHANGED <<conns, closed, send, closing, wpc, out, got, hpc, peer>>
      /\ UNCHANGED <<mode, cast, net, live, asked, due>>
  BY DEF RoomOp, addToRoom, removeFromRoom, Join, Leave, RoomCall, queue, pump, wire
<1>2. SentInv' /\ (OrderInv => OrderInv')
  BY <1>1, MessagesStay DEF IInv
<1>3. Types /\ RoomInv /\ BufferInv
  BY DEF IInv
<1>4. Idle.kind = "idle" /\ op[g] \in Ops
  BY <1>3 DEF Types, Idle
<1>5. Types' /\ RoomInv'
  <2>1. CASE \E c \in Conns, r \in Rooms : Join(g, c, r) \/ Leave(g, c, r)
    <3>1. PICK c \in Conns, r \in Rooms : Join(g, c, r) \/ Leave(g, c, r)
      BY <2>1
    <3>2. PICK kind \in {"join", "leave"} :
             /\ RoomCall(g, c, r, kind)
             /\ crooms' = [crooms EXCEPT ![c] = IF kind = "join" THEN crooms[c] \cup {r}
                                                ELSE crooms[c] \ {r}]
      <4>1. CASE Join(g, c, r)
        BY <4>1 DEF Join
      <4>2. CASE Leave(g, c, r)
        BY <4>2 DEF Leave
      <4> QED
        BY <3>1, <4>1, <4>2
    <3> DEFINE o == [kind |-> kind, conn |-> c, room |-> r]
    <3>3. o \in Ops /\ o # Idle /\ o.conn = c /\ o.kind = kind /\ o.room = r
      BY DEF Ops, Idle
    <3>4. /\ rooms' = rooms /\ op[g] = Idle /\ op' = [op EXCEPT ![g] = o]
          /\ mixed' = IF Roaming(c) # {} \/ hpc[c] \in {"close", "wait", "gone"}
                        THEN mixed \cup {c} ELSE mixed
          /\ last' = [k \in Callers |-> IF k = g THEN Sent ELSE last[k]]
      BY <3>2 DEF RoomCall, MayRoom
    <3> HIDE DEF o
    <3>5. op' \in [Roomers -> Ops] /\ op'[g] = o /\ \A k \in Roomers : k # g => op'[k] = op[k]
      BY <1>3, <3>3, <3>4 DEF Types
    <3>6. /\ crooms' \in [Conns -> SUBSET Rooms] /\ \A d \in Conns : d # c => crooms'[d] = crooms[d]
          /\ crooms'[c] = IF kind = "join" THEN crooms[c] \cup {r} ELSE crooms[c] \ {r}
      <4>1. crooms[c] \cup {r} \in SUBSET Rooms /\ crooms[c] \ {r} \in SUBSET Rooms
        BY <1>3 DEF Types
      <4> QED
        BY <1>3, <3>2, <4>1 DEF Types
    <3>7. last' \in [Callers -> Pendings] /\ mixed' \subseteq Conns
      BY <1>3, <3>4 DEF Types, Pendings
    <3>8. Types'
      BY <1>1, <1>3, <3>4, <3>5, <3>6, <3>7 DEF Types
    <3>9. ASSUME NEW d \in Conns, d # c PROVE RoomsOf(d)'
      <4>1. Roaming(d)' = Roaming(d) /\ \A k \in Roaming(d) : op'[k] = op[k]
        BY <3>3, <3>4, <3>5, <3>9 DEF Roaming
      <4>2. crooms'[d] = crooms[d] /\ Member(d)' = Member(d) /\ (d \in mixed' <=> d \in mixed)
        BY <3>4, <3>6, <3>9 DEF Member
      <4>3. RoomsOf(d)
        BY <1>3 DEF RoomInv
      <4> QED
        BY <1>1, <4>1, <4>2, <4>3 DEF RoomsOf
    <3>10. RoomsOf(c)'
      <4> SUFFICES ASSUME c \notin mixed' PROVE RoomsOf(c)'
        BY DEF RoomsOf
      <4>1. /\ Roaming(c) = {} /\ c \notin mixed /\ hpc'[c] \notin {"close", "wait", "gone"}
        BY <1>1, <3>4
      <4>2. Roaming(c)' = {g}
        BY <3>3, <3>4, <3>5, <4>1 DEF Roaming
      <4>3. Member(c)' = Member(c) /\ (hpc'[c] \in BeforeUnregister => Member(c) = crooms[c])
        BY <1>1, <1>3, <3>4, <4>1 DEF RoomInv, RoomsOf, Member
      <4> QED
        BY <3>3, <3>5, <3>6, <4>1, <4>2, <4>3 DEF RoomsOf
    <3> QED
      BY <3>8, <3>9, <3>10 DEF RoomInv
  <2>2. CASE RoomOp(g)
    <3>1. PICK c \in Conns, r \in Rooms :
             /\ op[g].conn = c /\ op[g].room = r
             /\ op[g].kind \in {"join", "leave"} /\ op[g] # Idle
      BY <1>4, <2>2 DEF RoomOp, addToRoom, removeFromRoom, Ops
    <3> DEFINE new == IF op[g].kind = "join" THEN rooms[r] \cup {c} ELSE rooms[r] \ {c}
    <3>2. /\ crooms' = crooms /\ mixed' = mixed /\ last' = last
          /\ op' = [op EXCEPT ![g] = Idle] /\ rooms' = [rooms EXCEPT ![r] = new]
      BY <2>2, <3>1 DEF RoomOp, addToRoom, removeFromRoom, wire
    <3>3. new \in SUBSET Conns
      BY <1>3, <3>1 DEF Types
    <3>4. rooms' \in [Rooms -> SUBSET Conns] /\ rooms'[r] = new
          /\ \A q \in Rooms : q # r => rooms'[q] = rooms[q]
      <4> HIDE DEF new
      <4> QED
        BY <1>3, <3>1, <3>2, <3>3 DEF Types
    <3>5. /\ op' \in [Roomers -> Ops] /\ op'[g] = Idle
          /\ \A k \in Roomers : k # g => op'[k] = op[k]
      BY <1>3, <3>2 DEF Types, Ops
    <3>6. Types'
      BY <1>1, <1>3, <3>2, <3>4, <3>5 DEF Types
    <3>7. ASSUME NEW d \in Conns, d # c PROVE RoomsOf(d)'
      <4>1. Roaming(d)' = Roaming(d) /\ \A k \in Roaming(d) : op'[k] = op[k]
        BY <3>1, <3>5, <3>7 DEF Roaming
      <4>2. \A q \in Rooms : d \in rooms'[q] <=> d \in rooms[q]
        BY <3>4, <3>7
      <4>3. Member(d)' = Member(d) /\ RoomsOf(d)
        BY <1>3, <4>2 DEF Member, RoomInv
      <4> QED
        BY <1>1, <3>2, <4>1, <4>3 DEF RoomsOf
    <3>8. RoomsOf(c)'
      <4> SUFFICES ASSUME c \notin mixed' PROVE RoomsOf(c)'
        BY DEF RoomsOf
      <4>1. RoomsOf(c) /\ c \notin mixed /\ g \in Roaming(c)
        BY <1>3, <3>1, <3>2 DEF RoomInv, Roaming
      <4>2. \A k \in Roaming(c) : k = g
        BY <4>1 DEF RoomsOf
      <4>3. Roaming(c)' = {} /\ hpc'[c] \notin {"close", "wait", "gone"}
        <5>1. Roaming(c)' = {}
          BY <3>5, <4>2 DEF Roaming
        <5> QED
          BY <1>1, <4>1, <5>1 DEF RoomsOf
      <4>4. Member(c)' = IF op[g].kind = "join" THEN Member(c) \cup {r} ELSE Member(c) \ {r}
        BY <3>1, <3>4 DEF Member
      <4>5. hpc[c] \in BeforeUnregister =>
               crooms[c] = IF op[g].kind = "join" THEN Member(c) \cup {r} ELSE Member(c) \ {r}
        BY <3>1, <4>1 DEF RoomsOf
      <4> QED
        BY <1>1, <3>2, <4>3, <4>4, <4>5 DEF RoomsOf
    <3> QED
      BY <3>6, <3>7, <3>8 DEF RoomInv
  <2> QED
    BY <2>1, <2>2
<1>6. BufferInv'
  BY <1>1, <1>3 DEF BufferInv
<1> QED
  BY <1>1, <1>2, <1>5, <1>6 DEF IInv, OrderInv

-----------------------------------------------------------------------------
(* Conn.Close and the client. *)

\* Closing a connection, or its client's going away, moves no message.
LEMMA ClosingKeeps ==
    ASSUME IInv, NEW c \in Conns, CloseConn(c) \/ PeerChanges(c)
    PROVE  IInv'
<1>1. /\ UNCHANGED <<conns, rooms, crooms, mixed, send, wpc, out, got, hpc, op>>
      /\ UNCHANGED <<mode, cast, net, last, live, asked, due>>
  BY DEF CloseConn, PeerChanges, maps, queue, pump, wire
<1>2. SentInv' /\ (OrderInv => OrderInv')
  BY <1>1, MessagesStay DEF IInv
<1>3. Types /\ RoomInv /\ BufferInv
  BY DEF IInv
<1>4. RoomInv'
  BY <1>1, <1>3, RoomsStay
<1>5. BufferInv'
  BY <1>1, <1>3 DEF BufferInv
<1>6. Types'
  <2>1. closed' \in [Conns -> BOOLEAN]
    BY <1>3 DEF CloseConn, PeerChanges, queue, Types
  <2>2. closing' \subseteq Conns
    BY <1>3 DEF CloseConn, PeerChanges, queue, Types
  <2>3. peer' \in [Conns -> {"up", "stalled", "down"}]
    BY <1>3 DEF CloseConn, PeerChanges, Types
  <2> QED
    BY <1>1, <1>3, <2>1, <2>2, <2>3 DEF Types
<1> QED
  BY <1>1, <1>2, <1>4, <1>5, <1>6 DEF IInv, OrderInv

-----------------------------------------------------------------------------
(* Fanning out. *)

\* The message of a fan-out goes behind everything that reached the connection: what went
\* through the backplane is fanned out by the connection's own hub, one message at a time.
LEMMA FanoutKeeps ==
    ASSUME IInv, NEW g \in Casters, Fanout(g)
    PROVE  IInv'
<1>1. /\ UNCHANGED <<conns, rooms, crooms, mixed, wpc, out, got, hpc, peer, op, closed>>
      /\ UNCHANGED <<mode, net, last, live, asked, due>>
  BY DEF Fanout, NoTarget, enqueue, Served, maps, pump, queue
<1>2. Types /\ RoomInv /\ BufferInv /\ SentInv
  BY DEF IInv
<1>3. /\ cast[g] \in [msg : 0..MaxMsg, targets : SUBSET Conns]
      /\ Quiet \in [msg : 0..MaxMsg, targets : SUBSET Conns]
      /\ Quiet.msg = 0 /\ Quiet.targets = {}
  BY <1>2, HubAssumption DEF Types, Quiet
<1>4. \/ cast' = [cast EXCEPT ![g] = Quiet]
      \/ \E c \in Conns : /\ cast[g].targets # {c}
                          /\ cast' = [cast EXCEPT ![g] =
                                        [msg |-> cast[g].msg, targets |-> cast[g].targets \ {c}]]
  <2>1. CASE NoTarget(g)
    BY <2>1 DEF NoTarget
  <2>2. ASSUME NEW c \in Conns, enqueue(g, c)
        PROVE  \/ cast' = [cast EXCEPT ![g] = Quiet]
               \/ /\ cast[g].targets # {c}
                  /\ cast' = [cast EXCEPT ![g] =
                                [msg |-> cast[g].msg, targets |-> cast[g].targets \ {c}]]
    BY <2>2 DEF enqueue, Served
  <2> QED
    BY <2>1, <2>2 DEF Fanout
<1>5. /\ cast'[g] \in [msg : 0..MaxMsg, targets : SUBSET Conns]
      /\ cast'[g].msg \in {0, cast[g].msg} /\ cast'[g].targets \subseteq cast[g].targets
      /\ cast'[g].targets # {} => cast'[g].msg = cast[g].msg
      /\ cast' = [cast EXCEPT ![g] = cast'[g]]
  <2>1. CASE cast' = [cast EXCEPT ![g] = Quiet]
    BY <1>2, <1>3, <2>1 DEF Types
  <2>2. ASSUME NEW c \in Conns,
               cast' = [cast EXCEPT ![g] = [msg |-> cast[g].msg, targets |-> cast[g].targets \ {c}]]
        PROVE  <1>5!1 /\ <1>5!2 /\ <1>5!3 /\ <1>5!4
    <3> DEFINE v == [msg |-> cast[g].msg, targets |-> cast[g].targets \ {c}]
    <3>0. cast' = [cast EXCEPT ![g] = v] /\ cast \in [Casters -> [msg : 0..MaxMsg, targets : SUBSET Conns]]
      BY <1>2, <2>2 DEF Types
    <3> HIDE DEF v
    <3>1. cast'[g] = v
      BY <3>0
    <3> USE DEF v
    <3>2. cast'[g].msg = cast[g].msg /\ cast'[g].targets = cast[g].targets \ {c}
      BY <1>3, <3>1
    <3>3. cast'[g] \in [msg : 0..MaxMsg, targets : SUBSET Conns]
      BY <1>3, <3>1
    <3> QED
      BY <2>2, <3>1, <3>2, <3>3
  <2> QED
    BY <1>4, <2>1, <2>2
<1>6. /\ cast' \in [Casters -> [msg : 0..MaxMsg, targets : SUBSET Conns]]
      /\ \A k \in Casters : k # g => cast'[k] = cast[k]
  BY <1>2, <1>5 DEF Types
<1>7. \/ send' = send
      \/ \E c \in Conns : /\ c \in cast[g].targets /\ c \notin cast'[g].targets
                          /\ Len(send[c]) < SendBuf
                          /\ send' = [send EXCEPT ![c] = Append(send[c], cast[g].msg)]
  <2>1. ASSUME NEW c \in Conns, enqueue(g, c) PROVE c \in cast[g].targets /\ c \notin cast'[g].targets
    BY <1>2, <1>3, <2>1 DEF enqueue, Served, Types
  <2> QED
    BY <2>1 DEF Fanout, NoTarget, enqueue, queue
<1>8. RoomInv'
  BY <1>1, <1>2, RoomsStay
<1>9. /\ \A k \in Casters : cast'[k].targets # {} => cast'[k].msg # 0
      /\ \A k \in Casters : cast'[k].msg <= Len(asked)
  <2>1. cast'[g].targets # {} => cast[g].targets # {} /\ cast'[g].msg = cast[g].msg
    BY <1>5
  <2>2. cast'[g].msg <= Len(asked) /\ (cast'[g].targets # {} => cast'[g].msg # 0)
    BY <1>2, <1>5, <2>1 DEF BufferInv, SentInv, Types
  <2> QED
    BY <1>2, <1>6, <2>2 DEF BufferInv, SentInv
<1>10. closing' \subseteq Conns
  BY <1>2 DEF Fanout, NoTarget, enqueue, queue, Types
<1>11. ASSUME WireInv PROVE WireInv'
  <2>1. \A h \in Hubs : \A i \in 1..Len(net[h]) : cast'[h].msg < net[h][i].msg
    <3> SUFFICES ASSUME NEW h \in Hubs, NEW i \in 1..Len(net[h])
                 PROVE  cast'[h].msg < net[h][i].msg
      OBVIOUS
    <3>1. net[h][i].msg \in Msgs /\ cast[h].msg < net[h][i].msg
      <4>1. net[h] \in Seq(Envelopes)
        BY <1>2 DEF Types
      <4>2. net[h][i] \in Envelopes
        BY <4>1
      <4>3. net[h][i].msg \in Msgs
        BY <4>2 DEF Envelopes
      <4> QED
        BY <1>11, <4>3 DEF WireInv
    <3>2. cast'[h].msg \in {0, cast[h].msg}
      BY <1>5, <1>6 DEF Casters
    <3> QED
      BY <3>1, <3>2 DEF Msgs
  <2>2. \A h \in Hubs : \A c \in cast'[h].targets : Home[c] = h
    BY <1>5, <1>6, <1>11 DEF WireInv, Casters
  <2>3. \A k \in Callers : cast'[k].msg # 0 => ~Pub(cast'[k].msg)
    BY <1>5, <1>6, <1>11 DEF WireInv, Casters
  <2> QED
    BY <1>1, <1>11, <2>1, <2>2, <2>3 DEF WireInv, Pub
<1>12. ASSUME NEW d \in Conns, NEW m \in Msgs, PipeTo(d), Pub(m), Reached(d, m)
       PROVE  /\ \A i \in 1..Len(net[Home[d]]) : m < net[Home[d]][i].msg
              /\ cast'[Home[d]].msg # 0 => m <= cast'[Home[d]].msg
              /\ d \in cast'[Home[d]].targets => m < cast'[Home[d]].msg
  <2>1. Home[d] \in Hubs /\ Home[d] \in Casters
    BY HubAssumption DEF Casters
  <2>2. /\ cast'[Home[d]].msg \in {0, cast[Home[d]].msg}
        /\ d \in cast'[Home[d]].targets =>
             d \in cast[Home[d]].targets /\ cast'[Home[d]].msg = cast[Home[d]].msg
    BY <1>5, <1>6, <2>1
  <2> QED
    BY <1>12, <2>2 DEF PipeTo
<1>13. CASE send' = send
  <2>1. Types' /\ BufferInv'
    <3>1. Types'
      BY <1>1, <1>2, <1>6, <1>10, <1>13 DEF Types
    <3>2. BufferInv'
      BY <1>1, <1>2, <1>9, <1>13 DEF BufferInv
    <3> QED
      BY <3>1, <3>2
  <2>2. SentInv'
    <3>1. \A d \in Conns : SentTo(d)'
      BY <1>1, <1>2, <1>13, LineStays DEF SentInv
    <3> QED
      BY <1>1, <1>2, <1>9, <3>1 DEF SentInv
  <2>3. ASSUME OrderInv PROVE OrderInv'
    <3>1. \A d \in Conns : PipeTo(d)'
      <4>1. \A d \in Conns, m \in Msgs : Reached(d, m)' = Reached(d, m) /\ Pub(m)' = Pub(m)
        BY <1>1, <1>13 DEF Reached, Pub
      <4> QED
        BY <1>1, <1>12, <2>3, <4>1 DEF PipeTo, OrderInv, PipeInv
    <3>2. \A d \in Conns : ClientOf(d)'
      BY <1>1, <1>13, <2>3, LineStays DEF OrderInv, ClientInv
    <3> QED
      BY <1>11, <2>3, <3>1, <3>2 DEF OrderInv, PipeInv, ClientInv
  <2> QED
    BY <1>1, <1>8, <2>1, <2>2, <2>3 DEF IInv, OrderInv
<1>14. ASSUME NEW c \in Conns, c \in cast[g].targets, c \notin cast'[g].targets,
              Len(send[c]) < SendBuf,
              send' = [send EXCEPT ![c] = Append(send[c], cast[g].msg)]
       PROVE  IInv'
  <2> DEFINE x == cast[g].msg
             n == Len(send[c])
  <2>1. x \in Msgs /\ x # 0 /\ x <= Len(asked) /\ Len(asked) \in Nat
    BY <1>2, <1>3, <1>14 DEF BufferInv, SentInv, Msgs, Types
  <2>2. /\ send[c] \in Seq(Msgs) /\ send'[c] \in Seq(Msgs) /\ n \in Nat /\ Len(send'[c]) = n + 1
        /\ \A i \in 1..n : send'[c][i] = send[c][i]
        /\ send'[c][n + 1] = x
        /\ \A i \in 1..(n + 1) : i \in 1..n \/ i = n + 1
    BY <1>2, <1>14, <2>1, AppendAt DEF Types
  <2>3. \A d \in Conns : d # c => send'[d] = send[d]
    BY <1>2, <1>14 DEF Types
  <2> HIDE DEF x, n
  <2>4. Types' /\ BufferInv'
    <3>1. send' \in [Conns -> Seq(Msgs)]
      BY <1>2, <1>14, <2>2 DEF Types
    <3>2. Types'
      BY <1>1, <1>2, <1>6, <1>10, <3>1 DEF Types
    <3>3. \A d \in Conns : Len(send'[d]) <= SendBuf
      BY <1>2, <1>14, <2>2, <2>3, HubAssumption DEF BufferInv, n
    <3>4. BufferInv'
      BY <1>1, <1>2, <1>9, <3>3 DEF BufferInv
    <3> QED
      BY <3>2, <3>4
  <2>5. SentInv'
    <3>1. \A d \in Conns : d # c => SentTo(d)'
      BY <1>1, <1>2, <2>3, LineStays DEF SentInv
    <3>2. SentTo(c)'
      <4>1. \A i \in 1..(n + 1) : send'[c][i] <= Len(asked)
        BY <1>2, <2>1, <2>2 DEF SentInv, SentTo, n
      <4> QED
        BY <1>1, <1>2, <2>2, <4>1 DEF SentInv, SentTo
    <3> QED
      BY <1>1, <1>2, <1>9, <3>1, <3>2 DEF SentInv
  <2>6. ASSUME OrderInv PROVE OrderInv'
    <3>1. WireInv /\ PipeTo(c) /\ ClientOf(c)
      BY <2>6 DEF OrderInv, PipeInv, ClientInv
    <3>2. \A m : Pub(m)' = Pub(m)
      BY <1>1 DEF Pub
    <3>3. ASSUME Pub(x)
          PROVE  g \in Hubs /\ Home[c] = g /\ \A m \in Msgs : Reached(c, m) /\ Pub(m) => m < x
      <4>1. g \in Hubs
        BY <2>1, <3>1, <3>3 DEF WireInv, Casters, x
      <4>2. Home[c] = g
        BY <1>14, <3>1, <4>1 DEF WireInv
      <4> QED
        BY <1>14, <3>1, <4>1, <4>2 DEF PipeTo, x
    <3>4. ASSUME NEW m \in Msgs, Reached(c, m)' PROVE Reached(c, m) \/ m = x
      <4>1. \A i \in 1..Len(send'[c]) : send'[c][i] = m => m = x \/ \E j \in 1..n : send[c][j] = m
        BY <2>2
      <4> QED
        BY <1>1, <3>4, <4>1 DEF Reached, n
    <3>5. \A d \in Conns : PipeTo(d)'
      <4>1. ASSUME NEW d \in Conns, d # c PROVE PipeTo(d)'
        <5>1. \A m \in Msgs : Reached(d, m)' = Reached(d, m)
          BY <1>1, <2>3, <4>1 DEF Reached
        <5>2. PipeTo(d)
          BY <2>6 DEF OrderInv, PipeInv
        <5> QED
          BY <1>1, <1>12, <3>2, <5>1, <5>2 DEF PipeTo
      <4>2. ASSUME NEW m \in Msgs, Reached(c, m)', Pub(m)
            PROVE  /\ \A i \in 1..Len(net[Home[c]]) : m < net[Home[c]][i].msg
                   /\ cast'[Home[c]].msg # 0 => m <= cast'[Home[c]].msg
                   /\ c \in cast'[Home[c]].targets => m < cast'[Home[c]].msg
        <5>1. CASE Reached(c, m)
          BY <1>12, <3>1, <4>2, <5>1
        <5>2. CASE m = x
          <6>1. Home[c] = g /\ g \in Hubs
            BY <3>3, <4>2, <5>2
          <6>2. \A i \in 1..Len(net[g]) : m < net[g][i].msg
            BY <3>1, <5>2, <6>1 DEF WireInv, x
          <6>3. cast'[g].msg # 0 => m <= cast'[g].msg
            BY <1>5, <2>1, <5>2 DEF x, Msgs
          <6> QED
            BY <1>14, <6>1, <6>2, <6>3
        <5> QED
          BY <3>4, <4>2, <5>1, <5>2
      <4>3. PipeTo(c)'
        BY <1>1, <3>2, <4>2 DEF PipeTo
      <4> QED
        BY <4>1, <4>3
    <3>6. ClientOf(c)'
      <4>1. /\ \A i \in 1..Len(got[c]) : Pub(got[c][i]) /\ Pub(x) => got[c][i] < x
            /\ out[c] # 0 /\ Pub(out[c]) /\ Pub(x) => out[c] < x
            /\ \A i \in 1..n : Pub(send[c][i]) /\ Pub(x) => send[c][i] < x
        <5>1. ASSUME NEW i \in 1..Len(got[c]) PROVE got[c][i] \in Msgs /\ Reached(c, got[c][i])
          BY <1>2 DEF Types, Reached
        <5>2. ASSUME NEW i \in 1..n PROVE send[c][i] \in Msgs /\ Reached(c, send[c][i])
          BY <2>2 DEF Reached, n
        <5>3. out[c] # 0 => out[c] \in Msgs /\ Reached(c, out[c])
          BY <1>2, HubAssumption DEF Types, Reached, Msgs
        <5> QED
          BY <3>3, <5>1, <5>2, <5>3
      <4>2. InOrder(got[c])'
        BY <1>1, <3>1, <3>2 DEF ClientOf, InOrder
      <4>3. InOrder(send[c])'
        <5>1. SUFFICES ASSUME NEW i \in 1..Len(send'[c]), NEW j \in 1..Len(send'[c]),
                              i < j, Pub(send'[c][i]), Pub(send'[c][j])
                       PROVE  send'[c][i] < send'[c][j]
          BY <3>2 DEF InOrder
        <5>2. i \in 1..n /\ send'[c][i] = send[c][i]
          BY <2>2, <5>1
        <5>3. CASE j \in 1..n
          BY <2>2, <3>1, <5>1, <5>2, <5>3 DEF ClientOf, InOrder, n
        <5>4. CASE j = n + 1
          BY <2>2, <4>1, <5>1, <5>2, <5>4
        <5> QED
          BY <2>2, <5>3, <5>4
      <4>4. ASSUME NEW i \in 1..Len(got[c]), NEW j \in 1..Len(send'[c]),
                   Pub(got[c][i]), Pub(send'[c][j])
            PROVE  got[c][i] < send'[c][j]
        <5>1. CASE j \in 1..n
          BY <2>2, <3>1, <4>4, <5>1 DEF ClientOf, n
        <5>2. CASE j = n + 1
          BY <2>2, <4>1, <4>4, <5>2
        <5> QED
          BY <2>2, <5>1, <5>2
      <4>5. ASSUME NEW j \in 1..Len(send'[c]), out[c] # 0, Pub(out[c]), Pub(send'[c][j])
            PROVE  out[c] < send'[c][j]
        <5>1. CASE j \in 1..n
          BY <2>2, <3>1, <4>5, <5>1 DEF ClientOf, n
        <5>2. CASE j = n + 1
          BY <2>2, <4>1, <4>5, <5>2
        <5> QED
          BY <2>2, <5>1, <5>2
      <4> QED
        BY <1>1, <3>1, <3>2, <4>2, <4>3, <4>4, <4>5 DEF ClientOf
    <3>7. \A d \in Conns : d # c => ClientOf(d)'
      BY <1>1, <2>3, <2>6, LineStays DEF OrderInv, ClientInv
    <3> QED
      BY <1>11, <2>6, <3>5, <3>6, <3>7 DEF OrderInv, PipeInv, ClientInv
  <2> QED
    BY <1>1, <1>8, <2>4, <2>5, <2>6 DEF IInv, OrderInv
<1> QED
  BY <1>7, <1>13, <1>14

-----------------------------------------------------------------------------
(* Envelopes that are lost, and Hub.Close. *)

\* Dropping the first n envelopes on their way to a hub leaves the rest in order.
LEMMA NetDrops ==
    ASSUME IInv, NEW h \in Hubs, NEW t \in Seq(Envelopes), NEW n \in 0..Len(net[h]),
           Len(t) = Len(net[h]) - n, \A i \in 1..Len(t) : t[i] = net[h][i + n],
           net' = [net EXCEPT ![h] = t], UNCHANGED <<cast, asked, send, out, got>>
    PROVE  /\ SentInv' /\ (OrderInv => OrderInv')
           /\ net' \in [Hubs -> Seq(Envelopes)]
<1>1. Types /\ SentInv
  BY DEF IInv
<1>2. /\ net \in [Hubs -> Seq(Envelopes)] /\ net' \in [Hubs -> Seq(Envelopes)]
      /\ net'[h] = t /\ \A k \in Hubs : k # h => net'[k] = net[k]
  BY <1>1 DEF Types
<1>3. /\ Len(net[h]) \in Nat /\ n \in Nat
      /\ \A i \in 1..Len(t) : i + n \in 1..Len(net[h]) /\ net'[h][i] = net[h][i + n]
  BY <1>2
<1>4. \A k \in Hubs : \A i \in 1..Len(net'[k]) :
        \E j \in 1..Len(net[k]) : net'[k][i] = net[k][j]
  BY <1>2, <1>3
<1>5. SentInv'
  <2>1. \A d \in Conns : SentTo(d)'
    BY <1>1, LineStays DEF SentInv
  <2>2. \A k \in Hubs : \A i \in 1..Len(net'[k]) : net'[k][i].msg <= Len(asked)
    BY <1>1, <1>4 DEF SentInv
  <2> QED
    BY <1>1, <2>1, <2>2 DEF SentInv
<1>6. ASSUME OrderInv PROVE OrderInv'
  <2>1. WireInv'
    <3>1. ASSUME NEW k \in Hubs, NEW i \in 1..Len(net'[k]), NEW j \in 1..Len(net'[k]), i < j
          PROVE  net'[k][i].msg < net'[k][j].msg
      <4>1. CASE k # h
        BY <1>2, <1>6, <3>1, <4>1 DEF OrderInv, WireInv
      <4>2. CASE k = h
        <5>1. i + n < j + n
          BY <1>3, <3>1
        <5>2. net'[k][i] = net[h][i + n] /\ i + n \in 1..Len(net[h])
          BY <1>2, <1>3, <4>2
        <5>3. net'[k][j] = net[h][j + n] /\ j + n \in 1..Len(net[h])
          BY <1>2, <1>3, <4>2
        <5> QED
          BY <1>6, <5>1, <5>2, <5>3 DEF OrderInv, WireInv
      <4> QED
        BY <4>1, <4>2
    <3>2. \A k \in Hubs : \A i \in 1..Len(net'[k]) : cast[k].msg < net'[k][i].msg
      BY <1>4, <1>6 DEF OrderInv, WireInv
    <3> QED
      BY <1>6, <3>1, <3>2 DEF OrderInv, WireInv, Pub
  <2>2. ASSUME NEW d \in Conns PROVE PipeTo(d)'
    <3>1. Home[d] \in Hubs /\ PipeTo(d)
      BY <1>6, HubAssumption DEF OrderInv, PipeInv
    <3>2. \A m \in Msgs : Reached(d, m)' = Reached(d, m) /\ Pub(m)' = Pub(m)
      BY DEF Reached, Pub
    <3>3. \A m \in Msgs : Reached(d, m) /\ Pub(m) =>
             \A i \in 1..Len(net'[Home[d]]) : m < net'[Home[d]][i].msg
      BY <1>4, <3>1 DEF PipeTo
    <3> QED
      BY <3>1, <3>2, <3>3 DEF PipeTo
  <2>3. \A d \in Conns : ClientOf(d)'
    BY <1>6, LineStays DEF OrderInv, ClientInv
  <2> QED
    BY <2>1, <2>2, <2>3 DEF OrderInv, PipeInv, ClientInv
<1> QED
  BY <1>2, <1>5, <1>6

\* Redis loses an envelope, or a hub's subscription ends.
LEMMA LossKeeps ==
    ASSUME IInv, NEW h \in Hubs, LoseEnvelope(h) \/ HubClose(h)
    PROVE  IInv'
<1>1. /\ UNCHANGED <<conns, rooms, crooms, mixed, closed, send, wpc, out, got, hpc, peer, op>>
      /\ UNCHANGED <<mode, cast, last, asked>>
  BY DEF LoseEnvelope, HubClose, maps, queue, pump
<1>2. Types /\ RoomInv /\ BufferInv /\ SentInv
  BY DEF IInv
<1>3. net[h] \in Seq(Envelopes)
  BY <1>2 DEF Types
<1>4. SentInv' /\ (OrderInv => OrderInv') /\ net' \in [Hubs -> Seq(Envelopes)]
  <2>1. CASE LoseEnvelope(h)
    <3>1. net[h] # <<>> /\ net' = [net EXCEPT ![h] = Tail(net[h])]
      BY <2>1 DEF LoseEnvelope
    <3>2. /\ Tail(net[h]) \in Seq(Envelopes) /\ Len(Tail(net[h])) = Len(net[h]) - 1
          /\ 1 \in 0..Len(net[h]) /\ \A i \in 1..Len(Tail(net[h])) : Tail(net[h])[i] = net[h][i + 1]
      BY <1>3, <3>1, TailAt
    <3> QED
      BY <1>1, <3>1, <3>2, NetDrops
  <2>2. CASE HubClose(h)
    <3>1. net' = [net EXCEPT ![h] = <<>>]
      BY <2>2 DEF HubClose
    <3>2. /\ <<>> \in Seq(Envelopes) /\ Len(<<>>) = Len(net[h]) - Len(net[h])
          /\ Len(net[h]) \in 0..Len(net[h])
          /\ \A i \in 1..Len(<<>>) : <<>>[i] = net[h][i + Len(net[h])]
      BY <1>3
    <3> QED
      BY <1>1, <3>1, <3>2, NetDrops
  <2> QED
    BY <2>1, <2>2
<1>5. RoomInv'
  BY <1>1, <1>2, RoomsStay
<1>6. BufferInv'
  BY <1>1, <1>2 DEF BufferInv
<1>7. Types'
  <2>1. live' \subseteq Hubs /\ closing' \subseteq Conns
    BY <1>2 DEF LoseEnvelope, HubClose, queue, Types, Local
  <2>2. due' \in Seq(SUBSET Conns) /\ Len(due') = Len(asked)
    <3>1. CASE LoseEnvelope(h)
      <4> DEFINE m == Head(net[h]).msg
                 left == due[m] \ Local(h, Conns)
      <4>1. due' = [due EXCEPT ![m] = left]
        BY <3>1 DEF LoseEnvelope
      <4>2. m \in 1..Len(due)
        <5>1. net[h] # <<>> /\ 1 \in 1..Len(net[h]) /\ Head(net[h]) = net[h][1]
              /\ net[h][1] \in Envelopes
          BY <1>3, <3>1, TailAt DEF LoseEnvelope
        <5>2. net[h][1].msg \in Msgs /\ net[h][1].msg <= Len(asked)
          BY <1>2, <5>1 DEF SentInv, Envelopes
        <5>3. Len(asked) \in Nat /\ Len(due) = Len(asked)
          BY <1>2 DEF Types
        <5> QED
          BY <5>1, <5>2, <5>3 DEF Msgs
      <4>3. left \in SUBSET Conns /\ due \in Seq(SUBSET Conns)
        BY <1>2, <4>2 DEF Types
      <4> HIDE DEF m, left
      <4>4. due' \in Seq(SUBSET Conns) /\ Len(due') = Len(due)
        BY <4>1, <4>2, <4>3, ExceptSeq
      <4> QED
        BY <1>2, <4>4 DEF Types
    <3>2. CASE HubClose(h)
      BY <1>2, <3>2 DEF HubClose, Types
    <3> QED
      BY <3>1, <3>2
  <2> QED
    BY <1>1, <1>2, <1>4, <2>1, <2>2 DEF Types
<1> QED
  BY <1>1, <1>4, <1>5, <1>6, <1>7 DEF IInv, OrderInv

-----------------------------------------------------------------------------
(* The subscriber. *)

\* The subscriber of a hub takes the oldest envelope: everything that reached a connection
\* of the hub is older.
LEMMA DeliverKeeps ==
    ASSUME IInv, NEW h \in Hubs, Deliver(h)
    PROVE  IInv'
<1>1. /\ UNCHANGED <<conns, rooms, crooms, mixed, closed, closing, send, wpc, out, got, hpc, peer, op>>
      /\ UNCHANGED <<mode, last, live, asked, due>>
  BY DEF Deliver, maps, queue, pump
<1>2. Types /\ RoomInv /\ BufferInv /\ SentInv
  BY DEF IInv
<1>3. h \in Casters /\ net[h] # <<>> /\ net' = [net EXCEPT ![h] = Tail(net[h])]
  BY DEF Deliver, Casters
<1>4. /\ net[h] \in Seq(Envelopes) /\ Head(net[h]) = net[h][1] /\ net[h][1] \in Envelopes
      /\ Tail(net[h]) \in Seq(Envelopes) /\ Len(Tail(net[h])) = Len(net[h]) - 1
      /\ Len(net[h]) \in Nat /\ 1 \in 1..Len(net[h]) /\ 1 \in 0..Len(net[h])
      /\ \A i \in 1..Len(Tail(net[h])) :
            Tail(net[h])[i] = net[h][i + 1] /\ i + 1 \in 1..Len(net[h]) /\ 1 < i + 1
  <2>1. net[h] \in Seq(Envelopes)
    BY <1>2 DEF Types
  <2> QED
    BY <1>3, <2>1, TailAt
<1>5. net[h][1].room \in Rooms \cup {Everyone} /\ net[h][1].msg \in Msgs
  BY <1>4 DEF Envelopes
<1>6. PICK T \in SUBSET Local(h, Conns) :
        cast' = [cast EXCEPT ![h] = [msg |-> net[h][1].msg, targets |-> T]]
  <2>1. CASE net[h][1].room = Everyone
    <3>1. cast' = [cast EXCEPT ![h] = [msg |-> net[h][1].msg, targets |-> Local(h, conns)]]
      BY <1>4, <2>1 DEF Deliver, localBroadcast
    <3>2. Local(h, conns) \in SUBSET Local(h, Conns)
      BY <1>2 DEF Types, Local
    <3> QED
      BY <3>1, <3>2
  <2>2. CASE net[h][1].room # Everyone
    <3>1. cast' = [cast EXCEPT ![h] =
                     [msg |-> net[h][1].msg, targets |-> Local(h, rooms[net[h][1].room])]]
      BY <1>4, <2>2 DEF Deliver, localToRoom
    <3>2. Local(h, rooms[net[h][1].room]) \in SUBSET Local(h, Conns)
      BY <1>2, <1>5, <2>2 DEF Types, Local
    <3> QED
      BY <3>1, <3>2
  <2> QED
    BY <2>1, <2>2
<1> DEFINE m == net[h][1].msg
<1>7. /\ cast' \in [Casters -> [msg : 0..MaxMsg, targets : SUBSET Conns]]
      /\ cast'[h].msg = m /\ cast'[h].targets = T
      /\ \A k \in Casters : k # h => cast'[k] = cast[k]
      /\ net' \in [Hubs -> Seq(Envelopes)] /\ net'[h] = Tail(net[h])
      /\ \A k \in Hubs : k # h => net'[k] = net[k]
  <2>1. m \in 0..MaxMsg /\ T \in SUBSET Conns
    BY <1>5, HubAssumption DEF Msgs, Local
  <2> DEFINE v == [msg |-> m, targets |-> T]
  <2>2. v \in [msg : 0..MaxMsg, targets : SUBSET Conns] /\ v.msg = m /\ v.targets = T
    BY <2>1
  <2>3. /\ cast' = [cast EXCEPT ![h] = v] /\ net \in [Hubs -> Seq(Envelopes)]
        /\ cast \in [Casters -> [msg : 0..MaxMsg, targets : SUBSET Conns]]
    BY <1>2, <1>6 DEF Types
  <2> HIDE DEF v, m
  <2>4. /\ cast' \in [Casters -> [msg : 0..MaxMsg, targets : SUBSET Conns]] /\ cast'[h] = v
        /\ \A k \in Casters : k # h => cast'[k] = cast[k]
    BY <1>3, <2>2, <2>3
  <2>5. /\ net' \in [Hubs -> Seq(Envelopes)] /\ net'[h] = Tail(net[h])
        /\ \A k \in Hubs : k # h => net'[k] = net[k]
    BY <1>3, <1>4, <2>3
  <2> QED
    BY <2>2, <2>4, <2>5
<1>8. RoomInv'
  BY <1>1, <1>2, RoomsStay
<1>9. Types'
  BY <1>1, <1>2, <1>7 DEF Types
<1>10. BufferInv'
  <2>1. \A k \in Casters : cast'[k].targets # {} => cast'[k].msg # 0
    BY <1>2, <1>5, <1>7 DEF BufferInv, Msgs
  <2> QED
    BY <1>1, <1>2, <2>1 DEF BufferInv
<1>11. SentInv'
  <2>1. \A d \in Conns : SentTo(d)'
    BY <1>1, <1>2, LineStays DEF SentInv
  <2>2. m <= Len(asked)
    BY <1>2, <1>4 DEF SentInv
  <2>3. \A k \in Casters : cast'[k].msg <= Len(asked)
    BY <1>2, <1>7, <2>2 DEF SentInv
  <2>4. \A k \in Hubs : \A i \in 1..Len(net'[k]) : net'[k][i].msg <= Len(asked)
    <3>1. \A k \in Hubs : \A i \in 1..Len(net'[k]) :
             \E j \in 1..Len(net[k]) : net'[k][i] = net[k][j]
      <4>1. \A k \in Hubs : k # h => net'[k] = net[k]
        BY <1>7
      <4>2. \A i \in 1..Len(net'[h]) : net'[h][i] = net[h][i + 1] /\ i + 1 \in 1..Len(net[h])
        BY <1>4, <1>7
      <4> QED
        BY <4>1, <4>2
    <3> QED
      BY <1>2, <3>1 DEF SentInv
  <2> QED
    BY <1>1, <2>1, <2>3, <2>4 DEF SentInv
<1>12. ASSUME OrderInv PROVE OrderInv'
  <2>1. WireInv'
    <3>1. ASSUME NEW k \in Hubs, NEW i \in 1..Len(net'[k]), NEW j \in 1..Len(net'[k]), i < j
          PROVE  net'[k][i].msg < net'[k][j].msg
      <4>1. CASE k # h
        BY <1>7, <1>12, <3>1, <4>1 DEF OrderInv, WireInv
      <4>2. CASE k = h
        <5>1. i + 1 < j + 1
          BY <1>4, <1>7, <3>1, <4>2
        <5>2. net'[k][i] = net[h][i + 1] /\ i + 1 \in 1..Len(net[h])
          BY <1>4, <1>7, <4>2
        <5>3. net'[k][j] = net[h][j + 1] /\ j + 1 \in 1..Len(net[h])
          BY <1>4, <1>7, <4>2
        <5> QED
          BY <1>12, <5>1, <5>2, <5>3 DEF OrderInv, WireInv
      <4> QED
        BY <4>1, <4>2
    <3>2. ASSUME NEW k \in Hubs, NEW i \in 1..Len(net'[k]) PROVE cast'[k].msg < net'[k][i].msg
      <4>1. CASE k # h
        BY <1>7, <1>12, <4>1 DEF OrderInv, WireInv, Casters
      <4>2. CASE k = h
        <5>1. net'[k][i] = net[h][i + 1] /\ i + 1 \in 1..Len(net[h]) /\ 1 < i + 1
          BY <1>4, <1>7, <4>2
        <5>2. net[h][1].msg < net[h][i + 1].msg
          BY <1>4, <1>12, <5>1 DEF OrderInv, WireInv
        <5> QED
          BY <1>7, <4>2, <5>1, <5>2
      <4> QED
        BY <4>1, <4>2
    <3>3. \A k \in Hubs : \A c \in cast'[k].targets : Home[c] = k
      BY <1>7, <1>12 DEF OrderInv, WireInv, Casters, Local
    <3>4. \A g \in Callers : cast'[g] = cast[g]
      BY <1>7, HubAssumption DEF Casters
    <3> QED
      BY <1>1, <1>12, <3>1, <3>2, <3>3, <3>4 DEF OrderInv, WireInv, Pub
  <2>2. ASSUME NEW d \in Conns PROVE PipeTo(d)'
    <3>1. Home[d] \in Hubs /\ Home[d] \in Casters /\ PipeTo(d)
      BY <1>12, HubAssumption DEF OrderInv, PipeInv, Casters
    <3>2. \A n \in Msgs : Reached(d, n)' = Reached(d, n) /\ Pub(n)' = Pub(n)
      BY <1>1 DEF Reached, Pub
    <3>3. CASE Home[d] # h
      BY <1>7, <3>1, <3>2, <3>3 DEF PipeTo
    <3>4. CASE Home[d] = h
      <4>1. ASSUME NEW n \in Msgs, Reached(d, n), Pub(n)
            PROVE  n < m /\ \A i \in 1..Len(net'[h]) : n < net'[h][i].msg
        BY <1>4, <1>7, <3>1, <3>4, <4>1 DEF PipeTo
      <4>2. \A n \in Msgs : n < m => n <= m
        BY <1>5 DEF Msgs
      <4> QED
        BY <1>7, <3>2, <3>4, <4>1, <4>2 DEF PipeTo
    <3> QED
      BY <3>3, <3>4
  <2>3. \A d \in Conns : ClientOf(d)'
    BY <1>1, <1>12, LineStays DEF OrderInv, ClientInv
  <2> QED
    BY <2>1, <2>2, <2>3 DEF OrderInv, PipeInv, ClientInv
<1> QED
  BY <1>1, <1>8, <1>9, <1>10, <1>11, <1>12 DEF IInv, OrderInv

-----------------------------------------------------------------------------
(* Callers. *)

\* Where a new message goes: to the subscribers, or to the caller's own targets.
Goes(g, what, m) ==
    /\ \/ cast' = cast
       \/ /\ \E T \in SUBSET Conns : cast' = [cast EXCEPT ![g] = [msg |-> m, targets |-> T]]
          /\ mode # "none" => what.to = "conn"
    /\ \E r \in Rooms \cup {Everyone} :
         \A h \in Hubs : net'[h] \in {net[h], Append(net[h], [room |-> r, msg |-> m])}
    /\ net' \in [Hubs -> Seq(Envelopes)]

\* The PUBLISH that a caller may send again.
LEMMA PendingTypes ==
    ASSUME Types, NEW g \in Callers,
           \/ \E h \in Hubs : Broadcast(g, h) \/ \E r \in Rooms : ToRoom(g, h, r)
           \/ \E c \in Conns : Send(g, c)
           \/ Resend(g)
    PROVE  last' \in [Callers -> Pendings]
<1>1. last \in [Callers -> Pendings] /\ Sent \in Pendings
  BY DEF Types, Pendings
<1>2. ASSUME NEW h \in Hubs, NEW r \in Rooms \cup {Everyone}, Waits(g, h, r)
      PROVE  last' \in [Callers -> Pendings]
  <2> DEFINE p == [hub |-> h, room |-> r, left |-> MaxResend]
  <2>1. MaxResend > 0 => p \in Pendings
    BY HubAssumption DEF Pendings
  <2>2. last' = [last EXCEPT ![g] = IF mode # "none" /\ h \in live /\ MaxResend > 0 THEN p ELSE Sent]
    BY <1>2 DEF Waits
  <2> HIDE DEF p
  <2> QED
    BY <1>1, <2>1, <2>2
<1>3. ASSUME NEW h \in Hubs, Broadcast(g, h) PROVE last' \in [Callers -> Pendings]
  <2>1. Waits(g, h, Everyone)
    BY <1>3 DEF Broadcast
  <2> QED
    BY <1>2, <2>1
<1>4. ASSUME NEW h \in Hubs, NEW r \in Rooms, ToRoom(g, h, r) PROVE last' \in [Callers -> Pendings]
  BY <1>2, <1>4 DEF ToRoom
<1>5. ASSUME NEW c \in Conns, Send(g, c) PROVE last' \in [Callers -> Pendings]
  BY <1>1, <1>5 DEF Send
<1>6. CASE Resend(g)
  <2> DEFINE l == last[g]
             p == [l EXCEPT !.left = l.left - 1]
  <2>1. /\ l \in [hub : Hubs, room : Rooms \cup {Everyone}, left : 1..MaxResend]
        /\ last' = [last EXCEPT ![g] = IF l.left = 1 THEN Sent ELSE p]
    BY <1>1, <1>6 DEF Resend, Pendings
  <2>2. l.left # 1 => l.left - 1 \in 1..MaxResend
    BY <2>1, HubAssumption
  <2>3. l.left # 1 => p \in Pendings
    BY <2>1, <2>2 DEF Pendings
  <2> HIDE DEF p
  <2> QED
    BY <1>1, <2>1, <2>3
<1> QED
  BY <1>3, <1>4, <1>5, <1>6

\* A Broadcast, a ToRoom, a Send and a PUBLISH sent again go where they should.
LEMMA AskGoes ==
    ASSUME IInv, NEW g \in Callers,
           \/ \E h \in Hubs : Broadcast(g, h) \/ \E r \in Rooms : ToRoom(g, h, r)
           \/ \E c \in Conns : Send(g, c)
           \/ Resend(g)
    PROVE  \E what \in Asks : /\ Ask(g, what) /\ Goes(g, what, Len(asked) + 1)
                              /\ \E S \in SUBSET Conns : due' = Append(due, S)
<1> DEFINE m == Len(asked) + 1
<1>1. Types
  BY DEF IInv
<1>2. ASSUME NEW what, Ask(g, what) PROVE m \in Msgs
  BY <1>1, <1>2, HubAssumption DEF Types, Ask, Msgs
<1>3. net \in [Hubs -> Seq(Envelopes)]
  BY <1>1 DEF Types
<1>4. ASSUME NEW h \in Hubs, NEW r \in Rooms \cup {Everyone}, publish(h, r, m), m \in Msgs
      PROVE  /\ \A k \in Hubs : net'[k] \in {net[k], Append(net[k], [room |-> r, msg |-> m])}
             /\ net' \in [Hubs -> Seq(Envelopes)]
  <2> DEFINE e == [room |-> r, msg |-> m]
             new == [k \in Hubs |-> IF k \in live /\ mode = "ok" THEN Append(net[k], e) ELSE net[k]]
  <2>1. net' = IF h \notin live THEN net ELSE new
    BY <1>4 DEF publish
  <2>2. e \in Envelopes
    BY <1>4 DEF Envelopes
  <2> HIDE DEF e, m
  <2>3. \A k \in Hubs : new[k] \in {net[k], Append(net[k], e)} /\ new[k] \in Seq(Envelopes)
    BY <1>3, <2>2
  <2>4. new \in [Hubs -> Seq(Envelopes)]
    BY <2>3
  <2> HIDE DEF new
  <2>5. \A k \in Hubs : net'[k] \in {net[k], Append(net[k], e)}
    BY <2>1, <2>3
  <2>6. net' \in [Hubs -> Seq(Envelopes)]
    BY <1>3, <2>1, <2>4
  <2> QED
    BY <2>5, <2>6 DEF e
<1> HIDE DEF m
<1>5. ASSUME NEW h \in Hubs, Broadcast(g, h)
      PROVE  \E what \in Asks : /\ Ask(g, what) /\ Goes(g, what, m)
                                /\ \E S \in SUBSET Conns : due' = Append(due, S)
  <2>1. Ask(g, [to |-> "all"]) /\ [to |-> "all"] \in Asks /\ m \in Msgs
    BY <1>2, <1>5 DEF Broadcast, Asks
  <2>2. due' = Append(due, Audience(h)) /\ Audience(h) \in SUBSET Conns
    BY <1>1, <1>5 DEF Broadcast, Types, Audience, Local
  <2>3. Goes(g, [to |-> "all"], m)
    <3>1. CASE mode = "none"
      <4>1. net' = net /\ Local(h, conns) \in SUBSET Conns
            /\ cast' = [cast EXCEPT ![g] = [msg |-> m, targets |-> Local(h, conns)]]
        BY <1>1, <1>5, <3>1 DEF Broadcast, localBroadcast, Types, Local, m
      <4> QED
        BY <1>3, <3>1, <4>1 DEF Goes
    <3>2. CASE mode # "none"
      <4>1. cast' = cast /\ publish(h, Everyone, m) /\ Everyone \in Rooms \cup {Everyone}
        BY <1>5, <3>2 DEF Broadcast, m
      <4> QED
        BY <1>4, <2>1, <4>1 DEF Goes
    <3> QED
      BY <3>1, <3>2
  <2> QED
    BY <2>1, <2>2, <2>3
<1>6. ASSUME NEW h \in Hubs, NEW r \in Rooms, ToRoom(g, h, r)
      PROVE  \E what \in Asks : /\ Ask(g, what) /\ Goes(g, what, m)
                                /\ \E S \in SUBSET Conns : due' = Append(due, S)
  <2> DEFINE w == [to |-> "room", room |-> r]
  <2>1. Ask(g, w) /\ w \in Asks /\ m \in Msgs
    BY <1>2, <1>6 DEF ToRoom, Asks
  <2>2. due' = Append(due, {}) /\ {} \in SUBSET Conns
    BY <1>6 DEF ToRoom
  <2> HIDE DEF w
  <2>3. Goes(g, w, m)
    <3>1. CASE mode = "none"
      <4>1. net' = net /\ Local(h, rooms[r]) \in SUBSET Conns
            /\ cast' = [cast EXCEPT ![g] = [msg |-> m, targets |-> Local(h, rooms[r])]]
        BY <1>1, <1>6, <3>1 DEF ToRoom, localToRoom, Types, Local, m
      <4> QED
        BY <1>3, <3>1, <4>1 DEF Goes
    <3>2. CASE mode # "none"
      <4>1. cast' = cast /\ publish(h, r, m) /\ r \in Rooms \cup {Everyone}
        BY <1>6, <3>2 DEF ToRoom, m
      <4> QED
        BY <1>4, <2>1, <4>1 DEF Goes
    <3> QED
      BY <3>1, <3>2
  <2> QED
    BY <2>1, <2>2, <2>3
<1>7. ASSUME NEW c \in Conns, Send(g, c)
      PROVE  \E what \in Asks : /\ Ask(g, what) /\ Goes(g, what, m)
                                /\ \E S \in SUBSET Conns : due' = Append(due, S)
  <2>1. Ask(g, [to |-> "conn"]) /\ [to |-> "conn"] \in Asks
    BY <1>7 DEF Send, Asks
  <2>2. due' = Append(due, {}) /\ {} \in SUBSET Conns
    BY <1>7 DEF Send
  <2>3. net' = net /\ {c} \in SUBSET Conns
        /\ cast' = [cast EXCEPT ![g] = [msg |-> m, targets |-> {c}]]
    BY <1>7 DEF Send, m
  <2>4. Everyone \in Rooms \cup {Everyone} /\ [to |-> "conn"].to = "conn"
    OBVIOUS
  <2>5. Goes(g, [to |-> "conn"], m)
    BY <1>3, <2>3, <2>4 DEF Goes
  <2> QED
    BY <2>1, <2>2, <2>5
<1>8. ASSUME Resend(g)
      PROVE  \E what \in Asks : /\ Ask(g, what) /\ Goes(g, what, m)
                                /\ \E S \in SUBSET Conns : due' = Append(due, S)
  <2> DEFINE l == last[g]
             w == IF l.room = Everyone THEN [to |-> "all"] ELSE [to |-> "room", room |-> l.room]
  <2>1. /\ Ask(g, w) /\ due' = Append(due, {}) /\ {} \in SUBSET Conns
        /\ publish(l.hub, l.room, m) /\ cast' = cast
    BY <1>8 DEF Resend, m
  <2>2. l.hub \in Hubs /\ l.room \in Rooms \cup {Everyone}
    BY <1>1, <1>8 DEF Resend, Types, Pendings
  <2>3. w \in Asks
    BY <2>2 DEF Asks
  <2> HIDE DEF w, l
  <2>4. m \in Msgs
    BY <1>2, <2>1
  <2>5. Goes(g, w, m)
    BY <1>4, <2>1, <2>2, <2>4 DEF Goes
  <2> QED
    BY <2>1, <2>3, <2>5
<1> QED
  BY <1>5, <1>6, <1>7, <1>8 DEF m

\* A new message is newer than all others.
LEMMA AskKeeps ==
    ASSUME IInv, NEW g \in Callers, NEW what \in Asks, Ask(g, what),
           Goes(g, what, Len(asked) + 1), NEW S \in SUBSET Conns, due' = Append(due, S),
           last' \in [Callers -> Pendings]
    PROVE  IInv'
<1> DEFINE m == Len(asked) + 1
<1>1. /\ UNCHANGED <<conns, rooms, crooms, mixed, closed, closing, send, wpc, out, got, hpc, peer, op>>
      /\ UNCHANGED <<mode, live>>
  BY DEF Ask, maps, queue, pump
<1>2. Types /\ RoomInv /\ BufferInv /\ SentInv
  BY DEF IInv
<1>3. /\ asked' \in Seq(Asks) /\ Len(asked) \in Nat /\ Len(asked') = m /\ m \in Msgs
      /\ \A n \in 1..Len(asked) : asked'[n] = asked[n]
      /\ asked'[m] = what
  <2>1. asked \in Seq(Asks) /\ asked' = Append(asked, what) /\ Len(asked) < MaxMsg
    BY <1>2 DEF Types, Ask
  <2> QED
    BY <2>1, AppendAt, HubAssumption DEF Msgs
<1>4. due' \in Seq(SUBSET Conns) /\ Len(due') = m
  <2>1. due \in Seq(SUBSET Conns) /\ Len(due) = Len(asked)
    BY <1>2 DEF Types
  <2> QED
    BY <2>1, AppendAt
<1>5. \A n \in Msgs : n <= Len(asked) => n \in 1..Len(asked) /\ n < m /\ n <= m /\ Pub(n)' = Pub(n)
  BY <1>3 DEF Pub, Msgs
<1>6. PICK r \in Rooms \cup {Everyone} :
        \A h \in Hubs : net'[h] \in {net[h], Append(net[h], [room |-> r, msg |-> m])}
  BY DEF Goes
<1> DEFINE e == [room |-> r, msg |-> m]
<1>7. e \in Envelopes /\ e.msg = m
  BY <1>3, <1>6 DEF Envelopes
<1>8. \A h \in Hubs : net'[h] = net[h] \/ net'[h] = Append(net[h], e)
  BY <1>6
<1>9. g \in Casters /\ g \notin Hubs
  BY HubAssumption DEF Casters
<1>10. ASSUME NEW T \in SUBSET Conns, cast' = [cast EXCEPT ![g] = [msg |-> m, targets |-> T]]
       PROVE  /\ cast' \in [Casters -> [msg : 0..MaxMsg, targets : SUBSET Conns]]
              /\ \A k \in Casters : k # g => cast'[k] = cast[k]
              /\ cast'[g].msg = m
  <2> DEFINE v == [msg |-> m, targets |-> T]
  <2>1. m \in 0..MaxMsg
    BY <1>3 DEF Msgs
  <2> HIDE DEF m
  <2>2. v \in [msg : 0..MaxMsg, targets : SUBSET Conns] /\ v.msg = m
    BY <2>1
  <2>3. cast' = [cast EXCEPT ![g] = v] /\ cast \in [Casters -> [msg : 0..MaxMsg, targets : SUBSET Conns]]
    BY <1>2, <1>10 DEF Types
  <2> HIDE DEF v
  <2> QED
    BY <1>9, <2>2, <2>3
<1>11. /\ cast' \in [Casters -> [msg : 0..MaxMsg, targets : SUBSET Conns]]
       /\ \A k \in Casters : k # g => cast'[k] = cast[k]
       /\ \/ cast'[g] = cast[g]
          \/ cast'[g].msg = m /\ (mode # "none" => what.to = "conn")
  <2>1. CASE cast' = cast
    BY <1>2, <2>1 DEF Types
  <2>2. CASE cast' # cast
    BY <1>10, <2>2 DEF Goes
  <2> QED
    BY <2>1, <2>2
<1> HIDE DEF m, e
<1>12. \A h \in Hubs :
         /\ net[h] \in Seq(Envelopes) /\ Len(net[h]) \in Nat
         /\ Len(net'[h]) = Len(net[h]) \/ Len(net'[h]) = Len(net[h]) + 1
         /\ \A i \in 1..Len(net[h]) : /\ net'[h][i] = net[h][i] /\ net[h][i].msg \in Msgs
                                      /\ net[h][i].msg <= Len(asked)
         /\ \A i \in 1..Len(net'[h]) : \/ i \in 1..Len(net[h])
                                       \/ i = Len(net[h]) + 1 /\ net'[h][i] = e
  <2> SUFFICES ASSUME NEW h \in Hubs PROVE <1>12!(h)
    OBVIOUS
  <2>1. net[h] \in Seq(Envelopes) /\ Len(net[h]) \in Nat
    BY <1>2 DEF Types
  <2>2. \A i \in 1..Len(net[h]) : net[h][i].msg \in Msgs /\ net[h][i].msg <= Len(asked)
    <3>1. \A i \in 1..Len(net[h]) : net[h][i] \in Envelopes
      BY <2>1
    <3> QED
      BY <1>2, <3>1 DEF Envelopes, SentInv
  <2>3. CASE net'[h] = net[h]
    BY <2>1, <2>2, <2>3
  <2>4. CASE net'[h] = Append(net[h], e)
    BY <1>7, <2>1, <2>2, <2>4, AppendAt
  <2> QED
    BY <1>8, <2>3, <2>4
<1>13. RoomInv'
  BY <1>1, <1>2, RoomsStay
<1>14. Types'
  <2>1. net' \in [Hubs -> Seq(Envelopes)] /\ m <= MaxMsg
    BY <1>3 DEF Goes, Msgs
  <2> QED
    BY <1>1, <1>2, <1>3, <1>4, <1>11, <2>1 DEF Types
<1>15. BufferInv'
  <2>1. \A k \in Casters : cast'[k].targets # {} => cast'[k].msg # 0
    BY <1>2, <1>3, <1>11 DEF BufferInv, Msgs
  <2> QED
    BY <1>1, <1>2, <2>1 DEF BufferInv
<1>16. Len(asked) <= m /\ m <= m /\ m \in Nat
  BY <1>3 DEF m
<1>17. SentInv'
  <2>1. ASSUME NEW d \in Conns PROVE SentTo(d)'
    <3>1. /\ SentTo(d) /\ out[d] \in Nat
          /\ \A i \in 1..Len(send[d]) : send[d][i] \in Nat
          /\ \A i \in 1..Len(got[d]) : got[d][i] \in Nat
      <4>1. out[d] \in 0..MaxMsg /\ send[d] \in Seq(Msgs) /\ got[d] \in Seq(Msgs)
        BY <1>2 DEF Types
      <4>2. /\ \A i \in 1..Len(send[d]) : send[d][i] \in Msgs
            /\ \A i \in 1..Len(got[d]) : got[d][i] \in Msgs
        BY <4>1
      <4> QED
        BY <1>2, <4>1, <4>2 DEF SentInv, Msgs
    <3> QED
      BY <1>1, <1>3, <1>16, <3>1 DEF SentTo
  <2>2. \A k \in Casters : cast'[k].msg <= m
    <3>1. \A k \in Casters : cast[k].msg \in 0..MaxMsg /\ cast[k].msg <= Len(asked)
      BY <1>2 DEF Types, SentInv
    <3> QED
      BY <1>3, <1>11, <1>16, <3>1
  <2>3. \A h \in Hubs : \A i \in 1..Len(net'[h]) : net'[h][i].msg <= m
    <3> SUFFICES ASSUME NEW h \in Hubs, NEW i \in 1..Len(net'[h]) PROVE net'[h][i].msg <= m
      OBVIOUS
    <3>1. CASE i \in 1..Len(net[h])
      <4>1. net'[h][i] = net[h][i] /\ net[h][i].msg \in Msgs /\ net[h][i].msg <= Len(asked)
        BY <1>12, <3>1
      <4> QED
        BY <1>5, <4>1
    <3>2. CASE net'[h][i] = e
      BY <1>7, <1>16, <3>2
    <3> QED
      BY <1>12, <3>1, <3>2
  <2> QED
    BY <1>3, <2>1, <2>2, <2>3 DEF SentInv
<1>18. ASSUME OrderInv, mode = "ok" PROVE OrderInv'
  <2>1. WireInv'
    <3>1. ASSUME NEW h \in Hubs, NEW i \in 1..Len(net'[h]), NEW j \in 1..Len(net'[h]), i < j
          PROVE  net'[h][i].msg < net'[h][j].msg
      <4>0. Len(net[h]) \in Nat
        BY <1>12
      <4>1. i \in 1..Len(net[h])
        BY <1>12, <3>1, <4>0
      <4>2. CASE j \in 1..Len(net[h])
        BY <1>12, <1>18, <3>1, <4>1, <4>2 DEF OrderInv, WireInv
      <4>3. CASE net'[h][j] = e
        <5>1. net'[h][i] = net[h][i] /\ net[h][i].msg \in Msgs /\ net[h][i].msg <= Len(asked)
          BY <1>12, <4>1
        <5> QED
          BY <1>5, <1>7, <4>3, <5>1
      <4> QED
        BY <1>12, <4>2, <4>3
    <3>2. ASSUME NEW h \in Hubs, NEW i \in 1..Len(net'[h]) PROVE cast'[h].msg < net'[h][i].msg
      <4>1. /\ cast'[h] = cast[h] /\ cast[h].msg \in 0..MaxMsg /\ cast[h].msg <= Len(asked)
        BY <1>2, <1>9, <1>11 DEF Casters, SentInv, Types
      <4>2. CASE i \in 1..Len(net[h])
        BY <1>12, <1>18, <4>1, <4>2 DEF OrderInv, WireInv
      <4>3. CASE net'[h][i] = e
        BY <1>3, <1>7, <4>1, <4>3 DEF m
      <4> QED
        BY <1>12, <4>2, <4>3
    <3>3. \A h \in Hubs : \A c \in cast'[h].targets : Home[c] = h
      BY <1>9, <1>11, <1>18 DEF OrderInv, WireInv, Casters
    <3>4. ASSUME NEW k \in Callers, cast'[k].msg # 0 PROVE asked'[cast'[k].msg].to = "conn"
      <4>1. k \in Casters
        BY DEF Casters
      <4>2. CASE cast'[k] = cast[k]
        <5>1. cast[k].msg \in Msgs /\ cast[k].msg <= Len(asked) /\ ~Pub(cast[k].msg)
          BY <1>2, <1>18, <3>4, <4>1, <4>2, HubAssumption DEF Types, SentInv, Msgs, OrderInv, WireInv
        <5>2. asked'[cast[k].msg] = asked[cast[k].msg]
          BY <1>3, <1>5, <5>1
        <5> QED
          BY <4>2, <5>1, <5>2 DEF Pub
      <4>3. CASE cast'[k] # cast[k]
        <5>1. cast'[k].msg = m /\ what.to = "conn"
          BY <1>11, <1>18, <4>1, <4>3
        <5> QED
          BY <1>3, <5>1
      <4> QED
        BY <4>2, <4>3
    <3> QED
      BY <3>1, <3>2, <3>3, <3>4 DEF WireInv, Pub
  <2>2. ASSUME NEW d \in Conns PROVE PipeTo(d)' /\ ClientOf(d)'
    <3>1. /\ Home[d] \in Hubs /\ Home[d] \in Casters /\ cast'[Home[d]] = cast[Home[d]]
          /\ PipeTo(d) /\ ClientOf(d)
      <4>1. Home[d] \in Hubs /\ Home[d] \in Casters /\ Home[d] # g
        BY <1>9, HubAssumption DEF Casters
      <4>2. cast'[Home[d]] = cast[Home[d]]
        BY <1>11, <4>1
      <4>3. PipeTo(d) /\ ClientOf(d)
        BY <1>18 DEF OrderInv, PipeInv, ClientInv
      <4> QED
        BY <4>1, <4>2, <4>3
    <3>2. /\ \A i \in 1..Len(send[d]) : send[d][i] \in Msgs /\ send[d][i] <= Len(asked)
          /\ \A i \in 1..Len(got[d]) : got[d][i] \in Msgs /\ got[d][i] <= Len(asked)
          /\ out[d] # 0 => out[d] \in Msgs /\ out[d] <= Len(asked)
      BY <1>2, HubAssumption DEF SentInv, SentTo, Types, Msgs
    <3>3. PipeTo(d)'
      <4>1. ASSUME NEW n \in Msgs, Reached(d, n)' PROVE Reached(d, n) /\ n <= Len(asked)
        BY <1>1, <3>2, <4>1 DEF Reached
      <4>2. ASSUME NEW n \in Msgs, Reached(d, n), n <= Len(asked), Pub(n),
                   NEW i \in 1..Len(net'[Home[d]])
            PROVE  n < net'[Home[d]][i].msg
        <5>1. CASE i \in 1..Len(net[Home[d]])
          BY <1>12, <3>1, <4>2, <5>1 DEF PipeTo
        <5>2. CASE net'[Home[d]][i] = e
          BY <1>5, <1>7, <4>2, <5>2
        <5> QED
          BY <1>12, <3>1, <5>1, <5>2
      <4>3. ASSUME NEW n \in Msgs, Reached(d, n)', Pub(n)'
            PROVE  Reached(d, n) /\ n <= Len(asked) /\ Pub(n)
        BY <1>5, <4>1, <4>3
      <4> QED
        BY <3>1, <4>2, <4>3 DEF PipeTo
    <3>4. ClientOf(d)'
      <4>1. InOrder(got[d])'
        BY <1>1, <1>5, <3>1, <3>2 DEF ClientOf, InOrder
      <4>2. InOrder(send[d])'
        BY <1>1, <1>5, <3>1, <3>2 DEF ClientOf, InOrder
      <4> QED
        BY <1>1, <1>5, <3>1, <3>2, <4>1, <4>2 DEF ClientOf
    <3> QED
      BY <3>3, <3>4
  <2> QED
    BY <2>1, <2>2 DEF OrderInv, PipeInv, ClientInv
<1> QED
  BY <1>1, <1>13, <1>14, <1>15, <1>17, <1>18 DEF IInv, OrderInv

-----------------------------------------------------------------------------
(* The theorems. *)

\* Every step of the hubs keeps the invariant.
LEMMA NextKeeps ==
    ASSUME IInv, [Next]_vars
    PROVE  IInv'
<1>1. ASSUME NEW c \in Conns, Handling(c) \/ writePump(c) \/ CloseConn(c) \/ PeerChanges(c)
      PROVE  IInv'
  BY <1>1, HandlerKeeps, PumpKeeps, ClosingKeeps
<1>2. ASSUME NEW g \in Roomers,
             RoomOp(g) \/ \E c \in Conns, r \in Rooms : Join(g, c, r) \/ Leave(g, c, r)
      PROVE  IInv'
  BY <1>2, RoomsKeep
<1>3. ASSUME NEW g \in Callers, \/ \E h \in Hubs : Broadcast(g, h) \/ \E r \in Rooms : ToRoom(g, h, r)
                                \/ \E c \in Conns : Send(g, c)
                                \/ Resend(g)
      PROVE  IInv'
  <2>1. PICK what \in Asks : /\ Ask(g, what) /\ Goes(g, what, Len(asked) + 1)
                             /\ \E S \in SUBSET Conns : due' = Append(due, S)
    BY <1>3, AskGoes
  <2>2. last' \in [Callers -> Pendings]
    BY <1>3, PendingTypes DEF IInv
  <2> QED
    BY <2>1, <2>2, AskKeeps
<1>4. ASSUME NEW h \in Hubs, Deliver(h) \/ LoseEnvelope(h) \/ HubClose(h) PROVE IInv'
  BY <1>4, DeliverKeeps, LossKeeps
<1>5. ASSUME NEW g \in Casters, Fanout(g) PROVE IInv'
  BY <1>5, FanoutKeeps
<1>6. CASE UNCHANGED vars
  <2>1. /\ UNCHANGED <<conns, rooms, crooms, mixed, closed, closing, send, wpc, out, got, hpc, peer, op>>
        /\ UNCHANGED <<mode, cast, net, last, live, asked, due>>
    BY <1>6 DEF vars, maps, queue, pump, wire
  <2>2. SentInv' /\ (OrderInv => OrderInv')
    BY <2>1, MessagesStay DEF IInv
  <2>3. RoomInv'
    BY <2>1, RoomsStay DEF IInv
  <2>4. Types' /\ BufferInv'
    BY <2>1 DEF IInv, Types, BufferInv
  <2> QED
    BY <2>1, <2>2, <2>3, <2>4 DEF IInv, OrderInv
<1> QED
  BY <1>1, <1>2, <1>3, <1>4, <1>5, <1>6 DEF Next, Handling, OnConnectReturns, Runs, Leaves,
    Closes, Receives

\* The hubs start in the invariant, with no connection and no message.
LEMMA InitHolds == Init => IInv
<1> SUFFICES ASSUME Init PROVE IInv
  OBVIOUS
<1>0. 0 \in 0..MaxMsg /\ 0 <= MaxMsg /\ 0 <= SendBuf
  BY HubAssumption
<1>1. Types
  <2>1. cast \in [Casters -> [msg : 0..MaxMsg, targets : SUBSET Conns]]
    BY <1>0 DEF Init, Quiet
  <2>2. /\ rooms \in [Rooms -> SUBSET Conns] /\ crooms \in [Conns -> SUBSET Rooms]
        /\ closed \in [Conns -> BOOLEAN] /\ send \in [Conns -> Seq(Msgs)]
        /\ hpc \in [Conns -> HandlerStates] /\ out \in [Conns -> 0..MaxMsg]
    BY <1>0 DEF Init, HandlerStates
  <2>3. /\ wpc \in [Conns -> PumpStates]
        /\ peer \in [Conns -> {"up", "stalled", "down"}]
        /\ op \in [Roomers -> Ops] /\ last \in [Callers -> Pendings]
    BY DEF Init, PumpStates, Ops, Pendings
  <2>4. /\ net \in [Hubs -> Seq(Envelopes)] /\ got \in [Conns -> Seq(Msgs)]
        /\ asked \in Seq(Asks) /\ Len(asked) <= MaxMsg
        /\ due \in Seq(SUBSET Conns) /\ Len(due) = Len(asked)
    BY <1>0 DEF Init
  <2> QED
    BY <2>1, <2>2, <2>3, <2>4 DEF Init, Types
<1>2. BufferInv
  BY <1>0 DEF Init, BufferInv, Quiet
<1>4. RoomInv
  BY DEF Init, RoomInv, RoomsOf, Member, Roaming
<1>5. SentInv
  BY DEF Init, SentInv, SentTo, Quiet
<1>6. WireInv
  <2>1. \A g \in Casters : cast[g].msg = 0 /\ cast[g].targets = {}
    BY DEF Init, Quiet
  <2>2. \A h \in Hubs : Len(net[h]) = 0
    BY DEF Init
  <2> QED
    BY <2>1, <2>2 DEF WireInv, Casters
<1>7. PipeInv
  BY DEF Init, PipeInv, PipeTo, Reached
<1>8. ClientInv
  BY DEF Init, ClientInv, ClientOf, InOrder
<1> QED
  BY <1>1, <1>2, <1>4, <1>5, <1>6, <1>7, <1>8 DEF IInv

\* IInv is an inductive invariant of the hubs.
THEOREM Inductive == Spec => []IInv
<1> QED
  BY InitHolds, NextKeeps, PTL DEF Spec

\* The state keeps its types; in particular no buffer of a connection grows beyond sendBuf.
THEOREM TypeCorrect == Spec => []TypeOK
<1>1. IInv => TypeOK
  <2> SUFFICES ASSUME Types, BufferInv PROVE TypeOK
    BY DEF IInv
  <2>1. /\ \A g \in Roomers :
              op[g] = Idle \/ op[g] \in [kind : {"join", "leave"}, conn : Conns, room : Rooms]
        /\ \A g \in Callers :
              \/ last[g] = Sent
              \/ last[g] \in [hub : Hubs, room : Rooms \cup {Everyone}, left : 1..MaxResend]
    BY DEF Types, Ops, Pendings
  <2>2. DOMAIN due = DOMAIN asked
    BY DEF Types
  <2> QED
    BY <2>1, <2>2 DEF TypeOK, Types, BufferInv, Envelopes
<1> QED
  BY <1>1, Inductive, PTL

\* Conn.rooms and Hub.rooms, each under its own lock, agree whichever goroutine joined or
\* left last, and unregister leaves no trace of the connection, as long as no Join or Leave
\* of a connection runs into another one or into unregister.
THEOREM RoomsAgreeTheorem == Spec => []RoomsAgree
<1>1. IInv => RoomsAgree
  BY DEF IInv, RoomInv, RoomsOf, RoomsAgree, BeforeUnregister
<1> QED
  BY <1>1, Inductive, PTL

\* backplane.go's single delivery path: whatever Redis loses, whichever PUBLISH go-redis sends
\* again and whoever sends besides, a client gets what Redis took in the order in which Redis
\* took it, and nothing twice of what Redis took once.
THEOREM PublishedOrderTheorem == Spec => []PublishedOrder
<1>1. IInv => PublishedOrder
  <2> SUFFICES ASSUME Types, ClientInv, NEW c \in Conns, NEW i \in DOMAIN got[c],
                      NEW j \in DOMAIN got[c],
                      i < j, asked[got[c][i]].to # "conn", asked[got[c][j]].to # "conn"
               PROVE  got[c][i] < got[c][j]
    BY DEF IInv, PublishedOrder
  <2>1. DOMAIN got[c] = 1..Len(got[c])
    BY DEF Types
  <2> QED
    BY <2>1 DEF ClientInv, ClientOf, InOrder, Pub
<1> QED
  BY <1>1, Inductive, PTL

\* enqueue looks at c.closed under the lock that Close takes: no goroutine sends on the
\* closed channel, even one that copied its targets before the close.
THEOREM NoSendOnClosedTheorem == Spec => NoSendOnClosed
<1> DEFINE Kept(c) == closed[c] => closed'[c] /\ Len(send'[c]) <= Len(send[c])
<1>1. ASSUME IInv, [Next]_vars, NEW c \in Conns, closed[c] PROVE Kept(c)
  <2>1. /\ Types /\ Len(send[c]) \in Nat /\ Len(send[c]) <= Len(send[c])
    BY <1>1 DEF IInv, Types
  <2>2. ASSUME closed' = closed \/ \E d \in Conns : closed' = [closed EXCEPT ![d] = TRUE],
               send' = send
        PROVE  Kept(c)
    BY <1>1, <2>1, <2>2 DEF Types
  <2>3. ASSUME NEW d \in Conns, Handling(d) \/ CloseConn(d) PROVE Kept(c)
    BY <2>2, <2>3 DEF Handling, Upgrade, Reject, register, StartPumps, ReadErr, unregister,
      HandlerClose, HandlerReturns, Panic, HandlerStep, CloseConn
  <2>4. ASSUME NEW d \in Conns, writePump(d) PROVE Kept(c)
    <3>1. closed' = closed
      BY <2>4 DEF writePump, Take, Written, WriteErr, Drained, Bye, PingErr, CloseDone, Wild, PumpStep
    <3>2. CASE Take(d)
      <4>1. send' = [send EXCEPT ![d] = Tail(send[d])] /\ send[d] \in Seq(Msgs) /\ send[d] # <<>>
        BY <2>1, <3>2 DEF Take, Types
      <4>2. Len(Tail(send[d])) <= Len(send[d])
        BY <4>1, TailAt
      <4> QED
        BY <1>1, <2>1, <3>1, <4>1, <4>2 DEF Types
    <3>3. CASE ~Take(d)
      BY <2>2, <2>4, <3>1, <3>3 DEF writePump, Written, WriteErr, Drained, Bye, PingErr, CloseDone,
        Wild
    <3> QED
      BY <3>2, <3>3
  <2>5. ASSUME NEW g \in Casters, Fanout(g) PROVE Kept(c)
    <3>1. CASE NoTarget(g)
      BY <2>2, <3>1 DEF NoTarget, queue
    <3>2. ASSUME NEW d \in Conns, enqueue(g, d) PROVE Kept(c)
      <4>1. closed' = closed /\ (closed[d] => send' = send)
        BY <3>2 DEF enqueue, queue
      <4>2. d # c => send'[c] = send[c]
        BY <2>1, <3>2 DEF enqueue, queue, Types
      <4> QED
        BY <1>1, <2>1, <4>1, <4>2
    <3> QED
      BY <2>5, <3>1, <3>2 DEF Fanout
  <2>6. ASSUME \/ UNCHANGED vars
               \/ \E d \in Conns : PeerChanges(d)
               \/ \E g \in Roomers : RoomOp(g)
               \/ \E g \in Roomers, d \in Conns, r \in Rooms : Join(g, d, r) \/ Leave(g, d, r)
               \/ \E g \in Callers, h \in Hubs :
                     Broadcast(g, h) \/ \E r \in Rooms : ToRoom(g, h, r)
               \/ \E g \in Callers, d \in Conns : Send(g, d)
               \/ \E g \in Callers : Resend(g)
               \/ \E h \in Hubs : Deliver(h) \/ LoseEnvelope(h) \/ HubClose(h)
        PROVE  Kept(c)
    <3>1. closed' = closed /\ send' = send
      BY <2>6 DEF vars, queue, PeerChanges, RoomOp, addToRoom, removeFromRoom, Join, Leave,
        RoomCall, Resend, Broadcast, ToRoom, Send, Ask, Deliver, LoseEnvelope, HubClose
    <3> QED
      BY <2>2, <3>1
  <2> QED
    BY <1>1, <2>3, <2>4, <2>5, <2>6 DEF Next, Handling, OnConnectReturns, Runs, Leaves, Closes,
      Receives
<1>2. IInv /\ [Next]_vars => [\A c \in Conns : Kept(c)]_vars
  BY <1>1
<1> QED
  BY <1>2, Inductive, PTL DEF Spec, NoSendOnClosed
=============================================================================
