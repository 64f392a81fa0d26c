-------------------------------- MODULE Hub --------------------------------
(***************************************************************************)
(* Package ws: the hubs of one or more replicas, their connections and     *)
(* rooms, and the Redis backplane that joins them.  The actors are the     *)
(* handler goroutine of each connection (OnConnect, the read pump and what *)
(* follows it), its write pump, the application's goroutines that          *)
(* broadcast, send, join and leave, those running Conn.Close, and the      *)
(* backplane's subscribers.  A connection belongs to one hub, so the maps  *)
(* conns and rooms below are the disjoint unions of the hubs' maps.        *)
(***************************************************************************)
EXTENDS Integers, Sequences, FiniteSets, Functions

CONSTANTS
    Hubs,        \* replicas
    Conns,       \* connections that may be upgraded, each once
    Home,        \* the hub of each connection
    Rooms,       \* room names; "" may be one of them
    Callers,     \* goroutines that call Broadcast, ToRoom, Send, Join and Leave
    SendBuf,     \* hubConfig.sendBuf
    Ping,        \* is the keepalive on (hubConfig.ping > 0)?
    Modes,       \* the backplanes considered
    Stalls,      \* may a peer stop reading for good, without closing?
    MaxResend,   \* bound on the times go-redis sends one PUBLISH again
    MaxMsg       \* bound on the messages sent, copies included

ASSUME HubAssumption ==
    /\ Home \in [Conns -> Hubs]
    /\ SendBuf \in Nat \ {0} /\ MaxMsg \in Nat /\ MaxResend \in Nat
    /\ Ping \in BOOLEAN /\ Stalls \in BOOLEAN
    /\ Modes \subseteq {"none", "ok", "failed"}
    /\ Callers \cap Hubs = {} /\ Callers \cap Conns = {}

VARIABLES
    mode,            \* Hub.bp: "none", "ok", or "failed" if its Subscribe failed
    conns, rooms,    \* Hub.conns and Hub.rooms
    crooms,          \* Conn.rooms
    closed,          \* Conn.closed, which is also "c.send is closed"
    send,            \* Conn.send, the buffered messages
    hpc, wpc,        \* the handler and the write pump of each connection
    out,             \* the message the write pump is writing, 0 for none
    peer,            \* the client's side: "up", "stalled" or "down"
    closing,         \* connections on which some goroutine is to run Close
    op,              \* op[g]: the Join or Leave that g is in the middle of
    mixed,           \* ghost: connections on which a Join or Leave ran into another
                     \* one or into unregister, or came after it
    cast,            \* cast[g]: the message g fans out and the targets left
    net,             \* net[h]: envelopes on their way to h's subscriber
    last,            \* last[g]: the PUBLISH g may still wait for, and send again
    live,            \* hubs whose Close has not run
    asked,           \* ghost: what was asked of the messages sent so far, in order
    due,             \* ghost: connections registered when a message was sent, less
                     \* those of hubs whose envelope Redis lost
    got              \* ghost: the messages written to each client, in order

maps  == <<conns, rooms, crooms, mixed>>
queue == <<closed, send, closing>>
pump  == <<wpc, out, got>>
wire  == <<mode, cast, net, last, live, asked, due>>   \* what is sent to whom
vars  == <<maps, queue, pump, wire, hpc, peer, op>>

Everyone == ""                            \* the room of a broadcast's envelope
Msgs     == 1..MaxMsg
Casters  == Callers \cup Hubs             \* a hub stands for its subscriber
Roomers  == Callers \cup Conns            \* a connection stands for its handler
Idle     == [kind |-> "idle"]
Sent     == [left |-> 0]                  \* no PUBLISH to send again
Quiet    == [msg |-> 0, targets |-> {}]

HandlerStates == {"none", "connect", "registered", "read", "leaving",
                  "close", "wait", "gone", "rejected", "panicked"}
PumpStates == {"none", "run", "write", "bye", "exit", "done", "wild"}

TypeOK ==
    /\ mode \in Modes
    /\ conns \subseteq Conns
    /\ rooms \in [Rooms -> SUBSET Conns]
    /\ crooms \in [Conns -> SUBSET Rooms]
    /\ closed \in [Conns -> BOOLEAN]
    /\ \A c \in Conns : send[c] \in Seq(Msgs) /\ Len(send[c]) <= SendBuf
    /\ hpc \in [Conns -> HandlerStates]
    /\ wpc \in [Conns -> PumpStates]
    /\ out \in [Conns -> 0..MaxMsg]
    /\ peer \in [Conns -> {"up", "stalled", "down"}]
    /\ closing \subseteq Conns
    /\ \A g \in Roomers :
          op[g] = Idle \/ op[g] \in [kind : {"join", "leave"}, conn : Conns, room : Rooms]
    /\ mixed \subseteq Conns
    /\ cast \in [Casters -> [msg : 0..MaxMsg, targets : SUBSET Conns]]
    /\ \A h \in Hubs : net[h] \in Seq([room : Rooms \cup {Everyone}, msg : Msgs])
    /\ \A g \in Callers :
          last[g] = Sent \/ last[g] \in [hub : Hubs, room : Rooms \cup {Everyone}, left : 1..MaxResend]
    /\ live \subseteq Hubs
    /\ Len(asked) <= MaxMsg
    /\ DOMAIN due = DOMAIN asked
    /\ \A c \in Conns : got[c] \in Seq(Msgs)

Init ==
    /\ mode \in Modes
    /\ conns = {}
    /\ rooms = [r \in Rooms |-> {}]
    /\ crooms = [c \in Conns |-> {}]
    /\ closed = [c \in Conns |-> FALSE]
    /\ send = [c \in Conns |-> <<>>]
    /\ hpc = [c \in Conns |-> "none"]
    /\ wpc = [c \in Conns |-> "none"]
    /\ out = [c \in Conns |-> 0]
    /\ peer = [c \in Conns |-> "up"]
    /\ closing = {}
    /\ op = [g \in Roomers |-> Idle]
    /\ mixed = {}
    /\ cast = [g \in Casters |-> Quiet]
    /\ net = [h \in Hubs |-> <<>>]
    /\ last = [g \in Callers |-> Sent]
    /\ live = Hubs
    /\ asked = <<>>
    /\ due = <<>>
    /\ got = [c \in Conns |-> <<>>]

-----------------------------------------------------------------------------
(* The handler of a connection: Hub.Handle and Conn.readPump. *)

\* The goroutines in the middle of a Join or Leave of c.
Roaming(c) == {g \in Roomers : op[g] # Idle /\ op[g].conn = c}

\* A step of the handler itself: it is not inside a callback's Join or Leave.
HandlerStep(c, from, to) ==
    /\ hpc[c] = from /\ op[c] = Idle
    /\ hpc' = [hpc EXCEPT ![c] = to]
    /\ UNCHANGED <<crooms, send, closing, out, got, wire, peer, op>>
    /\ mixed' = IF from = "leaving" /\ to = "close" /\ Roaming(c) # {} THEN mixed \cup {c}
                ELSE mixed

Upgrade(c) ==
    /\ HandlerStep(c, "none", "connect")
    /\ UNCHANGED <<conns, rooms, closed, wpc>>

\* OnConnect returned an error: the handler returns at once.
Reject(c) ==
    /\ HandlerStep(c, "connect", "rejected")
    /\ UNCHANGED <<conns, rooms, closed, wpc>>

\* OnConnect returned nil: register.
register(c) ==
    /\ HandlerStep(c, "connect", "registered")
    /\ conns' = conns \cup {c}
    /\ UNCHANGED <<rooms, closed, wpc>>

StartPumps(c) ==
    /\ HandlerStep(c, "registered", "read")
    /\ wpc' = [wpc EXCEPT ![c] = "run"]
    /\ UNCHANGED <<conns, rooms, closed>>

SocketStaysOpen(c) == FALSE   \* mutant: the deferred ws.Close() is missing

\* The write pump closes the socket on its way out.
SocketClosed(c) == wpc[c] \in {"exit", "done"}

\* ReadMessage fails: the socket is closed here or there, or no pong arrived
\* within the read deadline.
ReadErr(c) ==
    /\ SocketClosed(c) \/ peer[c] = "down" \/ (Ping /\ peer[c] = "stalled")
    /\ HandlerStep(c, "read", "leaving")
    /\ UNCHANGED <<conns, rooms, closed, wpc>>

unregisterConnOnly(c) ==    \* mutant: the rooms are left as they are
    /\ HandlerStep(c, "leaving", "close")
    /\ conns' = conns \ {c}
    /\ UNCHANGED <<rooms, closed, wpc>>

\* OnDisconnect has returned: unregister.
unregister(c) ==
    /\ HandlerStep(c, "leaving", "close")
    /\ conns' = conns \ {c}
    /\ rooms' = [r \in Rooms |-> rooms[r] \ {c}]
    /\ UNCHANGED <<closed, wpc>>

HandlerClose(c) ==
    /\ HandlerStep(c, "close", "wait")
    /\ closed' = [closed EXCEPT ![c] = TRUE]
    /\ UNCHANGED <<conns, rooms, wpc>>

\* <-c.done: the library recycles the socket once the handler has returned.
HandlerReturns(c) ==
    /\ wpc[c] = "done"
    /\ HandlerStep(c, "wait", "gone")
    /\ UNCHANGED <<conns, rooms, closed, wpc>>

\* The handler's goroutine runs callbacks: OnConnect, OnMessage when there is
\* a message to read, OnDisconnect.
MayCall(c) ==
    \/ hpc[c] \in {"connect", "leaving"}
    \/ hpc[c] = "read" /\ peer[c] = "up" /\ ~SocketClosed(c)

\* A callback panics. The library recovers and recycles the socket; unregister, Close
\* and <-c.done are not deferred.
Panic(c) ==
    /\ MayCall(c)
    /\ HandlerStep(c, hpc[c], "panicked")
    /\ UNCHANGED <<conns, rooms, closed, wpc>>

-----------------------------------------------------------------------------
(* The write pump.  WriteMessage has no deadline, so it waits for as long as *)
(* the peer does not read; a ping's WriteControl has one.                    *)

PumpStep(c, from, to) ==
    /\ wpc[c] = from
    /\ wpc' = [wpc EXCEPT ![c] = to]
    /\ UNCHANGED <<maps, closed, closing, wire, hpc, peer, op>>

Take(c) ==
    /\ send[c] # <<>>
    /\ PumpStep(c, "run", "write")
    /\ out' = [out EXCEPT ![c] = Head(send[c])]
    /\ send' = [send EXCEPT ![c] = Tail(@)]
    /\ UNCHANGED got

Written(c) ==
    /\ peer[c] = "up"
    /\ PumpStep(c, "write", "run")
    /\ out' = [out EXCEPT ![c] = 0]
    /\ got' = [got EXCEPT ![c] = Append(@, out[c])]
    /\ UNCHANGED send

\* The deferred ws.Close() is part of leaving the loop.
WriteErr(c) ==
    /\ peer[c] = "down"
    /\ PumpStep(c, "write", "exit")
    /\ out' = [out EXCEPT ![c] = 0]
    /\ UNCHANGED <<send, got>>

\* The channel is closed and empty: write the close message and leave.
Drained(c) ==
    /\ closed[c] /\ send[c] = <<>>
    /\ PumpStep(c, "run", "bye")
    /\ UNCHANGED <<send, out, got>>

Bye(c) ==
    /\ peer[c] # "stalled"
    /\ PumpStep(c, "bye", "exit")
    /\ UNCHANGED <<send, out, got>>

PingErr(c) ==
    /\ Ping /\ peer[c] # "up"
    /\ PumpStep(c, "run", "exit")
    /\ UNCHANGED <<send, out, got>>

CloseDone(c) ==
    /\ PumpStep(c, "exit", "done")
    /\ UNCHANGED <<send, out, got>>

\* After a panic the pump uses the recycled socket: another connection's, or none.
Wild(c) ==
    /\ hpc[c] = "panicked"
    /\ \/ Ping /\ PumpStep(c, "run", "wild")
       \/ PumpStep(c, "write", "wild")
       \/ PumpStep(c, "bye", "wild")
    /\ UNCHANGED <<send, out, got>>

\* Nothing is said of what follows.
Sane == \A c \in Conns : wpc[c] # "wild"

writePump(c) == Sane /\
    IF hpc[c] = "panicked" THEN Wild(c) \/ Take(c) \/ Drained(c) \/ CloseDone(c) ELSE
    Take(c) \/ Written(c) \/ WriteErr(c) \/ Drained(c) \/ Bye(c) \/ PingErr(c) \/ CloseDone(c)

-----------------------------------------------------------------------------
(* Conn.Join and Conn.Leave: Conn.rooms under the connection's lock, then    *)
(* Hub.rooms under the hub's.                                                *)

\* A callback of c calls them on c, any other goroutine of the application on a
\* connection it has seen.
MayRoom(g, c) ==
    /\ op[g] = Idle
    /\ \/ g = c /\ MayCall(c)
       \/ g \in Callers /\ cast[g] = Quiet /\ hpc[c] # "none"

RoomCall(g, c, r, kind) ==
    /\ MayRoom(g, c)
    /\ op' = [op EXCEPT ![g] = [kind |-> kind, conn |-> c, room |-> r]]
    /\ mixed' = IF Roaming(c) # {} \/ hpc[c] \in {"close", "wait", "gone"} THEN mixed \cup {c}
                ELSE mixed
    /\ last' = [k \in Callers |-> IF k = g THEN Sent ELSE last[k]]
    /\ UNCHANGED <<mode, conns, rooms, queue, pump, cast, net, live, asked, due, hpc, peer>>

Join(g, c, r) ==
    /\ RoomCall(g, c, r, "join")
    /\ crooms' = [crooms EXCEPT ![c] = @ \cup {r}]

Leave(g, c, r) ==
    /\ RoomCall(g, c, r, "leave")
    /\ crooms' = [crooms EXCEPT ![c] = @ \ {r}]

addToRoom(g) ==
    /\ op[g].kind = "join"
    /\ rooms' = [rooms EXCEPT ![op[g].room] = @ \cup {op[g].conn}]
    /\ op' = [op EXCEPT ![g] = Idle]
    /\ UNCHANGED <<conns, crooms, mixed, queue, pump, wire, hpc, peer>>

removeFromRoom(g) ==
    /\ op[g].kind = "leave"
    /\ rooms' = [rooms EXCEPT ![op[g].room] = @ \ {op[g].conn}]
    /\ op' = [op EXCEPT ![g] = Idle]
    /\ UNCHANGED <<conns, crooms, mixed, queue, pump, wire, hpc, peer>>

-----------------------------------------------------------------------------
(* Broadcast, ToRoom and Send. *)

Local(h, S) == {c \in S : Home[c] = h}

\* The targets are copied under the read lock and served one by one after it.
localBroadcast(g, h, m) == cast' = [cast EXCEPT ![g] = [msg |-> m, targets |-> Local(h, conns)]]

localToRoom(g, h, r, m) ==
    cast' = [cast EXCEPT ![g] = [msg |-> m, targets |-> Local(h, rooms[r])]]

\* Redis hands an envelope to the subscribers there are.  A hub whose Subscribe
\* failed has none; one that was closed publishes nothing.
publish(h, r, m) ==
    net' = IF h \notin live THEN net
           ELSE [k \in Hubs |-> IF k \in live /\ mode = "ok"
                                  THEN Append(net[k], [room |-> r, msg |-> m]) ELSE net[k]]

\* A caller starts on a new message m.
Ask(g, what) ==
    /\ cast[g] = Quiet /\ op[g] = Idle
    /\ Len(asked) < MaxMsg
    /\ asked' = Append(asked, what)
    /\ UNCHANGED <<mode, maps, queue, pump, live, hpc, peer, op>>

\* While a reply to g's PUBLISH is missing it may be sent again, as long as the hub is
\* not closed.
Waits(g, h, r) ==
    last' = [last EXCEPT ![g] =
        IF mode # "none" /\ h \in live /\ MaxResend > 0
          THEN [hub |-> h, room |-> r, left |-> MaxResend] ELSE Sent]

\* Whom a Broadcast of hub h is for.
Audience(h) ==
    IF h \notin live THEN {} ELSE IF mode = "ok" THEN conns ELSE Local(h, conns)

BroadcastLocalFirst(g, h) == LET m == Len(asked) + 1 IN  \* mutant: a second delivery path
    /\ Ask(g, [to |-> "all"])
    /\ due' = Append(due, Audience(h)) /\ Waits(g, h, Everyone)
    /\ localBroadcast(g, h, m)
    /\ IF mode = "none" THEN UNCHANGED net ELSE publish(h, Everyone, m)

Broadcast(g, h) == LET m == Len(asked) + 1 IN
    /\ Ask(g, [to |-> "all"])
    /\ due' = Append(due, Audience(h)) /\ Waits(g, h, Everyone)
    /\ IF mode = "none" THEN localBroadcast(g, h, m) /\ UNCHANGED net
                             ELSE publish(h, Everyone, m) /\ UNCHANGED cast

ToRoom(g, h, r) == LET m == Len(asked) + 1 IN
    /\ Ask(g, [to |-> "room", room |-> r])
    /\ due' = Append(due, {}) /\ Waits(g, h, r)
    /\ IF mode = "none" THEN localToRoom(g, h, r, m) /\ UNCHANGED net
                             ELSE publish(h, r, m) /\ UNCHANGED cast

Send(g, c) ==
    /\ hpc[c] # "none"
    /\ Ask(g, [to |-> "conn"])
    /\ due' = Append(due, {}) /\ last' = [last EXCEPT ![g] = Sent]
    /\ cast' = [cast EXCEPT ![g] = [msg |-> Len(asked) + 1, targets |-> {c}]]
    /\ UNCHANGED net

\* The reply to the PUBLISH was lost: go-redis sends it again, and Redis takes it for
\* another message.
Resend(g) == LET l == last[g] IN
    /\ l # Sent /\ l.hub \in live
    /\ Ask(g, IF l.room = Everyone THEN [to |-> "all"] ELSE [to |-> "room", room |-> l.room])
    /\ due' = Append(due, {})
    /\ publish(l.hub, l.room, Len(asked) + 1) /\ UNCHANGED cast
    /\ last' = [last EXCEPT ![g] = IF l.left = 1 THEN Sent ELSE [l EXCEPT !.left = @ - 1]]

\* The subscriber's goroutine takes the next envelope when it is done with one.
Deliver(h) ==
    /\ net[h] # <<>> /\ cast[h] = Quiet /\ h \in live
    /\ LET e == Head(net[h]) IN
         IF e.room = Everyone THEN localBroadcast(h, h, e.msg)
                              ELSE localToRoom(h, h, e.room, e.msg)
    /\ net' = [net EXCEPT ![h] = Tail(@)]
    /\ UNCHANGED <<mode, maps, queue, pump, live, last, asked, due, hpc, peer, op>>

\* Pub/sub keeps nothing for a subscriber that is reconnecting.
LoseEnvelope(h) ==
    /\ net[h] # <<>>
    /\ net' = [net EXCEPT ![h] = Tail(@)]
    /\ due' = [due EXCEPT ![Head(net[h]).msg] = @ \ Local(h, Conns)]
    /\ UNCHANGED <<mode, maps, queue, pump, cast, live, last, asked, hpc, peer, op>>

\* g is done with target c; the last one ends the call.
Served(g, c) ==
    /\ cast' = [cast EXCEPT ![g] =
         IF @.targets = {c} THEN Quiet ELSE [msg |-> @.msg, targets |-> @.targets \ {c}]]
    /\ UNCHANGED <<mode, maps, pump, net, live, last, asked, due, hpc, peer, op>>

enqueueDrop(g, c) ==        \* mutant: a full buffer loses the message and nothing else
    /\ c \in cast[g].targets
    /\ Served(g, c)
    /\ IF ~closed[c] /\ Len(send[c]) < SendBuf
         THEN send' = [send EXCEPT ![c] = Append(@, cast[g].msg)] /\ UNCHANGED <<closed, closing>>
         ELSE UNCHANGED queue

enqueueUnchecked(g, c) ==   \* mutant: c.closed is not looked at
    /\ c \in cast[g].targets
    /\ Served(g, c)
    /\ IF Len(send[c]) < SendBuf
         THEN send' = [send EXCEPT ![c] = Append(@, cast[g].msg)] /\ UNCHANGED <<closed, closing>>
         ELSE closing' = closing \cup {c} /\ UNCHANGED <<closed, send>>

\* Under the connection's lock: ErrClosed, a place in the buffer, or
\* ErrSlowClient and a goroutine that will close the connection.
enqueue(g, c) ==
    /\ c \in cast[g].targets
    /\ Served(g, c)
    /\ CASE closed[c] -> UNCHANGED queue
         [] ~closed[c] /\ Len(send[c]) < SendBuf ->
              send' = [send EXCEPT ![c] = Append(@, cast[g].msg)] /\ UNCHANGED <<closed, closing>>
         [] OTHER -> closing' = closing \cup {c} /\ UNCHANGED <<closed, send>>

\* A call with no target ends without a step on any connection.
NoTarget(g) ==
    /\ cast[g].msg # 0 /\ cast[g].targets = {}
    /\ cast' = [cast EXCEPT ![g] = Quiet]
    /\ UNCHANGED <<mode, maps, queue, pump, net, live, last, asked, due, hpc, peer, op>>

-----------------------------------------------------------------------------
(* Closing. *)

\* Conn.Close, run by `go c.Close()` or by Hub.Close's loop.
CloseConn(c) ==
    /\ c \in closing
    /\ closing' = closing \ {c}
    /\ closed' = [closed EXCEPT ![c] = TRUE]
    /\ UNCHANGED <<maps, send, pump, wire, hpc, peer, op>>

\* Hub.Close ends the subscription and closes the registered connections.
HubClose(h) ==
    /\ h \in live
    /\ live' = live \ {h}
    /\ net' = [net EXCEPT ![h] = <<>>]
    /\ closing' = closing \cup Local(h, conns)
    /\ UNCHANGED <<mode, maps, closed, send, pump, cast, last, asked, due, hpc, peer, op>>

\* The client.
PeerChanges(c) ==
    /\ hpc[c] \notin {"none", "gone", "rejected", "panicked"}
    /\ \/ peer[c] # "down" /\ peer' = [peer EXCEPT ![c] = "down"]
       \/ Stalls /\ peer[c] = "up" /\ peer' = [peer EXCEPT ![c] = "stalled"]
    /\ UNCHANGED <<maps, queue, pump, wire, hpc, op>>

OnConnectReturns(c) == Sane /\ (Reject(c) \/ register(c))
Runs(c)   == Sane /\ (StartPumps(c) \/ ReadErr(c) \/ HandlerClose(c) \/ HandlerReturns(c))
Leaves(c) == Sane /\ unregister(c)
Closes(c) == Sane /\ CloseConn(c)
Fanout(g) == Sane /\ (NoTarget(g) \/ \E c \in Conns : enqueue(g, c))
RoomOp(g) == Sane /\ (addToRoom(g) \/ removeFromRoom(g))
Receives(h) == Sane /\ Deliver(h)

Next ==
    \/ \E c \in Conns : \/ OnConnectReturns(c) \/ Runs(c) \/ Leaves(c) \/ writePump(c) \/ Closes(c)
                        \/ Sane /\ (Upgrade(c) \/ Panic(c) \/ PeerChanges(c))
    \/ \E g \in Roomers :
         RoomOp(g) \/ \E c \in Conns, r \in Rooms : Sane /\ (Join(g, c, r) \/ Leave(g, c, r))
    \/ \E g \in Callers :
         /\ Sane
         /\ \/ \E h \in Hubs : Broadcast(g, h) \/ \E r \in Rooms : ToRoom(g, h, r)
            \/ \E c \in Conns : Send(g, c)
            \/ Resend(g)
    \/ \E h \in Hubs : Receives(h) \/ (Sane /\ (LoseEnvelope(h) \/ HubClose(h)))
    \/ \E g \in Casters : Fanout(g)

Spec == Init /\ [][Next]_vars

\* Goroutines that can run do run.  A callback makes finitely many calls of
\* Join and Leave, and returns or panics.
FairSpec ==
    /\ Spec
    /\ \A c \in Conns : /\ WF_vars(Runs(c)) /\ WF_vars(writePump(c)) /\ WF_vars(Closes(c))
                        /\ SF_vars(OnConnectReturns(c)) /\ SF_vars(Leaves(c))
    /\ \A g \in Roomers : WF_vars(RoomOp(g))
    /\ \A g \in Casters : WF_vars(Fanout(g))
    /\ \A h \in Hubs : WF_vars(Receives(h))

-----------------------------------------------------------------------------
(* Properties. *)

\* No one sends on c.send after it is closed, which would panic: not the
\* broadcaster that copied its targets before the close, nor Send.
NoSendOnClosed ==
    [][\A c \in Conns : closed[c] => closed'[c] /\ Len(send'[c]) <= Len(send[c])]_vars

\* Conn.Rooms and the hub agree on the connection's rooms while it is served,
\* whichever goroutine joined or left last, and the hub has forgotten it afterwards;
\* unless a Join or Leave is under way, or one ran into another or into unregister.
Member(c) == {r \in Rooms : c \in rooms[r]}
RoomsAgree ==
    \A c \in Conns : Roaming(c) = {} /\ c \notin mixed =>
        /\ hpc[c] \in {"none", "connect", "registered", "read", "leaving"} => Member(c) = crooms[c]
        /\ hpc[c] \in {"close", "wait", "gone"} => Member(c) = {} /\ c \notin conns

\* backplane.go: a "single delivery path".  With the backplane a client gets what
\* Redis took of the broadcasts and room messages of all replicas in the order in
\* which Redis took it, and each message Redis took once at most, so no two clients
\* see two of them in opposite orders, whatever is lost, whoever else sends and
\* whichever PUBLISH is sent again.
PublishedOrder ==
    mode = "ok" => \A c \in Conns : \A i, j \in DOMAIN got[c] :
        i < j /\ asked[got[c][i]].to # "conn" /\ asked[got[c][j]].to # "conn"
          => got[c][i] < got[c][j]

\* Broadcast "sends msg to every connection": each one registered at the call
\* gets it, unless Redis lost the envelope, or the connection is closed, panicked or
\* its hub is closed; a client that is too slow misses nothing without being dropped.
Due(m) == IF m \in DOMAIN due THEN due[m] ELSE {}
Delivered ==
    \A m \in Msgs, c \in Conns :
        (c \in Due(m))
          ~> (\/ m \in Range(got[c]) \/ c \notin Due(m)
              \/ closed[c] \/ c \notin conns \/ Home[c] \notin live
              \/ hpc[c] = "panicked" \/ ~Sane)

\* A connection that is to be closed, as a slow client or by Hub.Close, goes
\* away: its pumps stop and its handler returns, unless its peer has stopped
\* reading or a callback panicked.
CloseEnds ==
    \A c \in Conns : (c \in closing)
        ~> (hpc[c] \in {"gone", "rejected", "panicked"} \/ peer[c] = "stalled" \/ ~Sane)

=============================================================================
