------------------------------- MODULE TcpLink -------------------------------
(***************************************************************************)
(* A ground station in tcp mode behind sim/udp_tcp_bridge.py.  The bridge  *)
(* serves one TCP client at a time: TM datagrams of several F Prime        *)
(* processes go into one byte stream, and the stream of the other          *)
(* direction is cut into TC frames again and routed by spacecraft id.  The *)
(* client (client.py, _forward_tm_tcp, _forward_tc and main) connects once *)
(* in its life; when it has ended it may be started again.                 *)
(*                                                                         *)
(* A byte is [f, k], the k-th of frame f.  Each side reads as much of a    *)
(* stream as has arrived, cut anywhere.  Connections are numbered by the   *)
(* client process that made them.                                          *)
(***************************************************************************)
EXTENDS Integers, Sequences

CONSTANTS
  Links,      \* the --spacecraft options of the bridge
  Wire,       \* wire_scid of each link
  Native,     \* native_scid, compiled into every F Prime process
  TmSize,     \* bytes of a TM frame, the same for all satellites
  TcFrames,   \* telecommand frames, as the client writes them
  TcSize,     \* their lengths
  TcScid,     \* the spacecraft id each of them carries
  Header,     \* bytes that must have come before the length of a frame is known
  Room,       \* bytes on their way to the client before send would block
  NumClients, \* bound: client processes that are started
  Limit,      \* bound: how many events of each kind the environment makes
  None        \* no link

Kinds == {"tm", "tc", "ioFail", "interrupt"}

Clients == 1..NumClients

ASSUME TcpLinkAssumption ==
  /\ \A k, l \in Links : k # l => Wire[k] # Wire[l]
  /\ TmSize \in Nat \ {0} /\ Header \in Nat \ {0} /\ Room \in Nat
  /\ TcSize \in [TcFrames -> Nat]
  /\ \A f \in TcFrames : TcSize[f] > Header
  /\ NumClients \in Nat
  /\ Limit \in [Kinds -> Nat]
  /\ None \notin Links

VARIABLES
  \* the bridge
  queue,      \* TM datagrams in the UDP socket of each link
  accepted,   \* connections accepted so far
  serving,    \* is the latest of them being served?
  tcBuffer,   \* tc_buffer of _serve
  popping,    \* is the bridge in the loop of pop_tc_frames?
  popped,     \* frames popped and not yet sent, with their number in written
  \* the client
  cur,        \* number of the latest client process
  running,    \* has it not left main yet?
  tmUp, tcUp, \* do its forwarding threads run?
  buffered,   \* buffered of _forward_tm_tcp
  conn,       \* connections: bytes on their way, which end is still open
  used,       \* how much of Limit has been used
  \* history, of F Prime and the client
  emitted,    \* TM frames sent by each F Prime process
  forwarded,  \* TM datagrams sent to the gateway
  delivered,  \* TC datagrams sent to F Prime, of each connection
  \* history of each connection: frames and where they begin, and all the bytes
  relayed, downstream, \* of telemetry
  written, upstream,   \* of telecommands
  \* history: frames taken from the stream, of the latest client and session
  cuts, pops

bridge  == <<queue, accepted, serving, tcBuffer, popping, popped, pops>>
client  == <<cur, running, tmUp, tcUp, buffered, cuts>>
tm == <<emitted, forwarded, relayed, downstream>>
tc == <<written, upstream, delivered>>
vars == <<bridge, client, conn, used, tm, tc>>

Spend(kind) ==
  /\ used[kind] < Limit[kind]
  /\ used' = [used EXCEPT ![kind] = @ + 1]

FrameBytes(f, size) == [k \in 1..size |-> [f |-> f, k |-> k]]
First(bytes, n) == SubSeq(bytes, 1, n)
Rest(bytes, n) == SubSeq(bytes, n + 1, Len(bytes))

-----------------------------------------------------------------------------
\* An F Prime process sends a TM frame, known by its number and its origin.  The
\* datagram is lost if the socket of the bridge is full.
SendTm(l) ==
  /\ Spend("tm")
  /\ emitted' = [emitted EXCEPT ![l] = @ + 1]
  /\ \/ queue' = [queue EXCEPT ![l] =
                    Append(@, [scid |-> Native, from |-> l, no |-> emitted[l] + 1])]
     \/ UNCHANGED queue
  /\ UNCHANGED <<accepted, serving, tcBuffer, popping, popped, pops, client, conn,
                 forwarded, relayed, downstream, tc>>

\* Mutant: the buffer survives the session.
MutAccept ==
  /\ ~serving
  /\ accepted < cur
  /\ accepted' = accepted + 1
  /\ serving' = TRUE
  /\ pops' = 0
  /\ UNCHANGED <<queue, tcBuffer, popping, popped, client, conn, used, tm, tc>>

\* accept() takes the next connection of the backlog.
Accept ==
  /\ ~serving
  /\ accepted < cur
  /\ accepted' = accepted + 1
  /\ serving' = TRUE
  /\ tcBuffer' = <<>>
  /\ pops' = 0
  /\ UNCHANGED <<queue, popping, popped, client, conn, used, tm, tc>>

\* The finally block: the bridge closes the connection, and forgets frames it has
\* popped.  What it has sent may still arrive, unless bytes it did not read make the
\* close a reset.
EndSession(down, up) ==
  /\ serving' = FALSE
  /\ popped' = <<>>
  /\ conn' = [conn EXCEPT ![accepted] =
                [@ EXCEPT !.down = down, !.up = up, !.bridgeOpen = FALSE]]

\* Is the bridge back in selector.select?
Selecting == serving /\ ~popping /\ popped = <<>>

\* rewrite_tm
RewriteTm(l, frame) ==
  IF Wire[l] = Native THEN frame ELSE [frame EXCEPT !.scid = Wire[l]]

\* Mutant: the socket takes any number of bytes.
MutFitting(bytes, down) == bytes

\* What of these bytes a socket takes that does not block.
Fitting(bytes, down) ==
  IF Len(down) + Len(bytes) <= Room THEN bytes ELSE First(bytes, Room - Len(down))

\* A TM datagram is received and written to the client.  The socket does not
\* block: sendall raises BlockingIOError once it is full, after writing a part.
RelayTm(l) ==
  LET frame == RewriteTm(l, Head(queue[l]))
      down  == conn[accepted].down
      part  == Fitting(FrameBytes(frame, TmSize), down)
  IN  /\ Selecting
      /\ queue[l] # <<>>
      /\ queue' = [queue EXCEPT ![l] = Tail(@)]
      /\ IF Len(part) = TmSize
           THEN /\ conn' = [conn EXCEPT ![accepted].down = down \o part]
                /\ UNCHANGED <<serving, popped>>
           ELSE EndSession(down \o part, conn[accepted].up)
      /\ relayed' = [relayed EXCEPT ![accepted] =
                       Append(@, [f |-> frame, at |-> Len(downstream[accepted])])]
      /\ downstream' = [downstream EXCEPT ![accepted] = @ \o part]
      /\ UNCHANGED <<accepted, tcBuffer, popping, pops, client, used, emitted, forwarded, tc>>

\* The write raises, the client being gone or for another reason.
RelayTmFails(l) ==
  /\ Selecting
  /\ queue[l] # <<>>
  /\ queue' = [queue EXCEPT ![l] = Tail(@)]
  /\ \/ ~conn[accepted].clientOpen /\ UNCHANGED used
     \/ Spend("ioFail")
  /\ EndSession(conn[accepted].down, conn[accepted].up)
  /\ UNCHANGED <<accepted, tcBuffer, popping, pops, client, tm, tc>>

\* Bytes are received.
ReceiveTc(n) ==
  LET up == conn[accepted].up
  IN  /\ Selecting
      /\ n \in 1..Len(up)
      /\ tcBuffer' = tcBuffer \o First(up, n)
      /\ conn' = [conn EXCEPT ![accepted].up = Rest(up, n)]
      /\ popping' = TRUE
      /\ UNCHANGED <<queue, accepted, serving, popped, pops, client, used, tm, tc>>

\* ccsds_tc_frame_length, of enough bytes: one that is no length field gives a
\* corrupt length.
FrameLength(buffer) ==
  IF buffer[Header].k = Header THEN TcSize[buffer[Header].f] ELSE 0

\* The next frame of pop_tc_frames, or, after a corrupt length, the next byte.
PopFrame ==
  LET total == FrameLength(tcBuffer)
  IN  /\ popping
      /\ Len(tcBuffer) >= Header
      /\ Len(tcBuffer) >= total
      /\ IF total = 0
           THEN /\ tcBuffer' = Tail(tcBuffer)
                /\ UNCHANGED <<popped, pops>>
           ELSE /\ tcBuffer' = Rest(tcBuffer, total)
                /\ popped' = Append(popped, [bytes |-> First(tcBuffer, total), no |-> pops + 1])
                /\ pops' = pops + 1
      /\ UNCHANGED <<queue, accepted, serving, popping, client, conn, used, tm, tc>>

\* The buffer holds no whole frame: pop_tc_frames returns.
Exhausted(buffer) == Len(buffer) >= Header => Len(buffer) < FrameLength(buffer)

PopEnds ==
  /\ popping
  /\ Exhausted(tcBuffer)
  /\ popping' = FALSE
  /\ UNCHANGED <<queue, accepted, serving, tcBuffer, popped, pops, client, conn, used, tm, tc>>

\* by_wire_scid
LinkFor(scid) ==
  IF \E l \in Links : Wire[l] = scid THEN CHOOSE l \in Links : Wire[l] = scid
                                     ELSE None

\* The link of a frame that was popped.
Receiver(frame) == LinkFor(TcScid[frame.bytes[1].f])

\* A frame is sent under the native id (rewrite_tc), or dropped if its spacecraft
\* is unknown.
SendTc ==
  LET frame == Head(popped)
  IN  /\ ~popping /\ popped # <<>>
      /\ popped' = Tail(popped)
      /\ \/ Receiver(frame) = None /\ UNCHANGED delivered
         \/ /\ Receiver(frame) # None
            /\ delivered' = [delivered EXCEPT ![accepted] =
                 Append(@, [to |-> Receiver(frame), scid |-> Native,
                            bytes |-> frame.bytes, no |-> frame.no])]
      /\ UNCHANGED <<queue, accepted, serving, tcBuffer, popping, pops, client, conn, used,
                     tm, written, upstream>>

\* sendto raises, which ends the session.
SendTcFails ==
  /\ ~popping /\ popped # <<>>
  /\ Receiver(Head(popped)) # None
  /\ Spend("ioFail")
  /\ EndSession(conn[accepted].down, conn[accepted].up)
  /\ UNCHANGED <<queue, accepted, tcBuffer, popping, pops, client, tm, tc>>

\* Mutant: an empty read is taken for nothing to do.
MutClientGone ==
  /\ Selecting
  /\ ~conn[accepted].clientOpen
  /\ conn[accepted].up = <<>>
  /\ UNCHANGED vars

\* recv returns nothing: the client has closed the connection.
ClientGone ==
  /\ Selecting
  /\ ~conn[accepted].clientOpen
  /\ conn[accepted].up = <<>>
  /\ EndSession(conn[accepted].down, <<>>)
  /\ UNCHANGED <<queue, accepted, tcBuffer, popping, pops, client, used, tm, tc>>

-----------------------------------------------------------------------------
\* main() of the next client process, up to the start of its threads.
StartClient ==
  /\ ~running
  /\ cur + 1 \in Clients
  /\ cur' = cur + 1
  /\ running' = TRUE
  /\ tmUp' = TRUE
  /\ tcUp' = TRUE
  /\ buffered' = <<>>
  /\ cuts' = 0
  /\ conn' = [conn EXCEPT ![cur + 1] = [down |-> <<>>, up |-> <<>>,
                                        clientOpen |-> TRUE, bridgeOpen |-> TRUE]]
  /\ UNCHANGED <<bridge, used, tm, tc>>

\* Mutant: the chunk takes the place of what was read before.
MutReceiveTm(n) ==
  LET down == conn[cur].down
  IN  /\ running /\ tmUp
      /\ Len(buffered) < TmSize
      /\ n \in 1..Len(down)
      /\ buffered' = First(down, n)
      /\ conn' = [conn EXCEPT ![cur].down = Rest(down, n)]
      /\ UNCHANGED <<bridge, cur, running, tmUp, tcUp, cuts, used, tm, tc>>

\* _forward_tm_tcp reads.
ReceiveTm(n) ==
  LET down == conn[cur].down
  IN  /\ running /\ tmUp
      /\ Len(buffered) < TmSize
      /\ n \in 1..Len(down)
      /\ buffered' = buffered \o First(down, n)
      /\ conn' = [conn EXCEPT ![cur].down = Rest(down, n)]
      /\ UNCHANGED <<bridge, cur, running, tmUp, tcUp, cuts, used, tm, tc>>

\* A frame is cut from the front of the buffer ...
Cut == /\ buffered' = Rest(buffered, TmSize)
       /\ cuts' = cuts + 1

\* ... and sent to the gateway.
ForwardTm ==
  /\ running /\ tmUp
  /\ Len(buffered) >= TmSize
  /\ Cut
  /\ forwarded' = Append(forwarded, First(buffered, TmSize))
  /\ UNCHANGED <<bridge, cur, running, tmUp, tcUp, conn, used, emitted, relayed,
                 downstream, tc>>

\* sendto raises, which ends the thread.
ForwardTmFails ==
  /\ running /\ tmUp
  /\ Len(buffered) >= TmSize
  /\ Spend("ioFail")
  /\ Cut
  /\ tmUp' = FALSE
  /\ UNCHANGED <<bridge, cur, running, tcUp, conn, tm, tc>>

\* recv returns nothing, or raises because the bridge reset the connection.
TmEnds ==
  /\ running /\ tmUp
  /\ Len(buffered) < TmSize
  /\ ~conn[cur].bridgeOpen
  /\ conn[cur].down = <<>> \/ conn[cur].up # <<>>
  /\ tmUp' = FALSE
  /\ UNCHANGED <<bridge, cur, running, tcUp, buffered, cuts, conn, used, tm, tc>>

\* _forward_tc writes a frame it got from the gateway.  To a connection that the
\* bridge has closed the first write seems to succeed, a later one raises.
WriteTc(f) ==
  LET bytes == FrameBytes(f, TcSize[f])
  IN  /\ running /\ tcUp
      /\ Spend("tc")
      /\ conn' = [conn EXCEPT ![cur].up = @ \o bytes]
      /\ written' = [written EXCEPT ![cur] = Append(@, [f |-> f, at |-> Len(upstream[cur])])]
      /\ upstream' = [upstream EXCEPT ![cur] = @ \o bytes]
      /\ UNCHANGED <<bridge, client, tm, delivered>>

WriteTcFails ==
  /\ running /\ tcUp
  /\ ~conn[cur].bridgeOpen
  /\ conn[cur].up # <<>>
  /\ Spend("tc")
  /\ tcUp' = FALSE
  /\ UNCHANGED <<bridge, cur, running, tmUp, buffered, cuts, conn, tm, tc>>

\* main has joined both threads, or is interrupted; it closes the connection.
LeaveMain ==
  /\ running
  /\ \/ ~tmUp /\ ~tcUp /\ UNCHANGED used
     \/ Spend("interrupt")
  /\ running' = FALSE
  /\ conn' = [conn EXCEPT ![cur].clientOpen = FALSE, ![cur].down = <<>>]
  /\ UNCHANGED <<bridge, cur, tmUp, tcUp, buffered, cuts, tm, tc>>

-----------------------------------------------------------------------------
Init ==
  /\ queue = [l \in Links |-> <<>>]
  /\ accepted = 0
  /\ serving = FALSE
  /\ tcBuffer = <<>>
  /\ popping = FALSE /\ popped = <<>>
  /\ cur = 0
  /\ running = FALSE
  /\ tmUp = FALSE
  /\ tcUp = FALSE
  /\ buffered = <<>>
  /\ conn = [c \in Clients |-> [down |-> <<>>, up |-> <<>>,
                                clientOpen |-> FALSE, bridgeOpen |-> FALSE]]
  /\ used = [k \in Kinds |-> 0]
  /\ emitted = [l \in Links |-> 0]
  /\ forwarded = <<>>
  /\ delivered = [c \in Clients |-> <<>>]
  /\ relayed = [c \in Clients |-> <<>>] /\ downstream = [c \in Clients |-> <<>>]
  /\ written = [c \in Clients |-> <<>>] /\ upstream = [c \in Clients |-> <<>>]
  /\ cuts = 0 /\ pops = 0

BridgeStep == \/ Accept \/ ClientGone
              \/ \E l \in Links : RelayTm(l)
              \/ serving /\ \E n \in 1..Len(conn[accepted].up) : ReceiveTc(n)
              \/ PopFrame \/ PopEnds \/ SendTc

\* The threads of a client that wait for the network.
TmStep == running /\ (\/ TmEnds \/ ForwardTm
                      \/ \E n \in 1..Len(conn[cur].down) : ReceiveTm(n))
TcStep == WriteTcFails \/ \E f \in TcFrames : WriteTc(f)

Next == \/ \E l \in Links : SendTm(l) \/ RelayTmFails(l)
        \/ SendTcFails \/ ForwardTmFails
        \/ BridgeStep
        \/ StartClient \/ TmStep \/ TcStep \/ LeaveMain

Spec == Init /\ [][Next]_vars

\* The loops of the bridge and of the telemetry thread are never held up for
\* ever; telecommands, new clients and interrupts may never come.
Fairness == WF_vars(BridgeStep) /\ WF_vars(TmStep)
FairSpec == Spec /\ Fairness

-----------------------------------------------------------------------------
TmFrame == [scid : {Native} \cup {Wire[l] : l \in Links}, from : Links, no : Nat]
TmByte == [f : TmFrame, k : 1..TmSize]
TcByte == [f : TcFrames, k : Nat]

BridgeType ==
  /\ queue \in [Links -> Seq(TmFrame)]
  /\ accepted \in 0..cur /\ serving \in BOOLEAN /\ (serving => accepted # 0)
  /\ tcBuffer \in Seq(TcByte)
  /\ popping \in BOOLEAN
  /\ popped \in Seq([bytes : Seq(TcByte), no : Nat]) /\ pops \in Nat
  /\ popping \/ popped # <<>> => serving

ClientType ==
  /\ cur \in Clients \cup {0} /\ running \in BOOLEAN /\ (running => cur # 0)
  /\ tmUp \in BOOLEAN /\ tcUp \in BOOLEAN
  /\ buffered \in Seq(TmByte) /\ cuts \in Nat

NetworkType ==
  /\ conn \in [Clients -> [down : Seq(TmByte), up : Seq(TcByte),
                           clientOpen : BOOLEAN, bridgeOpen : BOOLEAN]]
  /\ \A c \in Clients : Len(conn[c].down) <= Room
  /\ used \in [Kinds -> Nat]

TmType ==
  /\ emitted \in [Links -> Nat]
  /\ relayed \in [Clients -> Seq([f : TmFrame, at : Nat])]
  /\ downstream \in [Clients -> Seq(TmByte)]
  /\ forwarded \in Seq(Seq(TmByte))

TcType ==
  /\ written \in [Clients -> Seq([f : TcFrames, at : Nat])]
  /\ upstream \in [Clients -> Seq(TcByte)]
  /\ delivered \in [Clients -> Seq([to : Links, scid : {Native}, bytes : Seq(TcByte), no : Nat])]

TypeOK == BridgeType /\ ClientType /\ NetworkType /\ TmType /\ TcType

\* Every datagram the client sends to the gateway is one whole frame of one F Prime
\* process, under the id that this process has on the wire, and the frames of each
\* arrive once and in order: whatever the cuts of the byte stream, sessions that
\* end inside a frame, and clients that start again.
TmFaithful ==
  /\ \A i \in 1..Len(forwarded) :
       LET f == forwarded[i][1].f
       IN  forwarded[i] = FrameBytes(f, TmSize) /\ f.scid = Wire[f.from]
  /\ \A i, j \in 1..Len(forwarded) :
       LET f == forwarded[i][1].f
           g == forwarded[j][1].f
       IN  i < j /\ f.from = g.from => f.no < g.no

\* Is the telecommand for a spacecraft the bridge knows?
Known(f) == \E l \in Links : Wire[l] = TcScid[f]

\* The telecommands that reach F Prime are those a client wrote to its connection,
\* whole, in order, each at the process it names; and as long as a session lasts
\* none is missing but those on their way.  No session leaves bytes to the next.
TcFaithful ==
  \A c \in Clients :
    /\ \A i \in 1..Len(delivered[c]) :
         LET d == delivered[c][i]
             f == written[c][d.no].f
         IN  /\ d.no \in 1..Len(written[c])
             /\ d.bytes = FrameBytes(f, TcSize[f])
             /\ Wire[d.to] = TcScid[f] /\ d.scid = Native
    /\ \A i, j \in 1..Len(delivered[c]) : i < j => delivered[c][i].no < delivered[c][j].no
    /\ Selecting /\ accepted = c /\ conn[c].up = <<>> =>
         \A n \in 1..Len(written[c]) : Known(written[c][n].f) =>
           \E i \in 1..Len(delivered[c]) : delivered[c][i].no = n

\* Each side notices that the other has closed the connection: the telemetry thread
\* of the client ends, and the bridge is free for the next client.
CloseIsNoticed ==
  \A c \in Clients :
    /\ cur = c /\ running /\ ~conn[c].bridgeOpen ~> ~(cur = c /\ running /\ tmUp)
    /\ accepted = c /\ serving /\ ~conn[c].clientOpen ~> ~(accepted = c /\ serving)
=============================================================================
