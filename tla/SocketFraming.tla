--------------------------- MODULE SocketFraming ---------------------------
(***************************************************************************)
(* One connection of the data socket: the packets that SubtitleReportAPI   *)
(* writes, the stream that carries them, and SubSocketServer::processData, *)
(* which cuts the stream into payloads for the listener in front.          *)
(*                                                                         *)
(* The stream is a sequence of cells, a cell being one word of one packet. *)
(* A payload holds no word that looks like START_FLAG, and the 512 KB of   *)
(* the IpcBuffer are never full.                                           *)
(***************************************************************************)
EXTENDS Integers, Sequences, SequencesExt

CONSTANTS
    HeaderLen,  \* cells of a packet header
    RecvMax,    \* cells that one recv takes
    SendMax,    \* cells that one send gives (SEND_LEN)
    Garbage,    \* what an uninitialised dataSize may be
    Paced,      \* bound: the client begins no packet before the server has taken all
    Setups,     \* what a behaviour may be like: [steady, sizes, kinds]
    StringLen,  \* payload cells that SubSource_ReportSubTypeString sends
    MaxPackets  \* bound: packets of a run

ASSUME FramingAssumption ==
    /\ HeaderLen \in Nat \ {0} /\ RecvMax \in Nat \ {0} /\ SendMax \in Nat \ {0}
    /\ Garbage \subseteq Int /\ MaxPackets \in Nat /\ StringLen \in Nat
    /\ Paced \in BOOLEAN
    /\ Setups \subseteq [steady : BOOLEAN, sizes : SUBSET Nat,
                        kinds : SUBSET {"data", "typeString", "exit"}]

VARIABLES
    setup,      \* whether the listener is registered before the first packet, for
                \* good; the payload sizes, in cells, and the kinds of packets
    sent, outbox, up, ahead,
        \* the client: packets reported, cells it has yet to send, connected;
        \* ghost: it has begun a packet with cells of another in the socket or
        \* with the server at a delivery
    sock,       \* cells in the socket
    listening,  \* mClients is not empty
    buf, hdr, got, delivered,
        \* the server: cells in the IpcBuffer, _data_header, the payload it
        \* read, the payloads the listener was given
    srv,        \* the poll thread: "idle", "deliver", the connection "removed",
                \* or the process "broken"
    hungUp      \* whose session a hang-up closed

clientVars == <<sent, outbox, up, ahead>>
serverVars == <<buf, hdr, got, delivered, srv, hungUp>>
vars == <<setup, clientVars, sock, listening, serverVars>>

Smaller(a, b) == IF a < b THEN a ELSE b
From(s, n) == SubSeq(s, n + 1, Len(s))
To(s, n) == SubSeq(s, 1, Smaller(n, Len(s)))

\* The cells of packet i with a payload of n cells.
Packet(i, n) == [k \in 1..(HeaderLen + n) |-> [pkt |-> i, pos |-> k]]
PayloadOf(i) == From(Packet(i, sent[i].size), HeaderLen)

NoHeader == [state |-> "none", size |-> 0]
FreshHeaders == [state : {"fresh"}, size : Garbage]

FramingInit ==
    /\ setup \in Setups
    /\ sent = <<>> /\ outbox = <<>> /\ up = TRUE /\ ahead = FALSE
    /\ sock = <<>> /\ listening = setup.steady
    /\ buf = <<>> /\ hdr = NoHeader /\ got = <<>> /\ delivered = <<>>
    /\ srv = "idle" /\ hungUp = "nobody"

-----------------------------------------------------------------------------
(* The client *)

\* SubSource_Report*, SubSource_SendData or, as "exit", SubSource_Stop, under
\* the lock of the context. ReportSubTypeString sends sizeof(type) + 1 bytes,
\* however long the string is that the header tells of.
Report(n, kind) ==
    /\ up /\ outbox = <<>> /\ Len(sent) < MaxPackets
    /\ ahead' = (ahead \/ sock # <<>> \/ srv = "deliver")
    /\ Paced => ~ahead'
    /\ sent' = Append(sent, [size |-> n, kind |-> kind])
    /\ outbox' = Packet(Len(sent) + 1, IF kind = "typeString" THEN StringLen ELSE n)
    /\ UNCHANGED <<setup, up, sock, listening, serverVars>>

\* One send of AmSocketClient::socketSend; a removed connection takes nothing.
SocketSend ==
    /\ outbox # <<>>
    /\ sock' = IF srv = "removed" THEN sock ELSE sock \o To(outbox, SendMax)
    /\ outbox' = IF srv = "removed" THEN <<>> ELSE From(outbox, SendMax)
    /\ UNCHANGED <<setup, sent, up, ahead, listening, serverVars>>

\* SubSource_Destroy
Disconnect ==
    /\ up /\ outbox = <<>>
    /\ up' = FALSE
    /\ UNCHANGED <<setup, sent, outbox, ahead, sock, listening, serverVars>>

-----------------------------------------------------------------------------
(* The listener *)

\* A SocketSource comes, or the last one goes. unregisterClient waits for
\* mLock, so it never falls within a delivery.
Register ==
    /\ ~setup.steady /\ ~listening
    /\ listening' = TRUE
    /\ UNCHANGED <<setup, clientVars, sock, serverVars>>

Unregister ==
    /\ ~setup.steady /\ listening
    /\ listening' = FALSE
    /\ UNCHANGED <<setup, clientVars, sock, serverVars>>

-----------------------------------------------------------------------------
(* SubSocketServer::handleEvent and processData *)

\* Mutant of HeaderAt: dataSize counts the header, too.
HeaderAt_Total(b) == [state : {"read"}, size : {sent[b[1].pkt].size + HeaderLen}]

\* The header the first HeaderLen cells of b make: that of their packet, or any
\* size if they are cells of several.
HeaderAt(b) ==
    IF To(b, HeaderLen) = Packet(b[1].pkt, 0)
    THEN [state : {"read"}, size : {sent[b[1].pkt].size}]
    ELSE [state : {"read"}, size : Garbage]

IsExit(b) == sent[b[1].pkt].kind = "exit"

\* Mutant of TakePayload: off by one in the size that is waited for.
TakePayload_OneShort(b, h) ==
    /\ hdr' = h
    /\ IF Len(b) + 1 < h.size
       THEN buf' = b /\ UNCHANGED <<got, srv>>
       ELSE IF h.size < 0
       THEN srv' = "broken" /\ UNCHANGED <<buf, got>>
       ELSE buf' = From(b, h.size) /\ got' = To(b, h.size) /\ srv' = "deliver"

\* The payload is read when all of it is there.
TakePayload(b, h) ==
    /\ hdr' = h
    /\ IF Len(b) < h.size
       THEN buf' = b /\ UNCHANGED <<got, srv>>
       ELSE IF h.size < 0
       THEN srv' = "broken" /\ UNCHANGED <<buf, got>>
       ELSE buf' = From(b, h.size) /\ got' = To(b, h.size) /\ srv' = "deliver"

\* Mutant of Process: a header needs more than its own length.
Process_Longer(b, h) ==
    IF Len(b) <= HeaderLen
    THEN buf' = b /\ hdr' = h /\ UNCHANGED <<got, srv>>
    ELSE IF b[1].pos = 1
    THEN IF IsExit(b)
         THEN srv' = "removed" /\ buf' = <<>> /\ hdr' = NoHeader /\ UNCHANGED got
         ELSE \E read \in HeaderAt(b) : TakePayload(From(b, HeaderLen), read)
    ELSE TakePayload(b, h)

\* The buffer is b after a recv: a header is looked for in front of it, and if
\* there is none the one at hand is used.
Process(b, h) ==
    IF Len(b) < HeaderLen
    THEN buf' = b /\ hdr' = h /\ UNCHANGED <<got, srv>>
    ELSE IF b[1].pos = 1
    THEN IF IsExit(b)
         THEN srv' = "removed" /\ buf' = <<>> /\ hdr' = NoHeader /\ UNCHANGED got
         ELSE \E read \in HeaderAt(b) : TakePayload(From(b, HeaderLen), read)
    ELSE TakePayload(b, h)

\* The header is new at the first data of a packet, and not initialised.
Header == IF hdr.state = "none" THEN FreshHeaders ELSE {hdr}

Recv ==
    /\ srv = "idle" /\ sock # <<>>
    /\ sock' = From(sock, RecvMax)
    /\ \E h \in Header :
          IF listening
          THEN Process(buf \o To(sock, RecvMax), h)
          ELSE hdr' = h /\ UNCHANGED <<buf, got, srv>>
    /\ UNCHANGED <<setup, clientVars, listening, delivered, hungUp>>

\* recv returns 0: the session named in the header is closed, and the
\* connection is removed.
HangUp ==
    /\ srv = "idle" /\ sock = <<>> /\ ~up
    /\ hungUp' \in IF hdr.state = "read" THEN {"own"} ELSE {"own", "another"}
    /\ srv' = "removed" /\ buf' = <<>> /\ hdr' = NoHeader
    /\ UNCHANGED <<setup, clientVars, sock, listening, got, delivered>>

\* Mutant of Deliver: the buffer is not reset.
Deliver_NoReset ==
    /\ srv = "deliver"
    /\ IF listening
       THEN /\ delivered' = Append(delivered, got)
            /\ srv' = "idle" /\ got' = <<>>
            /\ UNCHANGED <<buf, hdr>>
       ELSE srv' = "broken" /\ UNCHANGED <<buf, hdr, got, delivered>>
    /\ UNCHANGED <<setup, clientVars, sock, listening, hungUp>>

\* Under mLock the payload goes to mClients.front(), and the buffer is reset
\* with whatever followed in it. That mClients is not empty was looked at
\* before the lock.
Deliver ==
    /\ srv = "deliver"
    /\ IF listening
       THEN /\ delivered' = Append(delivered, got)
            /\ srv' = "idle" /\ buf' = <<>> /\ hdr' = NoHeader /\ got' = <<>>
       ELSE srv' = "broken" /\ UNCHANGED <<buf, hdr, got, delivered>>
    /\ UNCHANGED <<setup, clientVars, sock, listening, hungUp>>

-----------------------------------------------------------------------------
FramingNext ==
    \/ \E n \in setup.sizes, kind \in setup.kinds : Report(n, kind)
    \/ SocketSend \/ Disconnect
    \/ Register \/ Unregister
    \/ Recv \/ HangUp \/ Deliver

FramingSpec == FramingInit /\ [][FramingNext]_vars

\* The client's thread finishes what it began to send, and the poll thread is
\* woken by whatever is in the socket.
FramingFairness == WF_vars(SocketSend) /\ WF_vars(Recv) /\ WF_vars(Deliver)

FramingFairSpec == FramingSpec /\ FramingFairness

-----------------------------------------------------------------------------
(* Properties *)

\* How packets fit the sends and the receives. Both take 1024 bytes and a header
\* has 20, so that a payload shorter than a header comes in one piece with its
\* header; processData would not look at the rest of one that came later. A
\* listener that comes and goes is served whole packets, and is told of no more
\* of a type string than is sent.
PacketsFit ==
    LET Whole(n) == HeaderLen + n <= SendMax /\ HeaderLen + n <= RecvMax IN
    \A s \in Setups :
       \A n \in s.sizes :
          IF s.steady
          THEN /\ n < HeaderLen => Whole(n)
               /\ "typeString" \in s.kinds => n = StringLen
          ELSE /\ Whole(n)
               /\ "typeString" \in s.kinds => Whole(StringLen) /\ n <= StringLen

Cells == [pkt : 1..MaxPackets, pos : Nat]

\* The type invariant.
FramingTypeOK ==
    /\ setup \in Setups
    /\ sent \in Seq([size : setup.sizes, kind : setup.kinds])
    /\ outbox \in Seq(Cells) /\ sock \in Seq(Cells)
    /\ buf \in Seq(Cells) /\ got \in Seq(Cells)
    /\ delivered \in Seq(Seq(Cells))
    /\ hdr \in {NoHeader} \cup [state : {"fresh"}, size : Garbage]
                \cup [state : {"read"}, size : setup.sizes \cup Garbage]
    /\ up \in BOOLEAN /\ ahead \in BOOLEAN /\ listening \in BOOLEAN
    /\ srv \in {"idle", "deliver", "removed", "broken"}
    /\ hungUp \in {"nobody", "own", "another"}

Payloads == [k \in 1..Len(sent) |-> PayloadOf(k)]

\* However its packets are cut by the sends and the receives, a listener that is
\* there from the start is given the payloads in the order they were sent, each
\* one whole, and none from the first exit on.
DeliveredInOrder ==
    setup.steady => /\ IsPrefix(delivered, Payloads)
                    /\ \A k \in 1..Len(delivered) : sent[k].kind # "exit"

\* What the listener is given is the payload of a packet.
DeliveredIsSent == \A i \in 1..Len(delivered) : \E k \in 1..Len(sent) : delivered[i] = PayloadOf(k)

\* With nothing on the way and the thread idle, all that was sent is delivered,
\* and nothing is left in the buffer.
NothingLeftBehind ==
    setup.steady /\ srv = "idle" /\ outbox = <<>> /\ sock = <<>>
    => Len(delivered) = Len(sent) /\ buf = <<>> /\ hdr = NoHeader

\* What was sent is delivered in the end unless the connection is removed.
EverythingDelivered ==
    (setup.steady /\ Len(delivered) < Len(sent))
    ~> (Len(delivered) = Len(sent) \/ srv = "removed")

=============================================================================
