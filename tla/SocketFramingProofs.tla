------------------------ MODULE SocketFramingProofs ------------------------
(* Theorems about one connection of the data socket: its types, and that the  *)
(* listener is given the payloads whole and in order and that nothing is left  *)
(* behind as long as the client does not get ahead of the server (ahead), for  *)
(* all sizes of headers, payloads, sends and receives that fit (PacketsFit).   *)
EXTENDS SocketFraming, SequenceTheorems, TLAPS

-----------------------------------------------------------------------------
(* Slices: every buffer on the way of a packet holds consecutive cells of it.  *)

\* The cells of packet i after the first x and up to the y-th.
Slice(i, x, y) == [k \in 1..(y - x) |-> [pkt |-> i, pos |-> x + k]]
CellsOf(i) == [pkt : {i}, pos : Nat]

\* A slice is a sequence of cells of its packet.
LEMMA SliceIsSeq ==
    ASSUME NEW i \in Nat, NEW x \in Nat, NEW y \in Nat, x <= y
    PROVE  /\ Slice(i, x, y) \in Seq(CellsOf(i))
           /\ Len(Slice(i, x, y)) = y - x
           /\ \A k \in 1..(y - x) : Slice(i, x, y)[k] = [pkt |-> i, pos |-> x + k]
  BY DEF Slice, CellsOf

\* An empty slice, and a slice that is empty.
LEMMA SliceEmpty ==
    ASSUME NEW i \in Nat, NEW x \in Nat, NEW y \in Nat, x <= y
    PROVE  Slice(i, x, y) = <<>> <=> x = y
<1>1. Slice(i, x, y) = <<>> => x = y  BY SliceIsSeq
<1>2. x = y => Slice(i, x, y) = <<>>  BY SliceIsSeq
<1> QED  BY <1>1, <1>2

\* Two sequences are the same if their elements are.
LEMMA SameElements ==
    ASSUME NEW S, NEW s \in Seq(S), NEW t \in Seq(S), Len(s) = Len(t),
           \A k \in 1..Len(s) : s[k] = t[k]
    PROVE  s = t
  OBVIOUS

\* Two slices that meet make one.
LEMMA SliceConcat ==
    ASSUME NEW i \in Nat, NEW x \in Nat, NEW y \in Nat, NEW z \in Nat, x <= y, y <= z
    PROVE  Slice(i, x, y) \o Slice(i, y, z) = Slice(i, x, z)
<1> DEFINE a == Slice(i, x, y)  b == Slice(i, y, z)  c == Slice(i, x, z)  D == CellsOf(i)
<1>1. /\ a \in Seq(D) /\ b \in Seq(D) /\ c \in Seq(D)
      /\ Len(a) = y - x /\ Len(b) = z - y /\ Len(c) = z - x
  <2>1. x <= z  OBVIOUS
  <2> QED  BY <2>1, SliceIsSeq
<1>2. ASSUME NEW k \in 1..(y - x)  PROVE a[k] = c[k]
  BY DEF Slice
<1>3. ASSUME NEW k \in 1..(z - y)  PROVE b[k] = c[(y - x) + k]
  BY DEF Slice
<1> HIDE DEF a, b, c, D
<1>4. a \o b \in Seq(D) /\ Len(a \o b) = Len(c)  BY <1>1
<1>5. \A k \in 1..Len(a \o b) : (a \o b)[k] = c[k]
  <2> SUFFICES \A k \in 1..Len(c) : (a \o b)[k] = c[k]  BY <1>4
  <2> TAKE k \in 1..Len(c)
  <2>1. CASE k <= Len(a)  BY <1>1, <1>2, <2>1
  <2>2. CASE k > Len(a)
    <3>1. k - Len(a) \in 1..(z - y) /\ k = (y - x) + (k - Len(a))  BY <1>1, <2>2
    <3>2. b[k - Len(a)] = c[k]  BY <1>3, <3>1
    <3> QED  BY <1>1, <2>2, <3>2
  <2>3. k <= Len(a) \/ k > Len(a)  BY <1>1
  <2> QED  BY <2>1, <2>2, <2>3
<1>6. a \o b = c  BY <1>1, <1>4, <1>5, SameElements, Zenon
<1> QED  BY <1>6, Zenon DEF a, b, c

\* What SubSeq cuts out of a slice.
LEMMA SliceSubSeq ==
    ASSUME NEW i \in Nat, NEW x \in Nat, NEW y \in Nat, NEW u \in Nat, NEW v \in Nat,
           x <= u, u <= v, v <= y, NEW p \in Nat, p = u - x + 1, NEW q \in Nat, q = v - x
    PROVE  SubSeq(Slice(i, x, y), p, q) = Slice(i, u, v)
<1> DEFINE a == Slice(i, x, y)  c == Slice(i, u, v)  D == CellsOf(i)
<1>1. /\ a \in Seq(D) /\ c \in Seq(D)
      /\ Len(a) = y - x /\ Len(c) = v - u
  <2>1. x <= y  OBVIOUS
  <2> QED  BY <2>1, SliceIsSeq
<1>2. ASSUME NEW k \in 1..(v - u)  PROVE a[p + k - 1] = c[k]
  BY DEF Slice
<1> HIDE DEF a, c, D
<1>3. SubSeq(a, p, q) \in Seq(D) /\ Len(SubSeq(a, p, q)) = Len(c)  BY <1>1
<1>4. \A k \in 1..Len(SubSeq(a, p, q)) : SubSeq(a, p, q)[k] = c[k]
  <2> SUFFICES \A k \in 1..(v - u) : SubSeq(a, p, q)[k] = c[k]  BY <1>1, <1>3
  <2> QED  BY <1>1, <1>2
<1>5. SubSeq(a, p, q) = c  BY <1>1, <1>3, <1>4, SameElements, Zenon
<1> QED  BY <1>5 DEF a, c

\* The first m cells of a slice, and what follows them.
LEMMA SliceTo ==
    ASSUME NEW i \in Nat, NEW x \in Nat, NEW y \in Nat, x <= y, NEW m \in Nat
    PROVE  To(Slice(i, x, y), m) = Slice(i, x, x + Smaller(m, y - x))
<1>1. Len(Slice(i, x, y)) = y - x  BY SliceIsSeq
<1> DEFINE n == Smaller(m, y - x)  v == x + n
<1>2. /\ n \in Nat /\ v \in Nat /\ x <= v /\ v <= y
      /\ 1 = x - x + 1 /\ n = v - x /\ x <= x
  BY DEF Smaller
<1>3. SubSeq(Slice(i, x, y), 1, n) = Slice(i, x, v)
  <2> HIDE DEF n, v
  <2> QED  BY <1>2, SliceSubSeq
<1> QED  BY <1>1, <1>3, Zenon DEF To

LEMMA SliceFrom ==
    ASSUME NEW i \in Nat, NEW x \in Nat, NEW y \in Nat, x <= y, NEW m \in Nat
    PROVE  From(Slice(i, x, y), m) = Slice(i, x + Smaller(m, y - x), y)
<1>1. Len(Slice(i, x, y)) = y - x  BY SliceIsSeq
<1> DEFINE n == y - x  u == x + Smaller(m, n)  p == m + 1
<1>2. n \in Nat /\ u \in Nat /\ x <= u /\ u <= y /\ y <= y /\ n = y - x /\ p \in Nat
  BY DEF Smaller
<1>3. CASE m <= n
  <2>1. p = u - x + 1  BY <1>3 DEF Smaller
  <2>2. SubSeq(Slice(i, x, y), p, n) = Slice(i, u, y)
    <3> HIDE DEF n, u, p
    <3> QED  BY <1>2, <2>1, SliceSubSeq
  <2> QED  BY <1>1, <2>2, Zenon DEF From
<1>4. CASE m > n
  <2>1. Slice(i, x, y) \in Seq(CellsOf(i))  BY SliceIsSeq
  <2>2. SubSeq(Slice(i, x, y), m + 1, n) = <<>>
    <3> HIDE DEF n
    <3> QED  BY <1>2, <1>4, <2>1
  <2>3. u = y  BY <1>4 DEF Smaller
  <2>4. Slice(i, y, y) = <<>>  BY SliceEmpty
  <2> QED  BY <1>1, <2>2, <2>3, <2>4, Zenon DEF From
<1>5. m <= n \/ m > n  OBVIOUS
<1> QED  BY <1>3, <1>4, <1>5, Zenon

-----------------------------------------------------------------------------
(* The types. *)

SentCells == [pkt : 1..Len(sent), pos : Nat]
Headers == FreshHeaders \cup [state : {"read"}, size : setup.sizes \cup Garbage]

\* A cell on the way is one of a packet that was sent: HeaderAt looks up the
\* packet of the first one.
FramingTypes ==
    /\ setup \in Setups
    /\ sent \in Seq([size : setup.sizes, kind : setup.kinds]) /\ Len(sent) <= MaxPackets
    /\ outbox \in Seq(SentCells) /\ sock \in Seq(SentCells)
    /\ buf \in Seq(SentCells) /\ got \in Seq(SentCells)
    /\ delivered \in Seq(Seq(SentCells))
    /\ hdr \in {NoHeader} \cup Headers
    /\ up \in BOOLEAN /\ ahead \in BOOLEAN /\ listening \in BOOLEAN
    /\ srv \in {"idle", "deliver", "removed", "broken"}
    /\ hungUp \in {"nobody", "own", "another"}

\* A packet is the slice of all its cells.
LEMMA PacketIsSlice ==
    ASSUME NEW i \in Nat, NEW n \in Nat
    PROVE  /\ HeaderLen + n \in Nat /\ 0 <= HeaderLen + n
           /\ Packet(i, n) = Slice(i, 0, HeaderLen + n)
           /\ Packet(i, n) \in Seq(CellsOf(i))
<1>1. HeaderLen + n \in Nat /\ 0 <= HeaderLen + n  BY FramingAssumption
<1>2. Packet(i, n) = Slice(i, 0, HeaderLen + n)  BY <1>1 DEF Packet, Slice
<1>3. Packet(i, n) \in Seq(CellsOf(i))  BY <1>1, <1>2, SliceIsSeq
<1> QED  BY <1>1, <1>2, <1>3

\* The parts of a sequence have its type, and their lengths add up.
LEMMA CutType ==
    ASSUME NEW S, NEW s \in Seq(S), NEW n \in Nat
    PROVE  To(s, n) \in Seq(S) /\ From(s, n) \in Seq(S)
<1>1. To(s, n) \in Seq(S)  BY DEF To, Smaller
<1>2. From(s, n) \in Seq(S)  BY DEF From
<1> QED  BY <1>1, <1>2

\* A sequence over a set is one over any larger set.
LEMMA WiderSeq ==
    ASSUME NEW S, NEW T, S \subseteq T
    PROVE  Seq(S) \subseteq Seq(T)
<1>1. ASSUME NEW s \in Seq(S)  PROVE s \in Seq(T)  BY SeqMonotonic, Zenon
<1> QED  BY <1>1

\* The types after the bytes of a recv are processed.
LEMMA ProcessTypes ==
    ASSUME FramingTypes, NEW b \in Seq(SentCells), NEW h \in Headers, Process(b, h)
    PROVE  /\ buf' \in Seq(SentCells) /\ got' \in Seq(SentCells)
           /\ hdr' \in {NoHeader} \cup Headers
           /\ srv' \in {"idle", "deliver", "removed", "broken"}
<1>1. Garbage \subseteq Int /\ setup.sizes \subseteq Nat /\ HeaderLen \in Nat \ {0}
  BY FramingAssumption DEF FramingTypes
<1>2. ASSUME NEW g \in Headers  PROVE g.size \in Int
  <2>1. g \in [state : {"fresh"}, size : Garbage]
        \/ g \in [state : {"read"}, size : setup.sizes \cup Garbage]
    BY DEF Headers, FreshHeaders
  <2>2. g.size \in Garbage \/ g.size \in setup.sizes \cup Garbage
    <3> HIDE DEF Headers
    <3> QED  BY <2>1
  <2>3. setup.sizes \subseteq Int  BY <1>1
  <2> QED  BY <1>1, <2>2, <2>3, Zenon
<1>3. ASSUME NEW c \in Seq(SentCells), NEW g \in Headers, TakePayload(c, g)
      PROVE  /\ buf' \in Seq(SentCells) /\ got' \in Seq(SentCells) /\ hdr' \in Headers
             /\ srv' \in {"idle", "deliver", "removed", "broken"}
  <2>1. CASE Len(c) < g.size  BY <1>3, <2>1 DEF TakePayload, FramingTypes
  <2>2. CASE ~(Len(c) < g.size) /\ g.size < 0  BY <1>3, <2>2 DEF TakePayload, FramingTypes
  <2>3. CASE ~(Len(c) < g.size) /\ ~(g.size < 0)
    <3>1. g.size \in Nat  BY <1>2, <2>3
    <3>2. From(c, g.size) \in Seq(SentCells) /\ To(c, g.size) \in Seq(SentCells)
      BY <3>1, CutType
    <3> QED  BY <1>3, <2>3, <3>2 DEF TakePayload
  <2> QED  BY <2>1, <2>2, <2>3
<1>4. CASE Len(b) < HeaderLen  BY <1>4 DEF Process, FramingTypes
<1>5. CASE ~(Len(b) < HeaderLen) /\ b[1].pos = 1 /\ IsExit(b)
  BY <1>5 DEF Process, FramingTypes
<1>6. CASE ~(Len(b) < HeaderLen) /\ b[1].pos = 1 /\ ~IsExit(b)
  <2>1. PICK read \in HeaderAt(b) : TakePayload(From(b, HeaderLen), read)
    BY <1>6 DEF Process
  <2>2. b[1] \in SentCells  BY <1>1, <1>6
  <2>3. b[1].pkt \in 1..Len(sent)  BY <2>2 DEF SentCells
  <2>4. sent[b[1].pkt].size \in setup.sizes
    <3>1. sent[b[1].pkt] \in [size : setup.sizes, kind : setup.kinds]
      BY <2>3, ElementOfSeq, Zenon DEF FramingTypes
    <3> QED  BY <3>1
  <2>5. read \in Headers  BY <2>1, <2>4 DEF HeaderAt, Headers
  <2>6. From(b, HeaderLen) \in Seq(SentCells)  BY <1>1, CutType
  <2> QED  BY <1>3, <2>1, <2>5, <2>6
<1>7. CASE ~(Len(b) < HeaderLen) /\ b[1].pos # 1
  <2>1. TakePayload(b, h)  BY <1>7 DEF Process
  <2> QED  BY <1>3, <2>1
<1> QED  BY <1>4, <1>5, <1>6, <1>7

LEMMA FramingTypesInit == FramingInit => FramingTypes
<1> SUFFICES ASSUME FramingInit PROVE FramingTypes  OBVIOUS
<1>1. setup.steady \in BOOLEAN  BY FramingAssumption DEF FramingInit
<1>2. Len(<<>>) <= MaxPackets  BY FramingAssumption
<1>3. ahead \in BOOLEAN /\ listening \in BOOLEAN /\ up \in BOOLEAN
  <2>1. ahead \in BOOLEAN /\ up \in BOOLEAN  BY DEF FramingInit
  <2>2. listening \in BOOLEAN  BY <1>1, Zenon DEF FramingInit
  <2> QED  BY <2>1, <2>2
<1>4. /\ <<>> \in Seq([size : setup.sizes, kind : setup.kinds])
      /\ <<>> \in Seq(SentCells) /\ <<>> \in Seq(Seq(SentCells))
  OBVIOUS
<1> QED  BY <1>2, <1>3, <1>4 DEF FramingInit, FramingTypes

LEMMA FramingTypesNext == FramingTypes /\ [FramingNext]_vars => FramingTypes'
<1> SUFFICES ASSUME FramingTypes, [FramingNext]_vars PROVE FramingTypes'  OBVIOUS
<1>0. /\ setup.sizes \subseteq Nat /\ HeaderLen \in Nat \ {0} /\ StringLen \in Nat
      /\ SendMax \in Nat /\ RecvMax \in Nat /\ MaxPackets \in Nat
  BY FramingAssumption DEF FramingTypes
<1>1. ASSUME NEW n \in setup.sizes, NEW kind \in setup.kinds, Report(n, kind)
      PROVE  FramingTypes'
  <2> DEFINE i == Len(sent) + 1
  <2>1. /\ sent' \in Seq([size : setup.sizes, kind : setup.kinds])
        /\ Len(sent') = i /\ i <= MaxPackets /\ i \in Nat
    BY <1>0, <1>1 DEF Report, FramingTypes
  <2>2. SentCells \subseteq SentCells'  BY <2>1 DEF SentCells
  <2>3. Seq(SentCells) \subseteq Seq(SentCells')
    <3> HIDE DEF i
    <3> QED  BY <2>2, WiderSeq, Zenon
  <2>4. CellsOf(i) \subseteq SentCells'  BY <2>1 DEF CellsOf, SentCells
  <2>5. outbox' \in Seq(CellsOf(i))
    <3>1. (IF kind = "typeString" THEN StringLen ELSE n) \in Nat  BY <1>0
    <3>2. outbox' = Packet(i, IF kind = "typeString" THEN StringLen ELSE n)
      BY <1>1 DEF Report
    <3> HIDE DEF i
    <3> QED  BY <2>1, <3>1, <3>2, PacketIsSlice
  <2>6. outbox' \in Seq(SentCells')
    <3> HIDE DEF i
    <3> QED  BY <2>4, <2>5, WiderSeq
  <2>7. Seq(Seq(SentCells)) \subseteq Seq(Seq(SentCells'))  BY <2>3, WiderSeq, Zenon
  <2>8. UNCHANGED <<setup, up, sock, listening, serverVars>>  BY <1>1 DEF Report
  <2>9. delivered' \in Seq(Seq(SentCells'))  BY <2>7, <2>8 DEF FramingTypes, serverVars
  <2>11. ahead' \in BOOLEAN  BY <1>1 DEF Report
  <2> HIDE DEF i
  <2> QED  BY <2>1, <2>3, <2>6, <2>8, <2>9, <2>11
           DEF FramingTypes, serverVars, Headers, FreshHeaders
<1>2. CASE SocketSend
  <2>1. SentCells' = SentCells  BY <1>2 DEF SocketSend, SentCells
  <2>2. To(outbox, SendMax) \in Seq(SentCells) /\ From(outbox, SendMax) \in Seq(SentCells)
    BY <1>0, CutType DEF FramingTypes
  <2>3. sock' \in Seq(SentCells) /\ outbox' \in Seq(SentCells)
    BY <1>2, <2>2 DEF SocketSend, FramingTypes
  <2> QED  BY <1>2, <2>1, <2>3 DEF SocketSend, FramingTypes, serverVars, Headers
<1>3. CASE Disconnect
  BY <1>3 DEF Disconnect, FramingTypes, serverVars, SentCells, Headers
<1>4. CASE Register
  BY <1>4 DEF Register, FramingTypes, serverVars, clientVars, SentCells, Headers
<1>5. CASE Unregister
  BY <1>5 DEF Unregister, FramingTypes, serverVars, clientVars, SentCells, Headers
<1>6. CASE Recv
  <2>1. SentCells' = SentCells /\ Headers' = Headers
    BY <1>6 DEF Recv, clientVars, SentCells, Headers, FreshHeaders
  <2>2. sock' \in Seq(SentCells)  BY <1>0, <1>6, CutType DEF Recv, FramingTypes
  <2>3. PICK h \in Header : IF listening
                            THEN Process(buf \o To(sock, RecvMax), h)
                            ELSE hdr' = h /\ UNCHANGED <<buf, got, srv>>
    BY <1>6 DEF Recv
  <2>4. h \in Headers  BY <2>3 DEF Header, Headers, FramingTypes, FreshHeaders, NoHeader
  <2>5. buf \o To(sock, RecvMax) \in Seq(SentCells)
    <3>1. To(sock, RecvMax) \in Seq(SentCells)  BY <1>0, CutType DEF FramingTypes
    <3> QED  BY <3>1 DEF FramingTypes
  <2>6. /\ buf' \in Seq(SentCells) /\ got' \in Seq(SentCells)
        /\ hdr' \in {NoHeader} \cup Headers
        /\ srv' \in {"idle", "deliver", "removed", "broken"}
    <3>1. CASE listening  BY <2>3, <2>4, <2>5, <3>1, ProcessTypes
    <3>2. CASE ~listening  BY <2>3, <2>4, <3>2 DEF FramingTypes
    <3> QED  BY <3>1, <3>2
  <2>7. UNCHANGED <<setup, clientVars, listening, delivered, hungUp>>  BY <1>6 DEF Recv
  <2> QED  BY <2>1, <2>2, <2>6, <2>7 DEF FramingTypes, clientVars
<1>7. CASE HangUp
  BY <1>7 DEF HangUp, FramingTypes, clientVars, SentCells, Headers
<1>8. CASE Deliver
  <2>1. SentCells' = SentCells /\ Headers' = Headers
    BY <1>8 DEF Deliver, clientVars, SentCells, Headers, FreshHeaders
  <2>2. delivered' \in Seq(Seq(SentCells))
    <3>1. delivered' = Append(delivered, got) \/ delivered' = delivered  BY <1>8 DEF Deliver
    <3>2. got \in Seq(SentCells) /\ delivered \in Seq(Seq(SentCells))  BY DEF FramingTypes
    <3> QED  BY <3>1, <3>2
  <2>3. <<>> \in Seq(SentCells)  OBVIOUS
  <2> QED  BY <1>8, <2>1, <2>2, <2>3 DEF Deliver, clientVars, FramingTypes
<1>9. CASE UNCHANGED vars
  BY <1>9 DEF vars, FramingTypes, clientVars, serverVars, SentCells, Headers
<1> QED  BY <1>1, <1>2, <1>3, <1>4, <1>5, <1>6, <1>7, <1>8, <1>9 DEF FramingNext

\* The types of the model hold.
THEOREM FramingTypeCorrect == FramingSpec => []FramingTypeOK
<1>1. FramingTypes => FramingTypeOK
  <2> SUFFICES ASSUME FramingTypes PROVE FramingTypeOK  OBVIOUS
  <2>1. SentCells \subseteq Cells
    BY FramingAssumption DEF FramingTypes, SentCells, Cells
  <2>2. Seq(SentCells) \subseteq Seq(Cells)  BY <2>1, WiderSeq, Zenon
  <2>3. Seq(Seq(SentCells)) \subseteq Seq(Seq(Cells))  BY <2>2, WiderSeq, Zenon
  <2> QED  BY <2>2, <2>3 DEF FramingTypes, FramingTypeOK, Headers, FreshHeaders
<1> QED  BY <1>1, FramingTypesInit, FramingTypesNext, PTL DEF FramingSpec

-----------------------------------------------------------------------------
(* A listener that is there from the start. The packet sent last is the only   *)
(* one on the way. Its cells lie in order in the buffer, the socket and the    *)
(* outbox, and where the packet is parted says what the server is to do.       *)

Latest == Len(sent)
Size == sent[Latest].size
Owed == Len(sent) = Len(delivered) + 1 /\ got = <<>>

\* The cells from the first that the buffer holds to the last of the packet.
Parted(first, x, y) ==
    /\ first <= x /\ x <= y /\ y <= HeaderLen + Size
    /\ buf = Slice(Latest, first, x)
    /\ sock = Slice(Latest, x, y)
    /\ outbox = Slice(Latest, y, HeaderLen + Size)

\* All is delivered.
AtRest ==
    /\ srv = "idle" /\ hdr = NoHeader /\ got = <<>>
    /\ buf = <<>> /\ sock = <<>> /\ outbox = <<>>
    /\ Len(delivered) = Len(sent)

\* The header is awaited; a payload shorter than it comes with it in one piece.
InHeader ==
    /\ srv = "idle" /\ hdr.state # "read" /\ Owed
    /\ \E x, y \in 0..(HeaderLen + Size) :
          /\ Parted(0, x, y) /\ x < HeaderLen
          /\ Size < HeaderLen => x = 0 /\ y \in {0, HeaderLen + Size}

\* The header is read and the payload is not complete.
InPayload ==
    /\ srv = "idle" /\ hdr = [state |-> "read", size |-> Size] /\ Owed
    /\ Size >= HeaderLen /\ sent[Latest].kind # "exit"
    /\ \E x, y \in 0..(HeaderLen + Size) : Parted(HeaderLen, x, y) /\ x < HeaderLen + Size

\* The payload is read.
AtDelivery ==
    /\ srv = "deliver" /\ Len(sent) = Len(delivered) + 1
    /\ got = PayloadOf(Latest) /\ sent[Latest].kind # "exit"
    /\ buf = <<>> /\ sock = <<>> /\ outbox = <<>>

DeliveredSoFar ==
    \A k \in 1..Len(delivered) : delivered[k] = PayloadOf(k) /\ sent[k].kind # "exit"

\* The inductive invariant.
SteadyInv ==
    setup.steady =>
        /\ listening /\ Len(delivered) <= Len(sent) /\ DeliveredSoFar
        /\ AtRest \/ InHeader \/ InPayload \/ AtDelivery \/ srv = "removed"

\* The payload of a packet is the slice after its header.
LEMMA PayloadIsSlice ==
    ASSUME NEW i \in 1..Len(sent), sent[i].size \in Nat, Len(sent) \in Nat
    PROVE  /\ PayloadOf(i) = Slice(i, HeaderLen, HeaderLen + sent[i].size)
           /\ Len(PayloadOf(i)) = sent[i].size
<1> DEFINE n == sent[i].size
<1>1. /\ i \in Nat /\ 0 \in Nat /\ HeaderLen + n \in Nat /\ 0 <= HeaderLen + n
      /\ HeaderLen \in Nat /\ Smaller(HeaderLen, (HeaderLen + n) - 0) = HeaderLen
      /\ 0 + HeaderLen = HeaderLen /\ HeaderLen <= HeaderLen + n
      /\ (HeaderLen + n) - HeaderLen = n
  BY FramingAssumption DEF Smaller
<1>2. Packet(i, n) = Slice(i, 0, HeaderLen + n)  BY <1>1, PacketIsSlice
<1> HIDE DEF n
<1>3. From(Slice(i, 0, HeaderLen + n), HeaderLen)
        = Slice(i, 0 + Smaller(HeaderLen, (HeaderLen + n) - 0), HeaderLen + n)
  BY <1>1, SliceFrom
<1>4. From(Packet(i, n), HeaderLen) = Slice(i, HeaderLen, HeaderLen + n)
  BY <1>1, <1>2, <1>3, Zenon
<1>5. Len(Slice(i, HeaderLen, HeaderLen + n)) = n  BY <1>1, SliceIsSeq
<1> QED  BY <1>4, <1>5, Zenon DEF PayloadOf, n

\* The sizes that were sent, and what fits.
LEMMA SizeFits ==
    ASSUME PacketsFit, FramingTypes, setup.steady, NEW k \in 1..Len(sent)
    PROVE  /\ sent[k].size \in Nat
           /\ sent[k].size < HeaderLen => /\ HeaderLen + sent[k].size <= SendMax
                                          /\ HeaderLen + sent[k].size <= RecvMax
<1>1. sent[k] \in [size : setup.sizes, kind : setup.kinds]
  BY ElementOfSeq, Zenon DEF FramingTypes
<1>2. sent[k].size \in setup.sizes  BY <1>1
<1>3. setup.sizes \subseteq Nat  BY FramingAssumption DEF FramingTypes
<1>4. setup \in Setups  BY DEF FramingTypes
<1> QED  BY <1>2, <1>3, <1>4 DEF PacketsFit

\* A packet is reported.
LEMMA SteadyReport ==
    ASSUME PacketsFit, FramingTypes, setup.steady, SteadyInv,
           NEW n \in setup.sizes, NEW kind \in setup.kinds, Report(n, kind), ~ahead'
    PROVE  SteadyInv'
<1> DEFINE i == Len(sent) + 1
<1>0. /\ setup.sizes \subseteq Nat /\ HeaderLen \in Nat \ {0} /\ StringLen \in Nat
      /\ Len(sent) \in Nat /\ Len(delivered) \in Nat /\ setup \in Setups
  BY FramingAssumption DEF FramingTypes
<1>1. n = IF kind = "typeString" THEN StringLen ELSE n
  BY <1>0 DEF PacketsFit
<1>2. /\ sock = <<>> /\ outbox = <<>> /\ srv # "deliver"
      /\ sent' = Append(sent, [size |-> n, kind |-> kind])
      /\ outbox' = Packet(i, n)
      /\ UNCHANGED <<setup, up, sock, listening, serverVars>>
  BY <1>1 DEF Report
<1>3. /\ Len(sent') = i /\ sent'[i] = [size |-> n, kind |-> kind] /\ i \in Nat
      /\ \A k \in 1..Len(sent) : sent'[k] = sent[k]
  BY <1>2 DEF FramingTypes
<1>4. DeliveredSoFar'
  <2> SUFFICES ASSUME NEW k \in 1..Len(delivered)
               PROVE  delivered[k] = PayloadOf(k)' /\ sent'[k].kind # "exit"
    BY <1>2 DEF DeliveredSoFar, serverVars
  <2>1. k \in 1..Len(sent)  BY <1>0 DEF SteadyInv
  <2>2. sent'[k] = sent[k]  BY <1>3, <2>1
  <2>3. PayloadOf(k)' = PayloadOf(k)  BY <2>2 DEF PayloadOf
  <2> QED  BY <2>2, <2>3 DEF SteadyInv, DeliveredSoFar
<1>5. CASE AtRest
  <2>1. Latest' = i /\ Size' = n /\ (HeaderLen + Size)' = HeaderLen + n
    BY <1>3 DEF Latest, Size
  <2>2. n \in Nat /\ i \in Nat /\ HeaderLen + n \in Nat  BY <1>0
  <2>3. outbox' = Slice(i, 0, HeaderLen + n)  BY <1>2, <2>2, PacketIsSlice
  <2>4. Slice(i, 0, 0) = <<>>  BY <2>2, SliceEmpty
  <2>5. Parted(0, 0, 0)'
    BY <1>2, <1>5, <2>1, <2>2, <2>3, <2>4 DEF Parted, AtRest, serverVars
  <2>6. Owed' /\ srv' = "idle" /\ hdr'.state # "read"
    BY <1>2, <1>3, <1>5 DEF Owed, AtRest, serverVars, NoHeader
  <2>7. 0 \in 0..(HeaderLen + n) /\ 0 < HeaderLen  BY <1>0
  <2>8. InHeader'
    <3> HIDE DEF i
    <3> QED  BY <2>1, <2>5, <2>6, <2>7 DEF InHeader
  <2> QED  BY <1>2, <1>3, <1>4, <1>5, <2>8 DEF SteadyInv, AtRest, serverVars
<1>6. ~InHeader /\ ~InPayload
  <2>1. ASSUME NEW first \in {0, HeaderLen}, NEW x \in 0..(HeaderLen + Size),
               NEW y \in 0..(HeaderLen + Size), Parted(first, x, y), Owed
        PROVE  x = HeaderLen + Size
    <3>1. Latest \in 1..Len(sent) /\ Latest \in Nat  BY <1>0, <2>1 DEF Owed, Latest
    <3>2. Size \in Nat  BY <3>1, SizeFits DEF Size
    <3>3. x \in Nat /\ y \in Nat /\ HeaderLen + Size \in Nat /\ x <= y /\ y <= HeaderLen + Size
      BY <1>0, <2>1, <3>2 DEF Parted
    <3>4. x = y  BY <1>2, <2>1, <3>1, <3>3, SliceEmpty DEF Parted
    <3>5. y = HeaderLen + Size  BY <1>2, <2>1, <3>1, <3>3, SliceEmpty DEF Parted
    <3> QED  BY <3>4, <3>5
  <2>2. ASSUME Owed  PROVE Size \in Nat
    <3>1. Latest \in 1..Len(sent)  BY <1>0, <2>2 DEF Owed, Latest
    <3> QED  BY <3>1, SizeFits DEF Size
  <2>3. ~InPayload  BY <2>1, <2>2, <1>0 DEF InPayload
  <2>4. ~InHeader  BY <2>1, <2>2, <1>0 DEF InHeader
  <2> QED  BY <2>3, <2>4
<1>7. CASE srv = "removed"
  BY <1>0, <1>2, <1>3, <1>4, <1>7 DEF SteadyInv, serverVars
<1> QED  BY <1>2, <1>5, <1>6, <1>7 DEF SteadyInv, AtDelivery

\* What is known of the packet on the way.
LEMMA OwedPacket ==
    ASSUME PacketsFit, FramingTypes, setup.steady, Owed
    PROVE  /\ Latest \in 1..Len(sent) /\ Latest \in Nat /\ Size \in Nat
           /\ HeaderLen \in Nat \ {0} /\ HeaderLen + Size \in Nat
           /\ SendMax \in Nat \ {0} /\ RecvMax \in Nat \ {0}
           /\ Size < HeaderLen => /\ HeaderLen + Size <= SendMax
                                  /\ HeaderLen + Size <= RecvMax
<1>0. /\ HeaderLen \in Nat \ {0} /\ SendMax \in Nat \ {0} /\ RecvMax \in Nat \ {0}
      /\ Len(sent) \in Nat /\ Len(delivered) \in Nat
  BY FramingAssumption DEF FramingTypes
<1>1. Latest \in 1..Len(sent) /\ Latest \in Nat  BY <1>0 DEF Owed, Latest
<1>2. /\ Size \in Nat
      /\ Size < HeaderLen => HeaderLen + Size <= SendMax /\ HeaderLen + Size <= RecvMax
  BY <1>1, SizeFits, Zenon DEF Size
<1> QED  BY <1>0, <1>1, <1>2

\* A send moves cells from the outbox to the socket.
LEMMA PartedSend ==
    ASSUME PacketsFit, FramingTypes, setup.steady, Owed,
           NEW first \in Nat, NEW x \in Nat, NEW y \in Nat,
           Parted(first, x, y), SocketSend, srv # "removed"
    PROVE  \E z \in 0..(HeaderLen + Size) :
              /\ z > y /\ Parted(first, x, z)'
              /\ SendMax >= HeaderLen + Size /\ y = 0 => z = HeaderLen + Size
<1>1. /\ Latest \in Nat /\ Size \in Nat /\ HeaderLen + Size \in Nat
      /\ SendMax \in Nat /\ SendMax # 0 /\ HeaderLen \in Nat
  BY OwedPacket
<1>2. first <= x /\ x <= y /\ y <= HeaderLen + Size /\ outbox = Slice(Latest, y, HeaderLen + Size)
  BY DEF Parted
<1>3. y < HeaderLen + Size
  <2>1. y # HeaderLen + Size  BY <1>1, <1>2, SliceEmpty DEF SocketSend
  <2> QED  BY <1>1, <1>2, <2>1
<1>0. PICK z \in Nat : z = y + Smaller(SendMax, HeaderLen + Size - y)
  <2>1. y + Smaller(SendMax, HeaderLen + Size - y) \in Nat  BY <1>1, <1>3 DEF Smaller
  <2> QED  BY <2>1
<1>4. /\ z > y /\ z <= HeaderLen + Size /\ y <= z /\ x <= z
      /\ SendMax >= HeaderLen + Size /\ y = 0 => z = HeaderLen + Size
  BY <1>1, <1>2, <1>3, <1>0 DEF Smaller
<1>5. /\ To(outbox, SendMax) = Slice(Latest, y, z)
      /\ From(outbox, SendMax) = Slice(Latest, z, HeaderLen + Size)
  BY <1>1, <1>2, <1>0, SliceTo, SliceFrom
<1>7. /\ sock' = sock \o To(outbox, SendMax) /\ outbox' = From(outbox, SendMax)
      /\ UNCHANGED <<sent, buf>>
  BY DEF SocketSend, serverVars
<1>8. sock' = Slice(Latest, x, z)
  <2>1. sock = Slice(Latest, x, y)  BY DEF Parted
  <2>2. Latest \in Nat  BY <1>1
  <2>3. x <= y /\ y <= z  BY <1>2, <1>4
  <2>4. Slice(Latest, x, y) \o Slice(Latest, y, z) = Slice(Latest, x, z)
    BY <2>2, <2>3, SliceConcat, Zenon
  <2> QED  BY <1>5, <1>7, <2>1, <2>4, Zenon
<1>9. Parted(first, x, z)'
  <2>1. Latest' = Latest /\ Size' = Size /\ buf' = buf  BY <1>7 DEF Latest, Size
  <2>2. buf = Slice(Latest, first, x)  BY DEF Parted
  <2> QED  BY <1>2, <1>4, <1>5, <1>7, <1>8, <2>1, <2>2, Zenon DEF Parted
<1>10. z \in 0..(HeaderLen + Size)  BY <1>1, <1>4
<1> QED  BY <1>4, <1>9, <1>10

LEMMA SteadySend ==
    ASSUME PacketsFit, FramingTypes, setup.steady, SteadyInv, SocketSend
    PROVE  SteadyInv'
<1>0. /\ UNCHANGED <<setup, sent, up, listening, serverVars>> /\ outbox # <<>>
      /\ Latest' = Latest /\ Size' = Size
  BY DEF SocketSend, Latest, Size
<1>1. /\ DeliveredSoFar' /\ Owed' = Owed
      /\ listening' /\ Len(delivered)' <= Len(sent)'
  BY <1>0 DEF SteadyInv, DeliveredSoFar, serverVars, PayloadOf, Owed
<1>2. CASE InHeader
  <2>0. Owed  BY <1>2 DEF InHeader
  <2>1. /\ HeaderLen \in Nat \ {0} /\ Size \in Nat
        /\ Size < HeaderLen => HeaderLen + Size <= SendMax
    BY <2>0, OwedPacket
  <2>2. PICK x, y \in 0..(HeaderLen + Size) :
            /\ Parted(0, x, y) /\ x < HeaderLen
            /\ Size < HeaderLen => x = 0 /\ y \in {0, HeaderLen + Size}
    BY <1>2 DEF InHeader
  <2>3. PICK z \in 0..(HeaderLen + Size) :
            /\ z > y /\ Parted(0, x, z)'
            /\ SendMax >= HeaderLen + Size /\ y = 0 => z = HeaderLen + Size
    <3>1. 0 \in Nat /\ x \in Nat /\ y \in Nat /\ srv # "removed"
      BY <1>2, <2>1, <2>2 DEF InHeader
    <3> QED  BY <2>0, <2>2, <3>1, PartedSend
  <2>4. Size < HeaderLen => x = 0 /\ z = HeaderLen + Size  BY <2>1, <2>2, <2>3
  <2>5. InHeader'
    <3>1. srv' = "idle" /\ hdr'.state # "read" /\ Owed'
      BY <1>0, <1>1, <1>2 DEF InHeader, serverVars
    <3> QED  BY <1>0, <2>2, <2>3, <2>4, <3>1 DEF InHeader
  <2> QED  BY <1>1, <2>5 DEF SteadyInv
<1>3. CASE InPayload
  <2>0. Owed  BY <1>3 DEF InPayload
  <2>1. HeaderLen \in Nat \ {0} /\ Size \in Nat  BY <2>0, OwedPacket
  <2>2. PICK x, y \in 0..(HeaderLen + Size) :
            Parted(HeaderLen, x, y) /\ x < HeaderLen + Size
    BY <1>3 DEF InPayload
  <2>3. PICK z \in 0..(HeaderLen + Size) : Parted(HeaderLen, x, z)'
    <3>1. HeaderLen \in Nat /\ x \in Nat /\ y \in Nat /\ srv # "removed"
      BY <1>3, <2>1, <2>2 DEF InPayload
    <3> QED  BY <2>0, <2>2, <3>1, PartedSend
  <2>4. InPayload'
    <3>1. /\ srv' = "idle" /\ hdr' = [state |-> "read", size |-> Size] /\ Owed'
          /\ Size >= HeaderLen /\ sent'[Latest].kind # "exit"
      BY <1>0, <1>1, <1>3 DEF InPayload, serverVars
    <3> QED  BY <1>0, <2>2, <2>3, <3>1 DEF InPayload
  <2> QED  BY <1>1, <2>4 DEF SteadyInv
<1>4. CASE srv = "removed"  BY <1>0, <1>1, <1>4 DEF SteadyInv, serverVars
<1> QED  BY <1>0, <1>2, <1>3, <1>4 DEF SteadyInv, AtRest, AtDelivery

\* A receive moves cells from the socket behind those of the buffer.
LEMMA PartedRecv ==
    ASSUME PacketsFit, FramingTypes, setup.steady, Owed,
           NEW first \in Nat, NEW x \in Nat, NEW y \in Nat,
           Parted(first, x, y), sock # <<>>
    PROVE  \E z \in Nat :
              /\ z > x /\ z <= y
              /\ RecvMax >= y - x => z = y
              /\ buf \o To(sock, RecvMax) = Slice(Latest, first, z)
              /\ From(sock, RecvMax) = Slice(Latest, z, y)
<1>1. /\ Latest \in Nat /\ Size \in Nat /\ HeaderLen + Size \in Nat
      /\ RecvMax \in Nat /\ RecvMax # 0 /\ HeaderLen \in Nat
  BY OwedPacket
<1>2. /\ first <= x /\ x <= y /\ y <= HeaderLen + Size
      /\ buf = Slice(Latest, first, x) /\ sock = Slice(Latest, x, y)
  BY DEF Parted
<1>3. x < y
  <2>1. x # y  BY <1>1, <1>2, SliceEmpty
  <2> QED  BY <1>2, <2>1
<1>4. PICK z \in Nat : z = x + Smaller(RecvMax, y - x)
  <2>1. x + Smaller(RecvMax, y - x) \in Nat  BY <1>1, <1>3 DEF Smaller
  <2> QED  BY <2>1
<1>5. RecvMax >= y - x => z = y  BY <1>1, <1>3, <1>4 DEF Smaller
<1>6. z > x /\ z <= y  BY <1>1, <1>3, <1>4 DEF Smaller
<1>7. /\ To(sock, RecvMax) = Slice(Latest, x, z)
      /\ From(sock, RecvMax) = Slice(Latest, z, y)
  BY <1>1, <1>2, <1>4, SliceTo, SliceFrom
<1>8. Slice(Latest, first, x) \o Slice(Latest, x, z) = Slice(Latest, first, z)
  <2>1. Latest \in Nat  BY <1>1
  <2>2. first <= x /\ x <= z  BY <1>2, <1>6
  <2> QED  BY <2>1, <2>2, SliceConcat, Zenon
<1> QED  BY <1>2, <1>5, <1>6, <1>7, <1>8

\* The payload is taken or waited for.
LEMMA SteadyTake ==
    ASSUME PacketsFit, FramingTypes, setup.steady, Owed, sent[Latest].kind # "exit",
           UNCHANGED <<sent, outbox, delivered>>, srv = "idle",
           NEW z \in Nat, NEW y \in Nat, HeaderLen <= z, z <= y, y <= HeaderLen + Size,
           Size < HeaderLen => z = HeaderLen + Size,
           sock' = Slice(Latest, z, y), outbox = Slice(Latest, y, HeaderLen + Size),
           TakePayload(Slice(Latest, HeaderLen, z), [state |-> "read", size |-> Size])
    PROVE  InPayload' \/ AtDelivery'
<1> DEFINE b == Slice(Latest, HeaderLen, z)
<1>1. /\ Latest \in 1..Len(sent) /\ Latest \in Nat /\ Size \in Nat
      /\ HeaderLen \in Nat /\ HeaderLen + Size \in Nat
  BY OwedPacket
<1>2. Latest' = Latest /\ Size' = Size /\ PayloadOf(Latest)' = PayloadOf(Latest)
  BY DEF Latest, Size, PayloadOf
<1>3. Len(b) = z - HeaderLen  BY <1>1, SliceIsSeq
<1>4. CASE Len(b) < Size
  <2>1. z < HeaderLen + Size /\ Size >= HeaderLen  BY <1>1, <1>3, <1>4
  <2>2. /\ buf' = b /\ hdr' = [state |-> "read", size |-> Size]
        /\ UNCHANGED <<got, srv>>
    BY <1>4 DEF TakePayload
  <2>3. Parted(HeaderLen, z, y)'  BY <1>2, <2>2 DEF Parted
  <2>4. Owed'  BY <2>2 DEF Owed
  <2>5. z \in 0..(HeaderLen + Size) /\ y \in 0..(HeaderLen + Size)  BY <1>1
  <2>6. sent'[Latest].kind # "exit"  OBVIOUS
  <2>7. InPayload'  BY <1>2, <2>1, <2>2, <2>3, <2>4, <2>5, <2>6 DEF InPayload
  <2> QED  BY <2>7
<1>5. CASE ~(Len(b) < Size)
  <2>1. z = HeaderLen + Size /\ y = HeaderLen + Size  BY <1>1, <1>3, <1>5
  <2>2. /\ buf' = From(b, Size) /\ got' = To(b, Size) /\ srv' = "deliver"
    BY <1>1, <1>5 DEF TakePayload
  <2>3. /\ HeaderLen <= z /\ z <= z /\ Smaller(Size, z - HeaderLen) = Size
        /\ HeaderLen + Size = z
    BY <1>1, <2>1 DEF Smaller
  <2>4. From(b, Size) = Slice(Latest, z, z)
    <3>1. From(b, Size) = Slice(Latest, HeaderLen + Smaller(Size, z - HeaderLen), z)
      BY <1>1, SliceFrom
    <3> QED  BY <2>3, <3>1, Zenon
  <2>5. To(b, Size) = PayloadOf(Latest)
    <3>1. To(b, Size) = Slice(Latest, HeaderLen, HeaderLen + Smaller(Size, z - HeaderLen))
      BY <1>1, SliceTo
    <3>2. PayloadOf(Latest) = Slice(Latest, HeaderLen, HeaderLen + Size)
      BY <1>1, PayloadIsSlice DEF Size, Latest
    <3> QED  BY <2>3, <3>1, <3>2, Zenon
  <2>6. Slice(Latest, z, z) = <<>>  BY <1>1, SliceEmpty
  <2>7. /\ buf' = <<>> /\ sock' = <<>> /\ outbox' = <<>> /\ got' = PayloadOf(Latest)
    BY <2>1, <2>2, <2>4, <2>5, <2>6
  <2>8. AtDelivery'  BY <1>2, <2>2, <2>7 DEF AtDelivery, Owed
  <2> QED  BY <2>8
<1> QED  BY <1>4, <1>5

LEMMA SteadyRecv ==
    ASSUME PacketsFit, FramingTypes, setup.steady, SteadyInv, Recv
    PROVE  SteadyInv'
<1>0. /\ srv = "idle" /\ sock # <<>> /\ sock' = From(sock, RecvMax) /\ listening
      /\ UNCHANGED <<setup, sent, outbox, up, listening, delivered, hungUp>>
  BY DEF Recv, clientVars, SteadyInv
<1>1. Latest' = Latest /\ Size' = Size  BY <1>0 DEF Latest, Size
<1>2. DeliveredSoFar' /\ listening' /\ Len(delivered)' <= Len(sent)'
  BY <1>0 DEF SteadyInv, DeliveredSoFar, PayloadOf
<1>3. PICK h \in Header : Process(buf \o To(sock, RecvMax), h)
  BY <1>0 DEF Recv
<1>4. SUFFICES InHeader' \/ InPayload' \/ AtDelivery' \/ srv' = "removed"
  BY <1>2 DEF SteadyInv
<1>5. ASSUME Owed
      PROVE  /\ Latest \in Nat /\ Size \in Nat /\ HeaderLen \in Nat
             /\ HeaderLen # 0 /\ HeaderLen + Size \in Nat
             /\ Size < HeaderLen => HeaderLen + Size <= RecvMax
  BY <1>5, OwedPacket
<1>6. CASE InHeader
  <2>0. Owed  BY <1>6 DEF InHeader
  <2>1. PICK x, y \in 0..(HeaderLen + Size) :
            /\ Parted(0, x, y) /\ x < HeaderLen
            /\ Size < HeaderLen => x = 0 /\ y \in {0, HeaderLen + Size}
    BY <1>6 DEF InHeader
  <2>2. /\ x \in Nat /\ y \in Nat /\ x <= y /\ y <= HeaderLen + Size
        /\ outbox = Slice(Latest, y, HeaderLen + Size)
    BY <2>1 DEF Parted
  <2>3. PICK z \in Nat :
            /\ z > x /\ z <= y
            /\ RecvMax >= y - x => z = y
            /\ buf \o To(sock, RecvMax) = Slice(Latest, 0, z)
            /\ From(sock, RecvMax) = Slice(Latest, z, y)
    <3>1. 0 \in Nat  OBVIOUS
    <3> QED  BY <1>0, <2>0, <2>1, <2>2, <3>1, PartedRecv
  <2> DEFINE b == Slice(Latest, 0, z)
  <2>4. Process(b, h) /\ sock' = Slice(Latest, z, y)  BY <1>0, <1>3, <2>3
  <2>5. Size < HeaderLen => z = HeaderLen + Size
    <3> SUFFICES ASSUME Size < HeaderLen PROVE z = HeaderLen + Size  OBVIOUS
    <3>1. x = 0 /\ y \in {0, HeaderLen + Size}  BY <2>1
    <3>2. y = HeaderLen + Size  BY <2>2, <2>3, <3>1
    <3> QED  BY <1>5, <2>0, <2>3, <3>1, <3>2
  <2>6. Len(b) = z /\ 0 <= z
    <3>1. 0 \in Nat /\ 0 <= z /\ z - 0 = z  OBVIOUS
    <3> QED  BY <1>5, <2>0, <3>1, SliceIsSeq
  <2>7. CASE z < HeaderLen
    <3>1. buf' = b /\ hdr' = h /\ UNCHANGED <<got, srv>>
      BY <2>4, <2>6, <2>7 DEF Process
    <3>2. h.state # "read"  BY <1>6 DEF InHeader, Header, FreshHeaders
    <3>3. Parted(0, z, y)'  BY <1>0, <1>1, <2>2, <2>3, <2>4, <2>6, <3>1 DEF Parted
    <3>4. Owed'  BY <1>0, <2>0, <3>1 DEF Owed
    <3>5. ~(Size < HeaderLen)  BY <1>5, <2>0, <2>5, <2>7
    <3>6. z \in 0..(HeaderLen + Size)  BY <1>5, <2>0, <2>2, <2>3
    <3>7. InHeader'
      BY <1>0, <1>1, <2>1, <2>7, <3>1, <3>2, <3>3, <3>4, <3>5, <3>6 DEF InHeader
    <3> QED  BY <3>7
  <2>8. CASE ~(z < HeaderLen)
    <3>1. b[1] = [pkt |-> Latest, pos |-> 1]
      <4>1. 1 \in 1..(z - 0) /\ 0 + 1 = 1  BY <1>5, <2>0, <2>8
      <4> QED  BY <4>1 DEF Slice
    <3>2. b[1].pos = 1 /\ b[1].pkt = Latest  BY <3>1
    <3>3. CASE IsExit(b)
      <4>1. srv' = "removed"
        <5> HIDE DEF b
        <5> QED  BY <2>4, <2>6, <2>8, <3>2, <3>3 DEF Process
      <4> QED  BY <4>1
    <3>4. CASE ~IsExit(b)
      <4>1. PICK read \in HeaderAt(b) : TakePayload(From(b, HeaderLen), read)
        <5> HIDE DEF b
        <5> QED  BY <2>4, <2>6, <2>8, <3>2, <3>4 DEF Process
      <4>2. Smaller(HeaderLen, z - 0) = HeaderLen /\ 0 + HeaderLen = HeaderLen
            /\ HeaderLen + 0 = HeaderLen /\ 0 \in Nat
        BY <1>5, <2>0, <2>8 DEF Smaller
      <4>3. To(b, HeaderLen) = Slice(Latest, 0, HeaderLen)
        <5>1. To(b, HeaderLen) = Slice(Latest, 0, 0 + Smaller(HeaderLen, z - 0))
          BY <1>5, <2>0, <2>6, <4>2, SliceTo
        <5> QED  BY <4>2, <5>1, Zenon
      <4>4. Packet(Latest, 0) = Slice(Latest, 0, HeaderLen)
        <5>1. Packet(Latest, 0) = Slice(Latest, 0, HeaderLen + 0)
          BY <1>5, <2>0, <4>2, PacketIsSlice
        <5> QED  BY <4>2, <5>1, Zenon
      <4>5. read = [state |-> "read", size |-> Size]
        <5>1. sent[b[1].pkt].size = Size  BY <3>2 DEF Size
        <5>2. read \in [state : {"read"}, size : {Size}]
          <6> HIDE DEF b
          <6> QED  BY <3>2, <4>1, <4>3, <4>4, <5>1, Zenon DEF HeaderAt
        <5> QED  BY <5>2
      <4>6. From(b, HeaderLen) = Slice(Latest, HeaderLen, z)
        <5>1. From(b, HeaderLen) = Slice(Latest, 0 + Smaller(HeaderLen, z - 0), z)
          BY <1>5, <2>0, <2>6, <4>2, SliceFrom
        <5> QED  BY <4>2, <5>1, Zenon
      <4>7. sent[Latest].kind # "exit"
        <5> HIDE DEF b
        <5> QED  BY <3>2, <3>4 DEF IsExit
      <4>8. /\ TakePayload(Slice(Latest, HeaderLen, z), [state |-> "read", size |-> Size])
            /\ HeaderLen <= z
        BY <1>5, <2>0, <2>8, <4>1, <4>5, <4>6
      <4> QED  BY <1>0, <2>0, <2>2, <2>3, <2>4, <2>5, <4>7, <4>8, SteadyTake
    <3> QED  BY <3>3, <3>4
  <2> QED  BY <2>7, <2>8
<1>7. CASE InPayload
  <2>0. Owed /\ hdr = [state |-> "read", size |-> Size]
        /\ Size >= HeaderLen /\ sent[Latest].kind # "exit"
    BY <1>7 DEF InPayload
  <2>1. PICK x, y \in 0..(HeaderLen + Size) :
            Parted(HeaderLen, x, y) /\ x < HeaderLen + Size
    BY <1>7 DEF InPayload
  <2>2. /\ x \in Nat /\ y \in Nat /\ HeaderLen <= x /\ x <= y /\ y <= HeaderLen + Size
        /\ outbox = Slice(Latest, y, HeaderLen + Size)
    BY <2>1 DEF Parted
  <2>3. PICK z \in Nat :
            /\ z > x /\ z <= y
            /\ buf \o To(sock, RecvMax) = Slice(Latest, HeaderLen, z)
            /\ From(sock, RecvMax) = Slice(Latest, z, y)
    <3>1. HeaderLen \in Nat  BY <1>5, <2>0
    <3> QED  BY <1>0, <2>0, <2>1, <2>2, <3>1, PartedRecv
  <2> DEFINE b == Slice(Latest, HeaderLen, z)
  <2>4. Process(b, h) /\ sock' = Slice(Latest, z, y)  BY <1>0, <1>3, <2>3
  <2>5. h = hdr  BY <2>0 DEF Header
  <2>6. Len(b) = z - HeaderLen /\ HeaderLen <= z
    <3>1. HeaderLen <= z  BY <1>5, <2>0, <2>2, <2>3
    <3> QED  BY <1>5, <2>0, <3>1, SliceIsSeq
  <2>7. CASE Len(b) < HeaderLen
    <3>1. buf' = b /\ hdr' = hdr /\ UNCHANGED <<got, srv>>
      <4> HIDE DEF b
      <4> QED  BY <2>4, <2>5, <2>7 DEF Process
    <3>2. z < HeaderLen + Size  BY <1>5, <2>0, <2>6, <2>7
    <3>3. Parted(HeaderLen, z, y)'
      BY <1>0, <1>1, <2>2, <2>3, <2>4, <2>6, <3>1 DEF Parted
    <3>4. Owed'  BY <1>0, <2>0, <3>1 DEF Owed
    <3>5. z \in 0..(HeaderLen + Size)  BY <1>5, <2>0, <3>2
    <3>6. /\ srv' = "idle" /\ hdr' = [state |-> "read", size |-> Size]
          /\ sent'[Latest].kind # "exit"
      BY <1>0, <2>0, <3>1
    <3>7. InPayload'
      BY <1>1, <2>0, <2>1, <3>2, <3>3, <3>4, <3>5, <3>6 DEF InPayload
    <3> QED  BY <3>7
  <2>8. CASE ~(Len(b) < HeaderLen)
    <3>1. b[1] = [pkt |-> Latest, pos |-> HeaderLen + 1]
      <4>1. 1 \in 1..(z - HeaderLen)  BY <1>5, <2>0, <2>6, <2>8
      <4> QED  BY <4>1 DEF Slice
    <3>2. b[1].pos # 1  BY <1>5, <2>0, <3>1
    <3>3. TakePayload(b, hdr)
      <4> HIDE DEF b
      <4> QED  BY <2>4, <2>5, <2>8, <3>2 DEF Process
    <3>4. Size < HeaderLen => z = HeaderLen + Size  BY <1>5, <2>0
    <3> QED  BY <1>0, <2>0, <2>2, <2>3, <2>4, <2>6, <3>3, <3>4, SteadyTake
  <2> QED  BY <2>7, <2>8
<1> QED  BY <1>0, <1>6, <1>7 DEF SteadyInv, AtRest, AtDelivery

LEMMA SteadyDeliver ==
    ASSUME PacketsFit, FramingTypes, setup.steady, SteadyInv, Deliver
    PROVE  SteadyInv'
<1>0. AtDelivery /\ listening  BY DEF SteadyInv, Deliver, AtRest, InHeader, InPayload
<1>1. /\ delivered' = Append(delivered, got)
      /\ srv' = "idle" /\ buf' = <<>> /\ hdr' = NoHeader /\ got' = <<>>
      /\ UNCHANGED <<setup, sent, outbox, sock, listening>>
  BY <1>0 DEF Deliver, clientVars
<1>2. delivered \in Seq(Seq(SentCells)) /\ got \in Seq(SentCells) /\ Len(sent) \in Nat
  BY DEF FramingTypes
<1>3. /\ Len(delivered') = Len(sent) /\ Latest = Len(delivered) + 1
      /\ delivered'[Latest] = got
      /\ \A k \in 1..Len(delivered) : delivered'[k] = delivered[k]
  <2>1. Latest = Len(delivered) + 1  BY <1>0 DEF AtDelivery, Latest
  <2> QED  BY <1>1, <1>2, <2>1 DEF Latest
<1>4. DeliveredSoFar'
  <2> SUFFICES ASSUME NEW k \in 1..Len(sent)
               PROVE  delivered'[k] = PayloadOf(k) /\ sent[k].kind # "exit"
    BY <1>1, <1>3 DEF DeliveredSoFar, PayloadOf
  <2>1. CASE k = Latest  BY <1>0, <1>3, <2>1 DEF AtDelivery
  <2>2. CASE k # Latest
    <3>1. k \in 1..Len(delivered)  BY <1>2, <1>3, <2>2 DEF Latest
    <3> QED  BY <1>3, <3>1 DEF SteadyInv, DeliveredSoFar
  <2> QED  BY <2>1, <2>2
<1>5. AtRest'  BY <1>0, <1>1, <1>3 DEF AtRest, AtDelivery
<1> QED  BY <1>0, <1>1, <1>2, <1>3, <1>4, <1>5 DEF SteadyInv

LEMMA SteadyPreserved ==
    ASSUME PacketsFit, FramingTypes, SteadyInv, [FramingNext]_vars, ~ahead'
    PROVE  SteadyInv'
<1>1. setup' = setup
  BY DEF FramingNext, Report, SocketSend, Disconnect, Register, Unregister, Recv, HangUp,
         Deliver, vars
<1>2. CASE ~setup.steady  BY <1>1, <1>2 DEF SteadyInv
<1>3. CASE setup.steady
  <2> USE <1>3
  <2>1. ASSUME NEW n \in setup.sizes, NEW kind \in setup.kinds, Report(n, kind)
        PROVE  SteadyInv'
    BY <2>1, SteadyReport
  <2>2. CASE SocketSend  BY <2>2, SteadySend
  <2>3. CASE Recv  BY <2>3, SteadyRecv
  <2>4. CASE Deliver  BY <2>4, SteadyDeliver
  <2>5. CASE HangUp
    BY <2>5 DEF HangUp, SteadyInv, DeliveredSoFar, PayloadOf, clientVars
  <2>6. CASE Disconnect \/ UNCHANGED vars
    <3>1. UNCHANGED <<setup, sent, outbox, sock, listening, serverVars>>
      BY <2>6 DEF Disconnect, vars, clientVars
    <3> QED  BY <3>1 DEF SteadyInv, DeliveredSoFar, PayloadOf, AtRest, InHeader, InPayload,
                         AtDelivery, Owed, Parted, Latest, Size, serverVars
  <2> QED  BY <2>1, <2>2, <2>3, <2>4, <2>5, <2>6
           DEF FramingNext, Register, Unregister
<1> QED  BY <1>2, <1>3

\* The payloads of a steady listener come whole and in order.
LEMMA SteadyCorrect ==
    ASSUME PacketsFit, FramingTypes, SteadyInv
    PROVE  DeliveredInOrder /\ NothingLeftBehind
<1>1. CASE ~setup.steady  BY <1>1 DEF DeliveredInOrder, NothingLeftBehind
<1>2. CASE setup.steady
  <2>0. /\ Len(sent) \in Nat /\ delivered \in Seq(Seq(SentCells))
        /\ Len(delivered) <= Len(sent) /\ DeliveredSoFar
    BY <1>2 DEF FramingTypes, SteadyInv
  <2>1. NothingLeftBehind
    <3> SUFFICES ASSUME srv = "idle", outbox = <<>>, sock = <<>>  PROVE AtRest
      BY DEF NothingLeftBehind, AtRest
    <3>1. ASSUME Owed, NEW first \in Nat, NEW x \in Nat, NEW y \in Nat, Parted(first, x, y)
          PROVE  x = HeaderLen + Size
      <4>1. Latest \in Nat /\ HeaderLen + Size \in Nat  BY <1>2, <3>1, OwedPacket
      <4>2. /\ x <= y /\ y <= HeaderLen + Size
            /\ Slice(Latest, x, y) = <<>> /\ Slice(Latest, y, HeaderLen + Size) = <<>>
        BY <3>1 DEF Parted
      <4>3. x = y /\ y = HeaderLen + Size  BY <4>1, <4>2, SliceEmpty
      <4> QED  BY <4>3
    <3>2. ASSUME Owed  PROVE Size \in Nat /\ HeaderLen \in Nat  BY <1>2, <3>2, OwedPacket
    <3>3. ~InHeader
      <4> SUFFICES ASSUME InHeader PROVE FALSE  OBVIOUS
      <4>1. Owed  BY DEF InHeader
      <4>2. PICK x, y \in 0..(HeaderLen + Size) : Parted(0, x, y) /\ x < HeaderLen
        BY DEF InHeader
      <4>3. 0 \in Nat /\ x \in Nat /\ y \in Nat  OBVIOUS
      <4>4. x = HeaderLen + Size  BY <3>1, <4>1, <4>2, <4>3
      <4> QED  BY <3>2, <4>1, <4>2, <4>4
    <3>4. ~InPayload
      <4> SUFFICES ASSUME InPayload PROVE FALSE  OBVIOUS
      <4>1. Owed  BY DEF InPayload
      <4>2. PICK x, y \in 0..(HeaderLen + Size) :
                Parted(HeaderLen, x, y) /\ x < HeaderLen + Size
        BY DEF InPayload
      <4>3. HeaderLen \in Nat /\ x \in Nat /\ y \in Nat  BY <3>2, <4>1
      <4>4. x = HeaderLen + Size  BY <3>1, <4>1, <4>2, <4>3
      <4> QED  BY <3>2, <4>1, <4>2, <4>4
    <3> QED  BY <1>2, <3>3, <3>4 DEF SteadyInv, AtDelivery
  <2>2. IsPrefix(delivered, Payloads)
    <3>1. ASSUME NEW k \in 1..Len(sent)  PROVE PayloadOf(k) \in Seq([pkt : Nat, pos : Nat])
      <4>1. k \in Nat /\ sent[k].size \in Nat /\ HeaderLen \in Nat
        BY <1>2, SizeFits, FramingAssumption
      <4>2. Packet(k, sent[k].size) \in Seq(CellsOf(k))  BY <4>1, PacketIsSlice
      <4>3. From(Packet(k, sent[k].size), HeaderLen) \in Seq(CellsOf(k))  BY <4>1, <4>2, CutType
      <4>4. CellsOf(k) \subseteq [pkt : Nat, pos : Nat]  BY <4>1 DEF CellsOf
      <4>5. Seq(CellsOf(k)) \subseteq Seq([pkt : Nat, pos : Nat])  BY <4>4, WiderSeq, Zenon
      <4> QED  BY <4>3, <4>5, Zenon DEF PayloadOf
    <3> DEFINE P == Seq([pkt : Nat, pos : Nat])
    <3>2. /\ Payloads \in Seq(P) /\ Len(Payloads) = Len(sent)
          /\ \A k \in 1..Len(sent) : Payloads[k] = PayloadOf(k)
      <4> HIDE DEF P
      <4>1. \A k \in 1..Len(sent) : PayloadOf(k) \in P  BY <3>1 DEF P
      <4> QED  BY <2>0, <4>1 DEF Payloads
    <3> DEFINE d == SubSeq(delivered, 1, Len(delivered))
               p == SubSeq(Payloads, 1, Len(delivered))
               D == Seq(SentCells) \cup P
    <3>3. delivered \in Seq(D) /\ Payloads \in Seq(D)
      <4>1. Seq(SentCells) \subseteq D /\ P \subseteq D  OBVIOUS
      <4> HIDE DEF P, D
      <4> QED  BY <2>0, <3>2, <4>1, WiderSeq
    <3> HIDE DEF P, D
    <3>4. /\ d \in Seq(D) /\ p \in Seq(D) /\ Len(d) = Len(delivered) /\ Len(p) = Len(d)
          /\ \A k \in 1..Len(d) : d[k] = delivered[k] /\ p[k] = Payloads[k]
      BY <2>0, <3>2, <3>3
    <3>5. \A k \in 1..Len(d) : d[k] = p[k]
      BY <2>0, <3>2, <3>4 DEF DeliveredSoFar
    <3> HIDE DEF d, p
    <3>6. d = p  BY <3>4, <3>5, SameElements, Zenon
    <3> QED  BY <2>0, <3>2, <3>6 DEF IsPrefix, d, p
  <2>3. \A k \in 1..Len(delivered) : sent[k].kind # "exit"
    BY <2>0 DEF DeliveredSoFar
  <2> QED  BY <2>1, <2>2, <2>3 DEF DeliveredInOrder
<1> QED  BY <1>1, <1>2

-----------------------------------------------------------------------------
(* A listener that comes and goes. Packets travel whole, so that the server     *)
(* never keeps part of one between two receives.                               *)

Carried == IF sent[Latest].kind = "typeString" THEN StringLen ELSE Size

\* A whole packet is on the way, or none.
WholeOnTheWay ==
    \/ outbox = <<>> /\ sock = <<>>
    \/ /\ Len(sent) > 0
       /\ \/ outbox = Packet(Latest, Carried) /\ sock = <<>>
          \/ outbox = <<>> /\ sock = Packet(Latest, Carried)

IsSent(p) == \E k \in 1..Len(sent) : p = PayloadOf(k)

\* The inductive invariant.
WholeInv ==
    ~setup.steady =>
        /\ \A i \in 1..Len(delivered) : IsSent(delivered[i])
        /\ \/ srv = "idle" /\ buf = <<>> /\ WholeOnTheWay
           \/ srv = "deliver" /\ outbox = <<>> /\ sock = <<>> /\ IsSent(got)
           \/ srv \in {"removed", "broken"}

\* What fits when the listener comes and goes.
LEMMA WholeFits ==
    ASSUME PacketsFit, FramingTypes, ~setup.steady, Len(sent) > 0
    PROVE  /\ Latest \in 1..Len(sent) /\ Latest \in Nat /\ Size \in Nat /\ Carried \in Nat
           /\ HeaderLen \in Nat /\ HeaderLen # 0 /\ HeaderLen + Carried \in Nat
           /\ SendMax \in Nat /\ RecvMax \in Nat
           /\ HeaderLen + Carried <= SendMax /\ HeaderLen + Carried <= RecvMax
           /\ Size <= Carried
<1>1. /\ HeaderLen \in Nat /\ HeaderLen # 0 /\ SendMax \in Nat /\ RecvMax \in Nat
      /\ StringLen \in Nat /\ setup.sizes \subseteq Nat /\ setup \in Setups
      /\ Len(sent) \in Nat
  BY FramingAssumption DEF FramingTypes
<1>2. Latest \in 1..Len(sent) /\ Latest \in Nat  BY <1>1 DEF Latest
<1>3. sent[Latest] \in [size : setup.sizes, kind : setup.kinds]
  BY <1>2, ElementOfSeq, Zenon DEF FramingTypes
<1>4. Size \in setup.sizes /\ Size \in Nat /\ sent[Latest].kind \in setup.kinds
  BY <1>1, <1>3 DEF Size
<1>5. /\ HeaderLen + Size <= SendMax /\ HeaderLen + Size <= RecvMax
      /\ sent[Latest].kind = "typeString" =>
            /\ HeaderLen + StringLen <= SendMax /\ HeaderLen + StringLen <= RecvMax
            /\ Size <= StringLen
  BY <1>1, <1>4 DEF PacketsFit
<1>6. CASE sent[Latest].kind = "typeString"  BY <1>1, <1>2, <1>4, <1>5, <1>6 DEF Carried
<1>7. CASE sent[Latest].kind # "typeString"  BY <1>1, <1>2, <1>4, <1>5, <1>7 DEF Carried
<1> QED  BY <1>6, <1>7

\* A send or a receive that is large enough takes all.
LEMMA WholeTaken ==
    ASSUME NEW i \in Nat, NEW n \in Nat, NEW m \in Nat, HeaderLen + n <= m
    PROVE  To(Packet(i, n), m) = Packet(i, n) /\ From(Packet(i, n), m) = <<>>
<1>1. /\ HeaderLen + n \in Nat /\ 0 \in Nat /\ 0 <= HeaderLen + n
      /\ Packet(i, n) = Slice(i, 0, HeaderLen + n)
  BY PacketIsSlice
<1>2. 0 + Smaller(m, (HeaderLen + n) - 0) = HeaderLen + n  BY <1>1 DEF Smaller
<1>3. To(Slice(i, 0, HeaderLen + n), m) = Slice(i, 0, HeaderLen + n)
  <2>1. To(Slice(i, 0, HeaderLen + n), m)
          = Slice(i, 0, 0 + Smaller(m, (HeaderLen + n) - 0))
    BY <1>1, SliceTo
  <2> QED  BY <1>2, <2>1, Zenon
<1>4. From(Slice(i, 0, HeaderLen + n), m) = Slice(i, HeaderLen + n, HeaderLen + n)
  <2>1. From(Slice(i, 0, HeaderLen + n), m)
          = Slice(i, 0 + Smaller(m, (HeaderLen + n) - 0), HeaderLen + n)
    BY <1>1, SliceFrom
  <2> QED  BY <1>2, <2>1, Zenon
<1>5. Slice(i, HeaderLen + n, HeaderLen + n) = <<>>  BY <1>1, SliceEmpty
<1> QED  BY <1>1, <1>3, <1>4, <1>5, Zenon

\* What the server makes of a whole packet.
LEMMA WholeProcessed ==
    ASSUME PacketsFit, FramingTypes, ~setup.steady, Len(sent) > 0, srv = "idle",
           NEW h, Process(Packet(Latest, Carried), h), UNCHANGED sent
    PROVE  srv' = "removed" \/ (srv' = "deliver" /\ IsSent(got)')
<1> DEFINE L == HeaderLen + Carried  b == Packet(Latest, Carried)
<1>1. /\ Latest \in 1..Len(sent) /\ Latest \in Nat /\ Size \in Nat /\ Carried \in Nat
      /\ HeaderLen \in Nat /\ HeaderLen # 0 /\ L \in Nat /\ Size <= Carried /\ 0 \in Nat
  BY WholeFits
<1>2. b = Slice(Latest, 0, L) /\ 0 <= L  BY <1>1, PacketIsSlice
<1>3. Len(b) = L
  <2>1. L - 0 = L  BY <1>1
  <2>2. Len(Slice(Latest, 0, L)) = L - 0  BY <1>1, <1>2, SliceIsSeq
  <2> HIDE DEF L, b
  <2> QED  BY <1>2, <2>1, <2>2
<1>4. b[1].pos = 1 /\ b[1].pkt = Latest  BY <1>1 DEF Packet
<1>5. ~(Len(b) < HeaderLen)  BY <1>1, <1>3
<1>6. CASE IsExit(b)
  <2> HIDE DEF b
  <2> QED  BY <1>4, <1>5, <1>6 DEF Process, b
<1>7. CASE ~IsExit(b)
  <2>1. PICK read \in HeaderAt(b) : TakePayload(From(b, HeaderLen), read)
    <3>1. Process(b, h)  OBVIOUS
    <3> HIDE DEF b
    <3> QED  BY <1>4, <1>5, <1>7, <3>1 DEF Process
  <2>2. /\ Smaller(HeaderLen, L - 0) = HeaderLen /\ 0 + HeaderLen = HeaderLen
        /\ HeaderLen + 0 = HeaderLen
    BY <1>1 DEF Smaller
  <2>3. To(b, HeaderLen) = Slice(Latest, 0, HeaderLen)
    <3>1. To(Slice(Latest, 0, L), HeaderLen) = Slice(Latest, 0, 0 + Smaller(HeaderLen, L - 0))
      BY <1>1, <1>2, SliceTo
    <3> HIDE DEF L
    <3> QED  BY <1>2, <2>2, <3>1, Zenon
  <2>4. Packet(Latest, 0) = Slice(Latest, 0, HeaderLen)
    <3>1. Packet(Latest, 0) = Slice(Latest, 0, HeaderLen + 0)  BY <1>1, PacketIsSlice
    <3> QED  BY <2>2, <3>1, Zenon
  <2>5. read = [state |-> "read", size |-> Size]
    <3>1. sent[b[1].pkt].size = Size  BY <1>4 DEF Size
    <3>2. read \in [state : {"read"}, size : {Size}]
      <4> HIDE DEF b
      <4> QED  BY <1>4, <2>1, <2>3, <2>4, <3>1, Zenon DEF HeaderAt
    <3> QED  BY <3>2
  <2>6. From(b, HeaderLen) = Slice(Latest, HeaderLen, L)
    <3>1. From(Slice(Latest, 0, L), HeaderLen) = Slice(Latest, 0 + Smaller(HeaderLen, L - 0), L)
      BY <1>1, <1>2, SliceFrom
    <3> HIDE DEF L
    <3> QED  BY <1>2, <2>2, <3>1, Zenon
  <2>7. /\ HeaderLen <= L /\ L - HeaderLen = Carried /\ Smaller(Size, L - HeaderLen) = Size
    BY <1>1 DEF Smaller
  <2>8. Len(Slice(Latest, HeaderLen, L)) = Carried  BY <1>1, <2>7, SliceIsSeq
  <2>9. To(Slice(Latest, HeaderLen, L), Size) = PayloadOf(Latest)
    <3>1. To(Slice(Latest, HeaderLen, L), Size)
            = Slice(Latest, HeaderLen, HeaderLen + Smaller(Size, L - HeaderLen))
      BY <1>1, <2>7, SliceTo
    <3>2. PayloadOf(Latest) = Slice(Latest, HeaderLen, HeaderLen + Size)
      BY <1>1, PayloadIsSlice DEF Size, Latest
    <3> QED  BY <2>7, <3>1, <3>2, Zenon
  <2>10. srv' = "deliver" /\ got' = PayloadOf(Latest)
    <3>1. TakePayload(Slice(Latest, HeaderLen, L), [state |-> "read", size |-> Size])
      BY <2>1, <2>5, <2>6
    <3> HIDE DEF L
    <3>2. ~(Carried < Size) /\ ~(Size < 0)  BY <1>1
    <3> QED  BY <2>8, <2>9, <3>1, <3>2 DEF TakePayload
  <2>11. Len(sent)' = Len(sent) /\ PayloadOf(Latest)' = PayloadOf(Latest)
    BY DEF PayloadOf, Latest
  <2> QED  BY <1>1, <2>10, <2>11 DEF IsSent, PayloadOf
<1> QED  BY <1>6, <1>7

LEMMA WholeReport ==
    ASSUME PacketsFit, FramingTypes, ~setup.steady, WholeInv,
           NEW n \in setup.sizes, NEW kind \in setup.kinds, Report(n, kind), ~ahead'
    PROVE  WholeInv'
<1> DEFINE i == Len(sent) + 1
<1>1. /\ sock = <<>> /\ outbox = <<>> /\ srv # "deliver"
      /\ sent' = Append(sent, [size |-> n, kind |-> kind])
      /\ outbox' = Packet(i, IF kind = "typeString" THEN StringLen ELSE n)
      /\ UNCHANGED <<setup, up, sock, listening, serverVars>>
  BY DEF Report
<1>2. /\ Len(sent) \in Nat /\ Len(sent') = i /\ i > 0
      /\ sent'[i] = [size |-> n, kind |-> kind]
      /\ \A k \in 1..Len(sent) : sent'[k] = sent[k]
  BY <1>1 DEF FramingTypes
<1>3. ASSUME NEW p, IsSent(p)  PROVE IsSent(p)'
  <2>1. PICK k \in 1..Len(sent) : p = PayloadOf(k)  BY <1>3 DEF IsSent
  <2>2. k \in 1..Len(sent') /\ sent'[k] = sent[k]  BY <1>2
  <2>3. PayloadOf(k)' = PayloadOf(k)  BY <2>2 DEF PayloadOf
  <2> QED  BY <2>1, <2>2, <2>3 DEF IsSent
<1>4. \A j \in 1..Len(delivered)' : IsSent(delivered[j])'
  <2>1. delivered' = delivered  BY <1>1 DEF serverVars
  <2> SUFFICES ASSUME NEW j \in 1..Len(delivered)  PROVE IsSent(delivered[j])'
    BY <2>1
  <2>2. PICK k \in 1..Len(sent) : delivered[j] = PayloadOf(k)  BY DEF WholeInv, IsSent
  <2>3. k \in 1..Len(sent') /\ sent'[k] = sent[k]  BY <1>2
  <2>4. PayloadOf(k)' = PayloadOf(k)  BY <2>3 DEF PayloadOf
  <2> QED  BY <2>1, <2>2, <2>3, <2>4 DEF IsSent
<1>5. WholeOnTheWay'
  <2>1. Latest' = i /\ Size' = n /\ sent'[i].kind = kind  BY <1>2 DEF Latest, Size
  <2>2. Carried' = IF kind = "typeString" THEN StringLen ELSE n  BY <2>1 DEF Carried
  <2>3. outbox' = Packet(Latest, Carried)'  BY <1>1, <2>1, <2>2 DEF Packet
  <2> QED  BY <1>1, <1>2, <2>3 DEF WholeOnTheWay
<1> QED  BY <1>1, <1>4, <1>5 DEF WholeInv, serverVars

LEMMA WholeSend ==
    ASSUME PacketsFit, FramingTypes, ~setup.steady, WholeInv, SocketSend
    PROVE  WholeInv'
<1>1. /\ UNCHANGED <<setup, sent, up, listening, serverVars>> /\ outbox # <<>>
      /\ Latest' = Latest /\ Size' = Size /\ Carried' = Carried
  BY DEF SocketSend, Latest, Size, Carried
<1>2. \A j \in 1..Len(delivered)' : IsSent(delivered[j])'
  BY <1>1 DEF WholeInv, IsSent, PayloadOf, serverVars
<1>3. CASE srv = "idle"
  <2>1. Len(sent) > 0 /\ outbox = Packet(Latest, Carried) /\ sock = <<>>
    BY <1>1, <1>3 DEF WholeInv, WholeOnTheWay
  <2>2. /\ Latest \in Nat /\ Carried \in Nat /\ SendMax \in Nat
        /\ HeaderLen + Carried <= SendMax
    BY <2>1, WholeFits
  <2>3. To(outbox, SendMax) = outbox /\ From(outbox, SendMax) = <<>>
    BY <2>1, <2>2, WholeTaken
  <2>4. outbox \in Seq(SentCells)  BY DEF FramingTypes
  <2>5. <<>> \o outbox = outbox  BY <2>4
  <2>6. sock' = Packet(Latest, Carried) /\ outbox' = <<>>
    BY <1>3, <2>1, <2>3, <2>5 DEF SocketSend
  <2>7. sock' = Packet(Latest, Carried)'  BY <1>1, <2>6 DEF Packet
  <2> QED  BY <1>1, <1>2, <1>3, <2>1, <2>6, <2>7 DEF WholeInv, WholeOnTheWay, serverVars
<1> QED  BY <1>1, <1>2, <1>3 DEF WholeInv, serverVars

LEMMA WholeRecv ==
    ASSUME PacketsFit, FramingTypes, ~setup.steady, WholeInv, Recv
    PROVE  WholeInv'
<1>1. /\ srv = "idle" /\ sock # <<>> /\ sock' = From(sock, RecvMax)
      /\ UNCHANGED <<setup, sent, outbox, up, listening, delivered, hungUp>>
  BY DEF Recv, clientVars
<1>2. \A j \in 1..Len(delivered)' : IsSent(delivered[j])'
  BY <1>1 DEF WholeInv, IsSent, PayloadOf
<1>3. /\ Len(sent) > 0 /\ sock = Packet(Latest, Carried) /\ outbox = <<>> /\ buf = <<>>
  BY <1>1 DEF WholeInv, WholeOnTheWay
<1>4. /\ Latest \in Nat /\ Carried \in Nat /\ RecvMax \in Nat
      /\ HeaderLen + Carried <= RecvMax
  BY <1>3, WholeFits
<1>5. To(sock, RecvMax) = sock /\ sock' = <<>>  BY <1>1, <1>3, <1>4, WholeTaken
<1>6. CASE listening
  <2>1. PICK h \in Header : Process(buf \o To(sock, RecvMax), h)
    BY <1>6 DEF Recv
  <2>2. sock \in Seq(SentCells)  BY DEF FramingTypes
  <2>3. buf \o To(sock, RecvMax) = Packet(Latest, Carried)
    <3>1. <<>> \o sock = sock  BY <2>2
    <3> QED  BY <1>3, <1>5, <3>1
  <2>4. srv' = "removed" \/ (srv' = "deliver" /\ IsSent(got)')
    BY <1>1, <1>3, <2>1, <2>3, WholeProcessed
  <2> QED  BY <1>1, <1>2, <1>3, <1>5, <2>4 DEF WholeInv
<1>7. CASE ~listening
  <2>1. UNCHANGED <<buf, got, srv>>  BY <1>7 DEF Recv
  <2> QED  BY <1>1, <1>2, <1>3, <1>5, <2>1 DEF WholeInv, WholeOnTheWay
<1> QED  BY <1>6, <1>7

LEMMA WholeDeliver ==
    ASSUME PacketsFit, FramingTypes, ~setup.steady, WholeInv, Deliver
    PROVE  WholeInv'
<1>1. /\ srv = "deliver" /\ outbox = <<>> /\ sock = <<>> /\ IsSent(got)
      /\ UNCHANGED <<setup, sent, outbox, sock, listening>>
  BY DEF Deliver, WholeInv, clientVars
<1>2. ASSUME NEW p  PROVE IsSent(p)' <=> IsSent(p)
  BY <1>1 DEF IsSent, PayloadOf
<1>3. CASE listening
  <2>1. delivered' = Append(delivered, got) /\ srv' = "idle" /\ buf' = <<>>
    BY <1>3 DEF Deliver
  <2>2. ASSUME NEW j \in 1..Len(delivered)'  PROVE IsSent(delivered'[j])
    <3>1. /\ delivered \in Seq(Seq(SentCells)) /\ got \in Seq(SentCells)
      BY DEF FramingTypes
    <3>2. CASE j = Len(delivered) + 1  BY <1>1, <2>1, <3>1, <3>2
    <3>3. CASE j # Len(delivered) + 1
      <4>1. j \in 1..Len(delivered) /\ delivered'[j] = delivered[j]
        BY <2>1, <2>2, <3>1, <3>3
      <4> QED  BY <4>1 DEF WholeInv
    <3> QED  BY <3>2, <3>3
  <2>3. \A j \in 1..Len(delivered)' : IsSent(delivered[j])'
    BY <1>1, <2>2 DEF IsSent, PayloadOf
  <2> QED  BY <1>1, <2>1, <2>3 DEF WholeInv, WholeOnTheWay
<1>4. CASE ~listening
  <2>1. srv' = "broken" /\ delivered' = delivered  BY <1>4 DEF Deliver
  <2>2. \A j \in 1..Len(delivered)' : IsSent(delivered[j])'
    BY <1>1, <2>1 DEF WholeInv, IsSent, PayloadOf
  <2> QED  BY <2>1, <2>2 DEF WholeInv
<1> QED  BY <1>3, <1>4

LEMMA WholePreserved ==
    ASSUME PacketsFit, FramingTypes, WholeInv, [FramingNext]_vars, ~ahead'
    PROVE  WholeInv'
<1>1. setup' = setup
  BY DEF FramingNext, Report, SocketSend, Disconnect, Register, Unregister, Recv, HangUp,
         Deliver, vars
<1>2. CASE setup.steady  BY <1>1, <1>2 DEF WholeInv
<1>3. CASE ~setup.steady
  <2> USE <1>3
  <2>1. ASSUME NEW n \in setup.sizes, NEW kind \in setup.kinds, Report(n, kind)
        PROVE  WholeInv'
    BY <2>1, WholeReport
  <2>2. CASE SocketSend  BY <2>2, WholeSend
  <2>3. CASE Recv  BY <2>3, WholeRecv
  <2>4. CASE Deliver  BY <2>4, WholeDeliver
  <2>5. CASE HangUp
    BY <2>5 DEF HangUp, WholeInv, IsSent, PayloadOf, clientVars
  <2>6. CASE Disconnect \/ Register \/ Unregister \/ UNCHANGED vars
    <3>1. UNCHANGED <<setup, sent, outbox, sock, serverVars>>
      BY <2>6 DEF Disconnect, Register, Unregister, vars, clientVars
    <3> QED  BY <3>1 DEF WholeInv, IsSent, PayloadOf, WholeOnTheWay, Packet, Latest, Size,
                         Carried, serverVars
  <2> QED  BY <2>1, <2>2, <2>3, <2>4, <2>5, <2>6 DEF FramingNext
<1> QED  BY <1>2, <1>3

-----------------------------------------------------------------------------
(* The theorems. *)

FramingInv == FramingTypes /\ (~ahead => SteadyInv /\ WholeInv)

LEMMA FramingInductive ==
    ASSUME PacketsFit
    PROVE  FramingSpec => []FramingInv
<1>1. FramingInit => FramingInv
  <2> SUFFICES ASSUME FramingInit PROVE FramingInv  OBVIOUS
  <2>1. FramingTypes  BY FramingTypesInit
  <2>2. Len(<<>>) = 0  OBVIOUS
  <2>3. SteadyInv
    BY <2>2 DEF FramingInit, SteadyInv, DeliveredSoFar, AtRest
  <2>4. WholeInv  BY <2>2 DEF FramingInit, WholeInv, WholeOnTheWay
  <2> QED  BY <2>1, <2>3, <2>4 DEF FramingInv
<1>2. FramingInv /\ [FramingNext]_vars => FramingInv'
  <2> SUFFICES ASSUME FramingInv, [FramingNext]_vars PROVE FramingInv'  OBVIOUS
  <2>1. FramingTypes /\ FramingTypes'  BY FramingTypesNext DEF FramingInv
  <2>2. ahead => ahead'
    BY DEF FramingNext, Report, SocketSend, Disconnect, Register, Unregister, Recv, HangUp,
           Deliver, clientVars, vars
  <2>3. ASSUME ~ahead'  PROVE SteadyInv' /\ WholeInv'
    BY <2>2, <2>3, SteadyPreserved, WholePreserved DEF FramingInv
  <2> QED  BY <2>1, <2>3 DEF FramingInv
<1> QED  BY <1>1, <1>2, PTL DEF FramingSpec

(***************************************************************************)
(* The theorems hold up to the moment at which the client begins a packet    *)
(* before the server has taken and delivered all of the one before (ahead).  *)
(* Nothing in SubtitleReportAPI makes it wait for that, and what processData *)
(* does of two packets in one recv breaks each of the three: no assumption   *)
(* on the constants excludes it, the statements do.                          *)
(***************************************************************************)

\* Until the client gets ahead, a listener that is there from the start is given
\* the payloads whole and in the order they were sent, however processData finds
\* them cut.
THEOREM PayloadsInOrder ==
    ASSUME PacketsFit
    PROVE  FramingSpec => [](~ahead => DeliveredInOrder)
<1>1. FramingInv => (~ahead => DeliveredInOrder)  BY SteadyCorrect DEF FramingInv
<1> QED  BY <1>1, FramingInductive, PTL

\* Until the client gets ahead, the server keeps nothing of a packet behind it,
\* and owes its listener nothing.
THEOREM BufferIsClean ==
    ASSUME PacketsFit
    PROVE  FramingSpec => [](~ahead => NothingLeftBehind)
<1>1. FramingInv => (~ahead => NothingLeftBehind)  BY SteadyCorrect DEF FramingInv
<1> QED  BY <1>1, FramingInductive, PTL

\* Until the client gets ahead, no listener, one that comes and goes included, is
\* given anything but the payload of a packet that was sent.
THEOREM PayloadsAreSent ==
    ASSUME PacketsFit
    PROVE  FramingSpec => [](~ahead => DeliveredIsSent)
<1>1. FramingInv => (~ahead => DeliveredIsSent)
  <2> SUFFICES ASSUME FramingInv, ~ahead PROVE DeliveredIsSent  OBVIOUS
  <2>1. CASE setup.steady
    <3>1. Len(delivered) <= Len(sent) /\ DeliveredSoFar
      BY <2>1 DEF FramingInv, SteadyInv
    <3>2. Len(sent) \in Nat /\ Len(delivered) \in Nat  BY DEF FramingInv, FramingTypes
    <3> QED  BY <3>1, <3>2 DEF DeliveredSoFar, DeliveredIsSent
  <2>2. CASE ~setup.steady
    BY <2>2 DEF FramingInv, WholeInv, IsSent, DeliveredIsSent
  <2> QED  BY <2>1, <2>2
<1> QED  BY <1>1, FramingInductive, PTL

=============================================================================
