----------------------------- MODULE PesReader -----------------------------
(* How the DVB, TTML, SMPTE-TT and ARIB parsers find the packets in what     *)
(* their source delivers (getDvbSpu, getTTMLSpu, getAribB24Spu and the       *)
(* hwDemuxParse and softDemuxParse of each). The bytes come from a           *)
(* DemuxSource, whose read stops before the mark of the next packet, or from *)
(* a SocketSource. The end of the stream is a source that was stopped: a     *)
(* read returns what there is. Bytes are numbers; those of a time stamp or   *)
(* payload name the packet they belong to.                                   *)
EXTENDS Integers, Sequences, SequencesExt, FiniteSetsExt

CONSTANTS
    PesKinds,    \* "dvb", "ttml", "smpte" or "arib"
    AribCaption, \* libaribcaption is built in; without it nothing is decoded
    Forms,       \* of packets: "pts", "ptsdts", "none", "short", "wide", "soft"
    PayloadSize, \* bytes of a payload
    Stuffing,    \* bytes after the time stamps of a header
    LostBytes,   \* how many bytes at the end of the first payload are lost
    Buffers      \* "packet": each comes in a buffer of its own, "one": in the same

ASSUME PesAssumption ==
    /\ AribCaption \in BOOLEAN /\ PayloadSize \in Nat \ {0, 1} /\ Stuffing \subseteq Nat
    /\ LostBytes \subseteq 0 .. PayloadSize - 2

VARIABLES
    pesKind, sent,     \* the parser; the packets: [form, stuffing]
    missing,           \* bytes lost
    bytes, ends,       \* the stream, and the positions at which a buffer ends
    pos,               \* the bytes read
    packetHeader,      \* the last five of those that the search has read
    spus               \* items: [pts, data]

pesVars == <<pesKind, sent, missing, bytes, ends, pos, packetHeader, spus>>

-----------------------------------------------------------------------------
(* The sender                                                                *)

Times(n, b) == [i \in 1 .. n |-> b]
StartCode == <<0, 0, 1, 189>>
SyncWord == <<65, 77, 76, 85>>
Pts(k) == 10 + k
Payload(k) == Times(PayloadSize, 20 + k)

Wire(k, p) ==
    LET header(flags, stamps) ==
            <<0, 3 + Len(stamps) + p.stuffing + PayloadSize, 128, flags, Len(stamps) + p.stuffing>>
            \o stamps \o Times(p.stuffing, 255)
    IN CASE p.form = "pts"    -> StartCode \o header(128, Times(5, Pts(k))) \o Payload(k)
         [] p.form = "ptsdts" -> StartCode \o header(192, Times(5, Pts(k)) \o Times(5, 30 + k)) \o Payload(k)
         [] p.form = "none"   -> StartCode \o header(0, <<>>) \o Payload(k)
         [] p.form = "short"  -> StartCode \o <<0, 2, 128, 0>>
         [] p.form = "wide"   -> StartCode \o <<0, 3 + PayloadSize, 128, 128, PayloadSize + 1>> \o Payload(k)
         [] p.form = "soft"   -> SyncWord \o <<119, 0, 0, 0>> \o <<0, 0, 0, PayloadSize>>
                                 \o Times(8, Pts(k)) \o Times(4, 0) \o Payload(k)

-----------------------------------------------------------------------------
(* The source's read of n bytes: how many it returns                         *)

IsMark(m) == m + 3 <= Len(bytes) /\ SubSeq(bytes, m, m + 3) = StartCode
BufferEnd(m) == Min({e \in ends : e >= m})
Lesser(a, b) == IF a < b THEN a ELSE b

\* Mutant of Got: the read looks for no mark.
Got_NoCheck(from, n) == Lesser(n, Len(bytes) - from + 1)

\* read_check looks for a mark in what it copies from one buffer, but for its
\* last four bytes
Got(from, n) ==
    LET left == Lesser(n, Len(bytes) - from + 1)
        cuts == {m \in from .. from + left - 1 :
                   IsMark(m) /\ m <= Lesser(from + left - 1, BufferEnd(m)) - 4}
    IN IF sent[1].form # "soft" /\ cuts # {} THEN Min(cuts) - from ELSE left

BytesAt(from, n) == SubSeq(bytes, from, from + n - 1)
Nothing(to) == [to |-> to, item |-> <<>>]

\* The loop that skips reads one byte at a time, and stops at no mark
SkipData(from, n) == Nothing(from + Lesser(n, Len(bytes) - from + 1))

\* malloc and read of the payload; the DVB parser first reads the two bytes
\* that identify it
ReadPayload(from, n, pts) ==
    LET start == IF pesKind = "dvb" THEN from + Got(from, 2) ELSE from
        size == IF pesKind = "dvb" THEN n - 2 ELSE n
        got == Got(start, size)
    IN [to |-> start + got,
        item |-> IF got = size THEN <<[pts |-> pts, data |-> BytesAt(start, size)]>> ELSE <<>>]

hwDemuxParse(from) ==
    LET short == Got(from, 2) < 2 \/ Got(from + 2, 3) < 3
        packetLen == bytes[from] * 256 + bytes[from + 1]
        pesHeaderLen == bytes[from + 4]
        stamped == bytes[from + 3] >= 128
        got == Got(from + 5, pesHeaderLen)
        known == got = pesHeaderLen
        pts == IF stamped /\ known THEN bytes[from + 5] ELSE 0
        rest == packetLen - 3 - (IF stamped /\ ~known THEN 0 ELSE pesHeaderLen)
    IN IF short THEN Nothing(Len(bytes) + 1)
       ELSE IF packetLen < 3 THEN SkipData(from + 2, packetLen)
       ELSE IF packetLen - 3 < pesHeaderLen \/ (pesKind = "dvb" /\ ~stamped)
       THEN SkipData(from + 5, packetLen - 3)
       ELSE IF rest = 0 \/ (pesKind = "dvb" /\ pts = 0) THEN Nothing(from + 5 + got)
       ELSE ReadPayload(from + 5 + got, rest, pts)

\* The nineteen bytes before the data: its length at 3, the time stamp at 7
softHeader(from) == [size |-> bytes[from + 6], pts |-> bytes[from + 7]]

softDemuxParse(from) ==
    LET got == Got(from + 19, softHeader(from).size)
    IN IF Got(from, 19) < 19 THEN Nothing(Len(bytes) + 1)
       ELSE [to |-> from + 19 + got,
             item |-> <<[pts |-> softHeader(from).pts, data |-> BytesAt(from + 19, got)]>>]

-----------------------------------------------------------------------------
\* Packets k of the stream are sent ps, the end of the first being lost
PesInit ==
    /\ pesKind \in PesKinds
    /\ \E f, g \in [form : Forms, stuffing : Stuffing] :
         (f.form = "soft") = (g.form = "soft") /\ sent = <<f, g, f>>
    /\ missing \in (IF sent[1].form \in {"short", "soft"} THEN {0} ELSE LostBytes)
    /\ LET wires == <<SubSeq(Wire(1, sent[1]), 1, Len(Wire(1, sent[1])) - missing),
                      Wire(2, sent[2]), Wire(3, sent[3])>> IN
       /\ bytes = FlattenSeq(wires)
       /\ \E b \in Buffers :
            ends = IF b = "one" THEN {Len(bytes)}
                   ELSE {Len(FlattenSeq(SubSeq(wires, 1, i))) : i \in 1 .. 3}
    /\ pos = 0 /\ packetHeader = <<>> /\ spus = <<>>

\* One byte of the search; when it ends a mark, the packet that follows too.
\* It is decoded or not, and the bytes searched are kept or forgotten.
GetPacket(decodes, keeps) ==
    /\ pos < Len(bytes)
    /\ LET read == Append(packetHeader, bytes[pos + 1])
           header == IF Len(read) > 5 THEN Tail(read) ELSE read
           hard == IsSuffix(StartCode, header)
           soft == header = Append(SyncWord, 119) \/ header = Append(SyncWord, 170)
           found == IF hard THEN hwDemuxParse(pos + 2) ELSE softDemuxParse(pos + 2) IN
       IF hard \/ soft
       THEN /\ pos' = found.to - 1
            /\ spus' = IF decodes THEN spus \o found.item ELSE spus
            /\ packetHeader' = IF keeps THEN header ELSE <<>>
       ELSE pos' = pos + 1 /\ packetHeader' = header /\ UNCHANGED spus
    /\ UNCHANGED <<pesKind, sent, missing, bytes, ends>>

\* getDvbSpu returns after each packet; the search begins afresh
DvbGetSpu == pesKind = "dvb" /\ GetPacket(TRUE, FALSE)
TtmlGetSpu == pesKind = "ttml" /\ GetPacket(TRUE, TRUE)
SmpteGetSpu == pesKind = "smpte" /\ GetPacket(TRUE, TRUE)
AribGetSpu == pesKind = "arib" /\ GetPacket(AribCaption, TRUE)

PesNext == DvbGetSpu \/ TtmlGetSpu \/ SmpteGetSpu \/ AribGetSpu
PesSpec == PesInit /\ [][PesNext]_pesVars

-----------------------------------------------------------------------------
Wanted(k) == sent[k].form \in
    {"pts", "ptsdts", "soft"} \cup (IF pesKind = "dvb" THEN {} ELSE {"none"})

SpuOf(k) ==
    [pts |-> IF sent[k].form = "none" THEN 0 ELSE Pts(k),
     data |-> IF pesKind = "dvb" /\ sent[k].form # "soft" THEN Tail(Tail(Payload(k))) ELSE Payload(k)]

(* Every packet that came whole gives one item, with its own time stamp and  *)
(* payload and in order, and a packet whose end was lost gives none and      *)
(* costs no other packet: the read of its payload stops before the mark of   *)
(* the next (hwDemuxParse, BufferItem::read_check). Five bytes or more must  *)
(* be lost, as the check leaves out the last four bytes of a read            *)
(* (Segment.h:83), but not the two that the DVB parser reads first, and from *)
(* a packet that is decoded, as the loop that skips looks for no mark.       *)
PacketsRead ==
    (missing = 0 \/ (missing >= 5 /\ Wanted(1))) /\ (pesKind = "arib" => AribCaption) =>
       LET whole == SelectSeq(<<1, 2, 3>>, LAMBDA k : Wanted(k) /\ (k = 1 => missing = 0))
           wanted == [i \in DOMAIN whole |-> SpuOf(whole[i])]
       IN IF pos < Len(bytes) THEN IsPrefix(spus, wanted) ELSE spus = wanted
=============================================================================
