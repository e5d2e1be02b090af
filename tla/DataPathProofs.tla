--------------------------- MODULE DataPathProofs ---------------------------
(* The parts of MC_DataPath that have no proofs of their own, for every value  *)
(* of the constants: the ring buffer, the reader of a segment, the driver      *)
(* sources, the wait for subtitles, the captions and the demux. At the end,    *)
(* what is proved of each part is carried to the behaviours that the runs      *)
(* check.                                                                      *)
EXTENDS MC_DataPath, SocketFramingProofs, Induction

-----------------------------------------------------------------------------
(* The ring buffer: its invariant, and its refinement of the bounded queue,    *)
(* for every buffer size, byte alphabet and request length.                    *)

(* A transfer of n bytes from a legal cursor touches n legal cells. *)
LEMMA CellInRange ==
    ASSUME NEW pos \in 0..buffer_size, NEW k \in 0..(buffer_size - 1)
    PROVE  Cell(pos, k) \in 0..(buffer_size - 1)
  BY RingBufferAssumption DEF Cell

(* A cursor stays on the array, or one past it, after a transfer that fits. *)
LEMMA AdvancedInRange ==
    ASSUME NEW pos \in 0..buffer_size, NEW n \in 0..buffer_size
    PROVE  /\ Advanced(pos, n) \in 0..buffer_size
           /\ \/ Advanced(pos, n) = pos + n
              \/ Advanced(pos, n) = pos + n - buffer_size
  BY RingBufferAssumption DEF Advanced

(* The initial ring buffer satisfies the invariant: ringbuffer_create. *)
LEMMA InvInit == RingInit => RingInv
  BY RingBufferAssumption
     DEF RingInit, RingInv, RingTypeOK, CursorsAgree, ContentWritten

(* What a write of the clamped length n leaves behind: the occupied cells keep
   their bytes and the n cells after them hold the bytes of the source. *)
LEMMA WriteKeepsAndAppends ==
    ASSUME RingInv, NEW src \in Source, NEW n \in 0..write_avail, n <= Len(src),
           buffer' = CopyIn(src, n), read_pos' = read_pos
    PROVE  /\ \A k \in 0..(buffer_size - 1) :
                 k < read_avail => buffer'[Cell(read_pos, k)] = buffer[Cell(read_pos, k)]
           /\ \A k \in 0..(buffer_size - 1) :
                 read_avail <= k /\ k < read_avail + n
                     => buffer'[Cell(read_pos, k)] = src[k - read_avail + 1]
  <1> USE RingBufferAssumption DEF RingInv, RingTypeOK, CursorsAgree
  <1>1. PICK lap \in {-1, 0, 1} : write_pos + lap * buffer_size = read_pos + read_avail
    OBVIOUS
  <1>2. ASSUME NEW k \in 0..(buffer_size - 1)
        PROVE  /\ k < read_avail => buffer'[Cell(read_pos, k)] = buffer[Cell(read_pos, k)]
               /\ read_avail <= k /\ k < read_avail + n
                     => buffer'[Cell(read_pos, k)] = src[k - read_avail + 1]
    <2> DEFINE c == Cell(read_pos, k)
    <2>1. c \in 0..(buffer_size - 1)
      BY CellInRange
    <2>2. buffer'[c] = IF c >= write_pos /\ c < write_pos + n
                       THEN src[c - write_pos + 1]
                       ELSE IF c < write_pos + n - buffer_size
                            THEN src[c + buffer_size - write_pos + 1]
                            ELSE buffer[c]
      BY <2>1 DEF CopyIn
    <2>3. \/ c = read_pos + k /\ read_pos + k < buffer_size
          \/ c = read_pos + k - buffer_size /\ read_pos + k >= buffer_size
      BY DEF Cell
    <2>4. lap = -1 \/ lap = 0 \/ lap = 1
      OBVIOUS
    <2>5. \/ write_pos - buffer_size = read_pos + read_avail
          \/ write_pos = read_pos + read_avail
          \/ write_pos + buffer_size = read_pos + read_avail
      BY <1>1, <2>4
    <2> HIDE DEF c
    <2>6. ASSUME k < read_avail PROVE buffer'[c] = buffer[c]
      <3>1. ~(c >= write_pos /\ c < write_pos + n)
        BY <2>1, <2>3, <2>5, <2>6
      <3>2. ~(c < write_pos + n - buffer_size)
        BY <2>1, <2>3, <2>5, <2>6
      <3>3. QED BY <2>2, <3>1, <3>2
    <2>7. ASSUME read_avail <= k, k < read_avail + n
          PROVE  buffer'[c] = src[k - read_avail + 1]
      <3>1. CASE c = read_pos + k /\ read_pos + k < buffer_size
        BY <2>1, <2>2, <2>5, <2>7, <3>1
      <3>2. CASE c = read_pos + k - buffer_size /\ read_pos + k >= buffer_size
        BY <2>1, <2>2, <2>5, <2>7, <3>2
      <3>3. QED BY <2>3, <3>1, <3>2
    <2>8. QED BY <2>6, <2>7 DEF c
  <1>3. QED BY <1>2

(* Reading n bytes moves the window of occupied cells by n, nothing else. *)
LEMMA ReadShiftsWindow ==
    ASSUME NEW pos \in 0..buffer_size, NEW n \in 0..buffer_size, NEW k \in Nat,
           n + k < buffer_size
    PROVE  Cell(Advanced(pos, n), k) = Cell(pos, n + k)
  BY RingBufferAssumption DEF Cell, Advanced

(* Every operation keeps the counters, the cursors and the content in step. *)
LEMMA InvWrite ==
    ASSUME RingInv, NEW src \in Source, ringbuffer_write(src)
    PROVE  RingInv'
  <1> DEFINE n == Min2(Len(src), write_avail)
  <1> USE RingBufferAssumption
  <1>1. /\ src \in [1..Len(src) -> Byte]
        /\ Len(src) \in Nat
    BY DEF Source
  <1>2. /\ n \in 0..write_avail
        /\ n <= Len(src)
        /\ n \in 0..buffer_size
    BY <1>1 DEF Min2, RingInv, RingTypeOK
  <1> HIDE DEF n
  <1>3. /\ buffer' = CopyIn(src, n)
        /\ write_pos' = Advanced(write_pos, n)
        /\ write_avail' = write_avail - n
        /\ read_avail' = read_avail + n
        /\ read_pos' = read_pos
    BY DEF ringbuffer_write, n
  <1>4. RingTypeOK'
    <2>1. buffer' \in [0..(buffer_size - 1) -> Byte \cup {Junk}]
      <3> SUFFICES ASSUME NEW c \in 0..(buffer_size - 1)
                   PROVE  CopyIn(src, n)[c] \in Byte \cup {Junk}
        BY <1>3 DEF CopyIn
      <3>1. CASE c >= write_pos /\ c < write_pos + n
        <4>1. c - write_pos + 1 \in 1..Len(src)
          BY <1>1, <1>2, <3>1 DEF RingInv, RingTypeOK
        <4>2. src[c - write_pos + 1] \in Byte
          BY <1>1, <4>1
        <4>3. QED BY <3>1, <4>2 DEF CopyIn
      <3>2. CASE ~(c >= write_pos /\ c < write_pos + n) /\ c < write_pos + n - buffer_size
        <4>1. c + buffer_size - write_pos + 1 \in 1..Len(src)
          BY <1>1, <1>2, <3>2 DEF RingInv, RingTypeOK
        <4>2. src[c + buffer_size - write_pos + 1] \in Byte
          BY <1>1, <4>1
        <4>3. QED BY <3>2, <4>2 DEF CopyIn
      <3>3. CASE ~(c >= write_pos /\ c < write_pos + n) /\ ~(c < write_pos + n - buffer_size)
        BY <3>3 DEF CopyIn, RingInv, RingTypeOK
      <3>4. QED BY <3>1, <3>2, <3>3
    <2>2. write_pos' \in 0..buffer_size
      BY <1>2, <1>3, AdvancedInRange DEF RingInv, RingTypeOK
    <2>3. QED BY <1>2, <1>3, <2>1, <2>2 DEF RingInv, RingTypeOK, CursorsAgree
  <1>5. CursorsAgree'
    BY <1>2, <1>3 DEF RingInv, RingTypeOK, CursorsAgree, Advanced
  <1>6. ContentWritten'
    <2> SUFFICES ASSUME NEW k \in 0..(buffer_size - 1), k < read_avail'
                 PROVE  buffer'[Cell(read_pos, k)] \in Byte
      BY <1>3 DEF ContentWritten
    <2>1. CASE k < read_avail
      <3>1. buffer'[Cell(read_pos, k)] = buffer[Cell(read_pos, k)]
        BY <1>2, <1>3, <2>1, WriteKeepsAndAppends
      <3>2. QED BY <2>1, <3>1 DEF RingInv, ContentWritten
    <2>2. CASE k >= read_avail
      <3>1. k < read_avail + n
        BY <1>3
      <3>2. buffer'[Cell(read_pos, k)] = src[k - read_avail + 1]
        BY <1>2, <1>3, <2>2, <3>1, WriteKeepsAndAppends
      <3>3. k - read_avail + 1 \in 1..Len(src)
        BY <1>1, <1>2, <2>2, <3>1 DEF RingInv, RingTypeOK
      <3>4. QED BY <1>1, <3>2, <3>3
    <2>3. QED BY <2>1, <2>2 DEF RingInv, RingTypeOK
  <1>7. QED BY <1>4, <1>5, <1>6 DEF RingInv

LEMMA InvRead ==
    ASSUME RingInv, NEW count \in 0..MaxCount, ringbuffer_read(count)
    PROVE  RingInv'
  <1> DEFINE n == Min2(count, read_avail)
  <1> USE RingBufferAssumption
  <1>1. n \in 0..read_avail /\ n \in 0..buffer_size
    BY DEF Min2, RingInv, RingTypeOK
  <1> HIDE DEF n
  <1>2. /\ read_pos' = Advanced(read_pos, n)
        /\ write_avail' = write_avail + n
        /\ read_avail' = read_avail - n
        /\ buffer' = buffer
        /\ write_pos' = write_pos
    BY DEF ringbuffer_read, n
  <1>3. RingTypeOK'
    <2>1. read_pos' \in 0..buffer_size
      BY <1>1, <1>2, AdvancedInRange DEF RingInv, RingTypeOK
    <2>2. read_avail' \in 0..buffer_size /\ write_avail' \in 0..buffer_size
      BY <1>1, <1>2 DEF RingInv, RingTypeOK, CursorsAgree
    <2>3. QED BY <1>2, <2>1, <2>2 DEF RingInv, RingTypeOK
  <1>4. CursorsAgree'
    BY <1>1, <1>2 DEF RingInv, RingTypeOK, CursorsAgree, Advanced
  <1>5. ContentWritten'
    <2> SUFFICES ASSUME NEW k \in 0..(buffer_size - 1), k < read_avail'
                 PROVE  buffer[Cell(Advanced(read_pos, n), k)] \in Byte
      BY <1>2 DEF ContentWritten
    <2>1. n + k \in 0..(buffer_size - 1) /\ n + k < read_avail
      BY <1>1, <1>2 DEF RingInv, RingTypeOK
    <2>2. Cell(Advanced(read_pos, n), k) = Cell(read_pos, n + k)
      BY <1>1, <2>1, ReadShiftsWindow DEF RingInv, RingTypeOK
    <2>3. QED BY <2>1, <2>2 DEF RingInv, ContentWritten
  <1>6. QED BY <1>3, <1>4, <1>5 DEF RingInv

LEMMA InvPeek ==
    ASSUME RingInv, NEW count \in 0..MaxCount, ringbuffer_peek(count)
    PROVE  RingInv'
  BY DEF ringbuffer_peek, RingInv, RingTypeOK, CursorsAgree, ContentWritten

LEMMA InvReset ==
    ASSUME RingInv, ringbuffer_cleanreset
    PROVE  RingInv'
  BY RingBufferAssumption
     DEF ringbuffer_cleanreset, RingInv, RingTypeOK, CursorsAgree, ContentWritten

(* The invariant holds in every reachable state of the ring buffer, whatever
   the size of the array and the length of the requests. *)
THEOREM RingSafety == RingSpec => []RingInv
  <1>1. RingInv /\ [RingNext]_ringVars => RingInv'
    <2> SUFFICES ASSUME RingInv, [RingNext]_ringVars PROVE RingInv'
      OBVIOUS
    <2>1. CASE UNCHANGED ringVars
      BY <2>1 DEF ringVars, RingInv, RingTypeOK, CursorsAgree, ContentWritten
    <2>2. CASE RingNext
      BY <2>2, InvWrite, InvRead, InvPeek, InvReset DEF RingNext
    <2>3. QED BY <2>1, <2>2
  <1>2. QED BY <1>1, InvInit, PTL DEF RingSpec
-----------------------------------------------------------------------------
(* The bytes a read or a peek copies out form a sequence of the length asked. *)
LEMMA CopyOutSeq ==
    ASSUME RingInv, NEW n \in 0..read_avail
    PROVE  /\ CopyOut(n) \in Seq(Byte)
           /\ Len(CopyOut(n)) = n
           /\ \A i \in 1..n : CopyOut(n)[i] = buffer[Cell(read_pos, i - 1)]
  <1> USE RingBufferAssumption
  <1>1. ASSUME NEW i \in 1..n PROVE buffer[Cell(read_pos, i - 1)] \in Byte
    BY DEF RingInv, RingTypeOK, ContentWritten
  <1>2. CopyOut(n) \in [1..n -> Byte]
    BY <1>1 DEF CopyOut
  <1>3. n \in Nat
    BY DEF RingInv, RingTypeOK
  <1>4. QED BY <1>2, <1>3 DEF CopyOut

(* A write of the ring buffer is a write of the queue. *)
LEMMA RefineWrite ==
    ASSUME RingInv, RingInv', NEW src \in Source, ringbuffer_write(src)
    PROVE  Fifo!FifoWrite(src)
  <1> DEFINE n == Min2(Len(src), write_avail)
             new == CopyOut(read_avail)'
             old == CopyOut(read_avail)
  <1> USE RingBufferAssumption
  <1>1. src \in Seq(Byte) /\ Len(src) \in Nat
    BY DEF Source
  <1>2. n \in 0..write_avail /\ n <= Len(src)
    BY <1>1 DEF Min2, RingInv, RingTypeOK
  <1>3. /\ buffer' = CopyIn(src, n)
        /\ read_avail' = read_avail + n
        /\ read_pos' = read_pos
        /\ out' = Reply("write", n, <<>>)
    BY DEF ringbuffer_write
  <1>4. /\ old \in Seq(Byte)
        /\ Len(old) = read_avail
        /\ \A i \in 1..read_avail : old[i] = buffer[Cell(read_pos, i - 1)]
    BY CopyOutSeq DEF RingInv, RingTypeOK
  <1>5. /\ new = [i \in 1..(read_avail + n) |-> buffer'[Cell(read_pos, i - 1)]]
        /\ read_avail \in Nat /\ n \in Nat /\ n \in 0..Len(src)
        /\ write_avail = buffer_size - read_avail
        /\ read_avail + n <= buffer_size
    BY <1>1, <1>2, <1>3 DEF CopyOut, RingInv, RingTypeOK, CursorsAgree
  <1>6. n = Fifo!Least(Len(src), buffer_size - Len(old))
    <2>1. n = Min2(Len(src), buffer_size - read_avail)
      BY <1>5
    <2> HIDE DEF n, old
    <2>2. QED BY <2>1, <1>4 DEF Fifo!Least, Min2
  <1> DEFINE tail == SubSeq(src, 1, n)
  <1> HIDE DEF n, old, new
  <1>7. /\ tail \in Seq(Byte)
        /\ Len(tail) = n
        /\ \A i \in 1..n : tail[i] = src[i]
    <2>1. 1 \in 1..(Len(src) + 1) /\ n \in 0..Len(src)
      BY <1>1, <1>5
    <2>2. QED BY <1>1, <1>5, <2>1, SubSeqProperties
  <1> HIDE DEF tail
  <1>8. new = old \o tail
    <2>1. /\ old \o tail \in [1..(read_avail + n) -> Byte]
          /\ \A i \in 1..(read_avail + n) :
                (old \o tail)[i] = IF i <= read_avail THEN old[i] ELSE tail[i - read_avail]
      <3>1. /\ old \o tail \in Seq(Byte)
            /\ Len(old \o tail) = Len(old) + Len(tail)
            /\ \A i \in 1..(Len(old) + Len(tail)) :
                  (old \o tail)[i] = IF i <= Len(old) THEN old[i] ELSE tail[i - Len(old)]
        BY <1>4, <1>7, ConcatProperties, Zenon
      <3>2. old \o tail \in [1..Len(old \o tail) -> Byte]
        BY <3>1, LenProperties, Zenon
      <3>3. QED BY <1>4, <1>7, <3>1, <3>2, Zenon
    <2>2. ASSUME NEW i \in 1..(read_avail + n) PROVE new[i] = (old \o tail)[i]
      <3>1. i - 1 \in 0..(buffer_size - 1) /\ new[i] = buffer'[Cell(read_pos, i - 1)]
        BY <1>5
      <3>2. CASE i <= read_avail
        <4>1. buffer'[Cell(read_pos, i - 1)] = buffer[Cell(read_pos, i - 1)]
          BY <1>2, <1>3, <1>5, <3>1, <3>2, WriteKeepsAndAppends
        <4>2. i \in 1..read_avail
          BY <3>2, <1>5
        <4>3. QED BY <1>4, <2>1, <3>1, <3>2, <4>1, <4>2
      <3>3. CASE i > read_avail
        <4>1. (i - 1) - read_avail + 1 = i - read_avail /\ i - read_avail \in 1..n
          BY <1>5, <3>3
        <4>2. buffer'[Cell(read_pos, i - 1)] = src[(i - 1) - read_avail + 1]
          BY <1>2, <1>3, <1>5, <3>1, <3>3, WriteKeepsAndAppends
        <4>3. tail[i - read_avail] = src[i - read_avail]
          BY <1>7, <4>1
        <4>4. ~(i <= read_avail)
          BY <1>5, <3>3
        <4>5. QED BY <2>1, <3>1, <4>1, <4>2, <4>3, <4>4
      <3>4. i <= read_avail \/ i > read_avail
        <4>1. read_avail \in Int /\ i \in Int
          BY <1>5
        <4>2. QED BY <4>1
      <3>5. QED BY <3>2, <3>3, <3>4
    <2>3. new = [i \in 1..(read_avail + n) |-> new[i]]
      BY <1>5
    <2>4. QED BY <2>1, <2>2, <2>3
  <1>9. QED BY <1>3, <1>6, <1>8 DEF Fifo!FifoWrite, Fifo!Reply, Reply, new, old, tail

(* The bytes a read or a peek hands back are the oldest n of the queue. *)
LEMMA CopyOutIsPrefix ==
    ASSUME RingInv, NEW n \in 0..read_avail
    PROVE  CopyOut(n) = SubSeq(CopyOut(read_avail), 1, n)
  <1> DEFINE old == CopyOut(read_avail)
             head == CopyOut(n)
  <1>1. read_avail \in Nat /\ n \in Nat /\ n <= read_avail /\ read_avail \in 0..read_avail
    BY DEF RingInv, RingTypeOK
  <1>2. /\ old \in Seq(Byte) /\ Len(old) = read_avail
        /\ \A i \in 1..read_avail : old[i] = buffer[Cell(read_pos, i - 1)]
    BY <1>1, CopyOutSeq
  <1>3. /\ head \in Seq(Byte) /\ Len(head) = n
        /\ \A i \in 1..n : head[i] = buffer[Cell(read_pos, i - 1)]
    BY CopyOutSeq
  <1> HIDE DEF old, head
  <1> DEFINE sub == SubSeq(old, 1, n)
  <1>4. /\ sub \in Seq(Byte) /\ Len(sub) = n
        /\ \A i \in 1..n : sub[i] = old[i]
    <2>1. 1 \in 1..(Len(old) + 1) /\ n \in 0..Len(old)
      BY <1>1, <1>2
    <2>2. QED BY <1>1, <1>2, <2>1, SubSeqProperties
  <1> HIDE DEF sub
  <1>5. ASSUME NEW i \in 1..Len(head) PROVE head[i] = sub[i]
    <2>1. i \in 1..n /\ i \in 1..read_avail
      BY <1>1, <1>3
    <2>2. QED BY <2>1, <1>2, <1>3, <1>4
  <1>6. head = sub
    BY <1>3, <1>4, <1>5, SeqEqual, Zenon
  <1>7. QED BY <1>6 DEF head, sub, old

(* A read of the ring buffer is a read of the queue. *)
LEMMA RefineRead ==
    ASSUME RingInv, NEW count \in 0..MaxCount, ringbuffer_read(count)
    PROVE  Fifo!FifoRead(count)
  <1> DEFINE n == Min2(count, read_avail)
             new == CopyOut(read_avail)'
             old == CopyOut(read_avail)
  <1> USE RingBufferAssumption
  <1>1. /\ read_avail \in Nat /\ n \in 0..read_avail /\ n \in Nat
        /\ read_avail <= buffer_size /\ read_pos \in 0..buffer_size
        /\ read_avail \in 0..read_avail /\ n \in 0..buffer_size
    BY DEF Min2, RingInv, RingTypeOK
  <1>2. /\ read_pos' = Advanced(read_pos, n)
        /\ read_avail' = read_avail - n
        /\ buffer' = buffer
        /\ out' = Reply("read", n, CopyOut(n))
    BY DEF ringbuffer_read
  <1>3. /\ old \in Seq(Byte) /\ Len(old) = read_avail
        /\ \A i \in 1..read_avail : old[i] = buffer[Cell(read_pos, i - 1)]
    BY <1>1, CopyOutSeq
  <1>4. new = [i \in 1..(read_avail - n) |-> buffer[Cell(Advanced(read_pos, n), i - 1)]]
    BY <1>2 DEF CopyOut
  <1>5. CopyOut(n) = SubSeq(old, 1, n)
    BY <1>1, CopyOutIsPrefix
  <1>6. n = Fifo!Least(count, Len(old))
    BY <1>3 DEF Fifo!Least, Min2
  <1> HIDE DEF n, old, new
  <1> DEFINE rest == SubSeq(old, n + 1, Len(old))
  <1>7. /\ rest \in Seq(Byte) /\ Len(rest) = read_avail - n
        /\ \A i \in 1..(read_avail - n) : rest[i] = old[n + i]
    <2>1. n + 1 \in 1..(Len(old) + 1) /\ Len(old) \in (n + 1 - 1)..Len(old)
      BY <1>1, <1>3
    <2>2. /\ rest \in Seq(Byte)
          /\ Len(rest) = IF n + 1 <= Len(old) THEN Len(old) - (n + 1) + 1 ELSE 0
          /\ \A i \in 1..(Len(old) - (n + 1) + 1) : rest[i] = old[(n + 1) + i - 1]
      BY <1>3, <2>1, SubSeqProperties
    <2> HIDE DEF rest
    <2>3. QED BY <1>1, <1>3, <2>2
  <1> HIDE DEF rest
  <1>8. new = rest
    <2>1. ASSUME NEW i \in 1..(read_avail - n) PROVE new[i] = rest[i]
      <3>1. /\ i - 1 \in Nat /\ n + (i - 1) < buffer_size
            /\ n + i \in 1..read_avail /\ (n + i) - 1 = n + (i - 1)
        BY <1>1
      <3>2. Cell(Advanced(read_pos, n), i - 1) = Cell(read_pos, n + (i - 1))
        BY <1>1, <3>1, ReadShiftsWindow
      <3>3. new[i] = buffer[Cell(Advanced(read_pos, n), i - 1)]
        BY <1>4
      <3>4. rest[i] = buffer[Cell(read_pos, (n + i) - 1)]
        BY <1>3, <1>7, <3>1
      <3>5. QED BY <3>1, <3>2, <3>3, <3>4
    <2>2. new = [i \in 1..(read_avail - n) |-> new[i]]
      BY <1>4
    <2>3. rest = [i \in 1..(read_avail - n) |-> rest[i]]
      BY <1>7, LenProperties
    <2>4. QED BY <2>1, <2>2, <2>3
  <1>9. QED
    BY <1>2, <1>5, <1>6, <1>8 DEF Fifo!FifoRead, Fifo!Reply, Reply, new, old, rest

(* A peek of the ring buffer is a peek of the queue. *)
LEMMA RefinePeek ==
    ASSUME RingInv, NEW count \in 0..MaxCount, ringbuffer_peek(count)
    PROVE  Fifo!FifoPeek(count)
  <1> DEFINE n == Min2(count, read_avail)
             old == CopyOut(read_avail)
  <1>1. n \in 0..read_avail /\ read_avail \in 0..read_avail
    BY DEF Min2, RingInv, RingTypeOK
  <1>2. CopyOut(n) = SubSeq(old, 1, n) /\ Len(old) = read_avail
    BY <1>1, CopyOutIsPrefix, CopyOutSeq
  <1>3. n = Fifo!Least(count, Len(old))
    BY <1>2 DEF Fifo!Least, Min2
  <1>4. out' = Reply("peek", n, CopyOut(n)) /\ CopyOut(read_avail)' = old
    BY DEF ringbuffer_peek, CopyOut
  <1> HIDE DEF n
  <1>5. QED BY <1>2, <1>3, <1>4 DEF Fifo!FifoPeek, Fifo!Reply, Reply

(* An empty ring buffer is an empty queue: after create and after reset. *)
LEMMA EmptyIsEmpty == CopyOut(0) = <<>>
  <1>1. CopyOut(0) \in Seq({}) /\ Len(CopyOut(0)) = 0
    BY DEF CopyOut
  <1>2. QED BY <1>1, EmptySeq, SeqEqual

(* Every behaviour of the ring buffer is, seen through its occupied cells, a
   behaviour of the bounded byte queue its callers rely on. *)
THEOREM RingImplementsFifo == RingSpec => ImplementsFifo
  <1>1. RingInit => Fifo!FifoInit
    BY EmptyIsEmpty DEF RingInit, Fifo!FifoInit, Fifo!Reply, Reply, CopyOut
  <1>2. RingInv /\ RingInv' /\ [RingNext]_ringVars => [Fifo!FifoNext]_Fifo!fifoVars
    <2> SUFFICES ASSUME RingInv, RingInv', [RingNext]_ringVars
                 PROVE  [Fifo!FifoNext]_Fifo!fifoVars
      OBVIOUS
    <2>1. ASSUME NEW src \in Source, ringbuffer_write(src) PROVE Fifo!FifoNext
      BY <2>1, RefineWrite DEF Fifo!FifoNext, Fifo!Source, Source
    <2>2. ASSUME NEW count \in 0..MaxCount, ringbuffer_read(count) PROVE Fifo!FifoNext
      BY <2>2, RefineRead DEF Fifo!FifoNext
    <2>3. ASSUME NEW count \in 0..MaxCount, ringbuffer_peek(count) PROVE Fifo!FifoNext
      BY <2>3, RefinePeek DEF Fifo!FifoNext
    <2>4. ASSUME ringbuffer_cleanreset PROVE Fifo!FifoNext
      <3>1. CopyOut(read_avail)' = <<>>
        BY <2>4, EmptyIsEmpty DEF ringbuffer_cleanreset, CopyOut
      <3>2. Fifo!FifoReset
        BY <2>4, <3>1 DEF ringbuffer_cleanreset, Fifo!FifoReset, Fifo!Reply, Reply
      <3>3. QED BY <3>2 DEF Fifo!FifoNext
    <2>5. CASE UNCHANGED ringVars
      BY <2>5 DEF ringVars, Fifo!fifoVars, CopyOut
    <2>6. QED BY <2>1, <2>2, <2>3, <2>4, <2>5 DEF RingNext
  <1>3. QED BY <1>1, <1>2, RingSafety, PTL DEF RingSpec, RingInv, ImplementsFifo, Fifo!FifoSpec

-----------------------------------------------------------------------------
(* Sequences                                                                   *)

(* What is left of a sequence without its first element.                       *)
LEMMA TailOfSeq ==
    ASSUME NEW S, NEW s \in Seq(S), s # <<>>
    PROVE  /\ Head(s) = s[1] /\ s[1] \in S
           /\ Tail(s) \in Seq(S) /\ Len(Tail(s)) = Len(s) - 1 /\ Len(s) - 1 \in Nat
           /\ DOMAIN Tail(s) = 1 .. Len(s) - 1
           /\ \A i \in 1 .. Len(s) - 1 : Tail(s)[i] = s[i + 1]
OBVIOUS

-----------------------------------------------------------------------------
(* The reader of a segment                                                     *)

ReaderAt == {"idle", "loop", "wait", "waiting", "woken", "take"}
Buffers == {b \in [from : Nat, to : Nat] : b.from <= b.to}

SegmentTypes ==
    /\ mSegments \in Seq(Buffers)
    /\ mCurrentItem \in [ptr : Nat, to : Nat, size : Nat]
    /\ rd \in [at : ReaderAt, size : Nat, read : Nat]
    /\ mAvailableDataSize \in Int /\ pushed \in Nat /\ handed \in Nat

\* A reader that is in pop has used its buffer up; after Disable the size
\* reported counts no more
SegmentInv ==
    /\ SegmentTypes /\ BytesInOrder
    /\ rd.at \in {"wait", "waiting", "woken", "take"} => mCurrentItem.ptr = mCurrentItem.to
    /\ exitStep \in {"notify", "done"} => ~mEnabled

LEMMA SegmentInvInit == SegmentInit => SegmentInv
<1> SUFFICES ASSUME SegmentInit PROVE SegmentInv
  OBVIOUS
<1>1. mSegments \in Seq(Buffers) /\ mSegments = <<>> /\ DOMAIN mSegments = {}
  BY DEF SegmentInit
<1> QED BY <1>1 DEF SegmentInit, SegmentInv, SegmentTypes, BytesInOrder, ReaderAt

(* What read_check copies is a part of the current buffer, up to a mark in it  *)
(* or not.                                                                     *)
LEMMA NeedIsThere ==
    ASSUME SegmentAssumption, SegmentInv, NEW size \in Nat
    PROVE  NeedRead(size).n \in 0 .. mCurrentItem.to - mCurrentItem.ptr
<1> DEFINE left == mCurrentItem.to - mCurrentItem.ptr
           n == IF size > left THEN left ELSE size
           marks == {i \in 0..(n - MarkLength - 1) : mCurrentItem.ptr + i \in Marks}
<1>1. left \in Nat /\ n \in 0 .. left /\ MarkLength \in Nat
  BY DEF SegmentInv, SegmentTypes, BytesInOrder, SegmentAssumption
<1>2. marks \subseteq 0 .. n /\ marks \subseteq Nat
  BY <1>1
<1>3. CASE kind = "demux" /\ n >= MarkLength /\ marks # {}
  <2> DEFINE first == CHOOSE i \in marks : \A j \in marks : i <= j
  <2>1. NeedRead(size).n = first
    BY <1>3 DEF NeedRead
  <2> HIDE DEF marks
  <2>2. \E i \in marks : \A j \in marks : i <= j
    BY <1>2, <1>3, LeastOfNats
  <2>3. first \in marks
    BY <2>2
  <2>4. first \in 0 .. n
    BY <2>3, <1>2
  <2> HIDE DEF first, n, left
  <2>5. first \in 0 .. left
    BY <2>4, <1>1
  <2> QED BY <2>1, <2>5 DEF left
<1>4. CASE ~(kind = "demux" /\ n >= MarkLength /\ marks # {})
  <2>1. NeedRead(size).n = n
    BY <1>4 DEF NeedRead
  <2> QED BY <2>1, <1>1
<1> QED BY <1>3, <1>4

LEMMA PushKeepsOrder ==
    ASSUME SegmentInv, SegmentAssumption, NEW n \in BufferSizes, push(n)
    PROVE  SegmentInv'
<1> DEFINE b == [from |-> pushed, to |-> pushed + n]
<1>1. /\ mSegments \in Seq(Buffers) /\ Len(mSegments) \in Nat
      /\ DOMAIN mSegments = 1 .. Len(mSegments)
      /\ mSegments' = Append(mSegments, b) /\ b \in Buffers
      /\ b.from = pushed /\ b.to = pushed + n /\ n \in Nat /\ pushed \in Nat
  BY DEF SegmentInv, SegmentTypes, SegmentAssumption, push, Buffers
<1> HIDE DEF b
<1>2. /\ mSegments' \in Seq(Buffers) /\ Len(mSegments') = Len(mSegments) + 1
      /\ DOMAIN mSegments' = 1 .. Len(mSegments) + 1
      /\ mSegments'[Len(mSegments) + 1] = b
      /\ \A i \in 1 .. Len(mSegments) : mSegments'[i] = mSegments[i]
  BY <1>1
<1>3. SegmentTypes'
  <2>1. rd' \in [at : ReaderAt, size : Nat, read : Nat]
    BY DEF SegmentInv, SegmentTypes, push, ReaderAt
  <2>2. mSegments' \in Seq(Buffers)
    BY <1>2
  <2>3. mCurrentItem' \in [ptr : Nat, to : Nat, size : Nat] /\ handed' \in Nat
    BY DEF SegmentInv, SegmentTypes, push
  <2>4. mAvailableDataSize' \in Int /\ pushed' \in Nat
    BY <1>1 DEF SegmentInv, SegmentTypes, push
  <2> QED BY <2>1, <2>2, <2>3, <2>4 DEF SegmentTypes
<1>4. BytesInOrder'
  <2>1. (handed = mCurrentItem.ptr /\ mCurrentItem.ptr <= mCurrentItem.to)'
    BY DEF SegmentInv, BytesInOrder, push
  <2>2. ASSUME NEW i \in DOMAIN mSegments'
        PROVE  mSegments'[i].from = IF i = 1 THEN mCurrentItem'.to ELSE mSegments'[i - 1].to
    <3>1. CASE i \in 1 .. Len(mSegments)
      BY <1>1, <1>2, <3>1 DEF SegmentInv, BytesInOrder, push
    <3>2. CASE i = Len(mSegments) + 1 /\ i = 1
      <4>1. mSegments = <<>> /\ mSegments'[i].from = pushed
        BY <1>1, <1>2, <3>2
      <4>2. pushed = mCurrentItem.to /\ mCurrentItem' = mCurrentItem
        BY <4>1 DEF SegmentInv, BytesInOrder, push
      <4> QED BY <4>1, <4>2, <3>2
    <3>3. CASE i = Len(mSegments) + 1 /\ i # 1
      <4>1. mSegments # <<>> /\ mSegments'[i].from = pushed /\ i - 1 = Len(mSegments)
        BY <1>1, <1>2, <3>3
      <4>2. pushed = mSegments[i - 1].to
        BY <4>1 DEF SegmentInv, BytesInOrder
      <4>3. mSegments'[i - 1] = mSegments[i - 1]
        <5>1. i - 1 \in 1 .. Len(mSegments)
          BY <1>1, <1>2, <2>2, <3>3
        <5> QED BY <5>1, <1>2, Zenon
      <4> QED BY <4>1, <4>2, <4>3, <3>3
    <3> QED BY <1>1, <1>2, <2>2, <3>1, <3>2, <3>3
  <2>3. mSegments' # <<>> /\ pushed' = mSegments'[Len(mSegments')].to
    BY <1>1, <1>2 DEF push
  <2>4. mEnabled' => mAvailableDataSize' = pushed' - mCurrentItem'.to
    BY <1>1 DEF SegmentInv, SegmentTypes, BytesInOrder, push
  <2> QED BY <2>1, <2>2, <2>3, <2>4 DEF BytesInOrder
<1>5. (rd.at \in {"wait", "waiting", "woken", "take"} => mCurrentItem.ptr = mCurrentItem.to)'
  BY DEF SegmentInv, SegmentTypes, push, ReaderAt
<1> QED BY <1>3, <1>4, <1>5 DEF SegmentInv, push

LEMMA TakeKeepsOrder ==
    ASSUME SegmentInv, PopTake PROVE SegmentInv'
<1>1. /\ mSegments \in Seq(Buffers) /\ Len(mSegments) \in Nat
      /\ DOMAIN mSegments = 1 .. Len(mSegments)
      /\ mCurrentItem.ptr = mCurrentItem.to
      /\ rd' \in [at : ReaderAt, size : Nat, read : Nat] /\ rd'.at = "loop"
  BY DEF SegmentInv, SegmentTypes, PopTake, ReaderAt
<1>2. CASE mSegments = <<>>
  BY <1>1, <1>2 DEF SegmentInv, SegmentTypes, BytesInOrder, PopTake
<1>3. CASE mSegments # <<>>
  <2> DEFINE item == mSegments[1]
             n == Len(mSegments) - 1
  <2>1. /\ item \in Buffers /\ item.from <= item.to
        /\ item.from = mCurrentItem.to /\ item.from \in Nat /\ item.to \in Nat
        /\ n \in Nat
    <3>1. mSegments[1] \in Buffers /\ 1 \in DOMAIN mSegments /\ n \in Nat
      BY <1>1, <1>3
    <3>2. mSegments[1].from = mCurrentItem.to
      BY <3>1 DEF SegmentInv, BytesInOrder
    <3> QED BY <3>1, <3>2 DEF Buffers
  <2>2. /\ mSegments' \in Seq(Buffers) /\ Len(mSegments') = n
        /\ DOMAIN mSegments' = 1 .. n
        /\ \A i \in 1 .. n : mSegments'[i] = mSegments[i + 1]
    <3>1. mSegments' = Tail(mSegments)
      BY <1>3 DEF PopTake
    <3> QED BY <1>1, <1>3, <3>1, TailOfSeq
  <2>3. /\ mCurrentItem' = [ptr |-> item.from, to |-> item.to, size |-> item.to - item.from]
        /\ mAvailableDataSize' = mAvailableDataSize - (item.to - item.from)
    BY <1>1, <1>3 DEF PopTake
  <2>4. mCurrentItem' \in [ptr : Nat, to : Nat, size : Nat]
        /\ mCurrentItem'.ptr = item.from /\ mCurrentItem'.to = item.to
    BY <2>1, <2>3
  <2> HIDE DEF item
  <2>5. SegmentTypes'
    BY <1>1, <2>1, <2>2, <2>3, <2>4 DEF SegmentInv, SegmentTypes, PopTake, n
  <2>6. BytesInOrder'
    <3>1. (handed = mCurrentItem.ptr /\ mCurrentItem.ptr <= mCurrentItem.to)'
      BY <1>1, <2>1, <2>4 DEF SegmentInv, BytesInOrder, PopTake
    <3>2. ASSUME NEW i \in DOMAIN mSegments'
          PROVE  mSegments'[i].from = IF i = 1 THEN mCurrentItem'.to ELSE mSegments'[i - 1].to
      <4>1. i \in 1 .. n /\ i + 1 \in DOMAIN mSegments /\ i + 1 # 1 /\ (i + 1) - 1 = i
        BY <1>1, <2>1, <2>2 DEF n
      <4>2. mSegments[i + 1].from = mSegments[i].to
        BY <4>1 DEF SegmentInv, BytesInOrder
      <4>3. CASE i = 1
        BY <4>1, <4>2, <4>3, <2>2, <2>4 DEF item
      <4>4. CASE i # 1
        BY <4>1, <4>2, <4>4, <2>2
      <4> QED BY <4>3, <4>4
    <3>3. pushed' = IF mSegments' = <<>> THEN mCurrentItem'.to ELSE mSegments'[Len(mSegments')].to
      <4>1. pushed' = pushed /\ pushed = mSegments[Len(mSegments)].to
        BY <1>3 DEF SegmentInv, BytesInOrder, PopTake
      <4>2. CASE n = 0
        <5>1. mSegments' = <<>> /\ Len(mSegments) = 1
          BY <4>2, <1>1, <2>2
        <5> QED BY <4>1, <5>1, <2>4 DEF item
      <4>3. CASE n # 0
        <5>1. n \in 1 .. n /\ n + 1 = Len(mSegments) /\ mSegments' # <<>>
          BY <4>3, <1>1, <2>1, <2>2
        <5>2. mSegments'[n] = mSegments[n + 1]
          BY <5>1, <2>2, Zenon
        <5> QED BY <4>1, <5>1, <5>2, <2>2
      <4> QED BY <4>2, <4>3
    <3>4. mEnabled' => mAvailableDataSize' = pushed' - mCurrentItem'.to
      BY <2>1, <2>3, <2>4 DEF SegmentInv, SegmentTypes, BytesInOrder, PopTake
    <3> QED BY <3>1, <3>2, <3>3, <3>4 DEF BytesInOrder
  <2> QED BY <1>1, <2>5, <2>6 DEF SegmentInv, PopTake
<1> QED BY <1>2, <1>3

LEMMA CopyKeepsOrder ==
    ASSUME SegmentAssumption, SegmentInv, Copy PROVE SegmentInv'
<1> DEFINE size == IF rd.size = Whole THEN mCurrentItem.size ELSE rd.size
           n == NeedRead(size - rd.read).n
<1>1. size \in Nat /\ rd.read \in Nat /\ size - rd.read \in Nat
  BY DEF SegmentInv, SegmentTypes, Copy
<1>2. n \in 0 .. mCurrentItem.to - mCurrentItem.ptr
  BY <1>1, NeedIsThere
<1>3. /\ mCurrentItem' = [mCurrentItem EXCEPT !.ptr = @ + n] /\ handed' = handed + n
      /\ rd'.at \in {"idle", "loop"} /\ rd'.size = size /\ rd'.read = rd.read + n
      /\ rd' = [at |-> rd'.at, size |-> size, read |-> rd.read + n]
  BY DEF Copy
<1> HIDE DEF n, size
<1>4. rd' \in [at : ReaderAt, size : Nat, read : Nat]
  <2>1. mCurrentItem \in [ptr : Nat, to : Nat, size : Nat]
    BY DEF SegmentInv, SegmentTypes
  <2>2. n \in Nat
    BY <1>2, <2>1
  <2>3. rd'.at \in ReaderAt /\ rd.read + n \in Nat
    BY <1>1, <1>3, <2>2 DEF ReaderAt
  <2> QED BY <1>1, <1>3, <2>3
<1>5. SegmentTypes'
  <2>1. mSegments' \in Seq(Buffers) /\ mAvailableDataSize' \in Int /\ pushed' \in Nat
    BY DEF SegmentInv, SegmentTypes, Copy, queueVars
  <2>2. mCurrentItem' \in [ptr : Nat, to : Nat, size : Nat] /\ handed' \in Nat
    <3>1. mCurrentItem \in [ptr : Nat, to : Nat, size : Nat] /\ handed \in Nat
      BY DEF SegmentInv, SegmentTypes
    <3>2. n \in Nat
      BY <1>2, <3>1
    <3> QED BY <1>3, <3>1, <3>2
  <2> QED BY <1>4, <2>1, <2>2 DEF SegmentTypes
<1>6. BytesInOrder'
  BY <1>2, <1>3 DEF SegmentInv, SegmentTypes, BytesInOrder, Copy, queueVars
<1> QED BY <1>3, <1>5, <1>6 DEF SegmentInv, Copy

LEMMA SegmentInvNext ==
    ASSUME SegmentAssumption, SegmentInv, [SegmentNext]_segVars PROVE SegmentInv'
<1> USE DEF SegmentInv, SegmentTypes, ReaderAt, BytesInOrder, queueVars, readVars
<1>1. ASSUME NEW n \in BufferSizes, push(n) PROVE SegmentInv'
  BY <1>1, PushKeepsOrder
<1>2. CASE stop
  BY <1>2 DEF stop
<1>3. CASE Disable
  BY <1>3 DEF Disable
<1>4. CASE NotifyExit
  BY <1>4 DEF NotifyExit
<1>5. ASSUME NEW n \in ReadSizes \cup {Whole}, Ask(n) PROVE SegmentInv'
  BY <1>5 DEF Ask, Whole, SegmentAssumption
<1>6. CASE Return
  BY <1>6 DEF Return
<1>7. CASE Copy
  BY <1>7, CopyKeepsOrder
<1>8. CASE PopTest
  BY <1>8 DEF PopTest
<1>9. CASE PopWait
  BY <1>9 DEF PopWait
<1>10. CASE PopTake
  BY <1>10, TakeKeepsOrder
<1>11. CASE UNCHANGED segVars
  BY <1>11 DEF segVars
<1> QED BY <1>1, <1>2, <1>3, <1>4, <1>5, <1>6, <1>7, <1>8, <1>9, <1>10, <1>11 DEF SegmentNext

(* The reader of a segment hands the bytes out as they were pushed, whatever   *)
(* the sizes of the buffers and of the reads, and where marks of packets fall. *)
THEOREM SegmentBytesInOrder == SegmentSpec => []BytesInOrder
<1>1. SegmentInv => BytesInOrder
  BY DEF SegmentInv
<1> QED BY SegmentAssumption, SegmentInvInit, SegmentInvNext, <1>1, PTL DEF SegmentSpec

-----------------------------------------------------------------------------
(* The driver sources                                                          *)

Pushed == [n : Nat, whole : BOOLEAN]

DriverTypes ==
    /\ mSegment \in Seq(Pushed) /\ offered \in Nat
    /\ reading \in [n : Nat, size : Nat, done : Nat]

\* The time thread holds mLock while it looks and calls, and without the lock
\* the listeners are not changed
TimeThreadLocks ==
    /\ timeThread \in {"look", "call"} => infoLock = "time"
    /\ timeThread = "call" => mInfoListeners # {} /\ session = "alive"
    /\ ownerAt = "drop" => mInfoListeners = {}

\* Nothing is read after a stop that has cut a subtitle; what is being read is
\* the last that was offered
SubtitlesInOrder ==
    /\ SubtitlesWhole
    /\ \A i \in DOMAIN mSegment : mSegment[i].n <= offered
    /\ readThread = "read" =>
          \A i \in DOMAIN mSegment : mSegment[i].n < offered /\ mSegment[i].whole
    /\ readThread = "read" => reading.n = offered /\ srcState # "inv"
    /\ srcState \in {"inv", "started", "stopped"}

DriverInv == DriverTypes /\ TimeThreadLocks /\ SubtitlesInOrder

LEMMA DriverInvInit == DriverSourceInit => DriverInv
<1> SUFFICES ASSUME DriverSourceInit PROVE DriverInv
  OBVIOUS
<1>1. mSegment \in Seq(Pushed) /\ DOMAIN mSegment = {}
  BY DEF DriverSourceInit
<1> QED BY <1>1 DEF DriverSourceInit, DriverInv, DriverTypes, TimeThreadLocks,
                    SubtitlesInOrder, SubtitlesWhole, NoSubtitle

LEMMA TimeLocksNext ==
    ASSUME TimeThreadLocks, [DriverSourceNext]_drvVars PROVE TimeThreadLocks'
<1> USE DEF TimeThreadLocks, threadVars, ownerVars
<1>1. CASE OwnerStep
  BY <1>1 DEF OwnerStep, registerInfoListener, StartDriver, notifyInfoChange,
              unregisteredInfoListener, StopDriver, RequestExit, CloseDriver, DriverSourceDestroyed
<1>2. CASE TimeThreadStep
  BY <1>2 DEF TimeThreadStep, TimeTest, TimeLock, TimeLook, TimeCalled, TimeStep
<1>3. CASE ReadThreadStep
  BY <1>3 DEF ReadThreadStep, ReadEnds, ReadPoll, readDriverData, ReadFails, PushSubtitle, ReadStep
<1>4. CASE UNCHANGED drvVars
  BY <1>4 DEF drvVars
<1> QED BY <1>1, <1>2, <1>3, <1>4 DEF DriverSourceNext

LEMMA PushKeepsSubtitles ==
    ASSUME DriverTypes, SubtitlesInOrder, PushSubtitle
    PROVE  DriverTypes' /\ SubtitlesInOrder'
<1>1. /\ readThread = "read" /\ readThread' = "test" /\ offered' = offered /\ offered \in Nat
      /\ srcState' = srcState /\ reading' \in [n : Nat, size : Nat, done : Nat]
      /\ reading.n = offered /\ srcState \in {"started", "stopped"}
      /\ mSegment \in Seq(Pushed) /\ Len(mSegment) \in Nat /\ DOMAIN mSegment = 1 .. Len(mSegment)
  BY DEF PushSubtitle, ReadStep, ownerVars, NoSubtitle, DriverTypes, SubtitlesInOrder
<1>2. CASE reading.done = 0
  BY <1>1, <1>2 DEF PushSubtitle, DriverTypes, SubtitlesInOrder, SubtitlesWhole
<1>3. CASE reading.done # 0
  <2> DEFINE s == [n |-> reading.n, whole |-> reading.done = reading.size]
  <2>1. mSegment' = Append(mSegment, s) /\ s \in Pushed /\ s.n = offered
    BY <1>1, <1>3 DEF PushSubtitle, DriverTypes, Pushed
  <2>2. s.whole \/ srcState = "stopped"
    BY <1>1 DEF PushSubtitle
  <2> HIDE DEF s
  <2>3. /\ mSegment' \in Seq(Pushed) /\ Len(mSegment') = Len(mSegment) + 1
        /\ DOMAIN mSegment' = 1 .. Len(mSegment) + 1
        /\ mSegment'[Len(mSegment) + 1] = s
        /\ \A i \in 1 .. Len(mSegment) : mSegment'[i] = mSegment[i]
    BY <1>1, <2>1
  <2>4. \A i \in 1 .. Len(mSegment) : mSegment[i].n < offered /\ mSegment[i].whole
    BY <1>1 DEF SubtitlesInOrder
  <2>5. ASSUME NEW i \in DOMAIN mSegment'
        PROVE  /\ mSegment'[i].whole \/ (i = Len(mSegment') /\ srcState' = "stopped")
               /\ mSegment'[i].n <= offered'
    <3>1. CASE i \in 1 .. Len(mSegment)
      <4>1. mSegment'[i] = mSegment[i] /\ mSegment[i].n < offered /\ mSegment[i].whole
        BY <2>3, <2>4, <3>1
      <4>2. mSegment[i] \in Pushed
        BY <1>1, <3>1
      <4> QED BY <1>1, <4>1, <4>2 DEF Pushed
    <3>2. CASE i = Len(mSegment) + 1
      BY <1>1, <2>1, <2>2, <2>3, <3>2
    <3> QED BY <1>1, <2>3, <3>1, <3>2
  <2>6. ASSUME NEW i \in DOMAIN mSegment', NEW j \in DOMAIN mSegment', i < j
        PROVE  mSegment'[i].n < mSegment'[j].n
    <3>1. i \in 1 .. Len(mSegment)
      BY <1>1, <2>3, <2>6
    <3>2. mSegment'[i] = mSegment[i] /\ mSegment[i].n < offered
      BY <2>3, <2>4, <3>1
    <3>3. CASE j \in 1 .. Len(mSegment)
      <4>1. mSegment[i].n < mSegment[j].n
        BY <1>1, <2>6, <3>1, <3>3 DEF SubtitlesInOrder, SubtitlesWhole
      <4> QED BY <2>3, <3>2, <3>3, <4>1
    <3>4. CASE j = Len(mSegment) + 1
      BY <2>1, <2>3, <3>2, <3>4
    <3> QED BY <1>1, <2>3, <3>3, <3>4
  <2> QED BY <1>1, <2>3, <2>5, <2>6 DEF DriverTypes, SubtitlesInOrder, SubtitlesWhole
<1> QED BY <1>2, <1>3

LEMMA SubtitlesNext ==
    ASSUME DriverSourceAssumption, DriverTypes, SubtitlesInOrder, [DriverSourceNext]_drvVars
    PROVE  DriverTypes' /\ SubtitlesInOrder'
<1> USE DEF DriverTypes, SubtitlesInOrder, SubtitlesWhole, threadVars, ownerVars
<1>1. CASE OwnerStep
  BY <1>1 DEF OwnerStep, registerInfoListener, StartDriver, notifyInfoChange,
              unregisteredInfoListener, StopDriver, RequestExit, CloseDriver, DriverSourceDestroyed
<1>2. CASE TimeThreadStep
  BY <1>2 DEF TimeThreadStep, TimeTest, TimeLock, TimeLook, TimeCalled, TimeStep
<1>3. CASE ReadEnds
  BY <1>3 DEF ReadEnds, ReadStep
<1>4. CASE ReadPoll
  <2>1. reading' \in [n : Nat, size : Nat, done : Nat] /\ offered' = offered + 1
    BY <1>4 DEF ReadPoll, DriverSourceAssumption
  <2>2. reading'.n = offered' /\ srcState = "started" /\ UNCHANGED <<mSegment, srcState>>
    BY <1>4 DEF ReadPoll, ReadStep
  <2>3. \A i \in DOMAIN mSegment : mSegment[i].n < offered + 1 /\ mSegment[i].whole
    <3>1. ASSUME NEW i \in DOMAIN mSegment PROVE mSegment[i].n < offered + 1 /\ mSegment[i].whole
      <4>0. mSegment[i] \in Pushed
        OBVIOUS
      <4>1. mSegment[i].n \in Nat /\ mSegment[i].n <= offered
        BY <4>0 DEF Pushed
      <4>2. mSegment[i].whole
        BY <2>2
      <4> QED BY <4>1, <4>2
    <3> QED BY <3>1
  <2>4. \A i \in DOMAIN mSegment : mSegment[i].n <= offered + 1
    <3>1. ASSUME NEW i \in DOMAIN mSegment PROVE mSegment[i].n <= offered + 1
      <4>1. mSegment[i] \in Pushed
        OBVIOUS
      <4>2. mSegment[i].n \in Nat /\ mSegment[i].n < offered + 1
        BY <2>3, <4>1 DEF Pushed
      <4> QED BY <4>2
    <3> QED BY <3>1
  <2>5. DriverTypes'
    BY <2>1, <2>2
  <2>6. SubtitlesWhole'
    BY <2>2
  <2> QED BY <2>1, <2>2, <2>3, <2>4, <2>5, <2>6 DEF SubtitlesInOrder
<1>5. CASE readDriverData
  BY <1>5 DEF readDriverData, ReadStep
<1>6. CASE ReadFails
  BY <1>6 DEF ReadFails, ReadStep, NoSubtitle
<1>7. CASE PushSubtitle
  BY <1>7, PushKeepsSubtitles
<1>8. CASE UNCHANGED drvVars
  BY <1>8 DEF drvVars
<1> QED BY <1>1, <1>2, <1>3, <1>4, <1>5, <1>6, <1>7, <1>8 DEF DriverSourceNext, ReadThreadStep

(* The time thread of a source calls only a session that is attached and       *)
(* alive, and the subtitles pushed are whole but for a last one that a stop    *)
(* has cut, and in order: for any number and sizes of subtitles.               *)
THEOREM DriverSourcesSafe == DriverSourceSpec => []DriverSourceSafe
<1>1. DriverInv => DriverSourceSafe
  BY DEF DriverInv, DriverSourceSafe, TimeThreadLocks, CalledIsAttached, SubtitlesInOrder
<1>2. DriverInv /\ [DriverSourceNext]_drvVars => DriverInv'
  BY DriverSourceAssumption, TimeLocksNext, SubtitlesNext DEF DriverInv
<1> QED BY DriverInvInit, <1>1, <1>2, PTL DEF DriverSourceSpec

-----------------------------------------------------------------------------
(* The wait for subtitles                                                      *)

\* A waiter that has not been told has seen the silence it has waited for
TimeoutInv ==
    /\ path \in Paths /\ waited \in 0 .. Sixty /\ quiet \in 0 .. Sixty
    /\ life \in {"new", "started", "joining", "destroying"}
    /\ unsignalled \in BOOLEAN
    /\ waited > 0 => life # "new"
    /\ waiter \in {"waiting", "woken"} /\ mPendingAction # 1 /\ ~unsignalled => quiet >= waited
    /\ waiter = "woken" /\ mPendingAction # 1 => waited = Sixty
    /\ SilenceMeansSilence

LEMMA TimeoutPaths ==
    ASSUME PathsSignal, path \in Paths PROVE Timeout = Sixty /\ Signals
BY DEF PathsSignal, Timeout, Signals

LEMMA TimeoutInvNext ==
    ASSUME DecodeTimeoutAssumption, PathsSignal, TimeoutInv, [TimeoutNext]_timeoutVars
    PROVE  TimeoutInv'
<1>0. Timeout = Sixty /\ Signals = TRUE /\ Sixty \in Nat /\ Sixty > 0
  BY TimeoutPaths DEF TimeoutInv, DecodeTimeoutAssumption, Signals
<1> USE DEF TimeoutInv, SilenceMeansSilence, Never
<1>1. CASE startParser
  BY <1>1 DEF startParser
<1>2. CASE stopParser
  BY <1>2 DEF stopParser
<1>3. CASE DestroyStopped
  BY <1>3 DEF DestroyStopped, Notified
<1>4. CASE AddItem
  BY <1>0, <1>4 DEF AddItem
<1>5. CASE SignalItem
  BY <1>5 DEF SignalItem, Notified
<1>6. CASE ExitTest
  BY <1>6 DEF ExitTest
<1>7. CASE WaitFor
  BY <1>0, <1>7 DEF WaitFor
<1>8. CASE TimedOut
  BY <1>0, <1>8 DEF TimedOut
<1>9. CASE callbackProcess
  BY <1>0, <1>9 DEF callbackProcess, Reports
<1>10. CASE TimePasses
  BY <1>0, <1>10 DEF TimePasses
<1>11. CASE UNCHANGED timeoutVars
  BY <1>11 DEF timeoutVars
<1> QED BY <1>1, <1>2, <1>3, <1>4, <1>5, <1>6, <1>7, <1>8, <1>9, <1>10, <1>11 DEF TimeoutNext

(* "No subtitles" is told only after the silence it tells of, however long     *)
(* that is, on every path whose items are signalled.                           *)
THEOREM SilenceIsSilence ==
    ASSUME PathsSignal PROVE TimeoutSpec => []SilenceMeansSilence
<1>1. TimeoutInit => TimeoutInv
  <2> SUFFICES ASSUME TimeoutInit PROVE TimeoutInv
    OBVIOUS
  <2>1. reported.what = "nothing"
    BY DEF TimeoutInit
  <2>2. SilenceMeansSilence
    BY <2>1 DEF SilenceMeansSilence
  <2>3. /\ path \in Paths /\ life = "new" /\ unsignalled = FALSE /\ quiet = Sixty
        /\ waited = 0 /\ waiter = "test" /\ Sixty \in Nat
    BY DecodeTimeoutAssumption DEF TimeoutInit, Never, DecodeTimeoutAssumption
  <2>4. waited \in 0 .. Sixty /\ quiet \in 0 .. Sixty
    BY <2>3
  <2>5. unsignalled \in BOOLEAN
    BY <2>3
  <2>6. ~(waited > 0)
    BY <2>3
  <2>7. waiter \notin {"waiting", "woken"} /\ waiter # "woken"
    BY <2>3
  <2> QED BY <2>2, <2>3, <2>4, <2>5, <2>6, <2>7, Zenon DEF TimeoutInv
<1>2. TimeoutInv /\ [TimeoutNext]_timeoutVars => TimeoutInv'
  BY PathsSignal, DecodeTimeoutAssumption, TimeoutInvNext
<1>3. TimeoutInv => SilenceMeansSilence
  BY DEF TimeoutInv
<1> QED BY <1>1, <1>2, <1>3, PTL DEF TimeoutSpec

-----------------------------------------------------------------------------
(* The captions                                                                *)

(* Time stamps of 32 bits: the remainder of a sum.                             *)
LEMMA Division ==
    ASSUME NEW m \in Nat, m > 0, NEW x \in Nat
    PROVE  x % m \in 0 .. m - 1 /\ x \div m \in Nat /\ x = m * (x \div m) + (x % m)
OBVIOUS

LEMMA OneQuotient ==
    ASSUME NEW m \in Nat, m > 0, NEW q1 \in Int, NEW q2 \in Int,
           NEW r1 \in 0 .. m - 1, NEW r2 \in 0 .. m - 1, m * q1 + r1 = m * q2 + r2
    PROVE  r1 = r2
<1>1. m * (q1 - q2) = r2 - r1
  OBVIOUS
<1>2. CASE q1 > q2
  <2>1. m * (q1 - q2) >= m
    BY <1>2
  <2> QED BY <2>1, <1>1
<1>3. CASE q1 < q2
  <2>1. m * (q2 - q1) >= m
    BY <1>3
  <2>2. m * (q1 - q2) = - (m * (q2 - q1))
    OBVIOUS
  <2> QED BY <2>1, <2>2, <1>1
<1> QED BY <1>1, <1>2, <1>3

LEMMA SumModulo ==
    ASSUME NEW m \in Nat, m > 0, NEW v \in Nat, NEW d \in 0 .. m - 1
    PROVE  (v + d) % m = IF (v % m) + d < m THEN (v % m) + d ELSE (v % m) + d - m
<1> DEFINE q1 == (v + d) \div m
           q2 == v \div m
           r1 == (v + d) % m
           r2 == v % m
<1>1. /\ q1 \in Int /\ q2 \in Int /\ r1 \in 0 .. m - 1 /\ r2 \in 0 .. m - 1
      /\ v + d = m * q1 + r1 /\ v = m * q2 + r2
  BY Division
<1> HIDE DEF q1, q2, r1, r2
<1>2. CASE r2 + d < m
  <2>1. m * q1 + r1 = m * q2 + (r2 + d) /\ r2 + d \in 0 .. m - 1
    BY <1>1, <1>2
  <2>2. r1 = r2 + d
    BY <1>1, <2>1, OneQuotient
  <2> QED BY <2>2, <1>2 DEF r1, r2
<1>3. CASE r2 + d >= m
  <2>1. m * (q2 + 1) = m * q2 + m
    BY <1>1
  <2>2. m * q1 + r1 = m * (q2 + 1) + (r2 + d - m) /\ r2 + d - m \in 0 .. m - 1
    BY <1>1, <1>3, <2>1
  <2> DEFINE e == r2 + d - m
             q3 == q2 + 1
  <2>3. m * q1 + r1 = m * q3 + e /\ e \in 0 .. m - 1 /\ q3 \in Int
    BY <1>1, <2>2
  <2> HIDE DEF e, q3
  <2>4. r1 = e
    BY <1>1, <2>3, OneQuotient
  <2> QED BY <2>4, <1>3, <1>1 DEF r1, r2, e
<1> QED BY <1>1, <1>2, <1>3

(* Of a caption that is ahead by less than FarAhead, Gap is how far ahead it   *)
(* is, wherever the two time stamps run over (am_cc_render).                   *)
LEMMA GapIsAhead ==
    ASSUME ClosedCaptionAssumption, NEW v \in Nat, NEW c \in Nat, c > v, c - v < FarAhead
    PROVE  Gap(c, v) = c - v
<1> DEFINE m == PtsModulus
           d == c - v
           half == PtsModulus \div 2
           r == v % PtsModulus
<1>1. m \in Nat /\ m > 0 /\ half \in Nat /\ half <= m /\ FarAhead \in 1 .. half
  BY DEF ClosedCaptionAssumption
<1>2. d \in 1 .. half - 1 /\ d \in 0 .. m - 1 /\ c = v + d
  BY <1>1
<1>3. r \in 0 .. m - 1
  BY <1>1, Division
<1>4. c % m = IF r + d < m THEN r + d ELSE r + d - m
  <2> HIDE DEF d
  <2>1. (v + d) % m = IF (v % m) + d < m THEN (v % m) + d ELSE (v % m) + d - m
    BY <1>1, <1>2, SumModulo
  <2> QED BY <1>2, <2>1
<1> DEFINE s == c % PtsModulus
           x == (s + m) - r
<1>5. s = (IF r + d < m THEN r + d ELSE r + d - m) /\ s \in Nat
  BY <1>1, <1>2, <1>3, <1>4
<1> HIDE DEF d, half, r, s
<1>6. x = m + d \/ x = d
  BY <1>1, <1>2, <1>3, <1>5
<1>7. x % m = d
  <2>1. (0 + d) % m = d /\ d % m = d
    BY <1>1, <1>2
  <2>2. (m + d) % m = d
    <3>1. (m % m) + d = d /\ m \in Nat
      BY <1>1, <1>2
    <3> QED BY <1>1, <1>2, <3>1, SumModulo
  <2> QED BY <1>6, <2>1, <2>2
<1>8. Gap(c, v) = IF x % m < half THEN x % m ELSE (x % m) - m
  BY DEF Gap, s, r, half
<1> DEFINE y == x % m
<1>9. y = d /\ Gap(c, v) = IF y < half THEN y ELSE y - m
  BY <1>7, <1>8
<1> HIDE DEF y
<1>10. Gap(c, v) = d
  BY <1>1, <1>2, <1>9
<1> QED BY <1>10 DEF d

\* The captions of the chain are in the order of their times
Ordered(c) ==
    /\ c \in Seq(Nat)
    /\ \A i, j \in DOMAIN c : i < j => c[i] <= c[j]

CaptionInv ==
    /\ Ordered(chain) /\ Ordered(rendered)
    /\ \A i \in DOMAIN chain : chain[i] <= decodedTo
    /\ decodedTo \in Nat /\ video \in Nat
    /\ owner = "new" => render = "none"
    /\ CaptionsOnTime

LEMMA OrderedEmpty == Ordered(<<>>) /\ DOMAIN <<>> = {}
BY DEF Ordered

LEMMA PartOfSeq ==
    ASSUME NEW c \in Seq(Nat), NEW k \in 1 .. Len(c) + 1, NEW n \in 0 .. Len(c)
    PROVE  /\ SubSeq(c, k, n) \in Seq(Nat)
           /\ Len(SubSeq(c, k, n)) = IF k <= n THEN n - k + 1 ELSE 0
           /\ \A i \in 1 .. n - k + 1 : SubSeq(c, k, n)[i] = c[k + i - 1]
OBVIOUS

(* A part of the chain is in order, too.                                       *)
LEMMA OrderedPart ==
    ASSUME NEW c, Ordered(c), NEW k \in 1 .. Len(c) + 1, NEW n \in 0 .. Len(c)
    PROVE  LET p == SubSeq(c, k, n)
           IN  /\ Ordered(p)
               /\ \A i \in DOMAIN p : \E j \in DOMAIN c : j >= k /\ j <= n /\ p[i] = c[j]
<1> DEFINE p == SubSeq(c, k, n)
<1>1. /\ c \in Seq(Nat) /\ Len(c) \in Nat /\ DOMAIN c = 1 .. Len(c)
      /\ k \in Int /\ n \in Int /\ k >= 1 /\ n <= Len(c)
  BY DEF Ordered
<1>3. /\ p \in Seq(Nat) /\ Len(p) = IF k <= n THEN n - k + 1 ELSE 0
      /\ \A i \in 1 .. n - k + 1 : p[i] = c[k + i - 1]
  BY <1>1, PartOfSeq, Zenon
<1> HIDE DEF p
<1>4. ASSUME NEW i \in DOMAIN p
      PROVE  p[i] = c[k + i - 1] /\ k + i - 1 \in DOMAIN c /\ k + i - 1 <= n /\ k + i - 1 >= k /\ i \in Nat
  <2>1. i \in 1 .. n - k + 1
    BY <1>1, <1>3
  <2>2. p[i] = c[k + i - 1]
    BY <1>3, <2>1, Zenon
  <2>3. k + i - 1 \in 1 .. Len(c) /\ k + i - 1 <= n /\ k + i - 1 >= k /\ i \in Nat
    BY <1>1, <2>1
  <2> QED BY <1>1, <2>2, <2>3
<1>5. ASSUME NEW i \in DOMAIN p, NEW j \in DOMAIN p, i < j PROVE p[i] <= p[j]
  <2>1. k + i - 1 \in DOMAIN c /\ k + j - 1 \in DOMAIN c /\ k + i - 1 < k + j - 1
    BY <1>1, <1>4, <1>5
  <2>2. c[k + i - 1] <= c[k + j - 1]
    BY <2>1 DEF Ordered
  <2> QED BY <1>4, <2>2, Zenon
<1>6. \A i \in DOMAIN p : \E j \in DOMAIN c : j >= k /\ j <= n /\ p[i] = c[j]
  BY <1>4
<1>7. Ordered(p)
  BY <1>3, <1>5, Zenon DEF Ordered
<1> QED BY <1>6, <1>7 DEF p
LEMMA AppendNodeInOrder ==
    ASSUME CaptionInv, AppendNode PROVE CaptionInv'
<1>1. /\ chain \in Seq(Nat) /\ Len(chain) \in Nat /\ DOMAIN chain = 1 .. Len(chain)
      /\ decodedTo \in Nat /\ decodedTo' = decodedTo
      /\ \A i \in DOMAIN chain : chain[i] <= decodedTo
  BY DEF CaptionInv, Ordered, AppendNode
<1>2. Ordered(chain') /\ \A i \in DOMAIN chain' : chain'[i] <= decodedTo
  <2>1. CASE chain' = chain
    BY <1>1, <2>1 DEF CaptionInv
  <2>2. CASE chain' = Append(chain, decodedTo)
    <3>1. /\ chain' \in Seq(Nat) /\ DOMAIN chain' = 1 .. Len(chain) + 1
          /\ chain'[Len(chain) + 1] = decodedTo
          /\ \A i \in 1 .. Len(chain) : chain'[i] = chain[i]
      BY <1>1, <2>2
    <3>2. ASSUME NEW i \in DOMAIN chain' PROVE chain'[i] <= decodedTo
      BY <1>1, <3>1
    <3>3. ASSUME NEW i \in DOMAIN chain', NEW j \in DOMAIN chain', i < j
          PROVE  chain'[i] <= chain'[j]
      <4>1. i \in 1 .. Len(chain)
        BY <1>1, <3>1, <3>3
      <4>2. CASE j \in 1 .. Len(chain)
        <5>1. chain[i] <= chain[j]
          BY <1>1, <3>3, <4>1, <4>2 DEF CaptionInv, Ordered
        <5> QED BY <3>1, <4>1, <4>2, <5>1
      <4>3. CASE j = Len(chain) + 1
        BY <3>1, <3>2, <4>3
      <4> QED BY <1>1, <3>1, <4>2, <4>3
    <3> QED BY <3>1, <3>2, <3>3 DEF Ordered
  <2> QED BY <2>1, <2>2 DEF AppendNode
<1>3. render' = (IF render = "wait" THEN "woken" ELSE render) /\ UNCHANGED <<owner, ccLock, video, rendered>>
  BY DEF AppendNode
<1> QED BY <1>1, <1>2, <1>3 DEF CaptionInv, CaptionsOnTime

\* How many captions am_cc_render takes: those before the first that is early
LEMMA TakenAreDue ==
    ASSUME Ordered(chain)
    PROVE  LET early == {i \in DOMAIN chain : Gap(chain[i], video) \in 1 .. FarAhead - 1}
               n == IF early = {} THEN Len(chain)
                    ELSE (CHOOSE i \in early : \A j \in early : i <= j) - 1
           IN  n \in 0 .. Len(chain) /\ \A i \in DOMAIN chain : i <= n => i \notin early
<1> DEFINE early == {i \in DOMAIN chain : Gap(chain[i], video) \in 1 .. FarAhead - 1}
           first == CHOOSE i \in early : \A j \in early : i <= j
<1>1. early \subseteq 1 .. Len(chain) /\ early \subseteq Nat /\ Len(chain) \in Nat
      /\ DOMAIN chain = 1 .. Len(chain)
  BY DEF Ordered
<1> HIDE DEF early
<1>2. CASE early = {}
  BY <1>1, <1>2 DEF early
<1>3. CASE early # {}
  <2>1. \E i \in early : \A j \in early : i <= j
    BY <1>1, <1>3, LeastOfNats
  <2>2. first \in early /\ \A j \in early : first <= j
    BY <2>1
  <2> HIDE DEF first
  <2>3. first - 1 \in 0 .. Len(chain) /\ \A i \in DOMAIN chain : i <= first - 1 => i \notin early
    BY <1>1, <2>2
  <2> QED BY <1>3, <2>3 DEF early, first
<1> QED BY <1>2, <1>3

(* What am_cc_render takes and what it leaves is in order, and nothing that is *)
(* early is taken.                                                             *)
LEMMA RenderTakes ==
    ASSUME CaptionInv, am_cc_render
    PROVE  /\ Ordered(rendered')
           /\ \A i \in DOMAIN rendered' : \E j \in DOMAIN chain :
                 rendered'[i] = chain[j] /\ Gap(chain[j], video) \notin 1 .. FarAhead - 1
           /\ Ordered(chain')
           /\ \A i \in DOMAIN chain' : \E j \in DOMAIN chain : chain'[i] = chain[j]
<1> DEFINE early == {i \in DOMAIN chain : Gap(chain[i], video) \in 1 .. FarAhead - 1}
<1>1. PICK n : /\ n \in 0 .. Len(chain) /\ \A i \in DOMAIN chain : i <= n => i \notin early
               /\ rendered' = SubSeq(chain, 1, n) \/ rendered' = <<>>
               /\ chain' = SubSeq(chain, n + 1, Len(chain)) \/ chain' = <<>>
  <2> DEFINE n == IF early = {} THEN Len(chain)
                  ELSE (CHOOSE i \in early : \A j \in early : i <= j) - 1
  <2>1. n \in 0 .. Len(chain) /\ \A i \in DOMAIN chain : i <= n => i \notin early
    BY TakenAreDue DEF CaptionInv
  <2>2. /\ rendered' = SubSeq(chain, 1, n) \/ rendered' = <<>>
        /\ chain' = SubSeq(chain, n + 1, Len(chain)) \/ chain' = <<>>
    BY DEF am_cc_render, CaptionInv
  <2> QED BY <2>1, <2>2
<1> HIDE DEF early
<1>2. /\ chain \in Seq(Nat) /\ Len(chain) \in Nat /\ DOMAIN chain = 1 .. Len(chain)
  BY DEF CaptionInv, Ordered
<1>3. Ordered(chain)
  BY DEF CaptionInv
<1>4. Ordered(rendered') /\ \A i \in DOMAIN rendered' :
         \E j \in DOMAIN chain : j <= n /\ rendered'[i] = chain[j]
  <2>1. CASE rendered' = <<>>
    BY <2>1, OrderedEmpty
  <2>2. CASE rendered' = SubSeq(chain, 1, n)
    <3>1. 1 \in 1 .. Len(chain) + 1 /\ n \in 0 .. Len(chain)
      BY <1>1, <1>2
    <3>2. LET q == SubSeq(chain, 1, n)
          IN  Ordered(q) /\ \A i \in DOMAIN q : \E j \in DOMAIN chain : j >= 1 /\ j <= n /\ q[i] = chain[j]
      BY <1>3, <3>1, OrderedPart
    <3> QED BY <2>2, <3>2, Zenon
  <2> QED BY <1>1, <2>1, <2>2
<1>5. Ordered(chain') /\ \A i \in DOMAIN chain' : \E j \in DOMAIN chain : chain'[i] = chain[j]
  <2>1. CASE chain' = <<>>
    BY <2>1, OrderedEmpty
  <2>2. CASE chain' = SubSeq(chain, n + 1, Len(chain))
    <3>1. n + 1 \in 1 .. Len(chain) + 1 /\ Len(chain) \in 0 .. Len(chain)
      BY <1>1, <1>2
    <3>2. LET q == SubSeq(chain, n + 1, Len(chain))
          IN  Ordered(q) /\ \A i \in DOMAIN q : \E j \in DOMAIN chain :
                                j >= n + 1 /\ j <= Len(chain) /\ q[i] = chain[j]
      BY <1>3, <3>1, OrderedPart
    <3> QED BY <2>2, <3>2, Zenon
  <2> QED BY <1>1, <2>1, <2>2
<1>6. \A i \in DOMAIN rendered' : \E j \in DOMAIN chain :
         rendered'[i] = chain[j] /\ Gap(chain[j], video) \notin 1 .. FarAhead - 1
  BY <1>1, <1>4 DEF early
<1> QED BY <1>4, <1>5, <1>6

LEMMA RenderOnTime ==
    ASSUME ClosedCaptionAssumption, CaptionInv, am_cc_render PROVE CaptionInv'
<1>2. /\ UNCHANGED <<owner, video, decodedTo>> /\ ccLock' = "render" /\ render' = "loop"
      /\ owner # "new"
  BY DEF am_cc_render, CaptionInv
<1>3. /\ chain \in Seq(Nat) /\ Len(chain) \in Nat /\ DOMAIN chain = 1 .. Len(chain) /\ Ordered(chain)
      /\ video \in Nat /\ decodedTo \in Nat
  BY DEF CaptionInv, Ordered
<1>4. Ordered(rendered')
  BY RenderTakes
<1>5. Ordered(chain') /\ \A i \in DOMAIN chain' : \E j \in DOMAIN chain : chain'[i] = chain[j]
  BY RenderTakes
<1>6. \A i \in DOMAIN chain' : chain'[i] <= decodedTo'
  BY <1>2, <1>5 DEF CaptionInv
<1>7. ASSUME NEW i \in DOMAIN rendered', rendered'[i] > video
      PROVE  rendered'[i] - video >= FarAhead
  <2>1. PICK j \in DOMAIN chain :
           rendered'[i] = chain[j] /\ Gap(chain[j], video) \notin 1 .. FarAhead - 1
    BY RenderTakes
  <2>2. chain[j] \in Nat /\ ~(Gap(chain[j], video) \in 1 .. FarAhead - 1)
    BY <1>3, <2>1
  <2>3. FarAhead \in Nat
    BY DEF ClosedCaptionAssumption
  <2>4. ~(chain[j] - video < FarAhead)
    <3> SUFFICES ASSUME chain[j] - video < FarAhead PROVE FALSE
      OBVIOUS
    <3>1. chain[j] > video
      BY <1>7, <2>1
    <3>2. Gap(chain[j], video) = chain[j] - video
      BY <1>3, <2>2, <3>1, GapIsAhead
    <3>3. chain[j] - video \in 1 .. FarAhead - 1
      BY <1>3, <2>2, <2>3, <3>1
    <3> QED BY <2>2, <3>2, <3>3
  <2> QED BY <1>3, <2>1, <2>2, <2>3, <2>4
<1>8. ASSUME NEW i \in DOMAIN rendered', i > 1 PROVE rendered'[i - 1] <= rendered'[i]
  <2>1. DOMAIN rendered' = 1 .. Len(rendered') /\ Len(rendered') \in Nat
    BY <1>4 DEF Ordered
  <2>2. i - 1 \in DOMAIN rendered' /\ i - 1 < i
    BY <1>8, <2>1
  <2> QED BY <1>4, <2>2 DEF Ordered
<1> QED BY <1>2, <1>3, <1>4, <1>5, <1>6, <1>7, <1>8 DEF CaptionInv, CaptionsOnTime

LEMMA CaptionInvInit ==
    ASSUME ClosedCaptionAssumption, ClosedCaptionInit PROVE CaptionInv
<1>1. Ordered(chain) /\ Ordered(rendered) /\ DOMAIN chain = {} /\ DOMAIN rendered = {}
  BY OrderedEmpty DEF ClosedCaptionInit
<1>2. decodedTo \in Nat /\ video \in Nat /\ render = "none" /\ ccLock = "free"
  BY DEF ClosedCaptionInit, ClosedCaptionAssumption
<1> QED BY <1>1, <1>2 DEF CaptionInv, CaptionsOnTime

LEMMA CaptionInvNext ==
    ASSUME ClosedCaptionAssumption, CaptionInv, [ClosedCaptionNext]_ccVars PROVE CaptionInv'
<1> USE DEF CaptionInv, CaptionsOnTime
<1>1. CASE startAmlCC
  BY <1>1 DEF startAmlCC
<1>2. CASE DestroyParser
  BY <1>2 DEF DestroyParser
<1>3. CASE ClosedCaptionStop
  BY <1>3 DEF ClosedCaptionStop
<1>4. CASE ClosedCaptionDestroy
  BY <1>4 DEF ClosedCaptionDestroy
<1>5. CASE ReadPackage
  <2>1. decodedTo' \in Nat /\ decodedTo' >= decodedTo
    BY <1>5 DEF ReadPackage, ClosedCaptionAssumption
  <2>2. UNCHANGED <<owner, ccLock, chain, render, video, rendered>>
    BY <1>5 DEF ReadPackage
  <2>3. \A i \in DOMAIN chain : chain[i] <= decodedTo'
    BY <2>1 DEF Ordered
  <2> QED BY <2>1, <2>2, <2>3
<1>6. CASE VbiEvent
  BY <1>6 DEF VbiEvent
<1>7. CASE AppendNode
  BY <1>7, AppendNodeInOrder
<1>8. CASE ReportData
  BY <1>8 DEF ReportData
<1>9. CASE StartRender
  BY <1>9 DEF StartRender
<1>10. CASE RenderWaits
  BY <1>10 DEF RenderWaits
<1>11. CASE WaitTimesOut
  BY <1>11 DEF WaitTimesOut
<1>12. CASE am_cc_render
  BY <1>12, RenderOnTime
<1>13. CASE RenderEnds
  <2>1. Ordered(chain') /\ DOMAIN chain' = {}
    BY <1>13, OrderedEmpty DEF RenderEnds
  <2> QED BY <1>13, <2>1 DEF RenderEnds
<1>14. CASE VideoTime
  <2>1. Ordered(rendered') /\ DOMAIN rendered' = {}
    BY <1>14, OrderedEmpty DEF VideoTime
  <2> QED BY <1>14, <2>1 DEF VideoTime
<1>15. CASE UNCHANGED ccVars
  BY <1>15 DEF ccVars
<1> QED BY <1>1, <1>2, <1>3, <1>4, <1>5, <1>6, <1>7, <1>8, <1>9, <1>10, <1>11, <1>12, <1>13,
           <1>14, <1>15 DEF ClosedCaptionNext

(* Captions are handed over in order and not before their time, or five        *)
(* seconds and more before it: whatever the packages, the wait of the render   *)
(* thread and the place where the time stamps run over.                        *)
THEOREM CaptionsComeOnTime == ClosedCaptionSpec => []CaptionsOnTime
<1>1. CaptionInv => CaptionsOnTime
  BY DEF CaptionInv
<1> QED BY ClosedCaptionAssumption, CaptionInvInit, CaptionInvNext, <1>1, PTL DEF ClosedCaptionSpec

-----------------------------------------------------------------------------
(* The demux                                                                   *)

Filter == [used : BOOLEAN, on : BOOLEAN, cb : BOOLEAN]
Device == [count : Nat, enable : BOOLEAN, filter : [FilterIds -> Filter]]
DriverOps == {"open", "alloc", "bufsize", "set", "callback", "start", "stop", "free",
              "nocallback", "close", "freed", "terminate"}
DriverCalls == [op : DriverOps, dev : DemuxIds]
Without == {"none", "inv", "freed"}

Clean(v) == \A f \in FilterIds : ~v.filter[f].used

DemuxTypes ==
    /\ dev \in [DemuxIds -> Device] /\ DOMAIN thread = DemuxIds
    /\ calls \in Seq(DriverCalls)
    /\ DOMAIN source = {"state", "id", "pid", "handle"} /\ source.id \in DemuxIds
    /\ moved \in BOOLEAN /\ demuxFault \in BOOLEAN

\* A thread runs only while its device is open; a device that is closed has no
\* filter in use, unless one could not be stopped
DevicesOpen ==
    /\ \A d \in DemuxIds : thread[d].at # "none" => dev[d].count > 0
    /\ ~demuxFault => \A d \in DemuxIds : dev[d].count = 0 => Clean(dev[d])

\* Where the device is closed: the next call, or it follows the closing
ClosedAt(k) ==
    \/ k = 1 /\ dev[source.id].count = 0
    \/ k > 1 /\ calls[k - 1].op = "close" /\ calls[k - 1].dev = source.id

\* A source opens its device once at a time, and closes it before it opens it
\* again and before it is gone
OneOpening ==
    /\ source.state \in Without => calls = <<>> /\ dev[source.id].count = 0
    /\ dev[source.id].count <= 1
    /\ \A d \in DemuxIds : d # source.id => dev[d].count = 0
    /\ \A k \in DOMAIN calls : calls[k].op = "open" => calls[k].dev = source.id
    /\ \A k \in DOMAIN calls : calls[k].op \in {"open", "freed"} => ClosedAt(k)

DemuxInv == DemuxTypes /\ DevicesOpen /\ (~moved => OneOpening)

LEMMA DemuxInvInit == ASSUME DemuxAssumption PROVE DemuxInit => DemuxInv
<1> SUFFICES ASSUME DemuxInit PROVE DemuxInv
  OBVIOUS
<1>1. DemuxTypes
  BY DEF DemuxInit, DemuxTypes, Device, Filter, DemuxAssumption
<1>2. DevicesOpen
  BY DEF DemuxInit, DevicesOpen, Clean, NoThread
<1>3. OneOpening
  BY DEF DemuxInit, OneOpening, DemuxAssumption, Without
<1> QED BY <1>1, <1>2, <1>3 DEF DemuxInv

(* What a call of the driver gives: a device again, which is open as often as  *)
(* before unless the call opens or closes it.                                  *)
Outcomes == [dev : Device, ok : BOOLEAN, fault : BOOLEAN]
Result(r, w) == r = Good(w) \/ r = Bad(w) \/ r = Refused(w)

LEMMA ResultOf ==
    ASSUME NEW w \in Device, NEW r, Result(r, w)
    PROVE  r \in Outcomes /\ r.dev = w
<1> HIDE DEF Device
<1>1. CASE r = Good(w)
  BY <1>1 DEF Good, Outcomes
<1>2. CASE r = Bad(w)
  BY <1>2 DEF Bad, Outcomes
<1>3. CASE r = Refused(w)
  BY <1>3 DEF Refused, Outcomes
<1> QED BY <1>1, <1>2, <1>3 DEF Result

LEMMA GoodOf == \A w : Result(Good(w), w) /\ Good(w).ok /\ ~Good(w).fault
BY DEF Result, Good

LEMMA BadOf == \A w : Result(Bad(w), w) /\ ~Bad(w).ok /\ Bad(w).fault
BY DEF Result, Bad

LEMMA RefusedOf == \A w : Result(Refused(w), w)
BY DEF Result

\* A filter of the device is switched
LEMMA SwitchedFilter ==
    ASSUME NEW v \in Device, NEW f, NEW b \in BOOLEAN
    PROVE  /\ [v EXCEPT !.filter[f].on = b] \in Device
           /\ [v EXCEPT !.filter[f].on = b].count = v.count
           /\ [v EXCEPT !.filter[f].used = b] \in Device
           /\ [v EXCEPT !.filter[f].used = b].count = v.count
           /\ [v EXCEPT !.filter[f].cb = b] \in Device
           /\ [v EXCEPT !.filter[f].cb = b].count = v.count
BY DEF Device, Filter

LEMMA StopOutcomes ==
    ASSUME NEW v \in Device, NEW f, NEW r \in DmxStopFilter(v, f)
    PROVE  r \in Outcomes /\ r.dev.count = v.count
<1> DEFINE w == [v EXCEPT !.filter[f].on = FALSE]
<1>1. w \in Device /\ w.count = v.count
  BY SwitchedFilter
<1>2. r = Good(v) \/ r = Good(w) \/ r = Bad(v)
  BY DEF DmxStopFilter
<1> HIDE DEF w
<1>3. Result(r, v) \/ Result(r, w)
  BY <1>2, GoodOf, BadOf, Zenon
<1> QED BY <1>1, <1>3, ResultOf, Zenon

LEMMA OpenOutcomes ==
    ASSUME NEW v \in Device, NEW r \in DemuxOpen(v)
    PROVE  /\ r \in Outcomes /\ r.dev.filter = v.filter
           /\ r.dev.count = IF r.ok THEN v.count + 1 ELSE v.count
<1> DEFINE w1 == [v EXCEPT !.count = @ + 1]
           w2 == [v EXCEPT !.count = 1, !.enable = TRUE]
           w3 == [v EXCEPT !.enable = TRUE]
<1>1. \/ r = Good(w1)
      \/ v.count = 0 /\ r = Good(w2)
      \/ r = Bad(w3)
  <2>1. CASE v.count > 0
    BY <2>1 DEF DemuxOpen
  <2>2. CASE ~(v.count > 0)
    <3>1. v.count = 0
      BY <2>2 DEF Device
    <3> QED BY <2>2, <3>1 DEF DemuxOpen
  <2> QED BY <2>1, <2>2
<1>2. w1 \in Device /\ w1.filter = v.filter /\ w1.count = v.count + 1
  BY DEF Device
<1>3. w2 \in Device /\ w2.filter = v.filter /\ w2.count = 1
  BY DEF Device
<1>4. w3 \in Device /\ w3.filter = v.filter /\ w3.count = v.count
  BY DEF Device
<1> HIDE DEF w1, w2, w3, Device
<1>5. \/ Result(r, w1) /\ r.ok
      \/ v.count = 0 /\ Result(r, w2) /\ r.ok
      \/ Result(r, w3) /\ ~r.ok
  BY <1>1, GoodOf, BadOf, Zenon
<1>6. /\ r \in Outcomes
      /\ \/ r.dev = w1 /\ r.ok
         \/ v.count = 0 /\ r.dev = w2 /\ r.ok
         \/ r.dev = w3 /\ ~r.ok
  BY <1>2, <1>3, <1>4, <1>5, ResultOf, Zenon
<1> QED BY <1>2, <1>3, <1>4, <1>6

LEMMA CloseOutcomes ==
    ASSUME NEW v \in Device, v.count # 0, NEW r \in DemuxClose(v)
    PROVE  /\ r \in Outcomes /\ r.dev.count = v.count - 1
           /\ r.dev.count = 0 /\ ~r.fault => Clean(r.dev)
<1>1. CASE v.count = 1
  <2> DEFINE Kept(kept) == [v EXCEPT !.count = 0, !.filter = [f \in FilterIds |->
                               IF f \in kept THEN @[f] ELSE [@[f] EXCEPT !.used = FALSE, !.on = FALSE]]]
  <2>1. PICK kept : r = [dev |-> Kept(kept), ok |-> TRUE, fault |-> kept # {}]
    BY <1>1 DEF DemuxClose, FreeAll
  <2>2. Kept(kept) \in Device /\ Kept(kept).count = 0
    BY DEF Device, Filter
  <2>3. kept = {} => Clean(Kept(kept))
    BY DEF Device, Filter, Clean
  <2> HIDE DEF Device, Kept
  <2>4. r.dev = Kept(kept) /\ (~r.fault => kept = {})
    BY <2>1
  <2>5. r \in Outcomes
    BY <2>1, <2>2 DEF Outcomes
  <2> QED BY <1>1, <2>2, <2>3, <2>4, <2>5
<1>2. CASE v.count # 1
  <2> DEFINE w == [v EXCEPT !.count = @ - 1]
  <2>1. r = Good(w)
    BY <1>2 DEF DemuxClose
  <2>2. w \in Device /\ w.count = v.count - 1 /\ w.count # 0
    BY <1>2 DEF Device
  <2> HIDE DEF Device, w
  <2>3. r \in Outcomes /\ r.dev = w
    BY <2>1, <2>2, GoodOf, ResultOf, Zenon
  <2> QED BY <2>2, <2>3
<1> QED BY <1>1, <1>2

LEMMA OtherOutcomes ==
    ASSUME NEW v \in Device, v.count # 0, NEW f, NEW c \in DriverCalls,
           c.op \notin {"open", "close", "freed", "terminate"}, NEW r \in Call(c, v, f)
    PROVE  r \in Outcomes /\ r.dev.count = v.count
<1> HIDE DEF Device
<1>1. ASSUME NEW w \in Device, w.count = v.count, Result(r, w)
      PROVE  r \in Outcomes /\ r.dev.count = v.count
  BY <1>1, ResultOf, Zenon
<1>2. CASE Result(r, v)
  BY <1>1, <1>2
<1>3. CASE c.op = "alloc"
  <2> DEFINE w == [v EXCEPT !.filter[NextFilter(v)].used = TRUE]
  <2>1. r \in DemuxAllocateFilter(v)
    BY <1>3 DEF Call
  <2>2. w \in Device /\ w.count = v.count
    BY SwitchedFilter
  <2>3. r = Refused(v) \/ r = Good(w) \/ r = Bad(v)
    BY <2>1 DEF DemuxAllocateFilter
  <2> HIDE DEF w
  <2>4. Result(r, v) \/ Result(r, w)
    BY <2>3, GoodOf, BadOf, RefusedOf, Zenon
  <2> QED BY <1>1, <1>2, <2>2, <2>4
<1>4. CASE c.op = "bufsize"
  <2>1. r = Good(v) \/ r = Bad(v)
    BY <1>4 DEF Call, DemuxSetBufferSize
  <2> QED BY <1>2, <2>1, GoodOf, BadOf, Zenon
<1>5. CASE c.op \notin {"alloc", "bufsize"} /\ ~v.filter[f].used
  <2>1. r = Refused(v)
    BY <1>5 DEF Call
  <2> QED BY <1>2, <2>1, RefusedOf, Zenon
<1>6. CASE c.op \notin {"alloc", "bufsize"} /\ v.filter[f].used
  <2>1. c.op \in {"set", "callback", "start", "stop", "free", "nocallback"}
    BY <1>6 DEF DriverCalls, DriverOps
  <2>2. CASE c.op = "set"
    <3>1. r \in DemuxSetFilter(v, f)
      BY <1>6, <2>2 DEF Call
    <3>2. CASE r \in DmxStopFilter(v, f)
      BY <3>2, StopOutcomes
    <3>3. CASE r \notin DmxStopFilter(v, f)
      <4>1. PICK q \in DmxStopFilter(v, f) : r = Bad(q.dev)
        BY <3>1, <3>3 DEF DemuxSetFilter
      <4>2. q \in Outcomes /\ q.dev.count = v.count
        BY StopOutcomes
      <4>3. q.dev \in Device
        BY <4>2 DEF Outcomes
      <4> QED BY <1>1, <4>1, <4>2, <4>3, BadOf, Zenon
    <3> QED BY <3>2, <3>3
  <2>3. CASE c.op \in {"callback", "nocallback"}
    <3>1. r \in DemuxSetCallback(v, f, TRUE) \/ r \in DemuxSetCallback(v, f, FALSE)
      BY <1>6, <2>3 DEF Call
    <3>2. ASSUME NEW cb \in BOOLEAN, r \in DemuxSetCallback(v, f, cb)
          PROVE  r \in Outcomes /\ r.dev.count = v.count
      <4> DEFINE w == [v EXCEPT !.filter[f].cb = cb]
      <4>1. r = Good(w)
        BY <1>6, <3>2 DEF DemuxSetCallback
      <4>2. w \in Device /\ w.count = v.count
        BY SwitchedFilter
      <4> HIDE DEF w
      <4> QED BY <1>1, <4>1, <4>2, GoodOf, Zenon
    <3> QED BY <3>1, <3>2
  <2>4. CASE c.op = "start"
    <3> DEFINE w == [v EXCEPT !.filter[f].on = TRUE]
    <3>1. r = Good(v) \/ r = Good(w) \/ r = Bad(v)
      BY <1>6, <2>4 DEF Call, DemuxStartFilter
    <3>2. w \in Device /\ w.count = v.count
      BY SwitchedFilter
    <3> HIDE DEF w
    <3>3. Result(r, v) \/ Result(r, w)
      BY <3>1, GoodOf, BadOf, Zenon
    <3> QED BY <1>1, <1>2, <3>2, <3>3
  <2>5. CASE c.op = "stop"
    <3>1. r \in DmxStopFilter(v, f)
      BY <1>6, <2>5 DEF Call
    <3> QED BY <3>1, StopOutcomes
  <2>6. CASE c.op = "free"
    <3>1. r \in DmxFreeFilter(v, f)
      BY <1>6, <2>6 DEF Call
    <3>2. PICK q \in DmxStopFilter(v, f) :
              r = IF q.ok THEN Good([q.dev EXCEPT !.filter[f].used = FALSE]) ELSE q
      BY <1>6, <3>1 DEF DmxFreeFilter
    <3>3. q \in Outcomes /\ q.dev.count = v.count
      BY StopOutcomes
    <3>4. q.dev \in Device
      BY <3>3 DEF Outcomes
    <3> DEFINE w == [q.dev EXCEPT !.filter[f].used = FALSE]
    <3>5. w \in Device /\ w.count = v.count
      BY <3>3, <3>4, SwitchedFilter
    <3>6. r = Good(w) \/ r = q
      BY <3>2
    <3> HIDE DEF w
    <3> QED BY <1>1, <3>3, <3>5, <3>6, GoodOf, Zenon
  <2> QED BY <2>1, <2>2, <2>3, <2>4, <2>5, <2>6
<1> QED BY <1>2, <1>3, <1>4, <1>5, <1>6

(* What a call of the driver can do to the device it names.                    *)
Effect(c, v, r) ==
    /\ r \in Outcomes
    /\ c.op = "open" => r.dev.filter = v.filter /\ r.dev.count = IF r.ok THEN v.count + 1 ELSE v.count
    /\ c.op # "open" /\ v.count = 0 => r.dev = v
    /\ c.op = "close" /\ v.count # 0 =>
          r.dev.count = v.count - 1 /\ (r.dev.count = 0 /\ ~r.fault => Clean(r.dev))
    /\ c.op \notin {"open", "close"} => r.dev.count = v.count

LEMMA CallHasEffect ==
    ASSUME NEW v \in Device, NEW f, NEW c \in DriverCalls, c.op \notin {"freed", "terminate"},
           NEW r \in Call(c, v, f)
    PROVE  Effect(c, v, r)
<1> HIDE DEF Device, Outcomes, DriverCalls
<1>1. CASE c.op = "open"
  <2>1. r \in DemuxOpen(v)
    BY <1>1 DEF Call
  <2> QED BY <1>1, <2>1, OpenOutcomes DEF Effect
<1>2. CASE c.op # "open" /\ v.count = 0
  <2>1. r = Refused(v)
    BY <1>2 DEF Call
  <2>2. r \in Outcomes /\ r.dev = v
    BY <2>1, RefusedOf, ResultOf, Zenon
  <2> QED BY <1>2, <2>2 DEF Effect
<1>3. CASE c.op = "close" /\ v.count # 0
  <2>1. r \in DemuxClose(v)
    BY <1>3 DEF Call
  <2> QED BY <1>3, <2>1, CloseOutcomes DEF Effect
<1>4. CASE c.op \notin {"open", "close"} /\ v.count # 0
  <2>1. r \in Outcomes /\ r.dev.count = v.count
    BY <1>4, OtherOutcomes
  <2> QED BY <1>4, <2>1 DEF Effect
<1> QED BY <1>1, <1>2, <1>3, <1>4

(* The calls that a step of the service makes.                                 *)
LEMMA OnDevice ==
    ASSUME NEW d \in DemuxIds, NEW ops \in Seq(DriverOps)
    PROVE  /\ On(d, ops) \in Seq(DriverCalls)
           /\ Len(On(d, ops)) = Len(ops) /\ DOMAIN On(d, ops) = 1 .. Len(ops)
           /\ \A i \in 1 .. Len(ops) : On(d, ops)[i].op = ops[i] /\ On(d, ops)[i].dev = d
BY DEF On, DriverCalls

LEMMA ErrorCalls ==
    ASSUME NEW d \in DemuxIds, NEW h
    PROVE  /\ Error(d, h) \in Seq(DriverCalls)
           /\ \A k \in DOMAIN Error(d, h) : Error(d, h)[k].op \notin {"open", "freed"}
<1>1. CASE h = -1
  <2> DEFINE ops == <<"close">>
  <2>1. ops \in Seq(DriverOps) /\ \A i \in 1 .. Len(ops) : ops[i] \notin {"open", "freed"}
    BY DEF DriverOps
  <2>2. Error(d, h) = On(d, ops)
    BY <1>1 DEF Error
  <2> HIDE DEF ops
  <2> QED BY <2>1, <2>2, OnDevice
<1>2. CASE h # -1
  <2> DEFINE ops == <<"free", "close">>
  <2>1. ops \in Seq(DriverOps) /\ \A i \in 1 .. Len(ops) : ops[i] \notin {"open", "freed"}
    BY DEF DriverOps
  <2>2. Error(d, h) = On(d, ops)
    BY <1>2 DEF Error
  <2> HIDE DEF ops
  <2> QED BY <2>1, <2>2, OnDevice
<1> QED BY <1>1, <1>2

LEMMA OpenCalls ==
    ASSUME NEW d \in DemuxIds
    PROVE  LET q == OpenDvbDmx(d)
           IN  /\ q \in Seq(DriverCalls) /\ Len(q) = 6 /\ DOMAIN q = 1 .. 6
               /\ \A k \in 1 .. 6 : q[k].op # "freed" /\ (q[k].op = "open" => k = 1) /\ q[k].dev = d
<1> DEFINE ops == <<"open", "alloc", "bufsize", "set", "callback", "start">>
<1>1. /\ ops \in Seq(DriverOps) /\ Len(ops) = 6
      /\ \A i \in 1 .. 6 : ops[i] # "freed" /\ (ops[i] = "open" => i = 1)
  BY DEF DriverOps
<1>2. OpenDvbDmx(d) = On(d, ops)
  BY DEF OpenDvbDmx
<1> HIDE DEF ops
<1> QED BY <1>1, <1>2, OnDevice

LEMMA CloseCalls ==
    ASSUME NEW d \in DemuxIds, NEW h
    PROVE  LET q == CloseDvbDmx(d, h)
           IN  /\ q \in Seq(DriverCalls) /\ Len(q) \in {1, 4} /\ DOMAIN q = 1 .. Len(q)
               /\ \A k \in 1 .. Len(q) : q[k].op \notin {"open", "freed"} /\ q[k].dev = d
               /\ q[Len(q)].op = "close"
<1>1. CASE h = -1
  <2> DEFINE ops == <<"close">>
  <2>1. /\ ops \in Seq(DriverOps) /\ Len(ops) = 1 /\ ops[1] = "close"
        /\ \A i \in 1 .. 1 : ops[i] \notin {"open", "freed"}
    BY DEF DriverOps
  <2>2. CloseDvbDmx(d, h) = On(d, ops)
    BY <1>1 DEF CloseDvbDmx
  <2> HIDE DEF ops
  <2>3. /\ On(d, ops) \in Seq(DriverCalls) /\ Len(On(d, ops)) = 1 /\ DOMAIN On(d, ops) = 1 .. 1
        /\ \A i \in 1 .. 1 : On(d, ops)[i].op = ops[i] /\ On(d, ops)[i].dev = d
    BY <2>1, OnDevice
  <2> QED BY <2>1, <2>2, <2>3
<1>2. CASE h # -1
  <2> DEFINE ops == <<"stop", "free", "nocallback", "close">>
  <2>1. /\ ops \in Seq(DriverOps) /\ Len(ops) = 4 /\ ops[4] = "close"
        /\ \A i \in 1 .. 4 : ops[i] \notin {"open", "freed"}
    BY DEF DriverOps
  <2>2. CloseDvbDmx(d, h) = On(d, ops)
    BY <1>2 DEF CloseDvbDmx
  <2> HIDE DEF ops
  <2>3. /\ On(d, ops) \in Seq(DriverCalls) /\ Len(On(d, ops)) = 4 /\ DOMAIN On(d, ops) = 1 .. 4
        /\ \A i \in 1 .. 4 : On(d, ops)[i].op = ops[i] /\ On(d, ops)[i].dev = d
    BY <2>1, OnDevice
  <2> QED BY <2>1, <2>2, <2>3
<1> QED BY <1>1, <1>2

\* Two sequences of calls one after the other
LEMMA CallsThen ==
    ASSUME NEW p \in Seq(DriverCalls), NEW q \in Seq(DriverCalls)
    PROVE  /\ p \o q \in Seq(DriverCalls) /\ Len(p \o q) = Len(p) + Len(q)
           /\ DOMAIN (p \o q) = 1 .. Len(p) + Len(q) /\ Len(p) \in Nat /\ Len(q) \in Nat
           /\ \A k \in 1 .. Len(p) + Len(q) :
                 /\ k <= Len(p) => k \in 1 .. Len(p) /\ (p \o q)[k] = p[k]
                 /\ k > Len(p) => k - Len(p) \in 1 .. Len(q) /\ (p \o q)[k] = q[k - Len(p)]
OBVIOUS

LEMMA ThenCalls ==
    ASSUME DemuxAssumption, NEW op \in DriverOps
    PROVE  /\ Then(op) \in Seq(DriverCalls) /\ Len(Then(op)) = 1 /\ DOMAIN Then(op) = 1 .. 1
           /\ Then(op)[1].op = op
BY DEF Then, DriverCalls, DemuxAssumption

LEMMA DestroyCalls ==
    ASSUME DemuxAssumption, NEW d \in DemuxIds, NEW h
    PROVE  LET q == CloseDvbDmx(d, h) \o Then("freed")
           IN  /\ q \in Seq(DriverCalls)
               /\ \A k \in DOMAIN q : /\ q[k].op # "open"
                                      /\ q[k].op = "freed" =>
                                            k > 1 /\ q[k - 1].op = "close" /\ q[k - 1].dev = d
<1> DEFINE p == CloseDvbDmx(d, h)
           r == Then("freed")
<1>1. /\ p \in Seq(DriverCalls) /\ Len(p) \in {1, 4}
      /\ \A k \in 1 .. Len(p) : p[k].op \notin {"open", "freed"} /\ p[k].dev = d
      /\ p[Len(p)].op = "close"
  BY CloseCalls
<1>2. r \in Seq(DriverCalls) /\ Len(r) = 1 /\ r[1].op = "freed"
  BY ThenCalls DEF DriverOps
<1> HIDE DEF p, r
<1> DEFINE q == p \o r
<1>3. /\ q \in Seq(DriverCalls) /\ DOMAIN q = 1 .. Len(p) + 1
      /\ \A k \in 1 .. Len(p) + 1 : /\ k <= Len(p) => k \in 1 .. Len(p) /\ q[k] = p[k]
                                    /\ k > Len(p) => q[k] = r[1]
  <2>1. /\ p \o r \in Seq(DriverCalls) /\ DOMAIN (p \o r) = 1 .. Len(p) + Len(r)
        /\ \A k \in 1 .. Len(p) + Len(r) :
              /\ k <= Len(p) => k \in 1 .. Len(p) /\ (p \o r)[k] = p[k]
              /\ k > Len(p) => k - Len(p) \in 1 .. Len(r) /\ (p \o r)[k] = r[k - Len(p)]
    BY <1>1, <1>2, CallsThen
  <2> HIDE DEF q
  <2>2. q = p \o r
    BY DEF q
  <2> QED BY <1>1, <1>2, <2>1, <2>2
<1> HIDE DEF q
<1>4. q \in Seq(DriverCalls) /\ \A k \in DOMAIN q :
         q[k].op # "open" /\ (q[k].op = "freed" => k > 1 /\ q[k - 1].op = "close" /\ q[k - 1].dev = d)
  BY <1>1, <1>2, <1>3
<1> QED BY <1>4 DEF p, q, r

\* Calls that open a device only after they have closed it
Reopens(q, d) ==
    /\ q \in Seq(DriverCalls)
    /\ \A k \in DOMAIN q :
          /\ q[k].op # "freed"
          /\ q[k].op = "open" => q[k].dev = d /\ k > 1 /\ q[k - 1].op = "close" /\ q[k - 1].dev = d

LEMMA RestartCalls ==
    ASSUME DemuxAssumption, NEW d \in DemuxIds, NEW h
    PROVE  Reopens(CloseDvbDmx(d, h) \o OpenDvbDmx(d) \o Then("terminate"), d)
<1> DEFINE p == CloseDvbDmx(d, h)
           o == OpenDvbDmx(d)
           r == Then("terminate")
<1>1. /\ p \in Seq(DriverCalls) /\ Len(p) \in {1, 4}
      /\ \A k \in 1 .. Len(p) : p[k].op \notin {"open", "freed"} /\ p[k].dev = d
      /\ p[Len(p)].op = "close"
  BY CloseCalls
<1>2. /\ o \in Seq(DriverCalls) /\ Len(o) = 6
      /\ \A k \in 1 .. 6 : o[k].op # "freed" /\ (o[k].op = "open" => k = 1) /\ o[k].dev = d
  BY OpenCalls
<1>3. r \in Seq(DriverCalls) /\ Len(r) = 1 /\ r[1].op = "terminate"
  BY ThenCalls DEF DriverOps
<1> HIDE DEF p, o, r
<1>4. /\ p \o o \in Seq(DriverCalls) /\ Len(p \o o) = Len(p) + Len(o)
      /\ \A k \in 1 .. Len(p) + Len(o) :
            /\ k <= Len(p) => k \in 1 .. Len(p) /\ (p \o o)[k] = p[k]
            /\ k > Len(p) => k - Len(p) \in 1 .. Len(o) /\ (p \o o)[k] = o[k - Len(p)]
  BY <1>1, <1>2, CallsThen
<1> DEFINE m == p \o o
<1>5. /\ m \in Seq(DriverCalls) /\ Len(m) = Len(p) + 6
      /\ \A k \in 1 .. Len(p) + 6 :
            /\ m[k].op # "freed"
            /\ m[k].op = "open" => k > 1 /\ m[k - 1].op = "close" /\ m[k - 1].dev = d /\ m[k].dev = d
  <2> HIDE DEF m
  <2>1. /\ m \in Seq(DriverCalls) /\ Len(m) = Len(p) + 6
        /\ \A k \in 1 .. Len(p) + 6 : /\ k <= Len(p) => k \in 1 .. Len(p) /\ m[k] = p[k]
                                      /\ k > Len(p) => /\ k - Len(p) \in 1 .. 6
                                                       /\ m[k] = o[k - Len(p)]
    <3>1. m = p \o o
      BY DEF m
    <3> QED BY <1>2, <1>4, <3>1
  <2>2. ASSUME NEW k \in 1 .. Len(p) + 6
        PROVE  /\ m[k].op # "freed"
               /\ m[k].op = "open" => k > 1 /\ m[k - 1].op = "close" /\ m[k - 1].dev = d /\ m[k].dev = d
    <3>1. CASE k <= Len(p)
      BY <1>1, <2>1, <3>1
    <3>2. CASE k > Len(p)
      <4>1. k - Len(p) \in 1 .. 6 /\ m[k] = o[k - Len(p)] /\ k > 1
        BY <1>1, <2>1, <3>2
      <4>2. m[k].op # "freed" /\ m[k].dev = d /\ (m[k].op = "open" => k - Len(p) = 1)
        BY <1>2, <4>1
      <4>3. Len(p) \in 1 .. Len(p) + 6 /\ Len(p) \in 1 .. Len(p) /\ Len(p) <= Len(p)
        <5>1. Len(p) \in {1, 4}
          BY <1>1
        <5>2. CASE Len(p) = 1
          BY <5>2
        <5>3. CASE Len(p) = 4
          BY <5>3
        <5> QED BY <5>1, <5>2, <5>3
      <4>4. m[Len(p)] = p[Len(p)] /\ p[Len(p)].dev = d
        BY <1>1, <2>1, <4>3
      <4>5. k - Len(p) = 1 => k - 1 = Len(p)
        BY <1>1
      <4> QED BY <1>1, <4>1, <4>2, <4>4, <4>5
    <3> QED BY <1>1, <3>1, <3>2
  <2> QED BY <2>1, <2>2
<1> HIDE DEF m
<1>6. /\ m \o r \in Seq(DriverCalls) /\ DOMAIN (m \o r) = 1 .. Len(m) + Len(r)
      /\ \A k \in 1 .. Len(m) + Len(r) :
            /\ k <= Len(m) => k \in 1 .. Len(m) /\ (m \o r)[k] = m[k]
            /\ k > Len(m) => k - Len(m) \in 1 .. Len(r) /\ (m \o r)[k] = r[k - Len(m)]
  BY <1>3, <1>5, CallsThen
<1> DEFINE q == m \o r
<1>7. Reopens(q, d)
  <2> HIDE DEF q
  <2>1. /\ q \in Seq(DriverCalls) /\ DOMAIN q = 1 .. Len(m) + 1
        /\ \A k \in 1 .. Len(m) + 1 : /\ k <= Len(m) => k \in 1 .. Len(m) /\ q[k] = m[k]
                                      /\ k > Len(m) => q[k] = r[1]
    <3>1. q = m \o r
      BY DEF q
    <3> QED BY <1>6, <3>1, <1>3
  <2>2. ASSUME NEW k \in 1 .. Len(m) + 1
        PROVE  /\ q[k].op # "freed"
               /\ q[k].op = "open" => q[k].dev = d /\ k > 1 /\ q[k - 1].op = "close" /\ q[k - 1].dev = d
    <3>1. CASE k <= Len(m)
      <4>1. k \in 1 .. Len(p) + 6 /\ q[k] = m[k] /\ (k > 1 => q[k - 1] = m[k - 1])
        BY <1>1, <1>5, <2>1, <3>1
      <4> QED BY <1>5, <4>1
    <3>2. CASE k > Len(m)
      BY <1>3, <2>1, <3>2
    <3> QED BY <1>1, <1>5, <3>1, <3>2
  <2> QED BY <2>1, <2>2 DEF Reopens
<1> QED BY <1>7 DEF p, o, r, m, q

(* The steps of the source: before it is started and after it is gone nothing  *)
(* is open; starting opens, a restart closes first, and what destroys it       *)
(* closes its device before it is gone.                                        *)
LEMMA NewSourceDemux ==
    ASSUME DemuxAssumption, DemuxInv, NEW d \in DemuxIds, NEW p, NewSource(d, p) PROVE DemuxInv'
<1>1. /\ source' = [state |-> "inv", id |-> d, pid |-> p, handle |-> -1] /\ calls = <<>>
      /\ UNCHANGED <<dev, thread, calls, demuxFault, moved>> /\ source.state \in Without
  BY DEF NewSource, Idle, Without
<1>2. DemuxTypes'
  BY <1>1 DEF DemuxInv, DemuxTypes
<1>3. DevicesOpen'
  BY <1>1 DEF DemuxInv, DevicesOpen, Clean
<1>4. ASSUME ~moved' PROVE OneOpening'
  <2>1. OneOpening /\ source.id \in DemuxIds
    BY <1>1, <1>4 DEF DemuxInv, DemuxTypes
  <2>2. \A e \in DemuxIds : dev'[e].count = 0
    BY <1>1, <2>1 DEF OneOpening
  <2>3. calls' = <<>> /\ source'.id \in DemuxIds
    BY <1>1
  <2> QED BY <2>2, <2>3 DEF OneOpening
<1> QED BY <1>2, <1>3, <1>4 DEF DemuxInv

LEMMA UpdateSourceDemux ==
    ASSUME DemuxAssumption, DemuxInv, NEW d \in DemuxIds, NEW p, UpdateSource(d, p) PROVE DemuxInv'
<1>1. /\ source' = [source EXCEPT !.id = d, !.pid = p] /\ calls = <<>>
      /\ UNCHANGED <<dev, thread, demuxFault>> /\ source.state \in {"inv", "started"}
      /\ moved' = (moved \/ (source.state = "started" /\ d # source.id))
      /\ calls' = IF source.state = "started" /\ p # source.pid
                  THEN CloseDvbDmx(d, source.handle) \o OpenDvbDmx(d) \o Then("terminate")
                  ELSE <<>>
  BY DEF UpdateSource, Idle
<1>2. source'.id = d /\ source'.state = source.state /\ DOMAIN source' = DOMAIN source
  BY <1>1 DEF DemuxInv, DemuxTypes
<1>3. Reopens(calls', d)
  <2>1. CASE source.state = "started" /\ p # source.pid
    <3>1. calls' = CloseDvbDmx(d, source.handle) \o OpenDvbDmx(d) \o Then("terminate")
      BY <1>1, <2>1
    <3> QED BY <3>1, RestartCalls
  <2>2. CASE ~(source.state = "started" /\ p # source.pid)
    BY <1>1, <2>2 DEF Reopens
  <2> QED BY <2>1, <2>2
<1>4. DemuxTypes'
  BY <1>1, <1>2, <1>3 DEF DemuxInv, DemuxTypes, Reopens
<1>5. DevicesOpen'
  BY <1>1 DEF DemuxInv, DevicesOpen, Clean
<1>6. ASSUME ~moved' PROVE OneOpening'
  <2>1. OneOpening /\ (source.state = "started" => d = source.id)
    BY <1>1, <1>6 DEF DemuxInv
  <2>2. source.state = "inv" => calls' = <<>> /\ \A e \in DemuxIds : dev'[e].count = 0
    BY <1>1, <2>1 DEF OneOpening, Without
  <2>3. source'.state \in Without => source.state = "inv"
    BY <1>1, <1>2 DEF Without
  <2>4. dev'[source'.id].count <= 1
    BY <1>1, <1>2, <2>1, <2>2 DEF OneOpening
  <2>5. \A e \in DemuxIds : e # source'.id => dev'[e].count = 0
    BY <1>1, <1>2, <2>1, <2>2 DEF OneOpening
  <2>6. \A k \in DOMAIN calls' : calls'[k].op \in {"open", "freed"} =>
           calls'[k].dev = source'.id /\ ClosedAt(k)'
    BY <1>2, <1>3 DEF ClosedAt, Reopens
  <2>7. source'.state \in Without => calls' = <<>> /\ dev'[source'.id].count = 0
    BY <1>2, <2>2, <2>3
  <2>8. \A k \in DOMAIN calls' : calls'[k].op = "open" => calls'[k].dev = source'.id
    BY <2>6
  <2> QED BY <2>4, <2>5, <2>6, <2>7, <2>8 DEF OneOpening
<1> QED BY <1>4, <1>5, <1>6 DEF DemuxInv

LEMMA StartSourceDemux == ASSUME DemuxAssumption, DemuxInv, StartSource PROVE DemuxInv'
<1>1. /\ source' = [source EXCEPT !.state = "started"] /\ source.state = "inv"
      /\ calls' = OpenDvbDmx(source.id) /\ UNCHANGED <<dev, thread, demuxFault, moved>>
      /\ source.id \in DemuxIds
  BY DEF StartSource, DemuxInv, DemuxTypes
<1>2. source'.id = source.id /\ source'.state = "started" /\ DOMAIN source' = DOMAIN source
  BY <1>1 DEF DemuxInv, DemuxTypes
<1>3. /\ calls' \in Seq(DriverCalls) /\ DOMAIN calls' = 1 .. 6
      /\ \A k \in 1 .. 6 : calls'[k].op # "freed" /\ (calls'[k].op = "open" => k = 1)
                           /\ calls'[k].dev = source.id
  <2> DEFINE q == OpenDvbDmx(source.id)
  <2>1. /\ q \in Seq(DriverCalls) /\ DOMAIN q = 1 .. 6
        /\ \A k \in 1 .. 6 : q[k].op # "freed" /\ (q[k].op = "open" => k = 1) /\ q[k].dev = source.id
    BY <1>1, OpenCalls
  <2>2. calls' = q
    BY <1>1
  <2> HIDE DEF q
  <2> QED BY <2>1, <2>2
<1>4. DemuxTypes'
  BY <1>1, <1>2, <1>3 DEF DemuxInv, DemuxTypes
<1>5. DevicesOpen'
  BY <1>1 DEF DemuxInv, DevicesOpen, Clean
<1>6. ASSUME ~moved' PROVE OneOpening'
  <2>1. OneOpening /\ dev'[source'.id].count = 0
    BY <1>1, <1>2, <1>6 DEF DemuxInv, OneOpening, Without
  <2>2. /\ source'.state \notin Without
        /\ \A k \in DOMAIN calls' : calls'[k].op = "open" => calls'[k].dev = source'.id
    BY <1>2, <1>3 DEF Without
  <2>3. \A k \in DOMAIN calls' : calls'[k].op \in {"open", "freed"} => ClosedAt(k)'
    BY <1>3, <2>1 DEF ClosedAt
  <2>4. \A e \in DemuxIds : e # source'.id => dev'[e].count = 0
    BY <1>1, <1>2, <2>1 DEF OneOpening
  <2> QED BY <2>1, <2>2, <2>3, <2>4 DEF OneOpening
<1> QED BY <1>4, <1>5, <1>6 DEF DemuxInv

\* What stop and the destructor have in common: they leave the device closed
\* before "freed"
LEMMA ClosingDemux ==
    ASSUME DemuxInv, calls' \in Seq(DriverCalls),
           source'.id = source.id, source'.state \notin Without, DOMAIN source' = DOMAIN source,
           UNCHANGED <<dev, thread, demuxFault, moved>>,
           \A k \in DOMAIN calls' : /\ calls'[k].op # "open"
                                    /\ calls'[k].op = "freed" =>
                                          /\ k > 1 /\ calls'[k - 1].op = "close"
                                          /\ calls'[k - 1].dev = source.id
    PROVE  DemuxInv'
<1>1. DemuxTypes'
  BY DEF DemuxInv, DemuxTypes
<1>2. DevicesOpen'
  BY DEF DemuxInv, DevicesOpen, Clean
<1>3. ASSUME ~moved' PROVE OneOpening'
  <2>1. OneOpening
    BY <1>3 DEF DemuxInv
  <2>2. \A k \in DOMAIN calls' : calls'[k].op \in {"open", "freed"} => ClosedAt(k)'
    BY DEF ClosedAt
  <2>3. /\ dev'[source'.id].count <= 1
        /\ \A e \in DemuxIds : e # source'.id => dev'[e].count = 0
    BY <2>1 DEF OneOpening
  <2> QED BY <2>2, <2>3 DEF OneOpening
<1> QED BY <1>1, <1>2, <1>3 DEF DemuxInv

LEMMA StopSourceDemux == ASSUME DemuxAssumption, DemuxInv, StopSource PROVE DemuxInv'
<1>1. /\ source' = [source EXCEPT !.state = "stopped"]
      /\ calls' = CloseDvbDmx(0, source.handle) /\ UNCHANGED <<dev, thread, demuxFault, moved>>
  BY DEF StopSource
<1>2. source'.id = source.id /\ source'.state \notin Without /\ DOMAIN source' = DOMAIN source
  BY <1>1 DEF DemuxInv, DemuxTypes, Without
<1>3. 0 \in DemuxIds
  BY DEF DemuxAssumption
<1> DEFINE q == CloseDvbDmx(0, source.handle)
<1>4. /\ q \in Seq(DriverCalls) /\ DOMAIN q = 1 .. Len(q)
      /\ \A k \in 1 .. Len(q) : q[k].op \notin {"open", "freed"} /\ q[k].dev = 0
  BY <1>3, CloseCalls
<1>5. calls' = q
  BY <1>1
<1> HIDE DEF q
<1>6. calls' \in Seq(DriverCalls) /\ \A k \in DOMAIN calls' : calls'[k].op \notin {"open", "freed"}
  BY <1>4, <1>5
<1> QED BY <1>1, <1>2, <1>6, ClosingDemux

LEMMA DestroySourceDemux == ASSUME DemuxAssumption, DemuxInv, DestroySource PROVE DemuxInv'
<1>1. /\ source' = [source EXCEPT !.state = "destroying"] /\ source.id \in DemuxIds
      /\ calls' = CloseDvbDmx(source.id, source.handle) \o Then("freed")
      /\ UNCHANGED <<dev, thread, demuxFault, moved>>
  BY DEF DestroySource, DemuxInv, DemuxTypes
<1>2. source'.id = source.id /\ source'.state \notin Without /\ DOMAIN source' = DOMAIN source
  BY <1>1 DEF DemuxInv, DemuxTypes, Without
<1> DEFINE q == CloseDvbDmx(source.id, source.handle) \o Then("freed")
<1>3. /\ q \in Seq(DriverCalls)
      /\ \A k \in DOMAIN q : /\ q[k].op # "open"
                             /\ q[k].op = "freed" =>
                                   k > 1 /\ q[k - 1].op = "close" /\ q[k - 1].dev = source.id
  BY <1>1, DestroyCalls
<1>4. calls' = q
  BY <1>1
<1> HIDE DEF q
<1>5. /\ calls' \in Seq(DriverCalls)
      /\ \A k \in DOMAIN calls' : /\ calls'[k].op # "open"
                                  /\ calls'[k].op = "freed" =>
                                        /\ k > 1 /\ calls'[k - 1].op = "close"
                                        /\ calls'[k - 1].dev = source.id
  BY <1>3, <1>4
<1> QED BY <1>1, <1>2, <1>5, ClosingDemux

(* A call of the driver: it concerns one device, and unless an opening fails   *)
(* the next call follows.                                                      *)
Performed(c, r) ==
    /\ c = calls[1] /\ c \in DriverCalls /\ c.op \notin {"freed", "terminate"}
    /\ Effect(c, dev[c.dev], r) /\ dev' = [dev EXCEPT ![c.dev] = r.dev]
    /\ source'.id = source.id /\ source'.state = source.state
    /\ demuxFault' = (demuxFault \/ r.fault) /\ UNCHANGED moved
    /\ thread' = IF c.op = "open" /\ r.ok /\ dev[c.dev].count = 0
                 THEN [thread EXCEPT ![c.dev] = Polling] ELSE thread
    /\ Joined(c) /\ calls # <<>>
    /\ calls' = Tail(calls) \/ \E h : calls' = Error(c.dev, h)

LEMMA CallIsPerformed ==
    ASSUME DemuxInv, CallDriver
    PROVE  /\ \E c, r : Performed(c, r)
           /\ DOMAIN source' = DOMAIN source
<1> DEFINE c == calls[1]
<1>1. calls \in Seq(DriverCalls) /\ calls # <<>> /\ dev \in [DemuxIds -> Device]
      /\ DOMAIN source = {"state", "id", "pid", "handle"}
  BY DEF DemuxInv, DemuxTypes, CallDriver
<1>2. c \in DriverCalls
  BY <1>1
<1>3. c.dev \in DemuxIds /\ dev[c.dev] \in Device
  BY <1>1, <1>2 DEF DriverCalls
<1>4. c.op \notin {"freed", "terminate"} /\ Joined(c)
  BY DEF CallDriver
<1>5. PICK r \in Call(c, dev[c.dev], source.handle) :
         /\ dev' = [dev EXCEPT ![c.dev] = r.dev]
         /\ \E h : /\ source' = [source EXCEPT !.handle = h]
                   /\ calls' = IF Opening /\ ~r.ok THEN Error(c.dev, h) ELSE Tail(calls)
         /\ thread' = IF c.op = "open" /\ r.ok /\ dev[c.dev].count = 0
                      THEN [thread EXCEPT ![c.dev] = Polling] ELSE thread
         /\ demuxFault' = (demuxFault \/ r.fault) /\ UNCHANGED moved
  BY Zenon DEF CallDriver
<1>6. Effect(c, dev[c.dev], r)
  <2> HIDE DEF c
  <2> QED BY <1>2, <1>3, <1>4, <1>5, CallHasEffect
<1>7. /\ source'.id = source.id /\ source'.state = source.state /\ DOMAIN source' = DOMAIN source
      /\ calls' = Tail(calls) \/ \E h : calls' = Error(c.dev, h)
  <2>1. PICK h : /\ source' = [source EXCEPT !.handle = h]
                 /\ calls' = IF Opening /\ ~r.ok THEN Error(c.dev, h) ELSE Tail(calls)
    BY <1>5
  <2>2. source'.id = source.id /\ source'.state = source.state /\ DOMAIN source' = DOMAIN source
    BY <1>1, <2>1
  <2>3. calls' = Tail(calls) \/ calls' = Error(c.dev, h)
    BY <2>1
  <2> QED BY <2>2, <2>3
<1>8. Performed(c, r)
  BY <1>1, <1>2, <1>4, <1>5, <1>6, <1>7, Zenon DEF Performed
<1> QED BY <1>7, <1>8

LEMMA CallDriverTypes ==
    ASSUME DemuxInv, DOMAIN source' = DOMAIN source, NEW c, NEW r, Performed(c, r)
    PROVE  DemuxTypes'
<1> USE DEF Performed
<1>1. /\ dev \in [DemuxIds -> Device] /\ DOMAIN thread = DemuxIds /\ calls \in Seq(DriverCalls)
      /\ DOMAIN source = {"state", "id", "pid", "handle"} /\ source.id \in DemuxIds
      /\ moved \in BOOLEAN /\ demuxFault \in BOOLEAN
  BY DEF DemuxInv, DemuxTypes
<1>2. r.dev \in Device /\ r.fault \in BOOLEAN
  BY DEF Effect, Outcomes
<1>3. dev' \in [DemuxIds -> Device]
  <2> HIDE DEF Device, Effect, Outcomes
  <2> QED BY <1>1, <1>2
<1>4. DOMAIN thread' = DemuxIds
  BY <1>1
<1>5. calls' \in Seq(DriverCalls)
  <2>1. c.dev \in DemuxIds
    BY DEF DriverCalls
  <2>2. \A h : Error(c.dev, h) \in Seq(DriverCalls)
    BY <2>1, ErrorCalls
  <2>3. Tail(calls) \in Seq(DriverCalls)
    BY <1>1, TailOfSeq
  <2> QED BY <2>2, <2>3
<1>6. moved' \in BOOLEAN /\ demuxFault' \in BOOLEAN
  BY <1>1, <1>2
<1> QED BY <1>1, <1>3, <1>4, <1>5, <1>6 DEF DemuxTypes

LEMMA CallDriverDevices ==
    ASSUME DemuxInv, NEW c, NEW r, Performed(c, r)
    PROVE  DevicesOpen'
<1> USE DEF Performed
<1>1. /\ dev \in [DemuxIds -> Device] /\ DOMAIN thread = DemuxIds /\ DevicesOpen
  BY DEF DemuxInv, DemuxTypes
<1>2. c.dev \in DemuxIds /\ dev[c.dev] \in Device /\ dev[c.dev].count \in Nat
  BY <1>1 DEF DriverCalls, Device
<1>3. r.dev \in Device /\ r.dev.count \in Nat
  BY DEF Effect, Outcomes, Device
<1>4. dev'[c.dev] = r.dev /\ \A e \in DemuxIds : e # c.dev => dev'[e] = dev[e]
  BY <1>1, <1>2
<1>5. \A e \in DemuxIds : e # c.dev => thread'[e] = thread[e]
  BY <1>1
<1>6. \A e \in DemuxIds : thread'[e].at # "none" => dev'[e].count > 0
  <2>1. ASSUME NEW e \in DemuxIds, e # c.dev, thread'[e].at # "none" PROVE dev'[e].count > 0
    BY <1>1, <1>4, <1>5, <2>1 DEF DevicesOpen
  <2>2. ASSUME thread'[c.dev].at # "none" PROVE r.dev.count > 0
    <3>1. CASE c.op = "open" /\ r.ok
      BY <1>2, <3>1 DEF Effect
    <3>2. CASE ~(c.op = "open" /\ r.ok)
      <4>1. dev[c.dev].count > 0 /\ thread[c.dev].at # "none"
        BY <1>1, <1>2, <2>2, <3>2 DEF DevicesOpen
      <4>2. CASE c.op = "close"
        <5>1. dev[c.dev].count # 1
          BY <4>1, <4>2 DEF Joined
        <5> QED BY <1>2, <4>1, <4>2, <5>1 DEF Effect
      <4>3. CASE c.op # "close"
        BY <1>2, <3>2, <4>1, <4>3 DEF Effect
      <4> QED BY <4>2, <4>3
    <3> QED BY <3>1, <3>2
  <2> QED BY <1>4, <2>1, <2>2
<1>7. ASSUME ~demuxFault', NEW e \in DemuxIds, dev'[e].count = 0 PROVE Clean(dev'[e])
  <2>1. ~demuxFault /\ ~r.fault
    BY <1>7
  <2>2. CASE e # c.dev
    BY <1>1, <1>4, <1>7, <2>1, <2>2 DEF DevicesOpen
  <2>3. CASE e = c.dev
    <3>1. r.dev.count = 0 /\ (dev[c.dev].count = 0 => Clean(dev[c.dev]))
      BY <1>1, <1>2, <1>4, <1>7, <2>1, <2>3 DEF DevicesOpen
    <3>2. CASE c.op = "open"
      <4>1. r.dev.filter = dev[c.dev].filter /\ dev[c.dev].count = 0
        BY <1>2, <3>1, <3>2 DEF Effect
      <4> QED BY <1>4, <2>3, <3>1, <4>1 DEF Clean
    <3>3. CASE c.op # "open" /\ dev[c.dev].count = 0
      BY <1>4, <2>3, <3>1, <3>3 DEF Effect
    <3>4. CASE c.op # "open" /\ dev[c.dev].count # 0
      BY <1>4, <2>1, <2>3, <3>1, <3>4 DEF Effect
    <3> QED BY <3>2, <3>3, <3>4
  <2> QED BY <2>2, <2>3
<1>8. ~demuxFault' => \A e \in DemuxIds : dev'[e].count = 0 => Clean(dev'[e])
  BY <1>7
<1> QED BY <1>6, <1>8 DEF DevicesOpen, Clean

LEMMA CallDriverOpening ==
    ASSUME DemuxInv, OneOpening, NEW c, NEW r, Performed(c, r)
    PROVE  OneOpening'
<1> USE DEF Performed
<1>1. /\ dev \in [DemuxIds -> Device] /\ calls \in Seq(DriverCalls) /\ source.id \in DemuxIds
      /\ calls # <<>>
  BY DEF DemuxInv, DemuxTypes
<1>2. c.dev \in DemuxIds /\ dev[c.dev].count \in Nat /\ 1 \in DOMAIN calls
  BY <1>1 DEF DriverCalls, Device
<1>3. dev'[c.dev] = r.dev /\ \A e \in DemuxIds : e # c.dev => dev'[e] = dev[e]
  BY <1>1, <1>2
<1>4. c.op = "open" => c.dev = source.id /\ dev[source.id].count = 0
  BY <1>2 DEF OneOpening, ClosedAt
<1>5. \A e \in DemuxIds : e # source.id => dev'[e].count = 0
  <2>1. ASSUME NEW e \in DemuxIds, e # source.id, e = c.dev PROVE dev'[e].count = 0
    <3>1. dev[e].count = 0 /\ c.op # "open"
      BY <1>4, <2>1 DEF OneOpening
    <3> QED BY <1>3, <2>1, <3>1 DEF Effect
  <2>2. ASSUME NEW e \in DemuxIds, e # source.id, e # c.dev PROVE dev'[e].count = 0
    BY <1>3, <2>2 DEF OneOpening
  <2> QED BY <2>1, <2>2
<1>6. dev'[source.id].count <= 1 /\ (c.op = "close" /\ c.dev = source.id => dev'[source.id].count = 0)
  <2>1. CASE c.dev # source.id
    BY <1>1, <1>3, <2>1 DEF OneOpening
  <2>2. CASE c.dev = source.id
    <3>1. dev[c.dev].count <= 1
      BY <2>2 DEF OneOpening
    <3> QED BY <1>2, <1>3, <1>4, <2>2, <3>1 DEF Effect
  <2> QED BY <2>1, <2>2
<1>7. source'.state \notin Without
  BY <1>1 DEF OneOpening
<1>8. CASE calls' = Tail(calls)
  <2>1. /\ DOMAIN calls' = 1 .. Len(calls) - 1 /\ Len(calls) - 1 \in Nat
        /\ DOMAIN calls = 1 .. Len(calls)
        /\ \A i \in 1 .. Len(calls) - 1 : calls'[i] = calls[i + 1]
    BY <1>1, <1>8, TailOfSeq
  <2>2. \A k \in DOMAIN calls' : calls'[k].op = "open" => calls'[k].dev = source.id
    <3>1. \A k \in DOMAIN calls' : k + 1 \in DOMAIN calls /\ calls'[k] = calls[k + 1]
      BY <2>1
    <3> QED BY <3>1 DEF OneOpening
  <2>3. ASSUME NEW k \in DOMAIN calls', calls'[k].op \in {"open", "freed"} PROVE ClosedAt(k)'
    <3>1. /\ k \in Nat /\ k >= 1 /\ k \in DOMAIN calls /\ k + 1 \in DOMAIN calls
          /\ calls'[k] = calls[k + 1] /\ (k > 1 => calls'[k - 1] = calls[k])
      BY <2>1
    <3>2. ClosedAt(k + 1)
      BY <2>3, <3>1 DEF OneOpening
    <3>3. calls[k].op = "close" /\ calls[k].dev = source.id
      <4>1. k + 1 # 1 /\ (k + 1) - 1 = k
        BY <3>1
      <4> QED BY <3>2, <4>1 DEF ClosedAt
    <3>4. CASE k = 1
      BY <1>6, <3>3, <3>4 DEF ClosedAt
    <3>5. CASE k # 1
      BY <3>1, <3>3, <3>5 DEF ClosedAt
    <3> QED BY <3>4, <3>5
  <2> QED BY <1>5, <1>6, <1>7, <2>2, <2>3 DEF OneOpening
<1>9. CASE calls' # Tail(calls)
  <2>1. \A k \in DOMAIN calls' : calls'[k].op \notin {"open", "freed"}
    BY <1>2, <1>9, ErrorCalls
  <2> QED BY <1>5, <1>6, <1>7, <2>1 DEF OneOpening
<1> QED BY <1>8, <1>9

LEMMA CallDriverDemux == ASSUME DemuxInv, CallDriver PROVE DemuxInv'
<1>1. DOMAIN source' = DOMAIN source
  BY CallIsPerformed
<1>2. PICK c, r : Performed(c, r)
  BY CallIsPerformed
<1>3. DemuxTypes' /\ DevicesOpen'
  BY <1>1, <1>2, CallDriverTypes, CallDriverDevices
<1>4. ~moved' => OneOpening'
  <2>1. UNCHANGED moved
    BY <1>2 DEF Performed
  <2> QED BY <1>2, <2>1, CallDriverOpening DEF DemuxInv
<1> QED BY <1>3, <1>4 DEF DemuxInv

LEMMA TellThreadDemux == ASSUME DemuxInv, TellThread PROVE DemuxInv'
<1>1. PICK d : /\ dev[d].count = 1 /\ dev' = [dev EXCEPT ![d].enable = FALSE] /\ d = calls[1].dev
               /\ UNCHANGED <<source, thread, calls, demuxFault, moved>> /\ calls # <<>>
  BY DEF TellThread
<1>2. dev \in [DemuxIds -> Device] /\ d \in DemuxIds
  <2>1. dev \in [DemuxIds -> Device] /\ calls[1] \in DriverCalls
    BY <1>1 DEF DemuxInv, DemuxTypes
  <2> QED BY <1>1, <2>1 DEF DriverCalls
<1>3. /\ dev' \in [DemuxIds -> Device]
      /\ \A e \in DemuxIds : dev'[e].count = dev[e].count /\ dev'[e].filter = dev[e].filter
  BY <1>1, <1>2 DEF Device
<1>4. DemuxTypes'
  BY <1>1, <1>3 DEF DemuxInv, DemuxTypes
<1>5. DevicesOpen'
  BY <1>1, <1>3 DEF DemuxInv, DevicesOpen, Clean
<1>6. ASSUME ~moved' PROVE OneOpening'
  <2>1. OneOpening /\ source.id \in DemuxIds
    BY <1>1, <1>6 DEF DemuxInv, DemuxTypes
  <2> QED BY <1>1, <1>3, <2>1 DEF OneOpening, ClosedAt
<1> QED BY <1>4, <1>5, <1>6 DEF DemuxInv

LEMMA FinishDemux == ASSUME DemuxInv, Finish PROVE DemuxInv'
<1>1. /\ calls # <<>> /\ calls[1].op \in {"freed", "terminate"} /\ calls' = <<>>
      /\ source' = [source EXCEPT !.state = IF calls[1].op = "freed" THEN "freed" ELSE "terminated"]
      /\ UNCHANGED <<dev, thread, demuxFault, moved>>
  BY DEF Finish
<1>2. calls \in Seq(DriverCalls) /\ source.id \in DemuxIds
  BY DEF DemuxInv, DemuxTypes
<1>3. /\ source'.id = source.id /\ DOMAIN source' = DOMAIN source
      /\ source'.state = IF calls[1].op = "freed" THEN "freed" ELSE "terminated"
  BY <1>1 DEF DemuxInv, DemuxTypes
<1>4. DemuxTypes'
  BY <1>1, <1>3 DEF DemuxInv, DemuxTypes
<1>5. DevicesOpen'
  BY <1>1 DEF DemuxInv, DevicesOpen, Clean
<1>6. ASSUME ~moved' PROVE OneOpening'
  <2>1. OneOpening
    BY <1>1, <1>6 DEF DemuxInv
  <2>2. calls[1].op = "freed" => dev[source.id].count = 0
    <3>1. 1 \in DOMAIN calls
      BY <1>1, <1>2
    <3> QED BY <2>1, <3>1 DEF OneOpening, ClosedAt
  <2>3. source'.state \in Without => dev'[source'.id].count = 0
    BY <1>1, <1>3, <2>2 DEF Without
  <2> QED BY <1>1, <1>3, <2>1, <2>3 DEF OneOpening
<1> QED BY <1>4, <1>5, <1>6 DEF DemuxInv

(* The thread of a device goes on only while it is there.                      *)
LEMMA ThreadDemux ==
    ASSUME DemuxInv, NEW d \in DemuxIds,
           PollReturns(d) \/ ServeFilter(d) \/ PesDataCb(d) \/ NextRound(d) \/ ThreadEnds(d)
    PROVE  DemuxInv'
<1>1. DOMAIN thread = DemuxIds /\ DevicesOpen
  BY DEF DemuxInv, DemuxTypes
<1>2. /\ UNCHANGED <<source, dev, calls, demuxFault, moved>> /\ thread[d].at # "none"
      /\ \E t : thread' = [thread EXCEPT ![d] = t]
  <2>1. UNCHANGED <<source, dev, calls, demuxFault, moved>> /\ thread[d].at # "none"
    BY DEF PollReturns, ServeFilter, PesDataCb, NextRound, ThreadEnds
  <2>2. CASE PollReturns(d)
    BY <2>2 DEF PollReturns
  <2>3. CASE ServeFilter(d)
    BY <2>3, Zenon DEF ServeFilter
  <2>4. CASE PesDataCb(d)
    BY <2>4, Zenon DEF PesDataCb
  <2>5. CASE NextRound(d) \/ ThreadEnds(d)
    BY <2>5 DEF NextRound, ThreadEnds
  <2> QED BY <2>1, <2>2, <2>3, <2>4, <2>5
<1>3. dev[d].count > 0
  BY <1>1, <1>2 DEF DevicesOpen
<1>4. DOMAIN thread' = DemuxIds /\ \A e \in DemuxIds : e # d => thread'[e] = thread[e]
  BY <1>1, <1>2
<1>5. DemuxTypes'
  BY <1>2, <1>4 DEF DemuxInv, DemuxTypes
<1>6. DevicesOpen'
  BY <1>1, <1>2, <1>3, <1>4 DEF DevicesOpen, Clean
<1>7. ~moved' => OneOpening'
  BY <1>2 DEF DemuxInv, OneOpening, ClosedAt
<1> QED BY <1>5, <1>6, <1>7 DEF DemuxInv

LEMMA DemuxInvNext == ASSUME DemuxAssumption, DemuxInv, [DemuxNext]_demuxVars PROVE DemuxInv'
<1>1. CASE UNCHANGED demuxVars
  BY <1>1 DEF demuxVars, DemuxInv, DemuxTypes, DevicesOpen, OneOpening, ClosedAt, Clean
<1>2. ASSUME NEW d \in DemuxIds, NEW p \in Pids, NewSource(d, p) \/ UpdateSource(d, p) PROVE DemuxInv'
  BY <1>2, NewSourceDemux, UpdateSourceDemux
<1>3. CASE StartSource \/ StopSource \/ DestroySource
  BY <1>3, StartSourceDemux, StopSourceDemux, DestroySourceDemux
<1>4. CASE CallDriver \/ TellThread \/ Finish
  BY <1>4, CallDriverDemux, TellThreadDemux, FinishDemux
<1>5. ASSUME NEW d \in DemuxIds,
             PollReturns(d) \/ ServeFilter(d) \/ PesDataCb(d) \/ NextRound(d) \/ ThreadEnds(d)
      PROVE  DemuxInv'
  BY <1>5, ThreadDemux
<1> QED BY <1>1, <1>2, <1>3, <1>4, <1>5 DEF DemuxNext

LEMMA DemuxInvReleased == DemuxInv => DemuxReleased
<1> SUFFICES ASSUME DemuxInv, ~moved
             PROVE  /\ \A d \in DemuxIds : thread[d].at = "cb" =>
                          source.state \notin {"none", "inv", "freed"}
                    /\ source.state = "freed" /\ ~demuxFault =>
                          \A d \in DemuxIds :
                              /\ dev[d].count = 0 /\ thread[d].at = "none"
                              /\ \A f \in FilterIds : ~dev[d].filter[f].used
  BY DEF DemuxReleased
<1>1. DevicesOpen /\ OneOpening
  BY DEF DemuxInv
<1>2. source.state \in Without => \A d \in DemuxIds : dev[d].count = 0
  BY <1>1 DEF OneOpening
<1>3. source.state \in Without => \A d \in DemuxIds : thread[d].at = "none"
  BY <1>1, <1>2 DEF DevicesOpen
<1>4. source.state \in Without /\ ~demuxFault => \A d \in DemuxIds : Clean(dev[d])
  BY <1>1, <1>2 DEF DevicesOpen
<1> QED BY <1>2, <1>3, <1>4 DEF Without, Clean

(* As long as the number of the device is left alone, the callback of the      *)
(* demux runs only for a source that has been started and is not gone, and a   *)
(* source that is gone has left nothing open and nothing allocated unless a    *)
(* system call failed - for any number of devices and filters and any order of *)
(* starts, restarts and stops with the data threads (DemuxSource.cpp:97,       *)
(* 220-237, 475-483; DemuxDriver.c:208-216, 343-367).                          *)
THEOREM DemuxIsReleased == DemuxSpec => []DemuxReleased
<1>1. DemuxInit => DemuxInv
  BY DemuxAssumption, DemuxInvInit
<1>2. DemuxInv /\ [DemuxNext]_demuxVars => DemuxInv'
  BY DemuxAssumption, DemuxInvNext
<1>3. DemuxInv => DemuxReleased
  BY DemuxInvReleased
<1> QED BY <1>1, <1>2, <1>3, PTL DEF DemuxSpec

-----------------------------------------------------------------------------
(* The behaviours that the runs check: of each, one part moves, and it moves   *)
(* as its own specification allows.                                            *)
LEMMA PartsInit ==
    MCInit => /\ FramingInit /\ SegmentInit /\ DemuxInit /\ DriverSourceInit
              /\ ClosedCaptionInit /\ TimeoutInit
BY Zenon DEF MCInit

LEMMA PartsNext ==
    ASSUME [MCNext]_MCVars
    PROVE  /\ [FramingNext]_vars /\ [SegmentNext]_segVars /\ [DemuxNext]_demuxVars
           /\ [DriverSourceNext]_drvVars /\ [ClosedCaptionNext]_ccVars /\ [TimeoutNext]_timeoutVars
<1>1. CASE UNCHANGED MCVars
  BY <1>1 DEF MCVars
<1>2. CASE InRing(RingNext)
  BY <1>2 DEF InRing
<1>3. CASE InFraming(FramingNext)
  BY <1>3 DEF InFraming
<1>4. CASE InSegment(SegmentNext)
  BY <1>4 DEF InSegment
<1>5. CASE InDemux(DemuxNext)
  BY <1>5 DEF InDemux
<1>6. CASE InDriver(DriverSourceNext)
  BY <1>6 DEF InDriver
<1>7. CASE InCaption(ClosedCaptionNext)
  BY <1>7 DEF InCaption
<1>8. CASE InTimeout(TimeoutNext)
  BY <1>8 DEF InTimeout
<1> QED BY <1>1, <1>2, <1>3, <1>4, <1>5, <1>6, <1>7, <1>8 DEF MCNext

LEMMA PartsSpec ==
    MCSpec => /\ FramingSpec /\ SegmentSpec /\ DemuxSpec /\ DriverSourceSpec
              /\ ClosedCaptionSpec /\ TimeoutSpec
BY PartsInit, PartsNext, PTL
   DEF MCSpec, FramingSpec, SegmentSpec, DemuxSpec, DriverSourceSpec, ClosedCaptionSpec, TimeoutSpec

(* What StreamOK says of the data socket's stream, for all sizes that fit and   *)
(* until the client begins a packet before the server is done with the last.   *)
THEOREM StreamIsOK == MCSpec => [](~ahead => StreamOK)
<1>1. PacketsFit
  BY DataPathAssumption
<1>2. FramingSpec => []FramingTypeOK
  BY FramingTypeCorrect
<1>3. FramingSpec => [](~ahead => NothingLeftBehind)
  BY <1>1, BufferIsClean
<1>4. FramingTypeOK /\ (~ahead => NothingLeftBehind) => (~ahead => StreamOK)
  BY DEF StreamOK
<1> QED BY <1>2, <1>3, <1>4, PartsSpec, PTL

(* The demux and the driver sources release what they took, and call nothing   *)
(* that is gone.                                                               *)
THEOREM SourcesAreSafe == MCSpec => []SourcesSafe
<1>1. DemuxReleased /\ DriverSourceSafe => SourcesSafe
  BY DEF SourcesSafe
<1> QED BY <1>1, DemuxIsReleased, DriverSourcesSafe, PartsSpec, PTL

(* Captions come when they are due, and silence is told of only after it.      *)
THEOREM AllOnTime == MCSpec => []OnTime
<1>1. PathsSignal
  BY DataPathAssumption
<1>2. TimeoutSpec => []SilenceMeansSilence
  BY <1>1, SilenceIsSilence
<1>3. CaptionsOnTime /\ SilenceMeansSilence => OnTime
  BY DEF OnTime
<1> QED BY <1>2, <1>3, CaptionsComeOnTime, PartsSpec, PTL
=============================================================================
