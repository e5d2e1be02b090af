----------------------------- MODULE RingBuffer -----------------------------
(***************************************************************************)
(* The ring buffer of libsubtitle/utils/ringbuffer.c, which IpcBuffer      *)
(* wraps for every connection of SubSocketServer and which FmqReceiver     *)
(* uses between its recv() and its packet parser.                          *)
(*                                                                         *)
(* The two cursors may rest at buffer_size, one past the last cell: the    *)
(* code wraps a cursor only when a transfer runs OVER the end (over > 0),  *)
(* not when it ends exactly there.                                         *)
(***************************************************************************)
EXTENDS Integers, Sequences

CONSTANTS Byte,         \* the values a byte can have
          buffer_size,  \* the size given to ringbuffer_create
          MaxCount,     \* bound: the longest count a caller passes
          Junk          \* what malloc left in a cell nobody wrote

ASSUME RingBufferAssumption ==
    /\ buffer_size \in Nat \ {0}
    /\ MaxCount \in Nat
    /\ Junk \notin Byte

VARIABLES buffer, read_pos, write_pos, read_avail, write_avail,
          out           \* what the last call handed back

ringVars == <<buffer, read_pos, write_pos, read_avail, write_avail, out>>

Min2(a, b) == IF a < b THEN a ELSE b
Source == UNION {[1..n -> Byte] : n \in 0..MaxCount}
Reply(op, n, data) == [op |-> op, n |-> n, data |-> data]

RingInit ==
    /\ buffer = [c \in 0..(buffer_size - 1) |-> Junk]
    /\ read_pos = 0
    /\ write_pos = 0
    /\ read_avail = 0
    /\ write_avail = buffer_size
    /\ out = Reply("create", 0, <<>>)

\* The cursor after a transfer of n bytes that starts at pos.
Advanced(pos, n) ==
    IF pos + n - buffer_size > 0 THEN pos + n - buffer_size ELSE pos + n

\* The cells a transfer starting at pos touches: upwards from pos, then, rolled
\* back, from the beginning of the buffer.
Cell(pos, k) ==
    IF pos + k >= buffer_size THEN pos + k - buffer_size ELSE pos + k

\* The n bytes both ringbuffer_read and ringbuffer_peek copy out.
CopyOut(n) == [i \in 1..n |-> buffer[Cell(read_pos, i - 1)]]

\* The array after n bytes of src were copied in at write_pos.
CopyIn(src, n) ==
    [c \in 0..(buffer_size - 1) |->
        IF c >= write_pos /\ c < write_pos + n
        THEN src[c - write_pos + 1]
        ELSE IF c < write_pos + n - buffer_size
             THEN src[c + buffer_size - write_pos + 1]
             ELSE buffer[c]]

ringbuffer_write(src) ==
    LET n == Min2(Len(src), write_avail)
    IN  /\ buffer' = CopyIn(src, n)
        /\ write_pos' = Advanced(write_pos, n)
        /\ write_avail' = write_avail - n
        /\ read_avail' = read_avail + n
        /\ out' = Reply("write", n, <<>>)
        /\ UNCHANGED read_pos

\* assert(count < buffer_size) guards reads and peeks; a count <= 0 copies nothing.
ringbuffer_read(count) ==
    LET n == Min2(count, read_avail)
    IN  /\ count < buffer_size
        /\ out' = Reply("read", n, CopyOut(n))
        /\ read_pos' = Advanced(read_pos, n)
        /\ write_avail' = write_avail + n
        /\ read_avail' = read_avail - n
        /\ UNCHANGED <<buffer, write_pos>>

\* Mutant of ringbuffer_peek: the bytes are consumed, as by a read.
ringbuffer_peek_Consumes(count) ==
    LET n == Min2(count, read_avail)
    IN  /\ count < buffer_size
        /\ out' = Reply("peek", n, CopyOut(n))
        /\ read_pos' = Advanced(read_pos, n)
        /\ write_avail' = write_avail + n
        /\ read_avail' = read_avail - n
        /\ UNCHANGED <<buffer, write_pos>>

ringbuffer_peek(count) ==
    LET n == Min2(count, read_avail)
    IN  /\ count < buffer_size
        /\ out' = Reply("peek", n, CopyOut(n))
        /\ UNCHANGED <<buffer, read_pos, write_pos, read_avail, write_avail>>

\* Mutant of ringbuffer_cleanreset: the write cursor is not reset.
ringbuffer_cleanreset_KeepsWritePos ==
    /\ read_pos' = 0
    /\ read_avail' = 0
    /\ write_avail' = buffer_size
    /\ out' = Reply("reset", 0, <<>>)
    /\ UNCHANGED <<buffer, write_pos>>

ringbuffer_cleanreset ==
    /\ read_pos' = 0
    /\ write_pos' = 0
    /\ read_avail' = 0
    /\ write_avail' = buffer_size
    /\ out' = Reply("reset", 0, <<>>)
    /\ UNCHANGED buffer

RingNext == \/ \E src \in Source : ringbuffer_write(src)
            \/ \E count \in 0..MaxCount : ringbuffer_read(count)
            \/ \E count \in 0..MaxCount : ringbuffer_peek(count)
            \/ ringbuffer_cleanreset

RingSpec == RingInit /\ [][RingNext]_ringVars
-----------------------------------------------------------------------------
(* The variables range over what the C struct can hold. *)
RingTypeOK ==
    /\ buffer \in [0..(buffer_size - 1) -> Byte \cup {Junk}]
    /\ read_pos \in 0..buffer_size
    /\ write_pos \in 0..buffer_size
    /\ read_avail \in 0..buffer_size
    /\ write_avail \in 0..buffer_size

(* The two fill counters, which the four operations update separately, always
   add up to the size, and the cursors agree with them: the write cursor is
   read_avail cells after the read cursor, whichever of the two names (0 or
   buffer_size) the code happens to use for the end of the array. *)
CursorsAgree ==
    /\ read_avail + write_avail = buffer_size
    /\ \E lap \in {-1, 0, 1} :
          write_pos + lap * buffer_size = read_pos + read_avail

(* The bytes between the cursors are the ones writers put there: no reader is
   ever handed a cell that still holds what malloc left. *)
ContentWritten ==
    \A k \in 0..(buffer_size - 1) :
        k < read_avail => buffer[Cell(read_pos, k)] \in Byte

RingInv == RingTypeOK /\ CursorsAgree /\ ContentWritten

(* Refinement: under the mapping of the occupied cells to a sequence, the ring
   buffer is a bounded first-in first-out queue: every byte comes out once, in
   the order written, across the roll-over at the end of the array. *)
Fifo == INSTANCE ByteFifo WITH Capacity <- buffer_size,
                               content  <- CopyOut(read_avail)

ImplementsFifo == Fifo!FifoSpec
=============================================================================
