------------------------------ MODULE ByteFifo ------------------------------
(***************************************************************************)
(* What libsubtitle/utils/ringbuffer.c promises its callers: a first-in    *)
(* first-out queue of at most Capacity bytes.  A write keeps the longest   *)
(* prefix that fits and says how long it was, a read removes what a peek   *)
(* would have shown, and a reset forgets everything.                       *)
(***************************************************************************)
EXTENDS Naturals, Sequences

CONSTANTS Byte,      \* the values a byte can have
          Capacity,  \* the size the buffer was created with
          MaxCount   \* the longest request a caller makes

VARIABLES content,   \* the bytes written and not yet read, oldest first
          out        \* what the last call handed back

fifoVars == <<content, out>>

Least(a, b) == IF a < b THEN a ELSE b

\* The byte strings a caller may pass to a write.
Source == UNION {[1..n -> Byte] : n \in 0..MaxCount}

\* The answer of a call: the operation, its return value and the bytes copied out.
Reply(op, n, data) == [op |-> op, n |-> n, data |-> data]

FifoInit == /\ content = <<>>
            /\ out = Reply("create", 0, <<>>)

FifoWrite(src) ==
    LET n == Least(Len(src), Capacity - Len(content))
    IN  /\ content' = content \o SubSeq(src, 1, n)
        /\ out' = Reply("write", n, <<>>)

FifoRead(count) ==
    LET n == Least(count, Len(content))
    IN  /\ content' = SubSeq(content, n + 1, Len(content))
        /\ out' = Reply("read", n, SubSeq(content, 1, n))

FifoPeek(count) ==
    LET n == Least(count, Len(content))
    IN  /\ out' = Reply("peek", n, SubSeq(content, 1, n))
        /\ UNCHANGED content

FifoReset == /\ content' = <<>>
             /\ out' = Reply("reset", 0, <<>>)

FifoNext == \/ \E src \in Source : FifoWrite(src)
            \/ \E count \in 0..MaxCount : FifoRead(count)
            \/ \E count \in 0..MaxCount : FifoPeek(count)
            \/ FifoReset

FifoSpec == FifoInit /\ [][FifoNext]_fifoVars
=============================================================================
