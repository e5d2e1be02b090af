---------------------------- MODULE SegmentRead -----------------------------
(***************************************************************************)
(* How a parser reads its source: BufferSegment (utils/Segment.h, .cpp),    *)
(* which the source's thread fills with buffers, and the read of a source,  *)
(* which hands the bytes of these buffers out in any portions that the      *)
(* parser asks for (SocketSource::read, DemuxSource::read).                 *)
(*                                                                         *)
(* A byte is its position in the stream.  A wait on the condition variable  *)
(* ends only with a notification.  mEnabled and the state of the source are *)
(* written without the lock.                                                *)
(***************************************************************************)
EXTENDS Integers, Sequences

CONSTANTS
    ReadKinds,      \* "sock": SocketSource, "demux": DemuxSource
    BufferSizes,    \* sizes of the buffers pushed
    ReadSizes,      \* sizes asked for
    Marks,          \* positions at which a PES packet begins (00 00 01 bd)
    MarkLength,     \* the length of that mark, 4
    MaxBytes        \* bound: bytes pushed

Whole == 0          \* the size 0xffff, which stands for the current buffer's

ASSUME SegmentAssumption ==
    /\ ReadKinds \subseteq {"sock", "demux"}
    /\ BufferSizes \subseteq Nat \ {0} /\ ReadSizes \subseteq Nat \ {0}
    /\ MarkLength \in Nat /\ MaxBytes \in Nat

VARIABLES
    kind,
    mSegments,            \* the buffers queued: [from, to], the byte after the last
    mAvailableDataSize, mEnabled,
    segLock,              \* mMutex: "free", "reader"
    pushed,               \* ghost: bytes pushed so far
    mState,               \* state of the source
    mCurrentItem,         \* [ptr, to, size]
    rd,                   \* the reader: what it does, what it wants and has
    handed,               \* ghost: bytes handed to the parser
    exitStep              \* notifyExit, in the thread that stops the source

queueVars == <<mSegments, mAvailableDataSize, pushed>>
readVars == <<mCurrentItem, rd, handed>>
segVars == <<kind, queueVars, readVars, mEnabled, segLock, mState, exitStep>>

SegmentInit ==
    /\ kind \in ReadKinds
    /\ mSegments = <<>> /\ mAvailableDataSize = 0 /\ pushed = 0
    /\ mEnabled = TRUE /\ segLock = "free" /\ mState = "started"
    /\ mCurrentItem = [ptr |-> 0, to |-> 0, size |-> 0]
    /\ rd = [at |-> "idle", size |-> 0, read |-> 0]
    /\ handed = 0 /\ exitStep = "none"

-----------------------------------------------------------------------------
(* The source's thread                                                         *)

push(n) ==
    /\ segLock = "free" /\ pushed + n <= MaxBytes
    /\ mSegments' = Append(mSegments, [from |-> pushed, to |-> pushed + n])
    /\ mAvailableDataSize' = mAvailableDataSize + n
    /\ pushed' = pushed + n
    /\ rd' = IF rd.at = "waiting" THEN [rd EXCEPT !.at = "woken"] ELSE rd
    /\ UNCHANGED <<kind, mEnabled, segLock, mState, mCurrentItem, handed, exitStep>>

(* The thread that stops the source: the state, the flag, and under the lock   *)
(* the notification                                                            *)
stop ==
    /\ mState = "started" /\ mState' = "stopped" /\ exitStep' = "disable"
    /\ UNCHANGED <<kind, queueVars, readVars, mEnabled, segLock>>

Disable ==
    /\ exitStep = "disable" /\ mEnabled' = FALSE /\ exitStep' = "notify"
    /\ UNCHANGED <<kind, queueVars, readVars, segLock, mState>>

NotifyExit ==
    /\ exitStep = "notify" /\ segLock = "free"
    /\ mAvailableDataSize' = 0 /\ exitStep' = "done"
    /\ rd' = IF rd.at = "waiting" THEN [rd EXCEPT !.at = "woken"] ELSE rd
    /\ UNCHANGED <<kind, mSegments, pushed, mEnabled, segLock, mState, mCurrentItem, handed>>

-----------------------------------------------------------------------------
(* The parser's thread in read                                                 *)

Ask(n) ==
    /\ rd.at = "idle" /\ mState = "started"
    /\ rd' = [at |-> "loop", size |-> n, read |-> 0]
    /\ UNCHANGED <<kind, queueVars, mEnabled, segLock, mState, mCurrentItem, handed, exitStep>>

Return ==
    /\ rd.at = "loop" /\ (mState # "started" \/ (rd.size # Whole /\ rd.read = rd.size))
    /\ rd' = [rd EXCEPT !.at = "idle"]
    /\ UNCHANGED <<kind, queueVars, mEnabled, segLock, mState, mCurrentItem, handed, exitStep>>

\* Mutant of NeedRead: not bounded by what is left of the buffer.
NeedRead_Unbounded(size) == [n |-> size, end |-> FALSE]

\* read_l, read_check: how many bytes of the current buffer are copied; a
\* mark inside them ends the copy before it
NeedRead(size) ==
    LET left == mCurrentItem.to - mCurrentItem.ptr
        n == IF size > left THEN left ELSE size
        marks == {i \in 0..(n - MarkLength - 1) : mCurrentItem.ptr + i \in Marks}
    IN IF kind = "demux" /\ n >= MarkLength /\ marks # {}
       THEN [n |-> CHOOSE i \in marks : \A j \in marks : i <= j, end |-> TRUE]
       ELSE [n |-> n, end |-> FALSE]

Copy ==
    /\ rd.at = "loop" /\ mState = "started" /\ mCurrentItem.ptr < mCurrentItem.to
    /\ LET size == IF rd.size = Whole THEN mCurrentItem.size ELSE rd.size
           need == NeedRead(size - rd.read) IN
       /\ size > rd.read
       /\ mCurrentItem' = [mCurrentItem EXCEPT !.ptr = @ + need.n]
       /\ handed' = handed + need.n
       /\ rd' = [at |-> IF need.end THEN "idle" ELSE "loop", size |-> size,
                 read |-> rd.read + need.n]
    /\ UNCHANGED <<kind, queueVars, mEnabled, segLock, mState, exitStep>>

\* pop: the test of its loop, which it makes with the lock
PopTest ==
    /\ \/ rd.at = "loop" /\ mState = "started" /\ mCurrentItem.ptr = mCurrentItem.to
          /\ (rd.size = Whole \/ rd.read < rd.size)
       \/ rd.at = "woken"
    /\ segLock = "free" /\ segLock' = "reader"
    /\ rd' = [rd EXCEPT !.at = IF mSegments = <<>> /\ mEnabled THEN "wait" ELSE "take"]
    /\ UNCHANGED <<kind, queueVars, mEnabled, mState, mCurrentItem, handed, exitStep>>

PopWait ==
    /\ rd.at = "wait" /\ segLock' = "free" /\ rd' = [rd EXCEPT !.at = "waiting"]
    /\ UNCHANGED <<kind, queueVars, mEnabled, mState, mCurrentItem, handed, exitStep>>

PopTake ==
    /\ rd.at = "take" /\ segLock' = "free" /\ rd' = [rd EXCEPT !.at = "loop"]
    /\ IF mSegments = <<>> THEN UNCHANGED <<mSegments, mAvailableDataSize, mCurrentItem>>
       ELSE LET item == Head(mSegments) IN
            /\ mSegments' = Tail(mSegments)
            /\ mAvailableDataSize' = mAvailableDataSize - (item.to - item.from)
            /\ mCurrentItem' = [ptr |-> item.from, to |-> item.to, size |-> item.to - item.from]
    /\ UNCHANGED <<kind, pushed, mEnabled, mState, handed, exitStep>>

Reader == Return \/ Copy \/ PopTest \/ PopWait \/ PopTake

SegmentNext ==
    \/ \E n \in BufferSizes : push(n)
    \/ stop
    \/ Disable
    \/ NotifyExit
    \/ \E n \in ReadSizes \cup {Whole} : Ask(n)
    \/ Return
    \/ Copy
    \/ PopTest
    \/ PopWait
    \/ PopTake

\* A thread that can go on, does; nothing has to be pushed or asked for
SegmentFair ==
    /\ WF_segVars(Disable) /\ SF_segVars(NotifyExit) /\ SF_segVars(PopTest)
    /\ WF_segVars(Return) /\ WF_segVars(Copy) /\ WF_segVars(PopWait) /\ WF_segVars(PopTake)

SegmentSpec == SegmentInit /\ [][SegmentNext]_segVars
SegmentLiveSpec == SegmentSpec /\ SegmentFair

-----------------------------------------------------------------------------
(* The bytes come out as they went in: what has been handed out, the rest of   *)
(* the current buffer and the buffers queued follow each other without a gap   *)
(* up to the last byte pushed, and until the exit the size reported is that of *)
(* the buffers queued (read_l, read_check, pop, push).                         *)
BytesInOrder ==
    /\ handed = mCurrentItem.ptr /\ mCurrentItem.ptr <= mCurrentItem.to
    /\ \A i \in DOMAIN mSegments :
         mSegments[i].from = IF i = 1 THEN mCurrentItem.to ELSE mSegments[i - 1].to
    /\ pushed = IF mSegments = <<>> THEN mCurrentItem.to ELSE mSegments[Len(mSegments)].to
    /\ mEnabled => mAvailableDataSize = pushed - mCurrentItem.to

(* A reader is not left waiting in a source that is stopped: notifyExit sets   *)
(* the flag without the lock, yet its notification cannot fall between the     *)
(* reader's test of the flag and its wait (Segment.h:131-136, Segment.cpp:43). *)
StoppedReaderReturns == (mState = "stopped") ~> (rd.at = "idle")
=============================================================================
