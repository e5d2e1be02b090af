------------------------------ MODULE PgsEpoch ------------------------------
(***************************************************************************)
(* The PGS decoder of parser/PgsParser.cpp: a display set arrives as a     *)
(* composition, a palette, the fragments of its objects and an end; the    *)
(* fragments of an object are collected in one buffer and drawn when the   *)
(* last of them is there.  Segments can be lost on the way.  The hardware  *)
(* demux hands over one segment for each item, the soft demux a whole      *)
(* display set for one item.                                               *)
(*                                                                         *)
(* A fragment counts as one unit of run length data; positions, colours    *)
(* and sizes in pixels are left out, except for the lines of the drawing.  *)
(***************************************************************************)
EXTENDS Integers, SequencesExt

CONSTANTS
    PgsObjects,     \* object numbers
    MaxFragments,   \* fragments of an object, at most
    PgsWidth,       \* image width of the drawings checked
    RleCodes        \* run length data to be drawn

\* Run length codes: the end of a line, or a run of pixels
PgsCodes == [kind : {"eol"}, n : {0}] \cup [kind : {"run"}, n : Nat \ {0}]

ASSUME PgsAssumption ==
    /\ MaxFragments \in Nat \ {0} /\ PgsWidth \in Nat \ {0}
    /\ RleCodes \subseteq Seq(PgsCodes)

VARIABLES
    demux,        \* "hw" or "soft"
    unsent,       \* segments of the display set that are still to come
    sentSet,      \* the objects of the display set
    lostOne,      \* one of its segments has been lost
    composition,  \* pgsInfo: the ids in objects[0..objectCount-1]
    rleBuf,       \* pgsInfo->rleBuf: what was copied to it, or NoBuf
    rleSize,      \* rleBufSize; it survives the buffer
    imageSet,     \* imageWidth and imageHeight have been set
    pictures,     \* what the items added for this display set show
    drawing,      \* "ok", or "null" when a buffer that is gone was drawn
    rows          \* the last drawing checked: codes and the rows they filled

pgsVars == <<demux, unsent, sentSet, lostOne, composition, rleBuf, rleSize, imageSet,
             pictures, drawing, rows>>

NoBuf == << <<>> >>    \* no fragment is empty
Fragment(o, i, n) == [type |-> "object", obj |-> o, part |-> i, of |-> n]

PgsInit ==
    /\ demux \in {"hw", "soft"}
    /\ unsent = <<>> /\ sentSet = <<>> /\ lostOne = FALSE
    /\ composition = <<>> /\ rleBuf = NoBuf /\ rleSize = 0 /\ imageSet = FALSE
    /\ pictures = <<>> /\ drawing = "ok" /\ rows = <<>>

\* A display set: it refers to two objects at most
DisplaySet(objs, n) ==
    LET fragments(k) == [i \in 1..n |-> Fragment(objs[k], i, n)] IN
    <<[type |-> "comp", objs |-> objs], [type |-> "palette"]>> \o fragments(1)
        \o (IF Len(objs) = 2 THEN fragments(2) ELSE <<>>) \o <<[type |-> "end"]>>

\* The broadcaster's display set; the items of the one before have been taken.
SendDisplaySet(objs, n) ==
    /\ unsent = <<>> /\ drawing = "ok" /\ rows = <<>>
    /\ sentSet' = objs /\ lostOne' = FALSE /\ pictures' = <<>>
    /\ unsent' = DisplaySet(objs, n)
    /\ UNCHANGED <<demux, composition, rleBuf, rleSize, imageSet, drawing, rows>>

Lose ==
    /\ unsent # <<>> /\ drawing = "ok"
    /\ unsent' = Tail(unsent) /\ lostOne' = TRUE
    /\ UNCHANGED <<demux, sentSet, composition, rleBuf, rleSize, imageSet, pictures, drawing, rows>>

-----------------------------------------------------------------------------
(* afRlebitmapRender: how many pixels of each row come from the data.  A line *)
(* end fills the row; in column 0 it is passed over, for it follows a full    *)
(* line.                                                                      *)

DrawCode(st, c) ==
    LET full == st.x >= PgsWidth      \* the inner loop has ended: y++
        y == IF full THEN st.y + 1 ELSE st.y
        x == IF full THEN 0 ELSE st.x
    IN  CASE c.kind = "eol" -> [st EXCEPT !.y = y, !.x = IF x > 0 THEN PgsWidth ELSE 0]
          [] c.kind = "run" -> [st EXCEPT !.y = y, !.x = x + c.n,
                                          !.row[y] = IF x + c.n > PgsWidth THEN PgsWidth ELSE x + c.n]

AfRlebitmapRender(codes) ==
    LET after[i \in 0..Len(codes)] ==
          IF i = 0 THEN [x |-> 0, y |-> 0, row |-> [y \in 0..Len(codes) |-> 0]]
          ELSE DrawCode(after[i - 1], codes[i])
    IN  after[Len(codes)].row

\* The lines that an encoder means: what stands between line ends.
AddToLine(st, c) ==
    IF c.kind = "run" THEN [st EXCEPT !.line = @ + c.n]
    ELSE IF st.line = 0 THEN st
    ELSE [lines |-> Append(st.lines, st.line), line |-> 0]

PgsLines(codes) ==
    LET after[i \in 0..Len(codes)] ==
          IF i = 0 THEN [lines |-> <<>>, line |-> 0] ELSE AddToLine(after[i - 1], codes[i])
    IN  AddToLine(after[Len(codes)], [kind |-> "eol", n |-> 0]).lines

CheckDrawing(codes) ==
    /\ sentSet = <<>> /\ rows = <<>> /\ rows' = <<codes, AfRlebitmapRender(codes)>>
    /\ UNCHANGED <<demux, unsent, sentSet, lostOne, composition, rleBuf, rleSize, imageSet,
                   pictures, drawing>>

-----------------------------------------------------------------------------
(* readBitmap: the first fragment allocates the buffer (one that was there   *)
(* is leaked), each is appended where there is a buffer and room in it.      *)

BufAfter(f) ==
    LET buf == IF f.part = 1 THEN <<>> ELSE rleBuf
        size == IF f.part = 1 THEN f.of ELSE rleSize
    IN  IF buf # NoBuf /\ Len(buf) + 1 <= size THEN Append(buf, <<f.obj, f.part, f.of>>) ELSE buf

\* parserOnePgs: the picture is put into the item of this packet and the item is
\* queued.  In a soft packet that is the item its first object was put into.
ParserOnePgs(picture) ==
    pictures' = IF demux = "soft" THEN [i \in 1..Len(pictures) + 1 |-> picture]
                ELSE Append(pictures, picture)

\* findObject decides where the picture is put; with an object that the
\* composition does not name the place is undefined, but it is drawn.
FindObject(o) == o \in Range(composition)

DecodeFragment(f) ==
    LET buf == BufAfter(f)
        size == IF f.part = 1 THEN f.of ELSE rleSize
        last == f.part = f.of
        sized == imageSet \/ f.part = 1
    IN  /\ rleSize' = size /\ imageSet' = sized
        /\ rleBuf' = IF last THEN NoBuf ELSE buf
        /\ IF last /\ sized
           THEN IF buf = NoBuf THEN drawing' = "null" /\ UNCHANGED pictures
                ELSE ParserOnePgs([data |-> buf, named |-> FindObject(f.obj)]) /\ UNCHANGED drawing
           ELSE UNCHANGED <<pictures, drawing>>
        /\ UNCHANGED composition

\* decode: one segment
DecodePgs(s) ==
    CASE s.type = "comp" -> /\ composition' = s.objs
                            /\ UNCHANGED <<rleBuf, rleSize, imageSet, pictures, drawing>>
      [] s.type = "object" -> DecodeFragment(s)
      [] OTHER -> UNCHANGED <<composition, rleBuf, rleSize, imageSet, pictures, drawing>>

\* hwDemuxParse: a PES packet is one segment.
PgsHwDemuxParse ==
    /\ demux = "hw" /\ unsent # <<>> /\ drawing = "ok"
    /\ DecodePgs(Head(unsent))
    /\ unsent' = Tail(unsent)
    /\ UNCHANGED <<demux, sentSet, lostOne, rows>>

\* softDemuxParse: the next segment of the packet.  One without content, the end
\* of a display set, is not passed: what follows it in the packet is lost.
PgsSoftDemuxParse ==
    /\ demux = "soft" /\ unsent # <<>> /\ drawing = "ok"
    /\ DecodePgs(Head(unsent))
    /\ unsent' = IF Head(unsent).type = "end" THEN <<>> ELSE Tail(unsent)
    /\ UNCHANGED <<demux, sentSet, lostOne, rows>>

PgsNext ==
    \/ \E objs \in {s \in BoundedSeq(PgsObjects, 2) : s # <<>> /\ IsInjective(s)},
          n \in 1..MaxFragments : SendDisplaySet(objs, n)
    \/ \E codes \in RleCodes : CheckDrawing(codes)
    \/ Lose \/ PgsHwDemuxParse \/ PgsSoftDemuxParse

PgsSpec == PgsInit /\ [][PgsNext]_pgsVars

-----------------------------------------------------------------------------
(* A display set that arrives whole is shown whole, whatever was lost before
   it: every picture is made of all fragments, in order, of one object that the
   composition names, and a buffer that is gone is never drawn; a loss spoils no
   more than its own display set (PgsParser.cpp:285-312, 548-598). *)
LossStaysInSet ==
    ~lostOne =>
        /\ drawing = "ok"
        /\ \A i \in DOMAIN pictures :
              LET p == pictures[i] IN
              /\ p.named
              /\ \E o \in Range(sentSet) : \E n \in 1..MaxFragments :
                    p.data = [k \in 1..n |-> <<o, k, n>>]

(* Both objects of a display set are shown (PgsParser.cpp:46, "Max objects per
   display set"). *)
EveryObjectShown ==
    unsent = <<>> /\ ~lostOne =>
        \A o \in Range(sentSet) : \E i \in DOMAIN pictures : pictures[i].data[1][1] = o

(* Run lengths that never exceed the line are drawn row by row as the encoder
   meant them: a line end after a full line starts no second row
   (PgsParser.cpp:362-404). *)
RowsAsEncoded ==
    rows # <<>> =>
        LET lines == PgsLines(rows[1]) IN
        (\A k \in DOMAIN lines : lines[k] <= PgsWidth) =>
            \A k \in DOMAIN lines : rows[2][k - 1] = lines[k]
=============================================================================
