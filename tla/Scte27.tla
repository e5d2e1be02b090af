------------------------------- MODULE Scte27 -------------------------------
(***************************************************************************)
(* SCTE-27 subtitles (parser/Scte27Parser.cpp): a message comes in one      *)
(* section or in numbered segments, of which any may be lost; its bitmap is *)
(* a run length code, around which an outline or a shadow is drawn.         *)
(*                                                                         *)
(* Pixels are numbered as in memory, row after row from 0.                  *)
(***************************************************************************)
EXTENDS Integers, FiniteSetsExt, SequencesExt

CONSTANTS
    SegmentCounts,    \* segments of a message, 0 for one that is not segmented
    MaxMessages,      \* bound: messages sent
    Losses,           \* whether a section may be lost
    MinSize,          \* segments that make a message long enough (12 bytes)
    GlyphWidth, GlyphHeight,
    Glyphs,           \* characters: sets of <<row, column>>, from 0
    Styles            \* [kind, right, below]: outline (right = thickness), shadow or none

ASSUME ScteAssumption ==
    /\ SegmentCounts \subseteq Nat /\ MaxMessages \in Nat /\ MinSize \in Nat
    /\ GlyphWidth \in Nat \ {0} /\ GlyphHeight \in Nat \ {0}
    /\ \A set \in Glyphs : set \subseteq (0 .. GlyphHeight - 1) \X (0 .. GlyphWidth - 1)
    /\ Styles \subseteq [kind : {"none", "outline", "shadow"}, right : Nat, below : Nat]

VARIABLES
    lossy,
    sending,          \* the message being sent: [ext, segs, next, last]
    lost,             \* ghost: messages of which a section was lost
    mContext,         \* segment_container, table_ext, curr_no, last_no, has_segment
    messages,         \* ghost: what decodeMessageBodySubtitle was given
    glyph             \* a character, its style, what was drawn of it and the places
                      \* outside the bitmap that were written if they held a 0

scteVars == <<lossy, sending, lost, mContext, messages, glyph>>

Clean == [container |-> <<>>, table_ext |-> 0, curr_no |-> 0, last_no |-> 0, has |-> FALSE]

ScteInit ==
    /\ lossy \in Losses
    /\ sending = [ext |-> 0, segs |-> 0, next |-> 1] /\ lost = {}
    /\ mContext = Clean /\ messages = <<>> /\ glyph = <<>>

(***************************************************************************)
(* decodeSubtitle.  After a section that does not follow, what there is is  *)
(* dropped and the check of the next one is left out.                       *)
(***************************************************************************)
Sections == IF sending.segs = 0 THEN 1 ELSE sending.segs
SegmentPiece(no) == [ext |-> sending.ext, no |-> no]

decodeSegment(no, last_no) ==
    LET c == IF no = 0 THEN [Clean EXCEPT !.table_ext = sending.ext, !.last_no = last_no, !.curr_no = -1]
             ELSE mContext
        follows == c.has => c.table_ext = sending.ext /\ no = c.curr_no + 1
        added == [c EXCEPT !.curr_no = no, !.has = TRUE, !.container = Append(@, SegmentPiece(no))]
    IN  IF ~follows THEN mContext' = Clean /\ UNCHANGED messages
        ELSE IF no < last_no THEN mContext' = added /\ UNCHANGED messages
        ELSE IF Len(added.container) < MinSize THEN mContext' = added /\ UNCHANGED messages
        ELSE mContext' = Clean /\ messages' = Append(messages, added.container)

decodeSubtitle ==
    /\ sending.next < Sections
    /\ IF sending.segs > 0 THEN decodeSegment(sending.next, sending.segs - 1)
       ELSE /\ mContext' = IF mContext.has THEN Clean ELSE mContext
            /\ messages' = Append(messages, <<SegmentPiece(0)>>)
    /\ sending' = [sending EXCEPT !.next = @ + 1]
    /\ UNCHANGED <<lossy, lost, glyph>>

NextMessage(segs) ==
    /\ sending.next = Sections /\ sending.ext < MaxMessages /\ glyph = <<>>
    /\ sending' = [ext |-> sending.ext + 1, segs |-> segs, next |-> 0]
    /\ UNCHANGED <<lossy, lost, mContext, messages, glyph>>

LoseSection ==
    /\ lossy /\ sending.next < Sections
    /\ sending' = [sending EXCEPT !.next = @ + 1]
    /\ lost' = lost \cup {sending.ext}
    /\ UNCHANGED <<lossy, mContext, messages, glyph>>

(***************************************************************************)
(* decodeBitmap: the codes of the rows, then outline or shadow.             *)
(***************************************************************************)
PixelAt(i, j) == i * GlyphWidth + j
Code(kind, on, off) == [k |-> kind, on |-> on, off |-> off]
RunCode(on, off) == Code(IF on = 0 THEN "off" ELSE IF off = 0 THEN "on" ELSE "onoff", on, off)

\* An encoder: a code is done when another run of the character begins
AddPixel(st, on) ==
    IF ~on THEN [st EXCEPT !.off = @ + 1]
    ELSE IF st.off = 0 THEN [st EXCEPT !.on = @ + 1]
    ELSE [codes |-> Append(st.codes, RunCode(st.on, st.off)), on |-> 1, off |-> 0]

\* A row as codes; one of background is left to the end of the line
RowCodes(set, i) ==
    LET upTo[j \in 0 .. GlyphWidth] ==
            IF j = 0 THEN [codes |-> <<>>, on |-> 0, off |-> 0]
            ELSE AddPixel(upTo[j - 1], <<i, j - 1>> \in set)
        full == upTo[GlyphWidth]
    IN  (IF full.on = 0 THEN full.codes ELSE Append(full.codes, RunCode(full.on, full.off)))
        \o <<Code("stuff", 0, 0), Code("eol", 0, 0)>>

RowStep(st, c) ==
    LET put(px, from, n, v) == [p \in DOMAIN px |-> IF p >= from /\ p < from + n THEN v ELSE px[p]]
        cur == st.start + st.len
        left == GlyphWidth - st.len IN
    IF st.row >= GlyphHeight \/ c.k = "stuff" THEN st
    ELSE IF c.k = "eol"
    THEN [px |-> IF left > 0 THEN put(st.px, cur, left, "bg") ELSE st.px,
          start |-> st.start + GlyphWidth, len |-> 0, row |-> st.row + 1]
    ELSE [st EXCEPT !.px = put(put(@, cur, c.on, "ch"), cur + c.on, c.off, "bg"),
                    !.len = @ + c.on + c.off]

Decoded(codes) ==
    LET after[n \in 0 .. Len(codes)] ==
            IF n = 0 THEN [px |-> [p \in 0 .. GlyphWidth * GlyphHeight - 1 |-> "unset"],
                           start |-> 0, len |-> 0, row |-> 0]
            ELSE RowStep(after[n - 1], codes[n])
    IN  after[Len(codes)].px

\* The places, by number, of the pixels around the character; none is checked, so that
\* a column past the edge is one of another row and others are outside the bitmap
Around(px, style) ==
    LET chars == {ij \in (0 .. GlyphHeight - 1) \X (0 .. GlyphWidth - 1) : px[PixelAt(ij[1], ij[2])] = "ch"}
        t == style.right
        near == {PixelAt(ij[1] + d[1], ij[2] + d[2]) : ij \in chars,
                 d \in {e \in (-t .. t) \X (-t .. t) : e[1] * e[1] + e[2] * e[2] <= t * t}}
        behind == {PixelAt(ij[1] + style.below, ij[2] + style.right) : ij \in chars}
    IN  CASE style.kind = "outline" -> near [] style.kind = "shadow" -> behind [] OTHER -> {}

\* A place is written if it holds PIXEL_BG, which is 0
Marked(px, style) ==
    [p \in DOMAIN px |-> IF p \in Around(px, style) /\ px[p] = "bg" THEN style.kind ELSE px[p]]

decodeBitmap(set, style) ==
    /\ glyph = <<>> /\ sending.ext = 0
    /\ LET codes == FlattenSeq([i \in 1 .. GlyphHeight |-> RowCodes(set, i - 1)])
           px == Decoded(codes)
       IN  glyph' = <<set, style, Marked(px, style), Around(px, style) \ DOMAIN px>>
    /\ UNCHANGED <<lossy, sending, lost, mContext, messages>>

ScteNext ==
    \/ decodeSubtitle \/ LoseSection
    \/ \E segs \in SegmentCounts : NextMessage(segs)
    \/ \E set \in Glyphs, style \in Styles : decodeBitmap(set, style)
ScteSpec == ScteInit /\ [][ScteNext]_scteVars

(***************************************************************************)
(* A body that is decoded is made of segments of one message, one after the *)
(* other up to its last; a message that was received whole and is long      *)
(* enough is decoded as a whole, once its last segment is there; and none   *)
(* is decoded twice or after a later one, whatever was lost of it or of     *)
(* others (Scte27Parser.cpp:615-673).                                       *)
(***************************************************************************)
MessagesWhole ==
    /\ (/\ sending.ext \in 1 .. MaxMessages \ lost /\ sending.next = Sections
        /\ sending.segs = 0 \/ sending.segs >= MinSize)
           => \E n \in DOMAIN messages : messages[n][1].ext = sending.ext
    /\ \A n \in DOMAIN messages :
        LET body == messages[n] IN
        /\ \A i \in DOMAIN body : /\ body[i].ext = body[1].ext
                                  /\ body[i].no = body[1].no + i - 1
        /\ body[1].ext \notin lost => body[1].no = 0
        /\ n > 1 => body[1].ext > messages[n - 1][1].ext

(***************************************************************************)
(* A character is drawn pixel by pixel as it was encoded, and around it all *)
(* pixels in reach of its outline or shadow are marked; no others are, if   *)
(* there is room for it in the columns, and nothing outside the bitmap is   *)
(* touched, if there is room in the rows as well.  Nothing in the code sees *)
(* to the room (Scte27Parser.cpp:304-410).                                  *)
(***************************************************************************)
Outlines(set, style, i, j) ==
    \E ij \in set :
        \/ /\ style.kind = "outline"
           /\ (i - ij[1]) * (i - ij[1]) + (j - ij[2]) * (j - ij[2]) <= style.right * style.right
        \/ style.kind = "shadow" /\ i = ij[1] + style.below /\ j = ij[2] + style.right
RoomInColumns(set, style) ==
    \A ij \in set : /\ style.kind # "none" => ij[2] + style.right < GlyphWidth
                    /\ style.kind = "outline" => style.right <= ij[2]
RoomInRows(set, style) ==
    \A ij \in set : /\ style.kind = "outline" => style.right <= ij[1] /\ ij[1] + style.right < GlyphHeight
                    /\ style.kind = "shadow" => ij[1] + style.below < GlyphHeight
GlyphsDrawn ==
    glyph # <<>> =>
        LET set == glyph[1]
            style == glyph[2]
        IN  /\ \A i \in 0 .. GlyphHeight - 1, j \in 0 .. GlyphWidth - 1 :
                  LET pixel == glyph[3][PixelAt(i, j)] IN
                  IF <<i, j>> \in set THEN pixel = "ch"
                  ELSE IF Outlines(set, style, i, j) THEN pixel = style.kind
                  ELSE RoomInColumns(set, style) => pixel = "bg"
            /\ (RoomInColumns(set, style) /\ RoomInRows(set, style)) => glyph[4] = {}
=============================================================================
