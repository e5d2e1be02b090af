------------------------------- MODULE VobSub -------------------------------
(***************************************************************************)
(* VobSub subtitles (parser/ExtParser/VobSubIndex.cpp): an index file gives *)
(* the time of each subtitle of each track and its place in a .sub file; the *)
(* bitmap is made when it is to be shown, from the packets found there.      *)
(*                                                                         *)
(* A place is the number of an element of the .sub file: "pack", "padding", *)
(* "video" or a "packet" of a track with words of a subpicture.             *)
(***************************************************************************)
EXTENDS SubpictureCode

CONSTANTS
    Recordings,       \* what was recorded: [track, cut] for each subtitle
    TrackIds,         \* the tracks of the index, in its order
    RequestedTracks,  \* the track asked for, -1 for none
    SubLength,        \* words of a subpicture
    LangIdx,          \* the track that a langidx line names, -1 for no such line
    VobPictures,      \* pictures: rows of runs
    VobWidth          \* pixels of their rows

ASSUME VobSubAssumption ==
    /\ SubLength \in Nat \ {0} /\ VobWidth \in Nat \ {0}
    \* the index names each track once
    /\ TrackIds \in Seq(Nat) /\ TrackIds # <<>>
    /\ \A m, n \in DOMAIN TrackIds : TrackIds[m] = TrackIds[n] => m = n
    /\ Recordings \subseteq Seq([track : {TrackIds[n] : n \in DOMAIN TrackIds}, cut : 1..SubLength])
    /\ RequestedTracks \subseteq Nat \cup {-1} /\ LangIdx \in Nat \cup {-1}
    /\ \A picture \in VobPictures :
         /\ picture \in Seq(Seq(Nat \X (0 .. 3))) /\ Len(picture) % 2 = 0
         /\ \A y \in DOMAIN picture : Encodable(picture[y], VobWidth)

VARIABLES
    recording, requested,
    vobLine,          \* lines of the index read
    vobsubId, mIdxSubTrackId, mSelectedTrackId,
    vobItems,         \* mSubData.subtitles: [start, subId, filePos]
    bitmaps,          \* ghost: the items shown, with the bitmaps made for them
    painted           \* a picture, its contrast, and what its fields and contrast became

vobVars == <<recording, requested, vobLine, vobsubId, mIdxSubTrackId, mSelectedTrackId,
             vobItems, bitmaps, painted>>

(***************************************************************************)
(* The files: each subpicture in one or two packets, in order of time, and  *)
(* an index that lists the tracks one after the other.                      *)
(***************************************************************************)
Packet(track, s, from, to) == [k |-> "packet", aid |-> track, s |-> s, from |-> from, to |-> to]
Filler(k) == [k |-> k, aid |-> -1, s |-> 0, from |-> 1, to |-> 0]
Stretch(s) ==
    LET r == recording[s] IN
    IF r.cut = SubLength THEN <<Filler("pack"), Packet(r.track, s, 1, SubLength), Filler("video")>>
    ELSE <<Filler("pack"), Packet(r.track, s, 1, r.cut), Filler("padding"),
           Filler("pack"), Packet(r.track, s, r.cut + 1, SubLength), Filler("video")>>
Reel == FlattenSeq([s \in DOMAIN recording |-> Stretch(s)])
Place(s) == Len(FlattenSeq([u \in 1 .. s - 1 |-> Stretch(u)])) + 1
IndexLine(k, id, s) == [k |-> k, id |-> id, s |-> s]

\* The subtitles of a track, in order of time
SubtitlesOf(t) ==
    LET upTo[s \in 0 .. Len(recording)] ==
          IF s = 0 THEN <<>>
          ELSE IF recording[s].track = t THEN Append(upTo[s - 1], s) ELSE upTo[s - 1]
    IN  upTo[Len(recording)]
TrackLines(t) ==
    <<IndexLine("id", t, 0)>>
    \o [n \in DOMAIN SubtitlesOf(t) |-> IndexLine("timestamp", t, SubtitlesOf(t)[n])]
IndexFile ==
    (IF LangIdx = -1 THEN <<>> ELSE <<IndexLine("langidx", LangIdx, 0)>>)
    \o FlattenSeq([n \in DOMAIN TrackIds |-> TrackLines(TrackIds[n])])

VobInit ==
    /\ recording \in Recordings /\ requested \in RequestedTracks
    /\ vobLine = 0 /\ vobsubId = 0
    /\ mIdxSubTrackId = requested
    /\ mSelectedTrackId = IF requested >= 0 THEN requested ELSE -1
    /\ vobItems = <<>> /\ bitmaps = <<>> /\ painted = <<>>

\* A line of the index.  The first id line chooses the track if none was asked
\* for, whatever langidx says.
decodedIndexLine ==
    /\ vobLine < Len(IndexFile) /\ painted = <<>>
    /\ vobLine' = vobLine + 1
    /\ LET line == IndexFile[vobLine + 1]
           choose == mIdxSubTrackId = -1 IN
       CASE line.k = "langidx" ->
              /\ vobsubId' = line.id
              /\ mSelectedTrackId' = IF choose THEN line.id ELSE mSelectedTrackId
              /\ UNCHANGED <<mIdxSubTrackId, vobItems>>
         [] line.k = "id" ->
              /\ vobsubId' = line.id
              /\ mSelectedTrackId' = IF choose THEN line.id ELSE mSelectedTrackId
              /\ mIdxSubTrackId' = IF choose THEN line.id ELSE mIdxSubTrackId
              /\ UNCHANGED vobItems
         [] line.k = "timestamp" ->
              /\ vobItems' = IF vobsubId # mSelectedTrackId THEN vobItems
                             ELSE Append(vobItems, [start |-> line.s, subId |-> vobsubId,
                                                    filePos |-> Place(line.s)])
              /\ UNCHANGED <<vobsubId, mIdxSubTrackId, mSelectedTrackId>>
    /\ UNCHANGED <<recording, requested, bitmaps, painted>>

(***************************************************************************)
(* The bitmap.  mpeg_run reads one element; the first packet found has to   *)
(* be of the track, and those that follow until one of another track or     *)
(* until the length in its first word is there.                             *)
(***************************************************************************)
Unwritten == [s |-> 0, i |-> 0]
ReadElement(st, e, track) ==
    LET got == st.words \o [i \in 1 .. e.to - e.from + 1 |-> [s |-> e.s, i |-> e.from + i - 1]] IN
    IF st.done \/ e.k # "packet" THEN st
    ELSE IF e.aid # track THEN [words |-> st.words, done |-> TRUE]
    ELSE IF Len(got) < SubLength THEN [words |-> got, done |-> FALSE]
    ELSE [words |-> SubSeq(got, 1, SubLength), done |-> TRUE]

assembled(pos, track) ==
    LET after[n \in 0 .. Len(Reel)] ==
          IF n < pos THEN [words |-> <<>>, done |-> FALSE]
          ELSE ReadElement(after[n - 1], Reel[n], track)
    IN  after[Len(Reel)].words

genSubBitmap(item) ==
    LET words == assembled(item.filePos, mSelectedTrackId) IN
    IF words = <<>> THEN <<>>
    ELSE [i \in 1 .. SubLength |-> IF i <= Len(words) THEN words[i] ELSE Unwritten]

\* popDecodedItem takes the first item of the track that is selected.
popIndexItem ==
    /\ vobLine = Len(IndexFile)
    /\ \E n \in DOMAIN vobItems :
          /\ vobItems[n].subId = mSelectedTrackId
          /\ \A m \in 1 .. n - 1 : vobItems[m].subId # mSelectedTrackId
          /\ bitmaps' = Append(bitmaps, [start |-> vobItems[n].start,
                                        data |-> genSubBitmap(vobItems[n])])
          /\ vobItems' = RemoveAt(vobItems, n)
    /\ UNCHANGED <<recording, requested, vobLine, vobsubId, mIdxSubTrackId, mSelectedTrackId,
                   painted>>

(***************************************************************************)
(* The pixels.  vob_fill_pixel draws a field; convert2bto32b takes the rows *)
(* from the fields in turn.                                                 *)
(***************************************************************************)
vob_fill_pixel(field, height, contrast) ==
    FillOutcomes(SpuFillPixel(EncodedRows(field), height, VobWidth), contrast)
Field(picture, odd) ==
    [y \in 1 .. (Len(picture) + (IF odd THEN 1 ELSE 0)) \div 2 |->
        picture[IF odd THEN 2 * y - 1 ELSE 2 * y]]
convert2bto32b(top, bottom, height) ==
    [y \in 1 .. height |->
        LET field == IF y % 2 = 1 THEN top ELSE bottom
            row == (y + 1) \div 2
        IN  IF row <= Len(field) THEN field[row] ELSE <<>>]

Paint(picture, contrast) ==
    /\ painted = <<>> /\ vobLine = 0
    /\ LET half == Len(picture) \div 2
       IN \E top \in vob_fill_pixel(Field(picture, TRUE), half, contrast),
             bottom \in vob_fill_pixel(Field(picture, FALSE), half, contrast) :
             painted' = <<picture, contrast, convert2bto32b(top, bottom, Len(picture)), AlphaAfter(contrast)>>
    /\ UNCHANGED <<recording, requested, vobLine, vobsubId, mIdxSubTrackId, mSelectedTrackId,
                   vobItems, bitmaps>>

VobNext ==
    \/ decodedIndexLine \/ popIndexItem
    \/ \E picture \in VobPictures, contrast \in [0 .. 3 -> BOOLEAN] : Paint(picture, contrast)
VobSpec == VobInit /\ [][VobNext]_vobVars

(***************************************************************************)
(* The bitmaps shown are those of the track that was asked for, or of the   *)
(* first of the index: in order, each at its own time and made of its own   *)
(* subpicture from the first word to the last, whatever other tracks lie    *)
(* between them in the .sub file; in the end none is missing.               *)
(***************************************************************************)
TrackShown ==
    LET wanted == IF requested = -1 THEN TrackIds[1] ELSE requested
        own == SubtitlesOf(wanted)
        all == [n \in DOMAIN own |-> [start |-> own[n],
                   data |-> [i \in 1 .. SubLength |-> [s |-> own[n], i |-> i]]]]
    IN  /\ IsPrefix(bitmaps, all)
        /\ (vobLine = Len(IndexFile) /\ vobItems = <<>>) => bitmaps = all

(***************************************************************************)
(* A picture of an even number of rows, split into its two fields, comes    *)
(* out with every row in its place; the exchange of its background is made  *)
(* alike in both fields and in the contrast.  Nothing is claimed when all   *)
(* four colours have a contrast: then the exchange writes behind its array  *)
(* (VobSubIndex.cpp:706-719, 1085-1180).                                    *)
(***************************************************************************)
FieldsInterleaved ==
    (painted # <<>> /\ ~AllContrasts(painted[2])) =>
        \A y \in DOMAIN painted[1] : DrawnAs(painted[1][y], painted[3][y], painted[2], painted[4])
=============================================================================
