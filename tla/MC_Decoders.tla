----------------------------- MODULE MC_Decoders -----------------------------
(* The decoders: DVB, PGS and DVD subtitles, teletext, the packets of the      *)
(* streams, text files and their lines, VobSub, SCTE-27, TTML documents and    *)
(* the captions of the user data. They share no state with each other: a       *)
(* behaviour is one of the decoder chosen at its start.                        *)
EXTENDS DvbSubtitle, PgsEpoch, DvdSubpicture, TeletextPages, PesReader, TextSubtitles,
        LineReader, VobSub, Scte27, TtmlDocument, UserData

VARIABLE part   \* the decoder of this behaviour

-----------------------------------------------------------------------------
(* Inputs *)

\* DVB: pixel data in each coding, one and two fields, non-modifying, a line
\* longer than the region; and an object that is not coded as pixels. Objects lie
\* inside their region, across its edges, on them and outside.
Block(t, cs) == [type |-> t, codes |-> cs]
Run(k, n, c) == [kind |-> k, run |-> n, colour |-> c]
Pic(t, b, nm) == [top |-> t, bottom |-> b, coding0 |-> TRUE, nonMod |-> nm]
Line == <<Block("2bp", <<Run("pixel", 1, 2), Run("run", 3, 1)>>), Block("eol", <<>>)>>
Pair == <<Block("8bp", <<Run("run", 3, 1), Run("pixel", 1, 2)>>), Block("eol", <<>>),
          Block("2bp", <<Run("pair", 2, 0), Run("end", 0, 0)>>)>>
Long == <<Block("4bp", <<Run("run", 1, 3), Run("pair", 2, 0)>>),
          Block("2bp", <<Run("run", 9, 1)>>), Block("map", <<>>)>>
MCPictures == {Pic(Line \o Line, <<>>, FALSE), Pic(Long, Pair, TRUE),
               [Pic(<<>>, <<>>, FALSE) EXCEPT !.coding0 = FALSE]}
PlacedAt(o, x, y) == [object |-> o, x |-> x, y |-> y]
MCListings == {<<PlacedAt(1, 1, 0), PlacedAt(1, 0, 1)>>,
               <<PlacedAt(2, 0, 0), PlacedAt(1, 2, 1)>>, <<PlacedAt(1, 3, 0), PlacedAt(2, 1, 2)>>}

MCRleCodes == BoundedSeq({[kind |-> "eol", n |-> 0], [kind |-> "run", n |-> 1],
                          [kind |-> "run", n |-> 2]}, 5)

\* DVD: the shortest and the longest runs of each length of code, and one to the end
\* of the line
MCDvdRows == {<<<<r[1], 1>>, <<r[2], r[1] % 3>>, <<80 - r[1] - r[2], 3>>>> :
                 r \in {q \in {1, 4, 16, 64} \X {3, 15, 63} : q[1] + q[2] < 80}} \cup {<<<<80, 0>>>>}
\* Command sequences: the stop in the last six bytes, alone and behind another sequence
\* (not read), with padding behind it, and with a sequence that follows it (not
\* read because of the stop)
Commands(n, stop, left) == [delay |-> n, stop |-> stop, left |-> left]
MCDvdDelays == {<<Commands(5, TRUE, 6)>>, <<Commands(2, FALSE, 12), Commands(7, TRUE, 6)>>,
                <<Commands(0, FALSE, 11), Commands(7, TRUE, 6)>>,
                <<Commands(2, FALSE, 13), Commands(7, TRUE, 7)>>,
                <<Commands(2, FALSE, 20), Commands(7, TRUE, 14), Commands(9, FALSE, 8)>>}

\* Teletext: the keys of the remote control
MCOnAir == {<<100, 0>>, <<101, 0>>, <<102, 1>>}
MCLinks == [p \in {100, 101, 102} |-> IF p = 100 THEN <<101, 102, 0, 0>> ELSE <<>>]
MCKeys == {<<"goto", 101>>, <<"goto", 102>>, <<"back">>, <<"forward">>, <<"subtitle", 0>>, <<"hold">>,
           <<"digit", 1>>, <<"digit", 0>>, <<"link", 2>>, <<"next", 1>>, <<"nextsub", 1>>, <<"index">>,
           <<"submode">>, <<"mix">>, <<"reveal">>, <<"mode", 1>>, <<"mode", 2>>, <<"height">>,
           <<"scroll", 1>>, <<"scroll", -1>>}

MCFormats == {"Subrip", "Subrip09", "SubViewer", "SubViewer2", "SubViewer3", "WebVtt", "Mpsub",
              "Mplayer2", "Mircodvd", "Mplayer1", "Pjs", "Aqtitle", "Vplayer", "Lyrics", "RealText",
              "SubStationAlpha", "Jacosub", "Sami", "XmlSubtitle", "TTML"}
Cue(a, b, t) == [a |-> a, b |-> b, text |-> t]
MCCues == {<<>>, <<Cue(2, 5, <<"x">>)>>, <<Cue(2, 5, <<"x", "y">>), Cue(5, 9, <<"z">>)>>,
           <<Cue(2, 5, <<"x">>), Cue(7, 9, <<"y">>), Cue(12, 15, <<"z", "w">>)>>}

\* Files of up to three lines, the last one with its line end or without
FileLine(n) == [i \in 1..n |-> "x"] \o <<"cr", "lf">>
FileOf(s) == FlattenSeq([i \in DOMAIN s |-> FileLine(s[i])])
MCFiles == {FileOf(s) : s \in BoundedSeq(0..3, 3)} \cup {FileOf(s) \o <<"x">> : s \in BoundedSeq(0..3, 2)}

MCRecordings == BoundedSeq([track : {0, 1}, cut : {1, 3}], 3)
MCTrackIds == <<1, 0>>
MCRequested == {-1, 0}
VobRows == {<<<<4, 1>>, <<16, 2>>>>, <<<<1, 3>>, <<19, 0>>>>, <<<<20, 2>>>>}
MCVobPictures == {<<a, b>> : a \in VobRows, b \in VobRows} \cup {<<a, b, a, b>> : a \in VobRows, b \in VobRows}

Style(k, r, b) == [kind |-> k, right |-> r, below |-> b]
MCStyles == {Style("none", 0, 0), Style("outline", 1, 0), Style("outline", 2, 0),
             Style("shadow", 1, 2), Style("shadow", 2, 1),
           \* without room in the columns, in the rows, in both
           Style("outline", 3, 0), Style("shadow", 3, 1), Style("shadow", 1, 4)}
MCGlyphs == SUBSET ({2, 3, 4} \X {2, 3}) \ {{}}

MCParagraphs == BoundedSeq({"span", "br"}, 4) \ {<<>>}
MCImages == {[id |-> 1, width |-> 2, height |-> 1, png |-> TRUE],
             [id |-> 2, width |-> 3, height |-> 3, png |-> TRUE],
             [id |-> 3, width |-> 1, height |-> 1, png |-> FALSE]}
MCRegions == {[id |-> 1, x |-> 0, y |-> 0], [id |-> 2, x |-> 3, y |-> 1]}

\* Groups of pictures as they are coded: a picture is displayed when its time says
Picture(f, t, p, tm) == [fmt |-> f, type |-> t, poc |-> p, pts |-> tm, time |-> tm, cc |-> TRUE]
Group(f) == <<Picture(f, "I", 0, 1), Picture(f, "P", 3, 4), Picture(f, "B", 1, 2), Picture(f, "B", 2, 3),
              Picture(f, "I", 2, 7), Picture(f, "B", 0, 5), Picture(f, "B", 1, 6)>>
Mixed == <<Picture("scte", "I", 0, 1), Picture("scte", "B", 2, 3), Picture("scte", "B", 1, 2),
           Picture("mpeg", "I", 0, 4), Picture("scte", "B", 1, 5)>>
Avc == <<Picture("h264", "I", 0, 1), Picture("h264", "P", 3, 4), Picture("h264", "B", 1, 2),
         [Picture("h264", "B", 2, 3) EXCEPT !.cc = FALSE],
         Picture("h264", "I", 0, 5), Picture("h264", "P", 2, 7)>>
MCStreams == {Group("mpeg"), SubSeq(Group("scte"), 1, 5), Avc, Mixed}

-----------------------------------------------------------------------------
\* In the behaviours of the other decoders, the inputs of a decoder do not matter
Elsewhere(name, P) == part # name => P

MCInit ==
    /\ part \in {"dvb", "pgs", "dvd", "teletext", "pes", "text", "lines", "vobsub", "scte",
                 "ttml", "userdata"}
    /\ PesInit /\ Elsewhere("pes", pesKind = "dvb" /\ missing = 0 /\ ends = {Len(bytes)}
                                 /\ sent = [i \in 1 .. 3 |-> [form |-> "pts", stuffing |-> 0]])
    /\ VobInit /\ Elsewhere("vobsub", recording = <<>> /\ requested = 0)
    /\ TextInit /\ Elsewhere("text", fmt = "Subrip" /\ cues = <<>> /\ marked)
    /\ LineInit /\ Elsewhere("lines", mEncoding = "utf8" /\ fileBytes = <<>>)
    /\ PgsInit /\ Elsewhere("pgs", demux = "hw")
    /\ DvdInit /\ Elsewhere("dvd", paced)
    /\ ScteInit /\ Elsewhere("scte", ~lossy)
    /\ UserDataInit /\ Elsewhere("userdata", stream = Avc)
    /\ DvbInit /\ TtmlInit /\ TeletextInit

\* The ends of DVD subpictures differ where each is taken before the next
DvdEnds == paced \/ \A s, r \in DOMAIN sub' : sub'[s].delays = sub'[r].delays

MCNext ==
    \/ /\ part = "dvb" /\ DvbNext
       /\ UNCHANGED <<part, pgsVars, dvdVars, ttVars, pesVars, txtVars, lineVars, vobVars, scteVars, ttmlVars, udVars>>
    \/ /\ part = "pgs" /\ PgsNext
       /\ UNCHANGED <<part, dvbVars, dvdVars, ttVars, pesVars, txtVars, lineVars, vobVars, scteVars, ttmlVars, udVars>>
    \/ /\ part = "dvd" /\ DvdNext /\ DvdEnds
       /\ UNCHANGED <<part, dvbVars, pgsVars, ttVars, pesVars, txtVars, lineVars, vobVars, scteVars, ttmlVars, udVars>>
    \/ /\ part = "teletext" /\ TeletextNext
       /\ UNCHANGED <<part, dvbVars, pgsVars, dvdVars, pesVars, txtVars, lineVars, vobVars, scteVars, ttmlVars, udVars>>
    \/ /\ part = "pes" /\ PesNext
       /\ UNCHANGED <<part, dvbVars, pgsVars, dvdVars, ttVars, txtVars, lineVars, vobVars, scteVars, ttmlVars, udVars>>
    \/ /\ part = "text" /\ TextNext
       /\ UNCHANGED <<part, dvbVars, pgsVars, dvdVars, ttVars, pesVars, lineVars, vobVars, scteVars, ttmlVars, udVars>>
    \/ /\ part = "lines" /\ LineNext
       /\ UNCHANGED <<part, dvbVars, pgsVars, dvdVars, ttVars, pesVars, txtVars, vobVars, scteVars, ttmlVars, udVars>>
    \/ /\ part = "vobsub" /\ VobNext
       /\ UNCHANGED <<part, dvbVars, pgsVars, dvdVars, ttVars, pesVars, txtVars, lineVars, scteVars, ttmlVars, udVars>>
    \/ /\ part = "scte" /\ ScteNext
       /\ UNCHANGED <<part, dvbVars, pgsVars, dvdVars, ttVars, pesVars, txtVars, lineVars, vobVars, ttmlVars, udVars>>
    \/ /\ part = "ttml" /\ TtmlNext
       /\ UNCHANGED <<part, dvbVars, pgsVars, dvdVars, ttVars, pesVars, txtVars, lineVars, vobVars, scteVars, udVars>>
    \/ /\ part = "userdata" /\ UserDataNext
       /\ UNCHANGED <<part, dvbVars, pgsVars, dvdVars, ttVars, pesVars, txtVars, lineVars, vobVars, scteVars, ttmlVars>>

MCSpec == MCInit /\ [][MCNext]_<<part, dvbVars, pgsVars, dvdVars, ttVars, pesVars, txtVars, lineVars,
                                 vobVars, scteVars, ttmlVars, udVars>>

-----------------------------------------------------------------------------
(* The pictures of a stream are made of what was sent for them: the lists of   *)
(* the DVB parser agree, whatever is freed and come again, and its pixels and  *)
(* regions stay in their buffers; a PGS display set that came whole is shown   *)
(* whole, its rows as they were encoded.                                       *)
PicturesDrawn ==
    /\ part = "dvb" => DisplaysLinked /\ PixelsInsideRegion /\ RegionsInsideBox
    /\ part = "pgs" => LossStaysInSet /\ RowsAsEncoded

(* What comes in pieces is put together again: DVD and VobSub subpictures and  *)
(* SCTE-27 messages are whole, at their own time and of their own track. The   *)
(* end of a DVD subpicture is that of its stop command, unless this starts in  *)
(* the last six bytes behind another sequence: it is not read (EndedBy).       *)
PiecesWhole ==
    /\ part = "dvd" => SubpictureWhole
    /\ part = "vobsub" => TrackShown
    /\ part = "scte" => MessagesWhole

(* Run lengths are drawn as they were encoded: the rows of a DVD subpicture    *)
(* and the two fields of a VobSub one, line by line, with the background       *)
(* exchanged for the colour that has no contrast (no claim where all four have *)
(* one: the exchange writes behind its array), and the pixels of an SCTE-27    *)
(* character with what its outline or shadow reaches and no more, as long as   *)
(* this lies in the bitmap; the code does not look whether it does.            *)
RunsDrawn ==
    /\ part = "dvd" => DvdRowsAsEncoded
    /\ part = "vobsub" => FieldsInterleaved
    /\ part = "scte" => GlyphsDrawn

(* No line, subtitle or image of a file is lost, doubled, cut or shown at the  *)
(* time of another: lines (LinesWhole), the twenty text formats (CuesDecoded), *)
(* TTML paragraphs and images (DocumentShown). The files that three of the     *)
(* formats do not read whole are named there (LostWithoutEnd, RepeatsLast).    *)
FilesRead ==
    /\ part = "lines" => LinesWhole
    /\ part = "text" => CuesDecoded
    /\ part = "ttml" => DocumentShown

(* The order that the streams have lost on the way is there again: each packet *)
(* gives its item, next to packets that were cut (PacketsRead), and captions   *)
(* come in the order of display (CaptionsInOrder).                             *)
StreamsInOrder ==
    /\ part = "pes" => PacketsRead
    /\ part = "userdata" => CaptionsInOrder
=============================================================================
