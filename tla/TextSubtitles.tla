--------------------------- MODULE TextSubtitles ----------------------------
(***************************************************************************)
(* External subtitle files (subtitle/parser/ExtParser): the decoders of     *)
(* nineteen text formats, the list that they fill and the parser thread     *)
(* that hands its items to the presentation.                                *)
(*                                                                         *)
(* A file is a sequence of lines as getLine returns them.  A line is what   *)
(* the scanf patterns of its format make of it: "time", with one or two     *)
(* times, the tags that repeat a lyric, and perhaps text; "text"; "blank";  *)
(* "head" for a line that no pattern knows.  A text is a sequence of pieces *)
(* ('|', <br> and line ends lie between them), times are hundredths of a    *)
(* second or what the format counts in.                                     *)
(***************************************************************************)
EXTENDS Integers, FiniteSetsExt, SequencesExt

CONSTANTS
    Formats,                  \* the formats tried
    Cues,                     \* the lists of subtitles tried: [a, b, text]
    Rates,                    \* frame rates that a {1}{1} line may give
    mMaxSpuItems,             \* items queued for the presentation
    MaxSubtitles              \* bound: subtitles for which there is memory

ASSUME TextSubtitlesAssumption ==
    mMaxSpuItems \in Nat \ {0} /\ Rates \subseteq Nat \ {0} /\ MaxSubtitles \in Nat

VARIABLES
    fmt, cues, rate,          \* what was written
    marked,                   \* it marks where each subtitle ends, the last one too
    file,
    cuesRead,                \* the next line
    dec,                      \* fields of the decoder
    subtitles,                \* mSubData.subtitles
    cuesDecoded,                  \* decodeSubtitles has ended
    mDecodedSpu,
    handedOver                \* ghost: what the presentation took

txtVars == <<fmt, cues, rate, marked, file, cuesRead, dec, subtitles, cuesDecoded, mDecodedSpu, handedOver>>

(***************************************************************************)
(* Lines.                                                                  *)
(***************************************************************************)
Timed(a, b, text) == [k |-> "time", a |-> a, b |-> b, t |-> text, more |-> <<>>]
TextLine(piece) == [k |-> "text", a |-> 0, b |-> 0, t |-> <<piece>>, more |-> <<>>]
Blank == [k |-> "blank", a |-> 0, b |-> 0, t |-> <<>>, more |-> <<>>]
NoLine == [Blank EXCEPT !.k = "head"]

EndOfFile == Len(file) + 1
IsTime(i) == i <= Len(file) /\ file[i].k = "time"
IsBlank(i) == i <= Len(file) /\ file[i].k = "blank"
Stamps == {i \in DOMAIN file : IsTime(i)}
Blanks == {i \in DOMAIN file : IsBlank(i)}
First(p, wanted) == Min((wanted \cap p .. Len(file)) \cup {EndOfFile})
Texts(i, j) == FlattenSeq([n \in 1 .. (j - i) |-> file[i + n - 1].t])   \* of lines i to j-1
NoItem == [start |-> -1, end |-> -1, text |-> <<>>]
Item(a, b, text) == [start |-> a, end |-> b, text |-> text]
Gives(item, next) == [item |-> item, next |-> next, dec |-> dec]
Ends == Gives(NoItem, EndOfFile)

(***************************************************************************)
(* decodedItem of each format, from line p on: the item, the next line and  *)
(* the decoder's fields.                                                    *)
(***************************************************************************)
Subrip(p) ==
    LET i == First(p, Stamps) IN
    IF i + 1 > Len(file) THEN Ends
    ELSE Gives(Item(file[i].a, file[i].b, file[i + 1].t), i + 2)

\* A time with nothing under it is passed over.
Filled == {i \in Stamps : i < Len(file) /\ i + 1 \notin Blanks}
SubViewer(p) ==
    LET i == First(p, Filled)
        e == First(i + 1, Blanks) IN
    IF i > Len(file) THEN Ends
    ELSE Gives(Item(file[i].a, file[i].b, Texts(i + 1, e)), e + 1)
SubViewer3(p) ==
    LET i == First(p, Filled) IN
    IF i > Len(file) THEN Ends ELSE Gives(Item(file[i].a, file[i].b, file[i + 1].t), i + 2)

\* The end of the file inside a text loses that text.
SimpleWebVtt(p) ==
    LET i == First(p, Stamps)
        e == First(i + 1, Blanks) IN
    IF e > Len(file) THEN Ends
    ELSE Gives(Item(file[i].a, file[i].b, Texts(i + 1, e)), e + 1)

\* Each time counts from the one before.
Mpsub(p) ==
    LET i == First(p, Stamps)
        e == First(i + 1, Blanks)
        start == dec.mPosition + file[i].a IN
    IF i > Len(file) THEN Ends
    ELSE [Gives(Item(start, start + file[i].b, Texts(i + 1, e)), e + 1)
              EXCEPT !.dec.mPosition = start + file[i].b]

\* A later time of the block overwrites the end.
Subrip09(p) ==
    LET i == First(p, Stamps)
        e == First(i + 1, Blanks)
        later == {j \in i + 1 .. e - 1 : IsTime(j)} IN
    IF i > Len(file) THEN Ends
    ELSE Gives(Item(file[i].a, IF later = {} THEN 0 ELSE file[Max(later)].a,
                    Texts(i + 1, e)), e + 1)

WithText == {i \in Stamps : file[i].t # <<>>}
\* Times in units of n/d hundredths of a second
OneLine(p, n, d) ==
    LET i == First(p, WithText) IN
    IF i > Len(file) THEN Ends
    ELSE Gives(Item((file[i].a * n) \div d, (file[i].b * n) \div d, file[i].t), i + 1)
Mplayer2(p) == OneLine(p, 10, 1)
SubStationAlpha(p) == OneLine(p, 1, 1)
Jacosub(p) == OneLine(p, 1, 1)
Pjs(p) == OneLine(p, 100, 15)
\* An end that is not given is two seconds after the start.
RealText(p) ==
    LET r == OneLine(p, 1, 1) IN
    IF r.item # NoItem /\ r.item.end = 0 THEN [r EXCEPT !.item.end = r.item.start + 200] ELSE r

\* A line that starts at frame 1 gives the frame rate: the first one the
\* decoder's lines hold until a subtitle is found counts last.
Framed(p) ==
    LET i == First(p, {j \in WithText : file[j].a # 1})
        given == {j \in WithText \cap p .. i - 1 : file[j].b > 0}
        mPtsRate == IF given = {} THEN dec.mPtsRate ELSE file[Max(given)].b IN
    IF i > Len(file) THEN Ends
    ELSE [Gives(Item((file[i].a * 100) \div mPtsRate, (file[i].b * 100) \div mPtsRate,
                     file[i].t), i + 1) EXCEPT !.dec.mPtsRate = mPtsRate]

\* The end is the time of the next line or of the one after it, to which the
\* reader goes back (backtoLastLine), whether it holds a time or not.
SubViewer2(p) ==
    LET i == First(p, Stamps)
        n == IF i <= Len(file) /\ file[i].t = <<>> THEN i + 2 ELSE i + 1
        text == IF n = i + 1 THEN file[i].t ELSE IF i < Len(file) THEN file[i + 1].t ELSE <<>>
        next == IF n > Len(file) \/ IsTime(n) THEN n ELSE n + 1 IN
    IF i > Len(file) THEN Ends
    ELSE Gives(Item(file[i].a, IF IsTime(next) THEN file[next].a ELSE file[i].a + 200, text), next)

\* Text and end are blocks of their own.  What is no end is passed over.
Aqtitle(p) ==
    LET filled == DOMAIN file \ Blanks
        i == First(p, Stamps)
        s == First(i + 1, filled)
        e == First(s + 1, Blanks)
        m == First(e + 1, filled) IN
    IF m > Len(file) THEN Ends
    ELSE IF ~IsTime(m) THEN Gives(NoItem, m + 1)
    ELSE Gives(Item(file[i].a, file[m].a, Texts(s, e)), m + 1)

\* The line after a subtitle is kept for the next call if it has a text, gives
\* the end if it has a time only, and is dropped otherwise.  At the end of the
\* file only Lyrics forgets the line that it has kept.
Looked(p, i, length, kept) ==
    LET held == dec.mReuseBuffer # NoLine
        cue == IF held THEN dec.mReuseBuffer ELSE file[i]
        next == IF held THEN p ELSE i + 1
        line == IF next > Len(file) THEN Blank ELSE file[next]
        end == IF line.k = "time" /\ line.t = <<>> THEN line.a ELSE cue.a + length
    IN  [item |-> Item(cue.a, end, cue.t), next |-> Min({next + 1, EndOfFile}),
         dec |-> [dec EXCEPT !.mReuseBuffer =
                      IF next > Len(file) THEN kept
                      ELSE IF line.k = "time" /\ line.t # <<>> THEN line ELSE NoLine]]
Vplayer(p) ==
    LET i == First(p, WithText) IN
    IF dec.mReuseBuffer = NoLine /\ i > Len(file) THEN Ends
    ELSE Looked(p, i, 200, dec.mReuseBuffer)
\* A lyric with several times is cuesDecoded once for each of them.
Lyrics(p) ==
    LET i == First(p, WithText)
        held == dec.mReuseBuffer # NoLine
        cue == IF held THEN dec.mReuseBuffer ELSE file[i] IN
    IF ~held /\ i > Len(file) THEN Ends
    ELSE IF cue.more = <<>> THEN Looked(p, i, 400, NoLine)
    ELSE [item |-> Item(cue.a, cue.a + 400, cue.t), next |-> IF held THEN p ELSE i + 1,
          dec |-> [dec EXCEPT !.mReuseBuffer = [cue EXCEPT !.a = Head(cue.more),
                                                           !.more = Tail(cue.more)]]]

\* A Start tag ends the subtitle before it; its line is then gone for the next
\* call.  One without text moves the start on.
Sami(p) ==
    LET Block(i) == Texts(i, First(i + 1, Stamps))
        told == {i \in Stamps : Block(i) # <<>> \/ First(i + 1, Stamps) > Len(file)}
        first == First(p, Stamps)
        i == First(p, told)
        j == First(i + 1, Stamps)
        end == IF j <= Len(file) THEN file[j].a - 1 ELSE IF i > first THEN file[i].a - 1 ELSE file[i].a
        text == IF j <= Len(file) \/ i = first THEN Block(i) ELSE <<>> IN
    IF i > Len(file) THEN Ends
    ELSE IF j > Len(file) /\ (file[i].a = 0 \/ (i = first /\ Block(i) = <<>>)) THEN Ends
    ELSE Gives(Item(file[i].a, end, text), Min({j + 1, EndOfFile}))

\* The XML formats: parseXml has made the list before.
Paragraph(p, unit, length) ==
    LET start == file[p].a \div unit
        end == file[p].b \div unit IN
    IF p > Len(file) \/ file[p].a < 0 THEN Ends
    ELSE Gives(Item(start, IF end <= start THEN start + length ELSE end, file[p].t), p + 1)

decodedItem(p) ==
    CASE fmt = "Subrip" -> Subrip(p)
      [] fmt = "Subrip09" -> Subrip09(p)
      [] fmt = "SubViewer" -> SubViewer(p)
      [] fmt = "SubViewer2" -> SubViewer2(p)
      [] fmt = "SubViewer3" -> SubViewer3(p)
      [] fmt = "WebVtt" -> SimpleWebVtt(p)
      [] fmt = "Mpsub" -> Mpsub(p)
      [] fmt = "Mplayer2" -> Mplayer2(p)
      [] fmt \in {"Mircodvd", "Mplayer1"} -> Framed(p)
      [] fmt = "Pjs" -> Pjs(p)
      [] fmt = "Aqtitle" -> Aqtitle(p)
      [] fmt = "Vplayer" -> Vplayer(p)
      [] fmt = "Lyrics" -> Lyrics(p)
      [] fmt = "RealText" -> RealText(p)
      [] fmt = "SubStationAlpha" -> SubStationAlpha(p)
      [] fmt = "Jacosub" -> Jacosub(p)
      [] fmt = "Sami" -> Sami(p)
      [] fmt = "XmlSubtitle" -> Paragraph(p, 10, 2000)
      [] fmt = "TTML" -> Paragraph(p, 1, 200)

(***************************************************************************)
(* A file of format f, as its specification has subtitles written: from c.a *)
(* to c.b, a text of some pieces.  Where a format may leave the end out (it *)
(* has none, or marks it with a time of its own) a file that is not marked  *)
(* does, and no file of that kind has an empty line behind its last text.   *)
(***************************************************************************)
Under(text) == [n \in DOMAIN text |-> TextLine(text[n])]
WrittenCue(f, c, before) ==
    LET mark == IF marked THEN <<Timed(c.b, 0, <<>>)>> ELSE <<>> IN
    CASE f \in {"Subrip", "SubViewer3"} ->
              <<Timed(c.a, c.b, <<>>), [TextLine("") EXCEPT !.t = c.text], Blank>>
      [] f \in {"SubViewer", "WebVtt"} -> <<Timed(c.a, c.b, <<>>)>> \o Under(c.text) \o <<Blank>>
      [] f = "Mpsub" -> <<Timed(c.a - before, c.b - c.a, <<>>)>> \o Under(c.text) \o <<Blank>>
      [] f = "Subrip09" -> <<Timed(c.a, 0, <<>>)>> \o Under(c.text) \o <<Timed(c.b, 0, <<>>), Blank>>
      [] f = "Aqtitle" -> <<Timed(c.a, 0, <<>>)>> \o Under(c.text)
                              \o <<Blank, Timed(c.b, 0, <<>>), Blank>>
      [] f \in {"Vplayer", "Sami"} -> <<Timed(c.a, 0, c.text)>> \o mark
      [] f = "Lyrics" -> <<[Timed(c.a - 1, 0, c.text) EXCEPT !.more = <<c.a>>]>> \o mark
      [] f = "SubViewer2" -> <<Timed(c.a, 0, c.text)>>
      [] f = "XmlSubtitle" -> <<Timed(c.a * 10, IF marked THEN c.b * 10 ELSE 0, c.text)>>
      [] f \in {"TTML", "RealText", "Mircodvd"} -> <<Timed(c.a, IF marked THEN c.b ELSE 0, c.text)>>
      [] OTHER -> <<Timed(c.a, c.b, c.text)>>
Written(f, cs, r) ==
    LET whole ==
            (CASE f \in {"Mircodvd", "Mplayer1"} -> <<Timed(1, r, <<"rate">>)>>
               [] f = "Jacosub" -> <<NoLine, Blank>>
               [] f \in {"XmlSubtitle", "TTML"} -> <<>>
               [] OTHER -> <<NoLine>>)
            \o FlattenSeq([n \in DOMAIN cs |-> WrittenCue(f, cs[n], IF n = 1 THEN 0 ELSE cs[n - 1].b)])
    IN  IF ~marked /\ cs # <<>> /\ Last(whole) = Blank THEN Front(whole) ELSE whole

(***************************************************************************)
(* What the subtitles of that file are.  Each format has its own length for *)
(* one without an end; Mircodvd has none.                                   *)
(***************************************************************************)
ExpectedCue(f, cs, n, r) ==
    LET c == cs[n]
        End(length) == IF marked THEN c.b ELSE c.a + length
        Frames(x, per) == (x * 100) \div per IN
    CASE f = "Mplayer2" -> <<Item(c.a * 10, c.b * 10, c.text)>>
      [] f = "Mircodvd" -> <<Item(Frames(c.a, r), IF marked THEN Frames(c.b, r) ELSE 0, c.text)>>
      [] f = "Mplayer1" -> <<Item(Frames(c.a, r), Frames(c.b, r), c.text)>>
      [] f = "Pjs" -> <<Item(Frames(c.a, 15), Frames(c.b, 15), c.text)>>
      [] f = "SubViewer2" -> <<Item(c.a, IF n = Len(cs) THEN c.a + 200 ELSE cs[n + 1].a, c.text)>>
      [] f = "Sami" -> <<Item(c.a, IF marked THEN c.b - 1
                                   ELSE IF n = Len(cs) THEN c.a ELSE cs[n + 1].a - 1, c.text)>>
      [] f = "Lyrics" -> <<Item(c.a - 1, c.a + 399, c.text), Item(c.a, End(400), c.text)>>
      [] f \in {"Vplayer", "TTML", "RealText"} -> <<Item(c.a, End(200), c.text)>>
      [] f = "XmlSubtitle" -> <<Item(c.a, End(2000), c.text)>>
      [] OTHER -> <<Item(c.a, c.b, c.text)>>
Subtitles(numbers) ==
    FlattenSeq([n \in DOMAIN cues |-> IF n \in numbers THEN ExpectedCue(fmt, cues, n, rate) ELSE <<>>])

-----------------------------------------------------------------------------
(* The decoder is made, which for Jacosub reads the header and the line       *)
(* after it (rewindStream never rewinds), and reads the file to its end.      *)
TextInit ==
    /\ fmt \in Formats /\ cues \in Cues /\ rate \in Rates /\ marked \in BOOLEAN
    /\ file = Written(fmt, cues, rate)
    /\ LET body == {i \in DOMAIN file : file[i].k # "head"}
       IN cuesRead = IF fmt = "Jacosub" THEN Min({First(1, body) + 1, EndOfFile}) ELSE 1
    /\ dec = [mPtsRate |-> 15, mPosition |-> 0, mReuseBuffer |-> NoLine]
    /\ subtitles = <<>> /\ cuesDecoded = FALSE
    /\ mDecodedSpu = <<>> /\ handedOver = <<>>

decodeSubtitles ==
    LET r == decodedItem(cuesRead) IN
    /\ ~cuesDecoded /\ Len(subtitles) < MaxSubtitles
    /\ cuesRead' = r.next /\ dec' = r.dec
    /\ subtitles' = IF r.item = NoItem THEN subtitles ELSE Append(subtitles, r.item)
    /\ cuesDecoded' = (r.item = NoItem /\ r.next = EndOfFile)
    /\ UNCHANGED <<fmt, cues, rate, marked, file, mDecodedSpu, handedOver>>

\* A round of the parser thread (parse, getSpu, popDecodedItem), and the
\* presentation that takes what is cuesDecoded.
popDecodedItem ==
    /\ cuesDecoded /\ subtitles # <<>> /\ Len(mDecodedSpu) < mMaxSpuItems
    /\ mDecodedSpu' = Append(mDecodedSpu, Head(subtitles))
    /\ subtitles' = Tail(subtitles)
    /\ UNCHANGED <<fmt, cues, rate, marked, file, cuesRead, dec, cuesDecoded, handedOver>>
consumeDecodedItem ==
    /\ mDecodedSpu # <<>>
    /\ handedOver' = Append(handedOver, Head(mDecodedSpu))
    /\ mDecodedSpu' = Tail(mDecodedSpu)
    /\ UNCHANGED <<fmt, cues, rate, marked, file, cuesRead, dec, subtitles, cuesDecoded>>

TextNext == decodeSubtitles \/ popDecodedItem \/ consumeDecodedItem
TextSpec == TextInit /\ [][TextNext]_txtVars

(***************************************************************************)
(* Whatever the format, the subtitles that reach the presentation, the ones *)
(* on their way included, are those of the file, each once, in order, with  *)
(* its own times and its whole text; once the file is read none is missing. *)
(* The decoders differ in where a subtitle ends, and what they read to find *)
(* out belongs to the next one.  A file that leaves the ends out is an      *)
(* exception in three formats: WebVTT has lost its last subtitle, Sami each *)
(* second one, whose Start tag was read as an end, and VPlayer reads its    *)
(* last one again for as long as there is memory.                           *)
(***************************************************************************)
DecodedCues == handedOver \o mDecodedSpu \o subtitles
LostWithoutEnd == IF marked THEN {}
                  ELSE IF fmt = "WebVtt" THEN {Len(cues)}
                  ELSE IF fmt = "Sami" THEN {n \in DOMAIN cues : n % 2 = 0} ELSE {}
RepeatsLast == ~marked /\ fmt = "Vplayer" /\ Len(cues) > 1
CuesDecoded ==
    LET expected == Subtitles(DOMAIN cues \ LostWithoutEnd)
        n == Min({Len(DecodedCues), Len(expected)})
        again == SubSeq(DecodedCues, n + 1, Len(DecodedCues)) IN
    /\ IsPrefix(SubSeq(DecodedCues, 1, n), expected)
    /\ again # <<>> => RepeatsLast /\ ToSet(again) = {Last(expected)}
    /\ cuesDecoded => DecodedCues = expected
=============================================================================
