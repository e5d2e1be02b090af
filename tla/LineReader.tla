----------------------------- MODULE LineReader -----------------------------
(***************************************************************************)
(* ExtSubStreamReader::getLine (parser/ExtParser): the lines of a subtitle  *)
(* file, read into a buffer of LINE_LEN.  A file is a sequence of           *)
(* characters: "lf", "cr" or a letter; one of a UTF-16 file is a unit.      *)
(***************************************************************************)
EXTENDS Integers, FiniteSetsExt, SequencesExt

CONSTANTS
    LINE_LEN,          \* 512K bytes in the code
    Encodings,         \* "utf8" (or none), "utf16" (either order)
    TextFiles,         \* the files tried
    BackEncodings      \* encodings in which a decoder calls backtoLastLine

ASSUME LineReaderAssumption == LINE_LEN \in Nat \ {0} /\ Encodings \subseteq {"utf8", "utf16"}

VARIABLES mEncoding, fileBytes, unread, mBuffer, mFileRead, mLastLineLen, lines, lastLine

lineVars == <<mEncoding, fileBytes, unread, mBuffer, mFileRead, mLastLineLen, lines, lastLine>>

NoBuffer == <<"none">>                 \* mBuffer = nullptr
Chunk(text) == SubSeq(text, 1, Min({LINE_LEN, Len(text)}))
Beyond(text) == SubSeq(text, LINE_LEN + 1, Len(text))
\* The first line end at or after p, 0 if there is none.  In UTF-16 it is cr lf,
\* not looked for in the last two units.
NewLine(b, p) ==
    LET at == IF mEncoding = "utf8" THEN {i \in p .. Len(b) : b[i] = "lf"}
              ELSE {i \in p .. Len(b) - 2 : b[i] = "cr" /\ b[i + 1] = "lf"}
    IN  IF at = {} THEN 0 ELSE Min(at)
LineCharLen == IF mEncoding = "utf8" THEN 1 ELSE 2
\* A cr at the end is cut, which for UTF-16 is looked for in the wrong place.
Cut(line) == IF mEncoding = "utf8" /\ line # <<>> /\ line[Len(line)] = "cr"
             THEN SubSeq(line, 1, Len(line) - 1) ELSE line

LineInit ==
    /\ mEncoding \in Encodings /\ fileBytes \in TextFiles
    /\ unread = fileBytes /\ mBuffer = NoBuffer
    /\ mFileRead = 1 /\ mLastLineLen = 0
    /\ lines = <<>> /\ lastLine = "none"

\* What getLine leaves: the line, or "end" for nullptr.
Returns(line, b, left, fileRead, lastLen) ==
    /\ lines' = Append(lines, Cut(line)) /\ lastLine' = "line"
    /\ mBuffer' = b /\ unread' = left
    /\ mFileRead' = fileRead /\ mLastLineLen' = lastLen
    /\ UNCHANGED <<mEncoding, fileBytes>>
ReturnsNull(b, left) ==
    /\ lastLine' = "end" /\ mBuffer' = b /\ unread' = left
    /\ UNCHANGED <<mEncoding, fileBytes, lines, mFileRead, mLastLineLen>>

\* With buffer b, of which p is the next character, and left unread.
\* The look for the end reads one character beyond the buffer, where anything
\* may be; a UTF-16 buffer is moved up and filled again.
LineOf(b, p, left) ==
    LET e == NewLine(b, p)
        rest == SubSeq(b, p, Len(b)) IN
    \/ /\ b = <<>> \/ p > Len(b)
       /\ ReturnsNull(b, left)
    \/ /\ p <= Len(b) /\ e # 0
       /\ Returns(SubSeq(b, p, e - 1), b, left, e + LineCharLen, e + LineCharLen - p)
    \/ /\ p <= Len(b) /\ e = 0 /\ mEncoding = "utf8"
       /\ \/ ReturnsNull(b, left)
          \/ Returns(rest, b, left, Len(b) + 2, Len(rest) + 1)
    \/ /\ p <= Len(b) /\ e = 0 /\ mEncoding = "utf16"
       /\ LET more == rest \o Chunk(left)
              f == NewLine(more, 1) IN
          IF Len(rest) >= LINE_LEN THEN ReturnsNull(NoBuffer, left)
          ELSE IF left = <<>> THEN Returns(rest, NoBuffer, left, 1, 0)
          ELSE IF f # 0 THEN Returns(SubSeq(more, 1, f - 1), more, Beyond(left), f + 2, f + 1)
          ELSE IF Len(more) >= LINE_LEN THEN ReturnsNull(NoBuffer, Beyond(left))
          ELSE Returns(more, NoBuffer, Beyond(left), 1, 0)

getLine ==
    /\ lastLine # "end"
    /\ IF mBuffer = NoBuffer THEN LineOf(Chunk(unread), 1, Beyond(unread))
       ELSE LineOf(mBuffer, mFileRead, unread)

\* Mutant of backtoLastLine: the line end is not counted.
backtoLastLine_Short ==
    /\ mEncoding \in BackEncodings /\ lastLine = "line"
    /\ mFileRead' = IF mFileRead > mLastLineLen THEN mFileRead - mLastLineLen + LineCharLen ELSE 1
    /\ lines' = Front(lines) /\ lastLine' = "back"
    /\ UNCHANGED <<mEncoding, fileBytes, unread, mBuffer, mLastLineLen>>

\* A decoder that has read a line too many gives it back.
backtoLastLine ==
    /\ mEncoding \in BackEncodings /\ lastLine = "line"
    /\ mFileRead' = IF mFileRead - 1 > mLastLineLen THEN mFileRead - mLastLineLen ELSE 1
    /\ lines' = Front(lines) /\ lastLine' = "back"
    /\ UNCHANGED <<mEncoding, fileBytes, unread, mBuffer, mLastLineLen>>

LineNext == getLine \/ backtoLastLine
LineSpec == LineInit /\ [][LineNext]_lineVars

\* The lines of a text: what lies between its line ends, without them.
LinesOf(text) ==
    LET ends == SetToSortSeq({i \in DOMAIN text : text[i] = "lf"}, <)
        from(n) == IF n = 1 THEN 1 ELSE ends[n - 1] + 1
        Bare(s) == SelectSeq(s, LAMBDA ch : ch # "cr")
        tail == IF ends = <<>> THEN 1 ELSE ends[Len(ends)] + 1
    IN  [n \in DOMAIN ends |-> Bare(SubSeq(text, from(n), ends[n] - 1))]
            \o (IF tail > Len(text) THEN <<>> ELSE <<Bare(SubSeq(text, tail, Len(text)))>>)

(***************************************************************************)
(* getLine returns the lines of the file in their order, none of them in    *)
(* two pieces and none glued to the next, also where a buffer ends in the   *)
(* middle of one and where a decoder has gone back; when it says that there *)
(* are no more, none is missing, as long as the file is text with line ends *)
(* up to the last and fits: in UTF-16 each line, else the file as a whole.  *)
(* The last line of a UTF-16 file keeps its line end.                       *)
(***************************************************************************)
Fits == IF mEncoding = "utf8" THEN Len(fileBytes) <= LINE_LEN
        ELSE \A n \in DOMAIN LinesOf(fileBytes) : Len(LinesOf(fileBytes)[n]) + 4 <= LINE_LEN
LinesWhole ==
    LET Bare(s) == SelectSeq(s, LAMBDA ch : ch \notin {"cr", "lf"})
        got == [n \in DOMAIN lines |-> Bare(lines[n])] IN
    Fits => /\ IsPrefix(got, LinesOf(fileBytes))
            /\ (lastLine = "end" /\ fileBytes # <<>> /\ fileBytes[Len(fileBytes)] = "lf")
                   => got = LinesOf(fileBytes)
=============================================================================
