--------------------------- MODULE SubpictureCode ---------------------------
(***************************************************************************)
(* What a DVD subpicture holds, decoded alike by parser/DvdParser.cpp and   *)
(* parser/ExtParser/VobSubIndex.cpp: the delays of its command sequences,   *)
(* the run lengths of its fields and the exchange of its background; and an  *)
(* encoder to check them with.                                              *)
(*                                                                         *)
(* A command sequence is [delay, stop, left]: left is the number of bytes   *)
(* from its first to the end of the subpicture.                             *)
(***************************************************************************)
EXTENDS Integers, SequencesExt

\* getSpuCmd reads the sequence that follows its own if six bytes are left, and
\* doDCSQC, whose end is six bytes early, another one only if there are more.
Reads(seqs, i) == seqs[i].left >= IF i = 1 THEN 6 ELSE 7

\* Mutant of DoDCSQC: sequences after the one that stops count, too.
DoDCSQC_AfterStop(seqs) ==
    LET times == {seqs[i].delay : i \in {n \in DOMAIN seqs : Reads(seqs, n)}}
    IN  IF times = {} THEN 0 ELSE CHOOSE t \in times : \A u \in times : t >= u

\* doDCSQC: the largest delay of the sequences read up to the first that stops
DoDCSQC(seqs) ==
    LET upTo == {i \in DOMAIN seqs : Reads(seqs, i) /\ \A j \in 1..i - 1 : ~seqs[j].stop}
        times == {seqs[i].delay : i \in upTo}
    IN  IF times = {} THEN 0 ELSE CHOOSE t \in times : \A u \in times : t >= u

(* spuFillPixel: run lengths of one to four nibbles.  Each row begins on a    *)
(* byte; a run of 0 goes to the end of the row.                               *)

\* decodeRL of a 16 bit word: the nibbles used, the run and its colour
DecodeRL(w) ==
    LET code(n, unit) == [nibbles |-> n, run |-> (w \div unit) \div 4, colour |-> (w \div unit) % 4]
    IN  IF w \div 16384 # 0 THEN code(1, 4096)
        ELSE IF (w \div 4096) % 4 # 0 THEN code(2, 256)
        ELSE IF (w \div 1024) % 4 # 0 THEN code(3, 16)
        ELSE code(4, 1)

\* getWordFromPixBuffer at a nibble
GetWord(nibbles, p) ==
    LET n(i) == IF p + i <= Len(nibbles) THEN nibbles[p + i] ELSE 0
    IN  n(1) * 4096 + n(2) * 256 + n(3) * 16 + n(4)

\* Mutant of FillCode: a run of 0 is a whole row, whatever there is already.
FillCode_WholeRow(nibbles, st, width) ==
    LET c == DecodeRL(GetWord(nibbles, st.p))
        run == IF c.run = 0 THEN width ELSE c.run
    IN  IF st.count >= width THEN st
        ELSE [p |-> st.p + c.nibbles, count |-> st.count + run, row |-> Append(st.row, <<run, c.colour>>)]

\* A code of a row that is not full yet
FillCode(nibbles, st, width) ==
    LET c == DecodeRL(GetWord(nibbles, st.p))
        run == IF c.run = 0 THEN width - (st.count % width) ELSE c.run
    IN  IF st.count >= width THEN st
        ELSE [p |-> st.p + c.nibbles, count |-> st.count + run, row |-> Append(st.row, <<run, c.colour>>)]

\* A row starts with what the last one had too much; every code fills a pixel at least.
FillRow(nibbles, p, count, width) ==
    LET after[n \in 0..width] ==
          IF n = 0 THEN [p |-> p, count |-> count, row |-> <<>>]
          ELSE FillCode(nibbles, after[n - 1], width)
        full == after[width]
    IN  [p |-> full.p + (full.p % 2), carry |-> full.count - width, row |-> full.row]

NextRow(nibbles, st, width) ==
    LET from[q \in Nat \X Nat] == FillRow(nibbles, q[1], q[2], width)
        r == from[<<st.p, st.carry>>]
    IN  [p |-> r.p, carry |-> r.carry, rows |-> Append(st.rows, r.row)]

SpuFillPixel(nibbles, height, width) ==
    LET after[y \in 0..height] ==
          IF y = 0 THEN [p |-> 0, carry |-> 0, rows |-> <<>>]
          ELSE NextRow(nibbles, after[y - 1], width)
    IN  after[height].rows

(* A background that has a contrast changes places with the first colour that   *)
(* has none: contrast says of each of the four whether its digit is not 0.      *)

AllContrasts(contrast) == \A colour \in 0..3 : contrast[colour]

\* change_data: 0 for no exchange, and 4 when all four have a contrast
ChangeData(contrast) ==
    IF ~contrast[0] THEN 0
    ELSE CHOOSE k \in 1..4 : (k = 4 \/ ~contrast[k]) /\ \A i \in 1..k - 1 : contrast[i]

\* PixelData: what is written for a colour; 4 does not fit the two bits of a pixel
PixelData(contrast, colour) ==
    LET change == ChangeData(contrast)
    IN  IF colour = 0 THEN change ELSE IF colour = change THEN 0 ELSE colour

\* spu_alpha after the second field; for a change of 4 the new digit is cut off
AlphaAfter(contrast) ==
    LET change == ChangeData(contrast)
    IN  IF change = 0 THEN contrast ELSE [c \in 0..3 |-> c # 0 /\ (c = change \/ contrast[c])]

Exchanged(rows, contrast) ==
    [y \in DOMAIN rows |-> [n \in DOMAIN rows[y] |->
        <<rows[y][n][1], PixelData(contrast, rows[y][n][2])>>]]

\* PixelData[4] is behind the end of the array. What the write hits is not defined:
\* the rows are drawn, or none are (a counter next to the array set to 0).
FillOutcomes(rows, contrast) ==
    {Exchanged(rows, contrast)} \cup IF AllContrasts(contrast) THEN {[y \in DOMAIN rows |-> <<>>]} ELSE {}

\* A row as it was encoded: its runs, no two colours made one, and for every pixel a
\* new contrast of 0 if and only if its colour had one before
DrawnAs(row, came, contrast, after) ==
    /\ DOMAIN came = DOMAIN row
    /\ \A n \in DOMAIN row :
          /\ came[n][1] = row[n][1] /\ came[n][2] \in 0..3
          /\ PixelData(contrast, came[n][2]) = row[n][2]
          /\ after[came[n][2]] = contrast[row[n][2]]

\* An encoder: the shortest form of each run, the last of a row as a run of 0
Encoded(run, colour, last) ==
    LET c == (IF last THEN 0 ELSE run) * 4 + colour
    IN  IF last \/ run >= 64 THEN <<c \div 4096, (c \div 256) % 16, (c \div 16) % 16, c % 16>>
        ELSE IF run >= 16 THEN <<c \div 256, (c \div 16) % 16, c % 16>>
        ELSE IF run >= 4 THEN <<c \div 16, c % 16>> ELSE <<c>>

EncodedRow(row) ==
    LET ns == FlattenSeq([i \in DOMAIN row |-> Encoded(row[i][1], row[i][2], i = Len(row))])
    IN  IF Len(ns) % 2 = 1 THEN Append(ns, 0) ELSE ns
EncodedRows(rows) == FlattenSeq([y \in DOMAIN rows |-> EncodedRow(rows[y])])

\* A row that the encoder takes: its runs fill the width, and each but the last,
\* which goes to the end of the row, has a code of its own
PixelsUpTo(row) ==
    LET upTo[n \in 0..Len(row)] == IF n = 0 THEN 0 ELSE upTo[n - 1] + row[n][1]
    IN  upTo
Encodable(row, width) ==
    /\ row \in Seq((Nat \ {0}) \X (0..3)) /\ row # <<>>
    /\ PixelsUpTo(row)[Len(row)] = width
    /\ \A i \in 1..Len(row) - 1 : row[i][1] < 256
=============================================================================
