---------------------------- MODULE DvdSubpicture ---------------------------
(***************************************************************************)
(* The DVD subpicture decoder of parser/DvdParser.cpp: packets with a      *)
(* header are read from the source, the fragments of a subpicture joined,  *)
(* its commands carried out and its run lengths drawn.                     *)
(*                                                                         *)
(* Data is counted in words of four bytes.  A packet is a header of five   *)
(* words (the pts takes two), a duration and the data; the first word of a *)
(* subpicture holds its length.  Nothing else of the content is kept but   *)
(* its command sequences behind the first.                                 *)
(***************************************************************************)
EXTENDS SubpictureCode

CONSTANTS
    Pacings,      \* TRUE: a subpicture is sent whole and when the last was taken
    DvdLengths,   \* words of a subpicture
    DvdDelays,    \* its command sequences: [delay, stop, left]
    MaxSubpictures,
    DvdRows,      \* rows of runs to be drawn
    DvdRowWidth

ASSUME DvdAssumption ==
    /\ Pacings \subseteq BOOLEAN /\ DvdLengths \subseteq Nat \ {0}
    /\ MaxSubpictures \in Nat /\ DvdRowWidth \in Nat \ {0}
    /\ \A row \in DvdRows : Encodable(row, DvdRowWidth)
    \* command sequences are in order of time, one of them stops the display, and
    \* each has five bytes at least, six when it stops
    /\ DvdDelays \subseteq Seq([delay : Nat, stop : BOOLEAN, left : Nat])
    /\ \A delays \in DvdDelays :
         /\ \A i, j \in DOMAIN delays : i < j => /\ delays[i].delay <= delays[j].delay
                                                /\ delays[i].left >= delays[j].left + 5
         /\ \E i \in DOMAIN delays : delays[i].stop
         /\ \A i \in DOMAIN delays : delays[i].stop => delays[i].delay > 0 /\ delays[i].left >= 6

VARIABLES
    paced,
    sub,        \* the subpictures sent
    queued,     \* items of the source that have not been popped
    current,    \* what is left of the item that is being read
    at,         \* where the parser is: sizeflag and currentType in a round
    buf,        \* spuBuffer
    rest,       \* mRestbuf
    restLen,    \* mRestLen
    dvdShown,   \* frames that were queued for presentation; kept: read from rest
    drawn       \* rows given to spuFillPixel, their contrast, what it made of both

dvdVars == <<paced, sub, queued, current, at, buf, rest, restLen, dvdShown, drawn>>

Word(k, s, i) == [k |-> k, s |-> s, i |-> i]
Unset == Word("junk", 0, 0)
HeaderWords == 5

Waiting == [pc |-> "wait", sizeflag |-> 0, tmp |-> 0, vob |-> FALSE]

DvdInit ==
    /\ paced \in Pacings
    /\ sub = <<>> /\ queued = <<>> /\ current = <<>>
    /\ at = Waiting /\ buf = <<>> /\ rest = <<>> /\ restLen = 0
    /\ dvdShown = {} /\ drawn = <<>>

\* SubtitleReport's header of a fragment: sync, type, length, pts, duration
PacketOf(s, from, to) ==
    <<Word("sync", 0, 0), Word("type", 0, 0), Word("len", 0, to - from + 1),
      Word("ptsHi", s, 0), Word("ptsLo", s, 0), Word("dur", 0, 0)>>
    \o [i \in 1..to - from + 1 |-> Word("data", s, from + i - 1)]

SendSubpicture(len, delays, cut) ==
    LET s == Len(sub) + 1 IN
    /\ s <= MaxSubpictures /\ drawn = <<>>
    /\ paced => cut = len /\ queued = <<>> /\ current = <<>> /\ at = Waiting
    /\ sub' = Append(sub, [len |-> len, delays |-> delays])
    /\ queued' = queued \o IF cut = len THEN <<PacketOf(s, 1, len)>>
                           ELSE <<PacketOf(s, 1, cut), PacketOf(s, cut + 1, len)>>
    /\ UNCHANGED <<paced, current, at, buf, rest, restLen, dvdShown, drawn>>

-----------------------------------------------------------------------------
(* Reading.  A read waits until there is enough. *)

WordsOf(items) ==
    LET upTo[k \in 0..Len(items)] == IF k = 0 THEN 0 ELSE upTo[k - 1] + Len(items[k])
    IN  upTo[Len(items)]

Readable(n) == n <= Len(current) + WordsOf(queued)

\* The items that are popped for n words
Popped(n) ==
    CHOOSE k \in 0..Len(queued) :
        /\ Len(current) + WordsOf(SubSeq(queued, 1, k)) >= n
        /\ \A j \in 0..k - 1 : Len(current) + WordsOf(SubSeq(queued, 1, j)) < n

Taken(n) == SubSeq(current \o FlattenSeq(SubSeq(queued, 1, Popped(n))), 1, n)

ReadWords(n) ==
    /\ current' = LET all == current \o FlattenSeq(SubSeq(queued, 1, Popped(n)))
                  IN  SubSeq(all, n + 1, Len(all))
    /\ queued' = SubSeq(queued, Popped(n) + 1, Len(queued))

\* memcpy to a place of the buffer, counted from 0
Stored(b, place, words) ==
    LET end == place + Len(words)
        size == IF end > Len(b) THEN end ELSE Len(b)
    IN  [i \in 1..size |-> IF i > place /\ i <= end THEN words[i - place]
                           ELSE IF i <= Len(b) THEN b[i] ELSE Unset]

WordAt(b, place) == IF place + 1 <= Len(b) THEN b[place + 1] ELSE Unset
Slice(b, place, n) == [i \in 1..n |-> WordAt(b, place + i - 1)]

-----------------------------------------------------------------------------
(* A subpicture. *)

\* getSpuCmd: the first sequence is carried out, the others give m_delay; with words
\* among the data that are not its own the sequences are not where they should be
NoCommands == -1

GetSpuCmd(s, data, pts) ==
    LET later == DoDCSQC(sub[s].delays)
    IN  IF \E i \in DOMAIN data : data[i].k # "data" THEN NoCommands
        ELSE IF later > 0 THEN later * 1024 + pts ELSE 0

\* A round of getVobSpu's loop over the fragments in b from the given place on; the
\* header of a fragment that follows is taken to have a pts of one word.
JoinFragment(b, place, length, st) ==
    LET head == st.left = 0
        w == WordAt(b, place + st.rd + 2)
        n == IF ~head THEN st.left ELSE IF w.k = "len" THEN w.i ELSE 99
        from == IF head THEN st.rd + 4 ELSE st.rd
        got == st.data \o Slice(b, place + from, n)
        stopped(rd) == [rd |-> rd, left |-> st.left, data |-> st.data, ready |-> st.ready, done |-> TRUE]
    IN  IF st.done \/ Len(st.data) >= length THEN stopped(st.rd)
        ELSE IF head /\ WordAt(b, place + st.rd).k # "sync" THEN stopped(st.rd + 1)
        ELSE IF Len(got) > length THEN stopped(from)
        ELSE [rd |-> from + n, left |-> 0, data |-> got, ready |-> Len(got) = length,
              done |-> Len(got) = length]

\* Every round copies a word or is the last.
JoinFragments(b, place, left, length) ==
    LET round[i \in 0..length + 1] ==
          IF i = 0 THEN [rd |-> 0, left |-> left, data |-> <<>>, ready |-> FALSE, done |-> FALSE]
          ELSE JoinFragment(b, place, length, round[i - 1])
    IN  round[length + 1]

\* getVobSpu, for a length read from the first word
GetVobSpu(b, place, currentLen, length) ==
    IF currentLen = 0 THEN [rd |-> 1, data |-> <<>>, ready |-> FALSE]
    ELSE JoinFragments(b, place, currentLen, length)

-----------------------------------------------------------------------------
(* getSpu: a round takes what has been queued, and goes on with what it read  *)
(* too much; the header is always taken from the start of the buffer.         *)

DvdGetSpu ==
    /\ at.pc = "wait" /\ queued # <<>> /\ drawn = <<>>
    /\ at' = [pc |-> "header", sizeflag |-> WordsOf(queued) + restLen, tmp |-> 0,
              vob |-> FALSE]
    /\ buf' = <<>>
    /\ UNCHANGED <<paced, sub, queued, current, rest, restLen, dvdShown, drawn>>

\* The header is read unless it is in what was left.
ReadHeader ==
    /\ at.pc = "header" /\ at.sizeflag > 7
    /\ LET kept == Stored(buf, at.tmp, rest) IN
       IF at.vob /\ restLen > 0
       THEN /\ buf' = kept /\ at' = [at EXCEPT !.pc = "body"]
            /\ UNCHANGED <<queued, current>>
       ELSE /\ Readable(HeaderWords) /\ ReadWords(HeaderWords)
            /\ buf' = Stored(kept, at.tmp + restLen, Taken(HeaderWords))
            /\ at' = [pc |-> "body", sizeflag |-> at.sizeflag - HeaderWords,
                      tmp |-> at.tmp + HeaderWords, vob |-> at.vob]
    /\ UNCHANGED <<paced, sub, rest, restLen, dvdShown, drawn>>

\* The place of the piece in the buffer: where tmpSpuBuf stood before the header
DvdPiece == IF at.vob /\ restLen > 0 THEN at.tmp ELSE at.tmp - HeaderWords

\* A wrong header, or a packet longer than what is there: all is dropped.
DropAll ==
    /\ at.pc = "body" /\ Readable(at.sizeflag)
    /\ WordAt(buf, 0).k # "sync" \/ WordAt(buf, 2).i > at.sizeflag
    /\ ReadWords(at.sizeflag)
    /\ restLen' = IF WordAt(buf, 0).k = "sync" /\ restLen > 0 THEN restLen - 4 ELSE restLen
    /\ at' = Waiting
    /\ UNCHANGED <<paced, sub, buf, rest, dvdShown, drawn>>

ReadBody ==
    LET carried == IF restLen > 0 THEN restLen - 4 ELSE 0
        more == IF at.sizeflag > carried THEN at.sizeflag - carried ELSE 0
        b == Stored(buf, DvdPiece + carried + HeaderWords, Taken(more))
        place == DvdPiece + HeaderWords + 1        \* behind the duration
        first == WordAt(b, place)
        pts == WordAt(buf, 3).s
        s == first.s
    IN  /\ at.pc = "body" /\ WordAt(buf, 0).k = "sync" /\ WordAt(buf, 2).i <= at.sizeflag
        /\ Readable(more) /\ ReadWords(more)
        /\ \E length \in IF first.k = "data" /\ first.i = 1 THEN {sub[s].len}
                         ELSE {0} \cup DvdLengths :
              LET r == GetVobSpu(b, place, WordAt(buf, 2).i, length)
                  left == at.sizeflag - 1 - r.rd
                  again == left > 0 /\ WordAt(b, place + r.rd).k = "sync"
                  item == [data |-> r.data, pts |-> pts, kept |-> at.vob,
                           delay |-> IF r.ready /\ s > 0 THEN GetSpuCmd(s, r.data, pts) ELSE 0]
              IN  /\ rest' = IF again THEN Slice(b, place + r.rd, left) ELSE <<>>
                  /\ restLen' = IF again THEN left ELSE 0
                  /\ at' = [pc |-> "header", sizeflag |-> IF again THEN left ELSE 0,
                            tmp |-> at.tmp + WordAt(buf, 2).i, vob |-> TRUE]
                  /\ dvdShown' = IF r.ready THEN dvdShown \cup {item} ELSE dvdShown
        /\ buf' = b
        /\ UNCHANGED <<paced, sub, drawn>>

RoundEnds ==
    /\ at.pc = "header" /\ at.sizeflag <= 7
    /\ at' = Waiting /\ buf' = <<>>
    /\ UNCHANGED <<paced, sub, queued, current, rest, restLen, dvdShown, drawn>>

-----------------------------------------------------------------------------
(* spuFillPixel draws rows, here those of the second field. *)
DrawRows(rows, contrast) ==
    /\ sub = <<>> /\ drawn = <<>>
    /\ \E came \in FillOutcomes(SpuFillPixel(EncodedRows(rows), Len(rows), DvdRowWidth), contrast) :
          drawn' = <<rows, contrast, came, AlphaAfter(contrast)>>
    /\ UNCHANGED <<paced, sub, queued, current, at, buf, rest, restLen, dvdShown>>

DvdNext ==
    \/ \E len \in DvdLengths, delays \in DvdDelays : \E cut \in 1..len :
          SendSubpicture(len, delays, cut)
    \/ DvdGetSpu \/ ReadHeader \/ DropAll \/ ReadBody \/ RoundEnds
    \/ \E r1 \in DvdRows, r2 \in DvdRows, contrast \in [0..3 -> BOOLEAN] : DrawRows(<<r1, r2>>, contrast)

DvdSpec == DvdInit /\ [][DvdNext]_dvdVars

-----------------------------------------------------------------------------
(* A subpicture ends with its first stop command, except one that is the last
   six bytes and has a sequence before it: that one is not read, and the
   subpicture ends with the sequence before (DvdParser.cpp:142, 230-234). *)
EndedBy(seqs, e) ==
    \E n \in DOMAIN seqs :
        /\ seqs[n].stop /\ \A m \in 1..n - 1 : ~seqs[m].stop
        /\ e = IF n > 1 /\ seqs[n].left = 6 THEN n - 1 ELSE n

\* The rest of the header of a fragment that waited behind another one: the code
\* skips one word of its pts ("skip 4 bytes for pts", DvdParser.cpp:606-630), where
\* the packet has a second one and the duration (SubtitleReport's header).
HeaderWithin(data, s) ==
    \E c \in 1..sub[s].len - 1 :
        data = [i \in 1..sub[s].len |->
                  IF i <= c THEN Word("data", s, i)
                  ELSE IF i = c + 1 THEN Word("ptsLo", s, 0)
                  ELSE IF i = c + 2 THEN Word("dur", 0, 0)
                  ELSE Word("data", s, i - 2)]

(* A frame that is ready is one subpicture, whatever waits behind it: its words
   from first to last, the pts of its own packet, and the end its commands give
   it, none if that is 0.  Where its second fragment waited as the first was
   read, what the code leaves of the header (HeaderWithin) is within the words
   and moves those that follow, the commands with them, and nothing is claimed
   of its end.  Nothing is claimed of a frame read from what a round has kept of
   the one before it: the code takes it to have the header of that one.  Neither
   happens to a subpicture that is sent whole when the last was taken
   (DvdParser.cpp:87-145, 606-644, 724-869). *)
SubpictureWhole ==
    \A item \in dvdShown : paced \/ ~item.kept =>
      \E s \in DOMAIN sub :
        /\ item.pts = s
        /\ \/ /\ item.data = [i \in 1..sub[s].len |-> Word("data", s, i)]
              /\ \E e \in DOMAIN sub[s].delays :
                    /\ EndedBy(sub[s].delays, e)
                    /\ LET end == sub[s].delays[e].delay
                       IN  item.delay = IF end = 0 THEN 0 ELSE end * 1024 + s
           \/ ~paced /\ HeaderWithin(item.data, s)

(* A run of any length in any form, at an odd or even nibble, is drawn in its
   row, and the rows stay aligned; a background that has a contrast changes
   places with a colour that has none, in the rows and in the contrast alike,
   and no two colours become one.  Nothing is claimed when all four have one
   (DvdParser.cpp:246-279, 501-574). *)
DvdRowsAsEncoded ==
    (drawn # <<>> /\ ~AllContrasts(drawn[2])) =>
        /\ DOMAIN drawn[3] = DOMAIN drawn[1]
        /\ \A y \in DOMAIN drawn[1] : DrawnAs(drawn[1][y], drawn[3][y], drawn[2], drawn[4])
=============================================================================
