---------------------------- MODULE DecoderProofs ----------------------------
(* The decoders, for every value of the constants: the messages of SCTE-27,    *)
(* the navigation in teletext, the lists, pixels and regions of DVB, the       *)
(* fragments and rows of PGS, and the captions in the data of the video.       *)
EXTENDS MC_Decoders, Induction, SequenceTheorems, FiniteSetTheorems, TLAPS

-----------------------------------------------------------------------------
(* SCTE-27                                                                     *)

Pieces == [ext : Nat, no : Nat]

Contexts == [container : Seq(Pieces), table_ext : Nat, curr_no : Int, last_no : Int, has : BOOLEAN]

\* Segments of one message, one after the other
RunOf(body) ==
    /\ body \in Seq(Pieces) /\ body # <<>>
    /\ \A i \in DOMAIN body : body[i].ext = body[1].ext /\ body[i].no = body[1].no + i - 1

ScteTypes ==
    /\ sending \in [ext : Nat, segs : Nat, next : Nat] /\ sending.next <= Sections
    /\ sending.ext <= MaxMessages /\ lost \subseteq 1 .. sending.ext
    /\ mContext \in Contexts /\ messages \in Seq(Seq(Pieces))

\* What is collected is a run of one message. Without its first segment it is
\* of a message of which one was lost, and is not continued
Collected ==
    mContext.has =>
       LET body == mContext.container IN
       /\ RunOf(body) /\ body[1].ext \in 1 .. sending.ext
       /\ mContext.curr_no = body[1].no + Len(body) - 1
       /\ mContext.table_ext \in {0, body[1].ext}
       /\ body[1].ext \notin lost => body[1].no = 0

\* Of a message of which nothing was lost, all that was sent is there
Complete ==
    sending.ext \notin lost /\ 0 < sending.next /\ sending.next < sending.segs =>
       /\ mContext.has /\ mContext.table_ext = sending.ext
       /\ mContext.curr_no = sending.next - 1 /\ Len(mContext.container) = sending.next

\* A body is a run of a message that was sent, and that of the message being
\* sent comes with its last section
Bodies ==
    \A n \in DOMAIN messages :
       LET body == messages[n] IN
       /\ RunOf(body) /\ body[1].ext \in 1 .. sending.ext
       /\ sending.next < Sections => body[1].ext < sending.ext
       /\ body[1].ext \notin lost => body[1].no = 0
       /\ n > 1 => body[1].ext > messages[n - 1][1].ext

ScteInv ==
    /\ ScteTypes /\ (sending.next < Sections => sending.ext > 0) /\ Collected /\ Complete /\ Bodies /\ MessagesWhole
    /\ ~mContext.has => mContext = Clean

LEMMA RunStarts ==
    ASSUME NEW p \in Pieces
    PROVE  RunOf(<<p>>) /\ <<p>>[1] = p /\ Len(<<p>>) = 1
BY DEF RunOf, Pieces

LEMMA RunGrows ==
    ASSUME NEW body, RunOf(body), NEW p \in Pieces,
           p.ext = body[1].ext, p.no = body[1].no + Len(body)
    PROVE  /\ RunOf(Append(body, p)) /\ Append(body, p)[1] = body[1]
           /\ Len(Append(body, p)) = Len(body) + 1 /\ Len(body) \in Nat \ {0}
<1> DEFINE s == Append(body, p)
<1>1. body \in Seq(Pieces) /\ Len(body) \in Nat \ {0} /\ DOMAIN body = 1 .. Len(body)
  BY DEF RunOf
<1>2. s \in Seq(Pieces) /\ Len(s) = Len(body) + 1 /\ DOMAIN s = 1 .. Len(body) + 1 /\ s # <<>>
  BY <1>1
<1>3. s[Len(body) + 1] = p /\ \A i \in 1 .. Len(body) : s[i] = body[i]
  BY <1>1
<1> HIDE DEF s
<1>4. s[1] = body[1] /\ body[1].no \in Nat
  <2>1. 1 \in 1 .. Len(body) /\ body[1] \in Pieces
    BY <1>1
  <2> QED BY <1>3, <2>1 DEF Pieces
<1>5. ASSUME NEW i \in DOMAIN s PROVE s[i].ext = s[1].ext /\ s[i].no = s[1].no + i - 1
  <2>1. CASE i = Len(body) + 1
    BY <1>1, <1>3, <1>4, <2>1
  <2>2. CASE i # Len(body) + 1
    <3>1. i \in 1 .. Len(body) /\ i \in DOMAIN body
      BY <1>1, <1>2, <2>2
    <3> QED BY <1>3, <1>4, <3>1 DEF RunOf
  <2> QED BY <2>1, <2>2
<1> QED BY <1>1, <1>2, <1>4, <1>5 DEF RunOf, s

LEMMA CleanContext == Clean \in Contexts /\ Clean.container = <<>> /\ Clean.table_ext = 0 /\ ~Clean.has
<1>1. <<>> \in Seq(Pieces)
  OBVIOUS
<1> QED BY <1>1 DEF Clean, Contexts

LEMMA ScteInvInit == ScteInit => ScteInv
<1> SUFFICES ASSUME ScteInit PROVE ScteInv
  OBVIOUS
<1>1. <<>> \in Seq(Pieces) /\ <<>> \in Seq(Seq(Pieces)) /\ DOMAIN <<>> = {}
  OBVIOUS
<1>2. ScteTypes
  BY <1>1, ScteAssumption DEF ScteInit, ScteTypes, Contexts, Clean, Sections
<1> QED
  BY <1>1, <1>2 DEF ScteInit, ScteInv, Collected, Complete, Bodies, MessagesWhole, Clean,
                  Sections

(* The body of a message is put behind those of the messages before it.        *)
LEMMA BodyComes ==
    ASSUME ScteInv, NEW body, RunOf(body), body[1].ext = sending.ext, sending.ext \in Nat \ {0},
           sending.ext \notin lost => body[1].no = 0,
           sending.next = Sections - 1, messages' = Append(messages, body),
           sending' = [sending EXCEPT !.next = @ + 1], lost' = lost
    PROVE  /\ messages' \in Seq(Seq(Pieces)) /\ Bodies' /\ MessagesWhole'
<1> DEFINE n == Len(messages)
           m == Append(messages, body)
<1>1. messages \in Seq(Seq(Pieces)) /\ DOMAIN messages = 1 .. n /\ n \in Nat /\ body \in Seq(Pieces)
  BY DEF ScteInv, ScteTypes, RunOf
<1>2. m \in Seq(Seq(Pieces)) /\ DOMAIN m = 1 .. n + 1 /\ m[n + 1] = body /\ \A k \in 1 .. n : m[k] = messages[k]
  <2> DEFINE Q == Seq(Pieces)
  <2>1. messages \in Seq(Q) /\ body \in Q
    BY <1>1
  <2> HIDE DEF Q
  <2>2. m \in Seq(Q) /\ DOMAIN m = 1 .. n + 1 /\ m[n + 1] = body /\ \A k \in 1 .. n : m[k] = messages[k]
    BY <1>1, <2>1, AppendProperties
  <2> QED BY <2>2 DEF Q
<1>3. /\ sending \in [ext : Nat, segs : Nat, next : Nat] /\ Sections \in Nat
      /\ sending'.ext = sending.ext /\ sending'.segs = sending.segs
      /\ sending'.next = sending.next + 1 /\ Sections' = Sections
  BY DEF ScteInv, ScteTypes, Sections
<1> HIDE DEF m, n
<1>4. \A k \in 1 .. n : /\ RunOf(m[k]) /\ m[k][1].ext \in 1 .. sending.ext /\ m[k][1].ext < sending.ext
                        /\ m[k][1].ext \notin lost => m[k][1].no = 0
                        /\ k > 1 => m[k][1].ext > m[k - 1][1].ext
  <2> SUFFICES ASSUME NEW k \in 1 .. n
               PROVE  /\ RunOf(m[k]) /\ m[k][1].ext \in 1 .. sending.ext /\ m[k][1].ext < sending.ext
                      /\ m[k][1].ext \notin lost => m[k][1].no = 0
                      /\ k > 1 => m[k][1].ext > m[k - 1][1].ext
    OBVIOUS
  <2>1. k \in DOMAIN messages /\ m[k] = messages[k] /\ sending.next < Sections
    BY <1>1, <1>2, <1>3
  <2>2. k > 1 => m[k - 1] = messages[k - 1]
    BY <1>1, <1>2, SMTT(30)
  <2> QED BY <2>1, <2>2 DEF ScteInv, Bodies
<1>5. Bodies'
  <2>0. messages' = m /\ ~(sending'.next < Sections') /\ sending'.ext = sending.ext /\ lost' = lost
        /\ DOMAIN m = 1 .. n + 1
    BY <1>2, <1>3 DEF m
  <2> SUFFICES ASSUME NEW k \in 1 .. n + 1
               PROVE  /\ RunOf(m[k]) /\ m[k][1].ext \in 1 .. sending.ext
                      /\ m[k][1].ext \notin lost => m[k][1].no = 0
                      /\ k > 1 => m[k][1].ext > m[k - 1][1].ext
    BY <2>0 DEF Bodies
  <2>1. CASE k = n + 1
    <3>1. m[k] = body
      BY <1>2, <2>1
    <3>2. k > 1 => k - 1 \in 1 .. n
      BY <1>1, <2>1
    <3> QED BY <1>4, <3>1, <3>2
  <2>2. CASE k # n + 1
    <3>1. k \in 1 .. n
      BY <1>1, <2>2
    <3> QED BY <1>4, <3>1
  <2> QED BY <2>1, <2>2
<1>6. MessagesWhole'
  <2>1. n + 1 \in DOMAIN m /\ m[n + 1][1].ext = sending.ext
    BY <1>1, <1>2
  <2>2. messages' = m
    BY DEF m
  <2> QED BY <1>3, <1>5, <2>1, <2>2 DEF MessagesWhole, Bodies, RunOf
<1> QED BY <1>2, <1>5, <1>6 DEF m

(* A message that comes in one section.                                        *)
LEMMA WholeMessage ==
    ASSUME ScteInv, decodeSubtitle, sending.segs = 0
    PROVE  ScteInv'
<1> DEFINE e == sending.ext
           p == SegmentPiece(0)
<1>1. /\ sending \in [ext : Nat, segs : Nat, next : Nat] /\ Sections = 1 /\ sending.next = 0
      /\ e \in Nat /\ e <= MaxMessages /\ lost \subseteq 1 .. e
  BY DEF decodeSubtitle, ScteInv, ScteTypes, Sections
<1>2. /\ sending' = [sending EXCEPT !.next = @ + 1] /\ lost' = lost
      /\ messages' = Append(messages, <<p>>)
      /\ mContext' = IF mContext.has THEN Clean ELSE mContext
  BY <1>1 DEF decodeSubtitle
<1>3. p \in Pieces /\ p.ext = e /\ p.no = 0
  BY <1>1 DEF SegmentPiece, Pieces
<1> HIDE DEF p
<1>4. RunOf(<<p>>) /\ <<p>>[1] = p
  BY <1>3, RunStarts
<1>5. e \in Nat \ {0}
  BY <1>1 DEF ScteInv
<1>6. messages' \in Seq(Seq(Pieces)) /\ Bodies' /\ MessagesWhole'
  BY <1>1, <1>2, <1>3, <1>4, <1>5, BodyComes
<1>7. /\ sending' \in [ext : Nat, segs : Nat, next : Nat] /\ sending'.next = 1
      /\ sending'.segs = 0 /\ sending'.ext = e /\ Sections' = 1
  BY <1>1, <1>2 DEF Sections
<1>8. mContext' = Clean /\ Clean \in Contexts /\ ~Clean.has
  BY <1>2, CleanContext DEF ScteInv
<1> QED BY <1>1, <1>2, <1>6, <1>7, <1>8 DEF ScteInv, ScteTypes, Collected, Complete

(* A segment that follows what is collected continues it.                      *)
LEMMA BodyGrows ==
    ASSUME NEW c \in Contexts, NEW p \in Pieces,
           ~c.has => c.container = <<>>,
           c.has => /\ RunOf(c.container) /\ c.container[1].ext = p.ext
                    /\ p.no = c.container[1].no + Len(c.container)
    PROVE  /\ RunOf(Append(c.container, p)) /\ Append(c.container, p)[1].ext = p.ext
           /\ p.no = Append(c.container, p)[1].no + Len(Append(c.container, p)) - 1
           /\ Len(Append(c.container, p)) = Len(c.container) + 1
           /\ Append(c.container, p)[1] = IF c.has THEN c.container[1] ELSE p
<1>1. CASE ~c.has
  <2>0. c.container = <<>> /\ Append(<<>>, p) = <<p>> /\ Len(<<>>) = 0
    BY <1>1
  <2>1. Append(c.container, p) = <<p>> /\ Len(c.container) = 0
    BY <2>0
  <2>2. RunOf(<<p>>) /\ <<p>>[1] = p /\ Len(<<p>>) = 1 /\ p.no \in Nat
    BY RunStarts DEF Pieces
  <2> QED BY <1>1, <2>1, <2>2
<1>2. CASE c.has
  <2> DEFINE b == c.container
  <2>1. RunOf(b) /\ b[1].ext = p.ext /\ p.no = b[1].no + Len(b)
    BY <1>2
  <2> HIDE DEF b
  <2>2. RunOf(Append(b, p)) /\ Append(b, p)[1] = b[1] /\ Len(Append(b, p)) = Len(b) + 1 /\ Len(b) \in Nat
    BY <2>1, RunGrows
  <2>3. b[1].no \in Nat
    <3>1. b \in Seq(Pieces) /\ b # <<>>
      BY <2>1 DEF RunOf
    <3>2. b[1] \in Pieces
      BY <3>1
    <3> QED BY <3>2 DEF Pieces
  <2>4. p.no = Append(b, p)[1].no + Len(Append(b, p)) - 1
    <3>1. p.no = b[1].no + (Len(b) + 1) - 1
      BY <2>1, <2>2, <2>3
    <3> QED BY <2>2, <3>1
  <2> QED BY <1>2, <2>1, <2>2, <2>4 DEF b
<1> QED BY <1>1, <1>2

\* What decodeSegment goes on with
Continued ==
    IF sending.next = 0
    THEN [container |-> <<>>, table_ext |-> sending.ext, curr_no |-> -1, last_no |-> sending.segs - 1,
          has |-> FALSE]
    ELSE mContext

Resumes == Continued.has => Continued.table_ext = sending.ext /\ sending.next = Continued.curr_no + 1
Body == Append(Continued.container, SegmentPiece(sending.next))

\* What decodeSegment leaves when the segment follows
Added(context) ==
    /\ context \in Contexts /\ context.has /\ context.container = Body
    /\ context.table_ext = Continued.table_ext /\ context.curr_no = sending.next

SegmentTypes ==
    /\ sending \in [ext : Nat, segs : Nat, next : Nat] /\ Sections = sending.segs
    /\ sending.next < sending.segs /\ sending.ext \in Nat \ {0}

LEMMA ContinuedContext ==
    ASSUME ScteInv, SegmentTypes
    PROVE  /\ Continued \in Contexts
           /\ ~Continued.has => Continued.container = <<>>
           /\ Continued.has => Continued = mContext
           /\ sending.next = 0 => Continued.table_ext = sending.ext /\ ~Continued.has
           /\ sending.next # 0 => Continued = mContext
<1>1. CASE sending.next = 0
  <2> DEFINE new == [container |-> <<>>, table_ext |-> sending.ext, curr_no |-> -1,
                     last_no |-> sending.segs - 1, has |-> FALSE]
  <2>1. Continued = new /\ <<>> \in Seq(Pieces)
    BY <1>1 DEF Continued
  <2>2. new \in Contexts /\ new.container = <<>> /\ ~new.has /\ new.table_ext = sending.ext
    BY <2>1 DEF Contexts, SegmentTypes
  <2> QED BY <1>1, <2>1, <2>2
<1>2. CASE sending.next # 0
  <2>1. Continued = mContext
    BY <1>2 DEF Continued
  <2> QED BY <1>2, <2>1, CleanContext DEF ScteInv, ScteTypes
<1> QED BY <1>1, <1>2

(* What decodeSegment does.                                                    *)
LEMMA SegmentDecoded ==
    ASSUME ScteInv, SegmentTypes, decodeSubtitle
    PROVE  /\ sending' = [sending EXCEPT !.next = @ + 1] /\ lost' = lost
           /\ \/ ~Resumes /\ mContext' = Clean /\ messages' = messages
              \/ /\ Resumes /\ Added(mContext') /\ messages' = messages
                 /\ sending.next = sending.segs - 1 => Len(Body) < MinSize
              \/ /\ Resumes /\ mContext' = Clean /\ messages' = Append(messages, Body)
                 /\ sending.next = sending.segs - 1
<1> DEFINE k == sending.next
           c == Continued
           longer == [c EXCEPT !.curr_no = k, !.has = TRUE, !.container = Append(@, SegmentPiece(k))]
<1>1. decodeSegment(k, sending.segs - 1) /\ sending' = [sending EXCEPT !.next = @ + 1] /\ lost' = lost
  BY DEF decodeSubtitle, SegmentTypes
<1>2. c = IF k = 0 THEN [Clean EXCEPT !.table_ext = sending.ext, !.last_no = sending.segs - 1, !.curr_no = -1]
          ELSE mContext
  BY DEF Continued, Clean
<1>3. IF ~Resumes THEN mContext' = Clean /\ UNCHANGED messages
      ELSE IF k < sending.segs - 1 THEN mContext' = longer /\ UNCHANGED messages
      ELSE IF Len(longer.container) < MinSize THEN mContext' = longer /\ UNCHANGED messages
      ELSE mContext' = Clean /\ messages' = Append(messages, longer.container)
  <2> HIDE DEF c
  <2> QED BY <1>1, <1>2 DEF decodeSegment, Resumes, c
<1>4. c \in Contexts /\ SegmentPiece(k) \in Pieces
  BY ContinuedContext DEF SegmentTypes, SegmentPiece, Pieces
<1>5. c.container \in Seq(Pieces) /\ Body = Append(c.container, SegmentPiece(k)) /\ Body \in Seq(Pieces)
  BY <1>4 DEF Contexts, Body
<1> HIDE DEF c
<1>6. longer.container = Body /\ Added(longer)
  <2> DEFINE b == Append(c.container, SegmentPiece(k))
  <2>1. longer = [c EXCEPT !.curr_no = k, !.has = TRUE, !.container = b] /\ b = Body /\ b \in Seq(Pieces)
    BY <1>4, <1>5 DEF Contexts
  <2>2. k \in Nat
    BY DEF SegmentTypes
  <2> HIDE DEF b, k
  <2>3. [c EXCEPT !.curr_no = k, !.has = TRUE, !.container = b] \in Contexts
    <3> DEFINE S == Seq(Pieces)
    <3>1. b \in S /\ k \in Int
      BY <2>1, <2>2
    <3>2. c \in [container : S, table_ext : Nat, curr_no : Int, last_no : Int, has : BOOLEAN]
      BY <1>4 DEF Contexts
    <3> HIDE DEF S
    <3>3. [c EXCEPT !.curr_no = k, !.has = TRUE, !.container = b]
             \in [container : S, table_ext : Nat, curr_no : Int, last_no : Int, has : BOOLEAN]
      BY <3>1, <3>2
    <3> QED BY <3>3 DEF S, Contexts
  <2>4. [c EXCEPT !.curr_no = k, !.has = TRUE, !.container = b].has
    BY <1>4 DEF Contexts
  <2>5. /\ [c EXCEPT !.curr_no = k, !.has = TRUE, !.container = b].container = b
        /\ [c EXCEPT !.curr_no = k, !.has = TRUE, !.container = b].table_ext = c.table_ext
        /\ [c EXCEPT !.curr_no = k, !.has = TRUE, !.container = b].curr_no = k
    BY <1>4 DEF Contexts
  <2> QED BY <2>1, <2>3, <2>4, <2>5 DEF Added, c, k
<1> HIDE DEF longer
<1> QED BY <1>1, <1>3, <1>6 DEF SegmentTypes

LEMMA BodyFollows ==
    ASSUME ScteInv, SegmentTypes, Resumes
    PROVE  /\ RunOf(Body) /\ Body[1].ext = sending.ext /\ Len(Body) = Len(Continued.container) + 1
           /\ sending.next = Body[1].no + Len(Body) - 1
           /\ sending.ext \notin lost => Body[1].no = 0
           /\ Continued.table_ext \in {0, sending.ext}
<1> DEFINE p == SegmentPiece(sending.next)
           b == Continued.container
<1>1. p \in Pieces /\ p.ext = sending.ext /\ p.no = sending.next
  BY DEF SegmentPiece, Pieces, SegmentTypes
<1>2. Continued.has =>
         /\ RunOf(b) /\ b[1].ext = p.ext /\ p.no = b[1].no + Len(b)
         /\ b[1].ext \notin lost => b[1].no = 0
  <2> SUFFICES ASSUME Continued.has
               PROVE  /\ RunOf(b) /\ b[1].ext = p.ext /\ p.no = b[1].no + Len(b)
                      /\ b[1].ext \notin lost => b[1].no = 0
    OBVIOUS
  <2>1. Continued = mContext
    BY ContinuedContext
  <2>2. /\ RunOf(b) /\ mContext.curr_no = b[1].no + Len(b) - 1
        /\ mContext.table_ext \in {0, b[1].ext} /\ (b[1].ext \notin lost => b[1].no = 0)
    BY <2>1 DEF ScteInv, Collected
  <2>3. Len(b) \in Nat /\ b[1].no \in Nat
    <3>1. b \in Seq(Pieces) /\ b # <<>>
      BY <2>2 DEF RunOf
    <3>2. b[1] \in Pieces /\ Len(b) \in Nat
      BY <3>1
    <3> QED BY <3>2 DEF Pieces
  <2>4. mContext.table_ext = sending.ext /\ sending.next = mContext.curr_no + 1 /\ sending.ext # 0
    BY <2>1 DEF Resumes, SegmentTypes
  <2> HIDE DEF p, b
  <2> QED BY <1>1, <2>2, <2>3, <2>4
<1>3. Continued \in Contexts /\ (~Continued.has => b = <<>>)
  BY ContinuedContext
<1>4. Body = Append(b, p)
  BY DEF Body
<1>5. /\ RunOf(Body) /\ Body[1].ext = p.ext /\ p.no = Body[1].no + Len(Body) - 1
      /\ Len(Body) = Len(b) + 1 /\ Body[1] = IF Continued.has THEN b[1] ELSE p
  <2> HIDE DEF p
  <2> QED BY <1>1, <1>2, <1>3, <1>4, BodyGrows
<1>6. sending.ext \notin lost => Body[1].no = 0
  <2>1. CASE Continued.has
    BY <1>1, <1>2, <1>5, <2>1
  <2>2. CASE ~Continued.has
    <3>1. sending.ext \notin lost => sending.next = 0
      BY <2>2, ContinuedContext DEF ScteInv, Complete, SegmentTypes
    <3> QED BY <1>1, <1>5, <2>2, <3>1
  <2> QED BY <2>1, <2>2
<1>7. Continued.table_ext \in {0, sending.ext}
  <2>1. CASE Continued.has
    BY <2>1 DEF Resumes
  <2>2. CASE ~Continued.has /\ sending.next # 0
    BY <2>2, ContinuedContext, CleanContext DEF ScteInv
  <2>3. CASE sending.next = 0
    BY <2>3, ContinuedContext
  <2> QED BY <2>1, <2>2, <2>3
<1> QED BY <1>1, <1>5, <1>6, <1>7

(* Of a message of which nothing was lost, each segment follows.               *)
LEMMA CompleteFollows ==
    ASSUME ScteInv, SegmentTypes, sending.ext \notin lost
    PROVE  Resumes /\ Continued.table_ext = sending.ext /\ Len(Body) = sending.next + 1
<1>1. Resumes /\ Continued.table_ext = sending.ext /\ Len(Continued.container) = sending.next
  <2>1. CASE sending.next = 0
    BY <2>1, ContinuedContext DEF Resumes
  <2>2. CASE sending.next # 0
    BY <2>2, ContinuedContext DEF ScteInv, Complete, SegmentTypes, Resumes
  <2> QED BY <2>1, <2>2
<1> QED BY <1>1, BodyFollows

LEMMA SegmentComes ==
    ASSUME ScteInv, decodeSubtitle, sending.segs > 0
    PROVE  ScteInv'
<1> DEFINE e == sending.ext
           k == sending.next
<1>1. /\ SegmentTypes /\ e \in Nat \ {0} /\ e <= MaxMessages /\ lost \subseteq 1 .. e /\ k \in Nat
      /\ sending.segs \in Nat /\ Sections = sending.segs /\ k < sending.segs
      /\ messages \in Seq(Seq(Pieces))
  BY DEF decodeSubtitle, ScteInv, ScteTypes, Sections, SegmentTypes
<1>2. /\ sending' = [sending EXCEPT !.next = @ + 1] /\ lost' = lost
      /\ \/ ~Resumes /\ mContext' = Clean /\ messages' = messages
         \/ /\ Resumes /\ Added(mContext') /\ messages' = messages
            /\ k = sending.segs - 1 => Len(Body) < MinSize
         \/ /\ Resumes /\ mContext' = Clean /\ messages' = Append(messages, Body)
            /\ k = sending.segs - 1
  BY <1>1, SegmentDecoded
<1>3. /\ sending' \in [ext : Nat, segs : Nat, next : Nat] /\ sending'.next = k + 1
      /\ sending'.segs = sending.segs /\ sending'.ext = e /\ Sections' = sending.segs
  <2>1. /\ sending' \in [ext : Nat, segs : Nat, next : Nat] /\ sending'.next = k + 1
        /\ sending'.segs = sending.segs /\ sending'.ext = e
    BY <1>1, <1>2, SMTT(30) DEF SegmentTypes
  <2> QED BY <1>1, <2>1 DEF Sections
<1>4. e \notin lost => Resumes /\ Continued.table_ext = e /\ Len(Body) = k + 1
  BY <1>1, CompleteFollows
<1>5. Resumes => /\ RunOf(Body) /\ Body[1].ext = e /\ k = Body[1].no + Len(Body) - 1
                 /\ e \notin lost => Body[1].no = 0
                 /\ Continued.table_ext \in {0, e}
  BY <1>1, BodyFollows
<1>6. mContext' \in Contexts /\ (~mContext'.has => mContext' = Clean)
  BY <1>2, CleanContext DEF Added
<1>7. Collected'
  <2>1. CASE mContext' = Clean
    BY <2>1, CleanContext DEF Collected
  <2>2. CASE Resumes /\ Added(mContext')
    BY <1>1, <1>2, <1>3, <1>5, <2>2 DEF Collected, Added
  <2> QED BY <1>2, <2>1, <2>2
<1>8. Complete'
  BY <1>1, <1>2, <1>3, <1>4, SMTT(30) DEF Complete, Added
<1>9. messages' \in Seq(Seq(Pieces)) /\ Bodies' /\ MessagesWhole'
  <2>1. CASE messages' = messages /\ (Resumes => (k = sending.segs - 1 => Len(Body) < MinSize))
    <3>1. Bodies'
      BY <1>1, <1>2, <1>3, <2>1 DEF ScteInv, Bodies
    <3>2. MessagesWhole'
      <4>1. e \notin lost /\ k + 1 = sending.segs => sending.segs < MinSize
        <5> SUFFICES ASSUME e \notin lost, k + 1 = sending.segs PROVE sending.segs < MinSize
          OBVIOUS
        <5>1. Resumes /\ Len(Body) = k + 1
          BY <1>4
        <5>2. k = sending.segs - 1
          BY <1>1
        <5> QED BY <2>1, <5>1, <5>2
      <4> QED BY <1>1, <1>2, <1>3, <2>1, <4>1, ScteAssumption DEF ScteInv, MessagesWhole
    <3> QED BY <1>1, <2>1, <3>1, <3>2
  <2>2. CASE Resumes /\ messages' = Append(messages, Body) /\ k = sending.segs - 1
    BY <1>1, <1>2, <1>5, <2>2, BodyComes
  <2> QED BY <1>2, <2>1, <2>2
<1> QED BY <1>1, <1>2, <1>3, <1>6, <1>7, <1>8, <1>9 DEF ScteInv, ScteTypes

LEMMA ScteInvNext == ASSUME ScteInv, [ScteNext]_scteVars PROVE ScteInv'
<1>1. CASE decodeSubtitle
  <2>1. sending.segs \in Nat
    BY DEF ScteInv, ScteTypes
  <2> QED BY <1>1, <2>1, WholeMessage, SegmentComes
<1>2. CASE LoseSection
  <2>1. /\ sending' = [sending EXCEPT !.next = @ + 1] /\ lost' = lost \cup {sending.ext}
        /\ mContext' = mContext /\ messages' = messages /\ sending.next < Sections
    BY <1>2 DEF LoseSection
  <2>2. /\ sending \in [ext : Nat, segs : Nat, next : Nat] /\ sending.ext \in Nat \ {0}
        /\ sending.ext <= MaxMessages /\ lost \subseteq 1 .. sending.ext
    BY <2>1 DEF ScteInv, ScteTypes, Sections
  <2>3. /\ sending' \in [ext : Nat, segs : Nat, next : Nat] /\ sending'.next = sending.next + 1
        /\ sending'.segs = sending.segs /\ sending'.ext = sending.ext /\ Sections' = Sections
        /\ Sections \in Nat
    BY <2>1, <2>2 DEF Sections
  <2>4. ScteTypes'
    BY <2>1, <2>2, <2>3 DEF ScteInv, ScteTypes
  <2>5. Collected' /\ Complete'
    BY <2>1, <2>3 DEF ScteInv, Collected, Complete
  <2>6. Bodies'
    BY <2>1, <2>2, <2>3 DEF ScteInv, Bodies
  <2>7. MessagesWhole'
    BY <2>1, <2>3 DEF ScteInv, MessagesWhole
  <2> QED BY <2>1, <2>2, <2>3, <2>4, <2>5, <2>6, <2>7 DEF ScteInv
<1>3. ASSUME NEW segs \in SegmentCounts, NextMessage(segs) PROVE ScteInv'
  <2>1. /\ sending' = [ext |-> sending.ext + 1, segs |-> segs, next |-> 0] /\ lost' = lost
        /\ mContext' = mContext /\ messages' = messages /\ sending.ext < MaxMessages
    BY <1>3 DEF NextMessage
  <2>2. /\ sending \in [ext : Nat, segs : Nat, next : Nat] /\ lost \subseteq 1 .. sending.ext
        /\ segs \in Nat /\ MaxMessages \in Nat
    BY ScteAssumption DEF ScteInv, ScteTypes
  <2>3. /\ sending' \in [ext : Nat, segs : Nat, next : Nat] /\ sending'.next = 0
        /\ sending'.ext = sending.ext + 1 /\ Sections' \in Nat \ {0}
    BY <2>1, <2>2 DEF Sections
  <2>4. ScteTypes'
    BY <2>1, <2>2, <2>3 DEF ScteInv, ScteTypes
  <2>5. Collected' /\ Complete'
    BY <2>1, <2>2, <2>3 DEF ScteInv, Collected, Complete
  <2>6. Bodies'
    BY <2>1, <2>2, <2>3 DEF ScteInv, Bodies
  <2>7. MessagesWhole'
    BY <2>1, <2>2, <2>3 DEF ScteInv, MessagesWhole
  <2> QED BY <2>1, <2>2, <2>3, <2>4, <2>5, <2>6, <2>7 DEF ScteInv
<1>4. ASSUME NEW set, NEW style, decodeBitmap(set, style) PROVE ScteInv'
  BY <1>4 DEF decodeBitmap, ScteInv, ScteTypes, Collected, Complete, Bodies, MessagesWhole, Sections
<1>5. CASE UNCHANGED scteVars
  BY <1>5 DEF scteVars, ScteInv, ScteTypes, Collected, Complete, Bodies, MessagesWhole, Sections
<1> QED BY <1>1, <1>2, <1>3, <1>4, <1>5 DEF ScteNext

(* A message of which no section was lost is decoded as a whole and once, and  *)
(* of the others nothing but segments of one message, one after the other up   *)
(* to its last: for any number of segments, and any losses                     *)
(* (Scte27Parser.cpp:615-673).                                                 *)
THEOREM ScteMessagesWhole == ScteSpec => []MessagesWhole
<1>1. ScteInv => MessagesWhole
  BY DEF ScteInv
<1> QED BY <1>1, ScteInvInit, ScteInvNext, PTL DEF ScteSpec

-----------------------------------------------------------------------------
(* Teletext                                                                    *)

Has(c) == {"subtitlePages", "height", "heightIndex"} \subseteq DOMAIN c

\* What most operations leave alone
Kept(c, d) ==
    /\ Has(d) /\ d.subtitlePages = c.subtitlePages
    /\ d.height = c.height /\ d.heightIndex = c.heightIndex

Ascending(list) == \A i, j \in DOMAIN list : i < j => list[i] < list[j]

Navigable(c) ==
    /\ Has(c) /\ c.subtitlePages \in Seq(Nat) /\ Ascending(c.subtitlePages)
    /\ c.height \in {"normal", "top", "bottom"}
    /\ c.heightIndex \in 0 .. (DOUBLE_HEIGHT_SCROLL_SECTION + 1)
    /\ c.height = "normal" => c.heightIndex = 0

TeletextInv == Navigable(tt) /\ mControlCmds \in Seq(Keys)

LEMMA KeptNavigable ==
    ASSUME NEW c, NEW d, Navigable(c), Kept(c, d)
    PROVE  Navigable(d)
BY DEF Navigable, Kept

LEMMA KeptTwice ==
    ASSUME NEW c, NEW d, NEW e, Kept(c, d), Kept(d, e)
    PROVE  Kept(c, e)
BY DEF Kept

LEMMA HasKept ==
    ASSUME NEW c, Has(c)
    PROVE  Kept(c, c)
BY DEF Kept

LEMMA DrawKeeps ==
    ASSUME NEW c, NEW p, Has(c)
    PROVE  Kept(c, Draw(c, p)) /\ Kept(c, setNavigatorPageNumber(c, p))
BY DEF Draw, setNavigatorPageNumber, Kept, Has

LEMMA FetchKeeps ==
    ASSUME NEW c, NEW p, NEW s, Has(c)
    PROVE  Kept(c, fetchVbiPage(c, p, s))
<1> DEFINE subs == p \in SubtitlePages
<1> DEFINE d == [c EXCEPT !.isSubtitle = subs]
<1> DEFINE e == [d EXCEPT !.pageState = "display"]
<1>3. Kept(c, d) /\ Has(d)
  BY DEF Kept, Has
<1> HIDE DEF d
<1>4. Kept(d, e) /\ Has(e)
  BY <1>3 DEF Kept, Has
<1> HIDE DEF e
<1>5. Kept(e, setNavigatorPageNumber(e, p)) /\ Has(setNavigatorPageNumber(e, p))
  BY <1>4, DrawKeeps DEF Kept
<1>6. Kept(c, Draw(setNavigatorPageNumber(e, p), p))
  BY <1>3, <1>4, <1>5, DrawKeeps, KeptTwice
<1>7. \/ fetchVbiPage(c, p, s) = c
      \/ fetchVbiPage(c, p, s) = d
      \/ fetchVbiPage(c, p, s) = Draw(setNavigatorPageNumber(e, p), p)
  BY DEF fetchVbiPage, d, e
<1> QED BY <1>3, <1>6, <1>7, HasKept

LEMMA SubPageKeeps ==
    ASSUME NEW c, Has(c)
    PROVE  Kept(c, getSubPageInfo(c))
BY DEF getSubPageInfo, Kept, Has

LEMMA BackKeeps ==
    ASSUME NEW c, Has(c)
    PROVE  Kept(c, tt2AddBackCachePage(c))
BY DEF tt2AddBackCachePage, Kept, Has

LEMMA MoveKeeps ==
    ASSUME NEW c, NEW p, NEW s, Has(c)
    PROVE  Kept(c, MoveTo(c, p, s))
<1> DEFINE d == [c EXCEPT !.subPageNum = s]
<1>1. Kept(c, d) /\ Has(d)
  BY DEF Kept, Has
<1> HIDE DEF d
<1>2. Kept(c, getSubPageInfo(d))
  BY <1>1, SubPageKeeps, KeptTwice
<1> DEFINE e == getSubPageInfo(d)
<1> HIDE DEF e
<1>3. Kept(e, [e EXCEPT !.gotoPage = p, !.dispUpdate = TRUE])
  BY <1>2 DEF Kept, Has, e
<1>4. MoveTo(c, p, s) = [e EXCEPT !.gotoPage = p, !.dispUpdate = TRUE]
  BY DEF MoveTo, d, e
<1> QED BY <1>2, <1>3, <1>4, KeptTwice DEF e

LEMMA HomeKeeps ==
    ASSUME NEW c, Has(c)
    PROVE  Kept(c, goHome(c))
<1> DEFINE b == [c EXCEPT !.lock = FALSE, !.gotoPage = HomePage, !.subPageNum = 0,
                          !.dispUpdate = TRUE, !.pageState = "search"]
           d == getSubPageInfo(b)
<1>1. Kept(c, b) /\ Has(b)
  BY DEF Kept, Has
<1> HIDE DEF b
<1>2. Kept(c, d) /\ Has(d)
  BY <1>1, SubPageKeeps, KeptTwice DEF Kept
<1> HIDE DEF d
<1>3. Kept(c, fetchVbiPage(d, HomePage, d.subPageNum))
  BY <1>2, FetchKeeps, KeptTwice
<1> QED BY <1>3 DEF goHome, b, d

LEMMA StepKeeps ==
    ASSUME NEW b, NEW dir, NEW last, Has(b)
    PROVE  Kept(b, StepTo(b, dir, last))
<1> DEFINE p == vbi_get_next_pgno(b, dir, b.gotoPage)
           e == [b EXCEPT !.pageState = "search"]
<1>1. Kept(b, e) /\ Has(e)
  BY DEF Kept, Has
<1> HIDE DEF p, e
<1> DEFINE f == IF last THEN fetchVbiPage(e, p, 0) ELSE e
<1>2. Kept(b, f) /\ Has(f)
  BY <1>1, FetchKeeps, KeptTwice DEF Kept
<1> HIDE DEF f
<1>3. Kept(b, MoveTo(f, p, 0))
  BY <1>2, MoveKeeps, KeptTwice
<1>4. StepTo(b, dir, last) = b \/ StepTo(b, dir, last) = MoveTo(f, p, 0)
  BY DEF StepTo, p, e, f
<1> QED BY <1>3, <1>4, HasKept

\* The walk of a link key, of which there are four, has its steps one by one
LEMMA WalkKeeps ==
    ASSUME NEW c, NEW dir, NEW count \in 1 .. 4, Has(c)
    PROVE  Kept(c, Walk(c, dir, count))
<1> DEFINE s1 == StepTo(c, dir, 1 = count)
           s2 == StepTo(s1, dir, 2 = count)
           s3 == StepTo(s2, dir, 3 = count)
           s4 == StepTo(s3, dir, 4 = count)
           f(w) == [n \in 0 .. count |-> IF n = 0 THEN c ELSE StepTo(w[n - 1], dir, n = count)]
           g == [n \in 0 .. count |-> IF n = 0 THEN c ELSE IF n = 1 THEN s1
                                      ELSE IF n = 2 THEN s2 ELSE IF n = 3 THEN s3 ELSE s4]
           w == CHOOSE v : v = f(v)
<1>1. Kept(c, s1)
  BY StepKeeps
<1>2. Kept(c, s2)
  BY <1>1, StepKeeps, KeptTwice DEF Kept
<1>3. Kept(c, s3)
  BY <1>2, StepKeeps, KeptTwice DEF Kept
<1>4. Kept(c, s4)
  BY <1>3, StepKeeps, KeptTwice DEF Kept
<1>5. g = f(g)
  <2>1. ASSUME NEW n \in 0 .. count
        PROVE  g[n] = IF n = 0 THEN c ELSE StepTo(g[n - 1], dir, n = count)
    <3>1. n \in 0 .. 4
      OBVIOUS
    <3>2. CASE n = 0
      BY <3>2
    <3>3. CASE n = 1
      BY <3>3
    <3>4. CASE n = 2
      BY <3>4
    <3>5. CASE n = 3
      BY <3>5
    <3>6. CASE n = 4
      BY <3>6
    <3> QED BY <3>1, <3>2, <3>3, <3>4, <3>5, <3>6
  <2> HIDE DEF s1, s2, s3, s4
  <2>2. g = [n \in 0 .. count |-> g[n]]
    OBVIOUS
  <2> HIDE DEF g
  <2> QED BY <2>1, <2>2
<1>6. w = f(w)
  BY <1>5
<1>7. Walk(c, dir, count) = w[count]
  BY DEF Walk
<1> HIDE DEF w
<1>8. w[0] = c /\ w[1] = s1
  BY <1>6
<1>9. count >= 2 => w[2] = s2
  BY <1>6, <1>8
<1>10. count >= 3 => w[3] = s3
  BY <1>6, <1>9
<1>11. count >= 4 => w[4] = s4
  BY <1>6, <1>10
<1> HIDE DEF s1, s2, s3, s4
<1> QED BY <1>1, <1>2, <1>3, <1>4, <1>7, <1>8, <1>9, <1>10, <1>11

LEMMA CountKeeps ==
    ASSUME NEW c, NEW dir, NEW count \in 1 .. 4, Has(c)
    PROVE  Kept(c, fetchCountPage(c, dir, count))
<1> DEFINE b == [c EXCEPT !.lock = FALSE]
           d == tt2AddBackCachePage(b)
           e == fetchVbiPage(d, c.nav[count], 0)
<1>1. Kept(c, b) /\ Has(b)
  BY DEF Kept, Has
<1> HIDE DEF b
<1>2. Kept(c, d) /\ Has(d)
  BY <1>1, BackKeeps, KeptTwice DEF Kept
<1> HIDE DEF d
<1>3. Kept(c, e) /\ Has(e)
  BY <1>2, FetchKeeps, KeptTwice DEF Kept
<1> HIDE DEF e
<1>4. Kept(c, Walk(d, dir, count))
  BY <1>2, WalkKeeps, KeptTwice
<1>5. Kept(c, MoveTo(e, c.nav[count], 0))
  BY <1>3, MoveKeeps, KeptTwice
<1>6. \/ fetchCountPage(c, dir, count) = Walk(d, dir, count)
      \/ fetchCountPage(c, dir, count) = d
      \/ fetchCountPage(c, dir, count) = MoveTo(e, c.nav[count], 0)
  BY DEF fetchCountPage, b, d, e
<1> QED BY <1>2, <1>4, <1>5, <1>6

LEMMA NextKeeps ==
    ASSUME NEW c, NEW dir, Has(c)
    PROVE  Kept(c, nextPage(c, dir))
<1> DEFINE b == [c EXCEPT !.lock = FALSE]
           d == tt2AddBackCachePage(b)
           p == vbi_get_next_pgno(c, dir, c.gotoPage)
           e == [d EXCEPT !.pageState = "search"]
           f == fetchVbiPage(e, p, 0)
<1>1. Kept(c, b) /\ Has(b)
  BY DEF Kept, Has
<1> HIDE DEF b
<1>2. Kept(c, d) /\ Has(d)
  BY <1>1, BackKeeps, KeptTwice DEF Kept
<1> HIDE DEF d, p
<1>3. Kept(d, e) /\ Has(e)
  BY <1>2 DEF Kept, Has
<1> HIDE DEF e
<1>4. Kept(c, f) /\ Has(f)
  BY <1>2, <1>3, FetchKeeps, KeptTwice DEF Kept
<1> HIDE DEF f
<1>5. Kept(c, MoveTo(f, p, 0))
  BY <1>4, MoveKeeps, KeptTwice
<1>6. nextPage(c, dir) = d \/ nextPage(c, dir) = MoveTo(f, p, 0)
  BY DEF nextPage, b, d, p, e, f
<1> QED BY <1>2, <1>5, <1>6

LEMMA NextSubKeeps ==
    ASSUME NEW c, NEW dir, Has(c)
    PROVE  Kept(c, nextSubPage(c, dir))
<1> DEFINE b == [c EXCEPT !.lock = FALSE]
<1>1. Kept(c, b) /\ Has(b)
  BY DEF Kept, Has
<1> HIDE DEF b
<1>2. ASSUME NEW s
      PROVE  Kept(c, [fetchVbiPage(b, c.gotoPage, s) EXCEPT !.subPageNum = s, !.dispUpdate = TRUE])
  <2> DEFINE f == fetchVbiPage(b, c.gotoPage, s)
  <2>1. Kept(c, f) /\ Has(f)
    BY <1>1, FetchKeeps, KeptTwice DEF Kept
  <2> HIDE DEF f
  <2>2. Kept(f, [f EXCEPT !.subPageNum = s, !.dispUpdate = TRUE])
    BY <2>1 DEF Kept, Has
  <2> QED BY <2>1, <2>2, KeptTwice DEF f
<1>3. \/ nextSubPage(c, dir) = b
      \/ \E s : nextSubPage(c, dir) = [fetchVbiPage(b, c.gotoPage, s)
                                           EXCEPT !.subPageNum = s, !.dispUpdate = TRUE]
  BY Zenon DEF nextSubPage, b
<1> QED BY <1>1, <1>2, <1>3

LEMMA GotoKeeps ==
    ASSUME NEW c, NEW p, NEW s, Has(c)
    PROVE  Kept(c, gotoPage(c, p, s))
<1> DEFINE subs == IF c.mode = "graphics" THEN s ELSE AnySub
<1> DEFINE b == tt2AddBackCachePage(c)
<1> DEFINE d == [b EXCEPT !.lock = FALSE, !.gotoPage = p, !.subPageNum = subs]
<1> DEFINE e == [d EXCEPT !.dispUpdate = TRUE]
<1>1. Kept(c, b) /\ Has(b)
  BY BackKeeps DEF Kept
<1> HIDE DEF b, subs
<1>2. Kept(b, d) /\ Has(d)
  BY <1>1 DEF Kept, Has
<1> HIDE DEF d
<1>3. Kept(d, e) /\ Has(e)
  BY <1>2 DEF Kept, Has
<1> HIDE DEF e
<1>4. Kept(c, d) /\ Kept(c, fetchVbiPage(e, p, s))
  BY <1>1, <1>2, <1>3, FetchKeeps, KeptTwice
<1>5. gotoPage(c, p, s) = c \/ gotoPage(c, p, s) = d \/ gotoPage(c, p, s) = fetchVbiPage(e, p, s)
  BY ZenonT(60) DEF gotoPage, subs, b, d, e
<1> QED BY <1>4, <1>5, HasKept

LEMMA ReturnKeeps ==
    ASSUME NEW c, Has(c)
    PROVE  Kept(c, gotoBackPage(c)) /\ Kept(c, gotoForwardPage(c))
<1>1. Kept(c, gotoBackPage(c))
  <2> DEFINE top == Last(c.back)
             more == Append(c.forward, <<c.gotoPage, c.subPageNum>>)
             less == Front(c.back)
             d == [c EXCEPT !.lock = FALSE, !.dispUpdate = TRUE, !.forward = more,
                            !.back = less, !.gotoPage = top[1], !.subPageNum = top[2]]
  <2>1. gotoBackPage(c) = c \/ gotoBackPage(c) = fetchVbiPage(d, top[1], 0)
    BY DEF gotoBackPage
  <2> HIDE DEF top, more, less
  <2>2. Kept(c, d) /\ Has(d)
    BY DEF Kept, Has
  <2> HIDE DEF d
  <2> QED BY <2>1, <2>2, FetchKeeps, KeptTwice, HasKept
<1>2. Kept(c, gotoForwardPage(c))
  <2> DEFINE top == Last(c.forward)
             more == Append(c.back, <<c.gotoPage, c.subPageNum>>)
             less == Front(c.forward)
             d == [c EXCEPT !.lock = FALSE, !.dispUpdate = TRUE, !.back = more,
                            !.forward = less, !.gotoPage = top[1], !.subPageNum = top[2]]
  <2>1. gotoForwardPage(c) = c \/ gotoForwardPage(c) = fetchVbiPage(d, top[1], top[2])
    BY DEF gotoForwardPage
  <2> HIDE DEF top, more, less
  <2>2. Kept(c, d) /\ Has(d)
    BY DEF Kept, Has
  <2> HIDE DEF d
  <2> QED BY <2>1, <2>2, FetchKeeps, KeptTwice, HasKept
<1> QED BY <1>1, <1>2

LEMMA DefaultKeeps ==
    ASSUME NEW c, NEW id, Has(c)
    PROVE  Kept(c, gotoDefaultSubtitle(c, id))
<1> DEFINE d == [c EXCEPT !.mode = "graphics"]
<1>1. Kept(c, d) /\ Has(d)
  BY DEF Kept, Has
<1> HIDE DEF d
<1> DEFINE e == [d EXCEPT !.gotoSubtitle = TRUE, !.dispUpdate = TRUE]
<1>2. Kept(d, e)
  BY <1>1 DEF Kept, Has
<1> HIDE DEF e
<1>3. \/ gotoDefaultSubtitle(c, id) = gotoPage(d, SubtitlePage(c, id), 0)
      \/ gotoDefaultSubtitle(c, id) = e
  BY DEF gotoDefaultSubtitle, d, e
<1> QED BY <1>1, <1>2, <1>3, GotoKeeps, KeptTwice

LEMMA SubtitleKeeps ==
    ASSUME NEW c, NEW p, Has(c)
    PROVE  Kept(c, gotoSubtitle(c, p))
<1> DEFINE b == [c EXCEPT !.mode = "subtitle"]
           d == [c EXCEPT !.mode = "graphics"]
<1>1. Kept(c, b) /\ Has(b) /\ Kept(c, d) /\ Has(d)
  BY DEF Kept, Has
<1> HIDE DEF b, d
<1>2. ASSUME NEW q PROVE Kept(c, gotoPage(b, q, 0))
  BY <1>1, GotoKeeps, KeptTwice
<1>3. ASSUME NEW i, NEW q PROVE Kept(c, gotoDefaultSubtitle([d EXCEPT !.subtitlePageId = i], q))
  <2> DEFINE e == [d EXCEPT !.subtitlePageId = i]
  <2>1. Kept(d, e) /\ Has(e)
    BY <1>1 DEF Kept, Has
  <2> HIDE DEF e
  <2>2. Kept(c, gotoDefaultSubtitle(e, q))
    BY <1>1, <2>1, DefaultKeeps, KeptTwice
  <2> QED BY <2>2 DEF e
<1>4. \/ \E q : gotoSubtitle(c, p) = gotoPage(b, q, 0)
      \/ \E i, q : gotoSubtitle(c, p) = gotoDefaultSubtitle([d EXCEPT !.subtitlePageId = i], q)
  BY Zenon DEF gotoSubtitle, b, d
<1> QED BY <1>2, <1>3, <1>4

LEMMA DigitKeeps ==
    ASSUME NEW c, NEW n, Has(c)
    PROVE  Kept(c, Digit(c, n))
<1> DEFINE number == c.digits * 10 + n
           subs == c.subNum * 10 + n
           upd == c.dispUpdate \/ c.mode = "graphics"
           b == [c EXCEPT !.pageState = "input"]
           g == gotoPage(b, number, 0)
           d == [c EXCEPT !.subMode = TRUE, !.subDigits = @ + 1, !.subNum = subs,
                          !.dispUpdate = upd]
<1>1. \/ \E x : Digit(c, n) = [c EXCEPT !.digits = x]
      \/ Digit(c, n) = [g EXCEPT !.digits = 0]
      \/ Digit(c, n) = d
      \/ Digit(c, n) = [d EXCEPT !.subPageNum = subs, !.subDigits = 10]
      \/ Digit(c, n) = c
  <2>1. CASE ~c.subMode
    <3>1. Digit(c, n) = IF number = 0 \/ number = 9 \/ number > 900 THEN [c EXCEPT !.digits = 0]
                        ELSE IF number \in 100..899 /\ number # c.gotoPage THEN [g EXCEPT !.digits = 0]
                        ELSE [c EXCEPT !.digits = number]
      BY <2>1, Zenon DEF Digit
    <3> HIDE DEF number, g
    <3> QED BY <3>1, Zenon
  <2>2. CASE c.subMode
    <3> DEFINE k == c.subDigits + 1
    <3>1. Digit(c, n) = CASE k < TELETEXT_SUBPAGE_NUMBER_OF_DIGITS -> d
                          [] k = TELETEXT_SUBPAGE_NUMBER_OF_DIGITS ->
                                [d EXCEPT !.subPageNum = subs, !.subDigits = 10]
                          [] OTHER -> c
      BY <2>2, Zenon DEF Digit
    <3> HIDE DEF k, d, subs
    <3> QED BY <3>1, Zenon
  <2> QED BY <2>1, <2>2
<1>2. Kept(c, b) /\ Has(b)
  BY DEF Kept, Has
<1> HIDE DEF number, subs, upd, b
<1>3. Kept(c, d) /\ Has(d)
  BY DEF Kept, Has
<1>4. Kept(c, g) /\ Has(g)
  BY <1>2, GotoKeeps, KeptTwice DEF Kept
<1> HIDE DEF g, d
<1>5. Kept(g, [g EXCEPT !.digits = 0])
  BY <1>4 DEF Kept, Has
<1>6. Kept(d, [d EXCEPT !.subPageNum = subs, !.subDigits = 10])
  BY <1>3 DEF Kept, Has
<1>7. ASSUME NEW x PROVE Kept(c, [c EXCEPT !.digits = x])
  BY DEF Kept, Has
<1> QED BY <1>1, <1>3, <1>4, <1>5, <1>6, <1>7, HasKept, KeptTwice

LEMMA TimeKeeps ==
    ASSUME NEW c, Has(c)
    PROVE  Kept(c, tt2TimeUpdate(c))
<1> DEFINE d == getSubPageInfo(c)
           once == fetchVbiPage(d, d.gotoPage, d.subPageNum)
           twice == fetchVbiPage(once, d.gotoPage, d.subPageNum)
<1>1. Kept(c, d) /\ Has(d)
  BY SubPageKeeps DEF Kept
<1> HIDE DEF d
<1>2. Kept(c, once) /\ Has(once)
  BY <1>1, FetchKeeps, KeptTwice DEF Kept
<1> HIDE DEF once
<1>3. Kept(c, twice)
  BY <1>2, FetchKeeps, KeptTwice
<1>4. tt2TimeUpdate(c) = c \/ tt2TimeUpdate(c) = once \/ tt2TimeUpdate(c) = twice
  BY DEF tt2TimeUpdate, d, once
<1> QED BY <1>2, <1>3, <1>4, HasKept

\* A page put behind the others can be brought to its place, k: those from there
\* on move up by one
LEMMA CanBeSorted ==
    ASSUME NEW list \in Seq(Nat), NEW p \in Nat, Ascending(list)
    PROVE  \E q \in Bijection(1 .. Len(list) + 1, 1 .. Len(list) + 1) :
              \A i, j \in 1 .. Len(list) + 1 :
                 i < j => Append(list, p)[q[i]] <= Append(list, p)[q[j]]
<1> DEFINE n == Len(list)
           D == 1 .. n + 1
           more == Append(list, p)
           S == {i \in D : more[i] >= p}
<1>1. n \in Nat /\ more[n + 1] = p /\ \A i \in 1 .. n : more[i] = list[i] /\ list[i] \in Nat
  OBVIOUS
<1>2. \A i, j \in 1 .. n : i < j => more[i] < more[j]
  BY <1>1 DEF Ascending
<1> HIDE DEF n, more
<1>3. PICK k \in S : \A j \in S : k <= j
  <2>1. n + 1 \in S /\ S \subseteq Nat
    BY <1>1
  <2> QED BY <2>1, LeastOfNats
<1>4. \A i \in 1 .. n : i < k => more[i] < p
  BY <1>1, <1>3
<1>5. \A i \in 1 .. n : i >= k => p <= more[i]
  <2> SUFFICES ASSUME NEW i \in 1 .. n, i >= k PROVE p <= more[i]
    OBVIOUS
  <2>1. k \in 1 .. n /\ more[k] >= p
    BY <1>1, <1>3
  <2>2. k < i => more[k] < more[i]
    BY <1>2, <2>1
  <2>3. more[k] \in Nat /\ more[i] \in Nat
    BY <1>1, <2>1
  <2> QED BY <1>1, <2>1, <2>2, <2>3
<1> DEFINE q == [i \in D |-> IF i < k THEN i ELSE IF i = k THEN n + 1 ELSE i - 1]
<1>6. q \in Bijection(D, D)
  <2>1. q \in [D -> D]
    BY <1>1, <1>3
  <2>2. \A i, j \in D : q[i] = q[j] => i = j
    BY <1>1, <1>3
  <2>3. \A t \in D : \E i \in D : q[i] = t
    <3> SUFFICES ASSUME NEW t \in D PROVE \E i \in D : q[i] = t
      OBVIOUS
    <3>1. CASE t < k
      BY <1>1, <1>3, <3>1
    <3>2. CASE t = n + 1
      <4>1. q[k] = t /\ k \in D
        BY <1>1, <1>3, <3>2
      <4> QED BY <4>1
    <3>3. CASE t >= k /\ t # n + 1
      <4>1. q[t + 1] = t /\ t + 1 \in D
        BY <1>1, <1>3, <3>3
      <4> QED BY <4>1
    <3> QED BY <1>1, <1>3, <3>1, <3>2, <3>3
  <2> HIDE DEF q, D
  <2> QED BY <2>1, <2>2, <2>3, Zenon DEF Bijection, Injection, Surjection, IsInjective
<1>7. ASSUME NEW i \in D, NEW j \in D, i < j PROVE more[q[i]] <= more[q[j]]
  <2>1. CASE j < k
    <3>1. q[i] = i /\ q[j] = j /\ i \in 1 .. n /\ j \in 1 .. n
      BY <1>1, <1>3, <1>7, <2>1
    <3>2. more[i] \in Nat /\ more[j] \in Nat /\ more[i] < more[j]
      BY <1>1, <1>2, <1>7, <3>1
    <3> QED BY <3>1, <3>2
  <2>2. CASE j = k
    <3>1. q[i] = i /\ q[j] = n + 1 /\ i \in 1 .. n
      BY <1>1, <1>3, <1>7, <2>2
    <3>2. more[i] \in Nat /\ more[i] < p
      BY <1>1, <1>4, <1>7, <2>2, <3>1
    <3> QED BY <1>1, <3>1, <3>2
  <2>3. CASE k < j /\ i < k
    <3>1. q[i] = i /\ q[j] = j - 1 /\ i \in 1 .. n /\ j - 1 \in 1 .. n /\ j - 1 >= k
      BY <1>1, <1>3, <1>7, <2>3
    <3>2. more[i] \in Nat /\ more[j - 1] \in Nat /\ more[i] < p /\ p <= more[j - 1]
      BY <1>1, <1>4, <1>5, <2>3, <3>1
    <3> QED BY <3>1, <3>2
  <2>4. CASE i = k
    <3>1. q[i] = n + 1 /\ q[j] = j - 1 /\ j - 1 \in 1 .. n /\ j - 1 >= k
      BY <1>1, <1>3, <1>7, <2>4
    <3> QED BY <1>1, <1>5, <3>1
  <2>5. CASE k < i
    <3>1. /\ q[i] = i - 1 /\ q[j] = j - 1 /\ i - 1 \in 1 .. n /\ j - 1 \in 1 .. n
          /\ i - 1 < j - 1
      BY <1>1, <1>3, <1>7, <2>5
    <3>2. more[i - 1] \in Nat /\ more[j - 1] \in Nat /\ more[i - 1] < more[j - 1]
      BY <1>1, <1>2, <3>1
    <3> QED BY <3>1, <3>2
  <2> QED BY <1>1, <1>3, <1>7, <2>1, <2>2, <2>3, <2>4, <2>5
<1> HIDE DEF q
<1> QED BY <1>6, <1>7 DEF n, more

\* The list with a page that was not in it, sorted
LEMMA SortedWithPage ==
    ASSUME NEW list \in Seq(Nat), NEW p \in Nat, Ascending(list),
           \A i \in DOMAIN list : list[i] # p
    PROVE  /\ selectSortSubtitlePage(Append(list, p)) \in Seq(Nat)
           /\ Ascending(selectSortSubtitlePage(Append(list, p)))
<1> DEFINE n == Len(list)
           D == 1 .. n + 1
           more == Append(list, p)
           Sorts(q) == \A i, j \in DOMAIN more : i < j => more[q[i]] <= more[q[j]]
           order == CHOOSE q \in Bijection(DOMAIN more, DOMAIN more) : Sorts(q)
           sorted == [i \in DOMAIN more |-> more[order[i]]]
<1>1. n \in Nat /\ DOMAIN more = D /\ DOMAIN list = 1 .. n
  OBVIOUS
<1>2. more[n + 1] = p /\ \A i \in 1 .. n : more[i] = list[i] /\ list[i] \in Nat
  OBVIOUS
<1>3. \E q \in Bijection(DOMAIN more, DOMAIN more) : Sorts(q)
  BY <1>1, CanBeSorted
<1>4. selectSortSubtitlePage(Append(list, p)) = sorted
  BY DEF selectSortSubtitlePage
<1>5. \A i, j \in D : i # j => more[i] # more[j]
  <2> SUFFICES ASSUME NEW i \in D, NEW j \in D, i < j PROVE more[i] # more[j]
    BY <1>1
  <2>1. i \in 1 .. n /\ list[i] # p /\ more[i] = list[i] /\ list[i] \in Nat
    BY <1>1, <1>2
  <2>2. CASE j = n + 1
    BY <1>2, <2>1, <2>2
  <2>3. CASE j \in 1 .. n
    BY <1>1, <1>2, <2>1, <2>3, SMTT(30) DEF Ascending
  <2> QED BY <1>1, <2>2, <2>3
<1>6. \A i \in D : more[i] \in Nat
  BY <1>1, <1>2
<1> HIDE DEF more, Sorts
<1>7. order \in Bijection(DOMAIN more, DOMAIN more) /\ Sorts(order)
  BY <1>3
<1> HIDE DEF order
<1>8. order \in [D -> D] /\ \A i, j \in D : order[i] = order[j] => i = j
  BY <1>1, <1>7, Zenon DEF Bijection, Injection, IsInjective
<1>9. sorted \in [1 .. n + 1 -> Nat]
  BY <1>1, <1>6, <1>8
<1>10. ASSUME NEW i \in D, NEW j \in D, i < j PROVE sorted[i] < sorted[j]
  <2>1. order[i] \in D /\ order[j] \in D /\ order[i] # order[j]
    <3>1. i # j
      BY <1>1, <1>10
    <3> QED BY <1>8, <3>1, Zenon
  <2>2. more[order[i]] <= more[order[j]]
    BY <1>1, <1>7, <1>10 DEF Sorts
  <2>3. more[order[i]] # more[order[j]] /\ more[order[i]] \in Nat /\ more[order[j]] \in Nat
    BY <1>5, <1>6, <2>1
  <2>4. sorted[i] = more[order[i]] /\ sorted[j] = more[order[j]]
    BY <1>1
  <2> QED BY <2>2, <2>3, <2>4
<1> HIDE DEF sorted
<1>11. sorted \in Seq(Nat) /\ DOMAIN sorted = D
  <2>1. n + 1 \in Nat
    BY <1>1
  <2> HIDE DEF n
  <2> QED BY <1>9, <2>1
<1> QED BY <1>4, <1>10, <1>11 DEF Ascending

LEMMA NoteKeepsOrder ==
    ASSUME NEW c, NEW p \in Nat, Navigable(c)
    PROVE  Navigable(NoteSubtitlePage(c, p))
<1> DEFINE list == c.subtitlePages
           new == p \in SubtitlePages /\ ~isRedundantSubtitlePage(list, p)
                     /\ Len(list) < TELETEXT_SUBTITLE_MAX_NUMBER
           more == IF new THEN Append(list, p) ELSE list
           pages == IF new THEN selectSortSubtitlePage(more) ELSE more
           shown == IF c.gotoSubtitle /\ p \in SubtitlePages THEN more[1] ELSE c.gotoPage
           goal == c.gotoSubtitle /\ p \notin SubtitlePages
           d == [c EXCEPT !.subtitlePages = pages, !.gotoPage = shown, !.gotoSubtitle = goal]
<1>1. list \in Seq(Nat) /\ Ascending(list)
  BY DEF Navigable
<1>2. pages \in Seq(Nat) /\ Ascending(pages)
  <2>1. CASE new
    <3>1. \A i \in DOMAIN list : list[i] # p
      BY <2>1 DEF isRedundantSubtitlePage
    <3>2. pages = selectSortSubtitlePage(Append(list, p))
      BY <2>1
    <3> HIDE DEF list, pages
    <3> QED BY <1>1, <3>1, <3>2, SortedWithPage
  <2>2. CASE ~new
    <3>1. pages = list
      BY <2>2
    <3> QED BY <1>1, <3>1
  <2> QED BY <2>1, <2>2
<1>3. NoteSubtitlePage(c, p) = c \/ NoteSubtitlePage(c, p) = d
  BY Zenon DEF NoteSubtitlePage
<1> HIDE DEF pages, shown, goal
<1>4. /\ Has(d) /\ d.subtitlePages = pages
      /\ d.height = c.height /\ d.heightIndex = c.heightIndex
  BY DEF Navigable, Has
<1> HIDE DEF d
<1>5. Navigable(d)
  BY <1>2, <1>4 DEF Navigable
<1> QED BY <1>3, <1>5

LEMMA HandlerKeepsOrder ==
    ASSUME NEW b, NEW p \in Nat, NEW s, NEW soon, NEW late, Navigable(b)
    PROVE  Navigable(handler(b, p, s, soon, late))
<1> DEFINE c == NoteSubtitlePage(b, p)
           subs == p \in SubtitlePages
           goal == p = c.gotoPage
           d == [c EXCEPT !.isSubtitle = subs]
           shown == [d EXCEPT !.dispUpdate = FALSE, !.pageState = "display"]
           e == IF goal /\ subs THEN shown ELSE d
           state == IF goal /\ e.pageState = "search" THEN "display" ELSE e.pageState
           found == [e EXCEPT !.pageState = state]
           f == setNavigatorPageNumber(found, p)
           one == fetchVbiPage(c, c.gotoPage, c.subPageNum)
           two == fetchVbiPage(one, c.gotoPage, c.subPageNum)
<1>1. \/ handler(b, p, s, soon, late) \in {b, c, e, f, two}
      \/ handler(b, p, s, soon, late) = Draw(f, p)
      \/ handler(b, p, s, soon, late) = Draw(e, p)
  BY Zenon DEF handler
<1>2. Navigable(c) /\ Has(c)
  BY NoteKeepsOrder DEF Navigable
<1> HIDE DEF c, subs, goal
<1>3. Kept(c, d) /\ Has(d)
  BY <1>2 DEF Kept, Has
<1> HIDE DEF d
<1>4. Kept(d, shown)
  BY <1>3 DEF Kept, Has
<1> HIDE DEF shown
<1>5. Kept(c, e) /\ Has(e)
  BY <1>3, <1>4, KeptTwice DEF Kept
<1> HIDE DEF e, state
<1>6. Kept(e, found) /\ Has(found)
  BY <1>5 DEF Kept, Has
<1> HIDE DEF found
<1>7. Kept(c, f) /\ Has(f)
  BY <1>5, <1>6, DrawKeeps, KeptTwice DEF Kept
<1> HIDE DEF f
<1>8. Kept(c, Draw(e, p)) /\ Kept(c, Draw(f, p))
  BY <1>5, <1>7, DrawKeeps, KeptTwice
<1>9. Kept(c, one) /\ Has(one)
  BY <1>2, FetchKeeps DEF Kept
<1> HIDE DEF one
<1>10. Kept(c, two)
  BY <1>9, FetchKeeps, KeptTwice
<1> HIDE DEF two
<1> QED BY <1>1, <1>2, <1>5, <1>7, <1>8, <1>10, KeptNavigable

\* The two keys that enlarge the page and scroll it
LEMMA HeightKeepsOrder ==
    ASSUME NEW c, NEW dir, Navigable(c)
    PROVE  Navigable(doubleHeight(c)) /\ Navigable(doubleScroll(c, dir))
<1> DEFINE D == DOUBLE_HEIGHT_SCROLL_SECTION
<1>1. D \in Nat
  BY TeletextAssumption
<1>2. ASSUME NEW h \in {"normal", "top", "bottom"}, NEW x \in 0 .. (D + 1), h = "normal" => x = 0
      PROVE  Navigable([c EXCEPT !.height = h, !.heightIndex = x])
  BY <1>2 DEF Navigable, Has
<1>3. ASSUME NEW x \in 0 .. (D + 1), c.height # "normal"
      PROVE  Navigable([c EXCEPT !.heightIndex = x])
  BY <1>3 DEF Navigable, Has
<1>4. c.heightIndex \in 0 .. (D + 1)
  BY DEF Navigable
<1>5. Navigable(doubleHeight(c))
  <2>1. \/ doubleHeight(c) = [c EXCEPT !.height = "top", !.heightIndex = 0]
        \/ doubleHeight(c) = [c EXCEPT !.height = "bottom", !.heightIndex = D + 1]
        \/ doubleHeight(c) = [c EXCEPT !.height = "normal", !.heightIndex = 0]
    BY Zenon DEF doubleHeight
  <2>2. 0 \in 0 .. (D + 1) /\ D + 1 \in 0 .. (D + 1)
    BY <1>1
  <2> QED BY <1>2, <2>1, <2>2
<1>6. Navigable(doubleScroll(c, dir))
  <2> DEFINE down == c.heightIndex - 1
             up == c.heightIndex + 1
  <2>1. \/ doubleScroll(c, dir) = c
        \/ /\ c.height # "normal" /\ c.heightIndex \in 1 .. (D + 1)
           /\ doubleScroll(c, dir) = [c EXCEPT !.heightIndex = down]
        \/ /\ c.height # "normal" /\ c.heightIndex \in 0 .. D
           /\ doubleScroll(c, dir) = [c EXCEPT !.heightIndex = up]
    <3> DEFINE a == dir > 0 /\ c.heightIndex \in 1 .. (D + 1)
               b == dir < 0 /\ c.heightIndex \in 0 .. D
    <3>1. doubleScroll(c, dir) = IF c.height = "normal" THEN c
                                 ELSE CASE a -> [c EXCEPT !.heightIndex = down]
                                        [] b -> [c EXCEPT !.heightIndex = up]
                                        [] OTHER -> c
      BY Zenon DEF doubleScroll
    <3>2. /\ a => c.heightIndex \in 1 .. (D + 1)
          /\ b => c.heightIndex \in 0 .. D
      BY Zenon
    <3> HIDE DEF a, b, down, up
    <3>3. \/ doubleScroll(c, dir) = c
          \/ c.height # "normal" /\ a /\ doubleScroll(c, dir) = [c EXCEPT !.heightIndex = down]
          \/ c.height # "normal" /\ b /\ doubleScroll(c, dir) = [c EXCEPT !.heightIndex = up]
      BY <3>1, Zenon
    <3> QED BY <3>2, <3>3, Zenon
  <2>2. c.heightIndex \in 1 .. (D + 1) => down \in 0 .. (D + 1)
    BY <1>1
  <2>3. c.heightIndex \in 0 .. D => up \in 0 .. (D + 1)
    BY <1>1
  <2> HIDE DEF down, up
  <2> QED BY <1>3, <2>1, <2>2, <2>3
<1> QED BY <1>5, <1>6

\* What the other keys do leaves the list and the enlargement alone
LEMMA HandleKeepsOrder ==
    ASSUME NEW c, NEW key \in Keys, Navigable(c)
    PROVE  Navigable(Handle(c, key))
<1>1. Has(c)
  BY DEF Navigable
<1>2. /\ key[1] \in {"goto", "subtitle", "digit", "link", "next", "nextsub", "index", "back", "forward",
                     "hold", "submode", "mix", "reveal", "mode", "height", "scroll"}
      /\ key[1] = "link" => key[2] \in 1 .. 4
  BY TeletextAssumption
<1> DEFINE x == key[1]
<1>3. CASE x = "goto"
  <2> DEFINE d == [c EXCEPT !.subMode = FALSE, !.pageState = "search", !.mode = "graphics"]
  <2>1. Handle(c, key) = gotoPage(d, key[2], 0)
    BY <1>3 DEF Handle
  <2>2. Kept(c, d) /\ Has(d)
    BY <1>1 DEF Kept, Has
  <2> HIDE DEF d
  <2> QED BY <2>1, <2>2, GotoKeeps, KeptTwice, KeptNavigable
<1>4. CASE x = "subtitle"
  <2>1. Handle(c, key) = gotoSubtitle(c, key[2])
    BY <1>4 DEF Handle
  <2> QED BY <1>1, <2>1, SubtitleKeeps, KeptNavigable
<1>5. CASE x = "digit"
  <2>1. Handle(c, key) = Digit(c, key[2])
    BY <1>5 DEF Handle
  <2> QED BY <1>1, <2>1, DigitKeeps, KeptNavigable
<1>6. CASE x = "link"
  <2>1. Handle(c, key) = fetchCountPage(c, 1, key[2])
    BY <1>6 DEF Handle
  <2> QED BY <1>1, <1>2, <1>6, <2>1, CountKeeps, KeptNavigable
<1>7. CASE x = "next"
  <2>1. Handle(c, key) = nextPage(c, key[2])
    BY <1>7 DEF Handle
  <2> QED BY <1>1, <2>1, NextKeeps, KeptNavigable
<1>8. CASE x = "nextsub"
  <2>1. Handle(c, key) = nextSubPage(c, key[2])
    BY <1>8 DEF Handle
  <2> QED BY <1>1, <2>1, NextSubKeeps, KeptNavigable
<1>9. CASE x = "index"
  <2> DEFINE d == [c EXCEPT !.mode = "graphics"]
  <2>1. Handle(c, key) = goHome(d)
    BY <1>9 DEF Handle
  <2>2. Kept(c, d) /\ Has(d)
    BY <1>1 DEF Kept, Has
  <2> HIDE DEF d
  <2> QED BY <2>1, <2>2, HomeKeeps, KeptTwice, KeptNavigable
<1>10. CASE x \in {"back", "forward"}
  <2>1. Handle(c, key) = gotoBackPage(c) \/ Handle(c, key) = gotoForwardPage(c)
    BY <1>10 DEF Handle
  <2> QED BY <1>1, <2>1, ReturnKeeps, KeptNavigable
<1>11. CASE x \in {"hold", "submode", "mix", "reveal", "mode"}
  <2>1. \/ \E v : Handle(c, key) = [c EXCEPT !.lock = v, !.dispUpdate = TRUE]
        \/ \E v : Handle(c, key) = [c EXCEPT !.subMode = v, !.subDigits = 0, !.subNum = 0]
        \/ \E v : Handle(c, key) = [c EXCEPT !.mix = v]
        \/ \E v : Handle(c, key) = [c EXCEPT !.reveal = v]
        \/ \E v : Handle(c, key) = [c EXCEPT !.dispMode = v]
    <3>1. x = "hold" => Handle(c, key) = [c EXCEPT !.lock = ~@, !.dispUpdate = TRUE]
      BY DEF Handle
    <3>2. x = "submode" => Handle(c, key) = [c EXCEPT !.subMode = ~@, !.subDigits = 0, !.subNum = 0]
      BY DEF Handle
    <3>3. x = "mix" => Handle(c, key) = [c EXCEPT !.mix = (@ + 1) % 3]
      BY DEF Handle
    <3>4. x = "reveal" => Handle(c, key) = [c EXCEPT !.reveal = ~@]
      BY DEF Handle
    <3>5. x = "mode" => Handle(c, key) = Toggled(c, key[2])
      BY DEF Handle
    <3>6. \E v : Toggled(c, key[2]) = [c EXCEPT !.dispMode = v]
      BY Zenon DEF Toggled
    <3> HIDE DEF x
    <3> QED BY <1>11, <3>1, <3>2, <3>3, <3>4, <3>5, <3>6, Zenon
  <2>2. ASSUME NEW v
        PROVE  /\ Kept(c, [c EXCEPT !.lock = v, !.dispUpdate = TRUE])
               /\ Kept(c, [c EXCEPT !.subMode = v, !.subDigits = 0, !.subNum = 0])
               /\ Kept(c, [c EXCEPT !.mix = v]) /\ Kept(c, [c EXCEPT !.reveal = v])
               /\ Kept(c, [c EXCEPT !.dispMode = v])
    BY <1>1 DEF Kept, Has
  <2>3. Kept(c, Handle(c, key))
    BY <2>1, <2>2, Zenon
  <2> QED BY <2>3, KeptNavigable
<1>12. CASE x = "height"
  <2>1. Handle(c, key) = doubleHeight(c)
    BY <1>12 DEF Handle
  <2> QED BY <2>1, HeightKeepsOrder
<1>13. CASE x = "scroll"
  <2>1. Handle(c, key) = doubleScroll(c, key[2])
    BY <1>13 DEF Handle
  <2> QED BY <2>1, HeightKeepsOrder
<1> QED BY <1>2, <1>3, <1>4, <1>5, <1>6, <1>7, <1>8, <1>9, <1>10, <1>11, <1>12, <1>13

LEMMA TeletextInvInit == TeletextInit => TeletextInv
<1> SUFFICES ASSUME TeletextInit PROVE TeletextInv
  OBVIOUS
<1>1. /\ Has(tt) /\ tt.subtitlePages = <<>> /\ tt.height = "normal" /\ tt.heightIndex = 0
  BY DEF TeletextInit, Has
<1>2. DOUBLE_HEIGHT_SCROLL_SECTION \in Nat
  BY TeletextAssumption
<1>3. Navigable(tt)
  BY <1>1, <1>2 DEF Navigable, Ascending
<1>4. mControlCmds \in Seq(Keys)
  BY DEF TeletextInit
<1> QED BY <1>3, <1>4 DEF TeletextInv

LEMMA TeletextInvNext == TeletextInv /\ [TeletextNext]_ttVars => TeletextInv'
<1> SUFFICES ASSUME TeletextInv, [TeletextNext]_ttVars PROVE TeletextInv'
  OBVIOUS
<1>1. Navigable(tt) /\ Has(tt) /\ mControlCmds \in Seq(Keys)
  BY DEF TeletextInv, Navigable
<1>2. ASSUME NEW key \in Keys, updateParameter(key) PROVE TeletextInv'
  <2> DEFINE Q == Seq(Keys)
  <2>1. mControlCmds' \in Q /\ tt' = tt
    BY <1>1, <1>2 DEF updateParameter
  <2> QED BY <1>1, <2>1 DEF TeletextInv, Navigable, Has, Ascending
<1>3. ASSUME handleControl PROVE TeletextInv'
  <2>1. /\ Head(mControlCmds) \in Keys /\ Tail(mControlCmds) \in Seq(Keys)
        /\ tt' = Handle(tt, Head(mControlCmds)) /\ mControlCmds' = Tail(mControlCmds)
    BY <1>1, <1>3 DEF handleControl
  <2>2. Navigable(Handle(tt, Head(mControlCmds)))
    BY <1>1, <2>1, HandleKeepsOrder
  <2> QED BY <2>1, <2>2 DEF TeletextInv, Navigable, Has, Ascending
<1>4. ASSUME FrameBegins PROVE TeletextInv'
  <2>1. PICK v, h : tt' = [tt EXCEPT !.vbi = TRUE, !.tv = v, !.handlerOk = h]
    BY <1>4, Zenon DEF FrameBegins
  <2>2. Kept(tt, [tt EXCEPT !.vbi = TRUE, !.tv = v, !.handlerOk = h])
    BY <1>1 DEF Kept, Has
  <2>3. Navigable([tt EXCEPT !.vbi = TRUE, !.tv = v, !.handlerOk = h])
    BY <1>1, <2>2, KeptNavigable
  <2>4. mControlCmds' = mControlCmds
    BY <1>4 DEF FrameBegins
  <2> QED BY <1>1, <2>1, <2>3, <2>4 DEF TeletextInv, Navigable, Has, Ascending
<1>5. ASSUME NEW p \in OnAir, PageReported(p) PROVE TeletextInv'
  <2> DEFINE more == tt.cache \cup {p}
             d == [tt EXCEPT !.cache = more]
  <2>1. PICK soon, late \in BOOLEAN : tt' = handler(d, p[1], p[2], soon, late)
    BY <1>5 DEF PageReported
  <2>2. p[1] \in Nat
    BY TeletextAssumption
  <2> HIDE DEF more
  <2>3. Kept(tt, d)
    BY <1>1 DEF Kept, Has
  <2> HIDE DEF d
  <2>4. Navigable(handler(d, p[1], p[2], soon, late))
    BY <1>1, <2>2, <2>3, KeptNavigable, HandlerKeepsOrder
  <2>5. mControlCmds' = mControlCmds
    BY <1>5 DEF PageReported
  <2> QED BY <1>1, <2>1, <2>4, <2>5 DEF TeletextInv, Navigable, Has, Ascending
<1>6. ASSUME TimeReported PROVE TeletextInv'
  <2>1. tt' = tt2TimeUpdate(tt) /\ mControlCmds' = mControlCmds
    BY <1>6 DEF TimeReported
  <2>2. Navigable(tt2TimeUpdate(tt))
    BY <1>1, TimeKeeps, KeptNavigable
  <2> QED BY <1>1, <2>1, <2>2 DEF TeletextInv, Navigable, Has, Ascending
<1>7. ASSUME FrameEnds PROVE TeletextInv'
  <2>1. tt' = tt \/ \E l, v : tt' = [tt EXCEPT !.pages = l, !.textBack = v]
    BY <1>7, Zenon DEF FrameEnds
  <2>2. ASSUME NEW l, NEW v PROVE Navigable([tt EXCEPT !.pages = l, !.textBack = v])
    <3>1. Kept(tt, [tt EXCEPT !.pages = l, !.textBack = v])
      BY <1>1 DEF Kept, Has
    <3> QED BY <1>1, <3>1, KeptNavigable
  <2>3. mControlCmds' = mControlCmds
    BY <1>7 DEF FrameEnds
  <2> QED BY <1>1, <2>1, <2>2, <2>3 DEF TeletextInv, Navigable, Has, Ascending
<1>8. CASE UNCHANGED ttVars
  BY <1>1, <1>8 DEF TeletextInv, ttVars, Navigable, Has, Ascending
<1> QED BY <1>2, <1>3, <1>4, <1>5, <1>6, <1>7, <1>8 DEF TeletextNext

(* The list that the subtitle key goes through has the pages found in order,   *)
(* each once, whatever is broadcast and whatever keys come between the reports *)
(* (a page is put into the list at the end, then sorted, while the display is  *)
(* updated); and no order of the height and scroll keys takes the enlarged     *)
(* page past its section, or leaves a section chosen for the page in its own   *)
(* height.                                                                     *)
THEOREM TeletextPagesSorted == TeletextSpec => []SubtitlePagesSorted
<1>1. TeletextInv => SubtitlePagesSorted
  <2> SUFFICES ASSUME TeletextInv PROVE SubtitlePagesSorted
    OBVIOUS
  <2>1. Navigable(tt) /\ tt.subtitlePages \in Seq(Nat) /\ Ascending(tt.subtitlePages)
    BY DEF TeletextInv, Navigable
  <2> DEFINE list == tt.subtitlePages
  <2>2. ASSUME NEW i \in 1 .. (Len(list) - 1) PROVE list[i] < list[i + 1]
    <3>1. i \in DOMAIN list /\ i + 1 \in DOMAIN list /\ i < i + 1
      BY <2>1
    <3> HIDE DEF list
    <3> QED BY <2>1, <3>1 DEF Ascending, list
  <2> QED BY <2>1, <2>2 DEF SubtitlePagesSorted, Navigable
<1> QED BY <1>1, TeletextInvInit, TeletextInvNext, PTL DEF TeletextSpec

-----------------------------------------------------------------------------
(* DVB                                                                         *)

\* The lists of regions rs and of objects os
ListTypes(rs, os) ==
    /\ rs = [r \in DOMAIN rs |-> rs[r]] /\ os = [o \in DOMAIN os |-> os[o]]
    /\ \A r \in DOMAIN rs : rs[r].shows \in Seq(Displays)
    /\ \A o \in DOMAIN os : \A n \in os[o] : \E r \in DOMAIN rs, k \in Nat : n = <<r, k>>

Linked(rs, os) ==
    /\ \A r \in DOMAIN rs : \A k \in DOMAIN rs[r].shows :
          rs[r].shows[k].object \in DOMAIN os /\ <<r, k>> \in os[rs[r].shows[k].object]
    /\ \A o \in DOMAIN os : \A r, k :
          <<r, k>> \in os[o] =>
             r \in DOMAIN rs /\ k \in DOMAIN rs[r].shows /\ rs[r].shows[k].object = o
    /\ \A o \in DOMAIN os : os[o] # {}

ListsLinked == ListTypes(regions, objects) /\ Linked(regions, objects)

LEMMA NothingLinked == ListTypes(NoEntries, NoEntries) /\ Linked(NoEntries, NoEntries)
BY DEF ListTypes, Linked, NoEntries

\* Without the entries of region r every list is as it was for the other regions
LEMMA OthersStay ==
    ASSUME NEW r, ListsLinked
    PROVE  LET kept == DeleteRegionDisplayList(objects, r) IN
           /\ DOMAIN kept \subseteq DOMAIN objects /\ kept = [o \in DOMAIN kept |-> kept[o]]
           /\ \A o \in DOMAIN kept : kept[o] \subseteq objects[o] /\ kept[o] # {}
           /\ \A q, k, o : o \in DOMAIN objects /\ <<q, k>> \in objects[o] /\ q # r =>
                 o \in DOMAIN kept /\ <<q, k>> \in kept[o]
           /\ \A k, o : o \in DOMAIN kept => <<r, k>> \notin kept[o]
<1> DEFINE ks == IF r \in DOMAIN regions THEN DOMAIN regions[r].shows ELSE {}
           mine == {<<r, k>> : k \in ks}
           touched == {o \in DOMAIN objects : objects[o] \cap mine # {}}
           freed == {o \in touched : objects[o] \subseteq mine}
           kept == [o \in DOMAIN objects \ freed |-> objects[o] \ mine]
<1>1. DeleteRegionDisplayList(objects, r) = kept
  BY DEF DeleteRegionDisplayList
<1>2. \A q, k : <<q, k>> \in mine <=> q = r /\ k \in ks
  OBVIOUS
<1>3. \A o \in DOMAIN objects : objects[o] # {}
  BY DEF ListsLinked, Linked
<1>4. \A k, o : o \in DOMAIN objects /\ <<r, k>> \in objects[o] => k \in ks
  BY DEF ListsLinked, Linked
<1> HIDE DEF ks, mine
<1>5. ASSUME NEW o \in DOMAIN kept PROVE kept[o] \subseteq objects[o] /\ kept[o] # {}
  BY <1>3
<1>6. ASSUME NEW q, NEW k, NEW o \in DOMAIN objects, <<q, k>> \in objects[o], q # r
      PROVE  o \in DOMAIN kept /\ <<q, k>> \in kept[o]
  <2>1. <<q, k>> \notin mine
    BY <1>2, <1>6
  <2>2. o \notin freed
    BY <1>6, <2>1
  <2> QED BY <1>6, <2>1, <2>2
<1>7. ASSUME NEW k, NEW o \in DOMAIN kept PROVE <<r, k>> \notin kept[o]
  BY <1>2, <1>4
<1>8. DOMAIN kept \subseteq DOMAIN objects /\ kept = [o \in DOMAIN kept |-> kept[o]]
  OBVIOUS
<1> HIDE DEF kept
<1> QED BY <1>1, <1>5, <1>6, <1>7, <1>8

\* A region segment: the region is new, or has another list than before
LEMMA RegionLinked ==
    ASSUME ListsLinked, NEW r, NEW h, NEW depth, NEW clut, NEW list \in Listings,
           ParseRegionSegment(r, h, depth, clut, list)
    PROVE  ListsLinked'
<1> DEFINE kept == DeleteRegionDisplayList(objects, r)
           region == [h |-> h, depth |-> depth, clut |-> clut, shows |-> list]
           mine(o) == {<<r, k>> : k \in {i \in DOMAIN list : list[i].object = o}}
           rs == [q \in DOMAIN regions \cup {r} |-> IF q = r THEN region ELSE regions[q]]
           listed == {list[i].object : i \in DOMAIN list}
           os == [o \in DOMAIN kept \cup listed |->
                    (IF o \in DOMAIN kept THEN kept[o] ELSE {}) \cup mine(o)]
<1>1. regions' = rs /\ objects' = os
  BY DEF ParseRegionSegment
<1>2. list \in Seq(Displays) /\ DOMAIN list \subseteq Nat /\ region.shows = list
  BY DvbAssumption
<1>3. \A o, q, k : <<q, k>> \in mine(o) <=> q = r /\ k \in DOMAIN list /\ list[k].object = o
  OBVIOUS
<1>4. /\ DOMAIN kept \subseteq DOMAIN objects
      /\ \A o \in DOMAIN kept : kept[o] \subseteq objects[o] /\ kept[o] # {}
      /\ \A q, k, o : o \in DOMAIN objects /\ <<q, k>> \in objects[o] /\ q # r =>
            o \in DOMAIN kept /\ <<q, k>> \in kept[o]
      /\ \A k, o : o \in DOMAIN kept => <<r, k>> \notin kept[o]
  BY OthersStay
<1>5. /\ DOMAIN rs = DOMAIN regions \cup {r} /\ rs[r].shows = list
      /\ \A q \in DOMAIN regions : q # r => rs[q] = regions[q]
  BY <1>2
<1>6. /\ DOMAIN os = DOMAIN kept \cup listed
      /\ \A o \in DOMAIN os :
            \A n : n \in os[o] <=> (o \in DOMAIN kept /\ n \in kept[o]) \/ n \in mine(o)
  OBVIOUS
<1>7. \A o, n : n \in mine(o) => \E k \in Nat : n = <<r, k>>
  BY <1>2
<1> HIDE DEF kept, region, mine, listed
<1>8. rs = [q \in DOMAIN rs |-> rs[q]] /\ os = [o \in DOMAIN os |-> os[o]]
  OBVIOUS
<1> HIDE DEF rs, os
<1>9. ListTypes(rs, os)
  <2>1. \A q \in DOMAIN rs : rs[q].shows \in Seq(Displays)
    BY <1>2, <1>5 DEF ListsLinked, ListTypes
  <2>2. ASSUME NEW o \in DOMAIN os, NEW n \in os[o]
        PROVE  \E q \in DOMAIN rs, k \in Nat : n = <<q, k>>
    <3>1. CASE o \in DOMAIN kept /\ n \in kept[o]
      <4>1. \E q \in DOMAIN regions, k \in Nat : n = <<q, k>>
        BY <1>4, <3>1 DEF ListsLinked, ListTypes
      <4> QED BY <1>5, <4>1
    <3>2. CASE n \in mine(o)
      BY <1>5, <1>7, <3>2
    <3> QED BY <1>6, <3>1, <3>2
  <2> QED BY <1>8, <2>1, <2>2 DEF ListTypes
<1>10. Linked(rs, os)
  <2>1. ASSUME NEW q \in DOMAIN rs, NEW k \in DOMAIN rs[q].shows
        PROVE  rs[q].shows[k].object \in DOMAIN os /\ <<q, k>> \in os[rs[q].shows[k].object]
    <3>1. CASE q = r
      <4>1. k \in DOMAIN list /\ rs[q].shows[k] = list[k]
        BY <1>5, <3>1
      <4>2. list[k].object \in DOMAIN os /\ <<q, k>> \in mine(list[k].object)
        BY <1>3, <1>6, <3>1, <4>1 DEF listed
      <4> QED BY <1>6, <4>1, <4>2
    <3>2. CASE q # r
      <4> DEFINE o == regions[q].shows[k].object
      <4>1. q \in DOMAIN regions /\ rs[q] = regions[q]
        BY <1>5, <3>2
      <4>2. o \in DOMAIN objects /\ <<q, k>> \in objects[o]
        BY <4>1 DEF ListsLinked, Linked
      <4>3. o \in DOMAIN kept /\ <<q, k>> \in kept[o]
        BY <1>4, <3>2, <4>2
      <4> QED BY <1>6, <4>1, <4>3
    <3> QED BY <3>1, <3>2
  <2>2. ASSUME NEW o \in DOMAIN os, NEW q, NEW k, <<q, k>> \in os[o]
        PROVE  q \in DOMAIN rs /\ k \in DOMAIN rs[q].shows /\ rs[q].shows[k].object = o
    <3>1. CASE o \in DOMAIN kept /\ <<q, k>> \in kept[o]
      <4>1. q # r /\ o \in DOMAIN objects /\ <<q, k>> \in objects[o]
        BY <1>4, <3>1
      <4>2. q \in DOMAIN regions /\ k \in DOMAIN regions[q].shows /\ regions[q].shows[k].object = o
        BY <4>1 DEF ListsLinked, Linked
      <4> QED BY <1>5, <4>1, <4>2
    <3>2. CASE <<q, k>> \in mine(o)
      BY <1>3, <1>5, <3>2
    <3> QED BY <1>6, <2>2, <3>1, <3>2
  <2>3. ASSUME NEW o \in DOMAIN os PROVE os[o] # {}
    <3>1. CASE o \in DOMAIN kept
      BY <1>4, <1>6, <3>1
    <3>2. CASE o \in listed
      <4>1. PICK k \in DOMAIN list : list[k].object = o
        BY <3>2 DEF listed
      <4>2. <<r, k>> \in mine(o)
        BY <1>3, <4>1
      <4> QED BY <1>6, <4>2
    <3> QED BY <1>6, <3>1, <3>2
  <2> QED BY <2>1, <2>2, <2>3 DEF Linked
<1> QED BY <1>1, <1>9, <1>10 DEF ListsLinked

LEMMA DvbInvInit == DvbInit => ListsLinked
BY NothingLinked DEF DvbInit, ListsLinked

LEMMA DvbInvNext == ListsLinked /\ [DvbNext]_dvbVars => ListsLinked'
<1> SUFFICES ASSUME ListsLinked, [DvbNext]_dvbVars PROVE ListsLinked'
  OBVIOUS
<1>1. UNCHANGED <<regions, objects>> => ListsLinked'
  BY DEF ListsLinked
<1>2. DeleteAll => ListsLinked'
  BY NothingLinked DEF DeleteAll, ListsLinked
<1>3. ASSUME NEW c \in PageIds, NEW a \in PageIds, UpdateParameter(c, a) PROVE ListsLinked'
  BY <1>1, <1>3 DEF UpdateParameter
<1>4. CASE GetDvbSpu \/ EndOfPacket \/ StopDvbParser
  BY <1>1, <1>4 DEF GetDvbSpu, EndOfPacket, StopDvbParser
<1>5. CASE DestroyDvbParser
  BY <1>2, <1>5 DEF DestroyDvbParser
<1>6. CASE DecodeSubtitle
  <2>1. ASSUME NEW state, NEW list, ParsePageSegment(state, list) PROVE ListsLinked'
    BY <1>1, <1>2, <2>1 DEF ParsePageSegment
  <2>2. ASSUME NEW r, NEW h, NEW depth, NEW c, NEW list \in Listings,
               ParseRegionSegment(r, h, depth, c, list)
        PROVE  ListsLinked'
    BY <2>2, RegionLinked
  <2>3. ASSUME NEW c, ParseClutSegment(c) PROVE ListsLinked'
    BY <1>1, <2>3 DEF ParseClutSegment
  <2>4. ASSUME NEW o, NEW pic, ParseObjectSegment(o, pic) PROVE ListsLinked'
    BY <1>1, <2>4 DEF ParseObjectSegment
  <2>5. ASSUME NEW v, ParseDisplayDefinitionSegment(v) PROVE ListsLinked'
    BY <1>1, <2>5 DEF ParseDisplayDefinitionSegment
  <2>6. CASE DisplayEndSegment
    BY <1>1, <2>6 DEF DisplayEndSegment
  <2> QED BY <1>6, <2>1, <2>2, <2>3, <2>4, <2>5, <2>6 DEF DecodeSubtitle
<1>7. CASE UNCHANGED dvbVars
  BY <1>1, <1>7 DEF dvbVars
<1> QED BY <1>3, <1>4, <1>5, <1>6, <1>7 DEF DvbNext

(* The two lists an entry is in agree at all times, for any regions and objects *)
(* and any order of segments: what is freed with a region or an object is       *)
(* nowhere referred to (deleteRegionDisplayList, parseRegionSegment).           *)
THEOREM DvbDisplaysLinked == DvbSpec => []DisplaysLinked
<1>1. ListsLinked => DisplaysLinked
  <2> SUFFICES ASSUME ListsLinked PROVE DisplaysLinked
    OBVIOUS
  <2>1. ASSUME NEW o \in DOMAIN objects, NEW n \in objects[o]
        PROVE  /\ n[1] \in DOMAIN regions /\ n[2] \in DOMAIN regions[n[1]].shows
               /\ regions[n[1]].shows[n[2]].object = o
    <3>1. PICK r \in DOMAIN regions, k \in Nat : n = <<r, k>>
      BY DEF ListsLinked, ListTypes
    <3>2. n[1] = r /\ n[2] = k
      BY <3>1
    <3> QED BY <3>1, <3>2 DEF ListsLinked, Linked
  <2> QED BY <2>1 DEF DisplaysLinked, ListsLinked, Linked
<1> QED BY <1>1, DvbInvInit, DvbInvNext, PTL DEF DvbSpec

-----------------------------------------------------------------------------
(* DVB: where pixels and regions are put                                       *)

\* The lesser of two numbers
LEMMA MinOfTwo ==
    ASSUME NEW a \in Int, NEW b \in Int
    PROVE  Min({a, b}) = IF a <= b THEN a ELSE b
<1> DEFINE m == IF a <= b THEN a ELSE b
<1>1. m \in {a, b} /\ \A y \in {a, b} : m <= y
  OBVIOUS
<1>2. Min({a, b}) \in {a, b} /\ \A y \in {a, b} : Min({a, b}) <= y
  BY <1>1 DEF Min
<1>3. Min({a, b}) \in Int
  BY <1>2
<1> QED BY <1>1, <1>2, <1>3

\* Some fields of the record change
StringStates(D) == [read : Nat, put : Nat, used : Nat, done : D]

LEMMA StringChanges ==
    ASSUME NEW D, NEW st \in StringStates(D), NEW read \in Nat, NEW put \in Nat, NEW done \in D
    PROVE  /\ [st EXCEPT !.used = @ + 1, !.read = read, !.put = put] \in StringStates(D)
           /\ [st EXCEPT !.used = @ + 1, !.done = done] \in StringStates(D)
<1>1. st.used + 1 \in Nat
  BY DEF StringStates
<1>2. [st EXCEPT !.used = st.used + 1, !.read = read, !.put = put] \in StringStates(D)
  BY <1>1 DEF StringStates
<1>3. [st EXCEPT !.used = st.used + 1, !.done = done] \in StringStates(D)
  BY <1>1 DEF StringStates
<1> QED BY <1>2, <1>3

\* What a string has made of its codes: the pixels put are within the room, and
\* none is put where the limit is 0
Strings(room, limit) ==
    {st \in StringStates(BOOLEAN) :
        st.put <= st.read /\ st.put <= room /\ (st.put > 0 => limit > 0)}

LEMMA CodeStays ==
    ASSUME NEW room \in Nat, NEW limit \in Nat, NEW nonMod,
           NEW st \in Strings(room, limit), NEW c \in Codes
    PROVE  /\ ReadCode24(st, c, room, limit, nonMod) \in Strings(room, limit)
           /\ ReadCode8(st, c, room, limit, nonMod) \in Strings(room, limit)
<1> DEFINE goes == ~(st.done \/ st.used >= limit \/ st.read >= room)
<1>1. /\ st \in StringStates(BOOLEAN) /\ st.read \in Nat /\ st.put \in Nat /\ st.used \in Nat
      /\ st.put <= st.read /\ st.put <= room /\ (st.put > 0 => limit > 0)
      /\ c.run \in Nat /\ c.kind \in {"pixel", "run", "pair", "end"}
  BY DEF Strings, StringStates, Codes
<1>2. goes => st.read < room /\ limit > 0
  BY <1>1
<1>3. ASSUME NEW read \in Nat, NEW put \in Nat, put <= read, put <= room, limit > 0
      PROVE  [st EXCEPT !.used = @ + 1, !.read = read, !.put = put] \in Strings(room, limit)
  <2> DEFINE r == [st EXCEPT !.used = @ + 1, !.read = read, !.put = put]
  <2>1. r \in StringStates(BOOLEAN)
    BY <1>1, StringChanges
  <2>2. r.read = read /\ r.put = put
    BY <1>1 DEF StringStates
  <2> HIDE DEF r
  <2>3. r \in Strings(room, limit)
    BY <1>3, <2>1, <2>2 DEF Strings
  <2> QED BY <2>3 DEF r
<1>4. [st EXCEPT !.used = @ + 1, !.done = TRUE] \in Strings(room, limit)
  <2> DEFINE r == [st EXCEPT !.used = @ + 1, !.done = TRUE]
  <2>1. r \in StringStates(BOOLEAN)
    <3>1. TRUE \in BOOLEAN /\ 0 \in Nat
      OBVIOUS
    <3> QED BY <1>1, <3>1, StringChanges
  <2>2. r.read = st.read /\ r.put = st.put
    BY <1>1 DEF StringStates
  <2> HIDE DEF r
  <2>3. r \in Strings(room, limit)
    BY <1>1, <2>1, <2>2 DEF Strings
  <2> QED BY <2>3 DEF r
<1>5. ReadCode24(st, c, room, limit, nonMod) \in Strings(room, limit)
  <2> DEFINE n == Min({c.run, room - st.read})
  <2>1. goes => n \in Nat /\ st.read + n <= room
    BY <1>1, <1>2, MinOfTwo
  <2> HIDE DEF n
  <2>2. CASE ~goes
    BY <2>2 DEF ReadCode24
  <2>3. CASE goes /\ c.kind = "pixel"
    <3> DEFINE put == IF Skipped(c, nonMod) THEN st.put ELSE st.put + 1
    <3>1. put \in Nat /\ put <= st.read + 1 /\ put <= room /\ st.read + 1 \in Nat /\ limit > 0
      BY <1>1, <1>2, <2>3
    <3>2. ReadCode24(st, c, room, limit, nonMod) =
             [st EXCEPT !.used = @ + 1, !.read = st.read + 1, !.put = put]
      BY <1>1, <2>3 DEF ReadCode24
    <3> HIDE DEF put
    <3> QED BY <1>3, <3>1, <3>2
  <2>4. CASE goes /\ c.kind = "run" /\ Skipped(c, nonMod)
    <3>1. ReadCode24(st, c, room, limit, nonMod) =
             [st EXCEPT !.used = @ + 1, !.read = st.read + c.run, !.put = st.put]
      BY <1>1, <2>4 DEF ReadCode24
    <3>2. st.read + c.run \in Nat /\ st.put <= st.read + c.run /\ st.put \in Nat /\ st.put <= room /\ limit > 0
      BY <1>1, <1>2, <2>4
    <3> QED BY <1>3, <3>1, <3>2
  <2>5. CASE goes /\ c.kind = "run" /\ ~Skipped(c, nonMod)
    <3>1. ReadCode24(st, c, room, limit, nonMod) =
             [st EXCEPT !.used = @ + 1, !.read = st.read + n, !.put = st.put + n]
      BY <1>1, <2>5 DEF ReadCode24, n
    <3>2. /\ st.read + n \in Nat /\ st.put + n \in Nat
          /\ st.put + n <= st.read + n /\ st.put + n <= room /\ limit > 0
      BY <1>1, <1>2, <2>1, <2>5
    <3> QED BY <1>3, <3>1, <3>2
  <2>6. CASE goes /\ c.kind = "pair"
    <3> DEFINE put == IF st.read + 2 <= room THEN st.put + 2 ELSE st.put
    <3>1. ReadCode24(st, c, room, limit, nonMod) =
             [st EXCEPT !.used = @ + 1, !.read = st.read + 2, !.put = put]
      BY <1>1, <2>6 DEF ReadCode24
    <3>2. put \in Nat /\ put <= st.read + 2 /\ put <= room /\ st.read + 2 \in Nat /\ limit > 0
      BY <1>1, <1>2, <2>6
    <3> HIDE DEF put
    <3> QED BY <1>3, <3>1, <3>2
  <2>7. CASE goes /\ c.kind = "end"
    BY <1>1, <1>4, <2>7 DEF ReadCode24
  <2> QED BY <1>1, <2>2, <2>3, <2>4, <2>5, <2>6, <2>7
<1>6. ReadCode8(st, c, room, limit, nonMod) \in Strings(room, limit)
  <2> DEFINE start == IF Skipped(c, nonMod) THEN st.read + c.run ELSE st.read
             n == IF start < room THEN Min({c.run, room - start}) ELSE 0
  <2>1. start \in Nat /\ st.put <= start
    BY <1>1
  <2>2. n \in Nat /\ (n > 0 => start + n <= room)
    BY <1>1, <2>1, MinOfTwo
  <2>3. CASE ~goes
    BY <2>3 DEF ReadCode8
  <2>4. CASE goes /\ c.kind = "pixel"
    <3> DEFINE put == IF Skipped(c, nonMod) THEN st.put ELSE st.put + 1
    <3>1. put \in Nat /\ put <= st.read + 1 /\ put <= room /\ st.read + 1 \in Nat /\ limit > 0
      BY <1>1, <1>2, <2>4
    <3>2. ReadCode8(st, c, room, limit, nonMod) =
             [st EXCEPT !.used = @ + 1, !.read = st.read + 1, !.put = put]
      BY <1>1, <2>4 DEF ReadCode8
    <3> HIDE DEF put
    <3> QED BY <1>3, <3>1, <3>2
  <2>5. CASE goes /\ c.kind \in {"run", "pair"}
    <3>1. ReadCode8(st, c, room, limit, nonMod) =
             [st EXCEPT !.used = @ + 1, !.read = start + n, !.put = st.put + n]
      BY <1>1, <2>5 DEF ReadCode8
    <3> HIDE DEF start, n
    <3>2. start + n \in Nat /\ st.put + n \in Nat /\ st.put + n <= start + n /\ st.put + n <= room /\ limit > 0
      BY <1>1, <1>2, <2>1, <2>2, <2>5
    <3> QED BY <1>3, <3>1, <3>2
  <2>6. CASE goes /\ c.kind = "end"
    BY <1>1, <1>4, <2>6 DEF ReadCode8
  <2> QED BY <1>1, <2>3, <2>4, <2>5, <2>6
<1> QED BY <1>5, <1>6

\* A string of codes
LEMMA StringStays ==
    ASSUME NEW room \in Nat, NEW limit \in Nat, NEW nonMod, NEW bits, NEW codes \in Seq(Codes)
    PROVE  ReadString(bits, codes, room, limit, nonMod) \in Strings(room, limit)
<1> DEFINE N == Len(codes)
           Q == Strings(room, limit)
           Put(st, i) == IF bits = 8 THEN ReadCode8(st, codes[i], room, limit, nonMod)
                         ELSE ReadCode24(st, codes[i], room, limit, nonMod)
           f(w) == [i \in 0 .. N |->
                       IF i = 0 THEN NoPixels
                       ELSE IF bits = 8 THEN ReadCode8(w[i - 1], codes[i], room, limit, nonMod)
                       ELSE ReadCode24(w[i - 1], codes[i], room, limit, nonMod)]
           after == CHOOSE w : w = f(w)
           F == [p \in (1 .. N) \X Q |-> Put(p[2], p[1])]
<1>1. N \in Nat /\ NoPixels \in Q
  <2>1. NoPixels \in StringStates(BOOLEAN)
    BY DEF NoPixels, StringStates
  <2>2. NoPixels.put = 0 /\ NoPixels.read = 0
    BY DEF NoPixels
  <2>3. NoPixels \in Q
    BY <2>1, <2>2 DEF Strings
  <2> QED BY <2>3
<1>2. ASSUME NEW i \in 1 .. N, NEW st \in Q PROVE Put(st, i) \in Q
  <2>1. codes[i] \in Codes
    OBVIOUS
  <2> QED BY <2>1, CodeStays
<1>3. ReadString(bits, codes, room, limit, nonMod) = after[N]
  BY DEF ReadString
<1>4. \A w : f(w) = [i \in 0 .. N |-> IF i = 0 THEN NoPixels ELSE Put(w[i - 1], i)]
  OBVIOUS
<1> HIDE DEF N, Q, Put, f
<1>5. F \in [(1 .. N) \X Q -> Q] /\ \A i \in 1 .. N, st \in Q : F[<<i, st>>] = Put(st, i)
  BY <1>2
<1> HIDE DEF F
<1>6. PICK v \in [0 .. N -> Q] : GoesBy(v, N, NoPixels, F)
  BY <1>1, <1>5, RecursionEquation
<1>7. v = f(v)
  <2>1. \A i \in 0 .. N : i = 0 \/ F[<<i, v[i - 1]>>] = Put(v[i - 1], i)
    BY <1>1, <1>5
  <2>2. v = [i \in 0 .. N |-> IF i = 0 THEN NoPixels ELSE Put(v[i - 1], i)]
    BY <1>6, <2>1 DEF GoesBy
  <2> QED BY <1>4, <2>2
<1>8. after = f(after)
  BY <1>7
<1> HIDE DEF after
<1>9. after[0] \in Q /\ \A i \in 1 .. N : after[i - 1] \in Q => after[i] \in Q
  <2>1. after = [i \in 0 .. N |-> IF i = 0 THEN NoPixels ELSE Put(after[i - 1], i)]
    BY <1>4, <1>8
  <2>2. after[0] = NoPixels /\ \A i \in 1 .. N : after[i] = Put(after[i - 1], i)
    BY <1>1, <2>1
  <2> QED BY <1>1, <1>2, <2>2
<1>10. \A i \in 0 .. N : after[i] \in Q
  BY <1>1, <1>9, StaysIn
<1>11. N \in 0 .. N
  BY <1>1
<1> QED BY <1>3, <1>10, <1>11 DEF Q

\* There are as many units left, or none
LEMMA UnitsLeft ==
    ASSUME NEW block \in Seq(SubBlocks), NEW k \in 1 .. Len(block)
    PROVE  UnitsFrom(block, k) \in Nat
<1> DEFINE N == Len(block)
           U(n) == Len(block[N + 1 - n].codes)
           f(w) == [n \in 0 .. N |-> IF n = 0 THEN 0 ELSE w[n - 1] + 1 + Len(block[N + 1 - n].codes)]
           last == CHOOSE w : w = f(w)
           F == [p \in (1 .. N) \X Nat |-> p[2] + 1 + U(p[1])]
<1>1. N \in Nat /\ N + 1 - k \in 0 .. N
  OBVIOUS
<1>2. \A n \in 1 .. N : U(n) \in Nat
  <2> SUFFICES ASSUME NEW n \in 1 .. N PROVE U(n) \in Nat
    OBVIOUS
  <2>1. N + 1 - n \in 1 .. Len(block)
    OBVIOUS
  <2>2. block[N + 1 - n] \in SubBlocks
    BY <2>1
  <2> QED BY <2>2 DEF SubBlocks
<1>3. UnitsFrom(block, k) = last[N + 1 - k]
  BY DEF UnitsFrom
<1>4. \A w : f(w) = [n \in 0 .. N |-> IF n = 0 THEN 0 ELSE w[n - 1] + 1 + U(n)]
  OBVIOUS
<1> HIDE DEF N, U, f
<1>5. F \in [(1 .. N) \X Nat -> Nat] /\ \A n \in 1 .. N, m \in Nat : F[<<n, m>>] = m + 1 + U(n)
  BY <1>2
<1> HIDE DEF F
<1>6. PICK v \in [0 .. N -> Nat] : GoesBy(v, N, 0, F)
  <2>1. 0 \in Nat
    OBVIOUS
  <2> QED BY <1>1, <1>5, <2>1, RecursionEquation
<1>7. v = f(v)
  <2>1. \A n \in 0 .. N : n = 0 \/ F[<<n, v[n - 1]>>] = v[n - 1] + 1 + U(n)
    BY <1>1, <1>5
  <2>2. v = [n \in 0 .. N |-> IF n = 0 THEN 0 ELSE v[n - 1] + 1 + U(n)]
    BY <1>6, <2>1 DEF GoesBy
  <2> QED BY <1>4, <2>2
<1>8. last = f(last)
  BY <1>7
<1> HIDE DEF last
<1>9. last[0] = 0 /\ \A n \in 1 .. N : last[n] = last[n - 1] + 1 + U(n)
  <2>1. last = [n \in 0 .. N |-> IF n = 0 THEN 0 ELSE last[n - 1] + 1 + U(n)]
    BY <1>4, <1>8
  <2> QED BY <1>1, <2>1
<1>10. \A n \in 0 .. N : last[n] \in Nat
  <2>1. last[0] \in Nat
    BY <1>9
  <2>2. ASSUME NEW n \in 1 .. N, last[n - 1] \in Nat PROVE last[n] \in Nat
    <3>1. last[n] = last[n - 1] + 1 + U(n) /\ U(n) \in Nat
      BY <1>2, <1>9
    <3> QED BY <2>2, <3>1
  <2> QED BY <1>1, <2>1, <2>2, StaysIn
<1> QED BY <1>1, <1>3, <1>10

\* Rows that end in the buffer
LEMMA RowsFit ==
    ASSUME NEW w \in Nat, NEW h \in Nat, NEW y \in Nat, NEW x \in Nat, y * w + x < w * h
    PROVE  y * w + w <= w * h
<1>1. y < h
  <2> SUFFICES ASSUME h <= y PROVE FALSE
    OBVIOUS
  <2>1. PICK d \in Nat : y = h + d
    <3>1. y - h \in Nat /\ y = h + (y - h)
      OBVIOUS
    <3> QED BY <3>1
  <2>2. y * w = h * w + d * w /\ d * w \in Nat /\ h * w = w * h
    BY <2>1
  <2> QED BY <2>2
<1>2. PICK d \in Nat : h = y + 1 + d
  <2>1. h - y - 1 \in Nat /\ h = y + 1 + (h - y - 1)
    BY <1>1
  <2> QED BY <2>1
<1>3. w * h = y * w + w + w * d /\ w * d \in Nat
  BY <1>2
<1> QED BY <1>3

\* An object while it is drawn: what has been written ends in the buffer
Results == {"go", "bad", "done"}
Drawings(size) == {st \in [x : Nat, y : Nat, ret : Results, top : Nat] : st.top <= size}

LEMMA SubBlockStays ==
    ASSUME NEW region, region.h \in Nat, NEW nonMod, NEW block \in Seq(SubBlocks),
           NEW column \in Nat, NEW i \in 1 .. Len(block), NEW st \in Drawings(DvbWidth * region.h)
    PROVE  ParseSubBlock(st, block, i, region, column, nonMod) \in Drawings(DvbWidth * region.h)
<1> DEFINE b == block[i]
           size == DvbWidth * region.h
           place == st.y * DvbWidth + st.x
           caps == size - place
           needReads == Min({UnitsFrom(block, i), caps})
           room == DvbWidth - st.x
           got == CASE b.type = "2bp" -> Read2BitString(b.codes, room, needReads, nonMod)
                    [] b.type = "4bp" -> Read4BitString(b.codes, room, needReads, nonMod)
                    [] b.type = "8bp" -> Read8BitString(b.codes, room, needReads, nonMod)
                    [] OTHER -> NoPixels
           bad == [st EXCEPT !.ret = "bad"]
           eol == [st EXCEPT !.x = column, !.y = @ + 2]
           done == [st EXCEPT !.ret = "done"]
           top == IF got.put > 0 /\ place + got.put > st.top THEN place + got.put ELSE st.top
           on == [st EXCEPT !.x = @ + got.read, !.top = top]
           wrong == st.x > DvbWidth \/ st.y > region.h \/ needReads < 0
<1>1. /\ st.x \in Nat /\ st.y \in Nat /\ st.top \in Nat /\ st.top <= size
      /\ DvbWidth \in Nat /\ st \in [x : Nat, y : Nat, ret : Results, top : Nat]
  BY DvbAssumption DEF Drawings
<1>2. size \in Nat /\ place \in Nat /\ caps \in Int
  <2>1. size \in Nat /\ st.y * DvbWidth \in Nat
    BY <1>1
  <2> HIDE DEF size
  <2>2. place \in Nat
    BY <1>1, <2>1
  <2> HIDE DEF place
  <2> QED BY <2>1, <2>2 DEF caps
<1>3. needReads \in Int /\ needReads <= caps
  <2> HIDE DEF caps
  <2>1. UnitsFrom(block, i) \in Nat
    BY UnitsLeft
  <2> QED BY <1>2, <2>1, MinOfTwo
<1>4. ParseSubBlock(st, block, i, region, column, nonMod) \in {st, bad, eol, done}
      \/ (~wrong /\ ParseSubBlock(st, block, i, region, column, nonMod) = on)
  <2> HIDE DEF got, needReads
  <2> QED BY DEF ParseSubBlock, got, needReads
<1> HIDE DEF needReads, caps
<1>5. bad \in Drawings(size) /\ eol \in Drawings(size) /\ done \in Drawings(size)
  <2> HIDE DEF size
  <2>1. \A r \in Results : [st EXCEPT !.ret = r] \in [x : Nat, y : Nat, ret : Results, top : Nat]
                        /\ [st EXCEPT !.ret = r].top = st.top
    <3> HIDE DEF Results
    <3> QED BY <1>1
  <2>2. eol \in [x : Nat, y : Nat, ret : Results, top : Nat] /\ eol.top = st.top
    <3> HIDE DEF Results
    <3>1. st.y + 2 \in Nat
      BY <1>1
    <3> QED BY <1>1, <3>1
  <2>3. "bad" \in Results /\ "done" \in Results
    BY DEF Results
  <2> HIDE DEF eol, Results
  <2> QED BY <1>1, <2>1, <2>2, <2>3 DEF Drawings
<1>6. ASSUME ~wrong PROVE on \in Drawings(size)
  <2>1. room \in Nat /\ needReads \in Nat
    BY <1>1, <1>3, <1>6
  <2>2. got \in Strings(room, needReads)
    <3> HIDE DEF room
    <3>1. b.codes \in Seq(Codes)
      <4>1. b \in SubBlocks
        OBVIOUS
      <4> HIDE DEF b
      <4> QED BY <4>1 DEF SubBlocks
    <3>2. NoPixels \in Strings(room, needReads)
      <4>1. NoPixels \in StringStates(BOOLEAN)
        BY DEF NoPixels, StringStates
      <4>2. NoPixels.put = 0 /\ NoPixels.read = 0
        BY DEF NoPixels
      <4> QED BY <2>1, <4>1, <4>2 DEF Strings
    <3> HIDE DEF b
    <3>3. \A bits : ReadString(bits, b.codes, room, needReads, nonMod) \in Strings(room, needReads)
      BY <2>1, <3>1, StringStays
    <3> QED BY <3>2, <3>3 DEF Read2BitString, Read4BitString, Read8BitString
  <2> HIDE DEF got
  <2>3. got.read \in Nat /\ got.put \in Nat /\ got.put <= room /\ (got.put > 0 => needReads > 0)
    BY <2>2 DEF Strings, StringStates
  <2>4. got.put > 0 => place + got.put <= size
    <3> SUFFICES ASSUME got.put > 0 PROVE place + got.put <= size
      OBVIOUS
    <3>1. st.y * DvbWidth + st.x < DvbWidth * region.h
      <4>1. needReads > 0
        BY <2>3
      <4>2. caps = size - place
        BY DEF caps
      <4> HIDE DEF size, place
      <4>3. place < size
        BY <1>2, <1>3, <4>1, <4>2
      <4> QED BY <4>3 DEF size, place
    <3>2. st.y * DvbWidth + DvbWidth <= size
      BY <1>1, <3>1, RowsFit
    <3> DEFINE row == st.y * DvbWidth
    <3>3. row \in Nat /\ row + DvbWidth <= size /\ place = row + st.x
      BY <1>1, <3>2
    <3>4. got.put <= DvbWidth - st.x
      BY <2>3
    <3> HIDE DEF row, size, place
    <3> QED BY <1>1, <1>2, <2>3, <3>3, <3>4
  <2>5. top \in Nat /\ top <= size
    <3> HIDE DEF size, place
    <3> QED BY <1>1, <1>2, <2>3, <2>4
  <2> HIDE DEF top, size
  <2>6. st.x + got.read \in Nat
    BY <1>1, <2>3
  <2> QED BY <1>1, <2>5, <2>6 DEF Drawings
<1> HIDE DEF bad, eol, done, on, wrong
<1> QED BY <1>4, <1>5, <1>6 DEF size

LEMMA DataBlockStays ==
    ASSUME NEW region, region.h \in Nat, NEW display \in Displays, NEW nonMod, NEW bottom,
           NEW block \in Seq(SubBlocks)
    PROVE  ParsePixelDataBlock(region, display, block, bottom, nonMod).top <= DvbWidth * region.h
<1> DEFINE N == Len(block)
           Q == Drawings(DvbWidth * region.h)
           column == display.x
           start == [x |-> column, y |-> IF bottom THEN display.y + 1 ELSE display.y,
                     ret |-> "go", top |-> 0]
           f(w) == [i \in 0 .. N |->
                       IF i = 0 THEN start ELSE ParseSubBlock(w[i - 1], block, i, region, column, nonMod)]
           after == CHOOSE w : w = f(w)
           F == [p \in (1 .. N) \X Q |-> ParseSubBlock(p[2], block, p[1], region, column, nonMod)]
<1>1. N \in Nat /\ start \in Q /\ column \in Nat
  <2>1. DvbWidth * region.h \in Nat
    BY DvbAssumption
  <2>2. display.x \in Nat /\ display.y \in Nat
    BY DEF Displays
  <2> QED BY <2>1, <2>2 DEF Drawings, Results
<1>2. ParsePixelDataBlock(region, display, block, bottom, nonMod) = after[N]
  BY DEF ParsePixelDataBlock
<1> HIDE DEF start, column
<1>3. \A i \in 1 .. N, st \in Q : ParseSubBlock(st, block, i, region, column, nonMod) \in Q
  BY <1>1, SubBlockStays
<1> HIDE DEF N, Q
<1>4. F \in [(1 .. N) \X Q -> Q]
      /\ \A i \in 1 .. N, st \in Q : F[<<i, st>>] = ParseSubBlock(st, block, i, region, column, nonMod)
  BY <1>3
<1> HIDE DEF F
<1>5. PICK v \in [0 .. N -> Q] : GoesBy(v, N, start, F)
  BY <1>1, <1>4, RecursionEquation
<1>6. v = f(v)
  <2>1. \A i \in 0 .. N : i = 0 \/ F[<<i, v[i - 1]>>] = ParseSubBlock(v[i - 1], block, i, region, column, nonMod)
    BY <1>1, <1>4
  <2> QED BY <1>5, <2>1 DEF GoesBy
<1>7. after = f(after)
  BY <1>6
<1> HIDE DEF after
<1>8. after[0] = start /\ \A i \in 1 .. N : after[i] = ParseSubBlock(after[i - 1], block, i, region, column, nonMod)
  BY <1>1, <1>7
<1>9. after[0] \in Q /\ \A i \in 1 .. N : after[i - 1] \in Q => after[i] \in Q
  BY <1>1, <1>3, <1>8
<1>10. \A i \in 0 .. N : after[i] \in Q
  BY <1>1, <1>9, StaysIn
<1>11. after[N] \in Q
  BY <1>1, <1>10
<1> QED BY <1>2, <1>11 DEF Q, Drawings

\* The regions have heights, and the buffers in draws hold what was drawn
DvbDraws ==
    /\ regions = [r \in DOMAIN regions |-> regions[r]]
    /\ \A r \in DOMAIN regions : regions[r].h \in Nat
    /\ PixelsInsideRegion

LEMMA ObjectDrawn ==
    ASSUME ListsLinked, DvbDraws, NEW o, NEW pic \in Pictures, ParseObjectSegment(o, pic)
    PROVE  PixelsInsideRegion'
<1> DEFINE At(n) == regions[n[1]].shows[n[2]]
           Up(n) == ParsePixelDataBlock(regions[n[1]], At(n), pic.top, FALSE, pic.nonMod)
           Low(n, first, beyond) ==
               IF pic.bottom # <<>> THEN pic.bottom ELSE IF first THEN pic.top ELSE beyond
           Down(n, first, beyond) ==
               ParsePixelDataBlock(regions[n[1]], At(n), Low(n, first, beyond), TRUE, pic.nonMod)
           Drawn(n, first, beyond) ==
               [size |-> DvbWidth * regions[n[1]].h, ends |-> {Up(n).top, Down(n, first, beyond).top},
                bad |-> "bad" \in {Up(n).ret, Down(n, first, beyond).ret}]
<1>1. ASSUME NEW n, n[1] \in DOMAIN regions, At(n) \in Displays, NEW first, NEW beyond \in {p.top : p \in Pictures},
             NEW e \in Drawn(n, first, beyond).ends
      PROVE  e <= Drawn(n, first, beyond).size
  <2> DEFINE region == regions[n[1]]
             low == Low(n, first, beyond)
  <2>1. region.h \in Nat
    BY <1>1 DEF DvbDraws
  <2>2. pic.top \in Seq(SubBlocks) /\ low \in Seq(SubBlocks)
    BY DvbAssumption
  <2>0. At(n) \in Displays
    BY <1>1
  <2> HIDE DEF low, At
  <2>3. Up(n).top <= DvbWidth * region.h
    <3> HIDE DEF region
    <3> QED BY <2>0, <2>1, <2>2, DataBlockStays DEF region
  <2>4. ParsePixelDataBlock(region, At(n), low, TRUE, pic.nonMod).top <= DvbWidth * region.h
    <3> HIDE DEF region
    <3> QED BY <2>0, <2>1, <2>2, DataBlockStays
  <2> DEFINE up == Up(n).top
             down == Down(n, first, beyond).top
  <2>5. down <= DvbWidth * region.h
    BY <2>4 DEF low
  <2>6. e \in {up, down} /\ Drawn(n, first, beyond).size = DvbWidth * region.h
    OBVIOUS
  <2> HIDE DEF up, down, Drawn
  <2>7. up <= DvbWidth * region.h
    BY <2>3 DEF up
  <2> QED BY <2>5, <2>6, <2>7
<1>2. \A n : o \in DOMAIN objects /\ n \in objects[o] => n[1] \in DOMAIN regions /\ At(n) \in Displays
  <2> SUFFICES ASSUME o \in DOMAIN objects, NEW n \in objects[o]
               PROVE  n[1] \in DOMAIN regions /\ At(n) \in Displays
    OBVIOUS
  <2>1. PICK r \in DOMAIN regions, k \in Nat : n = <<r, k>>
    BY DEF ListsLinked, ListTypes
  <2>2. n[1] = r /\ n[2] = k
    BY <2>1
  <2>3. k \in DOMAIN regions[r].shows /\ regions[r].shows \in Seq(Displays)
    BY <2>1 DEF ListsLinked, ListTypes, Linked
  <2>4. regions[r].shows[k] \in Displays
    BY <2>3
  <2> QED BY <2>1, <2>2, <2>4
<1> HIDE DEF At
<1>3. CASE draws' = {}
  BY <1>3 DEF PixelsInsideRegion
<1>4. CASE draws' # {}
  <2>1. o \in DOMAIN objects
        /\ \E first \in objects[o], beyond \in {p.top : p \in Pictures} :
              draws' = {Drawn(n, n = first, beyond) : n \in objects[o]}
    <3> HIDE DEF Drawn
    <3> QED BY <1>4 DEF ParseObjectSegment, Drawn, At
  <2>2. PICK first \in objects[o], beyond \in {p.top : p \in Pictures} :
           draws' = {Drawn(n, n = first, beyond) : n \in objects[o]}
    BY <2>1
  <2> HIDE DEF Drawn
  <2>3. ASSUME NEW d \in draws', NEW e \in d.ends PROVE e <= d.size
    <3>1. PICK n \in objects[o] : d = Drawn(n, n = first, beyond)
      BY <2>2
    <3>2. n[1] \in DOMAIN regions /\ At(n) \in Displays
      BY <1>2, <2>1
    <3> QED BY <1>1, <2>3, <3>1, <3>2
  <2> QED BY <2>3 DEF PixelsInsideRegion
<1> QED BY <1>3, <1>4

LEMMA DvbDrawsInit == DvbInit => DvbDraws
BY DEF DvbInit, DvbDraws, NoEntries, PixelsInsideRegion

LEMMA DvbDrawsNext == ListsLinked /\ DvbDraws /\ [DvbNext]_dvbVars => DvbDraws'
<1> SUFFICES ASSUME ListsLinked, DvbDraws, [DvbNext]_dvbVars PROVE DvbDraws'
  OBVIOUS
<1>1. draws' = {} => PixelsInsideRegion'
  BY DEF PixelsInsideRegion
<1>2. (draws' = {} \/ UNCHANGED draws) /\ (UNCHANGED regions \/ DeleteAll) => DvbDraws'
  BY <1>1 DEF DvbDraws, DeleteAll, NoEntries, PixelsInsideRegion
<1>3. ASSUME NEW c \in PageIds, NEW a \in PageIds, UpdateParameter(c, a) PROVE DvbDraws'
  BY <1>2, <1>3 DEF UpdateParameter
<1>4. CASE GetDvbSpu \/ EndOfPacket \/ StopDvbParser
  BY <1>2, <1>4 DEF GetDvbSpu, EndOfPacket, StopDvbParser
<1>5. CASE DestroyDvbParser
  BY <1>2, <1>5 DEF DestroyDvbParser
<1>6. CASE DecodeSubtitle
  <2>1. ASSUME NEW state, NEW list, ParsePageSegment(state, list) PROVE DvbDraws'
    BY <1>2, <2>1 DEF ParsePageSegment
  <2>2. ASSUME NEW r, NEW h \in Heights, NEW depth, NEW c, NEW list,
               ParseRegionSegment(r, h, depth, c, list)
        PROVE  DvbDraws'
    <3> DEFINE region == [h |-> h, depth |-> depth, clut |-> c, shows |-> list]
               rs == [q \in DOMAIN regions \cup {r} |-> IF q = r THEN region ELSE regions[q]]
    <3>1. regions' = rs /\ draws' = {}
      BY <2>2 DEF ParseRegionSegment
    <3>2. rs = [q \in DOMAIN rs |-> rs[q]] /\ \A q \in DOMAIN rs : rs[q].h \in Nat
      <4>1. region.h \in Nat
        BY DvbAssumption
      <4> HIDE DEF region
      <4> QED BY <4>1 DEF DvbDraws
    <3> HIDE DEF rs
    <3> QED BY <1>1, <3>1, <3>2 DEF DvbDraws
  <2>3. ASSUME NEW c, ParseClutSegment(c) PROVE DvbDraws'
    BY <1>2, <2>3 DEF ParseClutSegment
  <2>4. ASSUME NEW o, NEW pic \in Pictures, ParseObjectSegment(o, pic) PROVE DvbDraws'
    <3>1. PixelsInsideRegion'
      BY <2>4, ObjectDrawn
    <3>2. UNCHANGED regions
      BY <2>4 DEF ParseObjectSegment
    <3> QED BY <3>1, <3>2 DEF DvbDraws
  <2>5. ASSUME NEW v, ParseDisplayDefinitionSegment(v) PROVE DvbDraws'
    BY <1>2, <2>5 DEF ParseDisplayDefinitionSegment
  <2>6. CASE DisplayEndSegment
    BY <1>2, <2>6 DEF DisplayEndSegment
  <2> QED BY <1>6, <2>1, <2>2, <2>3, <2>4, <2>5, <2>6 DEF DecodeSubtitle
<1>7. CASE UNCHANGED dvbVars
  BY <1>2, <1>7 DEF dvbVars
<1> QED BY <1>3, <1>4, <1>5, <1>6, <1>7 DEF DvbNext

(* No object is drawn past the buffer of a region that shows it, whatever its    *)
(* run lengths, its fields, its place, inside the region or outside, and the     *)
(* height of the region: the strings check only the width and the sub-blocks     *)
(* only the position they start at (read_2bit_string, parsePixelDataBlock).      *)
THEOREM DvbPixelsInside == DvbSpec => []PixelsInsideRegion
<1>1. DvbDraws => PixelsInsideRegion
  BY DEF DvbDraws
<1> QED BY <1>1, DvbInvInit, DvbInvNext, DvbDrawsInit, DvbDrawsNext, PTL DEF DvbSpec

-----------------------------------------------------------------------------
\* The regions of a page, and the box after some of them
Entries == [region : RegionIds, y : Int]
BoxStates(n) == {b \in [y : Int, h : Nat, list : Seq(Entries)] : Len(b.list) = n}
Boxes(list, known) ==
    CHOOSE after : after = [i \in 0..Len(list) |->
        IF i = 0 THEN [y |-> 0, h |-> 0, list |-> list]
        ELSE Extend(after[i - 1], i, list, known)]

HeightAt(list, known, i) == known[list[i].region].h

\* Where the i-th region is put, asked to be at y, and how the box grows for it
Placed(box, i, y, h) == IF i > 1 /\ y < box.y /\ box.y - y < h THEN box.y - h ELSE y
PlaceOf(list, known, i) ==
    Placed(Boxes(list, known)[i - 1], i, list[i].y, HeightAt(list, known, i))

Grown(box, c, i, y, h) ==
    /\ c.y = IF i = 1 \/ y < box.y THEN y ELSE box.y
    /\ c.h = (IF i = 1 \/ y + h > box.y + box.h THEN y + h ELSE box.y + box.h) - c.y

LEMMA GrowsAround ==
    ASSUME NEW box, NEW c, NEW i \in Nat, NEW y \in Int, NEW h \in Nat,
           box.y \in Int, box.h \in Nat, c.y \in Int, c.h \in Nat, Grown(box, c, i, y, h)
    PROVE  /\ c.y <= y /\ y + h <= c.y + c.h
           /\ i > 1 => c.y <= box.y /\ box.y + box.h <= c.y + c.h
<1> DEFINE a == box.y
           b == box.h
           p == c.y
           q == c.h
<1>1. /\ p = IF i = 1 \/ y < a THEN y ELSE a
      /\ q = (IF i = 1 \/ y + h > a + b THEN y + h ELSE a + b) - p
  BY DEF Grown
<1>2. a \in Int /\ b \in Nat /\ p \in Int /\ q \in Nat
  OBVIOUS
<1> HIDE DEF a, b, p, q
<1>3. /\ p <= y /\ y + h <= p + q
      /\ i > 1 => p <= a /\ a + b <= p + q
  BY <1>1, <1>2
<1> QED BY <1>3 DEF a, b, p, q

\* A region changes the place of its own entry only
Moved(before, after, i, y) ==
    after = [before EXCEPT ![i] = [before[i] EXCEPT !.y = y]]

LEMMA EntryMoves ==
    ASSUME NEW list \in Seq(Entries), NEW i \in 1 .. Len(list), NEW y \in Int,
           NEW to, Moved(list, to, i, y)
    PROVE  /\ to \in Seq(Entries) /\ Len(to) = Len(list)
           /\ to[i].y = y /\ to[i].region = list[i].region
           /\ \A j \in 1 .. Len(list) : j # i => to[j] = list[j]
<1> DEFINE e == [list[i] EXCEPT !.y = y]
<1>1. e \in Entries /\ e.y = y /\ e.region = list[i].region
  <2>1. list[i] \in Entries
    OBVIOUS
  <2> QED BY <2>1 DEF Entries
<1>2. to = [list EXCEPT ![i] = e]
  BY DEF Moved
<1> HIDE DEF e
<1> QED BY <1>1, <1>2

LEMMA ExtendStep ==
    ASSUME NEW list \in Seq(Entries), NEW known, NEW i \in 1 .. Len(list),
           HeightAt(list, known, i) \in Nat, NEW box \in BoxStates(Len(list))
    PROVE  LET h == HeightAt(list, known, i)
               y == Placed(box, i, list[i].y, h)
               c == Extend(box, i, list, known)
           IN  /\ y \in Int /\ c \in BoxStates(Len(list)) /\ Grown(box, c, i, y, h)
               /\ i = 1 => y = list[i].y /\ c.list = list
               /\ i # 1 => Moved(box.list, c.list, i, y)
<1> DEFINE n == Len(list)
           h == HeightAt(list, known, i)
           y == Placed(box, i, list[i].y, h)
           c == Extend(box, i, list, known)
           moved == [box.list EXCEPT ![i] = [box.list[i] EXCEPT !.y = y]]
           top == IF y < box.y THEN y ELSE box.y
           low == IF y + h > box.y + box.h THEN y + h ELSE box.y + box.h
<1>1. /\ list[i].y \in Int /\ box.y \in Int /\ box.h \in Nat /\ box.list \in Seq(Entries)
      /\ Len(box.list) = n /\ i \in 1 .. Len(box.list) /\ h \in Nat
  <2>1. list[i] \in Entries
    OBVIOUS
  <2> QED BY <2>1 DEF BoxStates, Entries
<1>2. y \in Int
  BY <1>1 DEF Placed
<1>3. CASE i = 1
  <2>1. y = list[i].y
    BY <1>3 DEF Placed
  <2>2. c = [y |-> list[i].y, h |-> h, list |-> list]
    BY <1>3 DEF Extend, HeightAt
  <2>3. c \in BoxStates(n) /\ c.y = y /\ c.h = h /\ c.list = list
    BY <1>1, <2>1, <2>2 DEF BoxStates
  <2> HIDE DEF c, y, h
  <2> QED BY <1>1, <1>2, <1>3, <2>1, <2>3 DEF Grown, c, y, h
<1>4. CASE i # 1
  <2>1. moved \in Seq(Entries) /\ Len(moved) = n
    <3>1. Moved(box.list, moved, i, y)
      BY DEF Moved
    <3> HIDE DEF y, n, moved
    <3> QED BY <1>1, <1>2, <3>1, EntryMoves
  <2>2. c = [y |-> top, h |-> low - top, list |-> moved]
    <3>1. [box.list EXCEPT ![i].y = y] = moved
      OBVIOUS
    <3> QED BY <1>4, <3>1 DEF Extend, HeightAt, Placed
  <2> HIDE DEF c, y, h, moved, n
  <2>3. top \in Int /\ low - top \in Nat
    BY <1>1, <1>2, SMTT(30)
  <2> HIDE DEF top, low
  <2>4. c \in [y : Int, h : Nat, list : Seq(Entries)] /\ c.y = top /\ c.h = low - top /\ c.list = moved
    BY <2>1, <2>2, <2>3
  <2>5. c \in BoxStates(n)
    BY <2>1, <2>4 DEF BoxStates
  <2>6. Grown(box, c, i, y, h)
    BY <1>4, <2>4 DEF Grown, top, low
  <2>7. Moved(box.list, c.list, i, y)
    BY <2>4 DEF Moved, moved
  <2> QED BY <1>2, <1>4, <2>5, <2>6, <2>7 DEF c, y, h, n
<1> QED BY <1>3, <1>4

LEMMA BoxSteps ==
    ASSUME NEW list \in Seq(Entries), NEW known,
           \A i \in 1 .. Len(list) : HeightAt(list, known, i) \in Nat
    PROVE  LET v == Boxes(list, known)
           IN  /\ Box(list, known) = v[Len(list)]
               /\ v[0] = [y |-> 0, h |-> 0, list |-> list]
               /\ \A i \in 0 .. Len(list) : v[i] \in BoxStates(Len(list))
               /\ \A i \in 1 .. Len(list) :
                     /\ PlaceOf(list, known, i) \in Int
                     /\ Grown(v[i - 1], v[i], i, PlaceOf(list, known, i), HeightAt(list, known, i))
                     /\ Moved(v[i - 1].list, v[i].list, i, PlaceOf(list, known, i))
<1> DEFINE N == Len(list)
           Q == BoxStates(N)
           start == [y |-> 0, h |-> 0, list |-> list]
           f(w) == [i \in 0 .. N |-> IF i = 0 THEN start ELSE Extend(w[i - 1], i, list, known)]
           v == Boxes(list, known)
           F == [p \in (1 .. N) \X Q |-> Extend(p[2], p[1], list, known)]
<1>1. N \in Nat /\ start \in Q
  BY DEF BoxStates
<1>2. Box(list, known) = v[N]
  BY DEF Box, Boxes
<1>3. v = CHOOSE w : w = f(w)
  BY DEF Boxes
<1>4. \A i \in 1 .. N, st \in Q : Extend(st, i, list, known) \in Q
  BY ExtendStep
<1>5. start.list = list
  OBVIOUS
<1> HIDE DEF N, Q, v, start
<1>6. F \in [(1 .. N) \X Q -> Q]
      /\ \A i \in 1 .. N, st \in Q : F[<<i, st>>] = Extend(st, i, list, known)
  BY <1>4
<1> HIDE DEF F
<1>7. PICK w \in [0 .. N -> Q] : GoesBy(w, N, start, F)
  BY <1>1, <1>6, RecursionEquation
<1>8. w = f(w)
  <2>1. \A i \in 0 .. N : i = 0 \/ F[<<i, w[i - 1]>>] = Extend(w[i - 1], i, list, known)
    BY <1>1, <1>6
  <2> QED BY <1>7, <2>1 DEF GoesBy
<1>9. v = f(v)
  BY <1>3, <1>8
<1>10. v[0] = start /\ \A i \in 1 .. N : v[i] = Extend(v[i - 1], i, list, known)
  BY <1>1, <1>9
<1>11. v[0] \in Q /\ \A i \in 1 .. N : v[i - 1] \in Q => v[i] \in Q
  BY <1>1, <1>4, <1>10
<1>12. \A i \in 0 .. N : v[i] \in Q
  BY <1>1, <1>11, StaysIn
<1>13. ASSUME NEW i \in 1 .. N
       PROVE  /\ PlaceOf(list, known, i) \in Int
              /\ Grown(v[i - 1], v[i], i, PlaceOf(list, known, i), HeightAt(list, known, i))
              /\ Moved(v[i - 1].list, v[i].list, i, PlaceOf(list, known, i))
  <2> DEFINE y == PlaceOf(list, known, i)
  <2>1. i - 1 \in 0 .. N /\ v[i - 1] \in Q /\ v[i] = Extend(v[i - 1], i, list, known)
    BY <1>1, <1>10, <1>12
  <2>2. y = Placed(v[i - 1], i, list[i].y, HeightAt(list, known, i))
    BY DEF PlaceOf, v
  <2> HIDE DEF y
  <2>3. /\ y \in Int /\ Grown(v[i - 1], v[i], i, y, HeightAt(list, known, i))
        /\ i = 1 => y = list[i].y /\ v[i].list = list
        /\ i # 1 => Moved(v[i - 1].list, v[i].list, i, y)
    BY <2>1, <2>2, ExtendStep DEF N, Q
  <2>4. CASE i = 1
    <3>1. v[i - 1].list = list /\ v[i].list = list /\ y = list[i].y
      BY <1>5, <1>10, <2>3, <2>4
    <3>2. list = [list EXCEPT ![i] = [list[i] EXCEPT !.y = list[i].y]]
      <4>1. list[i] \in Entries
        BY DEF N
      <4>2. list[i] = [list[i] EXCEPT !.y = list[i].y]
        BY <4>1 DEF Entries
      <4> DEFINE e == list[i]
      <4>3. list = [list EXCEPT ![i] = e]
        OBVIOUS
      <4> QED BY <4>2, <4>3
    <3> QED BY <2>3, <3>1, <3>2 DEF Moved, y
  <2>5. CASE i # 1
    BY <2>3, <2>5 DEF y
  <2> QED BY <2>4, <2>5
<1> QED BY <1>2, <1>10, <1>12, <1>13 DEF N, Q, v, start

\* A region whose turn has come stays where it was put, and keeps its number
LEMMA BoxPlaces ==
    ASSUME NEW list \in Seq(Entries), NEW known,
           \A i \in 1 .. Len(list) : HeightAt(list, known, i) \in Nat,
           NEW j \in 1 .. Len(list)
    PROVE  LET placed == Boxes(list, known)[Len(list)].list
           IN  placed[j].y = PlaceOf(list, known, j) /\ placed[j].region = list[j].region
<1> DEFINE N == Len(list)
           v == Boxes(list, known)
           y == PlaceOf(list, known, j)
           S == {i \in 0 .. N : /\ v[i].list[j].region = list[j].region
                                /\ i >= j => v[i].list[j].y = y}
<1>1. N \in Nat /\ j \in 1 .. N
  OBVIOUS
<1>2. v[0].list = list
  <2>1. v[0] = [y |-> 0, h |-> 0, list |-> list]
    BY BoxSteps
  <2> HIDE DEF v
  <2> QED BY <2>1
<1>3. \A i \in 0 .. N : v[i].list \in Seq(Entries) /\ Len(v[i].list) = N
  <2>1. \A i \in 0 .. N : v[i] \in BoxStates(N)
    BY BoxSteps
  <2> HIDE DEF v, N
  <2> QED BY <2>1 DEF BoxStates
<1>4. \A i \in 1 .. N : /\ PlaceOf(list, known, i) \in Int
                        /\ Moved(v[i - 1].list, v[i].list, i, PlaceOf(list, known, i))
  BY BoxSteps
<1> HIDE DEF v, N, y
<1>5. ASSUME NEW i \in 1 .. N PROVE /\ v[i].list[j].region = v[i - 1].list[j].region
                                    /\ i # j => v[i].list[j] = v[i - 1].list[j]
                                    /\ i = j => v[i].list[j].y = y
  <2>1. i - 1 \in 0 .. N /\ i \in 1 .. Len(v[i - 1].list) /\ j \in 1 .. Len(v[i - 1].list)
    BY <1>1, <1>3
  <2>2. v[i - 1].list \in Seq(Entries) /\ PlaceOf(list, known, i) \in Int
        /\ Moved(v[i - 1].list, v[i].list, i, PlaceOf(list, known, i))
    BY <1>3, <1>4, <2>1
  <2>3. /\ v[i].list[i].y = PlaceOf(list, known, i)
        /\ v[i].list[i].region = v[i - 1].list[i].region
        /\ \A k \in 1 .. Len(v[i - 1].list) : k # i => v[i].list[k] = v[i - 1].list[k]
    <3> DEFINE old == v[i - 1].list
               new == v[i].list
               p == PlaceOf(list, known, i)
    <3>1. old \in Seq(Entries) /\ p \in Int /\ i \in 1 .. Len(old) /\ Moved(old, new, i, p)
      BY <2>1, <2>2
    <3> HIDE DEF old, new, p
    <3>2. new[i].y = p /\ new[i].region = old[i].region
          /\ \A k \in 1 .. Len(old) : k # i => new[k] = old[k]
      <4>1. /\ new \in Seq(Entries) /\ Len(new) = Len(old)
            /\ new[i].y = p /\ new[i].region = old[i].region
            /\ \A k \in 1 .. Len(old) : k # i => new[k] = old[k]
        BY <3>1, EntryMoves, SMTT(60)
      <4> QED BY <4>1
    <3> QED BY <3>2 DEF old, new, p
  <2> QED BY <2>1, <2>3 DEF y
<1>6. 0 \in S /\ \A i \in 1 .. N : i - 1 \in S => i \in S
  <2>1. 0 \in S
    BY <1>1, <1>2
  <2>2. ASSUME NEW i \in 1 .. N, i - 1 \in S PROVE i \in S
    <3>1. i \in 0 .. N /\ v[i].list[j].region = list[j].region
      BY <1>1, <1>5, <2>2
    <3>2. i >= j => v[i].list[j].y = y
      <4>1. CASE i = j
        BY <1>5, <4>1
      <4>2. CASE i > j
        <5>1. i - 1 >= j /\ i # j
          BY <1>1, <4>2
        <5> QED BY <1>5, <2>2, <5>1
      <4> QED BY <1>1, <4>1, <4>2
    <3> QED BY <3>1, <3>2
  <2> QED BY <2>1, <2>2
<1> HIDE DEF S
<1>7. \A i \in 0 .. N : i \in S
  BY <1>1, <1>6, UpTo
<1>8. N \in S /\ N >= j
  BY <1>1, <1>7
<1> QED BY <1>8 DEF S, v, N, y

\* Every region is inside the box from its turn on
LEMMA BoxHolds ==
    ASSUME NEW list \in Seq(Entries), NEW known,
           \A i \in 1 .. Len(list) : HeightAt(list, known, i) \in Nat,
           NEW j \in 1 .. Len(list)
    PROVE  LET box == Boxes(list, known)[Len(list)]
               y == PlaceOf(list, known, j)
           IN  box.y <= y /\ y + HeightAt(list, known, j) <= box.y + box.h
<1> DEFINE N == Len(list)
           v == Boxes(list, known)
           y(i) == PlaceOf(list, known, i)
           h(i) == HeightAt(list, known, i)
           S == {i \in 0 .. N : i >= j => v[i].y <= y(j) /\ y(j) + h(j) <= v[i].y + v[i].h}
<1>1. N \in Nat /\ j \in 1 .. N
  OBVIOUS
<1>2. \A i \in 0 .. N : v[i].y \in Int /\ v[i].h \in Nat
  <2>1. \A i \in 0 .. N : v[i] \in BoxStates(N)
    BY BoxSteps
  <2> HIDE DEF v, N
  <2> QED BY <2>1 DEF BoxStates
<1>3. \A i \in 1 .. N : y(i) \in Int /\ h(i) \in Nat /\ Grown(v[i - 1], v[i], i, y(i), h(i))
  BY BoxSteps
<1> HIDE DEF v, N, y, h
<1>4. 0 \in S /\ \A i \in 1 .. N : i - 1 \in S => i \in S
  <2>1. 0 \in S
    BY <1>1
  <2>2. ASSUME NEW i \in 1 .. N, i - 1 \in S, i >= j
        PROVE  v[i].y <= y(j) /\ y(j) + h(j) <= v[i].y + v[i].h
    <3>1. /\ y(j) \in Int /\ h(j) \in Nat /\ y(i) \in Int /\ h(i) \in Nat
          /\ Grown(v[i - 1], v[i], i, y(i), h(i)) /\ v[i].y \in Int /\ v[i].h \in Nat
          /\ v[i - 1].y \in Int /\ v[i - 1].h \in Nat /\ i \in Nat /\ j \in Nat /\ j >= 1
      <4>1. i \in 0 .. N /\ i - 1 \in 0 .. N /\ i \in Nat /\ j \in Nat /\ j >= 1
        BY <1>1
      <4>2. v[i].y \in Int /\ v[i].h \in Nat /\ v[i - 1].y \in Int /\ v[i - 1].h \in Nat
        BY <1>2, <4>1
      <4>3. y(i) \in Int /\ h(i) \in Nat /\ Grown(v[i - 1], v[i], i, y(i), h(i))
        BY <1>3
      <4>4. y(j) \in Int /\ h(j) \in Nat
        BY <1>1, <1>3
      <4> QED BY <4>1, <4>2, <4>3, <4>4
    <3>2. /\ v[i].y <= y(i) /\ y(i) + h(i) <= v[i].y + v[i].h
          /\ i > 1 => v[i].y <= v[i - 1].y /\ v[i - 1].y + v[i - 1].h <= v[i].y + v[i].h
      BY <3>1, GrowsAround
    <3>3. CASE i = j
      BY <3>2, <3>3
    <3>4. CASE i > j
      <4>1. v[i - 1].y <= y(j) /\ y(j) + h(j) <= v[i - 1].y + v[i - 1].h
        BY <2>2, <3>1, <3>4
      <4> DEFINE a == v[i - 1].y
                 b == v[i - 1].h
                 p == v[i].y
                 q == v[i].h
                 k == y(j)
                 l == h(j)
      <4>2. a <= k /\ k + l <= a + b /\ p <= a /\ a + b <= p + q
        BY <3>1, <3>2, <3>4, <4>1
      <4>3. a \in Int /\ b \in Nat /\ p \in Int /\ q \in Nat /\ k \in Int /\ l \in Nat
        BY <3>1
      <4> HIDE DEF a, b, p, q, k, l
      <4>4. p <= k /\ k + l <= p + q
        BY <4>2, <4>3
      <4> QED BY <4>4 DEF p, q, k, l
    <3> QED BY <2>2, <3>1, <3>3, <3>4
  <2>3. \A i \in 1 .. N : i - 1 \in S => i \in S
    <3> SUFFICES ASSUME NEW i \in 1 .. N, i - 1 \in S PROVE i \in S
      OBVIOUS
    <3>1. i \in 0 .. N
      BY <1>1
    <3> QED BY <2>2, <3>1
  <2> QED BY <2>1, <2>3
<1> HIDE DEF S
<1>5. \A i \in 0 .. N : i \in S
  BY <1>1, <1>4, UpTo
<1>6. N \in S /\ N >= j
  BY <1>1, <1>5
<1> QED BY <1>6 DEF S, v, N, y, h

\* Regions that have been put once are not lifted again: the box is the same
LEMMA BoxAgain ==
    ASSUME NEW list \in Seq(Entries), NEW known,
           \A i \in 1 .. Len(list) : HeightAt(list, known, i) \in Nat
    PROVE  LET box == Box(list, known)
               again == Box(box.list, known)
           IN  again.y = box.y /\ again.h = box.h
<1> DEFINE N == Len(list)
           v == Boxes(list, known)
           list2 == v[N].list
           u == Boxes(list2, known)
           y(i) == PlaceOf(list, known, i)
           y2(i) == PlaceOf(list2, known, i)
           h(i) == HeightAt(list, known, i)
           S == {i \in 0 .. N : u[i].y = v[i].y /\ u[i].h = v[i].h}
<1>1. N \in Nat /\ N \in 0 .. N
  OBVIOUS
<1>2. Box(list, known) = v[N]
  BY BoxSteps
<1>3. v[0].y = 0 /\ v[0].h = 0
  <2>1. v[0] = [y |-> 0, h |-> 0, list |-> list]
    BY BoxSteps
  <2> HIDE DEF v
  <2> QED BY <2>1
<1>4. \A i \in 0 .. N : v[i].y \in Int /\ v[i].h \in Nat /\ v[i].list \in Seq(Entries) /\ Len(v[i].list) = N
  <2>1. \A i \in 0 .. N : v[i] \in BoxStates(N)
    BY BoxSteps
  <2> HIDE DEF v, N
  <2> QED BY <2>1 DEF BoxStates
<1>5. \A i \in 1 .. N : /\ y(i) \in Int /\ h(i) \in Nat /\ Grown(v[i - 1], v[i], i, y(i), h(i))
  BY BoxSteps
<1>6. \A i \in 1 .. N : y(i) = Placed(v[i - 1], i, list[i].y, h(i))
  BY DEF PlaceOf
<1>7. \A i \in 1 .. N : list2[i].y = y(i) /\ list2[i].region = list[i].region
  BY BoxPlaces
<1>8. \A i \in 1 .. N : list[i].y \in Int
  <2>1. \A i \in 1 .. N : list[i] \in Entries
    OBVIOUS
  <2> QED BY <2>1 DEF Entries
<1> HIDE DEF v, u, y
<1>9. list2 \in Seq(Entries) /\ Len(list2) = N
  BY <1>1, <1>4
<1> HIDE DEF list2
<1>10. \A i \in 1 .. N : HeightAt(list2, known, i) = h(i)
  BY <1>7 DEF HeightAt
<1> HIDE DEF h, N
<1>11. \A i \in 1 .. Len(list2) : HeightAt(list2, known, i) \in Nat
  BY <1>5, <1>9, <1>10
<1>12. /\ Box(list2, known) = u[N]
       /\ u[0] = [y |-> 0, h |-> 0, list |-> list2]
       /\ \A i \in 1 .. N : Grown(u[i - 1], u[i], i, y2(i), HeightAt(list2, known, i))
  BY <1>9, <1>11, BoxSteps DEF u
<1>13. \A i \in 1 .. N : y2(i) = Placed(u[i - 1], i, list2[i].y, HeightAt(list2, known, i))
  BY DEF PlaceOf, u
<1> HIDE DEF y2
<1>14. 0 \in S /\ \A i \in 1 .. N : i - 1 \in S => i \in S
  <2>1. 0 \in S
    BY <1>1, <1>3, <1>12
  <2>2. ASSUME NEW i \in 1 .. N, i - 1 \in S PROVE i \in S
    <3>0. i \in Nat /\ i >= 1 /\ i - 1 \in 0 .. N /\ i \in 0 .. N
      BY <1>1
    <3>1. /\ i \in Nat /\ i >= 1 /\ i - 1 \in 0 .. N /\ i \in 0 .. N
          /\ u[i - 1].y = v[i - 1].y /\ u[i - 1].h = v[i - 1].h
          /\ v[i - 1].y \in Int /\ v[i - 1].h \in Nat /\ y(i) \in Int /\ h(i) \in Nat /\ list[i].y \in Int
      BY <1>4, <1>5, <1>8, <2>2, <3>0
    <3>2. y2(i) = Placed(u[i - 1], i, y(i), h(i)) /\ y(i) = Placed(v[i - 1], i, list[i].y, h(i))
      BY <1>6, <1>7, <1>10, <1>13
    <3>3. y2(i) = y(i)
      BY <3>1, <3>2 DEF Placed
    <3>4. Grown(u[i - 1], u[i], i, y(i), h(i)) /\ Grown(v[i - 1], v[i], i, y(i), h(i))
      BY <1>5, <1>10, <1>12, <3>3
    <3>5. u[i].y = v[i].y /\ u[i].h = v[i].h
      BY <3>1, <3>4 DEF Grown
    <3> QED BY <3>1, <3>5
  <2> QED BY <2>1, <2>2
<1> HIDE DEF S
<1>15. \A i \in 0 .. N : i \in S
  BY <1>1, <1>14, UpTo
<1>16. u[N].y = v[N].y /\ u[N].h = v[N].h
  BY <1>1, <1>15 DEF S
<1> QED BY <1>2, <1>12, <1>16 DEF list2

\* The item composed from a page is as RegionsInsideBox says, and the page that
\* is kept has the places
BoxSaved(item, list, known) ==
    item # NoSpu /\ item.saved =>
        /\ \A p \in item.parts : p.y >= 0 /\ p.y + p.h <= item.h
        /\ LET again == Box(list, known) IN again.y = item.y /\ again.h = item.h

LEMMA NotSaved == \A list, known : BoxSaved(Item0, list, known) /\ BoxSaved(NoSpu, list, known)
BY DEF BoxSaved, Item0

LEMMA WholePageSaved ==
    ASSUME NEW list \in Seq(Entries), NEW known,
           \A i \in DOMAIN list : HeightAt(list, known, i) \in Nat,
           NEW copied \in SUBSET DOMAIN list
    PROVE  LET box == Box(list, known)
           IN  /\ box.list \in Seq(Entries)
               /\ BoxSaved([y |-> box.y, h |-> box.h, saved |-> TRUE,
                            parts |-> {[y |-> box.list[i].y - box.y,
                                        h |-> HeightAt(list, known, i)] : i \in copied}],
                           box.list, known)
<1> DEFINE N == Len(list)
           box == Box(list, known)
           Part(i) == [y |-> box.list[i].y - box.y, h |-> HeightAt(list, known, i)]
           item == [y |-> box.y, h |-> box.h, saved |-> TRUE, parts |-> {Part(i) : i \in copied}]
<1>1. N \in Nat /\ N \in 0 .. N /\ DOMAIN list = 1 .. N
  OBVIOUS
<1>2. box = Boxes(list, known)[N] /\ box \in BoxStates(N)
  <2>1. \A i \in 1 .. Len(list) : HeightAt(list, known, i) \in Nat
    BY <1>1
  <2>2. box = Boxes(list, known)[N]
    BY <2>1, BoxSteps
  <2>3. \A i \in 0 .. N : Boxes(list, known)[i] \in BoxStates(N)
    BY <2>1, BoxSteps
  <2> HIDE DEF box, N
  <2> QED BY <1>1, <2>2, <2>3
<1>3. \A i \in 1 .. N : /\ box.list[i].y = PlaceOf(list, known, i)
                        /\ PlaceOf(list, known, i) \in Int
                        /\ HeightAt(list, known, i) \in Nat
                        /\ box.y <= PlaceOf(list, known, i)
                        /\ PlaceOf(list, known, i) + HeightAt(list, known, i) <= box.y + box.h
  <2> SUFFICES ASSUME NEW i \in 1 .. N
               PROVE  /\ box.list[i].y = PlaceOf(list, known, i)
                      /\ PlaceOf(list, known, i) \in Int
                      /\ HeightAt(list, known, i) \in Nat
                      /\ box.y <= PlaceOf(list, known, i)
                      /\ PlaceOf(list, known, i) + HeightAt(list, known, i) <= box.y + box.h
    OBVIOUS
  <2>1. box.list[i].y = PlaceOf(list, known, i)
    BY <1>1, <1>2, BoxPlaces
  <2>2. box.y <= PlaceOf(list, known, i)
        /\ PlaceOf(list, known, i) + HeightAt(list, known, i) <= box.y + box.h
    BY <1>1, <1>2, BoxHolds
  <2>3. PlaceOf(list, known, i) \in Int
    BY <1>1, BoxSteps
  <2> QED BY <1>1, <2>1, <2>2, <2>3
<1>4. Box(box.list, known).y = box.y /\ Box(box.list, known).h = box.h
  BY <1>1, BoxAgain
<1> HIDE DEF box, N
<1>5. box.y \in Int /\ box.h \in Nat /\ box.list \in Seq(Entries)
  BY <1>2 DEF BoxStates
<1>6. ASSUME NEW p \in item.parts PROVE p.y >= 0 /\ p.y + p.h <= item.h
  <2>1. PICK i \in copied : p = Part(i)
    BY <1>6
  <2> DEFINE y == PlaceOf(list, known, i)
             h == HeightAt(list, known, i)
             a == box.y
             b == box.h
  <2>2. p.y = y - a /\ p.h = h /\ item.h = b /\ y \in Int /\ h \in Nat /\ a \in Int /\ b \in Nat
        /\ a <= y /\ y + h <= a + b
    <3>1. i \in 1 .. N /\ p.y = box.list[i].y - box.y /\ p.h = HeightAt(list, known, i) /\ item.h = box.h
      BY <1>1, <2>1
    <3> HIDE DEF item
    <3> QED BY <1>3, <1>5, <3>1
  <2> HIDE DEF y, h, a, b, item
  <2> QED BY <2>2
<1>7. item.y = box.y /\ item.h = box.h
  OBVIOUS
<1> HIDE DEF item
<1>8. BoxSaved(item, box.list, known)
  BY <1>4, <1>6, <1>7 DEF BoxSaved
<1> QED BY <1>5, <1>8 DEF item, box

LEMMA PageSaved ==
    ASSUME NEW list \in Seq(Entries), NEW known, \A r \in DOMAIN known : known[r].h \in Nat,
           NEW tables, SaveResult2Spu(known, tables, list)
    PROVE  page' \in Seq(Entries) /\ BoxSaved(spu', page', known)
<1> DEFINE N == Len(list)
           unknown == {i \in DOMAIN list : list[i].region \notin DOMAIN known}
           firsts == IF unknown = {} THEN N
                     ELSE (CHOOSE i \in unknown : \A j \in unknown : i <= j) - 1
           some == SubSeq(list, 1, firsts)
           more == SubSeq(list, firsts + 1, N)
           box == Box(some, known)
           bad == {i \in DOMAIN list : LET r == known[list[i].region]
                                      IN  r.clut \notin tables \/ r.h > MaxHeight}
           copied == {i \in DOMAIN list : \A j \in bad : i < j}
           item == [y |-> box.y, h |-> box.h, saved |-> TRUE,
                    parts |-> {[y |-> box.list[i].y - box.y,
                                h |-> known[list[i].region].h] : i \in copied}]
<1>1. page' = box.list \o more /\ spu' = IF unknown # {} \/ list = <<>> THEN Item0 ELSE item
  BY DEF SaveResult2Spu
<1>2. N \in Nat /\ DOMAIN list = 1 .. N /\ copied \in SUBSET DOMAIN list
      /\ unknown \subseteq 1 .. N /\ unknown \subseteq Nat
  OBVIOUS
<1> HIDE DEF bad, copied, item
<1>3. firsts \in 0 .. N /\ \A i \in 1 .. firsts : list[i].region \in DOMAIN known
  <2>1. CASE unknown = {}
    BY <1>2, <2>1
  <2>2. CASE unknown # {}
    <3> DEFINE first == CHOOSE i \in unknown : \A j \in unknown : i <= j
    <3>1. first \in unknown /\ \A j \in unknown : first <= j
      <4>1. \E i \in unknown : \A j \in unknown : i <= j
        <5> HIDE DEF unknown
        <5> QED BY <1>2, <2>2, LeastOfNats
      <4> QED BY <4>1
    <3>2. firsts = first - 1
      BY <2>2
    <3> HIDE DEF first, firsts
    <3>3. ASSUME NEW i \in 1 .. firsts PROVE list[i].region \in DOMAIN known
      <4>1. i < first /\ i \in DOMAIN list
        BY <1>2, <3>1, <3>2
      <4>2. i \notin unknown
        BY <1>2, <3>1, <4>1
      <4> QED BY <4>1, <4>2
    <3> QED BY <1>2, <3>1, <3>2, <3>3
  <2> QED BY <2>1, <2>2
<1>4. unknown = {} => firsts = N
  OBVIOUS
<1> HIDE DEF firsts, unknown
<1>5. some \in Seq(Entries) /\ Len(some) = firsts /\ \A i \in 1 .. firsts : some[i] = list[i]
  <2>1. \A i \in 1 .. firsts : list[i] \in Entries
    BY <1>2, <1>3
  <2> HIDE DEF N
  <2>2. firsts \in Int /\ 1 \in Int /\ firsts - 1 + 1 = firsts /\ \A i \in 1 .. firsts : 1 + i - 1 = i
    BY <1>2, <1>3
  <2>3. /\ some \in Seq(Entries)
        /\ Len(some) = IF 1 <= firsts THEN firsts - 1 + 1 ELSE 0
        /\ \A i \in 1 .. firsts - 1 + 1 : some[i] = list[1 + i - 1]
    BY <2>1, <2>2, SubSeqProperties
  <2> QED BY <1>2, <1>3, <2>2, <2>3
<1>6. more \in Seq(Entries)
  <2>1. \A i \in firsts + 1 .. N : list[i] \in Entries
    BY <1>2, <1>3
  <2>2. firsts + 1 \in Int /\ N \in Int
    BY <1>2, <1>3
  <2> HIDE DEF N
  <2> QED BY <2>1, <2>2, SubSeqProperties
<1>7. \A i \in DOMAIN some : HeightAt(some, known, i) \in Nat
  <2> HIDE DEF some
  <2> QED BY <1>3, <1>5 DEF HeightAt
<1> HIDE DEF N
<1>8. box.list \in Seq(Entries)
  <2>1. {} \in SUBSET DOMAIN some
    OBVIOUS
  <2> HIDE DEF some
  <2> QED BY <1>5, <1>7, <2>1, WholePageSaved
<1>9. page' \in Seq(Entries)
  <2> HIDE DEF box, more
  <2> QED BY <1>1, <1>6, <1>8, ConcatProperties
<1>10. CASE unknown # {} \/ list = <<>>
  BY <1>1, <1>9, <1>10, NotSaved
<1>11. CASE ~(unknown # {} \/ list = <<>>)
  <2>1. some = list
    BY <1>4, <1>11, SubSeqFull DEF N
  <2>2. more = <<>>
    <3>1. N < firsts + 1 /\ firsts + 1 \in Int /\ N \in Int
      BY <1>2, <1>4, <1>11
    <3> QED BY <3>1, SubSeqEmpty
  <2>3. page' = box.list /\ spu' = item
    <3> HIDE DEF box, more
    <3> QED BY <1>1, <1>8, <1>11, <2>2, ConcatEmptySeq
  <2> DEFINE whole == Box(list, known)
  <2>4. item = [y |-> whole.y, h |-> whole.h, saved |-> TRUE,
                parts |-> {[y |-> whole.list[i].y - whole.y,
                            h |-> HeightAt(list, known, i)] : i \in copied}]
    BY <2>1 DEF item, HeightAt
  <2>5. BoxSaved(item, whole.list, known)
    <3>1. \A i \in DOMAIN list : HeightAt(list, known, i) \in Nat
      BY <1>7, <2>1
    <3> QED BY <1>2, <2>4, <3>1, WholePageSaved
  <2>6. whole = box
    BY <2>1
  <2> HIDE DEF whole, box, item
  <2> QED BY <1>9, <2>3, <2>5, <2>6
<1> QED BY <1>10, <1>11, SMTT(30)

\* The page has numbers and places, and the item in spu is composed from it; an
\* item is there only while a packet is decoded
DvbBox ==
    /\ page \in Seq(Entries)
    /\ phase \in {"idle", "gone"} => spu = NoSpu
    /\ BoxSaved(spu, page, regions)

LEMMA DvbBoxInit == DvbInit => DvbBox
<1> SUFFICES ASSUME DvbInit PROVE DvbBox
  OBVIOUS
<1>1. page = <<>> /\ spu = NoSpu
  BY DEF DvbInit
<1>2. page \in Seq(Entries)
  BY <1>1
<1> QED BY <1>1, <1>2, NotSaved DEF DvbBox

LEMMA DvbBoxNext == DvbDraws /\ DvbDraws' /\ DvbBox /\ [DvbNext]_dvbVars => DvbBox'
<1> SUFFICES ASSUME DvbDraws, DvbDraws', DvbBox, [DvbNext]_dvbVars PROVE DvbBox'
  OBVIOUS
<1>1. UNCHANGED <<page, phase, spu, regions>> => DvbBox'
  BY DEF DvbBox, BoxSaved
<1>2. spu' = Item0 /\ UNCHANGED page /\ phase' \notin {"idle", "gone"} => DvbBox'
  BY NotSaved DEF DvbBox
<1>3. ASSUME NEW c \in PageIds, NEW a \in PageIds, UpdateParameter(c, a) PROVE DvbBox'
  BY <1>1, <1>3 DEF UpdateParameter
<1>4. CASE GetDvbSpu
  BY <1>2, <1>4 DEF GetDvbSpu
<1>5. CASE EndOfPacket
  BY <1>5, NotSaved DEF EndOfPacket, DvbBox
<1>6. CASE StopDvbParser
  BY <1>1, <1>6 DEF StopDvbParser
<1>7. CASE DestroyDvbParser
  <2>1. page' = <<>> /\ spu' = spu /\ phase = "idle"
    BY <1>7 DEF DestroyDvbParser
  <2>2. spu' = NoSpu
    BY <2>1 DEF DvbBox
  <2>3. page' \in Seq(Entries)
    BY <2>1
  <2> QED BY <2>2, <2>3, NotSaved DEF DvbBox
<1>8. CASE DecodeSubtitle
  <2>1. phase = "decode"
    BY <1>8 DEF DecodeSubtitle
  <2>2. ASSUME NEW tables, NEW list \in Seq(Entries), SaveResult2Spu(regions', tables, list), UNCHANGED phase
        PROVE  DvbBox'
    <3>1. \A r \in DOMAIN regions' : regions'[r].h \in Nat
      BY DEF DvbDraws
    <3>2. page' \in Seq(Entries) /\ BoxSaved(spu', page', regions')
      BY <2>2, <3>1, PageSaved
    <3> QED BY <2>1, <2>2, <3>2 DEF DvbBox
  <2>3. ASSUME NEW state, NEW list \in PageLists, ParsePageSegment(state, list) PROVE DvbBox'
    <3>1. Reverse(list) \in Seq(Entries)
      <4> DEFINE Places == [region : RegionIds, y : Rows]
      <4>1. PICK m \in 0 .. 2 : list \in [1 .. m -> Places]
        BY DEF PageLists, BoundedSeq, SeqOf
      <4>2. Places \subseteq Entries
        <5>1. \A y \in Rows : y \in Int
          BY DvbAssumption
        <5> QED BY <5>1 DEF Entries
      <4> HIDE DEF Places
      <4>3. list \in Seq(Entries) /\ Len(list) \in Nat
        BY <4>1, <4>2
      <4>4. \A i \in 1 .. Len(list) : list[(Len(list) - i) + 1] \in Entries
        <5> SUFFICES ASSUME NEW i \in 1 .. Len(list) PROVE list[(Len(list) - i) + 1] \in Entries
          OBVIOUS
        <5>1. (Len(list) - i) + 1 \in 1 .. Len(list)
          BY <4>3
        <5> QED BY <4>3, <5>1
      <4>5. Reverse(list) \in [1 .. Len(list) -> Entries]
        BY <4>4 DEF Reverse
      <4> QED BY <4>3, <4>5
    <3>2. SaveResult2Spu(regions', cluts', Reverse(list)) /\ UNCHANGED phase
      BY <2>3 DEF ParsePageSegment
    <3> QED BY <2>2, <3>1, <3>2
  <2>4. ASSUME NEW r, NEW h, NEW depth, NEW c, NEW list, ParseRegionSegment(r, h, depth, c, list)
        PROVE  DvbBox'
    BY <1>2, <2>1, <2>4 DEF ParseRegionSegment
  <2>5. ASSUME NEW c, ParseClutSegment(c) PROVE DvbBox'
    BY <1>2, <2>1, <2>5 DEF ParseClutSegment
  <2>6. ASSUME NEW o, NEW pic, ParseObjectSegment(o, pic) PROVE DvbBox'
    <3>1. phase' \notin {"idle", "gone"}
      BY <2>1, <2>6 DEF ParseObjectSegment
    <3>2. spu' = Item0 /\ UNCHANGED page
      BY <2>6 DEF ParseObjectSegment
    <3> QED BY <1>2, <3>1, <3>2
  <2>7. ASSUME NEW v, ParseDisplayDefinitionSegment(v) PROVE DvbBox'
    BY <1>1, <2>7 DEF ParseDisplayDefinitionSegment
  <2>8. CASE DisplayEndSegment
    <3>1. SaveResult2Spu(regions', cluts, page) /\ UNCHANGED phase
      BY <2>8 DEF DisplayEndSegment
    <3>2. page \in Seq(Entries)
      BY DEF DvbBox
    <3> QED BY <2>2, <3>1, <3>2
  <2> QED BY <1>8, <2>3, <2>4, <2>5, <2>6, <2>7, <2>8 DEF DecodeSubtitle
<1>9. CASE UNCHANGED dvbVars
  BY <1>1, <1>9 DEF dvbVars
<1> QED BY <1>3, <1>4, <1>5, <1>6, <1>7, <1>8, <1>9 DEF DvbNext

(* A composed page is inside its picture, for regions of any height asked to be  *)
(* anywhere, and composing it a second time, as the end of the display set does, *)
(* finds the places that the first time moved and gives the same box             *)
(* (saveResult2Spu).                                                             *)
THEOREM DvbRegionsInside == DvbSpec => []RegionsInsideBox
<1>1. DvbBox => RegionsInsideBox
  BY DEF DvbBox, BoxSaved, RegionsInsideBox
<1> QED BY <1>1, DvbInvInit, DvbInvNext, DvbDrawsInit, DvbDrawsNext, DvbBoxInit, DvbBoxNext, PTL DEF DvbSpec

-----------------------------------------------------------------------------
(* PGS                                                                         *)

Segments(objs) ==
    {[type |-> "comp", objs |-> objs], [type |-> "palette"], [type |-> "end"]}
      \cup {Fragment(o, i, n) : o \in Range(objs), n \in 1 .. MaxFragments, i \in 1 .. MaxFragments}

\* What is still to come of a display set: a composition is first, and a fragment
\* that is not the first of its object is behind the one before it
InOrder(segs, objs) ==
    /\ segs \in Seq(Segments(objs))
    /\ \A i \in 1 .. Len(segs) :
          segs[i].type = "object" => segs[i].part \in 1 .. segs[i].of /\ segs[i].of <= MaxFragments
    /\ \A i \in 2 .. Len(segs) :
          /\ segs[i].type # "comp"
          /\ segs[i].type = "object" /\ segs[i].part > 1 =>
                segs[i - 1] = Fragment(segs[i].obj, segs[i].part - 1, segs[i].of)

Copied(o, i, n) == [k \in 1 .. i |-> <<o, k, n>>]

RleBuffers == Seq(Seq(Nat \cup PgsObjects))

PgsTypes ==
    /\ demux \in {"hw", "soft"} /\ lostOne \in BOOLEAN
    /\ sentSet \in Seq(PgsObjects)
    /\ rleBuf \in RleBuffers /\ rleSize \in Nat
    /\ pictures \in Seq([data : RleBuffers, named : BOOLEAN])

\* Without a loss the parser has what the next segment continues
Prepared ==
    ~lostOne =>
      /\ unsent = <<>> \/ unsent[1].type # "comp" => composition = sentSet
      /\ unsent # <<>> /\ unsent[1].type = "object" /\ unsent[1].part > 1 =>
            /\ rleBuf = Copied(unsent[1].obj, unsent[1].part - 1, unsent[1].of)
            /\ rleSize = unsent[1].of /\ imageSet

PgsInv == PgsTypes /\ InOrder(unsent, sentSet) /\ Prepared /\ LossStaysInSet

LEMMA FragmentHas ==
    ASSUME NEW o, NEW i, NEW n
    PROVE  LET f == Fragment(o, i, n)
           IN  f.type = "object" /\ f.obj = o /\ f.part = i /\ f.of = n
BY DEF Fragment

\* Two sequences one behind the other
LEMMA TwoJoined ==
    ASSUME NEW S, NEW a \in Seq(S), NEW b \in Seq(S), NEW d, d = a \o b
    PROVE  /\ d \in Seq(S) /\ Len(d) = Len(a) + Len(b)
           /\ \A i \in 1 .. Len(a) : d[i] = a[i]
           /\ \A i \in Len(a) + 1 .. Len(a) + Len(b) : d[i] = b[i - Len(a)]
<1>1. Len(a) \in Nat /\ Len(b) \in Nat
  OBVIOUS
<1>2. /\ d \in Seq(S) /\ Len(d) = Len(a) + Len(b)
      /\ \A i \in 1 .. Len(a) + Len(b) : d[i] = IF i <= Len(a) THEN a[i] ELSE b[i - Len(a)]
  BY ConcatProperties, Zenon
<1> QED BY <1>1, <1>2

\* A display set is in order, and nothing of it is sent before its composition
LEMMA DisplaySetInOrder ==
    ASSUME NEW objs \in Seq(PgsObjects), Len(objs) \in 1 .. 2, NEW n \in 1 .. MaxFragments
    PROVE  /\ InOrder(DisplaySet(objs, n), objs) /\ DisplaySet(objs, n) # <<>>
           /\ DisplaySet(objs, n)[1].type = "comp"
<1> DEFINE F(k) == [i \in 1 .. n |-> Fragment(objs[k], i, n)]
           head == <<[type |-> "comp", objs |-> objs], [type |-> "palette"]>>
           end == <<[type |-> "end"]>>
           more == IF Len(objs) = 2 THEN F(2) ELSE <<>>
           S == Segments(objs)
           m == n + 2 + Len(more)
           d == DisplaySet(objs, n)
<1>1. n \in Nat /\ n > 0 /\ n <= MaxFragments /\ MaxFragments \in Nat
  BY PgsAssumption
<1>2. \A k \in 1 .. Len(objs) : F(k) \in Seq(S) /\ Len(F(k)) = n
  <2> TAKE k \in 1 .. Len(objs)
  <2>1. objs[k] \in Range(objs)
    BY DEF Range
  <2>2. \A i \in 1 .. n : Fragment(objs[k], i, n) \in S
    BY <1>1, <2>1 DEF Segments
  <2> HIDE DEF S
  <2> QED BY <1>1, <2>2
<1>3. head \in Seq(S) /\ Len(head) = 2 /\ end \in Seq(S) /\ Len(end) = 1
  BY DEF Segments
<1>4. more \in Seq(S) /\ Len(more) = IF Len(objs) = 2 THEN n ELSE 0
  BY <1>2
<1>5. F(1) \in Seq(S) /\ Len(F(1)) = n
  BY <1>2
<1>6. d = head \o F(1) \o more \o end
  BY DEF DisplaySet
<1>7. /\ head[1].type = "comp" /\ head[2].type = "palette" /\ end[1].type = "end"
      /\ \A i \in 1 .. n : F(1)[i] = Fragment(objs[1], i, n)
      /\ Len(objs) = 2 => \A i \in 1 .. n : more[i] = Fragment(objs[2], i, n)
  OBVIOUS
<1>8. m \in Nat /\ (m = n + 2 \/ (m = n + 2 + n /\ Len(objs) = 2))
  BY <1>1, <1>4
<1> HIDE DEF S, head, end, F, more, d
<1>9. /\ d \in Seq(S) /\ Len(d) = m + 1
      /\ \A i \in 1 .. 2 : d[i] = head[i]
      /\ \A i \in 3 .. n + 2 : d[i] = F(1)[i - 2]
      /\ \A i \in n + 3 .. m : d[i] = more[i - (n + 2)]
      /\ \A i \in m + 1 .. m + 1 : d[i] = end[i - m]
  <2>1. /\ Len(head) = 2 /\ Len(F(1)) = n /\ Len(end) = 1 /\ Len(more) \in Nat
        /\ n + 2 = Len(head) + Len(F(1)) /\ m = n + 2 + Len(more) /\ Len(head) + 1 = 3
        /\ n + 2 + 1 = n + 3
    BY <1>1, <1>3, <1>4, <1>5
  <2> HIDE DEF m
  <2>2. /\ d \in Seq(S) /\ Len(d) = m + Len(end)
        /\ \A i \in 1 .. Len(head) : d[i] = head[i]
        /\ \A i \in Len(head) + 1 .. n + 2 : d[i] = F(1)[i - Len(head)]
        /\ \A i \in n + 2 + 1 .. m : d[i] = more[i - (n + 2)]
        /\ \A i \in m + 1 .. m + Len(end) : d[i] = end[i - m]
    <3> DEFINE x == head \o F(1)
               y == x \o more
    <3>1. x = head \o F(1) /\ y = x \o more /\ d = y \o end
      BY <1>6
    <3> HIDE DEF x, y
    <3> DEFINE k == n + 2
               f == F(1)
    <3>2. /\ f \in Seq(S) /\ x = head \o f /\ k = Len(head) + Len(f) /\ m = k + Len(more)
          /\ f = F(1) /\ k = n + 2
      BY <1>5, <2>1, <3>1
    <3> HIDE DEF f, k
    <3>3. d = y \o end
      BY <3>1
    <3>4. /\ d \in Seq(S) /\ Len(d) = m + Len(end)
          /\ \A i \in 1 .. Len(head) : d[i] = head[i]
          /\ \A i \in Len(head) + 1 .. k : d[i] = f[i - Len(head)]
          /\ \A i \in k + 1 .. m : d[i] = more[i - k]
          /\ \A i \in m + 1 .. m + Len(end) : d[i] = end[i - m]
      <4>1. head \in Seq(S) /\ end \in Seq(S) /\ more \in Seq(S) /\ y = x \o more
        BY <1>3, <1>4, <3>1
      <4>2. k = Len(head) + Len(f) /\ m = k + Len(more) /\ f \in Seq(S) /\ x = head \o f
        BY <3>2
      <4>3. Len(head) \in Nat /\ Len(f) \in Nat /\ Len(more) \in Nat /\ Len(end) \in Nat
        BY <4>1, <4>2
      <4> HIDE DEF more
      <4>4. /\ x \in Seq(S) /\ Len(x) = k
            /\ \A i \in 1 .. Len(head) : x[i] = head[i]
            /\ \A i \in Len(head) + 1 .. k : x[i] = f[i - Len(head)]
        BY <4>1, <4>2, TwoJoined
      <4>5. /\ y \in Seq(S) /\ Len(y) = m
            /\ \A i \in 1 .. k : y[i] = x[i]
            /\ \A i \in k + 1 .. m : y[i] = more[i - k]
        BY <4>1, <4>2, <4>4, TwoJoined, SMTT(30)
      <4>6. /\ d \in Seq(S) /\ Len(d) = m + Len(end)
            /\ \A i \in 1 .. m : d[i] = y[i]
            /\ \A i \in m + 1 .. m + Len(end) : d[i] = end[i - m]
        BY <3>3, <4>1, <4>5, TwoJoined
      <4>7. /\ \A i \in 1 .. Len(head) : i \in 1 .. k /\ i \in 1 .. m
            /\ \A i \in Len(head) + 1 .. k : i \in 1 .. k /\ i \in 1 .. m
            /\ \A i \in k + 1 .. m : i \in 1 .. m
        BY <4>2, <4>3, SMTT(30)
      <4>8. /\ \A i \in 1 .. Len(head) : d[i] = head[i]
            /\ \A i \in Len(head) + 1 .. k : d[i] = f[i - Len(head)]
        BY <4>4, <4>5, <4>6, <4>7, Zenon
      <4>9. \A i \in k + 1 .. m : d[i] = more[i - k]
        BY <4>5, <4>6, <4>7, Zenon
      <4> QED BY <4>6, <4>8, <4>9, Zenon
    <3> QED BY <3>2, <3>4
  <2> QED BY <2>1, <2>2
<1> HIDE DEF m
<1>10. /\ d[1] = head[1] /\ d[2] = head[2] /\ d[m + 1] = end[1]
       /\ \A i \in 3 .. n + 2 : d[i] = Fragment(objs[1], i - 2, n)
       /\ \A i \in n + 3 .. m : d[i] = Fragment(objs[2], i - (n + 2), n)
  <2>1. m \in Nat /\ m >= n + 2 /\ 1 \in 1 .. 2 /\ 2 \in 1 .. 2 /\ m + 1 \in m + 1 .. m + 1
    BY <1>1, <1>4 DEF m
  <2> HIDE DEF d, head, end, more, F, m
  <2>2. d[1] = head[1] /\ d[2] = head[2]
    BY <1>9, <2>1
  <2>3. d[m + 1] = end[1]
    BY <1>9, <2>1
  <2>4. \A i \in 3 .. n + 2 : d[i] = Fragment(objs[1], i - 2, n)
    <3> TAKE i \in 3 .. n + 2
    <3>1. d[i] = F(1)[i - 2] /\ i - 2 \in 1 .. n
      BY <1>1, <1>9
    <3> QED BY <1>7, <3>1
  <2>5. \A i \in n + 3 .. m : d[i] = Fragment(objs[2], i - (n + 2), n)
    <3> TAKE i \in n + 3 .. m
    <3>1. d[i] = more[i - (n + 2)] /\ i - (n + 2) \in 1 .. n /\ Len(objs) = 2
      BY <1>1, <1>8, <1>9
    <3> QED BY <1>7, <3>1
  <2> QED BY <2>2, <2>3, <2>4, <2>5
<1>11. /\ d[1].type = "comp" /\ d[2].type = "palette" /\ d[m + 1].type = "end"
       /\ \A i \in 3 .. n + 2 : /\ d[i].type = "object" /\ d[i].obj = objs[1]
                                /\ d[i].part = i - 2 /\ d[i].of = n
       /\ \A i \in n + 3 .. m : /\ d[i].type = "object" /\ d[i].obj = objs[2]
                                /\ d[i].part = i - (n + 2) /\ d[i].of = n
  <2>1. d[1].type = "comp" /\ d[2].type = "palette" /\ d[m + 1].type = "end"
    BY <1>7, <1>10
  <2>2. ASSUME NEW i \in 3 .. n + 2
        PROVE  d[i].type = "object" /\ d[i].obj = objs[1] /\ d[i].part = i - 2 /\ d[i].of = n
    <3> DEFINE j == i - 2
    <3>1. d[i] = Fragment(objs[1], j, n)
      BY <1>10
    <3> HIDE DEF j
    <3>2. d[i].type = "object" /\ d[i].obj = objs[1] /\ d[i].part = j /\ d[i].of = n
      BY <3>1, FragmentHas
    <3> QED BY <3>2 DEF j
  <2>3. ASSUME NEW i \in n + 3 .. m
        PROVE  d[i].type = "object" /\ d[i].obj = objs[2] /\ d[i].part = i - (n + 2) /\ d[i].of = n
    <3> DEFINE j == i - (n + 2)
    <3>1. d[i] = Fragment(objs[2], j, n)
      BY <1>10
    <3> HIDE DEF j
    <3>2. d[i].type = "object" /\ d[i].obj = objs[2] /\ d[i].part = j /\ d[i].of = n
      BY <3>1, FragmentHas
    <3> QED BY <3>2 DEF j
  <2> QED BY <2>1, <2>2, <2>3
<1>12. ASSUME NEW i \in 1 .. Len(d), d[i].type = "object"
       PROVE  /\ d[i].part \in 1 .. d[i].of /\ d[i].of <= MaxFragments
              /\ i \in 3 .. n + 2 \/ i \in n + 3 .. m
  <2>1. i \in 3 .. n + 2 \/ i \in n + 3 .. m
    BY <1>1, <1>8, <1>9, <1>11, <1>12
  <2>2. d[i].of = n /\ d[i].part \in 1 .. n
    <3>1. CASE i \in 3 .. n + 2
      BY <1>1, <1>11, <3>1
    <3>2. CASE i \in n + 3 .. m
      <4>1. i - (n + 2) \in 1 .. n
        BY <1>1, <1>8, <3>2
      <4> QED BY <1>11, <3>2, <4>1
    <3> QED BY <2>1, <3>1, <3>2
  <2> QED BY <1>1, <2>1, <2>2
<1>13. ASSUME NEW i \in 2 .. Len(d)
       PROVE  /\ d[i].type # "comp"
              /\ d[i].type = "object" /\ d[i].part > 1 =>
                    d[i - 1] = Fragment(d[i].obj, d[i].part - 1, d[i].of)
  <2>1. d[i].type # "comp"
    BY <1>1, <1>8, <1>9, <1>11
  <2>2. ASSUME d[i].type = "object", d[i].part > 1
        PROVE  d[i - 1] = Fragment(d[i].obj, d[i].part - 1, d[i].of)
    <3>1. CASE i \in 3 .. n + 2
      <4>1. i - 1 \in 3 .. n + 2
        <5>1. d[i].part = i - 2
          BY <1>11, <3>1
        <5> QED BY <1>1, <2>2, <3>1, <5>1
      <4> QED BY <1>1, <1>10, <1>11, <3>1, <4>1
    <3>2. CASE i \in n + 3 .. m
      <4> DEFINE number == d[i].part
      <4>1. number = i - (n + 2) /\ d[i].obj = objs[2] /\ d[i].of = n
        BY <1>11, <3>2
      <4>2. number > 1
        BY <2>2
      <4>3. i \in Int /\ n \in Int /\ m \in Int /\ i >= n + 3 /\ i <= m
        BY <1>1, <1>8, <3>2
      <4> HIDE DEF number
      <4>4. i - 1 \in n + 3 .. m
        BY <4>1, <4>2, <4>3
      <4>5. d[i - 1] = Fragment(objs[2], i - 1 - (n + 2), n)
        BY <1>10, <4>4
      <4>6. i - 1 - (n + 2) = number - 1
        BY <4>1, <4>3
      <4> QED BY <4>5, <4>1, <4>6 DEF number
    <3>3. i \in 1 .. Len(d)
      BY <1>8, <1>9
    <3> QED BY <1>12, <2>2, <3>1, <3>2, <3>3
  <2> QED BY <2>1, <2>2
<1>14. InOrder(d, objs)
  <2>1. d \in Seq(Segments(objs))
    BY <1>9 DEF S
  <2> QED BY <1>12, <1>13, <2>1 DEF InOrder
<1>15. d # <<>> /\ d[1].type = "comp"
  BY <1>8, <1>9, <1>11
<1> QED BY <1>14, <1>15 DEF d

\* The rest of it is in order too
LEMMA RestInOrder ==
    ASSUME NEW objs, NEW segs, InOrder(segs, objs), segs # <<>>
    PROVE  /\ InOrder(Tail(segs), objs) /\ Head(segs) = segs[1] /\ Head(segs) \in Segments(objs)
           /\ Tail(segs) # <<>> => 2 \in 1 .. Len(segs) /\ Tail(segs)[1] = segs[2]
<1> DEFINE t == Tail(segs)
<1>1. /\ segs \in Seq(Segments(objs)) /\ Head(segs) = segs[1] /\ Head(segs) \in Segments(objs)
      /\ t \in Seq(Segments(objs)) /\ Len(t) = Len(segs) - 1 /\ Len(segs) \in Nat
      /\ \A i \in 1 .. Len(t) : t[i] = segs[i + 1]
  BY HeadTailProperties DEF InOrder
<1> HIDE DEF t
<1>2. \A i \in 1 .. Len(t) :
         t[i].type = "object" => t[i].part \in 1 .. t[i].of /\ t[i].of <= MaxFragments
  BY <1>1 DEF InOrder
<1>3. ASSUME NEW i \in 2 .. Len(t)
      PROVE  /\ t[i].type # "comp"
             /\ t[i].type = "object" /\ t[i].part > 1 =>
                   t[i - 1] = Fragment(t[i].obj, t[i].part - 1, t[i].of)
  <2>1. i + 1 \in 2 .. Len(segs) /\ t[i] = segs[i + 1] /\ t[i - 1] = segs[i] /\ i + 1 - 1 = i
    BY <1>1
  <2> QED BY <2>1 DEF InOrder
<1>4. InOrder(t, objs)
  BY <1>1, <1>2, <1>3 DEF InOrder
<1>5. t # <<>> => 2 \in 1 .. Len(segs) /\ t[1] = segs[2]
  BY <1>1
<1> QED BY <1>1, <1>4, <1>5 DEF t

\* The first fragments of an object, and the next one behind them
LEMMA CopiedNext ==
    ASSUME NEW o \in PgsObjects, NEW i \in Nat, NEW n \in Nat
    PROVE  /\ Append(Copied(o, i, n), <<o, i + 1, n>>) = Copied(o, i + 1, n)
           /\ Copied(o, i, n) \in RleBuffers /\ Len(Copied(o, i, n)) = i
           /\ Copied(o, i, n) # NoBuf
<1> DEFINE U == Seq(Nat \cup PgsObjects)
           c == Copied(o, i, n)
<1>1. \A k \in 1 .. i + 1 : <<o, k, n>> \in U /\ Len(<<o, k, n>>) = 3
  OBVIOUS
<1>2. c \in Seq(U) /\ Len(c) = i /\ \A k \in 1 .. i : c[k] = <<o, k, n>>
  <2> HIDE DEF U
  <2> QED BY <1>1 DEF Copied
<1>3. c # NoBuf
  <2>1. ASSUME c = NoBuf PROVE FALSE
    <3>1. i = 1 /\ c[1] = <<>>
      BY <1>2, <2>1 DEF NoBuf
    <3>2. Len(c[1]) = 3
      BY <1>1, <1>2, <3>1
    <3> QED BY <3>1, <3>2
  <2> QED BY <2>1
<1>4. Append(c, <<o, i + 1, n>>) = Copied(o, i + 1, n)
  <2> DEFINE a == Append(c, <<o, i + 1, n>>)
             x == <<o, i + 1, n>>
  <2>1. x \in U /\ x = <<o, i + 1, n>>
    BY <1>1
  <2> HIDE DEF U, c, x
  <2>2. a = Append(c, x)
    BY <2>1
  <2> HIDE DEF a
  <2>3. a \in Seq(U) /\ Len(a) = i + 1 /\ (\A k \in 1 .. i : a[k] = c[k]) /\ a[i + 1] = x
    BY <1>2, <2>1, <2>2, AppendProperties
  <2>4. \A k \in 1 .. i + 1 : a[k] = <<o, k, n>>
    BY <1>2, <2>1, <2>3
  <2>5. a = [k \in 1 .. i + 1 |-> a[k]]
    BY <2>3
  <2>6. a = [k \in 1 .. i + 1 |-> <<o, k, n>>]
    BY <2>4, <2>5
  <2> QED BY <2>1, <2>2, <2>6 DEF Copied
<1> QED BY <1>2, <1>3, <1>4 DEF RleBuffers

\* What a segment of a display set says
LEMMA SegmentSays ==
    ASSUME NEW objs \in Seq(PgsObjects), NEW s \in Segments(objs)
    PROVE  /\ s.type \in {"comp", "palette", "end", "object"}
           /\ s.type = "comp" => s.objs = objs
           /\ s.type = "object" => /\ s.obj \in Range(objs) /\ s.obj \in PgsObjects
                                   /\ s.part \in Nat /\ s.of \in 1 .. MaxFragments
<1>1. CASE s \in {[type |-> "comp", objs |-> objs], [type |-> "palette"], [type |-> "end"]}
  BY <1>1
<1>2. CASE s \in {Fragment(o, i, n) : o \in Range(objs), n \in 1 .. MaxFragments,
                                      i \in 1 .. MaxFragments}
  <2>1. PICK o \in Range(objs), n \in 1 .. MaxFragments, i \in 1 .. MaxFragments :
           s = Fragment(o, i, n)
    BY <1>2
  <2>2. o \in PgsObjects
    BY DEF Range
  <2>3. s.type = "object" /\ s.obj = o /\ s.part = i /\ s.of = n
    BY <2>1, FragmentHas
  <2> QED BY <2>2, <2>3
<1> QED BY <1>1, <1>2 DEF Segments

\* A fragment: what the parser has afterwards, and what it shows of the object
LEMMA FragmentDecoded ==
    ASSUME PgsTypes, NEW o \in PgsObjects, NEW n \in 1 .. MaxFragments, NEW i \in 1 .. n,
           DecodeFragment(Fragment(o, i, n))
    PROVE  /\ rleBuf' \in RleBuffers /\ rleSize' \in Nat /\ composition' = composition
           /\ drawing' = drawing \/ drawing' = "null"
           /\ pictures' \in Seq([data : RleBuffers, named : BOOLEAN])
           /\ (i = 1 \/ (rleBuf = Copied(o, i - 1, n) /\ rleSize = n /\ imageSet)) =>
                 /\ drawing' = drawing /\ rleSize' = n /\ imageSet'
                 /\ i < n => rleBuf' = Copied(o, i, n)
                 /\ \A k \in DOMAIN pictures' :
                       \/ k \in DOMAIN pictures /\ pictures'[k] = pictures[k]
                       \/ /\ pictures'[k].data = Copied(o, n, n)
                          /\ pictures'[k].named = (o \in Range(composition))
<1> DEFINE f == Fragment(o, i, n)
           old == IF i = 1 THEN <<>> ELSE rleBuf
           size == IF i = 1 THEN n ELSE rleSize
           held == BufAfter(f)
           picture == [data |-> held, named |-> FindObject(o)]
           P == [data : RleBuffers, named : BOOLEAN]
           ready == (i = 1) \/ (rleBuf = Copied(o, i - 1, n) /\ rleSize = n /\ imageSet)
<1>1. /\ n \in Nat /\ i \in Nat /\ i - 1 \in Nat /\ i >= 1 /\ i <= n /\ i - 1 + 1 = i
      /\ f.obj = o /\ f.part = i /\ f.of = n
  BY PgsAssumption, FragmentHas
<1> HIDE DEF f
<1>2. <<o, i, n>> \in Seq(Nat \cup PgsObjects)
  BY <1>1
<1>3. old \in RleBuffers /\ size \in Nat
  BY <1>1 DEF PgsTypes, RleBuffers
<1>4. held \in RleBuffers /\ held = IF old # NoBuf /\ Len(old) + 1 <= size
                               THEN Append(old, <<o, i, n>>) ELSE old
  <2>1. held = IF old # NoBuf /\ Len(old) + 1 <= size THEN Append(old, <<o, i, n>>) ELSE old
    BY <1>1 DEF BufAfter
  <2> DEFINE U == Seq(Nat \cup PgsObjects)
             x == <<o, i, n>>
  <2>2. old \in Seq(U) /\ x \in U /\ RleBuffers = Seq(U)
    BY <1>2, <1>3 DEF RleBuffers
  <2> HIDE DEF U, x, old, held, size
  <2>3. Append(old, x) \in Seq(U)
    BY <2>2
  <2> QED BY <2>1, <2>2, <2>3 DEF x
<1>5. ready => held = Copied(o, i, n) /\ held # NoBuf
  <2> SUFFICES ASSUME ready PROVE held = Copied(o, i, n) /\ held # NoBuf
    OBVIOUS
  <2>1. old = Copied(o, i - 1, n)
    <3>1. CASE i = 1
      <4>1. old = <<>> /\ i - 1 = 0 /\ n \in Nat
        BY <1>1, <3>1
      <4>2. Len(Copied(o, 0, n)) = 0 /\ Copied(o, 0, n) \in RleBuffers
        BY <4>1, CopiedNext
      <4>3. Copied(o, 0, n) = <<>>
        BY <4>2 DEF RleBuffers
      <4> QED BY <4>1, <4>3
    <3>2. CASE i # 1
      BY <3>2
    <3> QED BY <3>1, <3>2
  <2>2. size = n
    BY <1>1
  <2>3. old # NoBuf /\ Len(old) = i - 1 /\ Append(old, <<o, i, n>>) = Copied(o, i, n)
    <3> HIDE DEF old
    <3> DEFINE j == i - 1
    <3>1. j \in Nat /\ n \in Nat /\ j + 1 = i /\ j = i - 1
      BY <1>1
    <3> HIDE DEF j
    <3>2. /\ Append(Copied(o, j, n), <<o, j + 1, n>>) = Copied(o, j + 1, n)
          /\ Len(Copied(o, j, n)) = j /\ Copied(o, j, n) # NoBuf
      BY <3>1, CopiedNext
    <3> QED BY <2>1, <3>1, <3>2
  <2>4. Copied(o, i, n) # NoBuf
    BY <1>1, CopiedNext
  <2> HIDE DEF old, size, held
  <2> QED BY <1>1, <1>4, <2>2, <2>3, <2>4
<1>6. /\ rleSize' = size /\ imageSet' = (imageSet \/ i = 1) /\ composition' = composition
      /\ rleBuf' = IF i = n THEN NoBuf ELSE held
  BY <1>1 DEF DecodeFragment, f
<1>7. IF i = n /\ (imageSet \/ i = 1)
      THEN IF held = NoBuf THEN drawing' = "null" /\ pictures' = pictures
           ELSE ParserOnePgs(picture) /\ drawing' = drawing
      ELSE pictures' = pictures /\ drawing' = drawing
  BY <1>1 DEF DecodeFragment, f
<1>8. picture \in P /\ picture.data = held /\ picture.named = (o \in Range(composition))
  BY <1>4 DEF FindObject
<1>9. NoBuf \in RleBuffers
  BY DEF NoBuf, RleBuffers
<1>10. pictures \in Seq(P)
  BY DEF PgsTypes
<1> HIDE DEF picture, held, P, old, size
<1>11. ASSUME ParserOnePgs(picture)
       PROVE  /\ pictures' \in Seq(P)
              /\ \A k \in DOMAIN pictures' :
                    \/ k \in DOMAIN pictures /\ pictures'[k] = pictures[k]
                    \/ pictures'[k] = picture
  <2>1. Len(pictures) \in Nat /\ DOMAIN pictures = 1 .. Len(pictures)
    BY <1>10
  <2>2. CASE demux = "soft"
    BY <1>8, <1>11, <2>1, <2>2 DEF ParserOnePgs
  <2>3. CASE demux # "soft"
    <3>1. pictures' = Append(pictures, picture)
      BY <1>11, <2>3 DEF ParserOnePgs
    <3> QED BY <1>8, <1>10, <2>1, <3>1
  <2> QED BY <2>2, <2>3
<1>12. /\ rleBuf' \in RleBuffers /\ rleSize' \in Nat
       /\ drawing' = drawing \/ drawing' = "null"
       /\ pictures' \in Seq(P)
  BY <1>3, <1>4, <1>6, <1>7, <1>9, <1>10, <1>11
<1>13. ASSUME ready
       PROVE  /\ drawing' = drawing /\ rleSize' = n /\ imageSet'
              /\ i < n => rleBuf' = Copied(o, i, n)
              /\ \A k \in DOMAIN pictures' :
                    \/ k \in DOMAIN pictures /\ pictures'[k] = pictures[k]
                    \/ /\ pictures'[k].data = Copied(o, n, n)
                       /\ pictures'[k].named = (o \in Range(composition))
  <2>1. held = Copied(o, i, n) /\ held # NoBuf
    BY <1>5, <1>13
  <2>2. size = n /\ (imageSet \/ i = 1)
    BY <1>1, <1>13 DEF size
  <2>3. rleSize' = n /\ imageSet' /\ (i < n => rleBuf' = Copied(o, i, n))
    <3>1. imageSet'
      BY <1>6, <2>2, Zenon
    <3>2. rleSize' = n /\ (i < n => rleBuf' = Copied(o, i, n))
      BY <1>1, <1>6, <2>1, <2>2
    <3> QED BY <3>1, <3>2
  <2>4. CASE i = n
    <3>1. ParserOnePgs(picture) /\ drawing' = drawing
      BY <1>7, <2>1, <2>2, <2>4
    <3>2. picture.data = Copied(o, n, n) /\ picture.named = (o \in Range(composition))
      BY <1>8, <2>1, <2>4
    <3> QED BY <1>11, <2>3, <3>1, <3>2
  <2>5. CASE i # n
    BY <1>7, <2>3, <2>5
  <2> QED BY <2>4, <2>5
<1> QED BY <1>6, <1>12, <1>13 DEF P

LEMMA NothingInOrder == \A objs : InOrder(<<>>, objs)
BY DEF InOrder

LEMMA PgsInvInit == PgsInit => PgsInv
<1> SUFFICES ASSUME PgsInit PROVE PgsInv
  OBVIOUS
<1>1. PgsTypes
  <2> DEFINE P == [data : RleBuffers, named : BOOLEAN]
  <2>1. NoBuf \in RleBuffers
    BY DEF NoBuf, RleBuffers
  <2>2. <<>> \in Seq(P) /\ <<>> \in Seq(PgsObjects)
    <3> HIDE DEF P
    <3> QED OBVIOUS
  <2> QED BY <2>1, <2>2 DEF PgsInit, PgsTypes
<1>2. Prepared /\ LossStaysInSet
  BY DEF PgsInit, Prepared, LossStaysInSet
<1>3. InOrder(unsent, sentSet)
  BY NothingInOrder DEF PgsInit
<1> QED BY <1>1, <1>2, <1>3 DEF PgsInv

\* A segment is decoded, and the next of the packet, if any, is the one behind it
LEMMA PgsSegmentDecoded ==
    ASSUME PgsInv, unsent # <<>>, DecodePgs(Head(unsent)), unsent' = <<>> \/ unsent' = Tail(unsent),
           UNCHANGED <<demux, sentSet, lostOne>>
    PROVE  PgsInv'
<1> DEFINE s == unsent[1]
           next == unsent'[1]
           goes == unsent' # <<>> /\ next.type = "object" /\ next.part > 1
<1>1. /\ Head(unsent) = s /\ s \in Segments(sentSet) /\ InOrder(unsent', sentSet)
      /\ unsent' # <<>> => 2 \in 1 .. Len(unsent) /\ next = unsent[2]
  BY RestInOrder, NothingInOrder DEF PgsInv
<1>2. /\ s.type \in {"comp", "palette", "end", "object"}
      /\ s.type = "comp" => s.objs = sentSet
      /\ s.type = "object" => /\ s.obj \in Range(sentSet) /\ s.obj \in PgsObjects
                              /\ s.part \in Nat /\ s.of \in 1 .. MaxFragments
  BY <1>1, SegmentSays DEF PgsInv, PgsTypes
<1>3. ASSUME goes
      PROVE  s.type = "object" /\ s.obj = next.obj /\ s.part = next.part - 1 /\ s.of = next.of
  <2>1. 2 \in 2 .. Len(unsent) /\ unsent[2 - 1] = s
    BY <1>1, <1>3
  <2>2. s = Fragment(next.obj, next.part - 1, next.of)
    BY <1>1, <1>3, <2>1 DEF PgsInv, InOrder
  <2> HIDE DEF s, next
  <2> QED BY <2>2, FragmentHas
<1>4. ASSUME ~lostOne PROVE composition' = sentSet
  <2>1. CASE s.type = "comp"
    BY <1>1, <1>2, <2>1 DEF DecodePgs
  <2>2. CASE s.type # "comp"
    <3>1. composition' = composition
      BY <1>1, <1>2, <2>2 DEF DecodePgs, DecodeFragment
    <3>2. composition = sentSet
      BY <1>4, <2>2 DEF PgsInv, Prepared
    <3> QED BY <3>1, <3>2
  <2> QED BY <2>1, <2>2
<1>5. CASE s.type = "object"
  <2> DEFINE o == s.obj
             n == s.of
             i == s.part
             ready == i = 1 \/ (rleBuf = Copied(o, i - 1, n) /\ rleSize = n /\ imageSet)
  <2>1. i \in 1 .. n /\ s = Fragment(o, i, n)
    <3>1. 1 \in 1 .. Len(unsent)
      BY DEF PgsInv, InOrder
    <3>2. i \in 1 .. n
      BY <1>5, <3>1 DEF PgsInv, InOrder
    <3>3. s \notin {[type |-> "comp", objs |-> sentSet], [type |-> "palette"], [type |-> "end"]}
      BY <1>5
    <3>4. PICK p \in Range(sentSet), m \in 1 .. MaxFragments, j \in 1 .. MaxFragments :
             s = Fragment(p, j, m)
      BY <1>1, <3>3 DEF Segments
    <3>5. p = o /\ j = i /\ m = n
      BY <3>4, FragmentHas
    <3> QED BY <3>2, <3>4, <3>5
  <2>2. o \in PgsObjects /\ n \in 1 .. MaxFragments /\ o \in Range(sentSet) /\ PgsTypes
    BY <1>2, <1>5 DEF PgsInv
  <2>3. DecodeFragment(s)
    BY <1>1, <1>5 DEF DecodePgs
  <2> HIDE DEF s, o, n, i
  <2>4. /\ rleBuf' \in RleBuffers /\ rleSize' \in Nat
        /\ pictures' \in Seq([data : RleBuffers, named : BOOLEAN])
        /\ ready =>
              /\ drawing' = drawing /\ rleSize' = n /\ imageSet'
              /\ i < n => rleBuf' = Copied(o, i, n)
              /\ \A k \in DOMAIN pictures' :
                    \/ k \in DOMAIN pictures /\ pictures'[k] = pictures[k]
                    \/ /\ pictures'[k].data = Copied(o, n, n)
                       /\ pictures'[k].named = (o \in Range(composition))
    BY <2>1, <2>2, <2>3, FragmentDecoded
  <2>5. ~lostOne => ready
    <3> SUFFICES ASSUME ~lostOne, i # 1 PROVE ready
      OBVIOUS
    <3>1. i > 1
      BY <2>1, <2>2, PgsAssumption
    <3> QED BY <1>5, <3>1 DEF PgsInv, Prepared, s, o, n, i
  <2>6. PgsTypes'
    BY <2>2, <2>4 DEF PgsTypes
  <2>7. ASSUME ~lostOne, goes
        PROVE  rleBuf' = Copied(next.obj, next.part - 1, next.of) /\ rleSize' = next.of /\ imageSet'
    <3>1. o = next.obj /\ i = next.part - 1 /\ n = next.of
      BY <1>3, <2>7 DEF o, n, i
    <3>2. next.part \in 1 .. next.of
      <4>1. 1 \in 1 .. Len(unsent')
        BY <1>1, <2>7 DEF InOrder
      <4> QED BY <1>1, <2>7, <4>1 DEF InOrder
    <3>3. i < n
      BY <2>1, <2>2, <3>1, <3>2, PgsAssumption
    <3> HIDE DEF next
    <3> QED BY <2>4, <2>5, <2>7, <3>1, <3>3
  <2>8. Prepared'
    BY <1>4, <2>7 DEF Prepared
  <2>9. ASSUME ~lostOne
        PROVE  /\ drawing' = "ok"
               /\ \A k \in DOMAIN pictures' :
                     /\ pictures'[k].named
                     /\ \E p \in Range(sentSet) : \E m \in 1 .. MaxFragments :
                           pictures'[k].data = [j \in 1 .. m |-> <<p, j, m>>]
    <3>1. /\ drawing = "ok"
          /\ \A k \in DOMAIN pictures :
                /\ pictures[k].named
                /\ \E p \in Range(sentSet) : \E m \in 1 .. MaxFragments :
                      pictures[k].data = [j \in 1 .. m |-> <<p, j, m>>]
      BY <2>9 DEF PgsInv, LossStaysInSet
    <3>2. composition = sentSet
      BY <1>5, <2>9 DEF PgsInv, Prepared, s
    <3>3. drawing' = "ok"
      BY <2>4, <2>5, <2>9, <3>1
    <3>4. ASSUME NEW k \in DOMAIN pictures'
          PROVE  /\ pictures'[k].named
                 /\ \E p \in Range(sentSet) : \E m \in 1 .. MaxFragments :
                       pictures'[k].data = [j \in 1 .. m |-> <<p, j, m>>]
      <4>1. \/ k \in DOMAIN pictures /\ pictures'[k] = pictures[k]
            \/ /\ pictures'[k].data = Copied(o, n, n)
               /\ pictures'[k].named = (o \in Range(composition))
        BY <2>4, <2>5, <2>9, <3>4
      <4>2. CASE k \in DOMAIN pictures /\ pictures'[k] = pictures[k]
        BY <3>1, <4>2, ZenonT(60)
      <4>3. CASE /\ pictures'[k].data = Copied(o, n, n)
                 /\ pictures'[k].named = (o \in Range(composition))
        <5>1. pictures'[k].named
          BY <2>2, <3>2, <4>3
        <5>2. pictures'[k].data = [j \in 1 .. n |-> <<o, j, n>>]
          BY <4>3 DEF Copied
        <5> QED BY <2>2, <5>1, <5>2
      <4> QED BY <4>1, <4>2, <4>3
    <3> QED BY <3>3, <3>4
  <2>10. LossStaysInSet'
    BY <2>9 DEF LossStaysInSet
  <2> QED BY <1>1, <2>6, <2>8, <2>10 DEF PgsInv
<1>6. CASE s.type # "object"
  <2>1. UNCHANGED <<rleBuf, rleSize, imageSet, pictures, drawing>>
    BY <1>1, <1>2, <1>6 DEF DecodePgs
  <2>2. PgsTypes' /\ LossStaysInSet'
    <3>1. PgsTypes'
      BY <2>1 DEF PgsInv, PgsTypes
    <3>2. LossStaysInSet'
      BY <2>1 DEF PgsInv, LossStaysInSet
    <3> QED BY <3>1, <3>2
  <2>3. Prepared'
    BY <1>3, <1>4, <1>6 DEF Prepared
  <2> QED BY <1>1, <2>2, <2>3 DEF PgsInv
<1> QED BY <1>5, <1>6

LEMMA PgsInvNext == PgsInv /\ [PgsNext]_pgsVars => PgsInv'
<1> SUFFICES ASSUME PgsInv, [PgsNext]_pgsVars PROVE PgsInv'
  OBVIOUS
<1>1. ASSUME NEW objs \in {q \in BoundedSeq(PgsObjects, 2) : q # <<>> /\ IsInjective(q)},
             NEW n \in 1 .. MaxFragments, SendDisplaySet(objs, n)
      PROVE  PgsInv'
  <2>1. objs \in Seq(PgsObjects) /\ Len(objs) \in 1 .. 2
    <3>1. PICK m \in 0 .. 2 : objs \in [1 .. m -> PgsObjects]
      BY DEF BoundedSeq, SeqOf
    <3> QED BY <3>1
  <2>2. /\ InOrder(unsent', sentSet') /\ unsent' # <<>> /\ unsent'[1].type = "comp"
    BY <1>1, <2>1, DisplaySetInOrder DEF SendDisplaySet
  <2>3. /\ pictures' = <<>> /\ sentSet' = objs /\ lostOne' = FALSE /\ drawing = "ok"
        /\ UNCHANGED <<demux, rleBuf, rleSize, drawing>>
    BY <1>1 DEF SendDisplaySet
  <2>4. PgsTypes'
    <3> DEFINE P == [data : RleBuffers, named : BOOLEAN]
    <3>1. <<>> \in Seq(P)
      <4> HIDE DEF P
      <4> QED OBVIOUS
    <3>2. sentSet' \in Seq(PgsObjects) /\ pictures' \in Seq(P)
      BY <2>1, <2>3, <3>1
    <3> QED BY <2>3, <3>2 DEF PgsInv, PgsTypes
  <2>5. Prepared' /\ LossStaysInSet'
    BY <2>2, <2>3 DEF Prepared, LossStaysInSet
  <2> QED BY <2>2, <2>4, <2>5 DEF PgsInv
<1>2. ASSUME NEW codes \in RleCodes, CheckDrawing(codes) PROVE PgsInv'
  <2>1. UNCHANGED <<demux, unsent, sentSet, lostOne, composition, rleBuf, rleSize, imageSet,
                    pictures, drawing>>
    BY <1>2 DEF CheckDrawing
  <2> QED BY <2>1 DEF PgsInv, PgsTypes, Prepared, LossStaysInSet
<1>3. CASE Lose
  <2>1. /\ unsent # <<>> /\ unsent' = Tail(unsent) /\ lostOne' = TRUE
        /\ UNCHANGED <<demux, sentSet, rleBuf, rleSize, pictures>>
    BY <1>3 DEF Lose
  <2>2. InOrder(unsent', sentSet')
    BY <2>1, RestInOrder DEF PgsInv
  <2> QED BY <2>1, <2>2 DEF PgsInv, PgsTypes, Prepared, LossStaysInSet
<1>4. CASE PgsHwDemuxParse
  BY <1>4, PgsSegmentDecoded DEF PgsHwDemuxParse
<1>5. CASE PgsSoftDemuxParse
  BY <1>5, PgsSegmentDecoded DEF PgsSoftDemuxParse
<1>6. CASE UNCHANGED pgsVars
  BY <1>6 DEF pgsVars, PgsInv, PgsTypes, Prepared, LossStaysInSet
<1> QED BY <1>1, <1>2, <1>3, <1>4, <1>5, <1>6 DEF PgsNext

(* A display set of which no segment was lost is shown from its own fragments,  *)
(* all of them and in order, however many it has and whatever was lost before   *)
(* it (readBitmap, decodePgs).                                                 *)
THEOREM PgsLossStaysInSet == PgsSpec => []LossStaysInSet
<1>1. PgsInv => LossStaysInSet
  BY DEF PgsInv
<1> QED BY <1>1, PgsInvInit, PgsInvNext, PTL DEF PgsSpec


-----------------------------------------------------------------------------
\* The drawing and the lines of the encoder after the same codes
DrawStates(n) == [x : Nat, y : Nat, row : [0 .. n -> Nat]]
LineStates == [lines : Seq(Nat), line : Nat]

NoRows(codes) == [x |-> 0, y |-> 0, row |-> [y \in 0 .. Len(codes) |-> 0]]
NoLines == [lines |-> <<>>, line |-> 0]

Drawn(codes) ==
    CHOOSE after : after = [i \in 0..Len(codes) |->
        IF i = 0 THEN [x |-> 0, y |-> 0, row |-> [y \in 0..Len(codes) |-> 0]]
        ELSE DrawCode(after[i - 1], codes[i])]
Meant(codes) ==
    CHOOSE after : after = [i \in 0..Len(codes) |->
        IF i = 0 THEN [lines |-> <<>>, line |-> 0] ELSE AddToLine(after[i - 1], codes[i])]

EndOfLine == [kind |-> "eol", n |-> 0]

\* A code of each kind
LEMMA CodeKinds ==
    ASSUME NEW c \in PgsCodes
    PROVE  /\ c.kind \in {"eol", "run"} /\ c.n \in Nat
           /\ c.kind = "run" => c.n >= 1
BY DEF PgsCodes

LEMMA DrawStep ==
    ASSUME NEW n \in Nat, NEW st \in DrawStates(n), NEW c \in PgsCodes
    PROVE  LET to == DrawCode(st, c)
               full == st.x >= PgsWidth
               y == IF full THEN st.y + 1 ELSE st.y
               x == IF full THEN 0 ELSE st.x
           IN  /\ to \in DrawStates(n) /\ to.y = y
               /\ c.kind = "eol" => to.x = (IF x > 0 THEN PgsWidth ELSE 0) /\ to.row = st.row
               /\ c.kind = "run" =>
                     /\ to.x = x + c.n
                     /\ to.row = [st.row EXCEPT ![y] = IF x + c.n > PgsWidth THEN PgsWidth ELSE x + c.n]
<1> DEFINE to == DrawCode(st, c)
           full == st.x >= PgsWidth
           y == IF full THEN st.y + 1 ELSE st.y
           x == IF full THEN 0 ELSE st.x
           w == IF x > 0 THEN PgsWidth ELSE 0
           v == IF x + c.n > PgsWidth THEN PgsWidth ELSE x + c.n
           row == [st.row EXCEPT ![y] = v]
<1>1. /\ c.kind \in {"eol", "run"} /\ c.n \in Nat /\ PgsWidth \in Nat
      /\ st.x \in Nat /\ st.y \in Nat /\ st.row \in [0 .. n -> Nat]
  BY CodeKinds, PgsAssumption DEF DrawStates
<1>2. x \in Nat /\ y \in Nat
  BY <1>1
<1>3. CASE c.kind = "eol"
  <2>1. to = [st EXCEPT !.y = y, !.x = w]
    BY <1>3 DEF DrawCode
  <2>2. w \in Nat
    BY <1>1
  <2> HIDE DEF to, x, y, w
  <2>3. to \in DrawStates(n) /\ to.y = y /\ to.x = w /\ to.row = st.row
    BY <1>2, <2>1, <2>2 DEF DrawStates
  <2> QED BY <1>3, <2>3 DEF to, w, x, y
<1>4. CASE c.kind = "run"
  <2>1. to = [st EXCEPT !.y = y, !.x = x + c.n, !.row = row]
    BY <1>4 DEF DrawCode
  <2>2. x + c.n \in Nat /\ v \in Nat
    BY <1>1, <1>2
  <2> HIDE DEF to, x, y, v
  <2>3. row \in [0 .. n -> Nat]
    BY <1>1, <2>2
  <2> HIDE DEF row
  <2>4. to \in DrawStates(n) /\ to.y = y /\ to.x = x + c.n /\ to.row = row
    BY <1>2, <2>1, <2>2, <2>3 DEF DrawStates
  <2> QED BY <1>4, <2>4 DEF to, row, v, x, y
<1> QED BY <1>1, <1>3, <1>4

LEMMA LineStep ==
    ASSUME NEW b \in LineStates, NEW c \in PgsCodes
    PROVE  LET to == AddToLine(b, c)
           IN  /\ to \in LineStates
               /\ c.kind = "run" => to.lines = b.lines /\ to.line = b.line + c.n
               /\ c.kind = "eol" /\ b.line = 0 => to = b
               /\ c.kind = "eol" /\ b.line > 0 => to.lines = Append(b.lines, b.line) /\ to.line = 0
<1>1. c.kind \in {"eol", "run"} /\ c.n \in Nat /\ b.lines \in Seq(Nat) /\ b.line \in Nat
  BY CodeKinds DEF LineStates
<1>2. CASE c.kind = "run"
  <2>1. AddToLine(b, c) = [b EXCEPT !.line = b.line + c.n] /\ b.line + c.n \in Nat
    BY <1>1, <1>2 DEF AddToLine
  <2> QED BY <1>2, <2>1 DEF LineStates
<1>3. CASE c.kind = "eol" /\ b.line = 0
  BY <1>3 DEF AddToLine
<1>4. CASE c.kind = "eol" /\ b.line > 0
  <2>1. AddToLine(b, c) = [lines |-> Append(b.lines, b.line), line |-> 0]
    BY <1>1, <1>4 DEF AddToLine
  <2>2. Append(b.lines, b.line) \in Seq(Nat)
    BY <1>1
  <2> QED BY <1>4, <2>1, <2>2 DEF LineStates
<1> QED BY <1>1, <1>2, <1>3, <1>4

\* The lines so far fit, and the drawing agrees with them: the open line is the row
\* that is being drawn; between lines the next row has not been started, or the
\* last one has been filled up and not left
InLine(b) == b.line <= PgsWidth /\ \A k \in 1 .. Len(b.lines) : b.lines[k] <= PgsWidth
Agree(a, b, i) ==
    /\ Len(b.lines) + (IF b.line > 0 THEN 1 ELSE 0) <= i
    /\ \A k \in 1 .. Len(b.lines) : a.row[k - 1] = b.lines[k]
    /\ b.line > 0 => /\ a.y = Len(b.lines) /\ a.x = b.line
                     /\ a.row[Len(b.lines)] = b.line
    /\ b.line = 0 => \/ a.x = 0 /\ a.y = Len(b.lines)
                     \/ a.x >= PgsWidth /\ a.y = Len(b.lines) - 1

LEMMA FitBefore ==
    ASSUME NEW b \in LineStates, NEW c \in PgsCodes, InLine(AddToLine(b, c))
    PROVE  InLine(b)
<1> DEFINE to == AddToLine(b, c)
<1>1. c.kind \in {"eol", "run"} /\ c.n \in Nat /\ b.lines \in Seq(Nat) /\ b.line \in Nat /\ PgsWidth \in Nat
  BY CodeKinds, PgsAssumption DEF LineStates
<1>2. /\ c.kind = "run" => to.lines = b.lines /\ to.line = b.line + c.n
      /\ c.kind = "eol" /\ b.line = 0 => to = b
      /\ c.kind = "eol" /\ b.line > 0 => to.lines = Append(b.lines, b.line) /\ to.line = 0
  BY LineStep
<1> HIDE DEF to
<1>3. InLine(to)
  BY DEF to
<1>4. CASE c.kind = "run"
  BY <1>1, <1>2, <1>3, <1>4 DEF InLine
<1>5. CASE c.kind = "eol" /\ b.line = 0
  BY <1>2, <1>3, <1>5
<1>6. CASE c.kind = "eol" /\ b.line > 0
  <2>1. Len(to.lines) = Len(b.lines) + 1 /\ to.lines[Len(b.lines) + 1] = b.line
        /\ \A k \in 1 .. Len(b.lines) : to.lines[k] = b.lines[k]
    BY <1>1, <1>2, <1>6
  <2>2. b.line <= PgsWidth
    <3>1. Len(b.lines) + 1 \in 1 .. Len(to.lines)
      BY <1>1, <2>1
    <3> QED BY <1>3, <2>1, <3>1 DEF InLine
  <2>3. ASSUME NEW k \in 1 .. Len(b.lines) PROVE b.lines[k] <= PgsWidth
    <3>1. k \in 1 .. Len(to.lines) /\ to.lines[k] = b.lines[k]
      BY <1>1, <2>1
    <3> QED BY <1>3, <3>1 DEF InLine
  <2> QED BY <2>2, <2>3 DEF InLine
<1> QED BY <1>1, <1>4, <1>5, <1>6

LEMMA AgreeStep ==
    ASSUME NEW N \in Nat, NEW i \in 1 .. N, NEW a \in DrawStates(N), NEW b \in LineStates,
           NEW c \in PgsCodes, InLine(AddToLine(b, c)), Agree(a, b, i - 1)
    PROVE  Agree(DrawCode(a, c), AddToLine(b, c), i)
<1> DEFINE p == DrawCode(a, c)
           q == AddToLine(b, c)
           n == Len(b.lines)
           full == a.x >= PgsWidth
           y == IF full THEN a.y + 1 ELSE a.y
           x == IF full THEN 0 ELSE a.x
<1>1. /\ c.kind \in {"eol", "run"} /\ c.n \in Nat /\ (c.kind = "run" => c.n >= 1)
      /\ b.lines \in Seq(Nat) /\ b.line \in Nat /\ n \in Nat
      /\ PgsWidth \in Nat /\ PgsWidth >= 1
      /\ a.x \in Nat /\ a.y \in Nat /\ a.row \in [0 .. N -> Nat]
  BY CodeKinds, PgsAssumption DEF LineStates, DrawStates
<1>2. InLine(q) /\ InLine(b)
  BY FitBefore
<1>3. /\ n + (IF b.line > 0 THEN 1 ELSE 0) <= i - 1
      /\ \A k \in 1 .. n : a.row[k - 1] = b.lines[k]
      /\ b.line > 0 => a.y = n /\ a.x = b.line /\ a.row[n] = b.line
      /\ b.line = 0 => (a.x = 0 /\ a.y = n) \/ (a.x >= PgsWidth /\ a.y = n - 1)
  BY DEF Agree
<1>4. /\ p.y = y
      /\ c.kind = "eol" => p.x = (IF x > 0 THEN PgsWidth ELSE 0) /\ p.row = a.row
      /\ c.kind = "run" =>
            /\ p.x = x + c.n
            /\ p.row = [a.row EXCEPT ![y] = IF x + c.n > PgsWidth THEN PgsWidth ELSE x + c.n]
  BY DrawStep
<1>5. /\ q \in LineStates
      /\ c.kind = "run" => q.lines = b.lines /\ q.line = b.line + c.n
      /\ c.kind = "eol" /\ b.line = 0 => q = b
      /\ c.kind = "eol" /\ b.line > 0 => q.lines = Append(b.lines, b.line) /\ q.line = 0
  BY LineStep
<1> HIDE DEF p, q, n
<1>6. CASE c.kind = "run"
  <2>1. q.line = b.line + c.n /\ q.line <= PgsWidth /\ q.line > 0 /\ q.lines = b.lines
    BY <1>1, <1>2, <1>5, <1>6 DEF InLine
  <2>2. y = n /\ x = b.line
    BY <1>1, <1>3, <1>6, <2>1, SMTT(30)
  <2>3. n \in 0 .. N /\ n + 1 <= i
    BY <1>1, <1>3
  <2> HIDE DEF x, y
  <2>4. p.y = n /\ p.x = q.line /\ p.row = [a.row EXCEPT ![n] = q.line]
    <3> DEFINE v == IF x + c.n > PgsWidth THEN PgsWidth ELSE x + c.n
    <3>1. v = q.line /\ x + c.n = q.line
      BY <1>1, <2>1, <2>2
    <3>2. p.y = y /\ p.x = x + c.n /\ p.row = [a.row EXCEPT ![y] = v]
      BY <1>4, <1>6
    <3> HIDE DEF v
    <3> QED BY <2>2, <3>1, <3>2
  <2>5. p.row[n] = q.line /\ \A k \in 1 .. n : p.row[k - 1] = b.lines[k]
    <3>1. p.row[n] = q.line
      BY <1>1, <2>3, <2>4
    <3>2. \A k \in 0 .. N : k # n => p.row[k] = a.row[k]
      BY <1>1, <2>4
    <3>3. \A k \in 1 .. n : k - 1 \in 0 .. N /\ k - 1 # n
      BY <1>1, <2>3
    <3> QED BY <1>3, <3>1, <3>2, <3>3
  <2>6. Len(q.lines) = n
    BY <2>1 DEF n
  <2>7. Agree(p, q, i)
    BY <1>1, <2>1, <2>3, <2>4, <2>5, <2>6 DEF Agree
  <2> QED BY <2>7 DEF p, q
<1>7. CASE c.kind = "eol" /\ b.line = 0
  <2>1. p.y = n /\ p.x = 0 /\ p.row = a.row
    BY <1>1, <1>3, <1>4, <1>7
  <2>2. q = b /\ Len(b.lines) = n
    BY <1>5, <1>7 DEF n
  <2>3. Agree(p, b, i)
    <3> HIDE DEF x, y
    <3> QED BY <1>1, <1>3, <1>7, <2>1, <2>2 DEF Agree
  <2> QED BY <2>2, <2>3 DEF p, q
<1>8. CASE c.kind = "eol" /\ b.line > 0
  <2>1. q.line = 0 /\ q.lines = Append(b.lines, b.line)
    BY <1>5, <1>8
  <2>2. Len(q.lines) = n + 1 /\ q.lines[n + 1] = b.line /\ \A k \in 1 .. n : q.lines[k] = b.lines[k]
    BY <1>1, <2>1 DEF n
  <2>3. p.row = a.row /\ ((p.x = 0 /\ p.y = n + 1) \/ (p.x >= PgsWidth /\ p.y = n))
    <3>1. a.y = n /\ a.x = b.line /\ a.x > 0
      BY <1>3, <1>8
    <3>2. p.y = y /\ p.x = (IF x > 0 THEN PgsWidth ELSE 0) /\ p.row = a.row
      BY <1>4, <1>8
    <3>3. CASE full
      BY <1>1, <3>1, <3>2, <3>3
    <3>4. CASE ~full
      BY <1>1, <3>1, <3>2, <3>4
    <3> QED BY <3>3, <3>4
  <2>4. \A k \in 1 .. n + 1 : p.row[k - 1] = q.lines[k]
    <3> SUFFICES ASSUME NEW k \in 1 .. n + 1 PROVE p.row[k - 1] = q.lines[k]
      OBVIOUS
    <3>1. CASE k = n + 1
      <4>1. k - 1 = n
        BY <1>1, <3>1
      <4> QED BY <1>3, <1>8, <2>2, <2>3, <3>1, <4>1
    <3>2. CASE k # n + 1
      <4>1. k \in 1 .. n
        BY <1>1, <3>2
      <4> QED BY <1>3, <2>2, <2>3, <4>1
    <3> QED BY <3>1, <3>2
  <2> HIDE DEF x, y
  <2>5. Agree(p, q, i)
    <3>1. n + 1 <= i
      BY <1>1, <1>3, <1>8
    <3>2. Len(q.lines) - 1 = n /\ 1 .. Len(q.lines) = 1 .. n + 1
      BY <1>1, <2>2
    <3>3. Len(q.lines) + (IF q.line > 0 THEN 1 ELSE 0) <= i
      BY <1>1, <2>1, <2>2, <3>1
    <3>4. \A k \in 1 .. Len(q.lines) : p.row[k - 1] = q.lines[k]
      BY <2>4, <3>2
    <3>5. (p.x = 0 /\ p.y = Len(q.lines)) \/ (p.x >= PgsWidth /\ p.y = Len(q.lines) - 1)
      BY <2>2, <2>3, <3>2
    <3>6. ~(q.line > 0)
      BY <2>1
    <3> QED BY <3>3, <3>4, <3>5, <3>6 DEF Agree
  <2> QED BY <2>5 DEF p, q
<1> QED BY <1>1, <1>6, <1>7, <1>8

\* Both recursions
LEMMA DrawnSteps ==
    ASSUME NEW codes \in Seq(PgsCodes)
    PROVE  LET v == Drawn(codes)
           IN  /\ AfRlebitmapRender(codes) = v[Len(codes)].row
               /\ v[0] = NoRows(codes)
               /\ \A i \in 1 .. Len(codes) : v[i] = DrawCode(v[i - 1], codes[i])
               /\ \A i \in 0 .. Len(codes) : v[i] \in DrawStates(Len(codes))
<1> DEFINE N == Len(codes)
           Q == DrawStates(N)
           start == NoRows(codes)
           f(w) == [i \in 0 .. N |-> IF i = 0 THEN start ELSE DrawCode(w[i - 1], codes[i])]
           v == Drawn(codes)
           F == [p \in (1 .. N) \X Q |-> DrawCode(p[2], codes[p[1]])]
<1>1. N \in Nat /\ start \in Q
  BY DEF DrawStates, NoRows
<1>2. AfRlebitmapRender(codes) = v[N].row
  BY DEF AfRlebitmapRender, Drawn
<1>3. v = CHOOSE w : w = f(w)
  BY DEF Drawn, NoRows
<1>4. \A i \in 1 .. N, st \in Q : DrawCode(st, codes[i]) \in Q
  <2> SUFFICES ASSUME NEW i \in 1 .. N, NEW st \in Q PROVE DrawCode(st, codes[i]) \in Q
    OBVIOUS
  <2>1. codes[i] \in PgsCodes
    OBVIOUS
  <2> QED BY <1>1, <2>1, DrawStep
<1> HIDE DEF N, Q, v, start
<1>6. F \in [(1 .. N) \X Q -> Q]
      /\ \A i \in 1 .. N, st \in Q : F[<<i, st>>] = DrawCode(st, codes[i])
  BY <1>4
<1> HIDE DEF F
<1>7. PICK w \in [0 .. N -> Q] : GoesBy(w, N, start, F)
  BY <1>1, <1>6, RecursionEquation
<1>8. w = f(w)
  <2>1. \A i \in 0 .. N : i = 0 \/ F[<<i, w[i - 1]>>] = DrawCode(w[i - 1], codes[i])
    BY <1>1, <1>6
  <2> QED BY <1>7, <2>1 DEF GoesBy
<1>9. v = f(v)
  BY <1>3, <1>8
<1>10. v[0] = start /\ \A i \in 1 .. N : v[i] = DrawCode(v[i - 1], codes[i])
  BY <1>1, <1>9
<1>11. v[0] \in Q /\ \A i \in 1 .. N : v[i - 1] \in Q => v[i] \in Q
  BY <1>1, <1>4, <1>10
<1>12. \A i \in 0 .. N : v[i] \in Q
  BY <1>1, <1>11, StaysIn
<1> QED BY <1>2, <1>10, <1>12 DEF N, Q, v, start

LEMMA MeantSteps ==
    ASSUME NEW codes \in Seq(PgsCodes)
    PROVE  LET v == Meant(codes)
           IN  /\ PgsLines(codes) = AddToLine(v[Len(codes)], EndOfLine).lines
               /\ v[0] = NoLines
               /\ \A i \in 1 .. Len(codes) : v[i] = AddToLine(v[i - 1], codes[i])
               /\ \A i \in 0 .. Len(codes) : v[i] \in LineStates
<1> DEFINE N == Len(codes)
           f(w) == [i \in 0 .. N |-> IF i = 0 THEN NoLines ELSE AddToLine(w[i - 1], codes[i])]
           v == Meant(codes)
           F == [p \in (1 .. N) \X LineStates |-> AddToLine(p[2], codes[p[1]])]
<1>1. N \in Nat /\ NoLines \in LineStates
  BY DEF LineStates, NoLines
<1>2. PgsLines(codes) = AddToLine(v[N], EndOfLine).lines
  BY DEF PgsLines, Meant, EndOfLine
<1>3. v = CHOOSE w : w = f(w)
  BY DEF Meant, NoLines
<1>4. \A i \in 1 .. N, st \in LineStates : AddToLine(st, codes[i]) \in LineStates
  <2> SUFFICES ASSUME NEW i \in 1 .. N, NEW st \in LineStates PROVE AddToLine(st, codes[i]) \in LineStates
    OBVIOUS
  <2>1. codes[i] \in PgsCodes
    OBVIOUS
  <2> QED BY <2>1, LineStep
<1> HIDE DEF N, v
<1>6. F \in [(1 .. N) \X LineStates -> LineStates]
      /\ \A i \in 1 .. N, st \in LineStates : F[<<i, st>>] = AddToLine(st, codes[i])
  BY <1>4
<1> HIDE DEF F
<1>7. PICK w \in [0 .. N -> LineStates] : GoesBy(w, N, NoLines, F)
  BY <1>1, <1>6, RecursionEquation
<1>8. w = f(w)
  <2>1. \A i \in 0 .. N : i = 0 \/ F[<<i, w[i - 1]>>] = AddToLine(w[i - 1], codes[i])
    BY <1>1, <1>6
  <2> QED BY <1>7, <2>1 DEF GoesBy
<1>9. v = f(v)
  BY <1>3, <1>8
<1>10. v[0] = NoLines /\ \A i \in 1 .. N : v[i] = AddToLine(v[i - 1], codes[i])
  BY <1>1, <1>9
<1>11. v[0] \in LineStates /\ \A i \in 1 .. N : v[i - 1] \in LineStates => v[i] \in LineStates
  BY <1>1, <1>4, <1>10
<1>12. \A i \in 0 .. N : v[i] \in LineStates
  BY <1>1, <1>11, StaysIn
<1> QED BY <1>2, <1>10, <1>12 DEF N, v

LEMMA RowsMeant ==
    ASSUME NEW codes \in Seq(PgsCodes), \A k \in DOMAIN PgsLines(codes) : PgsLines(codes)[k] <= PgsWidth
    PROVE  \A k \in DOMAIN PgsLines(codes) : AfRlebitmapRender(codes)[k - 1] = PgsLines(codes)[k]
<1> DEFINE N == Len(codes)
           v == Drawn(codes)
           u == Meant(codes)
           all == PgsLines(codes)
           S == {i \in 0 .. N : InLine(u[i]) => Agree(v[i], u[i], i)}
<1>1. N \in Nat /\ N \in 0 .. N /\ PgsWidth \in Nat
  BY PgsAssumption
<1>2. /\ AfRlebitmapRender(codes) = v[N].row
      /\ v[0] = NoRows(codes)
      /\ \A i \in 1 .. N : v[i] = DrawCode(v[i - 1], codes[i])
      /\ \A i \in 0 .. N : v[i] \in DrawStates(N)
  BY DrawnSteps
<1>3. /\ all = AddToLine(u[N], EndOfLine).lines
      /\ u[0] = NoLines
      /\ \A i \in 1 .. N : u[i] = AddToLine(u[i - 1], codes[i])
      /\ \A i \in 0 .. N : u[i] \in LineStates
  BY MeantSteps
<1>4. \A i \in 1 .. N : codes[i] \in PgsCodes
  OBVIOUS
<1> HIDE DEF N, u, v, all
<1>5. 0 \in S /\ \A i \in 1 .. N : i - 1 \in S => i \in S
  <2>1. 0 \in S
    <3>1. u[0].line = 0 /\ u[0].lines = <<>> /\ v[0].x = 0 /\ v[0].y = 0
      BY <1>2, <1>3 DEF NoLines, NoRows
    <3>2. Agree(v[0], u[0], 0)
      BY <3>1 DEF Agree
    <3> QED BY <1>1, <3>2
  <2>2. ASSUME NEW i \in 1 .. N, i - 1 \in S PROVE i \in S
    <3>1. i \in 0 .. N /\ i - 1 \in 0 .. N
      BY <1>1
    <3>2. ASSUME InLine(u[i]) PROVE Agree(v[i], u[i], i)
      <4>1. v[i - 1] \in DrawStates(N) /\ u[i - 1] \in LineStates /\ codes[i] \in PgsCodes
        BY <1>2, <1>3, <1>4, <3>1
      <4>2. InLine(AddToLine(u[i - 1], codes[i]))
        BY <1>3, <3>2
      <4>3. InLine(u[i - 1])
        BY <4>1, <4>2, FitBefore
      <4>4. Agree(v[i - 1], u[i - 1], i - 1)
        BY <2>2, <4>3
      <4>5. Agree(DrawCode(v[i - 1], codes[i]), AddToLine(u[i - 1], codes[i]), i)
        BY <1>1, <4>1, <4>2, <4>4, AgreeStep
      <4> QED BY <1>2, <1>3, <4>5
    <3> QED BY <3>1, <3>2
  <2> QED BY <2>1, <2>2
<1> HIDE DEF S
<1>6. \A i \in 0 .. N : i \in S
  BY <1>1, <1>5, UpTo
<1>7. InLine(u[N]) => Agree(v[N], u[N], N)
  BY <1>1, <1>6 DEF S
<1> DEFINE b == u[N]
           a == v[N]
<1>8. b \in LineStates /\ EndOfLine \in PgsCodes /\ EndOfLine.kind = "eol"
  BY <1>1, <1>3 DEF EndOfLine, PgsCodes
<1>9. /\ b.line = 0 => all = b.lines
      /\ b.line > 0 => all = Append(b.lines, b.line)
      /\ b.lines \in Seq(Nat) /\ b.line \in Nat
  <2> HIDE DEF b
  <2>1. /\ b.line = 0 => AddToLine(b, EndOfLine) = b
        /\ b.line > 0 => AddToLine(b, EndOfLine).lines = Append(b.lines, b.line)
    BY <1>8, LineStep
  <2>2. all = AddToLine(b, EndOfLine).lines
    BY <1>3 DEF b
  <2> QED BY <1>8, <2>1, <2>2 DEF LineStates
<1> HIDE DEF a, b
<1>10. \A k \in DOMAIN all : all[k] <= PgsWidth
  BY DEF all
<1>11. InLine(b)
  <2>1. CASE b.line = 0
    BY <1>1, <1>9, <1>10, <2>1 DEF InLine
  <2>2. CASE b.line > 0
    <3>1. Len(b.lines) + 1 \in DOMAIN all /\ all[Len(b.lines) + 1] = b.line
          /\ \A k \in 1 .. Len(b.lines) : k \in DOMAIN all /\ all[k] = b.lines[k]
      BY <1>9, <2>2
    <3> QED BY <1>1, <1>10, <3>1 DEF InLine
  <2> QED BY <1>9, <2>1, <2>2
<1>12. Agree(a, b, N)
  BY <1>7, <1>11 DEF a, b
<1>13. \A k \in DOMAIN all : a.row[k - 1] = all[k]
  <2>1. CASE b.line = 0
    <3>1. DOMAIN all = 1 .. Len(b.lines) /\ all = b.lines
      BY <1>9, <2>1
    <3>2. \A k \in 1 .. Len(b.lines) : a.row[k - 1] = b.lines[k]
      BY <1>12 DEF Agree
    <3> QED BY <3>1, <3>2
  <2>2. CASE b.line > 0
    <3> SUFFICES ASSUME NEW k \in DOMAIN all PROVE a.row[k - 1] = all[k]
      OBVIOUS
    <3>1. k \in 1 .. Len(b.lines) + 1 /\ Len(b.lines) \in Nat
          /\ all[Len(b.lines) + 1] = b.line
          /\ \A j \in 1 .. Len(b.lines) : all[j] = b.lines[j]
      BY <1>9, <2>2, SMTT(30)
    <3>2. CASE k = Len(b.lines) + 1
      <4>1. k - 1 = Len(b.lines)
        BY <3>1, <3>2
      <4> QED BY <1>12, <2>2, <3>1, <3>2, <4>1 DEF Agree
    <3>3. CASE k # Len(b.lines) + 1
      <4>1. k \in 1 .. Len(b.lines)
        BY <3>1, <3>3
      <4> QED BY <1>12, <3>1, <4>1 DEF Agree
    <3> QED BY <3>2, <3>3
  <2> QED BY <1>9, <2>1, <2>2
<1> QED BY <1>2, <1>13 DEF a, all

\* The drawing checked is one of data that is there to be drawn
PgsRows == rows = <<>> \/ \E codes \in RleCodes : rows = <<codes, AfRlebitmapRender(codes)>>

(* Any run lengths that keep to the width are drawn row by row as they were      *)
(* meant: a line end after a full line starts no second row                      *)
(* (afRlebitmapRender).                                                          *)
THEOREM PgsRowsAsEncoded == PgsSpec => []RowsAsEncoded
<1>1. PgsInit => PgsRows
  BY DEF PgsInit, PgsRows
<1>2. PgsRows /\ [PgsNext]_pgsVars => PgsRows'
  <2> SUFFICES ASSUME PgsRows, [PgsNext]_pgsVars PROVE PgsRows'
    OBVIOUS
  <2>1. UNCHANGED rows => PgsRows'
    BY DEF PgsRows
  <2>2. ASSUME NEW codes \in RleCodes, CheckDrawing(codes) PROVE PgsRows'
    BY <2>2 DEF CheckDrawing, PgsRows
  <2>3. ASSUME NEW objs, NEW n, SendDisplaySet(objs, n) PROVE PgsRows'
    BY <2>1, <2>3 DEF SendDisplaySet
  <2>4. CASE Lose \/ PgsHwDemuxParse \/ PgsSoftDemuxParse \/ UNCHANGED pgsVars
    BY <2>1, <2>4 DEF Lose, PgsHwDemuxParse, PgsSoftDemuxParse, pgsVars
  <2> QED BY <2>2, <2>3, <2>4 DEF PgsNext
<1>3. PgsRows => RowsAsEncoded
  <2> SUFFICES ASSUME PgsRows, rows # <<>>,
                      \A k \in DOMAIN PgsLines(rows[1]) : PgsLines(rows[1])[k] <= PgsWidth
               PROVE  \A k \in DOMAIN PgsLines(rows[1]) : rows[2][k - 1] = PgsLines(rows[1])[k]
    BY DEF RowsAsEncoded
  <2>1. PICK codes \in RleCodes : rows = <<codes, AfRlebitmapRender(codes)>>
    BY DEF PgsRows
  <2>2. rows[1] = codes /\ rows[2] = AfRlebitmapRender(codes) /\ codes \in Seq(PgsCodes)
    BY <2>1, PgsAssumption
  <2> QED BY <2>2, RowsMeant
<1> QED BY <1>1, <1>2, <1>3, PTL DEF PgsSpec

-----------------------------------------------------------------------------
(* The captions in the user data of the video                                  *)

Captions == [fmt : {"scte", "mpeg", "h264"}, type : {"I", "P", "B"}, poc : Nat, pts : Nat,
             time : Nat, cc : BOOLEAN, n : Nat]

NumbersOf(s) == {s[i].n : i \in DOMAIN s}

\* No caption stands in a sequence twice
Once(s) == \A i, j \in DOMAIN s : s[i].n = s[j].n => i = j

\* The driver at work: what it writes and what waits are the captions S
Drivers == [list : Seq(Captions), cc_num : Int, curr_poc : Int, scte_enable : BOOLEAN,
            flush : BOOLEAN]
Works == [list : Seq(Captions), cc_num : Int, curr_poc : Int, scte_enable : BOOLEAN,
          flush : BOOLEAN, out : Seq(Captions)]

WorksOn(w, S) ==
    /\ w \in Works /\ Once(w.out \o w.list) /\ NumbersOf(w.out \o w.list) = S

\* A list that is taken for full is not empty; the count is that of the list
FullHasFirst(d) == d.cc_num >= MAX_CC_NUM => d.list # <<>>
Counted(d) == d.cc_num = Len(d.list)

LEMMA NumbersTogether ==
    ASSUME NEW a \in Seq(Captions), NEW b \in Seq(Captions)
    PROVE  /\ a \o b \in Seq(Captions) /\ Len(a \o b) = Len(a) + Len(b)
           /\ \A i \in 1 .. Len(a) : (a \o b)[i] = a[i]
           /\ \A i \in 1 .. Len(b) : (a \o b)[Len(a) + i] = b[i]
           /\ NumbersOf(a \o b) = NumbersOf(a) \cup NumbersOf(b)
<1>1. /\ a \o b \in Seq(Captions) /\ Len(a \o b) = Len(a) + Len(b)
      /\ \A i \in 1 .. Len(a) : (a \o b)[i] = a[i]
      /\ \A i \in 1 .. Len(b) : (a \o b)[Len(a) + i] = b[i]
  OBVIOUS
<1> DEFINE q == a \o b
<1>2. q \in Seq(Captions) /\ Len(q) = Len(a) + Len(b)
      /\ (\A i \in 1 .. Len(a) : q[i] = a[i]) /\ (\A i \in 1 .. Len(b) : q[Len(a) + i] = b[i])
  BY <1>1
<1> HIDE DEF q
<1>3. NumbersOf(q) \subseteq NumbersOf(a) \cup NumbersOf(b)
  <2> SUFFICES ASSUME NEW i \in 1 .. Len(q) PROVE q[i].n \in NumbersOf(a) \cup NumbersOf(b)
    BY <1>2, SMTT(30) DEF NumbersOf
  <2>1. CASE i <= Len(a)
    BY <1>2, <2>1 DEF NumbersOf
  <2>2. CASE i > Len(a)
    <3>1. i - Len(a) \in 1 .. Len(b) /\ q[Len(a) + (i - Len(a))] = b[i - Len(a)]
      BY <1>2, <2>2
    <3> QED BY <3>1, <1>2 DEF NumbersOf
  <2> QED BY <2>1, <2>2, <1>2
<1>4. NumbersOf(a) \subseteq NumbersOf(q) /\ NumbersOf(b) \subseteq NumbersOf(q)
  <2>1. ASSUME NEW i \in 1 .. Len(a) PROVE a[i].n \in NumbersOf(q)
    BY <1>2 DEF NumbersOf
  <2>2. ASSUME NEW i \in 1 .. Len(b) PROVE b[i].n \in NumbersOf(q)
    <3>1. Len(a) + i \in 1 .. Len(q)
      BY <1>2
    <3> QED BY <1>2, <3>1, SMTT(30) DEF NumbersOf
  <2> QED BY <2>1, <2>2 DEF NumbersOf
<1>5. NumbersOf(q) = NumbersOf(a) \cup NumbersOf(b)
  BY <1>3, <1>4
<1> QED BY <1>1, <1>5 DEF q

\* Sequences put together
LEMMA AppendLast ==
    ASSUME NEW S, NEW s \in Seq(S), NEW u \in Seq(S), NEW c \in S
    PROVE  s \o Append(u, c) = Append(s \o u, c)
<1>1. <<c>> \in Seq(S) /\ s \o u \in Seq(S) /\ Append(u, c) = u \o <<c>>
  BY ConcatProperties, AppendIsConcat
<1>2. Append(s \o u, c) = (s \o u) \o <<c>>
  BY <1>1, AppendIsConcat
<1> QED BY <1>1, <1>2, ConcatAssociative

LEMMA PutBetween ==
    ASSUME NEW S, NEW a \in Seq(S), NEW b \in Seq(S), NEW d \in Seq(S), NEW c \in S
    PROVE  /\ b \o <<c>> \o d \in Seq(S) /\ Len(b \o <<c>> \o d) = Len(b) + Len(d) + 1
           /\ a \o (b \o <<c>> \o d) = Append(a \o b, c) \o d
<1>1. /\ b \o <<c>> = Append(b, c) /\ Append(b, c) \in Seq(S) /\ Len(Append(b, c)) = Len(b) + 1
      /\ Len(b) \in Nat /\ Len(d) \in Nat
  BY AppendIsConcat, AppendProperties, LenProperties
<1>2. Append(b, c) \o d \in Seq(S) /\ Len(Append(b, c) \o d) = Len(b) + 1 + Len(d)
  BY <1>1, ConcatProperties
<1>3. a \o (Append(b, c) \o d) = (a \o Append(b, c)) \o d
  <2> DEFINE e == Append(b, c)
  <2>1. e \in Seq(S)
    BY <1>1
  <2> HIDE DEF e
  <2>2. a \o (e \o d) = (a \o e) \o d
    BY <2>1, ConcatAssociative, SMTT(30)
  <2> QED BY <2>2 DEF e
<1>4. a \o Append(b, c) = Append(a \o b, c)
  BY AppendLast
<1>5. a \o (Append(b, c) \o d) = Append(a \o b, c) \o d
  BY <1>3, <1>4, Zenon
<1>6. Len(b) + 1 + Len(d) = Len(b) + Len(d) + 1
  BY <1>1
<1>7. b \o <<c>> \o d = Append(b, c) \o d
  BY <1>1, Zenon
<1> QED BY <1>2, <1>5, <1>6, <1>7, Zenon

LEMMA FirstMoves ==
    ASSUME NEW S, NEW s \in Seq(S), NEW u \in Seq(S), u # <<>>
    PROVE  /\ Head(u) \in S /\ Tail(u) \in Seq(S) /\ Len(Tail(u)) = Len(u) - 1
           /\ Append(s, Head(u)) \o Tail(u) = s \o u
<1>1. Head(u) \in S /\ Tail(u) \in Seq(S) /\ Len(Tail(u)) = Len(u) - 1
  BY HeadTailProperties
<1>2. u = <<Head(u)>> \o Tail(u)
  OBVIOUS
<1>3. Append(s, Head(u)) = s \o <<Head(u)>> /\ <<Head(u)>> \in Seq(S)
  BY <1>1, AppendIsConcat
<1>4. (s \o <<Head(u)>>) \o Tail(u) = s \o (<<Head(u)>> \o Tail(u))
  BY <1>1, <1>3, ConcatAssociative
<1> QED BY <1>1, <1>2, <1>3, <1>4

LEMMA MinIs ==
    ASSUME NEW S, S \subseteq Nat, S # {}
    PROVE  Min(S) \in S /\ \A j \in S : Min(S) <= j
<1>1. \E m \in S : \A j \in S : m <= j
  BY LeastOfNats
<1> QED BY <1>1 DEF Min

\* A caption that is not there yet may go in anywhere
LEMMA CaptionGoesIn ==
    ASSUME NEW a \in Seq(Captions), NEW b \in Seq(Captions), NEW c \in Captions,
           Once(a \o b), c.n \notin NumbersOf(a \o b)
    PROVE  /\ Append(a, c) \o b \in Seq(Captions)
           /\ Once(Append(a, c) \o b)
           /\ NumbersOf(Append(a, c) \o b) = NumbersOf(a \o b) \cup {c.n}
<1> DEFINE q == a \o b
           r == Append(a, c) \o b
<1>1. /\ q \in Seq(Captions) /\ r \in Seq(Captions) /\ Len(q) = Len(a) + Len(b) /\ Len(r) = Len(q) + 1
      /\ Len(a) \in Nat /\ Len(b) \in Nat /\ DOMAIN q = 1 .. Len(q) /\ DOMAIN r = 1 .. Len(r)
  OBVIOUS
<1>2. r[Len(a) + 1] = c
  OBVIOUS
<1>3. \A i \in 1 .. Len(a) : r[i] = q[i]
  OBVIOUS
<1>4. \A i \in Len(a) + 2 .. Len(r) : r[i] = q[i - 1]
  OBVIOUS
<1>5. Once(q) /\ c.n \notin NumbersOf(q)
  OBVIOUS
<1> HIDE DEF q, r
<1> DEFINE At(i) == IF i <= Len(a) THEN i ELSE i - 1
<1>6. \A i \in 1 .. Len(r) : i = Len(a) + 1 \/ (At(i) \in 1 .. Len(q) /\ r[i] = q[At(i)] /\ r[i].n \in NumbersOf(q))
  <2> TAKE i \in 1 .. Len(r)
  <2>1. i = Len(a) + 1 \/ (At(i) \in 1 .. Len(q) /\ r[i] = q[At(i)])
    <3>1. CASE i <= Len(a)
      BY <1>1, <1>3, <3>1
    <3>2. CASE i > Len(a) + 1
      <4>1. i \in Len(a) + 2 .. Len(r) /\ At(i) = i - 1 /\ i - 1 \in 1 .. Len(q)
        BY <1>1, <3>2
      <4> QED BY <1>4, <4>1
    <3>3. i <= Len(a) \/ i = Len(a) + 1 \/ i > Len(a) + 1
      BY <1>1
    <3> HIDE DEF At
    <3> QED BY <3>1, <3>2, <3>3
  <2> HIDE DEF At
  <2> QED BY <2>1, <1>1 DEF NumbersOf
<1>7. Once(r)
  <2> SUFFICES ASSUME NEW i \in 1 .. Len(r), NEW j \in 1 .. Len(r), r[i].n = r[j].n PROVE i = j
    BY <1>1 DEF Once
  <2>1. CASE i = Len(a) + 1
    BY <1>2, <1>5, <1>6, <2>1
  <2>2. CASE j = Len(a) + 1
    BY <1>2, <1>5, <1>6, <2>2
  <2>3. CASE i # Len(a) + 1 /\ j # Len(a) + 1
    <3>1. At(i) = At(j)
      <4>1. At(i) \in DOMAIN q /\ At(j) \in DOMAIN q /\ q[At(i)].n = q[At(j)].n
        BY <1>1, <1>6, <2>3
      <4> HIDE DEF At
      <4> QED BY <4>1, <1>5 DEF Once
    <3> QED BY <3>1, <2>3, <1>1
  <2> QED BY <2>1, <2>2, <2>3
<1>8. NumbersOf(r) = NumbersOf(q) \cup {c.n}
  <2>1. NumbersOf(r) \subseteq NumbersOf(q) \cup {c.n}
    <3> SUFFICES ASSUME NEW i \in 1 .. Len(r) PROVE r[i].n \in NumbersOf(q) \cup {c.n}
      BY <1>1 DEF NumbersOf
    <3> HIDE DEF At
    <3> QED BY <1>2, <1>6
  <2>2. c.n \in NumbersOf(r)
    <3>1. Len(a) + 1 \in DOMAIN r
      BY <1>1
    <3> QED BY <3>1, <1>2 DEF NumbersOf
  <2>3. ASSUME NEW i \in 1 .. Len(q) PROVE q[i].n \in NumbersOf(r)
    <3>1. CASE i <= Len(a)
      <4>1. i \in DOMAIN r /\ r[i] = q[i]
        BY <1>1, <1>3, <3>1
      <4> QED BY <4>1 DEF NumbersOf
    <3>2. CASE i > Len(a)
      <4>1. i + 1 \in Len(a) + 2 .. Len(r) /\ (i + 1) - 1 = i
        BY <1>1, <3>2
      <4>2. i + 1 \in DOMAIN r /\ r[i + 1] = q[i]
        BY <1>1, <1>4, <4>1, SMTT(30)
      <4> QED BY <4>2 DEF NumbersOf
    <3> QED BY <3>1, <3>2, <1>1
  <2>4. NumbersOf(q) \subseteq NumbersOf(r)
    <3> SUFFICES ASSUME NEW i \in DOMAIN q PROVE q[i].n \in NumbersOf(r)
      BY DEF NumbersOf
    <3> QED BY <1>1, <2>3
  <2> QED BY <2>1, <2>2, <2>4
<1> QED BY <1>1, <1>7, <1>8 DEF q, r

LEMMA CutInTwo ==
    ASSUME NEW S, NEW s \in Seq(S), NEW k \in 0 .. Len(s)
    PROVE  /\ SubSeq(s, 1, k) \in Seq(S) /\ SubSeq(s, k + 1, Len(s)) \in Seq(S)
           /\ Len(SubSeq(s, 1, k)) = k /\ Len(SubSeq(s, k + 1, Len(s))) = Len(s) - k
           /\ SubSeq(s, 1, k) \o SubSeq(s, k + 1, Len(s)) = s
<1>1. SubSeq(s, 1, k) \in Seq(S) /\ Len(SubSeq(s, 1, k)) = k
  OBVIOUS
<1>2. SubSeq(s, k + 1, Len(s)) \in Seq(S) /\ Len(SubSeq(s, k + 1, Len(s))) = Len(s) - k
  OBVIOUS
<1>3. SubSeq(s, 1, k) \o SubSeq(s, k + 1, Len(s)) = SubSeq(s, 1, Len(s))
  <2>1. 1 \in 1 .. Len(s) + 1 /\ k \in 1 - 1 .. Len(s) /\ Len(s) \in k .. Len(s)
    OBVIOUS
  <2> QED BY <2>1, ConcatAdjacentSubSeq
<1> QED BY <1>1, <1>2, <1>3, SubSeqFull

\* One sequence is another with something put in
IsPutIn(S, q, r, c) == \E a \in Seq(S), b \in Seq(S) : q = a \o b /\ r = Append(a, c) \o b

LEMMA InsertedAt ==
    ASSUME NEW S, NEW out \in Seq(S), NEW s \in Seq(S), NEW i \in 1 .. Len(s) + 1, NEW c \in S
    PROVE  /\ InsertAt(s, i, c) \in Seq(S) /\ Len(InsertAt(s, i, c)) = Len(s) + 1
           /\ IsPutIn(S, out \o s, out \o InsertAt(s, i, c), c)
<1> DEFINE k == i - 1
<1>1. k \in 0 .. Len(s) /\ k + 1 = i /\ Len(s) \in Nat
  OBVIOUS
<1>2. InsertAt(s, i, c) = SubSeq(s, 1, k) \o <<c>> \o SubSeq(s, k + 1, Len(s))
  BY <1>1, Zenon DEF InsertAt
<1> HIDE DEF k
<1>3. PICK b \in Seq(S), d \in Seq(S) : /\ b \o d = s /\ Len(b) = k /\ Len(d) = Len(s) - k
                                        /\ InsertAt(s, i, c) = b \o <<c>> \o d
  <2> DEFINE b == SubSeq(s, 1, k)
             d == SubSeq(s, k + 1, Len(s))
  <2>1. b \in Seq(S) /\ d \in Seq(S) /\ Len(b) = k /\ Len(d) = Len(s) - k /\ b \o d = s
    BY <1>1, CutInTwo
  <2>2. InsertAt(s, i, c) = b \o <<c>> \o d
    BY <1>2
  <2> HIDE DEF b, d
  <2> QED BY <2>1, <2>2, Zenon
<1>4. /\ b \o <<c>> \o d \in Seq(S) /\ Len(b \o <<c>> \o d) = Len(b) + Len(d) + 1
      /\ out \o (b \o <<c>> \o d) = Append(out \o b, c) \o d
  BY PutBetween, SMTT(60)
<1>5. out \o (b \o d) = (out \o b) \o d
  BY ConcatAssociative, SMTT(60)
<1>6. out \o b \in Seq(S)
  BY ConcatProperties
<1>7. Len(b) + Len(d) + 1 = Len(s) + 1
  BY <1>1, <1>3
<1>8. IsPutIn(S, out \o s, out \o InsertAt(s, i, c), c)
  <2>1. out \o s = (out \o b) \o d
    BY <1>3, <1>5, Zenon
  <2>2. out \o InsertAt(s, i, c) = Append(out \o b, c) \o d
    BY <1>3, <1>4, Zenon
  <2> QED BY <1>6, <2>1, <2>2, Zenon DEF IsPutIn
<1>9. InsertAt(s, i, c) \in Seq(S) /\ Len(InsertAt(s, i, c)) = Len(s) + 1
  BY <1>3, <1>4, <1>7, Zenon
<1> QED BY <1>8, <1>9, Zenon

LEMMA FlushHas ==
    ASSUME NEW S, NEW w, WorksOn(w, S)
    PROVE  LET v == aml_flush_cc_data(w)
           IN  WorksOn(v, S) /\ FullHasFirst(v) /\ Counted(v) /\ v.list = <<>>
<1> DEFINE v == aml_flush_cc_data(w)
<1>1. w \in Works /\ Once(w.out \o w.list) /\ NumbersOf(w.out \o w.list) = S
  BY DEF WorksOn
<1>2. v.out = w.out \o w.list /\ v.list = <<>> /\ v.cc_num = 0 /\ v \in Works
  <2>1. w.out \o w.list \in Seq(Captions) /\ <<>> \in Seq(Captions) /\ -1 \in Int /\ 0 \in Int
    BY <1>1, ConcatProperties, EmptySeq DEF Works
  <2>2. v = [w EXCEPT !.out = w.out \o w.list, !.list = <<>>, !.cc_num = 0, !.curr_poc = -1]
    BY <1>1 DEF aml_flush_cc_data, Works
  <2> HIDE DEF v
  <2> QED BY <1>1, <2>1, <2>2 DEF Works
<1>3. v.out \o v.list = w.out \o w.list
  BY <1>1, <1>2 DEF Works
<1>4. MAX_CC_NUM \in Nat \ {0}
  BY UserDataAssumption
<1> HIDE DEF v
<1>5. WorksOn(v, S)
  BY <1>1, <1>2, <1>3 DEF WorksOn
<1>6. FullHasFirst(v) /\ Counted(v)
  BY <1>2, <1>4 DEF FullHasFirst, Counted
<1> QED BY <1>2, <1>5, <1>6 DEF v

\* The first goes out when the list is full
LEMMA FirstOut ==
    ASSUME NEW S, NEW w, WorksOn(w, S), w.list # <<>>
    PROVE  LET v == [w EXCEPT !.out = Append(@, Head(w.list)), !.list = Tail(@), !.cc_num = @ - 1]
           IN  WorksOn(v, S) /\ (Counted(w) => Counted(v))
<1> DEFINE v == [w EXCEPT !.out = Append(@, Head(w.list)), !.list = Tail(@), !.cc_num = @ - 1]
<1>1. w \in Works /\ Once(w.out \o w.list) /\ NumbersOf(w.out \o w.list) = S
  BY DEF WorksOn
<1>2. w.out \in Seq(Captions) /\ w.list \in Seq(Captions) /\ w.cc_num \in Int
  BY <1>1 DEF Works
<1>3. /\ v.out = Append(w.out, Head(w.list)) /\ v.list = Tail(w.list) /\ v.cc_num = w.cc_num - 1
  BY <1>1 DEF Works
<1>4. /\ Head(w.list) \in Captions /\ Tail(w.list) \in Seq(Captions) /\ Len(Tail(w.list)) = Len(w.list) - 1
      /\ Append(w.out, Head(w.list)) \o Tail(w.list) = w.out \o w.list
  BY <1>2, FirstMoves
<1>5. v \in Works
  <2>1. Append(w.out, Head(w.list)) \in Seq(Captions) /\ w.cc_num - 1 \in Int
    BY <1>2, <1>4
  <2> QED BY <1>1, <1>4, <2>1 DEF Works
<1> HIDE DEF v
<1>6. v.out \o v.list = w.out \o w.list
  BY <1>3, <1>4
<1>7. WorksOn(v, S)
  BY <1>1, <1>5, <1>6 DEF WorksOn
<1>8. Counted(w) => Counted(v)
  BY <1>2, <1>3, <1>4 DEF Counted
<1> QED BY <1>7, <1>8 DEF v

LEMMA AddHas ==
    ASSUME NEW S, NEW w, WorksOn(w, S), FullHasFirst(w), NEW c \in Captions, c.n \notin S
    PROVE  LET v == aml_add_cc_data(w, c)
           IN  /\ WorksOn(v, S \cup {c.n}) /\ FullHasFirst(v) /\ (Counted(w) => Counted(v))
<1> DEFINE first == [w EXCEPT !.out = Append(@, Head(w.list)), !.list = Tail(@), !.cc_num = @ - 1]
           u == IF w.cc_num < MAX_CC_NUM THEN w ELSE first
           v == IF u.list # <<>> /\ c.poc < Head(u.list).poc - 30 THEN aml_flush_cc_data(u) ELSE u
           places == {j \in DOMAIN v.list : ~Before(v.list[j], c)} \cup {Len(v.list) + 1}
           i == Min(places)
           r == [v EXCEPT !.list = InsertAt(@, i, c), !.cc_num = @ + 1]
<1>1. aml_add_cc_data(w, c) = r
  BY DEF aml_add_cc_data
<1>2. WorksOn(u, S) /\ (Counted(w) => Counted(u))
  <2>1. CASE w.cc_num < MAX_CC_NUM
    BY <2>1
  <2>2. CASE ~(w.cc_num < MAX_CC_NUM)
    <3>1. w.list # <<>>
      BY <2>2, UserDataAssumption DEF FullHasFirst, WorksOn, Works
    <3>2. WorksOn(first, S) /\ (Counted(w) => Counted(first))
      BY <3>1, FirstOut
    <3>3. u = first
      BY <2>2
    <3> HIDE DEF u, first
    <3> QED BY <3>2, <3>3
  <2> QED BY <2>1, <2>2
<1> HIDE DEF u
<1>3. WorksOn(v, S) /\ (Counted(u) => Counted(v))
  BY <1>2, FlushHas
<1> HIDE DEF v
<1>4. v \in Works /\ v.list \in Seq(Captions) /\ v.out \in Seq(Captions) /\ v.cc_num \in Int
      /\ Once(v.out \o v.list) /\ NumbersOf(v.out \o v.list) = S
  BY <1>3 DEF WorksOn, Works
<1>5. i \in 1 .. Len(v.list) + 1
  <2>1. places \subseteq Nat /\ places # {} /\ \A j \in places : 1 <= j
    BY <1>4
  <2>2. Len(v.list) + 1 \in places
    OBVIOUS
  <2> HIDE DEF places
  <2>3. i \in places /\ \A j \in places : i <= j
    BY <2>1, MinIs
  <2>4. Len(v.list) \in Nat
    BY <1>4
  <2> HIDE DEF i
  <2> QED BY <2>1, <2>2, <2>3, <2>4
<1> HIDE DEF i
<1>6. /\ InsertAt(v.list, i, c) \in Seq(Captions) /\ Len(InsertAt(v.list, i, c)) = Len(v.list) + 1
      /\ IsPutIn(Captions, v.out \o v.list, v.out \o InsertAt(v.list, i, c), c)
  <2>1. v.list \in Seq(Captions) /\ v.out \in Seq(Captions)
    BY <1>4
  <2> DEFINE s == v.list
             o == v.out
  <2>2. s \in Seq(Captions) /\ o \in Seq(Captions) /\ i \in 1 .. Len(s) + 1
    BY <1>5, <2>1
  <2> HIDE DEF s, o
  <2>3. InsertAt(s, i, c) \in Seq(Captions) /\ Len(InsertAt(s, i, c)) = Len(s) + 1
    BY <2>2, InsertedAt
  <2>4. IsPutIn(Captions, o \o s, o \o InsertAt(s, i, c), c)
    BY <2>2, InsertedAt
  <2> QED BY <2>3, <2>4 DEF s, o
<1>8. r.out = v.out /\ r.list = InsertAt(v.list, i, c) /\ r.cc_num = v.cc_num + 1
  BY <1>4 DEF Works
<1>9. Len(r.list) = Len(v.list) + 1
  BY <1>6, <1>8
<1>10. r \in Works
  <2>1. v.cc_num + 1 \in Int
    BY <1>4
  <2> DEFINE s == InsertAt(v.list, i, c)
  <2>2. s \in Seq(Captions) /\ r = [v EXCEPT !.list = s, !.cc_num = v.cc_num + 1]
    BY <1>4, <1>6 DEF Works
  <2> HIDE DEF s, r
  <2> QED BY <1>4, <2>1, <2>2 DEF Works
<1> HIDE DEF r
<1>11. PICK a \in Seq(Captions), b \in Seq(Captions) :
          v.out \o v.list = a \o b /\ r.out \o r.list = Append(a, c) \o b
  BY <1>6, <1>8 DEF IsPutIn
<1>13. Once(r.out \o r.list) /\ NumbersOf(r.out \o r.list) = S \cup {c.n}
  <2>1. Once(a \o b) /\ c.n \notin NumbersOf(a \o b)
    BY <1>4, <1>11
  <2>2. Once(Append(a, c) \o b) /\ NumbersOf(Append(a, c) \o b) = NumbersOf(a \o b) \cup {c.n}
    BY <2>1, CaptionGoesIn
  <2> QED BY <1>4, <1>11, <2>2
<1>14. WorksOn(r, S \cup {c.n})
  BY <1>10, <1>13 DEF WorksOn
<1>15. FullHasFirst(r)
  <2>1. Len(r.list) # 0
    BY <1>4, <1>8, <1>9
  <2> QED BY <2>1 DEF FullHasFirst
<1>16. Counted(w) => Counted(r)
  BY <1>2, <1>3, <1>4, <1>8, <1>9 DEF Counted
<1> QED BY <1>1, <1>14, <1>15, <1>16

LEMMA MpegHas ==
    ASSUME NEW S, NEW w, WorksOn(w, S), FullHasFirst(w), NEW type, NEW c \in Captions, c.n \notin S
    PROVE  WorksOn(aml_mpeg_userdata_package(w, type, c), S \cup {c.n})
<1> DEFINE u == IF type = "I" THEN aml_flush_cc_data(w) ELSE w
           gaps == {i \in DOMAIN u.list : u.list[i].poc # c.poc + i}
           places == {i - 1 : i \in gaps} \cup {Len(u.list)}
           n == Min(places)
           r == [u EXCEPT !.out = Append(@, c) \o SubSeq(u.list, 1, n),
                          !.list = SubSeq(@, n + 1, Len(@)), !.curr_poc = c.poc + n]
<1>1. aml_mpeg_userdata_package(w, type, c) =
        IF c.poc \notin {u.curr_poc, u.curr_poc + 1} THEN aml_add_cc_data(u, c) ELSE r
  BY DEF aml_mpeg_userdata_package
<1>2. WorksOn(u, S) /\ FullHasFirst(u)
  BY FlushHas
<1> HIDE DEF u
<1>3. WorksOn(aml_add_cc_data(u, c), S \cup {c.n})
  BY <1>2, AddHas
<1>4. u \in Works /\ u.list \in Seq(Captions) /\ u.out \in Seq(Captions)
      /\ Once(u.out \o u.list) /\ NumbersOf(u.out \o u.list) = S
  BY <1>2 DEF WorksOn, Works
<1>5. n \in 0 .. Len(u.list)
  <2>1. places \subseteq Nat /\ places # {} /\ Len(u.list) \in places
    BY <1>4
  <2> HIDE DEF places
  <2>2. n \in places /\ \A j \in places : n <= j
    BY <2>1, MinIs
  <2>3. Len(u.list) \in Nat
    BY <1>4
  <2> HIDE DEF n
  <2> QED BY <2>1, <2>2, <2>3
<1> HIDE DEF n
<1> DEFINE a == SubSeq(u.list, 1, n)
           b == SubSeq(u.list, n + 1, Len(u.list))
<1>6. a \in Seq(Captions) /\ b \in Seq(Captions) /\ a \o b = u.list
  BY <1>4, <1>5, CutInTwo
<1>7. r.out = Append(u.out, c) \o a /\ r.list = b
  BY <1>4 DEF Works
<1>8. r \in Works
  <2>1. c.poc + n \in Int
    BY <1>5 DEF Captions
  <2>2. Append(u.out, c) \o a \in Seq(Captions)
    BY <1>4, <1>6
  <2> QED BY <1>4, <1>6, <2>1, <2>2 DEF Works
<1> HIDE DEF r, a, b
<1>9. r.out \o r.list = Append(u.out, c) \o u.list
  <2>1. (Append(u.out, c) \o a) \o b = Append(u.out, c) \o (a \o b)
    <3> DEFINE e == Append(u.out, c)
    <3>1. e \in Seq(Captions)
      BY <1>4, AppendProperties
    <3> HIDE DEF e
    <3>2. (e \o a) \o b = e \o (a \o b)
      <4>1. a \in Seq(Captions) /\ b \in Seq(Captions)
        BY <1>6
      <4> QED BY <3>1, <4>1, ConcatAssociative, SMTT(30)
    <3> QED BY <3>2 DEF e
  <2> QED BY <1>6, <1>7, <2>1
<1>10. Once(r.out \o r.list) /\ NumbersOf(r.out \o r.list) = S \cup {c.n}
  BY <1>4, <1>9, CaptionGoesIn
<1>11. WorksOn(r, S \cup {c.n})
  BY <1>8, <1>10 DEF WorksOn
<1> QED BY <1>1, <1>3, <1>11

LEMMA SctePackageHas ==
    ASSUME NEW S, NEW w, WorksOn(w, S), FullHasFirst(w), NEW type, NEW c \in Captions, c.n \notin S
    PROVE  LET v == aml_process_scte_userdata(w, type, c)
           IN  /\ WorksOn(v, IF c.cc /\ w.scte_enable THEN S \cup {c.n} ELSE S)
               /\ Counted(w) => Counted(v)
<1> DEFINE u == IF type = "I" THEN aml_flush_cc_data(w) ELSE w
           d == [c EXCEPT !.pts = 0]
<1>1. aml_process_scte_userdata(w, type, c) =
        IF ~w.scte_enable THEN w ELSE IF c.cc THEN aml_add_cc_data(u, d) ELSE u
  BY DEF aml_process_scte_userdata
<1>2. WorksOn(u, S) /\ FullHasFirst(u) /\ (Counted(w) => Counted(u))
  BY FlushHas
<1>3. d \in Captions /\ d.n = c.n /\ d.n \notin S
  BY DEF Captions
<1> HIDE DEF u, d
<1>4. WorksOn(aml_add_cc_data(u, d), S \cup {c.n}) /\ (Counted(u) => Counted(aml_add_cc_data(u, d)))
  BY <1>2, <1>3, AddHas
<1> QED BY <1>1, <1>2, <1>4

\* What is due and what is kept are the list
LEMMA DueAndKeptAre ==
    ASSUME NEW out \in Seq(Captions), NEW list \in Seq(Captions), Once(out \o list)
    PROVE  LET p == DueAndKept(list)
           IN  /\ p.due \in Seq(Captions) /\ p.kept \in Seq(Captions)
               /\ Len(p.due) + Len(p.kept) = Len(list)
               /\ Once((out \o p.due) \o p.kept)
               /\ NumbersOf((out \o p.due) \o p.kept) = NumbersOf(out \o list)
<1> DEFINE N == Len(list)
           X == [due : Seq(Captions), kept : Seq(Captions)]
           step(p, k) == IF video_pts > list[k].pts
                         THEN [due |-> Append(p.due, list[k]), kept |-> p.kept]
                         ELSE [due |-> p.due, kept |-> Append(p.kept, list[k])]
           none == [due |-> <<>>, kept |-> <<>>]
           f(w) == [k \in 0 .. N |-> IF k = 0 THEN none ELSE step(w[k - 1], k)]
           v == CHOOSE w : w = f(w)
           F == [q \in (1 .. N) \X X |-> step(q[2], q[1])]
<1>1. N \in Nat /\ none \in X
  OBVIOUS
<1>2. DueAndKept(list) = v[N]
  BY DEF DueAndKept
<1>3. \A k \in 1 .. N : list[k] \in Captions
  OBVIOUS
<1>4. \A k \in 1 .. N, p \in X : step(p, k) \in X
  BY <1>3
<1>5. v = CHOOSE w : w = f(w)
  OBVIOUS
<1> HIDE DEF N, v
<1>6. F \in [(1 .. N) \X X -> X] /\ \A k \in 1 .. N, p \in X : F[<<k, p>>] = step(p, k)
  BY <1>4
<1> HIDE DEF F, none
<1>7. PICK w \in [0 .. N -> X] : GoesBy(w, N, none, F)
  <2> HIDE DEF X
  <2> QED BY <1>1, <1>6, RecursionEquation
<1>8. w = f(w)
  <2>1. \A k \in 0 .. N : k = 0 \/ F[<<k, w[k - 1]>>] = step(w[k - 1], k)
    <3> HIDE DEF X, step
    <3> QED BY <1>1, <1>6, <1>7
  <2> HIDE DEF X, step
  <2> QED BY <1>7, <2>1 DEF GoesBy
<1>9. v = f(v)
  <2> HIDE DEF step
  <2> QED BY <1>5, <1>8
<1>10. v[0] = none /\ \A k \in 1 .. N : v[k] = step(v[k - 1], k)
  <2> HIDE DEF step, X
  <2>1. 0 \in 0 .. N /\ \A k \in 1 .. N : k \in 0 .. N /\ k # 0
    BY <1>1
  <2> QED BY <1>9, <2>1
<1> HIDE DEF step
\* After k captions the two hold the first k of the list
<1> DEFINE Firsts(k) == {list[i].n : i \in 1 .. k}
           Apart(p, k) == /\ p \in X /\ Len(p.due) + Len(p.kept) = k
                          /\ Once((out \o p.due) \o p.kept)
                          /\ NumbersOf((out \o p.due) \o p.kept) = NumbersOf(out) \cup Firsts(k)
           T == {k \in 0 .. N : Apart(v[k], k)}
<1>11. \A k \in 1 .. N : list[k].n \notin NumbersOf(out) \cup Firsts(k - 1)
  <2> TAKE k \in 1 .. N
  <2>1. /\ out \o list \in Seq(Captions) /\ Len(out \o list) = Len(out) + N
        /\ \A i \in 1 .. Len(out) : (out \o list)[i] = out[i]
        /\ \A i \in 1 .. N : (out \o list)[Len(out) + i] = list[i]
    BY NumbersTogether DEF N
  <2> DEFINE q == out \o list
  <2>2. Once(q) /\ q \in Seq(Captions) /\ Len(q) = Len(out) + N
    BY <2>1
  <2>3. (\A i \in 1 .. Len(out) : q[i] = out[i]) /\ (\A i \in 1 .. N : q[Len(out) + i] = list[i])
    BY <2>1
  <2> HIDE DEF q
  <2>4. Len(out) + k \in DOMAIN q
    BY <1>1, <2>2
  <2>5. ASSUME NEW i \in 1 .. Len(out) PROVE out[i].n # list[k].n
    <3>1. i \in DOMAIN q /\ i # Len(out) + k
      BY <1>1, <2>2, SMTT(30)
    <3> QED BY <2>2, <2>3, <2>4, <3>1 DEF Once
  <2>6. ASSUME NEW i \in 1 .. k - 1 PROVE list[i].n # list[k].n
    <3>1. i \in 1 .. N /\ Len(out) + i \in DOMAIN q /\ Len(out) + i # Len(out) + k
      BY <1>1, <2>2
    <3> QED BY <2>2, <2>3, <2>4, <3>1 DEF Once
  <2>7. DOMAIN out = 1 .. Len(out)
    OBVIOUS
  <2> QED BY <2>5, <2>6, <2>7 DEF NumbersOf
<1>12. Apart(v[0], 0)
  <2>1. v[0] = none /\ none.due = <<>> /\ none.kept = <<>>
    BY <1>10 DEF none
  <2>2. (out \o <<>>) \o <<>> = out /\ Firsts(0) = {}
    OBVIOUS
  <2>3. Once(out)
    <3>1. \A i \in 1 .. Len(out) : (out \o list)[i] = out[i] /\ i \in DOMAIN (out \o list)
      OBVIOUS
    <3> QED BY <3>1 DEF Once
  <2> QED BY <1>1, <2>1, <2>2, <2>3
<1>13. ASSUME NEW k \in 1 .. N, Apart(v[k - 1], k - 1) PROVE Apart(v[k], k)
  <2> DEFINE p == v[k - 1]
             r == v[k]
             c == list[k]
             a == out \o p.due
  <2>1. p.due \in Seq(Captions) /\ p.kept \in Seq(Captions) /\ a \in Seq(Captions) /\ c \in Captions
        /\ Len(p.due) + Len(p.kept) = k - 1 /\ Len(p.due) \in Nat /\ Len(p.kept) \in Nat
    <3>1. p \in X /\ Len(p.due) + Len(p.kept) = k - 1
      BY <1>13
    <3> HIDE DEF p
    <3>2. p.due \in Seq(Captions) /\ p.kept \in Seq(Captions)
      BY <3>1
    <3>3. c \in Captions
      BY <1>3
    <3> QED BY <3>1, <3>2, <3>3, ConcatProperties, LenProperties
  <2>2. Once(a \o p.kept) /\ NumbersOf(a \o p.kept) = NumbersOf(out) \cup Firsts(k - 1)
    BY <1>13
  <2>3. c.n \notin NumbersOf(a \o p.kept) /\ Firsts(k) = Firsts(k - 1) \cup {c.n}
    BY <1>11, <2>2
  <2>4. r = step(p, k)
    BY <1>10
  <2> HIDE DEF p, r, c, Firsts
  <2>5. CASE video_pts > c.pts
    <3>1. r = [due |-> Append(p.due, c), kept |-> p.kept]
      BY <2>4, <2>5 DEF step, c
    <3>2. Append(a, c) \o p.kept = (out \o r.due) \o r.kept
      <4>1. out \o Append(p.due, c) = Append(a, c)
        BY <2>1, AppendLast, SMTT(30)
      <4> QED BY <3>1, <4>1
    <3>3. Once(Append(a, c) \o p.kept) /\ NumbersOf(Append(a, c) \o p.kept) = NumbersOf(a \o p.kept) \cup {c.n}
      <4> HIDE DEF a
      <4> QED BY <2>1, <2>2, <2>3, CaptionGoesIn
    <3>4. r \in X /\ Len(r.due) + Len(r.kept) = k
      <4>1. Append(p.due, c) \in Seq(Captions) /\ Len(Append(p.due, c)) = Len(p.due) + 1
        BY <2>1, AppendProperties
      <4>2. r.due = Append(p.due, c) /\ r.kept = p.kept /\ r \in X
        BY <2>1, <3>1, <4>1
      <4> HIDE DEF X
      <4> DEFINE m == Len(p.due)
                 l == Len(p.kept)
      <4>3. Len(r.due) = m + 1 /\ Len(r.kept) = l
        BY <4>1, <4>2, Zenon
      <4>4. Len(p.due) + Len(p.kept) = k - 1 /\ m \in Nat /\ l \in Nat
        BY <2>1, Zenon
      <4>5. k \in Int
        BY <1>1
      <4> HIDE DEF m, l
      <4>6. m + l = k - 1
        BY <4>4, Zenon DEF m, l
      <4>7. (m + 1) + l = k
        BY <4>4, <4>5, <4>6
      <4>8. Len(r.due) + Len(r.kept) = k
        BY <4>3, <4>7, Zenon
      <4> QED BY <4>2, <4>8, Zenon
    <3> HIDE DEF a
    <3> QED BY <2>2, <2>3, <3>2, <3>3, <3>4 DEF r
  <2>6. CASE ~(video_pts > c.pts)
    <3>1. r = [due |-> p.due, kept |-> Append(p.kept, c)]
      BY <2>4, <2>6 DEF step, c
    <3> DEFINE y == a \o p.kept
    <3>2. y \in Seq(Captions) /\ y \o <<>> = y
      BY <2>1, ConcatProperties, ConcatEmptySeq
    <3>3. Append(y, c) \o <<>> = (out \o r.due) \o r.kept
      <4>1. a \o Append(p.kept, c) = Append(y, c)
        <5> HIDE DEF a
        <5> QED BY <2>1, AppendLast, SMTT(30)
      <4>2. Append(y, c) \in Seq(Captions)
        BY <2>1, <3>2, AppendProperties
      <4> QED BY <3>1, <4>1, <4>2, ConcatEmptySeq
    <3>4. Once(Append(y, c) \o <<>>) /\ NumbersOf(Append(y, c) \o <<>>) = NumbersOf(y) \cup {c.n}
      <4>1. Once(y) /\ c.n \notin NumbersOf(y) /\ <<>> \in Seq(Captions)
        BY <2>2, <2>3, EmptySeq
      <4>2. c \in Captions
        BY <2>1
      <4> HIDE DEF y
      <4>3. Once(y \o <<>>) /\ c.n \notin NumbersOf(y \o <<>>)
        BY <3>2, <4>1
      <4>4. NumbersOf(Append(y, c) \o <<>>) = NumbersOf(y \o <<>>) \cup {c.n} /\ Once(Append(y, c) \o <<>>)
        BY <3>2, <4>1, <4>2, <4>3, CaptionGoesIn
      <4> QED BY <3>2, <4>4
    <3>5. r \in X /\ Len(r.due) + Len(r.kept) = k
      <4>1. Append(p.kept, c) \in Seq(Captions) /\ Len(Append(p.kept, c)) = Len(p.kept) + 1
        BY <2>1, AppendProperties
      <4>2. r.due = p.due /\ r.kept = Append(p.kept, c) /\ r \in X
        BY <2>1, <3>1, <4>1
      <4> HIDE DEF X
      <4> DEFINE m == Len(p.kept)
                 l == Len(p.due)
      <4>3. Len(r.kept) = m + 1 /\ Len(r.due) = l
        BY <4>1, <4>2, Zenon
      <4>4. Len(p.due) + Len(p.kept) = k - 1 /\ m \in Nat /\ l \in Nat
        BY <2>1, Zenon
      <4>5. k \in Int
        BY <1>1
      <4> HIDE DEF m, l
      <4>6. l + m = k - 1
        BY <4>4, Zenon DEF m, l
      <4>7. l + (m + 1) = k
        BY <4>4, <4>5, <4>6
      <4>8. Len(r.due) + Len(r.kept) = k
        BY <4>3, <4>7, Zenon
      <4> QED BY <4>2, <4>8, Zenon
    <3> HIDE DEF a
    <3> QED BY <2>2, <2>3, <3>3, <3>4, <3>5 DEF r
  <2> QED BY <2>5, <2>6
<1> HIDE DEF Apart
<1>14. 0 \in T /\ \A k \in 1 .. N : k - 1 \in T => k \in T
  BY <1>1, <1>12, <1>13
<1> HIDE DEF T
<1>15. \A k \in 0 .. N : k \in T
  BY <1>1, <1>14, UpTo
<1>16. Apart(v[N], N)
  BY <1>1, <1>15 DEF T
<1>17. NumbersOf(out \o list) = NumbersOf(out) \cup Firsts(N)
  <2>1. Firsts(N) = NumbersOf(list)
    BY DEF NumbersOf, N
  <2> HIDE DEF Firsts
  <2> QED BY <2>1, NumbersTogether
<1>18. v[N] \in X /\ Len(v[N].due) + Len(v[N].kept) = Len(list)
       /\ Once((out \o v[N].due) \o v[N].kept)
       /\ NumbersOf((out \o v[N].due) \o v[N].kept) = NumbersOf(out \o list)
  BY <1>16, <1>17 DEF Apart, N
<1> HIDE DEF Firsts
<1> QED BY <1>2, <1>18

LEMMA H264Has ==
    ASSUME NEW S, NEW w, WorksOn(w, S), FullHasFirst(w), NEW c \in Captions, c.n \notin S
    PROVE  LET v == aml_h264_userdata_package(w, c)
           IN  WorksOn(v, S \cup {c.n}) /\ (Counted(w) => Counted(v))
<1> DEFINE y == IF c.poc = 0 THEN aml_flush_cc_data(w) ELSE w
           u == aml_add_cc_data(y, c)
           p == DueAndKept(u.list)
           r == [u EXCEPT !.out = @ \o p.due, !.cc_num = @ - Len(p.due), !.list = DueAndKept(@).kept,
                          !.curr_poc = IF p.due = <<>> THEN @ ELSE Last(p.due).poc]
<1>1. aml_h264_userdata_package(w, c) = r
  BY DEF aml_h264_userdata_package
<1>2. WorksOn(y, S) /\ FullHasFirst(y) /\ (Counted(w) => Counted(y))
  BY FlushHas
<1> HIDE DEF y
<1>3. WorksOn(u, S \cup {c.n}) /\ (Counted(y) => Counted(u))
  BY <1>2, AddHas
<1> HIDE DEF u
<1>4. u \in Works /\ u.list \in Seq(Captions) /\ u.out \in Seq(Captions) /\ u.cc_num \in Int
      /\ u.curr_poc \in Int
      /\ Once(u.out \o u.list) /\ NumbersOf(u.out \o u.list) = S \cup {c.n}
  BY <1>3 DEF WorksOn, Works
<1>5. /\ p.due \in Seq(Captions) /\ p.kept \in Seq(Captions) /\ Len(p.due) + Len(p.kept) = Len(u.list)
      /\ Once((u.out \o p.due) \o p.kept)
      /\ NumbersOf((u.out \o p.due) \o p.kept) = NumbersOf(u.out \o u.list)
  BY <1>4, DueAndKeptAre
<1>6. DueAndKept(u.list) = p
  OBVIOUS
<1> DEFINE last == IF p.due = <<>> THEN u.curr_poc ELSE Last(p.due).poc
<1> HIDE DEF p
<1>7. r = [u EXCEPT !.out = u.out \o p.due, !.cc_num = u.cc_num - Len(p.due), !.list = p.kept,
                    !.curr_poc = last]
  BY <1>4, <1>6 DEF Works
<1>8. last \in Int
  <2>1. CASE p.due # <<>>
    <3>1. Len(p.due) \in 1 .. Len(p.due) /\ p.due[Len(p.due)] \in Captions
      BY <1>5, <2>1
    <3> QED BY <3>1, <2>1 DEF Last, Captions
  <2> QED BY <1>4, <2>1
<1> HIDE DEF r, last
<1>9. r.out = u.out \o p.due /\ r.list = p.kept /\ r.cc_num = u.cc_num - Len(p.due)
  BY <1>4, <1>7 DEF Works
<1>10. r \in Works
  <2>1. u.out \o p.due \in Seq(Captions) /\ u.cc_num - Len(p.due) \in Int
    BY <1>4, <1>5
  <2> QED BY <1>4, <1>5, <1>7, <1>8, <2>1 DEF Works
<1>11. WorksOn(r, S \cup {c.n})
  BY <1>4, <1>5, <1>9, <1>10 DEF WorksOn
<1>12. Counted(u) => Counted(r)
  <2> DEFINE m == Len(p.due)
             l == Len(p.kept)
             n == Len(u.list)
  <2>1. m \in Nat /\ l \in Nat
    BY <1>5, LenProperties
  <2>2. m + l = n
    BY <1>5, Zenon
  <2> HIDE DEF m, l, n
  <2>3. n - m = l
    BY <2>1, <2>2
  <2>4. Len(u.list) - Len(p.due) = Len(p.kept)
    BY <2>3, Zenon DEF m, l, n
  <2> QED BY <1>9, <2>4, Zenon DEF Counted
<1> QED BY <1>1, <1>2, <1>3, <1>11, <1>12

LEMMA ProcessHas ==
    ASSUME ud \in Drivers, Once(ud.list), FullHasFirst(ud),
           NEW c \in Captions, c.n \notin NumbersOf(ud.list)
    PROVE  LET v == Process(c)
               S == NumbersOf(ud.list)
           IN  /\ WorksOn(v, IF c.cc /\ (c.fmt = "scte" => ud.scte_enable) THEN S \cup {c.n} ELSE S)
               /\ c.fmt # "mpeg" /\ Counted(ud) => Counted(v)
<1> DEFINE S == NumbersOf(ud.list)
           w == [list |-> ud.list, cc_num |-> ud.cc_num, curr_poc |-> ud.curr_poc,
                 scte_enable |-> ud.scte_enable, flush |-> ud.flush, out |-> <<>>]
           m == [w EXCEPT !.scte_enable = FALSE]
<1>1. w \in Works /\ m \in Works /\ w.out = <<>> /\ m.out = <<>> /\ w.list = ud.list /\ m.list = ud.list
      /\ w.cc_num = ud.cc_num /\ m.cc_num = ud.cc_num /\ w.scte_enable = ud.scte_enable
  BY EmptySeq DEF Drivers, Works
<1>2. <<>> \o ud.list = ud.list
  BY DEF Drivers
<1> HIDE DEF w, m
<1>3. WorksOn(w, S) /\ FullHasFirst(w) /\ WorksOn(m, S) /\ FullHasFirst(m) /\ (Counted(ud) => Counted(w))
  BY <1>1, <1>2 DEF WorksOn, FullHasFirst, Counted
<1>4. c.fmt \in {"scte", "mpeg", "h264"} /\ c.cc \in BOOLEAN
  BY DEF Captions
<1>5. CASE c.fmt = "scte"
  <2>1. Process(c) = aml_process_scte_userdata(w, c.type, c)
    BY <1>5 DEF Process, w
  <2>2. WorksOn(aml_process_scte_userdata(w, c.type, c), IF c.cc /\ w.scte_enable THEN S \cup {c.n} ELSE S)
        /\ (Counted(w) => Counted(aml_process_scte_userdata(w, c.type, c)))
    BY <1>3, SctePackageHas
  <2> QED BY <1>1, <1>3, <1>5, <2>1, <2>2
<1>6. CASE c.fmt = "mpeg"
  <2>1. Process(c) = IF c.cc THEN aml_mpeg_userdata_package(m, c.type, c) ELSE m
    BY <1>6 DEF Process, w, m
  <2>2. WorksOn(aml_mpeg_userdata_package(m, c.type, c), S \cup {c.n})
    BY <1>3, MpegHas
  <2> QED BY <1>3, <1>6, <2>1, <2>2
<1>7. CASE c.fmt = "h264"
  <2>1. Process(c) = IF c.cc THEN aml_h264_userdata_package(w, c) ELSE w
    BY <1>7 DEF Process, w
  <2>2. WorksOn(aml_h264_userdata_package(w, c), S \cup {c.n})
        /\ (Counted(w) => Counted(aml_h264_userdata_package(w, c)))
    BY <1>3, H264Has
  <2> QED BY <1>3, <1>7, <2>1, <2>2
<1> QED BY <1>4, <1>5, <1>6, <1>7

UserDataTypes ==
    /\ stream \in Streams /\ framesDecoded \in 0 .. Len(stream) /\ open_cnt \in Nat
    /\ ud \in Drivers /\ toWrite \in Seq(Captions)
    /\ pkg_buf \in Seq(Nat) /\ received \in Seq(Nat) /\ written \in Seq(Nat)

\* The captions that wait, and those that passed the ring or are in it
WaitingNumbers == NumbersOf(toWrite \o ud.list)
PassedNumbers == ToSet(received \o pkg_buf)

InThree(n, a, b, c) ==
    1 .. n = a \cup b \cup c /\ a \cap b = {} /\ a \cap c = {} /\ b \cap c = {}

UserDataInv ==
    /\ UserDataTypes
    /\ Once(toWrite \o ud.list) /\ IsInjective(received \o pkg_buf)
    /\ InThree(framesDecoded, WaitingNumbers, PassedNumbers, missed) /\ PassedNumbers \subseteq ToSet(written)
    /\ open_cnt = 0 => ud.list = <<>> /\ toWrite = <<>> /\ pkg_buf = <<>>

LEMMA ThreeCounted ==
    ASSUME NEW n \in Nat, NEW a, NEW b, NEW c, InThree(n, a, b, c)
    PROVE  Cardinality(a) + Cardinality(b) + Cardinality(c) = n
<1>1. IsFiniteSet(1 .. n) /\ Cardinality(1 .. n) = n
  BY FS_Interval
<1>2. a \in SUBSET (1 .. n) /\ b \in SUBSET (1 .. n) /\ c \in SUBSET (1 .. n) /\ (a \cup b) \cup c = 1 .. n
  BY DEF InThree
<1>3. IsFiniteSet(a) /\ IsFiniteSet(b) /\ IsFiniteSet(c)
  BY <1>1, <1>2, FS_Subset
<1>4. Cardinality(a) \in Nat /\ Cardinality(b) \in Nat /\ Cardinality(c) \in Nat
  BY <1>3, FS_CardinalityType
<1>5. a \cap b = {} /\ (a \cup b) \cap c = {} /\ Cardinality({}) = 0
  BY FS_EmptySet DEF InThree
<1>6. IsFiniteSet(a \cup b) /\ Cardinality(a \cup b) = Cardinality(a) + Cardinality(b)
  <2>1. IsFiniteSet(a \cup b) /\ Cardinality(a \cup b) = Cardinality(a) + Cardinality(b) - Cardinality(a \cap b)
    BY <1>3, FS_Union
  <2>2. Cardinality(a \cap b) = 0
    BY <1>5
  <2> QED BY <1>4, <2>1, <2>2
<1>7. Cardinality((a \cup b) \cup c) = Cardinality(a \cup b) + Cardinality(c)
  <2>1. Cardinality((a \cup b) \cup c) = Cardinality(a \cup b) + Cardinality(c) - Cardinality((a \cup b) \cap c)
    BY <1>3, <1>6, FS_Union
  <2>2. Cardinality((a \cup b) \cap c) = 0
    BY <1>5
  <2>3. Cardinality(a \cup b) \in Nat
    BY <1>4, <1>6
  <2> QED BY <1>4, <2>1, <2>2, <2>3
<1> QED BY <1>1, <1>2, <1>4, <1>6, <1>7

\* The numbers in the ring
LEMMA NumberGoesIn ==
    ASSUME NEW q \in Seq(Nat), IsInjective(q), NEW k \in Nat, k \notin ToSet(q)
    PROVE  IsInjective(Append(q, k)) /\ ToSet(Append(q, k)) = ToSet(q) \cup {k}
<1> DEFINE r == Append(q, k)
<1>1. r \in Seq(Nat) /\ Len(r) = Len(q) + 1 /\ r[Len(q) + 1] = k /\ \A i \in 1 .. Len(q) : r[i] = q[i]
  OBVIOUS
<1> HIDE DEF r
<1>2. \A i \in 1 .. Len(r) : i = Len(q) + 1 \/ (i \in 1 .. Len(q) /\ r[i] = q[i] /\ r[i] # k)
  BY <1>1 DEF ToSet
<1>3. IsInjective(r)
  <2> SUFFICES ASSUME NEW i \in DOMAIN r, NEW j \in DOMAIN r, r[i] = r[j] PROVE i = j
    BY DEF IsInjective
  <2>1. i \in 1 .. Len(r) /\ j \in 1 .. Len(r)
    BY <1>1
  <2>2. CASE i = Len(q) + 1 \/ j = Len(q) + 1
    BY <1>1, <1>2, <2>1, <2>2
  <2>3. CASE i # Len(q) + 1 /\ j # Len(q) + 1
    <3>1. i \in DOMAIN q /\ j \in DOMAIN q /\ q[i] = q[j]
      BY <1>2, <2>1, <2>3
    <3> QED BY <3>1 DEF IsInjective
  <2> QED BY <2>2, <2>3
<1>4. ToSet(r) = ToSet(q) \cup {k}
  <2>1. ToSet(r) \subseteq ToSet(q) \cup {k}
    BY <1>1, <1>2 DEF ToSet
  <2>2. \A i \in 1 .. Len(q) : i \in DOMAIN r
    BY <1>1
  <2>3. Len(q) + 1 \in DOMAIN r
    BY <1>1
  <2>4. ToSet(q) \subseteq ToSet(r)
    <3> SUFFICES ASSUME NEW n \in ToSet(q)
                 PROVE  n \in ToSet(r)
      OBVIOUS
    <3>1. PICK i \in 1 .. Len(q) : q[i] = n
      BY DEF ToSet
    <3>2. i \in DOMAIN r /\ r[i] = n
      BY <1>1, <2>2, <3>1
    <3> QED BY <3>2 DEF ToSet
  <2>5. k \in ToSet(r)
    BY <1>1, <2>3 DEF ToSet
  <2> QED BY <2>1, <2>4, <2>5
<1> QED BY <1>3, <1>4 DEF r

LEMMA NumbersApart ==
    ASSUME NEW a \in Seq(Nat), NEW b \in Seq(Nat), IsInjective(a \o b)
    PROVE  /\ IsInjective(a) /\ ToSet(a \o b) = ToSet(a) \cup ToSet(b) /\ ToSet(a) \cap ToSet(b) = {}
<1> DEFINE q == a \o b
<1>1. /\ q \in Seq(Nat) /\ Len(q) = Len(a) + Len(b) /\ Len(a) \in Nat /\ Len(b) \in Nat
      /\ DOMAIN q = 1 .. Len(q) /\ DOMAIN a = 1 .. Len(a) /\ DOMAIN b = 1 .. Len(b)
      /\ (\A i \in 1 .. Len(a) : q[i] = a[i]) /\ (\A i \in 1 .. Len(b) : q[Len(a) + i] = b[i])
  OBVIOUS
<1>2. IsInjective(q)
  OBVIOUS
<1> HIDE DEF q
<1>3. IsInjective(a)
  <2> SUFFICES ASSUME NEW i \in DOMAIN a, NEW j \in DOMAIN a, a[i] = a[j] PROVE i = j
    BY DEF IsInjective
  <2>1. i \in DOMAIN q /\ j \in DOMAIN q /\ q[i] = q[j]
    BY <1>1
  <2> QED BY <1>2, <2>1 DEF IsInjective
<1>4. ASSUME NEW i \in 1 .. Len(a), NEW j \in 1 .. Len(b) PROVE a[i] # b[j]
  <2>1. i \in DOMAIN q /\ Len(a) + j \in DOMAIN q /\ i # Len(a) + j
    BY <1>1, SMTT(30)
  <2> QED BY <1>1, <1>2, <2>1 DEF IsInjective
<1>5. ToSet(q) \subseteq ToSet(a) \cup ToSet(b)
  <2> SUFFICES ASSUME NEW i \in 1 .. Len(q) PROVE q[i] \in ToSet(a) \cup ToSet(b)
    BY <1>1 DEF ToSet
  <2>1. CASE i > Len(a)
    <3>1. i - Len(a) \in 1 .. Len(b) /\ Len(a) + (i - Len(a)) = i
      BY <1>1, <2>1
    <3>2. i - Len(a) \in DOMAIN b /\ q[i] = b[i - Len(a)]
      <4>1. q[Len(a) + (i - Len(a))] = b[i - Len(a)]
        BY <1>1, <3>1
      <4> QED BY <1>1, <3>1, <4>1
    <3> QED BY <3>2 DEF ToSet
  <2>2. CASE i <= Len(a)
    <3>1. i \in DOMAIN a /\ q[i] = a[i]
      BY <1>1, <2>2
    <3> QED BY <3>1 DEF ToSet
  <2> QED BY <1>1, <2>1, <2>2
<1>6. ToSet(a) \subseteq ToSet(q) /\ ToSet(b) \subseteq ToSet(q)
  <2>1. \A i \in 1 .. Len(a) : i \in DOMAIN q
    BY <1>1
  <2>2. \A i \in 1 .. Len(b) : Len(a) + i \in DOMAIN q
    BY <1>1
  <2> QED BY <1>1, <2>1, <2>2 DEF ToSet
<1>7. ToSet(a) \cap ToSet(b) = {}
  <2> SUFFICES ASSUME NEW i \in DOMAIN a, NEW j \in DOMAIN b PROVE a[i] # b[j]
    BY DEF ToSet
  <2> QED BY <1>1, <1>4
<1>8. ToSet(q) = ToSet(a) \cup ToSet(b)
  BY <1>5, <1>6
<1> QED BY <1>3, <1>7, <1>8 DEF q

\* The first caption goes
LEMMA FirstGoes ==
    ASSUME NEW q \in Seq(Captions), q # <<>>, Once(q)
    PROVE  /\ Head(q).n \in NumbersOf(q) /\ Once(Tail(q))
           /\ NumbersOf(Tail(q)) = NumbersOf(q) \ {Head(q).n}
<1> DEFINE r == Tail(q)
<1>1. r \in Seq(Captions) /\ DOMAIN r = 1 .. Len(r) /\ Len(r) = Len(q) - 1 /\ \A i \in 1 .. Len(r) : r[i] = q[i + 1]
  OBVIOUS
<1>2. Head(q) = q[1] /\ Len(q) \in Nat \ {0} /\ DOMAIN q = 1 .. Len(q) /\ 1 \in DOMAIN q
  OBVIOUS
<1> HIDE DEF r
<1>3. \A i \in 1 .. Len(r) : i + 1 \in DOMAIN q /\ r[i] = q[i + 1]
  BY <1>1, <1>2
<1>4. Once(r)
  <2> SUFFICES ASSUME NEW i \in 1 .. Len(r), NEW j \in 1 .. Len(r), r[i].n = r[j].n PROVE i = j
    BY <1>1 DEF Once
  <2>1. i + 1 = j + 1
    BY <1>3, SMTT(30) DEF Once
  <2> QED BY <2>1, <1>1
<1>5. ASSUME NEW i \in DOMAIN q PROVE i = 1 \/ (i - 1 \in DOMAIN r /\ r[i - 1] = q[i])
  BY <1>1, <1>2
<1>6. NumbersOf(q) \ {q[1].n} \subseteq NumbersOf(r)
  BY <1>5 DEF NumbersOf
<1>7. NumbersOf(r) \subseteq NumbersOf(q)
  BY <1>1, <1>3 DEF NumbersOf
<1>8. q[1].n \notin NumbersOf(r)
  <2> SUFFICES ASSUME NEW i \in 1 .. Len(r), r[i].n = q[1].n PROVE FALSE
    BY <1>1 DEF NumbersOf
  <2>1. i + 1 = 1
    BY <1>2, <1>3 DEF Once
  <2> QED BY <2>1
<1>9. NumbersOf(r) = NumbersOf(q) \ {q[1].n} /\ q[1].n \in NumbersOf(q)
  BY <1>2, <1>6, <1>7, <1>8 DEF NumbersOf
<1> QED BY <1>2, <1>4, <1>9 DEF r

\* Who waits and who passed stays, whatever else changes
LEMMA UserDataStays ==
    ASSUME UserDataInv, UNCHANGED <<stream, framesDecoded, toWrite, pkg_buf, written, received, missed>>,
           ud'.list = ud.list, ud' \in Drivers, open_cnt' \in Nat,
           open_cnt' = 0 => open_cnt = 0 \/ (ud.list = <<>> /\ toWrite = <<>> /\ pkg_buf = <<>>)
    PROVE  UserDataInv'
<1>1. UserDataTypes'
  BY DEF UserDataInv, UserDataTypes
<1>2. WaitingNumbers' = WaitingNumbers /\ PassedNumbers' = PassedNumbers
  BY DEF WaitingNumbers, PassedNumbers
<1>3. toWrite' \o ud'.list = toWrite \o ud.list /\ received' \o pkg_buf' = received \o pkg_buf
  OBVIOUS
<1> QED BY <1>1, <1>2, <1>3 DEF UserDataInv

LEMMA RecordRead ==
    ASSUME UserDataInv, FullHasFirst(ud), ReadRecord
    PROVE  UserDataInv' /\ (stream[framesDecoded + 1].fmt # "mpeg" /\ Counted(ud) => Counted(ud'))
<1> DEFINE n == framesDecoded + 1
           rec == stream[n]
           c == Numbered(rec, n)
           w == Process(c)
           has == c.cc /\ (c.fmt = "scte" => ud.scte_enable)
<1>1. UserDataTypes /\ toWrite = <<>> /\ open_cnt > 0 /\ framesDecoded < Len(stream)
      /\ framesDecoded' = n /\ UNCHANGED <<stream, open_cnt, pkg_buf, written, received>>
  BY DEF UserDataInv, ReadRecord
<1>2. ud \in Drivers /\ ud.list \in Seq(Captions) /\ framesDecoded \in Nat /\ n \in 1 .. Len(stream) /\ n \in Nat
  BY <1>1 DEF UserDataTypes, Drivers
<1>3. c \in Captions /\ c.n = n /\ c.cc = rec.cc /\ c.fmt = rec.fmt
  <2>1. stream \in Seq([fmt : {"scte", "mpeg", "h264"}, type : {"I", "P", "B"}, poc : Nat,
                        pts : Nat, time : Nat, cc : BOOLEAN])
    BY <1>1, UserDataAssumption DEF UserDataTypes
  <2>2. rec \in [fmt : {"scte", "mpeg", "h264"}, type : {"I", "P", "B"}, poc : Nat,
                 pts : Nat, time : Nat, cc : BOOLEAN]
    <3> HIDE DEF n
    <3> QED BY <1>2, <2>1, ElementOfSeq
  <2> HIDE DEF rec, n
  <2> QED BY <1>2, <2>2 DEF Numbered, Captions
<1>4. toWrite \o ud.list = ud.list /\ WaitingNumbers = NumbersOf(ud.list) /\ Once(ud.list)
  BY <1>1, <1>2 DEF UserDataInv, WaitingNumbers
<1>5. InThree(framesDecoded, WaitingNumbers, PassedNumbers, missed)
  BY DEF UserDataInv
<1>6. n \notin WaitingNumbers \cup PassedNumbers \cup missed /\ 1 .. n = (1 .. framesDecoded) \cup {n}
  BY <1>2, <1>5 DEF InThree
<1> HIDE DEF c
<1>7. WorksOn(w, IF has THEN WaitingNumbers \cup {n} ELSE WaitingNumbers) /\ (c.fmt # "mpeg" /\ Counted(ud) => Counted(w))
  <2> HIDE DEF n
  <2> QED BY <1>2, <1>3, <1>4, <1>6, ProcessHas
<1>8. PassedNumbers' = PassedNumbers /\ received' \o pkg_buf' = received \o pkg_buf
  BY <1>1 DEF PassedNumbers
<1>9. /\ \/ /\ ud' = [list |-> w.list, cc_num |-> w.cc_num, curr_poc |-> w.curr_poc,
                      scte_enable |-> w.scte_enable, flush |-> w.flush]
            /\ toWrite' = w.out /\ missed' = IF has THEN missed ELSE missed \cup {n}
         \/ missed' = missed \cup {n} /\ UNCHANGED <<ud, toWrite>>
  BY <1>3 DEF ReadRecord, c
<1> HIDE DEF w, n
<1>10. CASE /\ ud' = [list |-> w.list, cc_num |-> w.cc_num, curr_poc |-> w.curr_poc,
                     scte_enable |-> w.scte_enable, flush |-> w.flush]
            /\ toWrite' = w.out /\ missed' = IF has THEN missed ELSE missed \cup {n}
  <2>1. w \in Works /\ ud'.list = w.list /\ ud'.cc_num = w.cc_num
    BY <1>7, <1>10 DEF WorksOn
  <2>2. ud' \in Drivers /\ toWrite' \in Seq(Captions)
    BY <1>10, <2>1 DEF Drivers, Works
  <2>3. Once(toWrite' \o ud'.list) /\ WaitingNumbers' = IF has THEN WaitingNumbers \cup {n} ELSE WaitingNumbers
    BY <1>7, <1>10, <2>1 DEF WorksOn, WaitingNumbers
  <2>4. InThree(framesDecoded', WaitingNumbers', PassedNumbers', missed')
    <3>1. CASE has
      BY <1>1, <1>5, <1>6, <1>8, <1>10, <2>3, <3>1 DEF InThree
    <3>2. CASE ~has
      BY <1>1, <1>5, <1>6, <1>8, <1>10, <2>3, <3>2 DEF InThree
    <3> QED BY <3>1, <3>2
  <2>5. UserDataTypes'
    BY <1>1, <1>2, <2>2 DEF UserDataTypes
  <2>6. UserDataInv'
    BY <1>1, <1>8, <2>3, <2>4, <2>5 DEF UserDataInv
  <2>7. Counted(w) => Counted(ud')
    BY <2>1 DEF Counted
  <2> QED BY <1>3, <1>7, <2>6, <2>7 DEF n
<1>11. CASE missed' = missed \cup {n} /\ UNCHANGED <<ud, toWrite>>
  <2>1. WaitingNumbers' = WaitingNumbers /\ Once(toWrite' \o ud'.list)
    BY <1>11 DEF WaitingNumbers, UserDataInv
  <2>2. InThree(framesDecoded', WaitingNumbers', PassedNumbers', missed')
    BY <1>1, <1>5, <1>6, <1>8, <1>11, <2>1 DEF InThree
  <2>3. UserDataTypes'
    BY <1>1, <1>2, <1>11 DEF UserDataTypes
  <2>4. UserDataInv'
    BY <1>1, <1>8, <2>1, <2>2, <2>3 DEF UserDataInv
  <2> QED BY <1>11, <2>4 DEF Counted
<1> QED BY <1>9, <1>10, <1>11

LEMMA PackageWritten ==
    ASSUME UserDataInv, userdata_package_write
    PROVE  UserDataInv'
<1> DEFINE h == Head(toWrite)
           q == toWrite \o ud.list
           all == received \o pkg_buf
<1>1. /\ UserDataTypes /\ toWrite # <<>> /\ toWrite' = Tail(toWrite) /\ written' = Append(written, h.n)
      /\ UNCHANGED <<stream, framesDecoded, open_cnt, ud, received>>
      /\ \/ pkg_buf' = Append(pkg_buf, h.n) /\ missed' = missed
         \/ missed' = missed \cup {h.n} /\ pkg_buf' = pkg_buf
  BY DEF UserDataInv, userdata_package_write
<1>2. toWrite \in Seq(Captions) /\ ud.list \in Seq(Captions) /\ h \in Captions /\ h.n \in Nat
      /\ Tail(toWrite) \in Seq(Captions)
  <2>1. toWrite \in Seq(Captions) /\ ud.list \in Seq(Captions)
    BY <1>1 DEF UserDataTypes, Drivers
  <2>2. h \in Captions /\ Tail(toWrite) \in Seq(Captions)
    BY <1>1, <2>1, HeadTailProperties
  <2> QED BY <2>1, <2>2 DEF Captions
<1>3. q \in Seq(Captions) /\ q # <<>> /\ Head(q) = h /\ Tail(q) = Tail(toWrite) \o ud.list
  BY <1>1, <1>2, SMTT(30)
<1>4. Once(q) /\ NumbersOf(q) = WaitingNumbers
  BY DEF UserDataInv, WaitingNumbers
<1> HIDE DEF q, h
<1>5. h.n \in WaitingNumbers /\ Once(Tail(q)) /\ NumbersOf(Tail(q)) = WaitingNumbers \ {h.n}
  BY <1>3, <1>4, FirstGoes
<1>6. Once(toWrite' \o ud'.list) /\ WaitingNumbers' = WaitingNumbers \ {h.n}
  BY <1>1, <1>3, <1>5 DEF WaitingNumbers
<1>7. InThree(framesDecoded, WaitingNumbers, PassedNumbers, missed) /\ PassedNumbers \subseteq ToSet(written) /\ IsInjective(all)
      /\ (open_cnt = 0 => toWrite = <<>>)
  BY DEF UserDataInv
<1>8. written' \in Seq(Nat) /\ ToSet(written) \subseteq ToSet(written') /\ h.n \in ToSet(written')
  <2>1. written \in Seq(Nat)
    BY <1>1 DEF UserDataTypes
  <2>2. /\ Append(written, h.n) \in Seq(Nat) /\ Len(Append(written, h.n)) = Len(written) + 1
        /\ Append(written, h.n)[Len(written) + 1] = h.n
        /\ \A i \in 1 .. Len(written) : Append(written, h.n)[i] = written[i]
    BY <1>2, <2>1
  <2>3. written' \in Seq(Nat) /\ Len(written') = Len(written) + 1 /\ written'[Len(written) + 1] = h.n
        /\ \A i \in 1 .. Len(written) : written'[i] = written[i]
    BY <1>1, <2>2
  <2>4. \A i \in 1 .. Len(written) + 1 : i \in DOMAIN written'
    BY <2>3
  <2> QED BY <2>1, <2>3, <2>4, SMTT(30) DEF ToSet
<1>9. all \in Seq(Nat) /\ ToSet(all) = PassedNumbers /\ received \in Seq(Nat) /\ pkg_buf \in Seq(Nat)
  BY <1>1 DEF UserDataTypes, PassedNumbers
<1>10. CASE pkg_buf' = Append(pkg_buf, h.n) /\ missed' = missed
  <2>1. received' \o pkg_buf' = Append(all, h.n) /\ pkg_buf' \in Seq(Nat)
    BY <1>1, <1>2, <1>9, <1>10, SMTT(30)
  <2> HIDE DEF all
  <2>2. IsInjective(Append(all, h.n)) /\ ToSet(Append(all, h.n)) = PassedNumbers \cup {h.n}
    <3>1. h.n \notin ToSet(all)
      BY <1>5, <1>7, <1>9 DEF InThree
    <3> QED BY <1>2, <1>7, <1>9, <3>1, NumberGoesIn
  <2>3. PassedNumbers' = PassedNumbers \cup {h.n} /\ IsInjective(received' \o pkg_buf')
    BY <2>1, <2>2 DEF PassedNumbers
  <2>4. InThree(framesDecoded', WaitingNumbers', PassedNumbers', missed')
    BY <1>1, <1>5, <1>6, <1>7, <1>10, <2>3 DEF InThree
  <2>5. PassedNumbers' \subseteq ToSet(written')
    BY <1>7, <1>8, <2>3
  <2>6. UserDataTypes'
    BY <1>1, <1>2, <1>8, <2>1 DEF UserDataTypes
  <2> QED BY <1>1, <1>6, <1>7, <2>3, <2>4, <2>5, <2>6 DEF UserDataInv
<1>11. CASE missed' = missed \cup {h.n} /\ pkg_buf' = pkg_buf
  <2>1. PassedNumbers' = PassedNumbers /\ IsInjective(received' \o pkg_buf')
    BY <1>1, <1>7, <1>11 DEF PassedNumbers
  <2>2. InThree(framesDecoded', WaitingNumbers', PassedNumbers', missed')
    BY <1>1, <1>5, <1>6, <1>7, <1>11, <2>1 DEF InThree
  <2>3. PassedNumbers' \subseteq ToSet(written')
    BY <1>7, <1>8, <2>1
  <2>4. UserDataTypes'
    BY <1>1, <1>2, <1>8, <1>11 DEF UserDataTypes
  <2> QED BY <1>1, <1>6, <1>7, <2>1, <2>2, <2>3, <2>4 DEF UserDataInv
<1> QED BY <1>1, <1>10, <1>11

LEMMA PackageRead ==
    ASSUME UserDataInv, UserdataRead
    PROVE  UserDataInv'
<1>1. /\ UserDataTypes /\ pkg_buf # <<>> /\ pkg_buf' = Tail(pkg_buf)
      /\ received' = Append(received, Head(pkg_buf)) /\ open_cnt > 0
      /\ UNCHANGED <<stream, framesDecoded, open_cnt, ud, toWrite, written, missed>>
  BY DEF UserDataInv, UserdataRead
<1>2. received \in Seq(Nat) /\ pkg_buf \in Seq(Nat)
  BY <1>1 DEF UserDataTypes
<1>3. received' \in Seq(Nat) /\ pkg_buf' \in Seq(Nat)
  BY <1>1, <1>2
<1>4. Append(received, Head(pkg_buf)) \o Tail(pkg_buf) = received \o pkg_buf
  BY <1>1, <1>2, SMTT(30)
<1>5. received' \o pkg_buf' = received \o pkg_buf /\ PassedNumbers' = PassedNumbers /\ WaitingNumbers' = WaitingNumbers
  BY <1>1, <1>4 DEF PassedNumbers, WaitingNumbers
<1>6. UserDataTypes'
  BY <1>1, <1>3 DEF UserDataTypes
<1> QED BY <1>1, <1>5, <1>6 DEF UserDataInv

LEMMA DriverNew == NewDriver \in Drivers /\ NewDriver.list = <<>> /\ Counted(NewDriver)
BY EmptySeq DEF NewDriver, Drivers, Counted

LEMMA DeviceOpened ==
    ASSUME UserDataInv, NEW u, UserdataOpen(u)
    PROVE  UserDataInv' /\ (Counted(ud) => Counted(ud'))
<1>1. /\ UserDataTypes /\ open_cnt \in Nat /\ open_cnt' = open_cnt + 1 /\ ud \in Drivers
      /\ UNCHANGED <<stream, framesDecoded, toWrite, written, received, missed>>
      /\ open_cnt = 0 => ud.list = <<>> /\ pkg_buf = <<>>
  BY DEF UserDataInv, UserDataTypes, UserdataOpen
<1>2. /\ pkg_buf' = pkg_buf /\ ud'.list = ud.list /\ ud' \in Drivers /\ (Counted(ud) => Counted(ud'))
  <2>1. CASE open_cnt = 0
    BY <1>1, <2>1, DriverNew DEF UserdataOpen
  <2>2. CASE open_cnt # 0
    BY <1>1, <2>2 DEF UserdataOpen
  <2> QED BY <2>1, <2>2
<1>3. open_cnt' \in Nat /\ open_cnt' # 0
  BY <1>1
<1> QED BY <1>1, <1>2, <1>3, UserDataStays

LEMMA DeviceClosed ==
    ASSUME UserDataInv, NEW u, UserdataClose(u)
    PROVE  UserDataInv' /\ (Counted(ud) => Counted(ud'))
<1>1. /\ UserDataTypes /\ toWrite = <<>> /\ open_cnt' = 0
      /\ UNCHANGED <<stream, framesDecoded, toWrite, written, received>>
  BY DEF UserDataInv, UserdataClose
<1>2. CASE open_cnt = 0
  <2>1. UNCHANGED <<missed, ud, pkg_buf>> /\ ud \in Drivers
    BY <1>1, <1>2 DEF UserdataClose, UserDataTypes
  <2>2. UserDataInv'
    BY <1>1, <1>2, <2>1, UserDataStays
  <2> QED BY <2>1, <2>2
<1>3. CASE open_cnt # 0
  <2>1. /\ missed' = missed \cup {ud.list[i].n : i \in DOMAIN ud.list} \cup ToSet(pkg_buf)
        /\ ud' = NewDriver /\ pkg_buf' = <<>>
    BY <1>3 DEF UserdataClose
  <2>2. ud.list \in Seq(Captions) /\ received \in Seq(Nat) /\ pkg_buf \in Seq(Nat)
    BY <1>1 DEF UserDataTypes, Drivers
  <2>3. toWrite \o ud.list = ud.list /\ WaitingNumbers = {ud.list[i].n : i \in DOMAIN ud.list}
    BY <1>1, <2>2 DEF WaitingNumbers, NumbersOf
  <2>4. toWrite' \o ud'.list = <<>> /\ WaitingNumbers' = {} /\ Once(toWrite' \o ud'.list)
    <3>1. toWrite' \o ud'.list = <<>>
      BY <1>1, <2>1, DriverNew
    <3> QED BY <3>1 DEF WaitingNumbers, NumbersOf, Once
  <2>5. received' \o pkg_buf' = received
    BY <1>1, <2>1, <2>2
  <2>6. IsInjective(received) /\ PassedNumbers = ToSet(received) \cup ToSet(pkg_buf)
        /\ ToSet(received) \cap ToSet(pkg_buf) = {}
    BY <2>2, NumbersApart DEF UserDataInv, PassedNumbers
  <2>7. PassedNumbers' = ToSet(received)
    BY <2>5 DEF PassedNumbers
  <2>8. InThree(framesDecoded', WaitingNumbers', PassedNumbers', missed')
    <3>1. InThree(framesDecoded, WaitingNumbers, PassedNumbers, missed)
      BY DEF UserDataInv
    <3> QED BY <1>1, <2>1, <2>3, <2>4, <2>6, <2>7, <3>1 DEF InThree
  <2>9. PassedNumbers' \subseteq ToSet(written')
    BY <1>1, <2>6, <2>7 DEF UserDataInv
  <2>10. UserDataTypes'
    BY <1>1, <2>1, DriverNew, EmptySeq DEF UserDataTypes
  <2>11. UserDataInv'
    BY <1>1, <2>1, <2>4, <2>5, <2>6, <2>8, <2>9, <2>10, DriverNew DEF UserDataInv
  <2> QED BY <2>1, <2>11, DriverNew
<1> QED BY <1>2, <1>3

LEMMA UserDataInvInit == UserDataInit => UserDataInv /\ Counted(ud)
<1> SUFFICES ASSUME UserDataInit PROVE UserDataInv /\ Counted(ud)
  OBVIOUS
<1>1. UserDataTypes /\ ud.list = <<>> /\ Counted(ud)
  <2>1. stream \in Seq([fmt : {"scte", "mpeg", "h264"}, type : {"I", "P", "B"}, poc : Nat,
                        pts : Nat, time : Nat, cc : BOOLEAN])
    BY UserDataAssumption DEF UserDataInit
  <2>2. 0 \in 0 .. Len(stream)
    BY <2>1
  <2> QED BY <2>2, DriverNew, EmptySeq DEF UserDataInit, UserDataTypes
<1>2. toWrite \o ud.list = <<>> /\ received \o pkg_buf = <<>>
  BY <1>1 DEF UserDataInit
<1>3. WaitingNumbers = {} /\ PassedNumbers = {} /\ Once(toWrite \o ud.list) /\ IsInjective(received \o pkg_buf)
  BY <1>2 DEF WaitingNumbers, PassedNumbers, NumbersOf, ToSet, Once, IsInjective
<1>4. InThree(framesDecoded, WaitingNumbers, PassedNumbers, missed)
  BY <1>3 DEF InThree, UserDataInit
<1> QED BY <1>1, <1>3, <1>4 DEF UserDataInv, UserDataInit

LEMMA UserDataInvNext ==
    ASSUME UserDataInv, FullHasFirst(ud), [UserDataNext]_udVars
    PROVE  /\ UserDataInv'
           /\ Counted(ud) /\ (\A i \in DOMAIN stream : stream[i].fmt # "mpeg") => Counted(ud')
<1>1. UserDataTypes /\ ud \in Drivers /\ open_cnt \in Nat
  BY DEF UserDataInv, UserDataTypes
<1>2. CASE FlushDriver
  <2>1. ud' \in Drivers /\ ud'.list = ud.list /\ ud'.cc_num = ud.cc_num
    BY <1>1, <1>2 DEF FlushDriver, Drivers
  <2>2. UNCHANGED <<stream, framesDecoded, open_cnt, toWrite, pkg_buf, written, received, missed>>
    BY <1>2 DEF FlushDriver
  <2>3. UserDataInv'
    BY <1>1, <2>1, <2>2, UserDataStays
  <2> QED BY <2>1, <2>3 DEF Counted
<1>3. CASE ReadRecord
  <2>1. framesDecoded + 1 \in DOMAIN stream
    <3>1. stream \in Seq([fmt : {"scte", "mpeg", "h264"}, type : {"I", "P", "B"}, poc : Nat,
                        pts : Nat, time : Nat, cc : BOOLEAN])
      BY <1>1, UserDataAssumption DEF UserDataTypes
    <3> QED BY <1>1, <1>3, <3>1 DEF UserDataTypes, ReadRecord
  <2> QED BY <1>3, <2>1, RecordRead
<1>4. CASE VideoPlays \/ UNCHANGED udVars
  <2>1. UNCHANGED <<stream, framesDecoded, open_cnt, ud, toWrite, pkg_buf, written, received, missed>>
    BY <1>4 DEF VideoPlays, udVars
  <2>2. UserDataInv'
    BY <1>1, <2>1, UserDataStays
  <2> QED BY <2>1, <2>2
<1>5. CASE userdata_package_write
  <2>1. ud' = ud
    BY <1>5 DEF userdata_package_write
  <2> QED BY <1>5, <2>1, PackageWritten
<1>6. CASE UserdataRead
  <2>1. ud' = ud
    BY <1>6 DEF UserdataRead
  <2> QED BY <1>6, <2>1, PackageRead
<1>7. ASSUME NEW u \in {"cc", "afd"}, UserdataOpen(u) \/ UserdataClose(u)
      PROVE  UserDataInv' /\ (Counted(ud) => Counted(ud'))
  BY <1>7, DeviceOpened, DeviceClosed
<1> QED BY <1>2, <1>3, <1>4, <1>5, <1>6, <1>7 DEF UserDataNext

LEMMA UserDataKeeps == UserDataInv => CaptionsKept
<1> SUFFICES ASSUME UserDataInv PROVE CaptionsKept
  OBVIOUS
<1> DEFINE waiting == {ud.list[i].n : i \in DOMAIN ud.list} \cup {toWrite[i].n : i \in DOMAIN toWrite}
<1>1. ud.list \in Seq(Captions) /\ toWrite \in Seq(Captions) /\ framesDecoded \in Nat
  BY DEF UserDataInv, UserDataTypes, Drivers
<1>2. WaitingNumbers = NumbersOf(toWrite) \cup NumbersOf(ud.list)
  BY <1>1, NumbersTogether DEF WaitingNumbers
<1>3. waiting = WaitingNumbers
  BY <1>2 DEF NumbersOf
<1>4. InThree(framesDecoded, WaitingNumbers, PassedNumbers, missed) /\ IsInjective(received \o pkg_buf)
      /\ PassedNumbers \subseteq ToSet(written)
  BY DEF UserDataInv
<1>5. Cardinality(WaitingNumbers) + Cardinality(PassedNumbers) + Cardinality(missed) = framesDecoded
  BY <1>1, <1>4, ThreeCounted
<1>6. 1 .. framesDecoded = WaitingNumbers \cup PassedNumbers \cup missed
  BY <1>4 DEF InThree
<1> HIDE DEF waiting
<1> QED BY <1>3, <1>4, <1>5, <1>6 DEF CaptionsKept, PassedNumbers, waiting

(* While the list of captions is taken for full only when it is not empty      *)
(* (otherwise aml_add_cc_data reads through a null pointer), every caption of  *)
(* any stream is where it should be exactly once: waiting, in the ring,        *)
(* received, or counted as missed (aml_mpeg_userdata_package,                  *)
(* aml_h264_userdata_package, userdata_package_write, UserdataClose).          *)
THEOREM UserDataKept == UserDataSpec /\ []FullHasFirst(ud) => []CaptionsKept
<1>1. UserDataInit => UserDataInv
  BY UserDataInvInit
<1>2. UserDataInv /\ FullHasFirst(ud) /\ [UserDataNext]_udVars => UserDataInv'
  BY UserDataInvNext
<1>3. UserDataInv => CaptionsKept
  BY UserDataKeeps
<1> QED BY <1>1, <1>2, <1>3, PTL DEF UserDataSpec

(* Without MPEG captions the count of the list is right, so that every caption *)
(* of any stream is accounted for, however many wait.                          *)
THEOREM UserDataCounted ==
    ASSUME \A s \in Streams : \A i \in DOMAIN s : s[i].fmt # "mpeg"
    PROVE  UserDataSpec => [](Counted(ud) /\ CaptionsKept)
<1> DEFINE Inv == UserDataInv /\ Counted(ud)
<1>1. UserDataInit => Inv
  BY UserDataInvInit
<1>2. Inv /\ [UserDataNext]_udVars => Inv'
  <2> SUFFICES ASSUME Inv, [UserDataNext]_udVars PROVE Inv'
    OBVIOUS
  <2>1. FullHasFirst(ud)
    BY UserDataAssumption DEF FullHasFirst, Counted
  <2>2. \A i \in DOMAIN stream : stream[i].fmt # "mpeg"
    BY DEF UserDataInv, UserDataTypes
  <2> QED BY <2>1, <2>2, UserDataInvNext
<1>3. Inv => Counted(ud) /\ CaptionsKept
  BY UserDataKeeps
<1> HIDE DEF Inv
<1> QED BY <1>1, <1>2, <1>3, PTL DEF UserDataSpec
=============================================================================
