-------------------------- MODULE SubpictureProofs --------------------------
(* Subpictures and characters, for every value of the constants: the run       *)
(* lengths of DVD and VobSub and the characters of SCTE-27. At the end, what   *)
(* is proved of each decoder is carried to the behaviours that the runs check. *)
EXTENDS DecoderProofs

-----------------------------------------------------------------------------
(* The run lengths of DVD and VobSub                                           *)

\* The parts of a sequence stand one after the other, from the places given
PlacesOf(parts, whole, places) ==
    /\ places \in [0 .. Len(parts) -> Nat] /\ places[0] = 0 /\ Len(whole) = places[Len(parts)]
    /\ \A i \in 1 .. Len(parts) : places[i] = places[i - 1] + Len(parts[i]) /\ places[i] <= Len(whole)
    /\ \A i \in 1 .. Len(parts) : \A j \in 1 .. Len(parts[i]) : whole[places[i - 1] + j] = parts[i][j]

LEMMA OneAfterOther ==
    ASSUME NEW S, NEW q \in Seq(S), NEW r \in Seq(S)
    PROVE  /\ Len(q \o r) = Len(q) + Len(r)
           /\ \A m \in 1 .. Len(q) : (q \o r)[m] = q[m]
           /\ \A j \in 1 .. Len(r) : (q \o r)[Len(q) + j] = r[j]
OBVIOUS

LEMMA FlattenedParts ==
    ASSUME NEW S, NEW parts \in Seq(Seq(S))
    PROVE  /\ FlattenSeq(parts) \in Seq(S)
           /\ \E places : PlacesOf(parts, FlattenSeq(parts), places)
<1> DEFINE N == Len(parts)
           Q == Seq(S)
           f(w) == [i \in 1 .. N |-> IF i = 1 THEN parts[i] ELSE w[i - 1] \o parts[i]]
           flat == CHOOSE w : w = f(w)
           F == [p \in (1 .. N) \X Q |-> IF p[1] = 1 THEN parts[1] ELSE p[2] \o parts[p[1]]]
<1>1. N \in Nat /\ <<>> \in Q /\ \A i \in 1 .. N : parts[i] \in Q
  OBVIOUS
<1>2. CASE N = 0
  <2> DEFINE places == [i \in 0 .. 0 |-> 0]
  <2>1. FlattenSeq(parts) = parts /\ parts = <<>>
    BY <1>2 DEF FlattenSeq
  <2>2. PlacesOf(parts, <<>>, places)
    BY <2>1 DEF PlacesOf
  <2> QED BY <2>1, <2>2
<1>3. CASE N # 0
  <2>1. FlattenSeq(parts) = flat[N]
    BY <1>3 DEF FlattenSeq
  <2>2. F \in [(1 .. N) \X Q -> Q]
        /\ \A i \in 1 .. N, q \in Q : F[<<i, q>>] = IF i = 1 THEN parts[i] ELSE q \o parts[i]
    <3> HIDE DEF N, Q
    <3>1. ASSUME NEW q \in Q, NEW i \in 1 .. N PROVE q \o parts[i] \in Q
      BY <1>1, <3>1 DEF Q
    <3> QED BY <1>1, <1>3, <3>1
  <2> HIDE DEF N, flat, F
  <2>3. PICK v \in [0 .. N -> Q] : Follows(v, N, <<>>, F)
    BY <1>1, <2>2, RecursionExists
  <2> DEFINE w == [i \in 1 .. N |-> v[i]]
  <2>4. w = f(w)
    <3>1. \A i \in 1 .. N : w[i] = IF i = 1 THEN parts[i] ELSE w[i - 1] \o parts[i]
      <4> HIDE DEF Q
      <4> SUFFICES ASSUME NEW i \in 1 .. N PROVE w[i] = IF i = 1 THEN parts[i] ELSE w[i - 1] \o parts[i]
        OBVIOUS
      <4>1. v[i] = F[<<i, v[i - 1]>>] /\ v[i - 1] \in Q
        BY <1>1, <2>3 DEF Follows
      <4>2. i = 1 \/ w[i - 1] = v[i - 1]
        BY <1>1, SMTT(30)
      <4> QED BY <1>1, <2>2, <4>1, <4>2
    <3> QED BY <3>1
  <2> HIDE DEF w
  <2>5. flat = f(flat)
    BY <2>4, Zenon DEF flat
  <2>6. flat[1] = parts[1] /\ \A i \in 2 .. N : flat[i] = flat[i - 1] \o parts[i]
    <3>1. \A i \in 1 .. N : flat[i] = IF i = 1 THEN parts[i] ELSE flat[i - 1] \o parts[i]
      BY <2>5
    <3>2. 1 \in 1 .. N
      BY <1>1, <1>3
    <3>3. ASSUME NEW i \in 2 .. N PROVE flat[i] = flat[i - 1] \o parts[i]
      <4>1. i \in 1 .. N /\ i # 1
        BY <1>1
      <4> QED BY <3>1, <4>1
    <3> QED BY <3>1, <3>2, <3>3
  <2> DEFINE T == {i \in 0 .. N : i = 0 \/ flat[i] \in Q}
  <2>7. \A i \in 1 .. N : flat[i] \in Q
    <3>1. 0 \in T /\ \A i \in 1 .. N : i - 1 \in T => i \in T
      <4> HIDE DEF Q
      <4>1. ASSUME NEW i \in 1 .. N, i - 1 \in T PROVE i \in T
        <5>1. CASE i = 1
          BY <1>1, <2>6, <5>1
        <5>2. CASE i # 1
          <6>1. i \in 2 .. N /\ i - 1 # 0
            BY <1>1, <5>2
          <6>2. flat[i - 1] \in Q /\ parts[i] \in Q /\ flat[i] = flat[i - 1] \o parts[i]
            BY <1>1, <2>6, <4>1, <6>1
          <6>3. flat[i] \in Q
            BY <6>2 DEF Q
          <6> QED BY <1>1, <6>3
        <5> QED BY <5>1, <5>2
      <4>2. 0 \in T
        BY <1>1
      <4> QED BY <4>1, <4>2
    <3> HIDE DEF T
    <3>2. \A i \in 0 .. N : i \in T
      BY <1>1, <3>1, UpTo
    <3> QED BY <3>2 DEF T
  <2> DEFINE places == [i \in 0 .. N |-> IF i = 0 THEN 0 ELSE Len(flat[i])]
  <2>8. places \in [0 .. N -> Nat] /\ places[0] = 0 /\ Len(flat[N]) = places[N]
    BY <1>1, <1>3, <2>7
  <2>9. ASSUME NEW i \in 1 .. N
        PROVE  /\ places[i] = places[i - 1] + Len(parts[i])
               /\ \A m \in 1 .. places[i - 1] : flat[i][m] = flat[i - 1][m]
               /\ \A j \in 1 .. Len(parts[i]) : flat[i][places[i - 1] + j] = parts[i][j]
    <3>1. CASE i = 1
      BY <1>1, <2>6, <3>1
    <3>2. CASE i # 1
      <4>1. i - 1 \in 1 .. N /\ i \in 2 .. N
        BY <1>1, <3>2
      <4>2. flat[i] = flat[i - 1] \o parts[i] /\ flat[i - 1] \in Q /\ parts[i] \in Q
        BY <1>1, <2>6, <2>7, <4>1
      <4>3. places[i] = Len(flat[i]) /\ places[i - 1] = Len(flat[i - 1])
        BY <1>1, <4>1
      <4> DEFINE a == places[i - 1]
      <4>4. places[i] = Len(flat[i]) /\ a = Len(flat[i - 1])
        BY <4>3
      <4> HIDE DEF places, a
      <4>5. /\ places[i] = a + Len(parts[i])
            /\ \A m \in 1 .. a : flat[i][m] = flat[i - 1][m]
            /\ \A j \in 1 .. Len(parts[i]) : flat[i][a + j] = parts[i][j]
        <5> DEFINE q == flat[i - 1]  r == parts[i]
        <5>1. q \in Seq(S) /\ r \in Seq(S)
          BY <4>2
        <5> HIDE DEF q, r
        <5>2. /\ Len(q \o r) = Len(q) + Len(r)
              /\ \A m \in 1 .. Len(q) : (q \o r)[m] = q[m]
              /\ \A j \in 1 .. Len(r) : (q \o r)[Len(q) + j] = r[j]
          BY <5>1, OneAfterOther
        <5>3. flat[i] = q \o r /\ a = Len(q) /\ places[i] = Len(q \o r)
          BY <4>2, <4>4 DEF q, r
        <5>4. /\ places[i] = a + Len(r)
              /\ \A m \in 1 .. a : flat[i][m] = q[m]
              /\ \A j \in 1 .. Len(r) : flat[i][a + j] = r[j]
          BY <5>2, <5>3
        <5> QED BY <5>4 DEF q, r
      <4> QED BY <4>5 DEF a
    <3> QED BY <3>1, <3>2
  <2> HIDE DEF places
  <2> DEFINE holds(n) == \A i \in 1 .. n : /\ places[i] <= places[n]
                                           /\ \A j \in 1 .. Len(parts[i]) : flat[n][places[i - 1] + j] = parts[i][j]
             U == {n \in 0 .. N : holds(n)}
  <2>10. 0 \in U /\ \A n \in 1 .. N : n - 1 \in U => n \in U
    <3>1. ASSUME NEW n \in 1 .. N, holds(n - 1) PROVE holds(n)
      <4> SUFFICES ASSUME NEW i \in 1 .. n
                   PROVE /\ places[i] <= places[n]
                         /\ \A j \in 1 .. Len(parts[i]) : flat[n][places[i - 1] + j] = parts[i][j]
        OBVIOUS
      <4>1. CASE i = n
        BY <1>1, <2>8, <2>9, <4>1, SMTT(30)
      <4>2. CASE i # n
        <5>1. i \in 1 .. (n - 1) /\ i \in 1 .. N /\ n - 1 \in 0 .. N /\ i - 1 \in 0 .. N
          BY <1>1, <4>2
        <5>2. places[i] <= places[n - 1] /\ places[n] = places[n - 1] + Len(parts[n]) /\ places[i] = places[i - 1] + Len(parts[i])
          BY <2>9, <3>1, <5>1
        <5>3. places[i] \in Nat /\ places[i - 1] \in Nat /\ places[n] \in Nat /\ places[n - 1] \in Nat
              /\ Len(parts[n]) \in Nat /\ Len(parts[i]) \in Nat
          BY <1>1, <2>8, <5>1, SMTT(30)
        <5>4. ASSUME NEW j \in 1 .. Len(parts[i]) PROVE flat[n][places[i - 1] + j] = parts[i][j]
          <6>1. places[i - 1] + j \in 1 .. places[n - 1]
            <7>1. j \in Nat /\ 1 <= j /\ j <= Len(parts[i])
              BY <5>3
            <7> DEFINE a == places[i - 1]  b == places[i]  c == places[n - 1]  d == Len(parts[i])
            <7>2. a \in Nat /\ b \in Nat /\ c \in Nat /\ d \in Nat /\ b = a + d /\ b <= c
              BY <5>2, <5>3
            <7>3. j \in Nat /\ 1 <= j /\ j <= d
              BY <7>1
            <7> HIDE DEF a, b, c, d
            <7>4. a + j \in 1 .. c
              BY <7>2, <7>3
            <7> QED BY <7>4 DEF a, c
          <6>2. flat[n][places[i - 1] + j] = flat[n - 1][places[i - 1] + j]
            BY <2>9, <6>1
          <6>3. flat[n - 1][places[i - 1] + j] = parts[i][j]
            BY <3>1, <5>1
          <6> QED BY <6>2, <6>3
        <5> QED BY <5>2, <5>3, <5>4, SMTT(30)
      <4> QED BY <4>1, <4>2
    <3>2. holds(0)
      OBVIOUS
    <3> HIDE DEF holds
    <3> QED BY <1>1, <3>1, <3>2
  <2>11. N \in U
    <3> HIDE DEF U
    <3>1. \A i \in 0 .. N : i \in U
      BY <1>1, <2>10, UpTo
    <3> QED BY <1>1, <3>1
  <2>12. PlacesOf(parts, flat[N], places)
    BY <2>8, <2>9, <2>11 DEF PlacesOf, N
  <2>13. flat[N] \in Q
    BY <1>1, <1>3, <2>7
  <2> QED BY <2>1, <2>12, <2>13
<1> QED BY <1>2, <1>3

-----------------------------------------------------------------------------
Nibbles == 0 .. 15
Colours == 0 .. 3
RunsOf == Seq((Nat \ {0}) \X Colours)

\* The form of a run's code: its nibbles
CodeOf(run, colour, last) == (IF last THEN 0 ELSE run) * 4 + colour

\* A part stands in the nibbles behind a place
StandsAt(nibbles, p, piece) ==
    p + Len(piece) <= Len(nibbles) /\ \A j \in 1 .. Len(piece) : nibbles[p + j] = piece[j]

LEMMA CodeForms ==
    ASSUME NEW run \in Nat \ {0}, NEW colour \in Colours, NEW last \in BOOLEAN, last \/ run < 256
    PROVE  /\ Encoded(run, colour, last) \in Seq(Nibbles)
           /\ Len(Encoded(run, colour, last)) \in 1 .. 4
<1> DEFINE c == CodeOf(run, colour, last)
<1>1. c \in 0 .. 1023 /\ (last => c < 4) /\ (run < 64 /\ ~last => c < 256)
      /\ (run < 16 /\ ~last => c < 64) /\ (run < 4 /\ ~last => c < 16)
  BY DEF CodeOf, Colours
<1>2. Encoded(run, colour, last)
        = IF last \/ run >= 64 THEN <<c \div 4096, (c \div 256) % 16, (c \div 16) % 16, c % 16>>
          ELSE IF run >= 16 THEN <<c \div 256, (c \div 16) % 16, c % 16>>
          ELSE IF run >= 4 THEN <<c \div 16, c % 16>> ELSE <<c>>
  BY DEF Encoded, CodeOf
<1> HIDE DEF c
<1>3. /\ c \div 4096 \in Nibbles /\ (c \div 256) % 16 \in Nibbles /\ (c \div 16) % 16 \in Nibbles
      /\ c % 16 \in Nibbles /\ (c < 256 => c \div 16 \in Nibbles) /\ (c < 16 => c \in Nibbles)
      /\ c \div 256 \in Nibbles
  BY <1>1 DEF Nibbles
<1> QED BY <1>1, <1>2, <1>3

LEMMA WordOf ==
    ASSUME NEW nibbles \in Seq(Nibbles), NEW p \in Nat
    PROVE  \E n \in [1 .. 4 -> Nibbles] :
              /\ \A i \in 1 .. 4 : p + i <= Len(nibbles) => n[i] = nibbles[p + i]
              /\ GetWord(nibbles, p) = n[1] * 4096 + n[2] * 256 + n[3] * 16 + n[4]
<1> DEFINE n == [i \in 1 .. 4 |-> IF p + i <= Len(nibbles) THEN nibbles[p + i] ELSE 0]
<1>1. n \in [1 .. 4 -> Nibbles]
  BY SMTT(30) DEF Nibbles
<1>2. GetWord(nibbles, p) = n[1] * 4096 + n[2] * 256 + n[3] * 16 + n[4]
  BY DEF GetWord
<1>3. \A i \in 1 .. 4 : p + i <= Len(nibbles) => n[i] = nibbles[p + i]
  OBVIOUS
<1> HIDE DEF n
<1> QED BY <1>1, <1>2, <1>3, SMTT(30)

\* A code is read as it was written, whatever comes after it
LEMMA CodeRead ==
    ASSUME NEW nibbles \in Seq(Nibbles), NEW p \in Nat,
           NEW run \in Nat \ {0}, NEW colour \in Colours, NEW last \in BOOLEAN, last \/ run < 256,
           StandsAt(nibbles, p, Encoded(run, colour, last))
    PROVE  DecodeRL(GetWord(nibbles, p))
             = [nibbles |-> Len(Encoded(run, colour, last)), run |-> IF last THEN 0 ELSE run, colour |-> colour]
<1> DEFINE c == CodeOf(run, colour, last)
           w == GetWord(nibbles, p)
<1>1. PICK n \in [1 .. 4 -> Nibbles] :
              /\ \A i \in 1 .. 4 : p + i <= Len(nibbles) => n[i] = nibbles[p + i]
              /\ w = n[1] * 4096 + n[2] * 256 + n[3] * 16 + n[4]
  BY WordOf
<1>2. c \in Nat /\ c \div 4 = (IF last THEN 0 ELSE run) /\ c % 4 = colour /\ c < 1024
      /\ (last => c < 4)
  BY DEF CodeOf, Colours
<1>3. Encoded(run, colour, last)
        = IF last \/ run >= 64 THEN <<c \div 4096, (c \div 256) % 16, (c \div 16) % 16, c % 16>>
          ELSE IF run >= 16 THEN <<c \div 256, (c \div 16) % 16, c % 16>>
          ELSE IF run >= 4 THEN <<c \div 16, c % 16>> ELSE <<c>>
  BY DEF Encoded, CodeOf
<1>4. \A i \in 1 .. 4 : n[i] \in 0 .. 15
  BY DEF Nibbles
<1> HIDE DEF c
<1>5. Len(Encoded(run, colour, last)) <= 4
  BY <1>3
<1>6. \A j \in 1 .. Len(Encoded(run, colour, last)) : n[j] = Encoded(run, colour, last)[j]
  BY <1>1, <1>5, SMTT(30) DEF StandsAt
<1> HIDE DEF w
<1> DEFINE a == n[1]  b == n[2]  d == n[3]  e == n[4]
<1>7. a \in 0 .. 15 /\ b \in 0 .. 15 /\ d \in 0 .. 15 /\ e \in 0 .. 15 /\ w = a * 4096 + b * 256 + d * 16 + e
  BY <1>1, <1>4
<1>8. CASE last \/ run >= 64
  <2>1. Encoded(run, colour, last) = <<c \div 4096, (c \div 256) % 16, (c \div 16) % 16, c % 16>>
    BY <1>3, <1>8
  <2>2. a = c \div 4096 /\ b = (c \div 256) % 16 /\ d = (c \div 16) % 16 /\ e = c % 16
    BY <1>6, <2>1
  <2> HIDE DEF a, b, d, e
  <2>3. w = c
    BY <1>2, <1>7, <2>2
  <2>4. DecodeRL(w) = [nibbles |-> 4, run |-> (w \div 1) \div 4, colour |-> (w \div 1) % 4]
    <3>1. w \div 16384 = 0 /\ (w \div 4096) % 4 = 0 /\ (w \div 1024) % 4 = 0
      BY <1>2, <2>3
    <3> QED BY <3>1 DEF DecodeRL
  <2>5. w \div 1 = c
    BY <1>2, <2>3
  <2> QED BY <1>2, <2>1, <2>4, <2>5, SMTT(30) DEF w
<1>9. CASE ~last /\ run \in 16 .. 63
  <2>1. Encoded(run, colour, last) = <<c \div 256, (c \div 16) % 16, c % 16>>
    BY <1>3, <1>9
  <2>2. a = c \div 256 /\ b = (c \div 16) % 16 /\ d = c % 16
    BY <1>6, <2>1
  <2>3. c \in 64 .. 255
    BY <1>2, <1>9
  <2> HIDE DEF a, b, d, e
  <2>4. w = c * 16 + e
    BY <1>7, <2>2, <2>3, SMTT(30)
  <2>5. w \div 16384 = 0 /\ (w \div 4096) % 4 = 0 /\ (w \div 1024) % 4 # 0 /\ w \div 16 = c
    BY <1>7, <2>3, <2>4
  <2>6. DecodeRL(w) = [nibbles |-> 3, run |-> (w \div 16) \div 4, colour |-> (w \div 16) % 4]
    BY <2>5 DEF DecodeRL
  <2> QED BY <1>2, <1>9, <2>1, <2>5, <2>6, SMTT(30) DEF w
<1>10. CASE ~last /\ run \in 4 .. 15
  <2>1. Encoded(run, colour, last) = <<c \div 16, c % 16>>
    BY <1>3, <1>10
  <2>2. a = c \div 16 /\ b = c % 16
    BY <1>6, <2>1
  <2>3. c \in 16 .. 63
    BY <1>2, <1>10
  <2> HIDE DEF a, b, d, e
  <2>4. w = c * 256 + d * 16 + e
    BY <1>7, <2>2, <2>3
  <2>5. w \div 16384 = 0 /\ (w \div 4096) % 4 # 0 /\ w \div 256 = c
    BY <1>7, <2>3, <2>4
  <2>6. DecodeRL(w) = [nibbles |-> 2, run |-> (w \div 256) \div 4, colour |-> (w \div 256) % 4]
    BY <2>5 DEF DecodeRL
  <2>7. Len(Encoded(run, colour, last)) = 2
    BY <2>1
  <2> QED BY <1>2, <1>10, <2>5, <2>6, <2>7 DEF w
<1>11. CASE ~last /\ run \in 1 .. 3
  <2>1. Encoded(run, colour, last) = <<c>>
    BY <1>3, <1>11
  <2>2. a = c
    BY <1>6, <2>1
  <2>3. c \in 4 .. 15
    BY <1>2, <1>11
  <2> HIDE DEF a, b, d, e
  <2>4. w = c * 4096 + b * 256 + d * 16 + e
    BY <1>7, <2>2, <2>3
  <2>5. w \div 16384 # 0 /\ w \div 4096 = c
    BY <1>7, <2>3, <2>4
  <2>6. DecodeRL(w) = [nibbles |-> 1, run |-> (w \div 4096) \div 4, colour |-> (w \div 4096) % 4]
    BY <2>5 DEF DecodeRL
  <2> QED BY <1>2, <1>11, <2>1, <2>5, <2>6 DEF w
<1>12. run \in 1 .. 3 \/ run \in 4 .. 15 \/ run \in 16 .. 63 \/ run >= 64
  OBVIOUS
<1> QED BY <1>8, <1>9, <1>10, <1>11, <1>12

-----------------------------------------------------------------------------
FillStates == [p : Nat, count : Nat, row : Seq(Nat \X Colours)]

FilledFrom(nibbles, p, count, width) ==
    CHOOSE after : after = [n \in 0..width |->
        IF n = 0 THEN [p |-> p, count |-> count, row |-> <<>>]
        ELSE FillCode(nibbles, after[n - 1], width)]

LEMMA FillStep ==
    ASSUME NEW nibbles \in Seq(Nibbles), NEW width \in Nat \ {0}, NEW st \in FillStates
    PROVE  /\ FillCode(nibbles, st, width) \in FillStates
           /\ st.count < width => FillCode(nibbles, st, width).count > st.count
           /\ st.count >= width => FillCode(nibbles, st, width) = st
<1> DEFINE w == GetWord(nibbles, st.p)
           c == DecodeRL(w)
           run == IF c.run = 0 THEN width - (st.count % width) ELSE c.run
<1>1. st.p \in Nat /\ st.count \in Nat /\ st.row \in Seq(Nat \X Colours)
  BY DEF FillStates
<1>2. w \in Nat
  <2>1. PICK n \in [1 .. 4 -> Nibbles] : w = n[1] * 4096 + n[2] * 256 + n[3] * 16 + n[4]
    BY <1>1, WordOf
  <2>2. n[1] \in Nat /\ n[2] \in Nat /\ n[3] \in Nat /\ n[4] \in Nat
    BY DEF Nibbles
  <2> QED BY <2>1, <2>2, SMTT(30)
<1> HIDE DEF w
<1>3. c.nibbles \in Nat /\ c.run \in Nat /\ c.colour \in Colours
  <2>1. \A u \in {1, 16, 256, 4096} : w \div u \in Nat
    BY <1>2
  <2>2. \A x \in Nat : x \div 4 \in Nat /\ x % 4 \in Colours
    BY DEF Colours
  <2>3. \A u \in {1, 16, 256, 4096} : (w \div u) \div 4 \in Nat /\ (w \div u) % 4 \in Colours
    BY <2>1, <2>2, SMTT(30)
  <2> QED BY <2>3 DEF DecodeRL
<1> HIDE DEF c
<1>4. run \in Nat /\ run >= 1
  <2>1. st.count % width \in 0 .. (width - 1)
    BY <1>1
  <2> QED BY <1>3, <2>1
<1> HIDE DEF run
<1>5. FillCode(nibbles, st, width)
        = IF st.count >= width THEN st
          ELSE [p |-> st.p + c.nibbles, count |-> st.count + run, row |-> Append(st.row, <<run, c.colour>>)]
  BY DEF FillCode, c, w, run
<1>6. Append(st.row, <<run, c.colour>>) \in Seq(Nat \X Colours)
  BY <1>1, <1>3, <1>4
<1> QED BY <1>1, <1>3, <1>4, <1>5, <1>6, SMTT(30) DEF FillStates

LEMMA FillSteps ==
    ASSUME NEW nibbles \in Seq(Nibbles), NEW width \in Nat \ {0}, NEW p \in Nat, NEW count \in Nat
    PROVE  LET v == FilledFrom(nibbles, p, count, width)
               full == v[width]
           IN  /\ FillRow(nibbles, p, count, width)
                    = [p |-> full.p + (full.p % 2), carry |-> full.count - width, row |-> full.row]
               /\ v[0] = [p |-> p, count |-> count, row |-> <<>>]
               /\ \A i \in 1 .. width : v[i] = FillCode(nibbles, v[i - 1], width)
               /\ \A i \in 0 .. width : v[i] \in FillStates /\ v[i].count >= i
<1> DEFINE Q == FillStates
           start == [p |-> p, count |-> count, row |-> <<>>]
           f(w) == [i \in 0 .. width |-> IF i = 0 THEN start ELSE FillCode(nibbles, w[i - 1], width)]
           v == FilledFrom(nibbles, p, count, width)
           F == [q \in (1 .. width) \X Q |-> FillCode(nibbles, q[2], width)]
<1>1. width \in Nat /\ start \in Q
  BY DEF FillStates
<1>2. FillRow(nibbles, p, count, width)
        = [p |-> v[width].p + (v[width].p % 2), carry |-> v[width].count - width, row |-> v[width].row]
  BY DEF FillRow, FilledFrom
<1>3. v = CHOOSE w : w = f(w)
  BY DEF FilledFrom
<1>4. \A i \in 1 .. width, st \in Q : FillCode(nibbles, st, width) \in Q
  BY FillStep
<1> HIDE DEF Q, v, start
<1>6. F \in [(1 .. width) \X Q -> Q]
      /\ \A i \in 1 .. width, st \in Q : F[<<i, st>>] = FillCode(nibbles, st, width)
  BY <1>4
<1> HIDE DEF F
<1>7. PICK w \in [0 .. width -> Q] : GoesBy(w, width, start, F)
  BY <1>1, <1>6, RecursionEquation
<1>8. w = f(w)
  <2>1. \A i \in 0 .. width : i = 0 \/ F[<<i, w[i - 1]>>] = FillCode(nibbles, w[i - 1], width)
    BY <1>1, <1>6
  <2> QED BY <1>7, <2>1 DEF GoesBy
<1>9. v = f(v)
  BY <1>3, <1>8
<1>10. v[0] = start /\ \A i \in 1 .. width : v[i] = FillCode(nibbles, v[i - 1], width)
  BY <1>1, <1>9
<1>11. v[0] \in Q /\ \A i \in 1 .. width : v[i - 1] \in Q => v[i] \in Q
  BY <1>1, <1>4, <1>10
<1>12. \A i \in 0 .. width : v[i] \in Q
  BY <1>1, <1>11, StaysIn
<1>13. \A i \in 0 .. width : v[i].count >= i
  <2> DEFINE S == {i \in 0 .. width : v[i].count >= i}
  <2>1. 0 \in S
    BY <1>1, <1>10 DEF start
  <2>2. ASSUME NEW i \in 1 .. width, v[i - 1].count >= i - 1 PROVE v[i].count >= i
    <3> DEFINE st == v[i - 1]
    <3>1. i - 1 \in 0 .. width /\ i \in 0 .. width /\ i \in Nat
      OBVIOUS
    <3>2. st \in FillStates /\ v[i] = FillCode(nibbles, st, width) /\ v[i] \in FillStates
      BY <1>10, <1>12, <3>1 DEF Q
    <3>3. st.count >= i - 1
      BY <2>2
    <3> HIDE DEF st
    <3>4. /\ st.count < width => v[i].count > st.count
          /\ st.count >= width => v[i] = st
      BY <3>2, FillStep
    <3>5. st.count \in Nat /\ v[i].count \in Nat
      BY <3>2 DEF FillStates
    <3> QED BY <3>1, <3>3, <3>4, <3>5
  <2>3. \A i \in 1 .. width : i - 1 \in S => i \in S
    BY <2>2
  <2> HIDE DEF S
  <2>4. \A i \in 0 .. width : i \in S
    BY <1>1, <2>1, <2>3, UpTo
  <2> QED BY <2>4 DEF S
<1> QED BY <1>2, <1>10, <1>12, <1>13 DEF Q, v, start

LEMMA PixelSteps ==
    ASSUME NEW row \in RunsOf
    PROVE  LET v == PixelsUpTo(row)
           IN  /\ v[0] = 0
               /\ \A i \in 1 .. Len(row) : v[i] = v[i - 1] + row[i][1]
               /\ \A i \in 0 .. Len(row) : v[i] \in Nat /\ v[i] >= i /\ v[i] + (Len(row) - i) <= v[Len(row)]
<1> DEFINE N == Len(row)
           f(w) == [i \in 0 .. N |-> IF i = 0 THEN 0 ELSE w[i - 1] + row[i][1]]
           v == PixelsUpTo(row)
           F == [p \in (1 .. N) \X Nat |-> p[2] + row[p[1]][1]]
<1>1. N \in Nat /\ 0 \in Nat
  BY DEF RunsOf
<1>2. v = CHOOSE w : w = f(w)
  BY DEF PixelsUpTo
<1>3. \A i \in 1 .. N : row[i][1] \in Nat /\ row[i][1] >= 1
  BY DEF RunsOf
<1>4. \A i \in 1 .. N, n \in Nat : n + row[i][1] \in Nat
  BY <1>3
<1> HIDE DEF N, v
<1>6. F \in [(1 .. N) \X Nat -> Nat] /\ \A i \in 1 .. N, n \in Nat : F[<<i, n>>] = n + row[i][1]
  BY <1>4
<1> HIDE DEF F
<1>7. PICK w \in [0 .. N -> Nat] : GoesBy(w, N, 0, F)
  BY <1>1, <1>6, RecursionEquation
<1>8. w = f(w)
  <2>1. \A i \in 0 .. N : i = 0 \/ F[<<i, w[i - 1]>>] = w[i - 1] + row[i][1]
    BY <1>1, <1>6
  <2> QED BY <1>7, <2>1 DEF GoesBy
<1>9. v = f(v)
  BY <1>2, <1>8
<1>10. v[0] = 0 /\ \A i \in 1 .. N : v[i] = v[i - 1] + row[i][1]
  BY <1>1, <1>9
<1>11. v[0] \in Nat /\ \A i \in 1 .. N : v[i - 1] \in Nat => v[i] \in Nat
  BY <1>1, <1>4, <1>10
<1>12. \A i \in 0 .. N : v[i] \in Nat
  BY <1>1, <1>11, StaysIn
<1>13. \A i \in 0 .. N : v[i] >= i
  <2> DEFINE S == {i \in 0 .. N : v[i] >= i}
  <2>1. 0 \in S /\ \A i \in 1 .. N : i - 1 \in S => i \in S
    <3>1. ASSUME NEW i \in 1 .. N, v[i - 1] >= i - 1 PROVE v[i] >= i
      <4>1. v[i] = v[i - 1] + row[i][1] /\ v[i - 1] \in Nat /\ row[i][1] \in Nat /\ row[i][1] >= 1 /\ i \in Nat
        BY <1>1, <1>3, <1>10, <1>12
      <4> QED BY <3>1, <4>1
    <3> QED BY <1>1, <1>10, <3>1
  <2> HIDE DEF S
  <2>2. \A i \in 0 .. N : i \in S
    BY <1>1, <2>1, UpTo
  <2> QED BY <2>2 DEF S
<1>14. \A i \in 0 .. N : v[i] + (N - i) <= v[N]
  <2> DEFINE S == {j \in 0 .. N : v[N - j] + j <= v[N]}
  <2>1. 0 \in S /\ \A j \in 1 .. N : j - 1 \in S => j \in S
    <3>1. ASSUME NEW j \in 1 .. N, v[N - (j - 1)] + (j - 1) <= v[N] PROVE v[N - j] + j <= v[N]
      <4>1. N - (j - 1) \in 1 .. N /\ (N - (j - 1)) - 1 = N - j /\ N - j \in 0 .. N /\ j \in Nat
        BY <1>1
      <4>2. v[N - (j - 1)] = v[N - j] + row[N - (j - 1)][1] /\ row[N - (j - 1)][1] \in Nat /\ row[N - (j - 1)][1] >= 1
            /\ v[N - j] \in Nat /\ v[N] \in Nat
        BY <1>1, <1>3, <1>10, <1>12, <4>1
      <4> QED BY <3>1, <4>1, <4>2, SMTT(30)
    <3>2. v[N - 0] + 0 <= v[N]
      BY <1>1, <1>12
    <3> QED BY <1>1, <3>1, <3>2
  <2> HIDE DEF S
  <2>2. \A j \in 0 .. N : j \in S
    BY <1>1, <2>1, UpTo
  <2>3. ASSUME NEW i \in 0 .. N PROVE v[i] + (N - i) <= v[N]
    <3>1. N - i \in 0 .. N /\ N - (N - i) = i
      BY <1>1
    <3> QED BY <2>2, <3>1 DEF S
  <2> QED BY <2>3
<1> QED BY <1>10, <1>12, <1>13, <1>14 DEF N, v

-----------------------------------------------------------------------------
\* The codes of a row, one for each run
RowParts(row) == [i \in DOMAIN row |-> Encoded(row[i][1], row[i][2], i = Len(row))]

LEMMA RowCoded ==
    ASSUME NEW width, NEW row, Encodable(row, width)
    PROVE  /\ RowParts(row) \in Seq(Seq(Nibbles)) /\ Len(RowParts(row)) = Len(row)
           /\ \A i \in 1 .. Len(row) :
                /\ RowParts(row)[i] = Encoded(row[i][1], row[i][2], i = Len(row))
                /\ row[i][1] \in Nat \ {0} /\ row[i][2] \in Colours /\ row[i] = <<row[i][1], row[i][2]>>
                /\ i = Len(row) \/ row[i][1] < 256
           /\ FlattenSeq(RowParts(row)) \in Seq(Nibbles)
           /\ EncodedRow(row) \in Seq(Nibbles)
           /\ Len(EncodedRow(row)) = Len(FlattenSeq(RowParts(row))) + (Len(FlattenSeq(RowParts(row))) % 2)
           /\ \A j \in 1 .. Len(FlattenSeq(RowParts(row))) : EncodedRow(row)[j] = FlattenSeq(RowParts(row))[j]
<1> DEFINE N == Len(row)
           parts == RowParts(row)
           ns == FlattenSeq(parts)
<1>1. row \in RunsOf /\ N \in Nat /\ N >= 1
  BY DEF Encodable, RunsOf, Colours
<1>2. ASSUME NEW i \in 1 .. N
      PROVE  /\ row[i][1] \in Nat \ {0} /\ row[i][2] \in Colours /\ row[i] = <<row[i][1], row[i][2]>>
             /\ i = N \/ row[i][1] < 256
  <2>1. row[i] \in (Nat \ {0}) \X Colours
    BY <1>1 DEF RunsOf
  <2>2. i = N \/ i \in 1 .. N - 1
    BY <1>1
  <2> QED BY <2>1, <2>2 DEF Encodable
<1>3. ASSUME NEW i \in 1 .. N PROVE parts[i] \in Seq(Nibbles) /\ parts[i] = Encoded(row[i][1], row[i][2], i = N)
  <2>1. parts[i] = Encoded(row[i][1], row[i][2], i = N)
    BY <1>1 DEF RowParts, RunsOf
  <2>2. (i = N) \in BOOLEAN
    OBVIOUS
  <2>3. Encoded(row[i][1], row[i][2], i = N) \in Seq(Nibbles)
    BY <1>2, <2>2, CodeForms
  <2> QED BY <2>1, <2>3
<1>4. parts \in Seq(Seq(Nibbles)) /\ Len(parts) = N
  <2>1. DOMAIN parts = 1 .. N
    BY <1>1 DEF RowParts, RunsOf
  <2>2. parts = [i \in 1 .. N |-> parts[i]]
    BY <2>1 DEF RowParts
  <2> HIDE DEF parts, N
  <2> QED BY <1>1, <1>3, <2>1, <2>2
<1>5. ns \in Seq(Nibbles)
  BY <1>4, FlattenedParts
<1>6. EncodedRow(row) = IF Len(ns) % 2 = 1 THEN Append(ns, 0) ELSE ns
  BY DEF EncodedRow, RowParts
<1>7. 0 \in Nibbles
  BY DEF Nibbles
<1> HIDE DEF ns, parts, N
<1>8. Len(ns) \in Nat /\ (Len(ns) % 2 = 1 \/ Len(ns) % 2 = 0)
  BY <1>5
<1>9. CASE Len(ns) % 2 = 1
  BY <1>2, <1>3, <1>4, <1>5, <1>6, <1>7, <1>8, <1>9 DEF ns, parts, N
<1>10. CASE Len(ns) % 2 = 0
  BY <1>2, <1>3, <1>4, <1>5, <1>6, <1>7, <1>8, <1>10 DEF ns, parts, N
<1> QED BY <1>8, <1>9, <1>10

\* A row that begins on a byte and stands there encoded is filled with its runs
LEMMA RowFilled ==
    ASSUME NEW nibbles \in Seq(Nibbles), NEW p \in Nat, NEW width \in Nat \ {0}, NEW row,
           p % 2 = 0, Encodable(row, width), StandsAt(nibbles, p, EncodedRow(row))
    PROVE  FillRow(nibbles, p, 0, width) = [p |-> p + Len(EncodedRow(row)), carry |-> 0, row |-> row]
<1> DEFINE N == Len(row)
           parts == RowParts(row)
           ns == FlattenSeq(parts)
           v == FilledFrom(nibbles, p, 0, width)
           sum == PixelsUpTo(row)
<1>1. row \in RunsOf /\ N \in Nat /\ N >= 1 /\ sum[N] = width
  BY DEF Encodable, RunsOf, Colours
<1>2. /\ parts \in Seq(Seq(Nibbles)) /\ Len(parts) = N
      /\ \A i \in 1 .. N :
           /\ parts[i] = Encoded(row[i][1], row[i][2], i = N)
           /\ row[i][1] \in Nat \ {0} /\ row[i][2] \in Colours /\ row[i] = <<row[i][1], row[i][2]>>
           /\ i = N \/ row[i][1] < 256
      /\ ns \in Seq(Nibbles)
      /\ Len(EncodedRow(row)) = Len(ns) + (Len(ns) % 2)
      /\ \A j \in 1 .. Len(ns) : EncodedRow(row)[j] = ns[j]
  BY RowCoded, SMTT(30)
<1> DEFINE L == Len(ns)
           M == Len(EncodedRow(row))
<1>14. L \in Nat /\ M = L + (L % 2) /\ L <= M
  <2>1. ns \in Seq(Nibbles) /\ M = L + (L % 2)
    BY <1>2
  <2>2. L \in Nat
    BY <2>1
  <2> HIDE DEF L, M
  <2> QED BY <2>1, <2>2
<1>3. PICK places : PlacesOf(parts, ns, places)
  BY <1>2, FlattenedParts
<1>4. /\ places \in [0 .. N -> Nat] /\ places[0] = 0 /\ Len(ns) = places[N]
      /\ \A i \in 1 .. N : places[i] = places[i - 1] + Len(parts[i]) /\ places[i] <= Len(ns)
      /\ \A i \in 1 .. N : \A j \in 1 .. Len(parts[i]) : ns[places[i - 1] + j] = parts[i][j]
  BY <1>2, <1>3 DEF PlacesOf
<1>5. /\ sum[0] = 0
      /\ \A i \in 1 .. N : sum[i] = sum[i - 1] + row[i][1]
      /\ \A i \in 0 .. N : sum[i] \in Nat /\ sum[i] >= i /\ sum[i] + (N - i) <= sum[N]
  BY <1>1, PixelSteps
<1>6. /\ FillRow(nibbles, p, 0, width)
           = [p |-> v[width].p + (v[width].p % 2), carry |-> v[width].count - width, row |-> v[width].row]
      /\ v[0] = [p |-> p, count |-> 0, row |-> <<>>]
      /\ \A i \in 1 .. width : v[i] = FillCode(nibbles, v[i - 1], width)
  <2> DEFINE z == 0
             u == FilledFrom(nibbles, p, z, width)
  <2>1. z \in Nat
    OBVIOUS
  <2> HIDE DEF z
  <2>2. /\ FillRow(nibbles, p, z, width)
             = [p |-> u[width].p + (u[width].p % 2), carry |-> u[width].count - width, row |-> u[width].row]
        /\ u[0] = [p |-> p, count |-> z, row |-> <<>>]
        /\ \A i \in 1 .. width : u[i] = FillCode(nibbles, u[i - 1], width)
        /\ \A i \in 0 .. width : u[i] \in FillStates /\ u[i].count >= i
    BY <2>1, FillSteps, Zenon
  <2> QED BY <2>2 DEF z
<1> HIDE DEF N, parts, ns, v, sum
<1>7. ASSUME NEW i \in 1 .. N PROVE StandsAt(nibbles, p + places[i - 1], parts[i])
  <2> DEFINE a == places[i - 1]
             l == Len(parts[i])
  <2>1. a \in Nat /\ l \in Nat /\ a + l <= Len(ns) /\ Len(ns) \in Nat
    <3>1. i - 1 \in 0 .. N /\ places[i] = a + l /\ places[i] <= Len(ns)
      BY <1>1, <1>4
    <3>2. parts[i] \in Seq(Nibbles)
      BY <1>2
    <3> QED BY <1>2, <1>4, <3>1, <3>2, SMTT(30)
  <2>2. \A j \in 1 .. l : ns[a + j] = parts[i][j]
    BY <1>4
  <2>3. \A m \in 1 .. Len(ns) : nibbles[p + m] = ns[m]
    <3>1. ASSUME NEW m \in 1 .. L PROVE nibbles[p + m] = ns[m]
      <4>1. m \in 1 .. M
        BY <1>14
      <4>2. nibbles[p + m] = EncodedRow(row)[m]
        BY <4>1 DEF StandsAt
      <4>3. EncodedRow(row)[m] = ns[m]
        BY <1>2, <3>1
      <4> QED BY <4>2, <4>3
    <3> QED BY <3>1
  <2>4. p + Len(ns) <= Len(nibbles)
    <3>1. p + M <= Len(nibbles) /\ Len(nibbles) \in Nat
      BY DEF StandsAt
    <3> QED BY <1>14, <3>1
  <2> HIDE DEF a, l
  <2>5. ASSUME NEW j \in 1 .. l PROVE nibbles[(p + a) + j] = parts[i][j]
    <3>1. a + j \in 1 .. Len(ns) /\ (p + a) + j = p + (a + j)
      BY <2>1
    <3> QED BY <2>2, <2>3, <3>1
  <2>6. (p + a) + l <= Len(nibbles)
    BY <2>1, <2>4
  <2> QED BY <2>5, <2>6 DEF StandsAt, a, l
<1> DEFINE Want(m) == [p |-> p + places[m], count |-> sum[m], row |-> SubSeq(row, 1, m)]
           S == {m \in 0 .. N : v[m] = Want(m)}
<1>8. N <= width
  BY <1>1, <1>5
<1>9. ASSUME NEW m \in 1 .. N, v[m - 1] = Want(m - 1) PROVE v[m] = Want(m)
  <2> DEFINE a == places[m - 1]
             run == row[m][1]
             colour == row[m][2]
             last == m = N
             c == DecodeRL(GetWord(nibbles, p + a))
             l == Len(parts[m])
  <2>1. m - 1 \in 0 .. N /\ m \in 1 .. width /\ m \in Nat
    BY <1>1, <1>8
  <2>2. a \in Nat /\ sum[m - 1] \in Nat /\ run \in Nat \ {0} /\ colour \in Colours
    BY <1>2, <1>4, <1>5, <2>1, ZenonT(60)
  <2>3. c = [nibbles |-> l, run |-> IF last THEN 0 ELSE run, colour |-> colour]
    <3>1. last \in BOOLEAN /\ (last \/ run < 256) /\ parts[m] = Encoded(run, colour, last)
      BY <1>2, ZenonT(60)
    <3>2. StandsAt(nibbles, p + a, Encoded(run, colour, last)) /\ p + a \in Nat
      <4>1. StandsAt(nibbles, p + places[m - 1], parts[m])
        BY <1>7, <2>1
      <4>2. p + a \in Nat
        <5> HIDE DEF a
        <5> QED BY <2>2
      <4> QED BY <3>1, <4>1, <4>2
    <3> HIDE DEF a, run, colour, last
    <3> QED BY <2>2, <3>1, <3>2, CodeRead
  <2>4. places[m] = a + l /\ sum[m] = sum[m - 1] + run /\ sum[m - 1] < width
        /\ (last => sum[m - 1] + run = width)
    <3>1. sum[m - 1] + (N - (m - 1)) <= sum[N]
      BY <1>5, <2>1
    <3>2. places[m] = a + l /\ sum[m] = sum[m - 1] + run
      BY <1>4, <1>5
    <3> DEFINE n == sum[m - 1]
    <3>3. n + (N - (m - 1)) <= width /\ N - (m - 1) >= 1 /\ n \in Nat
      BY <1>1, <2>1, <2>2, <3>1
    <3> HIDE DEF n
    <3>4. n < width
      BY <1>1, <2>1, <3>3
    <3>5. last => sum[m] = width
      BY <1>1
    <3> QED BY <3>2, <3>4, <3>5 DEF n
  <2>5. Append(SubSeq(row, 1, m - 1), <<run, colour>>) = SubSeq(row, 1, m)
    <3>1. row[m] = <<run, colour>> /\ row \in Seq((Nat \ {0}) \X Colours)
      BY <1>1, <1>2 DEF RunsOf
    <3>2. Append(SubSeq(row, 1, m - 1), row[m]) = SubSeq(row, 1, m)
      BY <2>1, <3>1, SMTT(30) DEF N
    <3> QED BY <3>1, <3>2
  <2>6. v[m] = FillCode(nibbles, Want(m - 1), width)
    BY <1>6, <1>9, <2>1
  <2>7. Want(m - 1) = [p |-> p + a, count |-> sum[m - 1], row |-> SubSeq(row, 1, m - 1)]
    OBVIOUS
  <2> DEFINE before == SubSeq(row, 1, m - 1)
             n == sum[m - 1]
  <2> HIDE DEF Want, a, run, colour, last, c, l, before, n
  <2>8. (IF c.run = 0 THEN width - (n % width) ELSE c.run) = run
    <3>1. n \in Nat /\ n < width /\ (last => n + run = width)
      BY <2>2, <2>4 DEF n
    <3>2. n % width = n
      BY <3>1
    <3>3. last \in BOOLEAN
      BY DEF last
    <3> QED BY <2>2, <2>3, <3>1, <3>2, <3>3
  <2>9. FillCode(nibbles, [p |-> p + a, count |-> n, row |-> before], width)
          = [p |-> (p + a) + l, count |-> n + run, row |-> Append(before, <<run, colour>>)]
    <3>1. ~(n >= width)
      BY <2>2, <2>4 DEF n
    <3>2. c.nibbles = l /\ c.colour = colour
      BY <2>3
    <3> QED BY <2>8, <3>1, <3>2 DEF FillCode, c
  <2>10. (p + a) + l = p + places[m]
    <3>1. l \in Nat
      BY <1>2 DEF l
    <3> QED BY <2>2, <2>4, <3>1
  <2> QED BY <2>4, <2>5, <2>6, <2>7, <2>9, <2>10 DEF Want, before, n
<1>10. v[0] = Want(0)
  BY <1>1, <1>4, <1>5, <1>6 DEF RunsOf
<1> HIDE DEF Want
<1>11. v[N] = Want(N)
  <2>1. 0 \in S /\ \A m \in 1 .. N : m - 1 \in S => m \in S
    BY <1>1, <1>9, <1>10
  <2> HIDE DEF S
  <2>2. \A m \in 0 .. N : m \in S
    BY <1>1, <2>1, UpTo
  <2>3. N \in S
    BY <1>1, <2>2
  <2> QED BY <2>3 DEF S
<1>12. Want(N) = [p |-> p + Len(ns), count |-> width, row |-> row]
  <2>1. SubSeq(row, 1, N) = row
    BY <1>1 DEF N, RunsOf
  <2> QED BY <1>1, <1>4, <2>1 DEF Want
<1>13. v[width] = Want(N)
  <2> DEFINE T == {i \in 0 .. (width - N) : v[N + i] = Want(N)}
  <2>1. 0 \in T
    BY <1>1, <1>8, <1>11
  <2>2. ASSUME NEW i \in 1 .. (width - N), v[N + (i - 1)] = Want(N) PROVE v[N + i] = Want(N)
    <3>1. N + i \in 1 .. width /\ (N + i) - 1 = N + (i - 1)
      BY <1>1, <1>8
    <3>2. v[N + i] = FillCode(nibbles, Want(N), width)
      BY <1>6, <2>2, <3>1
    <3>3. Want(N).count >= width
      BY <1>12
    <3> QED BY <3>2, <3>3 DEF FillCode
  <2>3. \A i \in 1 .. (width - N) : i - 1 \in T => i \in T
    BY <1>1, <1>8, <2>2
  <2>4. width - N \in Nat
    BY <1>1, <1>8
  <2> HIDE DEF T
  <2>5. \A i \in 0 .. (width - N) : i \in T
    BY <2>1, <2>3, <2>4, UpTo
  <2>6. width - N \in T /\ N + (width - N) = width
    BY <1>1, <2>4, <2>5
  <2> QED BY <2>6 DEF T
<1>15. (p + Len(ns)) + ((p + Len(ns)) % 2) = p + (Len(ns) + (Len(ns) % 2))
  <2> DEFINE n == Len(ns)
  <2> HIDE DEF n
  <2>1. n \in Nat => (p + n) + ((p + n) % 2) = p + (n + (n % 2))
    OBVIOUS
  <2> QED BY <1>14, <2>1 DEF n
<1>16. v[width] = [p |-> p + Len(ns), count |-> width, row |-> row]
  BY <1>12, <1>13
<1> QED BY <1>6, <1>14, <1>15, <1>16

-----------------------------------------------------------------------------
DrawnRows == [p : Nat, carry : Nat, rows : Seq(Seq(Nat \X Colours))]

FilledRows(nibbles, height, width) ==
    CHOOSE after : after = [y \in 0..height |->
        IF y = 0 THEN [p |-> 0, carry |-> 0, rows |-> <<>>]
        ELSE NextRow(nibbles, after[y - 1], width)]

LEMMA NextRowIs ==
    ASSUME NEW nibbles, NEW width, NEW st, st.p \in Nat, st.carry \in Nat
    PROVE  LET r == FillRow(nibbles, st.p, st.carry, width)
           IN  NextRow(nibbles, st, width)
                 = [p |-> r.p, carry |-> r.carry, rows |-> Append(st.rows, r.row)]
<1> DEFINE from == [q \in Nat \X Nat |-> FillRow(nibbles, q[1], q[2], width)]
<1>1. from[<<st.p, st.carry>>] = FillRow(nibbles, st.p, st.carry, width)
  OBVIOUS
<1>2. NextRow(nibbles, st, width)
        = [p |-> from[<<st.p, st.carry>>].p, carry |-> from[<<st.p, st.carry>>].carry,
           rows |-> Append(st.rows, from[<<st.p, st.carry>>].row)]
  BY DEF NextRow
<1> HIDE DEF from
<1> QED BY <1>1, <1>2

LEMMA NextRowFilled ==
    ASSUME NEW nibbles \in Seq(Nibbles), NEW width \in Nat \ {0}, NEW st \in DrawnRows
    PROVE  NextRow(nibbles, st, width) \in DrawnRows
<1> DEFINE v == FilledFrom(nibbles, st.p, st.carry, width)
           full == v[width]
<1>1. st.p \in Nat /\ st.carry \in Nat /\ st.rows \in Seq(Seq(Nat \X Colours))
  BY DEF DrawnRows
<1>2. /\ FillRow(nibbles, st.p, st.carry, width)
            = [p |-> full.p + (full.p % 2), carry |-> full.count - width, row |-> full.row]
      /\ \A i \in 0 .. width : v[i] \in FillStates /\ v[i].count >= i
  BY <1>1, FillSteps, ZenonT(60)
<1>3. full \in FillStates /\ full.count >= width
  BY <1>2
<1> HIDE DEF v, full
<1>4. full.p \in Nat /\ full.count \in Nat /\ full.row \in Seq(Nat \X Colours)
  BY <1>3 DEF FillStates
<1>5. full.p + (full.p % 2) \in Nat /\ full.count - width \in Nat
  BY <1>3, <1>4
<1>6. NextRow(nibbles, st, width)
        = [p |-> full.p + (full.p % 2), carry |-> full.count - width, rows |-> Append(st.rows, full.row)]
  BY <1>1, <1>2, NextRowIs
<1>7. Append(st.rows, full.row) \in Seq(Seq(Nat \X Colours))
  BY <1>1, <1>4
<1> QED BY <1>5, <1>6, <1>7 DEF DrawnRows

LEMMA RowSteps ==
    ASSUME NEW nibbles \in Seq(Nibbles), NEW width \in Nat \ {0}, NEW height \in Nat
    PROVE  LET v == FilledRows(nibbles, height, width)
           IN  /\ SpuFillPixel(nibbles, height, width) = v[height].rows
               /\ v[0] = [p |-> 0, carry |-> 0, rows |-> <<>>]
               /\ \A y \in 1 .. height : v[y] = NextRow(nibbles, v[y - 1], width)
<1> DEFINE Q == DrawnRows
           start == [p |-> 0, carry |-> 0, rows |-> <<>>]
           f(w) == [y \in 0 .. height |-> IF y = 0 THEN start ELSE NextRow(nibbles, w[y - 1], width)]
           v == FilledRows(nibbles, height, width)
           F == [q \in (1 .. height) \X Q |-> NextRow(nibbles, q[2], width)]
<1>1. start \in Q
  BY DEF DrawnRows
<1>2. SpuFillPixel(nibbles, height, width) = v[height].rows
  BY DEF SpuFillPixel, FilledRows
<1>3. v = CHOOSE w : w = f(w)
  BY DEF FilledRows
<1>4. \A i \in 1 .. height, st \in Q : NextRow(nibbles, st, width) \in Q
  BY NextRowFilled
<1> HIDE DEF Q, v, start
<1>6. F \in [(1 .. height) \X Q -> Q]
      /\ \A i \in 1 .. height, st \in Q : F[<<i, st>>] = NextRow(nibbles, st, width)
  BY <1>4
<1> HIDE DEF F
<1>7. PICK w \in [0 .. height -> Q] : GoesBy(w, height, start, F)
  BY <1>1, <1>6, RecursionEquation
<1>8. w = f(w)
  <2>1. \A i \in 0 .. height : i = 0 \/ F[<<i, w[i - 1]>>] = NextRow(nibbles, w[i - 1], width)
    BY <1>1, <1>6
  <2> QED BY <1>7, <2>1 DEF GoesBy
<1>9. v = f(v)
  BY <1>3, <1>8
<1>10. v[0] = start /\ \A i \in 1 .. height : v[i] = NextRow(nibbles, v[i - 1], width)
  BY <1>9
<1> QED BY <1>2, <1>10 DEF Q, v, start

\* Rows that are encoded one after the other are drawn as they were
LEMMA RowsFilled ==
    ASSUME NEW width \in Nat \ {0}, NEW S, NEW pic \in Seq(S), \A row \in S : Encodable(row, width)
    PROVE  SpuFillPixel(EncodedRows(pic), Len(pic), width) = pic
<1> DEFINE N == Len(pic)
           parts == [y \in DOMAIN pic |-> EncodedRow(pic[y])]
           ns == FlattenSeq(parts)
           v == FilledRows(ns, N, width)
<1>1. N \in Nat /\ EncodedRows(pic) = ns
  BY DEF EncodedRows
<1>2. ASSUME NEW y \in 1 .. N
      PROVE  /\ Encodable(pic[y], width) /\ parts[y] = EncodedRow(pic[y])
             /\ parts[y] \in Seq(Nibbles) /\ Len(parts[y]) \in Nat /\ Len(parts[y]) % 2 = 0
  <2> DEFINE row == pic[y]
             L == Len(FlattenSeq(RowParts(row)))
  <2>1. Encodable(row, width)
    OBVIOUS
  <2> HIDE DEF row
  <2>2. EncodedRow(row) \in Seq(Nibbles) /\ Len(EncodedRow(row)) = L + (L % 2) /\ L \in Nat
    <3>1. EncodedRow(row) \in Seq(Nibbles) /\ Len(EncodedRow(row)) = L + (L % 2)
          /\ FlattenSeq(RowParts(row)) \in Seq(Nibbles)
      BY <2>1, RowCoded
    <3> QED BY <3>1
  <2> HIDE DEF L
  <2>3. (L + (L % 2)) % 2 = 0 /\ L + (L % 2) \in Nat
    BY <2>2
  <2>4. parts[y] = EncodedRow(row)
    BY DEF row
  <2> HIDE DEF parts
  <2> QED BY <2>1, <2>2, <2>3, <2>4 DEF row
<1>3. parts \in Seq(Seq(Nibbles)) /\ Len(parts) = N
  <2>1. DOMAIN parts = 1 .. N /\ parts = [y \in 1 .. N |-> parts[y]]
    OBVIOUS
  <2> HIDE DEF parts, N
  <2> QED BY <1>1, <1>2, <2>1
<1> HIDE DEF parts
<1>4. ns \in Seq(Nibbles)
  BY <1>3, FlattenedParts
<1>5. PICK places : PlacesOf(parts, ns, places)
  BY <1>3, FlattenedParts
<1> HIDE DEF N, ns, v
<1>6. /\ places \in [0 .. N -> Nat] /\ places[0] = 0 /\ Len(ns) = places[N]
      /\ \A y \in 1 .. N : places[y] = places[y - 1] + Len(parts[y]) /\ places[y] <= Len(ns)
      /\ \A y \in 1 .. N : \A j \in 1 .. Len(parts[y]) : ns[places[y - 1] + j] = parts[y][j]
  BY <1>3, <1>5 DEF PlacesOf
<1>7. /\ SpuFillPixel(ns, N, width) = v[N].rows
      /\ v[0] = [p |-> 0, carry |-> 0, rows |-> <<>>]
      /\ \A y \in 1 .. N : v[y] = NextRow(ns, v[y - 1], width)
  BY <1>1, <1>4, RowSteps DEF v
<1> DEFINE Want(y) == [p |-> places[y], carry |-> 0, rows |-> SubSeq(pic, 1, y)]
           T == {y \in 0 .. N : places[y] % 2 = 0 /\ v[y] = Want(y)}
<1>8. ASSUME NEW y \in 1 .. N, places[y - 1] % 2 = 0, v[y - 1] = Want(y - 1)
      PROVE  places[y] % 2 = 0 /\ v[y] = Want(y)
  <2> DEFINE a == places[y - 1]
             l == Len(parts[y])
  <2>1. y - 1 \in 0 .. N /\ y \in Nat /\ y >= 1 /\ y <= N
    BY <1>1
  <2>2. a \in Nat /\ l \in Nat /\ l % 2 = 0 /\ places[y] = a + l /\ a + l <= Len(ns) /\ a % 2 = 0
    BY <1>2, <1>6, <1>8, <2>1
  <2>3. parts[y] = EncodedRow(pic[y]) /\ Encodable(pic[y], width)
    BY <1>2
  <2>4. StandsAt(ns, a, parts[y])
    BY <1>6, <2>2 DEF StandsAt
  <2> HIDE DEF a, l
  <2>5. FillRow(ns, a, 0, width) = [p |-> a + l, carry |-> 0, row |-> pic[y]]
    <3> DEFINE row == pic[y]
    <3>1. Encodable(row, width) /\ StandsAt(ns, a, EncodedRow(row)) /\ l = Len(EncodedRow(row))
      BY <2>3, <2>4 DEF l
    <3> HIDE DEF row
    <3>2. FillRow(ns, a, 0, width) = [p |-> a + Len(EncodedRow(row)), carry |-> 0, row |-> row]
      BY <1>4, <2>2, <3>1, RowFilled, ZenonT(60)
    <3> QED BY <3>1, <3>2 DEF row
  <2>6. (a + l) % 2 = 0
    BY <2>2
  <2>7. Append(SubSeq(pic, 1, y - 1), pic[y]) = SubSeq(pic, 1, y)
    BY <2>1 DEF N
  <2>8. v[y] = NextRow(ns, [p |-> a, carry |-> 0, rows |-> SubSeq(pic, 1, y - 1)], width)
    BY <1>7, <1>8 DEF a
  <2>9. v[y] = [p |-> a + l, carry |-> 0, rows |-> SubSeq(pic, 1, y)]
    <3> DEFINE before == SubSeq(pic, 1, y - 1)
               st == [p |-> a, carry |-> 0, rows |-> before]
               g == FillRow(ns, a, 0, width)
    <3>1. NextRow(ns, st, width) = [p |-> g.p, carry |-> g.carry, rows |-> Append(before, g.row)]
      <4>1. st.p \in Nat /\ st.carry \in Nat /\ st.p = a /\ st.carry = 0 /\ st.rows = before
        BY <2>2
      <4> HIDE DEF st
      <4> QED BY <4>1, NextRowIs
    <3>2. g.p = a + l /\ g.carry = 0 /\ g.row = pic[y]
      BY <2>5
    <3> QED BY <2>7, <2>8, <3>1, <3>2
  <2> QED BY <2>2, <2>6, <2>9
<1>9. places[0] % 2 = 0 /\ v[0] = Want(0)
  BY <1>1, <1>6, <1>7
<1> HIDE DEF Want
<1>10. v[N] = Want(N)
  <2>1. 0 \in T /\ \A y \in 1 .. N : y - 1 \in T => y \in T
    BY <1>1, <1>8, <1>9
  <2> HIDE DEF T
  <2>2. \A y \in 0 .. N : y \in T
    BY <1>1, <2>1, UpTo
  <2>3. N \in T
    BY <1>1, <2>2
  <2> QED BY <2>3 DEF T
<1>11. SubSeq(pic, 1, N) = pic
  BY DEF N
<1> QED BY <1>1, <1>7, <1>10, <1>11 DEF Want, N

-----------------------------------------------------------------------------
\* The exchange of the background, when there is a colour without contrast
LEMMA ChangeIs ==
    ASSUME NEW contrast \in [0 .. 3 -> BOOLEAN], ~AllContrasts(contrast)
    PROVE  \/ ChangeData(contrast) = 0 /\ ~contrast[0]
           \/ ChangeData(contrast) \in 1 .. 3 /\ contrast[0] /\ ~contrast[ChangeData(contrast)]
<1>1. CASE ~contrast[0]
  BY <1>1 DEF ChangeData
<1>2. CASE contrast[0]
  <2> DEFINE P(k) == (k = 4 \/ ~contrast[k]) /\ \A i \in 1 .. k - 1 : contrast[i]
  <2>1. \E c \in 1 .. 3 : ~contrast[c]
    BY <1>2 DEF AllContrasts
  <2>2. \E k \in 1 .. 4 : P(k)
    <3>1. P(1) \/ P(2) \/ P(3)
      BY <2>1
    <3> QED BY <3>1
  <2>3. ChangeData(contrast) = CHOOSE k \in 1 .. 4 : P(k)
    BY <1>2 DEF ChangeData
  <2> DEFINE k == ChangeData(contrast)
  <2>4. k \in 1 .. 4 /\ P(k)
    <3> HIDE DEF P
    <3> QED BY <2>2, <2>3
  <2> HIDE DEF k
  <2>5. k # 4
    BY <2>1, <2>4
  <2>6. k \in 1 .. 3 /\ ~contrast[k]
    BY <2>4, <2>5
  <2> QED BY <1>2, <2>6 DEF k
<1> QED BY <1>1, <1>2

LEMMA ColourExchanged ==
    ASSUME NEW contrast \in [0 .. 3 -> BOOLEAN], ~AllContrasts(contrast), NEW colour \in 0 .. 3
    PROVE  LET came == PixelData(contrast, colour)
           IN  /\ came \in 0 .. 3 /\ PixelData(contrast, came) = colour
               /\ AlphaAfter(contrast)[came] = contrast[colour]
<1> DEFINE change == ChangeData(contrast)
           came == PixelData(contrast, colour)
<1>1. /\ came = IF colour = 0 THEN change ELSE IF colour = change THEN 0 ELSE colour
      /\ PixelData(contrast, came) = IF came = 0 THEN change ELSE IF came = change THEN 0 ELSE came
      /\ AlphaAfter(contrast) = IF change = 0 THEN contrast
                                ELSE [c \in 0 .. 3 |-> c # 0 /\ (c = change \/ contrast[c])]
  BY DEF PixelData, AlphaAfter
<1>2. \/ change = 0
      \/ change \in 1 .. 3 /\ contrast[0] /\ ~contrast[change]
  BY ChangeIs
<1> HIDE DEF change, came
<1>3. came \in 0 .. 3 /\ PixelData(contrast, came) = colour
  BY <1>1, <1>2
<1>4. ASSUME change = 0 PROVE AlphaAfter(contrast)[came] = contrast[colour]
  BY <1>1, <1>3, <1>4
<1>5. ASSUME change \in 1 .. 3, contrast[0], ~contrast[change]
      PROVE  AlphaAfter(contrast)[came] = contrast[colour]
  <2>1. AlphaAfter(contrast)[came] = (came # 0 /\ (came = change \/ contrast[came]))
    BY <1>1, <1>3, <1>5
  <2>2. CASE colour = 0
    BY <1>1, <1>5, <2>1, <2>2
  <2>3. CASE colour = change
    BY <1>1, <1>5, <2>1, <2>3
  <2>4. CASE colour # 0 /\ colour # change
    BY <1>1, <1>5, <2>1, <2>4
  <2> QED BY <2>2, <2>3, <2>4
<1>6. AlphaAfter(contrast)[came] = contrast[colour]
  BY <1>2, <1>4, <1>5
<1> QED BY <1>3, <1>6 DEF came

ExchangedRow(row, contrast) == [n \in DOMAIN row |-> <<row[n][1], PixelData(contrast, row[n][2])>>]

LEMMA RowExchanged ==
    ASSUME NEW contrast \in [0 .. 3 -> BOOLEAN], ~AllContrasts(contrast),
           NEW width, NEW row, Encodable(row, width)
    PROVE  DrawnAs(row, ExchangedRow(row, contrast), contrast, AlphaAfter(contrast))
<1>1. \A n \in DOMAIN row : row[n][2] \in 0 .. 3
  <2>1. row \in Seq((Nat \ {0}) \X (0 .. 3))
    BY DEF Encodable
  <2> QED BY <2>1
<1> DEFINE came == ExchangedRow(row, contrast)
<1>2. DOMAIN came = DOMAIN row
      /\ \A n \in DOMAIN row : came[n][1] = row[n][1] /\ came[n][2] = PixelData(contrast, row[n][2])
  BY DEF ExchangedRow
<1> HIDE DEF came
<1>3. ASSUME NEW n \in DOMAIN row
      PROVE  /\ came[n][1] = row[n][1] /\ came[n][2] \in 0 .. 3
             /\ PixelData(contrast, came[n][2]) = row[n][2]
             /\ AlphaAfter(contrast)[came[n][2]] = contrast[row[n][2]]
  BY <1>1, <1>2, ColourExchanged
<1>4. DrawnAs(row, came, contrast, AlphaAfter(contrast))
  BY <1>2, <1>3 DEF DrawnAs
<1> QED BY <1>4 DEF came

(* The rows of a DVD subpicture are drawn as they were encoded, whatever their *)
(* runs and their width, the background exchanged in the rows as in the        *)
(* contrast, unless all four colours have one (spuFillPixel).                  *)
THEOREM DvdRowsDrawn == DvdSpec => []DvdRowsAsEncoded
<1>1. DvdInit => DvdRowsAsEncoded
  BY DEF DvdInit, DvdRowsAsEncoded
<1>2. DvdRowsAsEncoded /\ [DvdNext]_dvdVars => DvdRowsAsEncoded'
  <2> SUFFICES ASSUME DvdRowsAsEncoded, [DvdNext]_dvdVars PROVE DvdRowsAsEncoded'
    OBVIOUS
  <2>1. UNCHANGED drawn => DvdRowsAsEncoded'
    BY DEF DvdRowsAsEncoded
  <2>2. ASSUME NEW r1 \in DvdRows, NEW r2 \in DvdRows, NEW contrast \in [0 .. 3 -> BOOLEAN],
               DrawRows(<<r1, r2>>, contrast)
        PROVE  DvdRowsAsEncoded'
    <3> DEFINE pic == <<r1, r2>>
    <3>1. pic \in Seq(DvdRows) /\ DvdRowWidth \in Nat \ {0}
          /\ \A row \in DvdRows : Encodable(row, DvdRowWidth)
      BY DvdAssumption
    <3>2. PICK came \in FillOutcomes(SpuFillPixel(EncodedRows(pic), Len(pic), DvdRowWidth), contrast) :
             drawn' = <<pic, contrast, came, AlphaAfter(contrast)>>
      BY <2>2, Zenon DEF DrawRows
    <3>3. \A y \in DOMAIN pic : pic[y] \in DvdRows /\ Encodable(pic[y], DvdRowWidth)
      BY <3>1
    <3> HIDE DEF pic
    <3>4. SpuFillPixel(EncodedRows(pic), Len(pic), DvdRowWidth) = pic
      BY <3>1, RowsFilled
    <3>5. ~AllContrasts(contrast) =>
             /\ DOMAIN came = DOMAIN pic
             /\ \A y \in DOMAIN pic : DrawnAs(pic[y], came[y], contrast, AlphaAfter(contrast))
      <4> SUFFICES ASSUME ~AllContrasts(contrast)
                   PROVE  /\ DOMAIN came = DOMAIN pic
                          /\ \A y \in DOMAIN pic : DrawnAs(pic[y], came[y], contrast, AlphaAfter(contrast))
        OBVIOUS
      <4>1. came = Exchanged(pic, contrast)
        BY <3>4 DEF FillOutcomes
      <4>2. DOMAIN came = DOMAIN pic /\ \A y \in DOMAIN pic : came[y] = ExchangedRow(pic[y], contrast)
        BY <4>1 DEF Exchanged, ExchangedRow
      <4> QED BY <3>3, <4>2, RowExchanged
    <3>6. drawn'[1] = pic /\ drawn'[2] = contrast /\ drawn'[3] = came /\ drawn'[4] = AlphaAfter(contrast)
      BY <3>2
    <3> SUFFICES ASSUME drawn' # <<>>, ~AllContrasts(drawn'[2])
                 PROVE  /\ DOMAIN drawn'[3] = DOMAIN drawn'[1]
                        /\ \A y \in DOMAIN drawn'[1] :
                              DrawnAs(drawn'[1][y], drawn'[3][y], drawn'[2], drawn'[4])
      BY Zenon DEF DvdRowsAsEncoded, AllContrasts, DrawnAs, PixelData, ChangeData
    <3> QED BY <3>5, <3>6
  <2>3. ASSUME NEW len, NEW delays, NEW cut, SendSubpicture(len, delays, cut) PROVE DvdRowsAsEncoded'
    BY <2>1, <2>3 DEF SendSubpicture
  <2>4. CASE DvdGetSpu \/ ReadHeader \/ DropAll \/ ReadBody \/ RoundEnds \/ UNCHANGED dvdVars
    <3>1. UNCHANGED drawn
      BY <2>4, Zenon DEF DvdGetSpu, ReadHeader, DropAll, ReadBody, RoundEnds, dvdVars
    <3> QED BY <2>1, <3>1
  <2> QED BY <2>2, <2>3, <2>4 DEF DvdNext
<1> QED BY <1>1, <1>2, PTL DEF DvdSpec

LEMMA VobPicture ==
    ASSUME NEW picture \in VobPictures
    PROVE  /\ VobWidth \in Nat \ {0}
           /\ Len(picture) \in Nat /\ Len(picture) % 2 = 0 /\ DOMAIN picture = 1 .. Len(picture)
           /\ \A y \in 1 .. Len(picture) : Encodable(picture[y], VobWidth)
<1>1. /\ VobWidth \in Nat \ {0} /\ picture \in Seq(Seq(Nat \X (0 .. 3))) /\ Len(picture) % 2 = 0
      /\ \A y \in DOMAIN picture : Encodable(picture[y], VobWidth)
  BY VobSubAssumption
<1>2. Len(picture) \in Nat /\ DOMAIN picture = 1 .. Len(picture)
  BY <1>1
<1> QED BY <1>1, <1>2

LEMMA FieldRows ==
    ASSUME NEW picture \in VobPictures, NEW odd \in BOOLEAN
    PROVE  LET half == Len(picture) \div 2
               field == Field(picture, odd)
           IN  /\ Len(field) = half
               /\ \A y \in 1 .. half : field[y] = picture[IF odd THEN 2 * y - 1 ELSE 2 * y]
               /\ SpuFillPixel(EncodedRows(field), half, VobWidth) = field
<1> DEFINE L == Len(picture)
           half == L \div 2
           field == Field(picture, odd)
           place(y) == IF odd THEN 2 * y - 1 ELSE 2 * y
           S == {picture[y] : y \in 1 .. L}
<1>1. /\ VobWidth \in Nat \ {0} /\ L \in Nat /\ L % 2 = 0 /\ DOMAIN picture = 1 .. L
      /\ \A y \in 1 .. L : Encodable(picture[y], VobWidth)
  BY VobPicture
<1>2. (L + (IF odd THEN 1 ELSE 0)) \div 2 = half /\ half \in Nat /\ 2 * half = L
  <2> HIDE DEF L
  <2> QED BY <1>1
<1>3. field = [y \in 1 .. half |-> picture[place(y)]]
  BY <1>2 DEF Field
<1> HIDE DEF L, half, field
<1>4. \A y \in 1 .. half : place(y) \in 1 .. L
  BY <1>1, <1>2
<1> HIDE DEF place
<1>5. field \in Seq(S) /\ Len(field) = half
  BY <1>2, <1>3, <1>4
<1>6. \A row \in S : Encodable(row, VobWidth)
  BY <1>1
<1> HIDE DEF S
<1>7. SpuFillPixel(EncodedRows(field), Len(field), VobWidth) = field
  <2>1. VobWidth \in Nat \ {0}
    BY <1>1
  <2> QED BY <1>5, <1>6, <2>1, RowsFilled
<1> QED BY <1>3, <1>5, <1>7 DEF half, field, place, L

\* A row of the picture comes back from its field, its background exchanged
LEMMA RowPainted ==
    ASSUME NEW picture \in VobPictures, NEW contrast \in [0 .. 3 -> BOOLEAN], NEW y \in DOMAIN picture,
           ~AllContrasts(contrast),
           NEW first \in vob_fill_pixel(Field(picture, TRUE), Len(picture) \div 2, contrast),
           NEW second \in vob_fill_pixel(Field(picture, FALSE), Len(picture) \div 2, contrast)
    PROVE  convert2bto32b(first, second, Len(picture))[y] = ExchangedRow(picture[y], contrast)
<1> DEFINE L == Len(picture)
           half == L \div 2
           top == Field(picture, TRUE)
           bottom == Field(picture, FALSE)
           row == (y + 1) \div 2
           made == convert2bto32b(first, second, L)
           came(r) == ExchangedRow(r, contrast)
<1>1. L \in Nat /\ L % 2 = 0 /\ y \in 1 .. L
  BY VobPicture
<1>2. /\ Len(top) = half /\ \A k \in 1 .. half : top[k] = picture[2 * k - 1]
      /\ SpuFillPixel(EncodedRows(top), half, VobWidth) = top
  BY FieldRows
<1>3. /\ Len(bottom) = half /\ \A k \in 1 .. half : bottom[k] = picture[2 * k]
      /\ SpuFillPixel(EncodedRows(bottom), half, VobWidth) = bottom
  BY FieldRows
<1>4. DOMAIN top = 1 .. half /\ DOMAIN bottom = 1 .. half /\ half \in Nat /\ 2 * half = L
  <2>1. half \in Nat /\ 2 * half = L /\ (L + 1) \div 2 = half /\ (L + 0) \div 2 = half
    <3> HIDE DEF L
    <3> QED BY <1>1
  <2>2. DOMAIN top = 1 .. (L + 1) \div 2 /\ DOMAIN bottom = 1 .. (L + 0) \div 2
    BY DEF Field
  <2> QED BY <2>1, <2>2
<1>5. /\ first = [k \in 1 .. half |-> came(top[k])]
      /\ second = [k \in 1 .. half |-> came(bottom[k])]
  <2>1. first = Exchanged(top, contrast) /\ second = Exchanged(bottom, contrast)
    BY <1>2, <1>3 DEF vob_fill_pixel, FillOutcomes
  <2> QED BY <1>4, <2>1 DEF Exchanged, ExchangedRow
<1> HIDE DEF top, bottom, came, L, half
<1>6. Len(first) = half /\ Len(second) = half
  BY <1>4, <1>5
<1>7. row \in 1 .. half /\ (y % 2 = 1 => 2 * row - 1 = y) /\ (y % 2 # 1 => 2 * row = y)
  BY <1>1, <1>4, SMTT(30)
<1>8. made[y] = LET field == IF y % 2 = 1 THEN first ELSE second
                IN  IF row <= Len(field) THEN field[row] ELSE <<>>
  BY <1>1 DEF convert2bto32b
<1> HIDE DEF row, made
<1>9. made[y] = came(picture[y])
  <2>1. CASE y % 2 = 1
    BY <1>2, <1>4, <1>5, <1>6, <1>7, <1>8, <2>1
  <2>2. CASE y % 2 # 1
    BY <1>3, <1>4, <1>5, <1>6, <1>7, <1>8, <2>2
  <2> QED BY <2>1, <2>2
<1> QED BY <1>9 DEF made, came, L

(* A picture that is split into two fields comes out with every row in its     *)
(* place, whatever its runs, and its background exchanged in both fields as in  *)
(* the contrast, unless all four colours have a contrast (vob_fill_pixel,      *)
(* convert2bto32b).                                                            *)
THEOREM VobFieldsInterleaved == VobSpec => []FieldsInterleaved
<1>1. VobInit => FieldsInterleaved
  BY DEF VobInit, FieldsInterleaved
<1>2. FieldsInterleaved /\ [VobNext]_vobVars => FieldsInterleaved'
  <2> SUFFICES ASSUME FieldsInterleaved, [VobNext]_vobVars PROVE FieldsInterleaved'
    OBVIOUS
  <2>1. UNCHANGED painted => FieldsInterleaved'
    BY DEF FieldsInterleaved
  <2>2. ASSUME NEW picture \in VobPictures, NEW contrast \in [0 .. 3 -> BOOLEAN], Paint(picture, contrast)
        PROVE  FieldsInterleaved'
    <3>1. PICK top \in vob_fill_pixel(Field(picture, TRUE), Len(picture) \div 2, contrast),
               bottom \in vob_fill_pixel(Field(picture, FALSE), Len(picture) \div 2, contrast) :
             painted' = <<picture, contrast, convert2bto32b(top, bottom, Len(picture)), AlphaAfter(contrast)>>
      BY <2>2, Zenon DEF Paint
    <3> DEFINE made == convert2bto32b(top, bottom, Len(picture))
    <3>2. ASSUME ~AllContrasts(contrast), NEW y \in DOMAIN picture
          PROVE  DrawnAs(picture[y], made[y], contrast, AlphaAfter(contrast))
      <4>1. made[y] = ExchangedRow(picture[y], contrast)
        BY <3>2, RowPainted
      <4>2. Encodable(picture[y], VobWidth)
        BY VobPicture
      <4> HIDE DEF made
      <4> QED BY <3>2, <4>1, <4>2, RowExchanged
    <3>3. painted'[1] = picture /\ painted'[2] = contrast /\ painted'[3] = made
          /\ painted'[4] = AlphaAfter(contrast)
      BY <3>1
    <3> HIDE DEF made
    <3> SUFFICES ASSUME painted' # <<>>, ~AllContrasts(painted'[2])
                 PROVE  \A y \in DOMAIN painted'[1] :
                           DrawnAs(painted'[1][y], painted'[3][y], painted'[2], painted'[4])
      BY Zenon DEF FieldsInterleaved, AllContrasts, DrawnAs, PixelData, ChangeData
    <3> QED BY <3>2, <3>3
  <2>3. CASE decodedIndexLine \/ popIndexItem \/ UNCHANGED vobVars
    <3>1. UNCHANGED painted
      BY <2>3 DEF decodedIndexLine, popIndexItem, vobVars
    <3> QED BY <2>1, <3>1
  <2> QED BY <2>2, <2>3 DEF VobNext
<1> QED BY <1>1, <1>2, PTL DEF VobSpec
-----------------------------------------------------------------------------
(* The characters of SCTE-27                                                   *)

RunCodes == [k : {"off", "on", "onoff"}, on : Nat, off : Nat]
RowCodeSet == [k : {"off", "on", "onoff", "stuff", "eol"}, on : Nat, off : Nat]
Coding == [codes : Seq(RunCodes), on : Nat, off : Nat]

\* A sequence goes on with what another one begins with
Begins(s, t) == Len(s) <= Len(t) /\ \A m \in 1 .. Len(s) : t[m] = s[m]

RowUpTo(set, i) ==
    CHOOSE upTo : upTo = [j \in 0 .. GlyphWidth |->
        IF j = 0 THEN [codes |-> <<>>, on |-> 0, off |-> 0]
        ELSE AddPixel(upTo[j - 1], <<i, j - 1>> \in set)]

LEMMA CodeMade == \A on \in Nat, off \in Nat : /\ RunCode(on, off) \in RunCodes
                                               /\ RunCode(on, off).on = on /\ RunCode(on, off).off = off
<1> SUFFICES ASSUME NEW on \in Nat, NEW off \in Nat
             PROVE  /\ RunCode(on, off) \in RunCodes
                    /\ RunCode(on, off).on = on /\ RunCode(on, off).off = off
  OBVIOUS
<1> DEFINE kind == IF on = 0 THEN "off" ELSE IF off = 0 THEN "on" ELSE "onoff"
<1>1. kind \in {"off", "on", "onoff"}
  OBVIOUS
<1>2. RunCode(on, off) = [k |-> kind, on |-> on, off |-> off]
  BY DEF RunCode, Code
<1> HIDE DEF kind
<1> QED BY <1>1, <1>2 DEF RunCodes

LEMMA PixelAdded ==
    ASSUME NEW st \in Coding, NEW on \in BOOLEAN
    PROVE  LET more == AddPixel(st, on)
           IN  /\ more \in Coding
               /\ ~on => more.codes = st.codes /\ more.on = st.on /\ more.off = st.off + 1
               /\ on /\ st.off = 0 => more.codes = st.codes /\ more.on = st.on + 1 /\ more.off = 0
               /\ on /\ st.off # 0 => more.codes = Append(st.codes, RunCode(st.on, st.off))
                                      /\ more.on = 1 /\ more.off = 0
               /\ Begins(st.codes, more.codes)
<1> DEFINE more == AddPixel(st, on)
<1>1. st.codes \in Seq(RunCodes) /\ st.on \in Nat /\ st.off \in Nat
  BY DEF Coding
<1>2. CASE ~on
  <2>1. more = [st EXCEPT !.off = @ + 1]
    BY <1>2 DEF AddPixel
  <2>2. more \in Coding /\ more.codes = st.codes /\ more.on = st.on /\ more.off = st.off + 1
    BY <1>1, <2>1 DEF Coding
  <2> QED BY <1>1, <1>2, <2>2 DEF Begins
<1>3. CASE on /\ st.off = 0
  <2>1. more = [codes |-> st.codes, on |-> st.on + 1, off |-> st.off]
    BY <1>3 DEF AddPixel, Coding
  <2>2. more.codes = st.codes /\ more.on = st.on + 1 /\ more.off = 0
    <3>1. st.off = 0
      BY <1>3
    <3> HIDE DEF more
    <3> QED BY <2>1, <3>1
  <2>3. more \in Coding
    BY <1>1, <2>1 DEF Coding
  <2>4. Begins(st.codes, more.codes)
    BY <1>1, <2>2 DEF Begins
  <2> QED BY <1>3, <2>2, <2>3, <2>4
<1>4. CASE on /\ st.off # 0
  <2> DEFINE c == RunCode(st.on, st.off)
  <2>1. more = [codes |-> Append(st.codes, c), on |-> 1, off |-> 0]
    BY <1>4 DEF AddPixel
  <2>2. c \in RunCodes
    BY <1>1, CodeMade
  <2> HIDE DEF c
  <2>3. Append(st.codes, c) \in Seq(RunCodes) /\ Begins(st.codes, Append(st.codes, c))
    BY <1>1, <2>2 DEF Begins
  <2>4. more \in Coding
    BY <2>1, <2>3 DEF Coding
  <2>5. more.codes = Append(st.codes, c) /\ more.on = 1 /\ more.off = 0
    BY <2>1
  <2>6. Begins(st.codes, more.codes)
    BY <2>3, <2>5
  <2> QED BY <1>4, <2>4, <2>5, <2>6, Zenon DEF c
<1> QED BY <1>2, <1>3, <1>4

LEMMA RowUpToSteps ==
    ASSUME NEW set, NEW i \in Nat
    PROVE  LET e == RowUpTo(set, i)
               full == e[GlyphWidth]
           IN  /\ RowCodes(set, i) = (IF full.on = 0 THEN full.codes ELSE Append(full.codes, RunCode(full.on, full.off)))
                                     \o <<Code("stuff", 0, 0), Code("eol", 0, 0)>>
               /\ e[0] = [codes |-> <<>>, on |-> 0, off |-> 0]
               /\ \A j \in 1 .. GlyphWidth : e[j] = AddPixel(e[j - 1], <<i, j - 1>> \in set)
               /\ \A j \in 0 .. GlyphWidth : e[j] \in Coding
               /\ \A j \in 0 .. GlyphWidth : Begins(e[j].codes, full.codes)
<1> DEFINE N == GlyphWidth
           Q == Coding
           start == [codes |-> <<>>, on |-> 0, off |-> 0]
           on(j) == <<i, j - 1>> \in set
           f(w) == [j \in 0 .. N |-> IF j = 0 THEN start ELSE AddPixel(w[j - 1], <<i, j - 1>> \in set)]
           e == RowUpTo(set, i)
           F == [q \in (1 .. N) \X Q |-> AddPixel(q[2], <<i, q[1] - 1>> \in set)]
<1>1. N \in Nat /\ start \in Q
  BY ScteAssumption DEF Coding
<1>2. e = CHOOSE w : w = f(w)
  BY DEF RowUpTo
<1>3. RowCodes(set, i) = (IF e[N].on = 0 THEN e[N].codes ELSE Append(e[N].codes, RunCode(e[N].on, e[N].off)))
                           \o <<Code("stuff", 0, 0), Code("eol", 0, 0)>>
  BY DEF RowCodes, RowUpTo
<1>4. \A j \in 1 .. N, st \in Q : AddPixel(st, <<i, j - 1>> \in set) \in Q
  <2> SUFFICES ASSUME NEW j \in 1 .. N, NEW st \in Q PROVE AddPixel(st, <<i, j - 1>> \in set) \in Q
    OBVIOUS
  <2>1. (<<i, j - 1>> \in set) \in BOOLEAN
    OBVIOUS
  <2> QED BY <2>1, PixelAdded
<1> HIDE DEF N, Q, start, e
<1>5. F \in [(1 .. N) \X Q -> Q]
      /\ \A j \in 1 .. N, st \in Q : F[<<j, st>>] = AddPixel(st, <<i, j - 1>> \in set)
  BY <1>4
<1> HIDE DEF F
<1>6. PICK w \in [0 .. N -> Q] : GoesBy(w, N, start, F)
  BY <1>1, <1>5, RecursionEquation
<1>7. w = f(w)
  <2>1. \A j \in 0 .. N : j = 0 \/ F[<<j, w[j - 1]>>] = AddPixel(w[j - 1], <<i, j - 1>> \in set)
    BY <1>1, <1>5
  <2> QED BY <1>6, <2>1 DEF GoesBy
<1>8. e = f(e)
  BY <1>2, <1>7
<1>9. e[0] = start /\ \A j \in 1 .. N : e[j] = AddPixel(e[j - 1], <<i, j - 1>> \in set)
  BY <1>1, <1>8
<1>10. e[0] \in Q /\ \A j \in 1 .. N : e[j - 1] \in Q => e[j] \in Q
  BY <1>1, <1>4, <1>9
<1>11. \A j \in 0 .. N : e[j] \in Q
  BY <1>1, <1>10, StaysIn
<1>12. \A j \in 0 .. N : Begins(e[j].codes, e[N].codes)
  <2> DEFINE S == {j \in 0 .. N : Begins(e[N - j].codes, e[N].codes)}
  <2>1. 0 \in S
    <3>1. Begins(e[N - 0].codes, e[N].codes)
      <4>1. e[N].codes \in Seq(RunCodes) /\ N - 0 = N
        BY <1>1, <1>11 DEF Q, Coding
      <4> QED BY <4>1 DEF Begins
    <3> QED BY <1>1, <3>1
  <2>2. ASSUME NEW j \in 1 .. N, Begins(e[N - (j - 1)].codes, e[N].codes) PROVE Begins(e[N - j].codes, e[N].codes)
    <3> DEFINE m == N - (j - 1)
    <3>1. m \in 1 .. N /\ m - 1 = N - j /\ m - 1 \in 0 .. N /\ m \in 0 .. N
      BY <1>1
    <3>2. Begins(e[m - 1].codes, e[m].codes)
      <4>1. e[m - 1] \in Coding /\ (<<i, m - 1>> \in set) \in BOOLEAN
        BY <1>11, <3>1 DEF Q
      <4>2. e[m] = AddPixel(e[m - 1], <<i, m - 1>> \in set)
        BY <1>9, <3>1
      <4> HIDE DEF m
      <4> QED BY <4>1, <4>2, PixelAdded
    <3>3. e[m - 1].codes \in Seq(RunCodes) /\ e[m].codes \in Seq(RunCodes) /\ e[N].codes \in Seq(RunCodes)
      <4>1. m - 1 \in 0 .. N /\ m \in 0 .. N /\ N \in 0 .. N
        BY <1>1, <3>1
      <4> HIDE DEF m
      <4>2. e[m - 1] \in Coding /\ e[m] \in Coding /\ e[N] \in Coding
        BY <1>11, <4>1 DEF Q
      <4> QED BY <4>2 DEF Coding
    <3>4. Begins(e[m].codes, e[N].codes)
      BY <2>2
    <3> DEFINE x == e[m - 1].codes  y == e[m].codes  z == e[N].codes
    <3>5. Begins(x, y) /\ Begins(y, z) /\ x \in Seq(RunCodes) /\ y \in Seq(RunCodes) /\ z \in Seq(RunCodes)
      BY <3>2, <3>3, <3>4
    <3> HIDE DEF x, y, z
    <3>6. Begins(x, z)
      BY <3>5 DEF Begins
    <3> QED BY <3>1, <3>6 DEF x, z
  <2>3. \A j \in 1 .. N : j - 1 \in S => j \in S
    BY <1>1, <2>2
  <2> HIDE DEF S
  <2>4. \A j \in 0 .. N : j \in S
    BY <1>1, <2>1, <2>3, UpTo
  <2>5. ASSUME NEW j \in 0 .. N PROVE Begins(e[j].codes, e[N].codes)
    <3>1. N - j \in 0 .. N /\ N - (N - j) = j
      BY <1>1
    <3> QED BY <2>4, <3>1 DEF S
  <2> QED BY <2>5
<1> QED BY <1>3, <1>9, <1>11, <1>12 DEF N, Q, start, e
-----------------------------------------------------------------------------
\* Pixels are numbered row after row
LEMMA RowsBefore ==
    ASSUME NEW w \in Nat, NEW a \in Int, NEW i \in Int, a < i
    PROVE  a * w + w <= i * w
<1>1. PICK d \in Nat : i = a + 1 + d
  <2>1. i - a - 1 \in Nat /\ i = a + 1 + (i - a - 1)
    OBVIOUS
  <2> QED BY <2>1
<1>2. i * w = a * w + w + d * w /\ d * w \in Nat /\ a * w \in Int
  BY <1>1
<1> DEFINE x == a * w  y == d * w  z == i * w
<1>3. z = x + w + y /\ x \in Int /\ y \in Nat
  BY <1>2
<1> HIDE DEF x, y, z
<1>4. x + w <= z
  BY <1>3
<1> QED BY <1>4 DEF x, z

Columns == 0 .. GlyphWidth - 1
Lines == 0 .. GlyphHeight - 1
Cells == 0 .. GlyphWidth * GlyphHeight - 1

LEMMA PixelPlace ==
    \A a \in Nat, b \in Nat : PixelAt(a, b) = a * GlyphWidth + b /\ a * GlyphWidth \in Nat
BY ScteAssumption DEF PixelAt

LEMMA PixelInside ==
    \A a \in Lines, b \in Columns : PixelAt(a, b) \in Cells
<1> SUFFICES ASSUME NEW a \in Lines, NEW b \in Columns PROVE PixelAt(a, b) \in Cells
  OBVIOUS
<1>1. GlyphWidth \in Nat \ {0} /\ GlyphHeight \in Nat \ {0} /\ a \in Nat /\ b \in Nat
      /\ a < GlyphHeight /\ b < GlyphWidth
  BY ScteAssumption DEF Lines, Columns
<1>2. a * GlyphWidth + GlyphWidth <= GlyphHeight * GlyphWidth
  BY <1>1, RowsBefore
<1>3. GlyphHeight * GlyphWidth = GlyphWidth * GlyphHeight
      /\ a * GlyphWidth \in Nat /\ GlyphWidth * GlyphHeight \in Nat
  BY <1>1
<1>4. PixelAt(a, b) = a * GlyphWidth + b
  BY <1>1, PixelPlace
<1> DEFINE x == a * GlyphWidth  z == GlyphWidth * GlyphHeight
<1>5. x + GlyphWidth <= z /\ x \in Nat /\ z \in Nat /\ PixelAt(a, b) = x + b
  BY <1>2, <1>3, <1>4
<1> HIDE DEF x
<1>6. PixelAt(a, b) \in 0 .. z - 1
  <2> HIDE DEF z
  <2> QED BY <1>1, <1>5
<1> QED BY <1>6 DEF Cells

\* The pixels of a row from a column on are those that are numbered so
LEMMA PixelBetween ==
    ASSUME NEW a \in Nat, NEW b \in Columns, NEW i \in Nat, NEW l \in Nat, NEW n \in Nat,
           l + n <= GlyphWidth
    PROVE  (PixelAt(a, b) >= i * GlyphWidth + l /\ PixelAt(a, b) < i * GlyphWidth + l + n)
              <=> (a = i /\ l <= b /\ b < l + n)
<1> DEFINE x == a * GlyphWidth  y == i * GlyphWidth
<1>1. GlyphWidth \in Nat /\ b \in Nat /\ b < GlyphWidth
  BY ScteAssumption DEF Columns
<1>2. x \in Nat /\ y \in Nat /\ PixelAt(a, b) = x + b
  BY <1>1, PixelPlace
<1>3. (a = i => x = y) /\ (a < i => x + GlyphWidth <= y) /\ (i < a => y + GlyphWidth <= x)
  BY <1>1, RowsBefore
<1> HIDE DEF x, y
<1>4. (x + b >= y + l /\ x + b < y + l + n) <=> (a = i /\ l <= b /\ b < l + n)
  <2>1. CASE a = i
    BY <1>1, <1>2, <1>3, <2>1
  <2>2. CASE a < i
    BY <1>1, <1>2, <1>3, <2>2
  <2>3. CASE i < a
    BY <1>1, <1>2, <1>3, <2>3
  <2> QED BY <2>1, <2>2, <2>3
<1> QED BY <1>2, <1>4 DEF y

-----------------------------------------------------------------------------
\* What the decoder keeps: the pixels, and where it is in them
Marks == {"unset", "bg", "ch"}
Drawing == [px : [Cells -> Marks], start : Nat, len : Nat, row : Nat]

PutIn(px, from, n, v) == [p \in DOMAIN px |-> IF p >= from /\ p < from + n THEN v ELSE px[p]]

\* The pixels of a row from a column on have another value, the rest are as they were
Covers(put, px, i, l, n, v) ==
    /\ put \in [Cells -> Marks]
    /\ \A a \in Lines, b \in Columns :
          put[PixelAt(a, b)] = IF a = i /\ l <= b /\ b < l + n THEN v ELSE px[PixelAt(a, b)]

LEMMA PixelsPut ==
    ASSUME NEW px \in [Cells -> Marks], NEW i \in Nat, NEW l \in Nat, NEW n \in Nat, l + n <= GlyphWidth,
           NEW v \in Marks, NEW from, from = i * GlyphWidth + l
    PROVE  Covers(PutIn(px, from, n, v), px, i, l, n, v)
<1> DEFINE put == PutIn(px, from, n, v)
<1>1. put = [p \in Cells |-> IF p >= from /\ p < from + n THEN v ELSE px[p]]
  BY DEF PutIn
<1>2. put \in [Cells -> Marks]
  <2> HIDE DEF put
  <2> QED BY <1>1
<1>3. ASSUME NEW a \in Lines, NEW b \in Columns
      PROVE  put[PixelAt(a, b)] = IF a = i /\ l <= b /\ b < l + n THEN v ELSE px[PixelAt(a, b)]
  <2>1. PixelAt(a, b) \in Cells
    BY PixelInside
  <2>2. (PixelAt(a, b) >= from /\ PixelAt(a, b) < from + n) <=> (a = i /\ l <= b /\ b < l + n)
    <3>1. a \in Nat
      BY DEF Lines
    <3> QED BY <3>1, PixelBetween
  <2> HIDE DEF put
  <2> QED BY <1>1, <2>1, <2>2
<1> QED BY <1>2, <1>3 DEF Covers

LEMMA CodeDrawn ==
    ASSUME NEW st \in Drawing, NEW c \in RunCodes,
           st.row < GlyphHeight, st.start = st.row * GlyphWidth, st.len + c.on + c.off <= GlyphWidth
    PROVE  LET more == RowStep(st, c)
           IN  /\ more \in Drawing /\ more.start = st.start /\ more.row = st.row
               /\ more.len = st.len + c.on + c.off
               /\ \A a \in Lines, b \in Columns :
                     more.px[PixelAt(a, b)] =
                        IF a = st.row /\ st.len <= b /\ b < st.len + c.on THEN "ch"
                        ELSE IF a = st.row /\ st.len + c.on <= b /\ b < st.len + c.on + c.off THEN "bg"
                        ELSE st.px[PixelAt(a, b)]
<1> DEFINE more == RowStep(st, c)
           cur == st.start + st.len
           px1 == PutIn(st.px, cur, c.on, "ch")
           px2 == PutIn(px1, cur + c.on, c.off, "bg")
           l == st.len
           on == c.on
           off == c.off
           i == st.row
<1>1. st.px \in [Cells -> Marks] /\ st.start \in Nat /\ l \in Nat /\ i \in Nat
  BY DEF Drawing
<1>2. on \in Nat /\ off \in Nat /\ c.k # "stuff" /\ c.k # "eol"
  BY DEF RunCodes
<1>3. GlyphWidth \in Nat /\ GlyphHeight \in Nat /\ ~(i >= GlyphHeight) /\ i * GlyphWidth \in Nat
  BY <1>1, ScteAssumption
<1>4. more = [px |-> px2, start |-> st.start, len |-> l + on + off, row |-> i]
  <2>1. more = [st EXCEPT !.px = px2, !.len = @ + c.on + c.off]
    BY <1>2, <1>3, Zenon DEF RowStep, PutIn
  <2>2. st.len + c.on + c.off = l + on + off
    OBVIOUS
  <2> HIDE DEF px2, more
  <2> QED BY <2>1 DEF Drawing
<1> HIDE DEF more
<1>5. cur = i * GlyphWidth + l /\ cur + on = i * GlyphWidth + (l + on)
  BY <1>1, <1>2, <1>3
<1>6. l + on <= GlyphWidth /\ (l + on) + off <= GlyphWidth /\ l + on \in Nat
  BY <1>1, <1>2, <1>3
<1>7. /\ px1 \in [Cells -> Marks]
      /\ \A a \in Lines, b \in Columns :
            px1[PixelAt(a, b)] = IF a = i /\ l <= b /\ b < l + on THEN "ch" ELSE st.px[PixelAt(a, b)]
  <2>1. "ch" \in Marks
    BY DEF Marks
  <2> DEFINE px == st.px
  <2>2. px \in [Cells -> Marks] /\ on \in Nat
    BY <1>1, <1>2
  <2> HIDE DEF l, on, off, i, cur, px
  <2>3. Covers(PutIn(px, cur, on, "ch"), px, i, l, on, "ch")
    BY <1>1, <1>5, <1>6, <2>1, <2>2, PixelsPut
  <2> QED BY <2>3 DEF Covers, px, on
<1> HIDE DEF px1
<1>8. /\ px2 \in [Cells -> Marks]
      /\ \A a \in Lines, b \in Columns :
            px2[PixelAt(a, b)] = IF a = i /\ l + on <= b /\ b < (l + on) + off THEN "bg" ELSE px1[PixelAt(a, b)]
  <2>1. "bg" \in Marks
    BY DEF Marks
  <2> DEFINE lon == l + on  from == cur + on
  <2>2. lon \in Nat /\ off \in Nat /\ from = i * GlyphWidth + lon /\ lon + off <= GlyphWidth
    BY <1>2, <1>5, <1>6
  <2> HIDE DEF lon, from, off, i
  <2>3. Covers(PutIn(px1, from, off, "bg"), px1, i, lon, off, "bg")
    BY <1>1, <1>7, <2>1, <2>2, PixelsPut
  <2> QED BY <2>3 DEF Covers, lon, from, off, i
<1> HIDE DEF px2
<1>9. more \in Drawing
  BY <1>1, <1>2, <1>4, <1>8 DEF Drawing
<1>11. more.start = st.start /\ more.row = st.row /\ more.len = st.len + c.on + c.off
  BY <1>4
<1>10. ASSUME NEW a \in Lines, NEW b \in Columns
       PROVE  more.px[PixelAt(a, b)] =
                 IF a = i /\ l <= b /\ b < l + on THEN "ch"
                 ELSE IF a = i /\ l + on <= b /\ b < l + on + off THEN "bg"
                 ELSE st.px[PixelAt(a, b)]
  <2>1. more.px = px2 /\ b \in Int
    BY <1>4 DEF Columns
  <2> DEFINE p == PixelAt(a, b)
  <2>2. px1[p] = IF a = i /\ l <= b /\ b < l + on THEN "ch" ELSE st.px[p]
    BY <1>7
  <2>3. px2[p] = IF a = i /\ l + on <= b /\ b < (l + on) + off THEN "bg" ELSE px1[p]
    BY <1>8
  <2> HIDE DEF p, l, on, off, i
  <2> QED BY <1>1, <1>2, <2>1, <2>2, <2>3 DEF p, l, on, off, i
<1> QED BY <1>9, <1>10, <1>11, Zenon DEF more

LEMMA LineEnds ==
    ASSUME NEW st \in Drawing, st.row < GlyphHeight, st.start = st.row * GlyphWidth, st.len <= GlyphWidth
    PROVE  LET more == RowStep(st, Code("eol", 0, 0))
           IN  /\ more \in Drawing /\ more.start = more.row * GlyphWidth /\ more.row = st.row + 1
               /\ more.len = 0
               /\ \A a \in Lines, b \in Columns :
                     more.px[PixelAt(a, b)] =
                        IF a = st.row /\ st.len <= b THEN "bg" ELSE st.px[PixelAt(a, b)]
<1> DEFINE more == RowStep(st, Code("eol", 0, 0))
           l == st.len
           i == st.row
           left == GlyphWidth - l
           put == PutIn(st.px, st.start + st.len, left, "bg")
           px == IF left > 0 THEN put ELSE st.px
<1>1. st.px \in [Cells -> Marks] /\ st.start \in Nat /\ l \in Nat /\ i \in Nat
  BY DEF Drawing
<1>2. GlyphWidth \in Nat /\ GlyphHeight \in Nat /\ ~(i >= GlyphHeight) /\ i * GlyphWidth \in Nat
  BY <1>1, ScteAssumption
<1>3. more = [px |-> px, start |-> st.start + GlyphWidth, len |-> 0, row |-> i + 1]
  BY <1>2, Zenon DEF RowStep, PutIn, Code
<1> HIDE DEF more
<1>4. left \in Nat /\ l + left = GlyphWidth /\ l + left <= GlyphWidth
  BY <1>1, <1>2
<1>5. /\ put \in [Cells -> Marks]
      /\ \A a \in Lines, b \in Columns :
            put[PixelAt(a, b)] = IF a = i /\ l <= b /\ b < l + left THEN "bg" ELSE st.px[PixelAt(a, b)]
  <2>1. "bg" \in Marks /\ st.start + st.len = i * GlyphWidth + l
    BY DEF Marks
  <2> DEFINE pixels == st.px  from == st.start + st.len
  <2>2. pixels \in [Cells -> Marks] /\ from = i * GlyphWidth + l
    BY <1>1, <2>1
  <2> HIDE DEF left, i, l, from, pixels
  <2>3. Covers(PutIn(pixels, from, left, "bg"), pixels, i, l, left, "bg")
    BY <1>1, <1>4, <2>1, <2>2, PixelsPut
  <2> QED BY <2>3 DEF Covers, from, pixels
<1> HIDE DEF put
<1>6. px \in [Cells -> Marks]
  BY <1>1, <1>5
<1>7. st.start + GlyphWidth = (i + 1) * GlyphWidth /\ st.start + GlyphWidth \in Nat
  BY <1>1, <1>2
<1>8. ASSUME NEW a \in Lines, NEW b \in Columns
      PROVE  px[PixelAt(a, b)] = IF a = i /\ l <= b THEN "bg" ELSE st.px[PixelAt(a, b)]
  <2>1. b \in Nat /\ b < GlyphWidth
    BY <1>2 DEF Columns
  <2>2. put[PixelAt(a, b)] = IF a = i /\ l <= b /\ b < l + left THEN "bg" ELSE st.px[PixelAt(a, b)]
    BY <1>5
  <2>3. l <= b => b < l + left /\ left > 0
    BY <1>1, <1>2, <1>4, <2>1
  <2> HIDE DEF l, left, i
  <2> QED BY <2>2, <2>3
<1> HIDE DEF px
<1>9. more \in Drawing
  BY <1>1, <1>3, <1>6, <1>7 DEF Drawing
<1>10. more.start = more.row * GlyphWidth /\ more.row = st.row + 1 /\ more.len = 0
       /\ more.px = px
  BY <1>3, <1>7
<1> QED BY <1>8, <1>9, <1>10, Zenon DEF more
-----------------------------------------------------------------------------
(* A row is decoded while it is being encoded: what the encoder has of a code  *)
(* that is not done yet is what the decoder has still to draw.                 *)
Shown(set, a, b) == IF <<a, b>> \in set THEN "ch" ELSE "bg"

\* The rows before one, and its columns before another, are drawn
RightTo(st, set, i, j) ==
    \A a \in Lines, b \in Columns :
        a < i \/ (a = i /\ b < j) => st.px[PixelAt(a, b)] = Shown(set, a, b)

InRow(st, i) == st \in Drawing /\ st.row = i /\ st.start = i * GlyphWidth

Pending(st, s, set, i, j) ==
    /\ InRow(st, i) /\ st.len + s.on + s.off = j
    /\ RightTo(st, set, i, st.len)
    /\ \A b \in Columns : st.len <= b /\ b < st.len + s.on => <<i, b>> \in set
    /\ \A b \in Columns : st.len + s.on <= b /\ b < j => <<i, b>> \notin set

LEMMA RunShown ==
    ASSUME NEW set, NEW i \in Lines, NEW j \in 0 .. GlyphWidth, NEW st, NEW s \in Coding,
           Pending(st, s, set, i, j)
    PROVE  LET more == RowStep(st, RunCode(s.on, s.off))
           IN  InRow(more, i) /\ more.len = j /\ RightTo(more, set, i, j)
<1> DEFINE c == RunCode(s.on, s.off)
           more == RowStep(st, c)
<1>1. s.on \in Nat /\ s.off \in Nat
  BY DEF Coding
<1>2. c \in RunCodes /\ c.on = s.on /\ c.off = s.off
  BY <1>1, CodeMade
<1>3. st \in Drawing /\ st.row = i /\ st.start = i * GlyphWidth /\ st.len + s.on + s.off = j /\ st.len \in Nat
  BY DEF Pending, InRow, Drawing
<1>4. i \in Nat /\ i < GlyphHeight /\ GlyphWidth \in Nat /\ j \in Nat /\ j <= GlyphWidth
  BY ScteAssumption DEF Lines
<1> HIDE DEF c
<1>5. st.row < GlyphHeight /\ st.start = st.row * GlyphWidth /\ st.len + c.on + c.off <= GlyphWidth
      /\ st.len + c.on + c.off = j
  BY <1>2, <1>3, <1>4
<1>6. /\ more \in Drawing /\ more.start = st.start /\ more.row = st.row
      /\ more.len = st.len + c.on + c.off
      /\ \A a \in Lines, b \in Columns :
            more.px[PixelAt(a, b)] =
               IF a = st.row /\ st.len <= b /\ b < st.len + c.on THEN "ch"
               ELSE IF a = st.row /\ st.len + c.on <= b /\ b < st.len + c.on + c.off THEN "bg"
               ELSE st.px[PixelAt(a, b)]
  BY <1>2, <1>3, <1>5, CodeDrawn
<1> HIDE DEF more
<1>7. ASSUME NEW a \in Lines, NEW b \in Columns, a < i \/ (a = i /\ b < j)
      PROVE  more.px[PixelAt(a, b)] = Shown(set, a, b)
  <2> DEFINE p == PixelAt(a, b)  l == st.len  on == s.on
  <2>1. more.px[p] = IF a = i /\ l <= b /\ b < l + on THEN "ch"
                     ELSE IF a = i /\ l + on <= b /\ b < j THEN "bg" ELSE st.px[p]
    BY <1>2, <1>3, <1>5, <1>6
  <2>2. a < i \/ (a = i /\ b < l) => st.px[p] = Shown(set, a, b)
    BY DEF Pending, RightTo
  <2>3. /\ l <= b /\ b < l + on => <<i, b>> \in set
        /\ l + on <= b /\ b < j => <<i, b>> \notin set
    BY DEF Pending
  <2>4. a \in Nat /\ b \in Nat /\ l \in Nat /\ on \in Nat
    BY <1>1, <1>3 DEF Lines, Columns
  <2> HIDE DEF p, l, on
  <2>5. CASE a < i
    <3>1. a # i
      BY <1>4, <2>4, <2>5
    <3> QED BY <2>1, <2>2, <2>5, <3>1 DEF p
  <2>6. CASE a = i /\ b < l
    <3>1. ~(l <= b) /\ ~(l + on <= b)
      BY <2>4, <2>6
    <3> QED BY <2>1, <2>2, <2>6, <3>1 DEF p
  <2>7. CASE a = i /\ l <= b /\ b < l + on
    BY <2>1, <2>3, <2>7 DEF p, Shown
  <2>8. CASE a = i /\ l + on <= b /\ b < j
    <3>1. ~(b < l + on)
      BY <2>4, <2>8
    <3> QED BY <2>1, <2>3, <2>8, <3>1 DEF p, Shown
  <2>9. (a = i /\ b < l) \/ (a = i /\ l <= b /\ b < l + on) \/ (a = i /\ l + on <= b /\ b < j) \/ a < i
    BY <1>7, <2>4
  <2> QED BY <2>5, <2>6, <2>7, <2>8, <2>9
<1>8. RightTo(more, set, i, j)
  BY <1>7 DEF RightTo
<1>9. InRow(more, i) /\ more.len = j
  BY <1>3, <1>5, <1>6 DEF InRow
<1> QED BY <1>8, <1>9 DEF more, c

LEMMA PendingStep ==
    ASSUME NEW set, NEW i \in Lines, NEW j \in 1 .. GlyphWidth, NEW st, NEW s \in Coding,
           Pending(st, s, set, i, j - 1)
    PROVE  Pending(IF <<i, j - 1>> \in set /\ s.off # 0 THEN RowStep(st, RunCode(s.on, s.off)) ELSE st,
                   AddPixel(s, <<i, j - 1>> \in set), set, i, j)
<1> DEFINE on == <<i, j - 1>> \in set
           more == AddPixel(s, on)
           l == st.len
<1>0. on \in BOOLEAN
  OBVIOUS
<1>1. GlyphWidth \in Nat /\ j \in Nat /\ j - 1 \in 0 .. GlyphWidth
  BY ScteAssumption
<1>8. \A b \in Nat : (b < j <=> b < j - 1 \/ b = j - 1)
                     /\ (j - 1 <= b /\ b < j => b = j - 1) /\ ~(j <= b /\ b < j)
  BY <1>1
<1>9. (on => <<i, j - 1>> \in set) /\ (~on => <<i, j - 1>> \notin set)
  OBVIOUS
<1> HIDE DEF on
<1>2. /\ ~on => more.codes = s.codes /\ more.on = s.on /\ more.off = s.off + 1
      /\ on /\ s.off = 0 => more.codes = s.codes /\ more.on = s.on + 1 /\ more.off = 0
      /\ on /\ s.off # 0 => more.on = 1 /\ more.off = 0
  BY <1>0, PixelAdded
<1>3. InRow(st, i) /\ l + s.on + s.off = j - 1 /\ RightTo(st, set, i, l)
      /\ l \in Nat /\ s.on \in Nat /\ s.off \in Nat
  BY DEF Pending, InRow, Drawing, Coding
<1>4. \A b \in Columns : /\ b \in Nat
                         /\ l <= b /\ b < l + s.on => <<i, b>> \in set
                         /\ l + s.on <= b /\ b < j - 1 => <<i, b>> \notin set
  BY DEF Pending, Columns
<1> HIDE DEF more, on
<1>5. CASE ~on
  <2>1. l + more.on + more.off = j
    <3>1. more.on = s.on /\ more.off = s.off + 1
      BY <1>2, <1>5
    <3> QED BY <1>1, <1>3, <3>1
  <2>2. ASSUME NEW b \in Columns
        PROVE  /\ l <= b /\ b < l + more.on => <<i, b>> \in set
               /\ l + more.on <= b /\ b < j => <<i, b>> \notin set
    <3>1. more.on = s.on /\ <<i, j - 1>> \notin set
      BY <1>2, <1>5, <1>9
    <3>2. b < j => b < j - 1 \/ b = j - 1
      BY <1>4, <1>8
    <3> QED BY <1>4, <3>1, <3>2
  <2>3. Pending(st, more, set, i, j)
    BY <1>3, <2>1, <2>2 DEF Pending
  <2> QED BY <1>5, <2>3 DEF more, on
<1>6. CASE on /\ s.off = 0
  <2>1. l + more.on + more.off = j /\ l + s.on = j - 1 /\ l + more.on = j
    BY <1>1, <1>2, <1>3, <1>6
  <2>2. ASSUME NEW b \in Columns
        PROVE  /\ l <= b /\ b < l + more.on => <<i, b>> \in set
               /\ l + more.on <= b /\ b < j => <<i, b>> \notin set
    <3>1. <<i, j - 1>> \in set
      BY <1>6, <1>9
    <3>2. b < j => b < j - 1 \/ b = j - 1
      BY <1>4, <1>8
    <3>3. ~(j <= b /\ b < j)
      BY <1>4, <1>8
    <3> QED BY <1>4, <2>1, <3>1, <3>2, <3>3
  <2>3. Pending(st, more, set, i, j)
    BY <1>3, <2>1, <2>2 DEF Pending
  <2> QED BY <1>6, <2>3 DEF more, on
<1>7. CASE on /\ s.off # 0
  <2> DEFINE next == RowStep(st, RunCode(s.on, s.off))
  <2>1. InRow(next, i) /\ next.len = j - 1 /\ RightTo(next, set, i, j - 1)
    BY <1>1, RunShown
  <2> HIDE DEF next
  <2>2. more.on = 1 /\ more.off = 0
    BY <1>2, <1>7
  <2>3. next.len + more.on + more.off = j /\ next.len + more.on = j
    BY <1>1, <2>1, <2>2
  <2>4. ASSUME NEW b \in Columns
        PROVE  /\ next.len <= b /\ b < next.len + more.on => <<i, b>> \in set
               /\ next.len + more.on <= b /\ b < j => <<i, b>> \notin set
    <3>1. <<i, j - 1>> \in set
      BY <1>7, <1>9
    <3>2. j - 1 <= b /\ b < j => b = j - 1
      BY <1>4, <1>8
    <3>3. ~(j <= b /\ b < j)
      BY <1>4, <1>8
    <3> QED BY <2>1, <2>3, <3>1, <3>2, <3>3
  <2>5. Pending(next, more, set, i, j)
    BY <2>1, <2>3, <2>4 DEF Pending
  <2> QED BY <1>7, <2>5 DEF more, next, on
<1> QED BY <1>5, <1>6, <1>7
\* A row is about to be decoded, those before it are drawn
AtRow(st, set, i) == InRow(st, i) /\ st.len = 0 /\ RightTo(st, set, i, 0)

\* The codes of a row without its end
RowBody(set, i) ==
    LET full == RowUpTo(set, i)[GlyphWidth]
    IN  IF full.on = 0 THEN full.codes ELSE Append(full.codes, RunCode(full.on, full.off))

LEMMA RowCoding ==
    ASSUME NEW set, NEW i \in Nat
    PROVE  LET full == RowUpTo(set, i)[GlyphWidth]
               body == RowBody(set, i)
               codes == RowCodes(set, i)
           IN  /\ full \in Coding /\ body \in Seq(RunCodes) /\ codes \in Seq(RowCodeSet)
               /\ Len(codes) = Len(body) + 2
               /\ \A k \in 1 .. Len(body) : codes[k] = body[k]
               /\ codes[Len(body) + 1] = Code("stuff", 0, 0) /\ codes[Len(body) + 2] = Code("eol", 0, 0)
               /\ Begins(full.codes, body)
               /\ full.on = 0 => Len(body) = Len(full.codes)
               /\ full.on # 0 => Len(body) = Len(full.codes) + 1
                                 /\ body[Len(body)] = RunCode(full.on, full.off)
<1> DEFINE e == RowUpTo(set, i)
           full == e[GlyphWidth]
           code == RunCode(full.on, full.off)
           body == IF full.on = 0 THEN full.codes ELSE Append(full.codes, code)
           codes == RowCodes(set, i)
           ending == <<Code("stuff", 0, 0), Code("eol", 0, 0)>>
<1>1. full \in Coding /\ codes = body \o ending
  <2>1. GlyphWidth \in 0 .. GlyphWidth
    BY ScteAssumption
  <2> QED BY <2>1, RowUpToSteps
<1> HIDE DEF codes
<1> HIDE DEF e
<1>2. full.codes \in Seq(RunCodes) /\ full.on \in Nat /\ full.off \in Nat
  BY <1>1 DEF Coding
<1>3. code \in RunCodes
  BY <1>2, CodeMade
<1> DEFINE q == full.codes
<1> HIDE DEF code
<1>4. body \in Seq(RunCodes) /\ Begins(q, body)
      /\ (full.on = 0 => Len(body) = Len(q))
      /\ (full.on # 0 => Len(body) = Len(q) + 1 /\ body[Len(body)] = code)
  <2>1. CASE full.on = 0
    BY <1>2, <2>1 DEF Begins
  <2>2. CASE full.on # 0
    <3>1. body = Append(q, code) /\ q \in Seq(RunCodes)
      BY <1>2, <2>2
    <3> HIDE DEF body, q
    <3> QED BY <1>3, <2>2, <3>1 DEF Begins
  <2> QED BY <2>1, <2>2
<1> HIDE DEF body
<1>5. ending \in Seq(RowCodeSet) /\ Len(ending) = 2 /\ body \in Seq(RowCodeSet)
      /\ ending[1] = Code("stuff", 0, 0) /\ ending[2] = Code("eol", 0, 0)
  <2>1. RunCodes \subseteq RowCodeSet
    BY DEF RunCodes, RowCodeSet
  <2>2. Code("stuff", 0, 0) \in RowCodeSet /\ Code("eol", 0, 0) \in RowCodeSet
    BY DEF Code, RowCodeSet
  <2>3. body \in Seq(RowCodeSet)
    BY <1>4, <2>1
  <2> QED BY <2>2, <2>3
<1> HIDE DEF ending
<1>6. codes \in Seq(RowCodeSet) /\ Len(codes) = Len(body) + 2
      /\ (\A k \in 1 .. Len(body) : codes[k] = body[k])
      /\ codes[Len(body) + 1] = ending[1] /\ codes[Len(body) + 2] = ending[2]
  <2>1. /\ Len(body \o ending) = Len(body) + Len(ending)
        /\ \A m \in 1 .. Len(body) : (body \o ending)[m] = body[m]
        /\ \A j \in 1 .. Len(ending) : (body \o ending)[Len(body) + j] = ending[j]
    <3>1. body \in Seq(RowCodeSet) /\ ending \in Seq(RowCodeSet)
      BY <1>5
    <3> QED BY <3>1
  <2>2. 1 \in 1 .. Len(ending) /\ 2 \in 1 .. Len(ending)
    BY <1>5
  <2> QED BY <1>1, <1>5, <2>1, <2>2
<1> QED BY <1>1, <1>4, <1>5, <1>6, Zenon DEF codes, body, code, e, RowBody

LEMMA RowRead ==
    ASSUME NEW set, NEW i \in Lines, NEW v, NEW base \in Nat, AtRow(v[base], set, i),
           \A k \in 1 .. Len(RowCodes(set, i)) : v[base + k] = RowStep(v[base + k - 1], RowCodes(set, i)[k])
    PROVE  AtRow(v[base + Len(RowCodes(set, i))], set, i + 1)
<1> DEFINE e == RowUpTo(set, i)
           N == GlyphWidth
           full == e[N]
           body == RowBody(set, i)
           codes == RowCodes(set, i)
           L == Len(body)
<1>1. N \in Nat \ {0} /\ i \in Nat /\ i < GlyphHeight
  BY ScteAssumption DEF Lines
<1>2. /\ full \in Coding /\ body \in Seq(RunCodes)
      /\ Len(codes) = L + 2
      /\ \A k \in 1 .. L : codes[k] = body[k]
      /\ codes[L + 1] = Code("stuff", 0, 0) /\ codes[L + 2] = Code("eol", 0, 0)
      /\ Begins(full.codes, body)
      /\ full.on = 0 => L = Len(full.codes)
      /\ full.on # 0 => L = Len(full.codes) + 1 /\ body[L] = RunCode(full.on, full.off)
  BY <1>1, RowCoding
<1>3. /\ e[0] = [codes |-> <<>>, on |-> 0, off |-> 0]
      /\ \A j \in 1 .. N : e[j] = AddPixel(e[j - 1], <<i, j - 1>> \in set)
      /\ \A j \in 0 .. N : e[j] \in Coding
      /\ \A j \in 0 .. N : Begins(e[j].codes, full.codes)
  BY <1>1, RowUpToSteps
<1>4. L \in Nat /\ full.codes \in Seq(RunCodes) /\ full.on \in Nat /\ full.off \in Nat
  BY <1>2 DEF Coding
<1>5. \A k \in 1 .. L : v[base + k] = RowStep(v[base + k - 1], body[k])
  BY <1>2, <1>4
<1>6. /\ v[base + L + 1] = RowStep(v[base + L], Code("stuff", 0, 0))
      /\ v[base + L + 2] = RowStep(v[base + L + 1], Code("eol", 0, 0))
  <2>0. Len(codes) = L + 2 /\ L \in Nat
    BY <1>2, <1>4
  <2> DEFINE m == Len(codes)
  <2>1. L + 1 \in 1 .. Len(codes) /\ L + 2 \in 1 .. Len(codes)
        /\ base + (L + 1) = base + L + 1 /\ base + (L + 2) = base + L + 2
        /\ base + (L + 1) - 1 = base + L /\ base + (L + 2) - 1 = base + L + 1
    <3>1. m = L + 2 /\ L \in Nat
      BY <2>0
    <3> HIDE DEF m, L
    <3>2. L + 1 \in 1 .. m /\ L + 2 \in 1 .. m
          /\ base + (L + 1) = base + L + 1 /\ base + (L + 2) = base + L + 2
          /\ base + (L + 1) - 1 = base + L /\ base + (L + 2) - 1 = base + L + 1
      BY <3>1
    <3> QED BY <3>2 DEF m
  <2> HIDE DEF codes, L
  <2>2. v[base + (L + 1)] = RowStep(v[base + (L + 1) - 1], codes[L + 1])
        /\ v[base + (L + 2)] = RowStep(v[base + (L + 2) - 1], codes[L + 2])
    BY <2>1 DEF codes
  <2> QED BY <1>2, <2>1, <2>2
<1> DEFINE codesOf(j) == e[j].codes
           Claim(j) == Pending(v[base + Len(codesOf(j))], e[j], set, i, j)
           S == {j \in 0 .. N : Claim(j)}
<1> HIDE DEF body, codes, L
<1>7. Claim(0)
  <2>1. e[0].codes = <<>> /\ e[0].on = 0 /\ e[0].off = 0 /\ Len(<<>>) = 0
    BY <1>3
  <2>2. base + Len(codesOf(0)) = base
    BY <2>1
  <2> DEFINE st == v[base]  s == e[0]
  <2>3. Pending(st, s, set, i, 0)
    <3>1. InRow(st, i) /\ st.len = 0 /\ RightTo(st, set, i, 0) /\ s.on = 0 /\ s.off = 0
      BY <2>1 DEF AtRow
    <3> HIDE DEF st, s
    <3>2. \A b \in Columns : b \in Nat
      BY DEF Columns
    <3>3. st.len + s.on + s.off = 0 /\ st.len + s.on = 0
      BY <3>1
    <3>4. \A b \in Columns : ~(0 <= b /\ b < 0)
      BY <3>2
    <3> QED BY <3>1, <3>3, <3>4 DEF Pending
  <2> QED BY <2>2, <2>3
<1>8. ASSUME NEW j \in 1 .. N, Claim(j - 1) PROVE Claim(j)
  <2> DEFINE s == e[j - 1]
             n == Len(s.codes)
             on == <<i, j - 1>> \in set
             st == v[base + n]
  <2>1. j - 1 \in 0 .. N /\ j \in 0 .. N /\ s \in Coding /\ e[j] = AddPixel(s, on)
    BY <1>1, <1>3
  <2>2. Pending(IF on /\ s.off # 0 THEN RowStep(st, RunCode(s.on, s.off)) ELSE st,
                AddPixel(s, on), set, i, j)
    BY <1>8, <2>1, PendingStep
  <2>3. on \in BOOLEAN
    OBVIOUS
  <2>4. s.codes \in Seq(RunCodes) /\ n \in Nat
    BY <2>1 DEF Coding
  <2>5. /\ on /\ s.off # 0 => e[j].codes = Append(s.codes, RunCode(s.on, s.off))
        /\ ~(on /\ s.off # 0) => e[j].codes = s.codes
    <3> HIDE DEF s, on
    <3> QED BY <2>1, <2>3, PixelAdded
  <2>6. CASE ~(on /\ s.off # 0)
    <3>1. Pending(st, e[j], set, i, j)
      BY <2>1, <2>2, <2>6
    <3>2. e[j].codes = s.codes
      BY <2>5, <2>6
    <3> QED BY <3>1, <3>2
  <2>7. CASE on /\ s.off # 0
    <3> DEFINE c == RunCode(s.on, s.off)
    <3>1. e[j].codes = Append(s.codes, c)
      BY <2>5, <2>7
    <3>2. c \in RunCodes
      <4>1. s.on \in Nat /\ s.off \in Nat
        BY <2>1 DEF Coding
      <4> QED BY <4>1, CodeMade
    <3>3. Pending(RowStep(st, c), e[j], set, i, j)
      BY <2>1, <2>2, <2>7
    <3> HIDE DEF c
    <3>4. Len(e[j].codes) = n + 1 /\ e[j].codes[n + 1] = c
      <4> DEFINE q == s.codes
      <4>1. q \in Seq(RunCodes) /\ n = Len(q) /\ e[j].codes = Append(q, c)
        BY <2>4, <3>1
      <4> HIDE DEF q, n
      <4> QED BY <3>2, <4>1
    <3>5. n + 1 \in 1 .. L /\ body[n + 1] = c
      <4>1. Begins(e[j].codes, full.codes) /\ Begins(full.codes, body)
        BY <1>2, <1>3, <2>1
      <4> HIDE DEF full
      <4> DEFINE x == e[j].codes  y == full.codes
      <4>2. Len(x) <= Len(y) /\ Len(y) <= Len(body)
            /\ (\A m \in 1 .. Len(x) : y[m] = x[m]) /\ \A m \in 1 .. Len(y) : body[m] = y[m]
        BY <4>1 DEF Begins
      <4>3. Len(x) = n + 1 /\ x[n + 1] = c
        BY <3>4
      <4>4. Len(y) \in Nat /\ Len(body) \in Nat /\ L = Len(body)
        BY <1>2, <1>4 DEF L
      <4> HIDE DEF x, y, n
      <4>5. n \in Nat
        BY <2>4
      <4>6. n + 1 \in 1 .. Len(x) /\ n + 1 \in 1 .. Len(y) /\ n + 1 \in 1 .. L
        BY <4>2, <4>3, <4>4, <4>5
      <4> QED BY <4>2, <4>3, <4>6
    <3>6. v[base + (n + 1)] = RowStep(v[base + (n + 1) - 1], body[n + 1])
      BY <1>5, <3>5
    <3>7. base + (n + 1) - 1 = base + n
      BY <2>4
    <3>8. v[base + Len(e[j].codes)] = RowStep(st, c)
      BY <3>4, <3>5, <3>6, <3>7
    <3> QED BY <3>3, <3>8
  <2> QED BY <2>6, <2>7
<1>9. Claim(N)
  <2>1. 0 \in S /\ \A j \in 1 .. N : j - 1 \in S => j \in S
    <3> HIDE DEF Claim
    <3> QED BY <1>1, <1>7, <1>8
  <2> HIDE DEF S
  <2>2. \A j \in 0 .. N : j \in S
    BY <1>1, <2>1, UpTo
  <2>3. N \in 0 .. N
    BY <1>1
  <2> QED BY <2>2, <2>3 DEF S
<1> DEFINE st == v[base + L]
           l == st.len
<1>10. InRow(st, i) /\ l \in 0 .. N /\ RightTo(st, set, i, l)
       /\ \A b \in Columns : l <= b => <<i, b>> \notin set
  <2> DEFINE before == v[base + Len(full.codes)]
  <2>1. Pending(before, full, set, i, N) /\ full \in Coding
    BY <1>2, <1>9
  <2>2. CASE full.on = 0
    <3>1. st = before
      BY <1>2, <2>2
    <3> HIDE DEF st, full, before
    <3>2. InRow(st, i) /\ st.len + full.on + full.off = N /\ RightTo(st, set, i, st.len)
          /\ (\A b \in Columns : st.len + full.on <= b /\ b < N => <<i, b>> \notin set)
          /\ st.len \in Nat
      BY <2>1, <3>1 DEF Pending, InRow, Drawing
    <3>3. st.len + full.on = st.len /\ st.len \in 0 .. N
      BY <1>1, <1>4, <2>2, <3>2
    <3>4. \A b \in Columns : b < N
      BY <1>1 DEF Columns
    <3> QED BY <3>2, <3>3, <3>4
  <2>3. CASE full.on # 0
    <3> DEFINE c == RunCode(full.on, full.off)
    <3>1. L = Len(full.codes) + 1 /\ body[L] = c /\ L \in 1 .. L
      <4>1. Len(full.codes) \in Nat
        BY <1>4
      <4> QED BY <1>2, <2>3, <4>1, SMTT(30)
    <3>2. v[base + L] = RowStep(v[base + L - 1], body[L]) /\ base + L - 1 = base + Len(full.codes)
      <4> DEFINE n == Len(full.codes)
      <4>1. n \in Nat /\ L = n + 1
        BY <1>4, <3>1
      <4> HIDE DEF n
      <4>2. base + L - 1 = base + n
        BY <4>1
      <4> QED BY <1>5, <3>1, <4>2 DEF n
    <3>3. st = RowStep(before, c)
      BY <3>1, <3>2
    <3>4. N \in 0 .. GlyphWidth
      BY <1>1
    <3> HIDE DEF before, full
    <3>5. InRow(RowStep(before, c), i) /\ RowStep(before, c).len = N /\ RightTo(RowStep(before, c), set, i, N)
      BY <2>1, <3>4, RunShown
    <3>6. \A b \in Columns : ~(N <= b)
      BY <1>1, SMTT(30) DEF Columns
    <3> HIDE DEF st, c
    <3> QED BY <1>1, <3>3, <3>5, <3>6
  <2> QED BY <1>4, <2>2, <2>3
<1>11. v[base + L + 1] = st
  <2>1. Code("stuff", 0, 0).k = "stuff"
    BY DEF Code
  <2> QED BY <1>6, <2>1, Zenon DEF RowStep
<1> DEFINE more == RowStep(st, Code("eol", 0, 0))
<1>12. v[base + L + 2] = more
  BY <1>6, <1>11
<1>13. st \in Drawing /\ st.row < GlyphHeight /\ st.start = st.row * GlyphWidth /\ st.len <= GlyphWidth
       /\ st.row = i
  BY <1>1, <1>10 DEF InRow
<1> HIDE DEF st
<1>14. /\ more \in Drawing /\ more.start = more.row * GlyphWidth /\ more.row = st.row + 1
       /\ more.len = 0
       /\ \A a \in Lines, b \in Columns :
             more.px[PixelAt(a, b)] = IF a = st.row /\ st.len <= b THEN "bg" ELSE st.px[PixelAt(a, b)]
  BY <1>13, LineEnds
<1> HIDE DEF more
<1>15. AtRow(more, set, i + 1)
  <2>1. ASSUME NEW a \in Lines, NEW b \in Columns, a < i + 1 \/ (a = i + 1 /\ b < 0)
        PROVE  more.px[PixelAt(a, b)] = Shown(set, a, b)
    <3>1. a \in Nat /\ b \in Nat /\ (a < i \/ a = i)
      BY <1>1, <2>1 DEF Lines, Columns
    <3>2. CASE a = i /\ l <= b
      <4>1. <<a, b>> \notin set
        BY <1>10, <3>2
      <4> QED BY <1>13, <1>14, <3>2, <4>1 DEF Shown
    <3>3. CASE a < i \/ (a = i /\ b < l)
      <4>1. ~(a = i /\ l <= b)
        BY <1>1, <1>10, <3>1, <3>3
      <4>2. st.px[PixelAt(a, b)] = Shown(set, a, b)
        BY <1>10, <3>3 DEF RightTo
      <4> QED BY <1>13, <1>14, <4>1, <4>2
    <3>4. a = i => l <= b \/ b < l
      BY <1>10, <3>1
    <3> QED BY <3>1, <3>2, <3>3, <3>4
  <2>2. InRow(more, i + 1) /\ more.len = 0
    BY <1>13, <1>14 DEF InRow
  <2> QED BY <2>1, <2>2 DEF AtRow, RightTo
<1>16. base + Len(codes) = base + L + 2
  BY <1>2, <1>4
<1> QED BY <1>12, <1>15, <1>16 DEF codes
-----------------------------------------------------------------------------
NothingDrawn == [px |-> [p \in Cells |-> "unset"], start |-> 0, len |-> 0, row |-> 0]

DecodedBy(codes) ==
    CHOOSE after : after = [n \in 0 .. Len(codes) |->
        IF n = 0 THEN NothingDrawn ELSE RowStep(after[n - 1], codes[n])]

LEMMA RowStepStays ==
    ASSUME NEW st \in Drawing, NEW c \in RowCodeSet
    PROVE  RowStep(st, c) \in Drawing
<1>1. st.px \in [Cells -> Marks] /\ st.start \in Nat /\ st.len \in Nat /\ st.row \in Nat
      /\ c.on \in Nat /\ c.off \in Nat /\ GlyphWidth \in Nat
  BY ScteAssumption DEF Drawing, RowCodeSet
<1>2. ASSUME NEW px \in [Cells -> Marks], NEW from, NEW n, NEW v \in Marks
      PROVE  PutIn(px, from, n, v) \in [Cells -> Marks]
  <2>1. PutIn(px, from, n, v) = [p \in Cells |-> IF p >= from /\ p < from + n THEN v ELSE px[p]]
    BY DEF PutIn
  <2> QED BY <2>1
<1>3. "ch" \in Marks /\ "bg" \in Marks
  BY DEF Marks
<1>4. CASE st.row >= GlyphHeight \/ c.k = "stuff"
  BY <1>4 DEF RowStep
<1>5. CASE ~(st.row >= GlyphHeight \/ c.k = "stuff") /\ c.k = "eol"
  <2> DEFINE put == PutIn(st.px, st.start + st.len, GlyphWidth - st.len, "bg")
             px == IF GlyphWidth - st.len > 0 THEN put ELSE st.px
  <2>1. RowStep(st, c) = [px |-> px, start |-> st.start + GlyphWidth, len |-> 0, row |-> st.row + 1]
    BY <1>5, Zenon DEF RowStep, PutIn
  <2>2. put \in [Cells -> Marks]
    BY <1>1, <1>2, <1>3
  <2> HIDE DEF put
  <2>3. px \in [Cells -> Marks]
    BY <1>1, <2>2
  <2> HIDE DEF px
  <2> QED BY <1>1, <2>1, <2>3 DEF Drawing
<1>6. CASE ~(st.row >= GlyphHeight \/ c.k = "stuff") /\ c.k # "eol"
  <2> DEFINE cur == st.start + st.len
             px1 == PutIn(st.px, cur, c.on, "ch")
             px2 == PutIn(px1, cur + c.on, c.off, "bg")
  <2>1. RowStep(st, c) = [st EXCEPT !.px = px2, !.len = @ + c.on + c.off]
    BY <1>6, Zenon DEF RowStep, PutIn
  <2>2. px1 \in [Cells -> Marks]
    BY <1>1, <1>2, <1>3
  <2> HIDE DEF px1
  <2>3. px2 \in [Cells -> Marks]
    BY <1>2, <1>3, <2>2
  <2> HIDE DEF px2
  <2>4. RowStep(st, c) = [px |-> px2, start |-> st.start, len |-> st.len + c.on + c.off, row |-> st.row]
    BY <2>1 DEF Drawing
  <2>5. st.len + c.on + c.off \in Nat
    BY <1>1
  <2> QED BY <1>1, <2>3, <2>4, <2>5 DEF Drawing
<1> QED BY <1>4, <1>5, <1>6

LEMMA DecodedSteps ==
    ASSUME NEW codes \in Seq(RowCodeSet)
    PROVE  LET v == DecodedBy(codes)
           IN  /\ Decoded(codes) = v[Len(codes)].px
               /\ v[0] = NothingDrawn
               /\ \A n \in 1 .. Len(codes) : v[n] = RowStep(v[n - 1], codes[n])
               /\ \A n \in 0 .. Len(codes) : v[n] \in Drawing
<1> DEFINE N == Len(codes)
           Q == Drawing
           start == NothingDrawn
           f(w) == [n \in 0 .. N |-> IF n = 0 THEN start ELSE RowStep(w[n - 1], codes[n])]
           v == DecodedBy(codes)
           F == [p \in (1 .. N) \X Q |-> RowStep(p[2], codes[p[1]])]
<1>1. N \in Nat /\ start \in Q
  BY DEF Drawing, NothingDrawn, Marks
<1>2. Decoded(codes) = v[N].px
  BY DEF Decoded, DecodedBy, NothingDrawn, Cells
<1>3. v = CHOOSE w : w = f(w)
  BY DEF DecodedBy
<1>4. \A n \in 1 .. N, st \in Q : RowStep(st, codes[n]) \in Q
  <2> SUFFICES ASSUME NEW n \in 1 .. N, NEW st \in Q PROVE RowStep(st, codes[n]) \in Q
    OBVIOUS
  <2>1. codes[n] \in RowCodeSet
    OBVIOUS
  <2> QED BY <1>1, <2>1, RowStepStays
<1> HIDE DEF N, Q, v, start
<1>6. F \in [(1 .. N) \X Q -> Q]
      /\ \A n \in 1 .. N, st \in Q : F[<<n, st>>] = RowStep(st, codes[n])
  BY <1>4
<1> HIDE DEF F
<1>7. PICK w \in [0 .. N -> Q] : GoesBy(w, N, start, F)
  BY <1>1, <1>6, RecursionEquation
<1>8. w = f(w)
  <2>1. \A n \in 0 .. N : n = 0 \/ F[<<n, w[n - 1]>>] = RowStep(w[n - 1], codes[n])
    BY <1>1, <1>6
  <2> QED BY <1>7, <2>1 DEF GoesBy
<1>9. v = f(v)
  BY <1>3, <1>8
<1>10. v[0] = start /\ \A n \in 1 .. N : v[n] = RowStep(v[n - 1], codes[n])
  BY <1>1, <1>9
<1>11. v[0] \in Q /\ \A n \in 1 .. N : v[n - 1] \in Q => v[n] \in Q
  BY <1>1, <1>4, <1>10
<1>12. \A n \in 0 .. N : v[n] \in Q
  BY <1>1, <1>11, StaysIn
<1> QED BY <1>2, <1>10, <1>12 DEF N, Q, v, start

\* The codes of all the rows give the character back, and background where it is not
LEMMA CharacterDecoded ==
    ASSUME NEW set
    PROVE  LET px == Decoded(FlattenSeq([i \in 1 .. GlyphHeight |-> RowCodes(set, i - 1)]))
           IN  /\ px \in [Cells -> Marks]
               /\ \A a \in Lines, b \in Columns : px[PixelAt(a, b)] = Shown(set, a, b)
<1> DEFINE N == GlyphHeight
           parts == [i \in 1 .. N |-> RowCodes(set, i - 1)]
           all == FlattenSeq(parts)
           v == DecodedBy(all)
<1>1. N \in Nat
  BY ScteAssumption
<1>2. ASSUME NEW i \in 1 .. N
      PROVE  parts[i] = RowCodes(set, i - 1) /\ parts[i] \in Seq(RowCodeSet) /\ i - 1 \in Lines
  <2>1. i - 1 \in Nat /\ i - 1 \in Lines
    BY <1>1 DEF Lines
  <2>2. RowCodes(set, i - 1) \in Seq(RowCodeSet)
    BY <2>1, RowCoding
  <2> QED BY <2>1, <2>2
<1>3. parts \in Seq(Seq(RowCodeSet)) /\ Len(parts) = N
  <2>1. DOMAIN parts = 1 .. N /\ parts = [i \in 1 .. N |-> parts[i]]
    OBVIOUS
  <2> HIDE DEF parts, N
  <2> QED BY <1>1, <1>2, <2>1
<1> HIDE DEF parts
<1>4. all \in Seq(RowCodeSet)
  BY <1>3, FlattenedParts
<1>5. PICK places : PlacesOf(parts, all, places)
  BY <1>3, FlattenedParts
<1> HIDE DEF N, all, v
<1>6. /\ places \in [0 .. N -> Nat] /\ places[0] = 0 /\ Len(all) = places[N]
      /\ \A i \in 1 .. N : places[i] = places[i - 1] + Len(parts[i]) /\ places[i] <= Len(all)
      /\ \A i \in 1 .. N : \A j \in 1 .. Len(parts[i]) : all[places[i - 1] + j] = parts[i][j]
  BY <1>3, <1>5 DEF PlacesOf
<1>7. /\ Decoded(all) = v[Len(all)].px
      /\ v[0] = NothingDrawn
      /\ \A n \in 1 .. Len(all) : v[n] = RowStep(v[n - 1], all[n])
      /\ \A n \in 0 .. Len(all) : v[n] \in Drawing
  BY <1>4, DecodedSteps DEF v
<1>8. AtRow(v[places[0]], set, 0)
  <2> DEFINE st == v[0]
  <2>1. 0 \in 0 .. Len(all)
    BY <1>4
  <2>2. st \in Drawing /\ st.row = 0 /\ st.start = 0 /\ st.len = 0
    BY <1>7, <2>1 DEF NothingDrawn
  <2>3. 0 * GlyphWidth = 0 /\ \A a \in Lines, b \in Columns : ~(a < 0) /\ ~(b < 0)
    BY ScteAssumption DEF Lines, Columns
  <2> HIDE DEF st
  <2>4. AtRow(st, set, 0)
    BY <2>2, <2>3 DEF AtRow, InRow, RightTo
  <2> QED BY <1>6, <2>4 DEF st
<1>9. ASSUME NEW i \in 1 .. N, AtRow(v[places[i - 1]], set, i - 1) PROVE AtRow(v[places[i]], set, i)
  <2> DEFINE base == places[i - 1]
             r == i - 1
             codes == RowCodes(set, r)
  <2>1. r \in Lines /\ base \in Nat /\ parts[i] = codes /\ codes \in Seq(RowCodeSet)
        /\ places[i] = base + Len(codes) /\ places[i] <= Len(all) /\ r + 1 = i
    <3>1. i - 1 \in 0 .. N
      BY <1>1
    <3> QED BY <1>1, <1>2, <1>6, <3>1
  <2> HIDE DEF codes, base
  <2>2. Len(codes) \in Nat /\ Len(all) \in Nat
    BY <1>4, <2>1
  <2>3. ASSUME NEW k \in 1 .. Len(codes) PROVE v[base + k] = RowStep(v[base + k - 1], codes[k])
    <3>1. base + k \in 1 .. Len(all)
      BY <2>1, <2>2
    <3>2. all[base + k] = codes[k]
      BY <1>6, <2>1 DEF base
    <3> DEFINE n == base + k
    <3>3. n \in 1 .. Len(all) /\ all[n] = codes[k]
      BY <3>1, <3>2
    <3> HIDE DEF n
    <3>4. v[n] = RowStep(v[n - 1], codes[k])
      BY <1>7, <3>3
    <3>5. n = base + k /\ n - 1 = base + k - 1
      BY <2>1 DEF n
    <3> QED BY <3>4, <3>5
  <2>4. AtRow(v[base], set, r)
    BY <1>9 DEF base
  <2> HIDE DEF r
  <2>5. AtRow(v[base + Len(codes)], set, r + 1)
    BY <2>1, <2>3, <2>4, RowRead DEF codes
  <2> QED BY <2>1, <2>5
<1>10. AtRow(v[places[N]], set, N)
  <2> DEFINE S == {i \in 0 .. N : AtRow(v[places[i]], set, i)}
  <2>1. 0 \in S /\ \A i \in 1 .. N : i - 1 \in S => i \in S
    BY <1>1, <1>8, <1>9
  <2> HIDE DEF S
  <2>2. \A i \in 0 .. N : i \in S
    BY <1>1, <2>1, UpTo
  <2>3. N \in 0 .. N
    BY <1>1
  <2> QED BY <2>2, <2>3 DEF S
<1> DEFINE st == v[places[N]]
<1>11. Decoded(all) = st.px
  BY <1>6, <1>7
<1>12. st \in Drawing /\ RightTo(st, set, N, 0)
  BY <1>10 DEF AtRow, InRow
<1> HIDE DEF st
<1>13. ASSUME NEW a \in Lines, NEW b \in Columns PROVE st.px[PixelAt(a, b)] = Shown(set, a, b)
  <2>1. a < N
    BY <1>1 DEF Lines, N
  <2> QED BY <1>12, <2>1 DEF RightTo
<1>14. st.px \in [Cells -> Marks]
  BY <1>12 DEF Drawing
<1> QED BY <1>11, <1>13, <1>14 DEF all, parts, N

-----------------------------------------------------------------------------
\* Around a character the pixels are marked that its outline or shadow reaches
LEMMA SquareReach ==
    ASSUME NEW d \in Int, NEW c \in Int, NEW t \in Nat, d * d + c * c <= t * t
    PROVE  d \in -t .. t
<1>1. c * c >= 0
  OBVIOUS
<1>2. d * d <= t * t
  <2> DEFINE x == d * d  y == c * c  z == t * t
  <2>1. x \in Int /\ y \in Int /\ z \in Int /\ x + y <= z /\ y >= 0
    BY <1>1
  <2> HIDE DEF x, y, z
  <2>2. x <= z
    BY <2>1
  <2> QED BY <2>2 DEF x, z
<1>3. ~(d > t)
  <2> SUFFICES ASSUME d > t PROVE FALSE
    OBVIOUS
  <2>1. d * d > t * t
    BY t * t <= t * d, t * d < d * d
  <2> QED BY <1>2, <2>1
<1>4. ~(d < -t)
  <2> SUFFICES ASSUME d < -t PROVE FALSE
    OBVIOUS
  <2> DEFINE e == -d
  <2>1. e \in Int /\ e > t /\ e * e = d * d
    OBVIOUS
  <2> HIDE DEF e
  <2>2. e * e > t * t
    BY <2>1, t * t <= t * e, t * e < e * e
  <2> QED BY <1>2, <2>1, <2>2
<1> QED BY <1>3, <1>4

LEMMA PixelUnique ==
    ASSUME NEW a \in Int, NEW b \in Columns, NEW i \in Int, NEW j \in Columns
    PROVE  PixelAt(a, b) = PixelAt(i, j) <=> a = i /\ b = j
<1> DEFINE x == a * GlyphWidth  y == i * GlyphWidth
<1>1. GlyphWidth \in Nat /\ b \in Nat /\ b < GlyphWidth /\ j \in Nat /\ j < GlyphWidth
  BY ScteAssumption DEF Columns
<1>2. x \in Int /\ y \in Int /\ PixelAt(a, b) = x + b /\ PixelAt(i, j) = y + j
  BY <1>1 DEF PixelAt
<1>3. (a = i => x = y) /\ (a < i => x + GlyphWidth <= y) /\ (i < a => y + GlyphWidth <= x)
  BY <1>1, RowsBefore
<1> HIDE DEF x, y
<1>4. (x + b = y + j) <=> (a = i /\ b = j)
  <2>1. CASE a = i
    BY <1>1, <1>2, <1>3, <2>1
  <2>2. CASE a < i
    BY <1>1, <1>2, <1>3, <2>2
  <2>3. CASE i < a
    BY <1>1, <1>2, <1>3, <2>3
  <2> QED BY <2>1, <2>2, <2>3
<1> QED BY <1>2, <1>4

\* The places that an outline or a shadow reaches
Near(set, style) ==
    {PixelAt(ij[1] + d[1], ij[2] + d[2]) : ij \in set,
       d \in {e \in (-style.right .. style.right) \X (-style.right .. style.right) :
                e[1] * e[1] + e[2] * e[2] <= style.right * style.right}}
Behind(set, style) == {PixelAt(ij[1] + style.below, ij[2] + style.right) : ij \in set}

LEMMA OutlineMarked ==
    ASSUME NEW set \in Glyphs, NEW style \in Styles, style.kind = "outline", NEW i \in Lines, NEW j \in Columns
    PROVE  /\ Outlines(set, style, i, j) => PixelAt(i, j) \in Near(set, style)
           /\ (RoomInColumns(set, style) /\ PixelAt(i, j) \in Near(set, style)) => Outlines(set, style, i, j)
<1> DEFINE t == style.right
<1>1. t \in Nat /\ set \subseteq Lines \X Columns /\ GlyphWidth \in Nat /\ i \in Int /\ j \in Int
  BY ScteAssumption DEF Lines, Columns
<1>2. \A ij \in set : ij[1] \in Int /\ ij[2] \in Nat
  <2> SUFFICES ASSUME NEW ij \in set PROVE ij[1] \in Int /\ ij[2] \in Nat
    OBVIOUS
  <2>1. ij \in Lines \X Columns
    BY <1>1
  <2> QED BY <2>1 DEF Lines, Columns
<1>3. ASSUME RoomInColumns(set, style), NEW ij \in set, NEW d1 \in -t .. t, NEW d2 \in -t .. t,
             PixelAt(i, j) = PixelAt(ij[1] + d1, ij[2] + d2)
      PROVE  d1 = i - ij[1] /\ d2 = j - ij[2]
  <2> DEFINE a == ij[1] + d1  b == ij[2] + d2
  <2>1. a \in Int /\ b \in Columns
    <3>1. ij[2] + t < GlyphWidth /\ t <= ij[2] /\ ij[1] \in Int /\ ij[2] \in Nat
      BY <1>2, <1>3 DEF RoomInColumns
    <3> HIDE DEF t
    <3> QED BY <1>1, <3>1 DEF Columns
  <2>2. i = a /\ j = b
    <3> HIDE DEF a, b
    <3>1. PixelAt(i, j) = PixelAt(a, b)
      BY <1>3 DEF a, b
    <3> QED BY <1>1, <2>1, <3>1, PixelUnique
  <2>3. ij[1] \in Int /\ ij[2] \in Int /\ d1 \in Int /\ d2 \in Int
    BY <1>1, <1>2
  <2> QED BY <2>2, <2>3
<1>4. ASSUME RoomInColumns(set, style), PixelAt(i, j) \in Near(set, style) PROVE Outlines(set, style, i, j)
  <2>1. PICK ij \in set, e \in (-t .. t) \X (-t .. t) :
           e[1] * e[1] + e[2] * e[2] <= t * t /\ PixelAt(i, j) = PixelAt(ij[1] + e[1], ij[2] + e[2])
    BY <1>4 DEF Near
  <2>2. e[1] \in -t .. t /\ e[2] \in -t .. t
    OBVIOUS
  <2>3. e[1] = i - ij[1] /\ e[2] = j - ij[2]
    BY <1>3, <1>4, <2>1, <2>2
  <2>4. (i - ij[1]) * (i - ij[1]) + (j - ij[2]) * (j - ij[2]) <= style.right * style.right
    BY <2>1, <2>3
  <2> QED BY <2>4 DEF Outlines
<1>5. ASSUME Outlines(set, style, i, j) PROVE PixelAt(i, j) \in Near(set, style)
  <2>1. PICK ij \in set :
           (i - ij[1]) * (i - ij[1]) + (j - ij[2]) * (j - ij[2]) <= t * t
    BY <1>5 DEF Outlines
  <2> DEFINE d == i - ij[1]  c == j - ij[2]
  <2>2. ij[1] \in Int /\ ij[2] \in Int
    BY <1>2
  <2>3. d \in Int /\ c \in Int /\ ij[1] + d = i /\ ij[2] + c = j
    BY <1>1, <2>2
  <2>4. d * d + c * c <= t * t
    BY <2>1
  <2> HIDE DEF d, c, t
  <2>5. c * c + d * d <= t * t
    <3> DEFINE x == d * d  y == c * c  z == t * t
    <3>1. x \in Int /\ y \in Int /\ z \in Int /\ x + y <= z
      BY <1>1, <2>3, <2>4
    <3> HIDE DEF x, y, z
    <3>2. y + x <= z
      BY <3>1
    <3> QED BY <3>2 DEF x, y, z
  <2>6. d \in -t .. t /\ c \in -t .. t
    BY <1>1, <2>3, <2>4, <2>5, SquareReach
  <2> DEFINE e == <<d, c>>
  <2>7. e \in {q \in (-t .. t) \X (-t .. t) : q[1] * q[1] + q[2] * q[2] <= t * t}
        /\ e[1] = d /\ e[2] = c
    BY <2>4, <2>6
  <2> HIDE DEF e
  <2>8. PixelAt(i, j) = PixelAt(ij[1] + e[1], ij[2] + e[2])
    BY <2>3, <2>7
  <2> QED BY <2>7, <2>8 DEF Near, t
<1> QED BY <1>4, <1>5

LEMMA ShadowMarked ==
    ASSUME NEW set \in Glyphs, NEW style \in Styles, style.kind = "shadow", NEW i \in Lines, NEW j \in Columns
    PROVE  /\ Outlines(set, style, i, j) => PixelAt(i, j) \in Behind(set, style)
           /\ (RoomInColumns(set, style) /\ PixelAt(i, j) \in Behind(set, style)) => Outlines(set, style, i, j)
<1>1. ASSUME RoomInColumns(set, style), NEW ij \in set
      PROVE  PixelAt(i, j) = PixelAt(ij[1] + style.below, ij[2] + style.right)
                => i = ij[1] + style.below /\ j = ij[2] + style.right
  <2>1. style.right \in Nat /\ style.below \in Nat /\ ij \in Lines \X Columns /\ GlyphWidth \in Nat
    BY ScteAssumption DEF Lines, Columns
  <2>2. ij[2] + style.right < GlyphWidth
    BY <1>1 DEF RoomInColumns
  <2> DEFINE a == ij[1] + style.below  b == ij[2] + style.right
  <2>3. a \in Int /\ b \in Columns /\ i \in Int
    BY <2>1, <2>2 DEF Lines, Columns
  <2> HIDE DEF a, b
  <2>4. PixelAt(i, j) = PixelAt(a, b) <=> i = a /\ j = b
    BY <2>3, PixelUnique
  <2> QED BY <2>4 DEF a, b
<1>2. PixelAt(i, j) \in Behind(set, style)
         <=> \E ij \in set : PixelAt(i, j) = PixelAt(ij[1] + style.below, ij[2] + style.right)
  BY DEF Behind
<1>3. Outlines(set, style, i, j) <=> \E ij \in set : i = ij[1] + style.below /\ j = ij[2] + style.right
  BY DEF Outlines
<1> QED BY <1>1, <1>2, <1>3

\* Where there is room all around the character, all places reached are in the bitmap
LEMMA RoomAround ==
    ASSUME NEW set \in Glyphs, NEW style \in Styles, RoomInColumns(set, style), RoomInRows(set, style)
    PROVE  /\ style.kind = "outline" => Near(set, style) \subseteq Cells
           /\ style.kind = "shadow" => Behind(set, style) \subseteq Cells
<1> DEFINE t == style.right
<1>1. t \in Nat /\ style.below \in Nat /\ set \subseteq Lines \X Columns
      /\ GlyphWidth \in Nat /\ GlyphHeight \in Nat
  BY ScteAssumption DEF Lines, Columns
<1>2. ASSUME NEW ij \in set
      PROVE  /\ ij[1] \in Nat /\ ij[2] \in Nat
             /\ style.kind # "none" => ij[2] + t < GlyphWidth
             /\ style.kind = "outline" => t <= ij[2] /\ t <= ij[1] /\ ij[1] + t < GlyphHeight
             /\ style.kind = "shadow" => ij[1] + style.below < GlyphHeight
  <2>1. ij \in Lines \X Columns
    BY <1>1
  <2>2. ij[1] \in Nat /\ ij[2] \in Nat
    BY <2>1 DEF Lines, Columns
  <2> QED BY <2>2 DEF RoomInColumns, RoomInRows
<1>3. ASSUME style.kind = "outline", NEW ij \in set, NEW d1 \in -t .. t, NEW d2 \in -t .. t
      PROVE  PixelAt(ij[1] + d1, ij[2] + d2) \in Cells
  <2> DEFINE a == ij[1] + d1  b == ij[2] + d2
  <2>1. a \in Lines /\ b \in Columns
    <3>1. /\ ij[1] \in Nat /\ ij[2] \in Nat /\ ij[2] + t < GlyphWidth /\ t <= ij[2]
          /\ t <= ij[1] /\ ij[1] + t < GlyphHeight
      BY <1>2, <1>3
    <3> HIDE DEF t
    <3> QED BY <1>1, <3>1 DEF Lines, Columns
  <2> HIDE DEF a, b
  <2>2. PixelAt(a, b) \in Cells
    BY <2>1, PixelInside
  <2> QED BY <2>2 DEF a, b
<1>4. ASSUME style.kind = "shadow", NEW ij \in set
      PROVE  PixelAt(ij[1] + style.below, ij[2] + style.right) \in Cells
  <2> DEFINE a == ij[1] + style.below  b == ij[2] + style.right
  <2>1. a \in Lines /\ b \in Columns
    BY <1>1, <1>2, <1>4 DEF Lines, Columns
  <2> HIDE DEF a, b
  <2>2. PixelAt(a, b) \in Cells
    BY <2>1, PixelInside
  <2> QED BY <2>2 DEF a, b
<1>5. ASSUME style.kind = "outline", NEW p \in Near(set, style) PROVE p \in Cells
  <2>1. PICK ij \in set, e \in (-t .. t) \X (-t .. t) : p = PixelAt(ij[1] + e[1], ij[2] + e[2])
    BY DEF Near
  <2>2. e[1] \in -t .. t /\ e[2] \in -t .. t
    OBVIOUS
  <2> QED BY <1>3, <1>5, <2>1, <2>2
<1>6. ASSUME style.kind = "shadow", NEW p \in Behind(set, style) PROVE p \in Cells
  <2>1. PICK ij \in set : p = PixelAt(ij[1] + style.below, ij[2] + style.right)
    BY DEF Behind
  <2> QED BY <1>4, <1>6, <2>1
<1> QED BY <1>5, <1>6

LEMMA CharacterMarked ==
    ASSUME NEW set \in Glyphs, NEW style \in Styles, NEW px \in [Cells -> Marks],
           \A a \in Lines, b \in Columns : px[PixelAt(a, b)] = Shown(set, a, b)
    PROVE  /\ \A i \in Lines, j \in Columns :
                LET pixel == Marked(px, style)[PixelAt(i, j)] IN
                IF <<i, j>> \in set THEN pixel = "ch"
                ELSE IF Outlines(set, style, i, j) THEN pixel = style.kind
                ELSE RoomInColumns(set, style) => pixel = "bg"
           /\ RoomInColumns(set, style) /\ RoomInRows(set, style) => Around(px, style) \ DOMAIN px = {}
<1> DEFINE chars == {ij \in Lines \X Columns : px[PixelAt(ij[1], ij[2])] = "ch"}
           reached == CASE style.kind = "outline" -> Near(set, style)
                       [] style.kind = "shadow" -> Behind(set, style)
                       [] OTHER -> {}
<1>1. set \subseteq Lines \X Columns /\ style.kind \in {"none", "outline", "shadow"}
  BY ScteAssumption DEF Lines, Columns
<1>2. chars = set
  <2>1. ASSUME NEW ij \in Lines \X Columns
        PROVE  px[PixelAt(ij[1], ij[2])] = "ch" <=> ij \in set
    <3>1. PICK a \in Lines, b \in Columns : ij = <<a, b>>
      OBVIOUS
    <3>2. px[PixelAt(a, b)] = Shown(set, a, b)
      OBVIOUS
    <3> QED BY <3>1, <3>2 DEF Shown
  <2> QED BY <1>1, <2>1
<1>3. Around(px, style) = reached
  <2>1. /\ Near(chars, style) = Near(set, style)
        /\ Behind(chars, style) = Behind(set, style)
    BY <1>2
  <2>2. Around(px, style) = CASE style.kind = "outline" -> Near(chars, style)
                              [] style.kind = "shadow" -> Behind(chars, style)
                              [] OTHER -> {}
    BY DEF Around, Near, Behind, Lines, Columns
  <2> HIDE DEF chars
  <2> QED BY <2>1, <2>2, Zenon
<1>4. ASSUME NEW i \in Lines, NEW j \in Columns
      PROVE  /\ Outlines(set, style, i, j) => PixelAt(i, j) \in reached
             /\ (RoomInColumns(set, style) /\ PixelAt(i, j) \in reached) => Outlines(set, style, i, j)
  <2>1. CASE style.kind = "outline"
    BY <2>1, OutlineMarked
  <2>2. CASE style.kind = "shadow"
    BY <2>2, ShadowMarked
  <2>3. CASE style.kind = "none"
    <3>1. reached = {}
      BY <2>3
    <3>2. ~Outlines(set, style, i, j)
      BY <2>3 DEF Outlines
    <3> QED BY <3>1, <3>2
  <2> QED BY <1>1, <2>1, <2>2, <2>3
<1>5. RoomInColumns(set, style) /\ RoomInRows(set, style) => reached \subseteq Cells
  <2> SUFFICES ASSUME RoomInColumns(set, style), RoomInRows(set, style) PROVE reached \subseteq Cells
    OBVIOUS
  <2>1. CASE style.kind = "outline"
    BY <2>1, RoomAround
  <2>2. CASE style.kind = "shadow"
    BY <2>2, RoomAround
  <2>3. CASE style.kind = "none"
    BY <2>3
  <2> QED BY <1>1, <2>1, <2>2, <2>3
<1> HIDE DEF reached
<1>6. ASSUME NEW i \in Lines, NEW j \in Columns
      PROVE  LET pixel == Marked(px, style)[PixelAt(i, j)] IN
             IF <<i, j>> \in set THEN pixel = "ch"
             ELSE IF Outlines(set, style, i, j) THEN pixel = style.kind
             ELSE RoomInColumns(set, style) => pixel = "bg"
  <2> DEFINE cell == PixelAt(i, j)
  <2>1. cell \in Cells /\ px[cell] = Shown(set, i, j)
    BY PixelInside
  <2>2. Marked(px, style) = [p \in DOMAIN px |-> IF p \in reached /\ px[p] = "bg" THEN style.kind ELSE px[p]]
    BY <1>3 DEF Marked
  <2>3. cell \in DOMAIN px
    BY <2>1
  <2> HIDE DEF cell
  <2>4. Marked(px, style)[cell] = IF cell \in reached /\ px[cell] = "bg" THEN style.kind ELSE px[cell]
    BY <2>2, <2>3
  <2>5. /\ Outlines(set, style, i, j) => cell \in reached
        /\ (RoomInColumns(set, style) /\ cell \in reached) => Outlines(set, style, i, j)
    BY <1>4 DEF cell
  <2>6. px[cell] = IF <<i, j>> \in set THEN "ch" ELSE "bg"
    BY <2>1 DEF Shown
  <2> QED BY <2>4, <2>5, <2>6 DEF cell
<1>7. DOMAIN px = Cells
  OBVIOUS
<1> QED BY <1>3, <1>5, <1>6, <1>7

\* What was drawn of a character is what its codes and its style give
GlyphMade ==
    glyph # <<>> =>
        \E set \in Glyphs, style \in Styles :
            LET px == Decoded(FlattenSeq([i \in 1 .. GlyphHeight |-> RowCodes(set, i - 1)]))
            IN  glyph = <<set, style, Marked(px, style), Around(px, style) \ DOMAIN px>>

(* A character of any form is drawn pixel by pixel as it was encoded, and all  *)
(* pixels its outline or shadow reaches are marked; no others are when there   *)
(* is room for it in the columns, and nothing outside the bitmap is touched     *)
(* when there is in the rows, too. That there is room is a hypothesis here:     *)
(* nothing in the code sees to it (decodeBitmap).                              *)
THEOREM ScteGlyphsDrawn == ScteSpec => []GlyphsDrawn
<1>1. ScteInit => GlyphMade
  BY DEF ScteInit, GlyphMade
<1>2. GlyphMade /\ [ScteNext]_scteVars => GlyphMade'
  <2> SUFFICES ASSUME GlyphMade, [ScteNext]_scteVars PROVE GlyphMade'
    OBVIOUS
  <2>1. UNCHANGED glyph => GlyphMade'
    BY DEF GlyphMade
  <2>2. ASSUME NEW set \in Glyphs, NEW style \in Styles, decodeBitmap(set, style) PROVE GlyphMade'
    BY <2>2, Zenon DEF decodeBitmap, GlyphMade
  <2>3. ASSUME NEW segs \in SegmentCounts, NextMessage(segs) PROVE GlyphMade'
    BY <2>1, <2>3 DEF NextMessage
  <2>4. CASE decodeSubtitle \/ LoseSection \/ UNCHANGED scteVars
    BY <2>1, <2>4 DEF decodeSubtitle, LoseSection, scteVars
  <2> QED BY <2>2, <2>3, <2>4 DEF ScteNext
<1>3. GlyphMade => GlyphsDrawn
  <2> SUFFICES ASSUME GlyphMade, glyph # <<>> PROVE GlyphsDrawn
    BY DEF GlyphsDrawn
  <2>1. PICK set \in Glyphs, style \in Styles :
           LET px == Decoded(FlattenSeq([k \in 1 .. GlyphHeight |-> RowCodes(set, k - 1)]))
           IN  glyph = <<set, style, Marked(px, style), Around(px, style) \ DOMAIN px>>
    BY DEF GlyphMade
  <2> DEFINE px == Decoded(FlattenSeq([k \in 1 .. GlyphHeight |-> RowCodes(set, k - 1)]))
  <2>2. glyph[1] = set /\ glyph[2] = style /\ glyph[3] = Marked(px, style)
        /\ glyph[4] = Around(px, style) \ DOMAIN px
    BY <2>1
  <2>3. /\ px \in [Cells -> Marks]
        /\ \A a \in Lines, b \in Columns : px[PixelAt(a, b)] = Shown(set, a, b)
    BY CharacterDecoded
  <2> HIDE DEF px
  <2>4. /\ \A i \in Lines, j \in Columns :
             LET pixel == Marked(px, style)[PixelAt(i, j)] IN
             IF <<i, j>> \in set THEN pixel = "ch"
             ELSE IF Outlines(set, style, i, j) THEN pixel = style.kind
             ELSE RoomInColumns(set, style) => pixel = "bg"
        /\ RoomInColumns(set, style) /\ RoomInRows(set, style) => Around(px, style) \ DOMAIN px = {}
    BY <2>3, CharacterMarked
  <2> QED BY <2>2, <2>4, Zenon DEF GlyphsDrawn, Lines, Columns
<1> QED BY <1>1, <1>2, <1>3, PTL DEF ScteSpec
-----------------------------------------------------------------------------
(* The tracks of VobSub                                                        *)

Elements == [k : {"pack", "padding", "video", "packet"}, aid : Int, s : Nat, from : Nat, to : Nat]
Words == [s : Nat, i : Int]
Readings == [words : Seq(Words), done : BOOLEAN]
NoWords == [words |-> <<>>, done |-> FALSE]

\* The whole subpicture of a subtitle
WholeOf(s) == [i \in 1 .. SubLength |-> [s |-> s, i |-> i]]

LEMMA Recorded ==
    ASSUME recording \in Recordings, NEW s \in 1 .. Len(recording)
    PROVE  /\ Len(recording) \in Nat /\ DOMAIN recording = 1 .. Len(recording)
           /\ recording[s].cut \in 1 .. SubLength /\ recording[s].track \in Nat
           /\ \E n \in DOMAIN TrackIds : recording[s].track = TrackIds[n]
<1> DEFINE T == {TrackIds[n] : n \in DOMAIN TrackIds}
           R == [track : T, cut : 1 .. SubLength]
<1>1. recording \in Seq(R)
  BY VobSubAssumption
<1>2. recording[s] \in R
  <2> HIDE DEF R
  <2> QED BY <1>1
<1>3. T \subseteq Nat
  BY VobSubAssumption
<1> QED BY <1>1, <1>2, <1>3

\* A subpicture lies in one packet or in two
LEMMA StretchForms ==
    ASSUME recording \in Recordings, NEW s \in 1 .. Len(recording)
    PROVE  LET r == recording[s] IN
           /\ Stretch(s) \in Seq(Elements)
           /\ r.cut = SubLength =>
                Len(Stretch(s)) = 3 /\ Stretch(s)[1].k = "pack"
                /\ Stretch(s)[2] = Packet(r.track, s, 1, SubLength)
           /\ r.cut # SubLength =>
                /\ Len(Stretch(s)) = 6 /\ Stretch(s)[1].k = "pack"
                /\ Stretch(s)[2] = Packet(r.track, s, 1, r.cut)
                /\ Stretch(s)[3].k = "padding" /\ Stretch(s)[4].k = "pack"
                /\ Stretch(s)[5] = Packet(r.track, s, r.cut + 1, SubLength)
<1> DEFINE r == recording[s]
<1>1. r.cut \in 1 .. SubLength /\ r.track \in Nat /\ SubLength \in Nat /\ s \in Nat
  BY Recorded, VobSubAssumption
<1>2. \A k \in {"pack", "padding", "video"} : Filler(k) \in Elements /\ Filler(k).k = k
  BY DEF Filler, Elements
<1>3. /\ Packet(r.track, s, 1, SubLength) \in Elements
      /\ Packet(r.track, s, 1, r.cut) \in Elements
      /\ Packet(r.track, s, r.cut + 1, SubLength) \in Elements
  BY <1>1 DEF Packet, Elements
<1> DEFINE a == Filler("pack")  b == Filler("padding")  c == Filler("video")
           p == Packet(r.track, s, 1, SubLength)
           p1 == Packet(r.track, s, 1, r.cut)
           p2 == Packet(r.track, s, r.cut + 1, SubLength)
<1>4. Stretch(s) = IF r.cut = SubLength THEN <<a, p, c>> ELSE <<a, p1, b, a, p2, c>>
  BY DEF Stretch
<1>5. a \in Elements /\ b \in Elements /\ c \in Elements /\ p \in Elements /\ p1 \in Elements /\ p2 \in Elements
      /\ a.k = "pack" /\ b.k = "padding"
  BY <1>2, <1>3
<1> HIDE DEF a, b, c, p, p1, p2
<1>6. /\ r.cut = SubLength => Stretch(s) \in Seq(Elements) /\ Len(Stretch(s)) = 3
                              /\ Stretch(s)[1] = a /\ Stretch(s)[2] = p
      /\ r.cut # SubLength => Stretch(s) \in Seq(Elements) /\ Len(Stretch(s)) = 6
                              /\ Stretch(s)[1] = a /\ Stretch(s)[2] = p1 /\ Stretch(s)[3] = b
                              /\ Stretch(s)[4] = a /\ Stretch(s)[5] = p2
  BY <1>4, <1>5
<1> QED BY <1>5, <1>6 DEF p, p1, p2

\* The first of the parts stand where they stand alone
LEMMA PlacesOfPrefix ==
    ASSUME NEW S, NEW parts \in Seq(Seq(S)), NEW whole, NEW places, PlacesOf(parts, whole, places),
           NEW m \in 0 .. Len(parts)
    PROVE  Len(FlattenSeq([u \in 1 .. m |-> parts[u]])) = places[m]
<1> DEFINE first == [u \in 1 .. m |-> parts[u]]
           flat == FlattenSeq(first)
<1>1. first \in Seq(Seq(S)) /\ Len(first) = m
  OBVIOUS
<1> HIDE DEF first
<1>2. PICK p : PlacesOf(first, flat, p)
  BY <1>1, FlattenedParts
<1> HIDE DEF flat
<1> DEFINE T == {i \in 0 .. m : p[i] = places[i]}
<1>3. 0 \in T
  BY <1>2 DEF PlacesOf
<1>4. ASSUME NEW i \in 1 .. m, i - 1 \in T PROVE i \in T
  <2>1. first[i] = parts[i] /\ i \in 1 .. Len(parts)
    BY DEF first
  <2>2. p[i] = p[i - 1] + Len(first[i]) /\ places[i] = places[i - 1] + Len(parts[i])
    BY <1>1, <1>2, <2>1 DEF PlacesOf
  <2> QED BY <1>4, <2>1, <2>2
<1> HIDE DEF T
<1>5. m \in T
  <2>1. m \in Nat
    BY <1>1
  <2>2. \A i \in 1 .. m : i - 1 \in T => i \in T
    BY <1>4
  <2>3. \A i \in 0 .. m : i \in T
    BY <1>3, <2>1, <2>2, UpTo
  <2> QED BY <2>1, <2>3
<1>6. Len(flat) = p[m]
  BY <1>1, <1>2 DEF PlacesOf
<1> QED BY <1>5, <1>6 DEF flat, first, T

LEMMA ReelHolds ==
    ASSUME recording \in Recordings, NEW s \in 1 .. Len(recording)
    PROVE  /\ Reel \in Seq(Elements) /\ Place(s) \in Nat \ {0}
           /\ Place(s) - 1 + Len(Stretch(s)) <= Len(Reel)
           /\ \A j \in 1 .. Len(Stretch(s)) : Reel[Place(s) - 1 + j] = Stretch(s)[j]
<1> DEFINE N == Len(recording)
           parts == [u \in DOMAIN recording |-> Stretch(u)]
<1>1. N \in Nat /\ DOMAIN recording = 1 .. N
  BY Recorded
<1>2. parts \in Seq(Seq(Elements)) /\ Len(parts) = N /\ \A u \in 1 .. N : parts[u] = Stretch(u)
  <2>1. \A u \in 1 .. N : Stretch(u) \in Seq(Elements)
    BY StretchForms
  <2> QED BY <1>1, <2>1
<1>3. Reel = FlattenSeq(parts)
  BY DEF Reel
<1> HIDE DEF parts
<1>4. PICK places : PlacesOf(parts, Reel, places)
  BY <1>2, <1>3, FlattenedParts
<1>5. Place(s) = places[s - 1] + 1
  <2>1. s - 1 \in 0 .. Len(parts)
    BY <1>1, <1>2
  <2>2. [u \in 1 .. s - 1 |-> Stretch(u)] = [u \in 1 .. s - 1 |-> parts[u]]
    BY <1>1, <1>2
  <2>3. Len(FlattenSeq([u \in 1 .. s - 1 |-> parts[u]])) = places[s - 1]
    BY <1>2, <1>4, <2>1, PlacesOfPrefix
  <2> QED BY <2>2, <2>3 DEF Place
<1>6. Reel \in Seq(Elements)
  BY <1>2, <1>3, FlattenedParts
<1>7. /\ places[s - 1] \in Nat /\ places[s] = places[s - 1] + Len(parts[s]) /\ places[s] <= Len(Reel)
      /\ \A j \in 1 .. Len(parts[s]) : Reel[places[s - 1] + j] = parts[s][j]
  <2>1. s \in 1 .. Len(parts) /\ s - 1 \in 0 .. Len(parts)
    BY <1>1, <1>2
  <2> QED BY <1>4, <2>1 DEF PlacesOf
<1>8. parts[s] = Stretch(s)
  BY <1>2
<1>9. Place(s) - 1 = places[s - 1] /\ Place(s) \in Nat \ {0}
  BY <1>5, <1>7
<1> QED BY <1>6, <1>7, <1>8, <1>9

\* assembled goes through the elements one by one
Assembling(v, spot, track) ==
    /\ assembled(spot, track) = v[Len(Reel)].words
    /\ \A n \in 0 .. Len(Reel) :
          v[n] = IF n < spot THEN NoWords ELSE ReadElement(v[n - 1], Reel[n], track)

LEMMA ElementRead ==
    ASSUME NEW st \in Readings, NEW e \in Elements, NEW track
    PROVE  ReadElement(st, e, track) \in Readings
<1> DEFINE n == e.to - e.from + 1
           more == [i \in 1 .. n |-> [s |-> e.s, i |-> e.from + i - 1]]
           got == st.words \o more
<1>1. n \in Int /\ e.s \in Nat /\ e.from \in Nat /\ st.words \in Seq(Words) /\ st.done \in BOOLEAN
  BY DEF Elements, Readings
<1>2. more \in Seq(Words)
  <2>1. \A i \in 1 .. n : [s |-> e.s, i |-> e.from + i - 1] \in Words
    BY <1>1 DEF Words
  <2> HIDE DEF n
  <2>2. CASE n \in Nat
    BY <2>1, <2>2
  <2>3. CASE n \notin Nat
    <3>1. 1 .. n = {} /\ 1 .. 0 = {}
      BY <1>1, <2>3
    <3>2. more = [i \in 1 .. 0 |-> [s |-> e.s, i |-> e.from + i - 1]]
      BY <3>1
    <3>3. [i \in 1 .. 0 |-> [s |-> e.s, i |-> e.from + i - 1]] \in Seq(Words)
      BY <3>1
    <3> QED BY <3>2, <3>3
  <2> QED BY <2>2, <2>3
<1> HIDE DEF n, more
<1>3. got \in Seq(Words) /\ Len(got) \in Nat
  BY <1>1, <1>2
<1>4. ReadElement(st, e, track) =
        IF st.done \/ e.k # "packet" THEN st
        ELSE IF e.aid # track THEN [words |-> st.words, done |-> TRUE]
        ELSE IF Len(got) < SubLength THEN [words |-> got, done |-> FALSE]
        ELSE [words |-> SubSeq(got, 1, SubLength), done |-> TRUE]
  BY DEF ReadElement, more, n
<1> HIDE DEF got
<1>5. ~(Len(got) < SubLength) => SubSeq(got, 1, SubLength) \in Seq(Words)
  BY <1>3, VobSubAssumption
<1>7. ReadElement(st, e, track) \in {st, [words |-> st.words, done |-> TRUE], [words |-> got, done |-> FALSE]}
      \/ /\ ~(Len(got) < SubLength)
         /\ ReadElement(st, e, track) = [words |-> SubSeq(got, 1, SubLength), done |-> TRUE]
  BY <1>4
<1>8. /\ [words |-> st.words, done |-> TRUE] \in Readings /\ [words |-> got, done |-> FALSE] \in Readings
      /\ ~(Len(got) < SubLength) => [words |-> SubSeq(got, 1, SubLength), done |-> TRUE] \in Readings
  BY <1>1, <1>3, <1>5 DEF Readings
<1> QED BY <1>7, <1>8

LEMMA AssembledSteps ==
    ASSUME Reel \in Seq(Elements), NEW spot \in Nat \ {0}, NEW track
    PROVE  \E v : Assembling(v, spot, track)
<1> DEFINE N == Len(Reel)
           Q == Readings
           start == NoWords
           Step(n, st) == IF n < spot THEN NoWords ELSE ReadElement(st, Reel[n], track)
           f(w) == [n \in 0 .. N |-> IF n < spot THEN NoWords ELSE ReadElement(w[n - 1], Reel[n], track)]
           v == CHOOSE w : w = f(w)
           F == [q \in (1 .. N) \X Q |-> Step(q[1], q[2])]
<1>1. N \in Nat /\ start \in Q
  BY DEF Readings, NoWords
<1>2. assembled(spot, track) = v[N].words
  BY DEF assembled, NoWords
<1>3. \A n \in 1 .. N, st \in Q : Step(n, st) \in Q
  <2> SUFFICES ASSUME NEW n \in 1 .. N, NEW st \in Q PROVE Step(n, st) \in Q
    OBVIOUS
  <2>1. Reel[n] \in Elements
    OBVIOUS
  <2> QED BY <1>1, <2>1, ElementRead
<1> HIDE DEF N, Q, start
<1>4. F \in [(1 .. N) \X Q -> Q] /\ \A n \in 1 .. N, st \in Q : F[<<n, st>>] = Step(n, st)
  <2> HIDE DEF Step
  <2> QED BY <1>3
<1> HIDE DEF F
<1>5. PICK w \in [0 .. N -> Q] : GoesBy(w, N, start, F)
  BY <1>1, <1>4, RecursionEquation
<1>6. w = f(w)
  <2>1. \A n \in 0 .. N : n = 0 \/ F[<<n, w[n - 1]>>] = Step(n, w[n - 1])
    BY <1>1, <1>4
  <2>2. \A n \in 0 .. N : w[n] = IF n < spot THEN NoWords ELSE ReadElement(w[n - 1], Reel[n], track)
    <3> SUFFICES ASSUME NEW n \in 0 .. N PROVE w[n] = Step(n, w[n - 1])
      OBVIOUS
    <3>1. w[n] = IF n = 0 THEN NoWords ELSE F[<<n, w[n - 1]>>]
      BY <1>5 DEF GoesBy, start
    <3>2. n = 0 => n < spot
      OBVIOUS
    <3>3. n = 0 => Step(n, w[n - 1]) = NoWords
      BY <3>2
    <3> HIDE DEF Step
    <3> QED BY <2>1, <3>1, <3>3
  <2>3. w = [n \in 0 .. N |-> w[n]]
    BY <1>5
  <2> QED BY <2>2, <2>3
<1>7. v = f(v)
  BY <1>6
<1> HIDE DEF v
<1>8. \A n \in 0 .. N : v[n] = IF n < spot THEN NoWords ELSE ReadElement(v[n - 1], Reel[n], track)
  BY <1>7
<1> QED BY <1>2, <1>8 DEF N, Assembling

\* What is done stays as it is
LEMMA AssembledDone ==
    ASSUME NEW v, NEW spot \in Nat \ {0}, NEW track, Assembling(v, spot, track), Len(Reel) \in Nat,
           NEW p \in spot .. Len(Reel), v[p].done
    PROVE  assembled(spot, track) = v[p].words
<1> DEFINE N == Len(Reel) - p
           S == {k \in 0 .. N : v[p + k] = v[p]}
<1>1. N \in Nat /\ p \in Nat /\ p + N = Len(Reel)
  OBVIOUS
<1>2. 0 \in S
  BY <1>1
<1>3. ASSUME NEW k \in 1 .. N, k - 1 \in S PROVE k \in S
  <2> DEFINE n == p + k
  <2>1. n \in 0 .. Len(Reel) /\ ~(n < spot) /\ n - 1 = p + (k - 1)
    BY <1>1
  <2>2. v[n] = ReadElement(v[n - 1], Reel[n], track)
    BY <2>1 DEF Assembling
  <2>3. v[n - 1] = v[p]
    BY <1>3, <2>1
  <2> HIDE DEF n
  <2>4. ReadElement(v[p], Reel[n], track) = v[p]
    BY Zenon DEF ReadElement
  <2> QED BY <1>1, <2>2, <2>3, <2>4 DEF n
<1>4. N \in S
  <2>1. \A k \in 1 .. N : k - 1 \in S => k \in S
    BY <1>3
  <2> HIDE DEF S, N
  <2>2. \A k \in 0 .. N : k \in S
    BY <1>1, <1>2, <2>1, UpTo
  <2> QED BY <1>1, <2>2
<1>5. v[Len(Reel)] = v[p]
  BY <1>1, <1>4
<1> QED BY <1>5 DEF Assembling

\* The first words of a subpicture
FirstWords(s, n) == [i \in 1 .. n |-> [s |-> s, i |-> i]]

LEMMA PacketRead ==
    ASSUME NEW a \in Nat, NEW b \in Nat, a < b, b <= SubLength, NEW s \in Nat, NEW track
    PROVE  ReadElement([words |-> FirstWords(s, a), done |-> FALSE], Packet(track, s, a + 1, b), track)
             = [words |-> FirstWords(s, b), done |-> b = SubLength]
<1> DEFINE n == b - (a + 1) + 1
           more == [i \in 1 .. n |-> [s |-> s, i |-> (a + 1) + i - 1]]
           q == FirstWords(s, a)
           got == q \o more
           e == Packet(track, s, a + 1, b)
           st == [words |-> q, done |-> FALSE]
<1>1. n \in Nat /\ a + n = b /\ SubLength \in Nat
  BY VobSubAssumption
<1>2. q \in Seq(Words) /\ Len(q) = a /\ \A i \in 1 .. a : q[i] = [s |-> s, i |-> i]
  BY DEF FirstWords, Words
<1>3. more \in Seq(Words) /\ Len(more) = n /\ \A i \in 1 .. n : more[i] = [s |-> s, i |-> a + i]
  <2> HIDE DEF n
  <2>1. \A i \in 1 .. n : [s |-> s, i |-> (a + 1) + i - 1] \in Words /\ (a + 1) + i - 1 = a + i
    BY <1>1 DEF Words
  <2> QED BY <1>1, <2>1
<1>4. e.k = "packet" /\ e.aid = track /\ e.s = s /\ e.from = a + 1 /\ e.to = b /\ st.words = q /\ st.done = FALSE
  BY DEF Packet
<1> HIDE DEF e, st, q
<1>5. [i \in 1 .. e.to - e.from + 1 |-> [s |-> e.s, i |-> e.from + i - 1]] = more
  BY <1>4
<1> HIDE DEF more, n
<1>6. ReadElement(st, e, track) =
        IF Len(got) < SubLength THEN [words |-> got, done |-> FALSE]
        ELSE [words |-> SubSeq(got, 1, SubLength), done |-> TRUE]
  BY <1>4, <1>5 DEF ReadElement
<1>7. got \in Seq(Words) /\ Len(got) = b /\ \A i \in 1 .. b : got[i] = [s |-> s, i |-> i]
  <2>1. got \in Seq(Words)
    BY <1>2, <1>3
  <2>a. /\ Len(got) = Len(q) + Len(more) /\ \A i \in 1 .. Len(q) : got[i] = q[i]
        /\ \A j \in 1 .. Len(more) : got[Len(q) + j] = more[j]
    <3>1. q \in Seq(Words) /\ more \in Seq(Words)
      BY <1>2, <1>3
    <3> HIDE DEF Words
    <3> QED BY <3>1, OneAfterOther
  <2> HIDE DEF got
  <2>2. Len(got) = a + n /\ \A i \in 1 .. a : got[i] = q[i]
    BY <1>2, <1>3, <2>a, Zenon
  <2>3. \A j \in 1 .. n : got[a + j] = more[j]
    BY <1>2, <1>3, <2>a, Zenon
  <2>4. ASSUME NEW i \in 1 .. b PROVE got[i] = [s |-> s, i |-> i]
    <3>1. CASE i \in 1 .. a
      BY <1>2, <2>2, <3>1
    <3>2. CASE i \notin 1 .. a
      <4>1. i - a \in 1 .. n /\ a + (i - a) = i
        BY <1>1, <3>2
      <4> QED BY <1>3, <2>3, <4>1
    <3> QED BY <3>1, <3>2
  <2> QED BY <1>1, <2>1, <2>2, <2>4
<1> HIDE DEF got
<1>8. got = FirstWords(s, b)
  <2>1. got = [i \in 1 .. b |-> got[i]]
    BY <1>7
  <2> QED BY <1>7, <2>1 DEF FirstWords
<1>9. b = SubLength => SubSeq(got, 1, SubLength) = got
  BY <1>1, <1>7
<1>10. (Len(got) < SubLength) <=> b # SubLength
  BY <1>1, <1>7
<1>11. CASE b = SubLength
  <2>1. (b = SubLength) = TRUE
    BY <1>11
  <2> QED BY <1>6, <1>8, <1>9, <1>10, <1>11, <2>1 DEF e, st, q
<1>12. CASE b # SubLength
  <2>1. (b = SubLength) = FALSE
    BY <1>12
  <2> QED BY <1>6, <1>8, <1>10, <1>12, <2>1 DEF e, st, q
<1> QED BY <1>11, <1>12

\* The bitmap of a subtitle is made of its own words, all of them
LEMMA Assembled ==
    ASSUME recording \in Recordings, NEW s \in 1 .. Len(recording)
    PROVE  assembled(Place(s), recording[s].track) = WholeOf(s)
<1> DEFINE r == recording[s]
           track == r.track
           spot == Place(s)
           P == Stretch(s)
<1>1. /\ r.cut \in 1 .. SubLength /\ track \in Nat /\ s \in Nat /\ SubLength \in Nat /\ SubLength # 0
  BY Recorded, VobSubAssumption
<1>2. /\ Reel \in Seq(Elements) /\ spot \in Nat /\ spot # 0 /\ spot - 1 + Len(P) <= Len(Reel)
      /\ \A j \in 1 .. Len(P) : Reel[spot - 1 + j] = P[j]
  BY ReelHolds
<1>3. /\ r.cut = SubLength =>
                Len(P) = 3 /\ P[1].k = "pack" /\ P[2] = Packet(track, s, 1, SubLength)
      /\ r.cut # SubLength =>
                /\ Len(P) = 6 /\ P[1].k = "pack" /\ P[2] = Packet(track, s, 1, r.cut)
                /\ P[3].k = "padding" /\ P[4].k = "pack"
                /\ P[5] = Packet(track, s, r.cut + 1, SubLength)
  BY StretchForms
<1> DEFINE c == r.cut
           N == Len(Reel)
<1> HIDE DEF track, spot, P
<1>4. PICK v : Assembling(v, spot, track)
  BY <1>2, AssembledSteps
<1>5. N \in Nat
  BY <1>2
<1>6. \A n \in 0 .. N : v[n] = IF n < spot THEN NoWords ELSE ReadElement(v[n - 1], Reel[n], track)
  BY <1>4 DEF Assembling
<1> HIDE DEF c, N, r
<1>p. spot \in Nat /\ spot # 0
  BY <1>2
<1>7. NoWords = [words |-> FirstWords(s, 0), done |-> FALSE]
  <2>1. FirstWords(s, 0) = <<>>
    BY DEF FirstWords
  <2> QED BY <2>1 DEF NoWords
<1>8. \A st, e : e.k # "packet" => ReadElement(st, e, track) = st
  BY Zenon DEF ReadElement
<1>9. Len(P) >= 3 /\ P[1].k = "pack"
  BY <1>3, SMTT(30)
<1>10. spot + 2 <= N /\ Reel[spot] = P[1] /\ Reel[spot + 1] = P[2]
  <2>1. spot - 1 + Len(P) <= N /\ Len(P) \in Nat
    BY <1>2, StretchForms DEF N, P
  <2>2. 1 \in 1 .. Len(P) /\ 2 \in 1 .. Len(P) /\ spot - 1 + 1 = spot /\ spot - 1 + 2 = spot + 1
    BY <1>2, <1>9, <2>1
  <2>3. Reel[spot - 1 + 1] = P[1] /\ Reel[spot - 1 + 2] = P[2]
    BY <1>2, <2>2
  <2> QED BY <1>2, <1>5, <1>9, <2>1, <2>2, <2>3
<1>11. v[spot - 1] = NoWords
  <2>1. spot - 1 \in 0 .. N /\ spot - 1 < spot
    BY <1>p, <1>5, <1>10
  <2> QED BY <1>6, <2>1
<1>12. v[spot] = NoWords
  <2>1. spot \in 0 .. N /\ ~(spot < spot)
    BY <1>p, <1>5, <1>10
  <2>2. v[spot] = ReadElement(NoWords, Reel[spot], track)
    BY <1>6, <1>11, <2>1
  <2> QED BY <1>8, <1>9, <1>10, <2>2
<1>13. v[spot + 1] = ReadElement(NoWords, P[2], track)
  <2>1. spot + 1 \in 0 .. N /\ ~(spot + 1 < spot) /\ (spot + 1) - 1 = spot
    BY <1>p, <1>5, <1>10
  <2> QED BY <1>6, <1>10, <1>12, <2>1
<1>14. \A p \in spot .. N : v[p].done => assembled(spot, track) = v[p].words
  BY <1>2, <1>4, <1>5, AssembledDone DEF N
<1>15. CASE c = SubLength
  <2>1. P[2] = Packet(track, s, 0 + 1, SubLength)
    BY <1>3, <1>15 DEF c
  <2>2. ReadElement([words |-> FirstWords(s, 0), done |-> FALSE], Packet(track, s, 0 + 1, SubLength), track)
          = [words |-> FirstWords(s, SubLength), done |-> SubLength = SubLength]
    <3>1. 0 \in Nat /\ 0 < SubLength /\ SubLength <= SubLength
      BY <1>1
    <3> QED BY <1>1, <3>1, PacketRead
  <2>3. v[spot + 1].done /\ v[spot + 1].words = FirstWords(s, SubLength)
    <3>1. v[spot + 1] = [words |-> FirstWords(s, SubLength), done |-> SubLength = SubLength]
      BY <1>7, <1>13, <2>1, <2>2, Zenon
    <3>2. (SubLength = SubLength) = TRUE
      OBVIOUS
    <3>3. v[spot + 1] = [words |-> FirstWords(s, SubLength), done |-> TRUE]
      BY <3>1, <3>2, Zenon
    <3> QED BY <3>3
  <2>4. spot + 1 \in spot .. N
    BY <1>p, <1>5, <1>10
  <2> QED BY <1>14, <2>3, <2>4 DEF FirstWords, WholeOf, track, spot, r
<1>16. CASE c # SubLength
  <2>1. c \in Nat /\ 0 < c /\ c < SubLength
    BY <1>1, <1>16 DEF c
  <2>2. /\ Len(P) = 6 /\ P[2] = Packet(track, s, 0 + 1, c)
        /\ P[3].k = "padding" /\ P[4].k = "pack" /\ P[5] = Packet(track, s, c + 1, SubLength)
    BY <1>3, <1>16 DEF c
  <2>3. (c = SubLength) = FALSE
    BY <1>16
  <2>4. v[spot + 1] = [words |-> FirstWords(s, c), done |-> FALSE]
    <3>1. ReadElement([words |-> FirstWords(s, 0), done |-> FALSE], Packet(track, s, 0 + 1, c), track)
            = [words |-> FirstWords(s, c), done |-> c = SubLength]
      <4>1. c <= SubLength /\ 0 \in Nat
        BY <1>1, <2>1
      <4> QED BY <1>1, <2>1, <4>1, PacketRead
    <3> QED BY <1>7, <1>13, <2>2, <2>3, <3>1
  <2>5. spot + 5 <= N /\ Reel[spot + 2] = P[3] /\ Reel[spot + 3] = P[4] /\ Reel[spot + 4] = P[5]
    <3>1. 3 \in 1 .. Len(P) /\ 4 \in 1 .. Len(P) /\ 5 \in 1 .. Len(P)
      BY <2>2
    <3>2. Reel[spot - 1 + 3] = P[3] /\ Reel[spot - 1 + 4] = P[4] /\ Reel[spot - 1 + 5] = P[5]
      BY <1>2, <3>1
    <3>3. spot - 1 + 6 <= N
      BY <1>2, <2>2, Zenon DEF N
    <3>4. spot - 1 + 3 = spot + 2 /\ spot - 1 + 4 = spot + 3 /\ spot - 1 + 5 = spot + 4 /\ spot - 1 + 6 = spot + 5
      BY <1>p
    <3> QED BY <3>2, <3>3, <3>4
  <2>6. /\ spot + 2 \in 0 .. N /\ spot + 3 \in 0 .. N /\ spot + 4 \in 0 .. N
        /\ ~(spot + 2 < spot) /\ ~(spot + 3 < spot) /\ ~(spot + 4 < spot)
        /\ (spot + 2) - 1 = spot + 1 /\ (spot + 3) - 1 = spot + 2 /\ (spot + 4) - 1 = spot + 3
        /\ spot + 4 \in spot .. N
    BY <1>p, <1>5, <2>5
  <2>7. v[spot + 2] = v[spot + 1]
    BY <1>6, <1>8, <2>2, <2>5, <2>6
  <2>8. v[spot + 3] = v[spot + 2]
    BY <1>6, <1>8, <2>2, <2>5, <2>6
  <2>9. v[spot + 4] = ReadElement([words |-> FirstWords(s, c), done |-> FALSE],
                                 Packet(track, s, c + 1, SubLength), track)
    BY <1>6, <2>2, <2>4, <2>5, <2>6, <2>7, <2>8
  <2>10. v[spot + 4] = [words |-> FirstWords(s, SubLength), done |-> SubLength = SubLength]
    <3>1. SubLength <= SubLength
      BY <1>1
    <3> QED BY <1>1, <2>1, <2>9, <3>1, PacketRead
  <2>11. v[spot + 4].done /\ v[spot + 4].words = FirstWords(s, SubLength)
    <3>1. (SubLength = SubLength) = TRUE
      OBVIOUS
    <3>2. v[spot + 4] = [words |-> FirstWords(s, SubLength), done |-> TRUE]
      BY <2>10, <3>1, Zenon
    <3> QED BY <3>2
  <2> QED BY <1>14, <2>6, <2>11 DEF FirstWords, WholeOf, track, spot, r
<1> QED BY <1>15, <1>16

\* The track shown, its subtitles, and the lines before the first id line
ShownTrack == IF requested = -1 THEN TrackIds[1] ELSE requested
Own == SubtitlesOf(ShownTrack)
Intro == IF LangIdx = -1 THEN 0 ELSE 1

\* What the lines of the index are
IndexLines ==
    /\ Len(IndexFile) > Intro
    /\ IndexFile[Intro + 1].k = "id" /\ IndexFile[Intro + 1].id = TrackIds[1]
    /\ \A l \in 1 .. Len(IndexFile) :
         /\ IndexFile[l].k \in {"langidx", "id", "timestamp"} /\ IndexFile[l].id \in Nat
         /\ IndexFile[l].k = "langidx" <=> l <= Intro
         /\ IndexFile[l].k = "timestamp" =>
              l - 1 > Intro /\ IndexFile[l - 1].id = IndexFile[l].id

\* The times of the track shown stand together, after d lines
OwnLines(d) ==
    /\ d \in Nat /\ d + Len(Own) <= Len(IndexFile)
    /\ \A l \in 1 .. Len(IndexFile) :
         /\ l - d \in 1 .. Len(Own) <=> IndexFile[l].k = "timestamp" /\ IndexFile[l].id = ShownTrack
         /\ l - d \in 1 .. Len(Own) => IndexFile[l].s = Own[l - d]

\* How many of them are among the first l lines
OwnRead(d, l) == IF l <= d THEN 0 ELSE IF l - d >= Len(Own) THEN Len(Own) ELSE l - d

TrackItem(s) == [start |-> s, subId |-> ShownTrack, filePos |-> Place(s)]
TrackBitmap(s) == [start |-> s, data |-> WholeOf(s)]

\* Of the times read b are shown and the others wait
ShownSoFar(d, b) ==
    LET c == OwnRead(d, vobLine) IN
    /\ OwnLines(d) /\ b <= c
    /\ bitmaps = [n \in 1 .. b |-> TrackBitmap(Own[n])]
    /\ vobItems = [n \in 1 .. c - b |-> TrackItem(Own[b + n])]

\* The track is chosen by the first id line at the latest; what is made of its
\* times is first an item and then a bitmap
VobInv ==
    /\ recording \in Recordings /\ requested \in RequestedTracks
    /\ vobLine \in 0 .. Len(IndexFile)
    /\ vobLine <= Intro => mIdxSubTrackId = requested /\ (requested # -1 => mSelectedTrackId = requested)
    /\ vobLine > Intro =>
         mIdxSubTrackId # -1 /\ mSelectedTrackId = ShownTrack /\ vobsubId = IndexFile[vobLine].id
    /\ \E d \in Nat, b \in Nat : ShownSoFar(d, b)

LEMMA SubtitlesAre ==
    ASSUME recording \in Recordings, NEW t
    PROVE  SubtitlesOf(t) \in Seq({s \in 1 .. Len(recording) : recording[s].track = t})
<1> DEFINE N == Len(recording)
           mine == {s \in 1 .. N : recording[s].track = t}
           Q == Seq(mine)
           f(w) == [s \in 0 .. N |-> IF s = 0 THEN <<>>
                      ELSE IF recording[s].track = t THEN Append(w[s - 1], s) ELSE w[s - 1]]
           upTo == CHOOSE w : w = f(w)
           Step(s, q) == IF recording[s].track = t THEN Append(q, s) ELSE q
           F == [p \in (1 .. N) \X Q |-> Step(p[1], p[2])]
<1>1. SubtitlesOf(t) = upTo[N] /\ N \in Nat /\ <<>> \in Q
  BY DEF SubtitlesOf
<1>2. \A s \in 1 .. N, q \in Q : Step(s, q) \in Q
  OBVIOUS
<1> HIDE DEF N, Q
<1>3. F \in [(1 .. N) \X Q -> Q] /\ \A s \in 1 .. N, q \in Q : F[<<s, q>>] = Step(s, q)
  <2> HIDE DEF Step
  <2> QED BY <1>2
<1> HIDE DEF F
<1>4. PICK w \in [0 .. N -> Q] : GoesBy(w, N, <<>>, F)
  BY <1>1, <1>3, RecursionEquation
<1>5. w = f(w)
  <2>1. \A s \in 0 .. N : s = 0 \/ F[<<s, w[s - 1]>>] = Step(s, w[s - 1])
    BY <1>1, <1>3
  <2>2. \A s \in 0 .. N : w[s] = IF s = 0 THEN <<>> ELSE Step(s, w[s - 1])
    BY <1>1, <1>4, <2>1 DEF GoesBy
  <2>3. w = [s \in 0 .. N |-> w[s]]
    BY <1>4
  <2> QED BY <2>2, <2>3
<1>6. upTo = f(upTo)
  BY <1>5, Zenon
<1> HIDE DEF upTo
<1>7. upTo[0] = <<>> /\ \A s \in 1 .. N : upTo[s] = Step(s, upTo[s - 1])
  <2>1. \A s \in 0 .. N : upTo[s] = IF s = 0 THEN <<>> ELSE Step(s, upTo[s - 1])
    BY <1>6
  <2> HIDE DEF Step
  <2>2. 0 \in 0 .. N /\ \A s \in 1 .. N : s \in 0 .. N /\ s # 0
    BY <1>1
  <2> QED BY <2>1, <2>2
<1> HIDE DEF Step
<1>8. \A s \in 0 .. N : upTo[s] \in Q
  BY <1>1, <1>2, <1>7, StaysIn
<1>9. upTo[N] \in Q
  BY <1>1, <1>8
<1> QED BY <1>1, <1>9 DEF Q, N

\* Every place of the whole is one of a part
Covered(parts, whole, places) ==
    \A l \in 1 .. Len(whole) : \E i \in 1 .. Len(parts) : \E j \in 1 .. Len(parts[i]) :
        l = places[i - 1] + j

LEMMA PlaceFound ==
    ASSUME NEW S, NEW parts \in Seq(Seq(S)), NEW whole, NEW places, PlacesOf(parts, whole, places)
    PROVE  Covered(parts, whole, places)
<1> DEFINE Found(l) == \E i \in 1 .. Len(parts) : \E j \in 1 .. Len(parts[i]) : l = places[i - 1] + j
           N == Len(parts)
           T == {i \in 0 .. N : \A l \in 1 .. places[i] : Found(l)}
<1>1. N \in Nat /\ places[0] = 0 /\ \A i \in 1 .. N : Len(parts[i]) \in Nat
  BY DEF PlacesOf
<1>2. 0 \in T
  BY <1>1
<1>3. \A i \in 1 .. N : \A j \in 1 .. Len(parts[i]) : Found(places[i - 1] + j)
  OBVIOUS
<1>4. \A i \in 1 .. N : places[i] = places[i - 1] + Len(parts[i]) /\ places[i - 1] \in Nat
  <2>1. \A i \in 1 .. N : i - 1 \in 0 .. N
    BY <1>1
  <2> QED BY <2>1, Zenon DEF PlacesOf
<1> HIDE DEF Found, N
<1>5. ASSUME NEW i \in 1 .. N, \A l \in 1 .. places[i - 1] : Found(l)
      PROVE  \A l \in 1 .. places[i] : Found(l)
  <2> SUFFICES ASSUME NEW l \in 1 .. places[i] PROVE Found(l)
    OBVIOUS
  <2>1. places[i] = places[i - 1] + Len(parts[i]) /\ places[i - 1] \in Nat /\ Len(parts[i]) \in Nat
    BY <1>1, <1>4
  <2>2. CASE l <= places[i - 1]
    BY <1>5, <2>1, <2>2
  <2>3. CASE ~(l <= places[i - 1])
    <3>1. l - places[i - 1] \in 1 .. Len(parts[i]) /\ l = places[i - 1] + (l - places[i - 1])
      BY <2>1, <2>3
    <3> QED BY <1>3, <3>1
  <2> QED BY <2>2, <2>3
<1>6. \A i \in 1 .. N : i - 1 \in T => i \in T
  BY <1>1, <1>5
<1>7. N \in T
  <2> HIDE DEF T
  <2>2. \A i \in 0 .. N : i \in T
    BY <1>1, <1>2, <1>6, UpTo
  <2> QED BY <1>1, <2>2
<1> QED BY <1>7 DEF PlacesOf, Found, N, Covered

LEMMA TracksNamed ==
    /\ \A n \in DOMAIN TrackIds : TrackIds[n] \in Nat
    /\ DOMAIN TrackIds = 1 .. Len(TrackIds) /\ Len(TrackIds) \in Nat \ {0}
    /\ Intro \in {0, 1} /\ Intro \in Nat /\ (Intro = 1 => LangIdx \in Nat)
BY VobSubAssumption DEF Intro

LinesOfIndex == [k : {"langidx", "id", "timestamp"}, id : Nat, s : Nat]

\* The lines of a track: its id and a time for each of its subtitles
LEMMA TrackLinesAre ==
    ASSUME recording \in Recordings, NEW t \in Nat
    PROVE  /\ TrackLines(t) \in Seq(LinesOfIndex) /\ Len(SubtitlesOf(t)) \in Nat
           /\ Len(TrackLines(t)) = 1 + Len(SubtitlesOf(t))
           /\ TrackLines(t)[1] = [k |-> "id", id |-> t, s |-> 0]
           /\ \A n \in 1 .. Len(SubtitlesOf(t)) :
                TrackLines(t)[1 + n] = [k |-> "timestamp", id |-> t, s |-> SubtitlesOf(t)[n]]
<1> DEFINE own == SubtitlesOf(t)
           mine == {s \in 1 .. Len(recording) : recording[s].track = t}
           q == <<IndexLine("id", t, 0)>>
           r == [n \in DOMAIN own |-> IndexLine("timestamp", t, own[n])]
<1>1. own \in Seq(mine)
  BY SubtitlesAre
<1>2. mine \subseteq Nat
  OBVIOUS
<1> HIDE DEF own, mine
<1>3. own \in Seq(Nat) /\ Len(own) \in Nat /\ DOMAIN own = 1 .. Len(own)
  <2>1. Len(own) \in Nat /\ DOMAIN own = 1 .. Len(own) /\ \A n \in 1 .. Len(own) : own[n] \in mine
    BY <1>1
  <2>2. own = [n \in 1 .. Len(own) |-> own[n]]
    BY <1>1
  <2>3. \A n \in 1 .. Len(own) : own[n] \in Nat
    BY <1>2, <2>1
  <2> QED BY <2>1, <2>2, <2>3
<1>4. q \in Seq(LinesOfIndex) /\ Len(q) = 1 /\ q[1] = [k |-> "id", id |-> t, s |-> 0]
  <2>1. IndexLine("id", t, 0) = [k |-> "id", id |-> t, s |-> 0] /\ IndexLine("id", t, 0) \in LinesOfIndex
    BY DEF IndexLine, LinesOfIndex
  <2> HIDE DEF LinesOfIndex
  <2> QED BY <2>1
<1>5. /\ r \in Seq(LinesOfIndex) /\ Len(r) = Len(own)
      /\ \A n \in 1 .. Len(own) : r[n] = [k |-> "timestamp", id |-> t, s |-> own[n]]
  <2>1. \A n \in 1 .. Len(own) : own[n] \in Nat
    BY <1>3
  <2>2. \A n \in 1 .. Len(own) : /\ IndexLine("timestamp", t, own[n]) \in LinesOfIndex
                                 /\ IndexLine("timestamp", t, own[n])
                                      = [k |-> "timestamp", id |-> t, s |-> own[n]]
    BY <2>1 DEF IndexLine, LinesOfIndex
  <2> HIDE DEF LinesOfIndex
  <2> QED BY <1>3, <2>2
<1>6. TrackLines(t) = q \o r
  BY DEF TrackLines, own
<1> HIDE DEF q, r
<1>7. q \o r \in Seq(LinesOfIndex)
  BY <1>4, <1>5
<1>8. /\ Len(q \o r) = Len(q) + Len(r)
      /\ \A m \in 1 .. Len(q) : (q \o r)[m] = q[m]
      /\ \A j \in 1 .. Len(r) : (q \o r)[Len(q) + j] = r[j]
  <2> HIDE DEF LinesOfIndex
  <2>1. q \in Seq(LinesOfIndex) /\ r \in Seq(LinesOfIndex)
    BY <1>4, <1>5
  <2> QED BY <2>1, OneAfterOther
<1>9. 1 \in 1 .. Len(q)
  BY <1>4
<1> QED BY <1>3, <1>4, <1>5, <1>6, <1>7, <1>8, <1>9, Zenon DEF own

\* The lines of the tracks, one track after the other
TrackPart(n) == TrackLines(TrackIds[n])
Tracks == [n \in DOMAIN TrackIds |-> TrackLines(TrackIds[n])]

LEMMA IndexParts ==
    ASSUME recording \in Recordings
    PROVE  /\ Tracks \in Seq(Seq(LinesOfIndex)) /\ Len(Tracks) = Len(TrackIds)
           /\ \A n \in 1 .. Len(TrackIds) : Tracks[n] = TrackPart(n)
           /\ FlattenSeq(Tracks) \in Seq(LinesOfIndex)
           /\ \E places : PlacesOf(Tracks, FlattenSeq(Tracks), places)
           /\ IndexFile \in Seq(LinesOfIndex) /\ Len(IndexFile) = Intro + Len(FlattenSeq(Tracks))
           /\ Intro = 1 => IndexFile[1].k = "langidx"
           /\ \A l \in 1 .. Len(FlattenSeq(Tracks)) : IndexFile[Intro + l] = FlattenSeq(Tracks)[l]
<1> DEFINE flat == FlattenSeq(Tracks)
           head == IF LangIdx = -1 THEN <<>> ELSE <<IndexLine("langidx", LangIdx, 0)>>
<1>1. Tracks \in Seq(Seq(LinesOfIndex)) /\ Len(Tracks) = Len(TrackIds)
      /\ \A n \in 1 .. Len(TrackIds) : Tracks[n] = TrackPart(n)
  <2>1. \A n \in 1 .. Len(TrackIds) : TrackLines(TrackIds[n]) \in Seq(LinesOfIndex)
    BY TracksNamed, TrackLinesAre
  <2> HIDE DEF LinesOfIndex
  <2> QED BY TracksNamed, <2>1 DEF Tracks, TrackPart
<1>2. flat \in Seq(LinesOfIndex) /\ \E places : PlacesOf(Tracks, flat, places)
  BY <1>1, FlattenedParts
<1>3. IndexFile = head \o flat
  BY DEF IndexFile, Tracks
<1>4. head \in Seq(LinesOfIndex) /\ Len(head) = Intro /\ (Intro = 1 => head[1].k = "langidx")
  <2>1. CASE LangIdx = -1
    BY <2>1 DEF Intro
  <2>2. CASE LangIdx # -1
    <3>1. LangIdx \in Nat
      BY <2>2, VobSubAssumption
    <3>2. IndexLine("langidx", LangIdx, 0) \in LinesOfIndex /\ IndexLine("langidx", LangIdx, 0).k = "langidx"
      BY <3>1 DEF IndexLine, LinesOfIndex
    <3> HIDE DEF LinesOfIndex
    <3> QED BY <2>2, <3>2 DEF Intro
  <2> QED BY <2>1, <2>2
<1> HIDE DEF head, flat
<1>5. head \o flat \in Seq(LinesOfIndex)
  BY <1>2, <1>4
<1>6. /\ Len(head \o flat) = Len(head) + Len(flat)
      /\ \A m \in 1 .. Len(head) : (head \o flat)[m] = head[m]
      /\ \A j \in 1 .. Len(flat) : (head \o flat)[Len(head) + j] = flat[j]
  <2> HIDE DEF LinesOfIndex
  <2>1. head \in Seq(LinesOfIndex) /\ flat \in Seq(LinesOfIndex)
    BY <1>2, <1>4
  <2> QED BY <2>1, OneAfterOther
<1>7. Intro = 1 => 1 \in 1 .. Len(head)
  BY <1>4
<1> QED BY <1>1, <1>2, <1>3, <1>4, <1>5, <1>6, <1>7, Zenon DEF flat

Count(n) == Len(SubtitlesOf(TrackIds[n]))
LineAt(n, j) ==
    IF j = 1 THEN [k |-> "id", id |-> TrackIds[n], s |-> 0]
    ELSE [k |-> "timestamp", id |-> TrackIds[n], s |-> SubtitlesOf(TrackIds[n])[j - 1]]

\* The j-th line of the n-th track stands j lines after the place of the track
IndexBy(places) ==
    /\ \A n \in 0 .. Len(TrackIds) : places[n] \in Nat
    /\ places[0] = 0
    /\ \A n \in 1 .. Len(TrackIds) :
         /\ Count(n) \in Nat /\ places[n] = places[n - 1] + (1 + Count(n))
         /\ Intro + places[n] <= Len(IndexFile)
         /\ \A j \in 1 .. 1 + Count(n) : IndexFile[Intro + places[n - 1] + j] = LineAt(n, j)
    /\ \A l \in 1 .. Len(IndexFile) : l > Intro =>
         \E n \in 1 .. Len(TrackIds) : \E j \in 1 .. 1 + Count(n) : l = Intro + places[n - 1] + j
    /\ \A l \in 1 .. Len(IndexFile) : IndexFile[l].id \in Nat
    /\ \A l \in 1 .. Len(IndexFile) : l <= Intro => IndexFile[l].k = "langidx"
    /\ Len(IndexFile) \in Nat

LEMMA PartLine ==
    ASSUME recording \in Recordings, NEW n \in 1 .. Len(TrackIds)
    PROVE  /\ Count(n) \in Nat /\ Len(TrackPart(n)) = 1 + Count(n)
           /\ \A j \in 1 .. 1 + Count(n) : TrackPart(n)[j] = LineAt(n, j)
<1> DEFINE t == TrackIds[n]
           own == SubtitlesOf(t)
<1>1. t \in Nat
  BY TracksNamed
<1>2. /\ Len(own) \in Nat /\ Len(TrackLines(t)) = 1 + Len(own)
      /\ TrackLines(t)[1] = [k |-> "id", id |-> t, s |-> 0]
      /\ \A m \in 1 .. Len(own) : TrackLines(t)[1 + m] = [k |-> "timestamp", id |-> t, s |-> own[m]]
  BY <1>1, TrackLinesAre
<1>3. TrackPart(n) = TrackLines(t) /\ Count(n) = Len(own)
  BY DEF TrackPart, Count
<1>4. \A j : LineAt(n, j) = IF j = 1 THEN [k |-> "id", id |-> t, s |-> 0]
                           ELSE [k |-> "timestamp", id |-> t, s |-> own[j - 1]]
  BY DEF LineAt
<1> HIDE DEF t, own
<1>5. ASSUME NEW j \in 1 .. 1 + Len(own) PROVE TrackLines(t)[j] = LineAt(n, j)
  <2>1. CASE j = 1
    BY <1>2, <1>4, <2>1
  <2>2. CASE j # 1
    <3>1. j - 1 \in 1 .. Len(own) /\ 1 + (j - 1) = j
      BY <1>2, <2>2
    <3>2. TrackLines(t)[1 + (j - 1)] = [k |-> "timestamp", id |-> t, s |-> own[j - 1]]
      BY <1>2, <3>1
    <3> QED BY <1>4, <2>2, <3>1, <3>2
  <2> QED BY <2>1, <2>2
<1> QED BY <1>2, <1>3, <1>5

LEMMA IndexPlaces ==
    ASSUME recording \in Recordings
    PROVE  \E places : IndexBy(places)
<1> DEFINE flat == FlattenSeq(Tracks)
           M == Len(TrackIds)
<1>1. /\ Tracks \in Seq(Seq(LinesOfIndex)) /\ Len(Tracks) = M /\ \A n \in 1 .. M : Tracks[n] = TrackPart(n)
      /\ flat \in Seq(LinesOfIndex) /\ \E places : PlacesOf(Tracks, flat, places)
  BY IndexParts
<1>2. /\ IndexFile \in Seq(LinesOfIndex) /\ Len(IndexFile) = Intro + Len(flat)
      /\ Intro = 1 => IndexFile[1].k = "langidx"
      /\ \A l \in 1 .. Len(flat) : IndexFile[Intro + l] = flat[l]
  BY IndexParts
<1> HIDE DEF flat, M
<1>3. PICK places : PlacesOf(Tracks, flat, places)
  BY <1>1
<1>4. Len(flat) \in Nat /\ Intro \in {0, 1} /\ Intro \in Nat /\ M \in Nat
  BY <1>1, TracksNamed DEF M
<1>5. \A n \in 1 .. M : /\ Count(n) \in Nat /\ Len(TrackPart(n)) = 1 + Count(n)
                        /\ \A j \in 1 .. 1 + Count(n) : TrackPart(n)[j] = LineAt(n, j)
  BY PartLine DEF M
<1>6. /\ \A n \in 0 .. M : places[n] \in Nat
      /\ places[0] = 0
      /\ \A n \in 1 .. M : places[n] = places[n - 1] + Len(Tracks[n]) /\ places[n] <= Len(flat)
      /\ \A n \in 1 .. M : \A j \in 1 .. Len(Tracks[n]) : flat[places[n - 1] + j] = Tracks[n][j]
  BY <1>1, <1>3, Zenon DEF PlacesOf
<1>7. \A n \in 1 .. M : Tracks[n] = TrackPart(n) /\ Len(Tracks[n]) = 1 + Count(n)
  BY <1>1, <1>5
<1>8. ASSUME NEW n \in 1 .. M
      PROVE  /\ Count(n) \in Nat /\ places[n] = places[n - 1] + (1 + Count(n))
             /\ Intro + places[n] <= Len(IndexFile)
             /\ \A j \in 1 .. 1 + Count(n) : IndexFile[Intro + places[n - 1] + j] = LineAt(n, j)
  <2>1. Count(n) \in Nat /\ places[n] = places[n - 1] + (1 + Count(n)) /\ places[n] <= Len(flat)
    BY <1>5, <1>6, <1>7
  <2>2. places[n] \in Nat /\ places[n - 1] \in Nat
    <3>1. n \in 0 .. M /\ n - 1 \in 0 .. M
      BY <1>4
    <3> QED BY <1>6, <3>1
  <2>3. Intro + places[n] <= Len(IndexFile)
    <3>1. Len(IndexFile) = Intro + Len(flat)
      BY <1>2
    <3> QED BY <1>4, <2>1, <2>2, <3>1
  <2>4. ASSUME NEW j \in 1 .. 1 + Count(n) PROVE IndexFile[Intro + places[n - 1] + j] = LineAt(n, j)
    <3>1. places[n - 1] + j \in 1 .. Len(flat)
          /\ Intro + places[n - 1] + j = Intro + (places[n - 1] + j)
      BY <1>4, <2>1, <2>2
    <3>2. IndexFile[Intro + (places[n - 1] + j)] = flat[places[n - 1] + j]
      BY <1>2, <3>1
    <3>3. flat[places[n - 1] + j] = Tracks[n][j]
      BY <1>6, <1>7
    <3> QED BY <1>5, <1>7, <3>1, <3>2, <3>3
  <2> QED BY <2>1, <2>3, <2>4
<1>9. Covered(Tracks, flat, places)
  <2> HIDE DEF LinesOfIndex
  <2> QED BY <1>1, <1>3, PlaceFound
<1>10. ASSUME NEW l \in 1 .. Len(IndexFile), l > Intro
       PROVE  \E n \in 1 .. M : \E j \in 1 .. 1 + Count(n) : l = Intro + places[n - 1] + j
  <2>0. Len(IndexFile) = Intro + Len(flat) /\ l \in Nat
    BY <1>2
  <2>1. l - Intro \in 1 .. Len(flat)
    BY <1>4, <1>10, <2>0
  <2>2. PICK i \in 1 .. Len(Tracks) : \E j \in 1 .. Len(Tracks[i]) : l - Intro = places[i - 1] + j
    BY <1>9, <2>1 DEF Covered
  <2>3. PICK j \in 1 .. Len(Tracks[i]) : l - Intro = places[i - 1] + j
    BY <2>2
  <2>4. i \in 1 .. M /\ Len(Tracks) = M
    BY <1>1
  <2>5. Len(Tracks[i]) = 1 + Count(i) /\ Count(i) \in Nat
    BY <1>5, <1>7, <2>4
  <2>6. places[i - 1] \in Nat
    <3>1. i - 1 \in 0 .. M
      BY <1>4, <2>4
    <3> QED BY <1>6, <3>1
  <2>7. l = Intro + places[i - 1] + j
    <3> DEFINE c == places[i - 1]
    <3>1. l \in Int /\ Intro \in Int /\ c \in Int /\ j \in Int /\ l - Intro = c + j
      BY <1>4, <2>0, <2>3, <2>5, <2>6
    <3> HIDE DEF c
    <3>2. l = Intro + c + j
      BY <3>1
    <3> QED BY <3>2 DEF c
  <2> QED BY <2>3, <2>4, <2>5, <2>7
<1>11. \A l \in 1 .. Len(IndexFile) : IndexFile[l].id \in Nat
  <2>1. \A l \in 1 .. Len(IndexFile) : IndexFile[l] \in LinesOfIndex
    <3> HIDE DEF LinesOfIndex
    <3> QED BY <1>2
  <2> QED BY <2>1 DEF LinesOfIndex
<1>12. \A l \in 1 .. Len(IndexFile) : l <= Intro => IndexFile[l].k = "langidx"
  <2>1. ASSUME NEW l \in 1 .. Len(IndexFile), l <= Intro PROVE IndexFile[l].k = "langidx"
    <3>1. l = 1 /\ Intro = 1
      BY <1>4, <2>1
    <3> QED BY <1>2, <3>1
  <2> QED BY <2>1
<1>13. Len(IndexFile) \in Nat
  BY <1>2
<1>14. IndexBy(places)
  BY <1>6, <1>8, <1>10, <1>11, <1>12, <1>13, Zenon DEF IndexBy, M
<1> QED BY <1>14

LEMMA IndexLinesAre ==
    ASSUME recording \in Recordings
    PROVE  IndexLines
<1> DEFINE M == Len(TrackIds)
           F == IndexFile
<1>1. PICK places : IndexBy(places)
  BY IndexPlaces
<1>2. /\ M \in Nat \ {0} /\ Intro \in {0, 1} /\ Intro \in Nat /\ 1 \in 1 .. M
      /\ \A n \in 1 .. M : TrackIds[n] \in Nat
  BY TracksNamed
<1> HIDE DEF M, F
<1>3. /\ \A n \in 0 .. M : places[n] \in Nat
      /\ places[0] = 0 /\ Len(F) \in Nat
      /\ \A n \in 1 .. M :
           /\ Count(n) \in Nat /\ places[n] = places[n - 1] + (1 + Count(n)) /\ Intro + places[n] <= Len(F)
           /\ \A j \in 1 .. 1 + Count(n) : F[Intro + places[n - 1] + j] = LineAt(n, j)
      /\ \A l \in 1 .. Len(F) : l > Intro =>
           \E n \in 1 .. M : \E j \in 1 .. 1 + Count(n) : l = Intro + places[n - 1] + j
      /\ \A l \in 1 .. Len(F) : F[l].id \in Nat
      /\ \A l \in 1 .. Len(F) : l <= Intro => F[l].k = "langidx"
  BY <1>1, Zenon DEF IndexBy, M, F
<1>4. \A n, j : LineAt(n, j).id = TrackIds[n] /\ LineAt(n, j).k = IF j = 1 THEN "id" ELSE "timestamp"
  BY DEF LineAt
<1>5. Len(F) > Intro /\ F[Intro + 1] = LineAt(1, 1)
  <2>1. 1 \in 1 .. M /\ 1 - 1 = 0
    BY <1>2
  <2>2. Count(1) \in Nat /\ places[1] = 1 + Count(1) /\ Intro + places[1] <= Len(F)
    BY <1>3, <2>1
  <2>3. 1 \in 1 .. 1 + Count(1) /\ Intro + 0 + 1 = Intro + 1
    BY <1>2, <2>2
  <2>4. F[Intro + 0 + 1] = LineAt(1, 1)
    BY <1>3, <2>1, <2>3
  <2> QED BY <1>2, <1>3, <2>2, <2>3, <2>4
<1>6. ASSUME NEW l \in 1 .. Len(F)
      PROVE  /\ F[l].k \in {"langidx", "id", "timestamp"} /\ F[l].id \in Nat
             /\ F[l].k = "langidx" <=> l <= Intro
             /\ F[l].k = "timestamp" => l - 1 > Intro /\ F[l - 1].id = F[l].id
  <2>1. CASE l <= Intro
    BY <1>3, <2>1
  <2>2. CASE ~(l <= Intro)
    <3>1. l > Intro /\ l \in Nat
      BY <1>2, <1>3, <2>2
    <3>2. PICK n \in 1 .. M : \E j \in 1 .. 1 + Count(n) : l = Intro + places[n - 1] + j
      BY <1>3, <3>1
    <3>3. PICK j \in 1 .. 1 + Count(n) : l = Intro + places[n - 1] + j
      BY <3>2
    <3>4. Count(n) \in Nat /\ F[l] = LineAt(n, j)
          /\ \A i \in 1 .. 1 + Count(n) : F[Intro + places[n - 1] + i] = LineAt(n, i)
      BY <1>3, <3>3
    <3>5. F[l].k = (IF j = 1 THEN "id" ELSE "timestamp") /\ F[l].id = TrackIds[n]
      BY <1>4, <3>4
    <3>6. ASSUME j # 1 PROVE l - 1 > Intro /\ F[l - 1].id = TrackIds[n]
      <4>1. j - 1 \in 1 .. 1 + Count(n)
        BY <3>4, <3>6
      <4>2. places[n - 1] \in Nat
        <5>1. n - 1 \in 0 .. M
          BY <1>2
        <5> QED BY <1>3, <5>1
      <4>3. l - 1 = Intro + places[n - 1] + (j - 1) /\ l - 1 > Intro
        <5> DEFINE c == places[n - 1]
        <5>1. /\ l \in Int /\ Intro \in Int /\ c \in Int /\ j \in Int /\ l = Intro + c + j
              /\ Intro >= 0 /\ c >= 0 /\ j > 1
          BY <1>2, <3>1, <3>3, <3>4, <3>6, <4>2
        <5> HIDE DEF c
        <5>2. l - 1 = Intro + c + (j - 1) /\ l - 1 > Intro
          BY <5>1
        <5> QED BY <5>2 DEF c
      <4>4. F[l - 1] = LineAt(n, j - 1)
        BY <3>4, <4>1, <4>3
      <4> QED BY <1>4, <4>3, <4>4
    <3> QED BY <1>2, <2>2, <3>5, <3>6
  <2> QED BY <2>1, <2>2
<1> QED BY <1>2, <1>4, <1>5, <1>6 DEF IndexLines, F

\* The subtitles of the track shown are some of those recorded
LEMMA OwnAre ==
    ASSUME recording \in Recordings
    PROVE  /\ Len(Own) \in Nat /\ DOMAIN Own = 1 .. Len(Own)
           /\ \A n \in 1 .. Len(Own) : Own[n] \in 1 .. Len(recording) /\ recording[Own[n]].track = ShownTrack
<1> DEFINE own == SubtitlesOf(ShownTrack)
           mine == {s \in 1 .. Len(recording) : recording[s].track = ShownTrack}
<1>1. own \in Seq(mine)
  BY SubtitlesAre
<1> HIDE DEF mine, own
<1>2. Len(own) \in Nat /\ DOMAIN own = 1 .. Len(own) /\ \A n \in 1 .. Len(own) : own[n] \in mine
  BY <1>1
<1>3. \A s \in mine : s \in 1 .. Len(recording) /\ recording[s].track = ShownTrack
  BY DEF mine
<1> QED BY <1>2, <1>3 DEF own, Own

LEMMA OwnLinesAre ==
    ASSUME recording \in Recordings
    PROVE  \E d \in Nat : OwnLines(d)
<1> DEFINE M == Len(TrackIds)
           N == Len(Own)
           F == IndexFile
<1>1. PICK places : IndexBy(places)
  BY IndexPlaces
<1>2. M \in Nat /\ Intro \in Nat /\ DOMAIN TrackIds = 1 .. M
  BY TracksNamed
<1>3. N \in Nat
  BY OwnAre
<1>4. \A n \in 1 .. M : TrackIds[n] = ShownTrack => Count(n) = N /\ SubtitlesOf(TrackIds[n]) = Own
  BY DEF Count, Own
<1>5. \A m, n \in 1 .. M : TrackIds[m] = TrackIds[n] => m = n
  BY <1>2, VobSubAssumption
<1> HIDE DEF M, F, N
<1>6. /\ \A n \in 0 .. M : places[n] \in Nat
      /\ Len(F) \in Nat
      /\ \A n \in 1 .. M :
           /\ Count(n) \in Nat /\ places[n] = places[n - 1] + (1 + Count(n)) /\ Intro + places[n] <= Len(F)
           /\ \A j \in 1 .. 1 + Count(n) : F[Intro + places[n - 1] + j] = LineAt(n, j)
      /\ \A l \in 1 .. Len(F) : l > Intro =>
           \E n \in 1 .. M : \E j \in 1 .. 1 + Count(n) : l = Intro + places[n - 1] + j
      /\ \A l \in 1 .. Len(F) : l <= Intro => F[l].k = "langidx"
  BY <1>1, Zenon DEF IndexBy, M, F
<1>7. \A n, j : LineAt(n, j).id = TrackIds[n] /\ LineAt(n, j).k = IF j = 1 THEN "id" ELSE "timestamp"
  BY DEF LineAt
\* a time of the track shown is a line of its part of the index
<1>8. ASSUME NEW l \in 1 .. Len(F), F[l].k = "timestamp", F[l].id = ShownTrack
      PROVE  \E n \in 1 .. M : TrackIds[n] = ShownTrack /\ \E j \in 2 .. 1 + Count(n) : l = Intro + places[n - 1] + j
  <2>1. l > Intro
    BY <1>2, <1>6, <1>8
  <2>2. PICK n \in 1 .. M : \E j \in 1 .. 1 + Count(n) : l = Intro + places[n - 1] + j
    BY <1>6, <2>1
  <2>3. PICK j \in 1 .. 1 + Count(n) : l = Intro + places[n - 1] + j
    BY <2>2
  <2>4. F[l] = LineAt(n, j) /\ Count(n) \in Nat
    BY <1>6, <2>3
  <2>5. TrackIds[n] = ShownTrack /\ j # 1
    BY <1>7, <1>8, <2>4
  <2>6. j \in 2 .. 1 + Count(n)
    BY <2>4, <2>5
  <2> QED BY <2>3, <2>5, <2>6
<1>9. CASE \E n \in 1 .. M : TrackIds[n] = ShownTrack
  <2>1. PICK n \in 1 .. M : TrackIds[n] = ShownTrack
    BY <1>9
  <2> DEFINE c == places[n - 1]
             d == Intro + c + 1
  <2>2. c \in Nat
    <3>1. n - 1 \in 0 .. M
      BY <1>2
    <3> QED BY <1>6, <3>1
  <2>3. Count(n) = N /\ SubtitlesOf(TrackIds[n]) = Own /\ places[n] = c + (1 + N)
    BY <1>4, <1>6, <2>1
  <2>4. \A j \in 1 .. 1 + N : F[Intro + c + j] = LineAt(n, j)
    BY <1>6, <2>3
  <2>5. Intro + places[n] <= Len(F)
    BY <1>6
  <2>6. \A l \in 1 .. Len(F) : F[l].k = "timestamp" /\ F[l].id = ShownTrack =>
           \E j \in 2 .. 1 + N : l = Intro + c + j
    <3>1. ASSUME NEW l \in 1 .. Len(F), F[l].k = "timestamp", F[l].id = ShownTrack
          PROVE  \E j \in 2 .. 1 + N : l = Intro + c + j
      <4>1. PICK m \in 1 .. M : TrackIds[m] = ShownTrack /\ \E j \in 2 .. 1 + Count(m) : l = Intro + places[m - 1] + j
        BY <1>8, <3>1
      <4>2. m = n
        BY <1>5, <2>1, <4>1
      <4> QED BY <2>3, <4>1, <4>2
    <3> QED BY <3>1
  <2> HIDE DEF c
  <2>7. d \in Nat /\ d + N <= Len(F)
    BY <1>2, <1>3, <1>6, <2>2, <2>3, <2>5
  <2>8. ASSUME NEW l \in 1 .. Len(F)
        PROVE  /\ l - d \in 1 .. N <=> F[l].k = "timestamp" /\ F[l].id = ShownTrack
               /\ l - d \in 1 .. N => F[l].s = Own[l - d]
    <3>1. ASSUME l - d \in 1 .. N
          PROVE  F[l].k = "timestamp" /\ F[l].id = ShownTrack /\ F[l].s = Own[l - d]
      <4> DEFINE j == l - d + 1
      <4>1. j \in 1 .. 1 + N /\ j # 1 /\ l = Intro + c + j /\ j - 1 = l - d
        BY <1>2, <1>3, <2>2, <3>1
      <4> HIDE DEF j
      <4>2. F[l] = LineAt(n, j)
        BY <2>4, <4>1
      <4>3. F[l] = [k |-> "timestamp", id |-> TrackIds[n], s |-> Own[j - 1]]
        BY <2>3, <4>1, <4>2 DEF LineAt
      <4> QED BY <2>1, <4>1, <4>3
    <3>2. ASSUME F[l].k = "timestamp", F[l].id = ShownTrack PROVE l - d \in 1 .. N
      <4>1. PICK j \in 2 .. 1 + N : l = Intro + c + j
        BY <2>6, <3>2
      <4> QED BY <1>2, <1>3, <2>2, <4>1
    <3> QED BY <3>1, <3>2
  <2> HIDE DEF d
  <2>9. OwnLines(d)
    BY <2>7, <2>8, Zenon DEF OwnLines, N, F
  <2> QED BY <2>7, <2>9
<1>10. CASE ~(\E n \in 1 .. M : TrackIds[n] = ShownTrack)
  <2>1. N = 0
    <3> SUFFICES ASSUME N # 0 PROVE FALSE
      OBVIOUS
    <3>1. 1 \in 1 .. N
      BY <1>3
    <3>2. Own[1] \in 1 .. Len(recording) /\ recording[Own[1]].track = ShownTrack
      BY <3>1, OwnAre DEF N
    <3>3. \E n \in DOMAIN TrackIds : recording[Own[1]].track = TrackIds[n]
      BY <3>2, Recorded
    <3> QED BY <1>2, <1>10, <3>2, <3>3
  <2>2. \A l \in 1 .. Len(F) : ~(l - 0 \in 1 .. N) /\ ~(F[l].k = "timestamp" /\ F[l].id = ShownTrack)
    <3>1. \A l \in 1 .. Len(F) : ~(F[l].k = "timestamp" /\ F[l].id = ShownTrack)
      BY <1>8, <1>10
    <3>2. \A i : ~(i \in 1 .. N)
      BY <2>1
    <3> QED BY <3>1, <3>2
  <2>3. 0 \in Nat /\ 0 + N <= Len(F)
    BY <1>6, <2>1
  <2>4. OwnLines(0)
    BY <2>2, <2>3, Zenon DEF OwnLines, N, F
  <2> QED BY <2>4
<1> QED BY <1>9, <1>10

LEMMA OwnReadIs ==
    ASSUME recording \in Recordings, NEW d \in Nat, NEW l \in Nat
    PROVE  /\ OwnRead(d, l) \in 0 .. Len(Own) /\ OwnRead(d, 0) = 0
           /\ (l + 1) - d \in 1 .. Len(Own) =>
                OwnRead(d, l + 1) = OwnRead(d, l) + 1 /\ (l + 1) - d = OwnRead(d, l) + 1
           /\ (l + 1) - d \notin 1 .. Len(Own) => OwnRead(d, l + 1) = OwnRead(d, l)
           /\ d + Len(Own) <= l => OwnRead(d, l) = Len(Own)
<1> DEFINE N == Len(Own)
<1>1. N \in Nat
  BY OwnAre
<1>2. \A k \in Nat : OwnRead(d, k) = IF k <= d THEN 0 ELSE IF k - d >= N THEN N ELSE k - d
  BY DEF OwnRead
<1> HIDE DEF N
<1>3. /\ OwnRead(d, l) \in 0 .. N /\ OwnRead(d, 0) = 0
      /\ (l + 1) - d \in 1 .. N =>
                OwnRead(d, l + 1) = OwnRead(d, l) + 1 /\ (l + 1) - d = OwnRead(d, l) + 1
      /\ (l + 1) - d \notin 1 .. N => OwnRead(d, l + 1) = OwnRead(d, l)
      /\ d + N <= l => OwnRead(d, l) = N
  BY <1>1, <1>2
<1> QED BY <1>3 DEF N

\* The files and the track asked for stay as they are
LEMMA SameIndex ==
    ASSUME recording' = recording, requested' = requested
    PROVE  /\ IndexFile' = IndexFile /\ Own' = Own /\ ShownTrack' = ShownTrack
           /\ \A s : Place(s)' = Place(s)
           /\ \A d : OwnLines(d)' <=> OwnLines(d)
           /\ \A d, l : OwnRead(d, l)' = OwnRead(d, l)
           /\ \A s : TrackItem(s)' = TrackItem(s)
<1>1. \A t : SubtitlesOf(t)' = SubtitlesOf(t)
  BY DEF SubtitlesOf
<1>2. \A t : TrackLines(t)' = TrackLines(t)
  BY <1>1 DEF TrackLines, IndexLine
<1>3. IndexFile' = IndexFile
  BY <1>2 DEF IndexFile, IndexLine
<1>4. ShownTrack' = ShownTrack
  BY DEF ShownTrack
<1>5. Own' = Own
  BY <1>1, <1>4 DEF Own
<1>6. \A s : Stretch(s)' = Stretch(s)
  BY DEF Stretch, Packet, Filler
<1>7. \A s : Place(s)' = Place(s)
  BY <1>6 DEF Place
<1>8. \A d : OwnLines(d)' <=> OwnLines(d)
  BY <1>3, <1>4, <1>5 DEF OwnLines
<1>9. \A d, l : OwnRead(d, l)' = OwnRead(d, l)
  BY <1>5 DEF OwnRead
<1>10. \A s : TrackItem(s)' = TrackItem(s)
  BY <1>4, <1>7 DEF TrackItem
<1> QED BY <1>3, <1>4, <1>5, <1>7, <1>8, <1>9, <1>10

LEMMA VobInvInit == VobInit => VobInv
<1> SUFFICES ASSUME VobInit PROVE VobInv
  OBVIOUS
<1>1. recording \in Recordings /\ requested \in RequestedTracks /\ vobLine = 0
      /\ mIdxSubTrackId = requested /\ vobItems = <<>> /\ bitmaps = <<>>
      /\ (requested # -1 => mSelectedTrackId = requested)
  <2>1. requested \in RequestedTracks => requested \in Nat \/ requested = -1
    BY VobSubAssumption
  <2> QED BY <2>1 DEF VobInit
<1>2. Len(IndexFile) \in Nat
  BY <1>1, IndexParts
<1>3. PICK d \in Nat : OwnLines(d)
  BY <1>1, OwnLinesAre
<1>4. OwnRead(d, 0) = 0
  BY DEF OwnRead
<1>5. Intro \in Nat
  BY TracksNamed
<1>6. [n \in 1 .. 0 |-> TrackBitmap(Own[n])] = <<>> /\ [n \in 1 .. 0 - 0 |-> TrackItem(Own[0 + n])] = <<>>
  OBVIOUS
<1>7. ShownSoFar(d, 0)
  BY <1>1, <1>3, <1>4, <1>6 DEF ShownSoFar
<1>8. \E e \in Nat, b \in Nat : ShownSoFar(e, b)
  BY <1>7
<1> QED BY <1>1, <1>2, <1>5, <1>8 DEF VobInv

LEMMA LineDecoded == ASSUME VobInv, decodedIndexLine PROVE VobInv'
<1> DEFINE F == IndexFile
           l == vobLine + 1
           line == F[l]
           choose == mIdxSubTrackId = -1
<1>1. /\ recording \in Recordings /\ requested \in RequestedTracks
      /\ vobLine \in 0 .. Len(F)
      /\ vobLine <= Intro => mIdxSubTrackId = requested /\ (requested # -1 => mSelectedTrackId = requested)
      /\ vobLine > Intro => mIdxSubTrackId # -1 /\ mSelectedTrackId = ShownTrack /\ vobsubId = F[vobLine].id
  BY DEF VobInv
<1>2. PICK d \in Nat, b \in Nat : ShownSoFar(d, b)
  BY DEF VobInv
<1>3. /\ vobLine < Len(F) /\ vobLine' = l /\ recording' = recording /\ requested' = requested
      /\ bitmaps' = bitmaps
  BY DEF decodedIndexLine
<1>4. /\ line.k = "langidx" =>
           /\ vobsubId' = line.id
           /\ mSelectedTrackId' = IF choose THEN line.id ELSE mSelectedTrackId
           /\ mIdxSubTrackId' = mIdxSubTrackId /\ vobItems' = vobItems
      /\ line.k = "id" =>
           /\ vobsubId' = line.id
           /\ mSelectedTrackId' = IF choose THEN line.id ELSE mSelectedTrackId
           /\ mIdxSubTrackId' = IF choose THEN line.id ELSE mIdxSubTrackId
           /\ vobItems' = vobItems
      /\ line.k = "timestamp" =>
           /\ vobItems' = IF vobsubId # mSelectedTrackId THEN vobItems
                          ELSE Append(vobItems, [start |-> line.s, subId |-> vobsubId, filePos |-> Place(line.s)])
           /\ vobsubId' = vobsubId /\ mIdxSubTrackId' = mIdxSubTrackId /\ mSelectedTrackId' = mSelectedTrackId
  BY DEF decodedIndexLine
<1>5. Len(F) \in Nat /\ Intro \in Nat /\ F' = F
  BY <1>1, <1>3, IndexParts, TracksNamed, SameIndex
<1>6. /\ Len(F) > Intro /\ F[Intro + 1].k = "id" /\ F[Intro + 1].id = TrackIds[1]
      /\ \A i \in 1 .. Len(F) :
           /\ F[i].k \in {"langidx", "id", "timestamp"} /\ F[i].id \in Nat
           /\ F[i].k = "langidx" <=> i <= Intro
           /\ F[i].k = "timestamp" => i - 1 > Intro /\ F[i - 1].id = F[i].id
  BY <1>1, IndexLinesAre DEF IndexLines
<1>7. requested \in Nat \/ requested = -1
  BY <1>1, VobSubAssumption
<1>8. ShownTrack = IF requested = -1 THEN TrackIds[1] ELSE requested
  BY DEF ShownTrack
<1> HIDE DEF F
<1>9. l \in 1 .. Len(F) /\ l \in Nat /\ vobLine \in Nat /\ l - 1 = vobLine
  BY <1>1, <1>3, <1>5
<1>10. /\ line.k \in {"langidx", "id", "timestamp"} /\ line.id \in Nat
       /\ line.k = "langidx" <=> l <= Intro
       /\ line.k = "timestamp" => vobLine > Intro /\ F[vobLine].id = line.id
  BY <1>6, <1>9
<1> HIDE DEF l
\* the track, once chosen, stays
<1>11. l <= Intro => mIdxSubTrackId' = requested /\ (requested # -1 => mSelectedTrackId' = requested)
  <2> SUFFICES ASSUME l <= Intro
               PROVE  mIdxSubTrackId' = requested /\ (requested # -1 => mSelectedTrackId' = requested)
    OBVIOUS
  <2>1. vobLine <= Intro
    BY <1>5, <1>9
  <2> QED BY <1>1, <1>4, <1>10, <2>1
<1>12. l > Intro => mIdxSubTrackId' # -1 /\ mSelectedTrackId' = ShownTrack /\ vobsubId' = line.id
  <2> SUFFICES ASSUME l > Intro
               PROVE  mIdxSubTrackId' # -1 /\ mSelectedTrackId' = ShownTrack /\ vobsubId' = line.id
    OBVIOUS
  <2>1. line.k # "langidx"
    BY <1>5, <1>9, <1>10
  <2>2. line.id # -1
    BY <1>10
  <2>3. CASE vobLine > Intro
    <3>1. mIdxSubTrackId # -1 /\ mSelectedTrackId = ShownTrack /\ vobsubId = F[vobLine].id
      BY <1>1, <2>3 DEF F
    <3>2. CASE line.k = "id"
      BY <1>4, <3>1, <3>2
    <3>3. CASE line.k = "timestamp"
      BY <1>4, <1>10, <3>1, <3>3
    <3> QED BY <1>10, <2>1, <3>2, <3>3
  <2>4. CASE ~(vobLine > Intro)
    <3>1. l = Intro + 1 /\ vobLine <= Intro
      BY <1>5, <1>9, <2>4
    <3>2. line.k = "id" /\ line.id = TrackIds[1]
      BY <1>6, <3>1
    <3>3. mIdxSubTrackId = requested /\ (requested # -1 => mSelectedTrackId = requested)
      BY <1>1, <3>1
    <3> QED BY <1>4, <1>7, <1>8, <2>2, <3>2, <3>3
  <2> QED BY <2>3, <2>4
\* a time of the track is an item, a line of another kind or track is not
<1>13. ShownSoFar(d, b)'
  <2> DEFINE N == Len(Own)
             c == OwnRead(d, vobLine)
             e == OwnRead(d, l)
             G(n) == TrackItem(Own[b + n])
  <2>1. /\ OwnLines(d) /\ b <= c /\ bitmaps = [n \in 1 .. b |-> TrackBitmap(Own[n])]
        /\ vobItems = [n \in 1 .. c - b |-> G(n)]
    BY <1>2 DEF ShownSoFar
  <2>2. /\ l - d \in 1 .. N <=> line.k = "timestamp" /\ line.id = ShownTrack
        /\ l - d \in 1 .. N => line.s = Own[l - d]
    BY <1>9, <2>1 DEF OwnLines, F
  <2>3. /\ c \in 0 .. N /\ N \in Nat
        /\ l - d \in 1 .. N => e = c + 1 /\ l - d = c + 1
        /\ l - d \notin 1 .. N => e = c
    BY <1>1, <1>9, OwnReadIs, OwnAre DEF l
  <2> HIDE DEF N, c, e, G
  <2>p. /\ OwnRead(d, vobLine)' = e /\ OwnLines(d)'
        /\ [n \in 1 .. b |-> TrackBitmap(Own[n])]' = [n \in 1 .. b |-> TrackBitmap(Own[n])]
        /\ \A k : [n \in 1 .. k |-> TrackItem(Own[b + n])]' = [n \in 1 .. k |-> G(n)]
    <3>1. Own' = Own /\ (OwnLines(d)' <=> OwnLines(d)) /\ \A s : TrackItem(s)' = TrackItem(s)
      BY <1>3, SameIndex
    <3>2. OwnRead(d, vobLine)' = e
      BY <1>3, <3>1 DEF e, OwnRead
    <3>3. [n \in 1 .. b |-> TrackBitmap(Own[n])]' = [n \in 1 .. b |-> TrackBitmap(Own[n])]
      BY <3>1 DEF TrackBitmap, WholeOf
    <3>4. \A n : TrackItem(Own[b + n])' = G(n)
      BY <1>3, <3>1, SameIndex DEF G, TrackItem
    <3> QED BY <2>1, <3>1, <3>2, <3>3, <3>4
  <2>q. ASSUME b <= e, vobItems' = [n \in 1 .. e - b |-> G(n)] PROVE ShownSoFar(d, b)'
    BY <1>3, <2>1, <2>p, <2>q DEF ShownSoFar
  <2>4. CASE l - d \in 1 .. N
    <3>1. line.k = "timestamp" /\ line.id = ShownTrack /\ line.s = Own[c + 1] /\ e = c + 1
      BY <2>2, <2>3, <2>4
    <3>2. vobLine > Intro /\ vobsubId = ShownTrack /\ mSelectedTrackId = ShownTrack
      BY <1>1, <1>10, <3>1 DEF F
    <3>3. vobItems' = Append(vobItems, TrackItem(Own[c + 1]))
      BY <1>4, <3>1, <3>2, Zenon DEF TrackItem
    <3>4. TrackItem(Own[c + 1]) = G((c - b) + 1) /\ c - b \in Nat /\ e - b = (c - b) + 1 /\ b <= e
      <4>1. c \in Nat /\ b + ((c - b) + 1) = c + 1
        BY <2>3
      <4>2. c - b \in Nat /\ e - b = (c - b) + 1 /\ b <= e
        BY <2>1, <2>3, <3>1, <4>1
      <4> QED BY <4>1, <4>2 DEF G
    <3>5. Append([n \in 1 .. c - b |-> G(n)], G((c - b) + 1)) = [n \in 1 .. (c - b) + 1 |-> G(n)]
      <4>1. \A k \in Nat : Append([n \in 1 .. k |-> G(n)], G(k + 1)) = [n \in 1 .. k + 1 |-> G(n)]
        OBVIOUS
      <4> QED BY <3>4, <4>1
    <3>6. vobItems' = [n \in 1 .. e - b |-> G(n)]
      BY <2>1, <3>3, <3>4, <3>5, Zenon
    <3> QED BY <2>q, <3>4, <3>6
  <2>5. CASE l - d \notin 1 .. N
    <3>1. vobItems' = vobItems
      <4>1. CASE line.k = "timestamp"
        <5>1. line.id # ShownTrack
          BY <2>2, <2>5, <4>1
        <5>2. vobsubId # mSelectedTrackId
          BY <1>1, <1>10, <4>1, <5>1 DEF F
        <5> QED BY <1>4, <4>1, <5>2
      <4>2. CASE line.k # "timestamp"
        BY <1>4, <1>10, <4>2
      <4> QED BY <4>1, <4>2
    <3> QED BY <2>1, <2>3, <2>5, <2>q, <3>1
  <2> QED BY <2>4, <2>5
<1>14. \E i \in Nat, j \in Nat : ShownSoFar(i, j)'
  BY <1>13
<1> QED BY <1>1, <1>3, <1>5, <1>9, <1>11, <1>12, <1>14, SameIndex DEF VobInv, F

LEMMA BitmapMade ==
    ASSUME recording \in Recordings, NEW s \in 1 .. Len(recording), recording[s].track = ShownTrack,
           mSelectedTrackId = ShownTrack
    PROVE  genSubBitmap(TrackItem(s)) = WholeOf(s)
<1> DEFINE words == assembled(TrackItem(s).filePos, mSelectedTrackId)
           W == WholeOf(s)
<1>1. words = W
  <2>1. TrackItem(s).filePos = Place(s)
    BY DEF TrackItem
  <2> QED BY <2>1, Assembled
<1>2. genSubBitmap(TrackItem(s)) =
        IF words = <<>> THEN <<>>
        ELSE [i \in 1 .. SubLength |-> IF i <= Len(words) THEN words[i] ELSE Unwritten]
  BY DEF genSubBitmap
<1> HIDE DEF words
<1>3. SubLength \in Nat \ {0}
  BY VobSubAssumption
<1>4. Len(W) = SubLength /\ W # <<>> /\ W = [i \in 1 .. SubLength |-> W[i]]
  BY <1>3 DEF WholeOf
<1> HIDE DEF W
<1>5. [i \in 1 .. SubLength |-> IF i <= Len(W) THEN W[i] ELSE Unwritten] = [i \in 1 .. SubLength |-> W[i]]
  BY <1>3, <1>4
<1> QED BY <1>1, <1>2, <1>4, <1>5, Zenon DEF W

LEMMA ItemShown == ASSUME VobInv, popIndexItem PROVE VobInv'
<1> DEFINE F == IndexFile
           L == vobLine
<1>1. /\ recording \in Recordings /\ requested \in RequestedTracks
      /\ vobLine \in 0 .. Len(F)
      /\ vobLine > Intro => mIdxSubTrackId # -1 /\ mSelectedTrackId = ShownTrack /\ vobsubId = F[vobLine].id
  BY DEF VobInv
<1>2. PICK d \in Nat, b \in Nat : ShownSoFar(d, b)
  BY DEF VobInv
<1>3. /\ vobLine = Len(F)
      /\ recording' = recording /\ requested' = requested /\ vobLine' = vobLine
      /\ vobsubId' = vobsubId /\ mIdxSubTrackId' = mIdxSubTrackId /\ mSelectedTrackId' = mSelectedTrackId
  BY DEF popIndexItem
<1>4. PICK n \in DOMAIN vobItems :
          /\ vobItems[n].subId = mSelectedTrackId
          /\ \A m \in 1 .. n - 1 : vobItems[m].subId # mSelectedTrackId
          /\ bitmaps' = Append(bitmaps, [start |-> vobItems[n].start, data |-> genSubBitmap(vobItems[n])])
          /\ vobItems' = RemoveAt(vobItems, n)
  BY DEF popIndexItem
<1>5. Len(F) \in Nat /\ Intro \in Nat /\ F' = F /\ Len(F) > Intro
  BY <1>1, <1>3, IndexParts, TracksNamed, SameIndex, IndexLinesAre DEF IndexLines
<1>6. mSelectedTrackId = ShownTrack
  BY <1>1, <1>3, <1>5
<1> DEFINE N == Len(Own)
           c == OwnRead(d, vobLine)
           G(m) == TrackItem(Own[b + m])
           B(m) == TrackBitmap(Own[m])
<1>7. /\ OwnLines(d) /\ b <= c /\ bitmaps = [m \in 1 .. b |-> B(m)]
      /\ vobItems = [m \in 1 .. c - b |-> G(m)]
  BY <1>2 DEF ShownSoFar
<1>8. c \in 0 .. N /\ N \in Nat /\ \A m \in 1 .. N : Own[m] \in 1 .. Len(recording) /\ recording[Own[m]].track = ShownTrack
  BY <1>1, <1>3, <1>5, OwnReadIs, OwnAre
<1>9. \A m : G(m).subId = ShownTrack /\ G(m).start = Own[b + m]
  BY DEF TrackItem
<1> HIDE DEF F, N, c, G, B
<1>10. n \in 1 .. c - b /\ n = 1 /\ vobItems[n] = G(1)
  <2>1. n \in 1 .. c - b
    BY <1>7
  <2>2. \A m \in 1 .. c - b : vobItems[m].subId = ShownTrack
    BY <1>7, <1>9
  <2>3. n = 1
    <3> SUFFICES ASSUME n # 1 PROVE FALSE
      OBVIOUS
    <3>1. 1 \in 1 .. n - 1 /\ 1 \in 1 .. c - b
      BY <1>8, <2>1
    <3> QED BY <1>4, <1>6, <2>2, <3>1
  <2> QED BY <1>7, <2>1, <2>3
<1>11. c - b \in Nat /\ c - b # 0 /\ b + 1 \in 1 .. N /\ b + 1 <= c
  BY <1>7, <1>8, <1>10
<1>12. bitmaps' = [m \in 1 .. b + 1 |-> B(m)]
  <2> DEFINE s == Own[b + 1]
  <2>1. s \in 1 .. Len(recording) /\ recording[s].track = ShownTrack
    BY <1>8, <1>11
  <2>2. G(1) = TrackItem(s)
    BY DEF G
  <2>3. vobItems[n].start = s
    BY <1>9, <1>10
  <2> HIDE DEF s
  <2>4. genSubBitmap(TrackItem(s)) = WholeOf(s)
    BY <1>1, <1>6, <2>1, BitmapMade
  <2>5. [start |-> vobItems[n].start, data |-> genSubBitmap(vobItems[n])] = TrackBitmap(s)
    BY <1>10, <2>2, <2>3, <2>4 DEF TrackBitmap
  <2>6. TrackBitmap(s) = B(b + 1)
    BY DEF B, s
  <2>7. bitmaps' = Append([m \in 1 .. b |-> B(m)], B(b + 1))
    BY <1>4, <1>7, <2>5, <2>6
  <2>8. \A k \in Nat : Append([m \in 1 .. k |-> B(m)], B(k + 1)) = [m \in 1 .. k + 1 |-> B(m)]
    OBVIOUS
  <2> QED BY <2>7, <2>8
<1>13. vobItems' = [m \in 1 .. (c - b) - 1 |-> G(m + 1)]
  <2>1. vobItems' = RemoveAt([m \in 1 .. c - b |-> G(m)], 1)
    BY <1>4, <1>7, <1>10
  <2>2. RemoveAt([m \in 1 .. c - b |-> G(m)], 1) = [m \in 1 .. (c - b) - 1 |-> G(m + 1)]
    <3>1. \A k \in Nat : k # 0 =>
             RemoveAt([m \in 1 .. k |-> G(m)], 1) = [m \in 1 .. k - 1 |-> G(m + 1)]
      BY DEF RemoveAt
    <3> QED BY <1>11, <3>1
  <2> QED BY <2>1, <2>2
<1>14. ShownSoFar(d, b + 1)'
  <2>1. Own' = Own /\ OwnLines(d)' /\ \A s : TrackItem(s)' = TrackItem(s)
    BY <1>3, <1>7, SameIndex
  <2>2. OwnRead(d, vobLine)' = c
    BY <1>3, <2>1 DEF c, OwnRead
  <2>3. [m \in 1 .. b + 1 |-> TrackBitmap(Own[m])]' = [m \in 1 .. b + 1 |-> B(m)]
    BY <2>1 DEF TrackBitmap, WholeOf, B
  <2>4. \A k : [m \in 1 .. k |-> TrackItem(Own[(b + 1) + m])]' = [m \in 1 .. k |-> TrackItem(Own[(b + 1) + m])]
    <3>1. \A m : TrackItem(Own[(b + 1) + m])' = TrackItem(Own[(b + 1) + m])
      BY <1>3, <2>1, SameIndex DEF TrackItem
    <3> QED BY <3>1
  <2>5. [m \in 1 .. c - (b + 1) |-> TrackItem(Own[(b + 1) + m])] = [m \in 1 .. (c - b) - 1 |-> G(m + 1)]
    <3>1. \A m \in 1 .. (c - b) - 1 : G(m + 1) = TrackItem(Own[(b + 1) + m])
      <4>1. \A m \in 1 .. (c - b) - 1 : b + (m + 1) = (b + 1) + m
        BY <1>11
      <4> QED BY <4>1 DEF G
    <3>2. c - (b + 1) = (c - b) - 1
      BY <1>8
    <3> QED BY <3>1, <3>2
  <2> HIDE DEF WholeOf
  <2> QED BY <1>11, <1>12, <1>13, <2>1, <2>2, <2>3, <2>4, <2>5 DEF ShownSoFar
<1>15. \E i \in Nat, j \in Nat : ShownSoFar(i, j)'
  <2>1. b + 1 \in Nat
    OBVIOUS
  <2> QED BY <1>14, <2>1
<1> QED BY <1>1, <1>3, <1>5, <1>15, SameIndex DEF VobInv, F

LEMMA VobInvNext == ASSUME VobInv, [VobNext]_vobVars PROVE VobInv'
<1>1. CASE decodedIndexLine
  BY <1>1, LineDecoded
<1>2. CASE popIndexItem
  BY <1>2, ItemShown
<1>3. ASSUME /\ recording' = recording /\ requested' = requested /\ vobLine' = vobLine
             /\ vobsubId' = vobsubId /\ mIdxSubTrackId' = mIdxSubTrackId
             /\ mSelectedTrackId' = mSelectedTrackId /\ vobItems' = vobItems /\ bitmaps' = bitmaps
      PROVE  VobInv'
  <2>1. IndexFile' = IndexFile /\ Own' = Own /\ ShownTrack' = ShownTrack
        /\ (\A d : OwnLines(d)' <=> OwnLines(d)) /\ \A s : TrackItem(s)' = TrackItem(s)
    BY <1>3, SameIndex
  <2>2. PICK d \in Nat, b \in Nat : ShownSoFar(d, b)
    BY DEF VobInv
  <2>3. OwnRead(d, vobLine)' = OwnRead(d, vobLine)
    BY <1>3, <2>1 DEF OwnRead
  <2>4. ShownSoFar(d, b)'
    <3>1. [n \in 1 .. b |-> TrackBitmap(Own[n])]' = [n \in 1 .. b |-> TrackBitmap(Own[n])]
      BY <2>1 DEF TrackBitmap, WholeOf
    <3>2. \A n : TrackItem(Own[b + n])' = TrackItem(Own[b + n])
      BY <1>3, <2>1, SameIndex DEF TrackItem
    <3> QED BY <1>3, <2>1, <2>2, <2>3, <3>1, <3>2 DEF ShownSoFar
  <2>5. \E i \in Nat, j \in Nat : ShownSoFar(i, j)'
    BY <2>4
  <2> QED BY <1>3, <2>1, <2>5 DEF VobInv
<1>4. CASE \E picture \in VobPictures, contrast \in [0 .. 3 -> BOOLEAN] : Paint(picture, contrast)
  BY <1>3, <1>4 DEF Paint
<1>5. CASE UNCHANGED vobVars
  BY <1>3, <1>5 DEF vobVars
<1> QED BY <1>1, <1>2, <1>4, <1>5 DEF VobNext

LEMMA ShownIsPrefix ==
    ASSUME NEW N \in Nat, NEW b \in 0 .. N, NEW S
    PROVE  IsPrefix([n \in 1 .. b |-> S[n]], [n \in 1 .. N |-> S[n]])
BY DEF IsPrefix

LEMMA VobInvShows == VobInv => TrackShown
<1> SUFFICES ASSUME VobInv PROVE TrackShown
  OBVIOUS
<1> DEFINE N == Len(Own)
           c(d) == OwnRead(d, vobLine)
           S == [n \in 1 .. N |-> TrackBitmap(Own[n])]
           all == [n \in DOMAIN Own |-> [start |-> Own[n],
                      data |-> [i \in 1 .. SubLength |-> [s |-> Own[n], i |-> i]]]]
<1>1. recording \in Recordings /\ vobLine \in 0 .. Len(IndexFile)
  BY DEF VobInv
<1>2. PICK d \in Nat, b \in Nat : ShownSoFar(d, b)
  BY DEF VobInv
<1>3. /\ OwnLines(d) /\ b <= c(d)
      /\ bitmaps = [n \in 1 .. b |-> TrackBitmap(Own[n])]
      /\ vobItems = [n \in 1 .. c(d) - b |-> TrackItem(Own[b + n])]
  BY <1>2 DEF ShownSoFar
<1>4. N \in Nat /\ DOMAIN Own = 1 .. N
  BY <1>1, OwnAre
<1>5. Len(IndexFile) \in Nat
  BY <1>1, IndexParts
<1>6. c(d) \in 0 .. N /\ (d + N <= vobLine => c(d) = N)
  <2>1. vobLine \in Nat
    BY <1>1, <1>5
  <2> QED BY <1>1, <2>1, OwnReadIs
<1>7. d + N <= Len(IndexFile)
  BY <1>3 DEF OwnLines
<1>8. all = [n \in 1 .. N |-> S[n]] /\ all = S
  BY <1>4 DEF TrackBitmap, WholeOf
<1>9. TrackShown <=> /\ IsPrefix(bitmaps, all)
                     /\ (vobLine = Len(IndexFile) /\ vobItems = <<>>) => bitmaps = all
  BY DEF TrackShown, Own, ShownTrack
<1>10. bitmaps = [n \in 1 .. b |-> S[n]] /\ b \in 0 .. N
  <2>1. \A n \in 1 .. b : n \in 1 .. N
    BY <1>3, <1>4, <1>6
  <2>2. \A n \in 1 .. b : S[n] = TrackBitmap(Own[n])
    BY <2>1
  <2> HIDE DEF S
  <2> QED BY <1>3, <1>4, <1>6, <2>2
<1> HIDE DEF N, S, all, c
<1>11. IsPrefix(bitmaps, all)
  BY <1>4, <1>8, <1>10, ShownIsPrefix
<1>12. ASSUME vobLine = Len(IndexFile), vobItems = <<>> PROVE bitmaps = all
  <2>1. c(d) = N
    BY <1>6, <1>7, <1>12
  <2>2. c(d) - b = 0
    <3> DEFINE k == c(d) - b
               items == [n \in 1 .. k |-> TrackItem(Own[b + n])]
    <3>1. k \in Nat
      BY <1>3, <1>6, <1>10
    <3> HIDE DEF k
    <3>2. items = <<>> => k = 0
      BY <3>1
    <3> QED BY <1>3, <1>12, <3>2 DEF k
  <2>3. b = N
    BY <1>4, <1>10, <2>1, <2>2
  <2> QED BY <1>8, <1>10, <2>3
<1> QED BY <1>9, <1>11, <1>12

(* A VobSub file shows the bitmaps of one track, each whole and in order, and  *)
(* none is missing at the end, whatever the file holds.                        *)
THEOREM VobTrackShown == VobSpec => []TrackShown
<1>1. VobInit => VobInv
  BY VobInvInit
<1>2. VobInv /\ [VobNext]_vobVars => VobInv'
  BY VobInvNext
<1>3. VobInv => TrackShown
  BY VobInvShows
<1> QED BY <1>1, <1>2, <1>3, PTL DEF VobSpec

-----------------------------------------------------------------------------
(* The subpictures of a DVD, sent whole and one at a time                      *)

LEMMA WordsCounted ==
    /\ WordsOf(<<>>) = 0
    /\ \A S : \A q \in Seq(S) : WordsOf(<<q>>) = Len(q)
<1>1. WordsOf(<<>>) = 0
  <2> DEFINE f(w) == [k \in 0 .. 0 |-> IF k = 0 THEN 0 ELSE w[k - 1] + Len(<<>>[k])]
             v == CHOOSE w : w = f(w)
             z == [k \in 0 .. 0 |-> 0]
  <2>1. z = f(z)
    OBVIOUS
  <2>2. v = f(v)
    BY <2>1
  <2>3. Len(<<>>) = 0
    OBVIOUS
  <2>4. WordsOf(<<>>) = v[0]
    BY <2>3 DEF WordsOf
  <2> HIDE DEF v
  <2> QED BY <2>2, <2>4
<1>2. ASSUME NEW S, NEW q \in Seq(S) PROVE WordsOf(<<q>>) = Len(q)
  <2> DEFINE f(w) == [k \in 0 .. 1 |-> IF k = 0 THEN 0 ELSE w[k - 1] + Len(<<q>>[k])]
             v == CHOOSE w : w = f(w)
             z == [k \in 0 .. 1 |-> IF k = 0 THEN 0 ELSE Len(q)]
  <2>0. Len(q) \in Nat /\ <<q>>[1] = q /\ Len(<<q>>) = 1
    OBVIOUS
  <2>1. z = f(z)
    BY <2>0
  <2>2. v = f(v)
    BY <2>1
  <2>4. WordsOf(<<q>>) = v[1]
    BY <2>0 DEF WordsOf
  <2> HIDE DEF v
  <2>5. v[0] = 0 /\ v[1] = v[0] + Len(<<q>>[1])
    BY <2>2
  <2> QED BY <2>0, <2>4, <2>5
<1> QED BY <1>1, <1>2

LEMMA FlattenedOne ==
    ASSUME NEW S, NEW q \in Seq(S)
    PROVE  FlattenSeq(<<>>) = <<>> /\ FlattenSeq(<<q>>) = q
<1>1. FlattenSeq(<<>>) = <<>>
  BY DEF FlattenSeq
<1> DEFINE parts == <<q>>
           flat == FlattenSeq(parts)
<1>2. parts \in Seq(Seq(S)) /\ Len(parts) = 1 /\ parts[1] = q
  OBVIOUS
<1> HIDE DEF parts
<1>3. flat \in Seq(S) /\ \E places : PlacesOf(parts, flat, places)
  BY <1>2, FlattenedParts
<1> HIDE DEF flat
<1>4. PICK places : PlacesOf(parts, flat, places)
  BY <1>3
<1>5. /\ places[0] = 0 /\ Len(flat) = places[1] /\ places[1] = places[0] + Len(q)
      /\ \A j \in 1 .. Len(q) : flat[places[0] + j] = q[j]
  <2>1. 1 \in 1 .. Len(parts) /\ 1 - 1 = 0
    BY <1>2
  <2> QED BY <1>2, <1>4, <2>1 DEF PlacesOf
<1>6. Len(flat) = Len(q) /\ \A j \in 1 .. Len(q) : flat[j] = q[j]
  BY <1>5
<1>7. flat = q
  BY <1>3, <1>6
<1> QED BY <1>1, <1>7 DEF parts, flat

\* A read of n words from the only item of the source
LEMMA ReadFromItem ==
    ASSUME NEW S, NEW q \in Seq(S), current = <<>>, queued = <<q>>, NEW n \in 1 .. Len(q)
    PROVE  /\ Taken(n) = SubSeq(q, 1, n)
           /\ ReadWords(n) => current' = SubSeq(q, n + 1, Len(q)) /\ queued' = <<>>
<1>1. /\ SubSeq(queued, 1, 0) = <<>> /\ SubSeq(queued, 1, 1) = <<q>> /\ SubSeq(queued, 2, 1) = <<>>
      /\ Len(queued) = 1 /\ Len(current) = 0 /\ Len(q) \in Nat
  <2>1. \A x \in Seq(Seq(S)) : Len(x) = 1 =>
           SubSeq(x, 1, 0) = <<>> /\ SubSeq(x, 1, 1) = x /\ SubSeq(x, 2, 1) = <<>>
    OBVIOUS
  <2>2. queued \in Seq(Seq(S)) /\ Len(queued) = 1
    OBVIOUS
  <2>3. Len(current) = 0 /\ Len(q) \in Nat
    OBVIOUS
  <2> QED BY <2>1, <2>2, <2>3
<1>2. WordsOf(SubSeq(queued, 1, 0)) = 0 /\ WordsOf(SubSeq(queued, 1, 1)) = Len(q)
  BY <1>1, WordsCounted
<1> DEFINE Enough(k) == /\ Len(current) + WordsOf(SubSeq(queued, 1, k)) >= n
                      /\ \A j \in 0 .. k - 1 : Len(current) + WordsOf(SubSeq(queued, 1, j)) < n
<1>3. Enough(1) /\ \A k \in 0 .. 1 : Enough(k) => k = 1
  <2>1. \A j \in 0 .. 1 - 1 : j = 0
    OBVIOUS
  <2>2. ~Enough(0)
    BY <1>1, <1>2
  <2>3. Enough(1)
    BY <1>1, <1>2, <2>1
  <2>4. \A k \in 0 .. 1 : k = 0 \/ k = 1
    OBVIOUS
  <2> HIDE DEF Enough
  <2> QED BY <2>2, <2>3, <2>4
<1>4. Popped(n) = 1
  <2>1. Popped(n) = CHOOSE k \in 0 .. 1 : Enough(k)
    BY <1>1 DEF Popped
  <2> HIDE DEF Enough
  <2> QED BY <1>3, <2>1
<1>5. current \o FlattenSeq(SubSeq(queued, 1, Popped(n))) = q
  <2>1. FlattenSeq(<<q>>) = q
    BY FlattenedOne
  <2>2. <<>> \o q = q
    OBVIOUS
  <2> QED BY <1>1, <1>4, <2>1, <2>2
<1>6. Taken(n) = SubSeq(q, 1, n)
  BY <1>5 DEF Taken
<1>7. ReadWords(n) => current' = SubSeq(q, n + 1, Len(q)) /\ queued' = <<>>
  <2>1. SubSeq(queued, Popped(n) + 1, Len(queued)) = <<>>
    <3>1. Popped(n) + 1 = 2
      BY <1>4
    <3> QED BY <1>1, <3>1
  <2> QED BY <1>5, <2>1, Zenon DEF ReadWords
<1> QED BY <1>6, <1>7

\* A read of all that is left of an item
LEMMA ReadToEnd ==
    ASSUME NEW S, current \in Seq(S), queued = <<>>
    PROVE  /\ Taken(Len(current)) = current
           /\ ReadWords(Len(current)) => current' = <<>> /\ queued' = <<>>
<1> DEFINE n == Len(current)
<1>1. SubSeq(queued, 1, 0) = <<>> /\ Len(queued) = 0 /\ n \in Nat /\ SubSeq(queued, 1, 0) = queued
  OBVIOUS
<1>2. WordsOf(SubSeq(queued, 1, 0)) = 0
  BY <1>1, WordsCounted
<1> DEFINE Enough(k) == /\ Len(current) + WordsOf(SubSeq(queued, 1, k)) >= n
                      /\ \A j \in 0 .. k - 1 : Len(current) + WordsOf(SubSeq(queued, 1, j)) < n
<1>3. Enough(0)
  BY <1>1, <1>2
<1>4. Popped(n) = 0
  <2>1. Popped(n) = CHOOSE k \in 0 .. 0 : Enough(k)
    BY <1>1 DEF Popped
  <2> HIDE DEF Enough
  <2> QED BY <1>3, <2>1
<1>5. current \o FlattenSeq(SubSeq(queued, 1, Popped(n))) = current
  <2>1. FlattenSeq(<<>>) = <<>>
    BY FlattenedOne
  <2>2. current \o <<>> = current
    OBVIOUS
  <2> QED BY <1>1, <1>4, <2>1, <2>2
<1>6. SubSeq(current, 1, n) = current /\ SubSeq(current, n + 1, n) = <<>> /\ SubSeq(<<>>, 1, 0) = <<>>
  OBVIOUS
<1>7. Taken(n) = current
  BY <1>5, <1>6 DEF Taken
<1>8. ReadWords(n) => current' = <<>> /\ queued' = <<>>
  BY <1>1, <1>4, <1>5, <1>6 DEF ReadWords
<1> QED BY <1>7, <1>8

\* What is stored behind the end of the buffer is added to it
LEMMA StoredBehind ==
    ASSUME NEW S, NEW q \in Seq(S), NEW r \in Seq(S)
    PROVE  Stored(q, Len(q), r) = q \o r
<1> DEFINE n == Len(q)  m == Len(r)
<1>1. n \in Nat /\ m \in Nat
  OBVIOUS
<1>2. Stored(q, n, r) = [i \in 1 .. n + m |-> IF i > n /\ i <= n + m THEN r[i - n]
                                              ELSE IF i <= n THEN q[i] ELSE Unset]
  <2>1. (IF n + m > n THEN n + m ELSE n) = n + m
    BY <1>1
  <2> HIDE DEF n, m
  <2>2. Stored(q, n, r) = [i \in 1 .. (IF n + Len(r) > Len(q) THEN n + Len(r) ELSE Len(q)) |->
                             IF i > n /\ i <= n + Len(r) THEN r[i - n]
                             ELSE IF i <= Len(q) THEN q[i] ELSE Unset]
    BY DEF Stored
  <2> QED BY <2>1, <2>2 DEF n, m
<1>3. q \o r = [i \in 1 .. n + m |-> IF i <= n THEN q[i] ELSE r[i - n]]
  <2> DEFINE w == q \o r
  <2>1. w \in Seq(S) /\ Len(w) = n + m
    OBVIOUS
  <2>2. /\ \A i \in 1 .. n : w[i] = q[i]
        /\ \A j \in 1 .. m : w[n + j] = r[j]
    BY OneAfterOther
  <2> HIDE DEF w, n, m
  <2>3. ASSUME NEW i \in 1 .. n + m PROVE w[i] = IF i <= n THEN q[i] ELSE r[i - n]
    <3>1. CASE i <= n
      BY <1>1, <2>2, <3>1
    <3>2. CASE ~(i <= n)
      <4>1. i - n \in 1 .. m /\ n + (i - n) = i
        BY <1>1, <3>2
      <4> QED BY <2>2, <3>2, <4>1
    <3> QED BY <3>1, <3>2
  <2>4. w = [i \in 1 .. n + m |-> w[i]]
    BY <2>1
  <2>5. w = [i \in 1 .. n + m |-> IF i <= n THEN q[i] ELSE r[i - n]]
    BY <2>3, <2>4
  <2> QED BY <2>5 DEF w
<1>4. \A i \in 1 .. n + m : (IF i > n /\ i <= n + m THEN r[i - n] ELSE IF i <= n THEN q[i] ELSE Unset)
                              = IF i <= n THEN q[i] ELSE r[i - n]
  BY <1>1
<1> HIDE DEF n, m
<1>5. Stored(q, n, r) = q \o r
  BY <1>2, <1>3, <1>4
<1> QED BY <1>5 DEF n

\* The one fragment of a subpicture makes it whole
LEMMA OneFragment ==
    ASSUME NEW b, NEW place \in Nat, NEW len \in Nat \ {0}
    PROVE  JoinFragments(b, place, len, len) =
             [rd |-> len, left |-> 0, data |-> Slice(b, place, len), ready |-> TRUE, done |-> TRUE]
<1> DEFINE start == [rd |-> 0, left |-> len, data |-> <<>>, ready |-> FALSE, done |-> FALSE]
           D == Slice(b, place, len)
           fin == [rd |-> len, left |-> 0, data |-> D, ready |-> TRUE, done |-> TRUE]
           f(w) == [i \in 0 .. len + 1 |-> IF i = 0 THEN start ELSE JoinFragment(b, place, len, w[i - 1])]
           v == CHOOSE w : w = f(w)
           z == [i \in 0 .. len + 1 |-> IF i = 0 THEN start ELSE fin]
<1>1. D = [i \in 1 .. len |-> WordAt(b, place + i - 1)] /\ Len(D) = len /\ <<>> \o D = D
  BY DEF Slice
<1> HIDE DEF D
<1>2. JoinFragment(b, place, len, start) = fin
  <2> DEFINE got == <<>> \o Slice(b, place + 0, len)
  <2>1. got = D /\ Len(got) = len
    BY <1>1 DEF D
  <2>2. start.left = len /\ len # 0 /\ start.done = FALSE /\ start.data = <<>> /\ start.rd = 0
    OBVIOUS
  <2>3. JoinFragment(b, place, len, start) =
          [rd |-> 0 + len, left |-> 0, data |-> got, ready |-> Len(got) = len, done |-> Len(got) = len]
    <3>1. ~(Len(start.data) >= len) /\ ~(Len(got) > len)
      BY <2>1, <2>2
    <3> QED BY <2>2, <3>1 DEF JoinFragment
  <2>4. (Len(got) = len) = TRUE /\ 0 + len = len
    BY <2>1
  <2> HIDE DEF got
  <2> QED BY <2>1, <2>3, <2>4, Zenon
<1>3. JoinFragment(b, place, len, fin) = fin
  BY DEF JoinFragment
<1> HIDE DEF start, fin
<1>4. z = f(z)
  <2>1. \A i \in 0 .. len + 1 : z[i] = IF i = 0 THEN start ELSE JoinFragment(b, place, len, z[i - 1])
    <3> SUFFICES ASSUME NEW i \in 0 .. len + 1
                 PROVE  z[i] = IF i = 0 THEN start ELSE JoinFragment(b, place, len, z[i - 1])
      OBVIOUS
    <3>1. CASE i = 0
      BY <3>1
    <3>2. CASE i # 0
      <4>1. i - 1 \in 0 .. len + 1
        BY <3>2
      <4>2. z[i] = fin /\ z[i - 1] \in {start, fin}
        BY <3>2, <4>1
      <4> QED BY <1>2, <1>3, <3>2, <4>2
    <3> QED BY <3>1, <3>2
  <2>2. z = [i \in 0 .. len + 1 |-> z[i]]
    OBVIOUS
  <2> HIDE DEF z
  <2> QED BY <2>1, <2>2
<1>5. v = f(v)
  BY <1>4
<1>6. JoinFragments(b, place, len, len) = v[len + 1]
  BY DEF JoinFragments, start
<1> HIDE DEF v
<1>7. \A i \in 0 .. len + 1 : v[i] = IF i = 0 THEN start ELSE JoinFragment(b, place, len, v[i - 1])
  BY <1>5
<1> DEFINE T == {i \in 0 .. len + 1 : v[i] = IF i = 0 THEN start ELSE fin}
<1>8. len + 1 \in T
  <2>1. 0 \in T
    BY <1>7
  <2>2. \A i \in 1 .. len + 1 : i - 1 \in T => i \in T
    BY <1>2, <1>3, <1>7
  <2> HIDE DEF T
  <2>3. len + 1 \in Nat
    OBVIOUS
  <2>4. \A i \in 0 .. len + 1 : i \in T
    BY <2>1, <2>2, <2>3, UpTo
  <2> QED BY <2>3, <2>4
<1> QED BY <1>6, <1>8 DEF fin, D

\* The delay of a subpicture is that of the sequence that ends it
LEMMA EndCounts ==
    ASSUME NEW delays \in DvdDelays
    PROVE  \E e \in DOMAIN delays :
              EndedBy(delays, e) /\ DoDCSQC(delays) = delays[e].delay /\ delays[e].delay \in Nat
<1> DEFINE R == [delay : Nat, stop : BOOLEAN, left : Nat]
           N == Len(delays)
           stops == {i \in 1 .. N : delays[i].stop}
           upTo == {i \in DOMAIN delays : Reads(delays, i) /\ \A j \in 1 .. i - 1 : ~delays[j].stop}
           times == {delays[i].delay : i \in upTo}
<1>1. /\ delays \in Seq(R)
      /\ \A i, j \in DOMAIN delays : i < j => /\ delays[i].delay <= delays[j].delay
                                             /\ delays[i].left >= delays[j].left + 5
      /\ \E i \in DOMAIN delays : delays[i].stop
      /\ \A i \in DOMAIN delays : delays[i].stop => delays[i].delay > 0 /\ delays[i].left >= 6
  BY DvdAssumption
<1>2. N \in Nat /\ DOMAIN delays = 1 .. N
      /\ \A i \in 1 .. N : delays[i].delay \in Nat /\ delays[i].left \in Nat
  <2>1. N \in Nat /\ DOMAIN delays = 1 .. N /\ \A i \in 1 .. N : delays[i] \in R
    <3> HIDE DEF R
    <3> QED BY <1>1
  <2> QED BY <2>1
<1> HIDE DEF N
<1>3. stops # {} /\ stops \subseteq Nat
  BY <1>1, <1>2
<1>4. PICK n \in stops : \A j \in stops : n <= j
  <2> HIDE DEF stops
  <2> QED BY <1>3, LeastOfNats
<1>5. n \in 1 .. N /\ delays[n].stop /\ \A m \in 1 .. n - 1 : ~delays[m].stop
  BY <1>2, <1>4
<1> DEFINE e == IF n > 1 /\ delays[n].left = 6 THEN n - 1 ELSE n
<1>6. e \in 1 .. N /\ e <= n /\ EndedBy(delays, e)
  BY <1>2, <1>5 DEF EndedBy
<1>7. \A i \in 1 .. N : i \in upTo => i <= e
  <2> SUFFICES ASSUME NEW i \in 1 .. N, i \in upTo PROVE i <= e
    OBVIOUS
  <2>1. i <= n
    BY <1>2, <1>5
  <2>2. Reads(delays, i)
    OBVIOUS
  <2>3. ~(i = n /\ n > 1 /\ delays[n].left = 6)
    BY <2>2 DEF Reads
  <2> QED BY <1>5, <2>1, <2>3
<1>8. e \in upTo
  <2>1. \A j \in 1 .. e - 1 : ~delays[j].stop
    BY <1>5, <1>6
  <2>2. delays[n].left \in Nat /\ delays[n].left >= 6 /\ (delays[n].left # 6 => delays[n].left >= 7)
    <3>1. delays[n].left \in Nat /\ delays[n].left >= 6
      BY <1>1, <1>2, <1>5
    <3> DEFINE l == delays[n].left
    <3>2. l \in Nat /\ l >= 6 => (l # 6 => l >= 7)
      <4> HIDE DEF l
      <4> QED OBVIOUS
    <3> QED BY <3>1, <3>2
  <2>3. e = n \/ (e < n /\ delays[e].left >= delays[n].left + 5)
    <3>1. e = n \/ e < n
      BY <1>2, <1>5
    <3>2. e < n => delays[e].left >= delays[n].left + 5
      <4> HIDE DEF e
      <4> QED BY <1>1, <1>2, <1>5, <1>6
    <3> QED BY <3>1, <3>2
  <2>4. e = n => n = 1 \/ delays[n].left # 6
    BY <1>5
  <2>5. Reads(delays, e)
    <3>1. CASE e = n
      BY <1>2, <1>5, <2>2, <2>4, <3>1 DEF Reads
    <3>2. CASE e < n /\ delays[e].left >= delays[n].left + 5
      BY <1>2, <1>5, <1>6, <2>2, <3>2 DEF Reads
    <3> QED BY <2>3, <3>1, <3>2
  <2> QED BY <1>2, <1>6, <2>1, <2>5
<1> HIDE DEF e
<1>9. delays[e].delay \in times /\ \A x \in times : delays[e].delay >= x
  <2>1. \A i \in upTo : i \in 1 .. N /\ i <= e
    BY <1>2, <1>7
  <2>2. \A i \in upTo : delays[i].delay <= delays[e].delay
    <3> SUFFICES ASSUME NEW i \in upTo PROVE delays[i].delay <= delays[e].delay
      OBVIOUS
    <3>1. i \in 1 .. N /\ i <= e
      BY <2>1
    <3>2. i < e \/ i = e
      BY <1>2, <1>6, <3>1
    <3>3. i = e => delays[i].delay <= delays[e].delay
      BY <1>2, <1>6
    <3>4. i < e => delays[i].delay <= delays[e].delay
      BY <1>1, <1>2, <1>6, <3>1
    <3> QED BY <3>2, <3>3, <3>4
  <2>3. \A i \in upTo : delays[i].delay \in Nat
    BY <1>2, <2>1
  <2> HIDE DEF upTo
  <2> QED BY <1>2, <1>6, <1>8, <2>2, <2>3
<1>10. \A x \in times : x \in Nat
  <2>1. \A i \in upTo : i \in 1 .. N
    BY <1>2
  <2> HIDE DEF upTo
  <2> QED BY <1>2, <2>1
<1>11. DoDCSQC(delays) = IF times = {} THEN 0 ELSE CHOOSE x \in times : \A y \in times : x >= y
  BY DEF DoDCSQC
<1> HIDE DEF times
<1>12. DoDCSQC(delays) = delays[e].delay
  BY <1>9, <1>10, <1>11
<1> QED BY <1>2, <1>6, <1>12

\* The words of a packet
DvdWords == [k : {"sync", "type", "len", "ptsHi", "ptsLo", "dur", "data"}, s : Nat, i : Nat]

PacketHolds(q, s, len) ==
    /\ q \in Seq(DvdWords) /\ Len(q) = len + 6
    /\ q[1].k = "sync" /\ q[3].k = "len" /\ q[3].i = len /\ q[4].s = s
    /\ \A i \in 1 .. len : q[6 + i] = Word("data", s, i)

LEMMA PacketIs ==
    ASSUME NEW s \in Nat, NEW len \in Nat
    PROVE  PacketHolds(PacketOf(s, 1, len), s, len)
<1> DEFINE n == len - 1 + 1
           h == <<Word("sync", 0, 0), Word("type", 0, 0), Word("len", 0, n),
                  Word("ptsHi", s, 0), Word("ptsLo", s, 0), Word("dur", 0, 0)>>
           r == [i \in 1 .. n |-> Word("data", s, 1 + i - 1)]
           q == PacketOf(s, 1, len)
<1>1. n = len
  OBVIOUS
<1> HIDE DEF n
<1>2. \A k, x, i : Word(k, x, i).k = k /\ Word(k, x, i).s = x /\ Word(k, x, i).i = i
  BY DEF Word
<1>3. /\ Word("sync", 0, 0) \in DvdWords /\ Word("type", 0, 0) \in DvdWords
      /\ Word("len", 0, n) \in DvdWords /\ Word("ptsHi", s, 0) \in DvdWords
      /\ Word("ptsLo", s, 0) \in DvdWords /\ Word("dur", 0, 0) \in DvdWords
      /\ \A i \in 1 .. n : Word("data", s, 1 + i - 1) \in DvdWords /\ 1 + i - 1 = i
  BY <1>1 DEF Word, DvdWords
<1>4. h \in Seq(DvdWords) /\ Len(h) = 6 /\ h[1] = Word("sync", 0, 0) /\ h[3] = Word("len", 0, n)
      /\ h[4] = Word("ptsHi", s, 0)
  <2> HIDE DEF DvdWords
  <2> QED BY <1>3
<1>5. r \in Seq(DvdWords) /\ Len(r) = len /\ \A i \in 1 .. len : r[i] = Word("data", s, i)
  <2> HIDE DEF DvdWords
  <2> QED BY <1>1, <1>3
<1>6. q = h \o r
  BY DEF PacketOf, n
<1> HIDE DEF h, r, q, DvdWords
<1>7. h \in Seq(DvdWords) /\ r \in Seq(DvdWords)
  BY <1>4, <1>5
<1>8. /\ q \in Seq(DvdWords) /\ Len(q) = Len(h) + Len(r)
      /\ \A m \in 1 .. Len(h) : q[m] = h[m]
      /\ \A j \in 1 .. Len(r) : q[Len(h) + j] = r[j]
  <2>1. h \o r \in Seq(DvdWords)
    BY <1>7
  <2> QED BY <1>6, <1>7, <2>1, OneAfterOther
<1>9. q[1] = h[1] /\ q[3] = h[3] /\ q[4] = h[4]
  BY <1>4, <1>8
<1>10. \A i \in 1 .. len : q[6 + i] = Word("data", s, i)
  BY <1>4, <1>5, <1>8
<1>11. Len(q) = len + 6
  BY <1>4, <1>5, <1>8
<1>12. q[1].k = "sync" /\ q[3].k = "len" /\ q[3].i = len /\ q[4].s = s
  BY <1>1, <1>2, <1>4, <1>9
<1> QED BY <1>8, <1>10, <1>11, <1>12 DEF q, PacketHolds

\* The packet of the last subpicture sent
LastLen == sub[Len(sub)].len
LastPacket == PacketOf(Len(sub), 1, LastLen)
Subpictures == [len : DvdLengths, delays : DvdDelays]

\* Where a subpicture is on its way: taken, sent, announced, its header read, shown
DvdIdle == at = Waiting /\ queued = <<>>
DvdSent == at = Waiting /\ queued = <<LastPacket>> /\ sub # <<>>
DvdHead ==
    /\ at = [pc |-> "header", sizeflag |-> LastLen + 6, tmp |-> 0, vob |-> FALSE]
    /\ queued = <<LastPacket>> /\ buf = <<>> /\ sub # <<>>
DvdBody ==
    /\ at = [pc |-> "body", sizeflag |-> LastLen + 1, tmp |-> 5, vob |-> FALSE]
    /\ queued = <<>> /\ sub # <<>>
    /\ buf = SubSeq(LastPacket, 1, 5) /\ current = SubSeq(LastPacket, 6, LastLen + 6)
DvdOver == at.pc = "header" /\ at.sizeflag = 0 /\ queued = <<>>

\* What is shown of subpictures that are sent whole
DvdWhole ==
    \A item \in dvdShown : \E s \in DOMAIN sub :
        /\ item.data = [i \in 1 .. sub[s].len |-> Word("data", s, i)]
        /\ item.pts = s
        /\ \E e \in DOMAIN sub[s].delays :
              /\ EndedBy(sub[s].delays, e)
              /\ LET end == sub[s].delays[e].delay
                 IN  item.delay = IF end = 0 THEN 0 ELSE end * 1024 + s

\* When subpictures are sent whole and one at a time, nothing is left over
DvdPacedInv ==
    /\ paced /\ rest = <<>> /\ restLen = 0 /\ sub \in Seq(Subpictures)
    /\ \/ (DvdIdle \/ DvdSent \/ DvdHead \/ DvdOver) /\ current = <<>>
       \/ DvdBody
    /\ DvdWhole

LEMMA LastIs ==
    ASSUME DvdPacedInv, sub # <<>>
    PROVE  /\ Len(sub) \in DOMAIN sub /\ Len(sub) \in Nat \ {0} /\ LastLen \in Nat \ {0}
           /\ sub[Len(sub)].delays \in DvdDelays
           /\ PacketHolds(LastPacket, Len(sub), LastLen)
<1> DEFINE N == Len(sub)
<1>1. sub \in Seq(Subpictures)
  BY DEF DvdPacedInv
<1>2. N \in DOMAIN sub /\ N \in Nat \ {0} /\ sub[N] \in Subpictures
  <2> HIDE DEF Subpictures
  <2> QED BY <1>1
<1>3. LastLen \in Nat \ {0} /\ sub[N].delays \in DvdDelays
  BY <1>2, DvdAssumption DEF Subpictures, LastLen
<1>4. LastLen \in Nat /\ N \in Nat
  BY <1>2, <1>3
<1>5. PacketHolds(LastPacket, N, LastLen)
  BY <1>4, PacketIs DEF LastPacket
<1> QED BY <1>2, <1>3, <1>5

\* What is shown is a subpicture as it was sent
WholeItem(item, s, r) ==
    /\ item.data = [i \in 1 .. r.len |-> Word("data", s, i)]
    /\ item.pts = s
    /\ \E e \in DOMAIN r.delays :
          /\ EndedBy(r.delays, e)
          /\ LET end == r.delays[e].delay
             IN  item.delay = IF end = 0 THEN 0 ELSE end * 1024 + s

LEMMA WholeIs == DvdWhole <=> \A item \in dvdShown : \E s \in DOMAIN sub : WholeItem(item, s, sub[s])
BY DEF DvdWhole, WholeItem

LEMMA SentOne ==
    ASSUME DvdPacedInv, NEW len \in DvdLengths, NEW delays \in DvdDelays, NEW cut \in 1 .. len,
           SendSubpicture(len, delays, cut)
    PROVE  DvdPacedInv'
<1> DEFINE s == Len(sub) + 1
           r == [len |-> len, delays |-> delays]
<1>1. /\ paced /\ rest = <<>> /\ restLen = 0 /\ sub \in Seq(Subpictures) /\ DvdWhole
  BY DEF DvdPacedInv
<1>2. /\ cut = len /\ queued = <<>> /\ current = <<>> /\ at = Waiting
      /\ sub' = Append(sub, r)
      /\ queued' = queued \o IF cut = len THEN <<PacketOf(s, 1, len)>>
                             ELSE <<PacketOf(s, 1, cut), PacketOf(s, cut + 1, len)>>
      /\ paced' = paced /\ current' = current /\ at' = at /\ rest' = rest /\ restLen' = restLen
      /\ dvdShown' = dvdShown
  BY <1>1 DEF SendSubpicture
<1>3. r \in Subpictures
  BY DEF Subpictures
<1>4. /\ sub' \in Seq(Subpictures) /\ Len(sub') = s /\ sub'[s] = r /\ sub' # <<>>
      /\ \A t \in DOMAIN sub : t \in DOMAIN sub' /\ sub'[t] = sub[t]
  <2> HIDE DEF Subpictures, r
  <2> QED BY <1>1, <1>2, <1>3
<1>5. queued' = <<PacketOf(s, 1, len)>>
  <2>1. \A q : <<>> \o <<q>> = <<q>>
    OBVIOUS
  <2> QED BY <1>2, <2>1
<1>6. DvdSent'
  BY <1>2, <1>4, <1>5 DEF DvdSent, LastPacket, LastLen, Waiting
<1>7. DvdWhole'
  <2>1. \A item \in dvdShown : \E t \in DOMAIN sub : WholeItem(item, t, sub[t])
    BY <1>1, WholeIs
  <2>2. \A item \in dvdShown' : \E t \in DOMAIN sub' : WholeItem(item, t, sub'[t])
    BY <1>2, <1>4, <2>1
  <2> QED BY <2>2 DEF DvdWhole, WholeItem, Word, EndedBy
<1> QED BY <1>1, <1>2, <1>4, <1>6, <1>7 DEF DvdPacedInv, Subpictures

LEMMA RoundBegun == ASSUME DvdPacedInv, DvdGetSpu PROVE DvdPacedInv'
<1>1. /\ paced /\ rest = <<>> /\ restLen = 0 /\ sub \in Seq(Subpictures) /\ DvdWhole
      /\ ((DvdIdle \/ DvdSent \/ DvdHead \/ DvdOver) /\ current = <<>>) \/ DvdBody
  BY DEF DvdPacedInv
<1>2. /\ at.pc = "wait" /\ queued # <<>>
      /\ at' = [pc |-> "header", sizeflag |-> WordsOf(queued) + restLen, tmp |-> 0, vob |-> FALSE]
      /\ buf' = <<>> /\ paced' = paced /\ sub' = sub /\ queued' = queued /\ current' = current
      /\ rest' = rest /\ restLen' = restLen /\ dvdShown' = dvdShown
  BY DEF DvdGetSpu
<1>3. DvdSent /\ current = <<>>
  BY <1>1, <1>2 DEF DvdIdle, DvdHead, DvdBody, DvdOver
<1>4. queued = <<LastPacket>> /\ sub # <<>>
  BY <1>3 DEF DvdSent
<1>5. LastPacket \in Seq(DvdWords) /\ Len(LastPacket) = LastLen + 6 /\ LastLen \in Nat
  BY <1>4, LastIs DEF PacketHolds
<1>6. WordsOf(queued) + restLen = LastLen + 6
  BY <1>1, <1>4, <1>5, WordsCounted
<1>7. LastLen' = LastLen /\ LastPacket' = LastPacket
  BY <1>2 DEF LastLen, LastPacket, PacketOf, Word
<1>8. DvdHead'
  BY <1>2, <1>4, <1>6, <1>7 DEF DvdHead
<1>9. DvdWhole'
  BY <1>1, <1>2 DEF DvdWhole, Word
<1> QED BY <1>1, <1>2, <1>3, <1>8, <1>9 DEF DvdPacedInv, Subpictures

LEMMA HeaderRead == ASSUME DvdPacedInv, ReadHeader PROVE DvdPacedInv'
<1>1. /\ paced /\ rest = <<>> /\ restLen = 0 /\ sub \in Seq(Subpictures) /\ DvdWhole
      /\ ((DvdIdle \/ DvdSent \/ DvdHead \/ DvdOver) /\ current = <<>>) \/ DvdBody
  BY DEF DvdPacedInv
<1>2. /\ at.pc = "header" /\ at.sizeflag > 7
      /\ paced' = paced /\ sub' = sub /\ rest' = rest /\ restLen' = restLen /\ dvdShown' = dvdShown
  BY DEF ReadHeader
<1>3. DvdHead /\ current = <<>>
  BY <1>1, <1>2 DEF DvdIdle, DvdSent, DvdBody, DvdOver, Waiting
<1> DEFINE L == LastLen  P == LastPacket
<1>4. /\ at = [pc |-> "header", sizeflag |-> L + 6, tmp |-> 0, vob |-> FALSE]
      /\ queued = <<P>> /\ buf = <<>> /\ sub # <<>>
  BY <1>3 DEF DvdHead
<1>5. P \in Seq(DvdWords) /\ Len(P) = L + 6 /\ L \in Nat
  BY <1>4, LastIs DEF PacketHolds
<1>6. /\ ReadWords(5)
      /\ buf' = Stored(Stored(buf, 0, rest), 0 + restLen, Taken(5))
      /\ at' = [pc |-> "body", sizeflag |-> at.sizeflag - 5, tmp |-> at.tmp + 5, vob |-> at.vob]
  BY <1>1, <1>4 DEF ReadHeader, HeaderWords
<1> HIDE DEF L, P
<1>7. 5 \in 1 .. Len(P)
  BY <1>5
<1>8. Taken(5) = SubSeq(P, 1, 5) /\ current' = SubSeq(P, 6, L + 6) /\ queued' = <<>>
  <2>1. /\ Taken(5) = SubSeq(P, 1, 5)
        /\ ReadWords(5) => current' = SubSeq(P, 5 + 1, Len(P)) /\ queued' = <<>>
    BY <1>3, <1>4, <1>5, <1>7, ReadFromItem
  <2> QED BY <1>5, <1>6, <2>1
<1>9. buf' = SubSeq(P, 1, 5)
  <2>1. <<>> \in Seq(DvdWords) /\ SubSeq(P, 1, 5) \in Seq(DvdWords) /\ Len(<<>>) = 0
    <3> HIDE DEF DvdWords
    <3> QED BY <1>5, <1>7
  <2>2. \A q \in Seq(DvdWords) : Stored(<<>>, 0, q) = <<>> \o q
    BY <2>1, StoredBehind
  <2>3. \A q \in Seq(DvdWords) : <<>> \o q = q
    <3> HIDE DEF DvdWords
    <3> QED OBVIOUS
  <2>4. \A q \in Seq(DvdWords) : Stored(<<>>, 0, q) = q
    BY <2>2, <2>3
  <2>5. Stored(buf, 0, rest) = <<>>
    BY <1>1, <1>4, <2>1, <2>4
  <2>6. 0 + restLen = 0
    BY <1>1
  <2> QED BY <1>6, <1>8, <2>1, <2>4, <2>5, <2>6
<1>10. at' = [pc |-> "body", sizeflag |-> L + 1, tmp |-> 5, vob |-> FALSE]
  <2>1. at.sizeflag - 5 = L + 1 /\ at.tmp + 5 = 5 /\ at.vob = FALSE
    BY <1>4, <1>5
  <2> QED BY <1>6, <2>1
<1>11. LastLen' = L /\ LastPacket' = P
  BY <1>2 DEF LastLen, LastPacket, PacketOf, Word, L, P
<1>12. DvdBody'
  BY <1>2, <1>4, <1>8, <1>9, <1>10, <1>11 DEF DvdBody
<1>13. DvdWhole'
  BY <1>1, <1>2 DEF DvdWhole, Word
<1> QED BY <1>1, <1>2, <1>12, <1>13 DEF DvdPacedInv, Subpictures

\* A sequence cut behind its fifth element is its two parts
LEMMA CutAtFive ==
    ASSUME NEW S, NEW q \in Seq(S), NEW n \in Nat, Len(q) = n + 6
    PROVE  SubSeq(q, 1, 5) \o SubSeq(q, 6, n + 6) = q
<1> DEFINE x == SubSeq(q, 1, 5)  y == SubSeq(q, 6, n + 6)
<1>1. /\ x \in Seq(S) /\ Len(x) = 5 /\ \A i \in 1 .. 5 : x[i] = q[i]
      /\ y \in Seq(S) /\ Len(y) = n + 1 /\ \A i \in 1 .. n + 1 : y[i] = q[5 + i]
  OBVIOUS
<1> HIDE DEF x, y
<1>2. x \in Seq(S) /\ y \in Seq(S)
  BY <1>1
<1>3. x \o y \in Seq(S) /\ Len(x \o y) = Len(x) + Len(y)
  BY <1>2
<1>4. /\ \A m \in 1 .. Len(x) : (x \o y)[m] = x[m]
      /\ \A j \in 1 .. Len(y) : (x \o y)[Len(x) + j] = y[j]
  BY <1>2
<1>5. Len(x \o y) = n + 6
  BY <1>1, <1>3
<1>6. \A i \in 1 .. n + 6 : (x \o y)[i] = q[i]
  <2> TAKE i \in 1 .. n + 6
  <2>1. CASE i <= 5
    <3>1. i \in 1 .. 5
      BY <2>1
    <3> QED BY <1>1, <1>4, <3>1
  <2>2. CASE ~(i <= 5)
    <3>1. i - 5 \in 1 .. n + 1 /\ 5 + (i - 5) = i
      BY <2>2
    <3>2. (x \o y)[5 + (i - 5)] = y[i - 5] /\ y[i - 5] = q[5 + (i - 5)]
      BY <1>1, <1>4, <3>1
    <3> QED BY <3>1, <3>2
  <2> QED BY <2>1, <2>2
<1>7. x \o y = q
  <2> DEFINE z == x \o y
  <2>1. z \in Seq(S) /\ Len(z) = n + 6 /\ \A i \in 1 .. n + 6 : z[i] = q[i]
    BY <1>3, <1>5, <1>6
  <2> HIDE DEF z
  <2>2. z = [i \in 1 .. n + 6 |-> z[i]] /\ q = [i \in 1 .. n + 6 |-> q[i]]
    BY <2>1
  <2>3. z = q
    BY <2>1, <2>2
  <2> QED BY <2>3 DEF z
<1> QED BY <1>7 DEF x, y

\* With the body, the packet is there; its words are the subpicture
LEMMA BodyIs ==
    ASSUME DvdPacedInv, DvdBody
    PROVE  /\ at.sizeflag = Len(current) /\ current \in Seq(DvdWords) /\ DvdPiece = 0
           /\ WordAt(buf, 0).k = "sync" /\ WordAt(buf, 2).i = LastLen /\ WordAt(buf, 3).s = Len(sub)
           /\ Stored(buf, 5, current) = LastPacket
           /\ WordAt(LastPacket, 6) = Word("data", Len(sub), 1)
           /\ Slice(LastPacket, 6, LastLen) = [i \in 1 .. LastLen |-> Word("data", Len(sub), i)]
<1> DEFINE L == LastLen  P == LastPacket  N == Len(sub)
<1>1. /\ at = [pc |-> "body", sizeflag |-> L + 1, tmp |-> 5, vob |-> FALSE]
      /\ buf = SubSeq(P, 1, 5) /\ current = SubSeq(P, 6, L + 6) /\ sub # <<>>
  BY DEF DvdBody
<1>2. L \in Nat \ {0} /\ PacketHolds(P, N, L)
  BY <1>1, LastIs
<1> HIDE DEF L, P, N
<1>3. /\ P \in Seq(DvdWords) /\ Len(P) = L + 6
      /\ P[1].k = "sync" /\ P[3].i = L /\ P[4].s = N
      /\ \A i \in 1 .. L : P[6 + i] = Word("data", N, i)
  BY <1>2 DEF PacketHolds
<1>4. /\ buf \in Seq(DvdWords) /\ Len(buf) = 5 /\ \A i \in 1 .. 5 : buf[i] = P[i]
      /\ current \in Seq(DvdWords) /\ Len(current) = L + 1
  <2> HIDE DEF DvdWords
  <2>1. \A q \in Seq(DvdWords) : \A n \in Nat : Len(q) = n + 6 =>
           /\ SubSeq(q, 1, 5) \in Seq(DvdWords) /\ Len(SubSeq(q, 1, 5)) = 5
           /\ \A i \in 1 .. 5 : SubSeq(q, 1, 5)[i] = q[i]
           /\ SubSeq(q, 6, n + 6) \in Seq(DvdWords) /\ Len(SubSeq(q, 6, n + 6)) = n + 1
    OBVIOUS
  <2>2. L \in Nat
    BY <1>2
  <2> QED BY <1>1, <1>3, <2>1, <2>2
<1>5. WordAt(buf, 0) = P[1] /\ WordAt(buf, 2) = P[3] /\ WordAt(buf, 3) = P[4]
  <2>1. 0 + 1 = 1 /\ 2 + 1 = 3 /\ 3 + 1 = 4 /\ 1 <= Len(buf) /\ 3 <= Len(buf) /\ 4 <= Len(buf)
        /\ 1 \in 1 .. 5 /\ 3 \in 1 .. 5 /\ 4 \in 1 .. 5
    BY <1>4
  <2> QED BY <1>4, <2>1 DEF WordAt
<1>6. Stored(buf, 5, current) = P
  <2>1. Stored(buf, 5, current) = buf \o current
    BY <1>4, StoredBehind
  <2>2. \A q \in Seq(DvdWords) : \A n \in Nat : Len(q) = n + 6 => SubSeq(q, 1, 5) \o SubSeq(q, 6, n + 6) = q
    BY CutAtFive
  <2>3. L \in Nat
    BY <1>2
  <2> QED BY <1>1, <1>3, <2>1, <2>2, <2>3
<1>7. \A i \in 1 .. L : WordAt(P, 6 + i - 1) = Word("data", N, i)
  <2> SUFFICES ASSUME NEW i \in 1 .. L PROVE WordAt(P, 6 + i - 1) = Word("data", N, i)
    OBVIOUS
  <2>1. (6 + i - 1) + 1 = 6 + i /\ 6 + i <= Len(P)
    BY <1>2, <1>3
  <2>2. WordAt(P, 6 + i - 1) = P[6 + i]
    BY <2>1 DEF WordAt
  <2> QED BY <1>3, <2>2
<1>8. Slice(P, 6, L) = [i \in 1 .. L |-> Word("data", N, i)]
  BY <1>7 DEF Slice
<1>9. WordAt(P, 6) = Word("data", N, 1)
  <2>1. 1 \in 1 .. L /\ 6 + 1 - 1 = 6
    BY <1>2
  <2> QED BY <1>7, <2>1
<1>10. DvdPiece = 0
  BY <1>1 DEF DvdPiece, HeaderWords
<1> QED BY <1>1, <1>3, <1>4, <1>5, <1>6, <1>8, <1>9, <1>10, Zenon DEF L, P, N

LEMMA BodyRead == ASSUME DvdPacedInv, ReadBody PROVE DvdPacedInv'
<1>1. /\ paced /\ rest = <<>> /\ restLen = 0 /\ sub \in Seq(Subpictures) /\ DvdWhole
      /\ ((DvdIdle \/ DvdSent \/ DvdHead \/ DvdOver) /\ current = <<>>) \/ DvdBody
  BY DEF DvdPacedInv
<1>2. at.pc = "body" /\ paced' = paced /\ sub' = sub
  BY DEF ReadBody
<1>3. DvdBody
  BY <1>1, <1>2 DEF DvdIdle, DvdSent, DvdHead, DvdOver, Waiting
<1> DEFINE L == LastLen  P == LastPacket  N == Len(sub)
<1>4. /\ at.sizeflag = L + 1 /\ queued = <<>> /\ sub # <<>>
  BY <1>3 DEF DvdBody
<1>5. /\ L \in Nat /\ L # 0 /\ N \in DOMAIN sub /\ N \in Nat /\ N > 0 /\ sub[N].delays \in DvdDelays
      /\ sub[N].len = L
  <2>1. L \in Nat \ {0} /\ N \in DOMAIN sub /\ N \in Nat \ {0} /\ sub[N].delays \in DvdDelays
    BY <1>4, LastIs
  <2>2. N > 0 /\ L \in Nat /\ L # 0 /\ N \in Nat
    BY <2>1
  <2> QED BY <2>1, <2>2 DEF LastLen
<1>6. /\ at.sizeflag = Len(current) /\ current \in Seq(DvdWords) /\ DvdPiece = 0
      /\ WordAt(buf, 2).i = L /\ WordAt(buf, 3).s = N
      /\ Stored(buf, 5, current) = P /\ WordAt(P, 6) = Word("data", N, 1)
      /\ Slice(P, 6, L) = [i \in 1 .. L |-> Word("data", N, i)]
  BY <1>3, BodyIs, SMTT(30)
<1> DEFINE carried == IF restLen > 0 THEN restLen - 4 ELSE 0
           more == IF at.sizeflag > carried THEN at.sizeflag - carried ELSE 0
           b == Stored(buf, DvdPiece + carried + HeaderWords, Taken(more))
           place == DvdPiece + HeaderWords + 1
           first == WordAt(b, place)
           pts == WordAt(buf, 3).s
           s == first.s
           r(length) == GetVobSpu(b, place, WordAt(buf, 2).i, length)
           left(length) == at.sizeflag - 1 - r(length).rd
           again(length) == left(length) > 0 /\ WordAt(b, place + r(length).rd).k = "sync"
           item(length) == [data |-> r(length).data, pts |-> pts, kept |-> at.vob,
                            delay |-> IF r(length).ready /\ s > 0
                                      THEN GetSpuCmd(s, r(length).data, pts) ELSE 0]
           RoundGives(length) ==
             /\ rest' = IF again(length) THEN Slice(b, place + r(length).rd, left(length)) ELSE <<>>
             /\ restLen' = IF again(length) THEN left(length) ELSE 0
             /\ at' = [pc |-> "header", sizeflag |-> IF again(length) THEN left(length) ELSE 0,
                       tmp |-> at.tmp + WordAt(buf, 2).i, vob |-> TRUE]
             /\ dvdShown' = IF r(length).ready THEN dvdShown \cup {item(length)} ELSE dvdShown
<1>7. /\ ReadWords(more)
      /\ \E length \in IF first.k = "data" /\ first.i = 1 THEN {sub[s].len} ELSE {0} \cup DvdLengths :
            RoundGives(length)
  BY Zenon DEF ReadBody
<1>8. more = Len(current) /\ carried = 0
  <2>1. carried = 0
    BY <1>1
  <2>2. at.sizeflag > 0 /\ at.sizeflag - 0 = at.sizeflag
    BY <1>4, <1>5
  <2> HIDE DEF carried
  <2>3. more = at.sizeflag
    BY <2>1, <2>2
  <2> QED BY <1>6, <2>1, <2>3
<1>9. Taken(more) = current /\ current' = <<>> /\ queued' = <<>>
  <2> HIDE DEF more
  <2> QED BY <1>4, <1>6, <1>7, <1>8, ReadToEnd
<1>10. b = P /\ place = 6
  <2> HIDE DEF more, carried
  <2>1. DvdPiece + carried + HeaderWords = 5 /\ place = 6
    BY <1>6, <1>8 DEF HeaderWords
  <2> HIDE DEF place
  <2> QED BY <1>6, <1>9, <2>1
<1> HIDE DEF more, carried, b, place
<1>11. first.k = "data" /\ first.i = 1 /\ s = N /\ pts = N
  BY <1>6, <1>10 DEF Word
<1>12. RoundGives(L)
  <2> HIDE DEF first, RoundGives
  <2> QED BY <1>5, <1>7, <1>11
<1>13. r(L) = [rd |-> L, left |-> 0, data |-> [i \in 1 .. L |-> Word("data", N, i)], ready |-> TRUE, done |-> TRUE]
  <2>1. JoinFragments(P, 6, L, L) =
          [rd |-> L, left |-> 0, data |-> Slice(P, 6, L), ready |-> TRUE, done |-> TRUE]
    <3>1. 6 \in Nat /\ L \in Nat \ {0}
      BY <1>5
    <3> HIDE DEF P, L
    <3> QED BY <3>1, OneFragment
  <2>2. r(L) = GetVobSpu(P, 6, L, L)
    BY <1>6, <1>10
  <2>3. GetVobSpu(P, 6, L, L) = JoinFragments(P, 6, L, L)
    <3> HIDE DEF P, L
    <3> QED BY <1>5 DEF GetVobSpu
  <2> HIDE DEF r, P, L
  <2> QED BY <1>6, <2>1, <2>2, <2>3
<1> DEFINE D == [i \in 1 .. L |-> Word("data", N, i)]
<1>14. r(L).rd = L /\ r(L).data = D /\ r(L).ready
  <2> HIDE DEF D, L, r
  <2> QED BY <1>13 DEF D
<1>15. left(L) = 0 /\ ~again(L)
  <2> HIDE DEF L, r
  <2> QED BY <1>4, <1>5, <1>14
<1>16. rest' = <<>> /\ restLen' = 0 /\ at'.pc = "header" /\ at'.sizeflag = 0
       /\ dvdShown' = dvdShown \cup {item(L)}
  <2> HIDE DEF L, r, left, again, item
  <2> QED BY <1>12, <1>14, <1>15
<1>17. WholeItem(item(L), N, sub[N])
  <2>1. item(L) = [data |-> D, pts |-> N, kept |-> at.vob, delay |-> GetSpuCmd(N, D, N)]
    <3> HIDE DEF D, L, r, s, pts
    <3> QED BY <1>5, <1>11, <1>14
  <2>2. PICK e \in DOMAIN sub[N].delays :
           /\ EndedBy(sub[N].delays, e) /\ DoDCSQC(sub[N].delays) = sub[N].delays[e].delay
           /\ sub[N].delays[e].delay \in Nat
    BY <1>5, EndCounts
  <2> DEFINE end == sub[N].delays[e].delay
  <2>3. GetSpuCmd(N, D, N) = IF end = 0 THEN 0 ELSE end * 1024 + N
    <3>1. \A i \in DOMAIN D : D[i].k = "data"
      BY DEF Word
    <3> HIDE DEF D
    <3> QED BY <2>2, <3>1 DEF GetSpuCmd
  <2> HIDE DEF item
  <2>4. item(L).data = D /\ item(L).pts = N /\ item(L).delay = IF end = 0 THEN 0 ELSE end * 1024 + N
    BY <2>1, <2>3
  <2> QED BY <1>5, <2>2, <2>4 DEF WholeItem
<1> HIDE DEF L, r, left, again, item, N
<1>18. \A x \in dvdShown' : \E t \in DOMAIN sub' : WholeItem(x, t, sub'[t])
  <2>1. \A x \in dvdShown : \E t \in DOMAIN sub : WholeItem(x, t, sub[t])
    BY <1>1, WholeIs
  <2> QED BY <1>2, <1>5, <1>16, <1>17, <2>1
<1>19. DvdWhole'
  BY <1>18 DEF DvdWhole, WholeItem, Word, EndedBy
<1>20. DvdOver'
  BY <1>9, <1>16 DEF DvdOver
<1> QED BY <1>1, <1>2, <1>9, <1>16, <1>19, <1>20 DEF DvdPacedInv, Subpictures

\* A header without its sync word, or a packet that is too long, does not come
LEMMA NothingDropped == ASSUME DvdPacedInv PROVE ~DropAll
<1> SUFFICES ASSUME DropAll PROVE FALSE
  OBVIOUS
<1>1. /\ at.pc = "body"
      /\ WordAt(buf, 0).k # "sync" \/ WordAt(buf, 2).i > at.sizeflag
  BY DEF DropAll
<1>2. DvdBody
  BY <1>1 DEF DvdPacedInv, DvdIdle, DvdSent, DvdHead, DvdOver, Waiting
<1>3. WordAt(buf, 0).k = "sync" /\ WordAt(buf, 2).i = LastLen
  BY <1>2, BodyIs
<1>4. sub # <<>> /\ at.sizeflag = LastLen + 1
  BY <1>2 DEF DvdBody
<1>5. LastLen \in Nat
  <2>1. LastLen \in Nat \ {0}
    BY <1>4, LastIs
  <2> QED BY <2>1
<1> HIDE DEF LastLen
<1> QED BY <1>1, <1>3, <1>4, <1>5

LEMMA RoundOver == ASSUME DvdPacedInv, RoundEnds PROVE DvdPacedInv'
<1>1. /\ paced /\ rest = <<>> /\ restLen = 0 /\ sub \in Seq(Subpictures) /\ DvdWhole
      /\ ((DvdIdle \/ DvdSent \/ DvdHead \/ DvdOver) /\ current = <<>>) \/ DvdBody
  BY DEF DvdPacedInv
<1>2. /\ at.pc = "header" /\ at.sizeflag <= 7 /\ at' = Waiting
      /\ paced' = paced /\ sub' = sub /\ queued' = queued /\ current' = current
      /\ rest' = rest /\ restLen' = restLen /\ dvdShown' = dvdShown
  BY DEF RoundEnds
<1>3. LastPacket' = LastPacket
  BY <1>2 DEF LastPacket, LastLen, PacketOf, Word
<1>4. (DvdHead \/ DvdOver) /\ current = <<>>
  BY <1>1, <1>2 DEF DvdIdle, DvdSent, DvdBody, Waiting
<1>5. DvdSent' \/ DvdIdle'
  BY <1>2, <1>3, <1>4 DEF DvdHead, DvdOver, DvdSent, DvdIdle, Waiting
<1>6. DvdWhole'
  BY <1>1, <1>2 DEF DvdWhole, Word
<1> QED BY <1>1, <1>2, <1>4, <1>5, <1>6 DEF DvdPacedInv, Subpictures

LEMMA DvdPacedKept ==
    ASSUME DvdPacedInv,
           UNCHANGED <<paced, sub, queued, current, at, buf, rest, restLen, dvdShown>>
    PROVE  DvdPacedInv'
<1>1. LastLen' = LastLen /\ LastPacket' = LastPacket
  BY DEF LastPacket, LastLen, PacketOf, Word
<1>2. /\ DvdIdle' = DvdIdle /\ DvdSent' = DvdSent /\ DvdHead' = DvdHead /\ DvdBody' = DvdBody
      /\ DvdOver' = DvdOver
  BY <1>1, Zenon DEF DvdIdle, DvdSent, DvdHead, DvdBody, DvdOver, Waiting
<1>3. DvdWhole'
  <2>1. DvdWhole /\ dvdShown' = dvdShown /\ sub' = sub
    BY DEF DvdPacedInv
  <2> QED BY <2>1 DEF DvdWhole, Word
<1> QED BY <1>2, <1>3, Zenon DEF DvdPacedInv, Subpictures

LEMMA DvdPacedNext == ASSUME DvdPacedInv, [DvdNext]_dvdVars PROVE DvdPacedInv'
<1>1. ASSUME NEW len \in DvdLengths, NEW delays \in DvdDelays, NEW cut \in 1 .. len,
             SendSubpicture(len, delays, cut)
      PROVE  DvdPacedInv'
  BY <1>1, SentOne
<1>2. CASE DvdGetSpu
  BY <1>2, RoundBegun
<1>3. CASE ReadHeader
  BY <1>3, HeaderRead
<1>4. CASE DropAll
  BY <1>4, NothingDropped
<1>5. CASE ReadBody
  BY <1>5, BodyRead
<1>6. CASE RoundEnds
  BY <1>6, RoundOver
<1>7. ASSUME NEW r1 \in DvdRows, NEW r2 \in DvdRows, NEW contrast \in [0 .. 3 -> BOOLEAN],
             DrawRows(<<r1, r2>>, contrast)
      PROVE  DvdPacedInv'
  BY <1>7, DvdPacedKept DEF DrawRows
<1>8. CASE UNCHANGED dvdVars
  BY <1>8, DvdPacedKept DEF dvdVars
<1> QED BY <1>1, <1>2, <1>3, <1>4, <1>5, <1>6, <1>7, <1>8 DEF DvdNext

(* When a subpicture is sent whole, after the one before it was taken, what is *)
(* shown of it is the whole of it, from its own time on, for every length and   *)
(* number of subpictures; it ends at the delay of its first stop command, for  *)
(* every list of command sequences in order of time and place, unless that is  *)
(* the last six bytes behind another sequence: then at the delay of that one   *)
(* (getSpu, getVobSpu, getSpuCmd, doDCSQC).                                    *)
THEOREM DvdSubpictureWhole == DvdSpec /\ paced => []SubpictureWhole
<1>1. DvdInit /\ paced => DvdPacedInv
  BY DEF DvdInit, DvdPacedInv, DvdIdle, DvdWhole
<1>2. DvdPacedInv /\ [DvdNext]_dvdVars => DvdPacedInv'
  BY DvdPacedNext
<1>3. DvdPacedInv => SubpictureWhole
  BY DEF DvdPacedInv, DvdWhole, SubpictureWhole
<1> QED BY <1>1, <1>2, <1>3, PTL DEF DvdSpec
-----------------------------------------------------------------------------
(* A behaviour of the decoders is, for each of them, a behaviour of its own    *)
(* specification: what was proved of it holds in what the run checks.          *)
MCDecoderVars == <<part, dvbVars, pgsVars, dvdVars, ttVars, pesVars, txtVars, lineVars,
                   vobVars, scteVars, ttmlVars, udVars>>

LEMMA DrawersInit == MCInit => DvbInit /\ PgsInit /\ DvdInit /\ VobInit /\ ScteInit
BY Zenon DEF MCInit

LEMMA DrawersNext ==
    ASSUME [MCNext]_MCDecoderVars
    PROVE  /\ [DvbNext]_dvbVars /\ [PgsNext]_pgsVars
           /\ [DvdNext]_dvdVars /\ [VobNext]_vobVars /\ [ScteNext]_scteVars
BY Zenon DEF MCNext, MCDecoderVars

LEMMA DrawersSpec == MCSpec => DvbSpec /\ PgsSpec /\ DvdSpec /\ VobSpec /\ ScteSpec
BY DrawersInit, DrawersNext, PTL
   DEF MCSpec, MCDecoderVars, DvbSpec, PgsSpec, DvdSpec, VobSpec, ScteSpec

(* What PicturesDrawn says of the pictures of a stream, for every picture,     *)
(* listing, run length and number of entries: the lists of the DVB parser      *)
(* agree, its pixels and regions stay in their buffers, and a PGS display set  *)
(* that came whole is shown whole, its rows as they were encoded.              *)
THEOREM PicturesAreDrawn == MCSpec => []PicturesDrawn
<1>1. DisplaysLinked /\ PixelsInsideRegion /\ RegionsInsideBox /\ LossStaysInSet /\ RowsAsEncoded
         => PicturesDrawn
  BY DEF PicturesDrawn
<1> QED BY <1>1, DrawersSpec, DvbDisplaysLinked, DvbPixelsInside, DvbRegionsInside,
           PgsLossStaysInSet, PgsRowsAsEncoded, PTL

(* What RunsDrawn says of run lengths, for every row, width, number of rows,   *)
(* character and style: they are drawn as they were encoded, colours that are  *)
(* exchanged included; nothing is said where all four colours have a contrast, *)
(* nor of pixels outside the reach of a style that has no room in the bitmap.  *)
THEOREM RunsAreDrawn == MCSpec => []RunsDrawn
<1>1. DvdRowsAsEncoded /\ FieldsInterleaved /\ GlyphsDrawn => RunsDrawn
  BY DEF RunsDrawn
<1> QED BY <1>1, DrawersSpec, DvdRowsDrawn, VobFieldsInterleaved, ScteGlyphsDrawn, PTL

(* What PiecesWhole says, for every recording, cut, length and loss: VobSub    *)
(* subpictures and SCTE-27 messages are put together again, and DVD ones when  *)
(* each of them is sent whole, the one before it taken. A stop in the last six *)
(* bytes behind another sequence does not count (EndedBy).                     *)
THEOREM PiecesAreWhole == MCSpec /\ paced => []PiecesWhole
<1>1. SubpictureWhole /\ TrackShown /\ MessagesWhole => PiecesWhole
  BY DEF PiecesWhole
<1> QED BY <1>1, DrawersSpec, DvdSubpictureWhole, VobTrackShown, ScteMessagesWhole, PTL
=============================================================================
