------------------------- MODULE PresentationProofs -------------------------
(* What the screen shows, for any items, any times and any bounds on the
   queues. *)
EXTENDS Presentation, Induction, FiniteSetTheorems, TLAPS

OnFadingList == {fading[i].ids : i \in DOMAIN fading}

\* Where the looper is: its handler is that of the kind of subtitle, and nothing
\* but the start of a presentation makes a looper.
LoopInv ==
    /\ step # "idle" => looper = "polling"
    /\ step \in {"idle", "ext"} \/ kind = "stream"
    /\ step = "ext" => kind = "ext"
    /\ starting => looper # "none"
    /\ looper = "polling" \/ ~armed

\* The screen of a stream, from the reset at the start on.
StreamInv ==
    /\ DOMAIN fading \subseteq {1}
    /\ kind = "stream" /\ ~starting
       => /\ looper = "new" => screen = {}
          /\ looper = "polling" => screen \subseteq OnFadingList

\* The screen of an external subtitle, from the reset at the start on, and what
\* was shown last.
ExternalInv ==
    kind = "ext"
    => /\ ~starting /\ looper # "none" /\ screen # {}
          => lastShown # None /\ lastShown.ids \in screen
       /\ looper = "polling" /\ ~armed /\ step = "idle"
          => decoded = <<>> /\ lastShown = ShowingAt(showing, seen)

ScreenInv == LoopInv /\ StreamInv /\ ExternalInv

-----------------------------------------------------------------------------
LEMMA InitInv == PresentationInit => ScreenInv
  BY DEF PresentationInit, ScreenInv, LoopInv, StreamInv, ExternalInv

\* A looper that polls is armed by a notification, any other one is left as it is.
LEMMA NotifiedArms ==
    Notified => /\ looper = "polling" => armed'
                /\ looper # "polling" /\ ~armed => ~armed'
  BY ZenonT(30) DEF Notified

\* What a step of each action may do, kind by kind.
LEMMA StepInv == ScreenInv /\ [PresentationNext]_vars => ScreenInv'
<1> SUFFICES ASSUME ScreenInv, [PresentationNext]_vars PROVE ScreenInv'
  OBVIOUS
<1> USE DEF ScreenInv, LoopInv, StreamInv, ExternalInv, OnFadingList
<1>1. CASE \E k \in {"stream", "ext"} : StartParser(k)
  BY <1>1 DEF StartParser, timeVars, loopVars, listVars
<1>2. CASE StartPresent
  BY <1>2 DEF StartPresent, timeVars, loopVars, listVars
<1>3. CASE StartReset
  BY <1>3 DEF StartReset, timeVars, loopVars, listVars
<1>4. CASE StopParser
  BY <1>4 DEF StopParser, timeVars, loopVars, listVars
<1>5. CASE StopPresent
  BY <1>5 DEF StopPresent, timeVars, loopVars, listVars
<1>6. CASE \E d \in Decodes : AddDecodedItem(d)
  BY <1>6, NotifiedArms DEF AddDecodedItem, timeVars, loopVars, listVars
<1>7. CASE \E t \in Times : SyncCurrentPresentTime(t)
  BY <1>7, NotifiedArms DEF SyncCurrentPresentTime, timeVars, loopVars, listVars
<1>8. CASE LooperBegin
  BY <1>8 DEF LooperBegin, timeVars, loopVars, listVars
<1>9. CASE BeginExt \/ CheckExt
  BY <1>9 DEF BeginExt, CheckExt, ShownAnew, timeVars, loopVars, listVars
<1>10. CASE Take
  BY <1>10 DEF Take, timeVars, loopVars, listVars
<1>11. CASE ShowNothing
  BY <1>11 DEF ShowNothing, timeVars, loopVars, listVars
<1>12. CASE ShowDue
  BY <1>12 DEF ShowDue, ShowFirst, timeVars, loopVars, listVars
<1>13. CASE ShowLater
  BY <1>13 DEF ShowLater, LookAgain, timeVars, loopVars, listVars
<1>14. CASE Fade
  BY <1>14 DEF Fade, timeVars, loopVars, listVars
<1>15. CASE UNCHANGED vars
  BY <1>15 DEF vars, timeVars, loopVars, listVars
<1> QED
  BY <1>1, <1>2, <1>3, <1>4, <1>5, <1>6, <1>7, <1>8, <1>9, <1>10, <1>11, <1>12, <1>13, <1>14, <1>15 DEF PresentationNext, LooperStep, Show

\* ScreenInv holds in every state that is reached.
LEMMA ScreenInvariant == PresentationSpec => []ScreenInv
  BY InitInv, StepInv, PTL DEF PresentationSpec

\* With a stream, whatever is on the screen is the item that the presentation
\* will take away (Presentation.cpp, handleStreamSub and startPresent).
THEOREM NothingForgotten == PresentationSpec => []ScreenIsFading
<1>1. ScreenInv => ScreenIsFading
  BY DEF ScreenInv, StreamInv, ScreenIsFading, OnFadingList
<1> QED
  BY <1>1, ScreenInvariant, PTL

\* With an external subtitle the screen is empty or what was shown last is on it,
\* although a check draws nothing twice and resets come in between; with no message
\* waiting, all that is decoded has been taken, and what was shown last is what the
\* time read by the last check asks for (Presentation.cpp, handleExtSub).
THEOREM ExternalIsCollected == PresentationSpec => []ExternalShown
<1>1. ScreenInv => ExternalShown
  BY DEF ScreenInv, LoopInv, ExternalInv, ExternalShown
<1> QED
  BY <1>1, ScreenInvariant, PTL

-----------------------------------------------------------------------------
(* Types. The two definitions that go through a list are recursive functions:  *)
(* induction over the places of the list is the least place that fails.        *)

\* What is near by are items of the list
LEMMA NearByType ==
    ASSUME NEW X, showing \in Seq(X)
    PROVE  NearBy \in Seq(X)
<1> DEFINE N == Len(showing)
           Q == Seq(X)
           Put(s, i) == IF IsNear(showing[i]) THEN Append(s, showing[i]) ELSE s
           f(w) == [i \in 0 .. N |-> IF i = 0 THEN <<>> ELSE Put(w[i - 1], i)]
           near == CHOOSE w : w = f(w)
           F == [p \in (1 .. N) \X Q |-> Put(p[2], p[1])]
<1>1. N \in Nat /\ <<>> \in Q
  OBVIOUS
<1>2. \A i \in 1 .. N, s \in Q : Put(s, i) \in Q
  OBVIOUS
<1>3. NearBy = near[N]
  BY DEF NearBy
<1> HIDE DEF N, Q, Put
<1>4. F \in [(1 .. N) \X Q -> Q] /\ \A i \in 1 .. N, s \in Q : F[<<i, s>>] = Put(s, i)
  BY <1>2
<1> HIDE DEF F
<1>5. PICK v \in [0 .. N -> Q] : Follows(v, N, <<>>, F)
  BY <1>1, <1>4, RecursionExists
<1>6. v = f(v)
  <2>1. ASSUME NEW i \in 0 .. N PROVE v[i] = IF i = 0 THEN <<>> ELSE Put(v[i - 1], i)
    <3>1. CASE i = 0
      BY <1>5, <3>1 DEF Follows
    <3>2. CASE i # 0
      <4>1. i \in 1 .. N /\ i - 1 \in 0 .. N
        BY <1>1, <3>2
      <4>2. v[i - 1] \in Q /\ v[i] = F[<<i, v[i - 1]>>]
        BY <1>5, <4>1 DEF Follows
      <4> QED BY <1>4, <3>2, <4>1, <4>2
    <3> QED BY <3>1, <3>2
  <2>2. v = [i \in 0 .. N |-> v[i]]
    BY <1>5
  <2> QED BY <2>1, <2>2
<1>7. near = f(near)
  BY <1>6
<1> HIDE DEF near
<1>8. near[0] = <<>> /\ \A i \in 1 .. N : near[i] = Put(near[i - 1], i)
  BY <1>1, <1>7
<1> DEFINE S == {i \in 0 .. N : near[i] \in Q}
<1>9. 0 \in S /\ \A i \in 1 .. N : i - 1 \in S => i \in S
  BY <1>1, <1>2, <1>8
<1> HIDE DEF S
<1>10. \A i \in 0 .. N : i \in S
  BY <1>1, <1>9, UpTo
<1> QED BY <1>1, <1>3, <1>10 DEF S, Q

\* An item is put between two others
LEMMA InsertType ==
    ASSUME NEW X, NEW list \in Seq(X), NEW item \in X
    PROVE  InsertByPts(list, item) \in Seq(X)
<1> DEFINE before == {i \in DOMAIN list : list[i].pts <= item.pts}
           k == Cardinality(before) + 1
           head == SubSeq(list, 1, k - 1)
           tail == SubSeq(list, k, Len(list))
<1>1. Cardinality(before) \in 0 .. Len(list)
  <2>1. IsFiniteSet(1 .. Len(list)) /\ Cardinality(1 .. Len(list)) = Len(list)
    <3>1. 1 \in Int /\ Len(list) \in Int /\ Len(list) >= 0
      OBVIOUS
    <3> QED BY <3>1, FS_Interval
  <2>2. before \in SUBSET (1 .. Len(list))
    OBVIOUS
  <2> HIDE DEF before
  <2>3. IsFiniteSet(before) /\ Cardinality(before) <= Len(list)
    BY <2>1, <2>2, FS_Subset
  <2> QED BY <2>3, FS_CardinalityType
<1>2. InsertByPts(list, item) = head \o <<item>> \o tail
  BY DEF InsertByPts, InsertAt
<1> HIDE DEF before
<1>3. k \in 1 .. Len(list) + 1 /\ k - 1 \in 0 .. Len(list)
  BY <1>1
<1> HIDE DEF k
<1>4. head \in Seq(X) /\ tail \in Seq(X)
  BY <1>3
<1> HIDE DEF head, tail
<1> QED BY <1>2, <1>4

\* What is shown at a moment is made of items of the list
Shaped(X) ==   \* X is closed under what is done to the times of its items
    \A item \in X : /\ item.pts \in Int /\ item.end \in Int
                    /\ \A a, b \in Int : [item EXCEPT !.pts = a, !.end = b] \in X
                    /\ \A b \in Int : [item EXCEPT !.end = b] \in X

LEMMA ItemsShaped == made \in Nat => Shaped(Items)
BY DEF Shaped, Items

LEMMA FixType ==
    ASSUME NEW X, Shaped(X), NEW d \in X
    PROVE  FixSpuDelay(d) \in X
<1>1. d.pts \in Int /\ d.end \in Int
  BY DEF Shaped
<1>2. d.pts + NoPtsSpan \in Int
  BY <1>1 DEF NoPtsSpan
<1>3. [d EXCEPT !.end = d.pts + NoPtsSpan] \in X
  BY <1>2, Zenon DEF Shaped
<1> QED BY <1>3 DEF FixSpuDelay

\* Everything that is decoded is put in its place among the items queued
LEMMA CollectedType ==
    ASSUME NEW X, Shaped(X), showing \in Seq(X), decoded \in Seq(X)
    PROVE  Collected \in Seq(X)
<1> DEFINE N == Len(decoded)
           Q == Seq(X)
           Put(s, i) == InsertByPts(s, FixSpuDelay(decoded[i]))
           f(w) == [i \in 0 .. N |-> IF i = 0 THEN showing ELSE Put(w[i - 1], i)]
           with == CHOOSE w : w = f(w)
           F == [p \in (1 .. N) \X Q |-> Put(p[2], p[1])]
<1>1. N \in Nat /\ showing \in Q
  OBVIOUS
<1>2. ASSUME NEW i \in 1 .. N, NEW s \in Q PROVE Put(s, i) \in Q
  <2>1. decoded[i] \in X
    OBVIOUS
  <2>2. FixSpuDelay(decoded[i]) \in X
    BY <2>1, FixType
  <2> QED BY <2>2, InsertType
<1>3. Collected = with[N]
  BY DEF Collected
<1> HIDE DEF N, Q, Put
<1>4. F \in [(1 .. N) \X Q -> Q] /\ \A i \in 1 .. N, s \in Q : F[<<i, s>>] = Put(s, i)
  BY <1>2
<1> HIDE DEF F
<1>5. PICK v \in [0 .. N -> Q] : Follows(v, N, showing, F)
  BY <1>1, <1>4, RecursionExists
<1>6. v = f(v)
  <2>1. ASSUME NEW i \in 0 .. N PROVE v[i] = IF i = 0 THEN showing ELSE Put(v[i - 1], i)
    <3>1. CASE i = 0
      BY <1>5, <3>1 DEF Follows
    <3>2. CASE i # 0
      <4>1. i \in 1 .. N /\ i - 1 \in 0 .. N
        BY <1>1, <3>2
      <4>2. v[i - 1] \in Q /\ v[i] = F[<<i, v[i - 1]>>]
        BY <1>5, <4>1 DEF Follows
      <4> QED BY <1>4, <3>2, <4>1, <4>2
    <3> QED BY <3>1, <3>2
  <2>2. v = [i \in 0 .. N |-> v[i]]
    BY <1>5
  <2> QED BY <2>1, <2>2
<1>7. with = f(with)
  BY <1>6
<1> HIDE DEF with
<1>8. with[0] = showing /\ \A i \in 1 .. N : with[i] = Put(with[i - 1], i)
  BY <1>1, <1>7
<1> DEFINE S == {i \in 0 .. N : with[i] \in Q}
<1>9. 0 \in S /\ \A i \in 1 .. N : i - 1 \in S => i \in S
  BY <1>1, <1>2, <1>8
<1> HIDE DEF S
<1>10. \A i \in 0 .. N : i \in S
  BY <1>1, <1>9, UpTo
<1> QED BY <1>1, <1>3, <1>10 DEF S, Q

LEMMA ShowingAtType ==
    ASSUME NEW m, NEW list \in Seq(Items), NEW t
    PROVE  ShowingAt(list, t) \in Items \cup {None}
<1> DEFINE Later(i) == list[i].end > t
           reached == {i \in DOMAIN list : \A j \in 1..(i - 1) : ~Later(j)}
           due == {i \in reached : list[i].pts <= t /\ t <= list[i].end}
           first == CHOOSE i \in due : \A j \in due : i <= j
           last == CHOOSE i \in due : \A j \in due : j <= i
           ids == UNION {list[i].ids : i \in due}
<1>1. due \subseteq 1 .. Len(list) /\ Len(list) \in Nat
  OBVIOUS
<1>2. \/ due = {} /\ ShowingAt(list, t) = None
      \/ due # {} /\ ShowingAt(list, t) = [list[first] EXCEPT !.ids = ids]
      \/ due # {} /\ ShowingAt(list, t) = list[last]
  BY Zenon DEF ShowingAt
<1>3. \A i \in 1 .. Len(list) : list[i] \in Items
  OBVIOUS
<1>4. ids \in SUBSET (1 .. made)
  BY <1>1, <1>3 DEF Items
<1> HIDE DEF due, ids
<1>5. due # {} => first \in due
  <2>1. due \subseteq Nat
    BY <1>1
  <2>2. due # {} => \E i \in due : \A j \in due : i <= j
    BY <2>1, LeastOfNats
  <2> QED BY <2>2
<1>6. due # {} => last \in due
  <2> DEFINE M == {Len(list) - i : i \in due}
  <2> SUFFICES ASSUME due # {} PROVE \E i \in due : \A j \in due : j <= i
    OBVIOUS
  <2>1. M \subseteq Nat /\ M # {}
    <3>1. \A i \in due : Len(list) - i \in Nat
      BY <1>1
    <3>2. PICK i \in due : TRUE
      OBVIOUS
    <3> QED BY <3>1, <3>2
  <2>2. PICK k \in M : \A j \in M : k <= j
    <3> HIDE DEF M
    <3> QED BY <2>1, LeastOfNats
  <2>3. PICK i \in due : k = Len(list) - i
    OBVIOUS
  <2>4. ASSUME NEW j \in due PROVE j <= i
    <3>1. Len(list) - j \in M
      OBVIOUS
    <3>2. Len(list) - i <= Len(list) - j
      BY <2>2, <2>3, <3>1
    <3>3. i \in Nat /\ j \in Nat
      BY <1>1
    <3> HIDE DEF M
    <3> QED BY <1>1, <3>2, <3>3
  <2> QED BY <2>4
<1> HIDE DEF first, last
<1>7. ASSUME NEW item \in Items PROVE [item EXCEPT !.ids = ids] \in Items
  BY <1>4 DEF Items
<1> QED BY <1>1, <1>2, <1>3, <1>5, <1>6, <1>7

Scalars ==
    /\ time \in Times \cup {0} /\ kind \in {"none", "stream", "ext"}
    /\ parsing \in BOOLEAN /\ starting \in BOOLEAN /\ armed \in BOOLEAN
    /\ made \in 0 .. MaxDecoded
    /\ looper \in {"none", "new", "polling"} /\ step \in {"idle", "show", "fade", "ext"}
    /\ seen \in Nat

Lists ==
    /\ decoded \in Seq(Items) /\ Len(decoded) <= MaxSpuItems
    /\ showing \in Seq(Items) /\ fading \in Seq(Items) /\ Len(fading) <= 1
    /\ lastShown \in Items \cup {None} /\ screen \subseteq SUBSET (1 .. made)

LEMMA NotifiedType == Scalars /\ Notified => armed' \in BOOLEAN
<1> SUFFICES ASSUME Scalars, Notified PROVE armed' \in BOOLEAN
  OBVIOUS
<1>1. armed' = (armed \/ looper = "polling")
  BY DEF Notified
<1> QED BY <1>1, Zenon

LEMMA ScalarsKept == Scalars /\ [PresentationNext]_vars => Scalars'
<1> SUFFICES ASSUME Scalars, [PresentationNext]_vars PROVE Scalars'
  OBVIOUS
<1> USE DEF Scalars
<1>1. ASSUME NEW k \in {"stream", "ext"}, StartParser(k) PROVE Scalars'
  BY <1>1 DEF StartParser, loopVars
<1>2. CASE StartPresent
  BY <1>2 DEF StartPresent, timeVars
<1>3. CASE StartReset
  BY <1>3 DEF StartReset, timeVars
<1>4. CASE StopParser
  BY <1>4 DEF StopParser, loopVars
<1>5. CASE StopPresent
  BY <1>5 DEF StopPresent, timeVars
<1>6. ASSUME NEW d \in Decodes, AddDecodedItem(d) PROVE Scalars'
  <2>1. armed' \in BOOLEAN
    BY <1>6, NotifiedType DEF AddDecodedItem
  <2>2. made' \in 0 .. MaxDecoded
    BY <1>6, PresentationAssumption DEF AddDecodedItem
  <2> QED BY <1>6, <2>1, <2>2 DEF AddDecodedItem
<1>7. ASSUME NEW t \in Times, SyncCurrentPresentTime(t) PROVE Scalars'
  <2>1. armed' \in BOOLEAN
    BY <1>7, NotifiedType DEF SyncCurrentPresentTime
  <2> QED BY <1>7, <2>1 DEF SyncCurrentPresentTime
<1>8. CASE LooperBegin
  BY <1>8 DEF LooperBegin, timeVars
<1>9. CASE BeginExt
  <2>1. time \in Nat
    BY <1>9, PresentationAssumption DEF BeginExt
  <2> QED BY <1>9, <2>1 DEF BeginExt, timeVars
<1>10. CASE CheckExt
  BY <1>10 DEF CheckExt
<1>11. CASE Take
  BY <1>11 DEF Take
<1>12. CASE ShowNothing
  BY <1>12 DEF ShowNothing, timeVars
<1>13. CASE ShowDue
  BY <1>13 DEF ShowDue, timeVars
<1>14. CASE ShowLater
  BY <1>14 DEF ShowLater, LookAgain, timeVars
<1>15. CASE Fade
  BY <1>15 DEF Fade, timeVars
<1>16. CASE UNCHANGED vars
  BY <1>16 DEF vars, timeVars, loopVars
<1> QED
  BY <1>1, <1>2, <1>3, <1>4, <1>5, <1>6, <1>7, <1>8, <1>9, <1>10, <1>11, <1>12, <1>13, <1>14,
     <1>15, <1>16 DEF PresentationNext, LooperStep, Show

\* What is done to an item on its way gives an item
LEMMA ItemTypes ==
    ASSUME Scalars, NEW item \in Items
    PROVE  /\ Retimed(item) \in Items /\ Timed(item) \in Items /\ WithSpan(item) \in Items
           /\ \A more \in Items : [item EXCEPT !.ids = @ \cup more.ids] \in Items
<1>1. time \in Int /\ Clock \in Int
  BY PresentationAssumption DEF Scalars, Clock
<1>2. \A x \in Items : x.pts \in Int /\ x.end \in Int
  BY DEF Items
<1>3. \A x \in Items, a, b \in Int : [x EXCEPT !.pts = a, !.end = b] \in Items
  BY DEF Items
<1>4. \A x \in Items, b \in Int : [x EXCEPT !.end = b] \in Items
  BY DEF Items
<1>5. Retimed(item) \in Items
  <2>1. time + 1 \in Int /\ time + 1 + FixSpan \in Int
    BY <1>1 DEF FixSpan
  <2>2. [item EXCEPT !.pts = time + 1, !.end = time + 1 + FixSpan] \in Items
    BY <1>3, <2>1
  <2> QED BY <2>2, Zenon DEF Retimed
<1>6. Timed(item) \in Items
  <2> DEFINE dated == IF item.pts = 0 /\ ~item.imm
                      THEN [item EXCEPT !.pts = Clock, !.end = Clock + FixSpan]
                      ELSE item
  <2>1. Clock + FixSpan \in Int
    BY <1>1 DEF FixSpan
  <2>2. [item EXCEPT !.pts = Clock, !.end = Clock + FixSpan] \in Items
    BY <1>1, <1>3, <2>1
  <2>3. dated \in Items
    BY <2>2, Zenon
  <2>4. Timed(item) = dated \/ Timed(item) = [dated EXCEPT !.end = dated.pts + NoPtsSpan]
    BY Zenon DEF Timed
  <2> HIDE DEF dated
  <2>5. dated.pts + NoPtsSpan \in Int
    BY <1>2, <2>3 DEF NoPtsSpan
  <2> QED BY <1>4, <2>3, <2>4, <2>5
<1>7. WithSpan(item) \in Items
  <2>1. Clock + NoPtsSpan \in Int /\ item.pts + SmallSpan \in Int
    BY <1>1, <1>2 DEF NoPtsSpan, SmallSpan
  <2>2. /\ [item EXCEPT !.pts = Clock, !.end = Clock + NoPtsSpan] \in Items
        /\ [item EXCEPT !.end = item.pts + SmallSpan] \in Items
    BY <1>1, <1>3, <1>4, <2>1
  <2> QED BY <2>2, Zenon DEF WithSpan
<1>8. ASSUME NEW more \in Items PROVE [item EXCEPT !.ids = @ \cup more.ids] \in Items
  BY DEF Items
<1> QED BY <1>5, <1>6, <1>7, <1>8

\* The lists of a step that decodes nothing, from their types in the next state
LEMMA ListsFollow ==
    ASSUME made' = made, decoded' \in Seq(Items), Len(decoded') <= MaxSpuItems,
           showing' \in Seq(Items), fading' \in Seq(Items), Len(fading') <= 1,
           lastShown' \in Items \cup {None}, screen' \subseteq SUBSET (1 .. made)
    PROVE  Lists'
<1>1. Items' = Items
  BY DEF Items
<1> QED BY <1>1 DEF Lists

LEMMA BoundsAreNat == MaxSpuItems \in Nat \ {0} /\ MaxQueued \in Nat \ {0} /\ MaxDecoded \in Nat \ {0}
BY PresentationAssumption

LEMMA ItemDecoded ==
    ASSUME Scalars, Lists, NEW d \in Decodes, AddDecodedItem(d)
    PROVE  Lists'
<1> DEFINE item == Numbered(d)
           kept == IF Len(decoded) >= MaxSpuItems THEN Tail(decoded) ELSE decoded
           Q == Seq(Items')
<1>1. made \in Nat /\ made' = made + 1
  BY BoundsAreNat DEF Scalars, AddDecodedItem
<1>2. item \in Items'
  <2>1. d \in [pts : Nat, end : Nat, imm : BOOLEAN, keep : BOOLEAN, text : BOOLEAN, cc : BOOLEAN]
    BY PresentationAssumption
  <2>2. {made + 1} \in SUBSET (1 .. made')
    BY <1>1
  <2> QED BY <2>1, <2>2 DEF Numbered, Items
<1>3. Items \subseteq Items' /\ SUBSET (1 .. made) \subseteq SUBSET (1 .. made')
  BY <1>1 DEF Items
<1>4. /\ decoded \in Q /\ showing \in Q /\ fading \in Q
      /\ lastShown \in Items' \cup {None} /\ screen \subseteq SUBSET (1 .. made')
  <2>1. /\ decoded \in Seq(Items) /\ showing \in Seq(Items) /\ fading \in Seq(Items)
        /\ lastShown \in Items \cup {None} /\ screen \subseteq SUBSET (1 .. made)
    BY DEF Lists
  <2>2. Seq(Items) \subseteq Q
    BY <1>3
  <2> QED BY <1>3, <2>1, <2>2
<1>5. kept \in Q /\ Len(kept) < MaxSpuItems
  BY <1>4, BoundsAreNat DEF Lists
<1>6. decoded' = Append(kept, item)
  BY DEF AddDecodedItem
<1> HIDE DEF item, kept
<1>7. decoded' \in Q /\ Len(decoded') <= MaxSpuItems
  BY <1>2, <1>5, <1>6, BoundsAreNat
<1>8. UNCHANGED listVars
  BY DEF AddDecodedItem
<1> QED BY <1>4, <1>7, <1>8 DEF Lists, listVars

LEMMA ItemTaken ==
    ASSUME Scalars, Lists, Take
    PROVE  Lists'
<1>1. CASE decoded = <<>>
  BY <1>1, ListsFollow DEF Take, Lists
<1>2. CASE decoded # <<>>
  <2> DEFINE item == Retimed(Head(decoded))
             more == Queued(item)
  <2>1. decoded \in Seq(Items) /\ showing \in Seq(Items)
    BY DEF Lists
  <2>2. Head(decoded) \in Items /\ Tail(decoded) \in Seq(Items) /\ Len(Tail(decoded)) <= MaxSpuItems
    BY <1>2, <2>1, BoundsAreNat DEF Lists
  <2>3. item \in Items
    BY <2>2, ItemTypes
  <2> HIDE DEF item
  <2>4. more \in Seq(Items)
    <3>1. InsertByPts(showing, item) \in Seq(Items)
      BY <2>1, <2>3, InsertType
    <3> QED BY <2>1, <3>1, Zenon DEF Queued
  <2> HIDE DEF more
  <2>5. Halved(more) \in Seq(Items)
    <3> DEFINE k == Len(more) \div 2 + 1
    <3>1. k \in Nat /\ k >= 1 /\ Len(more) \in Nat
      BY <2>4
    <3> HIDE DEF k
    <3>2. SubSeq(more, k, Len(more)) \in Seq(Items)
      BY <2>4, <3>1
    <3> QED BY <2>4, <3>2, Zenon DEF Halved, k
  <2>6. decoded' = Tail(decoded) /\ showing' = Halved(more)
    BY <1>2 DEF Take, item, more
  <2> QED BY <2>2, <2>5, <2>6, ListsFollow DEF Take, Lists
<1> QED BY <1>1, <1>2

\* The first item that is due is shown, and the next with it or not
LEMMA FirstShown ==
    ASSUME Scalars, Lists, ShowDue
    PROVE  Lists'
<1> DEFINE list == NearBy
           item == Shown(list)
           k == IF SecondToo(list) THEN 3 ELSE 2
<1>1. list \in Seq(Items) /\ list # <<>>
  BY NearByType DEF Lists, ShowDue
<1>2. showing' = SubSeq(list, k, Len(list)) /\ fading' = <<item>>
      /\ screen' \subseteq screen \cup {item.ids}
  BY DEF ShowDue, ShowFirst
<1> HIDE DEF list
<1>3. item \in Items
  <2>1. list[1] \in Items /\ Timed(list[1]) \in Items
    BY <1>1, ItemTypes
  <2>2. SecondToo(list) => [Timed(list[1]) EXCEPT !.ids = @ \cup list[2].ids] \in Items
    <3>1. SecondToo(list) => list[2] \in Items
      BY <1>1 DEF SecondToo
    <3> QED BY <2>1, <3>1, ItemTypes
  <2>3. \/ item = WithSpan(Timed(list[1]))
        \/ SecondToo(list) /\ item = WithSpan([Timed(list[1]) EXCEPT !.ids = @ \cup list[2].ids])
    BY Zenon DEF Shown
  <2> HIDE DEF item
  <2> QED BY <2>1, <2>2, <2>3, ItemTypes
<1> HIDE DEF item
<1>4. SubSeq(list, k, Len(list)) \in Seq(Items)
  <2>1. k \in Nat /\ k >= 1
    OBVIOUS
  <2> HIDE DEF k
  <2> QED BY <1>1, <2>1
<1>5. <<item>> \in Seq(Items) /\ Len(<<item>>) = 1
  BY <1>3
<1>6. item.ids \in SUBSET (1 .. made)
  BY <1>3 DEF Items
<1>7. screen' \subseteq SUBSET (1 .. made)
  BY <1>2, <1>6 DEF Lists
<1>8. made' = made /\ decoded' = decoded /\ lastShown' = lastShown
  BY DEF ShowDue, timeVars
<1> HIDE DEF k
<1> QED BY <1>2, <1>4, <1>5, <1>7, <1>8, ListsFollow DEF Lists

LEMMA ExternalChecked ==
    ASSUME Scalars, Lists, CheckExt
    PROVE  Lists'
<1>1. showing' \in Seq(Items)
  <2>1. Shaped(Items)
    BY ItemsShaped, BoundsAreNat DEF Scalars
  <2> QED BY <2>1, CollectedType DEF CheckExt, Lists
<1>2. lastShown' \in Items \cup {None}
  BY <1>1, ShowingAtType DEF CheckExt
<1>3. fading' \in Seq(Items) /\ Len(fading') <= 1
  <2>1. fading' = fading \/ fading' = <<>>
    BY DEF CheckExt
  <2>2. CASE fading' = fading
    BY <2>2 DEF Lists
  <2>3. CASE fading' = <<>>
    BY <2>3
  <2> QED BY <2>1, <2>2, <2>3
<1>4. screen' \subseteq SUBSET (1 .. made)
  <2>1. ShownAnew => lastShown'.ids \in SUBSET (1 .. made)
    BY <1>2 DEF Items, ShownAnew
  <2>2. screen' = IF ShownAnew THEN screen \cup {lastShown'.ids}
                  ELSE IF lastShown' = None /\ lastShown # None THEN {} ELSE screen
    BY DEF CheckExt
  <2> QED BY <2>1, <2>2 DEF Lists
<1>5. decoded' = <<>> /\ made' = made
  BY DEF CheckExt
<1>6. decoded' \in Seq(Items) /\ Len(decoded') <= MaxSpuItems
  BY <1>5, BoundsAreNat
<1> QED BY <1>1, <1>2, <1>3, <1>4, <1>5, <1>6, ListsFollow

LEMMA ListsKept == Scalars /\ Lists /\ [PresentationNext]_vars => Lists'
<1> SUFFICES ASSUME Scalars, Lists, [PresentationNext]_vars PROVE Lists'
  OBVIOUS
<1>0. <<>> \in Seq(Items) /\ Len(<<>>) <= MaxSpuItems /\ Len(<<>>) <= 1
  BY BoundsAreNat
<1>1. ASSUME NEW k \in {"stream", "ext"}, StartParser(k) PROVE Lists'
  BY <1>0, <1>1, ListsFollow DEF StartParser, listVars, Lists
<1>2. CASE StartPresent
  BY <1>2, ListsFollow DEF StartPresent, timeVars, Lists
<1>3. CASE StartReset
  BY <1>3, ListsFollow DEF StartReset, timeVars, Lists
<1>4. CASE StopParser
  BY <1>0, <1>4, ListsFollow DEF StopParser, listVars, Lists
<1>5. CASE StopPresent
  BY <1>5, ListsFollow DEF StopPresent, timeVars, listVars, Lists
<1>6. ASSUME NEW t \in Times, SyncCurrentPresentTime(t) PROVE Lists'
  BY <1>6, ListsFollow DEF SyncCurrentPresentTime, Lists
<1>7. CASE LooperBegin
  BY <1>0, <1>7, ListsFollow DEF LooperBegin, timeVars, Lists
<1>8. CASE BeginExt
  BY <1>8, ListsFollow DEF BeginExt, timeVars, listVars, Lists
<1>9. CASE ShowNothing
  BY <1>0, <1>9, ListsFollow DEF ShowNothing, timeVars, Lists
<1>10. CASE ShowLater
  BY <1>10, NearByType, ListsFollow DEF ShowLater, timeVars, Lists
<1>11. CASE Fade
  BY <1>0, <1>11, ListsFollow DEF Fade, timeVars, Lists
<1>12. CASE UNCHANGED vars
  BY <1>12, ListsFollow DEF vars, timeVars, listVars, Lists
<1> QED
  BY <1>1, <1>2, <1>3, <1>4, <1>5, <1>6, <1>7, <1>8, <1>9, <1>10, <1>11, <1>12,
     ItemDecoded, ItemTaken, FirstShown, ExternalChecked DEF PresentationNext, LooperStep, Show

LEMMA TypesInit == PresentationInit => Scalars /\ Lists
<1> SUFFICES ASSUME PresentationInit PROVE Scalars /\ Lists
  OBVIOUS
<1>1. Scalars
  <2>1. 0 \in 0 .. MaxDecoded /\ 0 \in Nat
    BY BoundsAreNat
  <2> QED BY <2>1 DEF PresentationInit, Scalars
<1>2. <<>> \in Seq(Items) /\ Len(<<>>) = 0
  OBVIOUS
<1>3. Lists
  BY <1>2, BoundsAreNat DEF PresentationInit, Lists
<1> QED BY <1>1, <1>3

(* The lists of the presentation hold items, as many as they may: what is put  *)
(* in its place, timed again, combined with the next or cut down (addMoreSpu,  *)
(* combineSamePtsSubtitle, handleStreamSub, handleExtSub) is made of decoded   *)
(* items only, one at most is left to fade, and the parser's queue never holds *)
(* more than mMaxSpuItems.                                                     *)
THEOREM PresentationTypes == PresentationSpec => []PresentationTypeOK
<1>1. Scalars /\ Lists => PresentationTypeOK
  <2> SUFFICES ASSUME Scalars, Lists PROVE PresentationTypeOK
    OBVIOUS
  <2>1. \A list \in {decoded, showing, fading} : ToSet(list) \subseteq Items
    BY DEF Lists, ToSet
  <2> QED BY <2>1 DEF Scalars, Lists, PresentationTypeOK
<1> QED
  BY <1>1, TypesInit, ScalarsKept, ListsKept, PTL DEF PresentationSpec

=============================================================================
