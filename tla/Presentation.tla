---------------------------- MODULE Presentation ----------------------------
(***************************************************************************)
(* When subtitles are shown and taken away: Presentation, its looper       *)
(* thread, the queue of the parser it reads, and the list of items the     *)
(* renderer draws.  Four actors: the parser's thread adds decoded items,   *)
(* a render-time thread sets the time of the video, Subtitle::run starts   *)
(* and stops parser and presentation, and the looper checks, each time it  *)
(* is woken, what is due.                                                  *)
(*                                                                         *)
(* The unit of time is the second, so the tolerance of 33 ms is nothing;   *)
(* mStartTimeModifier is 0 and no time needs more than 32 bits.            *)
(***************************************************************************)
EXTENDS Integers, FiniteSets, SequencesExt

CONSTANTS
    Decodes,      \* what a parser may decode: pts, end, imm, keep, text, cc
    Times,        \* what syncCurrentPresentTime may set
    MaxSpuItems,  \* mMaxSpuItems
    MaxQueued,    \* MAX_ALLOWED_QUEUED_MEM, items being of one size
    MaxDecoded,   \* bound: items a run decodes
    None

ASSUME PresentationAssumption ==
    /\ Times \subseteq Nat \cup {-1}
    /\ {MaxSpuItems, MaxQueued, MaxDecoded} \subseteq Nat \ {0}
    /\ Decodes \subseteq [pts : Nat, end : Nat, imm : BOOLEAN, keep : BOOLEAN,
                          text : BOOLEAN, cc : BOOLEAN]

FixSpan == 2        \* DEFAULT_DELAY_TIME, for a pts that cannot be used
NoPtsSpan == 4      \* ADDJUST_NO_PTS_MS
SmallSpan == 5      \* ADDJUST_VERY_SMALL_PTS_MS
Ahead == 100        \* ahead_delay_tor
FarOff == 200       \* a pts that cannot be valid
TenMinutes == 600   \* a pts that is not kept

VARIABLES
    time,       \* mCurrentPresentRelativeTime, -1 when the time was invalid
    kind,       \* what mParser is: "none", "stream" or "ext"
    parsing,    \* the parser's thread runs
    decoded,    \* Parser::mDecodedSpu
    made,       \* items decoded so far; they have the numbers 1..made
    looper,     \* mMsgProcess: "none", "new" until looperLoop begins, "polling"
    starting,   \* startPresent holds mMutex
    armed,      \* a check message waits in the looper
    step,       \* where the looper's handler is
    seen,       \* the time that the handler of an external check read
    showing,    \* mEmittedShowingSpu
    fading,     \* mEmittedFaddingSpu
    lastShown,  \* mLastShowingSpu
    screen      \* Render::mShowingSubs

timeVars == <<time, kind, parsing, decoded, made>>
loopVars == <<looper, starting, armed, step, seen>>
listVars == <<showing, fading, lastShown, screen>>
vars == <<timeVars, loopVars, listVars>>

PresentationInit ==
    /\ time = 0 /\ kind = "none" /\ parsing = FALSE
    /\ decoded = <<>> /\ made = 0
    /\ looper = "none" /\ starting = FALSE /\ armed = FALSE /\ step = "idle" /\ seen = 0
    /\ showing = <<>> /\ fading = <<>> /\ lastShown = None /\ screen = {}

\* notifyMessage(MSG_PTS_TIME_CHECK_SPU); there is no looper before looperLoop.
Notified == armed' = (armed \/ looper = "polling")

-----------------------------------------------------------------------------
(* Subtitle::run: the parser is started before the presentation and stopped *)
(* before it.                                                               *)

StartParser(k) ==
    /\ ~parsing /\ looper = "none"
    /\ parsing' = TRUE /\ decoded' = <<>>
    /\ kind' = k
    /\ UNCHANGED <<time, made, loopVars, listVars>>

\* A new looper thread is made ...
StartPresent ==
    /\ parsing /\ looper = "none"
    /\ looper' = "new" /\ starting' = TRUE
    /\ armed' = FALSE /\ lastShown' = None
    /\ UNCHANGED <<timeVars, step, seen, showing, fading, screen>>

\* ... and then the renderer, which draws itself, is reset.
StartReset ==
    /\ starting
    /\ starting' = FALSE
    /\ screen' = {}
    /\ UNCHANGED <<timeVars, looper, armed, step, seen, showing, fading, lastShown>>

\* The thread begins: a first check, and the lists of the last one go.
LooperBegin ==
    /\ looper = "new"
    /\ looper' = "polling" /\ armed' = TRUE
    /\ showing' = <<>> /\ fading' = <<>>
    /\ UNCHANGED <<timeVars, starting, step, seen, lastShown, screen>>

StopParser ==
    /\ parsing /\ ~starting /\ looper # "none"
    /\ parsing' = FALSE /\ decoded' = <<>>
    /\ UNCHANGED <<time, kind, made, loopVars, listVars>>

\* stopPresent joins the looper between two messages.
StopPresent ==
    /\ ~parsing /\ looper # "none" /\ ~starting /\ step = "idle"
    /\ looper' = "none" /\ armed' = FALSE
    /\ UNCHANGED <<timeVars, starting, step, seen, listVars>>

-----------------------------------------------------------------------------
(* The parser's thread and the render-time thread *)

\* What is decoded, as the item with the next number
Numbered(d) ==
    [ids |-> {made + 1}, pts |-> d.pts, end |-> d.end,
     imm |-> d.imm, keep |-> d.keep, text |-> d.text, cc |-> d.cc]

\* Mutant of AddDecodedItem: the presentation is not told.
AddDecodedItem_Silent(d) ==
    /\ parsing /\ ~starting /\ made < MaxDecoded
    /\ made' = made + 1
    /\ LET kept == IF Len(decoded) >= MaxSpuItems THEN Tail(decoded) ELSE decoded
       IN  decoded' = Append(kept, Numbered(d))
    /\ UNCHANGED <<time, kind, parsing, loopVars, listVars>>

\* Mutant of AddDecodedItem: the queue is full one item later.
AddDecodedItem_OneMore(d) ==
    /\ parsing /\ ~starting /\ made < MaxDecoded
    /\ made' = made + 1
    /\ LET kept == IF Len(decoded) > MaxSpuItems THEN Tail(decoded) ELSE decoded
       IN  decoded' = Append(kept, Numbered(d))
    /\ Notified
    /\ UNCHANGED <<time, kind, parsing, looper, starting, step, seen, listVars>>

\* A full queue loses its oldest item; then the looper is told.
AddDecodedItem(d) ==
    /\ parsing /\ ~starting /\ made < MaxDecoded
    /\ made' = made + 1
    /\ LET kept == IF Len(decoded) >= MaxSpuItems THEN Tail(decoded) ELSE decoded
       IN  decoded' = Append(kept, Numbered(d))
    /\ Notified
    /\ UNCHANGED <<time, kind, parsing, looper, starting, step, seen, listVars>>

\* Time 0 means that the stream is broken: the renderer is reset. The looper is
\* told of a new time if the subtitle is an external one.
SyncCurrentPresentTime(t) ==
    /\ time' = t
    /\ screen' = IF t = 0 THEN {} ELSE screen
    /\ IF kind = "ext" /\ t # -1
       THEN ~starting /\ Notified
       ELSE UNCHANGED armed
    /\ UNCHANGED <<kind, parsing, decoded, made, looper, starting, step,
                   seen, showing, fading, lastShown>>

-----------------------------------------------------------------------------
(* The looper: handleMessage *)

\* Into a list that is sorted by pts, behind what has the same pts.
InsertByPts(list, item) ==
    InsertAt(list, Cardinality({i \in DOMAIN list : list[i].pts <= item.pts}) + 1, item)

\* fixSpuDelay
FixSpuDelay(item) ==
    IF item.end <= item.pts THEN [item EXCEPT !.end = item.pts + NoPtsSpan] ELSE item

\* The item of an external subtitle at time t, as computeShowingSpuList and
\* getShowingSpuFromList find it: the search ends with the first item that ends
\* after t; several items are shown as one if the first is a text, and otherwise
\* the last of them.
ShowingAt(list, t) ==
    LET Later(i) == list[i].end > t
        reached == {i \in DOMAIN list : \A j \in 1..(i - 1) : ~Later(j)}
        due == {i \in reached : list[i].pts <= t /\ t <= list[i].end}
        first == CHOOSE i \in due : \A j \in due : i <= j
        last == CHOOSE i \in due : \A j \in due : j <= i
    IN  IF due = {} THEN None
        ELSE IF list[first].text
        THEN [list[first] EXCEPT !.ids = UNION {list[i].ids : i \in due}]
        ELSE list[last]

\* With all that is decoded in its place.
Collected ==
    LET with[i \in 0..Len(decoded)] ==
            IF i = 0 THEN showing ELSE InsertByPts(with[i - 1], FixSpuDelay(decoded[i]))
    IN  with[Len(decoded)]

\* handleExtSub reads the time, and only then ...
BeginExt ==
    /\ looper = "polling" /\ kind = "ext" /\ step = "idle" /\ armed /\ time >= 0
    /\ armed' = FALSE /\ step' = "ext" /\ seen' = time
    /\ UNCHANGED <<timeVars, looper, starting, listVars>>

\* What is found is shown unless it is the very item that was shown last; several
\* texts as one are a new item at every check.
ShownAnew ==
    lastShown' # None /\ (lastShown' # lastShown \/ Cardinality(lastShown'.ids) > 1)

\* Mutant of CheckExt: texts shown as one are not a new item.
CheckExt_Same ==
    /\ step = "ext"
    /\ step' = "idle" /\ armed' = FALSE /\ decoded' = <<>>
    /\ showing' = Collected
    /\ lastShown' = ShowingAt(showing', seen)
    /\ IF lastShown' \notin {None, lastShown}
       THEN fading' = <<>> /\ screen' = screen \cup {lastShown'.ids}
       ELSE /\ fading' = fading
            /\ screen' = IF lastShown' = None /\ lastShown # None THEN {} ELSE screen
    /\ UNCHANGED <<time, kind, parsing, made, looper, starting, seen>>

\* ... it removes the messages that came meanwhile. All that is decoded is taken.
\* An item that was shown last is not drawn again, whether or not the renderer was
\* reset meanwhile; before a moment without an item nothing is removed from it.
CheckExt ==
    /\ step = "ext"
    /\ step' = "idle" /\ armed' = FALSE /\ decoded' = <<>>
    /\ showing' = Collected
    /\ lastShown' = ShowingAt(showing', seen)
    /\ IF ShownAnew
       THEN fading' = <<>> /\ screen' = screen \cup {lastShown'.ids}
       ELSE /\ fading' = fading
            /\ screen' = IF lastShown' = None /\ lastShown # None THEN {} ELSE screen
    /\ UNCHANGED <<time, kind, parsing, made, looper, starting, seen>>

\* A pts that is far off is not used.
Retimed(item) ==
    IF item.pts >= time + FarOff \/ item.pts + FarOff <= time
    THEN [item EXCEPT !.pts = time + 1, !.end = time + 1 + FixSpan]
    ELSE item

\* At time 0 an item that is not for time 0 is dropped, a closed caption is not.
Queued(item) ==
    IF time = 0 /\ item.pts # 0 /\ ~item.cc THEN showing ELSE InsertByPts(showing, item)

\* Too much memory is queued: the older half goes.
Halved(list) ==
    IF Len(list) + 1 >= MaxQueued THEN SubSeq(list, Len(list) \div 2 + 1, Len(list)) ELSE list

\* handleStreamSub, until the first item is taken from the parser. With the time
\* not known the message is only sent again.
Take ==
    /\ looper = "polling" /\ kind = "stream" /\ step = "idle" /\ armed /\ time >= 0
    /\ armed' = FALSE /\ step' = "show"
    /\ IF decoded = <<>>
       THEN UNCHANGED <<decoded, showing>>
       ELSE /\ decoded' = Tail(decoded)
            /\ showing' = Halved(Queued(Retimed(Head(decoded))))
    /\ UNCHANGED <<time, kind, parsing, made, looper, starting, seen, fading, lastShown, screen>>

\* The time as the arithmetic of nanoseconds sees it: -1 is next to 0.
Clock == IF time < 0 THEN 0 ELSE time

\* An item without a pts is due now; one without an end gets one.
Timed(item) ==
    LET dated == IF item.pts = 0 /\ ~item.imm
                 THEN [item EXCEPT !.pts = Clock, !.end = Clock + FixSpan]
                 ELSE item
    IN  IF dated.end = 0 THEN [dated EXCEPT !.end = dated.pts + NoPtsSpan] ELSE dated

IsDue(item) == item.imm \/ item.pts <= Clock

\* How long an item stays once it is shown.
WithSpan(item) ==
    IF item.imm
    THEN [item EXCEPT !.pts = Clock, !.end = Clock + NoPtsSpan]
    ELSE IF item.end < item.pts + 1
    THEN [item EXCEPT !.end = item.pts + SmallSpan]
    ELSE item

\* combineSamePtsSubtitle: two texts for one pts are shown as one.
Combines(first, second) ==
    ~first.imm /\ first.text /\ first.pts = second.pts

\* What is shown first: with a second text for the same pts, the two as one.
SecondToo(list) == Len(list) > 1 /\ Combines(Timed(list[1]), list[2])
Shown(list) ==
    WithSpan(IF SecondToo(list)
             THEN [Timed(list[1]) EXCEPT !.ids = @ \cup list[2].ids]
             ELSE Timed(list[1]))

\* Mutant of ShowFirst: what is fading stays with the renderer.
ShowFirst_KeepsOld(list) ==
    /\ showing' = SubSeq(list, IF SecondToo(list) THEN 3 ELSE 2, Len(list))
    /\ fading' = <<Shown(list)>>
    /\ screen' = screen \cup {Shown(list).ids}

\* It takes the place of the item that is fading.
ShowFirst(list) ==
    /\ showing' = SubSeq(list, IF SecondToo(list) THEN 3 ELSE 2, Len(list))
    /\ fading' = <<Shown(list)>>
    /\ screen' = (screen \cup {Shown(list).ids}) \ {fading[i].ids : i \in DOMAIN fading}

\* Mutant of LookAgain: no message is sent.
LookAgain_Never == UNCHANGED armed

\* A message for the time when the first item is due.
LookAgain == armed' = TRUE

\* handleStreamSub, "handle presentation showing". Items ten minutes ahead go;
\* when none is left the handler returns, and no message is sent.
IsNear(item) == item.imm \/ item.pts < Clock + TenMinutes
NearBy ==
    LET near[i \in 0..Len(showing)] ==
            IF i = 0 THEN <<>>
            ELSE IF IsNear(showing[i]) THEN Append(near[i - 1], showing[i]) ELSE near[i - 1]
    IN  near[Len(showing)]
FirstIsDue == NearBy[1] = showing[1] /\ IsDue(Timed(showing[1]))

ShowNothing ==
    /\ step = "show" /\ NearBy = <<>>
    /\ step' = IF showing = <<>> THEN "fade" ELSE "idle"
    /\ showing' = <<>>
    /\ UNCHANGED <<timeVars, looper, starting, armed, seen, fading, lastShown, screen>>

ShowDue ==
    /\ step = "show" /\ NearBy # <<>> /\ FirstIsDue
    /\ step' = "fade" /\ ShowFirst(NearBy)
    /\ UNCHANGED <<timeVars, looper, starting, armed, seen, lastShown>>

ShowLater ==
    /\ step = "show" /\ NearBy # <<>> /\ ~FirstIsDue
    /\ step' = "fade" /\ showing' = NearBy /\ LookAgain
    /\ UNCHANGED <<timeVars, looper, starting, seen, fading, lastShown, screen>>

\* Mutant of Fades: nothing is faded that is over.
Fades_OnlyAhead(item) == time # 0 /\ item.end - time > Ahead

\* The differences are unsigned: an item that is over fades by one branch or the
\* other. At time 0 nothing fades.
Fades(item) ==
    \/ time > 0 /\ item.end <= time
    \/ time # 0 /\ item.end - time > Ahead

\* handleStreamSub, "handle presentation fadding": what stays on the screen is
\* looked at again in 15 ms.
Fade ==
    /\ step = "fade"
    /\ step' = "idle"
    /\ IF fading # <<>> /\ ~fading[1].keep
       THEN /\ armed' = TRUE
            /\ IF Fades(fading[1])
               THEN fading' = <<>> /\ screen' = screen \ {fading[1].ids}
               ELSE UNCHANGED <<fading, screen>>
       ELSE UNCHANGED <<armed, fading, screen>>
    /\ UNCHANGED <<timeVars, looper, starting, seen, showing, lastShown>>

-----------------------------------------------------------------------------
Show == ShowNothing \/ ShowDue \/ ShowLater
LooperStep == LooperBegin \/ BeginExt \/ CheckExt \/ Take \/ Show \/ Fade

PresentationNext ==
    \/ \E k \in {"stream", "ext"} : StartParser(k)
    \/ StartPresent \/ StartReset \/ StopParser \/ StopPresent
    \/ \E d \in Decodes : AddDecodedItem(d)
    \/ \E t \in Times : SyncCurrentPresentTime(t)
    \/ LooperStep

\* The looper's thread runs whenever a message is there.
PresentationSpec ==
    PresentationInit /\ [][PresentationNext]_vars /\ WF_vars(LooperStep)

-----------------------------------------------------------------------------
(* Properties *)

Items ==
    [ids : SUBSET (1..made), pts : Int, end : Int,
     imm : BOOLEAN, keep : BOOLEAN, text : BOOLEAN, cc : BOOLEAN]

\* The type invariant.
PresentationTypeOK ==
    /\ time \in Times \cup {0} /\ kind \in {"none", "stream", "ext"}
    /\ {parsing, starting, armed} \subseteq BOOLEAN
    /\ made \in 0..MaxDecoded
    /\ looper \in {"none", "new", "polling"} /\ step \in {"idle", "show", "fade", "ext"}
    /\ seen \in Nat
    /\ \A list \in {decoded, showing, fading} : ToSet(list) \subseteq Items
    /\ lastShown \in Items \cup {None}
    /\ screen \subseteq SUBSET (1..made)
    /\ Len(decoded) <= MaxSpuItems /\ Len(fading) <= 1

\* With a stream, what the renderer draws is the one item that the presentation
\* will take away: nothing is left on the screen that no list knows of, whatever
\* parser, looper and renderer did before.
ScreenIsFading ==
    kind = "stream" /\ looper = "polling" /\ ~starting
    => screen \subseteq {fading[i].ids : i \in DOMAIN fading}

\* With an external subtitle the screen is empty, or the item that was shown last
\* is on it. With no message waiting, no decoded item waits either, and the item
\* that was shown last is the one, among all that have arrived, for the time the
\* last check read.
ExternalShown ==
    kind = "ext" /\ looper = "polling" /\ ~starting
    => /\ screen # {} => lastShown # None /\ lastShown.ids \in screen
       /\ ~armed /\ step = "idle"
          => decoded = <<>> /\ lastShown = ShowingAt(showing, seen)

LastsAt(t) ==
    /\ <>[](kind = "ext" /\ parsing /\ looper = "polling" /\ ~starting /\ time = t)
    /\ []<><<SyncCurrentPresentTime(t)>>_armed

OnScreen == lastShown = None \/ lastShown.ids \in screen

\* A time that lasts and is reported again and again is followed by the external
\* subtitle; one report alone may be lost between BeginExt and CheckExt. Texts that
\* are shown as one are drawn at every check; a single item is not, and stays off
\* the screen when the renderer was reset while it was shown.
ExternalCatchesUp ==
    \A t \in Times \ {-1, 0} :
        LastsAt(t) =>
            <>[](lastShown = ShowingAt(showing, t)
                 /\ (OnScreen \/ (screen = {} /\ Cardinality(lastShown.ids) = 1)))

\* "external subtitle, just polling and showing the subtitle": at a time that lasts
\* the item for this time is on the screen. It is not after a time 0, or after a
\* check that came before the reset of startPresent.
ExternalOnScreen ==
    \A t \in Times \ {-1, 0} : LastsAt(t) => <>[]OnScreen

Polling == kind = "stream" /\ looper = "polling"
Waits(id) == \E i \in DOMAIN showing : id \in showing[i].ids /\ showing[i].pts <= time
Over(id) ==
    \E i \in DOMAIN fading :
        id \in fading[i].ids /\ ~fading[i].keep /\ fading[i].end <= time /\ time > 0
KeptOnScreen == fading # <<>> /\ fading[1].keep

\* A queued item whose time has come is shown, or dropped to save memory, without
\* any help from the parser; only an item that keeps showing holds it up.
DueIsShown ==
    \A id \in 1..MaxDecoded :
        (Polling /\ Waits(id)) ~> (~Polling \/ ~Waits(id) \/ KeptOnScreen)

\* An item that is over leaves the screen, whatever else is queued.
OverIsFaded ==
    \A id \in 1..MaxDecoded : (Polling /\ Over(id)) ~> (~Polling \/ ~Over(id))

=============================================================================
