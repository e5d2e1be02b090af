---------------------------- MODULE ClosedCaption ----------------------------
(***************************************************************************)
(* The closed caption decoder (parser/ClosedCaption.c) and the parser that  *)
(* owns it (ClosedCaptionParser.cpp).  The data thread reads packages and   *)
(* decodes them; every caption of the selected page becomes a node of a     *)
(* chain.  The render thread takes the nodes out when their time has come   *)
(* and hands them to the parser, which the callbacks find in sInstance.     *)
(*                                                                         *)
(* zvbi (external) decides which pages a package changes.  A clock is a      *)
(* choice of whether the time is up.  Threads are created without fail.     *)
(* caption2 is CLOSED_CAPTION_NONE, so there is no page to switch to.       *)
(***************************************************************************)
EXTENDS Integers, Sequences, FiniteSets

CONSTANTS
    Pages, CLOSED_CAPTION_MAX,
    DEFAULT,             \* asks for the page to be found by itself
    Captions1,           \* values of caption1
    MAX_DETECT_COUNTS,
    PtsModulus, FarAhead,  \* 2^32, and 450000: five seconds
    StartTimes, MaxTime, MaxNodes,   \* bounds
    Leads                \* how far ahead of the video captions come

ASSUME ClosedCaptionAssumption ==
    /\ Pages \subseteq 1 .. CLOSED_CAPTION_MAX - 1 /\ Captions1 \subseteq Pages \cup {DEFAULT}
    /\ MAX_DETECT_COUNTS \in Nat
    /\ PtsModulus \in Nat \ {0} /\ FarAhead \in 1 .. PtsModulus \div 2
    /\ StartTimes \subseteq Nat /\ Leads \subseteq Nat /\ MaxTime \in Nat /\ MaxNodes \in Nat

VARIABLES
    owner,       \* the parser object: "new", "playing", "closing", "joining", "gone"
    sInstance,   \* whether it points to the parser
    cc,          \* [running, vbi_pgno, auto, last_pgno, count, data_mask]
    ccLock,      \* cc->lock: "free" or its holder
    chain,       \* the nodes: captions [at], the time they belong to
    data,        \* the data thread: [at, page]
    render,      \* the render thread: "none", "start", "loop", "wait", "woken", "done"
    video, decodedTo,    \* the time on the screen, that of the last package
           \* last_data_mask, mBackupMask and the channels the application has
    noData,      \* nodata
    rendered     \* ghost: the captions last rendered, at this time on the screen

ccVars == <<owner, sInstance, cc, ccLock, chain, data, render, video, decodedTo, noData,
            rendered>>

ClosedCaptionInit ==
    /\ owner = "new" /\ sInstance = TRUE /\ ccLock = "free" /\ chain = <<>>
    /\ cc = [running |-> FALSE, vbi_pgno |-> DEFAULT, auto |-> FALSE,
             last_pgno |-> CLOSED_CAPTION_MAX, count |-> 0, data_mask |-> {}]
    /\ data = [at |-> "none", page |-> DEFAULT] /\ render = "none"
    /\ video \in StartTimes /\ decodedTo = video /\ noData = FALSE /\ rendered = <<>>

\* Mutant of Gap: the difference of the time stamps as they are.
Gap_NoWrap(pts, now) == (pts % PtsModulus) - (now % PtsModulus)

\* int32_t of the difference of two 32-bit time stamps
Gap(pts, now) ==
    LET d == ((pts % PtsModulus) + PtsModulus - (now % PtsModulus)) % PtsModulus
    IN IF d < PtsModulus \div 2 THEN d ELSE d - PtsModulus

-----------------------------------------------------------------------------
(* The parser's thread starts the decoder; whoever drops the parser stops it.  *)

\* startAmlCC, ClosedCaptionCreate, ClosedCaptionStart
startAmlCC ==
    /\ owner = "new" /\ owner' = "playing" /\ sInstance' = TRUE
    /\ \E caption \in Captions1 :
         cc' = [cc EXCEPT !.running = TRUE, !.vbi_pgno = caption, !.auto = caption = DEFAULT]
    /\ data' = [data EXCEPT !.at = "read"] /\ render' = "start"
    /\ UNCHANGED <<ccLock, chain, video, decodedTo, noData, rendered>>

\* The destructor, once stopParser has joined the parser's thread
DestroyParser ==
    /\ owner = "playing" /\ sInstance' = FALSE /\ owner' = "closing"
    /\ UNCHANGED <<cc, ccLock, chain, data, render, video, decodedTo, noData, rendered>>

ClosedCaptionStop ==
    /\ owner = "closing" /\ ccLock = "free"
    /\ cc' = [cc EXCEPT !.running = FALSE] /\ owner' = "joining"
    /\ render' = IF render = "wait" THEN "woken" ELSE render
    /\ UNCHANGED <<sInstance, ccLock, chain, data, video, decodedTo, noData, rendered>>

ClosedCaptionDestroy ==
    /\ owner = "joining" /\ data.at = "done" /\ render = "done"
    /\ owner' = "gone"
    /\ UNCHANGED <<sInstance, cc, ccLock, chain, data, render, video, decodedTo, noData, rendered>>

-----------------------------------------------------------------------------
(* The data thread                                                             *)

am_auto_detect_data_pgno(c, pgno) ==
    IF ~c.auto THEN c
    ELSE LET d == IF c.last_pgno >= pgno
                  THEN [c EXCEPT !.last_pgno = pgno, !.vbi_pgno = pgno] ELSE c
         IN [d EXCEPT !.count = @ + 1, !.auto = d.count + 1 < MAX_DETECT_COUNTS]

\* UserdataRead: a package, or none until the time is up
ReadPackage ==
    /\ data.at = "read"
    /\ IF ~cc.running THEN data' = [data EXCEPT !.at = "done"] /\ UNCHANGED decodedTo
       ELSE /\ \E t \in {decodedTo} \cup {u \in {video + n : n \in Leads} : u > decodedTo} :
                 decodedTo' = t
            /\ data' = [data EXCEPT !.at = "decode"]
    /\ UNCHANGED <<owner, sInstance, cc, ccLock, chain, render, video, noData, rendered>>

\* am_cc_vbi_event_handler before the lock: an event of the decoding, or one of
\* vbi_refresh_cc, which does not count as data; or there is no event
VbiEvent ==
    /\ data.at = "decode"
    /\ \/ \E p \in Pages, refresh \in BOOLEAN :
            /\ cc' = am_auto_detect_data_pgno(
                       IF refresh THEN cc ELSE [cc EXCEPT !.data_mask = @ \cup {p}], p)
            /\ data' = [data EXCEPT !.at = "event", !.page = p]
       \/ data' = [data EXCEPT !.at = "report"] /\ UNCHANGED cc
    /\ UNCHANGED <<owner, sInstance, ccLock, chain, render, video, decodedTo, noData, rendered>>

AppendNode ==
    /\ data.at = "event" /\ ccLock = "free" /\ data' = [data EXCEPT !.at = "report"]
    /\ IF cc.vbi_pgno = data.page /\ Len(chain) < MaxNodes
       THEN chain' = Append(chain, decodedTo) ELSE UNCHANGED chain
    /\ render' = IF render = "wait" THEN "woken" ELSE render
    /\ UNCHANGED <<owner, sInstance, cc, ccLock, video, decodedTo, noData, rendered>>

\* The report of what was seen, which is left out; it starts afresh when the
\* time is up
ReportData ==
    /\ data.at = "report" /\ data' = [data EXCEPT !.at = "read"]
    /\ \/ UNCHANGED cc
       \/ cc' = [cc EXCEPT !.data_mask = {}]     \* data_timeout
    /\ UNCHANGED <<owner, sInstance, ccLock, chain, render, video, decodedTo, noData, rendered>>

-----------------------------------------------------------------------------
(* The render thread                                                           *)

StartRender ==
    /\ render = "start" /\ ccLock = "free" /\ ccLock' = "render" /\ render' = "loop"
    /\ UNCHANGED <<owner, sInstance, cc, chain, data, video, decodedTo, noData, rendered>>

\* The timed wait, which gives the lock away
RenderWaits ==
    /\ render = "loop" /\ cc.running /\ ccLock' = "free" /\ render' = "wait"
    /\ UNCHANGED <<owner, sInstance, cc, chain, data, video, decodedTo, noData, rendered>>

WaitTimesOut ==
    /\ render = "wait" /\ render' = "woken"
    /\ UNCHANGED <<owner, sInstance, cc, ccLock, chain, data, video, decodedTo, noData, rendered>>

\* am_cc_render: the nodes go until one is due in less than FarAhead; the parser
\* takes them unless it is being dropped.  am_cc_clear: after ten seconds
\* without data for the page, the rest of the chain goes too.
am_cc_render ==
    /\ render = "woken" /\ ccLock = "free" /\ ccLock' = "render" /\ render' = "loop"
    /\ LET early == {i \in DOMAIN chain : Gap(chain[i], video) \in 1 .. FarAhead - 1}
           n == IF early = {} THEN Len(chain)
                ELSE (CHOOSE i \in early : \A j \in early : i <= j) - 1
       IN /\ rendered' = IF sInstance THEN SubSeq(chain, 1, n) ELSE <<>>
          /\ \/ chain' = SubSeq(chain, n + 1, Len(chain))
                /\ noData' = (noData /\ cc.vbi_pgno \notin cc.data_mask)
             \/ /\ cc.vbi_pgno \notin cc.data_mask /\ ~noData
                /\ chain' = <<>> /\ noData' = TRUE
    /\ UNCHANGED <<owner, sInstance, cc, data, video, decodedTo>>

RenderEnds ==
    /\ render = "loop" /\ ~cc.running /\ render' = "done" /\ ccLock' = "free" /\ chain' = <<>>
    /\ UNCHANGED <<owner, sInstance, cc, data, video, decodedTo, noData, rendered>>

VideoTime ==
    /\ video < MaxTime /\ video' = video + 1 /\ rendered' = <<>>
    /\ UNCHANGED <<owner, sInstance, cc, ccLock, chain, data, render, decodedTo, noData>>

ClosedCaptionNext ==
    \/ startAmlCC
    \/ DestroyParser
    \/ ClosedCaptionStop
    \/ ClosedCaptionDestroy
    \/ ReadPackage
    \/ VbiEvent
    \/ AppendNode
    \/ ReportData
    \/ StartRender
    \/ RenderWaits
    \/ WaitTimesOut
    \/ am_cc_render
    \/ RenderEnds
    \/ VideoTime

\* Every thread goes on, and a wait ends when its time is up
ClosedCaptionFair ==
    /\ SF_ccVars(ClosedCaptionStop) /\ WF_ccVars(ClosedCaptionDestroy)
    /\ WF_ccVars(ReadPackage) /\ WF_ccVars(VbiEvent) /\ SF_ccVars(AppendNode)
    /\ WF_ccVars(ReportData) /\ SF_ccVars(StartRender) /\ WF_ccVars(RenderWaits)
    /\ WF_ccVars(WaitTimesOut) /\ SF_ccVars(am_cc_render) /\ WF_ccVars(RenderEnds)

ClosedCaptionSpec == ClosedCaptionInit /\ [][ClosedCaptionNext]_ccVars
ClosedCaptionLiveSpec == ClosedCaptionSpec /\ ClosedCaptionFair

-----------------------------------------------------------------------------
(* A caption is handed over in the order of decoding and not before its time,  *)
(* unless its time is so far ahead that it is taken for stale; also where the   *)
(* 32 bits of a time stamp run over (am_cc_render, am_cc_render_thread).        *)
CaptionsOnTime ==
    /\ \A i \in DOMAIN rendered :
         /\ rendered[i] > video => rendered[i] - video >= FarAhead
         /\ i > 1 => rendered[i - 1] <= rendered[i]
    /\ ccLock = "render" <=> render = "loop"

(* Dropping the parser comes to an end: the joins in ClosedCaptionStop return  *)
(* whatever the two threads are doing (ClosedCaption.c:1001-1012).             *)
CaptionStopReturns == (owner = "closing") ~> (owner = "gone")
=============================================================================
