--------------------------- MODULE TeletextPages ----------------------------
(***************************************************************************)
(* Navigation in teletext (parser/TeletextParser.cpp): the remote control's *)
(* events, which updateParameter queues and the parser's thread takes one   *)
(* per byte that it reads; the pages that the decoder (zvbi, external)      *)
(* reports while a frame is decoded; and the queue of drawn pages, of which *)
(* every frame shows the first.                                             *)
(*                                                                         *)
(* A page is its number; the conversions between BCD and decimal numbers,   *)
(* which are inverse for these, are left out, and so are the bitmaps: a     *)
(* picture is the page it shows.  Allocation does not fail.  The branches   *)
(* of NEED_TELETEXT_CACHE_ZVBI_STATUS and NEED_TELETEXT_SUPPORT_LOAD_       *)
(* ANIMATION, which no build file defines, are not there.                   *)
(***************************************************************************)
EXTENDS Integers, Sequences, SequencesExt, FiniteSets, FiniteSetsExt, Functions

CONSTANTS
    OnAir,         \* the pages broadcast: <<number, sub-page>>
    SubtitlePages, \* the numbers whose pages carry C6_SUBTITLE
    FlofLinks,     \* the four links of a page, <<>> when it has none
    Sources,       \* "dtv", "atv" and "soft": the packets the source delivers
    Keys,          \* the events of the remote control, see Handle
    MaxKeys, MaxEvents,  \* bounds: events in all, reports in one frame
    MAX_BUFFERED_PAGES, TELETEXT_SUBTITLE_MAX_NUMBER,
    DOUBLE_HEIGHT_SCROLL_SECTION, TELETEXT_SUBPAGE_NUMBER_OF_DIGITS

ASSUME TeletextAssumption ==
    /\ OnAir \subseteq (100 .. 899) \X Nat /\ DOUBLE_HEIGHT_SCROLL_SECTION \in Nat
    /\ \A k \in Keys :
          /\ k[1] \in {"goto", "subtitle", "digit", "link", "next", "nextsub", "index", "back", "forward",
                       "hold", "submode", "mix", "reveal", "mode", "height", "scroll"}
          /\ k[1] = "link" => k[2] \in 1 .. 4

VARIABLES
    tt,        \* TeletextContext and the parser's own fields
    mControlCmds,
    frame,     \* -1 between frames, else how many reports the frame had
    pageShown,     \* the last picture handed to the presentation
    keysLeft

ttVars == <<tt, mControlCmds, frame, pageShown, keysLeft>>

Numbers == {p[1] : p \in OnAir}
NoPage == 0
AnySub == -1   \* AM_TT2_ANY_SUBNO
HomePage == 100   \* AM_TT2_HOME_PAGENO

TeletextInit ==
    /\ \E s \in Sources :
         tt = [source |-> s, tv |-> "none", vbi |-> FALSE, cache |-> {},
               pages |-> <<>>, handlerOk |-> TRUE, pageState |-> "display",
               mode |-> "subtitle", gotoPage |-> HomePage, subPageNum |-> 0,
               dispUpdate |-> FALSE, lock |-> FALSE, isSubtitle |-> FALSE,
               subtitlePages |-> <<>>, subtitlePageId |-> 1, gotoSubtitle |-> FALSE,
               nav |-> <<>>, back |-> <<>>, forward |-> <<>>, current |-> NoPage,
               digits |-> 0, subDigits |-> 0, subMode |-> FALSE, subNum |-> 0,
               mix |-> 0, dispMode |-> 0, height |-> "normal", heightIndex |-> 0,
               reveal |-> FALSE, textBack |-> NoPage]
    /\ mControlCmds = <<>> /\ frame = -1 /\ keysLeft = MaxKeys
    /\ pageShown = [header |-> NoPage, text |-> NoPage]

-----------------------------------------------------------------------------
(* The decoder's answers, from the pages it has received                       *)

SubPagesOf(c, p) == {s[2] : s \in {q \in c.cache : q[1] = p}}
vbi_fetch_vt_page(c, p, s) == <<p, s>> \in c.cache
\* Any cached number in the direction asked for, then round again
vbi_get_next_pgno(c, dir, p) ==
    LET have == {q[1] : q \in c.cache}
        ahead == {q \in have : (q - p) * dir > 0} IN
    IF ahead # {} THEN IF dir > 0 THEN Min(ahead) ELSE Max(ahead)
    ELSE IF have = {} THEN NoPage
    ELSE IF dir > 0 THEN Min(have) ELSE Max(have)

-----------------------------------------------------------------------------
(* The queue of drawn pages.  What is drawn is currentPage, which the new page *)
(* replaces unless the user holds it.                                          *)

Draw(c, p) ==
    LET d == [c EXCEPT !.current = IF c.lock THEN @ ELSE p] IN
    IF Len(c.pages) < MAX_BUFFERED_PAGES
    THEN [d EXCEPT !.pages = Append(@, d.current)]
    ELSE [d EXCEPT !.pages = <<>>, !.handlerOk = FALSE]

setNavigatorPageNumber(c, p) ==
    IF FlofLinks[p] = <<>> THEN c ELSE [c EXCEPT !.nav = FlofLinks[p]]

fetchVbiPage(c, p, s) ==
    LET sub == p \in SubtitlePages
        d == [c EXCEPT !.isSubtitle = sub] IN
    IF ~c.vbi \/ ~vbi_fetch_vt_page(c, p, s) THEN c
    ELSE IF c.tv = "none" /\ sub /\ Cardinality(SubPagesOf(c, p)) <= 1 THEN d
    ELSE Draw(setNavigatorPageNumber([d EXCEPT !.pageState = "display"], p), p)

getSubPageInfo(c) ==
    LET subs == SubPagesOf(c, c.gotoPage) IN
    IF ~c.vbi \/ c.lock THEN c
    ELSE IF c.subDigits >= TELETEXT_SUBPAGE_NUMBER_OF_DIGITS
    THEN [c EXCEPT !.subDigits = @ - 1,
                   !.subMode = @ /\ c.subDigits > TELETEXT_SUBPAGE_NUMBER_OF_DIGITS]
    ELSE [c EXCEPT !.subPageNum = IF subs = {} THEN 0 ELSE Min(subs)]

tt2AddBackCachePage(c) ==
    [c EXCEPT !.back = Append(@, <<c.gotoPage, c.subPageNum>>)]

-----------------------------------------------------------------------------
(* The operations behind the keys                                              *)

goHome(c) ==
    LET d == getSubPageInfo([c EXCEPT !.lock = FALSE, !.gotoPage = HomePage, !.subPageNum = 0,
                                      !.dispUpdate = TRUE, !.pageState = "search"])
    IN fetchVbiPage(d, HomePage, d.subPageNum)

MoveTo(c, p, s) == [getSubPageInfo([c EXCEPT !.subPageNum = s])
                        EXCEPT !.gotoPage = p, !.dispUpdate = TRUE]

\* The next page with a number; only the last of several is drawn
StepTo(b, dir, last) ==
    LET p == vbi_get_next_pgno(b, dir, b.gotoPage)
        e == [b EXCEPT !.pageState = "search"] IN
    IF p = NoPage THEN b
    ELSE MoveTo(IF last THEN fetchVbiPage(e, p, 0) ELSE e, p, 0)

Walk(c, dir, count) ==
    LET walk[n \in 0..count] == IF n = 0 THEN c ELSE StepTo(walk[n - 1], dir, n = count)
    IN walk[count]

\* The count-th next page, or the count-th link of the last page that had links
fetchCountPage(c, dir, count) ==
    LET d == tt2AddBackCachePage([c EXCEPT !.lock = FALSE])
    IN IF Len(c.nav) # 4 THEN Walk(d, dir, count)
       ELSE IF c.nav[count] = NoPage THEN d
       ELSE MoveTo(fetchVbiPage(d, c.nav[count], 0), c.nav[count], 0)

nextPage(c, dir) ==
    LET d == tt2AddBackCachePage([c EXCEPT !.lock = FALSE])
        p == vbi_get_next_pgno(c, dir, c.gotoPage)   \* getVbiNextValidPage
    IN IF p = NoPage THEN d
       ELSE MoveTo(fetchVbiPage([d EXCEPT !.pageState = "search"], p, 0), p, 0)

nextSubPage(c, dir) ==
    LET subs == SetToSortSeq(SubPagesOf(c, c.gotoPage), <)
        at == SelectInSeq(subs, LAMBDA s : s = c.subPageNum)
        i == IF at = 0 THEN Len(subs) + 1 ELSE at
        j == IF dir > 0 THEN (IF i >= Len(subs) THEN 1 ELSE i + 1)
                        ELSE (IF i <= 1 THEN Len(subs) ELSE i - 1)
        s == IF subs = <<>> THEN 0 ELSE subs[j]
    IN IF c.tv = "none" THEN [c EXCEPT !.lock = FALSE]
       ELSE [fetchVbiPage([c EXCEPT !.lock = FALSE], c.gotoPage, s)
                EXCEPT !.subPageNum = s, !.dispUpdate = TRUE]

gotoPage(c, p, s) ==
    LET d == [tt2AddBackCachePage(c) EXCEPT
                !.lock = FALSE, !.gotoPage = p,
                !.subPageNum = IF c.mode = "graphics" THEN s ELSE AnySub] IN
    IF p \notin 100..899 THEN c
    ELSE IF c.mode = "graphics" THEN fetchVbiPage([d EXCEPT !.dispUpdate = TRUE], p, s)
    ELSE d

gotoBackPage(c) ==
    LET top == Last(c.back) IN
    IF Len(c.back) <= 1 THEN c
    ELSE fetchVbiPage([c EXCEPT !.lock = FALSE, !.dispUpdate = TRUE,
                         !.forward = Append(@, <<c.gotoPage, c.subPageNum>>),
                         !.back = Front(@), !.gotoPage = top[1], !.subPageNum = top[2]],
                      top[1], 0)

gotoForwardPage(c) ==
    LET top == Last(c.forward) IN
    IF c.forward = <<>> THEN c
    ELSE fetchVbiPage([c EXCEPT !.lock = FALSE, !.dispUpdate = TRUE,
                         !.back = Append(@, <<c.gotoPage, c.subPageNum>>),
                         !.forward = Front(@), !.gotoPage = top[1], !.subPageNum = top[2]],
                      top[1], top[2])

\* subtitlePages[id], 0 beyond the pages found
SubtitlePage(c, id) == IF id \in DOMAIN c.subtitlePages THEN c.subtitlePages[id] ELSE NoPage

gotoDefaultSubtitle(c, id) ==
    LET d == [c EXCEPT !.mode = "graphics"] IN
    IF SubtitlePage(c, id) # NoPage THEN gotoPage(d, SubtitlePage(c, id), 0)
    ELSE [d EXCEPT !.gotoSubtitle = TRUE, !.dispUpdate = TRUE]

\* TT_EVENT_GO_TO_SUBTITLE; p is NoPage when the key names no page, which
\* convertPageDecimal2Hex takes for page 100
gotoSubtitle(c, p) ==
    LET id == c.subtitlePageId
        d == [c EXCEPT !.mode = "graphics"] IN
    IF c.tv = "none" \/ p # NoPage \/ (SubtitlePage(c, id) = NoPage /\ id = 1)
    THEN gotoPage([c EXCEPT !.mode = "subtitle"], IF p = NoPage THEN HomePage ELSE p, 0)
    ELSE IF SubtitlePage(c, id) = NoPage
    THEN gotoDefaultSubtitle([d EXCEPT !.subtitlePageId = 1], 1)
    ELSE gotoDefaultSubtitle(
            [d EXCEPT !.subtitlePageId = IF SubtitlePage(c, id + 1) # NoPage THEN id + 1 ELSE 1], id)

Digit(c, n) ==
    LET page == c.digits * 10 + n
        sub == c.subNum * 10 + n
        d == [c EXCEPT !.subMode = TRUE, !.subDigits = @ + 1, !.subNum = sub,
                       !.dispUpdate = @ \/ c.mode = "graphics"] IN
    IF ~c.subMode
    THEN IF page = 0 \/ page = 9 \/ page > 900 THEN [c EXCEPT !.digits = 0]
         ELSE IF page \in 100..899 /\ page # c.gotoPage
         THEN [gotoPage([c EXCEPT !.pageState = "input"], page, 0) EXCEPT !.digits = 0]
         ELSE [c EXCEPT !.digits = page]
    ELSE CASE c.subDigits + 1 < TELETEXT_SUBPAGE_NUMBER_OF_DIGITS -> d
           [] c.subDigits + 1 = TELETEXT_SUBPAGE_NUMBER_OF_DIGITS ->
                 [d EXCEPT !.subPageNum = sub, !.subDigits = 10]
           [] OTHER -> c

doubleHeight(c) ==
    CASE c.height = "normal" -> [c EXCEPT !.height = "top", !.heightIndex = 0]
      [] c.height = "top" -> [c EXCEPT !.height = "bottom",
                                       !.heightIndex = DOUBLE_HEIGHT_SCROLL_SECTION + 1]
      [] OTHER -> [c EXCEPT !.height = "normal", !.heightIndex = 0]

\* Mutant of doubleScroll: it does not stop at the top.
doubleScroll_PastTop(c, dir) ==
    IF c.height = "normal" THEN c
    ELSE CASE dir > 0 /\ c.heightIndex <= DOUBLE_HEIGHT_SCROLL_SECTION + 1 ->
                 [c EXCEPT !.heightIndex = @ - 1]
           [] dir < 0 /\ c.heightIndex \in 0..DOUBLE_HEIGHT_SCROLL_SECTION ->
                 [c EXCEPT !.heightIndex = @ + 1]
           [] OTHER -> c

doubleScroll(c, dir) ==
    IF c.height = "normal" THEN c
    ELSE CASE dir > 0 /\ c.heightIndex \in 1..(DOUBLE_HEIGHT_SCROLL_SECTION + 1) ->
                 [c EXCEPT !.heightIndex = @ - 1]
           [] dir < 0 /\ c.heightIndex \in 0..DOUBLE_HEIGHT_SCROLL_SECTION ->
                 [c EXCEPT !.heightIndex = @ + 1]
           [] OTHER -> c

\* setDisplayMode (m = 1) and setClockMode (m = 2): each only leaves its own mode
Toggled(c, m) == [c EXCEPT !.dispMode = IF @ = 0 THEN m ELSE IF @ = m THEN 0 ELSE @]

\* handleControl
Handle(c, key) ==
    CASE key[1] = "goto" ->
            gotoPage([c EXCEPT !.subMode = FALSE, !.pageState = "search", !.mode = "graphics"],
                     key[2], 0)
      [] key[1] = "subtitle" -> gotoSubtitle(c, key[2])
      [] key[1] = "digit" -> Digit(c, key[2])
      [] key[1] = "link" -> fetchCountPage(c, 1, key[2])
      [] key[1] = "next" -> nextPage(c, key[2])
      [] key[1] = "nextsub" -> nextSubPage(c, key[2])
      [] key[1] = "index" -> goHome([c EXCEPT !.mode = "graphics"])
      [] key[1] = "back" -> gotoBackPage(c)
      [] key[1] = "forward" -> gotoForwardPage(c)
      [] key[1] = "hold" -> [c EXCEPT !.lock = ~@, !.dispUpdate = TRUE]
      [] key[1] = "submode" -> [c EXCEPT !.subMode = ~@, !.subDigits = 0, !.subNum = 0]
      [] key[1] = "mix" -> [c EXCEPT !.mix = (@ + 1) % 3]
      [] key[1] = "reveal" -> [c EXCEPT !.reveal = ~@]
      [] key[1] = "mode" -> Toggled(c, key[2])
      [] key[1] = "height" -> doubleHeight(c)
      [] key[1] = "scroll" -> doubleScroll(c, key[2])

-----------------------------------------------------------------------------
(* The decoder's reports                                                       *)

isRedundantSubtitlePage(list, p) == \E i \in DOMAIN list : list[i] = p

selectSortSubtitlePage(list) ==
    LET order == CHOOSE q \in Bijection(DOMAIN list, DOMAIN list) :
                    \A i, j \in DOMAIN list : i < j => list[q[i]] <= list[q[j]]
    IN [i \in DOMAIN list |-> list[order[i]]]

\* The list of subtitle pages, kept while the display is updated; it is sorted as
\* far as the place of a page that is put into it
NoteSubtitlePage(c, p) ==
    LET list == c.subtitlePages
        new == p \in SubtitlePages /\ ~isRedundantSubtitlePage(list, p)
               /\ Len(list) < TELETEXT_SUBTITLE_MAX_NUMBER
        more == IF new THEN Append(list, p) ELSE list IN
    IF ~c.dispUpdate \/ c.tv = "none" THEN c
    ELSE [c EXCEPT !.subtitlePages = IF new THEN selectSortSubtitlePage(more) ELSE more,
                   !.gotoPage = IF c.gotoSubtitle /\ p \in SubtitlePages THEN more[1] ELSE @,
                   !.gotoSubtitle = @ /\ p \notin SubtitlePages]

\* handler, for a page with sub-page s; soon: within TELETEXT_MIN_INTERVAL_TIME
\* of the last rolling page, late: the page number was on show long enough
handler(b, p, s, soon, late) ==
    LET c == NoteSubtitlePage(b, p)
        sub == p \in SubtitlePages
        goal == p = c.gotoPage
        accepted == c.pageState # "display" \/ (goal /\ (c.subPageNum = AnySub \/ s = c.subPageNum))
        d == [c EXCEPT !.isSubtitle = sub]
        e == IF goal /\ sub THEN [d EXCEPT !.dispUpdate = FALSE, !.pageState = "display"] ELSE d
        f == setNavigatorPageNumber(
                [e EXCEPT !.pageState = IF goal /\ @ = "search" THEN "display" ELSE @], p) IN
    CASE ~b.handlerOk -> b
      [] b.handlerOk /\ ~accepted ->
            IF ~goal /\ late
            THEN fetchVbiPage(fetchVbiPage(c, c.gotoPage, c.subPageNum), c.gotoPage, c.subPageNum)
            ELSE c
      [] b.handlerOk /\ accepted /\ e.dispUpdate ->
            IF sub THEN e ELSE IF soon /\ ~goal THEN f ELSE Draw(f, p)
      [] OTHER -> IF sub /\ goal THEN Draw(e, p) ELSE e

tt2TimeUpdate(c) ==
    LET d == getSubPageInfo(c)
        once == fetchVbiPage(d, d.gotoPage, d.subPageNum) IN
    IF ~c.dispUpdate THEN c
    ELSE IF vbi_fetch_vt_page(d, d.gotoPage, d.subPageNum)
    THEN fetchVbiPage(once, d.gotoPage, d.subPageNum) ELSE once

\* saveTeletextGraphicsRect2Spu: the state of now, not of when it was drawn,
\* says how much of the picture is pageShown
Show(c, p) ==
    CASE c.pageState = "display" -> [header |-> p, text |-> p]
      [] c.pageState # "display" /\ c.isSubtitle -> pageShown
      [] c.pageState = "search" /\ ~c.isSubtitle -> [header |-> p, text |-> NoPage]
      [] OTHER -> [header |-> p, text |-> c.textBack]

-----------------------------------------------------------------------------
(* Steps of the service's thread and of the parser's thread                    *)

updateParameter(key) ==
    /\ keysLeft > 0 /\ frame = -1
    /\ mControlCmds' = Append(mControlCmds, key) /\ keysLeft' = keysLeft - 1
    /\ UNCHANGED <<tt, frame, pageShown>>

handleControl ==
    /\ frame = -1 /\ tt.vbi /\ mControlCmds # <<>>
    /\ tt' = Handle(tt, Head(mControlCmds)) /\ mControlCmds' = Tail(mControlCmds)
    /\ UNCHANGED <<frame, pageShown, keysLeft>>

\* The head of teletextDecodeFrame, with what its caller has set
FrameBegins ==
    /\ frame = -1
    /\ tt' = [tt EXCEPT !.vbi = TRUE,
                        !.tv = IF tt.source = "soft" THEN @ ELSE tt.source,
                        !.handlerOk = @ \/ tt.source # "atv"]
    /\ frame' = 0
    /\ UNCHANGED <<mControlCmds, pageShown, keysLeft>>

PageReported(p) ==
    /\ frame \in 0..(MaxEvents - 1)
    /\ \E soon, late \in BOOLEAN :
         tt' = handler([tt EXCEPT !.cache = @ \cup {p}], p[1], p[2], soon, late)
    /\ frame' = frame + 1
    /\ UNCHANGED <<mControlCmds, pageShown, keysLeft>>

TimeReported ==
    /\ frame \in 0..(MaxEvents - 1)
    /\ tt' = tt2TimeUpdate(tt) /\ frame' = frame + 1
    /\ UNCHANGED <<mControlCmds, pageShown, keysLeft>>

\* The rest of teletextDecodeFrame: the first picture is pageShown, unless the
\* frame has failed
FrameEnds ==
    /\ frame >= 0 /\ frame' = -1
    /\ IF (tt.handlerOk \/ tt.source = "atv") /\ tt.pages # <<>>
       THEN LET p == Head(tt.pages) IN
            /\ pageShown' = Show(tt, p)
            /\ tt' = [tt EXCEPT !.pages = Tail(@),
                                !.textBack = IF tt.pageState = "display" /\ ~tt.isSubtitle
                                                /\ tt.height = "normal" THEN p ELSE @]
       ELSE UNCHANGED <<pageShown, tt>>
    /\ UNCHANGED <<mControlCmds, keysLeft>>

TeletextNext ==
    \/ \E key \in Keys : updateParameter(key)
    \/ handleControl
    \/ FrameBegins
    \/ \E p \in OnAir : PageReported(p)
    \/ TimeReported
    \/ FrameEnds

TeletextSpec == TeletextInit /\ [][TeletextNext]_ttVars

-----------------------------------------------------------------------------
(* The subtitle pages found are in order, each once, so that the subtitle key  *)
(* goes through all of them (insertion, sorting, 755-784 and 818-877); the     *)
(* enlarged page is never scrolled past its section (1875-1924).               *)
SubtitlePagesSorted ==
    /\ \A i \in 1..(Len(tt.subtitlePages) - 1) : tt.subtitlePages[i] < tt.subtitlePages[i + 1]
    /\ tt.heightIndex \in 0..(DOUBLE_HEIGHT_SCROLL_SECTION + 1)
    /\ tt.height = "normal" => tt.heightIndex = 0
=============================================================================
