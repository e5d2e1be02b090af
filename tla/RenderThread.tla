---------------------------- MODULE RenderThread ----------------------------
(* What is on the screen: WLRender, FBRender and DFBRender, which are the      *)
(* same code over different devices, but for the message that only DFBRender   *)
(* sends for an item removed. The presentation changes the list of items to    *)
(* show and then sends a message; the renderer's own thread draws the list, or *)
(* clears the screen, for each message. A device clears its whole surface      *)
(* before each image, so that of the items drawn the last one is seen; an item *)
(* that cannot be drawn (captions that are no valid JSON) leaves the screen as *)
(* it was. Two threads call: the presentation's looper, and the one that tells *)
(* it the time, which resets when the stream is broken (Presentation.cpp:249-  *)
(* 252). The calls come after the thread has its looper.                       *)
EXTENDS Integers, Sequences, SequencesExt, Functions

CONSTANTS
    RenderItems,   \* items the presentation shows
    Undrawable,    \* those of them that cannot be drawn
    MaxMessages    \* bound: messages that wait

ASSUME RenderAssumption == Undrawable \subseteq RenderItems /\ MaxMessages \in Nat \ {0}

VARIABLES
    mShowingSubs,    \* the list
    unsent,          \* of each caller, the message of its call that it has still to send, or "none"
    messages,        \* "init", "show" and "clear", as sent
    device,          \* "none", "ready" or "failed"
    mRequestExit,
    threadDone,
    drawing,         \* what remains to be drawn of the list, under mRenderMutex
    screenShows,     \* the item on the screen, or "nothing"
    outdated         \* the list has changed, or the screen was cleared, without a message to draw it

renderVars == <<mShowingSubs, unsent, messages, device, mRequestExit, threadDone, drawing,
                screenShows, outdated>>

Callers == {"looper", "time"}

RenderInit ==
    /\ mShowingSubs = <<>> /\ messages = <<"init">> /\ device = "none"
    /\ unsent = [c \in Callers |-> "none"]
    /\ mRequestExit = FALSE /\ threadDone = FALSE /\ drawing = <<>>
    /\ screenShows = "nothing" /\ outdated = FALSE

-----------------------------------------------------------------------------
(* The calls of the presentation                                               *)

\* The list without the item, which is in it at most once
Without(item) ==
    IF item \in Range(mShowingSubs)
    THEN RemoveAt(mShowingSubs, CHOOSE i \in DOMAIN mShowingSubs : mShowingSubs[i] = item)
    ELSE mShowingSubs

\* The list is changed under mRenderMutex, which keeps the calls out while it is
\* drawn; the message, if there is one, is sent afterwards
Change(caller, list, message) ==
    /\ drawing = <<>> /\ unsent[caller] = "none"
    /\ mShowingSubs' = list /\ unsent' = [unsent EXCEPT ![caller] = message]
    /\ UNCHANGED <<messages, device, mRequestExit, threadDone, drawing, screenShows>>

sendMessage(caller) ==
    /\ unsent[caller] # "none" /\ Len(messages) < MaxMessages
    /\ messages' = Append(messages, unsent[caller])
    /\ unsent' = [unsent EXCEPT ![caller] = "none"]
    /\ UNCHANGED <<mShowingSubs, device, mRequestExit, threadDone, drawing, screenShows, outdated>>

showSubtitleItem(item) ==
    /\ item \notin Range(mShowingSubs)
    /\ Change("looper", Append(mShowingSubs, item), "show") /\ UNCHANGED outdated

\* Mutant of hideSubtitleItem: no message is sent.
hideSubtitleItem_Silent(item) == Change("looper", Without(item), "none") /\ UNCHANGED outdated

hideSubtitleItem(item) == Change("looper", Without(item), "show") /\ UNCHANGED outdated

resetSubtitleItem(caller) == Change(caller, <<>>, "clear") /\ outdated' = FALSE

\* DFBRender sends a message as for an item to hide. The others send none: the
\* next call will draw
removeSubtitleItem(item) ==
    \/ Change("looper", Without(item), "show") /\ UNCHANGED outdated
    \/ /\ Change("looper", Without(item), "none")
       /\ outdated' = (outdated \/ mShowingSubs' # mShowingSubs)

-----------------------------------------------------------------------------
(* The renderer's thread                                                       *)

Handles(message) ==
    /\ ~threadDone /\ ~mRequestExit /\ drawing = <<>>
    /\ messages # <<>> /\ Head(messages) = message
    /\ UNCHANGED <<unsent, threadDone>>

\* Without a device the thread ends, and nothing is drawn any more. The message
\* to clear at the start is sent behind what came before the device
initDevice ==
    /\ Handles("init")
    /\ \/ device' = "ready" /\ messages' = Append(Tail(messages), "clear") /\ UNCHANGED mRequestExit
       \/ device' = "failed" /\ messages' = <<>> /\ mRequestExit' = TRUE
    /\ UNCHANGED <<mShowingSubs, drawing, screenShows, outdated>>

\* An item shown by then is cleared too: one drawn before the message of the
\* start, or shown by the looper between another's reset and its message
clearScreen ==
    /\ Handles("clear") /\ outdated' = (outdated \/ mShowingSubs # <<>>)
    /\ messages' = Tail(messages) /\ screenShows' = "nothing"
    /\ UNCHANGED <<mShowingSubs, device, mRequestExit, drawing>>

drawItems ==
    /\ Handles("show") /\ messages' = Tail(messages) /\ outdated' = FALSE
    /\ drawing' = mShowingSubs
    /\ screenShows' = IF mShowingSubs = <<>> THEN "nothing" ELSE screenShows
    /\ UNCHANGED <<mShowingSubs, device, mRequestExit>>

drawImage ==
    /\ drawing # <<>> /\ drawing' = Tail(drawing)
    /\ screenShows' = IF Head(drawing) \in Undrawable THEN screenShows ELSE Head(drawing)
    /\ UNCHANGED <<mShowingSubs, unsent, messages, device, mRequestExit, threadDone, outdated>>

onThreadExit ==
    /\ mRequestExit /\ ~threadDone /\ threadDone' = TRUE
    /\ UNCHANGED <<mShowingSubs, unsent, messages, device, mRequestExit, drawing, screenShows, outdated>>

PresentationCall ==
    \/ \E item \in RenderItems :
          showSubtitleItem(item) \/ hideSubtitleItem(item) \/ removeSubtitleItem(item)
    \/ \E caller \in Callers : resetSubtitleItem(caller) \/ sendMessage(caller)

RenderStep == initDevice \/ clearScreen \/ drawItems \/ drawImage \/ onThreadExit

RenderNext == PresentationCall \/ RenderStep
RenderSpec == RenderInit /\ [][RenderNext]_renderVars

-----------------------------------------------------------------------------
\* The item of the list that is drawn last, if any can be drawn
IsLastDrawable(list, i) ==
    /\ i \in DOMAIN list /\ list[i] \notin Undrawable
    /\ \A j \in DOMAIN list : j > i => list[j] \in Undrawable

(* When no message waits or is still to be sent, the screen shows the last     *)
(* item of the list that can be drawn, and nothing if the list is empty,       *)
(* whatever was shown, hidden and reset before it by either thread, in calls   *)
(* that came while the renderer was drawing. What was removed without a        *)
(* message may still be seen (removeSubtitleItem), an item is cleared that was *)
(* shown before the device was there or between another thread's reset and its *)
(* message (wlInit, syncCurrentPresentTime), and the screen is not cleared for *)
(* items that cannot be drawn (drawItems).                                     *)
ScreenFollowsList ==
    (/\ device = "ready" /\ messages = <<>> /\ \A c \in Callers : unsent[c] = "none"
     /\ drawing = <<>> /\ ~outdated) =>
       /\ mShowingSubs = <<>> => screenShows = "nothing"
       /\ \A i \in DOMAIN mShowingSubs :
             IsLastDrawable(mShowingSubs, i) => screenShows = mShowingSubs[i]
=============================================================================
