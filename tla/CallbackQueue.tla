--------------------------- MODULE CallbackQueue ---------------------------
(* Events and images on their way to the clients: the parsers post events and  *)
(* AndroidHidlRemoteRender posts images to AndroidCallbackMessageQueue, whose  *)
(* looper thread hands them to SubtitleServer one by one. A message only says  *)
(* that there may be entries; it is sent again while there are any, and later, *)
(* when there are none. An image lies in the shared memory of a fixed key      *)
(* until a client removes it; no client of this build registers for images, so *)
(* none does. The queue is that of the one server and is never destroyed; the  *)
(* calls come after its thread has made the looper.                            *)
EXTENDS Integers, Sequences, SequencesExt

CONSTANTS
    EventKinds,       \* events of the parsers
    DisplayItems,     \* items shown: [id, object, drawn], object its segment's number
    MaxPosts          \* bound: posts and calls of the renderer

ASSUME CallbackQueueAssumption == MaxPosts \in Nat /\ "image" \notin EventKinds

VARIABLES
    mSubtitleData,    \* the entries: [n, kind]
    posted,           \* ghost: entries that were queued
    checkNow, checkLater,   \* MSG_CHECK_SUBDATA: how many are due, and whether one is delayed
    entry,            \* the entry taken by handleMessage, <<>> for none
    notified,         \* ghost: entries handed to the server
    shmImage,         \* what is in the segment of key 6549: an entry's number, 0 for no segment
    remoteSubs,       \* AndroidHidlRemoteRender::mShowingSubs
    mCurrentMaxObjectId,
    postCalls

queueState == <<mSubtitleData, posted, checkNow, shmImage>>
looperState == <<checkLater, entry, notified>>
callbackVars == <<queueState, looperState, remoteSubs, mCurrentMaxObjectId, postCalls>>

CallbackInit ==
    /\ mSubtitleData = <<>> /\ posted = 0 /\ checkNow = 0 /\ checkLater = TRUE
    /\ entry = <<>> /\ notified = <<>> /\ shmImage = 0
    /\ remoteSubs = <<>> /\ mCurrentMaxObjectId = 0 /\ postCalls = 0

-----------------------------------------------------------------------------
\* What is queued and sent under mLock by a post
Push(kind) ==
    /\ posted' = posted + 1 /\ mSubtitleData' = Append(mSubtitleData, [n |-> posted', kind |-> kind])
    /\ checkNow' = checkNow + 1

\* The segment is made for this image, or there is one already and the image
\* is dropped; nothing without data
copyShareMemory(hasData) == hasData /\ shmImage = 0

postDisplayData(hasData) ==
    IF copyShareMemory(hasData) THEN Push("image") /\ shmImage' = posted'
    ELSE UNCHANGED queueState

Bounded == postCalls < MaxPosts /\ postCalls' = postCalls + 1

PostEvent(kind) ==
    /\ Bounded /\ Push(kind)
    /\ UNCHANGED <<shmImage, looperState, remoteSubs, mCurrentMaxObjectId>>

\* The last item shown that has a picture is posted; without items, each
\* object is posted as fading, with no data
postSubtitleData(subs) ==
    LET i == SelectLastInSeq(subs, LAMBDA it : it.drawn) IN
    IF subs = <<>> THEN postDisplayData(FALSE) /\ mCurrentMaxObjectId' = 0
    ELSE IF i = 0 THEN UNCHANGED <<queueState, mCurrentMaxObjectId>>
    ELSE /\ postDisplayData(TRUE)
         /\ mCurrentMaxObjectId' = IF subs[i].object > mCurrentMaxObjectId THEN subs[i].object
                                   ELSE mCurrentMaxObjectId

RemoteShow(item) ==
    /\ Bounded /\ remoteSubs' = Append(remoteSubs, item) /\ postSubtitleData(remoteSubs')
    /\ UNCHANGED looperState

\* Hiding one item, as resetting, hides them all
RemoteClear ==
    /\ Bounded /\ remoteSubs # <<>> /\ remoteSubs' = <<>> /\ postSubtitleData(<<>>)
    /\ UNCHANGED looperState

RemoteRemove(item) ==
    /\ Bounded /\ item \in ToSet(remoteSubs)
    /\ remoteSubs' = SelectSeq(remoteSubs, LAMBDA it : it # item)
    /\ UNCHANGED <<queueState, looperState, mCurrentMaxObjectId>>

-----------------------------------------------------------------------------
\* Mutant of Rearm: as if each entry still had its message.
Rearm_OnePerEntry(left) ==
    /\ checkNow' = 0
    /\ checkLater' = (left = <<>>)

\* The looper delivers a message that is due, or that was delayed for long
\* enough. One entry is taken; all other messages are replaced by one
Rearm(left) ==
    /\ checkNow' = IF left # <<>> THEN 1 ELSE 0
    /\ checkLater' = (left = <<>>)

handleMessage ==
    /\ entry = <<>>
    /\ (checkNow > 0 \/ checkLater)
    /\ entry' = IF mSubtitleData = <<>> THEN <<>> ELSE <<Head(mSubtitleData)>>
    /\ mSubtitleData' = SubSeq(mSubtitleData, 2, Len(mSubtitleData))
    /\ Rearm(mSubtitleData')
    /\ UNCHANGED <<posted, shmImage, notified, remoteSubs, mCurrentMaxObjectId, postCalls>>

\* Outside mLock: onSubtitleEventNotify or onSubtitleDisplayNotify
Notify ==
    /\ entry # <<>> /\ notified' = notified \o entry /\ entry' = <<>>
    /\ UNCHANGED <<queueState, checkLater, remoteSubs, mCurrentMaxObjectId, postCalls>>

CallbackNext ==
    \/ \E k \in EventKinds : PostEvent(k)
    \/ \E it \in DisplayItems : RemoteShow(it) \/ RemoteRemove(it)
    \/ RemoteClear \/ handleMessage \/ Notify

CallbackSpec == CallbackInit /\ [][CallbackNext]_callbackVars

-----------------------------------------------------------------------------
(* Every entry queued is handed over once and in order, and while entries wait *)
(* a message is due for them, although handling one removes all the messages   *)
(* sent for the others; without entries a message is delayed, so that the      *)
(* looper is never left without one (handleMessage, AndroidCallbackMessage-    *)
(* Queue.cpp:89-106). An image handed over is the one in the shared memory, as *)
(* a segment that is there is not written again (288).                         *)
EntriesHandedOver ==
    /\ [i \in DOMAIN (notified \o entry \o mSubtitleData) |-> (notified \o entry \o mSubtitleData)[i].n]
          = [i \in 1..posted |-> i]
    /\ IF mSubtitleData # <<>> THEN checkNow > 0 ELSE (checkNow > 0 \/ checkLater)
    /\ \A i \in DOMAIN notified : notified[i].kind = "image" => shmImage = notified[i].n
=============================================================================
