---------------------------- MODULE DriverSource ----------------------------
(* The sources that read a device, DeviceSource and VbiSource: the thread     *)
(* that reads subtitles from the driver into a BufferSegment, the thread of   *)
(* DeviceSource that tells the session the time, and the service's thread,    *)
(* which attaches, detaches and destroys. The driver is external: it offers   *)
(* one subtitle after the other, a read gives some of its bytes, and what is  *)
(* left of one after an error is lost. mLock is taken for each round of the   *)
(* time thread and for each change of the listeners. A round of the reading   *)
(* thread up to the length is one step: in the code a descriptor that the     *)
(* destructor has closed in between makes poll and ioctl fail.                *)
EXTENDS Integers, Sequences

CONSTANTS
    SourceKinds,     \* "dev" or "vbi"
    SubtitleSizes,   \* bytes that AMSTREAM_IOC_SUB_LENGTH can report
    MaxSubtitles     \* bound: subtitles the driver offers

ASSUME DriverSourceAssumption == SubtitleSizes \subseteq Nat /\ MaxSubtitles \in Nat

VARIABLES
    srcKind,
    srcState,        \* mState
    mExitRequested,
    mRdFd,           \* "open" or "closed"
    mInfoListeners,  \* the sessions registered: none or {"session"}
    session,         \* "none", "alive" or "destroyed"
    ownerAt,         \* what the service's thread does next
    infoLock,        \* who holds mLock: "free" or "time"
    timeThread,      \* "none", "test", "lock", "look", "call" or "done"
    readThread,      \* "none", "test", "read" or "done"
    offered,         \* subtitles the driver has offered
    reading,         \* the one being read: [n, size, done]
    mSegment         \* what was pushed: [n, whole]

drvVars == <<srcKind, srcState, mExitRequested, mRdFd, mInfoListeners, session, ownerAt, infoLock,
             timeThread, readThread, offered, reading, mSegment>>
threadVars == <<timeThread, readThread, offered, reading, mSegment>>
ownerVars == <<srcKind, srcState, mExitRequested, mRdFd, mInfoListeners, session, ownerAt>>

NoSubtitle == [n |-> 0, size |-> 0, done |-> 0]

DriverSourceInit ==
    /\ srcKind \in SourceKinds /\ srcState = "inv" /\ mExitRequested = FALSE /\ mRdFd = "open"
    /\ mInfoListeners = {} /\ session = "none" /\ ownerAt = "attach" /\ infoLock = "free"
    /\ timeThread = "none" /\ readThread = "none" /\ offered = 0 /\ reading = NoSubtitle
    /\ mSegment = <<>>

-----------------------------------------------------------------------------
(* The service: Subtitle::attachDataSource, start, and in the end              *)
(* stopSubtitle, Subtitle::~Subtitle and the destructor of the source          *)

registerInfoListener ==
    /\ ownerAt = "attach" /\ infoLock = "free" /\ ownerAt' = "start"
    /\ mInfoListeners' = {"session"} /\ session' = "alive"
    /\ UNCHANGED <<srcKind, srcState, mExitRequested, mRdFd, infoLock>> /\ UNCHANGED threadVars

\* The time thread is for a stream that has subtitles already
StartDriver ==
    /\ ownerAt = "start" /\ srcState = "inv" /\ srcState' = "started" /\ ownerAt' = "notify"
    /\ timeThread' \in IF srcKind = "dev" THEN {"none", "test"} ELSE {"none"}
    /\ readThread' = "test"
    /\ UNCHANGED <<srcKind, mExitRequested, mRdFd, mInfoListeners, session, infoLock, offered, reading, mSegment>>

notifyInfoChange ==
    /\ ownerAt = "notify" /\ infoLock = "free" /\ ownerAt' = "play"
    /\ UNCHANGED <<srcKind, srcState, mExitRequested, mRdFd, mInfoListeners, session, infoLock>>
    /\ UNCHANGED threadVars

\* Mutant of unregisteredInfoListener: without the lock.
unregisteredInfoListener_NoLock ==
    /\ ownerAt = "play" /\ ownerAt' = "drop"
    /\ mInfoListeners' = {}
    /\ UNCHANGED <<srcKind, srcState, mExitRequested, mRdFd, session, infoLock>> /\ UNCHANGED threadVars

unregisteredInfoListener ==
    /\ ownerAt = "play" /\ infoLock = "free" /\ ownerAt' = "drop"
    /\ mInfoListeners' = {}
    /\ UNCHANGED <<srcKind, srcState, mExitRequested, mRdFd, session, infoLock>> /\ UNCHANGED threadVars

\* mSubtiles = nullptr: the session is destroyed, and stops its source
StopDriver ==
    /\ ownerAt = "drop" /\ ownerAt' = "destroy"
    /\ session' = "destroyed" /\ srcState' = "stopped"
    /\ UNCHANGED <<srcKind, mExitRequested, mRdFd, mInfoListeners, infoLock>> /\ UNCHANGED threadVars

RequestExit ==
    /\ ownerAt = "destroy" /\ ownerAt' = "join" /\ mExitRequested' = TRUE
    /\ UNCHANGED <<srcKind, srcState, mRdFd, mInfoListeners, session, infoLock>> /\ UNCHANGED threadVars

CloseDriver ==
    /\ ownerAt = "join" /\ timeThread \in {"none", "done"}
    /\ ownerAt' = "joinRead" /\ mRdFd' = "closed"
    /\ UNCHANGED <<srcKind, srcState, mExitRequested, mInfoListeners, session, infoLock>> /\ UNCHANGED threadVars

DriverSourceDestroyed ==
    /\ ownerAt = "joinRead" /\ readThread = "done" /\ ownerAt' = "gone"
    /\ UNCHANGED <<srcKind, srcState, mExitRequested, mRdFd, mInfoListeners, session, infoLock>>
    /\ UNCHANGED threadVars

-----------------------------------------------------------------------------
(* DeviceSource::loopRenderTime                                                *)

TimeStep(from, to) ==
    /\ timeThread = from /\ timeThread' = to
    /\ UNCHANGED ownerVars /\ UNCHANGED <<readThread, offered, reading, mSegment>>

TimeTest == TimeStep("test", IF mExitRequested THEN "done" ELSE "lock") /\ UNCHANGED infoLock
TimeLock == infoLock = "free" /\ infoLock' = "time" /\ TimeStep("lock", "look")
\* The listener is looked up, and made a strong reference if it is still there
TimeLook ==
    /\ TimeStep("look", IF mInfoListeners # {} /\ session = "alive" /\ ~mExitRequested THEN "call" ELSE "test")
    /\ infoLock' = IF mInfoListeners # {} /\ session = "alive" /\ ~mExitRequested THEN "time" ELSE "free"
\* onRenderTimeChanged returns
TimeCalled == TimeStep("call", "test") /\ infoLock' = "free"

-----------------------------------------------------------------------------
(* loopDriverData                                                              *)

ReadStep(from, to) ==
    /\ readThread = from /\ readThread' = to
    /\ UNCHANGED ownerVars /\ UNCHANGED <<infoLock, timeThread>>

ReadEnds == ReadStep("test", "done") /\ mExitRequested /\ UNCHANGED <<offered, reading, mSegment>>

\* The device has something; its length is asked for. A closed descriptor has none
ReadPoll ==
    /\ ~mExitRequested /\ mRdFd = "open" /\ offered < MaxSubtitles /\ srcState = "started"
    /\ offered' = offered + 1
    /\ \E size \in IF srcKind = "dev" THEN SubtitleSizes ELSE {1} :
         reading' = [n |-> offered + 1, size |-> size, done |-> 0]
    /\ ReadStep("test", "read") /\ UNCHANGED mSegment

readDriverData ==
    /\ reading.done < reading.size /\ srcState = "started" /\ mRdFd = "open"
    /\ \E r \in 1 .. reading.size - reading.done : reading' = [reading EXCEPT !.done = @ + r]
    /\ ReadStep("read", "read") /\ UNCHANGED <<offered, mSegment>>

\* An error forgets what was read; a record of the VBI device that is not whole is dropped
ReadFails ==
    /\ reading.done < reading.size /\ reading' = NoSubtitle
    /\ ReadStep("read", "test") /\ UNCHANGED <<offered, mSegment>>

\* The loop of readDriverData ends when all is read, or the source was stopped;
\* nothing is pushed that has no bytes
PushSubtitle ==
    /\ reading.done = reading.size \/ (srcKind = "dev" /\ srcState # "started")
    /\ mSegment' = IF reading.done = 0 THEN mSegment
                   ELSE Append(mSegment, [n |-> reading.n, whole |-> reading.done = reading.size])
    /\ reading' = NoSubtitle
    /\ ReadStep("read", "test") /\ UNCHANGED offered

-----------------------------------------------------------------------------
OwnerStep ==
    \/ registerInfoListener
    \/ StartDriver
    \/ notifyInfoChange
    \/ unregisteredInfoListener
    \/ StopDriver
    \/ RequestExit
    \/ CloseDriver
    \/ DriverSourceDestroyed

TimeThreadStep == TimeTest \/ TimeLock \/ TimeLook \/ TimeCalled
ReadThreadStep == ReadEnds \/ ReadPoll \/ readDriverData \/ ReadFails \/ PushSubtitle

DriverSourceNext == OwnerStep \/ TimeThreadStep \/ ReadThreadStep
DriverSourceSpec == DriverSourceInit /\ [][DriverSourceNext]_drvVars

\* Both threads run, and a destructor that has begun goes on
DriverSourceFair ==
    /\ WF_drvVars(ownerAt \in {"join", "joinRead"} /\ OwnerStep)
    /\ WF_drvVars(TimeThreadStep) /\ WF_drvVars(ReadThreadStep)
DriverSourceLiveSpec == DriverSourceSpec /\ DriverSourceFair

-----------------------------------------------------------------------------
(* The time thread calls only a session that is attached and alive, so that    *)
(* the last reference to it is never dropped in that thread, whose join is in  *)
(* the destructor (loopRenderTime holds mLock while it calls); and of the      *)
(* subtitles that were pushed only the last can be cut, by a stop, and they    *)
(* are in the order of the driver (readDriverData).                            *)
CalledIsAttached == timeThread = "call" => mInfoListeners # {} /\ session = "alive"
SubtitlesWhole ==
    /\ \A i \in DOMAIN mSegment : mSegment[i].whole \/ (i = Len(mSegment) /\ srcState = "stopped")
    /\ \A i, j \in DOMAIN mSegment : i < j => mSegment[i].n < mSegment[j].n
DriverSourceSafe == CalledIsAttached /\ SubtitlesWhole

(* The destructor's joins return: it has set mExitRequested, and the session   *)
(* has stopped the source, which ends a read that gets no more bytes.          *)
SourceDestroyed == (ownerAt = "join") ~> (ownerAt = "gone")
=============================================================================
