---------------------- MODULE SubtitleLifecycleProofs ----------------------
(* The safety of a subtitle session, for any set of types, any source, any
   setters and any queue bound. *)
EXTENDS SubtitleLifecycle, TLAPS

IpcLabels == {"idle", "setParam", "nullCall"} \cup StartPcs \cup StopPcs \cup DestroyPcs
FeedLabels == {"idle", "notify", "release", "selfLock"} \cup StopPcs \cup DestroyPcs

\* Where the two callers are, and what "feed" holds there.
PcInv ==
    /\ pc["ipc"] \in IpcLabels
    /\ pc["feed"] \in FeedLabels
    /\ ~(HoldsService("ipc") /\ HoldsService("feed"))
    /\ pc["feed"] \in {"notify", "release", "selfLock"} => srvLock
    /\ srvLock => /\ source = "socket"
                  /\ pc["feed"] \in {"notify", "release", "selfLock"} \cup DestroyPcs
    /\ feedRef <=> pc["feed"] \in {"notify", "release"}
    /\ pc["feed"] = "notify" => arg \in Announced

Destroying == \E t \in Threads : pc[t] \in DestroyPcs

\* Who keeps the Subtitle alive; whoever destroys it is alone with it.
OwnerInv ==
    /\ svcSub => alive
    /\ pc["ipc"] \in OwnerPcs => alive
    /\ pc["ipc"] \in StartPcs => ~svcSub
    /\ feedRef => alive
    /\ Destroying => alive /\ ~svcSub /\ ~feedRef /\ pc["ipc"] \notin OwnerPcs
    /\ ~(pc["ipc"] \in DestroyPcs /\ pc["feed"] \in DestroyPcs)
    /\ alive => svcSub \/ pc["ipc"] \in OwnerPcs \/ feedRef \/ Destroying
    /\ listening => svcSub \/ pc["ipc"] \in OwnerPcs
    /\ tick = "holding" => listening

\* How far the three worker threads are.
WorkInv ==
    /\ ~alive => run = "none" /\ parser = None
    /\ parser = None => parserThr = "none" /\ presenter = "none"
    /\ run \in {"joinParser", "joinPresent"} => parser # None
    /\ run = "joinPresent" => parserThr = "none"
    /\ \A t \in Threads :
          /\ pc[t] \in {"joinParser", "joinPresent", "free"} => run = "none"
          /\ pc[t] = "joinPresent" => parserThr = "none"
          /\ pc[t] = "free" => parser = None

Stopping(t) == HoldsService(t) /\ pc[t] \notin StartPcs

\* The source lasts as long as the service or a Subtitle has it.
SourceInv ==
    /\ svcSub => svcSrc
    /\ pc["ipc"] \in OwnerPcs => svcSrc
    /\ \A t \in Threads : Stopping(t) => ~started /\ (pc[t] \in DestroyPcs => svcSrc)
    /\ svcSrc => svcSub \/ HoldsService("ipc") \/ HoldsService("feed")
    /\ svcSub => started \/ pc["ipc"] = "drop" \/ pc["feed"] = "drop"
    /\ pc["ipc"] \in StartPcs => started
    /\ registered \/ srcState # "none" => svcSrc \/ alive \/ pc["feed"] = "selfLock"
    /\ alive => srcState # "none"

LifecycleInv == LifecycleTypeOK /\ PcInv /\ OwnerInv /\ WorkInv /\ SourceInv

-----------------------------------------------------------------------------
\* What a step of one caller does to its place.
LEMMA GotoType ==
    ASSUME pc \in [Threads -> PcLabels], NEW t \in Threads, NEW l \in PcLabels, Goto(t, l)
    PROVE  /\ pc' \in [Threads -> PcLabels]
           /\ pc'[t] = l
           /\ \A u \in Threads : u # t => pc'[u] = pc[u]
BY DEF Goto

\* The io type is what the first open chose.
LEMMA SourceFixed == ASSUME [LifecycleNext]_vars PROVE source' = source
BY DEF LifecycleNext, vars

\* Every step keeps the types of SubtitleService's members.
LEMMA ServiceTyped == ASSUME LifecycleTypeOK, [LifecycleNext]_vars PROVE ServiceTypeOK'
<1>0. source' = source
  BY SourceFixed
<1> USE <1>0, LifecycleAssumption DEF LifecycleTypeOK, ServiceTypeOK, svcVars, subVars, workVars, srcVars, pcVars, LifecycleAssumption, Types
<1>1. CASE Request
  BY <1>1 DEF Request, StartBegin, StartNoSource, SetSubType, SetSubPageId, CallIfSet, SetPipId,
         TtControl, StopBegin, FeedType, FeedData, DeviceData, TickTake, Updated
<1>2. CASE IpcStep
  BY <1>2 DEF IpcStep, StartCreate, StartParam, StartPublish, CallSetParameter
<1>3. CASE FeedStep
  BY <1>3 DEF FeedStep, FeedNotify, FeedRelease, BeginDestroy
<1>4. CASE RunStep \/ ParserStep \/ PresenterLeave \/ TickCall
  BY <1>4 DEF RunStep, ParserStep, PresenterLeave, TickCall, RunHead, RunHandle, RunJoinParser,
         RunJoinPresent, ParserLoop, ParserRead
<1>5. ASSUME NEW t \in Threads, StopDrop(t) \/ StopStep(t) PROVE ServiceTypeOK'
  BY <1>5 DEF StopStep, StopDrop, BeginDestroy, JoinRun, JoinParser, JoinPresent, Free, StopClear
<1>6. CASE UNCHANGED vars
  BY <1>6 DEF vars
<1> QED
  BY <1>1, <1>2, <1>3, <1>4, <1>5, <1>6 DEF LifecycleNext

\* Every step keeps the types of the Subtitle's members.
LEMMA SubtitleTyped == ASSUME LifecycleTypeOK, [LifecycleNext]_vars PROVE SubtitleTypeOK'
<1> USE LifecycleAssumption DEF LifecycleTypeOK, SubtitleTypeOK, svcVars, subVars, workVars, srcVars, pcVars, LifecycleAssumption, ServiceTypeOK
<1>1. CASE Request
  BY <1>1 DEF Request, StartBegin, StartNoSource, SetSubType, SetSubPageId, CallIfSet, SetPipId,
         TtControl, StopBegin, FeedType, FeedData, DeviceData, TickTake
<1>2. CASE IpcStep
  BY <1>2 DEF IpcStep, StartCreate, StartParam, StartPublish, CallSetParameter, SetParameter, Updated, Types
<1>3. CASE FeedStep
  BY <1>3 DEF FeedStep, FeedNotify, FeedRelease, BeginDestroy, OnTypeChanged, Types
<1>4. CASE RunStep \/ ParserStep \/ PresenterLeave \/ TickCall
  BY <1>4 DEF RunStep, ParserStep, PresenterLeave, TickCall, RunHead, RunHandle, RunJoinParser,
         RunJoinPresent, ParserLoop, ParserRead, ParserMade, CreateParser, NextType, ParserOf, Types, Creates, Replaces
<1>5. ASSUME NEW t \in Threads, StopDrop(t) \/ StopStep(t) PROVE SubtitleTypeOK'
  BY <1>5 DEF StopStep, StopDrop, BeginDestroy, JoinRun, JoinParser, JoinPresent, Free, StopClear
<1>6. CASE UNCHANGED vars
  BY <1>6 DEF vars
<1> QED
  BY <1>1, <1>2, <1>3, <1>4, <1>5, <1>6 DEF LifecycleNext

\* Every step keeps the types of the workers' state.
LEMMA WorkTyped == ASSUME LifecycleTypeOK, [LifecycleNext]_vars PROVE WorkTypeOK'
<1> USE DEF LifecycleTypeOK, WorkTypeOK, svcVars, subVars, workVars, srcVars, pcVars, SubtitleTypeOK
<1>1. CASE Request
  BY <1>1 DEF Request, StartBegin, StartNoSource, SetSubType, SetSubPageId, CallIfSet, SetPipId,
         TtControl, StopBegin, FeedType, FeedData, DeviceData, TickTake
<1>2. CASE IpcStep
  BY <1>2 DEF IpcStep, StartCreate, StartParam, StartPublish, CallSetParameter
<1>3. CASE FeedStep
  BY <1>3 DEF FeedStep, FeedNotify, FeedRelease, BeginDestroy
<1>4. CASE RunStep \/ ParserStep \/ PresenterLeave \/ TickCall
  BY <1>4 DEF RunStep, ParserStep, PresenterLeave, TickCall, RunHead, RunHandle, RunJoinParser,
         RunJoinPresent, ParserLoop, ParserRead, ParserMade, CreateParser, NextType, ParserOf, Types, Creates, Replaces
<1>5. ASSUME NEW t \in Threads, StopDrop(t) \/ StopStep(t) PROVE WorkTypeOK'
  BY <1>5 DEF StopStep, StopDrop, BeginDestroy, JoinRun, JoinParser, JoinPresent, Free, StopClear
<1>6. CASE UNCHANGED vars
  BY <1>6 DEF vars
<1> QED
  BY <1>1, <1>2, <1>3, <1>4, <1>5, <1>6 DEF LifecycleNext

\* Every step keeps the types of the source's members.
LEMMA SourceTyped == ASSUME LifecycleTypeOK, [LifecycleNext]_vars PROVE SourceTypeOK'
<1> USE LifecycleAssumption DEF LifecycleTypeOK, SourceTypeOK, svcVars, subVars, workVars, srcVars, pcVars, LifecycleAssumption
<1>0. 0 \in 0..QueueCap
  OBVIOUS
<1>1. CASE Request
  <2>1. queue' \in 0..QueueCap
    BY <1>1 DEF Request, StartBegin, StartNoSource, SetSubType, SetSubPageId, CallIfSet, SetPipId,
         TtControl, StopBegin, FeedType, FeedData, DeviceData, TickTake
  <2>2. tick' \in {"idle", "holding"} /\ announced' \in BOOLEAN
    BY <1>1 DEF Request, StartBegin, StartNoSource, SetSubType, SetSubPageId, CallIfSet, SetPipId,
         TtControl, StopBegin, FeedType, FeedData, DeviceData, TickTake
  <2>3. UNCHANGED <<registered, listening, srcState>>
    BY <1>1 DEF Request, StartBegin, StartNoSource, SetSubType, SetSubPageId, CallIfSet, SetPipId,
         TtControl, StopBegin, FeedType, FeedData, DeviceData, TickTake
  <2> QED
    BY <2>1, <2>2, <2>3
<1>2. CASE IpcStep
  <2>1. CASE StartCreate
    BY <2>1, <1>0, Zenon DEF StartCreate
  <2>2. CASE StartParam \/ StartPublish \/ CallSetParameter
    BY <2>2 DEF StartParam, StartPublish, CallSetParameter
  <2> QED
    BY <1>2, <2>1, <2>2 DEF IpcStep
<1>3. CASE FeedStep
  BY <1>3 DEF FeedStep, FeedNotify, FeedRelease, BeginDestroy
<1>4. CASE RunStep \/ ParserStep \/ PresenterLeave \/ TickCall
  BY <1>4 DEF RunStep, ParserStep, PresenterLeave, TickCall, RunHead, RunHandle, RunJoinParser,
         RunJoinPresent, ParserLoop, ParserRead
<1>5. ASSUME NEW t \in Threads, StopDrop(t) \/ StopStep(t) PROVE SourceTypeOK'
  <2>1. CASE StopDrop(t)
    BY <2>1 DEF StopDrop
  <2>2. CASE JoinRun(t) \/ JoinParser(t) \/ JoinPresent(t) \/ Free(t)
    BY <2>2 DEF JoinRun, JoinParser, JoinPresent, Free
  <2>3. CASE StopClear(t)
    BY <2>3, <1>0, Zenon DEF StopClear
  <2> QED
    BY <1>5, <2>1, <2>2, <2>3 DEF StopStep
<1>6. CASE UNCHANGED vars
  BY <1>6 DEF vars
<1> QED
  BY <1>1, <1>2, <1>3, <1>4, <1>5, <1>6 DEF LifecycleNext

\* Every step keeps the types of the callers' state.
LEMMA PcTyped == ASSUME LifecycleTypeOK, [LifecycleNext]_vars PROVE PcTypeOK'
<1> USE GotoType DEF LifecycleTypeOK, PcTypeOK, svcVars, subVars, workVars, srcVars, pcVars, Threads, PcLabels
<1>1. CASE Request
  BY <1>1 DEF Request, StartBegin, StartNoSource, SetSubType, SetSubPageId, CallIfSet, SetPipId,
         TtControl, StopBegin, FeedType, FeedData, DeviceData, TickTake
<1>2. CASE IpcStep
  BY <1>2 DEF IpcStep, StartCreate, StartParam, StartPublish, CallSetParameter
<1>3. CASE FeedStep
  BY <1>3 DEF FeedStep, FeedNotify, FeedRelease, BeginDestroy
<1>4. CASE RunStep \/ ParserStep \/ PresenterLeave \/ TickCall
  BY <1>4 DEF RunStep, ParserStep, PresenterLeave, TickCall, RunHead, RunHandle, RunJoinParser,
         RunJoinPresent, ParserLoop, ParserRead
<1>5. ASSUME NEW t \in Threads, StopDrop(t) \/ StopStep(t) PROVE PcTypeOK'
  BY <1>5 DEF StopStep, StopDrop, BeginDestroy, JoinRun, JoinParser, JoinPresent, Free, StopClear
<1>6. CASE UNCHANGED vars
  BY <1>6 DEF vars
<1> QED
  BY <1>1, <1>2, <1>3, <1>4, <1>5, <1>6 DEF LifecycleNext

-----------------------------------------------------------------------------
\* Every step keeps the callers in their places and the socket lock in the hands
\* of "feed".
LEMMA PcPreserved == ASSUME LifecycleInv, [LifecycleNext]_vars PROVE PcInv'
<1>0. source' = source
  BY SourceFixed
<1> USE <1>0, GotoType, LifecycleAssumption DEF LifecycleInv, LifecycleTypeOK, PcTypeOK, SourceTypeOK, PcInv, svcVars, subVars, workVars, srcVars, pcVars, Threads, PcLabels, IpcLabels, FeedLabels, StartPcs, StopPcs, DestroyPcs, OwnerPcs, HoldsService, SvcFree, SubFree, DestroysAsOwner
<1>1. CASE StartBegin
  BY <1>1 DEF StartBegin, SourceInv, Stopping
<1>2. CASE StartNoSource
  BY <1>2 DEF StartNoSource
<1>3. ASSUME NEW t \in Chosen, SetSubType(t) PROVE PcInv'
  BY <1>3 DEF SetSubType, Updated
<1>4. CASE SetSubPageId
  BY <1>4 DEF SetSubPageId, CallIfSet
<1>5. CASE SetPipId
  BY <1>5 DEF SetPipId
<1>6. CASE TtControl
  BY <1>6 DEF TtControl, CallIfSet
<1>7. ASSUME NEW t \in Threads, StopBegin(t) PROVE PcInv'
  BY <1>7 DEF StopBegin
<1>8. ASSUME NEW t \in Announced, FeedType(t) PROVE PcInv'
  BY <1>8 DEF FeedType
<1>9. CASE FeedData
  BY <1>9 DEF FeedData
<1>10. CASE DeviceData
  BY <1>10 DEF DeviceData
<1>11. CASE TickTake
  BY <1>11 DEF TickTake
<1>12. CASE StartCreate
  BY <1>12 DEF StartCreate
<1>13. CASE StartParam
  BY <1>13 DEF StartParam, SetParameter
<1>14. CASE StartPublish
  BY <1>14 DEF StartPublish
<1>15. CASE CallSetParameter
  BY <1>15 DEF CallSetParameter, SetParameter
<1>16. CASE RunHead
  BY <1>16 DEF RunHead
<1>17. CASE RunHandle
  BY <1>17 DEF RunHandle, Creates, Replaces, ParserMade, CreateParser
<1>18. CASE RunJoinParser
  BY <1>18 DEF RunJoinParser
<1>19. CASE RunJoinPresent
  BY <1>19 DEF RunJoinPresent, ParserMade, CreateParser
<1>20. CASE ParserLoop
  BY <1>20 DEF ParserLoop
<1>21. CASE ParserRead
  BY <1>21 DEF ParserRead
<1>22. CASE PresenterLeave
  BY <1>22 DEF PresenterLeave
<1>23. CASE FeedNotify
  BY <1>23 DEF FeedNotify, OnTypeChanged
<1>24. CASE FeedRelease
  BY <1>24 DEF FeedRelease, BeginDestroy
<1>25. CASE TickCall
  BY <1>25 DEF TickCall
<1>26. ASSUME NEW t \in Threads, StopDrop(t) PROVE PcInv'
  BY <1>26 DEF StopDrop, BeginDestroy
<1>27. ASSUME NEW t \in Threads, JoinRun(t) PROVE PcInv'
  BY <1>27 DEF JoinRun
<1>28. ASSUME NEW t \in Threads, JoinParser(t) PROVE PcInv'
  BY <1>28 DEF JoinParser
<1>29. ASSUME NEW t \in Threads, JoinPresent(t) PROVE PcInv'
  BY <1>29 DEF JoinPresent
<1>30. ASSUME NEW t \in Threads, Free(t) PROVE PcInv'
  BY <1>30 DEF Free, DestroysAsOwner
<1>31. ASSUME NEW t \in Threads, StopClear(t) PROVE PcInv'
  BY <1>31 DEF StopClear
<1>32. CASE UNCHANGED vars
  BY <1>32 DEF vars
<1> QED
  BY <1>1, <1>2, <1>3, <1>4, <1>5, <1>6, <1>7, <1>8, <1>9, <1>10, <1>11, <1>12, <1>13, <1>14, <1>15, <1>16, <1>17, <1>18, <1>19, <1>20, <1>21, <1>22, <1>23, <1>24, <1>25, <1>26, <1>27, <1>28, <1>29, <1>30, <1>31, <1>32
  DEF LifecycleNext, Request, IpcStep, RunStep, ParserStep, FeedStep, StopStep

\* Every step keeps an owner for the Subtitle, and a destroyer alone with it.
LEMMA OwnerPreserved == ASSUME LifecycleInv, [LifecycleNext]_vars PROVE OwnerInv'
<1> USE GotoType, LifecycleAssumption DEF LifecycleInv, LifecycleTypeOK, PcTypeOK, PcInv, OwnerInv, Destroying, svcVars, subVars, workVars, srcVars, pcVars, Threads, PcLabels, IpcLabels, FeedLabels, StartPcs, StopPcs, DestroyPcs, OwnerPcs, HoldsService, SvcFree, SubFree, DestroysAsOwner
<1>1. CASE StartBegin
  BY <1>1 DEF StartBegin, SourceInv, Stopping
<1>2. CASE StartNoSource
  BY <1>2 DEF StartNoSource
<1>3. ASSUME NEW t \in Chosen, SetSubType(t) PROVE OwnerInv'
  BY <1>3 DEF SetSubType, Updated
<1>4. CASE SetSubPageId
  BY <1>4 DEF SetSubPageId, CallIfSet
<1>5. CASE SetPipId
  BY <1>5 DEF SetPipId
<1>6. CASE TtControl
  BY <1>6 DEF TtControl, CallIfSet
<1>7. ASSUME NEW t \in Threads, StopBegin(t) PROVE OwnerInv'
  BY <1>7 DEF StopBegin
<1>8. ASSUME NEW t \in Announced, FeedType(t) PROVE OwnerInv'
  BY <1>8 DEF FeedType
<1>9. CASE FeedData
  BY <1>9 DEF FeedData
<1>10. CASE DeviceData
  BY <1>10 DEF DeviceData
<1>11. CASE TickTake
  BY <1>11 DEF TickTake
<1>12. CASE StartCreate
  BY <1>12 DEF StartCreate
<1>13. CASE StartParam
  BY <1>13 DEF StartParam, SetParameter
<1>14. CASE StartPublish
  BY <1>14 DEF StartPublish
<1>15. CASE CallSetParameter
  BY <1>15 DEF CallSetParameter, SetParameter
<1>16. CASE RunHead
  BY <1>16 DEF RunHead
<1>17. CASE RunHandle
  BY <1>17 DEF RunHandle, Creates, Replaces, ParserMade, CreateParser
<1>18. CASE RunJoinParser
  BY <1>18 DEF RunJoinParser
<1>19. CASE RunJoinPresent
  BY <1>19 DEF RunJoinPresent, ParserMade, CreateParser
<1>20. CASE ParserLoop
  BY <1>20 DEF ParserLoop
<1>21. CASE ParserRead
  BY <1>21 DEF ParserRead
<1>22. CASE PresenterLeave
  BY <1>22 DEF PresenterLeave
<1>23. CASE FeedNotify
  BY <1>23 DEF FeedNotify, OnTypeChanged
<1>24. CASE FeedRelease
  BY <1>24 DEF FeedRelease, BeginDestroy
<1>25. CASE TickCall
  BY <1>25 DEF TickCall
<1>26. ASSUME NEW t \in Threads, StopDrop(t) PROVE OwnerInv'
  BY <1>26 DEF StopDrop, BeginDestroy
<1>27. ASSUME NEW t \in Threads, JoinRun(t) PROVE OwnerInv'
  BY <1>27 DEF JoinRun
<1>28. ASSUME NEW t \in Threads, JoinParser(t) PROVE OwnerInv'
  BY <1>28 DEF JoinParser
<1>29. ASSUME NEW t \in Threads, JoinPresent(t) PROVE OwnerInv'
  BY <1>29 DEF JoinPresent
<1>30. ASSUME NEW t \in Threads, Free(t) PROVE OwnerInv'
  BY <1>30 DEF Free, DestroysAsOwner
<1>31. ASSUME NEW t \in Threads, StopClear(t) PROVE OwnerInv'
  BY <1>31 DEF StopClear
<1>32. CASE UNCHANGED vars
  BY <1>32 DEF vars
<1> QED
  BY <1>1, <1>2, <1>3, <1>4, <1>5, <1>6, <1>7, <1>8, <1>9, <1>10, <1>11, <1>12, <1>13, <1>14, <1>15, <1>16, <1>17, <1>18, <1>19, <1>20, <1>21, <1>22, <1>23, <1>24, <1>25, <1>26, <1>27, <1>28, <1>29, <1>30, <1>31, <1>32
  DEF LifecycleNext, Request, IpcStep, RunStep, ParserStep, FeedStep, StopStep

\* Every step keeps the order in which the threads are joined.
LEMMA WorkPreserved == ASSUME LifecycleInv, [LifecycleNext]_vars PROVE WorkInv'
<1> USE GotoType, LifecycleAssumption DEF LifecycleAssumption, NextType, ParserOf, Types, LifecycleInv, LifecycleTypeOK, PcTypeOK, WorkTypeOK, PcInv, OwnerInv, Destroying, WorkInv, svcVars, subVars, workVars, srcVars, pcVars, Threads, PcLabels, IpcLabels, FeedLabels, StartPcs, StopPcs, DestroyPcs, OwnerPcs, HoldsService, SvcFree, SubFree, DestroysAsOwner
<1>1. CASE StartBegin
  BY <1>1 DEF StartBegin, SourceInv, Stopping
<1>2. CASE StartNoSource
  BY <1>2 DEF StartNoSource
<1>3. ASSUME NEW t \in Chosen, SetSubType(t) PROVE WorkInv'
  BY <1>3 DEF SetSubType, Updated
<1>4. CASE SetSubPageId
  BY <1>4 DEF SetSubPageId, CallIfSet
<1>5. CASE SetPipId
  BY <1>5 DEF SetPipId
<1>6. CASE TtControl
  BY <1>6 DEF TtControl, CallIfSet
<1>7. ASSUME NEW t \in Threads, StopBegin(t) PROVE WorkInv'
  BY <1>7 DEF StopBegin
<1>8. ASSUME NEW t \in Announced, FeedType(t) PROVE WorkInv'
  BY <1>8 DEF FeedType
<1>9. CASE FeedData
  BY <1>9 DEF FeedData
<1>10. CASE DeviceData
  BY <1>10 DEF DeviceData
<1>11. CASE TickTake
  BY <1>11 DEF TickTake
<1>12. CASE StartCreate
  BY <1>12 DEF StartCreate
<1>13. CASE StartParam
  BY <1>13 DEF StartParam, SetParameter
<1>14. CASE StartPublish
  BY <1>14 DEF StartPublish
<1>15. CASE CallSetParameter
  BY <1>15 DEF CallSetParameter, SetParameter
<1>16. CASE RunHead
  BY <1>16 DEF RunHead
<1>17. CASE RunHandle
  BY <1>17 DEF RunHandle, Creates, Replaces, ParserMade, CreateParser
<1>18. CASE RunJoinParser
  BY <1>18 DEF RunJoinParser
<1>19. CASE RunJoinPresent
  BY <1>19 DEF RunJoinPresent, ParserMade, CreateParser
<1>20. CASE ParserLoop
  BY <1>20 DEF ParserLoop
<1>21. CASE ParserRead
  BY <1>21 DEF ParserRead
<1>22. CASE PresenterLeave
  BY <1>22 DEF PresenterLeave
<1>23. CASE FeedNotify
  BY <1>23 DEF FeedNotify, OnTypeChanged
<1>24. CASE FeedRelease
  BY <1>24 DEF FeedRelease, BeginDestroy
<1>25. CASE TickCall
  BY <1>25 DEF TickCall
<1>26. ASSUME NEW t \in Threads, StopDrop(t) PROVE WorkInv'
  BY <1>26 DEF StopDrop, BeginDestroy
<1>27. ASSUME NEW t \in Threads, JoinRun(t) PROVE WorkInv'
  BY <1>27 DEF JoinRun
<1>28. ASSUME NEW t \in Threads, JoinParser(t) PROVE WorkInv'
  BY <1>28 DEF JoinParser
<1>29. ASSUME NEW t \in Threads, JoinPresent(t) PROVE WorkInv'
  BY <1>29 DEF JoinPresent
<1>30. ASSUME NEW t \in Threads, Free(t) PROVE WorkInv'
  BY <1>30 DEF Free, DestroysAsOwner
<1>31. ASSUME NEW t \in Threads, StopClear(t) PROVE WorkInv'
  BY <1>31 DEF StopClear
<1>32. CASE UNCHANGED vars
  BY <1>32 DEF vars
<1> QED
  BY <1>1, <1>2, <1>3, <1>4, <1>5, <1>6, <1>7, <1>8, <1>9, <1>10, <1>11, <1>12, <1>13, <1>14, <1>15, <1>16, <1>17, <1>18, <1>19, <1>20, <1>21, <1>22, <1>23, <1>24, <1>25, <1>26, <1>27, <1>28, <1>29, <1>30, <1>31, <1>32
  DEF LifecycleNext, Request, IpcStep, RunStep, ParserStep, FeedStep, StopStep

\* Every step keeps the source as long as somebody uses it.
LEMMA SourcePreserved == ASSUME LifecycleInv, [LifecycleNext]_vars PROVE SourceInv'
<1> USE GotoType, LifecycleAssumption DEF LifecycleInv, LifecycleTypeOK, PcTypeOK, PcInv, OwnerInv, Destroying, SourceInv, Stopping, svcVars, subVars, workVars, srcVars, pcVars, Threads, PcLabels, IpcLabels, FeedLabels, StartPcs, StopPcs, DestroyPcs, OwnerPcs, HoldsService, SvcFree, SubFree, DestroysAsOwner
<1>1. CASE StartBegin
  BY <1>1 DEF StartBegin, SourceInv, Stopping
<1>2. CASE StartNoSource
  BY <1>2 DEF StartNoSource
<1>3. ASSUME NEW t \in Chosen, SetSubType(t) PROVE SourceInv'
  BY <1>3 DEF SetSubType, Updated
<1>4. CASE SetSubPageId
  BY <1>4 DEF SetSubPageId, CallIfSet
<1>5. CASE SetPipId
  BY <1>5 DEF SetPipId
<1>6. CASE TtControl
  BY <1>6 DEF TtControl, CallIfSet
<1>7. ASSUME NEW t \in Threads, StopBegin(t) PROVE SourceInv'
  BY <1>7 DEF StopBegin
<1>8. ASSUME NEW t \in Announced, FeedType(t) PROVE SourceInv'
  BY <1>8 DEF FeedType
<1>9. CASE FeedData
  BY <1>9 DEF FeedData
<1>10. CASE DeviceData
  BY <1>10 DEF DeviceData
<1>11. CASE TickTake
  BY <1>11 DEF TickTake
<1>12. CASE StartCreate
  BY <1>12 DEF StartCreate
<1>13. CASE StartParam
  BY <1>13 DEF StartParam, SetParameter
<1>14. CASE StartPublish
  BY <1>14 DEF StartPublish
<1>15. CASE CallSetParameter
  BY <1>15 DEF CallSetParameter, SetParameter
<1>16. CASE RunHead
  BY <1>16 DEF RunHead
<1>17. CASE RunHandle
  BY <1>17 DEF RunHandle, Creates, Replaces, ParserMade, CreateParser
<1>18. CASE RunJoinParser
  BY <1>18 DEF RunJoinParser
<1>19. CASE RunJoinPresent
  BY <1>19 DEF RunJoinPresent, ParserMade, CreateParser
<1>20. CASE ParserLoop
  BY <1>20 DEF ParserLoop
<1>21. CASE ParserRead
  BY <1>21 DEF ParserRead
<1>22. CASE PresenterLeave
  BY <1>22 DEF PresenterLeave
<1>23. CASE FeedNotify
  BY <1>23 DEF FeedNotify, OnTypeChanged
<1>24. CASE FeedRelease
  BY <1>24 DEF FeedRelease, BeginDestroy
<1>25. CASE TickCall
  BY <1>25 DEF TickCall
<1>26. ASSUME NEW t \in Threads, StopDrop(t) PROVE SourceInv'
  BY <1>26 DEF StopDrop, BeginDestroy
<1>27. ASSUME NEW t \in Threads, JoinRun(t) PROVE SourceInv'
  BY <1>27 DEF JoinRun
<1>28. ASSUME NEW t \in Threads, JoinParser(t) PROVE SourceInv'
  BY <1>28 DEF JoinParser
<1>29. ASSUME NEW t \in Threads, JoinPresent(t) PROVE SourceInv'
  BY <1>29 DEF JoinPresent
<1>30. ASSUME NEW t \in Threads, Free(t) PROVE SourceInv'
  BY <1>30 DEF Free, DestroysAsOwner
<1>31. ASSUME NEW t \in Threads, StopClear(t) PROVE SourceInv'
  BY <1>31 DEF StopClear
<1>32. CASE UNCHANGED vars
  BY <1>32 DEF vars
<1> QED
  BY <1>1, <1>2, <1>3, <1>4, <1>5, <1>6, <1>7, <1>8, <1>9, <1>10, <1>11, <1>12, <1>13, <1>14, <1>15, <1>16, <1>17, <1>18, <1>19, <1>20, <1>21, <1>22, <1>23, <1>24, <1>25, <1>26, <1>27, <1>28, <1>29, <1>30, <1>31, <1>32
  DEF LifecycleNext, Request, IpcStep, RunStep, ParserStep, FeedStep, StopStep

-----------------------------------------------------------------------------
\* The invariant holds at first.
LEMMA InitInv == LifecycleInit => LifecycleInv
<1> SUFFICES ASSUME LifecycleInit PROVE LifecycleInv
  OBVIOUS
<1> USE DEF LifecycleInit
<1>0. 0 \in 0..QueueCap
  BY LifecycleAssumption DEF LifecycleAssumption
<1>1. ServiceTypeOK
  BY LifecycleAssumption DEF LifecycleAssumption, ServiceTypeOK, Types
<1>2. SubtitleTypeOK /\ WorkTypeOK
  BY DEF SubtitleTypeOK, WorkTypeOK
<1>3. SourceTypeOK
  BY <1>0 DEF SourceTypeOK
<1>4. PcTypeOK
  BY DEF PcTypeOK, Threads, PcLabels
<1>5. \A t \in Threads : pc[t] = "idle"
  OBVIOUS
<1>6. PcInv /\ OwnerInv /\ WorkInv /\ SourceInv
  BY <1>5 DEF PcInv, OwnerInv, WorkInv, SourceInv, Destroying, Stopping, HoldsService,
     DestroysAsOwner, Threads, PcLabels, IpcLabels, FeedLabels, StartPcs, StopPcs, DestroyPcs, OwnerPcs
<1> QED
  BY <1>1, <1>2, <1>3, <1>4, <1>6 DEF LifecycleInv, LifecycleTypeOK

\* The invariant is inductive.
LEMMA StepInv == LifecycleInv /\ [LifecycleNext]_vars => LifecycleInv'
<1> SUFFICES ASSUME LifecycleInv, [LifecycleNext]_vars PROVE LifecycleInv'
  OBVIOUS
<1>1. LifecycleTypeOK'
  BY ServiceTyped, SubtitleTyped, WorkTyped, SourceTyped, PcTyped DEF LifecycleInv, LifecycleTypeOK
<1> QED
  BY <1>1, PcPreserved, OwnerPreserved, WorkPreserved, SourcePreserved DEF LifecycleInv

\* LifecycleInv holds in every state of a session.
THEOREM LifecycleInvariant == LifecycleSpec => []LifecycleInv
BY InitInv, StepInv, PTL DEF LifecycleSpec

\* Every variable of a session keeps its type.
THEOREM TypeCorrect == LifecycleSpec => []LifecycleTypeOK
<1>1. LifecycleInv => LifecycleTypeOK
  BY DEF LifecycleInv
<1> QED
  BY <1>1, LifecycleInvariant, PTL

\* Whatever thread still works for a Subtitle, the Subtitle is there: the joins
\* of ~Subtitle, under the locks of stopSubtitle, are enough.
THEOREM OwnerOutlivesThreads == LifecycleSpec => []ThreadsHaveOwner
<1>1. LifecycleInv => ThreadsHaveOwner
  <2> SUFFICES ASSUME LifecycleInv PROVE ThreadsHaveOwner
    OBVIOUS
  <2>1. tick = "holding" \/ feedRef => alive
    BY DEF LifecycleInv, OwnerInv
  <2>2. run # "none" \/ parserThr # "none" \/ presenter # "none" => alive
    BY DEF LifecycleInv, WorkInv
  <2> QED
    BY <2>1, <2>2 DEF ThreadsHaveOwner
<1> QED
  BY <1>1, LifecycleInvariant, PTL

\* A close leaves nothing behind, whatever calls it was interleaved with.
THEOREM CloseLeavesNothing == LifecycleSpec => []QuietWhenClosed
<1>1. LifecycleInv => QuietWhenClosed
  BY DEF LifecycleInv, PcInv, OwnerInv, WorkInv, SourceInv, LifecycleTypeOK, PcTypeOK, SourceTypeOK, QuietWhenClosed, Quiet,
     SvcFree, HoldsService, DestroysAsOwner, Destroying, Threads, PcLabels, IpcLabels, FeedLabels, StartPcs, StopPcs, DestroyPcs, OwnerPcs
<1> QED
  BY <1>1, LifecycleInvariant, PTL

\* Between two calls that take SubtitleService::mLock, mSubtiles and mDataSource
\* are set together.
THEOREM SubtitleAndSource == LifecycleSpec => []SubtitleWithSource
<1>1. LifecycleInv => SubtitleWithSource
  BY DEF LifecycleInv, PcInv, OwnerInv, WorkInv, SourceInv, LifecycleTypeOK, ServiceTypeOK, SubtitleWithSource, SvcFree, HoldsService,
     DestroysAsOwner, Destroying, Stopping, Threads, PcLabels, IpcLabels, FeedLabels, StartPcs, StopPcs, DestroyPcs, OwnerPcs
<1> QED
  BY <1>1, LifecycleInvariant, PTL

\* What the parser reads from is in place while it reads.
THEOREM SourceOutlivesReader == LifecycleSpec => []ReaderHasSource
<1>1. LifecycleInv => ReaderHasSource
  BY DEF LifecycleInv, LifecycleTypeOK, SubtitleTypeOK, WorkTypeOK, WorkInv, SourceInv, ReaderHasSource
<1> QED
  BY <1>1, LifecycleInvariant, PTL

\* A parser is made or dropped only when the threads of the one before are joined.
THEOREM ParserReplacement == LifecycleSpec => ParserReplacedWhenStopped
<1>1. ASSUME LifecycleInv, LifecycleNext, parser' # parser
      PROVE  parserThr = "none" /\ presenter = "none"
  <2> USE <1>1 DEF svcVars, subVars, workVars, srcVars, pcVars
  <2>1. CASE RunHandle
    BY <2>1 DEF RunHandle, Creates, LifecycleInv, WorkInv
  <2>2. CASE RunJoinPresent
    BY <2>2 DEF RunJoinPresent, LifecycleInv, WorkInv
  <2>3. ASSUME NEW t \in Threads, JoinPresent(t)
        PROVE  parserThr = "none" /\ presenter = "none"
    BY <2>3 DEF JoinPresent, LifecycleInv, WorkInv
  <2>4. CASE Request
    BY <2>4 DEF Request, StartBegin, StartNoSource, SetSubType, SetSubPageId, CallIfSet, SetPipId,
         TtControl, StopBegin, FeedType, FeedData, DeviceData, TickTake
  <2>5. CASE IpcStep \/ FeedStep \/ RunHead \/ RunJoinParser \/ ParserStep
             \/ PresenterLeave \/ TickCall
    BY <2>5 DEF IpcStep, StartCreate, StartParam, StartPublish, CallSetParameter, FeedStep, FeedNotify, FeedRelease, BeginDestroy, RunHead,
       RunJoinParser, ParserStep, ParserLoop, ParserRead, PresenterLeave, TickCall
  <2>6. ASSUME NEW t \in Threads,
               StopDrop(t) \/ JoinRun(t) \/ JoinParser(t) \/ Free(t) \/ StopClear(t)
        PROVE  parserThr = "none" /\ presenter = "none"
    BY <2>6 DEF StopDrop, BeginDestroy, JoinRun, JoinParser, Free, StopClear
  <2> QED
    BY <2>1, <2>2, <2>3, <2>4, <2>5, <2>6 DEF LifecycleNext, RunStep, StopStep
<1>2. LifecycleInv /\ [LifecycleNext]_vars
      => [parser' # parser => parserThr = "none" /\ presenter = "none"]_vars
  BY <1>1
<1> QED
  BY <1>2, LifecycleInvariant, PTL DEF LifecycleSpec, ParserReplacedWhenStopped

-----------------------------------------------------------------------------
\* Outside of the run thread's replacement and of the destructor, the parser's
\* thread and the presenter are there and nobody has asked them to leave.
PairInv ==
    SubFree /\ ~Destroying /\ parser # None
    => parserThr # "none" /\ ~parserStop /\ presenter = "running" /\ ~presStop

LEMMA PairPreserved == ASSUME LifecycleInv, PairInv, [LifecycleNext]_vars PROVE PairInv'
<1> USE GotoType DEF PairInv, SubFree, Destroying, Threads, DestroyPcs, PcLabels, svcVars, subVars,
        workVars, srcVars, pcVars
<1>0. /\ pc \in [Threads -> PcLabels] /\ (parser = None => parserThr = "none")
      /\ \A t \in Threads : pc[t] = "free" => parser = None
  BY DEF LifecycleInv, LifecycleTypeOK, PcTypeOK, WorkInv
<1>1. CASE Request
  BY <1>0, <1>1 DEF Request, StartBegin, StartNoSource, SetSubType, SetSubPageId, CallIfSet, SetPipId,
         TtControl, StopBegin, FeedType, FeedData, DeviceData, TickTake
<1>2. CASE IpcStep
  <2>1. CASE StartCreate
    <3>1. ~feedRef /\ ~Destroying /\ ~svcSub
      BY <2>1 DEF StartCreate, LifecycleInv, PcInv, OwnerInv, StartPcs, HoldsService, DestroysAsOwner
    <3>2. parser = None
      BY <2>1, <3>1 DEF StartCreate, LifecycleInv, OwnerInv, WorkInv, OwnerPcs
    <3> QED
      BY <2>1, <3>2 DEF StartCreate
  <2>2. CASE StartParam \/ StartPublish \/ CallSetParameter
    BY <1>0, <2>2 DEF StartParam, StartPublish, CallSetParameter
  <2> QED
    BY <1>2, <2>1, <2>2 DEF IpcStep
<1>3. CASE FeedStep
  BY <1>0, <1>3 DEF FeedStep, FeedNotify, FeedRelease, BeginDestroy
<1>4. CASE RunStep
  BY <1>0, <1>4 DEF RunStep, RunHead, RunHandle, RunJoinParser, RunJoinPresent, ParserMade, CreateParser
<1>5. CASE ParserStep \/ PresenterLeave \/ TickCall
  BY <1>0, <1>5 DEF ParserStep, ParserLoop, ParserRead, PresenterLeave, TickCall
<1>6. ASSUME NEW t \in Threads, StopDrop(t) PROVE PairInv'
  BY <1>0, <1>6 DEF StopDrop, BeginDestroy
<1>7. ASSUME NEW t \in Threads, StopStep(t) PROVE PairInv'
  <2>1. CASE JoinRun(t) \/ JoinParser(t) \/ JoinPresent(t)
    BY <1>0, <2>1 DEF JoinRun, JoinParser, JoinPresent
  <2>2. CASE Free(t)
    BY <1>0, <2>2 DEF Free
  <2>3. CASE StopClear(t)
    BY <1>0, <2>3 DEF StopClear
  <2> QED
    BY <1>7, <2>1, <2>2, <2>3 DEF StopStep
<1>8. CASE UNCHANGED vars
  BY <1>8 DEF vars
<1> QED
  BY <1>1, <1>2, <1>3, <1>4, <1>5, <1>6, <1>7, <1>8 DEF LifecycleNext

\* A parser, its thread and its presenter are made, and go, together, whichever
\* types are announced or chosen while they are replaced (Subtitle::run).
THEOREM PartsGoTogether == LifecycleSpec => []ParserPaired
<1>1. LifecycleInit => PairInv
  BY DEF LifecycleInit, PairInv
<1>2. LifecycleInv /\ PairInv => ParserPaired
  BY DEF LifecycleInv, WorkInv, PairInv, ParserPaired, Destroying
<1> QED
  BY <1>1, <1>2, PairPreserved, LifecycleInvariant, PTL DEF LifecycleSpec

=============================================================================
