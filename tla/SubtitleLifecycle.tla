------------------------- MODULE SubtitleLifecycle -------------------------
(***************************************************************************)
(* One subtitle session from open to close: SubtitleService, the Subtitle  *)
(* object it owns, the data source, the parser and the presentation, and   *)
(* the threads that run them:                                              *)
(*                                                                         *)
(*   "ipc"      the thread of the command socket: open, close, setters     *)
(*   "feed"     the poll thread of SubSocketServer: types, data, hang-ups  *)
(*   run        Subtitle::run                                              *)
(*   parserThr  Parser::_parserEntry                                       *)
(*   presenter  Presentation::MessageProcess::looperLoop                   *)
(*   tick       the loopRenderTime thread of the data source               *)
(*                                                                         *)
(* The mutexes are SubtitleService::mLock (SvcFree), Subtitle::mMutex      *)
(* (SubFree), SubSocketServer::mLock (srvLock), DataSource::mLock (held by *)
(* tick) and Presentation::mMutex (PresFree).                              *)
(***************************************************************************)
EXTENDS Naturals

CONSTANTS
    Streams,    \* subtitle types whose parser reads the data source
    Cc, Ext,    \* TYPE_SUBTITLE_CLOSED_CAPTION and TYPE_SUBTITLE_EXTERNAL
    BadType,    \* a type number outside of the enumeration
    None,       \* no type (TYPE_SUBTITLE_INVALID), no parser
    Dvb, Ttx,   \* the types that setSubPageId and ttControl are about
    PageTypes,  \* types that setParameter answers with SET_PARAM
    DirectTypes, \* types for which isValidDtvParams holds
    Sources,    \* the io types the application opens
    Announced,  \* the types a source may announce
    Chosen,     \* the types setSubType is called with
    Ops,        \* the other setters a run calls
    DefaultCc,  \* playerId > 0, or the CC channel names a source
    RemoteDead, \* the remote end may hang up
    QueueCap    \* bound: data items waiting in BufferSegment

Types == Streams \cup {Cc, Ext}
SetterNames == {"page", "pip", "ttControl"}

ASSUME LifecycleAssumption ==
    /\ Cc \notin Streams /\ Ext \notin Streams /\ Cc # Ext
    /\ BadType \notin Types \cup {None} /\ None \notin Types
    /\ {Dvb, Ttx} \subseteq Streams
    /\ PageTypes \subseteq Streams \cup {Cc}
    /\ DirectTypes \subseteq PageTypes
    /\ Sources \subseteq {"socket", "device", "file"}
    /\ Announced \subseteq Streams \cup {Cc, BadType}
    /\ Chosen \subseteq PageTypes \cup {None}
    /\ Ops \subseteq SetterNames
    /\ DefaultCc \in BOOLEAN /\ RemoteDead \in BOOLEAN
    /\ QueueCap \in Nat \ {0}

VARIABLES
    source,
        \* the io type of every open of a behaviour
    started, svcType, svcDtv, svcSub, svcSrc,
        \* SubtitleService: mStarted, mSubParam.subType and .dtvSubType,
        \* mSubtiles and mDataSource are set
    alive, curType, subType, pending, exitReq,
        \* the Subtitle object: exists, mCurrentSubtitleType,
        \* mSubPrams->subType, mPendingAction, mExitRequested
    run, parser, parserThr, parserStop, presenter, presStop,
        \* its three threads, and what the last two are asked
    registered, listening, srcState, queue, announced, tick,
        \* the source: in SubSocketServer::mClients, has the Subtitle in
        \* mInfoListeners, mState, items in mSegment, mSubtitleType is known
    pc, arg, srvLock, feedRef
        \* where "ipc" and "feed" are and with which type; "feed" holds
        \* SubSocketServer::mLock, and a strong reference to the Subtitle

svcVars == <<started, svcType, svcDtv, svcSub, svcSrc>>
subVars == <<alive, curType, subType, pending, exitReq>>
workVars == <<run, parser, parserThr, parserStop, presenter, presStop>>
srcVars == <<registered, listening, srcState, queue, announced, tick>>
pcVars == <<pc, arg, srvLock, feedRef>>
vars == <<source, svcVars, subVars, workVars, srcVars, pcVars>>

Threads == {"ipc", "feed"}
StartPcs == {"create", "param", "publish"}
DestroyPcs == {"joinRun", "joinParser", "joinPresent", "free"}
StopPcs == {"drop", "clear"}
OwnerPcs == {"param", "publish"}    \* startSubtitle has the only reference

Goto(t, l) == pc' = [pc EXCEPT ![t] = l]

\* "feed" runs ~Subtitle as the last owner of the reference that
\* notifyInfoChange_l took, not as a caller of stopSubtitle.
DestroysAsOwner(t) == t = "feed" /\ srvLock

HoldsService(t) ==
    \/ pc[t] \in StartPcs \cup StopPcs
    \/ pc[t] \in DestroyPcs /\ ~DestroysAsOwner(t)

SvcFree == \A t \in Threads : ~HoldsService(t)
SubFree == run \notin {"joinParser", "joinPresent"}
PresFree == run # "joinPresent" /\ \A t \in Threads : pc[t] # "joinPresent"

LifecycleInit ==
    /\ source \in Sources
    /\ started = FALSE /\ svcSub = FALSE /\ svcSrc = FALSE
    /\ svcType = None
    /\ svcDtv \in PageTypes \cup {None, BadType}  \* no constructor sets it
    /\ alive = FALSE /\ curType = None /\ subType = None
    /\ pending = "none" /\ exitReq = FALSE
    /\ run = "none" /\ parser = None
    /\ parserThr = "none" /\ parserStop = FALSE
    /\ presenter = "none" /\ presStop = FALSE
    /\ registered = FALSE /\ listening = FALSE /\ srcState = "none"
    /\ queue = 0 /\ announced = FALSE /\ tick = "idle"
    /\ pc = [t \in Threads |-> "idle"] /\ arg = None
    /\ srvLock = FALSE /\ feedRef = FALSE

-----------------------------------------------------------------------------
(* Subtitle: what its methods do to it *)

\* SubtitleParamType::update
Updated(dtv, type) == IF dtv \in Types THEN dtv ELSE type

\* The body of Subtitle::setParameter, under mMutex.
SetParameter(type) ==
    /\ subType' = type
    /\ pending' = IF type \in PageTypes THEN "SET_PARAM" ELSE "RECEIVED_SUBTYPE"
    /\ UNCHANGED <<alive, curType, exitReq>>

\* Mutant of OnTypeChanged: the range of the type is not checked.
OnTypeChanged_NoRange(type) ==
    IF type = curType
    THEN UNCHANGED subVars
    ELSE /\ curType' = type
         /\ subType' = type
         /\ pending' = "RECEIVED_SUBTYPE"
         /\ UNCHANGED <<alive, exitReq>>

\* The body of Subtitle::onTypeChanged, under mMutex.
OnTypeChanged(type) ==
    IF type = curType \/ type \notin Types
    THEN UNCHANGED subVars
    ELSE /\ curType' = type
         /\ subType' = type
         /\ pending' = "RECEIVED_SUBTYPE"
         /\ UNCHANGED <<alive, exitReq>>

\* ParserFactory::create takes an invalid type for CC.
ParserOf(type) == IF type = None THEN Cc ELSE type

\* Mutant of CreateParser: the presentation is not started.
CreateParser_NoPresent(type) ==
    /\ parser' = type
    /\ parserThr' = "running" /\ parserStop' = FALSE
    /\ UNCHANGED <<presenter, presStop>>

\* create, startParser and startPresent.
CreateParser(type) ==
    /\ parser' = type
    /\ parserThr' = "running" /\ parserStop' = FALSE
    /\ presenter' = "running" /\ presStop' = FALSE

-----------------------------------------------------------------------------
(* SubtitleService::startSubtitle, by the command thread *)

StartBegin ==
    /\ pc["ipc"] = "idle" /\ SvcFree
    /\ ~started
    /\ started' = TRUE
    /\ Goto("ipc", "create")
    /\ UNCHANGED <<svcType, svcDtv, svcSub, svcSrc, subVars, workVars, srcVars,
                   arg, srvLock, feedRef>>

\* The factory knows no source for the io type: mStarted stays set.
StartNoSource ==
    /\ pc["ipc"] = "idle" /\ SvcFree
    /\ ~started
    /\ started' = TRUE
    /\ UNCHANGED <<svcType, svcDtv, svcSub, svcSrc, subVars, workVars, srcVars,
                   pcVars>>

\* The Subtitle and its source are made, the run thread starts and the source
\* is attached and started. A device source announces its type here.
StartCreate ==
    /\ pc["ipc"] = "create"
    /\ source = "socket" => ~srvLock
    /\ alive' = TRUE /\ exitReq' = FALSE /\ run' = "head"
    /\ \/ curType' = None /\ subType' = None /\ pending' = "none"
       \/ /\ source = "device"
          /\ \E t \in Announced \cap Types :
                curType' = t /\ subType' = t /\ pending' = "RECEIVED_SUBTYPE"
    /\ svcSrc' = TRUE
    /\ registered' = (source = "socket")
    /\ listening' = TRUE /\ srcState' = "started"
    /\ queue' = 0 /\ announced' = FALSE
    /\ Goto("ipc", IF /\ source # "file"
                      /\ svcDtv = None \/ svcDtv \in DirectTypes
                   THEN "param" ELSE "publish")
    /\ UNCHANGED <<started, svcType, svcDtv, svcSub, parser, parserThr,
                   parserStop, presenter, presStop, tick, arg, srvLock, feedRef>>

\* setParameter on start
StartParam ==
    /\ pc["ipc"] = "param" /\ SubFree
    /\ SetParameter(Updated(svcDtv, svcType))
    /\ Goto("ipc", "publish")
    /\ UNCHANGED <<svcVars, workVars, srcVars, arg, srvLock, feedRef>>

StartPublish ==
    /\ pc["ipc"] = "publish"
    /\ svcSub' = TRUE
    /\ Goto("ipc", "idle")
    /\ UNCHANGED <<started, svcType, svcDtv, svcSrc, subVars, workVars, srcVars,
                   arg, srvLock, feedRef>>

-----------------------------------------------------------------------------
(* The setters, by the command thread. None of them takes mLock. *)

SetSubType(type) ==
    /\ pc["ipc"] = "idle"
    /\ svcDtv' = type
    /\ svcType' = Updated(type, svcType)
    /\ UNCHANGED <<started, svcSub, svcSrc, subVars, workVars, srcVars, pcVars>>

\* Calls setParameter if mSubtiles is set.
CallIfSet == Goto("ipc", IF svcSub THEN "setParam" ELSE "idle")

SetSubPageId ==
    /\ pc["ipc"] = "idle"
    /\ svcDtv = Dvb
    /\ CallIfSet
    /\ UNCHANGED <<svcVars, subVars, workVars, srcVars, arg, srvLock, feedRef>>

TtControl ==
    /\ pc["ipc"] = "idle"
    /\ svcType' = Ttx
    /\ CallIfSet
    /\ UNCHANGED <<started, svcDtv, svcSub, svcSrc, subVars, workVars, srcVars,
                   arg, srvLock, feedRef>>

\* A new media sync id. The code looks at mDataSource and uses mSubtiles.
SetPipId ==
    /\ pc["ipc"] = "idle"
    /\ svcSrc
    /\ Goto("ipc", IF svcSub THEN "setParam" ELSE "nullCall")
    /\ UNCHANGED <<svcVars, subVars, workVars, srcVars, arg, srvLock, feedRef>>

\* The call itself, through a plain pointer.
CallSetParameter ==
    /\ pc["ipc"] = "setParam"
    /\ IF alive
       THEN /\ SubFree
            /\ SetParameter(Updated(svcDtv, svcType))
            /\ Goto("ipc", "idle")
       ELSE /\ Goto("ipc", "nullCall")
            /\ UNCHANGED subVars
    /\ UNCHANGED <<svcVars, workVars, srcVars, arg, srvLock, feedRef>>

-----------------------------------------------------------------------------
(* SubtitleService::stopSubtitle, by the command thread or, when the remote *)
(* end hangs up, by the poll thread; ~Subtitle by whoever drops the last    *)
(* reference.                                                               *)

StopBegin(t) ==
    /\ pc[t] = "idle" /\ SvcFree
    /\ t = "feed" => RemoteDead /\ source = "socket"
    /\ started
    /\ started' = FALSE
    /\ Goto(t, "drop")
    /\ UNCHANGED <<svcType, svcDtv, svcSub, svcSrc, subVars, workVars, srcVars,
                   arg, srvLock, feedRef>>

\* ~Subtitle asks its thread to leave.
BeginDestroy(t) ==
    /\ exitReq' = TRUE
    /\ Goto(t, "joinRun")
    /\ UNCHANGED <<alive, curType, subType, pending>>

\* Mutant of StopDrop: the listener list is not locked.
StopDrop_NoLock(t) ==
    /\ pc[t] = "drop"
    /\ svcSub' = FALSE /\ listening' = FALSE
    /\ IF svcSub /\ ~feedRef
       THEN BeginDestroy(t)
       ELSE Goto(t, "clear") /\ UNCHANGED subVars
    /\ UNCHANGED <<started, svcType, svcDtv, svcSrc, workVars, registered,
                   srcState, queue, announced, tick, arg, srvLock, feedRef>>

\* dettachDataSource needs DataSource::mLock; then mSubtiles = nullptr.
StopDrop(t) ==
    /\ pc[t] = "drop"
    /\ svcSub => tick = "idle"
    /\ svcSub' = FALSE /\ listening' = FALSE
    /\ IF svcSub /\ ~feedRef
       THEN BeginDestroy(t)
       ELSE Goto(t, "clear") /\ UNCHANGED subVars
    /\ UNCHANGED <<started, svcType, svcDtv, svcSrc, workVars, registered,
                   srcState, queue, announced, tick, arg, srvLock, feedRef>>

\* The run thread is joined before the source is stopped.
JoinRun(t) ==
    /\ pc[t] = "joinRun" /\ run = "stopped"
    /\ run' = "none"
    /\ srcState' = "stopped"
    /\ parserStop' = (parser # None)
    /\ Goto(t, IF parser # None THEN "joinParser" ELSE "free")
    /\ UNCHANGED <<svcVars, subVars, parser, parserThr, presenter, presStop,
                   registered, listening, queue, announced, tick,
                   arg, srvLock, feedRef>>

\* Mutant of JoinParser: the parser thread is not joined.
JoinParser_NoJoin(t) ==
    /\ pc[t] = "joinParser"
    /\ presStop' = TRUE
    /\ Goto(t, "joinPresent")
    /\ UNCHANGED <<svcVars, subVars, run, parser, parserThr, parserStop,
                   presenter, srcVars, arg, srvLock, feedRef>>

\* stopParser and stopPresent, once the run thread is gone.
JoinParser(t) ==
    /\ pc[t] = "joinParser" /\ parserThr = "none"
    /\ presStop' = TRUE
    /\ Goto(t, "joinPresent")
    /\ UNCHANGED <<svcVars, subVars, run, parser, parserThr, parserStop,
                   presenter, srcVars, arg, srvLock, feedRef>>

JoinPresent(t) ==
    /\ pc[t] = "joinPresent" /\ presenter = "none"
    /\ parser' = None
    /\ Goto(t, "free")
    /\ UNCHANGED <<svcVars, subVars, run, parserThr, parserStop, presenter,
                   presStop, srcVars, arg, srvLock, feedRef>>

\* The Subtitle and its reference to the source go. If the service has let the
\* source go already, ~SocketSource runs here and unregisterClient locks
\* SubSocketServer::mLock, which "feed" holds itself: it stays at "selfLock".
Free(t) ==
    /\ pc[t] = "free"
    /\ alive' = FALSE
    /\ Goto(t, IF ~DestroysAsOwner(t) THEN "clear"
               ELSE IF svcSrc THEN "idle" ELSE "selfLock")
    /\ srvLock' = (srvLock /\ ~(DestroysAsOwner(t) /\ svcSrc))
    /\ UNCHANGED <<svcVars, curType, subType, pending, exitReq, workVars,
                   srcVars, arg, feedRef>>

\* Mutant of StopClear: mDataSource is left as it is.
StopClear_KeepsSource(t) ==
    /\ pc[t] = "clear"
    /\ svcType' = None /\ svcDtv' = None
    /\ Goto(t, "idle")
    /\ UNCHANGED <<started, svcSub, svcSrc, subVars, workVars, srcVars, arg,
                   srvLock, feedRef>>

\* mDataSource = nullptr destroys the source unless a Subtitle that "feed" still
\* holds has it, and the parameters are reset.
StopClear(t) ==
    /\ pc[t] = "clear"
    /\ svcSrc' = FALSE /\ svcType' = None /\ svcDtv' = None
    /\ IF svcSrc /\ ~alive
       THEN /\ registered => ~srvLock
            /\ registered' = FALSE /\ srcState' = "none" /\ queue' = 0
            /\ UNCHANGED <<listening, announced, tick>>
       ELSE UNCHANGED srcVars
    /\ Goto(t, "idle")
    /\ UNCHANGED <<started, svcSub, subVars, workVars, arg, srvLock, feedRef>>

-----------------------------------------------------------------------------
(* Subtitle::run *)

RunHead ==
    /\ run = "head"
    /\ run' = IF exitReq THEN "stopped" ELSE "wait"
    /\ UNCHANGED <<svcVars, subVars, parser, parserThr, parserStop, presenter,
                   presStop, srcVars, pcVars>>

\* Mutant of Replaces: new parameters replace the parser, too.
Replaces_SetParam ==
    /\ parser # None
    /\ \/ pending # "none"
       \/ source = "file" /\ parser = Cc

\* The current parser has to go before the next one is made: a type was
\* received, or an external subtitle was given the default CC parser.
Replaces ==
    /\ parser # None
    /\ \/ pending = "RECEIVED_SUBTYPE"
       \/ source = "file" /\ parser = Cc

\* The type of the next parser.
NextType ==
    IF source = "file" /\ parser \in {None, Cc} THEN Ext ELSE ParserOf(subType)

\* The first parser is made: for the external subtitle, for a pending action,
\* or because 100 ms have passed without one.
Creates ==
    /\ parser = None
    /\ source = "file" \/ pending # "none" \/ DefaultCc

\* Mutant of ParserMade: the action stays pending.
ParserMade_StillPending ==
    /\ CreateParser(NextType)
    /\ subType' = IF NextType = Ext THEN Ext ELSE subType
    /\ pending' = "RECEIVED_SUBTYPE"
    /\ run' = "head"
    /\ UNCHANGED <<alive, curType, exitReq>>

\* The next parser is made; what was pending is done.
ParserMade ==
    /\ CreateParser(NextType)
    /\ subType' = IF NextType = Ext THEN Ext ELSE subType
    /\ pending' = "none"
    /\ run' = "head"
    /\ UNCHANGED <<alive, curType, exitReq>>

\* wait_for returns, at a notification or after 100 ms, and mMutex is held.
RunHandle ==
    /\ run = "wait"
    /\ \/ /\ Creates
          /\ ParserMade
       \/ /\ Replaces
          /\ parserStop' = TRUE
          /\ run' = "joinParser"
          /\ UNCHANGED <<subVars, parser, parserThr, presenter, presStop>>
       \/ /\ ~Creates /\ ~Replaces
          /\ pending' = "none"
          /\ run' = "head"
          /\ UNCHANGED <<alive, curType, subType, exitReq, parser, parserThr,
                         parserStop, presenter, presStop>>
    /\ UNCHANGED <<svcVars, srcVars, pcVars>>

\* Mutant of RunJoinParser: the parser thread is not joined.
RunJoinParser_NoJoin ==
    /\ run = "joinParser"
    /\ presStop' = TRUE
    /\ run' = "joinPresent"
    /\ UNCHANGED <<svcVars, subVars, parser, parserThr, parserStop, presenter,
                   srcVars, pcVars>>

\* stopParser returns; mMutex is held all along.
RunJoinParser ==
    /\ run = "joinParser" /\ parserThr = "none"
    /\ presStop' = TRUE
    /\ run' = "joinPresent"
    /\ UNCHANGED <<svcVars, subVars, parser, parserThr, parserStop, presenter,
                   srcVars, pcVars>>

\* stopPresent returns and the next parser is made.
RunJoinPresent ==
    /\ run = "joinPresent" /\ presenter = "none"
    /\ ParserMade
    /\ UNCHANGED <<svcVars, srcVars, pcVars>>

-----------------------------------------------------------------------------
(* The parser thread and the thread of the presentation *)

\* _parserEntry goes round: it leaves, or parse() reads the source.
ParserLoop ==
    /\ parserThr = "running"
    /\ \/ parserStop /\ parserThr' = "none"
       \/ ~parserStop /\ parser \in Streams /\ parserThr' = "reading"
    /\ UNCHANGED <<svcVars, subVars, run, parser, parserStop, presenter, presStop,
                   srcVars, pcVars>>

\* Mutant of ParserRead: stopping the source does not wake the reader.
ParserRead_NoWake ==
    /\ parserThr = "reading"
    /\ queue > 0
    /\ parserThr' = "running"
    /\ queue' = queue - 1
    /\ UNCHANGED <<svcVars, subVars, run, parser, parserStop, presenter, presStop,
                   registered, listening, srcState, announced, tick, pcVars>>

\* read() waits in BufferSegment::pop while the source is started and empty.
ParserRead ==
    /\ parserThr = "reading"
    /\ queue > 0 \/ srcState # "started"
    /\ parserThr' = "running"
    /\ queue' = IF srcState = "started" THEN queue - 1 ELSE queue
    /\ UNCHANGED <<svcVars, subVars, run, parser, parserStop, presenter, presStop,
                   registered, listening, srcState, announced, tick, pcVars>>

PresenterLeave ==
    /\ presenter = "running" /\ presStop
    /\ presenter' = "none"
    /\ UNCHANGED <<svcVars, subVars, run, parser, parserThr, parserStop, presStop,
                   srcVars, pcVars>>

-----------------------------------------------------------------------------
(* The threads of the source *)

\* SocketSource::onData for eTypeSubtitleType: mSubtitleType is set, and
\* notifyInfoChange_l takes a strong reference to a registered listener.
FeedType(type) ==
    /\ source = "socket" /\ pc["feed"] = "idle" /\ registered /\ ~srvLock
    /\ announced' = TRUE
    /\ IF listening
       THEN /\ srvLock' = TRUE /\ feedRef' = TRUE /\ arg' = type
            /\ Goto("feed", "notify")
       ELSE UNCHANGED pcVars
    /\ UNCHANGED <<svcVars, subVars, workVars, registered, listening, srcState,
                   queue, tick>>

\* eTypeSubtitleData: data that no type preceded is dropped. The listener is
\* referenced as well, though it is told nothing.
FeedData ==
    /\ source = "socket" /\ pc["feed"] = "idle" /\ registered /\ ~srvLock
    /\ announced => queue < QueueCap
    /\ queue' = IF announced THEN queue + 1 ELSE queue
    /\ IF listening
       THEN /\ srvLock' = TRUE /\ feedRef' = TRUE
            /\ Goto("feed", "release")
            /\ UNCHANGED arg
       ELSE UNCHANGED pcVars
    /\ UNCHANGED <<svcVars, subVars, workVars, registered, listening, srcState,
                   announced, tick>>

\* onTypeChanged
FeedNotify ==
    /\ pc["feed"] = "notify" /\ SubFree
    /\ OnTypeChanged(arg)
    /\ Goto("feed", "release")
    /\ UNCHANGED <<svcVars, workVars, srcVars, arg, srvLock, feedRef>>

\* Mutant of FeedRelease: nothing is destroyed here.
FeedRelease_NoDestroy ==
    /\ pc["feed"] = "release"
    /\ feedRef' = FALSE /\ srvLock' = FALSE
    /\ Goto("feed", "idle")
    /\ UNCHANGED <<svcVars, subVars, workVars, srcVars, arg>>

\* The reference goes; it is the last one if the service gave up its own.
FeedRelease ==
    /\ pc["feed"] = "release"
    /\ feedRef' = FALSE
    /\ IF svcSub \/ pc["ipc"] \in OwnerPcs
       THEN srvLock' = FALSE /\ Goto("feed", "idle") /\ UNCHANGED subVars
       ELSE UNCHANGED srvLock /\ BeginDestroy("feed")
    /\ UNCHANGED <<svcVars, workVars, srcVars, arg>>

\* DeviceSource::loopDriverData
DeviceData ==
    /\ source = "device" /\ srcState # "none"
    /\ queue < QueueCap
    /\ queue' = queue + 1
    /\ UNCHANGED <<svcVars, subVars, workVars, registered, listening, srcState,
                   announced, tick, pcVars>>

\* loopRenderTime: a strong reference, under DataSource::mLock ...
TickTake ==
    /\ tick = "idle" /\ listening /\ source # "file"
    /\ tick' = "holding"
    /\ UNCHANGED <<svcVars, subVars, workVars, registered, listening, srcState,
                   queue, announced, pcVars>>

\* ... until syncCurrentPresentTime has had Presentation::mMutex.
TickCall ==
    /\ tick = "holding" /\ PresFree
    /\ tick' = "idle"
    /\ UNCHANGED <<svcVars, subVars, workVars, registered, listening, srcState,
                   queue, announced, pcVars>>

-----------------------------------------------------------------------------
Request ==
    \/ StartBegin \/ StartNoSource
    \/ \E t \in Chosen : SetSubType(t)
    \/ "page" \in Ops /\ SetSubPageId
    \/ "pip" \in Ops /\ SetPipId
    \/ "ttControl" \in Ops /\ TtControl
    \/ \E t \in Threads : StopBegin(t)
    \/ \E t \in Announced : FeedType(t)
    \/ FeedData
    \/ DeviceData
    \/ TickTake

StopStep(t) ==
    \/ JoinRun(t) \/ JoinParser(t) \/ JoinPresent(t) \/ Free(t) \/ StopClear(t)

IpcStep == StartCreate \/ StartParam \/ StartPublish \/ CallSetParameter
RunStep == RunHead \/ RunHandle \/ RunJoinParser \/ RunJoinPresent
ParserStep == ParserLoop \/ ParserRead
FeedStep == FeedNotify \/ FeedRelease

LifecycleNext ==
    /\ \/ Request
       \/ IpcStep \/ RunStep \/ ParserStep \/ PresenterLeave \/ FeedStep \/ TickCall
       \/ \E t \in Threads : StopDrop(t) \/ StopStep(t)
    /\ UNCHANGED source

LifecycleSpec == LifecycleInit /\ [][LifecycleNext]_vars

\* Every thread runs. A stop gets DataSource::mLock in the end: loopRenderTime
\* sleeps 16 ms without it in every round.
LifecycleFairness ==
    /\ WF_vars(IpcStep /\ UNCHANGED source)
    /\ WF_vars(RunStep /\ UNCHANGED source)
    /\ WF_vars(ParserStep /\ UNCHANGED source)
    /\ WF_vars(PresenterLeave /\ UNCHANGED source)
    /\ WF_vars(FeedStep /\ UNCHANGED source)
    /\ WF_vars(TickCall /\ UNCHANGED source)
    /\ \A t \in Threads : SF_vars(StopDrop(t) /\ UNCHANGED source) /\ WF_vars(StopStep(t) /\ UNCHANGED source)

LifecycleFairSpec == LifecycleSpec /\ LifecycleFairness

-----------------------------------------------------------------------------
(* Properties *)

PcLabels == {"idle", "create", "param", "publish", "setParam", "nullCall", "drop",
             "joinRun", "joinParser", "joinPresent", "free", "clear",
             "notify", "release", "selfLock"}

ServiceTypeOK ==
    /\ source \in Sources
    /\ started \in BOOLEAN /\ svcSub \in BOOLEAN /\ svcSrc \in BOOLEAN
    /\ svcType \in Types \cup {None} /\ svcDtv \in Types \cup {None, BadType}

SubtitleTypeOK ==
    /\ alive \in BOOLEAN /\ exitReq \in BOOLEAN
    /\ curType \in Types \cup {None} /\ subType \in Types \cup {None}
    /\ pending \in {"none", "SET_PARAM", "RECEIVED_SUBTYPE"}

WorkTypeOK ==
    /\ run \in {"none", "head", "wait", "joinParser", "joinPresent", "stopped"}
    /\ parser \in Types \cup {None}
    /\ parserThr \in {"none", "running", "reading"} /\ parserStop \in BOOLEAN
    /\ presenter \in {"none", "running"} /\ presStop \in BOOLEAN

SourceTypeOK ==
    /\ registered \in BOOLEAN /\ listening \in BOOLEAN
    /\ srcState \in {"none", "started", "stopped"}
    /\ queue \in 0..QueueCap /\ announced \in BOOLEAN
    /\ tick \in {"idle", "holding"}

PcTypeOK ==
    /\ pc \in [Threads -> PcLabels] /\ arg \in Announced \cup {None}
    /\ srvLock \in BOOLEAN /\ feedRef \in BOOLEAN

\* The type invariant.
LifecycleTypeOK ==
    ServiceTypeOK /\ SubtitleTypeOK /\ WorkTypeOK /\ SourceTypeOK /\ PcTypeOK

\* No thread runs on a Subtitle that is gone: run, the parser's thread, the
\* presenter, a render-time tick and a type notification all use it through a
\* plain pointer, and only the joins of ~Subtitle and the order of the locks in
\* stopSubtitle keep it alive under them.
ThreadsHaveOwner ==
    \/ run # "none" \/ parserThr # "none" \/ presenter # "none"
    \/ tick = "holding" \/ feedRef
    => alive

\* A parser that waits for data finds its source in place.
ReaderHasSource == parserThr = "reading" => srcState # "none"

Quiet(t) == pc[t] \in {"idle", "nullCall"}

\* When stopSubtitle has returned and "feed" is not in the middle of a call,
\* nothing of the session is left: no Subtitle, no source, no registration.
QuietWhenClosed ==
    ~started /\ SvcFree /\ Quiet("feed")
    => ~alive /\ ~svcSub /\ ~svcSrc /\ ~registered /\ ~listening /\ srcState = "none"

\* setPipId looks at mDataSource before it uses mSubtiles: whenever no start or
\* stop is under way the two are set together.
SubtitleWithSource == SvcFree => (svcSub <=> svcSrc)

\* Outside of the run thread's critical section and of the destructor a parser,
\* its thread and its presenter exist together.
ParserPaired ==
    SubFree /\ (\A t \in Threads : pc[t] \notin DestroyPcs)
    => /\ parser # None <=> parserThr # "none"
       /\ parser # None <=> presenter = "running"

\* A parser is made or dropped only when no thread of another one is running.
ParserReplacedWhenStopped ==
    [][parser' # parser => parserThr = "none" /\ presenter = "none"]_vars

\* A type the source announced is the type of the session, unless DTV
\* parameters were set.
AnnouncedTypeKept ==
    alive /\ curType # None /\ svcDtv = None => subType = curType

\* Every stop comes to its end.
StopReturns == \A t \in Threads : pc[t] = "drop" ~> pc[t] = "idle"

\* Every open comes to its end.
StartReturns == pc["ipc"] = "create" ~> pc["ipc"] = "idle"

\* A call of setParameter comes to its end.
SetterReturns == pc["ipc"] = "setParam" ~> pc["ipc"] = "idle"

\* What was asked of the run thread is done, or the session is being closed.
PendingHandled == pending # "none" ~> pending = "none" \/ exitReq

=============================================================================
