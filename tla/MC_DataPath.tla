----------------------------- MODULE MC_DataPath -----------------------------
(* The parts that carry data from the outside to a parser and tell of it: the  *)
(* ring buffer, the data socket, a source's segment and its reader, the demux  *)
(* and driver sources with their threads, the caption decoder's threads and    *)
(* the thread that waits for subtitles. They share no state with each other:   *)
(* a behaviour is one of the part chosen at its start.                         *)
EXTENDS RingBuffer, SocketFraming, SegmentRead, DemuxPath, DriverSource,
        ClosedCaption, DecodeTimeout

ASSUME DataPathAssumption == PacketsFit /\ PathsSignal

VARIABLE part   \* the part of this behaviour

GarbageSizes == {-1, 0, 2}
MCSetups == {[steady |-> TRUE, sizes |-> {0, 2, 8}, kinds |-> {"data", "exit"}],
             [steady |-> FALSE, sizes |-> {0, 2}, kinds |-> {"data", "typeString", "exit"}]}
MCPaths == {<<"dvb", "hw">>, <<"dvb", "soft">>, <<"ttml", "soft">>}

\* In the behaviours of the other parts, v does not matter
Fixed(name, v, S) == part # name => v = CHOOSE x \in S : TRUE

MCInit ==
    /\ part \in {"ring", "framing", "segment", "demux", "driver", "caption", "timeout"}
    /\ RingInit /\ DemuxInit
    /\ FramingInit /\ Fixed("framing", setup, Setups)
    /\ SegmentInit /\ Fixed("segment", kind, ReadKinds)
    /\ DriverSourceInit /\ Fixed("driver", srcKind, SourceKinds)
    /\ ClosedCaptionInit /\ Fixed("caption", video, StartTimes)
    /\ TimeoutInit /\ Fixed("timeout", path, Paths)

\* An action of one part, the others at rest
InRing(A) == /\ part = "ring" /\ A
             /\ UNCHANGED <<part, vars, segVars, demuxVars, drvVars, ccVars, timeoutVars>>
InFraming(A) == /\ part = "framing" /\ A
                /\ UNCHANGED <<part, ringVars, segVars, demuxVars, drvVars, ccVars, timeoutVars>>
InSegment(A) == /\ part = "segment" /\ A
                /\ UNCHANGED <<part, ringVars, vars, demuxVars, drvVars, ccVars, timeoutVars>>
InDemux(A) == /\ part = "demux" /\ A
              /\ UNCHANGED <<part, ringVars, vars, segVars, drvVars, ccVars, timeoutVars>>
InDriver(A) == /\ part = "driver" /\ A
               /\ UNCHANGED <<part, ringVars, vars, segVars, demuxVars, ccVars, timeoutVars>>
InCaption(A) == /\ part = "caption" /\ A
                /\ UNCHANGED <<part, ringVars, vars, segVars, demuxVars, drvVars, timeoutVars>>
InTimeout(A) == /\ part = "timeout" /\ A
                /\ UNCHANGED <<part, ringVars, vars, segVars, demuxVars, drvVars, ccVars>>

MCNext ==
    \/ InRing(RingNext)
    \/ InFraming(FramingNext)
    \/ InSegment(SegmentNext)
    \/ InDemux(DemuxNext)
    \/ InDriver(DriverSourceNext)
    \/ InCaption(ClosedCaptionNext)
    \/ InTimeout(TimeoutNext)

MCVars == <<part, ringVars, vars, segVars, demuxVars, drvVars, ccVars, timeoutVars>>

\* The fairness of the parts (FramingFairness, SegmentFair, DriverSourceFair,
\* ClosedCaptionFair, TimeoutFair): as only one part moves, one condition serves
\* an action of each
MCFair ==
    /\ WF_MCVars(InFraming(SocketSend) \/ InSegment(Disable) \/ InTimeout(SignalItem)
                 \/ InDriver(ownerAt \in {"join", "joinRead"} /\ OwnerStep)
                 \/ InCaption(ClosedCaptionDestroy))
    /\ WF_MCVars(InFraming(Recv) \/ InSegment(Return) \/ InTimeout(ExitTest)
                 \/ InDriver(TimeThreadStep) \/ InCaption(ReadPackage))
    /\ WF_MCVars(InFraming(Deliver) \/ InSegment(Copy) \/ InTimeout(WaitFor)
                 \/ InDriver(ReadThreadStep) \/ InCaption(VbiEvent))
    /\ WF_MCVars(InSegment(PopWait) \/ InTimeout(TimedOut) \/ InCaption(ReportData))
    /\ WF_MCVars(InSegment(PopTake) \/ InTimeout(callbackProcess) \/ InCaption(RenderWaits))
    /\ WF_MCVars(InTimeout(TimePasses) \/ InCaption(WaitTimesOut))
    /\ WF_MCVars(InCaption(RenderEnds))
    /\ SF_MCVars(InSegment(NotifyExit) \/ InCaption(ClosedCaptionStop))
    /\ SF_MCVars(InSegment(PopTest) \/ InCaption(AppendNode))
    /\ SF_MCVars(InCaption(StartRender))
    /\ SF_MCVars(InCaption(am_cc_render))

MCSpec == MCInit /\ [][MCNext]_MCVars /\ MCFair

(* Who waits is served: what was sent to a steady listener is delivered        *)
(* (EverythingDelivered), a reader leaves a source that is stopped             *)
(* (StoppedReaderReturns), and the destructors that join threads return, of    *)
(* driver sources (SourceDestroyed), the caption parser (CaptionStopReturns)   *)
(* and the parsers that wait for subtitles (TimeoutThreadEnds).                *)
Waiting ==
    \/ part = "framing" /\ setup.steady /\ Len(delivered) < Len(sent)
    \/ part = "segment" /\ mState = "stopped"
    \/ part = "driver" /\ ownerAt = "join"
    \/ part = "caption" /\ owner = "closing"
    \/ part = "timeout" /\ life = "destroying"
Served ==
    \/ part = "framing" /\ (Len(delivered) = Len(sent) \/ srv = "removed")
    \/ part = "segment" /\ rd.at = "idle"
    \/ part = "driver" /\ ownerAt = "gone"
    \/ part = "caption" /\ owner = "gone"
    \/ part = "timeout" /\ waiter = "done"
WaitingIsServed == Waiting ~> Served

(* The size and the place of what flows: the stream's types hold, and between  *)
(* two packets nothing is left behind (FramingTypeOK, NothingLeftBehind).      *)
StreamOK == FramingTypeOK /\ NothingLeftBehind

(* Nothing leaks and nothing is called that is gone: the devices and filters   *)
(* of a demux source (DemuxReleased), the session of a driver source           *)
(* (DriverSourceSafe).                                                         *)
SourcesSafe == DemuxReleased /\ DriverSourceSafe

(* What is told of time is true: captions come when due, in order and across   *)
(* the wrap of the time stamps (CaptionsOnTime), and "no subtitles" is told    *)
(* only after the silence it tells of (SilenceMeansSilence).                   *)
OnTime == CaptionsOnTime /\ SilenceMeansSilence
=============================================================================
