------------------------- MODULE ServiceParameters -------------------------
(* The parameters that SubtitleService keeps for each kind of broadcast       *)
(* subtitle, and what of them its source has been given. The calls come one   *)
(* after the other, as SubtitleServer locks around each. A parameter is the   *)
(* demux, the pid and the secure level of one kind; the source keeps those of *)
(* the kind it was last given (DemuxSource::updateParameter). Closed captions *)
(* have no such parameters.                                                   *)
EXTENDS Integers

CONSTANTS
    DtvKinds,     \* "scte27", "dvb", "teletext", "ttml", "arib", "smpte" or "cc"
    Values,       \* values a client sets
    MaxSettings   \* bound: calls

ASSUME ServiceParametersAssumption ==
    /\ DtvKinds \subseteq {"scte27", "dvb", "teletext", "ttml", "arib", "smpte", "cc"}
    /\ Values \subseteq Nat /\ MaxSettings \in Nat

VARIABLES
    dtvSubType,   \* mSubParam.dtvSubType, "invalid" for none
    subType,      \* mSubParam.subType
    mSubParam,    \* the parameters of each kind
    mSourceParam, \* of the source: [kind, param], kind "none" without a source
    settings      \* calls so far

serviceVars == <<dtvSubType, subType, mSubParam, mSourceParam, settings>>

Kinds == DtvKinds \ {"cc"}
NoSource == [kind |-> "none", param |-> [demuxId |-> 0, pid |-> 0, flag |-> 0]]

ServiceInit ==
    /\ dtvSubType = "invalid" /\ subType = "invalid"
    /\ mSubParam = [k \in Kinds |-> [demuxId |-> 0, pid |-> 0, flag |-> 0]]
    /\ mSourceParam = NoSource /\ settings = 0

-----------------------------------------------------------------------------
\* mSubParam.update(): an invalid kind leaves the type as it was
TypeOf(dtv) == IF dtv = "invalid" THEN subType ELSE dtv

\* updateParameter for each type but those left out
Updated(params, omitted) ==
    IF mSourceParam.kind # "none" /\ subType \in Kinds \ omitted
    THEN [kind |-> subType, param |-> params[subType]] ELSE mSourceParam

Set(field, value) ==
    IF dtvSubType \in Kinds THEN [mSubParam EXCEPT ![dtvSubType][field] = value] ELSE mSubParam

setSubType(dtv) ==
    /\ dtvSubType' = dtv /\ subType' = TypeOf(dtv)
    /\ UNCHANGED <<mSubParam, mSourceParam>>

setDemuxId(id) ==
    /\ mSubParam' = Set("demuxId", id) /\ mSourceParam' = Updated(mSubParam', {})
    /\ UNCHANGED <<dtvSubType, subType>>

\* Mutant of setSecureLevel: the case of teletext is forgotten.
setSecureLevel_NotTeletext(flag) ==
    /\ mSubParam' = Set("flag", flag) /\ mSourceParam' = Updated(mSubParam', {"teletext"})
    /\ UNCHANGED <<dtvSubType, subType>>

setSecureLevel(flag) ==
    /\ mSubParam' = Set("flag", flag) /\ mSourceParam' = Updated(mSubParam', {})
    /\ UNCHANGED <<dtvSubType, subType>>

\* The pid of SCTE-27 is kept and not passed on
setSubPid(pid) ==
    /\ mSubParam' = Set("pid", pid) /\ mSourceParam' = Updated(mSubParam', {"scte27"})
    /\ UNCHANGED <<dtvSubType, subType>>

\* The source that is created begins with the parameters of the type, if it is
\* one of those
startSource ==
    /\ mSourceParam.kind = "none"
    /\ mSourceParam' = IF subType \in Kinds THEN [kind |-> subType, param |-> mSubParam[subType]]
                       ELSE [NoSource EXCEPT !.kind = "other"]
    /\ UNCHANGED <<dtvSubType, subType, mSubParam>>

\* ttControl, ttGotoPage, ttNextPage, ttNextSubPage: the type is teletext from
\* then on, whatever the kind
ttControl ==
    /\ subType' = "teletext"
    /\ UNCHANGED <<dtvSubType, mSubParam, mSourceParam>>

stopSource ==
    /\ mSourceParam.kind # "none" /\ mSourceParam' = NoSource
    /\ dtvSubType' = "invalid" /\ subType' = "invalid" /\ UNCHANGED mSubParam

ServiceNext ==
    /\ settings < MaxSettings /\ settings' = settings + 1
    /\ \/ \E dtv \in DtvKinds \cup {"invalid"} : setSubType(dtv)
       \/ \E v \in Values : setDemuxId(v) \/ setSecureLevel(v) \/ setSubPid(v)
       \/ startSource
       \/ "teletext" \in DtvKinds /\ ttControl
       \/ stopSource

ServiceSpec == ServiceInit /\ [][ServiceNext]_serviceVars

-----------------------------------------------------------------------------
(* While the source works on the kind that the client has chosen, it has the   *)
(* demux, pid and secure level last set for that kind, in whatever order they  *)
(* were set, before or after the start and across changes of the kind          *)
(* (setDemuxId, setSecureLevel, setSubPid, startSubtitle). The pid of SCTE-27  *)
(* is left out: setSubPid does not pass it on (SubtitleService.cpp:316-326),   *)
(* so that it arrives with the next parameter set.                             *)
SourceHasParameters ==
    LET kind == mSourceParam.kind IN
    kind \in Kinds /\ kind = dtvSubType /\ subType = dtvSubType =>
       /\ mSourceParam.param.demuxId = mSubParam[kind].demuxId
       /\ mSourceParam.param.flag = mSubParam[kind].flag
       /\ kind # "scte27" => mSourceParam.param.pid = mSubParam[kind].pid
=============================================================================
