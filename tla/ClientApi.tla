----------------------------- MODULE ClientApi -----------------------------
(* The native API (SubtitleNativeAPI), the commands that the client library    *)
(* sends for its calls, their dispatch in SubtitleServiceLinux, and what       *)
(* SubtitleServer and SubtitleService do with them. Every command waits for    *)
(* its answer, so a handle has one on its way; the server answers one at a     *)
(* time. All handles share session 0. The transport is that of SocketFraming   *)
(* and CommandIpc; here a connection works, or is lost and answers -1 from     *)
(* then on. A command is [verb, module, args], its text split at the dots.     *)
(* ApiHandles are used by the rules: one thread each, and not after Destroy.      *)
EXTENDS Integers, Sequences, FiniteSets

CONSTANTS
    ApiHandles,
    OpenParams,   \* parameters of amlsub_Open: [type, pid, channel, comp, anc, dmx]
    CcChannels,   \* of amlsub_SelectCcChannel
    ApiEvents,    \* of amlsub_TeletextControl
    MaxApiCalls   \* bound: calls in all

ASSUME ClientApiAssumption == MaxApiCalls \in Nat

VARIABLES
    gAvailContextMap,  \* the handles that exist
    apiCall,           \* of each handle: [name, param, todo, answers]
    returned,          \* of each handle, its last call if it has ended:
                       \* [name, param, status, answers]
    undisturbed,       \* handles since whose last call began no other has been served
    lostConnection,    \* handles whose server connection is gone
    wantedRender,      \* mRenderType of each handle's client
    srv,               \* the server: its session, and the service of that session
    apiCalls           \* calls made

apiVars == <<gAvailContextMap, apiCall, returned, undisturbed, lostConnection,
             wantedRender, srv, apiCalls>>

NoCall == [name |-> "none", param |-> 0, todo |-> <<>>, answers |-> <<>>]
NotYet == [name |-> "none", param |-> 0, status |-> "OK", answers |-> <<>>]

\* Captions come with the video and have no pid
PidTypes == {p.type : p \in OpenParams} \ {"cc"}

\* A new SubtitleService
NewService ==
    [session |-> TRUE, started |-> FALSE, dtvSubType |-> "invalid", subType |-> "invalid",
     pid |-> [t \in PidTypes |-> 0], dmx |-> [t \in PidTypes |-> 0],
     ChannelID |-> 0, comp |-> 0, anc |-> 0, magazine |-> 0, pageNo |-> 0, event |-> 0,
     renderType |-> "direct", afd |-> FALSE, player |-> 0]

ApiInit ==
    /\ gAvailContextMap = {} /\ lostConnection = {} /\ undisturbed = {}
    /\ apiCall = [h \in ApiHandles |-> NoCall] /\ returned = [h \in ApiHandles |-> NotYet]
    /\ wantedRender = [h \in ApiHandles |-> "direct"]
    /\ srv = [NewService EXCEPT !.session = FALSE] /\ apiCalls = 0

-----------------------------------------------------------------------------
(* SubtitleClientLinux: a call and the command it sends, as it is written      *)

Cmd(verb, module, args) == [verb |-> verb, module |-> module, args |-> args]
mSessionId == 0

openConnectionCmd == Cmd("ctrl", "OPENCONNECTION", <<>>)
closeConnectionCmd == Cmd("ctrl", "CLOSECONNECTION", <<mSessionId>>)
openCmd(ioType) == Cmd("ctrl", "OPEN", <<mSessionId, ioType>>)
closeCmd == Cmd("ctrl", "CLOSE", <<mSessionId>>)
resetForSeekCmd == Cmd("ctrl", "RESETFORSEEK", <<mSessionId>>)
updateVideoPosCmd(pos) == Cmd("ctrl", "UPDATEVIDEOPTS", <<mSessionId, pos>>)
setSubTypeCmd(type) == Cmd("set", "SETSUBTYPE", <<mSessionId, type>>)
setSubPidCmd(pid) == Cmd("set", "GETSUBPID", <<mSessionId, pid>>)
setPageIdCmd(id) == Cmd("set", "SETPAGEID", <<mSessionId, id>>)
setAncPageIdCmd(id) == Cmd("set", "SETANCPAGEID", <<mSessionId, id>>)
setChannelIdCmd(id) == Cmd("set", "SETCHANNELID", <<mSessionId, id>>)
\* One place in the format: neither the session nor the format is sent
setClosedCaptionVfmtCmd == Cmd("set", "SETCHANNELID", <<>>)
applyRenderTypeCmd(h) == Cmd("set", "SETRENDERTYPE", <<mSessionId, wantedRender[h]>>)
setPipIdCmd(mode, id) == Cmd("set", "SETPIPID", <<mSessionId, mode, id>>)
userDataOpenCmd == Cmd("afdcontrol", "USERDATAOPEN", <<mSessionId>>)
userDataCloseCmd == Cmd("afdcontrol", "USERDATACLOSE", <<mSessionId>>)
ttControlCmd(event, magazine, page) ==
    Cmd("ttcontrol", "TTCONTROL", <<mSessionId, event, magazine, page>>)

-----------------------------------------------------------------------------
(* SubtitleServer and SubtitleService: the new state and the answer            *)

OK == 0
FAIL == 1
To(state, answer) == [srv |-> state, answer |-> answer]

\* The setters answer OK whether there is a service or not
Setter(service) == To(IF srv.session THEN service ELSE srv, OK)
\* The others fail without one
With(service) == IF srv.session THEN To(service, OK) ELSE To(srv, FAIL)

stopSubtitle(s) ==
    [s EXCEPT !.started = FALSE, !.dtvSubType = "invalid", !.subType = "invalid",
              !.comp = 0, !.anc = 0]

\* The demux of an ioType goes to the type that is set; a service that has
\* started refuses
ServerOpen(ioType) ==
    LET s == IF ioType.dmx >= 0 /\ srv.dtvSubType \in PidTypes
             THEN [srv EXCEPT !.dmx[srv.dtvSubType] = ioType.dmx] ELSE srv IN
    IF ~srv.session \/ srv.started THEN To(IF srv.session THEN s ELSE srv, FAIL)
    ELSE To([s EXCEPT !.started = TRUE], OK)

ServerClose ==
    IF srv.session /\ srv.started THEN To(stopSubtitle(srv), OK) ELSE To(srv, FAIL)

\* openConnection keeps a service that is there; closeConnection answers FAIL
ServerOpenConnection == To(IF srv.session THEN srv ELSE NewService, 0)
ServerCloseConnection == To([NewService EXCEPT !.session = FALSE], FAIL)

SetSubPageId(id) ==
    Setter(CASE srv.dtvSubType = "dvb" -> [srv EXCEPT !.comp = id]
          [] srv.dtvSubType = "teletext" -> [srv EXCEPT !.magazine = id]
          [] OTHER -> srv)
SetSubAncPageId(id) ==
    Setter(CASE srv.dtvSubType = "dvb" -> [srv EXCEPT !.anc = id]
          [] srv.dtvSubType = "teletext" -> [srv EXCEPT !.pageNo = id]
          [] OTHER -> srv)
SetSubPid(pid) ==
    Setter(IF srv.dtvSubType \in PidTypes THEN [srv EXCEPT !.pid[srv.dtvSubType] = pid] ELSE srv)

\* True without a subtitle (-1), false with one (0): OK and FAIL change places
UpdateVideoPos == To(srv, IF srv.session /\ ~srv.started THEN OK ELSE FAIL)

TtControl(event, magazine, page) ==
    LET s == [srv EXCEPT !.event = event, !.subType = "teletext"] IN
    IF ~srv.session THEN srv
    ELSE IF event = "goto" THEN [s EXCEPT !.magazine = magazine, !.pageNo = page] ELSE s

-----------------------------------------------------------------------------
(* SubtitleServiceLinux: arguments that are not sent are 0                     *)

Arg(c, i) == IF i \in DOMAIN c.args THEN c.args[i] ELSE 0

SetCmd(c) ==
    CASE c.module = "OPENCONNECTION" -> ServerOpenConnection
      [] c.module = "CLOSECONNECTION" -> ServerCloseConnection
      [] c.module = "OPEN" -> ServerOpen(Arg(c, 2))
      [] c.module = "CLOSE" -> ServerClose
      [] c.module = "UPDATEVIDEOPTS" -> UpdateVideoPos
      [] c.module = "SETPAGEID" -> SetSubPageId(Arg(c, 2))
      [] c.module = "SETANCPAGEID" -> SetSubAncPageId(Arg(c, 2))
      [] c.module = "SETCHANNELID" -> Setter([srv EXCEPT !.ChannelID = Arg(c, 2)])
      [] c.module = "USERDATAOPEN" -> With([srv EXCEPT !.afd = TRUE])
      [] c.module = "USERDATACLOSE" -> With([srv EXCEPT !.afd = FALSE])
      [] c.module = "SETSUBTYPE" ->
            Setter([srv EXCEPT !.dtvSubType = Arg(c, 2), !.subType = Arg(c, 2)])
      [] c.module = "SETRENDERTYPE" -> With([srv EXCEPT !.renderType = Arg(c, 2)])
      [] c.module = "SETPIPID" -> With([srv EXCEPT !.player = Arg(c, 3)])
      [] c.module = "GETSUBPID" -> SetSubPid(Arg(c, 2))
      [] OTHER -> To(srv, 0)   \* RESETFORSEEK among them: only a log line

ParserSubtitleCommand(c) ==
    IF c.verb = "ttcontrol" THEN To(TtControl(Arg(c, 2), Arg(c, 3), Arg(c, 4)), 0) ELSE SetCmd(c)

-----------------------------------------------------------------------------
(* The native API                                                              *)

\* The commands of a call begin; a call finds its handle or is invalid
Begin(h, name, param, todo) ==
    /\ apiCall[h].name = "none" /\ apiCalls < MaxApiCalls /\ apiCalls' = apiCalls + 1
    /\ apiCall' = [apiCall EXCEPT ![h] = [NoCall EXCEPT !.name = name, !.param = param, !.todo = todo]]
    /\ undisturbed' = undisturbed \cup {h} /\ returned' = [returned EXCEPT ![h] = NotYet]
    /\ UNCHANGED <<lostConnection, srv>>

\* Its connection is a new one
amlsub_Create(h) ==
    /\ h \notin gAvailContextMap /\ gAvailContextMap' = gAvailContextMap \cup {h}
    /\ h \notin lostConnection /\ wantedRender' = [wantedRender EXCEPT ![h] = "direct"]
    /\ Begin(h, "Create", 0, <<openConnectionCmd>>)

amlsub_Destroy(h) ==
    /\ h \in gAvailContextMap /\ gAvailContextMap' = gAvailContextMap \ {h}
    /\ Begin(h, "Destroy", 0, <<closeConnectionCmd>>) /\ UNCHANGED wantedRender

Known(h) == h \in gAvailContextMap /\ UNCHANGED <<gAvailContextMap, wantedRender>>

\* Mutant of amlsub_Open: the pid is sent before the type.
amlsub_Open_PidFirst(h, p) ==
    /\ Known(h)
    /\ Begin(h, "Open", p,
          <<userDataOpenCmd, setSubPidCmd(p.pid), setSubTypeCmd(p.type), setChannelIdCmd(p.channel),
            setClosedCaptionVfmtCmd, applyRenderTypeCmd(h), openCmd([dmx |-> p.dmx]),
            setPageIdCmd(p.comp), setAncPageIdCmd(p.anc)>>)

amlsub_Open(h, p) ==
    /\ Known(h)
    /\ Begin(h, "Open", p,
          <<userDataOpenCmd, setSubTypeCmd(p.type), setSubPidCmd(p.pid), setChannelIdCmd(p.channel),
            setClosedCaptionVfmtCmd, applyRenderTypeCmd(h), openCmd([dmx |-> p.dmx]),
            setPageIdCmd(p.comp), setAncPageIdCmd(p.anc)>>)
amlsub_Close(h) == Known(h) /\ Begin(h, "Close", 0, <<userDataCloseCmd, closeCmd>>)
amlsub_Reset(h) == Known(h) /\ Begin(h, "Reset", 0, <<resetForSeekCmd>>)
amlsub_SetPip(h, id) == Known(h) /\ Begin(h, "SetPip", id, <<setPipIdCmd(1, id)>>)
amlsub_TeletextControl(h, event) ==
    Known(h) /\ Begin(h, "TeletextControl", event, <<ttControlCmd(event, 1, 0)>>)
amlsub_SelectCcChannel(h, ch) == Known(h) /\ Begin(h, "SelectCcChannel", ch, <<setChannelIdCmd(ch)>>)
amlsub_UpdateVideoPos(h) == Known(h) /\ Begin(h, "UpdateVideoPos", 0, <<updateVideoPosCmd(1)>>)

\* No command: the render type is sent with the next Open
amlsub_RegistOnDataCB(h) ==
    /\ h \in gAvailContextMap /\ apiCall[h].name = "none"
    /\ wantedRender[h] = "direct" /\ wantedRender' = [wantedRender EXCEPT ![h] = "callback"]
    /\ UNCHANGED <<gAvailContextMap, apiCall, returned, undisturbed, lostConnection, srv, apiCalls>>

\* The next command of a call is answered
SendMethodCall(h) ==
    LET c == apiCall[h] IN
    /\ c.todo # <<>>
    /\ LET r == IF h \in lostConnection THEN To(srv, -1) ELSE ParserSubtitleCommand(Head(c.todo)) IN
       /\ srv' = r.srv
       /\ apiCall' = [apiCall EXCEPT ![h].todo = Tail(@), ![h].answers = Append(@, r.answer)]
    /\ undisturbed' = IF h \in lostConnection THEN undisturbed ELSE undisturbed \cap {h}
    /\ UNCHANGED <<gAvailContextMap, returned, lostConnection, wantedRender, apiCalls>>

\* What a call makes of the answer that it looks at
Truth(answer) == IF answer # 0 THEN "OK" ELSE "FAIL"
StatusOf(name, answer) ==
    IF name \in {"Close", "Reset", "UpdateVideoPos"} THEN Truth(answer) ELSE "OK"

CallEnds(h) ==
    LET c == apiCall[h] IN
    /\ c.name # "none" /\ c.todo = <<>>
    /\ returned' = [returned EXCEPT ![h] =
          [name |-> c.name, param |-> c.param, answers |-> c.answers,
           status |-> StatusOf(c.name, c.answers[Len(c.answers)])]]
    /\ apiCall' = [apiCall EXCEPT ![h] = NoCall]
    /\ UNCHANGED <<gAvailContextMap, undisturbed, lostConnection, wantedRender, srv, apiCalls>>

\* The server sees the connection end: it closes the session of all handles,
\* and keeps its service all the same when there was nothing to stop
onRemoteDead(h) ==
    /\ h \in gAvailContextMap \ lostConnection /\ lostConnection' = lostConnection \cup {h}
    /\ srv' = IF srv.session /\ srv.started THEN ServerCloseConnection.srv ELSE srv
    /\ undisturbed' = {}
    /\ UNCHANGED <<gAvailContextMap, apiCall, returned, wantedRender, apiCalls>>

ApiNext ==
    \E h \in ApiHandles :
        \/ amlsub_Create(h) \/ amlsub_Destroy(h) \/ amlsub_Close(h) \/ amlsub_Reset(h)
        \/ \E p \in OpenParams : amlsub_Open(h, p)
        \/ amlsub_SetPip(h, 1) \/ amlsub_UpdateVideoPos(h) \/ amlsub_RegistOnDataCB(h)
        \/ \E e \in ApiEvents : amlsub_TeletextControl(h, e)
        \/ \E ch \in CcChannels : amlsub_SelectCcChannel(h, ch)
        \/ SendMethodCall(h) \/ CallEnds(h) \/ onRemoteDead(h)

ApiSpec == ApiInit /\ [][ApiNext]_apiVars

-----------------------------------------------------------------------------
(* When amlsub_Open has started subtitles and no other handle came between,    *)
(* the server has everything that was asked for: each of the nine commands     *)
(* arrived as itself, in an order in which none undoes another - the type      *)
(* before the pid and the page, which are kept by type. The caption channel is *)
(* left out: setClosedCaptionVfmt sends the command of the channel without its *)
(* arguments, so that channel 0 is set (SubtitleClientLinux.cpp:283-288).      *)
OpenTakesEffect ==
    \A h \in undisturbed :
        LET r == returned[h] IN
        (apiCall[h] = NoCall /\ r.name = "Open" /\ r.answers[7] = OK) =>
            /\ srv.session /\ srv.started /\ srv.afd /\ r.status = "OK"
            /\ srv.dtvSubType = r.param.type
            /\ r.param.type \in PidTypes =>
                  /\ srv.pid[r.param.type] = r.param.pid
                  /\ r.param.dmx >= 0 => srv.dmx[r.param.type] = r.param.dmx
            /\ r.param.type = "dvb" => srv.comp = r.param.comp /\ srv.anc = r.param.anc
            /\ r.param.type = "teletext" =>
                  srv.magazine = r.param.comp /\ srv.pageNo = r.param.anc
=============================================================================
