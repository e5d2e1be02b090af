----------------------------- MODULE DemuxPath ------------------------------
(***************************************************************************)
(* The hardware demux as a source of packets: DemuxSource (io/DemuxSource  *)
(* .cpp) opens a device, allocates a filter and has its callback push what *)
(* the filter delivers; the driver (io/DemuxDriver.c, io/Demux.c) runs one *)
(* thread for each device that is open.                                    *)
(*                                                                         *)
(* The calls to the driver are steps of the service's thread, in the order *)
(* open_dvb_dmx and close_dvb_dmx make them; the locks of the driver are   *)
(* only held within one step.  Any system call can fail.                   *)
(***************************************************************************)
EXTENDS Integers, Sequences, FiniteSets

CONSTANTS
    DemuxIds,     \* numbers of devices; 0 is DEMUX_SOURCE_ID
    FilterIds,    \* 0..DEMUX_FILTER_COUNT - 1
    Pids

ASSUME DemuxAssumption ==
    /\ 0 \in DemuxIds
    /\ FilterIds \subseteq Nat /\ IsFiniteSet(FilterIds)

VARIABLES
    source,     \* the DemuxSource that sInstance names
    dev,        \* dmx_devices
    thread,     \* dmx_data_thread of each device
    calls,      \* driver calls that the service's thread has still to make
    demuxFault, \* some system call has failed
    moved       \* the number of the device was changed while it was in use

demuxVars == <<source, dev, thread, calls, demuxFault, moved>>

NoThread == [at |-> "none", mask |-> {}, filter |-> -1]
Polling == [NoThread EXCEPT !.at = "poll"]

DemuxInit ==
    /\ source = [state |-> "none", id |-> 0, pid |-> 0, handle |-> -1]
    /\ dev = [d \in DemuxIds |->
                [count |-> 0, enable |-> FALSE,
                 filter |-> [f \in FilterIds |-> [used |-> FALSE, on |-> FALSE, cb |-> FALSE]]]]
    /\ thread = [d \in DemuxIds |-> NoThread]
    /\ calls = <<>> /\ demuxFault = FALSE /\ moved = FALSE

Idle == calls = <<>> /\ source.state # "terminated"

-----------------------------------------------------------------------------
(* The driver's calls.  Each gives the outcomes it can have: the device and    *)
(* whether it succeeded.                                                       *)

Good(v) == [dev |-> v, ok |-> TRUE, fault |-> FALSE]
Bad(v) == [dev |-> v, ok |-> FALSE, fault |-> TRUE]
Refused(v) == [dev |-> v, ok |-> FALSE, fault |-> FALSE]

\* dmx_stop_filter, dmx_free_filter
DmxStopFilter(v, f) ==
    IF ~v.filter[f].used \/ ~v.filter[f].on THEN {Good(v)}
    ELSE {Good([v EXCEPT !.filter[f].on = FALSE]), Bad(v)}

DmxFreeFilter(v, f) ==
    IF ~v.filter[f].used THEN {Good(v)}
    ELSE {IF r.ok THEN Good([r.dev EXCEPT !.filter[f].used = FALSE]) ELSE r :
            r \in DmxStopFilter(v, f)}

DemuxOpen(v) ==
    IF v.count > 0 THEN {Good([v EXCEPT !.count = @ + 1])}
    ELSE {Good([v EXCEPT !.count = 1, !.enable = TRUE]), Bad([v EXCEPT !.enable = TRUE])}

\* The first filter that is not in use
FreeFilters(v) == {f \in FilterIds : ~v.filter[f].used}
NextFilter(v) == CHOOSE f \in FreeFilters(v) : \A g \in FreeFilters(v) : f <= g

DemuxAllocateFilter(v) ==
    IF FreeFilters(v) = {} THEN {Refused(v)}
    ELSE {Good([v EXCEPT !.filter[NextFilter(v)].used = TRUE]), Bad(v)}

DemuxSetBufferSize(v) == {Good(v), Bad(v)}

\* DemuxSetPesFilter, DemuxSetSecFilter
DemuxSetFilter(v, f) ==
    DmxStopFilter(v, f) \cup {Bad(r.dev) : r \in DmxStopFilter(v, f)}

DemuxSetCallback(v, f, cb) ==
    {IF v.filter[f].used THEN Good([v EXCEPT !.filter[f].cb = cb]) ELSE Refused(v)}

DemuxStartFilter(v, f) ==
    IF v.filter[f].on THEN {Good(v)}
    ELSE {Good([v EXCEPT !.filter[f].on = TRUE]), Bad(v)}

\* dmx_free_filter of all filters; one that cannot be stopped stays in use
FreeAll(v) ==
    LET on == {f \in FilterIds : v.filter[f].used /\ v.filter[f].on}
    IN  {[dev |-> [v EXCEPT !.count = 0, !.filter = [f \in FilterIds |->
                     IF f \in kept THEN @[f] ELSE [@[f] EXCEPT !.used = FALSE, !.on = FALSE]]],
          ok |-> TRUE, fault |-> kept # {}] : kept \in SUBSET on}

DemuxClose(v) ==
    IF v.count = 1 THEN FreeAll(v) ELSE {Good([v EXCEPT !.count = @ - 1])}

Call(c, v, f) ==
    IF c.op = "open" THEN DemuxOpen(v)
    ELSE IF v.count = 0 THEN {Refused(v)}            \* dmx_get_opened_dev
    ELSE IF c.op \in {"alloc", "bufsize", "close"}
    THEN CASE c.op = "alloc" -> DemuxAllocateFilter(v)
           [] c.op = "bufsize" -> DemuxSetBufferSize(v)
           [] c.op = "close" -> DemuxClose(v)
    ELSE IF ~v.filter[f].used THEN {Refused(v)}      \* dmx_get_used_filter
    ELSE CASE c.op = "set" -> DemuxSetFilter(v, f)
           [] c.op = "callback" -> DemuxSetCallback(v, f, TRUE)
           [] c.op = "start" -> DemuxStartFilter(v, f)
           [] c.op = "stop" -> DmxStopFilter(v, f)
           [] c.op = "free" -> DmxFreeFilter(v, f)
           [] c.op = "nocallback" -> DemuxSetCallback(v, f, FALSE)

-----------------------------------------------------------------------------
(* DemuxSource. *)

On(d, ops) == [i \in 1..Len(ops) |-> [op |-> ops[i], dev |-> d]]

\* open_dvb_dmx; filter_handle is -1 until one is allocated
OpenDvbDmx(d) == On(d, <<"open", "alloc", "bufsize", "set", "callback", "start">>)

\* its error path
Error(d, h) == On(d, IF h = -1 THEN <<"close">> ELSE <<"free", "close">>)

\* close_dvb_dmx
CloseDvbDmx(d, h) ==
    On(d, IF h = -1 THEN <<"close">> ELSE <<"stop", "free", "nocallback", "close">>)

Then(op) == <<[op |-> op, dev |-> 0]>>

\* A new DemuxSource and its parameters, before it is started
NewSource(d, p) ==
    /\ Idle /\ source.state \in {"none", "freed"}
    /\ source' = [state |-> "inv", id |-> d, pid |-> p, handle |-> -1]
    /\ UNCHANGED <<dev, thread, calls, demuxFault, moved>>

StartSource ==
    /\ Idle /\ source.state = "inv"
    /\ source' = [source EXCEPT !.state = "started"]
    /\ calls' = OpenDvbDmx(source.id)
    /\ UNCHANGED <<dev, thread, demuxFault, moved>>

\* updateParameter: another pid of a started source closes the device with the
\* new number and opens it again; then the thread object of the render time is
\* replaced while its thread runs, which ends the process.
UpdateSource(d, p) ==
    /\ Idle /\ source.state \in {"inv", "started"} /\ <<d, p>> # <<source.id, source.pid>>
    /\ source' = [source EXCEPT !.id = d, !.pid = p]
    /\ moved' = (moved \/ (source.state = "started" /\ d # source.id))
    /\ calls' = IF source.state = "started" /\ p # source.pid
                THEN CloseDvbDmx(d, source.handle) \o OpenDvbDmx(d) \o Then("terminate")
                ELSE <<>>
    /\ UNCHANGED <<dev, thread, demuxFault>>

\* stop closes DEMUX_SOURCE_ID, whatever device was opened.
StopSource ==
    /\ Idle /\ source.state = "started"
    /\ source' = [source EXCEPT !.state = "stopped"]
    /\ calls' = CloseDvbDmx(0, source.handle)
    /\ UNCHANGED <<dev, thread, demuxFault, moved>>

\* The destructor; a source is destroyed after it was stopped.
DestroySource ==
    /\ Idle /\ source.state = "stopped"
    /\ source' = [source EXCEPT !.state = "destroying"]
    /\ calls' = CloseDvbDmx(source.id, source.handle) \o Then("freed")
    /\ UNCHANGED <<dev, thread, demuxFault, moved>>

\* A failure in open_dvb_dmx goes to its end; those in close_dvb_dmx are ignored.
Opening == calls[1].op \in {"open", "alloc", "bufsize", "set", "callback", "start"}

\* DemuxClose has told the thread to end and waits for it.
Joined(c) == c.op = "close" /\ dev[c.dev].count = 1 =>
                 ~dev[c.dev].enable /\ thread[c.dev].at = "none"

CallDriver ==
    LET c == calls[1] IN
    /\ calls # <<>> /\ c.op \notin {"freed", "terminate"} /\ Joined(c)
    /\ \E r \in Call(c, dev[c.dev], source.handle) :
          LET fails == Opening /\ ~r.ok
              h == CASE c.op = "open" -> -1
                     [] c.op = "alloc" /\ r.ok -> NextFilter(dev[c.dev])
                     [] OTHER -> source.handle
          IN  /\ dev' = [dev EXCEPT ![c.dev] = r.dev]
              /\ source' = [source EXCEPT !.handle = h]
              /\ calls' = IF fails THEN Error(c.dev, h) ELSE Tail(calls)
              /\ thread' = IF c.op = "open" /\ r.ok /\ dev[c.dev].count = 0
                           THEN [thread EXCEPT ![c.dev] = Polling] ELSE thread
              /\ demuxFault' = (demuxFault \/ r.fault)
    /\ UNCHANGED moved

TellThread ==
    /\ calls # <<>> /\ calls[1].op = "close"
    /\ LET d == calls[1].dev IN
       /\ dev[d].count = 1 /\ dev[d].enable
       /\ dev' = [dev EXCEPT ![d].enable = FALSE]
    /\ UNCHANGED <<source, thread, calls, demuxFault, moved>>

\* What follows the driver's calls
Finish ==
    /\ calls # <<>> /\ calls[1].op \in {"freed", "terminate"}
    /\ source' = [source EXCEPT !.state = IF calls[1].op = "freed" THEN "freed" ELSE "terminated"]
    /\ calls' = <<>>
    /\ UNCHANGED <<dev, thread, demuxFault, moved>>

-----------------------------------------------------------------------------
(* dmx_data_thread. *)

Alive == source.state # "terminated"

\* dvb_poll finds data; POLLERR counts as data.
PollReturns(d) ==
    /\ Alive /\ thread[d].at = "poll" /\ dev[d].enable
    /\ \E mask \in SUBSET {f \in FilterIds : dev[d].filter[f].used} :
          /\ mask # {}
          /\ thread' = [thread EXCEPT ![d] = [at |-> "serve", mask |-> mask, filter |-> -1]]
    /\ UNCHANGED <<source, dev, calls, demuxFault, moved>>

\* The next filter of the mask, read under the lock if it is still on
ServeFilter(d) ==
    /\ Alive /\ thread[d].at = "serve" /\ thread[d].mask # {}
    /\ LET f == CHOOSE x \in thread[d].mask : \A y \in thread[d].mask : x <= y
           on == dev[d].filter[f].on /\ dev[d].filter[f].used
           rest == [thread[d] EXCEPT !.mask = @ \ {f}]
       IN  \/ thread' = [thread EXCEPT ![d] = rest]           \* off, or nothing to read
           \/ /\ on /\ dev[d].filter[f].cb
              /\ thread' = [thread EXCEPT ![d] = [rest EXCEPT !.at = "cb", !.filter = f]]
    /\ UNCHANGED <<source, dev, calls, demuxFault, moved>>

\* pes_data_cb pushes a copy to the segment of the current instance, unlocked.
PesDataCb(d) ==
    /\ Alive /\ thread[d].at = "cb"
    /\ thread' = [thread EXCEPT ![d].at = "serve", ![d].filter = -1]
    /\ UNCHANGED <<source, dev, calls, demuxFault, moved>>

NextRound(d) ==
    /\ Alive /\ thread[d].at = "serve" /\ thread[d].mask = {}
    /\ thread' = [thread EXCEPT ![d] = Polling]
    /\ UNCHANGED <<source, dev, calls, demuxFault, moved>>

ThreadEnds(d) ==
    /\ Alive /\ thread[d].at = "poll" /\ ~dev[d].enable
    /\ thread' = [thread EXCEPT ![d] = NoThread]
    /\ UNCHANGED <<source, dev, calls, demuxFault, moved>>

DemuxNext ==
    \/ \E d \in DemuxIds, p \in Pids : NewSource(d, p) \/ UpdateSource(d, p)
    \/ StartSource \/ StopSource \/ DestroySource
    \/ CallDriver \/ TellThread \/ Finish
    \/ \E d \in DemuxIds : PollReturns(d) \/ ServeFilter(d) \/ PesDataCb(d)
                           \/ NextRound(d) \/ ThreadEnds(d)

DemuxSpec == DemuxInit /\ [][DemuxNext]_demuxVars

-----------------------------------------------------------------------------
(* While the number of the device is left alone, the callback never runs
   without a started source to push to - not before start has made the segment,
   not after the destructor - and, when no system call fails, a source that is
   gone leaves no device open and no filter in use, although stop closes device
   0 whatever was opened and the filters are released while their thread still
   serves them (DemuxSource.cpp:97, 220-237, 475-483; DemuxDriver.c:208-216,
   343-367). *)
DemuxReleased ==
    ~moved =>
        /\ \A d \in DemuxIds : thread[d].at = "cb" =>
              source.state \notin {"none", "inv", "freed"}
        /\ source.state = "freed" /\ ~demuxFault =>
              \A d \in DemuxIds :
                  /\ dev[d].count = 0 /\ thread[d].at = "none"
                  /\ \A f \in FilterIds : ~dev[d].filter[f].used
=============================================================================
