# Verification of the subtitle server

TLA+ models of the Amlogic subtitle server (`src/`), model-checked with TLC
and, where it matters most, proved with TLAPS. Line numbers are those of the
source at the commit in `src/`; paths without a directory are under
`src/libsubtitle/`.

## 1. The system

The server is a process (`service/`) that shows the subtitles of a video which
another process, the media player, plays. The application opens, controls and
closes a session through a command socket; the player's client library sends
subtitle packets, types and the time of the video through a data socket, or the
kernel delivers them through a device, a demux or a VBI driver. Per session the
server creates a data source, a parser for the type of the subtitle and a
presentation that shows decoded items when the video has reached them.

    application --command socket--> SubtitleServiceLinux --> SubtitleServer --> SubtitleService
        ^                                                        |                  | owns
        +---- callbacks <--- AndroidCallbackMessageQueue <-------+                  v
    player --data socket--> SubSocketServer --> SocketSource --> Parser --> Presentation --> Display
    kernel --device/demux/vbi/user data--> DeviceSource, DemuxSource, ...  (same place as SocketSource)

### Components

| Component (code) | State | Operations | Interacts with | What is hard | What makes it correct |
|---|---|---|---|---|---|
| Subtitle session (`SubtitleService.cpp`, `subtitle/Subtitle.cpp`, `parser/ParserFactory.cpp`) | the Subtitle and source pointers, the chosen and the announced type, the pending request, the run thread's place | start, stop, setters, `onTypeChanged`, `run` | source (attach, detach), parser and presentation (start, stop), data socket (listener) | five threads, five locks, plain pointers across locks, joins under locks | nothing outlives what it uses; closing leaves nothing; every call returns; parsers are replaced one at a time |
| Data sources (`io/*Source.cpp`, `utils/Segment.cpp`) | state, listeners, queue, render time | start, stop, read, `onData`, `loopRenderTime` | data socket, drivers, parser | a reader blocked while the session stops; announcements under the socket's lock; a last reference dropped by the source's own thread | a reader is always released and gets the bytes in order; no read after destruction |
| Presentation (`subtitle/Presentation.cpp`, queue of `parser/Parser.h`) | decoded, queued and fading items, the looper's message, the time | `addDecodedItem`, `syncCurrentPresentTime`, the looper's check, start and stop | parser, render-time thread, renderer | the looper only acts on a message; the time jumps | what is due is shown, what is over leaves, nothing on the screen is forgotten |
| Socket framing (`ipc/SocketServer.cpp`, `client/SubtitleReportAPI.cpp`) | received bytes, the header being served, listeners | send, receive, `processData`, register, hang-up | player, socket source | packets cut and joined anywhere | each payload is delivered whole, once, in order, or not at all |
| Ring buffer (`utils/ringbuffer.c`) | cells, two cursors, two counts | create, write, read, peek, reset | `IpcBuffer`, `FmqReceiver` | wrap-around, partial transfers | it is a bounded FIFO of bytes |
| Subtitle server (`SubtitleServer.cpp`, `service/SubtitleServiceLinux.cpp`) | services by session, callbacks, open state | open and close of connections and sessions, remote death | command IPC, sessions | one session shared by all applications, death in a call | a session does not outlive the applications |
| Command IPC (`ipc/IpcSocket.cpp`, `ipc/EventsTracker.h`, `utils/BlockChannel.h`, `client/SubtitleClientLinux.cpp`) | connections, the blocking channel of a call, the listener | `sendForResult`, listener, exit and join of the looper | application, server | two calls at once, a late answer, death of either side | each call gets its own answer or learns that the server is gone |
| FMQ receiver (`ipc/FmqReceiver.cpp`) | bytes, header | `readLoop` | ring buffer, source | resynchronisation | each packet is delivered once |
| Callback queue (`utils/AndroidCallbackMessageQueue.cpp`) | queued data and events | post, looper, destruction | parsers, server | a queue that is freed under its looper | order of the callbacks, none after destruction |
| Demux, VBI and user-data drivers (`io/Demux*.c*`, `io/Vbi*`, `io/Userdata*.c`) | filters, callbacks, threads, reorder lists | open, start, stop, close, data | demux source, parsers | joins under a lock, a device number that changes while it is open, a list at its limit | a closed filter is silent, a closed source leaves no device open; captions come in display order |
| Stream parsers (`subtitle/parser/*Parser.cpp`) | regions, objects, pages, epochs, fragments, the timeout thread | one packet, a key of the remote control | source, presentation, application ("available") | state that spans packets, packets cut or lost, run lengths at the edge of a buffer | an item shows what its packets built; "no subtitles" is told only after silence |
| Closed captions (`ClosedCaptionParser.cpp`, `ClosedCaption.c`) | the instance pointer, the chain of captions, two threads | start, stop, callbacks | decoder library | 32-bit times that wrap, joins of two threads | captions come when due and in order; a stop returns |
| External subtitle parsers (`parser/ExtParser/`) | the reader's buffer, the list of items | read a line, decode, hand over | presentation | lines and fragments at the edge of a buffer, lines read twice, times that a later line completes | no line is lost, doubled, cut or shown at another's time |
| Renderers (`subtitle/render/`, `display/`) | items to draw, a thread | show, hide, remove, reset | presentation | two threads call, requests applied late, an item that cannot be drawn | the screen becomes what the list says |
| Utilities (`utils/`: cJSON, bprint, timers, signal handler, leak tracker) | | | | | third-party or free of server logic |

The behaviours that are hard to test are the `hazards` of PROJECT.json, each
with the line where it bites and the properties that watch it, or the reason
why none does yet.

## 2. Modules

| Module | Models | Lives with |
|---|---|---|
| `ByteFifo` | what a bounded byte FIFO promises (abstract) | |
| `RingBuffer` | `utils/ringbuffer.c` | `MC_DataPath`, `DataPathProofs` |
| `SubtitleLifecycle` | a session from open to close: service, Subtitle, source, run thread, parser's thread, looper, poll thread, render-time thread | `MC_SubtitleLifecycle`, `SubtitleLifecycleProofs` |
| `Presentation` | decoded items, the looper's checks, the renderer's list | `MC_Presentation`, `PresentationProofs` |
| `SocketFraming` | the reporting client, the stream and `SubSocketServer::processData` | `MC_DataPath`, `MC_SocketFraming`, `SocketFramingProofs` |
| `SegmentRead` | `utils/Segment.*` and the read of a parser, with a stop at any moment | `MC_DataPath`, `DataPathProofs` |
| `DemuxPath` | `DemuxSource.cpp`, `DemuxDriver.c`, `Demux.c`: devices, filters, the data threads | `MC_DataPath`, `DataPathProofs` |
| `DriverSource` | the threads of `DeviceSource` and `VbiSource` | `MC_DataPath`, `DataPathProofs` |
| `ClosedCaption` | `ClosedCaption.c`, `ClosedCaptionParser.cpp`: the two threads and the chain | `MC_DataPath`, `DataPathProofs` |
| `DecodeTimeout` | `callbackProcess` of the parsers | `MC_DataPath`, `DataPathProofs` |
| `CommandIpc` | the applications' calls, their loopers, the sockets, the server's event loop with the one service | `MC_Service`, `MC_CommandIpc`, `ServiceProofs` |
| `ClientApi` | the native API, its commands, their dispatch and effect | `MC_Service`, `ServiceProofs` |
| `ServiceParameters` | the setters of `SubtitleService` and what the source is given | `MC_Service`, `ServiceProofs` |
| `RenderThread` | `WLRender`, `FBRender`, `DFBRender`: the list and the drawing thread | `MC_Service`, `ServiceProofs` |
| `CallbackQueue` | `AndroidCallbackMessageQueue`, `AndroidHidlRemoteRender` | `MC_Service`, `ServiceProofs` |
| `DvbSubtitle`, `PgsEpoch` | `DvbParser.cpp`, `PgsParser.cpp`: what lives from packet to packet, and the run lengths | `MC_Decoders`, `DecoderProofs` |
| `SubpictureCode`, `DvdSubpicture`, `VobSub` | the DVD subpicture in a stream and in an index file | `MC_Decoders`, `SubpictureProofs` |
| `TeletextPages` | `TeletextParser.cpp`: keys, pages on air, the queue of drawn pages | `MC_Decoders`, `DecoderProofs` |
| `PesReader` | how the DVB, TTML, SMPTE and ARIB parsers find their packets | `MC_Decoders` |
| `Scte27`, `TtmlDocument` | `Scte27Parser.cpp`; the documents of `TtmlParser.cpp`, `SmpteTtmlParser.cpp` | `MC_Decoders`; for `Scte27` `DecoderProofs` (messages) and `SubpictureProofs` (characters) |
| `LineReader`, `TextSubtitles` | `ExtSubStreamReader.cpp`; the text formats of `ExtParser/` | `MC_Decoders` |
| `UserData` | `Userdata.c`, `UserdataDriver.c`: captions into the order of display | `MC_Decoders` |
| `Induction` | nothing of the code: induction over the naturals and recursive functions, for the proofs | `PresentationProofs`, `DataPathProofs`, `DecoderProofs`, `SubpictureProofs` |

`MC_DataPath`, `MC_Service` and `MC_Decoders` each compose the modules of one
layer that share no state: the variable `part` names, from the first state on,
the one that moves. The composed behaviours are therefore exactly those of the
parts; what flows from one part to the next is, in each module, an input that is
chosen freely out of what its neighbour can give. A property that is a conjunction
over parts (`SourcesSafe`, `OnTime`, `PicturesDrawn`, `PiecesWhole`, `RunsDrawn`, `FilesRead`,
`StreamsInOrder`, `WaitingIsServed`) is made of named properties of the modules,
where each is stated with the lines it is about.

Modules a theorem speaks about declare no recursive operator; their constants
carry named assumptions (`RingBufferAssumption`, `LifecycleAssumption`,
`PresentationAssumption`, `IpcAssumption`, ...), which TLC evaluates in every run of the module;
`DataPathAssumption` gathers what the joined parts of `MC_DataPath` need. Operators with
a suffix, such as `OnRemoteDead_Ignored`, stand before the definition of the same
name: each is that definition with a plausible bug, and the property it is
paired with in PROJECT.json fails when it takes the definition's place.

### RingBuffer

The state is that of `ringbuffer_t`: the cells, `read_pos`, `write_pos`, the two
counts, and `out`, what the last call returned. The cursors may rest one past
the last cell, as in the code, which wraps only a transfer that runs over the
end. Each of write, read, peek and cleanreset is one action: the code takes no
lock, but each buffer has one user, the poll thread or the FMQ thread. The mode
argument, which no function looks at, is left out; `assert(count < buffer_size)`
is the guard of read and peek.

### SubtitleLifecycle

`pc` says where the two callers are: "ipc", the thread of the command socket
(`EventsTracker` has one), and "feed", the poll thread of `SubSocketServer`. Run
thread, parser's thread, looper and render-time thread have a variable each
(`run`, `parserThr`, `presenter`, `tick`). Locks are predicates over the places
(`SvcFree`, `SubFree`, `PresFree`) or variables (`srvLock`). A call that takes
several locks or joins a thread is several actions, cut where another thread can
come between:

* open: `StartBegin`, `StartCreate` (create, `scheduleStart`, attach, the
  listener), `StartParam`, `StartPublish`; `StartNoSource` is the early return;
* close, on either thread: `StopBegin`, `StopDrop` (the source forgets the
  Subtitle, the last reference goes), then ~Subtitle: `BeginDestroy`, `JoinRun`,
  `JoinParser`, `JoinPresent`, `Free`; then `StopClear`;
* the setters: `SetSubType`, `SetSubPageId`, `SetPipId`, `TtControl`, with the
  null call a cleared pointer leads to, and `CallSetParameter`;
* the run thread: `RunHead`, `RunHandle`, `RunJoinParser`, `RunJoinPresent`;
* the parser and the looper: `ParserLoop`, `ParserRead`, `PresenterLeave`;
* the poll thread: `FeedType`, `FeedNotify`, `FeedRelease`, `FeedData`, with
  "selfLock" for a destructor that locks the mutex its thread already holds;
* device data and render time: `DeviceData`, `TickTake`, `TickCall`.

Choices: a behaviour has one io type, chosen in its first state (`source`, out of `Sources`); creation, `scheduleStart` and
attach are one step, because the run thread first waits 100 ms (Subtitle.cpp:237);
a wake-up of the run thread is never lost, because its wait has a timeout;
`svcDtv`, which no constructor sets, starts with any value it may have;
`isValidDtvParams` holds for CC and SCTE-27 (`DirectTypes`); the FMQ receiver,
the teletext remote commands and `resetForSeek`, which nobody calls, are left out.

### SocketFraming

A cell is a word of a packet. The client's packet is a header, some words of
payload; one `send` gives at most `SendMax` cells and one `recv` takes at most
`RecvMax`, so packets are cut and joined. `Header` and `Process` are the loop of
`processData`: the search for START_FLAG, the wait for a whole payload,
delivery to the listener in front (`Deliver`, apart because the list is tested
without its lock and read later under it) and the reset of the buffer. A header
made by `new` holds garbage until it is filled. The client may begin its next packet at any
time; `ahead` (not in the code) marks the behaviours in which it once did before the server had
taken the last. The properties of the payloads are about the others, and `Paced` bounds a run to
these; `payload_garbled` shows what becomes of them else. Left out: payload words that
look like START_FLAG, a full buffer, accept and connect.

### CommandIpc

One thread calls per application (`at`, `op`), with a looper (`looper`) that its
`EventsTracker` runs; the server has one event loop, so a command and its reply
(`ServerInput`, `Reply`) are not interrupted by others, but a client can die
between them. `chan` is the `BlockChannel` of the call. Its `poll` is two steps: only
a poll that did not have to wait wakes a waiting `put`. The wake-up of
`requestExit` reaches a looper that is polling and no other (`LoopTest`,
`LoopPoll`, `Wake`), so that the destructor's join may wait for ever; nothing promises
that it does not. The socket is the kernel's: closed with unread data in it, it
resets its peer (`reset`), whose looper then closes without calling the listener or
`onRemoteDead`. That is the exception in `CallReturns` (a command the dead server
had not read) and the reason for `"client" \notin faults` in `SessionHasClient`. A
reply to a dead client raises SIGPIPE and ends the server (`Reply`). `turn` is not in
the code: it tells the answer of one call from that of the next. Left out: the
busy retries of connect, the other commands (they are calls that leave connections
and sessions as they are), a session that fails to start, two threads in one
client, the callbacks.

### Presentation

Time is in seconds, so that the tolerance of 33 ms is 0; all other spans are the
code's own (`FixSpan`, `NoPtsSpan`, `SmallSpan`, `Ahead`, `FarOff`,
`TenMinutes`). Four actors: the parser adds items (`AddDecodedItem`), the
render-time thread sets the time (`SyncCurrentPresentTime`), the run thread
starts and stops (`StartParser`, `StartPresent`, `StartReset`, `StopParser`,
`StopPresent`), the looper checks. The check for an external subtitle is two
steps, `BeginExt`, which reads the time, and `CheckExt`, which begins by removing
the messages that came meanwhile. It draws an item only if it is not the very one it
showed last (`ShownAnew`; several texts shown as one are a new item each time), so
an item that a reset took off the screen stays off it; `ExternalShown` and
`ExternalCatchesUp` say so, and `external_undrawn` shows the case. The check of a stream is three steps
(`Take`, `Show`, `Fade`), because it reads the time again in each. `armed` is
the looper's message: a check takes all messages, and the code posts a new one
only on some of its ways out. The time -1 of an unsigned clock is treated as the
arithmetic does (`Clock`, `Fades`). `screen` is the renderer's list. Left out:
`MSG_RESET_MESSAGE_QUEUE` (only `resetForSeek` posts it), 33-bit pts, a start
modifier other than 0, the external branch inside the stream's handler.

### SegmentRead

A byte is its place in the stream; `push` adds buffers, the parser asks for some
bytes, `Copy` hands out what `read_l` or `read_check` would, which for a demux
source ends at the mark of the next packet. `pop` is `PopTest`, `PopWait` and
`PopTake`, with the lock in between; a stop is `stop` (the state, without a
lock), `Disable` (`mEnabled`, without the lock) and `NotifyExit`. A wait ends
with a notification only, so that a lost one would be seen. `mAvailableDataSize`
may become negative, as it does in the code.

### DemuxPath and DriverSource

`DemuxPath` makes each call to the driver a step of the service's thread, any of
which may fail; the data thread of a device polls, serves its filters one by one
and calls back. `moved` records that the number of the device was changed while
it was in use, after which the source closes another one than it opened
(DemuxSource.cpp:442): `DemuxReleased` speaks of the rest.
`DriverSource` has three threads: the service's (attach, detach, destroy),
the one that reads from the driver and the one that tells the time, which may drop
the last reference to the session while it tells it.

### ClosedCaption and DecodeTimeout

Time is a count that wraps at `PtsModulus`; `Gap` is the signed difference of the
code. Captions come ahead of the video by one of `Leads`. In `DecodeTimeout` the
sixty seconds are `Sixty` ticks, and no tick passes while a thread can go on:
only so does "after sixty seconds of silence" mean anything. A notification that
comes while nobody waits is lost (`signal`).

### ClientApi and ServiceParameters

A handle has one command under way (`SendMethodCall` is the command, its dispatch
and effect, which the server's one event loop does not interrupt); between the
commands of one call those of another handle may come. `setClosedCaptionVfmt` sends
the command of the channel without its argument, so that channel 0 is set, and a
lost connection answers -1. `undisturbed` are the handles in whose call no other
came between. `ServiceParameters` keeps for each kind of broadcast subtitle what was
set and what the source was last told; a setter of a kind that the code passes
over leaves the source as it was.

### RenderThread and CallbackQueue

A call of the renderer is two steps: the list is changed under `mRenderMutex` and then,
without it, the message is sent (`unsent`). There are two callers, the presentation's looper and
the thread that tells the time, which resets at pts 0 (Presentation.cpp:249-252), so that the
message of one can come behind a change of the other. The thread takes a message and draws
the list item by item, clearing the surface before each, so the last that can be
drawn is seen. The three renderers are the same code over different devices, but for
`removeSubtitleItem`: DFBRender sends a message, the others do not. `outdated` is not in the
code: it marks the states in which the screen cannot follow the list, after a removal without
a message, and after an item that was shown before the device's start, or
between a reset by the other thread and its message, has been cleared with the rest. In
`CallbackQueue` one message stands for all entries: handling it takes one entry
and replaces all messages by one that is due at once or, when nothing is left, later.

### The decoders

Each module keeps what lives from packet to packet and leaves text out, and
colours and positions where nothing but the picture depends on them; where run lengths are drawn into a buffer, the code words are kept and the
pixels counted. The encoders (`MC_Decoders`, `SubpictureCode`) make the inputs, so that
what is drawn can be compared with what was encoded. `DvbSubtitle` names an entry
of a display list by its region and place. In `PgsEpoch`, `Scte27` and `PesReader`
segments, sections or bytes may be lost on the way.

An object of `DvbSubtitle` is drawn from the place that the region gives it (`Displays`), at any
distance from the edges and outside the region too, since the code compares it with
nothing (DvbParser.cpp:722-731); an end of line returns to its column.

`DoDCSQC` reads the command sequences as far as `Reads` says: `getSpuCmd` gives it
an end six bytes early, which it compares with before it goes on to another sequence, so that a stop in
the last six bytes behind another sequence is not read (DvdParser.cpp:142, 230-231). A subpicture of
`DvdSubpicture` is sent in one packet or two, when the last was taken (`paced`) or at any time; what the
code makes of packets that wait has header words among the data or the pts of another, as the layout of the
packet gives it. `ChangeData`
counts the digits of the contrast as both decoders do, up to 4, where the write behind
`PixelData` has two outcomes (`FillOutcomes`): the rows come out, or none do. Otherwise the
background and the first colour without contrast change places, in the rows and in the contrast
(`PixelData`, `AlphaAfter`); `DrawnAs` says what remains true of a row. In `Scte27` the
places around a character are numbers, as in the code: a column past the edge is a pixel of
another row, and a place outside the bitmap is recorded with the glyph.

The drawing is written as recursive
functions over codes and rows (`SpuFillPixel`, `AfRlebitmapRender`, `Decoded`), which the proofs
can unfold, and not with folds. `TeletextPages` takes one key
per byte that is read, as the code does; the decoder of pages (zvbi) is external
and reports any page that is on air. `TextSubtitles` has a decoder per format over lines
that are classified as its patterns would; `CuesDecoded` compares with what the
file says. A file marks the ends of its subtitles or does not (`marked`: the end
lines of VPlayer, the blank lines of WebVTT and the like, the empty blocks of Sami), for each format
that can do without. `CuesDecoded` names what comes of that in three of them: WebVTT loses its last
subtitle, Sami each second one (`LostWithoutEnd`), and VPlayer reads its last one again
(`RepeatsLast`), which `MaxSubtitles` bounds. `UserData` delivers records in the order of
decoding, loses some, and has the four ways of the code to put them into the order of display.

## 3. What is checked

TLC on small instances; every run also checks for deadlock unless it says
otherwise below.

| Run | Instance | What it shows |
|---|---|---|
| `data_path` | ring of 3 cells, 2 byte values, counts to 4; packets of 0, 2 and 8 cells with a header of 3 and receives of 5, one listener or one that comes and goes; buffers of 1 and 4 bytes with marks; two demux devices; device and vbi sources with two subtitles; captions across the wrap; three kinds of timeout thread | the ring's invariant and refinement (`RingInv`, `ImplementsFifo`); payloads whole, once and in order (`StreamOK`, `DeliveredInOrder`, `DeliveredIsSent`); bytes in order (`BytesInOrder`); nothing leaks, nothing gone is called (`SourcesSafe`); times are kept (`OnTime`); readers, deliveries and joins end (`WaitingIsServed`) |
| `service` | two applications, any number of calls, none or one of which may die in a call, and one application with a server that may die at any moment; two handles with three API calls in all; four kinds of subtitle, five setters; three items to draw, one of them undrawable; five posts | `IpcTypeOK`, `AnswerIsOwn`, `SessionHasClient`, `CallReturns`; an open that nobody disturbs has its parameters in the server (`OpenTakesEffect`); the source knows what was set (`SourceHasParameters`); the screen follows the list (`ScreenFollowsList`); entries are handed over once and in order (`EntriesHandedOver`) |
| `decoders` | eleven decoders, each with two or three units of its input of every sort | pictures are drawn (`PicturesDrawn`), pieces put together (`PiecesWhole`), run lengths drawn as encoded (`RunsDrawn`), subtitle pages in order (`SubtitlePagesSorted`); files are read without loss (`FilesRead`), packets and captions in order (`StreamsInOrder`) |
| `session_safety` | socket, device and file sessions; three setters, announcements of two types and of one out of range, data, hang-ups; queue of 2 | `ThreadsHaveOwner`, `QuietWhenClosed`, `SubtitleWithSource`, `ParserPaired`, `ReaderHasSource`, `ParserReplacedWhenStopped` |
| `session_live` | device and file sessions, types from setters only, with fairness | `SetterReturns`, `StopReturns`, even with a parser that waits for data, and `PendingHandled` |
| `presentation` | 3 items of 4 sorts, times -1, 0, 4, 210, queue of 2, restarts | `ScreenIsFading`, `ExternalShown`, `ExternalCatchesUp`, `DueIsShown`, `OverIsFaded` |

`session_safety`, `data_path`, `service` and `decoders` switch deadlock checking off.
In a socket session the poll thread can lock a mutex it holds ("selfLock", see
`open_hangs`); in the others a part comes to its end: a connection whose client
has hung up, a source that is gone, an application without a server, a file that was read.

Six runs show the code at odds with what its comments or assertions say:

| Run | Disagreement |
|---|---|
| `stop_hangs` | close joins the run thread, which joins a parser that waits for data of the source which only close would stop (Subtitle.cpp:93-99, 315) |
| `open_hangs` | the poll thread destroys the session inside `onData` and locks `SubSocketServer::mLock` again; the next open waits for ever (SocketSource.cpp:152) |
| `external_undrawn` | an external item that was shown before a reset of the renderer, by startPresent behind the looper's first check or by a time 0, is not drawn again while it lasts (Presentation.cpp:255, 518) |
| `announcement_lost` | a type announced between attach and setParameter is overwritten by the unset type of the service (SubtitleService.cpp:164) |
| `open_refused` | openConnection gives every application session 0, so one that leaves takes the service of the others, whose open "should not enter here" (SubtitleServer.cpp:102, 219) |
| `payload_garbled` | a packet sent before the previous one was taken loses its start, and the rest is cut by an uninitialised size (SocketServer.cpp:356-357) |

### Bounds, and why they are enough

* `buffer_size` = 3, `MaxCount` = 4: every alignment of the cursors, transfers that
  end at, before and after the end, and requests larger than the buffer. The
  proofs lift the bound.
* Two stream types, CC and the external one: a type can replace another of the
  same kind and of another kind. `QueueCap` 1 or 2: the parser blocks, has one
  item, or has one item waiting behind it. Sessions are opened and closed any
  number of times: the states repeat.
* Three packets, sizes 0, 2 and 8 (1 and 3, too, in `payload_garbled`) with a header of 3 and receives of 5: an
  empty payload, header and payload in one receive, a payload that needs several,
  and a successor. `SendMax` >= 2 * `HeaderLen` - 1, as in the code (1024
  bytes against 20): a header that is received in part is completed by the next
  receive.
* Two applications: one to share the session with. The server that dies at any moment has one (`OneIfServerDies`): to a call it makes no difference whether there are others, and a server that dies of SIGPIPE in a reply to another application is in the behaviours with two. A client has one message under
  way (part of `IpcTypeOK`), calls repeat without bound, and the parity of a call is
  enough to tell it from the one before.
* Three items, `MaxSpuItems` 2, `MaxQueued` 3: overflow of the parser's queue, two
  items with one pts, one item ahead and one behind the time. The times of the
  run lie before, in and behind the items and step back by less than ten minutes;
  a larger step back makes line 635 leave without a message (a listed hazard).

* `SegmentRead`: buffers of 1 and 4 bytes, reads of 1 and 3 or of what is there, marks of
  2 bytes at 2 and 5: a mark inside a buffer, at its end, where it is overlooked, and
  across two.
* `DemuxPath`: two devices, one filter each, two pids: the device changed while it is open,
  a restart, a failure of any call.
* `ClosedCaption`: `PtsModulus` 8 and a start at 7, so that every behaviour crosses the
  wrap; captions 1 and 3 ahead, `FarAhead` 2: one in sight, one taken for stale.
* `ClientApi`: three calls of two handles: create, open and a disturbance, or two opens.
  `ServiceParameters`: five calls: two types, a value for each, a source, another value.
* Rows of 80 pixels (`DvdRowWidth`): runs of one, three, four, 15, 16, 63 and 64 pixels, the
  first and last of each form, and one to the end of the line. A VobSub row has 20. All
  sixteen contrasts. One to three command sequences, with the stop in the first, in the last or followed by
  another, in the last six bytes or before. Three DVD subpictures of 2 and 3 words, in packets cut at every
  word; those that need not wait for the one before have one list of commands (`DvdEnds`), since a list
  belongs to its subpicture alone.
* DVB objects at the left and right edge, in the last row of a region and beyond its width.
* Decoders: two regions, objects and rows, and pictures in each of the three codings, one with a line
  that is too long; display sets of two objects and three fragments; three
  subpictures, messages or packets, so that a loss has a whole one before and
  after it; files of three lines of 0 to 5 characters for a buffer of 7, so that line
  ends fall on each place of it; `MaxSubtitles` 8 for files of up to three
  subtitles, which a decoder that repeats one exceeds; cues that touch, with and without a
  successor; groups of pictures with an I, a P and two B pictures, in
  which P and B pictures may be lost.

### Fairness

Every thread runs on: weak fairness for each internal step of a thread and for
the looper's step when a message is there. `StopDrop`, which needs
`DataSource::mLock`, has strong fairness: the only other holder in a loop,
`loopRenderTime`, sleeps 16 ms without it in every round. Requests,
announcements, packets, data and changes of time are unfair: they may never
come. `EverythingDelivered`, a part of `WaitingIsServed`, needs a fair client and poll thread, and holds for a
connected client only. `MCFair` of `MC_DataPath` is the fairness of its
parts (`SegmentFair`, `DriverSourceFair`, ...): since only one part moves, one condition
over a disjunction of an action of each is the same as one condition for each.
Strong fairness is where a lock is taken that others take in a loop (the
segment's mutex, the lock of the caption decoder); a timed wait ends (`WaitTimesOut`,
`TimePasses`), a wait without a time only when notified. The reads of a driver
return: the code polls with a time. The server's event loop serves each of its sockets (strong
fairness of `ServerInput`: epoll reports all that are ready); calls are unfair.

## 4. What is proved

TLAPS proves, for all values of the constants that meet the assumptions:

* **SubtitleLifecycleProofs.** `LifecycleInvariant`: `LifecycleInv` is inductive. Its
  parts: `PcInv` (at most one caller is in the service; the poll thread holds the
  socket's lock in these places), `OwnerInv` (exactly one of service, open in
  progress, poll thread or destroyer keeps the Subtitle alive, and a destroyer is
  alone with it), `WorkInv` (how far the joins have come, and that a parser has a
  thread no longer than it exists) and `SourceInv` (the source lasts while
  the service or a Subtitle has it). None of the checked properties is inductive
  alone: that no thread outlives the Subtitle depends on who may destroy it. From it
  follow `TypeCorrect`, `OwnerOutlivesThreads`, `CloseLeavesNothing`, `SubtitleAndSource`,
  `SourceOutlivesReader` and the action property `ParserReplacement`. One more is
  inductive relative to it: `PartsGoTogether` with `PairInv` (when nobody replaces or
  destroys, nobody has asked the threads to leave).
* **PresentationProofs.** `ScreenInv` is inductive: whatever is on the screen of a
  stream is on the one-element list of items to fade (a new item replaces what was
  there, and a new presentation resets the screen before its looper polls), and an
  external screen is empty or holds what was shown last, and an external looper with no
  message and no check under way has nothing left to collect and has shown last what the
  time it read last asks for. From it: `NothingForgotten` and
  `ExternalIsCollected`. That the item is on the screen is not true (`external_undrawn`). That this time is the time of the video is not true: a time
  set between `BeginExt` and `CheckExt` waits for the next report, which is what
  `ExternalCatchesUp` is about. `PresentationTypes`: `Scalars` and `Lists` are inductive
  together. That the lists stay lists of decoded items needs what two walks through a
  list compute, `NearBy` (items ten minutes ahead go) and `Collected` (all that is decoded
  is put in its place). Both are recursive functions; `RecursionExists` shows that
  such a function exists and `UpTo` that what holds at 0 and passes each step holds everywhere.
  `InsertType` needs that no more places come before an item than the list has.
* **SocketFramingProofs.** `FramingTypeCorrect`, for all sizes. `PayloadsInOrder`, `BufferIsClean`
  and `PayloadsAreSent`, with two conditions. One is in the statement: `~ahead`, that is until the client
  begins a packet before the one before it was taken. Nothing in `SubtitleReportAPI` makes it wait, and the
  theorems say nothing of what comes then (`payload_garbled` does). The other is on the constants,
  `PacketsFit`: where the listener is there from the start, a packet
  shorter than two headers travels in one send and one receive, and where it comes and goes
  every packet does. In the code a send and a receive move 1024 bytes and a header has 20
  (SocketServer.cpp:294-297).
  `SteadyInv` speaks of a listener that is there from the start: the packet sent last is the only
  one on the way, its cells lie in order in buffer, socket and outbox (`Parted`), and where
  it is cut says what the server is to do (`AtRest`, `InHeader`, `InPayload`, `AtDelivery`).
  `WholeInv` speaks of one that comes and goes. The lemmas about slices (`SliceConcat`,
  `SliceTo`, `SliceFrom`) say how a packet is cut and joined.
* **DataPathProofs.** Six components, each with its inductive invariant:
  * `RingSafety`: `RingInv`, that is the type invariant, the agreement of cursors and
    counts, and that the window between them holds what was written.
    The three together are inductive: the content of the window moves only
    with the cursors. `RingImplementsFifo`: with the window read as a sequence
    (`Fifo`), the initial state maps to the empty queue, write appends, read takes a
    prefix, peek and stutter leave the queue alone. The lemmas (`WriteKeepsAndAppends`,
    `ReadShiftsWindow`, `CopyOutSeq`) are about the modular indices.
  * `SegmentBytesInOrder`: `SegmentInv` adds to `BytesInOrder` that a reader in `pop` has used
    its buffer up, and that the size reported counts no more once `Disable` has come.
  * `DriverSourcesSafe`: in `DriverInv` the time thread holds the lock from its look at the
    listeners to its call (`TimeThreadLocks`), and what is being read is the last
    subtitle offered, behind whole ones only (`SubtitlesInOrder`).
  * `SilenceIsSilence`, under `PathsSignal` (the items of every path signal the waiter, which
    those of the TTML hardware demux and of ARIB do not): a waiter that was not told has seen at
    least as long a silence as it has waited.
  * `CaptionsComeOnTime`: the chain is in the order of times, and none is later than what has been
    decoded. The lemmas `Division`, `SumModulo` and `GapIsAhead` carry the comparison of times that
    wrap through, for every modulus.
  * `DemuxIsReleased`: `OneOpening` says where in the list of driver calls still to be made the
    device is open (`ClosedAt`), so that it is opened once at a time; a thread runs only while its
    device is open (`DevicesOpen`). It is stated, like the property, for a source whose number
    nobody changes while it is open.
* **ServiceProofs.** Five components:
  * `IpcInvariant`: `IpcInv` is inductive, for any number of applications and any
    faults. `OneMessage` says that a client has one message under way at most
    (command, reply to come, answer) and none unless its call waits, `OwnMessage`
    that it belongs to that call, `EndsAgree` how the states of the two ends of a
    socket are related; a reset needs an unread answer, hence an application that
    dies in its call. From it: `AnswersReachTheirCalls`, `IpcTypesCorrect` (nothing
    is joined in these stream sockets) and `SessionsHaveClients`. `AnswerIsOwn`
    alone is not inductive: it depends on what is still in the socket and in the
    server's hands.
  * `SourceParametersCurrent`: in `ParameterInv` the source is current for its own
    kind whether or not that is the chosen one, since a later choice may return to it.
  * `EntriesAreHandedOver`: `CallbackInv` numbers what was handed over, taken and queued as one sequence.
  * `ScreenIsLastOfList`: in `RenderInv` what is still to be drawn is the end of the list, and of
    the part before it the last drawable item is on the screen (`DrawingIsEnd`); the
    list cannot change meanwhile.
  * `OpenHasItsEffect`: `ApiInv` says what the server has after the first k of the nine commands of
    an open (`HasOf`), and that all answers on a lost connection are -1, so that an
    answer OK to the seventh tells of all before it.

* **DecoderProofs.** What lives from packet to packet:
  * `ScteMessagesWhole`: in `ScteInv` the segments collected are a run of one message
    (`Collected`). A run without its first segment belongs to a message that has lost one, and
    is not continued, because `decodeSegment` compares the numbers; of a message that has lost none all
    that was sent is there (`Complete`); the bodies are in the order of their messages (`Bodies`).
    `MessagesWhole`, a part of `PiecesWhole`, speaks of what was decoded, and is
    not inductive: the next body depends on what was collected.
  * `TeletextPagesSorted`: `TeletextInv` has the list strictly ascending everywhere, not only
    from one place to the next. Every operation behind a key but two leaves list and
    enlargement alone (`Kept`, one lemma for each). A page that is put into the list is not in it, and
    `CanBeSorted` names the permutation that brings it to its place, so that the sort, which
    is any permutation that sorts, exists and yields the pages in order.
  * `DvbDisplaysLinked`: `ListsLinked` is `DisplaysLinked` with the types of the lists, every entry a
    pair of a region and a place in its list. Only `parseRegionSegment` and `deleteAll` change the
    lists: `OthersStay` says what `deleteRegionDisplayList` leaves of the objects, `RegionLinked`
    that the new entries of the region fit into it.
  * `PgsLossStaysInSet`: `PgsInv` keeps that what is still to come of a display set is in order
    (`InOrder`), and, as long as nothing of it was lost, that the parser has what its next segment
    continues (`Prepared`): the composition, and the fragments of the object so far. After a loss
    nothing of the parser is known, and the next first fragment needs nothing of it.

  Then what is drawn. A drawing is a recursion over the codes; each theorem rests on an
  invariant of that recursion, proved code by code, and on a small invariant of the state
  that carries what was drawn to the property:
  * `DvbPixelsInside`: a string of codes reads and puts within what is left of the line and of the
    buffer (`Strings`); `Drawings` says so of the blocks of an object, `DvbDraws` of all regions.
  * `DvbRegionsInside`: after the first i regions of a page the box covers them all (`Boxes`), whether
    a region came below it, above it or in it (`Grown`, `Moved`); `BoxSaved` keeps this for the
    picture handed over, whose regions may be defined anew meanwhile.
  * `PgsRowsAsEncoded`: drawing and encoder are run together; `Agree` says that the rows done are the
    same, and which of the two forms the end of a full line has left the drawing in.

  And what waits:
  * `UserDataKept`, `UserDataCounted` (the accounting in `CaptionsInOrder`, `CaptionsKept`): what the
    driver writes and what waits in its list is one sequence in which no caption stands twice (`Once`);
    each operation puts the new caption in somewhere (`InsertedAt`, `CaptionGoesIn`) or moves the border
    (`FlushHas`, `FirstOut`), and what is due at a time and what is kept are the list
    (`DueAndKeptAre`). `UserDataInv` joins this with the ring and with what was missed (`InThree`).
    `UserDataKept` is for behaviours in which a list taken for full is not empty, since otherwise
    `aml_add_cc_data` reads through a null pointer (Userdata.c:413); MPEG captions lead there when enough of
    them leave the list in order without being counted off (513). Without MPEG captions the count is that of
    the list, and `UserDataCounted` needs no such hypothesis.
* **SubpictureProofs.** Run lengths and characters, in the same manner:
  * `DvdRowsDrawn`, `VobFieldsInterleaved`: `DecodeRL` gives back each of the four forms
    (`CodeForms`); the codes stand one behind the other in the nibbles (`FlattenedParts`,
    `StandsAt`), so that a row is filled run by run and ends on a byte, where the next one
    begins (`NextRowFilled`). The constants admit rows that the encoder takes
    (`Encodable`): their runs fill the width, and all but the last of a row are shorter than 256.
    `ColourExchanged` is about the exchange of the background, for the fifteen contrasts with which it
    stays inside its array.
  * `ScteGlyphsDrawn`: an encoded row is decoded while it is being encoded: what the encoder has of a
    code not yet written is what the decoder has still to draw (`Pending`); row after row
    (`AtRow`) the pixels are those of the character. `OutlineMarked` and `ShadowMarked` say which pixels
    the style reaches. That no other pixel is marked has the hypothesis that there is room in the
    columns, that nothing outside the bitmap is written the one that there is room in the rows as well: the
    property carries both, since nothing in the code ensures them.

  and subpictures that come in pieces:
  * `VobTrackShown`: `Assembled` says that the read of a subtitle from its place in the .sub file
    gathers its whole subpicture, cut or not, and stops before the next one: what
    stands behind its place is known (`ReelHolds`, `StretchForms`), and a reading that is done stays as
    it is (`AssembledDone`). `VobInv` says what the reader of the .idx file has after so many lines: the
    items are the subtitles of the track shown, in the order of the file, up to the line reached
    (`ShownSoFar`). The lines of a track lie between two "id" lines (`IndexLinesAre`, `OwnLinesAre`).
    `VobSubAssumption` has an index that names each track once, and subtitles of these tracks only.
  * `DvdSubpictureWhole`, for a sender that sends a subpicture in one packet and when the one
    before it was taken (`paced`; the run has others too): `DvdPacedInv` names the places of a packet on its
    way (sent, announced, header read, shown) and what is in the buffer at each (`DvdHead`, `DvdBody`,
    `DvdOver`); `BodyIs` puts header and body together again, `OneFragment` shows that the loop over
    fragments takes all of it at once, `FirstStopCounts` that the commands give the delay of
    the first stop. `DvdAssumption` has the command sequences as DVDs have them: in order of time, with
    one that stops the display, later than 0 (a delay of 0 means none to `getSpuCmd`), and none
    shorter than its commands. `EndedBy` names the stop in the last six bytes, which does not count.
    What `SubpictureWhole` says of fragments that wait is model-checked.

`PicturesAreDrawn`, `PiecesAreWhole`, `RunsAreDrawn`, `StreamIsOK`, `SourcesAreSafe`, `AllOnTime` and `ServiceIsSafe` carry these theorems from the
components to the composed behaviours (`MCSpec`) that the runs check: a step of the whole is a
step of each part or leaves it unchanged. Where the least of a set of numbers is needed, the
existence comes from the well-foundedness of the naturals (`LeastOfNats`). Induction is done the
same way: the library's induction theorems take a predicate as a parameter, which the provers
cannot instantiate, so the least number where a set fails takes their place (`UpTo`).

Only model-checked:

* all liveness (`StopReturns`, `SetterReturns`, `PendingHandled`, `WaitingIsServed`, `CallReturns`,
  `ExternalCatchesUp`, `DueIsShown`, `OverIsFaded`), because the prover has neither ENABLED nor
  fairness;
* `FilesRead` and `StreamsInOrder` (but for the accounting of captions, above): their decoders cut, sort and search whole files and queues
  (`SelectSeq`, `SetToSortSeq`, `FoldLeft`), which the prover knows as names only; what they compute
  would have to be shown by induction over the file for each of twenty formats and four
  kinds of packets.

## 5. Not modelled

The content of subtitles: colours, text attributes, fonts, markup, JSON, and what the
libraries make of teletext pages, captions and ARIB. Drawing and windows. The
detection of formats and encodings. The ASS parser, which copies lines. Signal handlers,
leak tracking, logging and dump files. Third-party code (cJSON, bprint). `FmqReceiver`,
which nothing in this build starts. The callbacks of `ISubtitleCallback`: no command of the Linux
service registers a client. `UserDataAfd`, which forwards the aspect of the picture.

In the modelled parts: ioctls and reads of the kernel are choices of their
results; several demux filters at once, whose event descriptors overwrite each
other (Demux.c:146), and the masks of the filters (DemuxDriver.c:56), since this
server opens one; memory never runs out.

Disagreements that the models show as named exceptions of a property. The repository says what
should hold, or nearly, of these:

* the second packet of a DVD subpicture begins, when it waits behind the first, with half of
  the pts and the duration of its header: "skip 4 bytes for pts" (DvdParser.cpp:627, 759) where the pts has
  eight (`HeaderWithin`); and what a round has kept of the next one is read with the type, length and pts of the
  first, since the header is taken from the start of the buffer (DvdParser.cpp:740-760; `kept`);
* the last subtitle of a VPlayer file without end lines, which "maybe has end time, maybe not",
  is decoded for ever (Vplayer.cpp:64-66; `RepeatsLast`);
* of a Sami file such as the one in the comment above the decoder every second subtitle is lost
  (Sami.cpp:82, 213), and so is a last WebVTT cue without an empty line (WebVtt.cpp:76; `LostWithoutEnd`);
* amlsub_Close takes the answer OK, which is 0, for false: a close that worked is told to have
  failed, one on a lost connection (-1) to have worked (SubtitleNativeAPI.cpp:354; `ClientApi` has
  the status as the code gives it).

Nothing in the repository says what should hold of these: a parser that is destroyed may report subtitles that
it never had (DvbParser.cpp:964); the TTML parsers do not signal items of the hardware
demux, so that they are reported as silent; a demux whose number is changed while
it is open stays open; the stop of a DVD subpicture that is in the last six bytes behind another
sequence is not read (DvdParser.cpp:142); a contrast of four digits writes behind an array
(DvdParser.cpp:525, VobSubIndex.cpp:717), and an SCTE-27 outline or shadow without room outside the
bitmap (Scte27Parser.cpp:388, 404); a setter calls through the pointer that a hang-up clears between its test and the
call (SubtitleService.cpp:334, 401).

## 6. Plan

1. The session of `CommandIpc` (`started`) as the abstract specification of
   `SubtitleLifecycle`: open, close, dropped by its source.
2. Two threads in one client of `CommandIpc`, and the callbacks of the server.
3. The parts of `MC_DataPath` joined where one feeds the other: `SegmentRead` behind
   `SocketFraming`, `PesReader` behind `SegmentRead`.

Violation runs to come: the default CC parser that is kept (Subtitle.cpp:277
against the comment at 255), a late frame that is shown instead of discarded
(Presentation.cpp:713), overlapping external lines (482), a subtitle left on the
screen after a jump back of ten minutes (635), a type string cut to the size of a
pointer (SubtitleReportAPI.cpp:348).

Theorems to come: that the queue of `Presentation` is sorted, which `InsertByPts` relies on; that
text files are read whole (`FilesRead`), format by format; that a session implements its
abstract specification (1).
