# A TLA+ model of obs-zcamera

obs-zcamera is an OBS Studio plugin that shows the video of Z CAM cameras and
controls them from a dock. This directory models the parts of it where threads,
callbacks and network events meet, checks them with TLC on small instances and
proves the most important results with TLAPS. Source paths below are relative
to the root of the repository.

## 1. The system

| Part | State it keeps | Operations | Hard because |
|---|---|---|---|
| Source lifecycle (`src/zc_source.cpp`, `src/ssp-client-iso.cpp`) | `running_`, `stopping_`, `reconnectJoined_`, `reconnectThread_`, `client_`, time stamps | `start`, `stop`, `update`, `activate`, destructor, `watchdog`, `onDisconnected`, `reconnectThread` | a libobs thread, a receive thread per connection and a reconnect thread start, join and replace each other |
| Decode pipeline (`src/zc_source.cpp`, `src/hwdecode/`) | `decoder_`, `pending_`, `drawn_`, the CPU frame, `forceSoftware_`, codec, size, bit depth | `onMeta`, `onVideoData`, `outputVideo`, `createDecoder`, `installDecoder`, `videoRender` | decoders and frames change owner between three threads, outside the locks |
| Hardware decoders and importers (`src/hwdecode/hw_decode_ffmpeg.cpp`, `hw_decode_d3d11_win.cpp`, `hw_decode_cuda_win.cpp`) | objects of FFmpeg, Direct3D and CUDA, latches, the CUDA contexts of each thread | create, import a frame, destroy | rows of driver calls of which any may fail, contexts that belong to threads |
| Connector (`ssp_connector/main.cpp`) | a child process at the end of a pipe | messages to the receive thread | it may fall silent, die, or write part of a message |
| HTTP transport (`src/cameractrl/zc_http_transport.cpp`) | request queue, `busy_`, Digest state, session, origin | `negotiateOrigin`, `get`, `post`, `onFinished` | callbacks submit requests, the probe runs a nested event loop, challenges arrive at any time |
| WebSocket notifier (`src/cameractrl/zc_ws_notifier.cpp`, `zc_ws_client.cpp`) | socket, handshake, retry count, timer | `start`, `stop`, socket events, timeout | socket events arrive at once or later, and some failures emit none |
| Camera client (`zc_camera_client.cpp`) | connected, mode, model, PTZ support | `connect`, requests of the panels, events | late replies |
| Settings engine (`zc_settings_engine.cpp`) and schema | values, definitions, group keys | group and key reads, writes, dependencies | several replies make up one group |
| Dock: settings and stream bar (`src/ui/zc_control_dock.cpp`) | rows, stream index and document | group selection, edits, drags, replies | replies of other groups, indices and cameras |
| Dock: preset panel | slots, caches, selection, family, transport state | pages, families, record, play, rename, timers | late replies, pictures written later, a transport nobody reports |
| Dock: camera rail | rows, marks, known hosts | scans, clicks, chips, OBS signals | OBS changes its sources on other threads |
| Dock: camera and joystick | client, PTZ tab, mode of the pad | `openCamera`, mouse events | re-entered from the nested event loop, deletes clients with requests |
| mDNS discovery (`src/ssp-mdns.cpp`, `thirdpty/mdns/mdns.h`) | records with an expiry, the record being built | query thread, iterator, stop | shared table, static parser state, a shared buffer |
| Bit depth sniffer (`src/hwdecode/hw_decode.c`) | none | parses parameter sets | numeric edges |
| Frame pacing queue (`src/VFrameQueue.cpp`) | queue, semaphore | `enqueue`, `run`, `stop` | unused by the plugin |

How they interact. libobs calls the source on its video thread. The source
starts a connector process for each connection, whose messages the receive
thread turns into `onMeta`, `onVideoData` and `onDisconnected`; the renderer
takes the frames. Independently of the video, the dock owns a camera client,
which owns a transport, a notifier and a settings engine; they all run on the Qt
main thread, one event at a time, except that `negotiateOrigin` waits in an
event loop of its own. Discovery has a thread that fills a table; the dock lists that
table every 2.5 s, adds the cameras OBS holds as sources, and watches the signals
with which OBS reports changes of its sources.

What makes each part correct:

- lifecycle: at most one receive thread calls back; a lost connection is
  replaced; `stop()` returns and leaves nothing that can touch the source;
- pipeline: each decoder and each frame has one owner; the decoder fits the
  stream; a picture stays until there is a newer one;
- importers: no driver object is lost or released twice, and CUDA is called with
  the right context;
- transport: requests are answered in order, once, and in the end; nonce counts
  do not repeat;
- notifier: it recovers from every loss, and stays down once stopped;
- settings: a group read ends in one announcement, and what the panel shows is
  what the camera has;
- preset panel: a slot shows its own name and picture, and in the end those of
  the camera; the buttons follow the transport;
- rail: marks and offline states settle, a chip fires once, every source has a row;
- stream bar, joystick, PTZ tab: they follow the camera that is open;
- discovery: an address belongs to its camera, a listing is exact, `stop` returns.

## 2. Modules

| Module | Models |
|---|---|
| `SourceLifecycle` | threads and connections of one source |
| `DecodePipeline` | decoders and frames of one source |
| `GpuImport` | hardware decoders and the Direct3D 11 and CUDA importers of all sources |
| `WsNotifier` | notifier and WebSocket client |
| `SerialChannel` | abstract specification of the transport: a FIFO channel |
| `HttpTransport` | transport and `ZcCameraClient::connect`; implements `SerialChannel` |
| `SettingsEngine` | settings engine and the rows of the settings panel, over a serial channel |
| `MdnsDiscovery` | query thread, table of records, iterator, stop |
| `PresetPanel` | presets and traces of the dock, with the camera's slots and transport |
| `CameraRail` | rail of the dock, between discovery and the sources of OBS |
| `DockPanels` | `openCamera()`, stream bar, joystick and PTZ tab, with the cameras |
| `CameraClient_proofs` | theorems about `HttpTransport` and `WsNotifier` |
| `ControlDock_proofs` | theorems about `CameraRail` and `PresetPanel` |
| other `..._proofs` | the theorems about the module of that name (section 4) |
| `MC...` | the instances TLC checks |

Definitions carry the names of the functions they model; `PROJECT.json` maps
each to its lines. A definition whose comment begins with "Mutant" is the same
step with a bug; each is used to show that a property can fail.

### SourceLifecycle

`pc` says where each thread is; a label is a place where another thread can run:
before a lock, a join, a wait or an access to a shared flag. `start()` and
`teardownConnection()` are shared by `stop()` and `reconnectNow()`, so `ret`
keeps where their caller continues. `link` is the connector: live, silent
("hung") or at its end. `stamp` abstracts the watchdog's clock to fresh or older
than the stall timeout. The identities of connections and reconnect threads are
used again once nothing refers to them, so runs of any length are covered.

libobs: `update` of a video source is deferred to the tick of the video thread,
which also renders and activates it, and a source is destroyed only when it is
no longer rendered. Hence one thread `Obs` for all these calls.

A connection may report its end at any time, also while `stop()` runs:
`onDisconnected()` tests `running_` only, and a reconnect that is in `start()`
when `stop()` begins can bring a connection up behind its first teardown. If that
connection drops, the disconnect claims a reconnect that `stop()` does not expect.
The history `late` says that this has happened: a reconnect was claimed while
`stop()` was past the join of its first receive thread. It leads to defects:
`stop()` returns with a thread of the source running, and the flag it sets lets a
later disconnect join a thread that runs. From there two threads may wait for each
other for ever (a receive thread that joins a reconnect thread, which joins it in
`teardownConnection()` with `lifecycleMutex_` held), so that the next `stop()`
does not return. The code does not keep the sentences about these cases
(`StopLeavesNothingRunning` and `RetireReturnsAtOnce`, end of section 3).
`ExclusiveUntilLate`, `RetireUntilLate` and `StopCleanUntilLate` say that this
claim is the only way into these defects. Two invariants hold after it as well, as
their theorems show: `OneWorker` and `ReconnectNotLost`.

### DecodePipeline

R (receive), G (libobs video thread) and T (reconnect). An action is one
critical section, one call with the graphics context, or the code between two
of them. A decoder is created, installed and destroyed in separate steps and is
in `fresh`, `decoder` or `old` meanwhile; frames likewise. The bit depth found
in a packet and the success of creating, decoding and importing are inputs.
Packets dropped by the wait-for-key-frame setting change nothing. The
asynchronous source mode is not registered by the plugin and is left out.
`Windows` chooses the build: only there a packet is decoded with the graphics
context held. The run takes the other build, which allows every behaviour of the
Windows one and more; the theorems are about both.
`lost` is a history variable: `DecoderMatchesCodec` holds until a connection is
lost; afterwards it fails as a consequence of the defect that
`ConnectionStartsClean` states (see the end of section 3).

### GpuImport

The decoders of all sources, each with the objects `zc_hw_ffmpeg_create` made and
an importer. All operations hold the graphics context of OBS, so each is one
step; inside it a C function is an operator from a state to the set of states it
can return in, one for each driver call that may fail. `alive` counts what the
drivers have handed out, `dec` is what the code still points to. `stack` is the
stack of CUDA contexts of each thread: `cuCtxCreate` pushes, `cuCtxDestroy` pops
only if the context is current on the calling thread. Frames are imported on the
render thread only; decoders are destroyed there and on the receive and teardown
threads (`installDecoder`, `stop`). `calls` records the interop calls of a step.

External, from the documentation of the libraries: the stack rules above, and
that `av_hwframe_ctx_alloc` takes a reference of its own. The code passes it a
fresh reference (`hw_decode_ffmpeg.cpp:780`) which nothing releases; `pools`
counts these and `EverythingOwned` allows exactly them. `cuda_clear` does not test
its push: when it fails, the planes are unregistered under another context and a
context of another importer is popped, which `OwnContextCurrent` excepts, and which
no other importer notices because each pushes its own. Shaders, formats and the
drawing are left out; textures are owned by frames, which `DecodePipeline` models.

### WsNotifier

One record `w` for notifier and socket. A socket that is told to disconnect
either reports it at once or is "closing" and reports it later, as Qt does.
Frames matter only in so far as they end the connection or not. `Tls` chooses
`wss`. The client has no timeout for the answer to its upgrade request, so a peer
that accepts the connection and stays silent is never replaced:
`RecoversIfAnswered` names this outcome next to the refused attempt.

### HttpTransport

Methods are operators from the transport's state `h` to its next state, and an
event composes them in the order of the calls; an event of the Qt event loop is
one step. `Finish(reply, new)` is a reply whose callback submits `new`, `Retry`
one that is followed by the signed repetition, `ProbeFailed`, `ConnectRefused`
and `Connected` are the ends of a probe, and `Get` is a panel, which may run
while the probe waits. `seen` and `replayed` are the camera's record of nonce
counts. The dock creates a client for each `connect()` and deletes it after, so
a client connects once. The dock passes no credentials; the tests do, and the
model has both. `Pending(h)` is the refinement mapping: the request on its way
followed by the queue.

### SettingsEngine

One record `e` for the client's engine (queue of requests, `values_`, `defs_`,
`groupKeys_`, the series of key reads in progress) and the panel (group and
rows), and the settings of the camera. Since the transport is a `SerialChannel`,
the camera's handling of the request at the head of the queue and the callback
of its reply are one step, with one action per outcome: `GetBatchListed` or
`GetBatchFailed`, `GetAnswered` or `GetFailed`, and for a write `SetTaken`,
`SetRefused` (in the body of a reply that is 200), `SetFailed` and `SetUnheard`
(taken, but the reply is lost). Catalogs and dependency rules are constants. What
the camera changes on its own when a key is written is any key of the catalogs
that depend on it: this is what the dependency rules claim.

The operator changes what a row shows (`Adjust`) and writes it (`Commit`) in two
steps, because a slider writes when it is released and a text field when editing
ends; a slider that is moved by wheel, keyboard or a click beside its handle is
shown and never written. A combo box is an `Adjust` with its `Commit` at once.
Types and ranges of settings are left out: a row shows the value that was read,
which assumes that it is among the choices, or inside the range, that the same
reply gives (a combo box would show its first choice). A value that the camera has
is not empty and it does not take an empty one, and the group that only PTZ
cameras have is always offered. Requests of other panels, the stream bar and
`/camera_status` touch none of this state and are left out; the keys that the
preset panel reads are kept, because they go through the same cache.

Three histories say where the code has no reason to be right: `suspect` are keys
whose last read failed, whose write was refused or unheard, or that somebody
changed at the camera (its `ConfigChanged` event reaches no panel); `lag` are
keys whose row may be wrong, for the same reasons, because it was changed and not
written, or because it was edited while a read of its group was on its way; `owed`
counts group reads.

### MdnsDiscovery

The record `q` is the query thread: opening its sockets, sending one query on
each, waiting in `select`, parsing a datagram record by record, and storing
under the lock; `main` is the thread that loads the module, lists and unloads it.
`q.cur` is `current_mdns_record`, which outlives datagrams and rounds. Its
comparison of transaction ids, the types of records looked at and the family of
the socket they came on are as in `query_callback`. An address carries the camera
it belongs to, so that a wrong one can be told. Both branches of
`open_client_sockets` are modelled and `Windows` chooses one; the run takes the
POSIX one (the Windows one gives the same result).

`addrbuffer` is used by `query_callback` outside the lock and by `next()` inside
it. `raced` names the cameras whose text was overwritten between formatting and
copy, and `ListedOwnAddress` excepts them: there the code has a data race. Assumed
of cameras: an answer begins with its PTR, and a query is answered at most once.
The second matters: the receive loop does not test `running`, so a source of
endless answers would keep `stop_mdns_loop()` waiting. Query ids wrap after
2^16 rounds, which is beyond `MaxQueries`. A host without a usable socket makes
the loop of the code spin; the instance has sockets.

### PresetPanel

`p` holds the members of the panel and what its slot shows; one slot of each page
stands for the ten. A method is an operator on the panel and the queue of
requests, and an event composes them as the code does. The camera has slots, each
with a name and a picture that is written some time after the slot, and a trace
transport that moves on its own. `suspect` is a history of what the panel has no
reason to know: slots whose last reading failed, pictures read before the camera
wrote the next one, and a transport that moved by itself. `crashed` is set when
`slots_[-1]` is written. Recall speeds and hints are left out.

Facts of the panel that the properties have to except: the text of a rename that
is left by a click on a slot stays in the field; committing the label of a slot
without a name sends that label as a name, also by Enter in a field that is not
being edited; a reply repaints a field being edited;
a delete does not read the transport again; commands sent before the origin is
known are lost.

### CameraRail

Rows, `added_` and the delegate's `clickedHost_`, the sets of hosts that answered
or not, the table of sources by name, and the calls queued by its signals. A
source that is removed stays in the table until it is destroyed, and is found by
name meanwhile (libobs). Qt delivers a release only to the row that was pressed,
if the list was not rebuilt since. A click on a row waits in `connect()`, so its
result (`Opened`) comes later, with scans and signals in between. Besides the
names of cameras there are the two default names, and "ZCamera 2", which OBS
gives to a second source.

One consequence that no sentence of the repository rules out: a default source
that was removed and not destroyed yet is reclaimed for a camera, and cannot join
the scene any more.

### DockPanels

The client of the dock with its queue, the calls of `openCamera()` that wait in
`connect()`, the stream bar, the joystick and the PTZ tab. The bar is followed
through one of its five controls: a write of another one is, for it, a request
that repaints the bar. `Drag` is a slider that is dragged and released, or a combo
box, which writes at once; `Nudge` is a slider that is moved by wheel, keyboard or
a click beside its handle, which is shown and not written. Cameras have one value
for each stream index, which somebody else may change (`StreamChanged`), and may
move. `Nested` says whether the operator clicks while `connect()` waits; the run
says no, see `ClientSurvives` below. `suspect` names a bar whose last reply was no
document, that shows a value that was not written or whose stream was changed
elsewhere, and cameras whose stop was lost or was in the queue of a client that
was deleted: such a camera goes on moving.

## 3. Runs

Passing runs:

| Run | Shows | Instance | States |
|---|---|---|---|
| `lifecycle` | `ExclusiveUntilLate`, `RetireUntilLate`, `StopCleanUntilLate`, `OneWorker`, `ReconnectNotLost`, and under fairness, without a late claim, `StopReturns`, `DeadConnectionReplaced` | 2 connections, 2 reconnect threads, drops during `stop()` included, up to the first late claim | 160,264 |
| `pipeline` | `DecoderOwnership`, `FrameOwnership`, `CpuFrameAlive`, `DecoderMatchesCodec`, `HardwareMatchesStream` | 3 decoders, 3 frames, 2 codecs, 2 sizes | 723,148 |
| `import` | `EverythingOwned`, `OwnContextCurrent` | 2 decoders, 3 CUDA contexts, 2 sizes, 2 threads, 2 CUDA devices | 142,035 |
| `ws` | `StoppedStaysDown`, `LossIsRepaired`, `OpenIsLiveOrReplaced`, and under fairness `RecoversIfAnswered` | complete | 109 |
| `http` | `NotStuck`, `NoReplay`, `RetrySigned`, and `Serial`: the refinement of `SerialChannel` with its liveness | 3 requests, 3 nonces, 3 counts | 58,817 |
| `settings` | `ReadsAccounted`, `CacheFollowsCamera`, `RowsSettle`, `PaneShowsGroup` | 2 catalogs, 3 keys, 2 values (up to symmetry), one key unsupported | 2,007,725 |
| `mdns` | `ListingExact`, `ListedOwnAddress` (with `RecordsOwnAddress`), and under fairness `StopJoins` | 2 cameras, one with IPv6 only, a socket of each family, 2 queries | 246,634 |
| `presets` | `SlotShowsOwn`, `NameSettles`, `PictureSettles`, `TransportKnown` | 2 cameras (up to symmetry), 2 pages, 2 families, 7 acts of the operator, 1 failure | 2,724,270 |
| `rail` | `PresenceSettles`, `OfflineMark`, `FiresOnce`, and under fairness `SourceListed` | an address and "2", 2 default names, 2 changes by others, 2 gestures | 162,803 |
| `panels` | `BarShowsCamera`, `PadStops`, `TabFollows` | 2 cameras of different firmware, 8 acts, 2 failures | 1,286,219 |

Runs that end in a counterexample, each about a sentence of the repository that
the code does not keep (the findings of `PROJECT.json` quote them):

| Run | Property | What happens |
|---|---|---|
| `lifecycle_silence` | `SilenceRebuilt` | `SSPClientIso::Stop()` joins a receive thread that is blocked on a silent connector: the watchdog's rebuild hangs |
| `presets_stop` | `SlotsInRange` | a recording is stopped with no slot selected: the timer reads slot -1 and its reply is written to `slots_[-1]` |

The modules state more sentences of the repository that the code does not keep.
They have no run of their own; adding the property to a configuration of the
module makes TLC show the counterexample:

- `StopLeavesNothingRunning` (`SourceLifecycle`, without `NoLateClaim`;
  `zc_source.cpp:468`, "Join the reconnect thread so it never touches freed `this`"):
  a connection that a reconnect brings up during `stop()` drops, and the reconnect
  thread it starts survives `stop()`;
- `RetireReturnsAtOnce` (the same; `zc_source.cpp:695`, "it is at its last
  instruction, so the join returns immediately"): after such a leak a receive thread
  joins a reconnect thread that still runs;
- `SoftwareSticks` (`DecodePipeline`, with `Windows` either way; `zc_source.cpp:226`):
  a rebuild in progress when the import fails replaces the software decoder by a
  hardware one;
- `PictureKept` (`DecodePipeline`; `zc_source.cpp:1224`, "keep showing the last
  decoded picture"): a CPU picture is shown for one render only;
- `DeviceReleased` (`GpuImport`; `hw_decode_ffmpeg.cpp:647`, "the ref is balanced"):
  the reference made for the surface pool keeps the device context, and with it
  the device of OBS, after the decoder is destroyed;
- `StackEmpty` (`GpuImport`; `hw_decode_cuda_win.cpp:598`, "cuda_setup() popped this
  importer's context again"): it popped what it pushed, not what `cuCtxCreate`
  pushed, and a decoder that another thread destroys leaves its context on the
  stack of the render thread for good;
- `Recovers` (`WsNotifier`; `zc_ws_notifier.h:26`, "On disconnect we mark state
  stale, reconnect with backoff"): a refused attempt emits no `disconnected`, so it
  is never repeated; nor is one whose upgrade request is not answered;
- `RecoversIfAnswered` with `Tls = TRUE` (`WsNotifier`; `zc_ws_client.h:25`,
  "Supports ws:// and wss://"): nothing is connected to `encrypted`, so over `wss`
  the upgrade request is never sent;
- `HiddenKeys` (`SettingsEngine`; `zc_control_dock.cpp:807`, "Unsupported (code -1)
  and read-only keys are hidden"): a key read that fails leaves the defaults of
  `ZcSettingValue`, supported and not read-only, so the key gets an empty row;
- `ThumbnailReread` (`PresetPanel`; `zc_control_dock.cpp:1626`, "re-read once the
  camera has written the new one"): a thumbnail asked for before the preset was
  replaced is cached again, and the new one is not read;
- `RowsAreCameras` (`CameraRail`; `zc_control_dock.cpp:2254`, "Names that are not
  `ZCamera <ip>` [...] are filtered out"): the source "ZCamera 2" gets a row for
  the host "2";
- `IndexFixed` (`DockPanels`; `zc_control_dock.cpp:624`, "The index then stays
  fixed"): the first two reads of a camera both discover the index, and if only
  the second fails it changes;
- `ClientSurvives` with `Nested = TRUE` (`DockPanels`; `zc_control_dock.cpp:2441`): a
  click on another row while `connect()` waits deletes the client on the stack;
- `EscalatingDelay` (`SourceLifecycle`; `zc_source.cpp:705`, "Escalating delay: 3
  -> 6 -> 10 -> 15s"): the loop is left after its first pass and each reconnect
  thread starts at the first delay, so every reconnect waits 3 s;
- `ConnectionStartsClean` (`DecodePipeline`; `zc_source.cpp:391`): the fallback
  installs its decoder after `start()` has cleared the slot, so a connection
  begins with a software decoder of the previous one;
- `BackoffCapped` (`WsNotifier`; `zc_ws_notifier.cpp:124`, "capped at 10s"): the
  retry at count 4 waits 16 s;
- `LiveMeansOpen` (`WsNotifier`; `zc_ws_notifier.h:53`): a close frame in the same
  chunk as the upgrade answer leaves `live_` set on a closed socket;
- `UpgradeAuthorized` (`HttpTransport`; `zc_camera_client.cpp:59`): the headers of
  the upgrade are taken before any request was signed, so they never contain an
  Authorization;
- `SentToOrigin` (`HttpTransport`; `zc_http_transport.h`, "Enqueued behind any
  in-flight request"): a request submitted while the origin is probed is sent at
  once, without an origin, and fails.

Bounds. `stop()` and `onDisconnected()` compare the current connection and thread
with the one they replace, so two identities of each suffice, and they are
recycled. A decoder is in one of the slots `decoder_`, one `fresh` and one `old`
at most while a third one is created, hence three; the same for frames. A thread
that finds no free identity waits; the instances leave one free in the interesting
states. `lifecycle` stops at a late claim (`NoLateClaim`): three of its invariants
and its liveness speak of behaviours up to one or without one, and the other two
are proved beyond it. TLC alone, without liveness, has also gone through the
1,655,048 states with late claims, up to symmetry. Three requests are one on its
way, one that waits and one that a callback submits. Three nonces allow a
challenge to be replaced while a retry is on its way; `MaxNc` bounds submissions,
not the count itself. The notifier's state is finite as it stands. In `import`
three contexts are one for each decoder and one that replaces either; when they
are used up, creating one fails. `MaxPools` bounds how often a decoder is made
again with a surface pool. In `settings` the operator acts while fewer than two
requests wait (`MaxQueue`), so that an edit meets a read in either order; replies
add to the queue without limit, up to two series of key reads (`MaxJobs`) at a
time, one of two keys. In `mdns` a time to live of one tick within two lets a
record expire while it is listed, and two queries make the transaction change. In
`presets` seven acts are enough for: open a camera, choose the traces, select,
record, leave and come back, stop; and `MaxQueue = 2` puts a command and a read in
either order. In `rail` two gestures and two changes of OBS meet each queued call
(`MaxQueued`) and each scan. In `panels` eight acts reach a second camera with the
requests of the first one under way, and a whole gesture of the joystick; what
somebody else does to a stream counts as an act. Operators stop when their acts
are spent, so these three runs do not check deadlock. Symmetry is used in runs
without liveness only.

Fairness. In `SourceLifecycle` each thread that can run runs, OBS goes on
rendering (it does, at the frame rate, while the source is shown), and time
passes while a connection is quiet. `stop()` gets `lifecycleMutex_` if it is free
again and again (strong fairness of `TearLock(Obs)`): between two reconnects it is
free for the seconds that a reconnect waits. Connectors need not do anything;
`StopReturns` therefore assumes that none stays silent for ever, which is what the
code needs, and both properties assume that there is no late claim, after which the
code can deadlock.
In `WsNotifier` armed timers fire and sockets resolve their attempts. A camera that
gets the upgrade request again and again grants it again and again; one that gets it
once need not answer. A server that sends an endless header
re-arms the timer with every chunk; it is excluded by the weak fairness of
`Timeout`. In `HttpTransport` every request is answered, since each has a transfer
timeout. In `MdnsDiscovery` both threads run and `select` returns; cameras need not
answer. In `CameraRail` the scan timer and queued calls are served, as the event
loop does even while `connect()` waits.

## 4. Proofs

Every invariant of the passing runs is a theorem.

`SourceLifecycle_proofs`, for any number of connections and reconnect threads:

- `Typing`, `ConnSlotHolds`, `OneWorkerHolds` and `ReconnectNotLostHolds`;
- `HandleExclusiveHolds`, `RetireReturnsAtOnceHolds` and
  `StopLeavesNothingRunningHolds`: until a late claim, `stop()` and
  `onDisconnected()` do not use `reconnectThread_` at once, the thread that is
  retired has ended, and `stop()` leaves nothing running.

None of them assumes anything about when connections drop.

The invariants are built in layers. `ControlInv` ties labels to the lock and to
`ret`: whoever is inside `start()` or `teardownConnection()` holds
`lifecycleMutex_`, so two of them never overlap. `SlotInv` adds what a holder
leaves for the next: a running receive thread belongs to `client_`, and one
whose flag is cleared is being joined. `HandleInv` adds that, until a late claim,
`reconnectJoined_` is only true when no reconnect thread runs, so the thread that
wins the compare-exchange owns the handle until it has stored the next one.

`CameraClient_proofs`, on `HttpTransport`, for any number of requests, nonces and counts:

- `Typing`, `NeverStuck` and `Implements` (every step is a step of
  `SerialChannel` or leaves it unchanged) from `QueueInv`: `busy_` is set exactly
  while a reply is on its way, a waiting request implies `busy_`, and there are
  no requests before `connect()` and after the deletion of the client;
- `NoReplayHolds` and `RetrySignedHolds` from `SignInv`: the camera has seen no
  higher count of the present nonce and none of a later one; before the origin
  is known no request reaches the camera, so no retry is on its way when a probe
  replaces the nonce.

The same module, on `WsNotifier`: `NotifierTyping`, `StopIsFinal`, `LossRepaired`
and `OpenWatched`. A socket may report its end inside the handler that closes it,
so `Sound` is stated of any state between two nested handlers, and `Watched` of
states in which the event loop runs. `Sound` adds that a socket which is still
connecting has no handshake behind it.

`DecodePipeline_proofs`, for both builds and any decoders, frames, codecs and
sizes: `Typing`, `DecodersOwned`, `FramesOwned`, `PlanesAlive`, `CodecMatches` and
`HardwareMatches`. Each layer is preserved from a state that satisfies it and the
layers before it:

- `Control` says who can run when: the renderer holds the graphics context
  exactly while it draws or falls back, the reconnect thread finds the receive
  thread joined, and nobody runs when `stop()` releases everything;
- `Places` says that `fresh`, `old`, `dead` and `out` are filled only between the
  two steps of their thread that fill and empty them. With `DecodersApart` and
  `DecodersHeld` (and the same for frames) each object has exactly one place;
- `FallbackOnce` is what `PlanesAlive` needs: a GPU frame that waits next to a
  software decoder means that the fallback has run, so it does not run again and
  destroy the decoder whose planes the receive thread copies;
- `Built` carries what a decoder was made for from the decision to the swap;
- `CodecFollows`: the fallback holds the graphics context, without which the
  receive thread creates no decoder, so it cannot undo a rebuild. It holds until a
  connection is lost, as the property does.

`GpuImport_proofs`, for any decoders, contexts, threads, adapters and sizes: `Typing`,
`ObjectsOwned` (`EverythingOwned`) and `ContextCurrent` (`OwnContextCurrent`). A call of
a C function passes through states in which an importer has some of its objects only,
so there are two predicates:

- `Sound` holds between any two driver calls: there is exactly one of each object that
  the decoder or its importer points to, and every interop call so far had its own
  context current;
- `Whole` holds between two frames: an importer has all of its objects or none. A
  setup that fails is followed by a clear, whatever part of it had succeeded.

With them come the references of the device context, one for each pool made and one for
each pointer. Nothing is said of the stacks of contexts except that they hold contexts:
every function that makes interop calls pushes its own context on whatever the others
left, and this is enough.

`SettingsEngine_proofs`, for any keys, catalogs, cameras and dependency rules:
`Typing`, `ReadsCounted`, `CacheFollows`, `RowsFollow` and `PaneFollows`. The
properties speak of an empty queue; the invariant says what the requests in the
queue will do.

- `Accounted` is `ReadsAccounted` itself. To show that a series of key reads
  announces the keys of its own catalog one needs `Belongs`, and that it has read
  nothing before its first request is at the head, `InOrder`: its requests are
  next to each other, so no write comes between them;
- `Cached`: a cached value is the camera's, or a request that reads the key is in
  the queue. What a write changes elsewhere is read again because its targets are
  appended behind it;
- `Settled`, for the rows: when no read of the group is owed, the row shows the
  value of the last write of its key in the queue (`LastIs`), or the camera's if
  there is none, unless the key is in `lag`; while one is owed, every write in the
  queue has behind it (`Followed`) a request after which the row is built anew
  (`Fixes`); and what a series has read so far is still right when no such request
  is left (`ReadRight`).

`MdnsDiscovery_proofs`, for any interfaces, cameras and number of queries:
`Typing`, `AddressesOwned` and `ListingComplete`. `Numbered` and `OneFamily` say
why the record under construction does not mix two answers: each query has an id
of its own, later than the record's, and the answers to one come from a socket of
one family. `Parsing` adds that past its PTR the record is about the camera of
the datagram, `Table` and `Heard` relate the table to what was stored and when,
and `Iterating` what has been listed to what has been passed.

`ControlDock_proofs`, on `CameraRail`, for any hosts, names and number of changes:
`Typing`, `PresenceFollows`, `OfflineFollows` and `ChipFiresOnce`. A row always
shows what `added_` says (`Marked`, between two methods too), and `added_` is what
OBS has when no signal waits (`Settled`); neither implies the property alone,
since `setAddedHosts()` and `setCameras()` skip what seems unchanged. A chip that
has fired is remembered by the delegate (`Remembered`).

The same module, on `PresetPanel`, for any cameras, slots, versions and bounds:
`PresetTyping`, `OwnSlotShown`, `NameIsRead`, `PictureIsRead` and `TransportIsKnown`. The
properties speak of the moment when nothing is on its way. The invariant is stated of a
panel, queue, timers and camera given as arguments, because one event calls several
methods of the panel, and it has to hold between them:

- `Owns`: what is shown, cached or about to be sent as a name belongs to the camera, the
  family and the slot it is shown or sent for, and so does what the camera has;
- `CacheFresh`: a cached picture is the camera's and `Lasting`, that is, neither being
  written nor to be replaced by a request in the queue, or its slot is suspect. The
  panel does not read a picture it has cached, so without this `PictureSettles` would
  not survive a change of page;
- `NameRead`: every request that changes the slot shown is `Followed` by one that reads
  it, or a timer will read it; and when no such reading is left the panel has the name;
- `PictureRead`: the same for the picture, which is asked for in the reply to a reading;
- `StateAsked`: every command to the transport is followed by a question for its state,
  or a timer will ask it; when neither is left the panel knows the state.

`DockPanels_proofs`, for any cameras and stream indices, with `Nested` either way:
`Typing`, `BarFollowsCamera`, `ReleaseStops` and `TabShowsHead`. `Waiting` says
that of the calls of `openCamera()` only the innermost one can have a client.
`BarFollows` excepts only requests about the index of the bar where the property
excepts all; `PadFollows` says that with the joystick at rest every move in the
queue has a stop behind it, and only the open camera moves.

Each inductive invariant was checked with TLC on the instance of its run before it
was proved. The proofs assume only the named assumptions on constants, which TLC
evaluates: that bounds are numbers, that tables have the shape their use in the
code gives them, that `None` is none of the things it is told from (`NoneIsNew`),
that the labels of the preset panel that are no names differ from every name and
its three sentinels from each other (`SentinelsDiffer`), that it has a first slot
and the camera some picture, that threads, sizes and the label for "no size yet"
differ (`GpuImport`), that the dock has some value for a stream (`DockPanels`),
that no key is in two catalogs, of the schema or of what the camera lists
(`SettingsEngine`), and that an answer begins with its PTR (`MdnsDiscovery`).

Left to TLC:

- all liveness (`StopReturns`, `DeadConnectionReplaced`, `RecoversIfAnswered`,
  `StopJoins`, `SourceListed`, the fairness part of `Serial`): the prover does not
  reason about fairness and `ENABLED`;
- the sentences of section 3 that the code does not keep.

## 5. Not modelled, and the plan

Not modelled for good: the FFmpeg wrapper, plugin registration, the debug panel,
the HUD (nothing feeds it), widgets and layout, audio and the arithmetic of
timestamps. Of the camera client: `disconnect()`, the recording and lens commands,
which the dock does not call, and the events, which change labels only. Of the
WebSocket client: the sizes of its buffers and frames. Of the preset panel: recall
speeds. `PROJECT.json` lists the hazards that no property covers.

Planned, in this order:

1. `Connector`: message framing between the connector and the receive thread.
2. `BitDepth`: the parameter-set parser as operators, against a reference.
3. `FrameQueue`: the pacing queue, which nothing uses any more.
