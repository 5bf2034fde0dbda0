# TLA+ models of the PS3Eye shared-memory frame broadcast

This directory holds TLA+ models of the frame-broadcast channel in
`src/MediaFoundationSource/`. The capture service writes every camera
frame into a named shared-memory region. Any number of client processes read
from it: the Media Foundation virtual camera, the DirectShow filter and the
test clients. The models are checked with TLC.

## 1. The system

### 1.1 Components, state and operations

| Component | Source | State it keeps | Operations that change state |
|---|---|---|---|
| Channel layout | `PS3EyeSharedMemory.h` | `PS3EyeFrameHeader`: magic, version, frameNumber, timestamp, dataOffset, dataSize, serverPID, clientCount; followed by one frame slot | none (a layout only) |
| Broadcast server | `PS3EyeSharedMemory.cpp` 11-188 | handles to the mapping, the named mutex `PS3EyeFrameMutex`, the auto-reset events `PS3EyeNewFrameEvent` and `PS3EyeClientEvent`; `m_frameNumber` | `Create`, `WriteFrame`, `Close`, `WaitForClients` (consumes the client event) |
| Broadcast client | `PS3EyeSharedMemory.cpp` 194-377 | the same handles, `m_lastFrameNumber` | `Connect`, `Disconnect`, `WaitForFrame` (consumes the frame event), `ReadFrame` |
| Capture service loop | `PS3EyeCaptureService.cpp` 49-125 | `cameraActive`, `noClientFrames`, the camera | gate on `WaitForClients`, `initCamera`, `getFrame` + `WriteFrame`, debounced `stopCamera`, `Close` on stop |
| Service control | `PS3EyeCaptureService.cpp` 42-224 | `g_Running`, SCM status | stop request, install, uninstall, console mode |
| Media Foundation source | `PS3EyeMediaSource.cpp/.h` | source/stream state (started, paused, shut down), the capture thread, a client | `Start`, `Stop`, `Pause`, `Shutdown`, capture thread loop: Connect if needed, `WaitForFrame(100)`, then `ReadFrame`, deliver the sample |
| DirectShow filter | `PS3EyeVirtualFilter.cpp/.h` | the pin's client | `FillBuffer`: connect if needed, poll `ReadFrame` 10 times, 10 ms apart; `Disconnect` in the pin destructor |
| MF activation | `PS3EyeDeviceSource.cpp` | COM attributes, the cached source `m_source` | `ActivateObject` (creates the source on first use), `ShutdownObject` (also from the destructor), `DetachObject`; registration |
| Test clients | `TestClient.cpp`, `TestClientQuiet.cpp`, `FastTest.cpp`, `SharedMemoryTest.cpp` | their own view of the header | open the objects, `InterlockedIncrement` then `SetEvent`, wait on the mutex and read the header (the wait result is ignored) |
| Graph harnesses | `TestFullPipeline.cpp`, `TestDirectShowFilter.cpp` | DirectShow graphs | build and run graphs |

### 1.2 How the components interact

The only interaction between processes goes through named kernel objects.

- **The mapping.** The header is written under the mutex by `WriteFrame`,
  but **without** it by `Create` and `Close`.
- **The mutex.** It is recursive. A process that dies owning it leaves it
  *abandoned*. The next wait then returns `WAIT_ABANDONED` and grants
  ownership. Every caller treats that as a failure and never releases.
- **The new-frame event.** It is auto-reset: one `SetEvent` wakes one
  waiter.
- **The client event.** Clients signal it from `Connect`, and the service's
  `WaitForClients` consumes it.
- **clientCount.** Clients change it only with
  `InterlockedIncrement`/`InterlockedDecrement`. The service reads it to
  decide whether to keep the camera on.

### 1.3 Hard behaviours

- Connects that interleave with `Create`'s unlocked header initialisation.
- Crashes while owning the mutex.
- A service relaunch while clients stay attached. `Create` reopens the
  still-existing objects, because it never checks `ERROR_ALREADY_EXISTS`.
- Frames dropped by the 100 ms mutex timeout.
- Several readers sharing one auto-reset event.
- The debounced on-demand camera stop.

The full list, each hazard at its line, is `hazards` in `PROJECT.json`.

### 1.4 Properties, per component

- **Channel (server + client).** The properties are:
  - no torn frame is delivered (`FrameIntegrity`);
  - reads are strictly newer (`ReadsOnlyNewer`);
  - clientCount is exact, or at least never under-counts
    (`ClientCountAccurate`, `ClientCountCoversAttached`);
  - the mutex is never left owned (`LockHeldOnlyInCriticalSection`);
  - every published frame eventually reaches an attached reader
    (`NewFramesReachReaders`).
- **Capture loop.** The camera eventually runs while a client is attached
  (`CameraFollowsClients`), and it is released once every client has
  left and the capture budget leaves room for the debounce
  (`CameraReleasedWhenIdle`).
- **Abstract promise.** The channel implements a single "latest frame"
  register (`RefinesLatestFrameSlot`).
- **Adapters.** The capture thread only uses a connected client
  (`ThreadUsesOpenClient`); no sample reaches a stream unless the source is Started or a
  `Start()` is under way (`SamplesOnlyWhileStarted`); every `FillBuffer` call returns, also when no
  frame ever comes, so the graph's Stop, which waits for the streaming
  thread, cannot hang on it (`PinFillReturns`); started sources catch up with the latest
  frame (`LatestFrameReachesSources`); a streaming adapter lets go of a
  channel whose service stopped or crashed (`StaleServerReleased`); a
  source shut down directly or through the activation object has joined
  its capture thread and left the channel, so it no longer counts as a
  client (`ShutdownReleasesChannel`).
- **Test clients.** Their hand-written accounting keeps `clientCount` exact
  (`TestClientsCounted`), their unchecked mutex waits never leave the mutex
  owned, also after a wait returned `WAIT_ABANDONED` because the service
  died inside `WriteFrame` (`TestMutexReleasedAfterRead`), and a
  registered TestClient gets the camera started (`TestClientStartsCamera`).

## 2. Modules

### `PS3EyeSharedMemory.tla`

This module covers the channel, the server side of `CaptureLoop`, and the
client API. It takes as CONSTANTS:

- the client processes and the server;
- bounds on captures, launches and crashes, and which processes may crash;
- the debounce limit;
- whether clients may connect while `Create` runs;
- a floor for `clientCount`.

State:

- **Region.** `region` is the header plus the frame slot. A frame is
  abstracted to the number of the capture it came from: the n-th `getFrame`
  yields payload `n` and timestamp `n`. So a torn frame is one whose `data`
  differs from its `ts`.
- **Kernel objects.** `holders` is the set of processes holding handles. The
  named objects are destroyed when it becomes empty (`Detach`). `mutex` is
  `[owner, depth, abandoned]`. `frameEvent` and `clientEvent` are the two
  auto-reset events.
- **Server.** `spc` is where the service is. `sFrameNumber`,
  `cameraActive` and `noClientFrames` are the code's variables. `captured`
  counts getFrame calls, and `starts` counts launches.
- **Clients.** `cpc` is where each client is. `lastFrame` is
  `m_lastFrameNumber`. `readOut` and `readRet` are what the last
  `ReadFrame` handed out and returned.

Actions follow the code step by step. Each access to shared memory that is
made outside the mutex is its own step:

| Code | Actions |
|---|---|
| `ServiceMain` | `ServerStart` |
| `Create` | `ServerCreate`, `ServerCreateFails` (lines 17-75), `ServerInitHeader` (76-86), `ServerInitCount` (87-90) |
| `CaptureLoop` gate | `ServerWaitForClients`: `WaitForClients(1000)` then `initCamera` |
| `WriteFrame` | `ServerWriteLock` (getFrame and the mutex wait: granted, abandoned, or timed out), `ServerWriteCopy` (memcpy), `ServerWriteHeader` (header update, `SetEvent`, `ReleaseMutex`) |
| `CaptureLoop` debounce | `ServerCheckClients` (helpers `CaptureLoopLocals`, `InitCamera`, `StopCamera` for the loop's locals and its two lambdas) |
| stop request + `Close` | `ServiceStop` |
| process death | `ServerCrash`, `ClientCrash` |
| `Connect` | `ConnectOpen` (open and map, 200-238), `ConnectValidate` (magic/version read, 240-244), `ConnectReject` (the `Disconnect` of a mismatch, a later step: its decrement can land after `Create`'s reset), `ConnectSignal` (`SetEvent`), `ConnectIncrement` |
| `Disconnect` | `Disconnect` |
| `WaitForFrame` | `WaitForFrame` |
| `ReadFrame` | `ReadLock` (the wait, 311-322), `ReadBody` (pid and sequence checks, copy, release) |

The mutants used to validate the properties appear in the module as
operators named after the slip they model: for example
`ReadBodyNoSeqCheck` and `ServerWriteHeaderNoRelease`. Each is defined just
before the action it mutates. They are not part of `Next`.

The module ends with the refinement mapping `Slot`, an `INSTANCE` of
`LatestFrameSlot`:

- `live` is `serverPID # 0`;
- `latest` and `payload` are the header's `frameNumber` and `timestamp`;
- `attached` is the set of clients between `ConnectIncrement` and
  `Disconnect`;
- `seen` is `m_lastFrameNumber`;
- `out` is what `ReadFrame` last handed out.

`RefinesLatestFrameSlot == Slot!Spec` is checked as a PROPERTY.

### `LatestFrameSlot.tla`

This module is the channel's promise to its readers, written from
`spec.md` (sections 4, 5 and 8) and not from any one function. It is a
single register: a producer opens, publishes frames `1, 2, ...` with a
payload each, and closes. Readers attach (their last-seen number becomes 0),
read the latest frame with its own payload only when it is newer than what
they saw, and detach. When nobody holds the channel any more, the register
vanishes. It models no code, so it has no entries in the map.

### `PS3EyeAdapters.tla`

This module extends `PS3EyeSharedMemory` with the two adapters that run
inside client processes. Each adapter step is a step of the client API
(for example `ConnectOpen`, `WaitForFrame`, `ReadLock`, `ReadBody` or
`Disconnect`) conjoined with the adapter's own variables. The constants
`MFClients` and `DSClients` partition the clients. `MaxAttempts` is
FillBuffer's `maxAttempts` (10 in the code, 2 here). `LockTimeouts` says
whether a mutex wait may time out. `ActivationEnds` says whether the
application may also call `ShutdownObject` and `DetachObject` on the
activation object. The two violation runs leave these calls out, because
they only add ways to reach a `Shutdown` that the source already offers.

| Code | State | Actions |
|---|---|---|
| `PS3EyeActivate` `ActivateObject`/`ShutdownObject`/`DetachObject` | `cached` (`m_source` is set) | `ActivateObject` (no cached source: `SourceCreate`), `ActivateObjectInit` (the source is cached only if `Initialize` succeeded), `ShutdownObject`, `DetachObject` |
| `PS3EyeMediaSource` `CreateInstance`/`Initialize` | `srcState` (`m_state`), `api` (which call is in progress) | `SourceCreate`, `SourceInitConnect` (only through `ActivateObject`) |
| `Start` (+ `StartCaptureThread`, stream `Start`) | `running` (`m_captureThreadRunning`), `active` (stream `m_isActive`) | `SourceStart` / `SourceStartConnecting` (stream `Start` sets `m_isActive`, 323-333), `SourceStartThread` (`StartCaptureThread`, 336), `SourceStartState` (`m_state = Started`, 338), `SourceStartConnect` |
| `Stop`/`Shutdown` (+ `StopCaptureThread`) | | `SourceStopBegin` (clear the flag), then after the join `SourceStopFinish` (`Disconnect`, stream `Stop`, `Stopped`) or `SourceShutdownFinish` (stream `Shutdown`, `Shutdown`) |
| `PS3EyeMediaStream` `Start`/`Stop`/`Pause`/`Shutdown`/`DeliverSample` | | helpers `StreamStart`, `StreamStop`, `StreamPause`, `StreamShutdown`, `DeliverSample` (drops the sample unless `m_isActive`) |
| `Pause` | | `SourcePause` |
| `CaptureThreadProc` | `tpc` (where the thread is), `sample` (the last frame queued as `MEMediaSample`) | `ThreadExit`, `ThreadLoop`, `ThreadWake`, `ThreadWaitTimeout`, `ThreadReadLock`, `ThreadReadTimeout`, `ThreadReadBody`, `ThreadDeliver` |
| `PS3EyeVirtualPin::FillBuffer` | `ppc` (the streaming thread), `attempts` | `PinFill`, `PinConnecting`, `PinReadLock`, `PinReadTimeout`, `PinReadBody`, helper `PinRetry` |
| graph connect: `GetMediaType`, `CheckMediaType`, `DecideBufferSize` | `connection` (image size of the agreed media type, and the buffer size the allocator granted) | `PinConnect` (the base class's connect, outside the repository) over the operators `GetMediaType`, `CheckMediaType`, `DecideBufferSize` |
| graph run/stop, pin destructor | | `PinRun`, `PinStop` (the DirectShow base class, outside the repository), `PinDestroy` |

The capture thread's own reconnect branch (`PS3EyeMediaSource.cpp`
504-508) is not an action. The thread runs only between a `Start` that
left the client connected and the `Disconnect` of `Stop`/`Shutdown`, which
comes after the join, so no state reaches that branch.
`ThreadUsesOpenClient` checks exactly this.

A media type is abstracted to the five fields `CheckMediaType` reads
(major type, subtype, format type, `biWidth`, `biHeight`), each over two
or three values, so the graph may propose the pin's own type, a top-down
one (negative height) or a wrong one. The allocator may grant a full or a
half frame; `DecideBufferSize` refuses the half frame, which is what
keeps `FillBuffer`'s `memcpy` of `PS3EYE_FRAME_SIZE` bytes inside the
sample. No property restates those two guards.

### `PS3EyeTestClients.tla`

This module extends `PS3EyeSharedMemory` with the test programs, each a
process that uses the named objects directly. `tpcs` is where each program
is, `seen` its local `lastFrame`, and `counted` its `framesRead` or
`frameCount`.

- **TestClient and TestClientQuiet** (the same protocol): `TestOpen`,
  `TestValidate`, `TestRegister` (`InterlockedIncrement`), `TestSignal`
  (`SetEvent`), `TestLock` (the wait whose result is ignored), `TestRead`
  (read `frameNumber`, count, `ReleaseMutex`), and `TestLeave`
  (decrement, `SetEvent`, close).
- **FastTest**: the same open, check and loop, without registering.
- **SharedMemoryTest**: `SmtOpen`, `SmtWake` (the new-frame event),
  `SmtLock`, and `SmtRead`. `SmtRead` reads the 8 bytes at offset 0 through
  the test's own `SharedFrameHeader`. That word is the real header's
  magic and version, the model value `MagicVersion` (or 0 before the
  header is set).

A wait that is not checked (`UncheckedLock`) makes the caller the owner
when it is granted or abandoned. When it times out, the caller goes on
without the mutex. `ReleaseIfOwner` is a `ReleaseMutex` that fails
harmlessly when the caller does not own the mutex.

### `MC_PS3EyeSharedMemory.tla`

This module instantiates the model for TLC:

- two clients as model values;
- `MCCountFloor == -1`, because a cfg cannot write a negative number;
- client symmetry, used only in the safety-only runs.

### `MC_PS3EyeAdapters.tla`, `MC_PS3EyeTestClients.tla`

These modules instantiate the model with two or three clients as model
values, and name the sets that say which client runs which adapter or
test program.

## 3. Runs

All runs use two clients and `NoClientLimit = 1`. That means the camera
stops after the 2nd consecutive publish with no client, instead of the
31st. Only the counting matters, and a larger limit only lengthens the
paths.

Deadlock is not checked (`CHECK_DEADLOCK FALSE`). After the last launch of
the service stops, clients can do nothing but poll. Their failed calls
change no state, so the model has no step left, exactly as the code idles.

| Run | Expect | Bounds | Properties | What it shows |
|---|---|---|---|---|
| `protocol` | pass | 2 captures, 1 launch, no crash, clients connect after Create | TypeOK, FrameIntegrity, ClientCountAccurate, LockHeldOnlyInCriticalSection, ReadsOnlyNewer, CameraFollowsClients, CameraReleasedWhenIdle, NewFramesReachReaders, RefinesLatestFrameSlot | the protocol as intended is correct, including frames dropped on a mutex timeout and the debounced stop/restart of the camera: the camera runs while a client is attached and is released after the last one leaves; the channel implements `LatestFrameSlot` |
| `faults` | pass | connects during Create, 1 client crash, symmetry | FrameIntegrity, ReadsOnlyNewer | a client dying (even while owning the mutex) and clients racing Create never make anyone deliver a torn or an old frame |
| `crash_count` | pass | any process may crash once, symmetry | ClientCountCoversAttached | crashes over-count clients, never under-count them |
| `create_race` | violation | connects during Create | ClientCountCoversAttached | finding 1 |
| `restart_count` | violation | 2 launches | ClientCountCoversAttached | finding 2 |
| `restart_reads` | violation | 2 launches | ReadsOnlyNewer | finding 3 |
| `abandoned_mutex` | violation | any process may crash once | LockHeldOnlyInCriticalSection | finding 4 |
| `crash_torn_frame` | violation | the service may crash once | FrameIntegrity | finding 5 |
| `adapters` | pass | 1 MF source + 1 DirectShow pin, 1 capture, mutex timeouts on, `MaxAttempts` 2, spec `PinOnlySpec` | AdaptersTypeOK, ThreadUsesOpenClient, ShutdownReleasesChannel, SamplesOnlyWhileStarted, PinFillReturns | Stop joins the capture thread before `Disconnect`; `Pause` racing the thread never lets a sample through, and samples appear otherwise only while Started or in `Start()`'s window (the stream is activated before `m_state` becomes Started); every `FillBuffer` call returns after at most `MaxAttempts` polls; a shut-down source has left the channel |
| `sources_latest` | violation | 2 MF sources, no mutex timeouts | LatestFrameReachesSources | finding 6 |
| `stale_server` | violation | 1 source + 1 pin, no mutex timeouts, the service may crash once | StaleServerReleased | finding 7 |
| `test_clients` | pass | TestClient + FastTest + SharedMemoryTest, mutex timeouts on, one service crash (also inside `WriteFrame`) | TestClientsTypeOK, TestClientsCounted, TestMutexReleasedAfterRead, TestClientStartsCamera | the test programs' hand-written protocol is sound; their unconditional `ReleaseMutex` frees a mutex inherited through `WAIT_ABANDONED` |

**Why the bounds are enough.** Each bad interleaving needs at most:

- two clients;
- one crash;
- one relaunch;
- two captures. Two captures give a frame that differs from the previous
  one, and a dropped frame followed by a newer one.

Three captures multiply the `protocol` state space by 5 without reaching a
new kind of state. `CountFloor` stops clients from re-trying connects that
fail validation once they have driven `clientCount` to -1. Without it, the
count would be unbounded. One failed connect already shows the defect.

`protocol` also checks `RefinesLatestFrameSlot`: the intended protocol
implements the abstract latest-frame register.

`adapters` uses one capture. Every adapter race it checks (Stop against
the capture thread, Pause against a delivery, a connect against
`FillBuffer`'s poll, a poll that finds no newer frame) needs only one
published frame. A second capture multiplies its states more than tenfold and, with
the liveness check, takes the run past five minutes. The violation runs
`sources_latest` and `stale_server` keep two captures.

The liveness runs of the adapters turn mutex timeouts off. A timed-out
wait is a retry, and the critical sections are far shorter than 100 ms, so
a timeout is not something that can happen forever. The safety run
`adapters` turns them on, so that the timeout actions are checked. In the
adapter runs the application's calls (create, start, pause, stop, graph run
and stop) are free choices, so every order of them is explored.

### Findings

The violation runs are disagreements between the code and `spec.md`.
`findings` in `PROJECT.json` gives each one's detail.

1. `Create` zeroes `clientCount` outside the mutex. A `Connect` whose
   validation fails decrements a count it never incremented.
2. A relaunched service reopens the objects its clients still hold and
   zeroes `clientCount` under them.
3. After a relaunch, `ReadFrame`'s `==` check hands out frame 0 with the old
   payload.
4. `WAIT_ABANDONED` leaves the mutex owned forever.
5. A service crash between `WriteFrame`'s memcpy and its header update makes
   a reader deliver a torn frame. The reader's `WAIT_ABANDONED` is ignored,
   and its next, recursive, acquisition succeeds.
6. A Started Media Foundation source can miss the latest frame for good.
   Its capture thread reads only after its own wait on the auto-reset
   new-frame event succeeds, and another waiter may have consumed that
   event. The other waiter can be a second source, or this source's thread
   while Paused or before a restart. The spec treats the event as a hint
   only.
7. After `Close` zeroes `serverPID`, the capture thread and `FillBuffer`
   only retry. Neither disconnects, although the spec says a caller that
   sees a stale server disconnects and later reconnects. After a crash,
   nothing zeroes `serverPID`, so the channel even looks live.

One more defect is recorded as a hazard, not a run. `SharedMemoryTest`
uses an old header layout, so it prints the magic/version word as a frame
number and can never count its 10 frames. It also never registers as a
client. The model reproduces this on every path (`SmtRead`).

## 4. Fairness

- **Service steps.** `CaptureLoop` runs until it is stopped, so every
  service step except launch, stop and crash is weakly fair.
- **Connect.** A client that has begun `Connect` completes it, so its steps
  are weakly fair. Connecting and disconnecting are the caller's choice and
  are not fair.
- **ReadLock.** A connected client in every adapter calls `ReadFrame` again
  and again. `ReadLock` is strongly fair because its 100 ms wait is longer
  than any critical section: a waiter whose mutex is released infinitely
  often is eventually granted it.
- **ReadBody.** It is weakly fair.
- **Adapters and test programs.** The capture thread and the DirectShow
  streaming thread loop while their flag is set or the graph runs, so
  their steps are weakly fair. Mutex grants are strongly fair, as for
  `ReadLock`. Waking on the new-frame event is weakly fair per waiter,
  because Windows does not wake waiters of an auto-reset event in FIFO
  order. The end of a test program's timed loop has no fairness, because
  the duration is arbitrary.
- **`PinOnlySpec`.** The `adapters` run assumes fairness only for the
  pin's streaming thread (`PinFairness`), and none for the service, the
  source or the application. `PinFillReturns` therefore says that
  `FillBuffer` returns even when the service stalls while it holds the
  mutex, because a mutex wait may time out. The safety properties of the
  run do not depend on fairness.

## 5. Not modelled

The following parts are left out:

- the camera driver, and an `initCamera` failure (assumed to succeed);
- the `isStreaming` sleep branch (`PS3EyeCaptureService.cpp` 99): if the
  camera stops streaming, `cameraActive` stays true and the loop sleeps
  forever, never reaching the clientCount check, so the camera is never
  released. Showing this needs a camera-failure fault and a violation
  run of its own. It is recorded as a hazard;
- the `dataOffset` and `dataSize` that `ReadFrame` takes from the header
  (`PS3EyeSharedMemory.cpp` 340): in the model only the service writes
  the header. A client process that maps the region writable could
  corrupt them. This is recorded as a hazard;
- the `GetTickCount` wrap in the TestClient loop's end time: the end of
  the test loop is untimed in the model;
- the frame geometry constants;
- `GetFrameInfo` and `IsConnected`, which change no state;
- SCM install and uninstall;
- MF registration and the activation object's attribute forwarding (COM
  plumbing). A second source created in one process after `DetachObject`
  is not modelled either: the model has one source per process, so
  `ActivateObject` creates a new one only after the old one is shut down.
  The case where `ActivateObject` hands out a cached source that the
  application shut down itself is reachable in the model and recorded as
  a hazard. Stating it as a violation needs a run of its own;
- the DirectShow graph harnesses.
- **Media Foundation source.** Media types, descriptors, attributes, the
  event queue and `RequestSample` are COM plumbing with no protocol state.
  `MFCreateSample` and `AddBuffer` failures only skip a frame, exactly as
  a dropped sample does.
- **DirectShow filter.** COM registration, sample time stamps, and the
  `VIDEOINFO` fields `CheckMediaType` does not read.
- **What the map does not cover.** About two thirds of the source lines
  are COM and Windows plumbing with no protocol state: the MF activation
  object's attribute forwarding, class factory and registration
  (`PS3EyeDeviceSource.cpp`), the
  media-type and descriptor code of the source, the DirectShow graph
  harnesses, SCM install and uninstall, and logging.

## 6. Plan

1. **Larger instances.** Three captures in the adapter runs, a source
   together with two pins, and the pins' catch-up liveness
   (`FillBuffer` polls whatever the event says). With one source and
   one pin and timeouts on, `PinFillReturns` alone takes most of the
   run's time, and adding the catch-up property doubled it.
2. **Abandoned mutex in the adapters.** What a process that crashed while
   owning the mutex does to a streaming pin or source.
3. **Relaunch under the adapters.** How the adapters behave across a
   service relaunch, beyond the channel-level runs `restart_count` and
   `restart_reads`.
