---------------------------- MODULE PS3EyeAdapters ----------------------------
(***************************************************************************)
(* The two consumers of the channel that ship with the service, composed  *)
(* with the channel of PS3EyeSharedMemory: each client process hosts one  *)
(* adapter, and the adapter decides which client-API calls are made.      *)
(*                                                                         *)
(*  - A Media Foundation source (PS3EyeMediaSource.cpp): the application  *)
(*    thread calls Start / Stop / Pause / Shutdown under the source's     *)
(*    m_mutex, while a capture thread loops over Connect-if-needed,       *)
(*    WaitForFrame(100) and, only when that wait succeeds, ReadFrame and  *)
(*    DeliverSample.                                                      *)
(*  - A DirectShow output pin (PS3EyeVirtualFilter.cpp): the streaming    *)
(*    thread of the running graph calls FillBuffer, which connects if     *)
(*    needed and polls ReadFrame up to maxAttempts times.                 *)
(*                                                                         *)
(* Every adapter step is one step of the client API of PS3EyeSharedMemory *)
(* (or a step that touches no shared state), so the channel's actions are *)
(* reused unchanged and only the adapter's own state is added.            *)
(***************************************************************************)
EXTENDS PS3EyeSharedMemory

CONSTANTS
  MFClients,     \* client processes hosting a PS3EyeMediaSource
  DSClients,     \* client processes hosting a PS3EyeVirtualCam filter
  MaxAttempts,   \* FillBuffer's maxAttempts (10 in the code)
  LockTimeouts,  \* may a 100 ms wait for the named mutex time out?
  ActivationEnds \* may the application call ShutdownObject / DetachObject?

ASSUME MFClients \cap DSClients = {} /\ MFClients \cup DSClients = Clients
ASSUME MaxAttempts \in Nat \ {0} /\ LockTimeouts \in BOOLEAN /\ ActivationEnds \in BOOLEAN

VARIABLES
  srcState,   \* PS3EyeMediaSource::m_state
  api,        \* the application call in progress on the source
  running,    \* m_captureThreadRunning
  tpc,        \* where the capture thread is ("none": no thread)
  active,     \* PS3EyeMediaStream::m_isActive
  sample,     \* frame number of the last sample queued by the stream
  ppc,        \* where the pin's streaming thread is ("off": graph stopped)
  attempts,   \* FillBuffer's attempts
  connection, \* the agreed media type's frame size and the buffer size
  cached      \* PS3EyeActivate::m_source is set

mfVars == <<srcState, api, running, tpc, active, sample, cached>>
dsVars == <<ppc, attempts, connection>>
allVars == <<vars, mfVars, dsVars>>

SourceStates == {"Invalid", "Stopped", "Started", "Paused", "Shutdown"}

\* m_sharedMemClient.IsConnected(): the view is mapped.
IsConnected(c) == c \in Attached

\* The rest of a Connect() begun by ConnectOpen(c).
ConnectStep(c) ==
  ConnectValidate(c) \/ ConnectReject(c) \/ ConnectSignal(c) \/ ConnectIncrement(c)

\* The adapter's next place once Connect() has returned or is still running.
AfterConnect(c, ok, failed, busy) ==
  CASE cpc'[c] = "connected" -> ok
    [] cpc'[c] = "idle"      -> failed
    [] OTHER                 -> busy

\* A 100 ms wait for the named mutex gives up while another process owns it.
LockTimesOut(c) == LockTimeouts /\ mutex.owner \notin {NoOwner, c}

----
(* PS3EyeMediaStream: m_isActive and DeliverSample                         *)
----

\* Start(): m_isActive = true (and MEStreamStarted is queued).
StreamStart(c) == active' = [active EXCEPT ![c] = TRUE]

\* Stop(): m_isActive = false.
StreamStop(c) == active' = [active EXCEPT ![c] = FALSE]

\* Pause(): m_isActive = false.
StreamPause(c) == active' = [active EXCEPT ![c] = FALSE]

\* Shutdown(): m_isShutdown = true, m_isActive = false.
StreamShutdown(c) == active' = [active EXCEPT ![c] = FALSE]

\* DeliverSample(): queued as a MEMediaSample event when m_isActive,
\* silently dropped otherwise (and refused after Shutdown, when m_isActive
\* is false as well).
DeliverSample(c) ==
  sample' = [sample EXCEPT ![c] = IF active[c] THEN readOut[c].frame ELSE @]

----
(* PS3EyeMediaSource: the application's calls                              *)
----

\* CreateInstance + Initialize(): a new source object connects to the
\* channel; when the objects do not exist Connect fails at once and the
\* object is released (no state changes).
SourceCreate(c) ==
  /\ srcState[c] \in {"Invalid", "Shutdown"} /\ api[c] = "idle"
  /\ ConnectOpen(c)
  /\ api' = [api EXCEPT ![c] = "initConnect"]
  /\ srcState' = [srcState EXCEPT ![c] = "Invalid"]
  /\ UNCHANGED <<running, tpc, active, sample, dsVars>>

\* Initialize() after Connect returns: Stopped, or E_FAIL (object released).
SourceInitConnect(c) ==
  /\ api[c] = "initConnect"
  /\ ConnectStep(c)
  /\ api' = [api EXCEPT ![c] = AfterConnect(c, "idle", "idle", "initConnect")]
  /\ srcState' = [srcState EXCEPT ![c] =
                    AfterConnect(c, "Stopped", "Invalid", "Invalid")]
  /\ UNCHANGED <<running, tpc, active, sample, dsVars>>

\* Start() with the client still connected: m_stream->Start() sets
\* m_isActive while m_state is unchanged.
SourceStart(c) ==
  /\ api[c] = "idle" /\ srcState[c] \in {"Stopped", "Started", "Paused"}
  /\ IsConnected(c)
  /\ StreamStart(c)
  /\ api' = [api EXCEPT ![c] = "startThread"]
  /\ UNCHANGED <<vars, srcState, running, tpc, sample, dsVars>>

\* Start(), next statement: StartCaptureThread(), a no-op while
\* m_captureThreadRunning, otherwise a new capture thread.
SourceStartThread(c) ==
  /\ api[c] = "startThread"
  /\ running' = [running EXCEPT ![c] = TRUE]
  /\ tpc' = [tpc EXCEPT ![c] = IF running[c] THEN @ ELSE "top"]
  /\ api' = [api EXCEPT ![c] = "startState"]
  /\ UNCHANGED <<vars, srcState, active, sample, dsVars>>

\* Start(), last statements: m_state = Started, MESourceStarted queued.
SourceStartState(c) ==
  /\ api[c] = "startState"
  /\ srcState' = [srcState EXCEPT ![c] = "Started"]
  /\ api' = [api EXCEPT ![c] = "idle"]
  /\ UNCHANGED <<vars, running, tpc, active, sample, dsVars>>

\* Start() after Stop() disconnected: Connect() first.
SourceStartConnect(c) ==
  /\ api[c] = "idle" /\ srcState[c] \in {"Stopped", "Started", "Paused"}
  /\ ConnectOpen(c)
  /\ api' = [api EXCEPT ![c] = "startConnect"]
  /\ UNCHANGED <<srcState, running, tpc, active, sample, dsVars>>

\* Start() once Connect returns: go on, or return E_FAIL.
SourceStartConnecting(c) ==
  /\ api[c] = "startConnect"
  /\ ConnectStep(c)
  /\ api' = [api EXCEPT ![c] =
                AfterConnect(c, "startThread", "idle", "startConnect")]
  /\ IF cpc'[c] = "connected" THEN StreamStart(c) ELSE UNCHANGED active
  /\ UNCHANGED <<srcState, running, tpc, sample, dsVars>>

\* Stop() and Shutdown(): StopCaptureThread() clears the flag and joins.
SourceStopBegin(c) ==
  /\ api[c] = "idle" /\ srcState[c] \in {"Stopped", "Started", "Paused"}
  /\ \E call \in {"stopJoin", "shutdownJoin"} : api' = [api EXCEPT ![c] = call]
  /\ running' = [running EXCEPT ![c] = FALSE]
  /\ UNCHANGED <<vars, srcState, tpc, active, sample, dsVars>>

\* Mutant: StopCaptureThread() does not join the capture thread.
SourceStopFinishNoJoin(c) ==
  /\ api[c] = "stopJoin"
  /\ IF cpc[c] = "connected" THEN Disconnect(c) ELSE UNCHANGED vars
  /\ StreamStop(c)
  /\ srcState' = [srcState EXCEPT ![c] = "Stopped"]
  /\ api' = [api EXCEPT ![c] = "idle"]
  /\ UNCHANGED <<running, tpc, sample, dsVars>>

\* Stop() after the join: m_sharedMemClient.Disconnect(), m_stream->Stop(),
\* m_state = Stopped.
SourceStopFinish(c) ==
  /\ api[c] = "stopJoin" /\ tpc[c] = "none"
  /\ IF cpc[c] = "connected" THEN Disconnect(c) ELSE UNCHANGED vars
  /\ StreamStop(c)
  /\ srcState' = [srcState EXCEPT ![c] = "Stopped"]
  /\ api' = [api EXCEPT ![c] = "idle"]
  /\ UNCHANGED <<running, tpc, sample, dsVars>>

\* Mutant: Shutdown() forgets m_sharedMemClient.Disconnect().
SourceShutdownFinishNoDisconnect(c) ==
  /\ api[c] = "shutdownJoin" /\ tpc[c] = "none"
  /\ UNCHANGED vars
  /\ StreamShutdown(c)
  /\ srcState' = [srcState EXCEPT ![c] = "Shutdown"]
  /\ api' = [api EXCEPT ![c] = "idle"]
  /\ UNCHANGED <<running, tpc, sample, dsVars>>

\* Shutdown() after the join: Disconnect(), m_stream->Shutdown() and
\* Reset(), the event queue shut down, m_state = Shutdown.
SourceShutdownFinish(c) ==
  /\ api[c] = "shutdownJoin" /\ tpc[c] = "none"
  /\ IF cpc[c] = "connected" THEN Disconnect(c) ELSE UNCHANGED vars
  /\ StreamShutdown(c)
  /\ srcState' = [srcState EXCEPT ![c] = "Shutdown"]
  /\ api' = [api EXCEPT ![c] = "idle"]
  /\ UNCHANGED <<running, tpc, sample, dsVars>>

\* Pause(): only from Started; the capture thread keeps running.
SourcePause(c) ==
  /\ api[c] = "idle" /\ srcState[c] = "Started"
  /\ StreamPause(c)
  /\ srcState' = [srcState EXCEPT ![c] = "Paused"]
  /\ UNCHANGED <<vars, api, running, tpc, sample, dsVars>>

----
(* PS3EyeMediaSource::CaptureThreadProc                                    *)
----

\* The loop test: leave when m_captureThreadRunning is false.
ThreadExit(c) ==
  /\ tpc[c] = "top" /\ ~running[c]
  /\ tpc' = [tpc EXCEPT ![c] = "none"]
  /\ UNCHANGED <<vars, srcState, api, running, active, sample, dsVars>>

\* Connected: on to WaitForFrame(100).  The branch that reconnects a
\* disconnected client is not modelled: no state reaches it (see
\* ThreadUsesOpenClient).
ThreadLoop(c) ==
  /\ tpc[c] = "top" /\ running[c] /\ IsConnected(c)
  /\ tpc' = [tpc EXCEPT ![c] = "wait"]
  /\ UNCHANGED <<vars, srcState, api, running, active, sample, dsVars>>

\* WaitForFrame(100) consumes the auto-reset event: on to ReadFrame.
ThreadWake(c) ==
  /\ tpc[c] = "wait"
  /\ WaitForFrame(c)
  /\ tpc' = [tpc EXCEPT ![c] = "read"]
  /\ UNCHANGED <<srcState, api, running, active, sample, dsVars>>

\* No SetEvent within 100 ms: `continue`, without calling ReadFrame.
ThreadWaitTimeout(c) ==
  /\ tpc[c] = "wait" /\ ~frameEvent
  /\ tpc' = [tpc EXCEPT ![c] = "top"]
  /\ UNCHANGED <<vars, srcState, api, running, active, sample, dsVars>>

\* ReadFrame's mutex wait; WAIT_ABANDONED returns false (`continue`).
ThreadReadLock(c) ==
  /\ tpc[c] = "read"
  /\ ReadLock(c)
  /\ tpc' = [tpc EXCEPT ![c] = IF cpc'[c] = "locked" THEN "body" ELSE "top"]
  /\ UNCHANGED <<srcState, api, running, active, sample, dsVars>>

ThreadReadTimeout(c) ==
  /\ tpc[c] = "read" /\ LockTimesOut(c)
  /\ tpc' = [tpc EXCEPT ![c] = "top"]
  /\ UNCHANGED <<vars, srcState, api, running, active, sample, dsVars>>

ThreadReadBody(c) ==
  /\ tpc[c] = "body"
  /\ ReadBody(c)
  /\ tpc' = [tpc EXCEPT ![c] = IF readRet'[c] THEN "deliver" ELSE "top"]
  /\ UNCHANGED <<srcState, api, running, active, sample, dsVars>>

\* Mutant: DeliverSample() without the m_isActive test.
ThreadDeliverUnchecked(c) ==
  /\ tpc[c] = "deliver"
  /\ sample' = [sample EXCEPT ![c] = readOut[c].frame]
  /\ tpc' = [tpc EXCEPT ![c] = "top"]
  /\ UNCHANGED <<vars, srcState, api, running, active, dsVars>>

\* MFCreateSample, the buffer copy and the sample time, then
\* m_stream->DeliverSample().
ThreadDeliver(c) ==
  /\ tpc[c] = "deliver"
  /\ DeliverSample(c)
  /\ tpc' = [tpc EXCEPT ![c] = "top"]
  /\ UNCHANGED <<vars, srcState, api, running, active, dsVars>>

----
(* PS3EyeActivate: the IMFActivate through which applications get a source *)
----

\* ActivateObject() with no cached source: PS3EyeMediaSource::CreateInstance.
\* With one cached, it only hands out the same object (no state changes),
\* also when the application has shut that object down itself.
ActivateObject(c) ==
  /\ ~cached[c]
  /\ SourceCreate(c)
  /\ UNCHANGED cached

\* CreateInstance returns: m_source holds the source when Initialize
\* succeeded; on failure it stays null and ActivateObject returns hr.
ActivateObjectInit(c) ==
  /\ SourceInitConnect(c)
  /\ cached' = [cached EXCEPT ![c] = AfterConnect(c, TRUE, FALSE, FALSE)]

\* ShutdownObject(), also run by ~PS3EyeActivate: m_source->Shutdown(), which
\* returns at once on a source already shut down, then m_source.Reset().
\* The application thread is in the call until the join completes, so
\* the reset is taken with the call.
ShutdownObject(c) ==
  /\ ActivationEnds /\ cached[c] /\ api[c] = "idle"
  /\ cached' = [cached EXCEPT ![c] = FALSE]
  /\ \/ /\ srcState[c] \in {"Stopped", "Started", "Paused"}
        /\ api' = [api EXCEPT ![c] = "shutdownJoin"]
        /\ running' = [running EXCEPT ![c] = FALSE]
        /\ UNCHANGED <<vars, srcState, tpc, active, sample, dsVars>>
     \/ /\ srcState[c] = "Shutdown"
        /\ UNCHANGED <<vars, srcState, api, running, tpc, active, sample, dsVars>>

\* DetachObject(): m_source.Reset() without Shutdown; the application keeps
\* the source it was given.
DetachObject(c) ==
  /\ ActivationEnds /\ cached[c] /\ api[c] = "idle"
  /\ cached' = [cached EXCEPT ![c] = FALSE]
  /\ UNCHANGED <<vars, srcState, api, running, tpc, active, sample, dsVars>>

----
(* PS3EyeVirtualPin::FillBuffer, driven by the graph's streaming thread    *)
----

SetPpc(c, to) == ppc' = [ppc EXCEPT ![c] = to]

\* PS3EYE_WIDTH, PS3EYE_HEIGHT and PS3EYE_FRAME_SIZE (RGB24, 3 bytes).
FrameWidth == 640
FrameHeight == 480
FrameSize == FrameWidth * FrameHeight * 3

abs(x) == IF x < 0 THEN -x ELSE x

\* A media type, as far as CheckMediaType looks at it: major type,
\* subtype, format type and the VIDEOINFO's biWidth and biHeight (negative
\* for a top-down bitmap).  The graph may propose any of these.
MediaTypes ==
  [major : {"Video", "Audio"}, subtype : {"RGB24", "YUY2"},
   format : {"VideoInfo", "WaveFormatEx"}, width : {FrameWidth, FrameWidth \div 2},
   height : {FrameHeight, -FrameHeight, FrameHeight \div 2}]

\* Bytes per pixel of a video subtype.
BytesPerPixel(subtype) == IF subtype = "RGB24" THEN 3 ELSE 2

\* The bytes one frame of a media type takes.
ImageSize(mt) == mt.width * BytesPerPixel(mt.subtype) * abs(mt.height)

\* The buffer sizes an allocator may grant for a request of one frame.
AllocatorSizes == {FrameSize \div 2, FrameSize}

\* GetMediaType(iPosition): the one type the pin offers, RGB24 VIDEOINFO
\* of 640 x 480 bottom-up; E_INVALIDARG below 0, VFW_S_NO_MORE_ITEMS above.
GetMediaType(i) ==
  IF i = 0 THEN [major |-> "Video", subtype |-> "RGB24", format |-> "VideoInfo",
                 width |-> FrameWidth, height |-> FrameHeight]
           ELSE "none"

\* An unconnected pin: no media type, no buffer.
NoConnection == [imageSize |-> 0, cbBuffer |-> 0]

\* CheckMediaType(pmt): video, RGB24, VIDEOINFO, biWidth = 640 and
\* abs(biHeight) = 480.
CheckMediaType(mt) ==
  /\ mt.major = "Video" /\ mt.subtype = "RGB24" /\ mt.format = "VideoInfo"
  /\ mt.width = FrameWidth /\ abs(mt.height) = FrameHeight

\* DecideBufferSize: ask for one buffer of PS3EYE_FRAME_SIZE and fail
\* with E_FAIL when SetProperties grants less.
DecideBufferSize(actual) == actual >= FrameSize

\* CBaseOutputPin::CompleteConnect: the graph connects the pin with a
\* media type that is the pin's own or one the downstream proposes, and
\* an allocator; a failed CheckMediaType or DecideBufferSize leaves the
\* pin unconnected.
PinConnect(c) ==
  /\ ppc[c] = "unconnected"
  /\ \E mt \in {GetMediaType(0)} \cup MediaTypes, actual \in AllocatorSizes :
       /\ CheckMediaType(mt) /\ DecideBufferSize(actual)
       /\ connection' = [connection EXCEPT ![c] =
                          [imageSize |-> ImageSize(mt), cbBuffer |-> actual]]
  /\ SetPpc(c, "off")
  /\ UNCHANGED <<vars, mfVars, attempts>>

\* The graph runs: the streaming thread starts calling FillBuffer.
PinRun(c) ==
  /\ ppc[c] = "off"
  /\ SetPpc(c, "fill")
  /\ UNCHANGED <<vars, mfVars, attempts, connection>>

\* The graph stops: the streaming thread ends between two FillBuffers.
PinStop(c) ==
  /\ ppc[c] = "fill"
  /\ SetPpc(c, "off")
  /\ UNCHANGED <<vars, mfVars, attempts, connection>>

\* The filter is released: ~PS3EyeVirtualPin() calls m_client.Disconnect().
PinDestroy(c) ==
  /\ ppc[c] = "off" /\ cpc[c] = "connected"
  /\ Disconnect(c)
  /\ UNCHANGED <<mfVars, dsVars>>

\* FillBuffer entry: connected, start polling; else Connect() (a failure
\* to open sleeps 33 ms and returns S_OK).
PinFill(c) ==
  /\ ppc[c] = "fill"
  /\ \/ IsConnected(c) /\ UNCHANGED vars
     \/ ConnectOpen(c)
  /\ SetPpc(c, IF IsConnected(c) THEN "poll" ELSE "connect")
  /\ attempts' = [attempts EXCEPT ![c] = 0]
  /\ UNCHANGED <<mfVars, connection>>

PinConnecting(c) ==
  /\ ppc[c] = "connect"
  /\ ConnectStep(c)
  /\ SetPpc(c, AfterConnect(c, "poll", "fill", "connect"))
  /\ UNCHANGED <<mfVars, attempts, connection>>

\* Mutant: the loop bound is tested with > instead of >=.
PinRetryOffByOne(c) ==
  /\ attempts' = [attempts EXCEPT ![c] = @ + 1]
  /\ SetPpc(c, IF attempts[c] + 1 > MaxAttempts THEN "fill" ELSE "poll")

\* Mutant: the loop has no maxAttempts bound and polls until a frame comes.
PinRetryForever(c) ==
  /\ attempts' = [attempts EXCEPT ![c] = IF @ < MaxAttempts THEN @ + 1 ELSE @]
  /\ SetPpc(c, "poll")

\* A failed ReadFrame: Sleep(10), attempts++; at maxAttempts FillBuffer
\* returns S_OK without a new frame.
PinRetry(c) ==
  /\ attempts' = [attempts EXCEPT ![c] = @ + 1]
  /\ SetPpc(c, IF attempts[c] + 1 >= MaxAttempts THEN "fill" ELSE "poll")

PinReadLock(c) ==
  /\ ppc[c] = "poll"
  /\ ReadLock(c)
  /\ IF cpc'[c] = "locked" THEN SetPpc(c, "body") /\ UNCHANGED attempts
                           ELSE PinRetry(c)
  /\ UNCHANGED <<mfVars, connection>>

PinReadTimeout(c) ==
  /\ ppc[c] = "poll" /\ LockTimesOut(c)
  /\ PinRetry(c)
  /\ UNCHANGED <<vars, mfVars, connection>>

\* ReadFrame's body: a new frame ends FillBuffer (sample timed and
\* delivered), anything else is one more attempt.
PinReadBody(c) ==
  /\ ppc[c] = "body"
  /\ ReadBody(c)
  /\ IF readRet'[c] THEN SetPpc(c, "fill") /\ UNCHANGED attempts
                    ELSE PinRetry(c)
  /\ UNCHANGED <<mfVars, connection>>

----

AdaptersInit ==
  /\ Init
  /\ srcState = [c \in MFClients |-> "Invalid"]
  /\ api = [c \in MFClients |-> "idle"]
  /\ running = [c \in MFClients |-> FALSE]
  /\ tpc = [c \in MFClients |-> "none"]
  /\ active = [c \in MFClients |-> FALSE]
  /\ sample = [c \in MFClients |-> 0]
  /\ cached = [c \in MFClients |-> FALSE]
  /\ ppc = [c \in DSClients |-> "unconnected"]
  /\ connection = [c \in DSClients |-> NoConnection]
  /\ attempts = [c \in DSClients |-> 0]

\* A step of the source or its capture thread leaves the activation alone.
Src(A) == A /\ UNCHANGED cached

SourceStep(c) ==
  \/ SourceStart(c) \/ SourceStartThread(c) \/ SourceStartState(c)
  \/ SourceStartConnect(c) \/ SourceStartConnecting(c)
  \/ SourceStopBegin(c) \/ SourceStopFinish(c) \/ SourceShutdownFinish(c)
  \/ SourcePause(c)
  \/ ThreadExit(c) \/ ThreadLoop(c) \/ ThreadWake(c) \/ ThreadWaitTimeout(c)
  \/ ThreadReadLock(c) \/ ThreadReadTimeout(c) \/ ThreadReadBody(c)
  \/ ThreadDeliver(c)

PinStep(c) ==
  \/ PinConnect(c) \/ PinRun(c) \/ PinStop(c) \/ PinDestroy(c) \/ PinFill(c)
  \/ PinConnecting(c) \/ PinReadLock(c) \/ PinReadTimeout(c)
  \/ PinReadBody(c)

ActivationStep(c) ==
  \/ ActivateObject(c) \/ ActivateObjectInit(c) \/ ShutdownObject(c)
  \/ DetachObject(c)

AdaptersNext ==
  \/ ServerStep /\ UNCHANGED <<mfVars, dsVars>>
  \/ \E c \in MFClients : Src(SourceStep(c))
  \/ \E c \in MFClients : ActivationStep(c)
  \/ \E c \in DSClients : PinStep(c)

\* The service loop runs on its own; an application call in progress
\* completes; the capture thread and the pin's streaming thread run
\* continuously.  A mutex wait is granted once the owner releases it (the
\* 100 ms bound outlasts every critical section), so its grant is strongly
\* fair.  Which waiter an auto-reset SetEvent wakes is not specified by
\* Windows, so waking is only weakly fair per waiter.  Creating, starting,
\* pausing and stopping a source and running or stopping a graph are the
\* application's choices and carry no fairness.
PinFairness ==
  \A c \in DSClients :
    /\ WF_allVars(PinFill(c)) /\ WF_allVars(PinConnecting(c))
    /\ SF_allVars(PinReadLock(c)) /\ WF_allVars(PinReadTimeout(c))
    /\ WF_allVars(PinReadBody(c))

AdaptersFairness ==
  /\ ServerFairness
  /\ \A c \in MFClients :
       /\ WF_allVars(ActivateObjectInit(c)) /\ WF_allVars(Src(SourceStartConnecting(c)))
       /\ WF_allVars(Src(SourceStartThread(c))) /\ WF_allVars(Src(SourceStartState(c)))
       /\ WF_allVars(Src(SourceStopFinish(c))) /\ WF_allVars(Src(SourceShutdownFinish(c)))
       /\ WF_allVars(Src(ThreadExit(c))) /\ WF_allVars(Src(ThreadLoop(c)))
       /\ WF_allVars(Src(ThreadWake(c))) /\ WF_allVars(Src(ThreadWaitTimeout(c)))
       /\ SF_allVars(Src(ThreadReadLock(c))) /\ WF_allVars(Src(ThreadReadTimeout(c)))
       /\ WF_allVars(Src(ThreadReadBody(c))) /\ WF_allVars(Src(ThreadDeliver(c)))
  /\ PinFairness

AdaptersSpec == AdaptersInit /\ [][AdaptersNext]_allVars /\ AdaptersFairness

\* The same behaviours, with fairness only for the pins' streaming threads:
\* nothing is assumed of the service, the source or the application.
PinOnlySpec == AdaptersInit /\ [][AdaptersNext]_allVars /\ PinFairness

----
(* Properties                                                              *)
----

\* The adapter is asking the channel for frames: a started source, or a
\* pin whose graph is running.
Streaming(c) ==
  IF c \in MFClients THEN srcState[c] = "Started"
                    ELSE ppc[c] \notin {"unconnected", "off"}

AdaptersTypeOK ==
  /\ TypeOK
  /\ srcState \in [MFClients -> SourceStates]
  /\ api \in [MFClients -> {"idle", "initConnect", "startConnect",
                            "startThread", "startState", "stopJoin",
                            "shutdownJoin"}]
  /\ running \in [MFClients -> BOOLEAN] /\ active \in [MFClients -> BOOLEAN]
  /\ tpc \in [MFClients -> {"none", "top", "connect", "wait", "read",
                            "body", "deliver"}]
  /\ sample \in [MFClients -> 0..MaxCaptures]
  /\ cached \in [MFClients -> BOOLEAN]
  /\ ppc \in [DSClients -> {"unconnected", "off", "fill", "connect", "poll", "body"}]
  /\ attempts \in [DSClients -> 0..MaxAttempts]
  /\ connection \in [DSClients ->
                      [imageSize : {0} \cup {ImageSize(mt) : mt \in MediaTypes},
                       cbBuffer : {0} \cup AllocatorSizes]]

\* A source that is shut down, whether by the application or by
\* ShutdownObject, holds nothing of the channel: its capture thread has
\* been joined and its client has unmapped the view and taken itself out
\* of clientCount.  A shut-down source still counted would keep the
\* on-demand camera running after the application has gone.
ShutdownReleasesChannel ==
  \A c \in MFClients :
    srcState[c] = "Shutdown" =>
      /\ tpc[c] = "none" /\ cpc[c] = "idle" /\ c \notin holders

\* Every FillBuffer call returns: a connect that is under way finishes,
\* and the poll gives up after maxAttempts failed ReadFrames, even while
\* no frame is ever published again.  The graph's Stop waits for the
\* streaming thread, so a FillBuffer that never returned would hang it.
PinFillReturns ==
  \A c \in DSClients :
    ppc[c] \in {"connect", "poll", "body"} ~> ppc[c] = "fill"

\* A capture thread exists only while m_sharedMemClient is connected:
\* Start() connects before it starts the thread, and Stop() and Shutdown()
\* disconnect the client, which the thread uses without a lock, only after
\* StopCaptureThread() has joined it.  (So CaptureThreadProc's own
\* reconnect branch never runs.)
ThreadUsesOpenClient ==
  \A c \in MFClients : tpc[c] # "none" => IsConnected(c)

\* The stream queues a sample only while the source is Started or a Start()
\* is under way: a frame the capture thread, which runs on through Pause(),
\* read before a Pause() or Stop() is dropped, not delivered.  Start() sets
\* m_isActive (m_stream->Start()) before StartCaptureThread() and
\* m_state = Started, so a thread still running from before a Pause(), or
\* the one Start() creates, may queue a sample while m_state still says
\* Paused or Stopped; that window is the code's and is allowed here.
InStart(c) == api[c] \in {"startThread", "startState"}

SamplesOnlyWhileStarted ==
  [][\A c \in MFClients :
       sample'[c] # sample[c] => srcState[c] = "Started" \/ InStart(c)]_allVars

\* Last-value broadcast: once frame n is the latest, every source that is
\* Started on a live service eventually hands out frame n or a newer one.
\* CaptureThreadProc calls ReadFrame only after its own WaitForFrame(100)
\* succeeded, while the spec makes the event only a wake-up hint and the
\* frame number what says a frame is new.
LatestFrameReachesSources ==
  \A c \in MFClients : \A n \in 1..MaxCaptures :
    (Streaming(c) /\ IsConnected(c) /\ region.frameNumber = n
       /\ lastFrame[c] < n)
      ~> (lastFrame[c] >= n \/ ~Streaming(c) \/ ~IsConnected(c)
          \/ region.serverPID = 0)

\* A streaming adapter whose service is gone eventually disconnects, so
\* that it can Connect to the next launch: after Close() ReadFrame reports
\* serverPID == 0 (the spec's StaleServer), and after a crash the channel
\* must look the same to it.
StaleServerReleased ==
  \A c \in Clients :
    (Streaming(c) /\ IsConnected(c) /\ lastFrame[c] > 0
       /\ (region.serverPID = 0 \/ spc = "down"))
      ~> (~IsConnected(c) \/ ~Streaming(c))

==============================================================================
