------------------------- MODULE PS3EyeSharedMemory -------------------------
(***************************************************************************)
(* The shared-memory frame-broadcast channel of PS3EyeSharedMemory.cpp,    *)
(* driven on the server side by CaptureLoop (PS3EyeCaptureService.cpp)     *)
(* and on the client side by arbitrary sequences of calls to the public    *)
(* PS3EyeSharedMemoryClient API.                                           *)
(*                                                                         *)
(* Every access to shared memory that the code makes outside the named     *)
(* mutex is its own step, so clients interleave with the server's Create   *)
(* and Close.  The named kernel objects (mapping, mutex, the two auto-     *)
(* reset events) live while any process holds a handle to them; they are  *)
(* modelled as one unit whose holders are tracked in `holders`.  The named *)
(* mutex has Windows semantics: it is recursive, and a process that dies   *)
(* owning it leaves it abandoned, so that the next WaitForSingleObject     *)
(* returns WAIT_ABANDONED and hands ownership to the waiter.               *)
(*                                                                         *)
(* A frame is abstracted to the identity of the capture it came from: the  *)
(* server's n-th getFrame yields capture n, which is both the payload      *)
(* memcpy'd into the slot and the timestamp stored in the header.          *)
(***************************************************************************)
EXTENDS Integers, FiniteSets

CONSTANTS
  Clients,            \* client processes (model values)
  Server,             \* the capture service process (a model value)
  NoOwner,            \* "no thread owns the mutex" (a model value)
  MaxCaptures,        \* bound on camera->getFrame calls over the whole run
  MaxServerStarts,    \* bound on launches of the capture service process
  MaxCrashes,         \* bound on process crashes
  Crashable,          \* the processes that may crash
  NoClientLimit,      \* CaptureLoop stops the camera after this many + 1
                      \* consecutive publishes that see clientCount <= 0
  ConnectDuringCreate,\* may a client open the channel while Create is
                      \* still initialising the header?
  CountFloor          \* bound: no Connect is attempted once failed ones have
                      \* driven clientCount down to this (the code has none)

ASSUME Server \notin Clients /\ NoOwner \notin Clients \cup {Server}
ASSUME Crashable \subseteq Clients \cup {Server}
ASSUME MaxCaptures \in Nat /\ MaxServerStarts \in Nat /\ MaxCrashes \in Nat
ASSUME NoClientLimit \in Nat /\ ConnectDuringCreate \in BOOLEAN
ASSUME CountFloor \in Int /\ CountFloor <= 0

Procs == Clients \cup {Server}

VARIABLES
  region,         \* the mapped PS3EyeFrameHeader plus the frame slot
  holders,        \* processes holding handles to the named objects
  mutex,          \* the named mutex PS3EyeFrameMutex
  frameEvent,     \* auto-reset event PS3EyeNewFrameEvent is signalled
  clientEvent,    \* auto-reset event PS3EyeClientEvent is signalled
  spc,            \* where the capture service is (CaptureLoop / server)
  sFrameNumber,   \* PS3EyeSharedMemoryServer::m_frameNumber
  cameraActive,   \* CaptureLoop's cameraActive
  noClientFrames, \* CaptureLoop's noClientFrames
  captured,       \* captures taken so far (the latest capture's identity)
  starts,         \* launches of the capture service so far
  crashes,        \* process crashes so far
  cpc,            \* where each client is in the client API
  lastFrame,      \* PS3EyeSharedMemoryClient::m_lastFrameNumber
  readOut,        \* what the last successful ReadFrame handed its caller
  readRet         \* the value the client's last ReadFrame returned

serverVars == <<spc, sFrameNumber, cameraActive, noClientFrames, captured, starts>>
clientVars == <<cpc, lastFrame, readOut, readRet>>
sharedVars == <<region, holders, mutex, frameEvent, clientEvent>>
vars == <<sharedVars, serverVars, clientVars, crashes>>

\* The header fields the protocol reads, and the frame slot.  serverPID is
\* the launch number of the server that stamped it (0: no live server).
\* `data` is the capture whose bytes are in the frame slot (0: zero bytes).
EmptyRegion ==
  [magic |-> FALSE, serverPID |-> 0, frameNumber |-> 0, timestamp |-> 0,
   data |-> 0, clientCount |-> 0]

FreeMutex == [owner |-> NoOwner, depth |-> 0, abandoned |-> FALSE]

NoRead == [frame |-> 0, ts |-> 0, data |-> 0]

ServerPcs == {"down", "create", "initHeader", "initCount", "loop",
              "copy", "header", "check"}
ClientPcs == {"idle", "validate", "reject", "signal", "increment", "connected", "locked"}

----
(* Named-object lifetime and the named mutex                               *)
----

\* Process p closes all its handles.  When it was the last holder the OS
\* destroys the named objects; otherwise they keep the given contents.
Detach(p, r, m, fe, ce) ==
  /\ holders' = holders \ {p}
  /\ IF holders' = {}
       THEN /\ region' = EmptyRegion /\ mutex' = FreeMutex
            /\ frameEvent' = FALSE /\ clientEvent' = FALSE
       ELSE /\ region' = r /\ mutex' = m
            /\ frameEvent' = fe /\ clientEvent' = ce

\* WaitForSingleObject(m_mutex, 100) by p: the outcomes that change state.
\* "granted" is WAIT_OBJECT_0 (also when p already owns the mutex);
\* "abandoned" is WAIT_ABANDONED, which makes p the owner all the same.
\* A wait that times out changes nothing.
MutexGrant(p) ==
  IF mutex.owner = p
    THEN [mutex EXCEPT !.depth = @ + 1]
    ELSE [owner |-> p, depth |-> 1, abandoned |-> FALSE]

MutexWaitGranted(p) ==
  \/ mutex.owner = p
  \/ mutex.owner = NoOwner /\ ~mutex.abandoned

MutexWaitAbandoned(p) == mutex.owner = NoOwner /\ mutex.abandoned

\* ReleaseMutex by the owner.
MutexRelease ==
  IF mutex.depth = 1 THEN FreeMutex ELSE [mutex EXCEPT !.depth = @ - 1]

\* The state of the mutex after process p dies.
MutexAfterDeath(p) ==
  IF mutex.owner = p THEN [owner |-> NoOwner, depth |-> 0, abandoned |-> TRUE]
                     ELSE mutex

----
(* The capture service: CaptureLoop and PS3EyeSharedMemoryServer           *)
----

\* The locals CaptureLoop starts with: the camera off, no idle frames.
CaptureLoopLocals == cameraActive' = FALSE /\ noClientFrames' = 0

\* initCamera(): take the first device, init and start it (the device is
\* assumed present and working), cameraActive = true.
InitCamera == cameraActive' = TRUE

\* stopCamera(): stop and release the camera, cameraActive = false.
StopCamera == cameraActive' = FALSE

\* The service process is launched and enters CaptureLoop.
ServerStart ==
  /\ spc = "down" /\ starts < MaxServerStarts
  /\ spc' = "create" /\ starts' = starts + 1
  /\ CaptureLoopLocals
  /\ UNCHANGED <<sharedVars, sFrameNumber, captured, clientVars, crashes>>

\* Create(): CreateMutexW, CreateEventW x2 and CreateFileMappingW open the
\* objects if a client still holds them, else make fresh ones; then
\* ZeroMemory clears the whole header (not the frame slot).
ServerCreate ==
  /\ spc = "create"
  /\ holders' = holders \cup {Server}
  /\ region' = [region EXCEPT !.magic = FALSE, !.serverPID = 0,
                  !.frameNumber = 0, !.timestamp = 0, !.clientCount = 0]
  /\ spc' = "initHeader"
  /\ UNCHANGED <<mutex, frameEvent, clientEvent, sFrameNumber, cameraActive,
                 noClientFrames, captured, starts, clientVars, crashes>>

\* One of the creations fails: Create() closes what it made and returns
\* false, and CaptureLoop returns, ending the service.
ServerCreateFails ==
  /\ spc = "create"
  /\ spc' = "down"
  /\ UNCHANGED <<sharedVars, sFrameNumber, cameraActive, noClientFrames,
                 captured, starts, clientVars, crashes>>

\* The header stores after ZeroMemory, up to serverPID.
ServerInitHeader ==
  /\ spc = "initHeader"
  /\ region' = [region EXCEPT !.magic = TRUE, !.frameNumber = 0,
                  !.timestamp = 0, !.serverPID = starts]
  /\ spc' = "initCount"
  /\ UNCHANGED <<holders, mutex, frameEvent, clientEvent, sFrameNumber,
                 cameraActive, noClientFrames, captured, starts, clientVars,
                 crashes>>

\* header->clientCount = 0; m_frameNumber = 0; return true.
ServerInitCount ==
  /\ spc = "initCount"
  /\ region' = [region EXCEPT !.clientCount = 0]
  /\ sFrameNumber' = 0
  /\ spc' = "loop"
  /\ UNCHANGED <<holders, mutex, frameEvent, clientEvent, cameraActive,
                 noClientFrames, captured, starts, clientVars, crashes>>

\* WaitForClients(timeout): true at once if clientCount > 0; else wait on
\* the auto-reset client event (consuming it) and, on timeout, re-check.
WaitForClientsResult ==
  region.clientCount > 0 \/ clientEvent

ClientEventAfterWait ==
  IF region.clientCount > 0 THEN clientEvent ELSE FALSE

\* CaptureLoop with the camera off: WaitForClients(1000) and, when it
\* returns true, initCamera() (the device is assumed present).
ServerWaitForClients ==
  /\ spc = "loop" /\ ~cameraActive
  /\ WaitForClientsResult
  /\ clientEvent' = ClientEventAfterWait
  /\ InitCamera
  /\ UNCHANGED <<region, holders, mutex, frameEvent, spc, sFrameNumber,
                 noClientFrames, captured, starts, clientVars, crashes>>

\* CaptureLoop with the camera on: getFrame, then WriteFrame's bounded wait
\* for the mutex.  When the wait fails WriteFrame returns false and the
\* frame is dropped (a WAIT_ABANDONED wait keeps the mutex all the same).
ServerWriteLock ==
  /\ spc = "loop" /\ cameraActive /\ captured < MaxCaptures
  /\ captured' = captured + 1
  /\ \/ /\ MutexWaitGranted(Server)
        /\ mutex' = MutexGrant(Server) /\ spc' = "copy"
     \/ /\ MutexWaitAbandoned(Server)
        /\ mutex' = MutexGrant(Server) /\ spc' = "check"
     \/ /\ mutex.owner \notin {NoOwner, Server}
        /\ UNCHANGED mutex /\ spc' = "check"
  /\ UNCHANGED <<region, holders, frameEvent, clientEvent, sFrameNumber,
                 cameraActive, noClientFrames, starts, clientVars, crashes>>

\* memcpy(frameBuffer, frameData, frameSize) into the slot.
ServerWriteCopy ==
  /\ spc = "copy"
  /\ region' = [region EXCEPT !.data = captured]
  /\ spc' = "header"
  /\ UNCHANGED <<holders, mutex, frameEvent, clientEvent, sFrameNumber,
                 cameraActive, noClientFrames, captured, starts, clientVars,
                 crashes>>

\* Mutant: the ReleaseMutex at the end of WriteFrame is missing.
ServerWriteHeaderNoRelease ==
  /\ spc = "header"
  /\ sFrameNumber' = sFrameNumber + 1
  /\ region' = [region EXCEPT !.frameNumber = sFrameNumber + 1,
                  !.timestamp = captured]
  /\ frameEvent' = TRUE
  /\ spc' = "check"
  /\ UNCHANGED <<holders, mutex, clientEvent, cameraActive, noClientFrames,
                 captured, starts, clientVars, crashes>>

\* m_frameNumber++, the header stores, SetEvent(m_newFrameEvent) and
\* ReleaseMutex, all before WriteFrame returns true.
ServerWriteHeader ==
  /\ spc = "header"
  /\ sFrameNumber' = sFrameNumber + 1
  /\ region' = [region EXCEPT !.frameNumber = sFrameNumber + 1,
                  !.timestamp = captured]
  /\ frameEvent' = TRUE
  /\ mutex' = MutexRelease
  /\ spc' = "check"
  /\ UNCHANGED <<holders, clientEvent, cameraActive, noClientFrames,
                 captured, starts, clientVars, crashes>>

\* Mutant: only a negative clientCount counts as "no clients".
ServerCheckClientsNegativeOnly ==
  /\ spc = "check"
  /\ IF region.clientCount < 0
       THEN IF noClientFrames + 1 > NoClientLimit
              THEN StopCamera /\ noClientFrames' = 0
              ELSE UNCHANGED cameraActive /\ noClientFrames' = noClientFrames + 1
       ELSE UNCHANGED cameraActive /\ noClientFrames' = 0
  /\ spc' = "loop"
  /\ UNCHANGED <<sharedVars, sFrameNumber, captured, starts, clientVars,
                 crashes>>

\* Mutant: stopCamera() without resetting noClientFrames.
ServerCheckClientsNoReset ==
  /\ spc = "check"
  /\ IF region.clientCount <= 0
       THEN IF noClientFrames + 1 > NoClientLimit
              THEN cameraActive' = FALSE /\ noClientFrames' = noClientFrames + 1
              ELSE UNCHANGED cameraActive /\ noClientFrames' = noClientFrames + 1
       ELSE UNCHANGED cameraActive /\ noClientFrames' = 0
  /\ spc' = "loop"
  /\ UNCHANGED <<sharedVars, sFrameNumber, captured, starts, clientVars,
                 crashes>>

\* After every WriteFrame, successful or not: the debounced on-demand stop.
ServerCheckClients ==
  /\ spc = "check"
  /\ IF region.clientCount <= 0
       THEN IF noClientFrames + 1 > NoClientLimit
              THEN StopCamera /\ noClientFrames' = 0
              ELSE UNCHANGED cameraActive /\ noClientFrames' = noClientFrames + 1
       ELSE UNCHANGED cameraActive /\ noClientFrames' = 0
  /\ spc' = "loop"
  /\ UNCHANGED <<sharedVars, sFrameNumber, captured, starts, clientVars,
                 crashes>>

\* The service is asked to stop (g_running = false): the loop exits,
\* stopCamera(), then Close() zeroes serverPID and closes every handle,
\* and the process ends.
ServiceStop ==
  /\ spc = "loop"
  /\ Detach(Server, [region EXCEPT !.serverPID = 0], MutexAfterDeath(Server),
            frameEvent, clientEvent)
  /\ spc' = "down" /\ StopCamera
  /\ UNCHANGED <<sFrameNumber, noClientFrames, captured, starts, clientVars,
                 crashes>>

\* The service process dies at any point: the OS closes its handles, but
\* nothing zeroes serverPID.
ServerCrash ==
  /\ spc # "down" /\ Server \in Crashable /\ crashes < MaxCrashes
  /\ Detach(Server, region, MutexAfterDeath(Server), frameEvent, clientEvent)
  /\ spc' = "down" /\ cameraActive' = FALSE
  /\ crashes' = crashes + 1
  /\ UNCHANGED <<sFrameNumber, noClientFrames, captured, starts, clientVars>>

----
(* PS3EyeSharedMemoryClient                                                *)
----

Attached == {c \in Clients : cpc[c] \in {"connected", "locked"}}

SetPc(c, to) == cpc' = [cpc EXCEPT ![c] = to]

\* Connect(): open the mutex, the frame event and the mapping, and map it.
\* Every open fails, and Connect returns false with nothing changed, when
\* the objects do not exist.
ConnectOpen(c) ==
  /\ cpc[c] = "idle" /\ holders # {} /\ region.clientCount > CountFloor
  /\ ConnectDuringCreate \/ spc \notin {"initHeader", "initCount"}
  /\ holders' = holders \cup {c}
  /\ SetPc(c, "validate")
  /\ UNCHANGED <<region, mutex, frameEvent, clientEvent, serverVars,
                 lastFrame, readOut, readRet, crashes>>

\* Validate magic and version; on a mismatch Connect goes on to Disconnect().
ConnectValidate(c) ==
  /\ cpc[c] = "validate"
  /\ SetPc(c, IF region.magic THEN "signal" ELSE "reject")
  /\ UNCHANGED <<sharedVars, serverVars, lastFrame, readOut, readRet,
                 crashes>>

\* The Disconnect() of a failed validation, a later statement than the
\* magic read: it decrements clientCount although Connect never
\* incremented it (m_clientEvent is not open yet, so no event is set),
\* then unmaps and closes.
ConnectReject(c) ==
  /\ cpc[c] = "reject"
  /\ Detach(c, [region EXCEPT !.clientCount = @ - 1], mutex, frameEvent,
            clientEvent)
  /\ SetPc(c, "idle")
  /\ UNCHANGED <<serverVars, lastFrame, readOut, readRet, crashes>>

\* OpenEventW(PS3EyeClientEvent) and SetEvent: the server may wake now.
ConnectSignal(c) ==
  /\ cpc[c] = "signal"
  /\ clientEvent' = TRUE
  /\ SetPc(c, "increment")
  /\ UNCHANGED <<region, holders, mutex, frameEvent, serverVars, lastFrame,
                 readOut, readRet, crashes>>

\* Mutant: Connect forgets InterlockedIncrement.
ConnectNoIncrement(c) ==
  /\ cpc[c] = "increment"
  /\ lastFrame' = [lastFrame EXCEPT ![c] = 0]
  /\ SetPc(c, "connected")
  /\ UNCHANGED <<region, holders, mutex, frameEvent, clientEvent, serverVars,
                 readOut, readRet, crashes>>

\* InterlockedIncrement(&clientCount); m_lastFrameNumber = 0; return true.
ConnectIncrement(c) ==
  /\ cpc[c] = "increment"
  /\ region' = [region EXCEPT !.clientCount = @ + 1]
  /\ lastFrame' = [lastFrame EXCEPT ![c] = 0]
  /\ SetPc(c, "connected")
  /\ UNCHANGED <<holders, mutex, frameEvent, clientEvent, serverVars,
                 readOut, readRet, crashes>>

\* Mutant: Disconnect forgets InterlockedDecrement.
DisconnectNoDecrement(c) ==
  /\ cpc[c] = "connected"
  /\ Detach(c, region, mutex, frameEvent, TRUE)
  /\ SetPc(c, "idle")
  /\ UNCHANGED <<serverVars, lastFrame, readOut, readRet, crashes>>

\* Disconnect(): InterlockedDecrement, SetEvent(m_clientEvent), then unmap
\* and close every handle.
Disconnect(c) ==
  /\ cpc[c] = "connected"
  /\ Detach(c, [region EXCEPT !.clientCount = @ - 1], mutex, frameEvent, TRUE)
  /\ SetPc(c, "idle")
  /\ UNCHANGED <<serverVars, lastFrame, readOut, readRet, crashes>>

\* WaitForFrame(): a wait that finds the auto-reset event set consumes it.
WaitForFrame(c) ==
  /\ cpc[c] = "connected" /\ frameEvent
  /\ frameEvent' = FALSE
  /\ UNCHANGED <<region, holders, mutex, clientEvent, serverVars,
                 clientVars, crashes>>

\* Mutant: the result of the mutex wait is ignored (as TestClient.cpp
\* does), so ReadFrame enters its critical section even after a timeout.
ReadLockUnchecked(c) ==
  /\ cpc[c] = "connected"
  /\ SetPc(c, "locked")
  /\ mutex' = IF MutexWaitGranted(c) \/ MutexWaitAbandoned(c)
               THEN MutexGrant(c) ELSE mutex
  /\ UNCHANGED <<region, holders, frameEvent, clientEvent, serverVars,
                 lastFrame, readOut, readRet, crashes>>

\* ReadFrame(): WaitForSingleObject(m_mutex, 100).  WAIT_ABANDONED makes
\* ReadFrame return false without ReleaseMutex, so the client keeps it.
ReadLock(c) ==
  /\ cpc[c] = "connected"
  /\ \/ MutexWaitGranted(c) /\ SetPc(c, "locked") /\ UNCHANGED readRet
     \/ /\ MutexWaitAbandoned(c) /\ UNCHANGED cpc
        /\ readRet' = [readRet EXCEPT ![c] = FALSE]
  /\ mutex' = MutexGrant(c)
  /\ UNCHANGED <<region, holders, frameEvent, clientEvent, serverVars,
                 lastFrame, readOut, crashes>>

\* Mutant: the "no new frame" early return forgets ReleaseMutex.
ReadBodyLeak(c) ==
  /\ cpc[c] = "locked"
  /\ IF region.serverPID = 0 \/ region.frameNumber = lastFrame[c]
       THEN /\ UNCHANGED <<lastFrame, readOut, mutex>>
            /\ readRet' = [readRet EXCEPT ![c] = FALSE]
       ELSE /\ readRet' = [readRet EXCEPT ![c] = TRUE]
            /\ lastFrame' = [lastFrame EXCEPT ![c] = region.frameNumber]
            /\ readOut' = [readOut EXCEPT ![c] =
                             [frame |-> region.frameNumber,
                              ts |-> region.timestamp, data |-> region.data]]
            /\ mutex' = MutexRelease
  /\ SetPc(c, "connected")
  /\ UNCHANGED <<region, holders, frameEvent, clientEvent, serverVars,
                 crashes>>

\* Mutant: the comparison with m_lastFrameNumber is missing.
ReadBodyNoSeqCheck(c) ==
  /\ cpc[c] = "locked"
  /\ IF region.serverPID = 0
       THEN /\ UNCHANGED <<lastFrame, readOut>>
            /\ readRet' = [readRet EXCEPT ![c] = FALSE]
       ELSE /\ readRet' = [readRet EXCEPT ![c] = TRUE]
            /\ lastFrame' = [lastFrame EXCEPT ![c] = region.frameNumber]
            /\ readOut' = [readOut EXCEPT ![c] =
                             [frame |-> region.frameNumber,
                              ts |-> region.timestamp, data |-> region.data]]
  /\ mutex' = MutexRelease
  /\ SetPc(c, "connected")
  /\ UNCHANGED <<region, holders, frameEvent, clientEvent, serverVars,
                 crashes>>

\* ReadFrame() under the mutex: a zero serverPID or an unchanged frame
\* number returns false; otherwise copy the slot, remember the frame
\* number, hand out frame number and timestamp.  Every path releases.
ReadBody(c) ==
  /\ cpc[c] = "locked"
  /\ IF region.serverPID = 0 \/ region.frameNumber = lastFrame[c]
       THEN /\ UNCHANGED <<lastFrame, readOut>>
            /\ readRet' = [readRet EXCEPT ![c] = FALSE]
       ELSE /\ readRet' = [readRet EXCEPT ![c] = TRUE]
            /\ lastFrame' = [lastFrame EXCEPT ![c] = region.frameNumber]
            /\ readOut' = [readOut EXCEPT ![c] =
                             [frame |-> region.frameNumber,
                              ts |-> region.timestamp, data |-> region.data]]
  /\ mutex' = MutexRelease
  /\ SetPc(c, "connected")
  /\ UNCHANGED <<region, holders, frameEvent, clientEvent, serverVars,
                 crashes>>

\* The client process dies; a new instance of it starts from scratch.  Its
\* increment of clientCount is never undone.
ClientCrash(c) ==
  /\ cpc[c] # "idle" \/ mutex.owner = c
  /\ c \in Crashable /\ crashes < MaxCrashes
  /\ Detach(c, region, MutexAfterDeath(c), frameEvent, clientEvent)
  /\ SetPc(c, "idle")
  /\ lastFrame' = [lastFrame EXCEPT ![c] = 0]
  /\ readOut' = [readOut EXCEPT ![c] = NoRead]
  /\ readRet' = [readRet EXCEPT ![c] = FALSE]
  /\ crashes' = crashes + 1
  /\ UNCHANGED serverVars

----

Init ==
  /\ region = EmptyRegion /\ holders = {} /\ mutex = FreeMutex
  /\ frameEvent = FALSE /\ clientEvent = FALSE
  /\ spc = "down" /\ sFrameNumber = 0 /\ cameraActive = FALSE
  /\ noClientFrames = 0 /\ captured = 0 /\ starts = 0 /\ crashes = 0
  /\ cpc = [c \in Clients |-> "idle"]
  /\ lastFrame = [c \in Clients |-> 0]
  /\ readOut = [c \in Clients |-> NoRead]
  /\ readRet = [c \in Clients |-> FALSE]

ServerStep ==
  \/ ServerStart \/ ServerCreate \/ ServerCreateFails \/ ServerInitHeader
  \/ ServerInitCount \/ ServerWaitForClients \/ ServerWriteLock
  \/ ServerWriteCopy \/ ServerWriteHeader \/ ServerCheckClients
  \/ ServiceStop \/ ServerCrash

ClientStep(c) ==
  \/ ConnectOpen(c) \/ ConnectValidate(c) \/ ConnectReject(c) \/ ConnectSignal(c)
  \/ ConnectIncrement(c) \/ Disconnect(c) \/ WaitForFrame(c)
  \/ ReadLock(c) \/ ReadBody(c) \/ ClientCrash(c)

Next == ServerStep \/ \E c \in Clients : ClientStep(c)

\* The capture thread never stops on its own; a client that has begun
\* Connect finishes it, and a connected client keeps calling ReadFrame.
\* A mutex wait is granted when the owner releases it (the 100 ms bound
\* outlasts every critical section), so the grant is strongly fair.
ServerFairness ==
  /\ WF_vars(ServerCreate) /\ WF_vars(ServerInitHeader)
  /\ WF_vars(ServerInitCount) /\ WF_vars(ServerWaitForClients)
  /\ WF_vars(ServerWriteLock) /\ WF_vars(ServerWriteCopy)
  /\ WF_vars(ServerWriteHeader) /\ WF_vars(ServerCheckClients)

Fairness ==
  /\ ServerFairness
  /\ \A c \in Clients :
       /\ WF_vars(ConnectValidate(c)) /\ WF_vars(ConnectReject(c))
       /\ WF_vars(ConnectSignal(c))
       /\ WF_vars(ConnectIncrement(c))
       /\ SF_vars(ReadLock(c)) /\ WF_vars(ReadBody(c))

Spec == Init /\ [][Next]_vars /\ Fairness

----
(* Properties                                                              *)
----

TypeOK ==
  /\ region \in [magic : BOOLEAN, serverPID : 0..MaxServerStarts,
                 frameNumber : 0..MaxCaptures, timestamp : 0..MaxCaptures,
                 data : 0..MaxCaptures, clientCount : Int]
  /\ holders \subseteq Procs
  /\ mutex \in [owner : Procs \cup {NoOwner}, depth : 0..2,
                abandoned : BOOLEAN]
  /\ frameEvent \in BOOLEAN /\ clientEvent \in BOOLEAN
  /\ spc \in ServerPcs /\ sFrameNumber \in 0..MaxCaptures
  /\ cameraActive \in BOOLEAN /\ noClientFrames \in 0..NoClientLimit
  /\ captured \in 0..MaxCaptures /\ starts \in 0..MaxServerStarts
  /\ crashes \in 0..MaxCrashes
  /\ cpc \in [Clients -> ClientPcs]
  /\ lastFrame \in [Clients -> 0..MaxCaptures]
  /\ readOut \in [Clients -> [frame : 0..MaxCaptures, ts : 0..MaxCaptures,
                              data : 0..MaxCaptures]]
  /\ readRet \in [Clients -> BOOLEAN]

\* The bytes ReadFrame copies into the caller's buffer belong to the
\* capture whose timestamp it reports: WriteFrame's memcpy and header
\* update and ReadFrame's copy are never interleaved (the named mutex).
FrameIntegrity ==
  \A c \in Clients : readOut[c].data = readOut[c].ts

\* clientCount equals the number of clients between the increment of
\* Connect and the decrement of Disconnect (the spec's "connects minus
\* disconnects"), so the capture service's on-demand gating is exact.
ClientCountAccurate ==
  region.clientCount = Cardinality(Attached)

\* clientCount never counts fewer clients than are attached: a crashed
\* client may be over-counted, but a connected one is never missed, or the
\* service would stop the camera under a reader.
ClientCountCoversAttached ==
  region.clientCount >= Cardinality(Attached)

\* The named mutex is owned only by a process inside one of the critical
\* sections of WriteFrame or ReadFrame, never left owned after they return.
LockHeldOnlyInCriticalSection ==
  /\ mutex.owner = Server => spc \in {"copy", "header"}
  /\ mutex.owner \in Clients => cpc[mutex.owner] = "locked"

\* A ReadFrame that hands out a frame hands out one newer than every frame
\* this client was handed since it connected (spec: frameNumber > k).
ReadsOnlyNewer ==
  [][\A c \in Clients :
       (cpc[c] = "locked" /\ cpc'[c] = "connected" /\ readRet'[c])
         => readOut'[c].frame > lastFrame[c]]_vars

\* While a client stays attached to a running service, the service turns
\* the camera on (WaitForClients sees clientCount or the client event).
CameraFollowsClients ==
  (Attached # {} /\ spc = "loop")
    ~> (cameraActive \/ Attached = {} \/ spc = "down")

\* Once the last client has left, the service releases the camera: after
\* NoClientLimit + 1 further WriteFrame attempts that see clientCount <= 0
\* (a dropped frame counts as well) the debounce calls stopCamera(), unless
\* a client comes back first.  The capture budget must leave room for
\* those attempts.
CameraReleasedWhenIdle ==
  (/\ spc = "loop" /\ cameraActive /\ region.clientCount <= 0
   /\ captured + NoClientLimit + 1 <= MaxCaptures)
    ~> (~cameraActive \/ region.clientCount > 0 \/ spc = "down")

\* A client that stays attached eventually reads frame n or a later one
\* once n has been published, unless Close() marks the server gone first.
NewFramesReachReaders ==
  \A c \in Clients : \A n \in 1..MaxCaptures :
    (c \in Attached /\ region.frameNumber = n /\ lastFrame[c] < n)
      ~> (lastFrame[c] >= n \/ c \notin Attached \/ region.serverPID = 0)

\* The channel as its readers see it: serverPID # 0 is a live producer, the
\* header's frameNumber and timestamp are the latest frame and its payload
\* (the n-th capture carries timestamp n), and m_lastFrameNumber is what
\* each attached client has seen.
Slot == INSTANCE LatestFrameSlot WITH
  Readers <- Clients, MaxFrame <- MaxCaptures, Payloads <- 0..MaxCaptures,
  live <- region.serverPID # 0, latest <- region.frameNumber,
  payload <- region.timestamp, attached <- Attached, seen <- lastFrame,
  out <- [c \in Clients |-> [frame |-> readOut[c].frame,
                             data |-> readOut[c].data]]

\* Every step of the service and the clients is a step of the latest-frame
\* register or leaves it unchanged: ReadFrame hands out the latest frame
\* with the payload published with it, only when it is newer than the
\* client's m_lastFrameNumber, and WriteFrame advances the frame by one.
RefinesLatestFrameSlot == Slot!Spec

=============================================================================
