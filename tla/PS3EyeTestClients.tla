--------------------------- MODULE PS3EyeTestClients ---------------------------
(***************************************************************************)
(* The test programs that talk to the capture service without the client   *)
(* library, composed with the channel of PS3EyeSharedMemory.  Each opens   *)
(* the named objects itself and polls the header:                          *)
(*                                                                         *)
(*  - TestClient.cpp and TestClientQuiet.cpp (the same protocol): validate *)
(*    magic, InterlockedIncrement(clientCount) then SetEvent(client        *)
(*    event), poll frameNumber under WaitForSingleObject(mutex, 100)       *)
(*    whose result is ignored, and at the end decrement, signal and close. *)
(*  - FastTest.cpp: the same polling loop, without registering.           *)
(*  - SharedMemoryTest.cpp: waits on the new-frame event, then reads the   *)
(*    8 bytes at offset 0 of the mapping as the frame number, using an     *)
(*    older header layout, and stops after TestFrames distinct values.    *)
(***************************************************************************)
EXTENDS PS3EyeSharedMemory

CONSTANTS
  TCClients,     \* processes running TestClient / TestClientQuiet
  FTClients,     \* processes running FastTest
  SMTClients,    \* processes running SharedMemoryTest
  TestFrames,    \* SharedMemoryTest's frame target (10 in the code)
  MagicVersion,  \* the word magic | version << 32 (a model value)
  LockTimeouts   \* may a mutex wait time out?

ASSUME TCClients \cup FTClients \cup SMTClients = Clients
ASSUME TCClients \cap FTClients = {} /\ SMTClients \cap (TCClients \cup FTClients) = {}
ASSUME TestFrames \in Nat \ {0} /\ LockTimeouts \in BOOLEAN

VARIABLES
  tpcs,     \* where each test program is
  seen,     \* its local lastFrame
  counted   \* framesRead / frameCount

testVars == <<tpcs, seen, counted>>
allVars == <<vars, testVars>>

Pollers == TCClients \cup FTClients

\* Test clients that have incremented clientCount and not yet decremented.
Registered == {c \in TCClients : tpcs[c] \in {"signal", "loop", "read"}}

SetTpc(c, to) == tpcs' = [tpcs EXCEPT ![c] = to]

\* The 8 bytes SharedMemoryTest takes for frameNumber: the header's magic
\* and version, or zeros before the header is initialised.
OffsetZeroWord == IF region.magic THEN MagicVersion ELSE 0

\* WaitForSingleObject(mutex, t) whose result is not checked: the caller
\* becomes the owner when the wait is granted or abandoned, and goes on
\* anyway when it times out.
UncheckedLock(c) ==
  \/ (MutexWaitGranted(c) \/ MutexWaitAbandoned(c)) /\ mutex' = MutexGrant(c)
  \/ LockTimeouts /\ mutex.owner \notin {NoOwner, c} /\ UNCHANGED mutex

\* Mutant: the ReleaseMutex after the read is left out.
ReleaseSkipped(c) == mutex

\* ReleaseMutex by a caller that may not own it (then it fails, harmless).
ReleaseIfOwner(c) == IF mutex.owner = c THEN MutexRelease ELSE mutex

----
(* TestClient, TestClientQuiet and FastTest                                *)
----

\* OpenMutexW, OpenFileMappingW, MapViewOfFile; each failure returns 1.
TestOpen(c) ==
  /\ tpcs[c] = "start" /\ c \in Pollers
  /\ ConnectDuringCreate \/ spc \notin {"initHeader", "initCount"}
  /\ IF holders # {}
       THEN holders' = holders \cup {c} /\ SetTpc(c, "validate")
       ELSE UNCHANGED holders /\ SetTpc(c, "exited")
  /\ UNCHANGED <<region, mutex, frameEvent, clientEvent, serverVars,
                 clientVars, crashes, seen, counted>>

\* header->magic != PS3EYE_MAGIC: unmap, close and return 1 (no decrement).
TestValidate(c) ==
  /\ tpcs[c] = "validate" /\ c \in Pollers
  /\ IF region.magic
       THEN /\ SetTpc(c, IF c \in TCClients THEN "register" ELSE "loop")
            /\ UNCHANGED sharedVars
       ELSE /\ Detach(c, region, mutex, frameEvent, clientEvent)
            /\ SetTpc(c, "exited")
  /\ UNCHANGED <<serverVars, clientVars, crashes, seen, counted>>

\* Mutant: TestClient goes on to SetEvent without InterlockedIncrement.
TestRegisterMissing(c) ==
  /\ tpcs[c] = "register"
  /\ SetTpc(c, "signal")
  /\ UNCHANGED <<region, holders, mutex, frameEvent, clientEvent, serverVars,
                 clientVars, crashes, seen, counted>>

\* InterlockedIncrement(&header->clientCount).
TestRegister(c) ==
  /\ tpcs[c] = "register"
  /\ region' = [region EXCEPT !.clientCount = @ + 1]
  /\ SetTpc(c, "signal")
  /\ UNCHANGED <<holders, mutex, frameEvent, clientEvent, serverVars,
                 clientVars, crashes, seen, counted>>

\* SetEvent(clientEvent), after the increment.
TestSignal(c) ==
  /\ tpcs[c] = "signal"
  /\ clientEvent' = TRUE
  /\ SetTpc(c, "loop")
  /\ UNCHANGED <<region, holders, mutex, frameEvent, serverVars, clientVars,
                 crashes, seen, counted>>

\* Loop head: WaitForSingleObject(mutex, 100) (50 in FastTest), unchecked.
TestLock(c) ==
  /\ tpcs[c] = "loop"
  /\ UncheckedLock(c)
  /\ SetTpc(c, "read")
  /\ UNCHANGED <<region, holders, frameEvent, clientEvent, serverVars,
                 clientVars, crashes, seen, counted>>

\* Mutant: every read is counted, changed frame number or not.
TestReadCountsAll(c) ==
  /\ tpcs[c] = "read" /\ c \in Pollers
  /\ seen' = [seen EXCEPT ![c] = region.frameNumber]
  /\ counted' = [counted EXCEPT ![c] = @ + 1]
  /\ mutex' = ReleaseIfOwner(c)
  /\ SetTpc(c, "loop")
  /\ UNCHANGED <<region, holders, frameEvent, clientEvent, serverVars,
                 clientVars, crashes>>

\* Read frameNumber, count it when it changed, ReleaseMutex.
TestRead(c) ==
  /\ tpcs[c] = "read" /\ c \in Pollers
  /\ seen' = [seen EXCEPT ![c] = region.frameNumber]
  /\ counted' = [counted EXCEPT ![c] =
                   IF region.frameNumber # seen[c] THEN @ + 1 ELSE @]
  /\ mutex' = ReleaseIfOwner(c)
  /\ SetTpc(c, "loop")
  /\ UNCHANGED <<region, holders, frameEvent, clientEvent, serverVars,
                 clientVars, crashes>>

\* Mutant: the decrement before closing is missing.
TestLeaveNoDecrement(c) ==
  /\ tpcs[c] = "loop"
  /\ Detach(c, region, mutex, frameEvent, clientEvent \/ c \in TCClients)
  /\ SetTpc(c, "exited")
  /\ UNCHANGED <<serverVars, clientVars, crashes, seen, counted>>

\* The duration has elapsed: TestClient decrements, signals and closes its
\* handles; FastTest just returns (process exit closes them).
TestLeave(c) ==
  /\ tpcs[c] = "loop"
  /\ Detach(c, IF c \in TCClients
                 THEN [region EXCEPT !.clientCount = @ - 1] ELSE region,
            mutex, frameEvent, clientEvent \/ c \in TCClients)
  /\ SetTpc(c, "exited")
  /\ UNCHANGED <<serverVars, clientVars, crashes, seen, counted>>

----
(* SharedMemoryTest                                                        *)
----

\* OpenFileMappingW, OpenMutexW, OpenEventW(new-frame event), MapViewOfFile.
SmtOpen(c) ==
  /\ tpcs[c] = "start" /\ c \in SMTClients
  /\ ConnectDuringCreate \/ spc \notin {"initHeader", "initCount"}
  /\ IF holders # {}
       THEN holders' = holders \cup {c} /\ SetTpc(c, "wait")
       ELSE UNCHANGED holders /\ SetTpc(c, "exited")
  /\ UNCHANGED <<region, mutex, frameEvent, clientEvent, serverVars,
                 clientVars, crashes, seen, counted>>

\* WaitForSingleObject(hEvent, 1000) returns signalled (a timeout loops).
SmtWake(c) ==
  /\ tpcs[c] = "wait" /\ frameEvent
  /\ frameEvent' = FALSE
  /\ SetTpc(c, "lock")
  /\ UNCHANGED <<region, holders, mutex, clientEvent, serverVars,
                 clientVars, crashes, seen, counted>>

SmtLock(c) ==
  /\ tpcs[c] = "lock"
  /\ UncheckedLock(c)
  /\ SetTpc(c, "read")
  /\ UNCHANGED <<region, holders, frameEvent, clientEvent, serverVars,
                 clientVars, crashes, seen, counted>>

\* frameNum = header->frameNumber (offset 0), ReleaseMutex, count a new
\* value; after TestFrames of them, unmap and close.
SmtRead(c) ==
  /\ tpcs[c] = "read" /\ c \in SMTClients
  /\ seen' = [seen EXCEPT ![c] = OffsetZeroWord]
  /\ counted' = [counted EXCEPT ![c] =
                   IF OffsetZeroWord # seen[c] THEN @ + 1 ELSE @]
  /\ IF counted'[c] = TestFrames
       THEN /\ Detach(c, region, ReleaseIfOwner(c), frameEvent, clientEvent)
            /\ SetTpc(c, "exited")
       ELSE /\ mutex' = ReleaseIfOwner(c)
            /\ UNCHANGED <<region, holders, frameEvent, clientEvent>>
            /\ SetTpc(c, "wait")
  /\ UNCHANGED <<serverVars, clientVars, crashes>>

----

TestInit ==
  /\ Init
  /\ tpcs = [c \in Clients |-> "start"]
  /\ seen = [c \in Clients |-> 0]
  /\ counted = [c \in Clients |-> 0]

TestStep(c) ==
  \/ TestOpen(c) \/ TestValidate(c) \/ TestRegister(c) \/ TestSignal(c)
  \/ TestLock(c) \/ TestRead(c) \/ TestLeave(c)
  \/ SmtOpen(c) \/ SmtWake(c) \/ SmtLock(c) \/ SmtRead(c)

TestNext ==
  \/ ServerStep /\ UNCHANGED testVars
  \/ \E c \in Clients : TestStep(c) /\ UNCHANGED <<spc, cpc>>

\* The service loop as in ServerFairness.  A started program runs to its
\* loop (each step is the next statement), a mutex wait is granted when
\* the owner releases (strong fairness), and a waiting SharedMemoryTest
\* wakes when the event is set.  Leaving the loop is the end of a chosen
\* duration, so it has no fairness.
TestFairness ==
  /\ ServerFairness
  /\ \A c \in Clients :
       /\ WF_allVars(TestOpen(c)) /\ WF_allVars(TestValidate(c))
       /\ WF_allVars(TestRegister(c)) /\ WF_allVars(TestSignal(c))
       /\ SF_allVars(TestLock(c)) /\ WF_allVars(TestRead(c))
       /\ WF_allVars(SmtOpen(c)) /\ WF_allVars(SmtWake(c))
       /\ SF_allVars(SmtLock(c)) /\ WF_allVars(SmtRead(c))

TestSpec == TestInit /\ [][TestNext]_allVars /\ TestFairness

----
(* Properties                                                              *)
----

TestPcs == {"start", "validate", "register", "signal", "loop", "read",
            "wait", "lock", "exited"}

TestClientsTypeOK ==
  /\ TypeOK
  /\ tpcs \in [Clients -> TestPcs]
  /\ seen \in [Clients -> 0..MaxCaptures \cup {MagicVersion}]
  /\ counted \in [Clients -> 0..(MaxCaptures + TestFrames)]

\* clientCount equals the number of TestClient processes between their
\* hand-written InterlockedIncrement and InterlockedDecrement: the test
\* programs keep the library's accounting although they skip it, and a
\* failed magic check does not decrement.
TestClientsCounted ==
  region.clientCount = Cardinality(Registered)

\* Although every test program ignores the result of its mutex wait, none
\* keeps the mutex past its read.  When the service died inside WriteFrame,
\* the next wait returns WAIT_ABANDONED and makes the test program the
\* owner; its unconditional ReleaseMutex releases it again (the library's
\* ReadFrame, which returns false on WAIT_ABANDONED, does not: see the
\* abandoned_mutex run).  After a timeout the ReleaseMutex fails harmlessly.
TestMutexReleasedAfterRead ==
  mutex.owner \in Clients => tpcs[mutex.owner] = "read"

\* While a TestClient is registered with a running service, CaptureLoop
\* turns the camera on: the increment precedes SetEvent(client event), so
\* WaitForClients sees either the count or the event.
TestClientStartsCamera ==
  (Registered # {} /\ spc = "loop")
    ~> (cameraActive \/ Registered = {} \/ spc = "down")

==============================================================================
