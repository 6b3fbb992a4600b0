--------------------------- MODULE RecorderLifeProofs ---------------------------
(***************************************************************************)
(* The recorder implements RecorderLifecycle: its initial states are       *)
(* initial states of the abstract life, and every step is a step of it or  *)
(* leaves it alone. The invariants TypeOK and ThreadInv are used: they say *)
(* that Record() runs only while m_recorder_thread is joinable.            *)
(*                                                                         *)
(* What the owner relies on is proved after that. DoneMeansInactive needs  *)
(* InactiveInv: Record() leaves its loop with m_stop set, unless select()  *)
(* failed. StopReturnsFreshFile is a property of one step, the return of   *)
(* the join; FixedFresh and ContinuousFresh say which thread has the file  *)
(* ready by then. DevicesAsConfigured, for a caller that waits and devices *)
(* that fit the mask, needs MaskInv and DevsInv: what setDevicesToRecord() *)
(* has written so far, and what Record() has read of it.                   *)
(***************************************************************************)
EXTENDS RecorderProofs

(***************************************************************************)
(* What the mapping needs besides ThreadInv: the xkb state is released and *)
(* the descriptors are closed by the destructor only, and a join has a     *)
(* thread to wait for.                                                     *)
(***************************************************************************)
LifeInv ==
    /\ ThreadInv
    /\ xkb = "freed" => ctlPc \in {"dtor", "dtorJoin", "gone"}
    /\ ctlPc = "gone" => fds = "closed"
    /\ ctlPc \in {"join", "dtorJoin"} => joinable

\* Every step keeps the destructor's order: what it has released stays with it.
LEMMA NextLifeInv == TypeOK /\ LifeInv /\ [Next]_vars => LifeInv'
<1> SUFFICES ASSUME TypeOK, LifeInv, [Next]_vars PROVE LifeInv'
  OBVIOUS
<1> USE DEF LifeInv
<1>1. ThreadInv'
  BY NextThreads
<1>2. CASE UNCHANGED <<xkb, ctlPc, fds>> /\ (joinable => joinable')
  BY <1>1, <1>2
<1>3. CASE Stop \/ StopReturns \/ SetDevicesReturns \/ \E S \in Selections : SetDevices(S)
  BY <1>1, <1>3 DEF Stop, StopReturns, SetDevicesReturns, SetDevices, CtlAt, objVars
<1>4. CASE Destroy \/ DestroyStops \/ DestroyReturns
  BY <1>1, <1>4 DEF Destroy, DestroyStops, DestroyReturns, CtlAt, objVars
<1>5. CASE Start \/ StartOverThread \/ SetDeviceBit
  BY <1>2, <1>5 DEF Start, StartOverThread, SetDeviceBit, objVars, ctlVars
<1>6. CASE RecStep \/ RecFault
  BY <1>2, <1>6
     DEF RecStep, RecFault, RecBegin, RecSpawn, RecScanMask, RecOpen, RecLoop,
         RecSelectTimeout, RecSelectReady, RecReadFails, RecReadEsc,
         RecReadInput, RecPush, RecFinish, RecSelectError, RecReadFreedXkb,
         objVars, ctlVars
<1>7. CASE BufStep \/ BufSpuriousWakeup
  BY <1>2, <1>7
     DEF BufStep, BufCheck, BufEnter, BufTimeout, BufSample, BufTrim, BufFinal,
         BufDump, BufSpuriousWakeup, objVars, ctlVars
<1>8. CASE Tick \/ \E d \in Devices, k \in EventKinds : DeviceEvent(d, k)
  BY <1>2, <1>8 DEF Tick, DeviceEvent, objVars, ctlVars
<1>9. CASE UNCHANGED vars
  BY <1>2, <1>9 DEF vars
<1> QED
  BY <1>3, <1>4, <1>5, <1>6, <1>7, <1>8, <1>9
     DEF Next, Call, CtlStep, Terminated

\* A step that touches neither m_stop, the thread, the owner nor the process
\* leaves the abstract life alone.
LEMMA Quiet ==
    ASSUME UNCHANGED <<m_stop, joinable, proc, ctlPc>>, ThreadOf' = ThreadOf
    PROVE  UNCHANGED Life!vars
  BY DEF Life!vars

\* Start() on an inactive recorder is a start of the abstract life.
LEMMA StartIsLife ==
    ASSUME LifeInv, TypeOK, Start
    PROVE  Life!Start
  BY DEF Start, CtlAt, stopVars, ctlVars,
         ThreadOf, LifeInv, ThreadInv, ThreadOwnership, RecRuns,
         Life!Start, Life!Owner, Life!Joinable, Life!Started

\* Start() over a thread that was not joined ends the abstract process.
LEMMA StartOverThreadIsLife ==
    ASSUME LifeInv, TypeOK, StartOverThread
    PROVE  Life!StartTerminates
  BY DEF StartOverThread, CtlAt, stopVars, ctlVars, recVars,
         ThreadOf, LifeInv, ThreadInv, ThreadOwnership, RecRuns,
         Life!StartTerminates, Life!Owner, Life!Terminates, Life!Joinable

\* Stop() up to its join is the abstract Stop.
LEMMA StopIsLife ==
    ASSUME LifeInv, TypeOK, Stop
    PROVE  Life!Stop
  BY DEF Stop, RequestStop, CtlAt, objVars, recVars,
         ThreadOf, LifeInv, ThreadInv, ThreadOwnership, RecRuns,
         Life!Stop, Life!Owner, Life!Joinable, Life!StopRequested

\* Stop() returns when Record() has.
LEMMA StopReturnsIsLife ==
    ASSUME LifeInv, TypeOK, StopReturns
    PROVE  Life!StopReturns
  BY DEF StopReturns, RecorderJoined, CtlAt, stopVars, recVars,
         ThreadOf, LifeInv, ThreadInv, ThreadOwnership, RecRuns,
         Life!StopReturns, Life!Owner, Life!Joined

\* The release of the xkb objects begins the abstract destructor.
LEMMA DestroyIsLife ==
    ASSUME LifeInv, TypeOK, Destroy
    PROVE  Life!Destroy
  BY DEF Destroy, CtlAt, stopVars, recVars,
         ThreadOf, LifeInv, ThreadInv, ThreadOwnership, RecRuns,
         Life!Destroy, Life!Owner

\* The destructor's stop request is the abstract one.
LEMMA DestroyStopsIsLife ==
    ASSUME LifeInv, TypeOK, DestroyStops
    PROVE  Life!DestroyStops
  BY DEF DestroyStops, RequestStop, CtlAt, objVars, recVars,
         ThreadOf, LifeInv, ThreadInv, ThreadOwnership, RecRuns,
         Life!DestroyStops, Life!Owner, Life!Joinable, Life!StopRequested

\* The destructor closes the descriptors when the thread is joined.
LEMMA DestroyReturnsIsLife ==
    ASSUME LifeInv, TypeOK, DestroyReturns
    PROVE  Life!DestroyReturns
  BY DEF DestroyReturns, RecorderJoined, CtlAt, stopVars, recVars,
         ThreadOf, LifeInv, ThreadInv, ThreadOwnership, RecRuns,
         Life!DestroyReturns, Life!Owner, Life!Joinable, Life!Joined

\* Clearing m_stop begins the abstract thread.
LEMMA RecBeginIsLife ==
    ASSUME LifeInv, TypeOK, RecBegin
    PROVE  Life!ThreadBegins
  BY DEF RecBegin, RecAt, objVars, ctlVars,
         ThreadOf, LifeInv, ThreadInv, ThreadOwnership, RecRuns,
         Life!ThreadBegins, Life!Begins

\* is_done() sets m_stop when the length is reached, or changes nothing.
LEMMA RecLoopIsLife ==
    ASSUME LifeInv, TypeOK, RecLoop
    PROVE  Life!ThreadStopsItself \/ UNCHANGED Life!vars
  BY DEF RecLoop, RecAt, MarkExpired, TypeOK, StopType, objVars, ctlVars,
         ThreadOf, LifeInv, ThreadInv, ThreadOwnership, RecRuns,
         Life!ThreadStopsItself, Life!StopsItself, Life!vars

\* ESC makes the abstract thread stop itself.
LEMMA RecReadEscIsLife ==
    ASSUME NEW d \in Devices, LifeInv, TypeOK, RecReadEsc(d)
    PROVE  Life!ThreadStopsItself
  BY DEF RecReadEsc, NextReady, RecAt, AfterDevice, objVars, ctlVars,
         ThreadOf, LifeInv, ThreadInv, ThreadOwnership, RecRuns,
         Life!ThreadStopsItself, Life!StopsItself

\* The end of Record() is the end of the abstract thread.
LEMMA RecFinishIsLife ==
    ASSUME LifeInv, TypeOK, RecFinish
    PROVE  Life!ThreadReturns
  BY DEF RecFinish, RecAt, TypeOK, StopType, objVars, ctlVars, stopVars,
         ThreadOf, LifeInv, ThreadInv, ThreadOwnership, RecRuns,
         Life!ThreadReturns, Life!Returns

\* The use of a released xkb state is the abstract crash.
LEMMA RecReadFreedXkbIsLife ==
    ASSUME NEW d \in Devices, LifeInv, TypeOK, RecReadFreedXkb(d)
    PROVE  Life!Crash
  BY DEF RecReadFreedXkb, NextReady, RecAt, TypeOK, CtlType, stopVars, ctlVars, recVars,
         ThreadOf, LifeInv, ThreadInv, ThreadOwnership, RecRuns,
         Life!Crash

\* The rest of Record() happens inside the running thread.
LEMMA RecordingIsQuiet ==
    ASSUME LifeInv, TypeOK,
           \/ RecSpawn \/ RecScanMask \/ RecOpen \/ RecSelectTimeout
           \/ RecSelectReady \/ RecPush \/ RecSelectError
           \/ \E d \in Devices : RecReadFails(d) \/ RecReadInput(d)
    PROVE  UNCHANGED Life!vars
<1>1. UNCHANGED <<m_stop, joinable, proc, ctlPc>>
  BY DEF RecSpawn, RecScanMask, RecOpen, RecSelectTimeout, RecSelectReady,
         RecPush, RecSelectError, RecReadFails, RecReadInput, stopVars, objVars,
         ctlVars
<1>2. recPc \notin {"begin", "done"} /\ recPc' \notin {"begin", "done"}
  BY DEF RecSpawn, RecScanMask, RecOpen, RecSelectTimeout, RecSelectReady,
         RecPush, RecSelectError, RecReadFails, RecReadInput, RecAt, NextReady,
         AfterDevice
<1>3. ThreadOf' = ThreadOf
  BY <1>1, <1>2 DEF ThreadOf
<1> QED
  BY <1>1, <1>3, Quiet

\* So does everything of processBuffer(), and neither the clock nor a device
\* touches the abstract life.
LEMMA OtherStepsAreQuiet ==
    ASSUME LifeInv, TypeOK,
           \/ BufStep \/ BufSpuriousWakeup \/ Tick
           \/ \E d \in Devices, k \in EventKinds : DeviceEvent(d, k)
           \/ UNCHANGED vars
    PROVE  UNCHANGED Life!vars
<1>1. UNCHANGED <<m_stop, joinable, proc, ctlPc, recPc>>
  BY DEF BufStep, BufCheck, BufEnter, BufTimeout, BufSample, BufTrim, BufFinal,
         BufDump, BufSpuriousWakeup, Tick, DeviceEvent, vars, stopVars, objVars,
         ctlVars, recVars
<1>2. ThreadOf' = ThreadOf
  BY <1>1 DEF ThreadOf
<1> QED
  BY <1>1, <1>2, Quiet

\* Filling the device mask is a detail of an idle owner.
LEMMA MaskIsQuiet ==
    ASSUME LifeInv, TypeOK,
           \/ SetDeviceBit \/ SetDevicesReturns
           \/ \E S \in Selections : SetDevices(S)
    PROVE  UNCHANGED Life!vars
<1>1. UNCHANGED <<m_stop, joinable, proc, recPc>>
  BY DEF SetDeviceBit, SetDevicesReturns, SetDevices, stopVars, objVars, recVars
<1>2. UNCHANGED (IF ctlPc = "mask" THEN "idle" ELSE ctlPc)
  BY DEF SetDeviceBit, SetDevicesReturns, SetDevices, CtlAt
<1> QED
  BY <1>1, <1>2 DEF ThreadOf, Life!vars

\* Every step of the recorder is a step of the abstract life, or none.
LEMMA NextLife == TypeOK /\ LifeInv /\ [Next]_vars => [Life!Next]_(Life!vars)
<1> SUFFICES ASSUME TypeOK, LifeInv, [Next]_vars PROVE [Life!Next]_(Life!vars)
  OBVIOUS
<1> USE DEF Life!Next, Life!OwnerWaits
<1>1. CASE Start \/ StartOverThread \/ Stop \/ Destroy
  BY <1>1, StartIsLife, StartOverThreadIsLife, StopIsLife, DestroyIsLife
<1>2. CASE StopReturns \/ DestroyStops \/ DestroyReturns
  BY <1>2, StopReturnsIsLife, DestroyStopsIsLife, DestroyReturnsIsLife
<1>3. CASE RecBegin \/ RecLoop \/ RecFinish
  BY <1>3, RecBeginIsLife, RecLoopIsLife, RecFinishIsLife
<1>4. ASSUME NEW d \in Devices, RecReadEsc(d) \/ RecReadFreedXkb(d)
      PROVE  Life!Next
  BY <1>4, RecReadEscIsLife, RecReadFreedXkbIsLife
<1>5. CASE \/ RecSpawn \/ RecScanMask \/ RecOpen \/ RecSelectTimeout
           \/ RecSelectReady \/ RecPush \/ RecSelectError
           \/ \E d \in Devices : RecReadFails(d) \/ RecReadInput(d)
  BY <1>5, RecordingIsQuiet
<1>6. CASE \/ BufStep \/ BufSpuriousWakeup \/ Tick
           \/ \E d \in Devices, k \in EventKinds : DeviceEvent(d, k)
           \/ UNCHANGED vars
  BY <1>6, OtherStepsAreQuiet
<1>7. CASE \/ SetDeviceBit \/ SetDevicesReturns
           \/ \E S \in Selections : SetDevices(S)
  BY <1>7, MaskIsQuiet
<1> HIDE DEF Life!Next, Life!OwnerWaits
<1> QED
  BY <1>1, <1>2, <1>3, <1>4, <1>5, <1>6, <1>7
     DEF Next, Call, CtlStep, RecStep, RecFault, Terminated

\* The recorder implements the abstract life, for every number of devices,
\* length, mode, mask width and order of calls: the registry of the server,
\* which is built on that life, sees no other behaviour of a recorder.
THEOREM LifeImplemented == Spec => ImplementsLife
<1>1. Init => TypeOK /\ LifeInv /\ Life!Init
  BY InitTypes DEF Init, LifeInv, ThreadInv, ThreadOwnership, RecRuns, BufRuns,
     Life!Init, Life!Fresh, ThreadOf
<1>2. TypeOK /\ LifeInv /\ [Next]_vars => TypeOK' /\ LifeInv'
  BY NextTypes, NextLifeInv
<1>3. TypeOK /\ LifeInv /\ [Next]_vars => [Life!Next]_(Life!vars)
  BY NextLife
<1> QED
  BY <1>1, <1>2, <1>3, PTL DEF Spec, ImplementsLife, Life!Spec

-----------------------------------------------------------------------------
\* Record() leaves its loop with m_stop set, unless select() failed.
InactiveInv == recPc \in {"finish", "done"} /\ selectErrors = 0 => m_stop

\* Every step keeps it: is_done() marks the expiry before the loop is left, and
\* m_stop is cleared by a new thread only.
LEMMA InactiveStep == TypeOK /\ InactiveInv /\ [Next]_vars => InactiveInv'
<1> SUFFICES ASSUME TypeOK, InactiveInv, [Next]_vars PROVE InactiveInv'
  OBVIOUS
<1> USE DEF InactiveInv, TypeOK, EnvType
<1>1. CASE /\ recPc' = recPc \/ recPc' \notin {"finish", "done"}
           /\ m_stop => m_stop'
           /\ selectErrors' = selectErrors
  BY <1>1
<1>2. CASE Call \/ CtlStep
  BY <1>1, <1>2
     DEF Call, CtlStep, Start, StartOverThread, Stop, Destroy, SetDevices,
         StopReturns, SetDeviceBit, SetDevicesReturns, DestroyStops,
         DestroyReturns, RequestStop, stopVars, recVars, envVars
<1>3. CASE RecBegin \/ RecFinish
  BY <1>3 DEF RecBegin, RecFinish, RecAt, stopVars, envVars
<1>4. CASE RecLoop
  BY <1>4 DEF RecLoop, MarkExpired, RecAt, envVars
<1>5. CASE RecSelectError
  BY <1>5 DEF RecSelectError
<1>6. CASE RecSpawn \/ RecScanMask \/ RecOpen \/ RecSelectTimeout \/ RecSelectReady
           \/ RecPush
  BY <1>1, <1>6
     DEF RecSpawn, RecScanMask, RecOpen, RecSelectTimeout, RecSelectReady,
         RecPush, AfterDevice, stopVars, envVars
<1>7. ASSUME NEW d \in Devices,
             \/ RecReadFails(d) \/ RecReadEsc(d) \/ RecReadInput(d)
             \/ RecReadFreedXkb(d)
      PROVE  InactiveInv'
  BY <1>1, <1>7
     DEF RecReadFails, RecReadEsc, RecReadInput, RecReadFreedXkb, AfterDevice,
         stopVars, recVars, envVars
<1>8. CASE BufStep \/ BufSpuriousWakeup
  BY <1>1, <1>8
     DEF BufStep, BufCheck, BufEnter, BufTimeout, BufSample, BufTrim, BufFinal,
         BufDump, BufSpuriousWakeup, stopVars, recVars, envVars
<1>9. CASE \/ Tick \/ UNCHANGED vars
           \/ \E d \in Devices, k \in EventKinds : DeviceEvent(d, k)
  BY <1>1, <1>9 DEF Tick, DeviceEvent, vars, stopVars, recVars
<1> QED
  BY <1>2, <1>3, <1>4, <1>5, <1>6, <1>7, <1>8, <1>9
     DEF Next, RecStep, RecFault, Terminated

\* A recorder whose thread has ended is inactive unless select() failed: for
\* isActive(), an expired, a stopped and an ESC-ed recording look the same.
THEOREM InactiveCorrect == Spec => []DoneMeansInactive
<1>1. Init => InactiveInv
  BY DEF Init, InactiveInv
<1>2. TypeOK /\ InactiveInv /\ [Next]_vars => InactiveInv'
  BY InactiveStep
<1>3. InactiveInv => DoneMeansInactive
  BY DEF InactiveInv, DoneMeansInactive
<1> QED
  BY <1>1, <1>2, <1>3, TypeCorrect, PTL DEF Spec

-----------------------------------------------------------------------------
\* m_recording_path names a complete file of the current recording.
FreshFile ==
    /\ m_recording_path \in DOMAIN disk
    /\ disk[m_recording_path].closed
    /\ disk[m_recording_path].session = session

\* A fixed-length recording owns its file from the open on.
FixedFresh ==
    ~Continuous =>
        /\ m_recording_path = FixedPath
        /\ recPc \in Opened \cup {"done"} =>
              FixedPath \in DOMAIN disk /\ disk[FixedPath].session = session
        /\ recPc = "done" => disk[FixedPath].closed

\* A continuous recording has its file once processBuffer() has returned, and
\* ends only then.
ContinuousFresh ==
    Continuous =>
        /\ recPc = "done" => bufPc = "done"
        /\ bufPc = "done" /\ recPc \in Opened \cup {"mask", "done"} => FreshFile

\* A step that leaves the files, the path and the positions of both threads
\* alone keeps the file fresh.
LEMMA FreshStable ==
    ASSUME FixedFresh, ContinuousFresh,
           UNCHANGED <<disk, m_recording_path, session, bufPc, recPc>>
    PROVE  FixedFresh' /\ ContinuousFresh'
  BY DEF FixedFresh, ContinuousFresh, FreshFile

\* So does a step of processBuffer() before the dump.
LEMMA FreshBuffer ==
    ASSUME FixedFresh, ContinuousFresh, TypeOK, BufRuns, bufPc' # "done", ThreadInv,
           UNCHANGED <<disk, m_recording_path, session, recPc>>
    PROVE  FixedFresh' /\ ContinuousFresh'
  BY DEF FixedFresh, ContinuousFresh, FreshFile, BufRuns, ThreadInv, ThreadOwnership

\* So does a step of Record() between two of these positions.
LEMMA FreshLoop ==
    ASSUME FixedFresh, ContinuousFresh, recPc \in Opened, recPc' \in Opened,
           UNCHANGED <<disk, m_recording_path, session, bufPc>>
    PROVE  FixedFresh' /\ ContinuousFresh'
  BY DEF FixedFresh, ContinuousFresh, FreshFile, Opened

\* Every step keeps the file fresh: the open and the close of Record(), the dump
\* of processBuffer() before the join, a new recording.
LEMMA FreshStep ==
    TypeOK /\ ThreadInv /\ FixedFresh /\ ContinuousFresh /\ [Next]_vars
      => FixedFresh' /\ ContinuousFresh'
<1> SUFFICES ASSUME TypeOK, ThreadInv, FixedFresh, ContinuousFresh, [Next]_vars
             PROVE  FixedFresh' /\ ContinuousFresh'
  OBVIOUS
<1>1. CASE Start
  <2>1. recPc' = "begin" /\ UNCHANGED <<disk, m_recording_path, bufPc>>
    BY <1>1 DEF Start, bufVars, dataVars
  <2> QED
    BY <2>1 DEF FixedFresh, ContinuousFresh, FreshFile, Opened
<1>2. CASE Stop \/ DestroyStops
  <2>1. UNCHANGED <<disk, m_recording_path, session, recPc>>
    BY <1>2 DEF Stop, DestroyStops, recVars, dataVars
  <2>2. bufPc' = bufPc \/ (bufPc = "wait" /\ bufPc' = "sample")
    BY <1>2 DEF Stop, DestroyStops, RequestStop
  <2> QED
    BY <2>1, <2>2, FreshStable, FreshBuffer DEF BufRuns
<1>3. CASE \/ StartOverThread \/ Destroy \/ StopReturns \/ SetDeviceBit
           \/ SetDevicesReturns \/ DestroyReturns
           \/ \E S \in Selections : SetDevices(S)
  BY <1>3, FreshStable
     DEF StartOverThread, Destroy, StopReturns, SetDeviceBit, SetDevicesReturns,
         DestroyReturns, SetDevices, recVars, bufVars, dataVars
<1>4. CASE RecBegin \/ RecSpawn \/ RecScanMask
  <2>1. /\ UNCHANGED <<disk, m_recording_path, session>>
        /\ recPc \in {"begin", "spawn", "mask"} /\ recPc' \in {"spawn", "mask"}
        /\ recPc' = "mask" /\ Continuous => bufPc' = "check" \/ UNCHANGED <<recPc, bufPc>>
    BY <1>4 DEF RecBegin, RecSpawn, RecScanMask, RecAt, bufVars, dataVars
  <2> QED
    BY <2>1 DEF FixedFresh, ContinuousFresh, FreshFile, Opened
<1>5. CASE RecOpen
  <2>1. /\ UNCHANGED <<m_recording_path, session, bufPc>>
        /\ recPc = "mask" /\ recPc' = "loop" /\ (Continuous => disk' = disk)
    BY <1>5 DEF RecOpen, RecAt, bufVars
  <2>2. ASSUME ~Continuous
        PROVE  FixedPath \in DOMAIN disk' /\ disk'[FixedPath].session = session
    BY <1>5, <2>2 DEF RecOpen, Save
  <2> QED
    BY <2>1, <2>2 DEF FixedFresh, ContinuousFresh, FreshFile, Opened
<1>6. CASE RecLoop \/ RecSelectTimeout \/ RecSelectReady \/ RecPush \/ RecSelectError
  BY <1>6, FreshLoop
     DEF RecLoop, RecSelectTimeout, RecSelectReady, RecPush, RecSelectError,
         RecAt, AfterDevice, Opened, bufVars, dataVars
<1>7. ASSUME NEW d \in Devices, RecReadFails(d) \/ RecReadEsc(d) \/ RecReadFreedXkb(d)
      PROVE  FixedFresh' /\ ContinuousFresh'
  BY <1>7, FreshLoop, FreshStable
     DEF RecReadFails, RecReadEsc, RecReadFreedXkb, NextReady, RecAt, AfterDevice,
         Opened, recVars, bufVars, dataVars
<1>8. ASSUME NEW d \in Devices, RecReadInput(d)
      PROVE  FixedFresh' /\ ContinuousFresh'
  <2>1. /\ UNCHANGED <<m_recording_path, session, bufPc>>
        /\ recPc \in Opened /\ recPc' \in Opened
    BY <1>8 DEF RecReadInput, NextReady, RecAt, AfterDevice, Opened, bufVars
  <2>2. CASE Continuous
    BY <1>8, <2>1, <2>2, FreshLoop DEF RecReadInput
  <2>3. CASE ~Continuous
    <3>1. PICK r : disk' = [disk EXCEPT ![FixedPath].records = Append(@, r)]
      BY <1>8, <2>3 DEF RecReadInput
    <3>2. FixedPath \in DOMAIN disk /\ disk[FixedPath] \in File
      BY <2>1, <2>3 DEF FixedFresh, TypeOK, DataType
    <3>3. FixedPath \in DOMAIN disk' /\ disk'[FixedPath].session = disk[FixedPath].session
      BY <3>1, <3>2 DEF File
    <3> QED
      BY <2>1, <2>3, <3>3 DEF FixedFresh, ContinuousFresh, Opened
  <2> QED
    BY <2>2, <2>3
<1>9. CASE RecFinish
  <2>1. /\ UNCHANGED <<m_recording_path, session, bufPc>>
        /\ recPc = "finish" /\ recPc' = "done"
        /\ (Continuous => disk' = disk /\ bufPc = "done")
    BY <1>9 DEF RecFinish, RecAt, BufferJoined, bufVars
  <2>2. ASSUME ~Continuous
        PROVE  /\ FixedPath \in DOMAIN disk' /\ disk'[FixedPath].session = session
               /\ disk'[FixedPath].closed
    <3>1. disk' = [disk EXCEPT ![FixedPath].closed = TRUE]
      BY <1>9, <2>2 DEF RecFinish
    <3>2. FixedPath \in DOMAIN disk /\ disk[FixedPath] \in File
      BY <2>1, <2>2 DEF FixedFresh, Opened, TypeOK, DataType
    <3> QED
      BY <2>1, <2>2, <3>1, <3>2 DEF FixedFresh, Opened, File
  <2> QED
    BY <2>1, <2>2 DEF FixedFresh, ContinuousFresh, FreshFile, Opened
<1>10. CASE \/ BufCheck \/ BufEnter \/ BufTimeout \/ BufSample \/ BufTrim
            \/ BufFinal \/ BufSpuriousWakeup
  <2>1. BufRuns /\ bufPc' # "done" /\ UNCHANGED <<disk, m_recording_path, session, recPc>>
    BY <1>10
       DEF BufCheck, BufEnter, BufTimeout, BufSample, BufTrim, BufFinal,
           BufSpuriousWakeup, BufAt, BufRuns, recVars, dataVars
  <2> QED
    BY <2>1, FreshBuffer
<1>11. CASE BufDump
  <2>1. Continuous /\ recPc \notin {"none", "begin", "spawn", "done"}
    BY <1>11 DEF BufDump, BufAt, BufRuns, ThreadInv, ThreadOwnership
  <2>2. bufPc' = "done" /\ recPc' = recPc /\ FreshFile'
    BY <1>11 DEF BufDump, FreshFile, Save, recVars
  <2> QED
    BY <2>1, <2>2 DEF FixedFresh, ContinuousFresh
<1>12. CASE \/ Tick \/ UNCHANGED vars
            \/ \E d \in Devices, k \in EventKinds : DeviceEvent(d, k)
  BY <1>12, FreshStable DEF Tick, DeviceEvent, vars, recVars, bufVars, dataVars
<1> QED
  BY <1>1, <1>2, <1>3, <1>4, <1>5, <1>6, <1>7, <1>8, <1>9, <1>10, <1>11, <1>12
     DEF Next, Call, CtlStep, RecStep, RecFault, BufStep, Terminated

\* Stop() returns only from its join (TestRunnerRecorder::Stop).
LEMMA OnlyStopReturns ==
    ASSUME [Next]_vars, ctlPc = "join", ctlPc' = "idle"
    PROVE  StopReturns
<1>1. CASE Call \/ CtlStep
  BY <1>1
     DEF Call, CtlStep, Start, StartOverThread, Stop, Destroy, SetDevices,
         SetDeviceBit, SetDevicesReturns, DestroyStops, DestroyReturns, CtlAt
<1>2. CASE RecStep \/ RecFault
  BY <1>2
     DEF RecStep, RecFault, RecBegin, RecSpawn, RecScanMask, RecOpen, RecLoop,
         RecSelectTimeout, RecSelectReady, RecReadFails, RecReadEsc,
         RecReadInput, RecPush, RecFinish, RecSelectError, RecReadFreedXkb,
         ctlVars
<1>3. CASE BufStep \/ BufSpuriousWakeup
  BY <1>3
     DEF BufStep, BufCheck, BufEnter, BufTimeout, BufSample, BufTrim, BufFinal,
         BufDump, BufSpuriousWakeup, ctlVars
<1>4. CASE \/ Tick \/ UNCHANGED vars
           \/ \E d \in Devices, k \in EventKinds : DeviceEvent(d, k)
  BY <1>4 DEF Tick, DeviceEvent, vars, ctlVars
<1> QED
  BY <1>1, <1>2, <1>3, <1>4 DEF Next, Terminated

\* The path Stop() returns names a complete file, written by the recording that
\* it stopped, however the two threads' ends interleave with the request.
THEOREM FreshFileCorrect == Spec => StopReturnsFreshFile
<1>1. Init => ThreadInv /\ FixedFresh /\ ContinuousFresh
  BY DEF Init, ThreadInv, ThreadOwnership, RecRuns, BufRuns, FixedFresh,
         ContinuousFresh, Opened
<1>2. TypeOK /\ ThreadInv /\ [Next]_vars => ThreadInv'
  BY NextThreads
<1>3. TypeOK /\ ThreadInv /\ FixedFresh /\ ContinuousFresh /\ [Next]_vars
        => FixedFresh' /\ ContinuousFresh'
  BY FreshStep
<1>4. FixedFresh /\ ContinuousFresh /\ [Next]_vars
        => [ctlPc = "join" /\ ctlPc' = "idle" => FreshFile]_vars
  <2> SUFFICES ASSUME FixedFresh, ContinuousFresh, [Next]_vars,
                      ctlPc = "join", ctlPc' = "idle"
               PROVE  FreshFile
    OBVIOUS
  <2>1. recPc = "done"
    BY OnlyStopReturns DEF StopReturns, RecorderJoined
  <2> QED
    BY <2>1, RecorderAssumption DEF FixedFresh, ContinuousFresh, FreshFile
<1> QED
  BY <1>1, <1>2, <1>3, <1>4, TypeCorrect, PTL
     DEF Spec, StopReturnsFreshFile, FreshFile

-----------------------------------------------------------------------------
(***************************************************************************)
(* The devices of a recording.  m_device_mask is written by the owner and  *)
(* read by Record() without a lock, one bit at a time: the two loops agree *)
(* only for an owner that follows the calling convention, and only while   *)
(* every device has a bit.  Both are assumptions of DevicesCorrect; the    *)
(* code checks neither.                                                    *)
(***************************************************************************)

\* The mask the owner has written: whole outside setDevicesToRecord(), and up
\* to the loop index inside it, when no thread can read it.
MaskInv ==
    /\ ctlPc # "mask" => m_device_mask \cap Devices = ctlSel
    /\ ctlPc = "mask" =>
          /\ ~joinable
          /\ m_device_mask \cap Devices = ctlSel \cap (1..(ctlIdx - 1))

\* What Record() has read of it.
DevsInv ==
    /\ recPc \in {"none", "begin", "spawn", "done"} => recDevs = {} /\ recIdx = 1
    /\ recPc = "mask" => recDevs = ctlSel \cap (1..(recIdx - 1))
    /\ recPc \in Opened => recDevs = ctlSel /\ recIdx = 1

\* Within the width of the mask the shift yields the device's own bit.
LEMMA ShiftFits ==
    ASSUME NumDevices <= MaskBits, NEW i \in Devices
    PROVE  Shift(i) = {{i}}
  BY RecorderAssumption DEF Shift, Devices

\* Every step keeps the mask as far as it is written.
LEMMA MaskStep ==
    ASSUME CallerWaits, NumDevices <= MaskBits, TypeOK, MaskInv, [Next]_vars
    PROVE  MaskInv'
<1> USE DEF MaskInv
<1>1. CASE UNCHANGED <<m_device_mask, ctlVars>> /\ (joinable' => joinable \/ ctlPc # "mask")
  BY <1>1 DEF ctlVars
<1>2. CASE Start \/ StartOverThread
  BY <1>1, <1>2 DEF Start, StartOverThread, CtlAt
<1>3. CASE Stop \/ Destroy \/ StopReturns \/ DestroyStops \/ DestroyReturns
  BY <1>3 DEF Stop, Destroy, StopReturns, DestroyStops, DestroyReturns, CtlAt
<1>4. ASSUME NEW S \in Selections, SetDevices(S) PROVE MaskInv'
  BY <1>4 DEF SetDevices, ClearedMask, objVars
<1>5. CASE SetDeviceBit
  <2>1. /\ ctlIdx \in Nat \ {0} /\ ctlIdx \in Devices /\ ctlSel \subseteq Devices
        /\ NumDevices \in Nat
    BY <1>5, RecorderAssumption DEF SetDeviceBit, TypeOK, CtlType, Devices
  <2>2. /\ m_device_mask' =
              m_device_mask \cup (IF ctlIdx \in ctlSel THEN {ctlIdx} ELSE {})
        /\ ctlIdx' = ctlIdx + 1 /\ ctlPc = "mask"
        /\ UNCHANGED <<ctlPc, ctlSel, joinable>>
    BY <1>5, <2>1, ShiftFits DEF SetDeviceBit, CtlAt, objVars
  <2>3. ctlIdx' - 1 = ctlIdx /\ 1..ctlIdx = (1..(ctlIdx - 1)) \cup {ctlIdx}
    BY <2>1, <2>2
  <2> QED
    BY <2>1, <2>2, <2>3
<1>6. CASE SetDevicesReturns
  <2>1. ctlIdx \in Nat \ {0} /\ ctlSel \subseteq 1..NumDevices /\ NumDevices \in Nat
    BY RecorderAssumption DEF TypeOK, CtlType, Devices
  <2>2. ctlPc = "mask" /\ ctlIdx > NumDevices /\ ctlPc' = "idle"
        /\ UNCHANGED <<ctlSel, m_device_mask>>
    BY <1>6 DEF SetDevicesReturns, CtlAt
  <2>3. ctlSel \cap (1..(ctlIdx - 1)) = ctlSel
    <3>1. \A i \in 1..NumDevices : i \in 1..(ctlIdx - 1)
      BY <2>1, <2>2
    <3> QED
      BY <2>1, <3>1
  <2> QED
    BY <2>2, <2>3
<1>7. CASE RecStep \/ RecFault
  BY <1>1, <1>7
     DEF RecStep, RecFault, RecBegin, RecSpawn, RecScanMask, RecOpen, RecLoop,
         RecSelectTimeout, RecSelectReady, RecReadFails, RecReadEsc,
         RecReadInput, RecPush, RecFinish, RecSelectError, RecReadFreedXkb,
         objVars
<1>8. CASE BufStep \/ BufSpuriousWakeup
  BY <1>1, <1>8
     DEF BufStep, BufCheck, BufEnter, BufTimeout, BufSample, BufTrim, BufFinal,
         BufDump, BufSpuriousWakeup, objVars
<1>9. CASE \/ Tick \/ UNCHANGED vars
           \/ \E d \in Devices, k \in EventKinds : DeviceEvent(d, k)
  BY <1>1, <1>9 DEF Tick, DeviceEvent, vars, objVars, ctlVars
<1> QED
  BY <1>2, <1>3, <1>4, <1>5, <1>6, <1>7, <1>8, <1>9
     DEF Next, Call, CtlStep, Terminated

\* Every step keeps what Record() has read of the mask equal to the selection.
LEMMA DevsStep ==
    ASSUME CallerWaits, NumDevices <= MaskBits, TypeOK, ThreadInv, MaskInv,
           DevsInv, [Next]_vars
    PROVE  DevsInv'
<1> USE DEF DevsInv
<1>0. recPc \in RecPcs
  BY DEF TypeOK, RecType
<1>1. CASE UNCHANGED <<ctlSel, recPc, recDevs, recIdx>>
  BY <1>1
<1>2. CASE Start
  <2>1. recPc \in {"none", "done"}
    BY <1>2 DEF Start, ThreadInv, ThreadOwnership, RecRuns
  <2> QED
    BY <1>2, <2>1 DEF Start, Opened
<1>3. CASE \/ StartOverThread \/ Stop \/ Destroy \/ CtlStep
  BY <1>1, <1>3
     DEF CtlStep, StartOverThread, Stop, Destroy, StopReturns, SetDeviceBit,
         SetDevicesReturns, DestroyStops, DestroyReturns, ctlVars, recVars
<1>4. ASSUME NEW S \in Selections, SetDevices(S) PROVE DevsInv'
  <2>1. recPc \in {"none", "done"} /\ UNCHANGED <<recPc, recDevs, recIdx>>
    BY <1>4 DEF SetDevices, ThreadInv, ThreadOwnership, RecRuns, recVars
  <2> QED
    BY <2>1 DEF Opened
<1>5. CASE RecBegin
  BY <1>5 DEF RecBegin, RecAt, Opened
<1>6. CASE RecSpawn
  BY <1>6 DEF RecSpawn, RecAt, Opened
<1>7. CASE RecScanMask
  <2>1. /\ recIdx \in Nat \ {0} /\ recIdx \in Devices /\ ctlSel \subseteq Devices
        /\ NumDevices \in Nat
    BY <1>7, RecorderAssumption DEF RecScanMask, TypeOK, RecType, CtlType, Devices
  <2>2. recPc = "mask" /\ joinable
    BY <1>7 DEF RecScanMask, RecAt, ThreadInv, ThreadOwnership, RecRuns
  <2>3. m_device_mask \cap Devices = ctlSel
    BY <2>2 DEF MaskInv
  <2>4. /\ recDevs' = IF recIdx \in m_device_mask THEN recDevs \cup {recIdx} ELSE recDevs
        /\ recIdx' = recIdx + 1 /\ recPc' = "mask" /\ ctlSel' = ctlSel
    BY <1>7, <2>1, <2>2, ShiftFits DEF RecScanMask, ctlVars
  <2>5. recIdx' - 1 = recIdx /\ 1..recIdx = (1..(recIdx - 1)) \cup {recIdx}
    BY <2>1, <2>4
  <2>6. recDevs' = ctlSel \cap (1..recIdx)
    BY <2>1, <2>2, <2>3, <2>4, <2>5
  <2> QED
    BY <2>4, <2>5, <2>6 DEF Opened
<1>8. CASE RecOpen
  <2>1. recIdx \in Nat \ {0} /\ ctlSel \subseteq 1..NumDevices /\ NumDevices \in Nat
    BY RecorderAssumption DEF TypeOK, CtlType, RecType, Devices
  <2>2. /\ recPc = "mask" /\ recPc' = "loop" /\ recIdx > NumDevices /\ recIdx' = 1
        /\ UNCHANGED <<ctlSel, recDevs>>
    BY <1>8 DEF RecOpen, RecAt, ctlVars
  <2>3. ctlSel \cap (1..(recIdx - 1)) = ctlSel
    <3>1. \A i \in 1..NumDevices : i \in 1..(recIdx - 1)
      BY <2>1, <2>2
    <3> QED
      BY <2>1, <3>1
  <2> QED
    BY <2>2, <2>3
<1>9. CASE RecLoop \/ RecSelectTimeout \/ RecSelectReady \/ RecPush \/ RecSelectError
  BY <1>9
     DEF RecLoop, RecSelectTimeout, RecSelectReady, RecPush, RecSelectError,
         RecAt, AfterDevice, Opened, ctlVars
<1>10. ASSUME NEW d \in Devices,
              \/ RecReadFails(d) \/ RecReadEsc(d) \/ RecReadInput(d)
              \/ RecReadFreedXkb(d)
       PROVE  DevsInv'
  <2>1. CASE RecReadFreedXkb(d)
    BY <1>1, <2>1 DEF RecReadFreedXkb, ctlVars, recVars
  <2>2. CASE RecReadFails(d) \/ RecReadEsc(d) \/ RecReadInput(d)
    <3>1. /\ recPc = "scan" /\ recPc' \in {"loop", "scan", "push"}
          /\ UNCHANGED <<ctlSel, recDevs, recIdx>>
      BY <2>2 DEF RecReadFails, RecReadEsc, RecReadInput, NextReady, RecAt,
                  AfterDevice, ctlVars
    <3> QED
      BY <3>1 DEF Opened
  <2> QED
    BY <1>10, <2>1, <2>2
<1>11. CASE RecFinish
  BY <1>11 DEF RecFinish, RecAt, Opened
<1>12. CASE BufStep \/ BufSpuriousWakeup
  BY <1>1, <1>12
     DEF BufStep, BufCheck, BufEnter, BufTimeout, BufSample, BufTrim, BufFinal,
         BufDump, BufSpuriousWakeup, ctlVars, recVars
<1>13. CASE \/ Tick \/ UNCHANGED vars
            \/ \E d \in Devices, k \in EventKinds : DeviceEvent(d, k)
  BY <1>1, <1>13 DEF Tick, DeviceEvent, vars, ctlVars, recVars
<1> QED
  BY <1>2, <1>3, <1>4, <1>5, <1>6, <1>7, <1>8, <1>9, <1>10, <1>11, <1>12, <1>13
     DEF Next, Call, RecStep, RecFault, Terminated

\* With an owner that follows the convention and at most MaskBits devices, a
\* recording reads exactly the devices setDevicesToRecord() was last given.
THEOREM DevicesCorrect ==
    ASSUME CallerWaits, NumDevices <= MaskBits
    PROVE  Spec => []DevicesAsConfigured
<1>1. Init => ThreadInv /\ MaskInv /\ DevsInv
  <2> SUFFICES ASSUME Init PROVE ThreadInv /\ MaskInv /\ DevsInv
    OBVIOUS
  <2>1. ThreadInv
    BY DEF Init, ThreadInv, ThreadOwnership, RecRuns, BufRuns
  <2>2. (1..MaskBits) \cap (1..NumDevices) = 1..NumDevices
    BY RecorderAssumption
  <2>3. MaskInv
    BY <2>2 DEF Init, MaskInv, Devices
  <2>4. DevsInv
    BY DEF Init, DevsInv, Opened
  <2> QED
    BY <2>1, <2>3, <2>4
<1>2. TypeOK /\ ThreadInv /\ [Next]_vars => ThreadInv'
  BY NextThreads
<1>3. TypeOK /\ MaskInv /\ [Next]_vars => MaskInv'
  BY MaskStep
<1>4. TypeOK /\ ThreadInv /\ MaskInv /\ DevsInv /\ [Next]_vars => DevsInv'
  BY DevsStep
<1>5. DevsInv => DevicesAsConfigured
  BY DEF DevsInv, DevicesAsConfigured, Opened
<1> QED
  BY <1>1, <1>2, <1>3, <1>4, <1>5, TypeCorrect, PTL DEF Spec
================================================================================
