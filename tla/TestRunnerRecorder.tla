--------------------------- MODULE TestRunnerRecorder ---------------------------
(***************************************************************************)
(* One TestRunnerRecorder object (recorder/TestRunnerRecorder.cpp) and the *)
(* three threads that touch it:                                            *)
(*                                                                         *)
(*   ctl  the thread that owns the object (the RPC thread of the server or *)
(*        main() of the stand-alone recorder): Start, Stop,                *)
(*        setDevicesToRecord and the destructor;                           *)
(*   rec  m_recorder_thread, running Record();                             *)
(*   buf  bufferThread, running processBuffer() in continuous mode.        *)
(*                                                                         *)
(* A step is what a thread does between two points where another thread    *)
(* can observe or change what it uses: a critical section of stop_mtx or   *)
(* buf_mtx, an access to an unprotected member (m_device_mask,             *)
(* m_stop_time), a system call, a join.                                    *)
(*                                                                         *)
(* A local variable is reset when its scope ends or its value is used up.  *)
(*                                                                         *)
(* Abstractions: an input event is KEY_ESC or any other event; its codes,  *)
(* values and keysym are left out.  Time is counted in ticks.  The clock   *)
(* never runs backwards, and creating a thread or a file succeeds.         *)
(***************************************************************************)
EXTENDS Integers, Sequences, FiniteSets

CONSTANTS
    NumDevices,       \* available_devices.size(), as found by findDevices()
    Keyboards,        \* the indices of the devices classified as KEYBOARD
    Continuous,       \* m_continuous
    LengthArg,        \* the constructor's length, in seconds
    Second,           \* ticks per second
    UInt32Range,      \* 2^32 in the code
    FileMaxLines,     \* FILE_MAX_LINES
    MaskBits,         \* the width of m_device_mask, 64 in the code
    XkbReady,         \* setup_xkb() succeeds
    Selections,       \* the sets of devices the owner may ask for
    CallerWaits,      \* TRUE: the owner follows the calling convention below
    MaxTime,          \* bound: the clock stops here
    MaxStart,         \* bound: no recording starts after this time
    MaxSessions,      \* bound on the number of threads started
    MaxEvents,        \* bound on the number of input events
    MaxSelectErrors   \* bound on the number of failing select() calls

ASSUME RecorderAssumption ==
    /\ NumDevices \in Nat
    /\ Keyboards \subseteq 1..NumDevices
    /\ Continuous \in BOOLEAN
    /\ LengthArg \in Nat
    /\ Second \in Nat \ {0}
    /\ UInt32Range \in Nat \ {0}
    /\ FileMaxLines \in Nat
    /\ MaskBits \in Nat \ {0}
    /\ XkbReady \in BOOLEAN
    /\ Selections \subseteq SUBSET (1..NumDevices)
    /\ CallerWaits \in BOOLEAN
    /\ MaxTime \in Nat /\ MaxStart \in Nat
    /\ MaxSessions \in Nat /\ MaxEvents \in Nat /\ MaxSelectErrors \in Nat

VARIABLES
    now,               \* system_clock, in ticks
    proc,              \* "up", "terminated" (std::terminate), "crashed" (UB)
    m_stop, m_start_time, m_stop_time,
    m_device_mask,     \* the set of bits that are 1
    m_input_buf,       \* the records of the rolling window
    m_recording_path,
    joinable,          \* m_recorder_thread.joinable()
    xkb,               \* m_xkb_state: "none" (null), "live" or "freed"
    fds,               \* the device descriptors: "open" or "closed"
    ctlPc, ctlIdx,     \* the owner's position and its loop index
    ctlSel,            \* the devices it last asked for
    recPc, recIdx,     \* Record()'s position and its loop index
    recDevs,           \* its devices_to_record
    recReady,          \* the devices its last select() reported, not yet read
    recHeld,           \* the record it is about to push_back
    bufPc,             \* processBuffer()'s position
    bufDeadline,       \* when its wait_for() times out
    bufNow,            \* its current_time
    bufStart,          \* its rec_start_time
    queue,             \* the kernel's event queue of each open descriptor
    disk,              \* the recording files, by path
    selectErrors, generated,
    session,           \* history: the number of recordings started
    captured           \* history: every record ever pushed on m_input_buf

ctlVars == <<ctlPc, ctlIdx, ctlSel>>
recVars == <<recPc, recIdx, recDevs, recReady, recHeld>>
bufVars == <<bufPc, bufDeadline, bufNow, bufStart>>
stopVars == <<m_stop, m_start_time, m_stop_time>>
objVars == <<proc, joinable, xkb, fds>>
dataVars == <<m_input_buf, captured, m_recording_path, disk>>
envVars == <<now, queue, generated, selectErrors>>

vars == <<now, proc, m_stop, m_start_time, m_stop_time, m_device_mask,
          m_input_buf, m_recording_path, joinable, xkb, fds, ctlPc, ctlIdx,
          ctlSel, recPc, recIdx, recDevs, recReady, recHeld, bufPc,
          bufDeadline, bufNow, bufStart, queue, disk, selectErrors, generated,
          session, captured>>

-----------------------------------------------------------------------------
Devices == 1..NumDevices

\* m_recording_length(length * 1000), a uint32_t.
RecordingLength == (LengthArg * Second) % UInt32Range

\* Mutant of Shift: the shift is off by one.
ShiftOffByOne(i) == {{i + 1}}

\* The values of 1ULL << i for the device at 0-based position i - 1.  Past the
\* width of the mask the shift is undefined: the hardware shift wraps, the
\* vectorised one yields 0.
Shift(i) ==
    IF i <= MaskBits THEN {{i}} ELSE {{}, {1 + ((i - 1) % MaskBits)}}

EventKinds == {"esc", "input"}

\* input_record_s: ts_abs is ts; the recording that read it is history.
Record == [ts : Nat, dev : Devices, session : Nat]
NoRecord == [ts |-> 0, dev |-> 0, session |-> 0]

\* A fixed-length recording has one path; a continuous one appends
\* file_timestamp(), which counts whole seconds.
NoPath == -1
FixedPath == 0
PathNow == now \div Second

\* A recording file: the time on its first line, the start of the window it
\* was cut to, its records; closed when its stream is.
File == [header : Int, start : Int, records : Seq(Record), session : Nat,
         closed : BOOLEAN]

\* The disk after opening the file f at path p: an earlier one is truncated.
Save(p, f) ==
    [q \in DOMAIN disk \cup {p} |-> IF q = p THEN f ELSE disk[q]]

\* The constructor: every descriptor is open, nothing runs.  setup_xkb() leaves
\* m_xkb_state null when libxkbcommon fails.
Init ==
    /\ now = 0 /\ proc = "up"
    /\ m_stop = TRUE /\ m_start_time = 0 /\ m_stop_time = 0
    /\ m_device_mask = 1..MaskBits
    /\ m_input_buf = <<>>
    /\ m_recording_path = IF Continuous THEN NoPath ELSE FixedPath
    /\ joinable = FALSE
    /\ xkb = IF XkbReady THEN "live" ELSE "none"
    /\ fds = "open"
    /\ ctlPc = "idle" /\ ctlIdx = 1 /\ ctlSel = Devices
    /\ recPc = "none" /\ recIdx = 1 /\ recDevs = {} /\ recReady = {}
    /\ recHeld = NoRecord
    /\ bufPc = "none" /\ bufDeadline = 0 /\ bufNow = 0 /\ bufStart = 0
    /\ queue = [d \in Devices |-> <<>>]
    /\ disk = [p \in {} |-> NoPath]
    /\ selectErrors = 0 /\ generated = 0
    /\ session = 0 /\ captured = <<>>

-----------------------------------------------------------------------------
(***************************************************************************)
(* The owner.  The calling convention that CallerWaits stands for: Start   *)
(* and setDevicesToRecord only on a recorder that has no thread, Stop only *)
(* on one that has, and neither Stop nor the destructor before the thread  *)
(* has cleared m_stop (isActive() holds, or held).  Nothing in the code    *)
(* enforces it.                                                            *)
(***************************************************************************)
CtlAt(pc) == proc = "up" /\ ctlPc = pc

\* Start() on an inactive recorder.  (On an active one it does nothing.)
Start ==
    /\ CtlAt("idle")
    /\ m_stop /\ ~joinable
    /\ now <= MaxStart /\ session < MaxSessions
    /\ joinable' = TRUE
    /\ session' = session + 1
    /\ recPc' = "begin"
    /\ UNCHANGED <<recIdx, recDevs, recReady, recHeld>>
    /\ UNCHANGED <<proc, xkb, fds, m_device_mask>>
    /\ UNCHANGED <<ctlVars, bufVars, stopVars, dataVars, envVars>>

\* Start() assigns to m_recorder_thread, which still is joinable: std::thread
\* calls std::terminate.
StartOverThread ==
    /\ CtlAt("idle")
    /\ ~CallerWaits
    /\ m_stop /\ joinable
    /\ proc' = "terminated"
    /\ UNCHANGED <<joinable, xkb, fds, m_device_mask, session>>
    /\ UNCHANGED <<ctlVars, recVars, bufVars, stopVars, dataVars, envVars>>

\* Mutant of RequestStop: the flag itself is forgotten.
RequestStopTimeOnly ==
    /\ m_stop_time' = now
    /\ bufPc' = IF bufPc = "wait" THEN "sample" ELSE bufPc
    /\ UNCHANGED <<m_stop, m_start_time, bufDeadline, bufNow, bufStart>>

\* m_stop and m_stop_time are set under stop_mtx, then stop_cv is notified.
RequestStop ==
    /\ m_stop' = TRUE
    /\ m_stop_time' = now
    /\ bufPc' = IF bufPc = "wait" THEN "sample" ELSE bufPc
    /\ UNCHANGED <<m_start_time, bufDeadline, bufNow, bufStart>>

\* Stop() up to the join; without a thread the join throws.
Stop ==
    /\ CtlAt("idle")
    /\ CallerWaits => joinable /\ recPc # "begin"
    /\ RequestStop
    /\ ctlPc' = IF joinable THEN "join" ELSE "idle"
    /\ UNCHANGED <<ctlIdx, ctlSel, m_device_mask, session>>
    /\ UNCHANGED <<recVars, objVars, dataVars, envVars>>

\* Mutant of RecorderJoined: the thread is detached, not joined.
RecorderDetached == TRUE

\* What m_recorder_thread.join() waits for.
RecorderJoined == recPc = "done"

\* Stop() returns m_recording_path.
StopReturns ==
    /\ CtlAt("join")
    /\ RecorderJoined
    /\ joinable' = FALSE
    /\ ctlPc' = "idle"
    /\ UNCHANGED <<ctlIdx, ctlSel, proc, xkb, fds, m_device_mask, session>>
    /\ UNCHANGED <<recVars, bufVars, stopVars, dataVars, envVars>>

\* Mutant of ClearedMask: the old selection is kept.
MaskNotCleared == m_device_mask

\* m_device_mask = 0.
ClearedMask == {}

\* setDevicesToRecord(): the mask is cleared, then set bit by bit.
SetDevices(S) ==
    /\ CtlAt("idle")
    /\ CallerWaits => ~joinable
    /\ m_device_mask' = ClearedMask
    /\ ctlSel' = S /\ ctlIdx' = 1 /\ ctlPc' = "mask"
    /\ UNCHANGED session
    /\ UNCHANGED <<recVars, bufVars, stopVars, objVars, dataVars, envVars>>

SetDeviceBit ==
    /\ CtlAt("mask")
    /\ ctlIdx <= NumDevices
    /\ \E bits \in Shift(ctlIdx) :
          m_device_mask' =
              m_device_mask \cup (IF ctlIdx \in ctlSel THEN bits ELSE {})
    /\ ctlIdx' = ctlIdx + 1
    /\ UNCHANGED <<ctlPc, ctlSel, session>>
    /\ UNCHANGED <<recVars, bufVars, stopVars, objVars, dataVars, envVars>>

SetDevicesReturns ==
    /\ CtlAt("mask")
    /\ ctlIdx > NumDevices
    /\ ctlPc' = "idle" /\ ctlIdx' = 1
    /\ UNCHANGED <<ctlSel, m_device_mask, session>>
    /\ UNCHANGED <<recVars, bufVars, stopVars, objVars, dataVars, envVars>>

\* The destructor releases the xkb objects first ...
Destroy ==
    /\ CtlAt("idle")
    /\ CallerWaits => recPc # "begin"
    /\ xkb' = IF xkb = "live" THEN "freed" ELSE xkb
    /\ ctlPc' = "dtor"
    /\ UNCHANGED <<ctlIdx, ctlSel, proc, joinable, fds, m_device_mask, session>>
    /\ UNCHANGED <<recVars, bufVars, stopVars, dataVars, envVars>>

\* ... then stops and joins a thread that is left, ...
DestroyStops ==
    /\ CtlAt("dtor")
    /\ joinable
    /\ RequestStop
    /\ ctlPc' = "dtorJoin"
    /\ UNCHANGED <<ctlIdx, ctlSel, m_device_mask, session>>
    /\ UNCHANGED <<recVars, objVars, dataVars, envVars>>

\* ... and closes the descriptors.
DestroyReturns ==
    /\ \/ CtlAt("dtor") /\ ~joinable
       \/ CtlAt("dtorJoin") /\ RecorderJoined
    /\ joinable' = FALSE
    /\ fds' = "closed"
    /\ ctlPc' = "gone"
    /\ UNCHANGED <<ctlIdx, ctlSel, proc, xkb, m_device_mask, session>>
    /\ UNCHANGED <<recVars, bufVars, stopVars, dataVars, envVars>>

-----------------------------------------------------------------------------
(***************************************************************************)
(* m_recorder_thread: Record().                                            *)
(***************************************************************************)
RecAt(pc) == proc = "up" /\ recPc = pc

RecBegin ==
    /\ RecAt("begin")
    /\ m_stop' = FALSE
    /\ m_start_time' = now
    /\ recPc' = "spawn"
    /\ UNCHANGED <<m_stop_time, recIdx, recDevs, recReady, recHeld>>
    /\ UNCHANGED <<m_device_mask, session>>
    /\ UNCHANGED <<ctlVars, bufVars, objVars, dataVars, envVars>>

\* bufferThread is started in continuous mode only.
RecSpawn ==
    /\ RecAt("spawn")
    /\ bufPc' = IF Continuous THEN "check" ELSE bufPc
    /\ recPc' = "mask"
    /\ UNCHANGED <<bufDeadline, bufNow, bufStart, recIdx, recDevs, recReady>>
    /\ UNCHANGED <<recHeld, m_device_mask, session>>
    /\ UNCHANGED <<ctlVars, stopVars, objVars, dataVars, envVars>>

\* One iteration of the loop that fills devices_to_record.
RecScanMask ==
    /\ RecAt("mask")
    /\ recIdx <= NumDevices
    /\ \E bits \in Shift(recIdx) :
          recDevs' = IF m_device_mask \cap bits # {}
                     THEN recDevs \cup {recIdx} ELSE recDevs
    /\ recIdx' = recIdx + 1
    /\ UNCHANGED <<recPc, recReady, recHeld, m_device_mask, session>>
    /\ UNCHANGED <<ctlVars, bufVars, stopVars, objVars, dataVars, envVars>>

\* A fixed-length recording opens its file and writes the header.
RecOpen ==
    /\ RecAt("mask")
    /\ recIdx > NumDevices
    /\ disk' = IF Continuous THEN disk
               ELSE Save(FixedPath,
                         [header |-> m_start_time, start |-> m_start_time,
                          records |-> <<>>, session |-> session,
                          closed |-> FALSE])
    /\ recPc' = "loop" /\ recIdx' = 1
    /\ UNCHANGED <<recDevs, recReady, recHeld, m_device_mask, session>>
    /\ UNCHANGED <<m_input_buf, captured, m_recording_path>>
    /\ UNCHANGED <<ctlVars, bufVars, stopVars, objVars, envVars>>

\* Mutants of Expired: a comparison off by one, and the test for the mode the
\* wrong way round.
ExpiredLate == ~Continuous /\ now - m_start_time > RecordingLength
ExpiredOther == Continuous /\ now - m_start_time >= RecordingLength

\* The time-based half of is_done(), for fixed-length recordings.
Expired == ~Continuous /\ now - m_start_time >= RecordingLength

\* Mutant of MarkExpired: the recording ends and stays marked active.
ExpiryNotMarked == m_stop' = m_stop

\* is_done() sets m_stop when it finds the recording expired.
MarkExpired == m_stop' = (m_stop \/ Expired)

\* while (!is_done()).  The expiry also notifies stop_cv, on which nobody waits
\* in a fixed-length recording.
RecLoop ==
    /\ RecAt("loop")
    /\ MarkExpired
    /\ recPc' = IF m_stop \/ Expired THEN "finish" ELSE "select"
    /\ UNCHANGED <<m_start_time, m_stop_time, recIdx, recDevs, recReady>>
    /\ UNCHANGED <<recHeld, m_device_mask, session>>
    /\ UNCHANGED <<ctlVars, bufVars, objVars, dataVars, envVars>>

Ready == {d \in recDevs : queue[d] # <<>>}

\* select() returns 0: no descriptor became readable.
RecSelectTimeout ==
    /\ RecAt("select")
    /\ Ready = {}
    /\ recPc' = "loop"
    /\ UNCHANGED <<recIdx, recDevs, recReady, recHeld, m_device_mask, session>>
    /\ UNCHANGED <<ctlVars, bufVars, stopVars, objVars, dataVars, envVars>>

\* select() returns -1 (EINTR, for one): the loop is left, m_stop untouched.
RecSelectError ==
    /\ RecAt("select")
    /\ selectErrors < MaxSelectErrors
    /\ selectErrors' = selectErrors + 1
    /\ recPc' = "finish"
    /\ UNCHANGED <<recIdx, recDevs, recReady, recHeld, m_device_mask, session>>
    /\ UNCHANGED <<now, queue, generated>>
    /\ UNCHANGED <<ctlVars, bufVars, stopVars, objVars, dataVars>>

RecSelectReady ==
    /\ RecAt("select")
    /\ Ready # {}
    /\ recReady' = Ready
    /\ recPc' = "scan"
    /\ UNCHANGED <<recIdx, recDevs, recHeld, m_device_mask, session>>
    /\ UNCHANGED <<ctlVars, bufVars, stopVars, objVars, dataVars, envVars>>

\* d is the device the for loop over the ready descriptors has come to.
NextReady(d) == RecAt("scan") /\ d \in recReady /\ \A e \in recReady : d <= e

\* Where the for loop goes when the devices in rest are still to be read.
AfterDevice(rest) == IF rest = {} THEN "loop" ELSE "scan"

\* read() fails: logged, and the device is skipped until the next select().
RecReadFails(d) ==
    /\ NextReady(d)
    /\ recReady' = recReady \ {d}
    /\ recPc' = AfterDevice(recReady \ {d})
    /\ UNCHANGED <<recIdx, recDevs, recHeld, m_device_mask, session>>
    /\ UNCHANGED <<ctlVars, bufVars, stopVars, objVars, dataVars, envVars>>

\* KEY_ESC, pressed or released, on any device: stop, without a notification.
RecReadEsc(d) ==
    /\ NextReady(d)
    /\ queue[d] # <<>> /\ Head(queue[d]) = "esc"
    /\ queue' = [queue EXCEPT ![d] = Tail(@)]
    /\ m_stop' = TRUE
    /\ m_stop_time' = now
    /\ recReady' = recReady \ {d}
    /\ recPc' = AfterDevice(recReady \ {d})
    /\ UNCHANGED <<m_start_time, recIdx, recDevs, recHeld>>
    /\ UNCHANGED <<now, generated, selectErrors, m_device_mask, session>>
    /\ UNCHANGED <<ctlVars, bufVars, objVars, dataVars>>

\* Any other event becomes a record: written at once in a fixed-length
\* recording, held for the push_back under buf_mtx in a continuous one.
RecReadInput(d) ==
    /\ NextReady(d)
    /\ queue[d] # <<>> /\ Head(queue[d]) = "input"
    /\ queue' = [queue EXCEPT ![d] = Tail(@)]
    /\ recReady' = recReady \ {d}
    /\ LET r == [ts |-> now, dev |-> d, session |-> session]
       IN  \/ /\ Continuous
              /\ recHeld' = r
              /\ recPc' = "push"
              /\ UNCHANGED disk
           \/ /\ ~Continuous
              /\ disk' = [disk EXCEPT ![FixedPath].records = Append(@, r)]
              /\ recPc' = AfterDevice(recReady \ {d})
              /\ UNCHANGED recHeld
    /\ UNCHANGED <<recIdx, recDevs, m_input_buf, captured, m_recording_path>>
    /\ UNCHANGED <<now, generated, selectErrors, m_device_mask, session>>
    /\ UNCHANGED <<ctlVars, bufVars, stopVars, objVars>>

\* The keysym of a key event is looked up in m_xkb_state; once the destructor
\* has released it that is undefined, and the process may crash.
RecReadFreedXkb(d) ==
    /\ NextReady(d)
    /\ queue[d] # <<>> /\ Head(queue[d]) = "input"
    /\ d \in Keyboards /\ xkb = "freed"
    /\ proc' = "crashed"
    /\ UNCHANGED <<joinable, xkb, fds, m_device_mask, session>>
    /\ UNCHANGED <<ctlVars, recVars, bufVars, stopVars, dataVars, envVars>>

RecPush ==
    /\ RecAt("push")
    /\ m_input_buf' = Append(m_input_buf, recHeld)
    /\ captured' = Append(captured, recHeld)
    /\ recHeld' = NoRecord
    /\ recPc' = AfterDevice(recReady)
    /\ UNCHANGED <<recIdx, recDevs, recReady, m_recording_path, disk>>
    /\ UNCHANGED <<m_device_mask, session>>
    /\ UNCHANGED <<ctlVars, bufVars, stopVars, objVars, envVars>>

\* Mutant of BufferJoined: Record() returns without waiting for the dump.
BufferDetached == TRUE

\* What bufferThread.join() waits for.
BufferJoined == Continuous => bufPc = "done"

\* After the loop: bufferThread is joined, and the local stream is closed.
RecFinish ==
    /\ RecAt("finish")
    /\ BufferJoined
    /\ disk' = IF Continuous THEN disk
               ELSE [disk EXCEPT ![FixedPath].closed = TRUE]
    /\ recPc' = "done"
    /\ recDevs' = {} /\ recReady' = {}
    /\ UNCHANGED <<recIdx, recHeld, m_device_mask, session>>
    /\ UNCHANGED <<m_input_buf, captured, m_recording_path>>
    /\ UNCHANGED <<ctlVars, bufVars, stopVars, objVars, envVars>>

-----------------------------------------------------------------------------
(***************************************************************************)
(* bufferThread: processBuffer().                                          *)
(***************************************************************************)
BufAt(pc) == proc = "up" /\ bufPc = pc

\* while (!is_done()): the fast path; the other one is for fixed lengths.
BufCheck ==
    /\ BufAt("check")
    /\ bufPc' = IF m_stop THEN "final" ELSE "enter"
    /\ UNCHANGED <<bufDeadline, bufNow, bufStart, m_device_mask, session>>
    /\ UNCHANGED <<ctlVars, recVars, stopVars, objVars, dataVars, envVars>>

\* wait_for() tests its predicate and goes to sleep, all under stop_mtx.
BufEnter ==
    /\ BufAt("enter")
    /\ bufPc' = IF m_stop THEN "sample" ELSE "wait"
    /\ bufDeadline' = now + Second
    /\ UNCHANGED <<bufNow, bufStart, m_device_mask, session>>
    /\ UNCHANGED <<ctlVars, recVars, stopVars, objVars, dataVars, envVars>>

\* The second is over.  (At MaxTime it is taken to be: the clock has stopped.)
BufTimeout ==
    /\ BufAt("wait")
    /\ now >= bufDeadline \/ now = MaxTime
    /\ bufPc' = "sample"
    /\ UNCHANGED <<bufDeadline, bufNow, bufStart, m_device_mask, session>>
    /\ UNCHANGED <<ctlVars, recVars, stopVars, objVars, dataVars, envVars>>

\* A spurious wakeup ends the wait only if the predicate holds.
BufSpuriousWakeup ==
    /\ BufAt("wait")
    /\ m_stop
    /\ bufPc' = "sample"
    /\ UNCHANGED <<bufDeadline, bufNow, bufStart, m_device_mask, session>>
    /\ UNCHANGED <<ctlVars, recVars, stopVars, objVars, dataVars, envVars>>

\* current_time is read before buf_mtx is taken.
BufSample ==
    /\ BufAt("sample")
    /\ bufNow' = now /\ bufDeadline' = 0
    /\ bufPc' = "trim"
    /\ UNCHANGED <<bufStart, m_device_mask, session>>
    /\ UNCHANGED <<ctlVars, recVars, stopVars, objVars, dataVars, envVars>>

\* m_input_buf becomes what is left when pop_front() is called for as long as
\* the record at the front is Old(i), i its position before the loop.
PopWhile(Old(_)) ==
    \E k \in 1..(Len(m_input_buf) + 1) :
        /\ \A i \in 1..(k - 1) : Old(i)
        /\ k <= Len(m_input_buf) => ~Old(k)
        /\ m_input_buf' = SubSeq(m_input_buf, k, Len(m_input_buf))

\* Mutant of Outdated: the record at the very start of the window is dropped.
OutdatedInclusive(i) ==
    \/ m_input_buf[i].ts <= bufNow - RecordingLength
    \/ Len(m_input_buf) - i + 1 > FileMaxLines

\* What the periodic trim drops: to the window and to FILE_MAX_LINES.
Outdated(i) ==
    \/ m_input_buf[i].ts < bufNow - RecordingLength
    \/ Len(m_input_buf) - i + 1 > FileMaxLines

BufTrim ==
    /\ BufAt("trim")
    /\ PopWhile(Outdated)
    /\ bufPc' = "check" /\ bufNow' = 0
    /\ UNCHANGED <<bufDeadline, bufStart, m_device_mask, session>>
    /\ UNCHANGED <<captured, m_recording_path, disk>>
    /\ UNCHANGED <<ctlVars, recVars, stopVars, objVars, envVars>>

\* rec_start_time is computed before buf_mtx is taken, without stop_mtx.
BufFinal ==
    /\ BufAt("final")
    /\ bufStart' = m_stop_time - RecordingLength
    /\ bufPc' = "dump"
    /\ UNCHANGED <<bufDeadline, bufNow, m_device_mask, session>>
    /\ UNCHANGED <<ctlVars, recVars, stopVars, objVars, dataVars, envVars>>

\* Mutant of BeforeWindow: there is no final trim.
NoFinalTrim(i) == FALSE

\* What the final trim drops.
BeforeWindow(i) == m_input_buf[i].ts < bufStart

\* Mutant of HeaderTime: rec_start_time is computed again.
HeaderTimeReread ==
    IF m_stop_time - m_start_time >= RecordingLength
    THEN m_stop_time - RecordingLength ELSE m_start_time

\* The time on the file's first line; m_stop_time is read a second time.
HeaderTime ==
    IF m_stop_time - m_start_time >= RecordingLength
    THEN bufStart ELSE m_start_time

\* The final trim and the dump, both under buf_mtx.
BufDump ==
    /\ BufAt("dump")
    /\ PopWhile(BeforeWindow)
    /\ m_recording_path' = PathNow
    /\ disk' = Save(PathNow,
                    [header |-> HeaderTime, start |-> bufStart,
                     records |-> m_input_buf', session |-> session,
                     closed |-> TRUE])
    /\ bufPc' = "done" /\ bufStart' = 0
    /\ UNCHANGED <<bufDeadline, bufNow, m_device_mask, session>>
    /\ UNCHANGED captured
    /\ UNCHANGED <<ctlVars, recVars, stopVars, objVars, envVars>>

-----------------------------------------------------------------------------
(***************************************************************************)
(* The environment: the clock and the kernel.                              *)
(***************************************************************************)
Tick ==
    /\ proc = "up"
    /\ now < IF recPc = "begin" THEN MaxStart ELSE MaxTime
    /\ now' = now + 1
    /\ UNCHANGED <<queue, generated, selectErrors, m_device_mask, session>>
    /\ UNCHANGED <<ctlVars, recVars, bufVars, stopVars, objVars, dataVars>>

\* The kernel queues every event for the descriptors findDevices() left open,
\* whether a recording is running or not.
DeviceEvent(d, k) ==
    /\ proc = "up" /\ fds = "open"
    /\ generated < MaxEvents
    /\ generated' = generated + 1
    /\ queue' = [queue EXCEPT ![d] = Append(@, k)]
    /\ UNCHANGED <<now, selectErrors, m_device_mask, session>>
    /\ UNCHANGED <<ctlVars, recVars, bufVars, stopVars, objVars, dataVars>>

\* The object is gone, or the process is.
Terminated == (proc # "up" \/ ctlPc = "gone") /\ UNCHANGED vars

-----------------------------------------------------------------------------
Call ==
    \/ Start \/ StartOverThread \/ Stop \/ Destroy
    \/ \E S \in Selections : SetDevices(S)

CtlStep ==
    \/ StopReturns \/ SetDeviceBit \/ SetDevicesReturns
    \/ DestroyStops \/ DestroyReturns

RecStep ==
    \/ RecBegin \/ RecSpawn \/ RecScanMask \/ RecOpen \/ RecLoop
    \/ RecSelectTimeout \/ RecSelectReady
    \/ \E d \in Devices :
          RecReadFails(d) \/ RecReadEsc(d) \/ RecReadInput(d)
    \/ RecPush \/ RecFinish

RecFault ==
    \/ RecSelectError
    \/ \E d \in Devices : RecReadFreedXkb(d)

BufStep ==
    \/ BufCheck \/ BufEnter \/ BufTimeout \/ BufSample \/ BufTrim
    \/ BufFinal \/ BufDump

Next ==
    \/ Call \/ CtlStep \/ RecStep \/ RecFault
    \/ BufStep \/ BufSpuriousWakeup
    \/ Tick
    \/ \E d \in Devices, k \in EventKinds : DeviceEvent(d, k)
    \/ Terminated

Spec == Init /\ [][Next]_vars

\* Each thread is scheduled and time passes.  Nothing obliges the owner to call,
\* a device to report, or a fault or a spurious wakeup to happen.
Fairness ==
    /\ WF_vars(CtlStep)
    /\ WF_vars(RecStep)
    /\ WF_vars(BufStep)
    /\ WF_vars(Tick)

FairSpec == Spec /\ Fairness

-----------------------------------------------------------------------------
(***************************************************************************)
(* Properties.                                                             *)
(***************************************************************************)
RecPcs == {"none", "begin", "spawn", "mask", "loop", "select", "scan", "push",
           "finish", "done"}
BufPcs == {"none", "check", "enter", "wait", "sample", "trim", "final", "dump",
           "done"}

StopType == m_stop \in BOOLEAN /\ m_start_time \in Nat /\ m_stop_time \in Nat

ObjType ==
    /\ proc \in {"up", "terminated", "crashed"}
    /\ joinable \in BOOLEAN
    /\ xkb \in {"none", "live", "freed"}
    /\ fds \in {"open", "closed"}

MaskType == m_device_mask \subseteq 1..MaskBits /\ session \in Nat

CtlType ==
    /\ ctlPc \in {"idle", "join", "mask", "dtor", "dtorJoin", "gone"}
    /\ ctlIdx \in Nat \ {0}
    /\ ctlSel \subseteq Devices

RecType ==
    /\ recPc \in RecPcs
    /\ recIdx \in Nat \ {0}
    /\ recDevs \subseteq Devices /\ recReady \subseteq Devices
    /\ recHeld \in Record \cup {NoRecord}
    /\ recPc = "push" => recHeld \in Record

BufType ==
    /\ bufPc \in BufPcs
    /\ bufDeadline \in Nat /\ bufNow \in Nat /\ bufStart \in Int

DataType ==
    /\ m_input_buf \in Seq(Record) /\ captured \in Seq(Record)
    /\ m_recording_path \in Int
    /\ DOMAIN disk \subseteq Int
    /\ disk \in [DOMAIN disk -> File]

EnvType ==
    /\ now \in Nat /\ generated \in Nat /\ selectErrors \in Nat
    /\ queue \in [Devices -> Seq(EventKinds)]

\* Every variable of the recorder has its type.
TypeOK ==
    /\ StopType /\ ObjType /\ MaskType /\ CtlType
    /\ RecType /\ BufType /\ DataType /\ EnvType

RecRuns == recPc \notin {"none", "done"}
BufRuns == bufPc \notin {"none", "done"}

\* No thread outlives what it uses: Record() runs only while m_recorder_thread
\* is joinable and the descriptors are open, and processBuffer() only inside
\* Record(), whatever the order of Start, Stop, ESC and the destructor.
ThreadOwnership ==
    /\ RecRuns => joinable /\ fds = "open"
    /\ BufRuns => /\ Continuous
                  /\ recPc \in RecPcs \ {"none", "begin", "spawn", "done"}

\* m_input_buf is a suffix of what was pushed, and a record it has lost is
\* older than the window or has FILE_MAX_LINES newer ones after it: neither the
\* periodic trim nor the final one, racing push_back, ESC and Stop, drops a
\* record that the current window still needs.
LiveWindowKept ==
    \E k \in 0..Len(captured) :
        /\ m_input_buf = SubSeq(captured, k + 1, Len(captured))
        /\ \A i \in 1..k : \/ captured[i].ts < now - RecordingLength
                           \/ Len(captured) - i >= FileMaxLines

SortedByTime(s) == \A i, j \in 1..Len(s) : i < j => s[i].ts <= s[j].ts

\* Each recording file is in time order and has no record from before the
\* window it was cut to, also when records pushed after an earlier dump, or in
\* an earlier recording, were left in m_input_buf.
DumpInWindow ==
    \A p \in DOMAIN disk :
        /\ SortedByTime(disk[p].records)
        /\ \A i \in 1..Len(disk[p].records) :
              disk[p].records[i].ts >= disk[p].start

\* A record dated before its file's first line comes from an earlier recording:
\* the header, chosen by a second unlocked read of m_stop_time, is never later
\* than an event of the recording it heads.
HeaderCoversSession ==
    \A p \in DOMAIN disk : \A i \in 1..Len(disk[p].records) :
        LET r == disk[p].records[i]
        IN  r.ts < disk[p].header => r.session < disk[p].session

\* A fixed-length recording overshoots by one round of the select() loop at
\* most: one record per device is dated at or past its length.
FixedLengthOvershoot ==
    \A p \in DOMAIN disk : ~Continuous =>
        Cardinality({i \in 1..Len(disk[p].records) :
            disk[p].records[i].ts >= disk[p].header + RecordingLength})
          <= NumDevices

\* A recorder whose thread has ended is inactive, unless select() failed.
DoneMeansInactive == recPc = "done" /\ selectErrors = 0 => m_stop

\* A recording reads exactly the devices the owner last asked for.
DevicesAsConfigured ==
    recPc \in {"loop", "select", "scan", "push"} => recDevs = ctlSel

\* When Stop() returns, the path it returns names a complete file, written by
\* the recording it stopped.
StopReturnsFreshFile ==
    [][ctlPc = "join" /\ ctlPc' = "idle"
         => /\ m_recording_path \in DOMAIN disk
            /\ disk[m_recording_path].closed
            /\ disk[m_recording_path].session = session]_vars

\* A fixed-length recording ends by itself, whatever the owner does.
FixedLengthEnds == (recPc = "begin") ~> (recPc = "done" \/ proc # "up")

\* A Stop() that comes after the thread has cleared m_stop returns: both threads
\* notice the request, whether they wait, read or have ended on their own (ESC,
\* a failed select()), and the joins are never circular.
StopCompletes == (ctlPc = "join") ~> (ctlPc = "idle" \/ proc # "up")

(***************************************************************************)
(* The abstract life of a recording that this module implements.  Filling  *)
(* the mask is a detail of an idle owner, everything Record() does between *)
(* clearing m_stop and returning one of a running thread.                  *)
(***************************************************************************)
ThreadOf ==
    IF ~joinable THEN "none"
    ELSE IF recPc = "begin" THEN "new"
    ELSE IF recPc = "done" THEN "ended" ELSE "run"

Life == INSTANCE RecorderLifecycle WITH
            life <- [stop |-> m_stop, thread |-> ThreadOf],
            call <- IF ctlPc = "mask" THEN "idle" ELSE ctlPc

\* The recorder implements the abstract life: m_stop, the thread and the owner
\* change only as it says, whatever the two threads, ESC, expiry, faults and
\* the device mask do in between.
ImplementsLife == Life!Spec

\* It also implements the promise that a thread which was started begins, one
\* which was asked to stop ends, and Stop() and the destructor return.
ImplementsFairLife == Life!FairSpec

(***************************************************************************)
(* What the tests and the documents say, and the code does not keep.       *)
(***************************************************************************)

\* A second Start() is harmless once the first has made the recorder active:
\* it ends the process at most before the thread has cleared m_stop.
SecondStartHarmless ==
    [][proc = "up" /\ proc' = "terminated" => recPc = "begin"]_vars

\* The destructor joins the recording thread cleanly: the xkb state the thread
\* uses outlives it.
NoUseAfterFree == proc # "crashed"

\* A continuous recording's file holds the whole window: every record captured
\* by the time of the dump and dated in the window the file is cut to.
WindowComplete ==
    [][BufDump =>
         \A i \in 1..Len(captured) :
            \/ captured[i].ts < bufStart
            \/ Len(captured) - i >= FileMaxLines
            \/ Len(captured) - i < Len(m_input_buf')]_vars
=================================================================================
