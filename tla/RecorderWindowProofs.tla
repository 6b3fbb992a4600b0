-------------------------- MODULE RecorderWindowProofs --------------------------
(***************************************************************************)
(* The rolling window, for every number of devices, length, line limit and *)
(* order of calls: m_input_buf keeps what the current window needs         *)
(* (LiveWindowKept), and a file holds only what lies in the window it was  *)
(* cut to, in time order (DumpInWindow).                                   *)
(*                                                                         *)
(* Neither is inductive by itself.  The trims compare with times read      *)
(* earlier, so ClockInv says that no such time lies in the future.  The    *)
(* final trim stops at the first record in the window, so all the later    *)
(* ones are in it only if the buffer is sorted; it is, as the record about *)
(* to be pushed is not older than the last one pushed (BufferInv).  The    *)
(* files of a fixed-length recording grow by records dated now, which is   *)
(* why DiskInv bounds every date in a file by now.                         *)
(*                                                                         *)
(* HeaderCoversSession needs SessionInv: the buffer holds records of       *)
(* earlier recordings too, but none of the current one from before its     *)
(* start. FixedLengthOvershoot counts: OvershootInv adds the devices still *)
(* to be read in this turn of the loop to the records that are already     *)
(* late.                                                                   *)
(***************************************************************************)
EXTENDS RecorderProofs, FiniteSetTheorems

\* No time a thread has read lies in the future.
ClockInv ==
    /\ m_start_time <= now /\ m_stop_time <= now /\ bufNow <= now
    /\ bufPc = "dump" => bufStart <= now - RecordingLength

NotAfter(s, t) == \A i \in 1..Len(s) : s[i].ts <= t

\* The buffer is in time order, and so is what is about to be appended.
BufferInv ==
    /\ SortedByTime(m_input_buf)
    /\ NotAfter(m_input_buf, now)
    /\ recPc = "push" => recHeld.ts <= now /\ NotAfter(m_input_buf, recHeld.ts)

\* The file f, at time t.
FileInWindow(f, t) ==
    /\ SortedByTime(f.records)
    /\ f.start <= t
    /\ \A i \in 1..Len(f.records) :
          f.start <= f.records[i].ts /\ f.records[i].ts <= t

DiskInv == \A p \in DOMAIN disk : FileInWindow(disk[p], now)

-----------------------------------------------------------------------------
\* The buffer and the files are changed by six actions only.
LEMMA DataSteps ==
    ASSUME [Next]_vars
    PROVE  \/ UNCHANGED <<m_input_buf, captured, disk>>
           \/ RecOpen \/ RecPush \/ RecFinish \/ BufTrim \/ BufDump
           \/ \E d \in Devices : RecReadInput(d)
<1> DEFINE Goal == \/ UNCHANGED <<m_input_buf, captured, disk>>
                   \/ RecOpen \/ RecPush \/ RecFinish \/ BufTrim \/ BufDump
                   \/ \E d \in Devices : RecReadInput(d)
<1>1. CASE Start
  BY <1>1 DEF Start, dataVars
<1>2. CASE StartOverThread
  BY <1>2 DEF StartOverThread, dataVars
<1>3. CASE Stop
  BY <1>3 DEF Stop, dataVars
<1>4. CASE Destroy
  BY <1>4 DEF Destroy, dataVars
<1>5. ASSUME NEW S \in Selections, SetDevices(S) PROVE Goal
  BY <1>5 DEF SetDevices, dataVars
<1>6. CASE StopReturns
  BY <1>6 DEF StopReturns, dataVars
<1>7. CASE SetDeviceBit
  BY <1>7 DEF SetDeviceBit, dataVars
<1>8. CASE SetDevicesReturns
  BY <1>8 DEF SetDevicesReturns, dataVars
<1>9. CASE DestroyStops
  BY <1>9 DEF DestroyStops, dataVars
<1>10. CASE DestroyReturns
  BY <1>10 DEF DestroyReturns, dataVars
<1>11. CASE RecBegin
  BY <1>11 DEF RecBegin, dataVars
<1>12. CASE RecSpawn
  BY <1>12 DEF RecSpawn, dataVars
<1>13. CASE RecScanMask
  BY <1>13 DEF RecScanMask, dataVars
<1>14. CASE RecOpen
  BY <1>14
<1>15. CASE RecLoop
  BY <1>15 DEF RecLoop, dataVars
<1>16. CASE RecSelectTimeout
  BY <1>16 DEF RecSelectTimeout, dataVars
<1>17. CASE RecSelectReady
  BY <1>17 DEF RecSelectReady, dataVars
<1>18. ASSUME NEW d \in Devices, RecReadFails(d) PROVE Goal
  BY <1>18 DEF RecReadFails, dataVars
<1>19. ASSUME NEW d \in Devices, RecReadEsc(d) PROVE Goal
  BY <1>19 DEF RecReadEsc, dataVars
<1>20. ASSUME NEW d \in Devices, RecReadInput(d) PROVE Goal
  BY <1>20
<1>21. CASE RecPush
  BY <1>21
<1>22. CASE RecFinish
  BY <1>22
<1>23. CASE RecSelectError
  BY <1>23 DEF RecSelectError, dataVars
<1>24. ASSUME NEW d \in Devices, RecReadFreedXkb(d) PROVE Goal
  BY <1>24 DEF RecReadFreedXkb, dataVars
<1>25. CASE BufCheck
  BY <1>25 DEF BufCheck, dataVars
<1>26. CASE BufEnter
  BY <1>26 DEF BufEnter, dataVars
<1>27. CASE BufTimeout
  BY <1>27 DEF BufTimeout, dataVars
<1>28. CASE BufSample
  BY <1>28 DEF BufSample, dataVars
<1>29. CASE BufTrim
  BY <1>29
<1>30. CASE BufFinal
  BY <1>30 DEF BufFinal, dataVars
<1>31. CASE BufDump
  BY <1>31
<1>32. CASE BufSpuriousWakeup
  BY <1>32 DEF BufSpuriousWakeup, dataVars
<1>33. CASE Tick
  BY <1>33 DEF Tick, dataVars
<1>34. ASSUME NEW d \in Devices, NEW k \in EventKinds, DeviceEvent(d, k) PROVE Goal
  BY <1>34 DEF DeviceEvent, dataVars
<1>35. CASE UNCHANGED vars
  BY <1>35 DEF vars
<1> QED
  BY <1>1, <1>2, <1>3, <1>4, <1>5, <1>6, <1>7, <1>8, <1>9, <1>10, <1>11,
     <1>12, <1>13, <1>14, <1>15, <1>16, <1>17, <1>18, <1>19, <1>20, <1>21,
     <1>22, <1>23, <1>24, <1>25, <1>26, <1>27, <1>28, <1>29, <1>30, <1>31,
     <1>32, <1>33, <1>34, <1>35
     DEF Next, Call, CtlStep, RecStep, RecFault, BufStep, Terminated

\* Time only moves forward.
LEMMA NowGrows == TypeOK /\ [Next]_vars => now' \in Nat /\ now <= now'
<1> SUFFICES ASSUME TypeOK, [Next]_vars PROVE now' \in Nat /\ now <= now'
  OBVIOUS
<1> USE DEF TypeOK, EnvType
<1>1. CASE Start
  BY <1>1 DEF Start, envVars
<1>2. CASE StartOverThread
  BY <1>2 DEF StartOverThread, envVars
<1>3. CASE Stop
  BY <1>3 DEF Stop, envVars
<1>4. CASE Destroy
  BY <1>4 DEF Destroy, envVars
<1>5. ASSUME NEW S \in Selections, SetDevices(S) PROVE now' \in Nat /\ now <= now'
  BY <1>5 DEF SetDevices, envVars
<1>6. CASE StopReturns
  BY <1>6 DEF StopReturns, envVars
<1>7. CASE SetDeviceBit
  BY <1>7 DEF SetDeviceBit, envVars
<1>8. CASE SetDevicesReturns
  BY <1>8 DEF SetDevicesReturns, envVars
<1>9. CASE DestroyStops
  BY <1>9 DEF DestroyStops, envVars
<1>10. CASE DestroyReturns
  BY <1>10 DEF DestroyReturns, envVars
<1>11. CASE RecBegin
  BY <1>11 DEF RecBegin, envVars
<1>12. CASE RecSpawn
  BY <1>12 DEF RecSpawn, envVars
<1>13. CASE RecScanMask
  BY <1>13 DEF RecScanMask, envVars
<1>14. CASE RecOpen
  BY <1>14 DEF RecOpen, envVars
<1>15. CASE RecLoop
  BY <1>15 DEF RecLoop, envVars
<1>16. CASE RecSelectTimeout
  BY <1>16 DEF RecSelectTimeout, envVars
<1>17. CASE RecSelectReady
  BY <1>17 DEF RecSelectReady, envVars
<1>18. ASSUME NEW d \in Devices, RecReadFails(d) PROVE now' \in Nat /\ now <= now'
  BY <1>18 DEF RecReadFails, envVars
<1>19. ASSUME NEW d \in Devices, RecReadEsc(d) PROVE now' \in Nat /\ now <= now'
  BY <1>19 DEF RecReadEsc
<1>20. ASSUME NEW d \in Devices, RecReadInput(d) PROVE now' \in Nat /\ now <= now'
  BY <1>20 DEF RecReadInput
<1>21. CASE RecPush
  BY <1>21 DEF RecPush, envVars
<1>22. CASE RecFinish
  BY <1>22 DEF RecFinish, envVars
<1>23. CASE RecSelectError
  BY <1>23 DEF RecSelectError
<1>24. ASSUME NEW d \in Devices, RecReadFreedXkb(d) PROVE now' \in Nat /\ now <= now'
  BY <1>24 DEF RecReadFreedXkb, envVars
<1>25. CASE BufCheck
  BY <1>25 DEF BufCheck, envVars
<1>26. CASE BufEnter
  BY <1>26 DEF BufEnter, envVars
<1>27. CASE BufTimeout
  BY <1>27 DEF BufTimeout, envVars
<1>28. CASE BufSample
  BY <1>28 DEF BufSample, envVars
<1>29. CASE BufTrim
  BY <1>29 DEF BufTrim, envVars
<1>30. CASE BufFinal
  BY <1>30 DEF BufFinal, envVars
<1>31. CASE BufDump
  BY <1>31 DEF BufDump, envVars
<1>32. CASE BufSpuriousWakeup
  BY <1>32 DEF BufSpuriousWakeup, envVars
<1>33. CASE Tick
  BY <1>33 DEF Tick
<1>34. ASSUME NEW d \in Devices, NEW k \in EventKinds, DeviceEvent(d, k) PROVE now' \in Nat /\ now <= now'
  BY <1>34 DEF DeviceEvent
<1>35. CASE UNCHANGED vars
  BY <1>35 DEF vars
<1> QED
  BY <1>1, <1>2, <1>3, <1>4, <1>5, <1>6, <1>7, <1>8, <1>9, <1>10, <1>11,
     <1>12, <1>13, <1>14, <1>15, <1>16, <1>17, <1>18, <1>19, <1>20, <1>21,
     <1>22, <1>23, <1>24, <1>25, <1>26, <1>27, <1>28, <1>29, <1>30, <1>31,
     <1>32, <1>33, <1>34, <1>35
     DEF Next, Call, CtlStep, RecStep, RecFault, BufStep, Terminated

\* No step makes a thread hold a time of the future (current_time_ms() in
\* Record(), Stop() and processBuffer()).
LEMMA ClockStep == TypeOK /\ ClockInv /\ [Next]_vars => ClockInv'
<1> SUFFICES ASSUME TypeOK, ClockInv, [Next]_vars PROVE ClockInv'
  OBVIOUS
<1> USE LengthType DEF TypeOK, EnvType, StopType, BufType, ClockInv
<1>1. CASE Start
  BY <1>1 DEF Start, stopVars, bufVars, envVars
<1>2. CASE StartOverThread
  BY <1>2 DEF StartOverThread, stopVars, bufVars, envVars
<1>3. CASE Stop
  BY <1>3 DEF Stop, RequestStop, envVars
<1>4. CASE Destroy
  BY <1>4 DEF Destroy, stopVars, bufVars, envVars
<1>5. ASSUME NEW S \in Selections, SetDevices(S) PROVE ClockInv'
  BY <1>5 DEF SetDevices, stopVars, bufVars, envVars
<1>6. CASE StopReturns
  BY <1>6 DEF StopReturns, stopVars, bufVars, envVars
<1>7. CASE SetDeviceBit
  BY <1>7 DEF SetDeviceBit, stopVars, bufVars, envVars
<1>8. CASE SetDevicesReturns
  BY <1>8 DEF SetDevicesReturns, stopVars, bufVars, envVars
<1>9. CASE DestroyStops
  BY <1>9 DEF DestroyStops, RequestStop, envVars
<1>10. CASE DestroyReturns
  BY <1>10 DEF DestroyReturns, stopVars, bufVars, envVars
<1>11. CASE RecBegin
  BY <1>11 DEF RecBegin, bufVars, envVars
<1>12. CASE RecSpawn
  BY <1>12 DEF RecSpawn, stopVars, envVars
<1>13. CASE RecScanMask
  BY <1>13 DEF RecScanMask, stopVars, bufVars, envVars
<1>14. CASE RecOpen
  BY <1>14 DEF RecOpen, stopVars, bufVars, envVars
<1>15. CASE RecLoop
  BY <1>15 DEF RecLoop, bufVars, envVars
<1>16. CASE RecSelectTimeout
  BY <1>16 DEF RecSelectTimeout, stopVars, bufVars, envVars
<1>17. CASE RecSelectReady
  BY <1>17 DEF RecSelectReady, stopVars, bufVars, envVars
<1>18. ASSUME NEW d \in Devices, RecReadFails(d) PROVE ClockInv'
  BY <1>18 DEF RecReadFails, stopVars, bufVars, envVars
<1>19. ASSUME NEW d \in Devices, RecReadEsc(d) PROVE ClockInv'
  BY <1>19 DEF RecReadEsc, bufVars
<1>20. ASSUME NEW d \in Devices, RecReadInput(d) PROVE ClockInv'
  BY <1>20 DEF RecReadInput, stopVars, bufVars
<1>21. CASE RecPush
  BY <1>21 DEF RecPush, stopVars, bufVars, envVars
<1>22. CASE RecFinish
  BY <1>22 DEF RecFinish, stopVars, bufVars, envVars
<1>23. CASE RecSelectError
  BY <1>23 DEF RecSelectError, stopVars, bufVars
<1>24. ASSUME NEW d \in Devices, RecReadFreedXkb(d) PROVE ClockInv'
  BY <1>24 DEF RecReadFreedXkb, stopVars, bufVars, envVars
<1>25. CASE BufCheck
  BY <1>25 DEF BufCheck, BufAt, stopVars, envVars
<1>26. CASE BufEnter
  BY <1>26 DEF BufEnter, BufAt, stopVars, envVars
<1>27. CASE BufTimeout
  BY <1>27 DEF BufTimeout, BufAt, stopVars, envVars
<1>28. CASE BufSample
  BY <1>28 DEF BufSample, BufAt, stopVars, envVars
<1>29. CASE BufTrim
  BY <1>29 DEF BufTrim, BufAt, stopVars, envVars
<1>30. CASE BufFinal
  BY <1>30 DEF BufFinal, BufAt, stopVars, envVars
<1>31. CASE BufDump
  BY <1>31 DEF BufDump, BufAt, stopVars, envVars
<1>32. CASE BufSpuriousWakeup
  BY <1>32 DEF BufSpuriousWakeup, BufAt, stopVars, envVars
<1>33. CASE Tick
  BY <1>33 DEF Tick, stopVars, bufVars
<1>34. ASSUME NEW d \in Devices, NEW k \in EventKinds, DeviceEvent(d, k) PROVE ClockInv'
  BY <1>34 DEF DeviceEvent, stopVars, bufVars
<1>35. CASE UNCHANGED vars
  BY <1>35 DEF vars
<1> QED
  BY <1>1, <1>2, <1>3, <1>4, <1>5, <1>6, <1>7, <1>8, <1>9, <1>10, <1>11,
     <1>12, <1>13, <1>14, <1>15, <1>16, <1>17, <1>18, <1>19, <1>20, <1>21,
     <1>22, <1>23, <1>24, <1>25, <1>26, <1>27, <1>28, <1>29, <1>30, <1>31,
     <1>32, <1>33, <1>34, <1>35
     DEF Next, Call, CtlStep, RecStep, RecFault, BufStep, Terminated

-----------------------------------------------------------------------------
\* Dropping the first records of a suffix leaves a suffix.
LEMMA SuffixOfSuffix ==
    ASSUME NEW T, NEW s \in Seq(T), NEW k \in 0..Len(s),
           NEW j \in 1..(Len(s) - k + 1),
           NEW b, b = SubSeq(s, k + 1, Len(s))
    PROVE  /\ Len(b) = Len(s) - k
           /\ \A i \in 1..Len(b) : b[i] = s[k + i]
           /\ k + j - 1 \in 0..Len(s)
           /\ SubSeq(b, j, Len(b)) = SubSeq(s, (k + j - 1) + 1, Len(s))
  OBVIOUS

\* Appending the same record to a sequence and to a suffix of it.
LEMMA SuffixAppend ==
    ASSUME NEW T, NEW s \in Seq(T), NEW k \in 0..Len(s), NEW r \in T
    PROVE  Append(SubSeq(s, k + 1, Len(s)), r)
             = SubSeq(Append(s, r), k + 1, Len(Append(s, r)))
  OBVIOUS

\* A trim keeps LiveWindowKept if what it drops is outdated.
LEMMA TrimKeepsWindow ==
    ASSUME TypeOK, LiveWindowKept, NEW j \in 1..(Len(m_input_buf) + 1),
           m_input_buf' = SubSeq(m_input_buf, j, Len(m_input_buf)),
           captured' = captured, now' = now,
           \A i \in 1..(j - 1) :
              \/ m_input_buf[i].ts < now - RecordingLength
              \/ Len(m_input_buf) - i >= FileMaxLines
    PROVE  LiveWindowKept'
<1>1. captured \in Seq(Record) /\ m_input_buf \in Seq(Record)
  BY DEF TypeOK, DataType
<1>2. PICK k \in 0..Len(captured) :
         /\ m_input_buf = SubSeq(captured, k + 1, Len(captured))
         /\ \A i \in 1..k : \/ captured[i].ts < now - RecordingLength
                            \/ Len(captured) - i >= FileMaxLines
  BY DEF LiveWindowKept
<1>3. Len(m_input_buf) = Len(captured) - k
  BY <1>1, <1>2
<1>4. j \in 1..(Len(captured) - k + 1)
  BY <1>3
<1>5. /\ \A i \in 1..Len(m_input_buf) : m_input_buf[i] = captured[k + i]
      /\ k + j - 1 \in 0..Len(captured)
      /\ SubSeq(m_input_buf, j, Len(m_input_buf))
           = SubSeq(captured, (k + j - 1) + 1, Len(captured))
  BY <1>1, <1>2, <1>4, SuffixOfSuffix
<1>6. ASSUME NEW i \in 1..(k + j - 1)
      PROVE  \/ captured[i].ts < now - RecordingLength
             \/ Len(captured) - i >= FileMaxLines
  <2>1. CASE i <= k
    BY <1>2, <2>1, SMTT(30)
  <2>2. CASE i > k
    <3>1. i - k \in 1..(j - 1) /\ i - k \in 1..Len(m_input_buf)
      BY <1>1, <2>2
    <3>2. m_input_buf[i - k] = captured[i]
      BY <1>5, <3>1
    <3> QED
      BY <1>1, <1>3, <3>1, <3>2
  <2> QED
    BY <2>1, <2>2
<1> QED
  BY <1>5, <1>6 DEF LiveWindowKept

\* No step loses a record that the current window needs: only processBuffer()
\* pops, and it pops what is outdated.
LEMMA WindowStep ==
    TypeOK /\ ClockInv /\ LiveWindowKept /\ [Next]_vars => LiveWindowKept'
<1> SUFFICES ASSUME TypeOK, ClockInv, LiveWindowKept, [Next]_vars
             PROVE  LiveWindowKept'
  OBVIOUS
<1>1. now' \in Nat /\ now <= now' /\ now \in Nat /\ RecordingLength \in Nat
  BY NowGrows, LengthType DEF TypeOK, EnvType
<1>2. captured \in Seq(Record) /\ m_input_buf \in Seq(Record)
  BY DEF TypeOK, DataType
<1>3. CASE UNCHANGED <<m_input_buf, captured>>
  <2>1. PICK k \in 0..Len(captured) :
           /\ m_input_buf = SubSeq(captured, k + 1, Len(captured))
           /\ \A i \in 1..k : \/ captured[i].ts < now - RecordingLength
                              \/ Len(captured) - i >= FileMaxLines
    BY DEF LiveWindowKept
  <2>2. ASSUME NEW i \in 1..k
        PROVE  \/ captured[i].ts < now' - RecordingLength
               \/ Len(captured) - i >= FileMaxLines
    <3>0. captured[i] \in Record
      BY <1>2
    <3>1. captured[i].ts \in Nat
      BY <3>0 DEF Record
    <3> QED
      BY <1>1, <2>1, <3>1
  <2> QED
    BY <1>3, <2>1, <2>2 DEF LiveWindowKept
<1>4. CASE RecPush
  <2>1. recHeld \in Record /\ captured' = Append(captured, recHeld)
        /\ m_input_buf' = Append(m_input_buf, recHeld) /\ now' = now
    BY <1>4 DEF RecPush, RecAt, TypeOK, RecType, envVars
  <2>2. PICK k \in 0..Len(captured) :
           /\ m_input_buf = SubSeq(captured, k + 1, Len(captured))
           /\ \A i \in 1..k : \/ captured[i].ts < now - RecordingLength
                              \/ Len(captured) - i >= FileMaxLines
    BY DEF LiveWindowKept
  <2>3. m_input_buf' = SubSeq(captured', k + 1, Len(captured'))
    BY <1>2, <2>1, <2>2, SuffixAppend
  <2>4. /\ Len(captured') = Len(captured) + 1
        /\ \A i \in 1..k : captured'[i] = captured[i]
    BY <1>2, <2>1
  <2>5. ASSUME NEW i \in 1..k
        PROVE  \/ captured'[i].ts < now' - RecordingLength
               \/ Len(captured') - i >= FileMaxLines
    BY <1>2, <2>1, <2>2, <2>4, RecorderAssumption
  <2>6. k \in 0..Len(captured')
    BY <1>2, <2>4
  <2> QED
    BY <2>3, <2>5, <2>6 DEF LiveWindowKept
<1>5. CASE BufTrim
  <2>1. PICK j \in 1..(Len(m_input_buf) + 1) :
           /\ \A i \in 1..(j - 1) : Outdated(i)
           /\ m_input_buf' = SubSeq(m_input_buf, j, Len(m_input_buf))
    BY <1>5 DEF BufTrim, PopWhile
  <2>2. captured' = captured /\ now' = now
    BY <1>5 DEF BufTrim, envVars
  <2>3. ASSUME NEW i \in 1..(j - 1)
        PROVE  \/ m_input_buf[i].ts < now - RecordingLength
               \/ Len(m_input_buf) - i >= FileMaxLines
    <3>1. m_input_buf[i] \in Record /\ i \in Nat /\ Len(m_input_buf) \in Nat
      BY <1>2
    <3> QED
      BY <1>1, <2>1, <3>1, RecorderAssumption
         DEF Outdated, ClockInv, Record, TypeOK, BufType
  <2> QED
    BY <2>1, <2>2, <2>3, TrimKeepsWindow
<1>6. CASE BufDump
  <2>1. PICK j \in 1..(Len(m_input_buf) + 1) :
           /\ \A i \in 1..(j - 1) : BeforeWindow(i)
           /\ m_input_buf' = SubSeq(m_input_buf, j, Len(m_input_buf))
    BY <1>6 DEF BufDump, PopWhile
  <2>2. captured' = captured /\ now' = now /\ bufStart <= now - RecordingLength
    BY <1>6 DEF BufDump, envVars, BufAt, ClockInv
  <2>3. ASSUME NEW i \in 1..(j - 1)
        PROVE  m_input_buf[i].ts < now - RecordingLength
    <3>1. m_input_buf[i] \in Record
      BY <1>2
    <3> QED
      BY <1>1, <2>1, <2>2, <3>1 DEF BeforeWindow, Record, TypeOK, BufType
  <2> QED
    BY <2>1, <2>2, <2>3, TrimKeepsWindow
<1>7. CASE RecOpen
  BY <1>3, <1>7 DEF RecOpen
<1>8. CASE RecFinish
  BY <1>3, <1>8 DEF RecFinish
<1>9. CASE \E d \in Devices : RecReadInput(d)
  BY <1>3, <1>9 DEF RecReadInput
<1> QED
  BY <1>3, <1>4, <1>5, <1>6, <1>7, <1>8, <1>9, DataSteps

\* The rolling window of a continuous recording never loses a record that the
\* current window needs.
THEOREM LiveWindowCorrect == Spec => []LiveWindowKept
<1>1. Init => ClockInv /\ LiveWindowKept
  <2> SUFFICES ASSUME Init PROVE ClockInv /\ LiveWindowKept
    OBVIOUS
  <2>1. ClockInv
    BY DEF Init, ClockInv
  <2>2. LiveWindowKept
    <3>1. captured = <<>> /\ m_input_buf = <<>>
      BY DEF Init
    <3>2. m_input_buf = SubSeq(captured, 0 + 1, Len(captured))
      BY <3>1
    <3> QED
      BY <3>1, <3>2 DEF LiveWindowKept
  <2> QED
    BY <2>1, <2>2
<1>2. TypeOK /\ ClockInv /\ [Next]_vars => ClockInv'
  BY ClockStep
<1>3. TypeOK /\ ClockInv /\ LiveWindowKept /\ [Next]_vars => LiveWindowKept'
  BY WindowStep
<1> QED
  BY <1>1, <1>2, <1>3, TypeCorrect, PTL DEF Spec

-----------------------------------------------------------------------------
\* What is left of a sorted sequence is sorted and not later.
LEMMA SortedSuffix ==
    ASSUME NEW s \in Seq(Record), SortedByTime(s), NEW t \in Nat, NotAfter(s, t),
           NEW j \in 1..(Len(s) + 1)
    PROVE  LET b == SubSeq(s, j, Len(s))
           IN  /\ SortedByTime(b) /\ NotAfter(b, t)
               /\ Len(b) = Len(s) - j + 1
               /\ \A i \in 1..Len(b) : b[i] = s[j + i - 1]
<1> DEFINE b == SubSeq(s, j, Len(s))
<1>1. Len(b) = Len(s) - j + 1 /\ \A i \in 1..Len(b) : b[i] = s[j + i - 1]
  OBVIOUS
<1>2. SortedByTime(b) /\ NotAfter(b, t)
  BY <1>1, SMTT(30) DEF SortedByTime, NotAfter
<1> QED
  BY <1>1, <1>2

\* A sequence stays sorted when a record that is not older is appended.
LEMMA SortedAppend ==
    ASSUME NEW s \in Seq(Record), SortedByTime(s), NEW r \in Record,
           NotAfter(s, r.ts)
    PROVE  /\ SortedByTime(Append(s, r)) /\ NotAfter(Append(s, r), r.ts)
           /\ Len(Append(s, r)) = Len(s) + 1
           /\ \A i \in 1..Len(s) : Append(s, r)[i] = s[i]
           /\ Append(s, r)[Len(s) + 1] = r
<1> DEFINE b == Append(s, r)
<1>1. /\ Len(b) = Len(s) + 1 /\ b[Len(s) + 1] = r
      /\ \A i \in 1..Len(s) : b[i] = s[i]
  OBVIOUS
<1>2. r.ts \in Nat /\ \A i \in 1..Len(s) : s[i].ts \in Nat
  <2>1. \A i \in 1..Len(s) : s[i] \in Record
    OBVIOUS
  <2> QED
    BY <2>1 DEF Record
<1>3. SortedByTime(b)
  <2> SUFFICES ASSUME NEW i \in 1..Len(b), NEW j \in 1..Len(b), i < j
               PROVE  b[i].ts <= b[j].ts
    BY DEF SortedByTime
  <2>1. i \in 1..Len(s) /\ b[i] = s[i]
    BY <1>1
  <2>2. CASE j \in 1..Len(s)
    BY <1>1, <2>1, <2>2 DEF SortedByTime
  <2>3. CASE j = Len(s) + 1
    BY <1>1, <2>1, <2>3 DEF NotAfter
  <2> QED
    BY <1>1, <2>2, <2>3
<1>4. NotAfter(b, r.ts)
  BY <1>1, <1>2 DEF NotAfter
<1> QED
  BY <1>1, <1>3, <1>4

\* Dates that are not after a time are not after a later one.
LEMMA NotAfterLater ==
    ASSUME NEW s \in Seq(Record), NEW t \in Nat, NEW u \in Nat, t <= u, NotAfter(s, t)
    PROVE  NotAfter(s, u)
<1>1. \A i \in 1..Len(s) : s[i] \in Record
  OBVIOUS
<1> QED
  BY <1>1 DEF NotAfter, Record

\* Only RecReadInput leads to a push.
LEMMA HeldSteps ==
    ASSUME [Next]_vars, recPc' = "push"
    PROVE  \/ UNCHANGED <<recPc, recHeld>>
           \/ \E d \in Devices : RecReadInput(d)
<1> DEFINE Goal == \/ UNCHANGED <<recPc, recHeld>>
                   \/ \E d \in Devices : RecReadInput(d)
<1>1. CASE Start
  BY <1>1 DEF Start
<1>2. CASE StartOverThread
  BY <1>2 DEF StartOverThread, recVars
<1>3. CASE Stop
  BY <1>3 DEF Stop, recVars
<1>4. CASE Destroy
  BY <1>4 DEF Destroy, recVars
<1>5. ASSUME NEW S \in Selections, SetDevices(S) PROVE Goal
  BY <1>5 DEF SetDevices, recVars
<1>6. CASE StopReturns
  BY <1>6 DEF StopReturns, recVars
<1>7. CASE SetDeviceBit
  BY <1>7 DEF SetDeviceBit, recVars
<1>8. CASE SetDevicesReturns
  BY <1>8 DEF SetDevicesReturns, recVars
<1>9. CASE DestroyStops
  BY <1>9 DEF DestroyStops, recVars
<1>10. CASE DestroyReturns
  BY <1>10 DEF DestroyReturns, recVars
<1>11. CASE RecBegin
  BY <1>11 DEF RecBegin
<1>12. CASE RecSpawn
  BY <1>12 DEF RecSpawn
<1>13. CASE RecScanMask
  BY <1>13 DEF RecScanMask
<1>14. CASE RecOpen
  BY <1>14 DEF RecOpen
<1>15. CASE RecLoop
  BY <1>15 DEF RecLoop
<1>16. CASE RecSelectTimeout
  BY <1>16 DEF RecSelectTimeout
<1>17. CASE RecSelectReady
  BY <1>17 DEF RecSelectReady
<1>18. ASSUME NEW d \in Devices, RecReadFails(d) PROVE Goal
  BY <1>18 DEF RecReadFails, AfterDevice
<1>19. ASSUME NEW d \in Devices, RecReadEsc(d) PROVE Goal
  BY <1>19 DEF RecReadEsc, AfterDevice
<1>20. ASSUME NEW d \in Devices, RecReadInput(d) PROVE Goal
  BY <1>20
<1>21. CASE RecPush
  BY <1>21 DEF RecPush, AfterDevice
<1>22. CASE RecFinish
  BY <1>22 DEF RecFinish
<1>23. CASE RecSelectError
  BY <1>23 DEF RecSelectError
<1>24. ASSUME NEW d \in Devices, RecReadFreedXkb(d) PROVE Goal
  BY <1>24 DEF RecReadFreedXkb, recVars
<1>25. CASE BufCheck
  BY <1>25 DEF BufCheck, recVars
<1>26. CASE BufEnter
  BY <1>26 DEF BufEnter, recVars
<1>27. CASE BufTimeout
  BY <1>27 DEF BufTimeout, recVars
<1>28. CASE BufSample
  BY <1>28 DEF BufSample, recVars
<1>29. CASE BufTrim
  BY <1>29 DEF BufTrim, recVars
<1>30. CASE BufFinal
  BY <1>30 DEF BufFinal, recVars
<1>31. CASE BufDump
  BY <1>31 DEF BufDump, recVars
<1>32. CASE BufSpuriousWakeup
  BY <1>32 DEF BufSpuriousWakeup, recVars
<1>33. CASE Tick
  BY <1>33 DEF Tick, recVars
<1>34. ASSUME NEW d \in Devices, NEW k \in EventKinds, DeviceEvent(d, k) PROVE Goal
  BY <1>34 DEF DeviceEvent, recVars
<1>35. CASE UNCHANGED vars
  BY <1>35 DEF vars
<1> QED
  BY <1>1, <1>2, <1>3, <1>4, <1>5, <1>6, <1>7, <1>8, <1>9, <1>10, <1>11,
     <1>12, <1>13, <1>14, <1>15, <1>16, <1>17, <1>18, <1>19, <1>20, <1>21,
     <1>22, <1>23, <1>24, <1>25, <1>26, <1>27, <1>28, <1>29, <1>30, <1>31,
     <1>32, <1>33, <1>34, <1>35
     DEF Next, Call, CtlStep, RecStep, RecFault, BufStep, Terminated

\* Every step keeps m_input_buf in time order.
LEMMA BufferStep == TypeOK /\ BufferInv /\ [Next]_vars => BufferInv'
<1> SUFFICES ASSUME TypeOK, BufferInv, [Next]_vars PROVE BufferInv'
  OBVIOUS
<1>1. now' \in Nat /\ now <= now' /\ now \in Nat
  BY NowGrows DEF TypeOK, EnvType
<1>2. m_input_buf \in Seq(Record)
  BY DEF TypeOK, DataType
<1>3. ASSUME UNCHANGED m_input_buf
      PROVE  BufferInv'
  <2>1. SortedByTime(m_input_buf') /\ NotAfter(m_input_buf', now')
    BY <1>1, <1>2, <1>3, NotAfterLater DEF BufferInv
  <2>2. ASSUME recPc' = "push"
        PROVE  recHeld'.ts <= now' /\ NotAfter(m_input_buf', recHeld'.ts)
    <3>1. CASE UNCHANGED <<recPc, recHeld>>
      <4>1. recHeld.ts \in Nat
        BY <2>2, <3>1 DEF TypeOK, RecType, Record
      <4> QED
        BY <1>1, <1>3, <2>2, <3>1, <4>1 DEF BufferInv
    <3>2. CASE \E d \in Devices : RecReadInput(d)
      <4>1. now' = now /\ recHeld'.ts = now
        BY <2>2, <3>2 DEF RecReadInput, AfterDevice
      <4> QED
        BY <1>1, <1>3, <4>1 DEF BufferInv
    <3> QED
      BY <2>2, <3>1, <3>2, HeldSteps
  <2> QED
    BY <2>1, <2>2 DEF BufferInv
<1>4. CASE RecPush
  <2>1. /\ recHeld \in Record /\ NotAfter(m_input_buf, recHeld.ts)
        /\ recHeld.ts <= now
    BY <1>4 DEF RecPush, RecAt, TypeOK, RecType, BufferInv
  <2>2. /\ m_input_buf' = Append(m_input_buf, recHeld) /\ now' = now
        /\ recPc' # "push"
    BY <1>4 DEF RecPush, AfterDevice, envVars
  <2>3. SortedByTime(m_input_buf') /\ NotAfter(m_input_buf', recHeld.ts)
    BY <1>2, <2>1, <2>2, SortedAppend DEF BufferInv
  <2>4. m_input_buf' \in Seq(Record) /\ recHeld.ts \in Nat
    BY <1>2, <2>1, <2>2 DEF Record
  <2>5. NotAfter(m_input_buf', now')
    BY <1>1, <2>1, <2>2, <2>3, <2>4, NotAfterLater
  <2> QED
    BY <2>2, <2>3, <2>5 DEF BufferInv
<1>5. ASSUME BufTrim \/ BufDump
      PROVE  BufferInv'
  <2>1. PICK j \in 1..(Len(m_input_buf) + 1) :
           m_input_buf' = SubSeq(m_input_buf, j, Len(m_input_buf))
    BY <1>5 DEF BufTrim, BufDump, PopWhile
  <2>2. UNCHANGED <<now, recPc, recHeld>>
    BY <1>5 DEF BufTrim, BufDump, recVars, envVars
  <2>3. SortedByTime(m_input_buf') /\ NotAfter(m_input_buf', now)
    BY <1>1, <1>2, <2>1, SortedSuffix DEF BufferInv
  <2>4. recPc = "push" => NotAfter(m_input_buf', recHeld.ts)
    <3> SUFFICES ASSUME recPc = "push" PROVE NotAfter(m_input_buf', recHeld.ts)
      OBVIOUS
    <3>1. recHeld.ts \in Nat /\ NotAfter(m_input_buf, recHeld.ts)
      BY DEF TypeOK, RecType, Record, BufferInv
    <3> QED
      BY <1>2, <2>1, <3>1, SortedSuffix DEF BufferInv
  <2> QED
    BY <2>2, <2>3, <2>4 DEF BufferInv
<1>6. RecOpen \/ RecFinish \/ (\E d \in Devices : RecReadInput(d))
        => UNCHANGED m_input_buf
  BY DEF RecOpen, RecFinish, RecReadInput
<1> QED
  BY <1>3, <1>4, <1>5, <1>6, DataSteps

-----------------------------------------------------------------------------
\* A file in its window at time t is so later.
LEMMA FileStays ==
    ASSUME NEW f \in File, NEW t \in Nat, NEW u \in Nat, t <= u,
           FileInWindow(f, t)
    PROVE  FileInWindow(f, u)
<1>1. f.start \in Int /\ f.records \in Seq(Record)
  BY DEF File
<1>2. \A i \in 1..Len(f.records) : f.records[i] \in Record
  BY <1>1
<1>3. \A i \in 1..Len(f.records) : f.records[i].ts \in Nat
  BY <1>2 DEF Record
<1> QED
  BY <1>1, <1>3 DEF FileInWindow

\* Every step keeps every file in its window: the dump of processBuffer() cuts
\* it, Record() appends to it in order.
LEMMA DiskStep ==
    TypeOK /\ ClockInv /\ BufferInv /\ DiskInv /\ [Next]_vars => DiskInv'
<1> SUFFICES ASSUME TypeOK, ClockInv, BufferInv, DiskInv, [Next]_vars
             PROVE  DiskInv'
  OBVIOUS
<1>1. now' \in Nat /\ now <= now' /\ now \in Nat
  BY NowGrows DEF TypeOK, EnvType
<1>2. m_input_buf \in Seq(Record) /\ \A p \in DOMAIN disk : disk[p] \in File
  BY DEF TypeOK, DataType
<1>3. \A p \in DOMAIN disk : FileInWindow(disk[p], now')
  BY <1>1, <1>2, FileStays DEF DiskInv
<1>4. CASE UNCHANGED disk
  BY <1>3, <1>4 DEF DiskInv
<1>5. ASSUME NEW p, NEW f, disk' = Save(p, f), FileInWindow(f, now')
      PROVE  DiskInv'
  BY <1>3, <1>5 DEF DiskInv, Save
<1>6. CASE RecOpen
  <2> DEFINE f == [header |-> m_start_time, start |-> m_start_time,
                   records |-> <<>>, session |-> session, closed |-> FALSE]
  <2>1. CASE Continuous
    BY <1>4, <1>6, <2>1 DEF RecOpen
  <2>2. CASE ~Continuous
    <3>1. disk' = Save(FixedPath, f)
      BY <1>6, <2>2 DEF RecOpen
    <3>2. f.start = m_start_time /\ f.records = <<>> /\ now' = now
      BY <1>6 DEF RecOpen, envVars
    <3>3. FileInWindow(f, now')
      BY <3>2 DEF FileInWindow, SortedByTime, ClockInv
    <3> QED
      BY <1>5, <3>1, <3>3
  <2> QED
    BY <2>1, <2>2
<1>7. ASSUME NEW d \in Devices, RecReadInput(d)
      PROVE  DiskInv'
  <2> DEFINE r == [ts |-> now, dev |-> d, session |-> session]
  <2>1. CASE disk' = [disk EXCEPT ![FixedPath].records = Append(@, r)]
    <3>1. now' = now /\ DOMAIN disk' = DOMAIN disk
      BY <1>7, <2>1 DEF RecReadInput
    <3>2. ASSUME NEW p \in DOMAIN disk
          PROVE  FileInWindow(disk'[p], now)
      <4>1. CASE p # FixedPath
        BY <2>1, <4>1 DEF DiskInv
      <4>2. CASE p = FixedPath
        <5>1. disk'[p] = [disk[p] EXCEPT !.records = Append(disk[p].records, r)]
          BY <2>1, <4>2
        <5>2. disk[p] \in File /\ FileInWindow(disk[p], now)
          BY <1>2 DEF DiskInv
        <5>3. /\ disk'[p].start = disk[p].start
              /\ disk'[p].records = Append(disk[p].records, r)
              /\ disk[p].records \in Seq(Record)
          BY <5>1, <5>2 DEF File
        <5>4. r \in Record /\ r.ts = now
          BY DEF TypeOK, EnvType, MaskType, Record
        <5>5. NotAfter(disk[p].records, r.ts) /\ SortedByTime(disk[p].records)
          BY <5>2, <5>4 DEF NotAfter, FileInWindow
        <5> HIDE DEF r
        <5>6. /\ SortedByTime(disk'[p].records)
              /\ NotAfter(disk'[p].records, r.ts)
              /\ Len(disk'[p].records) = Len(disk[p].records) + 1
              /\ \A i \in 1..Len(disk[p].records) :
                    disk'[p].records[i] = disk[p].records[i]
              /\ disk'[p].records[Len(disk[p].records) + 1] = r
          BY <5>3, <5>4, <5>5, SortedAppend
        <5> QED
          BY <1>1, <5>2, <5>3, <5>4, <5>6 DEF FileInWindow, NotAfter
      <4> QED
        BY <4>1, <4>2
    <3> QED
      BY <3>1, <3>2 DEF DiskInv
  <2> QED
    BY <1>4, <1>7, <2>1 DEF RecReadInput
<1>8. CASE RecFinish
  <2>1. CASE Continuous
    BY <1>4, <1>8, <2>1 DEF RecFinish
  <2>2. CASE ~Continuous
    <3>1. disk' = [disk EXCEPT ![FixedPath].closed = TRUE] /\ now' = now
      BY <1>8, <2>2 DEF RecFinish, envVars
    <3>2. ASSUME NEW p \in DOMAIN disk
          PROVE  FileInWindow(disk'[p], now)
      <4>1. disk[p] \in File
        BY <1>2
      <4>2. disk'[p].start = disk[p].start /\ disk'[p].records = disk[p].records
        BY <3>1, <4>1 DEF File
      <4> QED
        BY <4>2 DEF DiskInv, FileInWindow
    <3> QED
      BY <3>1, <3>2 DEF DiskInv
  <2> QED
    BY <2>1, <2>2
<1>9. CASE BufDump
  <2> DEFINE f == [header |-> HeaderTime, start |-> bufStart,
                   records |-> m_input_buf', session |-> session,
                   closed |-> TRUE]
  <2>1. PICK j \in 1..(Len(m_input_buf) + 1) :
           /\ j <= Len(m_input_buf) => ~BeforeWindow(j)
           /\ m_input_buf' = SubSeq(m_input_buf, j, Len(m_input_buf))
    BY <1>9 DEF BufDump, PopWhile
  <2>2. now' = now /\ disk' = Save(PathNow, f) /\ bufStart \in Int
    BY <1>9 DEF BufDump, envVars, TypeOK, BufType
  <2>3. bufStart <= now
    BY <1>1, <1>9, LengthType DEF BufDump, BufAt, ClockInv, TypeOK, BufType
  <2>4. /\ SortedByTime(m_input_buf') /\ NotAfter(m_input_buf', now)
        /\ Len(m_input_buf') = Len(m_input_buf) - j + 1
        /\ \A i \in 1..Len(m_input_buf') :
              m_input_buf'[i] = m_input_buf[j + i - 1]
    BY <1>1, <1>2, <2>1, SortedSuffix DEF BufferInv
  <2>5. ASSUME NEW i \in 1..Len(m_input_buf')
        PROVE  bufStart <= m_input_buf'[i].ts
    <3>1. /\ j \in 1..Len(m_input_buf) /\ j + i - 1 \in 1..Len(m_input_buf)
          /\ j <= j + i - 1
      BY <1>2, <2>1, <2>4
    <3>2. m_input_buf[j] \in Record /\ m_input_buf[j + i - 1] \in Record
      BY <1>2, <3>1
    <3>3. m_input_buf[j].ts <= m_input_buf[j + i - 1].ts
      BY <3>1, <3>2 DEF BufferInv, SortedByTime, Record
    <3>4. bufStart <= m_input_buf[j].ts
      <4>1. ~(m_input_buf[j].ts < bufStart)
        BY <2>1, <3>1 DEF BeforeWindow
      <4>2. m_input_buf[j].ts \in Nat
        BY <3>2 DEF Record
      <4> QED
        BY <2>2, <4>1, <4>2
    <3> QED
      BY <2>2, <2>4, <3>2, <3>3, <3>4, SMTT(30) DEF Record
  <2>6. f.start = bufStart /\ f.records = m_input_buf'
    OBVIOUS
  <2>7. FileInWindow(f, now')
    BY <2>2, <2>3, <2>4, <2>5, <2>6 DEF FileInWindow, NotAfter
  <2> QED
    BY <1>5, <2>2, <2>7
<1>10. RecPush \/ BufTrim => UNCHANGED disk
  BY DEF RecPush, BufTrim
<1> QED
  BY <1>4, <1>6, <1>7, <1>8, <1>9, <1>10, DataSteps

\* Every recording file is in time order and inside the window it was cut to.
THEOREM DumpInWindowCorrect == Spec => []DumpInWindow
<1>1. Init => ClockInv /\ BufferInv /\ DiskInv
  <2> SUFFICES ASSUME Init PROVE ClockInv /\ BufferInv /\ DiskInv
    OBVIOUS
  <2>1. ClockInv
    BY DEF Init, ClockInv
  <2>2. BufferInv
    BY DEF Init, BufferInv, SortedByTime, NotAfter
  <2>3. DiskInv
    BY DEF Init, DiskInv
  <2> QED
    BY <2>1, <2>2, <2>3
<1>2. TypeOK /\ ClockInv /\ [Next]_vars => ClockInv'
  BY ClockStep
<1>3. TypeOK /\ BufferInv /\ [Next]_vars => BufferInv'
  BY BufferStep
<1>4. TypeOK /\ ClockInv /\ BufferInv /\ DiskInv /\ [Next]_vars => DiskInv'
  BY DiskStep
<1>5. TypeOK /\ DiskInv => DumpInWindow
  <2> SUFFICES ASSUME TypeOK, DiskInv, NEW p \in DOMAIN disk,
                      NEW i \in 1..Len(disk[p].records)
               PROVE  disk[p].records[i].ts >= disk[p].start
    BY DEF DumpInWindow, DiskInv, FileInWindow
  <2>1. disk[p] \in File
    BY DEF TypeOK, DataType
  <2>2. disk[p].records \in Seq(Record) /\ disk[p].start \in Int
    BY <2>1 DEF File
  <2>3. disk[p].records[i] \in Record
    BY <2>2
  <2>4. disk[p].start <= disk[p].records[i].ts
    BY DEF DiskInv, FileInWindow
  <2> QED
    BY <2>2, <2>3, <2>4 DEF Record
<1> QED
  BY <1>1, <1>2, <1>3, <1>4, <1>5, TypeCorrect, PTL DEF Spec

-----------------------------------------------------------------------------
(***************************************************************************)
(* The first line of a file.  A continuous recording keeps records of an   *)
(* earlier recording in m_input_buf; SessionInv says that those of the     *)
(* current one are not older than m_start_time, which is one of the two    *)
(* times HeaderTime chooses from.                                          *)
(***************************************************************************)

\* The record r is not of a recording to come, and one of recording s, which
\* began at t, is not older than t; there is none before it has begun.
OfSession(r, s, t, begun) ==
    /\ r.session <= s
    /\ r.session = s => begun /\ t <= r.ts

SessionInv ==
    /\ \A i \in 1..Len(m_input_buf) :
          OfSession(m_input_buf[i], session, m_start_time, recPc # "begin")
    /\ recPc = "push" => OfSession(recHeld, session, m_start_time, TRUE)

\* Records dated before the first line of the file f are of an earlier session.
HeadedFile(f) ==
    \A i \in 1..Len(f.records) :
        f.records[i].ts < f.header => f.records[i].session < f.session

HeaderInv ==
    \A p \in DOMAIN disk :
        HeadedFile(disk[p]) /\ (~Continuous => disk[p].header <= now)

\* A recording begins in two steps, Start() and the first of Record(); no other
\* step changes its number or its start.
LEMMA SessionSteps ==
    ASSUME [Next]_vars
    PROVE  \/ /\ UNCHANGED <<session, m_start_time>>
              /\ recPc' = "begin" <=> recPc = "begin"
           \/ Start \/ RecBegin
<1> DEFINE Same == /\ UNCHANGED <<session, m_start_time>>
                   /\ recPc' = "begin" <=> recPc = "begin"
<1>1. CASE \/ StartOverThread \/ Stop \/ Destroy \/ CtlStep
           \/ \E S \in Selections : SetDevices(S)
  <2>1. Same
    BY <1>1
       DEF CtlStep, StartOverThread, Stop, Destroy, StopReturns, SetDeviceBit,
           SetDevicesReturns, DestroyStops, DestroyReturns, SetDevices,
           RequestStop, stopVars, recVars
  <2> QED
    BY <2>1
<1>2. CASE \/ RecSpawn \/ RecScanMask \/ RecOpen \/ RecLoop \/ RecSelectTimeout
           \/ RecSelectReady \/ RecPush \/ RecFinish \/ RecSelectError
  <2>1. Same
    BY <1>2
       DEF RecSpawn, RecScanMask, RecOpen, RecLoop, RecSelectTimeout,
           RecSelectReady, RecPush, RecFinish, RecSelectError, RecAt,
           AfterDevice, stopVars
  <2> QED
    BY <2>1
<1>3. ASSUME NEW d \in Devices,
             \/ RecReadFails(d) \/ RecReadEsc(d) \/ RecReadInput(d)
             \/ RecReadFreedXkb(d)
      PROVE  Same
  BY <1>3
     DEF RecReadFails, RecReadEsc, RecReadInput, RecReadFreedXkb, NextReady,
         RecAt, AfterDevice, stopVars, recVars
<1>4. CASE BufStep \/ BufSpuriousWakeup
  <2>1. Same
    BY <1>4
       DEF BufStep, BufCheck, BufEnter, BufTimeout, BufSample, BufTrim, BufFinal,
           BufDump, BufSpuriousWakeup, stopVars, recVars
  <2> QED
    BY <2>1
<1>5. CASE \/ Tick \/ UNCHANGED vars
           \/ \E d \in Devices, k \in EventKinds : DeviceEvent(d, k)
  <2>1. Same
    BY <1>5 DEF Tick, DeviceEvent, vars, stopVars, recVars
  <2> QED
    BY <2>1
<1> QED
  BY <1>1, <1>2, <1>3, <1>4, <1>5
     DEF Next, Call, RecStep, RecFault, Terminated

\* The next recording finds only records of earlier ones.
LEMMA SessionOver ==
    ASSUME NEW r \in Record, NEW s \in Nat, NEW t, NEW u, NEW b, NEW c,
           OfSession(r, s, t, b)
    PROVE  OfSession(r, s + 1, u, c)
<1>1. r.session \in Nat
  BY DEF Record
<1> QED
  BY <1>1 DEF OfSession

\* Every step keeps the current recording's records after its start.
LEMMA SessionStep ==
    TypeOK /\ ClockInv /\ SessionInv /\ [Next]_vars => SessionInv'
<1> SUFFICES ASSUME TypeOK, ClockInv, SessionInv, [Next]_vars PROVE SessionInv'
  OBVIOUS
<1>1. m_input_buf \in Seq(Record) /\ session \in Nat
  BY DEF TypeOK, DataType, MaskType
<1>2. \A i \in 1..Len(m_input_buf) : m_input_buf[i] \in Record
  BY <1>1
<1>3. CASE Start
  <2>1. /\ UNCHANGED <<m_input_buf, m_start_time>> /\ session' = session + 1
        /\ recPc' = "begin"
    BY <1>3 DEF Start, stopVars, dataVars
  <2>2. \A i \in 1..Len(m_input_buf) :
           OfSession(m_input_buf[i], session + 1, m_start_time, FALSE)
    BY <1>1, <1>2, SessionOver DEF SessionInv
  <2> QED
    BY <2>1, <2>2 DEF SessionInv
<1>4. CASE RecBegin
  <2>1. /\ UNCHANGED <<m_input_buf, session>> /\ recPc = "begin"
        /\ recPc' = "spawn"
    BY <1>4 DEF RecBegin, RecAt, dataVars
  <2> QED
    BY <2>1 DEF SessionInv, OfSession
<1>5. ASSUME UNCHANGED <<session, m_start_time>>,
             recPc' = "begin" <=> recPc = "begin"
      PROVE  SessionInv'
  <2>1. \A i \in 1..Len(m_input_buf) :
           OfSession(m_input_buf[i], session', m_start_time', recPc' # "begin")
    BY <1>5 DEF SessionInv, OfSession
  <2>2. recPc' = "push" => OfSession(recHeld', session', m_start_time', TRUE)
    <3> SUFFICES ASSUME recPc' = "push"
                 PROVE  OfSession(recHeld', session', m_start_time', TRUE)
      OBVIOUS
    <3>1. CASE UNCHANGED <<recPc, recHeld>>
      BY <1>5, <3>1 DEF SessionInv
    <3>2. ASSUME NEW d \in Devices, RecReadInput(d)
          PROVE  OfSession(recHeld', session', m_start_time', TRUE)
      <4>1. recHeld' = [ts |-> now, dev |-> d, session |-> session]
        BY <3>2 DEF RecReadInput, AfterDevice
      <4>2. recHeld'.ts = now /\ recHeld'.session = session
        BY <4>1
      <4> QED
        BY <1>1, <1>5, <4>2 DEF OfSession, ClockInv
    <3> QED
      BY <3>1, <3>2, HeldSteps
  <2>3. CASE UNCHANGED m_input_buf
    BY <2>1, <2>2, <2>3 DEF SessionInv
  <2>4. CASE RecPush
    <3>1. /\ recHeld \in Record /\ recPc = "push"
          /\ m_input_buf' = Append(m_input_buf, recHeld)
      BY <2>4 DEF RecPush, RecAt, TypeOK, RecType
    <3>2. /\ Len(m_input_buf') = Len(m_input_buf) + 1
          /\ m_input_buf'[Len(m_input_buf) + 1] = recHeld
          /\ \A i \in 1..Len(m_input_buf) : m_input_buf'[i] = m_input_buf[i]
      BY <1>1, <3>1
    <3>3. OfSession(recHeld, session', m_start_time', recPc' # "begin")
      BY <1>5, <3>1 DEF SessionInv, OfSession
    <3>4. ASSUME NEW i \in 1..Len(m_input_buf')
          PROVE  OfSession(m_input_buf'[i], session', m_start_time', recPc' # "begin")
      <4>1. CASE i \in 1..Len(m_input_buf)
        BY <2>1, <3>2, <4>1
      <4>2. CASE i = Len(m_input_buf) + 1
        BY <3>2, <3>3, <4>2
      <4> QED
        BY <1>1, <3>2, <4>1, <4>2
    <3> QED
      BY <2>2, <3>4 DEF SessionInv
  <2>5. CASE BufTrim \/ BufDump
    <3>1. PICK j \in 1..(Len(m_input_buf) + 1) :
             m_input_buf' = SubSeq(m_input_buf, j, Len(m_input_buf))
      BY <2>5 DEF BufTrim, BufDump, PopWhile
    <3>2. ASSUME NEW i \in 1..Len(m_input_buf')
          PROVE  /\ j + i - 1 \in 1..Len(m_input_buf)
                 /\ m_input_buf'[i] = m_input_buf[j + i - 1]
      BY <1>1, <3>1
    <3> QED
      BY <2>1, <2>2, <3>2 DEF SessionInv
  <2>6. RecOpen \/ RecFinish \/ (\E d \in Devices : RecReadInput(d))
          => UNCHANGED m_input_buf
    BY DEF RecOpen, RecFinish, RecReadInput
  <2> QED
    BY <2>3, <2>4, <2>5, <2>6, DataSteps
<1> QED
  BY <1>3, <1>4, <1>5, SessionSteps

\* Every step keeps the first lines right: a fixed-length recording appends
\* records dated now, and the dump's records are neither before the window nor,
\* if of this recording, before m_start_time.
LEMMA HeaderStep ==
    TypeOK /\ ClockInv /\ BufferInv /\ DiskInv /\ SessionInv /\ HeaderInv
      /\ ThreadInv /\ [Next]_vars
      => HeaderInv'
<1> SUFFICES ASSUME TypeOK, ClockInv, BufferInv, DiskInv, SessionInv, HeaderInv,
                    ThreadInv, [Next]_vars
             PROVE  HeaderInv'
  OBVIOUS
<1>1. now' \in Nat /\ now <= now' /\ now \in Nat /\ m_start_time \in Nat
  BY NowGrows DEF TypeOK, EnvType, StopType
<1>2. \A p \in DOMAIN disk : disk[p] \in File /\ disk[p].header \in Int
  BY DEF TypeOK, DataType, File
<1>3. \A p \in DOMAIN disk :
         HeadedFile(disk[p]) /\ (~Continuous => disk[p].header <= now')
  BY <1>1, <1>2 DEF HeaderInv
<1>4. CASE UNCHANGED disk
  BY <1>3, <1>4 DEF HeaderInv
<1>5. ASSUME NEW q, NEW f, disk' = Save(q, f), HeadedFile(f),
             ~Continuous => f.header <= now'
      PROVE  HeaderInv'
  BY <1>3, <1>5 DEF HeaderInv, Save
<1>6. CASE RecOpen
  <2> DEFINE f == [header |-> m_start_time, start |-> m_start_time,
                   records |-> <<>>, session |-> session, closed |-> FALSE]
  <2>1. CASE Continuous
    BY <1>4, <1>6, <2>1 DEF RecOpen
  <2>2. CASE ~Continuous
    <3>1. disk' = Save(FixedPath, f) /\ now' = now
      BY <1>6, <2>2 DEF RecOpen, envVars
    <3>2. HeadedFile(f) /\ f.header <= now'
      BY <3>1 DEF HeadedFile, ClockInv
    <3> QED
      BY <1>5, <3>1, <3>2
  <2> QED
    BY <2>1, <2>2
<1>7. ASSUME NEW d \in Devices, RecReadInput(d)
      PROVE  HeaderInv'
  <2> DEFINE r == [ts |-> now, dev |-> d, session |-> session]
  <2>1. CASE ~Continuous /\ disk' = [disk EXCEPT ![FixedPath].records = Append(@, r)]
    <3>1. now' = now /\ DOMAIN disk' = DOMAIN disk
      BY <1>7, <2>1 DEF RecReadInput
    <3>2. ASSUME NEW p \in DOMAIN disk
          PROVE  HeadedFile(disk'[p]) /\ disk'[p].header <= now
      <4>1. CASE p # FixedPath
        BY <2>1, <3>1, <1>3, <4>1
      <4>2. CASE p = FixedPath
        <5>1. disk'[p] = [disk[p] EXCEPT !.records = Append(disk[p].records, r)]
          BY <2>1, <4>2
        <5>2. /\ disk'[p].header = disk[p].header
              /\ disk'[p].session = disk[p].session
              /\ disk'[p].records = Append(disk[p].records, r)
              /\ disk[p].records \in Seq(Record)
          BY <1>2, <5>1 DEF File
        <5>3. disk[p].header <= now /\ r.ts = now
          BY <1>3, <2>1, <3>1
        <5> HIDE DEF r
        <5>4. /\ Len(disk'[p].records) = Len(disk[p].records) + 1
              /\ \A i \in 1..Len(disk[p].records) :
                    disk'[p].records[i] = disk[p].records[i]
              /\ disk'[p].records[Len(disk[p].records) + 1] = r
          BY <5>2
        <5>5. ASSUME NEW i \in 1..Len(disk'[p].records),
                     disk'[p].records[i].ts < disk'[p].header
              PROVE  disk'[p].records[i].session < disk'[p].session
          <6>1. i \in 1..Len(disk[p].records) \/ i = Len(disk[p].records) + 1
            BY <5>2, <5>4
          <6>2. i # Len(disk[p].records) + 1
            BY <1>1, <1>2, <5>2, <5>3, <5>4, <5>5
          <6> QED
            BY <1>3, <5>2, <5>4, <5>5, <6>1, <6>2 DEF HeadedFile
        <5> QED
          BY <5>2, <5>3, <5>5 DEF HeadedFile
      <4> QED
        BY <4>1, <4>2
    <3> QED
      BY <3>1, <3>2 DEF HeaderInv
  <2> QED
    BY <1>4, <1>7, <2>1 DEF RecReadInput
<1>8. CASE RecFinish
  <2>1. CASE Continuous
    BY <1>4, <1>8, <2>1 DEF RecFinish
  <2>2. CASE ~Continuous
    <3>1. disk' = [disk EXCEPT ![FixedPath].closed = TRUE] /\ now' = now
      BY <1>8, <2>2 DEF RecFinish, envVars
    <3>2. ASSUME NEW p \in DOMAIN disk
          PROVE  HeadedFile(disk'[p]) /\ disk'[p].header <= now
      <4>1. /\ disk'[p].header = disk[p].header /\ disk'[p].records = disk[p].records
            /\ disk'[p].session = disk[p].session
        BY <1>2, <3>1 DEF File
      <4> QED
        BY <1>3, <2>2, <3>1, <4>1 DEF HeadedFile
    <3> QED
      BY <3>1, <3>2 DEF HeaderInv
  <2> QED
    BY <2>1, <2>2
<1>9. CASE BufDump
  <2> DEFINE f == [header |-> HeaderTime, start |-> bufStart,
                   records |-> m_input_buf', session |-> session,
                   closed |-> TRUE]
  <2>1. Continuous
    BY <1>9 DEF BufDump, BufAt, BufRuns, ThreadInv, ThreadOwnership
  <2>2. disk' = Save(PathNow, f) /\ UNCHANGED <<session, m_start_time>>
    BY <1>9 DEF BufDump, stopVars
  <2>3. /\ f.header = HeaderTime /\ f.start = bufStart /\ f.session = session
        /\ f.records = m_input_buf'
    OBVIOUS
  <2>4. DiskInv' /\ SessionInv' /\ TypeOK'
    BY DiskStep, SessionStep, NextTypes
  <2>5. disk'[PathNow] = f /\ PathNow \in DOMAIN disk'
    BY <2>2 DEF Save
  <2>6. \A i \in 1..Len(m_input_buf') : bufStart <= m_input_buf'[i].ts
    BY <2>3, <2>4, <2>5 DEF DiskInv, FileInWindow
  <2>7. HeaderTime = bufStart \/ HeaderTime = m_start_time
    BY DEF HeaderTime
  <2> HIDE DEF f
  <2>8. ASSUME NEW i \in 1..Len(m_input_buf'), m_input_buf'[i].ts < HeaderTime
        PROVE  m_input_buf'[i].session < session
    <3>1. m_input_buf' \in Seq(Record)
      BY <2>4 DEF TypeOK, DataType
    <3>2. m_input_buf'[i] \in Record
      BY <3>1
    <3>3. m_input_buf'[i].ts \in Nat /\ m_input_buf'[i].session \in Nat
      BY <3>2 DEF Record
    <3>4. bufStart \in Int /\ session \in Nat
      BY DEF TypeOK, BufType, MaskType
    <3>5. HeaderTime = m_start_time
      BY <2>6, <2>7, <2>8, <3>3, <3>4
    <3>6. OfSession(m_input_buf'[i], session, m_start_time, (recPc # "begin")')
      BY <2>2, <2>4 DEF SessionInv
    <3> QED
      BY <1>1, <2>8, <3>3, <3>4, <3>5, <3>6 DEF OfSession
  <2>9. HeadedFile(f)
    BY <2>3, <2>8 DEF HeadedFile
  <2> QED
    BY <1>5, <2>1, <2>2, <2>9
<1>10. RecPush \/ BufTrim => UNCHANGED disk
  BY DEF RecPush, BufTrim
<1> QED
  BY <1>4, <1>6, <1>7, <1>8, <1>9, <1>10, DataSteps

\* The first line of a recording file is never later than an event of the
\* recording it heads, although m_stop_time is read twice without its lock.
THEOREM HeaderCorrect == Spec => []HeaderCoversSession
<1>1. Init => ThreadInv /\ ClockInv /\ BufferInv /\ DiskInv /\ SessionInv /\ HeaderInv
  <2> SUFFICES ASSUME Init
               PROVE  ThreadInv /\ ClockInv /\ BufferInv /\ DiskInv /\ SessionInv
                        /\ HeaderInv
    OBVIOUS
  <2>1. ThreadInv /\ ClockInv
    BY DEF Init, ThreadInv, ThreadOwnership, RecRuns, BufRuns, ClockInv
  <2>2. BufferInv /\ SessionInv
    BY DEF Init, BufferInv, SortedByTime, NotAfter, SessionInv
  <2>3. DiskInv /\ HeaderInv
    BY DEF Init, DiskInv, HeaderInv
  <2> QED
    BY <2>1, <2>2, <2>3
<1>2. TypeOK /\ ThreadInv /\ [Next]_vars => ThreadInv'
  BY NextThreads
<1>3. TypeOK /\ ClockInv /\ [Next]_vars => ClockInv'
  BY ClockStep
<1>4. TypeOK /\ BufferInv /\ [Next]_vars => BufferInv'
  BY BufferStep
<1>5. TypeOK /\ ClockInv /\ BufferInv /\ DiskInv /\ [Next]_vars => DiskInv'
  BY DiskStep
<1>6. TypeOK /\ ClockInv /\ SessionInv /\ [Next]_vars => SessionInv'
  BY SessionStep
<1>7. TypeOK /\ ClockInv /\ BufferInv /\ DiskInv /\ SessionInv /\ HeaderInv
        /\ ThreadInv /\ [Next]_vars => HeaderInv'
  BY HeaderStep
<1>8. HeaderInv => HeaderCoversSession
  BY DEF HeaderInv, HeadedFile, HeaderCoversSession
<1> QED
  BY <1>1, <1>2, <1>3, <1>4, <1>5, <1>6, <1>7, <1>8, TypeCorrect, PTL DEF Spec

-----------------------------------------------------------------------------
(***************************************************************************)
(* The overshoot of a fixed-length recording.  Its length is tested once   *)
(* per select(), so none of its records is late when select() is entered,  *)
(* and from then on each device that was reported adds one at most:        *)
(* OvershootInv counts the late records and the devices still to be read.  *)
(***************************************************************************)
Late(f) ==
    {i \in 1..Len(f.records) : f.records[i].ts >= f.header + RecordingLength}

OvershootInv ==
    ~Continuous =>
        /\ \A p \in DOMAIN disk : Cardinality(Late(disk[p])) <= NumDevices
        /\ recPc \in Opened =>
              FixedPath \in DOMAIN disk /\ disk[FixedPath].header = m_start_time
        /\ recPc # "push"
        /\ recPc = "select" => Late(disk[FixedPath]) = {}
        /\ recPc = "scan" =>
              Cardinality(Late(disk[FixedPath])) + Cardinality(recReady) <= NumDevices

\* Only finitely many records are late.
LEMMA LateFinite ==
    ASSUME NEW f \in File
    PROVE  IsFiniteSet(Late(f)) /\ Cardinality(Late(f)) \in Nat
<1>1. Len(f.records) \in Nat
  BY DEF File
<1>2. IsFiniteSet(1..Len(f.records)) /\ Late(f) \in SUBSET (1..Len(f.records))
  BY <1>1, FS_Interval DEF Late
<1>3. IsFiniteSet(Late(f))
  BY <1>2, FS_Subset
<1> QED
  BY <1>3, FS_CardinalityType

\* A record that is appended adds one late record at most.
LEMMA LateAppend ==
    ASSUME NEW f \in File, NEW g \in File, NEW r \in Record,
           g.header = f.header, g.records = Append(f.records, r)
    PROVE  Cardinality(Late(g)) <= Cardinality(Late(f)) + 1
<1> DEFINE n == Len(f.records) + 1
<1>1. f.records \in Seq(Record)
  BY DEF File
<1>2. /\ Len(g.records) = n /\ \A i \in 1..Len(f.records) : g.records[i] = f.records[i]
      /\ Len(f.records) \in Nat
  BY <1>1
<1>3. Late(g) \subseteq Late(f) \cup {n}
  BY <1>2 DEF Late
<1>4. IsFiniteSet(Late(f)) /\ Cardinality(Late(f)) \in Nat /\ Cardinality(Late(g)) \in Nat
  BY LateFinite
<1>5. /\ IsFiniteSet(Late(f) \cup {n})
      /\ \/ Cardinality(Late(f) \cup {n}) = Cardinality(Late(f))
         \/ Cardinality(Late(f) \cup {n}) = Cardinality(Late(f)) + 1
  BY <1>4, FS_AddElement
<1>6. Cardinality(Late(g)) <= Cardinality(Late(f) \cup {n})
  BY <1>3, <1>5, FS_Subset
<1> QED
  BY <1>4, <1>5, <1>6

\* There are NumDevices devices at most, and reading one leaves one less.
LEMMA DevicesCount ==
    ASSUME NEW S \in SUBSET Devices
    PROVE  /\ IsFiniteSet(S) /\ Cardinality(S) \in Nat /\ Cardinality(S) <= NumDevices
           /\ \A d \in S : Cardinality(S \ {d}) = Cardinality(S) - 1
<1>1. NumDevices \in Nat
  BY RecorderAssumption
<1>2. IsFiniteSet(Devices) /\ Cardinality(Devices) = NumDevices
  BY <1>1, FS_Interval DEF Devices
<1>3. IsFiniteSet(S) /\ Cardinality(S) <= NumDevices
  BY <1>2, FS_Subset
<1>4. Cardinality(S) \in Nat
  BY <1>3, FS_CardinalityType
<1>5. \A d \in S : Cardinality(S \ {d}) = Cardinality(S) - 1
  BY <1>3, FS_RemoveElement
<1> QED
  BY <1>3, <1>4, <1>5

\* Every step keeps the count: the test of is_done() before select(), one
\* read() per reported device after it.
LEMMA OvershootStep ==
    TypeOK /\ ThreadInv /\ ClockInv /\ DiskInv /\ OvershootInv /\ [Next]_vars
      => OvershootInv'
<1> SUFFICES ASSUME TypeOK, ThreadInv, ClockInv, DiskInv, OvershootInv,
                    [Next]_vars, ~Continuous
             PROVE  OvershootInv'
  BY DEF OvershootInv
<1>1. /\ now \in Nat /\ m_start_time \in Nat /\ RecordingLength \in Nat
      /\ NumDevices \in Nat
  BY LengthType, RecorderAssumption DEF TypeOK, EnvType, StopType
<1>2. \A p \in DOMAIN disk : disk[p] \in File
  BY DEF TypeOK, DataType
<1>3. CASE UNCHANGED <<disk, m_start_time, recPc, recReady>>
  BY <1>3 DEF OvershootInv
<1>4. CASE disk' = disk /\ recPc' \notin Opened
  BY <1>4 DEF OvershootInv, Opened
<1>5. CASE UNCHANGED <<disk, m_start_time>> /\ recPc \in Opened
             /\ recPc' \in {"loop", "finish"}
  BY <1>5 DEF OvershootInv, Opened
<1>6. CASE Start \/ RecBegin \/ RecSpawn \/ RecScanMask
  BY <1>4, <1>6 DEF Start, RecBegin, RecSpawn, RecScanMask, RecAt, Opened, dataVars
<1>7. CASE \/ StartOverThread \/ Stop \/ Destroy \/ CtlStep
           \/ \E S \in Selections : SetDevices(S)
  BY <1>3, <1>7
     DEF CtlStep, StartOverThread, Stop, Destroy, StopReturns, SetDeviceBit,
         SetDevicesReturns, DestroyStops, DestroyReturns, SetDevices,
         RequestStop, stopVars, recVars, dataVars
<1>8. CASE RecOpen
  <2> DEFINE f == [header |-> m_start_time, start |-> m_start_time,
                   records |-> <<>>, session |-> session, closed |-> FALSE]
  <2>1. disk' = Save(FixedPath, f) /\ recPc' = "loop" /\ m_start_time' = m_start_time
    BY <1>8 DEF RecOpen, stopVars
  <2>2. f.header = m_start_time /\ Late(f) = {}
    BY DEF Late
  <2> HIDE DEF f
  <2>3. Cardinality(Late(f)) <= NumDevices
    BY <1>1, <2>2, FS_EmptySet
  <2>4. disk'[FixedPath] = f /\ FixedPath \in DOMAIN disk'
    BY <2>1 DEF Save
  <2>5. \A p \in DOMAIN disk' : Cardinality(Late(disk'[p])) <= NumDevices
    BY <2>1, <2>3 DEF Save, OvershootInv
  <2> QED
    BY <2>1, <2>2, <2>4, <2>5 DEF OvershootInv, Opened
<1>9. CASE RecLoop
  <2>1. /\ UNCHANGED <<disk, m_start_time>> /\ recPc = "loop"
        /\ \/ recPc' = "finish"
           \/ recPc' = "select" /\ ~Expired
    BY <1>9 DEF RecLoop, RecAt, stopVars, dataVars
  <2>2. CASE recPc' = "select"
    <3>1. now < m_start_time + RecordingLength
      BY <1>1, <2>1, <2>2 DEF Expired
    <3>2. FixedPath \in DOMAIN disk /\ disk[FixedPath].header = m_start_time
      BY <2>1 DEF OvershootInv, Opened
    <3>3. disk[FixedPath].records \in Seq(Record)
      BY <1>2, <3>2 DEF File
    <3>4. ASSUME NEW i \in 1..Len(disk[FixedPath].records)
          PROVE  ~(disk[FixedPath].records[i].ts
                     >= disk[FixedPath].header + RecordingLength)
      <4>1. disk[FixedPath].records[i] \in Record
        BY <3>3
      <4>2. /\ disk[FixedPath].records[i].ts \in Nat
            /\ disk[FixedPath].records[i].ts <= now
        BY <3>2, <4>1 DEF Record, DiskInv, FileInWindow
      <4> QED
        BY <1>1, <3>1, <3>2, <4>2
    <3>5. Late(disk[FixedPath]) = {}
      BY <3>4 DEF Late
    <3> QED
      BY <2>1, <2>2, <3>2, <3>5 DEF OvershootInv
  <2> QED
    BY <1>5, <2>1, <2>2 DEF Opened
<1>10. CASE RecSelectTimeout \/ RecSelectError
  BY <1>5, <1>10
     DEF RecSelectTimeout, RecSelectError, RecAt, Opened, stopVars, dataVars
<1>11. CASE RecSelectReady
  <2>1. /\ UNCHANGED <<disk, m_start_time>> /\ recPc = "select" /\ recPc' = "scan"
        /\ recReady' \subseteq Devices
    BY <1>11
       DEF RecSelectReady, RecAt, Ready, TypeOK, RecType, stopVars, dataVars
  <2>2. Late(disk[FixedPath]) = {} /\ Cardinality(Late(disk[FixedPath])) = 0
    BY <2>1, FS_EmptySet DEF OvershootInv
  <2>3. Cardinality(recReady') <= NumDevices /\ Cardinality(recReady') \in Nat
    BY <2>1, DevicesCount
  <2>4. FixedPath \in DOMAIN disk /\ disk[FixedPath].header = m_start_time
    BY <2>1 DEF OvershootInv, Opened
  <2>5. Cardinality(Late(disk'[FixedPath])) + Cardinality(recReady') <= NumDevices
    BY <1>1, <2>1, <2>2, <2>3
  <2> QED
    BY <2>1, <2>4, <2>5 DEF OvershootInv
<1>12. ASSUME NEW d \in Devices, RecReadFails(d) \/ RecReadEsc(d)
       PROVE  OvershootInv'
  <2>1. /\ UNCHANGED <<disk, m_start_time>> /\ recPc = "scan" /\ d \in recReady
        /\ recReady' = recReady \ {d} /\ recPc' \in {"loop", "scan"}
    BY <1>12
       DEF RecReadFails, RecReadEsc, NextReady, RecAt, AfterDevice, stopVars,
           dataVars
  <2>2. /\ Cardinality(recReady) \in Nat
        /\ Cardinality(recReady') = Cardinality(recReady) - 1
    BY <2>1, DevicesCount DEF TypeOK, RecType
  <2>3. /\ FixedPath \in DOMAIN disk /\ disk[FixedPath].header = m_start_time
        /\ Cardinality(Late(disk[FixedPath])) + Cardinality(recReady) <= NumDevices
    BY <2>1 DEF OvershootInv, Opened
  <2>4. Cardinality(Late(disk[FixedPath])) \in Nat
    BY <1>2, <2>3, LateFinite
  <2>5. Cardinality(Late(disk[FixedPath])) + Cardinality(recReady') <= NumDevices
    BY <1>1, <2>2, <2>3, <2>4
  <2> QED
    BY <2>1, <2>3, <2>5 DEF OvershootInv
<1>13. ASSUME NEW d \in Devices, RecReadInput(d)
       PROVE  OvershootInv'
  <2> DEFINE r == [ts |-> now, dev |-> d, session |-> session]
  <2>1. /\ m_start_time' = m_start_time /\ recPc = "scan" /\ d \in recReady
        /\ recReady' = recReady \ {d} /\ recPc' \in {"loop", "scan"}
        /\ disk' = [disk EXCEPT ![FixedPath].records = Append(@, r)]
    BY <1>13 DEF RecReadInput, NextReady, RecAt, AfterDevice, stopVars
  <2>2. /\ Cardinality(recReady) \in Nat
        /\ Cardinality(recReady') = Cardinality(recReady) - 1
    BY <2>1, DevicesCount DEF TypeOK, RecType
  <2>3. /\ FixedPath \in DOMAIN disk /\ disk[FixedPath].header = m_start_time
        /\ Cardinality(Late(disk[FixedPath])) + Cardinality(recReady) <= NumDevices
    BY <2>1 DEF OvershootInv, Opened
  <2>4. r \in Record
    BY DEF TypeOK, EnvType, MaskType, Record
  <2> HIDE DEF r
  <2>5. TypeOK'
    BY NextTypes
  <2>6. /\ FixedPath \in DOMAIN disk' /\ disk'[FixedPath] \in File
        /\ disk[FixedPath] \in File
        /\ disk'[FixedPath].header = disk[FixedPath].header
        /\ disk'[FixedPath].records = Append(disk[FixedPath].records, r)
    BY <1>2, <2>1, <2>3, <2>5 DEF TypeOK, DataType, File
  <2>7. Cardinality(Late(disk'[FixedPath])) <= Cardinality(Late(disk[FixedPath])) + 1
    BY <2>4, <2>6, LateAppend
  <2>8. /\ Cardinality(Late(disk[FixedPath])) \in Nat
        /\ Cardinality(Late(disk'[FixedPath])) \in Nat
    BY <2>6, LateFinite
  <2>9. Cardinality(recReady') \in Nat
    BY <2>5, DevicesCount DEF TypeOK, RecType
  <2>10. Cardinality(Late(disk'[FixedPath])) + Cardinality(recReady') <= NumDevices
    BY <1>1, <2>2, <2>3, <2>7, <2>8, <2>9
  <2>11. Cardinality(Late(disk'[FixedPath])) <= NumDevices
    BY <1>1, <2>8, <2>9, <2>10
  <2>12. ASSUME NEW p \in DOMAIN disk'
         PROVE  Cardinality(Late(disk'[p])) <= NumDevices
    <3>1. CASE p = FixedPath
      BY <2>11, <3>1
    <3>2. CASE p # FixedPath
      <4>1. p \in DOMAIN disk /\ disk'[p] = disk[p]
        BY <2>1, <3>2
      <4> QED
        BY <4>1 DEF OvershootInv
    <3> QED
      BY <3>1, <3>2
  <2> QED
    BY <2>1, <2>3, <2>6, <2>10, <2>12 DEF OvershootInv
<1>14. ASSUME NEW d \in Devices, RecReadFreedXkb(d)
       PROVE  OvershootInv'
  BY <1>3, <1>14 DEF RecReadFreedXkb, stopVars, recVars, dataVars
<1>15. CASE RecPush
  BY <1>15 DEF RecPush, RecAt, OvershootInv
<1>16. CASE RecFinish
  <2>1. disk' = [disk EXCEPT ![FixedPath].closed = TRUE] /\ recPc' = "done"
    BY <1>16 DEF RecFinish
  <2>2. ASSUME NEW p \in DOMAIN disk'
        PROVE  Cardinality(Late(disk'[p])) <= NumDevices
    <3>1. p \in DOMAIN disk /\ disk[p] \in File
      BY <1>2, <2>1
    <3>2. disk'[p].header = disk[p].header /\ disk'[p].records = disk[p].records
      BY <2>1, <3>1 DEF File
    <3>3. Late(disk'[p]) = Late(disk[p])
      BY <3>2 DEF Late
    <3> QED
      BY <3>1, <3>3 DEF OvershootInv
  <2> QED
    BY <2>1, <2>2 DEF OvershootInv, Opened
<1>17. CASE BufStep \/ BufSpuriousWakeup
  <2>1. BufRuns
    BY <1>17
       DEF BufStep, BufCheck, BufEnter, BufTimeout, BufSample, BufTrim, BufFinal,
           BufDump, BufSpuriousWakeup, BufAt, BufRuns
  <2> QED
    BY <2>1 DEF ThreadInv, ThreadOwnership
<1>18. CASE \/ Tick \/ UNCHANGED vars
            \/ \E d \in Devices, k \in EventKinds : DeviceEvent(d, k)
  BY <1>3, <1>18 DEF Tick, DeviceEvent, vars, stopVars, recVars, dataVars
<1> QED
  BY <1>6, <1>7, <1>8, <1>9, <1>10, <1>11, <1>12, <1>13, <1>14, <1>15, <1>16,
     <1>17, <1>18
     DEF Next, Call, RecStep, RecFault, Terminated

\* A fixed-length recording overshoots its length by one record per device at
\* most, for every number of devices and every length.
THEOREM OvershootCorrect == Spec => []FixedLengthOvershoot
<1>1. Init => ThreadInv /\ ClockInv /\ BufferInv /\ DiskInv /\ OvershootInv
  <2> SUFFICES ASSUME Init
               PROVE  ThreadInv /\ ClockInv /\ BufferInv /\ DiskInv /\ OvershootInv
    OBVIOUS
  <2>1. ThreadInv /\ ClockInv
    BY DEF Init, ThreadInv, ThreadOwnership, RecRuns, BufRuns, ClockInv
  <2>2. BufferInv
    BY DEF Init, BufferInv, SortedByTime, NotAfter
  <2>3. DiskInv
    BY DEF Init, DiskInv
  <2>4. OvershootInv
    BY DEF Init, OvershootInv, Opened
  <2> QED
    BY <2>1, <2>2, <2>3, <2>4
<1>2. TypeOK /\ ThreadInv /\ [Next]_vars => ThreadInv'
  BY NextThreads
<1>3. TypeOK /\ ClockInv /\ [Next]_vars => ClockInv'
  BY ClockStep
<1>4. TypeOK /\ BufferInv /\ [Next]_vars => BufferInv'
  BY BufferStep
<1>5. TypeOK /\ ClockInv /\ BufferInv /\ DiskInv /\ [Next]_vars => DiskInv'
  BY DiskStep
<1>6. TypeOK /\ ThreadInv /\ ClockInv /\ DiskInv /\ OvershootInv /\ [Next]_vars
        => OvershootInv'
  BY OvershootStep
<1>7. OvershootInv => FixedLengthOvershoot
  BY DEF OvershootInv, FixedLengthOvershoot, Late
<1> QED
  BY <1>1, <1>2, <1>3, <1>4, <1>5, <1>6, <1>7, TypeCorrect, PTL DEF Spec
================================================================================
