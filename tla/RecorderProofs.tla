----------------------------- MODULE RecorderProofs -----------------------------
(***************************************************************************)
(* Two invariants of the recorder, for every number of devices, length,    *)
(* mask width, order of calls, and bound on time and on events.            *)
(*                                                                         *)
(* TypeOK is inductive by itself.  It is proved part by part (the members  *)
(* of the object, the owner, the two threads, the data, the environment):  *)
(* a step keeps the parts whose variables it does not touch.               *)
(*                                                                         *)
(* ThreadOwnership is inductive once it also says that the descriptors are *)
(* closed only by a destructor that has returned (ThreadInv): otherwise a  *)
(* Start() after the close would break it.                                 *)
(***************************************************************************)
EXTENDS TestRunnerRecorder, TLAPS

\* m_recording_length, the uint32_t product of the constructor, is a natural
\* number.
LEMMA LengthType == RecordingLength \in Nat
  BY RecorderAssumption DEF RecordingLength

\* 1 << (i - 1) sets bits of m_device_mask only, also when the shift is too
\* wide.
LEMMA ShiftType ==
    ASSUME NEW i \in Nat \ {0}, NEW bits \in Shift(i)
    PROVE  bits \subseteq 1..MaskBits
  BY RecorderAssumption DEF Shift

\* Writing a file leaves a disk of files.
LEMMA SaveType ==
    ASSUME DataType, NEW p \in Int, NEW f \in File
    PROVE  /\ DOMAIN Save(p, f) \subseteq Int
           /\ Save(p, f) \in [DOMAIN Save(p, f) -> File]
  BY DEF DataType, Save

\* A step that leaves m_stop and the stop time alone keeps their type.
LEMMA StopTypeStable == StopType /\ UNCHANGED stopVars => StopType'
  BY DEF StopType, stopVars

\* A step that leaves the object's members alone keeps their type.
LEMMA ObjTypeStable == ObjType /\ UNCHANGED objVars => ObjType'
  BY DEF ObjType, objVars

\* A step that leaves the device mask alone keeps their type.
LEMMA MaskTypeStable == MaskType /\ UNCHANGED <<m_device_mask, session>> => MaskType'
  BY DEF MaskType

\* A step that leaves the owner's position alone keeps their type.
LEMMA CtlTypeStable == CtlType /\ UNCHANGED ctlVars => CtlType'
  BY DEF CtlType, ctlVars

\* A step that leaves Record()'s locals alone keeps their type.
LEMMA RecTypeStable == RecType /\ UNCHANGED recVars => RecType'
  BY DEF RecType, recVars

\* A step that leaves processBuffer()'s locals alone keeps their type.
LEMMA BufTypeStable == BufType /\ UNCHANGED bufVars => BufType'
  BY DEF BufType, bufVars

\* A step that leaves the buffer and the files alone keeps their type.
LEMMA DataTypeStable == DataType /\ UNCHANGED dataVars => DataType'
  BY DEF DataType, dataVars

\* A step that leaves the clock and the kernel queues alone keeps their type.
LEMMA EnvTypeStable == EnvType /\ UNCHANGED envVars => EnvType'
  BY DEF EnvType, envVars

\* Start() with no joinable thread keeps the state well typed.
LEMMA StartKeepsTypes ==
    ASSUME TypeOK, Start
    PROVE  TypeOK'
<1>1. /\ StopType' /\ CtlType' /\ BufType' /\ DataType'
      /\ EnvType'
  BY StopTypeStable, CtlTypeStable, BufTypeStable, DataTypeStable,
     EnvTypeStable DEF TypeOK, Start
<1>2. ObjType'
  BY DEF TypeOK, Start, ObjType
<1>3. MaskType'
  BY DEF TypeOK, Start, MaskType
<1>4. RecType'
  BY DEF TypeOK, Start, RecType, RecPcs
<1> QED
  BY <1>1, <1>2, <1>3, <1>4 DEF TypeOK

\* Start() over a joinable m_recorder_thread, which ends the process, keeps the
\* state well typed.
LEMMA StartOverThreadKeepsTypes ==
    ASSUME TypeOK, StartOverThread
    PROVE  TypeOK'
<1>1. /\ StopType' /\ MaskType' /\ CtlType' /\ RecType'
      /\ BufType' /\ DataType' /\ EnvType'
  BY StopTypeStable, MaskTypeStable, CtlTypeStable, RecTypeStable,
     BufTypeStable, DataTypeStable, EnvTypeStable DEF TypeOK, StartOverThread
<1>2. ObjType'
  BY DEF TypeOK, StartOverThread, ObjType
<1> QED
  BY <1>1, <1>2 DEF TypeOK

\* Stop() up to its join keeps the state well typed.
LEMMA StopKeepsTypes ==
    ASSUME TypeOK, Stop
    PROVE  TypeOK'
<1>1. /\ ObjType' /\ MaskType' /\ RecType' /\ DataType'
      /\ EnvType'
  BY ObjTypeStable, MaskTypeStable, RecTypeStable, DataTypeStable,
     EnvTypeStable DEF TypeOK, Stop
<1>2. StopType'
  BY DEF TypeOK, Stop, StopType, EnvType, RequestStop
<1>3. CtlType'
  BY DEF TypeOK, Stop, CtlType
<1>4. BufType'
  BY DEF TypeOK, Stop, BufType, BufPcs, RequestStop
<1> QED
  BY <1>1, <1>2, <1>3, <1>4 DEF TypeOK

\* ~TestRunnerRecorder() up to the release of the xkb objects keeps the state
\* well typed.
LEMMA DestroyKeepsTypes ==
    ASSUME TypeOK, Destroy
    PROVE  TypeOK'
<1>1. /\ StopType' /\ MaskType' /\ RecType' /\ BufType'
      /\ DataType' /\ EnvType'
  BY StopTypeStable, MaskTypeStable, RecTypeStable, BufTypeStable,
     DataTypeStable, EnvTypeStable DEF TypeOK, Destroy
<1>2. ObjType'
  BY DEF TypeOK, Destroy, ObjType
<1>3. CtlType'
  BY DEF TypeOK, Destroy, CtlType
<1> QED
  BY <1>1, <1>2, <1>3 DEF TypeOK

\* SetDevicesToRecord() up to the clearing of m_device_mask keeps the state
\* well typed.
LEMMA SetDevicesKeepsTypes ==
    ASSUME NEW S \in Selections, TypeOK, SetDevices(S)
    PROVE  TypeOK'
<1>1. /\ StopType' /\ ObjType' /\ RecType' /\ BufType'
      /\ DataType' /\ EnvType'
  BY StopTypeStable, ObjTypeStable, RecTypeStable, BufTypeStable,
     DataTypeStable, EnvTypeStable DEF TypeOK, SetDevices
<1>2. MaskType'
  BY DEF TypeOK, SetDevices, MaskType, ClearedMask
<1>3. CtlType'
  BY RecorderAssumption DEF TypeOK, SetDevices, CtlType, Devices
<1> QED
  BY <1>1, <1>2, <1>3 DEF TypeOK

\* The join at the end of Stop() keeps the state well typed.
LEMMA StopReturnsKeepsTypes ==
    ASSUME TypeOK, StopReturns
    PROVE  TypeOK'
<1>1. /\ StopType' /\ MaskType' /\ RecType' /\ BufType'
      /\ DataType' /\ EnvType'
  BY StopTypeStable, MaskTypeStable, RecTypeStable, BufTypeStable,
     DataTypeStable, EnvTypeStable DEF TypeOK, StopReturns
<1>2. ObjType'
  BY DEF TypeOK, StopReturns, ObjType
<1>3. CtlType'
  BY DEF TypeOK, StopReturns, CtlType
<1> QED
  BY <1>1, <1>2, <1>3 DEF TypeOK

\* One round of the loop of setDevicesToRecord() keeps the state well typed.
LEMMA SetDeviceBitKeepsTypes ==
    ASSUME TypeOK, SetDeviceBit
    PROVE  TypeOK'
<1>1. /\ StopType' /\ ObjType' /\ RecType' /\ BufType'
      /\ DataType' /\ EnvType'
  BY StopTypeStable, ObjTypeStable, RecTypeStable, BufTypeStable,
     DataTypeStable, EnvTypeStable DEF TypeOK, SetDeviceBit
<1>2. MaskType'
  BY ShiftType DEF TypeOK, SetDeviceBit, MaskType, CtlType
<1>3. CtlType'
  BY DEF TypeOK, SetDeviceBit, CtlType
<1> QED
  BY <1>1, <1>2, <1>3 DEF TypeOK

\* The return of setDevicesToRecord() keeps the state well typed.
LEMMA SetDevicesReturnsKeepsTypes ==
    ASSUME TypeOK, SetDevicesReturns
    PROVE  TypeOK'
<1>1. /\ StopType' /\ ObjType' /\ MaskType' /\ RecType'
      /\ BufType' /\ DataType' /\ EnvType'
  BY StopTypeStable, ObjTypeStable, MaskTypeStable, RecTypeStable,
     BufTypeStable, DataTypeStable, EnvTypeStable DEF TypeOK, SetDevicesReturns
<1>2. CtlType'
  BY DEF TypeOK, SetDevicesReturns, CtlType
<1> QED
  BY <1>1, <1>2 DEF TypeOK

\* The stop request of ~TestRunnerRecorder() keeps the state well typed.
LEMMA DestroyStopsKeepsTypes ==
    ASSUME TypeOK, DestroyStops
    PROVE  TypeOK'
<1>1. /\ ObjType' /\ MaskType' /\ RecType' /\ DataType'
      /\ EnvType'
  BY ObjTypeStable, MaskTypeStable, RecTypeStable, DataTypeStable,
     EnvTypeStable DEF TypeOK, DestroyStops
<1>2. StopType'
  BY DEF TypeOK, DestroyStops, StopType, EnvType, RequestStop
<1>3. CtlType'
  BY DEF TypeOK, DestroyStops, CtlType
<1>4. BufType'
  BY DEF TypeOK, DestroyStops, BufType, BufPcs, RequestStop
<1> QED
  BY <1>1, <1>2, <1>3, <1>4 DEF TypeOK

\* The join at the end of ~TestRunnerRecorder() keeps the state well typed.
LEMMA DestroyReturnsKeepsTypes ==
    ASSUME TypeOK, DestroyReturns
    PROVE  TypeOK'
<1>1. /\ StopType' /\ MaskType' /\ RecType' /\ BufType'
      /\ DataType' /\ EnvType'
  BY StopTypeStable, MaskTypeStable, RecTypeStable, BufTypeStable,
     DataTypeStable, EnvTypeStable DEF TypeOK, DestroyReturns
<1>2. ObjType'
  BY DEF TypeOK, DestroyReturns, ObjType
<1>3. CtlType'
  BY DEF TypeOK, DestroyReturns, CtlType
<1> QED
  BY <1>1, <1>2, <1>3 DEF TypeOK

\* The reset of the session at the head of Record() keeps the state well typed.
LEMMA RecBeginKeepsTypes ==
    ASSUME TypeOK, RecBegin
    PROVE  TypeOK'
<1>1. /\ ObjType' /\ MaskType' /\ CtlType' /\ BufType'
      /\ DataType' /\ EnvType'
  BY ObjTypeStable, MaskTypeStable, CtlTypeStable, BufTypeStable,
     DataTypeStable, EnvTypeStable DEF TypeOK, RecBegin
<1>2. StopType'
  BY DEF TypeOK, RecBegin, StopType, EnvType
<1>3. RecType'
  BY DEF TypeOK, RecBegin, RecType, RecPcs
<1> QED
  BY <1>1, <1>2, <1>3 DEF TypeOK

\* The start of the processBuffer() thread keeps the state well typed.
LEMMA RecSpawnKeepsTypes ==
    ASSUME TypeOK, RecSpawn
    PROVE  TypeOK'
<1>1. /\ StopType' /\ ObjType' /\ MaskType' /\ CtlType'
      /\ DataType' /\ EnvType'
  BY StopTypeStable, ObjTypeStable, MaskTypeStable, CtlTypeStable,
     DataTypeStable, EnvTypeStable DEF TypeOK, RecSpawn
<1>2. RecType'
  BY DEF TypeOK, RecSpawn, RecType, RecPcs
<1>3. BufType'
  BY DEF TypeOK, RecSpawn, BufType, BufPcs
<1> QED
  BY <1>1, <1>2, <1>3 DEF TypeOK

\* One read of m_device_mask in Record() keeps the state well typed.
LEMMA RecScanMaskKeepsTypes ==
    ASSUME TypeOK, RecScanMask
    PROVE  TypeOK'
<1>1. /\ StopType' /\ ObjType' /\ MaskType' /\ CtlType'
      /\ BufType' /\ DataType' /\ EnvType'
  BY StopTypeStable, ObjTypeStable, MaskTypeStable, CtlTypeStable,
     BufTypeStable, DataTypeStable, EnvTypeStable DEF TypeOK, RecScanMask
<1>2. RecType'
  BY DEF TypeOK, RecScanMask, RecType, Devices
<1> QED
  BY <1>1, <1>2 DEF TypeOK

\* The creation of the file in Record() keeps the state well typed.
LEMMA RecOpenKeepsTypes ==
    ASSUME TypeOK, RecOpen
    PROVE  TypeOK'
<1>1. /\ StopType' /\ ObjType' /\ MaskType' /\ CtlType'
      /\ BufType' /\ EnvType'
  BY StopTypeStable, ObjTypeStable, MaskTypeStable, CtlTypeStable,
     BufTypeStable, EnvTypeStable DEF TypeOK, RecOpen
<1>2. RecType'
  BY DEF TypeOK, RecOpen, RecType, RecPcs
<1>3. DataType'
  <2> DEFINE f == [header |-> m_start_time, start |-> m_start_time,
                   records |-> <<>>, session |-> session, closed |-> FALSE]
  <2>1. f \in File
    BY DEF TypeOK, StopType, MaskType, File
  <2>2. CASE Continuous
    BY <2>2 DEF TypeOK, RecOpen, DataType
  <2>3. CASE ~Continuous
    <3>1. disk' = Save(FixedPath, f)
      BY <2>3 DEF RecOpen
    <3>2. FixedPath \in Int
      BY DEF FixedPath
    <3> HIDE DEF f
    <3> QED
      BY <2>1, <3>1, <3>2, SaveType DEF TypeOK, RecOpen, DataType
  <2> QED
    BY <2>2, <2>3
<1> QED
  BY <1>1, <1>2, <1>3 DEF TypeOK

\* One evaluation of is_done() keeps the state well typed.
LEMMA RecLoopKeepsTypes ==
    ASSUME TypeOK, RecLoop
    PROVE  TypeOK'
<1>1. /\ ObjType' /\ MaskType' /\ CtlType' /\ BufType'
      /\ DataType' /\ EnvType'
  BY ObjTypeStable, MaskTypeStable, CtlTypeStable, BufTypeStable,
     DataTypeStable, EnvTypeStable DEF TypeOK, RecLoop
<1>2. StopType'
  BY DEF TypeOK, RecLoop, StopType, MarkExpired
<1>3. RecType'
  BY DEF TypeOK, RecLoop, RecType, RecPcs
<1> QED
  BY <1>1, <1>2, <1>3 DEF TypeOK

\* A select() that times out keeps the state well typed.
LEMMA RecSelectTimeoutKeepsTypes ==
    ASSUME TypeOK, RecSelectTimeout
    PROVE  TypeOK'
<1>1. /\ StopType' /\ ObjType' /\ MaskType' /\ CtlType'
      /\ BufType' /\ DataType' /\ EnvType'
  BY StopTypeStable, ObjTypeStable, MaskTypeStable, CtlTypeStable,
     BufTypeStable, DataTypeStable, EnvTypeStable DEF TypeOK, RecSelectTimeout
<1>2. RecType'
  BY DEF TypeOK, RecSelectTimeout, RecType, RecPcs
<1> QED
  BY <1>1, <1>2 DEF TypeOK

\* A select() that finds readable devices keeps the state well typed.
LEMMA RecSelectReadyKeepsTypes ==
    ASSUME TypeOK, RecSelectReady
    PROVE  TypeOK'
<1>1. /\ StopType' /\ ObjType' /\ MaskType' /\ CtlType'
      /\ BufType' /\ DataType' /\ EnvType'
  BY StopTypeStable, ObjTypeStable, MaskTypeStable, CtlTypeStable,
     BufTypeStable, DataTypeStable, EnvTypeStable DEF TypeOK, RecSelectReady
<1>2. RecType'
  BY DEF TypeOK, RecSelectReady, RecType, RecPcs, Ready
<1> QED
  BY <1>1, <1>2 DEF TypeOK

\* A failed read() of a device keeps the state well typed.
LEMMA RecReadFailsKeepsTypes ==
    ASSUME NEW d \in Devices, TypeOK, RecReadFails(d)
    PROVE  TypeOK'
<1>1. /\ StopType' /\ ObjType' /\ MaskType' /\ CtlType'
      /\ BufType' /\ DataType' /\ EnvType'
  BY StopTypeStable, ObjTypeStable, MaskTypeStable, CtlTypeStable,
     BufTypeStable, DataTypeStable, EnvTypeStable DEF TypeOK, RecReadFails
<1>2. RecType'
  BY DEF TypeOK, RecReadFails, RecType, RecPcs, AfterDevice
<1> QED
  BY <1>1, <1>2 DEF TypeOK

\* The ESC key on a keyboard keeps the state well typed.
LEMMA RecReadEscKeepsTypes ==
    ASSUME NEW d \in Devices, TypeOK, RecReadEsc(d)
    PROVE  TypeOK'
<1>1. /\ ObjType' /\ MaskType' /\ CtlType' /\ BufType'
      /\ DataType'
  BY ObjTypeStable, MaskTypeStable, CtlTypeStable, BufTypeStable,
     DataTypeStable DEF TypeOK, RecReadEsc
<1>2. StopType'
  BY DEF TypeOK, RecReadEsc, StopType, EnvType
<1>3. RecType'
  BY DEF TypeOK, RecReadEsc, RecType, RecPcs, AfterDevice
<1>4. EnvType'
  BY DEF TypeOK, RecReadEsc, EnvType
<1> QED
  BY <1>1, <1>2, <1>3, <1>4 DEF TypeOK

\* The read of an event that is recorded keeps the state well typed.
LEMMA RecReadInputKeepsTypes ==
    ASSUME NEW d \in Devices, TypeOK, RecReadInput(d)
    PROVE  TypeOK'
<1>1. /\ StopType' /\ ObjType' /\ MaskType' /\ CtlType'
      /\ BufType'
  BY StopTypeStable, ObjTypeStable, MaskTypeStable, CtlTypeStable,
     BufTypeStable DEF TypeOK, RecReadInput
<1>2. RecType'
  BY DEF TypeOK, RecReadInput, RecType, RecPcs, AfterDevice, Record, EnvType, MaskType
<1>3. DataType'
  <2> DEFINE r == [ts |-> now, dev |-> d, session |-> session]
  <2>1. CASE disk' = disk
    BY <2>1 DEF TypeOK, RecReadInput, DataType
  <2>2. CASE disk' = [disk EXCEPT ![FixedPath].records = Append(@, r)]
    <3>1. r \in Record
      BY DEF TypeOK, EnvType, MaskType, Record
    <3>2. DOMAIN disk' = DOMAIN disk
      BY <2>2
    <3>3. ASSUME NEW p \in DOMAIN disk
          PROVE  disk'[p] \in File
      <4>1. disk[p] \in File
        BY DEF TypeOK, DataType
      <4>2. CASE p # FixedPath
        BY <2>2, <4>1, <4>2
      <4>3. CASE p = FixedPath
        <5>1. disk'[p] = [disk[p] EXCEPT !.records = Append(disk[p].records, r)]
          BY <2>2, <4>3
        <5>2. Append(disk[p].records, r) \in Seq(Record)
          BY <3>1, <4>1 DEF File
        <5> QED
          BY <4>1, <5>1, <5>2 DEF File
      <4> QED
        BY <4>2, <4>3
    <3>4. disk' = [p \in DOMAIN disk |-> disk'[p]]
      BY <2>2
    <3> QED
      BY <3>2, <3>3, <3>4 DEF TypeOK, RecReadInput, DataType
  <2> QED
    BY <2>1, <2>2 DEF RecReadInput
<1>4. EnvType'
  BY DEF TypeOK, RecReadInput, EnvType
<1> QED
  BY <1>1, <1>2, <1>3, <1>4 DEF TypeOK

\* The push into m_input_buf keeps the state well typed.
LEMMA RecPushKeepsTypes ==
    ASSUME TypeOK, RecPush
    PROVE  TypeOK'
<1>1. /\ StopType' /\ ObjType' /\ MaskType' /\ CtlType'
      /\ BufType' /\ EnvType'
  BY StopTypeStable, ObjTypeStable, MaskTypeStable, CtlTypeStable,
     BufTypeStable, EnvTypeStable DEF TypeOK, RecPush
<1>2. RecType'
  BY DEF TypeOK, RecPush, RecType, RecPcs, AfterDevice
<1>3. DataType'
  BY DEF TypeOK, RecPush, DataType, RecType, RecAt
<1> QED
  BY <1>1, <1>2, <1>3 DEF TypeOK

\* The end of Record(): close, join keeps the state well typed.
LEMMA RecFinishKeepsTypes ==
    ASSUME TypeOK, RecFinish
    PROVE  TypeOK'
<1>1. /\ StopType' /\ ObjType' /\ MaskType' /\ CtlType'
      /\ BufType' /\ EnvType'
  BY StopTypeStable, ObjTypeStable, MaskTypeStable, CtlTypeStable,
     BufTypeStable, EnvTypeStable DEF TypeOK, RecFinish
<1>2. RecType'
  BY DEF TypeOK, RecFinish, RecType, RecPcs
<1>3. DataType'
  <2>1. CASE Continuous
    BY <2>1 DEF TypeOK, RecFinish, DataType
  <2>2. CASE ~Continuous
    <3>1. disk' = [disk EXCEPT ![FixedPath].closed = TRUE]
      BY <2>2 DEF RecFinish
    <3>2. ASSUME NEW p \in DOMAIN disk
          PROVE  disk'[p] \in File
      BY <3>1 DEF TypeOK, DataType, File
    <3>3. DOMAIN disk' = DOMAIN disk /\ disk' = [p \in DOMAIN disk |-> disk'[p]]
      BY <3>1
    <3> QED
      BY <3>2, <3>3 DEF TypeOK, RecFinish, DataType
  <2> QED
    BY <2>1, <2>2
<1> QED
  BY <1>1, <1>2, <1>3 DEF TypeOK

\* A select() that fails keeps the state well typed.
LEMMA RecSelectErrorKeepsTypes ==
    ASSUME TypeOK, RecSelectError
    PROVE  TypeOK'
<1>1. /\ StopType' /\ ObjType' /\ MaskType' /\ CtlType'
      /\ BufType' /\ DataType'
  BY StopTypeStable, ObjTypeStable, MaskTypeStable, CtlTypeStable,
     BufTypeStable, DataTypeStable DEF TypeOK, RecSelectError
<1>2. RecType'
  BY DEF TypeOK, RecSelectError, RecType, RecPcs
<1>3. EnvType'
  BY DEF TypeOK, RecSelectError, EnvType
<1> QED
  BY <1>1, <1>2, <1>3 DEF TypeOK

\* A read that uses the released m_xkb_state keeps the state well typed.
LEMMA RecReadFreedXkbKeepsTypes ==
    ASSUME NEW d \in Devices, TypeOK, RecReadFreedXkb(d)
    PROVE  TypeOK'
<1>1. /\ StopType' /\ MaskType' /\ CtlType' /\ RecType'
      /\ BufType' /\ DataType' /\ EnvType'
  BY StopTypeStable, MaskTypeStable, CtlTypeStable, RecTypeStable,
     BufTypeStable, DataTypeStable, EnvTypeStable DEF TypeOK, RecReadFreedXkb
<1>2. ObjType'
  BY DEF TypeOK, RecReadFreedXkb, ObjType
<1> QED
  BY <1>1, <1>2 DEF TypeOK

\* The loop test of processBuffer() keeps the state well typed.
LEMMA BufCheckKeepsTypes ==
    ASSUME TypeOK, BufCheck
    PROVE  TypeOK'
<1>1. /\ StopType' /\ ObjType' /\ MaskType' /\ CtlType'
      /\ RecType' /\ DataType' /\ EnvType'
  BY StopTypeStable, ObjTypeStable, MaskTypeStable, CtlTypeStable,
     RecTypeStable, DataTypeStable, EnvTypeStable DEF TypeOK, BufCheck
<1>2. BufType'
  BY DEF TypeOK, BufCheck, BufType, BufPcs
<1> QED
  BY <1>1, <1>2 DEF TypeOK

\* The start of wait_for() keeps the state well typed.
LEMMA BufEnterKeepsTypes ==
    ASSUME TypeOK, BufEnter
    PROVE  TypeOK'
<1>1. /\ StopType' /\ ObjType' /\ MaskType' /\ CtlType'
      /\ RecType' /\ DataType' /\ EnvType'
  BY StopTypeStable, ObjTypeStable, MaskTypeStable, CtlTypeStable,
     RecTypeStable, DataTypeStable, EnvTypeStable DEF TypeOK, BufEnter
<1>2. BufType'
  BY RecorderAssumption DEF TypeOK, BufEnter, BufType, BufPcs, EnvType
<1> QED
  BY <1>1, <1>2 DEF TypeOK

\* The end of wait_for() keeps the state well typed.
LEMMA BufTimeoutKeepsTypes ==
    ASSUME TypeOK, BufTimeout
    PROVE  TypeOK'
<1>1. /\ StopType' /\ ObjType' /\ MaskType' /\ CtlType'
      /\ RecType' /\ DataType' /\ EnvType'
  BY StopTypeStable, ObjTypeStable, MaskTypeStable, CtlTypeStable,
     RecTypeStable, DataTypeStable, EnvTypeStable DEF TypeOK, BufTimeout
<1>2. BufType'
  BY DEF TypeOK, BufTimeout, BufType, BufPcs
<1> QED
  BY <1>1, <1>2 DEF TypeOK

\* The read of the current time in processBuffer() keeps the state well typed.
LEMMA BufSampleKeepsTypes ==
    ASSUME TypeOK, BufSample
    PROVE  TypeOK'
<1>1. /\ StopType' /\ ObjType' /\ MaskType' /\ CtlType'
      /\ RecType' /\ DataType' /\ EnvType'
  BY StopTypeStable, ObjTypeStable, MaskTypeStable, CtlTypeStable,
     RecTypeStable, DataTypeStable, EnvTypeStable DEF TypeOK, BufSample
<1>2. BufType'
  BY DEF TypeOK, BufSample, BufType, BufPcs, EnvType
<1> QED
  BY <1>1, <1>2 DEF TypeOK

\* The trim of m_input_buf to the window keeps the state well typed.
LEMMA BufTrimKeepsTypes ==
    ASSUME TypeOK, BufTrim
    PROVE  TypeOK'
<1>1. /\ StopType' /\ ObjType' /\ MaskType' /\ CtlType'
      /\ RecType' /\ EnvType'
  BY StopTypeStable, ObjTypeStable, MaskTypeStable, CtlTypeStable,
     RecTypeStable, EnvTypeStable DEF TypeOK, BufTrim
<1>2. BufType'
  BY DEF TypeOK, BufTrim, BufType, BufPcs
<1>3. DataType'
  BY DEF TypeOK, BufTrim, DataType, PopWhile
<1> QED
  BY <1>1, <1>2, <1>3 DEF TypeOK

\* The read of m_stop_time after the loop of processBuffer() keeps the state
\* well typed.
LEMMA BufFinalKeepsTypes ==
    ASSUME TypeOK, BufFinal
    PROVE  TypeOK'
<1>1. /\ StopType' /\ ObjType' /\ MaskType' /\ CtlType'
      /\ RecType' /\ DataType' /\ EnvType'
  BY StopTypeStable, ObjTypeStable, MaskTypeStable, CtlTypeStable,
     RecTypeStable, DataTypeStable, EnvTypeStable DEF TypeOK, BufFinal
<1>2. BufType'
  BY LengthType DEF TypeOK, BufFinal, BufType, BufPcs, StopType
<1> QED
  BY <1>1, <1>2 DEF TypeOK

\* The final trim and the write of the file keeps the state well typed.
LEMMA BufDumpKeepsTypes ==
    ASSUME TypeOK, BufDump
    PROVE  TypeOK'
<1>1. /\ StopType' /\ ObjType' /\ MaskType' /\ CtlType'
      /\ RecType' /\ EnvType'
  BY StopTypeStable, ObjTypeStable, MaskTypeStable, CtlTypeStable,
     RecTypeStable, EnvTypeStable DEF TypeOK, BufDump
<1>2. BufType'
  BY DEF TypeOK, BufDump, BufType, BufPcs
<1>3. DataType'
  <2>1. m_input_buf' \in Seq(Record)
    BY DEF TypeOK, BufDump, DataType, PopWhile
  <2> DEFINE f == [header |-> HeaderTime, start |-> bufStart,
                   records |-> m_input_buf', session |-> session,
                   closed |-> TRUE]
  <2>2. f \in File
    BY <2>1 DEF TypeOK, BufType, StopType, MaskType, HeaderTime, File
  <2>3. PathNow \in Int
    BY RecorderAssumption DEF TypeOK, EnvType, PathNow
  <2>4. disk' = Save(PathNow, f)
    BY DEF BufDump
  <2> HIDE DEF f
  <2> QED
    BY <2>1, <2>2, <2>3, <2>4, SaveType DEF TypeOK, BufDump, DataType
<1> QED
  BY <1>1, <1>2, <1>3 DEF TypeOK

\* A spurious wakeup of wait_for() keeps the state well typed.
LEMMA BufSpuriousWakeupKeepsTypes ==
    ASSUME TypeOK, BufSpuriousWakeup
    PROVE  TypeOK'
<1>1. /\ StopType' /\ ObjType' /\ MaskType' /\ CtlType'
      /\ RecType' /\ DataType' /\ EnvType'
  BY StopTypeStable, ObjTypeStable, MaskTypeStable, CtlTypeStable,
     RecTypeStable, DataTypeStable, EnvTypeStable DEF TypeOK, BufSpuriousWakeup
<1>2. BufType'
  BY DEF TypeOK, BufSpuriousWakeup, BufType, BufPcs
<1> QED
  BY <1>1, <1>2 DEF TypeOK

\* The passing of time keeps the state well typed.
LEMMA TickKeepsTypes ==
    ASSUME TypeOK, Tick
    PROVE  TypeOK'
<1>1. /\ StopType' /\ ObjType' /\ MaskType' /\ CtlType'
      /\ RecType' /\ BufType' /\ DataType'
  BY StopTypeStable, ObjTypeStable, MaskTypeStable, CtlTypeStable,
     RecTypeStable, BufTypeStable, DataTypeStable DEF TypeOK, Tick
<1>2. EnvType'
  BY DEF TypeOK, Tick, EnvType
<1> QED
  BY <1>1, <1>2 DEF TypeOK

\* An event queued by the kernel keeps the state well typed.
LEMMA DeviceEventKeepsTypes ==
    ASSUME NEW d \in Devices, NEW k \in EventKinds, TypeOK, DeviceEvent(d, k)
    PROVE  TypeOK'
<1>1. /\ StopType' /\ ObjType' /\ MaskType' /\ CtlType'
      /\ RecType' /\ BufType' /\ DataType'
  BY StopTypeStable, ObjTypeStable, MaskTypeStable, CtlTypeStable,
     RecTypeStable, BufTypeStable, DataTypeStable DEF TypeOK, DeviceEvent
<1>2. EnvType'
  BY DEF TypeOK, DeviceEvent, EnvType
<1> QED
  BY <1>1, <1>2 DEF TypeOK

\* The types hold initially.
LEMMA InitTypes == Init => TypeOK
<1> SUFFICES ASSUME Init PROVE TypeOK
  OBVIOUS
<1>1. StopType
  BY Zenon DEF Init, StopType
<1>2. ObjType
  BY DEF Init, ObjType
<1>3. CtlType
  BY DEF Init, CtlType
<1>4. MaskType /\ RecType /\ BufType
  BY DEF Init, MaskType, RecType, RecPcs, BufType, BufPcs
<1>5. DataType
  BY DEF Init, DataType, NoPath, FixedPath
<1>6. EnvType
  BY DEF Init, EnvType
<1> QED
  BY <1>1, <1>2, <1>3, <1>4, <1>5, <1>6 DEF TypeOK

\* Every step of the three threads and of the environment keeps the types.
LEMMA NextTypes == TypeOK /\ [Next]_vars => TypeOK'
<1> SUFFICES ASSUME TypeOK, [Next]_vars PROVE TypeOK'
  OBVIOUS
<1>1. CASE Start
  BY <1>1, StartKeepsTypes
<1>2. CASE StartOverThread
  BY <1>2, StartOverThreadKeepsTypes
<1>3. CASE Stop
  BY <1>3, StopKeepsTypes
<1>4. CASE Destroy
  BY <1>4, DestroyKeepsTypes
<1>5. ASSUME NEW S \in Selections, SetDevices(S) PROVE TypeOK'
  BY <1>5, SetDevicesKeepsTypes
<1>6. CASE StopReturns
  BY <1>6, StopReturnsKeepsTypes
<1>7. CASE SetDeviceBit
  BY <1>7, SetDeviceBitKeepsTypes
<1>8. CASE SetDevicesReturns
  BY <1>8, SetDevicesReturnsKeepsTypes
<1>9. CASE DestroyStops
  BY <1>9, DestroyStopsKeepsTypes
<1>10. CASE DestroyReturns
  BY <1>10, DestroyReturnsKeepsTypes
<1>11. CASE RecBegin
  BY <1>11, RecBeginKeepsTypes
<1>12. CASE RecSpawn
  BY <1>12, RecSpawnKeepsTypes
<1>13. CASE RecScanMask
  BY <1>13, RecScanMaskKeepsTypes
<1>14. CASE RecOpen
  BY <1>14, RecOpenKeepsTypes
<1>15. CASE RecLoop
  BY <1>15, RecLoopKeepsTypes
<1>16. CASE RecSelectTimeout
  BY <1>16, RecSelectTimeoutKeepsTypes
<1>17. CASE RecSelectReady
  BY <1>17, RecSelectReadyKeepsTypes
<1>18. ASSUME NEW d \in Devices, RecReadFails(d) PROVE TypeOK'
  BY <1>18, RecReadFailsKeepsTypes
<1>19. ASSUME NEW d \in Devices, RecReadEsc(d) PROVE TypeOK'
  BY <1>19, RecReadEscKeepsTypes
<1>20. ASSUME NEW d \in Devices, RecReadInput(d) PROVE TypeOK'
  BY <1>20, RecReadInputKeepsTypes
<1>21. CASE RecPush
  BY <1>21, RecPushKeepsTypes
<1>22. CASE RecFinish
  BY <1>22, RecFinishKeepsTypes
<1>23. CASE RecSelectError
  BY <1>23, RecSelectErrorKeepsTypes
<1>24. ASSUME NEW d \in Devices, RecReadFreedXkb(d) PROVE TypeOK'
  BY <1>24, RecReadFreedXkbKeepsTypes
<1>25. CASE BufCheck
  BY <1>25, BufCheckKeepsTypes
<1>26. CASE BufEnter
  BY <1>26, BufEnterKeepsTypes
<1>27. CASE BufTimeout
  BY <1>27, BufTimeoutKeepsTypes
<1>28. CASE BufSample
  BY <1>28, BufSampleKeepsTypes
<1>29. CASE BufTrim
  BY <1>29, BufTrimKeepsTypes
<1>30. CASE BufFinal
  BY <1>30, BufFinalKeepsTypes
<1>31. CASE BufDump
  BY <1>31, BufDumpKeepsTypes
<1>32. CASE BufSpuriousWakeup
  BY <1>32, BufSpuriousWakeupKeepsTypes
<1>33. CASE Tick
  BY <1>33, TickKeepsTypes
<1>34. ASSUME NEW d \in Devices, NEW k \in EventKinds, DeviceEvent(d, k) PROVE TypeOK'
  BY <1>34, DeviceEventKeepsTypes
<1>35. CASE UNCHANGED vars
  BY <1>35, StopTypeStable, ObjTypeStable, MaskTypeStable, CtlTypeStable,
     RecTypeStable, BufTypeStable, DataTypeStable, EnvTypeStable
     DEF vars, stopVars, objVars, ctlVars, recVars, bufVars, dataVars,
         envVars, TypeOK
<1> QED
  BY <1>1, <1>2, <1>3, <1>4, <1>5, <1>6, <1>7, <1>8, <1>9, <1>10, <1>11,
     <1>12, <1>13, <1>14, <1>15, <1>16, <1>17, <1>18, <1>19, <1>20, <1>21,
     <1>22, <1>23, <1>24, <1>25, <1>26, <1>27, <1>28, <1>29, <1>30, <1>31,
     <1>32, <1>33, <1>34, <1>35
     DEF Next, Call, CtlStep, RecStep, RecFault, BufStep, Terminated

\* Every variable of the recorder keeps its type, whatever the owner calls and
\* the devices report.
THEOREM TypeCorrect == Spec => []TypeOK
<1>1. Init => TypeOK
  BY InitTypes
<1>2. TypeOK /\ [Next]_vars => TypeOK'
  BY NextTypes
<1> QED
  BY <1>1, <1>2, PTL DEF Spec

-----------------------------------------------------------------------------
\* Where Record() is after it has opened its file.
Opened == {"loop", "select", "scan", "push", "finish"}

(***************************************************************************)
(* Thread ownership.  ThreadOwnership alone is not inductive: Start() would *)
(* be possible on closed descriptors.  The conjunct added says that they    *)
(* are closed only by the end of the destructor.                            *)
(***************************************************************************)
ThreadInv == ThreadOwnership /\ (fds = "closed" => ctlPc = "gone")

\* Start() with no joinable thread keeps the threads' lifetimes nested.
LEMMA StartKeepsThreads ==
    ASSUME TypeOK, ThreadInv, Start
    PROVE  ThreadInv'
  BY DEF ThreadInv, ThreadOwnership, RecRuns, BufRuns, RecPcs, Start,
         CtlAt, TypeOK, ObjType, ctlVars, bufVars

\* Start() over a joinable m_recorder_thread, which ends the process, keeps the
\* threads' lifetimes nested.
LEMMA StartOverThreadKeepsThreads ==
    ASSUME TypeOK, ThreadInv, StartOverThread
    PROVE  ThreadInv'
  BY DEF ThreadInv, ThreadOwnership, RecRuns, BufRuns, RecPcs, StartOverThread,
         ctlVars, recVars, bufVars

\* Stop() up to its join keeps the threads' lifetimes nested.
LEMMA StopKeepsThreads ==
    ASSUME TypeOK, ThreadInv, Stop
    PROVE  ThreadInv'
  BY DEF ThreadInv, ThreadOwnership, RecRuns, BufRuns, RecPcs, Stop,
         CtlAt, RequestStop, objVars, recVars

\* ~TestRunnerRecorder() up to the release of the xkb objects keeps the
\* threads' lifetimes nested.
LEMMA DestroyKeepsThreads ==
    ASSUME TypeOK, ThreadInv, Destroy
    PROVE  ThreadInv'
  BY DEF ThreadInv, ThreadOwnership, RecRuns, BufRuns, RecPcs, Destroy,
         CtlAt, recVars, bufVars

\* SetDevicesToRecord() up to the clearing of m_device_mask keeps the threads'
\* lifetimes nested.
LEMMA SetDevicesKeepsThreads ==
    ASSUME NEW S \in Selections, TypeOK, ThreadInv, SetDevices(S)
    PROVE  ThreadInv'
  BY DEF ThreadInv, ThreadOwnership, RecRuns, BufRuns, RecPcs, SetDevices,
         CtlAt, objVars, recVars, bufVars

\* The join at the end of Stop() keeps the threads' lifetimes nested.
LEMMA StopReturnsKeepsThreads ==
    ASSUME TypeOK, ThreadInv, StopReturns
    PROVE  ThreadInv'
  BY DEF ThreadInv, ThreadOwnership, RecRuns, BufRuns, RecPcs, StopReturns,
         CtlAt, RecorderJoined, recVars, bufVars

\* One round of the loop of setDevicesToRecord() keeps the threads' lifetimes
\* nested.
LEMMA SetDeviceBitKeepsThreads ==
    ASSUME TypeOK, ThreadInv, SetDeviceBit
    PROVE  ThreadInv'
  BY DEF ThreadInv, ThreadOwnership, RecRuns, BufRuns, RecPcs, SetDeviceBit,
         CtlAt, objVars, recVars, bufVars

\* The return of setDevicesToRecord() keeps the threads' lifetimes nested.
LEMMA SetDevicesReturnsKeepsThreads ==
    ASSUME TypeOK, ThreadInv, SetDevicesReturns
    PROVE  ThreadInv'
  BY DEF ThreadInv, ThreadOwnership, RecRuns, BufRuns, RecPcs, SetDevicesReturns,
         CtlAt, objVars, recVars, bufVars

\* The stop request of ~TestRunnerRecorder() keeps the threads' lifetimes
\* nested.
LEMMA DestroyStopsKeepsThreads ==
    ASSUME TypeOK, ThreadInv, DestroyStops
    PROVE  ThreadInv'
  BY DEF ThreadInv, ThreadOwnership, RecRuns, BufRuns, RecPcs, DestroyStops,
         CtlAt, RequestStop, objVars, recVars

\* The join at the end of ~TestRunnerRecorder() keeps the threads' lifetimes
\* nested.
LEMMA DestroyReturnsKeepsThreads ==
    ASSUME TypeOK, ThreadInv, DestroyReturns
    PROVE  ThreadInv'
  BY DEF ThreadInv, ThreadOwnership, RecRuns, BufRuns, RecPcs, DestroyReturns,
         CtlAt, RecorderJoined, TypeOK, ObjType, recVars, bufVars

\* The reset of the session at the head of Record() keeps the threads'
\* lifetimes nested.
LEMMA RecBeginKeepsThreads ==
    ASSUME TypeOK, ThreadInv, RecBegin
    PROVE  ThreadInv'
  BY DEF ThreadInv, ThreadOwnership, RecRuns, BufRuns, RecPcs, RecBegin,
         RecAt, objVars, ctlVars, bufVars

\* The start of the processBuffer() thread keeps the threads' lifetimes nested.
LEMMA RecSpawnKeepsThreads ==
    ASSUME TypeOK, ThreadInv, RecSpawn
    PROVE  ThreadInv'
  BY DEF ThreadInv, ThreadOwnership, RecRuns, BufRuns, RecPcs, RecSpawn,
         RecAt, objVars, ctlVars

\* One read of m_device_mask in Record() keeps the threads' lifetimes nested.
LEMMA RecScanMaskKeepsThreads ==
    ASSUME TypeOK, ThreadInv, RecScanMask
    PROVE  ThreadInv'
  BY DEF ThreadInv, ThreadOwnership, RecRuns, BufRuns, RecPcs, RecScanMask,
         RecAt, objVars, ctlVars, bufVars

\* The creation of the file in Record() keeps the threads' lifetimes nested.
LEMMA RecOpenKeepsThreads ==
    ASSUME TypeOK, ThreadInv, RecOpen
    PROVE  ThreadInv'
  BY DEF ThreadInv, ThreadOwnership, RecRuns, BufRuns, RecPcs, RecOpen,
         RecAt, objVars, ctlVars, bufVars

\* One evaluation of is_done() keeps the threads' lifetimes nested.
LEMMA RecLoopKeepsThreads ==
    ASSUME TypeOK, ThreadInv, RecLoop
    PROVE  ThreadInv'
  BY DEF ThreadInv, ThreadOwnership, RecRuns, BufRuns, RecPcs, RecLoop,
         RecAt, objVars, ctlVars, bufVars

\* A select() that times out keeps the threads' lifetimes nested.
LEMMA RecSelectTimeoutKeepsThreads ==
    ASSUME TypeOK, ThreadInv, RecSelectTimeout
    PROVE  ThreadInv'
  BY DEF ThreadInv, ThreadOwnership, RecRuns, BufRuns, RecPcs, RecSelectTimeout,
         RecAt, objVars, ctlVars, bufVars

\* A select() that finds readable devices keeps the threads' lifetimes nested.
LEMMA RecSelectReadyKeepsThreads ==
    ASSUME TypeOK, ThreadInv, RecSelectReady
    PROVE  ThreadInv'
  BY DEF ThreadInv, ThreadOwnership, RecRuns, BufRuns, RecPcs, RecSelectReady,
         RecAt, objVars, ctlVars, bufVars

\* A failed read() of a device keeps the threads' lifetimes nested.
LEMMA RecReadFailsKeepsThreads ==
    ASSUME NEW d \in Devices, TypeOK, ThreadInv, RecReadFails(d)
    PROVE  ThreadInv'
  BY DEF ThreadInv, ThreadOwnership, RecRuns, BufRuns, RecPcs, RecReadFails,
         RecAt, NextReady, AfterDevice, objVars, ctlVars, bufVars

\* The ESC key on a keyboard keeps the threads' lifetimes nested.
LEMMA RecReadEscKeepsThreads ==
    ASSUME NEW d \in Devices, TypeOK, ThreadInv, RecReadEsc(d)
    PROVE  ThreadInv'
  BY DEF ThreadInv, ThreadOwnership, RecRuns, BufRuns, RecPcs, RecReadEsc,
         RecAt, NextReady, AfterDevice, objVars, ctlVars, bufVars

\* The read of an event that is recorded keeps the threads' lifetimes nested.
LEMMA RecReadInputKeepsThreads ==
    ASSUME NEW d \in Devices, TypeOK, ThreadInv, RecReadInput(d)
    PROVE  ThreadInv'
  BY DEF ThreadInv, ThreadOwnership, RecRuns, BufRuns, RecPcs, RecReadInput,
         RecAt, NextReady, AfterDevice, objVars, ctlVars, bufVars

\* The push into m_input_buf keeps the threads' lifetimes nested.
LEMMA RecPushKeepsThreads ==
    ASSUME TypeOK, ThreadInv, RecPush
    PROVE  ThreadInv'
  BY DEF ThreadInv, ThreadOwnership, RecRuns, BufRuns, RecPcs, RecPush,
         RecAt, AfterDevice, objVars, ctlVars, bufVars

\* The end of Record(): close, join keeps the threads' lifetimes nested.
LEMMA RecFinishKeepsThreads ==
    ASSUME TypeOK, ThreadInv, RecFinish
    PROVE  ThreadInv'
  BY DEF ThreadInv, ThreadOwnership, RecRuns, BufRuns, RecPcs, RecFinish,
         RecAt, BufferJoined, objVars, ctlVars, bufVars

\* A select() that fails keeps the threads' lifetimes nested.
LEMMA RecSelectErrorKeepsThreads ==
    ASSUME TypeOK, ThreadInv, RecSelectError
    PROVE  ThreadInv'
  BY DEF ThreadInv, ThreadOwnership, RecRuns, BufRuns, RecPcs, RecSelectError,
         RecAt, objVars, ctlVars, bufVars

\* A read that uses the released m_xkb_state keeps the threads' lifetimes
\* nested.
LEMMA RecReadFreedXkbKeepsThreads ==
    ASSUME NEW d \in Devices, TypeOK, ThreadInv, RecReadFreedXkb(d)
    PROVE  ThreadInv'
  BY DEF ThreadInv, ThreadOwnership, RecRuns, BufRuns, RecPcs, RecReadFreedXkb,
         RecAt, NextReady, ctlVars, recVars, bufVars

\* The loop test of processBuffer() keeps the threads' lifetimes nested.
LEMMA BufCheckKeepsThreads ==
    ASSUME TypeOK, ThreadInv, BufCheck
    PROVE  ThreadInv'
  BY DEF ThreadInv, ThreadOwnership, RecRuns, BufRuns, RecPcs, BufCheck,
         BufAt, objVars, ctlVars, recVars

\* The start of wait_for() keeps the threads' lifetimes nested.
LEMMA BufEnterKeepsThreads ==
    ASSUME TypeOK, ThreadInv, BufEnter
    PROVE  ThreadInv'
  BY DEF ThreadInv, ThreadOwnership, RecRuns, BufRuns, RecPcs, BufEnter,
         BufAt, objVars, ctlVars, recVars

\* The end of wait_for() keeps the threads' lifetimes nested.
LEMMA BufTimeoutKeepsThreads ==
    ASSUME TypeOK, ThreadInv, BufTimeout
    PROVE  ThreadInv'
  BY DEF ThreadInv, ThreadOwnership, RecRuns, BufRuns, RecPcs, BufTimeout,
         BufAt, objVars, ctlVars, recVars

\* The read of the current time in processBuffer() keeps the threads' lifetimes
\* nested.
LEMMA BufSampleKeepsThreads ==
    ASSUME TypeOK, ThreadInv, BufSample
    PROVE  ThreadInv'
  BY DEF ThreadInv, ThreadOwnership, RecRuns, BufRuns, RecPcs, BufSample,
         BufAt, objVars, ctlVars, recVars

\* The trim of m_input_buf to the window keeps the threads' lifetimes nested.
LEMMA BufTrimKeepsThreads ==
    ASSUME TypeOK, ThreadInv, BufTrim
    PROVE  ThreadInv'
  BY DEF ThreadInv, ThreadOwnership, RecRuns, BufRuns, RecPcs, BufTrim,
         BufAt, objVars, ctlVars, recVars

\* The read of m_stop_time after the loop of processBuffer() keeps the threads'
\* lifetimes nested.
LEMMA BufFinalKeepsThreads ==
    ASSUME TypeOK, ThreadInv, BufFinal
    PROVE  ThreadInv'
  BY DEF ThreadInv, ThreadOwnership, RecRuns, BufRuns, RecPcs, BufFinal,
         BufAt, objVars, ctlVars, recVars

\* The final trim and the write of the file keeps the threads' lifetimes
\* nested.
LEMMA BufDumpKeepsThreads ==
    ASSUME TypeOK, ThreadInv, BufDump
    PROVE  ThreadInv'
  BY DEF ThreadInv, ThreadOwnership, RecRuns, BufRuns, RecPcs, BufDump,
         BufAt, objVars, ctlVars, recVars

\* A spurious wakeup of wait_for() keeps the threads' lifetimes nested.
LEMMA BufSpuriousWakeupKeepsThreads ==
    ASSUME TypeOK, ThreadInv, BufSpuriousWakeup
    PROVE  ThreadInv'
  BY DEF ThreadInv, ThreadOwnership, RecRuns, BufRuns, RecPcs, BufSpuriousWakeup,
         BufAt, objVars, ctlVars, recVars

\* The passing of time keeps the threads' lifetimes nested.
LEMMA TickKeepsThreads ==
    ASSUME TypeOK, ThreadInv, Tick
    PROVE  ThreadInv'
  BY DEF ThreadInv, ThreadOwnership, RecRuns, BufRuns, RecPcs, Tick,
         objVars, ctlVars, recVars, bufVars

\* An event queued by the kernel keeps the threads' lifetimes nested.
LEMMA DeviceEventKeepsThreads ==
    ASSUME NEW d \in Devices, NEW k \in EventKinds, TypeOK, ThreadInv, DeviceEvent(d, k)
    PROVE  ThreadInv'
  BY DEF ThreadInv, ThreadOwnership, RecRuns, BufRuns, RecPcs, DeviceEvent,
         objVars, ctlVars, recVars, bufVars

\* Every step keeps the threads' lifetimes nested: processBuffer() inside
\* Record(), Record() inside the joinable m_recorder_thread.
LEMMA NextThreads == TypeOK /\ ThreadInv /\ [Next]_vars => ThreadInv'
<1> SUFFICES ASSUME TypeOK, ThreadInv, [Next]_vars PROVE ThreadInv'
  OBVIOUS
<1>1. CASE Start
  BY <1>1, StartKeepsThreads
<1>2. CASE StartOverThread
  BY <1>2, StartOverThreadKeepsThreads
<1>3. CASE Stop
  BY <1>3, StopKeepsThreads
<1>4. CASE Destroy
  BY <1>4, DestroyKeepsThreads
<1>5. ASSUME NEW S \in Selections, SetDevices(S) PROVE ThreadInv'
  BY <1>5, SetDevicesKeepsThreads
<1>6. CASE StopReturns
  BY <1>6, StopReturnsKeepsThreads
<1>7. CASE SetDeviceBit
  BY <1>7, SetDeviceBitKeepsThreads
<1>8. CASE SetDevicesReturns
  BY <1>8, SetDevicesReturnsKeepsThreads
<1>9. CASE DestroyStops
  BY <1>9, DestroyStopsKeepsThreads
<1>10. CASE DestroyReturns
  BY <1>10, DestroyReturnsKeepsThreads
<1>11. CASE RecBegin
  BY <1>11, RecBeginKeepsThreads
<1>12. CASE RecSpawn
  BY <1>12, RecSpawnKeepsThreads
<1>13. CASE RecScanMask
  BY <1>13, RecScanMaskKeepsThreads
<1>14. CASE RecOpen
  BY <1>14, RecOpenKeepsThreads
<1>15. CASE RecLoop
  BY <1>15, RecLoopKeepsThreads
<1>16. CASE RecSelectTimeout
  BY <1>16, RecSelectTimeoutKeepsThreads
<1>17. CASE RecSelectReady
  BY <1>17, RecSelectReadyKeepsThreads
<1>18. ASSUME NEW d \in Devices, RecReadFails(d) PROVE ThreadInv'
  BY <1>18, RecReadFailsKeepsThreads
<1>19. ASSUME NEW d \in Devices, RecReadEsc(d) PROVE ThreadInv'
  BY <1>19, RecReadEscKeepsThreads
<1>20. ASSUME NEW d \in Devices, RecReadInput(d) PROVE ThreadInv'
  BY <1>20, RecReadInputKeepsThreads
<1>21. CASE RecPush
  BY <1>21, RecPushKeepsThreads
<1>22. CASE RecFinish
  BY <1>22, RecFinishKeepsThreads
<1>23. CASE RecSelectError
  BY <1>23, RecSelectErrorKeepsThreads
<1>24. ASSUME NEW d \in Devices, RecReadFreedXkb(d) PROVE ThreadInv'
  BY <1>24, RecReadFreedXkbKeepsThreads
<1>25. CASE BufCheck
  BY <1>25, BufCheckKeepsThreads
<1>26. CASE BufEnter
  BY <1>26, BufEnterKeepsThreads
<1>27. CASE BufTimeout
  BY <1>27, BufTimeoutKeepsThreads
<1>28. CASE BufSample
  BY <1>28, BufSampleKeepsThreads
<1>29. CASE BufTrim
  BY <1>29, BufTrimKeepsThreads
<1>30. CASE BufFinal
  BY <1>30, BufFinalKeepsThreads
<1>31. CASE BufDump
  BY <1>31, BufDumpKeepsThreads
<1>32. CASE BufSpuriousWakeup
  BY <1>32, BufSpuriousWakeupKeepsThreads
<1>33. CASE Tick
  BY <1>33, TickKeepsThreads
<1>34. ASSUME NEW d \in Devices, NEW k \in EventKinds, DeviceEvent(d, k) PROVE ThreadInv'
  BY <1>34, DeviceEventKeepsThreads
<1>35. CASE UNCHANGED vars
  BY <1>35 DEF vars, ThreadInv, ThreadOwnership, RecRuns, BufRuns
<1> QED
  BY <1>1, <1>2, <1>3, <1>4, <1>5, <1>6, <1>7, <1>8, <1>9, <1>10, <1>11,
     <1>12, <1>13, <1>14, <1>15, <1>16, <1>17, <1>18, <1>19, <1>20, <1>21,
     <1>22, <1>23, <1>24, <1>25, <1>26, <1>27, <1>28, <1>29, <1>30, <1>31,
     <1>32, <1>33, <1>34, <1>35
     DEF Next, Call, CtlStep, RecStep, RecFault, BufStep, Terminated

\* No thread outlives what it uses, for every number of devices, every length
\* and every order of calls: Record() runs only under a joinable handle and on
\* open descriptors, processBuffer() only inside Record().
THEOREM ThreadOwnershipCorrect == Spec => []ThreadOwnership
<1>1. Init => ThreadInv
  BY DEF Init, ThreadInv, ThreadOwnership, RecRuns, BufRuns
<1>2. TypeOK /\ ThreadInv /\ [Next]_vars => ThreadInv'
  BY NextThreads
<1>3. ThreadInv => ThreadOwnership
  BY DEF ThreadInv
<1> QED
  BY <1>1, <1>2, <1>3, TypeCorrect, PTL DEF Spec

================================================================================
