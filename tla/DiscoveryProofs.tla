----------------------------- MODULE DiscoveryProofs -----------------------------
(***************************************************************************)
(* Device discovery, for every set of nodes, whatever their capability     *)
(* bits and ranges, every number of recorders and every order of           *)
(* construction, selection and destruction.                                *)
(*                                                                         *)
(* TypeOK needs UnusedInv: a recorder that is not in use lists nothing.    *)
(* SelectionExact needs FdInv (a listed device owns its descriptor and is  *)
(* listed once) and MaskInv (before the first selection all bits are set). *)
(* LeaksOnlySkipped needs OpenInv, where each open descriptor comes from,  *)
(* and InputsListedOnce needs ListedInv, which holds until a call fails    *)
(* and says what the constructor's tests make of a device, and a           *)
(* comparison of these with what the device is. CoordinatesFit needs       *)
(* RangeInv, the ranges that the constructor has read, and a bound on the  *)
(* two roundings of transform_touch_coordinates().                         *)
(***************************************************************************)
EXTENDS DeviceDiscovery, SequenceTheorems, FiniteSetTheorems, TLAPS

\* A recorder that is not in use lists nothing.
UnusedInv == \A r \in Recorders : pc[r] \in {"none", "gone"} => devices[r] = <<>>

\* A listed device holds its descriptor, and is listed once.
FdInv ==
    \A r \in Recorders : \A i \in DOMAIN devices[r] :
        /\ devices[r][i].fd \in DOMAIN fds
        /\ fds[devices[r][i].fd] = [rec |-> r, node |-> devices[r][i].node]
        /\ \A j \in DOMAIN devices[r] : devices[r][j].node = devices[r][i].node => j = i

\* Until a client chooses, everything is selected; the scan is over when the
\* constructor is.
MaskInv ==
    \A r \in Recorders :
        /\ pc[r] \in {"none", "scan"} => mask[r] = 1..MaskBits /\ chosen[r] = Nodes
        /\ pc[r] = "ready" => todo[r] = {}

\* An open descriptor belongs to one node that some recorder has opened, and
\* listed or skipped.
OpenInv ==
    \A fd \in DOMAIN fds :
        LET r == fds[fd].rec
            n == fds[fd].node
        IN  /\ pc[r] # "none" /\ n \notin todo[r]
            /\ \/ n \in skipped[r]
               \/ \E i \in DOMAIN devices[r] : devices[r][i].fd = fd
            /\ \A other \in DOMAIN fds : fds[other] = fds[fd] => other = fd

\* Without faults, what was opened is listed as what the tests say, or skipped.
ListedInv ==
    faults = 0 => \A r \in Recorders :
        pc[r] \in {"scan", "ready"} => \A n \in Nodes \ (todo[r] \cup refused[r]) :
            LET type == TypeOf(EvBits[n], AbsBits[n])
                places == {i \in DOMAIN devices[r] : devices[r][i].node = n}
            IN  IF type = "skipped" THEN places = {}
                ELSE \E i \in places : devices[r][i].type = type

\* The ranges of the device that were read are the ones that it has.
RangesOf(d) ==
    \A c \in 1..2 :
        d.range[c] = NoRange \/ \E a \in TransformedAxes[c] : d.range[c] = AxisRange[d.node][a]

RangeInv == \A r \in Recorders : \A i \in DOMAIN devices[r] : RangesOf(devices[r][i])

ListInv == FdInv /\ MaskInv /\ SelectionExact /\ OpenInv /\ RangeInv /\ ListedInv

-----------------------------------------------------------------------------
Types == TouchTypes \cup {"MOUSE", "KEYBOARD"}

\* What becomes of the node n, which r has opened as fd: it is of the given type,
\* and d describes it unless it is skipped.
Scanned(r, n, fd, type, d) ==
    /\ pc[r] = "scan" /\ n \in todo[r] /\ fd \in (1..MaxFds) \ DOMAIN fds
    /\ todo' = [todo EXCEPT ![r] = @ \ {n}]
    /\ fds' = [f \in DOMAIN fds \cup {fd} |->
                  IF f = fd THEN [rec |-> r, node |-> n] ELSE fds[f]]
    /\ faults' \in 0..MaxFaults /\ faults' >= faults
    /\ faults' = 0 => type = TypeOf(EvBits[n], AbsBits[n])
    /\ \/ /\ type = "skipped"
          /\ skipped' = [skipped EXCEPT ![r] = @ \cup {n}]
          /\ UNCHANGED devices
       \/ /\ type # "skipped"
          /\ d \in Device /\ d.fd = fd /\ d.type = type /\ d.node = n /\ RangesOf(d)
          /\ devices' = [devices EXCEPT ![r] = Append(@, d)]
          /\ UNCHANGED skipped
    /\ UNCHANGED <<pc, mask, xkb, refused, chosen>>

\* The ranges of at most two axes are read, one for each coordinate.
LEMMA RangeAxesTypes ==
    ASSUME NEW type
    PROVE  /\ DOMAIN RangeAxes(type) \subseteq 1..2
           /\ \A c \in DOMAIN RangeAxes(type) : /\ RangeAxes(type)[c] \in Axes
                                                /\ RangeAxes(type)[c] \in TransformedAxes[c]
<1>1. /\ RangeAxes(type) \in {<<"MT_POSITION_X", "MT_POSITION_Y">>, <<"X", "Y">>, <<"X">>, <<>>}
      /\ {"X", "MT_POSITION_X", "Y", "MT_POSITION_Y"} \subseteq Axes
      /\ TransformedAxes[1] = {"X", "MT_POSITION_X"}
      /\ TransformedAxes[2] = {"Y", "MT_POSITION_Y"}
  BY DEF RangeAxes, Axes, TransformedAxes
<1>2. ASSUME NEW axes \in {<<"MT_POSITION_X", "MT_POSITION_Y">>, <<"X", "Y">>, <<"X">>, <<>>}
      PROVE  /\ DOMAIN axes \subseteq 1..2
             /\ \A c \in DOMAIN axes : axes[c] \in Axes /\ axes[c] \in TransformedAxes[c]
  BY <1>1
<1> QED
  BY <1>1, <1>2

\* A device is of one of the four types, or skipped.
LEMMA TypeOfTypes ==
    ASSUME NEW ev, NEW abs PROVE TypeOf(ev, abs) \in Types \cup {"skipped"}
  BY DEF TypeOf, Types, TouchTypes

\* Failures are counted by a natural number, which is 0 only without one.
LEMMA FailuresType ==
    ASSUME NEW evOk \in BOOLEAN, NEW absOk \in BOOLEAN, NEW type,
           NEW lost \in SUBSET DOMAIN RangeAxes(type)
    PROVE  /\ Failures(evOk, absOk, lost) \in Nat
           /\ Failures(evOk, absOk, lost) = 0 => evOk /\ absOk
<1>1. IsFiniteSet(1..2)
  <2>1. PICK a \in Int, b \in Int : a = 1 /\ b = 2
    OBVIOUS
  <2>2. IsFiniteSet(a..b)
    BY FS_Interval
  <2> QED
    BY <2>1, <2>2
<1>2. lost \in SUBSET (1..2)
  BY RangeAxesTypes
<1>3. Cardinality(lost) \in Nat
  BY <1>1, <1>2, FS_Subset, FS_CardinalityType
<1> QED
  BY <1>3 DEF Failures

\* One node of the scan, in that form.
LEMMA ScanIsScanned ==
    ASSUME TypeOK, NEW r \in Recorders, NEW n \in Nodes, Scan(r, n)
    PROVE  \E fd, type, d : Scanned(r, n, fd, type, d)
<1>1. PICK fd \in LowestFd, evOk \in BOOLEAN, absOk \in BOOLEAN :
       \E ev \in Bits(evOk, EvBits[n], EvTypes), abs \in Bits(absOk, AbsBits[n], MtBits) :
       \E lost \in SUBSET DOMAIN RangeAxes(TypeOf(ev, abs)) :
          /\ fds' = [f \in DOMAIN fds \cup {fd} |->
                        IF f = fd THEN [rec |-> r, node |-> n] ELSE fds[f]]
          /\ Fail(Failures(evOk, absOk, lost))
          /\ AddDevice(r, n, fd, TypeOf(ev, abs), lost)
  BY DEF Scan
<1>2. PICK ev \in Bits(evOk, EvBits[n], EvTypes), abs \in Bits(absOk, AbsBits[n], MtBits) :
       \E lost \in SUBSET DOMAIN RangeAxes(TypeOf(ev, abs)) :
          /\ fds' = [f \in DOMAIN fds \cup {fd} |->
                        IF f = fd THEN [rec |-> r, node |-> n] ELSE fds[f]]
          /\ Fail(Failures(evOk, absOk, lost))
          /\ AddDevice(r, n, fd, TypeOf(ev, abs), lost)
  BY <1>1
<1>3. PICK type : type = TypeOf(ev, abs)
  OBVIOUS
<1>4. PICK lost \in SUBSET DOMAIN RangeAxes(type) :
          /\ fds' = [f \in DOMAIN fds \cup {fd} |->
                        IF f = fd THEN [rec |-> r, node |-> n] ELSE fds[f]]
          /\ Fail(Failures(evOk, absOk, lost))
          /\ AddDevice(r, n, fd, type, lost)
  BY <1>2, <1>3
<1>5. fd \in (1..MaxFds) \ DOMAIN fds
  BY DEF LowestFd, FreeFds
<1>6. PICK k \in Nat : k = Failures(evOk, absOk, lost) /\ (k = 0 => evOk /\ absOk)
  BY FailuresType
<1>7. /\ faults' \in 0..MaxFaults /\ faults' >= faults
      /\ faults' = 0 => evOk /\ absOk
  BY <1>4, <1>6, DiscoveryAssumption DEF Fail, TypeOK
<1>8. faults' = 0 => type = TypeOf(EvBits[n], AbsBits[n])
  BY <1>3, <1>7 DEF Bits
<1>9. PICK range :
         range = [a \in 1..2 |-> IF a \in DOMAIN RangeAxes(type) \ lost
                                 THEN AxisRange[n][RangeAxes(type)[a]] ELSE NoRange]
  OBVIOUS
<1>10. /\ range \in [1..2 -> Int \X Int]
       /\ \A c \in 1..2 : \/ range[c] = NoRange
                           \/ \E a \in TransformedAxes[c] : range[c] = AxisRange[n][a]
  <2>1. \A c \in DOMAIN RangeAxes(type) :
           /\ c \in 1..2 /\ RangeAxes(type)[c] \in TransformedAxes[c]
           /\ AxisRange[n][RangeAxes(type)[c]] \in Int \X Int
    BY RangeAxesTypes, DiscoveryAssumption
  <2>2. NoRange \in Int \X Int
    BY DEF NoRange
  <2> QED
    BY <1>9, <2>1, <2>2
<1>11. PICK d : d = [fd |-> fd, type |-> type, node |-> n, range |-> range]
  OBVIOUS
<1>12. ASSUME type # "skipped"
       PROVE  d \in Device /\ d.fd = fd /\ d.type = type /\ d.node = n /\ RangesOf(d)
  <2>1. type \in Types
    BY <1>3, <1>12, TypeOfTypes
  <2>2. d \in Device
    BY <1>5, <1>10, <1>11, <2>1 DEF Device, Types
  <2>3. d.fd = fd /\ d.type = type /\ d.node = n /\ d.range = range
    BY <1>11
  <2> QED
    BY <2>2, <2>3, <1>10 DEF RangesOf
<1>13. \/ /\ type = "skipped"
          /\ skipped' = [skipped EXCEPT ![r] = @ \cup {n}]
          /\ UNCHANGED devices
       \/ /\ type # "skipped"
          /\ devices' = [devices EXCEPT ![r] = Append(@, d)]
          /\ UNCHANGED skipped
  BY <1>4, <1>9, <1>11 DEF AddDevice
<1>14. /\ pc[r] = "scan" /\ n \in todo[r]
       /\ todo' = [todo EXCEPT ![r] = @ \ {n}]
       /\ UNCHANGED <<pc, mask, xkb, refused, chosen>>
  BY DEF Scan
<1>15. Scanned(r, n, fd, type, d)
  BY <1>4, <1>5, <1>7, <1>8, <1>12, <1>13, <1>14 DEF Scanned
<1> QED
  BY <1>15

\* A list that has grown: the old entries, and the new one at its end.
LEMMA Appended ==
    ASSUME NEW q \in Seq(Device), NEW d \in Device
    PROVE  /\ Append(q, d) \in Seq(Device) /\ Len(Append(q, d)) = Len(q) + 1
           /\ DOMAIN q = 1..Len(q) /\ DOMAIN Append(q, d) = 1..(Len(q) + 1)
           /\ \A i \in DOMAIN q : Append(q, d)[i] = q[i]
           /\ Append(q, d)[Len(q) + 1] = d
           /\ Len(q) \in Nat
  OBVIOUS

\* The scan of a node keeps the state well typed.
LEMMA ScanType ==
    ASSUME TypeOK, UnusedInv, NEW r \in Recorders, NEW n \in Nodes, NEW fd, NEW type,
           NEW d, Scanned(r, n, fd, type, d)
    PROVE  TypeOK' /\ UnusedInv'
<1> USE DEF Scanned
<1>1. /\ devices[r] \in Seq(Device) /\ todo[r] \in SUBSET Nodes /\ pc[r] = "scan"
      /\ Len(devices[r]) \in Nat
  BY DEF TypeOK
<1>2. /\ devices'[r] \in Seq(Device) /\ Len(devices'[r]) \in Nat
      /\ Len(devices'[r]) <= Len(devices[r]) + 1
      /\ \A i \in DOMAIN devices'[r] : devices'[r][i].node \notin todo'[r]
  <2>1. CASE UNCHANGED devices
    BY <1>1, <2>1 DEF TypeOK
  <2>2. CASE d \in Device /\ d.node = n /\ devices' = [devices EXCEPT ![r] = Append(@, d)]
    BY <1>1, <2>2, Appended DEF TypeOK
  <2> QED
    BY <2>1, <2>2
<1>3. \A q \in Recorders : q # r => devices'[q] = devices[q] /\ todo'[q] = todo[q]
  BY DEF TypeOK
<1>4. /\ todo' \in [Recorders -> SUBSET Nodes] /\ skipped' \in [Recorders -> SUBSET Nodes]
      /\ devices' \in [Recorders -> Seq(Device)]
  <2>0. todo' \in [Recorders -> SUBSET Nodes]
    BY DEF TypeOK
  <2>1. skipped' \in [Recorders -> SUBSET Nodes]
    <3>1. n \in Nodes /\ skipped[r] \cup {n} \in SUBSET Nodes
      BY DEF TypeOK
    <3> QED
      BY <3>1 DEF TypeOK
  <2>2. devices' \in [Recorders -> Seq(Device)]
    <3>1. CASE UNCHANGED devices
      BY <3>1 DEF TypeOK
    <3>2. CASE d \in Device /\ devices' = [devices EXCEPT ![r] = Append(devices[r], d)]
      <4>1. Append(devices[r], d) \in Seq(Device)
        BY <1>1, <3>2, Appended
      <4> QED
        BY <3>2, <4>1 DEF TypeOK
    <3> QED
      BY <3>1, <3>2
  <2> QED
    BY <2>0, <2>1, <2>2
<1>5. /\ DOMAIN fds' \subseteq 1..MaxFds
      /\ fds' \in [DOMAIN fds' -> [rec : Recorders, node : Nodes]]
  BY DEF TypeOK
<1>6. TypeOK'
  BY <1>2, <1>3, <1>4, <1>5 DEF TypeOK
<1>7. UnusedInv'
  BY <1>1, <1>3 DEF UnusedInv
<1> QED
  BY <1>6, <1>7

\* A failing call is counted within its bound.
LEMMA FailType ==
    ASSUME TypeOK, Fail(1) PROVE faults' \in 0..MaxFaults /\ faults' > faults
  BY DiscoveryAssumption DEF TypeOK, Fail

\* The beginning and the end of the constructor, and a node that does not open, keep
\* the state well typed.
LEMMA ConstructType ==
    ASSUME TypeOK, UnusedInv, NEW r \in Recorders, Construct(r) \/ Constructed(r)
    PROVE  TypeOK' /\ UnusedInv'
<1>0. UNCHANGED <<devices, mask, fds, skipped, refused, chosen>>
  BY DEF Construct, Constructed
<1>1. CASE Construct(r)
  <2>1. pc' = [pc EXCEPT ![r] = "scan"] /\ UNCHANGED xkb /\ devices[r] = <<>>
        /\ xkb[r] = {}
    BY <1>1 DEF Construct, UnusedInv, TypeOK
  <2>2. /\ todo' \in [Recorders -> SUBSET Nodes]
        /\ \A q \in Recorders : q # r => todo'[q] = todo[q]
    <3>1. CASE todo' = [todo EXCEPT ![r] = Nodes]
      BY <3>1 DEF TypeOK
    <3>2. CASE UNCHANGED todo
      BY <3>2 DEF TypeOK
    <3> QED
      BY <1>1, <3>1, <3>2 DEF Construct
  <2>3. faults' \in 0..MaxFaults
    BY <1>1, FailType DEF Construct, TypeOK
  <2>4. DOMAIN devices[r] = {} /\ Len(devices[r]) = 0
    BY <2>1
  <2>5. pc' \in [Recorders -> {"none", "scan", "ready", "gone"}] /\ pc'[r] = "scan"
        /\ \A q \in Recorders : q # r => pc'[q] = pc[q]
    BY <2>1 DEF TypeOK
  <2>6. TypeOK'
    BY <1>0, <2>1, <2>2, <2>3, <2>4, <2>5 DEF TypeOK
  <2>8. UnusedInv'
    BY <1>0, <2>1, <2>5 DEF UnusedInv
  <2> QED
    BY <2>6, <2>8
<1>2. CASE Constructed(r)
  <2>1. pc' = [pc EXCEPT ![r] = "ready"] /\ UNCHANGED todo /\ xkb' \in [Recorders -> {{}, Xkb}]
        /\ \A q \in Recorders : q # r => xkb'[q] = xkb[q]
    BY <1>2 DEF Constructed, TypeOK, XkbAfterFailure
  <2>2. faults' \in 0..MaxFaults
    BY <1>2, FailType DEF Constructed, TypeOK
  <2>3. TypeOK'
    BY <1>0, <2>1, <2>2 DEF TypeOK
  <2>4. UnusedInv'
    BY <1>0, <2>1 DEF UnusedInv, TypeOK
  <2> QED
    BY <2>3, <2>4
<1> QED
  BY <1>1, <1>2

\* A node that does not open keeps the state well typed.
LEMMA RefuseType ==
    ASSUME TypeOK, UnusedInv, NEW r \in Recorders, NEW n \in Nodes, ScanOpenFails(r, n)
    PROVE  TypeOK' /\ UnusedInv'
<1>1. UNCHANGED <<pc, devices, mask, xkb, fds, skipped, chosen>>
  BY DEF ScanOpenFails
<1>2. /\ todo' \in [Recorders -> SUBSET Nodes]
      /\ \A q \in Recorders : todo'[q] \subseteq todo[q]
  BY DEF ScanOpenFails, TypeOK
<1>3. refused' \in [Recorders -> SUBSET Nodes]
  <2>1. refused[r] \cup {n} \in SUBSET Nodes
    BY DEF TypeOK
  <2> QED
    BY <2>1 DEF ScanOpenFails, TypeOK
<1>4. faults' \in 0..MaxFaults
  BY FailType DEF ScanOpenFails, TypeOK
<1>5. TypeOK'
  BY <1>1, <1>2, <1>3, <1>4 DEF TypeOK
<1>6. UnusedInv'
  BY <1>1 DEF UnusedInv
<1> QED
  BY <1>5, <1>6

\* The bits of a selection: those within the width of the mask, and accidents.
LEMMA MaskOfType ==
    ASSUME NEW sel \in SUBSET (Nat \ {0}), NEW bits \in MaskOf(sel)
    PROVE  /\ bits \subseteq 1..MaskBits /\ sel \cap 1..MaskBits \subseteq bits
           /\ sel \subseteq 1..MaskBits => bits = sel
<1>1. MaskBits \in Nat \ {0}
  BY DiscoveryAssumption
<1>2. PICK wrap \in SUBSET {i \in sel : i > MaskBits} :
         bits = (sel \cap 1..MaskBits) \cup {1 + ((i - 1) % MaskBits) : i \in wrap}
  BY DEF MaskOf
<1>3. ASSUME NEW i \in wrap PROVE 1 + ((i - 1) % MaskBits) \in 1..MaskBits
  <2>1. PICK j \in Nat : j = i - 1
    OBVIOUS
  <2>2. j % MaskBits \in 0..(MaskBits - 1)
    BY <1>1
  <2> QED
    BY <1>1, <2>1, <2>2
<1>4. sel \subseteq 1..MaskBits => wrap = {}
  BY <1>1
<1> QED
  BY <1>2, <1>3, <1>4

\* A selection, and the destructor, keep the state well typed.
LEMMA SelectType ==
    ASSUME TypeOK, UnusedInv, NEW r \in Recorders, NEW q \in Recorders,
           setDevicesToRecord(r, q)
    PROVE  TypeOK' /\ UnusedInv'
<1>1. UNCHANGED <<pc, todo, devices, xkb, fds, skipped, refused, faults>>
  BY DEF setDevicesToRecord
<1>2. PICK keep \in Selections :
        /\ \E bits \in MaskOf(SelectedBy(r, {d \in listDevices(q) : d.type \in keep})) :
              mask' = [mask EXCEPT ![r] = bits]
        /\ chosen' = [chosen EXCEPT ![r] =
              IF q = r THEN {d.node : d \in {e \in listDevices(q) : e.type \in keep}} ELSE {}]
  BY DEF setDevicesToRecord
<1>3. mask' \in [Recorders -> SUBSET (1..MaskBits)]
  <2>1. PICK sel : sel = SelectedBy(r, {d \in listDevices(q) : d.type \in keep})
    OBVIOUS
  <2>2. sel \in SUBSET (Nat \ {0})
    BY <2>1 DEF SelectedBy, TypeOK
  <2>3. PICK bits \in MaskOf(sel) : mask' = [mask EXCEPT ![r] = bits]
    BY <1>2, <2>1
  <2>4. bits \subseteq 1..MaskBits
    BY <2>2, MaskOfType
  <2> QED
    BY <2>3, <2>4 DEF TypeOK
<1>4. chosen' \in [Recorders -> SUBSET Nodes]
  <2>1. \A d \in listDevices(q) : d.node \in Nodes
    <3>1. \A i \in DOMAIN devices[q] : devices[q][i] \in Device
      BY DEF TypeOK
    <3> QED
      BY <3>1 DEF listDevices, Device
  <2>2. {d.node : d \in {e \in listDevices(q) : e.type \in keep}} \subseteq Nodes
    BY <2>1
  <2> QED
    BY <1>2, <2>2 DEF TypeOK
<1> QED
  BY <1>1, <1>3, <1>4 DEF TypeOK, UnusedInv

\* The destructor keeps the state well typed.
LEMMA DestroyType ==
    ASSUME TypeOK, UnusedInv, NEW r \in Recorders, Destroy(r)
    PROVE  TypeOK' /\ UnusedInv'
<1>1. /\ pc' = [pc EXCEPT ![r] = "gone"] /\ xkb' = [xkb EXCEPT ![r] = {}]
      /\ mask' = [mask EXCEPT ![r] = {}] /\ devices' = [devices EXCEPT ![r] = <<>>]
      /\ refused' = [refused EXCEPT ![r] = {}] /\ chosen' = [chosen EXCEPT ![r] = {}]
      /\ UNCHANGED <<todo, skipped, faults>>
  BY DEF Destroy
<1>2. /\ DOMAIN fds' \subseteq 1..MaxFds
      /\ fds' \in [DOMAIN fds' -> [rec : Recorders, node : Nodes]]
  BY DEF Destroy, TypeOK
<1>3. /\ <<>> \in Seq(Device) /\ DOMAIN <<>> = {} /\ Len(<<>>) = 0
  OBVIOUS
<1>4. devices' \in [Recorders -> Seq(Device)]
  BY <1>1, <1>3 DEF TypeOK
<1>5. /\ devices'[r] = <<>> /\ \A q \in Recorders : q # r => devices'[q] = devices[q]
      /\ pc'[r] = "gone" /\ \A q \in Recorders : q # r => pc'[q] = pc[q]
      /\ xkb'[r] = {} /\ \A q \in Recorders : q # r => xkb'[q] = xkb[q]
  BY <1>1 DEF TypeOK
<1>6. /\ pc' \in [Recorders -> {"none", "scan", "ready", "gone"}]
      /\ xkb' \in [Recorders -> {{}, Xkb}]
      /\ mask' \in [Recorders -> SUBSET (1..MaskBits)]
      /\ refused' \in [Recorders -> SUBSET Nodes] /\ chosen' \in [Recorders -> SUBSET Nodes]
  BY <1>1 DEF TypeOK
<1>7. TypeOK'
  BY <1>1, <1>2, <1>3, <1>4, <1>5, <1>6 DEF TypeOK
<1>8. UnusedInv'
  BY <1>5 DEF UnusedInv
<1> QED
  BY <1>7, <1>8

\* Every step keeps the state well typed.
LEMMA NextType == TypeOK /\ UnusedInv /\ [Next]_vars => TypeOK' /\ UnusedInv'
<1> SUFFICES ASSUME TypeOK, UnusedInv, [Next]_vars PROVE TypeOK' /\ UnusedInv'
  OBVIOUS
<1>1. ASSUME NEW r \in Recorders, NEW n \in Nodes, Scan(r, n)
      PROVE  TypeOK' /\ UnusedInv'
  BY <1>1, ScanIsScanned, ScanType
<1>2. CASE UNCHANGED vars
  BY <1>2 DEF vars, TypeOK, UnusedInv
<1> QED
  BY <1>1, <1>2, ConstructType, RefuseType, SelectType, DestroyType DEF Next, Done

\* Initially nothing is open and everything is selected.
LEMMA InitType == Init => TypeOK /\ UnusedInv
<1> SUFFICES ASSUME Init PROVE TypeOK /\ UnusedInv
  OBVIOUS
<1>1. /\ <<>> \in Seq(Device) /\ DOMAIN <<>> = {} /\ Len(<<>>) = 0
  OBVIOUS
<1>2. /\ \A r \in Recorders : devices[r] = <<>> /\ todo[r] = {} /\ xkb[r] = {}
      /\ fds = <<>>
  BY DEF Init
<1>3. devices \in [Recorders -> Seq(Device)]
  BY <1>1 DEF Init
<1>4. DOMAIN fds = {} /\ fds \in [DOMAIN fds -> [rec : Recorders, node : Nodes]]
  BY <1>1, <1>2
<1>5. TypeOK
  BY <1>1, <1>2, <1>3, <1>4, DiscoveryAssumption DEF Init, TypeOK
<1>6. UnusedInv
  BY <1>2 DEF UnusedInv
<1> QED
  BY <1>5, <1>6

\* The lists, masks, descriptors and xkb objects of all recorders keep their types,
\* for every number of recorders, nodes, descriptors and failing calls.
THEOREM DiscoveryTypeCorrect == Spec => []TypeOK
  BY InitType, NextType, PTL DEF Spec

-----------------------------------------------------------------------------
(***************************************************************************)
(* Lists, descriptors and selections.                                      *)
(***************************************************************************)
\* The positions of the devices of r that its client picked.
Picked(r) == {i \in DOMAIN devices[r] : devices[r][i].node \in chosen[r]}

\* What SelectionExact says of the recorder r.
Exact(r) == /\ Picked(r) \cap 1..MaskBits \subseteq mask[r]
            /\ Len(devices[r]) <= MaskBits => mask[r] \cap DOMAIN devices[r] = Picked(r)

\* SelectionExact in these terms.
LEMMA SelectionIs == SelectionExact <=> \A r \in Recorders : pc[r] = "ready" => Exact(r)
  BY DEF SelectionExact, Exact, Picked

\* What the scan of a node does to the lists and the descriptors.
ListsGrow(r, n, fd, type, d) ==
    /\ \A q \in Recorders \ {r} : /\ devices'[q] = devices[q] /\ todo'[q] = todo[q]
                                  /\ skipped'[q] = skipped[q]
    /\ todo'[r] = todo[r] \ {n} /\ n \in todo[r]
    /\ DOMAIN devices[r] \subseteq DOMAIN devices'[r]
    /\ \A i \in DOMAIN devices[r] : /\ devices'[r][i] = devices[r][i]
                                    /\ devices[r][i].node # n
    /\ \A i \in DOMAIN devices'[r] \ DOMAIN devices[r] :
          /\ devices'[r][i] = d /\ type # "skipped"
          /\ \A j \in DOMAIN devices'[r] \ DOMAIN devices[r] : j = i
    /\ type # "skipped" =>
          /\ \E i \in DOMAIN devices'[r] : devices'[r][i] = d
          /\ d.fd = fd /\ d.type = type /\ d.node = n /\ RangesOf(d)
    /\ type = "skipped" => n \in skipped'[r]
    /\ skipped[r] \subseteq skipped'[r]
    /\ DOMAIN fds' = DOMAIN fds \cup {fd} /\ fd \notin DOMAIN fds
    /\ fds'[fd] = [rec |-> r, node |-> n]
    /\ \A f \in DOMAIN fds : fds'[f] = fds[f]

\* The scan of a node does just that.
LEMMA ScanLists ==
    ASSUME TypeOK, NEW r \in Recorders, NEW n \in Nodes, NEW fd, NEW type, NEW d,
           Scanned(r, n, fd, type, d)
    PROVE  ListsGrow(r, n, fd, type, d)
<1> USE DEF Scanned, ListsGrow
<1>1. /\ devices[r] \in Seq(Device) /\ DOMAIN devices[r] = 1..Len(devices[r])
      /\ Len(devices[r]) \in Nat
  BY DEF TypeOK
<1>2. \A q \in Recorders \ {r} : /\ devices'[q] = devices[q] /\ todo'[q] = todo[q]
                                 /\ skipped'[q] = skipped[q]
  BY DEF TypeOK
<1>3. todo'[r] = todo[r] \ {n} /\ n \in todo[r]
  BY DEF TypeOK
<1>4. \A i \in DOMAIN devices[r] : devices[r][i].node # n
  BY DEF TypeOK
<1>5. /\ DOMAIN fds' = DOMAIN fds \cup {fd} /\ fd \notin DOMAIN fds
      /\ fds'[fd] = [rec |-> r, node |-> n]
      /\ \A f \in DOMAIN fds : fds'[f] = fds[f]
  OBVIOUS
<1>6. CASE type = "skipped" /\ UNCHANGED devices /\ skipped' = [skipped EXCEPT ![r] = @ \cup {n}]
  BY <1>2, <1>3, <1>4, <1>5, <1>6 DEF TypeOK
<1>7. CASE /\ type # "skipped" /\ d \in Device /\ UNCHANGED skipped
           /\ devices' = [devices EXCEPT ![r] = Append(@, d)]
  <2>1. devices'[r] = Append(devices[r], d)
    BY <1>7 DEF TypeOK
  <2>2. /\ DOMAIN devices'[r] = 1..(Len(devices[r]) + 1)
        /\ \A i \in DOMAIN devices[r] : devices'[r][i] = devices[r][i]
        /\ devices'[r][Len(devices[r]) + 1] = d
    BY <1>1, <1>7, <2>1, Appended
  <2>3. /\ DOMAIN devices[r] \subseteq DOMAIN devices'[r]
        /\ \A i \in DOMAIN devices'[r] \ DOMAIN devices[r] : i = Len(devices[r]) + 1
        /\ Len(devices[r]) + 1 \in DOMAIN devices'[r]
    BY <1>1, <2>2
  <2> QED
    BY <1>2, <1>3, <1>4, <1>5, <1>7, <2>2, <2>3
<1> QED
  BY <1>6, <1>7

\* The scan of a node keeps the lists in order.
LEMMA ScanInv ==
    ASSUME TypeOK, ListInv, NEW r \in Recorders, NEW n \in Nodes, NEW fd, NEW type,
           NEW d, Scanned(r, n, fd, type, d)
    PROVE  ListInv'
<1>0. /\ pc[r] = "scan" /\ UNCHANGED <<pc, mask, xkb, refused, chosen>>
      /\ faults' \in Nat /\ faults' >= faults /\ faults \in Nat
      /\ faults' = 0 => type = TypeOf(EvBits[n], AbsBits[n])
  BY DiscoveryAssumption DEF Scanned, TypeOK
<1>1. ListsGrow(r, n, fd, type, d)
  BY ScanLists
<1> USE DEF ListsGrow
<1>2. FdInv'
  <2> SUFFICES ASSUME NEW q \in Recorders, NEW i \in DOMAIN devices'[q]
               PROVE  /\ devices'[q][i].fd \in DOMAIN fds'
                      /\ fds'[devices'[q][i].fd] = [rec |-> q, node |-> devices'[q][i].node]
                      /\ \A j \in DOMAIN devices'[q] :
                            devices'[q][j].node = devices'[q][i].node => j = i
    BY DEF FdInv
  <2>1. CASE q # r
    BY <1>1, <2>1, SMTT(30) DEF ListInv, FdInv
  <2>2. CASE q = r /\ i \in DOMAIN devices[r]
    BY <1>1, <2>2 DEF ListInv, FdInv
  <2>3. CASE q = r /\ i \notin DOMAIN devices[r]
    BY <1>1, <2>3
  <2> QED
    BY <2>1, <2>2, <2>3
<1>3. MaskInv'
  BY <1>0, <1>1 DEF ListInv, MaskInv
<1>4. SelectionExact'
  <2>1. ASSUME NEW q \in Recorders, pc'[q] = "ready"
        PROVE  q # r /\ devices'[q] = devices[q]
    BY <1>0, <1>1, <2>1
  <2> QED
    BY <1>0, <2>1 DEF ListInv, SelectionExact
<1>5. OpenInv'
  <2> SUFFICES ASSUME NEW f \in DOMAIN fds'
               PROVE  /\ pc'[fds'[f].rec] # "none" /\ fds'[f].node \notin todo'[fds'[f].rec]
                      /\ \/ fds'[f].node \in skipped'[fds'[f].rec]
                         \/ \E i \in DOMAIN devices'[fds'[f].rec] :
                               devices'[fds'[f].rec][i].fd = f
                      /\ \A other \in DOMAIN fds' : fds'[other] = fds'[f] => other = f
    BY DEF OpenInv
  <2>1. \A g \in DOMAIN fds : /\ fds[g].rec \in Recorders /\ fds[g] # [rec |-> r, node |-> n]
    <3>1. \A g \in DOMAIN fds : /\ fds[g].rec \in Recorders
                                /\ fds[g].node \notin todo[fds[g].rec]
      BY DEF TypeOK, ListInv, OpenInv
    <3> QED
      BY <1>1, <3>1
  <2>2. CASE f = fd
    <3>1. fds'[f].rec = r /\ fds'[f].node = n
      BY <1>1, <2>2
    <3>2. \A other \in DOMAIN fds' : fds'[other] = fds'[f] => other = f
      BY <1>1, <2>1, <2>2
    <3> QED
      BY <1>0, <1>1, <2>2, <3>1, <3>2
  <2>3. CASE f # fd
    <3>1. f \in DOMAIN fds /\ fds'[f] = fds[f] /\ fds[f].rec \in Recorders
      BY <1>1, <2>1, <2>3
    <3>2. \A other \in DOMAIN fds' : fds'[other] = fds'[f] => other = f
      BY <1>1, <2>1, <3>1 DEF ListInv, OpenInv
    <3>3. pc'[fds[f].rec] # "none" /\ fds[f].node \notin todo'[fds[f].rec]
      BY <1>0, <1>1, <3>1 DEF ListInv, OpenInv
    <3>4. \/ fds[f].node \in skipped'[fds[f].rec]
          \/ \E i \in DOMAIN devices'[fds[f].rec] : devices'[fds[f].rec][i].fd = f
      <4>1. \/ fds[f].node \in skipped[fds[f].rec]
            \/ \E i \in DOMAIN devices[fds[f].rec] : devices[fds[f].rec][i].fd = f
        BY <3>1 DEF ListInv, OpenInv
      <4>2. CASE fds[f].rec = r
        BY <1>1, <4>1, <4>2
      <4>3. CASE fds[f].rec # r
        BY <1>1, <3>1, <4>1, <4>3
      <4> QED
        BY <4>2, <4>3
    <3> QED
      BY <3>1, <3>2, <3>3, <3>4
  <2> QED
    BY <2>2, <2>3
<1>6. RangeInv'
  <2> SUFFICES ASSUME NEW q \in Recorders, NEW i \in DOMAIN devices'[q]
               PROVE  RangesOf(devices'[q][i])
    BY DEF RangeInv, RangesOf
  <2> QED
    BY <1>1 DEF ListInv, RangeInv
<1>7. ListedInv'
  <2> SUFFICES ASSUME faults' = 0, NEW q \in Recorders, pc[q] \in {"scan", "ready"},
                      NEW m \in Nodes \ (todo'[q] \cup refused[q])
               PROVE  IF TypeOf(EvBits[m], AbsBits[m]) = "skipped"
                      THEN {i \in DOMAIN devices'[q] : devices'[q][i].node = m} = {}
                      ELSE \E i \in {j \in DOMAIN devices'[q] : devices'[q][j].node = m} :
                              devices'[q][i].type = TypeOf(EvBits[m], AbsBits[m])
    BY <1>0 DEF ListedInv
  <2>1. faults = 0
    BY <1>0
  <2>2. CASE q # r
    BY <1>0, <1>1, <2>1, <2>2 DEF ListInv, ListedInv
  <2>3. CASE q = r /\ m = n
    BY <1>0, <1>1, <2>1, <2>3
  <2>4. CASE q = r /\ m # n
    <3>1. m \in Nodes \ (todo[r] \cup refused[r])
      BY <1>1, <2>4
    <3>2. IF TypeOf(EvBits[m], AbsBits[m]) = "skipped"
          THEN {i \in DOMAIN devices[r] : devices[r][i].node = m} = {}
          ELSE \E i \in {j \in DOMAIN devices[r] : devices[r][j].node = m} :
                  devices[r][i].type = TypeOf(EvBits[m], AbsBits[m])
      BY <2>1, <2>4, <3>1 DEF ListInv, ListedInv
    <3>3. \A i \in DOMAIN devices'[r] : devices'[r][i].node = m =>
             i \in DOMAIN devices[r] /\ devices'[r][i] = devices[r][i]
      BY <1>1, <2>4
    <3> QED
      BY <1>1, <2>4, <3>2, <3>3
  <2> QED
    BY <2>2, <2>3, <2>4
<1> QED
  BY <1>2, <1>3, <1>4, <1>5, <1>6, <1>7 DEF ListInv

\* The beginning of the constructor keeps the lists in order: nothing was opened
\* before.
LEMMA ConstructInv ==
    ASSUME TypeOK, ListInv, NEW r \in Recorders, Construct(r)
    PROVE  ListInv'
<1>1. /\ pc[r] = "none" /\ UNCHANGED <<devices, mask, fds, skipped, refused, chosen>>
      /\ \A q \in Recorders : pc'[q] = IF q = r THEN "scan" ELSE pc[q]
      /\ \A q \in Recorders : q # r => todo'[q] = todo[q]
      /\ faults' = 0 => faults = 0 /\ todo'[r] = Nodes
  BY FailType DEF Construct, TypeOK
<1>2. FdInv' /\ RangeInv' /\ MaskInv'
  <2>1. FdInv' /\ RangeInv'
    BY <1>1 DEF ListInv, FdInv, RangeInv
  <2>2. MaskInv'
    BY <1>1 DEF ListInv, MaskInv
  <2> QED
    BY <2>1, <2>2
<1>3. SelectionExact'
  BY <1>1 DEF ListInv, SelectionExact
<1>4. OpenInv'
  <2>1. \A f \in DOMAIN fds : fds[f].rec \in Recorders /\ fds[f].rec # r
    BY <1>1 DEF TypeOK, ListInv, OpenInv
  <2> QED
    BY <1>1, <2>1 DEF ListInv, OpenInv
<1>5. ListedInv'
  BY <1>1 DEF ListInv, ListedInv
<1> QED
  BY <1>2, <1>3, <1>4, <1>5 DEF ListInv

\* A node that does not open keeps the lists in order.
LEMMA RefuseInv ==
    ASSUME TypeOK, ListInv, NEW r \in Recorders, NEW n \in Nodes, ScanOpenFails(r, n)
    PROVE  ListInv'
<1>1. /\ UNCHANGED <<pc, devices, mask, xkb, fds, skipped, chosen>>
      /\ \A q \in Recorders : todo'[q] = IF q = r THEN todo[q] \ {n} ELSE todo[q]
      /\ \A q \in Recorders : refused'[q] = IF q = r THEN refused[q] \cup {n} ELSE refused[q]
      /\ faults' = 0 => faults = 0
  <2>1. faults' = 0 => faults = 0
    <3>1. faults \in Nat
      BY DiscoveryAssumption DEF TypeOK
    <3>2. faults' = faults \/ faults' > faults
      BY FailType DEF ScanOpenFails
    <3> QED
      BY <3>1, <3>2
  <2>2. /\ todo' = [todo EXCEPT ![r] = @ \ {n}]
        /\ refused' = [refused EXCEPT ![r] = @ \cup {n}]
        /\ UNCHANGED <<pc, devices, mask, xkb, fds, skipped, chosen>>
    BY DEF ScanOpenFails
  <2>3. /\ \A q \in Recorders : todo'[q] = IF q = r THEN todo[q] \ {n} ELSE todo[q]
        /\ \A q \in Recorders : refused'[q] = IF q = r THEN refused[q] \cup {n} ELSE refused[q]
    BY <2>2 DEF TypeOK
  <2> QED
    BY <2>1, <2>2, <2>3
<1>2. FdInv' /\ RangeInv' /\ MaskInv'
  <2>1. FdInv' /\ RangeInv'
    BY <1>1 DEF ListInv, FdInv, RangeInv
  <2>2. MaskInv'
    BY <1>1 DEF ListInv, MaskInv
  <2> QED
    BY <2>1, <2>2
<1>3. SelectionExact'
  BY <1>1 DEF ListInv, SelectionExact
<1>4. OpenInv'
  <2>1. \A f \in DOMAIN fds : fds[f].rec \in Recorders
    BY DEF TypeOK
  <2>2. \A f \in DOMAIN fds : fds[f].node \notin todo'[fds[f].rec]
    BY <1>1, <2>1 DEF ListInv, OpenInv
  <2>3. UNCHANGED <<pc, devices, fds, skipped>>
    BY <1>1
  <2> QED
    BY <2>2, <2>3 DEF ListInv, OpenInv
<1>5. ListedInv'
  <2>1. \A q \in Recorders : Nodes \ (todo'[q] \cup refused'[q])
                               \subseteq Nodes \ (todo[q] \cup refused[q])
    BY <1>1
  <2> QED
    BY <1>1, <2>1 DEF ListInv, ListedInv
<1> QED
  BY <1>2, <1>3, <1>4, <1>5 DEF ListInv

\* The end of the constructor keeps the lists in order: every listed device is
\* selected.
LEMMA ConstructedInv ==
    ASSUME TypeOK, UnusedInv, ListInv, NEW r \in Recorders, Constructed(r)
    PROVE  ListInv'
<1>1. /\ pc[r] = "scan" /\ todo[r] = {}
      /\ UNCHANGED <<todo, devices, mask, fds, skipped, refused, chosen>>
      /\ \A q \in Recorders : pc'[q] = IF q = r THEN "ready" ELSE pc[q]
      /\ faults' = 0 => faults = 0
  BY FailType DEF Constructed, TypeOK
<1>2. FdInv' /\ RangeInv' /\ MaskInv'
  <2>1. FdInv' /\ RangeInv'
    BY <1>1 DEF ListInv, FdInv, RangeInv
  <2>2. MaskInv'
    BY <1>1 DEF ListInv, MaskInv
  <2> QED
    BY <2>1, <2>2
<1>3. SelectionExact'
  <2>1. mask[r] = 1..MaskBits /\ chosen[r] = Nodes
    BY <1>1 DEF ListInv, MaskInv
  <2>2. DOMAIN devices[r] = 1..Len(devices[r]) /\ Len(devices[r]) \in Nat
    BY DEF TypeOK
  <2>3. \A i \in DOMAIN devices[r] : devices[r][i].node \in Nodes
    <3>1. \A i \in DOMAIN devices[r] : devices[r][i] \in Device
      BY DEF TypeOK
    <3> QED
      BY <3>1 DEF Device
  <2>4. Picked(r) = DOMAIN devices[r]
    BY <2>1, <2>3 DEF Picked
  <2>5. Exact(r)
    BY <2>1, <2>2, <2>4, DiscoveryAssumption DEF Exact
  <2>6. \A q \in Recorders : Exact(q)' <=> Exact(q)
    BY <1>1 DEF Exact, Picked
  <2> QED
    BY <1>1, <2>5, <2>6 DEF ListInv, SelectionExact, Exact, Picked
<1>4. OpenInv'
  <2>1. \A f \in DOMAIN fds : fds[f].rec \in Recorders
    BY DEF TypeOK
  <2> QED
    BY <1>1, <2>1 DEF ListInv, OpenInv
<1>5. ListedInv'
  BY <1>1 DEF ListInv, ListedInv
<1> QED
  BY <1>2, <1>3, <1>4, <1>5 DEF ListInv

\* The descriptor names a device of one recorder.
LEMMA FdNames ==
    ASSUME FdInv, NEW r \in Recorders, NEW q \in Recorders,
           NEW i \in DOMAIN devices[r], NEW k \in DOMAIN devices[q],
           devices[r][i].fd = devices[q][k].fd
    PROVE  r = q /\ i = k
<1>1. [rec |-> r, node |-> devices[r][i].node] = [rec |-> q, node |-> devices[q][k].node]
  BY DEF FdInv
<1>2. r = q /\ devices[r][i].node = devices[q][k].node
  BY <1>1
<1> QED
  BY <1>2 DEF FdInv

\* A selection keeps the lists in order, and is exactly what the client chose.
LEMMA SelectInv ==
    ASSUME TypeOK, ListInv, NEW r \in Recorders, NEW q \in Recorders,
           setDevicesToRecord(r, q)
    PROVE  ListInv'
<1>1. UNCHANGED <<pc, todo, devices, xkb, fds, skipped, refused, faults>> /\ pc[r] = "ready"
  BY DEF setDevicesToRecord
<1>2. PICK keep \in Selections :
        /\ \E bits \in MaskOf(SelectedBy(r, {d \in listDevices(q) : d.type \in keep})) :
              mask' = [mask EXCEPT ![r] = bits]
        /\ chosen' = [chosen EXCEPT ![r] =
              IF q = r THEN {d.node : d \in {e \in listDevices(q) : e.type \in keep}} ELSE {}]
  BY DEF setDevicesToRecord
<1>3. PICK list : list = {d \in listDevices(q) : d.type \in keep}
  OBVIOUS
<1>4. /\ mask'[r] \in MaskOf(SelectedBy(r, list))
      /\ chosen'[r] = IF q = r THEN {d.node : d \in list} ELSE {}
      /\ \A o \in Recorders \ {r} : mask'[o] = mask[o] /\ chosen'[o] = chosen[o]
  BY <1>2, <1>3 DEF TypeOK
<1>5. FdInv' /\ RangeInv' /\ OpenInv' /\ ListedInv'
  BY <1>1 DEF ListInv, FdInv, RangeInv, RangesOf, OpenInv, ListedInv
<1>6. MaskInv'
  BY <1>1, <1>4 DEF ListInv, MaskInv
<1>7. \A d \in list : \E k \in DOMAIN devices[q] : d = devices[q][k]
  BY <1>3 DEF listDevices
<1>8. SelectedBy(r, list) = Picked(r)'
  <2>1. CASE q # r
    <3>1. SelectedBy(r, list) = {}
      <4> SUFFICES ASSUME NEW i \in DOMAIN devices[r], NEW d \in list,
                          devices[r][i].fd = d.fd
                   PROVE  FALSE
        BY DEF SelectedBy
      <4> QED
        BY <1>7, <2>1, FdNames DEF ListInv
    <3> QED
      BY <1>4, <2>1, <3>1 DEF Picked
  <2>2. CASE q = r
    <3>1. ASSUME NEW i \in DOMAIN devices[r]
          PROVE  i \in SelectedBy(r, list) <=> devices[r][i] \in list
      <4>1. ASSUME NEW d \in list, devices[r][i].fd = d.fd
            PROVE  devices[r][i] \in list
        BY <1>7, <2>2, <4>1, FdNames DEF ListInv
      <4> QED
        BY <4>1 DEF SelectedBy
    <3>2. ASSUME NEW i \in DOMAIN devices[r], devices[r][i].node \in {d.node : d \in list}
          PROVE  devices[r][i] \in list
      <4>1. PICK d \in list : d.node = devices[r][i].node
        BY <3>2
      <4>2. PICK k \in DOMAIN devices[r] : d = devices[r][k]
        BY <1>7, <2>2
      <4>3. k = i
        BY <4>1, <4>2 DEF ListInv, FdInv
      <4> QED
        BY <4>2, <4>3
    <3>3. chosen'[r] = {d.node : d \in list}
      BY <1>4, <2>2
    <3>4. \A i \in DOMAIN devices[r] :
             i \in SelectedBy(r, list) <=> devices[r][i].node \in chosen'[r]
      BY <3>1, <3>2, <3>3
    <3>5. SelectedBy(r, list) \subseteq DOMAIN devices[r]
      BY DEF SelectedBy
    <3> QED
      BY <1>1, <3>4, <3>5 DEF Picked
  <2> QED
    BY <2>1, <2>2
<1>9. Exact(r)'
  <2>1. PICK sel : sel = SelectedBy(r, list)
    OBVIOUS
  <2>2. /\ DOMAIN devices[r] = 1..Len(devices[r]) /\ Len(devices[r]) \in Nat
        /\ sel \subseteq DOMAIN devices[r]
    BY <2>1 DEF SelectedBy, TypeOK
  <2>3. sel \in SUBSET (Nat \ {0})
    BY <2>2
  <2>4. PICK bits \in MaskOf(sel) : bits = mask'[r]
    BY <1>4, <2>1
  <2>5. /\ sel \cap 1..MaskBits \subseteq bits
        /\ sel \subseteq 1..MaskBits => bits = sel
    BY <2>3, MaskOfType
  <2>6. Len(devices[r]) <= MaskBits => sel \subseteq 1..MaskBits
    BY <2>2, DiscoveryAssumption
  <2>7. sel = Picked(r)'
    BY <1>8, <2>1
  <2> QED
    BY <1>1, <2>2, <2>4, <2>5, <2>6, <2>7 DEF Exact
<1>10. ASSUME NEW o \in Recorders \ {r}, pc[o] = "ready" PROVE Exact(o)'
  <2>1. Exact(o)
    BY <1>10, SelectionIs DEF ListInv
  <2> QED
    BY <1>1, <1>4, <2>1 DEF Exact, Picked
<1>11. SelectionExact'
  BY <1>1, <1>9, <1>10 DEF SelectionExact, Exact, Picked
<1> QED
  BY <1>5, <1>6, <1>11 DEF ListInv

\* The destructor closes the descriptors of its own list and no others.
LEMMA DestroyInv ==
    ASSUME TypeOK, ListInv, NEW r \in Recorders, Destroy(r)
    PROVE  ListInv'
<1>1. /\ UNCHANGED <<todo, skipped, faults>>
      /\ pc'[r] = "gone" /\ devices'[r] = <<>> /\ DOMAIN devices'[r] = {}
      /\ \A q \in Recorders \ {r} :
            /\ pc'[q] = pc[q] /\ devices'[q] = devices[q] /\ mask'[q] = mask[q]
            /\ refused'[q] = refused[q] /\ chosen'[q] = chosen[q]
      /\ DOMAIN fds' = DOMAIN fds \ ToClose(r)
      /\ \A f \in DOMAIN fds' : fds'[f] = fds[f]
  BY DEF Destroy, TypeOK
<1>2. ASSUME NEW q \in Recorders \ {r}, NEW i \in DOMAIN devices[q]
      PROVE  devices[q][i].fd \notin ToClose(r)
  BY <1>2, FdNames DEF ListInv, ToClose
<1>3. FdInv'
  BY <1>1, <1>2 DEF ListInv, FdInv
<1>4. RangeInv' /\ MaskInv'
  BY <1>1 DEF ListInv, RangeInv, RangesOf, MaskInv
<1>5. SelectionExact'
  BY <1>1 DEF ListInv, SelectionExact
<1>6. ListedInv'
  BY <1>1 DEF ListInv, ListedInv
<1>7. OpenInv'
  <2> SUFFICES ASSUME NEW f \in DOMAIN fds'
               PROVE  /\ pc'[fds[f].rec] # "none" /\ fds[f].node \notin todo[fds[f].rec]
                      /\ \/ fds[f].node \in skipped[fds[f].rec]
                         \/ \E i \in DOMAIN devices'[fds[f].rec] :
                               devices'[fds[f].rec][i].fd = f
                      /\ \A other \in DOMAIN fds' : fds[other] = fds[f] => other = f
    BY <1>1 DEF OpenInv
  <2>1. f \in DOMAIN fds /\ f \notin ToClose(r) /\ fds[f].rec \in Recorders
    BY <1>1 DEF TypeOK
  <2>2. /\ pc[fds[f].rec] # "none" /\ fds[f].node \notin todo[fds[f].rec]
        /\ \/ fds[f].node \in skipped[fds[f].rec]
           \/ \E i \in DOMAIN devices[fds[f].rec] : devices[fds[f].rec][i].fd = f
        /\ \A other \in DOMAIN fds : fds[other] = fds[f] => other = f
    BY <2>1 DEF ListInv, OpenInv
  <2>3. CASE fds[f].rec = r
    <3>1. fds[f].node \in skipped[r]
      BY <2>1, <2>2, <2>3 DEF ToClose
    <3> QED
      BY <1>1, <2>2, <2>3, <3>1
  <2>4. CASE fds[f].rec # r
    BY <1>1, <2>1, <2>2, <2>4
  <2> QED
    BY <2>3, <2>4
<1> QED
  BY <1>3, <1>4, <1>5, <1>6, <1>7 DEF ListInv

\* Every step keeps the lists in order.
LEMMA NextLists == TypeOK /\ UnusedInv /\ ListInv /\ [Next]_vars => ListInv'
<1> SUFFICES ASSUME TypeOK, UnusedInv, ListInv, [Next]_vars PROVE ListInv'
  OBVIOUS
<1>1. ASSUME NEW r \in Recorders, NEW n \in Nodes, Scan(r, n)
      PROVE  ListInv'
  BY <1>1, ScanIsScanned, ScanInv
<1>2. CASE UNCHANGED vars
  <2>1. FdInv' /\ RangeInv'
    BY <1>2 DEF vars, ListInv, FdInv, RangeInv
  <2>2. MaskInv' /\ SelectionExact'
    BY <1>2 DEF vars, ListInv, MaskInv, SelectionExact
  <2>3. OpenInv' /\ ListedInv'
    BY <1>2 DEF vars, ListInv, OpenInv, ListedInv
  <2> QED
    BY <2>1, <2>2, <2>3 DEF ListInv
<1> QED
  BY <1>1, <1>2, ConstructInv, ConstructedInv, RefuseInv, SelectInv, DestroyInv
     DEF Next, Done

\* The lists are in order in every state.
LEMMA ListsCorrect == Spec => [](TypeOK /\ UnusedInv /\ ListInv)
<1>1. Init => ListInv
  <2> SUFFICES ASSUME Init PROVE ListInv
    OBVIOUS
  <2>1. /\ DOMAIN fds = {}
        /\ \A r \in Recorders : /\ DOMAIN devices[r] = {} /\ pc[r] = "none"
                                /\ mask[r] = 1..MaskBits /\ chosen[r] = Nodes
    BY DEF Init
  <2> QED
    BY <2>1 DEF ListInv, FdInv, MaskInv, SelectionExact, OpenInv, RangeInv, ListedInv
<1>2. TypeOK /\ UnusedInv /\ ListInv /\ [Next]_vars => (TypeOK /\ UnusedInv /\ ListInv)'
  BY NextType, NextLists
<1> QED
  BY <1>1, <1>2, InitType, PTL DEF Spec

\* The devices that a recorder selects are those that the client chose from its
\* list, for every number of recorders and of devices up to the width of the mask;
\* with more devices the chosen ones within the width are selected, and of the bits
\* of the others nothing is said. Descriptors name devices.
THEOREM SelectionCorrect == Spec => []SelectionExact
<1>1. ListInv => SelectionExact
  BY DEF ListInv
<1> QED
  BY <1>1, ListsCorrect, PTL

\* What a destroyed recorder leaves open are the devices that it had skipped, each
\* once, for every number of recorders, devices and descriptors.
THEOREM LeaksCorrect == Spec => []LeaksOnlySkipped
<1>1. TypeOK /\ UnusedInv /\ ListInv => LeaksOnlySkipped
  <2> SUFFICES ASSUME TypeOK, UnusedInv, ListInv, NEW fd \in DOMAIN fds
               PROVE  /\ pc[fds[fd].rec] = "gone" => fds[fd].node \in skipped[fds[fd].rec]
                      /\ \A other \in DOMAIN fds \ {fd} : fds[other] # fds[fd]
    BY DEF LeaksOnlySkipped
  <2>1. fds[fd].rec \in Recorders
    BY DEF TypeOK
  <2>2. pc[fds[fd].rec] = "gone" => DOMAIN devices[fds[fd].rec] = {}
    BY <2>1 DEF UnusedInv
  <2> QED
    BY <2>1, <2>2 DEF ListInv, OpenInv
<1> QED
  BY <1>1, ListsCorrect, PTL

\* What the constructor's tests make of a device, in terms of what it is: they are
\* wrong for the misjudged ones only.
LEMMA Classified ==
    ASSUME NEW n \in Nodes
    PROVE  TypeOf(EvBits[n], AbsBits[n])
             = IF ~Misjudged(n) THEN WhatItIs(n)
               ELSE IF "KEY" \in EvBits[n] THEN "TOUCHSCREEN" ELSE "skipped"
<1>1. "SYN" \in EvBits[n] /\ (AbsBits[n] # {} => "ABS" \in EvBits[n])
  BY DiscoveryAssumption
<1>2. MtBits \subseteq AbsBits[n] => "ABS" \in EvBits[n]
  BY <1>1 DEF MtBits
<1>3. HasPosition(AbsBits[n]) => "ABS" \in EvBits[n]
  BY <1>1 DEF HasPosition
<1>4. HasAbsXY(EvBits[n], AbsBits[n]) <=> "KEY" \in EvBits[n]
  BY <1>1 DEF HasAbsXY
<1> QED
  BY <1>2, <1>3, <1>4 DEF TypeOf, WhatItIs, Misjudged

\* A recorder whose calls do not fail lists every device that it could open exactly
\* once and as what its own bits say it is, and none that is not one to record, for
\* all capability bits that the kernel lets a device have, except that a mouse or
\* keyboard with absolute axes becomes a touchscreen, or is skipped without keys.
THEOREM ListingCorrect == Spec => []InputsListedOnce
<1>1. TypeOK /\ UnusedInv /\ ListInv => InputsListedOnce
  <2> SUFFICES ASSUME TypeOK, UnusedInv, ListInv, NEW r \in Recorders, pc[r] = "ready",
                      faults = 0, NEW n \in Nodes \ refused[r]
               PROVE  LET places == {i \in DOMAIN devices[r] : devices[r][i].node = n}
                          type == IF ~Misjudged(n) THEN WhatItIs(n)
                                  ELSE IF "KEY" \in EvBits[n] THEN "TOUCHSCREEN" ELSE "skipped"
                      IN  IF type = "skipped" THEN places = {}
                          ELSE \E i \in places : places = {i} /\ devices[r][i].type = type
    BY DEF InputsListedOnce
  <2> DEFINE places == {i \in DOMAIN devices[r] : devices[r][i].node = n}
             type == TypeOf(EvBits[n], AbsBits[n])
  <2>1. todo[r] = {}
    BY DEF ListInv, MaskInv
  <2>2. IF type = "skipped" THEN places = {}
        ELSE \E i \in places : devices[r][i].type = type
    BY <2>1 DEF ListInv, ListedInv
  <2>3. \A i, j \in places : i = j
    <3>1. \A i, j \in DOMAIN devices[r] :
             devices[r][j].node = devices[r][i].node => j = i
      BY DEF ListInv, FdInv
    <3> QED
      BY <3>1
  <2>4. type = IF ~Misjudged(n) THEN WhatItIs(n)
               ELSE IF "KEY" \in EvBits[n] THEN "TOUCHSCREEN" ELSE "skipped"
    BY Classified
  <2> HIDE DEF places, type
  <2>5. IF type = "skipped" THEN places = {}
        ELSE \E i \in places : places = {i} /\ devices[r][i].type = type
    BY <2>2, <2>3
  <2> QED
    BY <2>4, <2>5 DEF places
<1> QED
  BY <1>1, ListsCorrect, PTL

-----------------------------------------------------------------------------
(***************************************************************************)
(* Touch coordinates.                                                      *)
(***************************************************************************)
\* What integer division is.
LEMMA Division ==
    ASSUME NEW x \in Int, NEW b \in Nat \ {0}
    PROVE  /\ x \div b \in Int /\ x % b \in 0..(b - 1)
           /\ x = b * (x \div b) + (x % b)
  OBVIOUS

\* A positive factor can be cancelled.
LEMMA Cancelled ==
    ASSUME NEW b \in Nat \ {0}, NEW q \in Int, NEW m \in Int, b * q < b * m
    PROVE  q < m
<1>1. CASE q >= m
  <2>1. b * q >= b * m
    BY <1>1
  <2> QED
    BY <2>1
<1> QED
  BY <1>1

\* The quotient of the scaled value lies within the virtual range.
LEMMA QuotientFits ==
    ASSUME NEW w \in Nat, NEW N \in Nat \ {0}, w <= N, NEW m \in Nat \ {0},
           NEW D, D = (w * m) \div N
    PROVE  /\ D \in Int /\ D \in 0..m
           /\ N * D <= w * m /\ w * m < N * (D + 1)
           /\ w * m > 0 /\ (w * m) % N = 0 => D >= 1 /\ N * D = w * m
           /\ w = 0 => D = 0
           /\ w = N => D = m
<1>1. w * m \in Nat /\ w * m <= N * m /\ N * m \in Nat
  OBVIOUS
<1>2. PICK S \in Nat : S = w * m
  BY <1>1
<1>3. /\ D \in Int /\ S % N \in 0..(N - 1)
      /\ S = N * D + (S % N)
  <2>1. D = S \div N
    BY <1>2
  <2>2. \A x \in Int : /\ x \div N \in Int /\ x % N \in 0..(N - 1)
                       /\ x = N * (x \div N) + (x % N)
    BY Division
  <2>3. /\ S \div N \in Int /\ S % N \in 0..(N - 1)
        /\ S = N * (S \div N) + (S % N)
    BY <2>2
  <2> QED
    BY <2>1, <2>3
<1>4. N * D <= S /\ S < N * (D + 1)
  <2>1. N * (D + 1) = N * D + N /\ N * D \in Int
    BY <1>3
  <2> QED
    BY <1>3, <2>1
<1>5. D >= 0
  <2>1. N * 0 < N * (D + 1)
    BY <1>4
  <2>2. 0 < D + 1
    BY <1>3, <2>1, Cancelled
  <2> QED
    BY <1>3, <2>2
<1>6. D <= m
  <2>1. N * D < N * (m + 1)
    BY <1>1, <1>2, <1>3, <1>4
  <2>2. D < m + 1
    BY <1>3, <2>1, Cancelled
  <2> QED
    BY <1>3, <2>2
<1>7. S > 0 /\ S % N = 0 => D >= 1 /\ N * D = S
  <2> SUFFICES ASSUME S > 0, S % N = 0 PROVE D >= 1 /\ N * D = S
    OBVIOUS
  <2>1. N * D = S
    BY <1>3
  <2>2. D # 0
    BY <2>1
  <2> QED
    BY <1>3, <1>5, <2>1, <2>2
<1>8. ASSUME w = 0 PROVE D = 0
  <2>1. N * D < N * 1
    BY <1>2, <1>3, <1>4, <1>8
  <2>2. D < 1
    BY <1>3, <2>1, Cancelled
  <2> QED
    BY <1>3, <1>5, <2>2
<1>9. ASSUME w = N PROVE D = m
  <2>1. N * m < N * (D + 1)
    BY <1>2, <1>4, <1>9
  <2>2. m < D + 1
    BY <1>3, <2>1, Cancelled
  <2> QED
    BY <1>3, <1>6, <2>2
<1> QED
  BY <1>2, <1>3, <1>4, <1>5, <1>6, <1>7, <1>8, <1>9

\* Larger values have no smaller quotients; one that is exact is larger.
LEMMA QuotientGrows ==
    ASSUME NEW w \in Nat, NEW N \in Nat \ {0}, w + 1 <= N, NEW m \in Nat \ {0},
           NEW D, D = (w * m) \div N, NEW E, E = ((w + 1) * m) \div N
    PROVE  /\ D <= E
           /\ (w + 1) * m > 0 /\ ((w + 1) * m) % N = 0 => D <= E - 1
<1>1. PICK w1 \in Nat : w1 = w + 1 /\ w1 <= N
  OBVIOUS
<1>2. w1 * m = w * m + m /\ w * m \in Nat /\ w1 * m \in Nat
  BY <1>1
<1>3. D \in Int /\ N * D <= w * m
  BY QuotientFits
<1>4. /\ E \in Int /\ w1 * m < N * (E + 1)
      /\ w1 * m > 0 /\ (w1 * m) % N = 0 => N * E = w1 * m
  BY <1>1, QuotientFits
<1>5. D < E + 1
  <2>1. N * D \in Int /\ N * (E + 1) \in Int
    BY <1>3, <1>4
  <2>2. N * D < N * (E + 1)
    BY <1>2, <1>3, <1>4, <2>1
  <2> QED
    BY <1>3, <1>4, <2>2, Cancelled
<1>6. ASSUME w1 * m > 0, (w1 * m) % N = 0 PROVE D < E
  <2>1. N * E = w1 * m
    BY <1>4, <1>6
  <2>2. N * D < N * E
    BY <1>2, <1>3, <2>1
  <2> QED
    BY <1>3, <1>4, <2>2, Cancelled
<1> QED
  BY <1>1, <1>3, <1>4, <1>5, <1>6

\* The transformation of a touch, in these terms.
LEMMA Transformed ==
    ASSUME NEW range \in Int \X Int, NEW v \in range[1]..range[2],
           range[1] < range[2]
    PROVE  LET w == v - range[1]
               N == range[2] - range[1]
               D == (w * AbsMax) \div N
           IN  /\ w \in Nat /\ N \in Nat \ {0} /\ w <= N
               /\ D \in transform_touch_coordinates(v, range)
               /\ \A p \in transform_touch_coordinates(v, range) :
                     \/ p = D
                     \/ p = D - 1 /\ w * AbsMax > 0 /\ (w * AbsMax) % N = 0
  BY DEF transform_touch_coordinates, Normalized

\* A touch anywhere on a listed device, by any of its axes and whatever it was
\* listed as, is recorded within the range of the virtual touchscreens, and where
\* its range was read from end to end and in order, for every device, range and
\* AbsMax.
THEOREM CoordinatesCorrect == Spec => []CoordinatesFit
<1>0. AbsMax \in Nat \ {0}
  BY DiscoveryAssumption
<1>1. ASSUME NEW range \in Int \X Int, NEW v \in range[1]..range[2], range[1] < range[2]
      PROVE  /\ transform_touch_coordinates(v, range) \subseteq 0..AbsMax
             /\ v = range[1] => transform_touch_coordinates(v, range) = {0}
             /\ v = range[2] =>
                   transform_touch_coordinates(v, range) \subseteq {AbsMax - 1, AbsMax}
  <2> DEFINE w == v - range[1]
             N == range[2] - range[1]
             D == (w * AbsMax) \div N
             T == transform_touch_coordinates(v, range)
  <2>1. /\ w \in Nat /\ N \in Nat \ {0} /\ w <= N /\ D \in T
        /\ \A p \in T : \/ p = D
                        \/ p = D - 1 /\ w * AbsMax > 0 /\ (w * AbsMax) % N = 0
    BY <1>1, Transformed
  <2>2. /\ v = range[1] => w = 0
        /\ v = range[2] => w = N
    BY <1>1
  <2>3. PICK w0 \in Nat, N0 \in Nat \ {0} : w0 = w /\ N0 = N
    BY <2>1
  <2>4. PICK D0 : D0 = (w0 * AbsMax) \div N0
    OBVIOUS
  <2>5. /\ D0 \in Int /\ D0 \in 0..AbsMax
        /\ w0 * AbsMax > 0 /\ (w0 * AbsMax) % N0 = 0 => D0 >= 1
        /\ w0 = 0 => D0 = 0
        /\ w0 = N0 => D0 = AbsMax
    BY <1>0, <2>1, <2>3, <2>4, QuotientFits
  <2>6. D0 = D
    BY <2>3, <2>4
  <2>7. \A p \in T : \/ p = D0
                     \/ p = D0 - 1 /\ w0 * AbsMax > 0 /\ (w0 * AbsMax) % N0 = 0
    BY <2>1, <2>3, <2>6
  <2>8. D0 \in T
    BY <2>1, <2>6
  <2> HIDE DEF w, N, D, T
  <2>9. T \subseteq 0..AbsMax
    BY <1>0, <2>5, <2>7
  <2>10. ASSUME w0 = 0 PROVE T = {0}
    <3>1. w0 * AbsMax = 0
      BY <1>0, <2>10
    <3>2. \A p \in T : p = D0
      BY <2>7, <3>1
    <3>3. D0 = 0
      BY <2>5, <2>10
    <3> QED
      BY <2>8, <3>2, <3>3
  <2>11. ASSUME w0 = N0 PROVE T \subseteq {AbsMax - 1, AbsMax}
    BY <2>5, <2>7, <2>11
  <2> QED
    BY <2>2, <2>3, <2>9, <2>10, <2>11 DEF T
<1>2. ASSUME NEW range \in Int \X Int, NEW v \in range[1]..(range[2] - 1),
             range[1] < range[2],
             NEW p \in transform_touch_coordinates(v, range),
             NEW q \in transform_touch_coordinates(v + 1, range)
      PROVE  p <= q
  <2>1. PICK w \in Nat, N \in Nat \ {0} :
           w = v - range[1] /\ N = range[2] - range[1] /\ w + 1 <= N
           /\ v + 1 - range[1] = w + 1
    BY <1>2
  <2>2. PICK D : D = (w * AbsMax) \div N
    OBVIOUS
  <2>3. PICK E : E = ((w + 1) * AbsMax) \div N
    OBVIOUS
  <2>4. /\ D <= E /\ D \in Int /\ E \in Int
        /\ (w + 1) * AbsMax > 0 /\ ((w + 1) * AbsMax) % N = 0 => D <= E - 1
    <3>1. w * AbsMax \in Int /\ (w + 1) * AbsMax \in Int
      BY <1>0
    <3>2. D \in Int /\ E \in Int
      BY <2>2, <2>3, <3>1, Division
    <3> QED
      BY <1>0, <2>1, <2>2, <2>3, <3>2, QuotientGrows
  <2>5. p = D \/ p = D - 1
    BY <1>2, <2>1, <2>2, Transformed
  <2>6. \/ q = E
        \/ q = E - 1 /\ (w + 1) * AbsMax > 0 /\ ((w + 1) * AbsMax) % N = 0
    BY <1>2, <2>1, <2>3, Transformed
  <2> QED
    BY <2>4, <2>5, <2>6
<1>3. ASSUME NEW range \in Int \X Int, ~(range[1] < range[2]), NEW v
      PROVE  transform_touch_coordinates(v, range) = {0}
  BY <1>3 DEF transform_touch_coordinates
<1>4. TypeOK /\ UnusedInv /\ ListInv => CoordinatesFit
  <2> SUFFICES ASSUME TypeOK, UnusedInv, ListInv, NEW r \in Recorders,
                      NEW i \in DOMAIN devices[r], NEW c \in 1..2,
                      NEW a \in TransformedAxes[c] \cap AbsBits[devices[r][i].node]
               PROVE  TouchesFit(devices[r][i].range[c], AxisRange[devices[r][i].node][a])
    BY DEF CoordinatesFit
  <2>0. \A b \in TransformedAxes[c] : b \in Axes
    BY DEF TransformedAxes, Axes
  <2>1. PICK d \in Device : d = devices[r][i]
    BY DEF TypeOK
  <2>2. PICK true \in Int \X Int : true = AxisRange[d.node][a]
    BY <2>0, <2>1, DiscoveryAssumption DEF Device
  <2>3. PICK range \in Int \X Int : range = d.range[c]
    BY <2>1 DEF Device
  <2>4. range = true \/ range = NoRange
    <3>1. CASE range = NoRange
      BY <3>1
    <3>2. ASSUME NEW b \in TransformedAxes[c], range = AxisRange[d.node][b]
          PROVE  range = true \/ range = NoRange
      <4>1. d.node \in Nodes /\ b \in Axes /\ a \in AbsBits[d.node]
        BY <2>0, <2>1 DEF Device
      <4>2. CASE b \in AbsBits[d.node]
        BY <2>2, <3>2, <4>1, <4>2, DiscoveryAssumption
      <4>3. CASE b \notin AbsBits[d.node]
        BY <3>2, <4>1, <4>3, DiscoveryAssumption
      <4> QED
        BY <4>2, <4>3
    <3> QED
      BY <2>1, <2>3, <3>1, <3>2 DEF ListInv, RangeInv, RangesOf
  <2>5. ASSUME NEW v \in true[1]..true[2]
        PROVE  transform_touch_coordinates(v, range) \subseteq 0..AbsMax
    <3>1. CASE range[1] < range[2]
      <4>1. range = true
        BY <2>4, <3>1 DEF NoRange
      <4> QED
        BY <1>1, <3>1, <4>1
    <3>2. CASE ~(range[1] < range[2])
      <4>1. transform_touch_coordinates(v, range) = {0}
        BY <1>3, <3>2
      <4> QED
        BY <1>0, <4>1
    <3> QED
      BY <3>1, <3>2
  <2>6. ASSUME range = true, true[1] < true[2]
        PROVE  /\ transform_touch_coordinates(true[1], range) = {0}
               /\ transform_touch_coordinates(true[2], range) \subseteq {AbsMax - 1, AbsMax}
               /\ \A v \in true[1]..(true[2] - 1) :
                     \A p \in transform_touch_coordinates(v, range),
                        q \in transform_touch_coordinates(v + 1, range) : p <= q
    <3>1. true[1] \in true[1]..true[2] /\ true[2] \in true[1]..true[2]
      BY <2>6
    <3> QED
      BY <1>1, <1>2, <2>6, <3>1
  <2>7. TouchesFit(range, true)
    BY <2>5, <2>6 DEF TouchesFit
  <2> QED
    BY <2>1, <2>2, <2>3, <2>7
<1> QED
  BY <1>4, ListsCorrect, PTL

================================================================================
