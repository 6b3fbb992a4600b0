------------------------------- MODULE InputProofs -------------------------------
(***************************************************************************)
(* Remote input, for every keymap, every set of enabled keys, every list   *)
(* of contacts, every raw event and every number of failing system calls.  *)
(*                                                                         *)
(* Every step is one of the constructor, a request or the destructor       *)
(* (InputSteps); a request writes to one device, and to that only if the   *)
(* constructor created it. InputInv says so: a device that was created has *)
(* a descriptor, one that was not is idle (CreatedInv), keys that are down *)
(* are within the capabilities (CapsInv), and as long as no call has       *)
(* failed every device is complete (CompleteInv). Without the last part    *)
(* KeysAsAsked would not be inductive: a press that the kernel drops as    *)
(* unsupported would be missing. What a call asks for is what its event    *)
(* says, as long as the code fits into 16 bits (KeyRequest).               *)
(*                                                                         *)
(* TouchRefinement is proved step by step. A report's events stand at      *)
(* fixed places, four to an entry; the slot that is current at the last    *)
(* three is the one the first selects, and the place of the last event for *)
(* a slot and an axis is that of the last entry that sets it (MaxMap), so  *)
(* the effect of the events is the update of the table.                    *)
(***************************************************************************)
EXTENDS VirtualInput, FiniteSetTheorems, WellFoundedInduction,
        TLAPS

CodeTypes == {"SYN", "KEY", "REL", "ABS", "NONE"}
Event == [code : CodeTypes \X Nat, val : Int]
KeyCodes == {"KEY"} \X Nat

\* The kernel's state of one device.
Kernel == [keys : SUBSET KeyCodes, slot : Slots, id : [Slots -> Int],
           x : [Slots -> Int], y : [Slots -> Int]]

-----------------------------------------------------------------------------
\* Some numbers have a least one.
LEMMA LeastNatural ==
    ASSUME NEW T \in SUBSET Nat, T # {}
    PROVE  \E t \in T : \A u \in T : t <= u
<1> DEFINE R == OpToRel(<, Nat)
<1>1. \A u, t \in Nat : u < t => <<u, t>> \in R
  BY DEF OpToRel
<1>2. IsWellFoundedOn(R, Nat)
  BY NatLessThanWellFounded
<1> HIDE DEF R
<1>3. PICK t \in T : \A u \in T : ~(<<u, t>> \in R)
  BY <1>2, WFMin
<1>4. \A u \in T : ~(u < t)
  BY <1>1, <1>3
<1> QED
  BY <1>3, <1>4

\* The last of finitely many positions is one of them, and none is later.
LEMMA MaxLast ==
    ASSUME NEW n \in Nat, NEW S \in SUBSET (1..n), S # {}
    PROVE  Max(S) \in S /\ \A y \in S : y <= Max(S)
<1> DEFINE T == {n - i : i \in S}
<1>1. \A i \in S : n - i \in Nat
  OBVIOUS
<1>2. T \in SUBSET Nat /\ T # {}
  BY <1>1
<1> HIDE DEF T
<1>3. PICK t \in T : \A u \in T : t <= u
  BY <1>2, LeastNatural
<1> USE DEF T
<1>4. PICK m \in S : t = n - m
  BY <1>3
<1>5. \A y \in S : m >= y
  BY <1>3, <1>4
<1>6. Max(S) \in S /\ \A y \in S : Max(S) >= y
  BY <1>4, <1>5 DEF Max
<1> QED
  BY <1>6

\* The devices, one for each index of mDeviceFd.
LEMMA DevicesAre ==
    /\ DOMAIN DeviceOrder = 1..4
    /\ Devices = {"mouse", "keyboard", "touchscreen", "multi"}
    /\ \A p \in 1..4 : DeviceOrder[p] \in Devices
    /\ \A p, q \in 1..4 : DeviceOrder[p] = DeviceOrder[q] => p = q
    /\ \A d \in Devices : \E p \in 1..4 : DeviceOrder[p] = d
<1>1. DOMAIN DeviceOrder = 1..4
  BY DEF DeviceOrder
<1>2. Devices = {DeviceOrder[p] : p \in 1..4}
  BY <1>1 DEF Devices, Range
<1>3. 1..4 = {1, 2, 3, 4}
  OBVIOUS
<1>4. /\ DeviceOrder[1] = "mouse" /\ DeviceOrder[2] = "keyboard"
      /\ DeviceOrder[3] = "touchscreen" /\ DeviceOrder[4] = "multi"
  BY DEF DeviceOrder
<1> QED
  BY <1>1, <1>2, <1>3, <1>4

\* What the last of some events says is a value, or the old one is kept.
LEMMA LatestType ==
    ASSUME NEW n \in Nat, NEW events \in [1..n -> Event], NEW S \in SUBSET (1..n),
           NEW V, NEW old \in V, \A i \in S : events[i].val \in V
    PROVE  Latest(events, S, old) \in V
<1>1. CASE S = {}
  BY <1>1 DEF Latest
<1>2. CASE S # {}
  BY <1>2, MaxLast DEF Latest
<1> QED
  BY <1>1, <1>2

\* The current slot is always one that the device has.
LEMMA SlotAtType ==
    ASSUME NEW n \in Nat, NEW events \in [1..n -> Event], NEW sent \in SUBSET (1..n),
           NEW k \in Kernel, NEW m
    PROVE  SlotAt(k, events, sent, m) \in Slots
<1> DEFINE S == {i \in Of(events, sent, MtSlot) : i < m /\ events[i].val \in Slots}
<1>1. S \in SUBSET (1..n) /\ \A i \in S : events[i].val \in Slots
  BY DEF Of
<1>2. k.slot \in Slots
  BY DEF Kernel
<1> HIDE DEF S
<1>3. Latest(events, S, k.slot) \in Slots
  BY <1>1, <1>2, LatestType
<1> QED
  BY <1>3 DEF SlotAt, S

\* An axis keeps one value per slot.
LEMMA AxisType ==
    ASSUME NEW n \in Nat, NEW events \in [1..n -> Event], NEW sent \in SUBSET (1..n),
           NEW k \in Kernel, NEW code, NEW old \in [Slots -> Int]
    PROVE  Axis(k, events, sent, code, old) \in [Slots -> Int]
<1> SUFFICES ASSUME NEW s \in Slots
             PROVE  Latest(events,
                           {i \in Of(events, sent, code) :
                               SlotAt(k, events, sent, i) = s},
                           old[s]) \in Int
  BY DEF Axis
<1> DEFINE S == {i \in Of(events, sent, code) : SlotAt(k, events, sent, i) = s}
<1>1. S \in SUBSET (1..n)
  BY DEF Of
<1>2. \A i \in 1..n : events[i].val \in Int
  BY DEF Event
<1> HIDE DEF S
<1>3. Latest(events, S, old[s]) \in Int
  BY <1>1, <1>2, LatestType
<1> QED
  BY <1>3 DEF S

\* A pressed key is one whose press was sent.
LEMMA KeysAfterType ==
    ASSUME NEW n \in Nat, NEW events \in [1..n -> Event], NEW sent \in SUBSET (1..n),
           NEW k \in Kernel
    PROVE  /\ KeysAfter(k, events, sent) \subseteq KeyCodes
           /\ \A c \in KeysAfter(k, events, sent) :
                 c \in k.keys \/ \E i \in sent : events[i].code = c
<1>1. k.keys \subseteq KeyCodes
  BY DEF Kernel
<1>2. ASSUME NEW i \in Presses(events, sent)
      PROVE  events[i].code \in KeyCodes /\ i \in sent
  <2>1. i \in sent /\ events[i].code[1] = "KEY"
    BY DEF Presses
  <2>2. events[i].code \in CodeTypes \X Nat
    BY <2>1 DEF Event
  <2> QED
    BY <2>1, <2>2 DEF KeyCodes
<1> QED
  BY <1>1, <1>2 DEF KeysAfter

\* The effect of a request's events is a state of the device.
LEMMA AfterType ==
    ASSUME NEW n \in Nat, NEW events \in [1..n -> Event], NEW sent \in SUBSET (1..n),
           NEW k \in Kernel
    PROVE  After(k, events, sent) \in Kernel
<1>1. KeysAfter(k, events, sent) \in SUBSET KeyCodes
  BY KeysAfterType
<1>2. SlotAt(k, events, sent, Len(events) + 1) \in Slots
  BY SlotAtType
<1>3. /\ k.id \in [Slots -> Int] /\ k.x \in [Slots -> Int] /\ k.y \in [Slots -> Int]
  BY DEF Kernel
<1>4. /\ Axis(k, events, sent, MtId, k.id) \in [Slots -> Int]
      /\ Axis(k, events, sent, MtX, k.x) \in [Slots -> Int]
      /\ Axis(k, events, sent, MtY, k.y) \in [Slots -> Int]
  BY <1>3, AxisType
<1> QED
  BY <1>1, <1>2, <1>4 DEF After, Kernel

\* Events without a key change no key.
LEMMA NoKey ==
    ASSUME NEW n \in Nat, NEW events \in [1..n -> Event], NEW sent \in SUBSET (1..n),
           NEW k \in Kernel, \A i \in 1..n : events[i].code[1] # "KEY"
    PROVE  KeysAfter(k, events, sent) = k.keys
<1>1. Presses(events, sent) = {}
  BY DEF Presses
<1>2. \A c \in k.keys : c[1] = "KEY"
  BY DEF Kernel, KeyCodes
<1>3. \A c \in k.keys : KeyChanges(events, sent, c) = {}
  BY <1>2 DEF KeyChanges, Of
<1> QED
  BY <1>1, <1>3 DEF KeysAfter

\* What an event of value val makes of the keys that are down.
Pressed(keys, c, val) ==
    IF val = 2 THEN keys ELSE IF val = 0 THEN keys \ {c} ELSE keys \cup {c}

\* Events with one key do to that key what its event says, if it is sent.
LEMMA OneKey ==
    ASSUME NEW n \in Nat, NEW events \in [1..n -> Event], NEW sent \in SUBSET (1..n),
           NEW k \in Kernel, NEW m \in 1..n,
           \A i \in 1..n : events[i].code[1] = "KEY" <=> i = m
    PROVE  /\ m \notin sent => KeysAfter(k, events, sent) = k.keys
           /\ m \in sent => KeysAfter(k, events, sent)
                               = Pressed(k.keys, events[m].code, events[m].val)
<1> DEFINE c0 == events[m].code
           v == events[m].val
<1>1. \A c \in k.keys : c[1] = "KEY"
  BY DEF Kernel, KeyCodes
<1>2. \A c : c[1] = "KEY" =>
         KeyChanges(events, sent, c) = IF m \in sent /\ v # 2 /\ c = c0 THEN {m} ELSE {}
  BY DEF KeyChanges, Of
<1>3. Presses(events, sent) = IF m \in sent /\ v \notin {0, 2} THEN {m} ELSE {}
  <2>1. ASSUME NEW i \in Presses(events, sent) PROVE i = m /\ m \in sent /\ v \notin {0, 2}
    BY DEF Presses
  <2>2. ASSUME m \in sent, v \notin {0, 2} PROVE m \in Presses(events, sent)
    <3>1. c0[1] = "KEY" /\ KeyChanges(events, sent, c0) = {m} /\ m <= m
      BY <1>2, <2>2
    <3> QED
      BY <2>2, <3>1 DEF Presses
  <2> QED
    BY <2>1, <2>2
<1>4. {c \in k.keys : KeyChanges(events, sent, c) = {}} =
         IF m \in sent /\ v # 2 THEN k.keys \ {c0} ELSE k.keys
  BY <1>1, <1>2
<1>5. {events[i].code : i \in Presses(events, sent)} =
         IF m \in sent /\ v \notin {0, 2} THEN {c0} ELSE {}
  BY <1>3
<1> QED
  BY <1>4, <1>5 DEF KeysAfter, Pressed

-----------------------------------------------------------------------------
\* Every variable is a function of the devices, or a number.
InputType ==
    /\ phase \in 1..Down
    /\ mDeviceFd \in [Devices -> {"none", "open", "closed"}]
    /\ created \subseteq Devices
    /\ caps \in [Devices -> SUBSET Codes]
    /\ kern \in [Devices -> Kernel]
    /\ faults \in 0..MaxFaults
    /\ asked \in [Devices -> SUBSET Codes]
    /\ misfit \subseteq Devices

\* A device that was created has a descriptor, the constructor has come past it,
\* and only such a device has a state.
CreatedInv ==
    /\ \A d \in created : mDeviceFd[d] = "open"
    /\ \A p \in 1..4 : p >= phase => DeviceOrder[p] \notin created
    /\ \A d \in Devices : d \notin created => kern[d] = Idle

CapsInv ==
    \A d \in Devices : caps[d] \subseteq Capabilities[d] /\ kern[d].keys \subseteq caps[d]

\* Without a failure the constructor completes every device.
CompleteInv ==
    faults = 0 /\ phase # Down =>
        \A p \in 1..4 : p < phase =>
            DeviceOrder[p] \in created /\ caps[DeviceOrder[p]] = Capabilities[DeviceOrder[p]]

\* The capabilities of the devices.
LEMMA CapabilitiesAre ==
    /\ Capabilities["mouse"] = {RelX, RelY} \cup {Key(b) : b \in Buttons}
    /\ Capabilities["keyboard"] = {Key(c) : c \in Enabled}
    /\ Capabilities["touchscreen"] = {AbsX, AbsY, Touch}
    /\ Capabilities["multi"] = {MtSlot, MtId, MtX, MtY, Touch}
  BY DEF Capabilities

\* A device has finitely many capabilities, all among Codes, none of them SYN.
LEMMA CapabilitiesType ==
    ASSUME NEW d \in Devices
    PROVE  /\ IsFiniteSet(Capabilities[d]) /\ Capabilities[d] \subseteq Codes
           /\ \A c \in Capabilities[d] : c \in CodeTypes \X Nat /\ c[1] # "NONE"
<1>1. Capabilities[d] \subseteq Codes
  BY DEF Codes
<1>2. Buttons \subseteq Nat /\ Enabled \subseteq Nat
  BY InputAssumption
<1>3. \A c \in Capabilities[d] : c \in CodeTypes \X Nat /\ c[1] # "NONE"
  BY <1>2, DevicesAre, CapabilitiesAre
     DEF CodeTypes, RelX, RelY, AbsX, AbsY, Touch, MtSlot, MtId, MtX, MtY, Key
<1>4. ASSUME NEW S, IsFiniteSet(S) PROVE IsFiniteSet({Key(b) : b \in S})
  <2> DEFINE f == [b \in S |-> Key(b)]
  <2>1. f \in Surjection(S, {Key(b) : b \in S})
    BY DEF Surjection
  <2> QED
    BY <1>4, <2>1, FS_Surjection
<1>5. /\ IsFiniteSet({RelX, RelY}) /\ IsFiniteSet({AbsX, AbsY, Touch})
      /\ IsFiniteSet({MtSlot, MtId, MtX, MtY, Touch})
  <2>1. ASSUME NEW a, NEW b PROVE IsFiniteSet({a, b})
    <3>1. IsFiniteSet({a} \cup {b})
      BY FS_Singleton, FS_AddElement
    <3>2. {a} \cup {b} = {a, b}
      OBVIOUS
    <3> QED
      BY <3>1, <3>2
  <2>2. ASSUME NEW a, NEW b, NEW c PROVE IsFiniteSet({a, b, c})
    <3>1. IsFiniteSet({a, b} \cup {c})
      BY <2>1, FS_AddElement
    <3>2. {a, b} \cup {c} = {a, b, c}
      OBVIOUS
    <3> QED
      BY <3>1, <3>2
  <2>3. IsFiniteSet({MtSlot, MtId} \cup {MtX, MtY, Touch})
    BY <2>1, <2>2, FS_Union
  <2>4. {MtSlot, MtId, MtX, MtY, Touch} = {MtSlot, MtId} \cup {MtX, MtY, Touch}
    OBVIOUS
  <2> QED
    BY <2>1, <2>2, <2>3, <2>4
<1>6. IsFiniteSet({RelX, RelY} \cup {Key(b) : b \in Buttons})
  BY <1>4, <1>5, InputAssumption, FS_Union
<1>7. IsFiniteSet({Key(c) : c \in Enabled})
  BY <1>4, InputAssumption
<1>8. IsFiniteSet(Capabilities[d])
  BY <1>5, <1>6, <1>7, DevicesAre, CapabilitiesAre
<1> QED
  BY <1>1, <1>3, <1>8

\* A device that was just created has no key down and no contact.
LEMMA IdleType == Idle \in Kernel /\ Idle.keys = {}
<1>1. 0 \in Slots
  BY InputAssumption
<1> QED
  BY <1>1 DEF Idle, Kernel

-----------------------------------------------------------------------------
\* The positions of the events that reach device d when those in lost do not.
Sent(d, events, lost) ==
    {i \in DOMAIN events \ lost : events[i].code \in caps[d] \cup {SynReport}}

\* emit() changes the one device, and only if it exists; without a failure no
\* event of the request is lost.
LEMMA Emitted ==
    ASSUME InputType, NEW d \in Devices, NEW n \in Nat,
           NEW events \in [1..n -> Event], EmitAll(d, events)
    PROVE  /\ faults' \in 0..MaxFaults /\ faults <= faults'
           /\ \/ /\ UNCHANGED <<kern, faults>>
                 /\ mDeviceFd[d] # "open" \/ d \notin created
              \/ /\ d \in created
                 /\ \E lost \in SUBSET (1..n) :
                       /\ faults' = faults => lost = {}
                       /\ kern' = [kern EXCEPT ![d] =
                                     After(kern[d], events, Sent(d, events, lost))]
<1>1. MaxFaults \in Nat /\ faults \in 0..MaxFaults
  BY InputAssumption DEF InputType
<1>2. CASE mDeviceFd[d] # "open" \/ d \notin created
  BY <1>1, <1>2 DEF EmitAll
<1>3. CASE ~(mDeviceFd[d] # "open" \/ d \notin created)
  <2>1. PICK lost \in SUBSET {i \in DOMAIN events : events[i] # NotSent} :
           /\ faults + Cardinality(lost) <= MaxFaults
           /\ faults' = faults + Cardinality(lost)
           /\ kern' = [kern EXCEPT ![d] =
                         After(kern[d], events, Sent(d, events, lost))]
    BY <1>3 DEF EmitAll, Sent
  <2>2. lost \in SUBSET (1..n)
    OBVIOUS
  <2>3. IsFiniteSet(1..n)
    BY FS_Interval
  <2>4. IsFiniteSet(lost)
    BY <2>2, <2>3, FS_Subset
  <2>5. Cardinality(lost) \in Nat /\ (Cardinality(lost) = 0 => lost = {})
    BY <2>4, FS_CardinalityType, FS_EmptySet
  <2>6. faults' \in 0..MaxFaults /\ faults <= faults' /\ (faults' = faults => lost = {})
    BY <1>1, <2>1, <2>5
  <2> QED
    BY <1>3, <2>1, <2>2, <2>6
<1> QED
  BY <1>2, <1>3

\* A request with one key, which is the one asked for if its code fits into 16
\* bits, or with none.
KeyRequest(d, n, events) ==
    \E m \in 1..n :
        /\ events[m].code[1] = "KEY"
        /\ \A i \in 1..n : i # m => events[i].code[1] # "KEY"
        /\ \E c \in CodeTypes \X Nat :
              /\ c[1] = "KEY" /\ Ask(d, c, events[m].val)
              /\ c[2] < 65536 => events[m].code = c
PlainRequest(n, events) ==
    /\ \A i \in 1..n : events[i].code[1] # "KEY"
    /\ UNCHANGED asked
    /\ misfit \subseteq misfit' /\ misfit' \subseteq Devices

\* Every handler sends such a request, or nothing.
Request ==
    /\ Serving /\ Served
    /\ \/ UNCHANGED <<kern, faults, asked, misfit>>
       \/ \E d \in Devices, n \in Nat : \E events \in [1..n -> Event] :
             EmitAll(d, events) /\ (KeyRequest(d, n, events) \/ PlainRequest(n, events))

\* An event is its code and its value.
LEMMA EvType ==
    ASSUME NEW c \in CodeTypes \X Nat, NEW v \in Int
    PROVE  /\ Ev(c, v) \in Event /\ Ev(c, v).code = c /\ Ev(c, v).val = v
           /\ c[1] \in CodeTypes
  BY DEF Ev, Event

\* The codes that the handlers send.
LEMMA CodesAre ==
    /\ RelX \in CodeTypes \X Nat /\ RelX[1] = "REL"
    /\ RelY \in CodeTypes \X Nat /\ RelY[1] = "REL"
    /\ AbsX \in CodeTypes \X Nat /\ AbsX[1] = "ABS"
    /\ AbsY \in CodeTypes \X Nat /\ AbsY[1] = "ABS"
    /\ MtSlot \in CodeTypes \X Nat /\ MtSlot[1] = "ABS"
    /\ MtId \in CodeTypes \X Nat /\ MtId[1] = "ABS"
    /\ MtX \in CodeTypes \X Nat /\ MtX[1] = "ABS"
    /\ MtY \in CodeTypes \X Nat /\ MtY[1] = "ABS"
    /\ Touch \in CodeTypes \X Nat /\ Touch[1] = "KEY"
    /\ Syn \in Event /\ Syn.code = SynReport /\ SynReport[1] = "SYN"
    /\ NotSent \in Event /\ NotSent.code[1] = "NONE"
    /\ \A c \in Nat : Key(c) \in CodeTypes \X Nat /\ Key(c)[1] = "KEY"
  BY DEF RelX, RelY, AbsX, AbsY, MtSlot, MtId, MtX, MtY, Touch, Key, Syn, NotSent,
         SynReport, Ev, Event, CodeTypes

\* The 16 bits of a code.
LEMMA NarrowType ==
    ASSUME NEW n \in Nat
    PROVE  NarrowCode(n) \in Nat /\ (n < 65536 => NarrowCode(n) = n)
  BY DEF NarrowCode

\* handleMouseMove() sends no key.
LEMMA MouseMoveRequests == ASSUME InputType, SendMouseMove PROVE Request
<1> DEFINE ev == <<Ev(RelX, 1), Ev(RelY, 1), Syn>>
<1>1. /\ Ev(RelX, 1) \in Event /\ Ev(RelY, 1) \in Event /\ Syn \in Event
      /\ Ev(RelX, 1).code = RelX /\ Ev(RelY, 1).code = RelY
  BY EvType, CodesAre
<1>2. ev \in [1..3 -> Event]
  BY <1>1
<1>3. /\ ev[1] = Ev(RelX, 1) /\ ev[2] = Ev(RelY, 1) /\ ev[3] = Syn
      /\ 1..3 = {1, 2, 3}
  OBVIOUS
<1>4. EmitAll("mouse", ev) /\ Serving /\ Served /\ AskNothing /\ "mouse" \in Devices
  BY DevicesAre DEF SendMouseMove, handleMouseMove, OtherRequest
<1> HIDE DEF ev
<1>5. \A i \in 1..3 : ev[i].code[1] # "KEY"
  <2>1. ev[1].code[1] = "REL" /\ ev[2].code[1] = "REL" /\ ev[3].code[1] = "SYN"
    BY <1>1, <1>3, CodesAre
  <2> QED
    BY <1>3, <2>1
<1>6. PlainRequest(3, ev)
  BY <1>4, <1>5 DEF PlainRequest, AskNothing, InputType
<1> QED
  BY <1>2, <1>4, <1>6 DEF Request

\* The code c is b, if b fits into 16 bits.
Fits(b, c) == b < 65536 => c = b

\* A key or a button, followed by the synchronisation, is a request for the key
\* b, of which c is what the 16 bits can hold.
LEMMA PressRequests ==
    ASSUME NEW d \in Devices, NEW c \in Nat, NEW v \in 0..1, Serving, Served,
           EmitAll(d, <<Ev(Key(c), v), Syn>>),
           NEW b \in Nat, Ask(d, Key(b), v), Fits(b, c)
    PROVE  Request
<1> DEFINE ev == <<Ev(Key(c), v), Syn>>
<1>1. /\ Ev(Key(c), v) \in Event /\ Syn \in Event
      /\ Ev(Key(c), v).code = Key(c) /\ Ev(Key(c), v).val = v
  <2>1. Key(c) \in CodeTypes \X Nat /\ v \in Int /\ Syn \in Event
    BY CodesAre
  <2> QED
    BY <2>1, EvType
<1>2. ev \in [1..2 -> Event]
  BY <1>1
<1>3. ev[1] = Ev(Key(c), v) /\ ev[2] = Syn /\ 1..2 = {1, 2}
  OBVIOUS
<1>4. EmitAll(d, ev)
  OBVIOUS
<1> HIDE DEF ev
<1>5. ev[1].code = Key(c) /\ ev[1].val = v /\ ev[1].code[1] = "KEY" /\ ev[2].code[1] # "KEY"
  <2>1. Key(c)[1] = "KEY" /\ Syn.code[1] = "SYN"
    BY CodesAre
  <2> QED
    BY <1>1, <1>3, <2>1
<1>6. /\ Key(b) \in CodeTypes \X Nat /\ Key(b)[1] = "KEY" /\ Key(b)[2] = b
      /\ Ask(d, Key(b), ev[1].val) /\ (b < 65536 => ev[1].code = Key(b))
  BY <1>5, CodesAre DEF Key, Fits
<1>7. KeyRequest(d, 2, ev)
  BY <1>3, <1>5, <1>6 DEF KeyRequest
<1>8. \E n \in Nat : \E events \in [1..n -> Event] :
         EmitAll(d, events) /\ KeyRequest(d, n, events)
  BY <1>2, <1>4, <1>7
<1> QED
  BY <1>8 DEF Request

\* The smallest of some positive numbers is one of them.
LEMMA MinFirst ==
    ASSUME NEW S \in SUBSET Nat, S # {}
    PROVE  Min(S) \in S
  BY LeastNatural DEF Min

\* resolve_keysym() finds a key that is enabled, or 0.
LEMMA ResolvedKey ==
    ASSUME NEW s
    PROVE  resolve_keysym(s) \in Nat /\ (resolve_keysym(s) = 0 \/ resolve_keysym(s) \in Enabled)
<1>1. Enabled \subseteq Nat
  BY InputAssumption
<1>2. \A l : KeysAt(l, s) \subseteq Enabled
  BY DEF KeysAt
<1>3. \A l : KeysAt(l, s) # {} => Min(KeysAt(l, s)) \in Enabled
  BY <1>1, <1>2, MinFirst
<1> QED
  BY <1>1, <1>3 DEF resolve_keysym

\* handleMouseClick() and handleKeyPress(), by code, keysym or name.
LEMMA KeysRequest ==
    ASSUME NEW v \in 0..1,
           \/ \E c \in Keys : SendMouseClick(c, v) \/ SendKeyPress(c, v)
           \/ \E s \in KeySyms : SendKeyPressByKeySym(s, v)
    PROVE  Request
<1>1. ASSUME NEW c \in Keys, SendMouseClick(c, v) PROVE Request
  <2>1. c \in Nat
    BY InputAssumption
  <2>2. /\ NarrowCode(c) \in Nat /\ "mouse" \in Devices
        /\ Fits(c, NarrowCode(c))
    BY <2>1, NarrowType, DevicesAre DEF Fits
  <2>3. /\ Serving /\ Served /\ Ask("mouse", Key(c), v)
        /\ EmitAll("mouse", <<Ev(Key(NarrowCode(c)), v), Syn>>)
    BY <1>1 DEF SendMouseClick, handleMouseClick, OtherRequest
  <2> QED
    BY <2>1, <2>2, <2>3, PressRequests
<1>2. ASSUME NEW b \in Nat, NEW c \in Nat, Fits(b, c), PressKey(c, v),
             Ask("keyboard", Key(b), v), Serving, Served
      PROVE  Request
  <2>1. /\ "keyboard" \in Devices
        /\ EmitAll("keyboard", <<Ev(Key(c), v), Syn>>)
    BY <1>2, DevicesAre DEF PressKey, KeyEvents
  <2> QED
    BY <1>2, <2>1, PressRequests
<1>3. ASSUME NEW c \in Keys, SendKeyPress(c, v) PROVE Request
  <2>1. c \in Nat
    BY InputAssumption
  <2>2. /\ NarrowCode(c) \in Nat /\ Fits(c, NarrowCode(c))
        /\ PressKey(NarrowCode(c), v) /\ Serving /\ Served
        /\ Ask("keyboard", Key(c), v)
    BY <1>3, <2>1, NarrowType DEF SendKeyPress, handleKeyPressRaw, OtherRequest, Fits
  <2> QED
    BY <1>2, <2>1, <2>2
<1>4. ASSUME NEW s \in KeySyms, SendKeyPressByKeySym(s, v) PROVE Request
  <2>1. /\ resolve_keysym(s) # 0 /\ PressKey(resolve_keysym(s), v)
        /\ Serving /\ Served /\ Ask("keyboard", Key(resolve_keysym(s)), v)
    BY <1>4 DEF SendKeyPressByKeySym, handleKeyPressSym, OtherRequest
  <2>2. resolve_keysym(s) \in Nat /\ Fits(resolve_keysym(s), resolve_keysym(s))
    BY ResolvedKey DEF Fits
  <2> QED
    BY <1>2, <2>1, <2>2
<1> QED
  BY <1>1, <1>3, <1>4

\* handleSingleTouch() sends at most two coordinates and the touch itself.
LEMMA SingleTouchRequests ==
    ASSUME NEW hx \in BOOLEAN, NEW hy \in BOOLEAN, NEW v \in 0..1,
           SendSingleTouch(hx, hy, v)
    PROVE  Request
<1>1. PICK a \in Event : /\ a = IF hx THEN Ev(AbsX, 0) ELSE NotSent
                         /\ a.code[1] # "KEY"
  <2>1. Ev(AbsX, 0) \in Event /\ Ev(AbsX, 0).code = AbsX
    BY EvType, CodesAre
  <2> QED
    BY <2>1, CodesAre
<1>2. PICK b \in Event : /\ b = IF hy THEN Ev(AbsY, 0) ELSE NotSent
                         /\ b.code[1] # "KEY"
  <2>1. Ev(AbsY, 0) \in Event /\ Ev(AbsY, 0).code = AbsY
    BY EvType, CodesAre
  <2> QED
    BY <2>1, CodesAre
<1>3. PICK t \in Event : t = Ev(Touch, v) /\ t.code = Touch /\ t.val = v
  <2>1. Touch \in CodeTypes \X Nat /\ v \in Int
    BY CodesAre
  <2> QED
    BY <2>1, EvType
<1> DEFINE ev == <<a, b, t, Syn>>
<1>4. EmitAll("touchscreen", ev) /\ Ask("touchscreen", Touch, v)
  BY <1>1, <1>2, <1>3 DEF SendSingleTouch, handleSingleTouch
<1>5. Serving /\ Served /\ "touchscreen" \in Devices
  BY DevicesAre DEF SendSingleTouch, handleSingleTouch, OtherRequest
<1>6. ev \in [1..4 -> Event] /\ ev[1] = a /\ ev[2] = b /\ ev[3] = t /\ ev[4] = Syn
      /\ 1..4 = {1, 2, 3, 4}
  BY CodesAre
<1> HIDE DEF ev
<1>7. ev[3].code[1] = "KEY" /\ ev[4].code[1] # "KEY"
  BY <1>3, <1>6, CodesAre
<1>8. KeyRequest("touchscreen", 4, ev)
  <2>1. /\ Touch \in CodeTypes \X Nat /\ Touch[1] = "KEY" /\ ev[3].code = Touch
        /\ Ask("touchscreen", Touch, ev[3].val)
    BY <1>3, <1>4, <1>6, CodesAre
  <2> QED
    BY <1>1, <1>2, <1>6, <1>7, <2>1 DEF KeyRequest
<1> QED
  BY <1>4, <1>5, <1>6, <1>8 DEF Request

\* handlePassThrough() sends one event, of any kind, or none.
LEMMA PassThroughRequests ==
    ASSUME InputType, NEW r \in RawEvents, SendPassThrough(r)
    PROVE  Request
<1>1. Serving /\ Served
  BY DEF SendPassThrough, handlePassThrough
<1>2. CASE r.dev \notin DOMAIN DeviceOrder
  BY <1>1, <1>2 DEF SendPassThrough, handlePassThrough, AskNothing, Request
<1>3. CASE r.dev \in DOMAIN DeviceOrder
  <2>1. r.code \in {"SYN", "KEY", "REL", "ABS"} \X Nat /\ r.val \in Int
    BY InputAssumption
  <2>2. r.code[1] \in CodeTypes /\ r.code[2] \in Nat
    BY <2>1 DEF CodeTypes
  <2>3. Narrowed(r.code) \in CodeTypes \X Nat
    BY <2>2, NarrowType DEF Narrowed
  <2>4. PICK d \in Devices : d = DeviceOrder[r.dev]
    BY <1>3, DevicesAre
  <2>5. PICK c \in CodeTypes \X Nat : c = Narrowed(r.code)
    BY <2>3
  <2>6. PICK e \in Event : e = Ev(c, r.val) /\ e.code = c /\ e.val = r.val
    BY <2>1, EvType
  <2> DEFINE ev == <<e>>
  <2>7. EmitAll(d, ev) /\ Ask(d, r.code, r.val)
    BY <1>3, <2>4, <2>5, <2>6 DEF SendPassThrough, handlePassThrough
  <2>8. ev \in [1..1 -> Event] /\ ev[1] = e /\ 1..1 = {1}
    OBVIOUS
  <2> HIDE DEF ev
  <2>9. CASE c[1] = "KEY"
    <3>1. /\ r.code \in CodeTypes \X Nat /\ r.code[1] = "KEY"
          /\ r.code[2] < 65536 => c = r.code
      BY <2>1, <2>2, <2>5, <2>9, NarrowType DEF Narrowed, CodeTypes
    <3>2. KeyRequest(d, 1, ev)
      BY <2>6, <2>7, <2>8, <2>9, <3>1 DEF KeyRequest
    <3> QED
      BY <1>1, <2>7, <2>8, <3>2 DEF Request
  <2>10. CASE c[1] # "KEY"
    <3>0. r.code[1] # "KEY"
      BY <2>2, <2>5, <2>10 DEF Narrowed
    <3>1. asked' = asked /\ misfit \subseteq misfit' /\ misfit' \subseteq Devices
      BY <2>7, <3>0 DEF Ask, InputType
    <3>2. PlainRequest(1, ev)
      BY <2>6, <2>8, <2>10, <3>1 DEF PlainRequest
    <3> QED
      BY <1>1, <2>7, <2>8, <3>2 DEF Request
  <2> QED
    BY <2>9, <2>10
<1> QED
  BY <1>2, <1>3

-----------------------------------------------------------------------------
TouchEntry == [slot : Int, id : Int, x : Int, y : Int]

\* A report as the client's narrowing leaves it.
NarrowedReport(report) ==
    [i \in DOMAIN report |->
        [report[i] EXCEPT !.slot = NarrowSlot(@), !.id = NarrowId(@)]]

\* The four events of an entry.
LEMMA EntryType ==
    ASSUME NEW t \in TouchEntry
    PROVE  /\ \A j \in 1..4 : /\ EntryEvents(t)[j] \in Event
                              /\ EntryEvents(t)[j].code[1] # "KEY"
           /\ EntryEvents(t)[1] = Ev(MtSlot, t.slot)
           /\ EntryEvents(t)[2] = IF t.id # 0 THEN Ev(MtId, t.id) ELSE NotSent
           /\ EntryEvents(t)[3] = IF t.id >= 0 THEN Ev(MtX, t.x) ELSE NotSent
           /\ EntryEvents(t)[4] = IF t.id >= 0 THEN Ev(MtY, t.y) ELSE NotSent
<1>1. t.slot \in Int /\ t.id \in Int /\ t.x \in Int /\ t.y \in Int
  BY DEF TouchEntry
<1>2. /\ EntryEvents(t)[1] = Ev(MtSlot, t.slot)
      /\ EntryEvents(t)[2] = IF t.id # 0 THEN Ev(MtId, t.id) ELSE NotSent
      /\ EntryEvents(t)[3] = IF t.id >= 0 THEN Ev(MtX, t.x) ELSE NotSent
      /\ EntryEvents(t)[4] = IF t.id >= 0 THEN Ev(MtY, t.y) ELSE NotSent
  BY DEF EntryEvents
<1>3. /\ Ev(MtSlot, t.slot) \in Event /\ Ev(MtSlot, t.slot).code = MtSlot
      /\ Ev(MtId, t.id) \in Event /\ Ev(MtId, t.id).code = MtId
      /\ Ev(MtX, t.x) \in Event /\ Ev(MtX, t.x).code = MtX
      /\ Ev(MtY, t.y) \in Event /\ Ev(MtY, t.y).code = MtY
  <2>1. /\ MtSlot \in CodeTypes \X Nat /\ MtId \in CodeTypes \X Nat
        /\ MtX \in CodeTypes \X Nat /\ MtY \in CodeTypes \X Nat
    BY CodesAre
  <2> QED
    BY <1>1, <2>1, EvType
<1>4. /\ MtSlot[1] = "ABS" /\ MtId[1] = "ABS" /\ MtX[1] = "ABS" /\ MtY[1] = "ABS"
      /\ NotSent \in Event /\ NotSent.code[1] = "NONE"
  BY CodesAre
<1>5. ASSUME NEW j \in 1..4
      PROVE  EntryEvents(t)[j] \in Event /\ EntryEvents(t)[j].code[1] # "KEY"
  <2>1. j = 1 \/ j = 2 \/ j = 3 \/ j = 4
    OBVIOUS
  <2> QED
    BY <1>2, <1>3, <1>4, <2>1
<1> QED
  BY <1>2, <1>5

\* A position in a report's events is one of four of an entry, or the last.
LEMMA Positions ==
    ASSUME NEW m \in Nat, NEW n \in 1..(4 * m)
    PROVE  /\ 1 + ((n - 1) \div 4) \in 1..m /\ 1 + ((n - 1) % 4) \in 1..4
           /\ n = 4 * ((1 + ((n - 1) \div 4)) - 1) + (1 + ((n - 1) % 4))
  OBVIOUS

\* The position of event j of entry i.
LEMMA PositionOf ==
    ASSUME NEW m \in Nat, NEW i \in 1..m, NEW j \in 1..4
    PROVE  /\ 4 * (i - 1) + j \in 1..(4 * m)
           /\ 1 + (((4 * (i - 1) + j) - 1) \div 4) = i
           /\ 1 + (((4 * (i - 1) + j) - 1) % 4) = j
  OBVIOUS

\* The events of a report, entry by entry.
LEMMA ReportEventsAre ==
    ASSUME NEW report \in Seq(TouchEntry)
    PROVE  /\ DOMAIN ReportEvents(report) = 1..(4 * Len(report) + 1)
           /\ ReportEvents(report)[4 * Len(report) + 1] = Syn
           /\ \A i \in 1..Len(report), j \in 1..4 :
                 ReportEvents(report)[4 * (i - 1) + j] = EntryEvents(report[i])[j]
<1>1. Len(report) \in Nat
  OBVIOUS
<1>2. 4 * Len(report) + 1 \in 1..(4 * Len(report) + 1)
  BY <1>1
<1>3. ASSUME NEW i \in 1..Len(report), NEW j \in 1..4
      PROVE  ReportEvents(report)[4 * (i - 1) + j] = EntryEvents(report[i])[j]
  <2>1. /\ 4 * (i - 1) + j \in 1..(4 * Len(report))
        /\ 1 + (((4 * (i - 1) + j) - 1) \div 4) = i
        /\ 1 + (((4 * (i - 1) + j) - 1) % 4) = j
    BY <1>1, PositionOf
  <2>2. /\ 4 * (i - 1) + j \in 1..(4 * Len(report) + 1)
        /\ ~(4 * (i - 1) + j > 4 * Len(report))
    BY <1>1, <2>1
  <2> QED
    BY <2>1, <2>2 DEF ReportEvents
<1> QED
  BY <1>1, <1>2, <1>3 DEF ReportEvents

\* They are events, none of them a key.
LEMMA ReportEventsType ==
    ASSUME NEW report \in Seq(TouchEntry)
    PROVE  /\ ReportEvents(report) \in [1..(4 * Len(report) + 1) -> Event]
           /\ \A n \in 1..(4 * Len(report) + 1) :
                 ReportEvents(report)[n].code[1] # "KEY"
<1>1. Len(report) \in Nat
  OBVIOUS
<1>2. ASSUME NEW n \in 1..(4 * Len(report) + 1)
      PROVE  ReportEvents(report)[n] \in Event /\ ReportEvents(report)[n].code[1] # "KEY"
  <2>1. CASE n = 4 * Len(report) + 1
    BY <2>1, ReportEventsAre, CodesAre
  <2>2. CASE n \in 1..(4 * Len(report))
    <3> DEFINE i == 1 + ((n - 1) \div 4)
               j == 1 + ((n - 1) % 4)
    <3>1. i \in 1..Len(report) /\ j \in 1..4 /\ n = 4 * (i - 1) + j
      BY <1>1, <2>2, Positions
    <3> HIDE DEF i, j
    <3>2. ReportEvents(report)[n] = EntryEvents(report[i])[j]
      BY <3>1, ReportEventsAre
    <3>3. report[i] \in TouchEntry
      BY <3>1
    <3> QED
      BY <3>1, <3>2, <3>3, EntryType
  <2> QED
    BY <1>1, <2>1, <2>2
<1>3. ReportEvents(report) = [n \in 1..(4 * Len(report) + 1) |-> ReportEvents(report)[n]]
  BY DEF ReportEvents
<1> QED
  BY <1>2, <1>3

\* The client's narrowing leaves a report of the same length.
LEMMA NarrowedType ==
    ASSUME NEW report \in Reports
    PROVE  /\ report \in Seq(TouchEntry)
           /\ NarrowedReport(report) \in Seq(TouchEntry)
           /\ Len(NarrowedReport(report)) = Len(report)
           /\ \A i \in 1..Len(report) :
                 /\ NarrowedReport(report)[i].slot = NarrowSlot(report[i].slot)
                 /\ NarrowedReport(report)[i].id = NarrowId(report[i].id)
                 /\ NarrowedReport(report)[i].x = report[i].x
                 /\ NarrowedReport(report)[i].y = report[i].y
<1>1. report \in Seq(TouchEntry)
  BY InputAssumption DEF TouchEntry
<1>2. DOMAIN report = 1..Len(report) /\ Len(report) \in Nat
  BY <1>1
<1>3. ASSUME NEW i \in 1..Len(report)
      PROVE  /\ NarrowedReport(report)[i] \in TouchEntry
             /\ NarrowedReport(report)[i].slot = NarrowSlot(report[i].slot)
             /\ NarrowedReport(report)[i].id = NarrowId(report[i].id)
             /\ NarrowedReport(report)[i].x = report[i].x
             /\ NarrowedReport(report)[i].y = report[i].y
  <2>1. report[i] \in TouchEntry
    BY <1>1
  <2>2. NarrowedReport(report)[i] =
           [report[i] EXCEPT !.slot = NarrowSlot(@), !.id = NarrowId(@)]
    BY <1>2 DEF NarrowedReport
  <2>3. NarrowSlot(report[i].slot) \in Int /\ NarrowId(report[i].id) \in Int
    BY <2>1 DEF TouchEntry, NarrowSlot, NarrowId
  <2> HIDE DEF NarrowedReport
  <2> QED
    BY <2>1, <2>2, <2>3 DEF TouchEntry
<1>4. NarrowedReport(report) \in [1..Len(report) -> TouchEntry]
  <2>1. NarrowedReport(report) = [i \in 1..Len(report) |-> NarrowedReport(report)[i]]
    BY <1>2 DEF NarrowedReport
  <2> QED
    BY <1>3, <2>1
<1>5. NarrowedReport(report) \in Seq(TouchEntry) /\ Len(NarrowedReport(report)) = Len(report)
  BY <1>2, <1>4
<1> QED
  BY <1>1, <1>3, <1>5

\* handleMultiTouch() sends no key.
LEMMA MultiTouchRequests ==
    ASSUME InputType, NEW r \in Reports, SendMultiTouch(r)
    PROVE  Request
<1> DEFINE ev == ReportEvents(NarrowedReport(r))
           n == 4 * Len(NarrowedReport(r)) + 1
<1>1. NarrowedReport(r) \in Seq(TouchEntry) /\ n \in Nat
  BY NarrowedType
<1>2. ev \in [1..n -> Event] /\ \A i \in 1..n : ev[i].code[1] # "KEY"
  BY <1>1, ReportEventsType
<1>3. /\ EmitAll("multi", ev) /\ Serving /\ Served /\ AskNothing
      /\ "multi" \in Devices
  BY DevicesAre DEF SendMultiTouch, handleMultiTouch, NarrowedReport
<1> HIDE DEF ev, n
<1>4. PlainRequest(n, ev)
  BY <1>2, <1>3 DEF PlainRequest, AskNothing, InputType
<1> QED
  BY <1>1, <1>2, <1>3, <1>4 DEF Request

\* Every step is a step of the constructor, a request, or the destructor.
LEMMA InputSteps ==
    ASSUME InputType, [Next]_vars
    PROVE  \/ OpenFails \/ CreateFails \/ CreateDevice \/ Request \/ Destroy
           \/ UNCHANGED vars
  BY MouseMoveRequests, KeysRequest, SingleTouchRequests, PassThroughRequests,
     MultiTouchRequests
     DEF Next, Done

-----------------------------------------------------------------------------
\* The constructor sets up the devices in their order.
LEMMA CurrentIs ==
    ASSUME InputType, Setup
    PROVE  /\ phase \in 1..4 /\ Current \in Devices /\ phase + 1 \in 1..Down
           /\ phase + 1 # Down /\ phase # Down
           /\ \A p \in 1..4 : p >= phase + 1 => p >= phase /\ DeviceOrder[p] # Current
           /\ \A p \in 1..4 : p < phase + 1 => p < phase \/ DeviceOrder[p] = Current
           /\ \A p \in 1..4 : p < phase => DeviceOrder[p] # Current
<1>1. phase \in 1..4
  BY DevicesAre DEF Setup
<1> QED
  BY <1>1, DevicesAre DEF Current, Down

\* A capability ioctl that fails costs a code or those of a type, and is counted.
LEMMA CreateDeviceIs ==
    ASSUME InputType, CreateDevice
    PROVE  /\ faults' \in 0..MaxFaults /\ faults <= faults'
           /\ \E missing \in SUBSET Capabilities[Current] :
                 /\ faults' = faults => missing = {}
                 /\ caps' = [caps EXCEPT ![Current] = Capabilities[Current] \ missing]
<1>1. MaxFaults \in Nat /\ faults \in 0..MaxFaults
  BY InputAssumption DEF InputType
<1>2. PICK types \in SUBSET {c[1] : c \in Capabilities[Current]},
           codes \in SUBSET Capabilities[Current] :
         /\ faults + Cardinality(types) + Cardinality(codes) <= MaxFaults
         /\ faults' = faults + Cardinality(types) + Cardinality(codes)
         /\ caps' = [caps EXCEPT ![Current] =
                       {c \in Capabilities[Current] \ codes : c[1] \notin types}]
  BY DEF CreateDevice
<1>3. IsFiniteSet(Capabilities[Current])
  BY CurrentIs, CapabilitiesType DEF CreateDevice
<1>4. IsFiniteSet({c[1] : c \in Capabilities[Current]})
  <2> DEFINE f == [c \in Capabilities[Current] |-> c[1]]
  <2>1. f \in Surjection(Capabilities[Current], {c[1] : c \in Capabilities[Current]})
    BY DEF Surjection
  <2> QED
    BY <1>3, <2>1, FS_Surjection
<1>5. IsFiniteSet(types) /\ IsFiniteSet(codes)
  BY <1>3, <1>4, FS_Subset
<1>6. /\ Cardinality(types) \in Nat /\ (Cardinality(types) = 0 => types = {})
      /\ Cardinality(codes) \in Nat /\ (Cardinality(codes) = 0 => codes = {})
  BY <1>5, FS_CardinalityType, FS_EmptySet
<1>7. /\ faults' \in 0..MaxFaults /\ faults <= faults'
      /\ faults' = faults => types = {} /\ codes = {}
  BY <1>1, <1>2, <1>6
<1> DEFINE missing == codes \cup {c \in Capabilities[Current] : c[1] \in types}
<1>8. /\ missing \in SUBSET Capabilities[Current]
      /\ Capabilities[Current] \ missing =
            {c \in Capabilities[Current] \ codes : c[1] \notin types}
      /\ types = {} /\ codes = {} => missing = {}
  OBVIOUS
<1> HIDE DEF missing
<1> QED
  BY <1>2, <1>7, <1>8

\* What a request leaves of the other devices, and of its own.
LEMMA RequestIs ==
    ASSUME InputType, Request
    PROVE  /\ UNCHANGED <<phase, mDeviceFd, created, caps>> /\ phase = Up
           /\ faults' \in 0..MaxFaults /\ faults <= faults'
           /\ kern' \in [Devices -> Kernel]
           /\ asked' \in [Devices -> SUBSET Codes] /\ misfit' \subseteq Devices
           /\ \A d \in Devices : d \notin created => kern'[d] = kern[d]
           /\ \A d \in Devices : kern[d].keys \subseteq caps[d] => kern'[d].keys \subseteq caps[d]
<1>1. UNCHANGED <<phase, mDeviceFd, created, caps>> /\ phase = Up
  BY DEF Request, Serving, Served
<1>2. CASE UNCHANGED <<kern, faults, asked, misfit>>
  <2>1. faults \in 0..MaxFaults /\ MaxFaults \in Nat
    BY InputAssumption DEF InputType
  <2>2. /\ kern' \in [Devices -> Kernel] /\ asked' \in [Devices -> SUBSET Codes]
        /\ misfit' \subseteq Devices
    BY <1>2 DEF InputType
  <2> QED
    BY <1>1, <1>2, <2>1, <2>2
<1>3. ASSUME NEW d \in Devices, NEW n \in Nat, NEW events \in [1..n -> Event],
             EmitAll(d, events), KeyRequest(d, n, events) \/ PlainRequest(n, events)
      PROVE  /\ faults' \in 0..MaxFaults /\ faults <= faults'
             /\ kern' \in [Devices -> Kernel]
             /\ asked' \in [Devices -> SUBSET Codes] /\ misfit' \subseteq Devices
             /\ \A e \in Devices : e \notin created => kern'[e] = kern[e]
             /\ \A e \in Devices : kern[e].keys \subseteq caps[e] => kern'[e].keys \subseteq caps[e]
  <2>1. faults' \in 0..MaxFaults /\ faults <= faults'
    BY <1>3, Emitted
  <2>2. asked' \in [Devices -> SUBSET Codes] /\ misfit' \subseteq Devices
    <3>1. CASE PlainRequest(n, events)
      BY <3>1 DEF PlainRequest, InputType
    <3>2. CASE KeyRequest(d, n, events)
      <4>1. PICK c, v : Ask(d, c, v)
        BY <3>2 DEF KeyRequest
      <4>2. Capabilities[d] \subseteq Codes
        BY CapabilitiesType
      <4>3. asked \in [Devices -> SUBSET Codes]
        BY DEF InputType
      <4>4. (IF c \notin Capabilities[d] \/ c[1] # "KEY" \/ v = 2 THEN asked[d]
             ELSE IF v = 0 THEN asked[d] \ {c} ELSE asked[d] \cup {c}) \in SUBSET Codes
        BY <4>2, <4>3
      <4>5. misfit' \subseteq Devices
        BY <4>1 DEF Ask, InputType
      <4> QED
        BY <4>1, <4>3, <4>4, <4>5 DEF Ask
    <3> QED
      BY <1>3, <3>1, <3>2
  <2>3. CASE UNCHANGED kern
    BY <2>1, <2>2, <2>3 DEF InputType
  <2>4. ASSUME d \in created, NEW lost \in SUBSET (1..n),
               kern' = [kern EXCEPT ![d] =
                          After(kern[d], events, Sent(d, events, lost))]
        PROVE  /\ kern' \in [Devices -> Kernel]
               /\ \A e \in Devices : e \notin created => kern'[e] = kern[e]
               /\ \A e \in Devices : kern[e].keys \subseteq caps[e] => kern'[e].keys \subseteq caps[e]
    <3>1. kern \in [Devices -> Kernel] /\ kern[d] \in Kernel
      BY DEF InputType
    <3>2. Sent(d, events, lost) \in SUBSET (1..n)
      BY DEF Sent
    <3>3. After(kern[d], events, Sent(d, events, lost)) \in Kernel
      BY <3>1, <3>2, AfterType
    <3>4. kern' \in [Devices -> Kernel]
      BY <2>4, <3>1, <3>3
    <3>5. \A e \in Devices : e # d => kern'[e] = kern[e]
      BY <2>4, <3>1
    <3>6. kern'[d].keys = KeysAfter(kern[d], events, Sent(d, events, lost))
      BY <2>4, <3>1 DEF After
    <3>7. ASSUME kern[d].keys \subseteq caps[d], NEW c \in kern'[d].keys
          PROVE  c \in caps[d]
      <4>1. /\ c \in KeyCodes
            /\ c \in kern[d].keys
               \/ \E i \in Sent(d, events, lost) : events[i].code = c
        BY <3>1, <3>2, <3>6, KeysAfterType
      <4>2. c[1] = "KEY" /\ SynReport[1] = "SYN"
        BY <4>1 DEF KeyCodes, SynReport
      <4> QED
        BY <3>7, <4>1, <4>2 DEF Sent
    <3> QED
      BY <2>4, <3>4, <3>5, <3>7
  <2> QED
    BY <1>3, <2>1, <2>2, <2>3, <2>4, Emitted
<1> QED
  BY <1>1, <1>2, <1>3 DEF Request

\* Every step keeps the state well typed.
LEMMA InputTypeStep ==
    ASSUME InputType, [Next]_vars
    PROVE  InputType'
<1>1. CASE OpenFails
  <2>1. phase' = phase + 1 /\ phase + 1 \in 1..Down
    BY <1>1, CurrentIs DEF OpenFails
  <2>2. faults' \in 0..MaxFaults
    BY <1>1, InputAssumption DEF OpenFails, InputType
  <2> QED
    BY <1>1, <2>1, <2>2 DEF OpenFails, InputType
<1>2. CASE CreateFails
  <2>1. phase' = phase + 1 /\ phase + 1 \in 1..Down
    BY <1>2, CurrentIs DEF CreateFails
  <2>2. faults' \in 0..MaxFaults
    BY <1>2, InputAssumption DEF CreateFails, InputType
  <2>3. mDeviceFd' \in [Devices -> {"none", "open", "closed"}]
    BY <1>2 DEF CreateFails, InputType
  <2> QED
    BY <1>2, <2>1, <2>2, <2>3 DEF CreateFails, InputType
<1>3. CASE CreateDevice
  <2>1. /\ phase' = phase + 1 /\ phase + 1 \in 1..Down /\ Current \in Devices
    BY <1>3, CurrentIs DEF CreateDevice
  <2>2. PICK missing \in SUBSET Capabilities[Current] :
           caps' = [caps EXCEPT ![Current] = Capabilities[Current] \ missing]
    BY <1>3, CreateDeviceIs
  <2>3. Capabilities[Current] \ missing \in SUBSET Codes
    BY <2>1, CapabilitiesType
  <2>4. caps' \in [Devices -> SUBSET Codes]
    BY <2>2, <2>3 DEF InputType
  <2>5. mDeviceFd' \in [Devices -> {"none", "open", "closed"}] /\ created' \subseteq Devices
    BY <1>3, <2>1 DEF CreateDevice, InputType
  <2>6. faults' \in 0..MaxFaults
    BY <1>3, CreateDeviceIs
  <2> QED
    BY <1>3, <2>1, <2>4, <2>5, <2>6 DEF CreateDevice, InputType
<1>4. CASE Request
  BY <1>4, RequestIs DEF InputType
<1>5. CASE Destroy
  <2>1. phase' \in 1..Down /\ faults' \in 0..MaxFaults /\ created' \subseteq Devices
    BY <1>5 DEF Destroy, Down, InputType
  <2>2. mDeviceFd' \in [Devices -> {"none", "open", "closed"}]
    BY <1>5 DEF Destroy, InputType
  <2>3. kern' \in [Devices -> Kernel]
    BY <1>5, IdleType DEF Destroy, InputType
  <2>4. /\ asked' \in [Devices -> SUBSET Codes] /\ caps' \in [Devices -> SUBSET Codes]
        /\ misfit' \subseteq Devices
    BY <1>5 DEF Destroy, InputType
  <2> QED
    BY <2>1, <2>2, <2>3, <2>4 DEF InputType
<1>6. CASE UNCHANGED vars
  BY <1>6 DEF vars, InputType
<1> QED
  BY <1>1, <1>2, <1>3, <1>4, <1>5, <1>6, InputSteps

\* Every step keeps the devices that exist apart from those that do not.
LEMMA CreatedStep ==
    ASSUME InputType, CreatedInv, [Next]_vars
    PROVE  CreatedInv'
<1> USE DEF CreatedInv
<1>1. CASE OpenFails
  <2>1. /\ phase' = phase + 1 /\ UNCHANGED <<mDeviceFd, created, kern>>
        /\ \A p \in 1..4 : p >= phase + 1 => p >= phase
    BY <1>1, CurrentIs DEF OpenFails
  <2> QED
    BY <2>1
<1>2. CASE CreateFails
  <2>1. /\ phase' = phase + 1 /\ UNCHANGED <<created, kern>>
        /\ mDeviceFd' = [mDeviceFd EXCEPT ![Current] = "open"]
        /\ \A p \in 1..4 : p >= phase + 1 => p >= phase
    BY <1>2, CurrentIs DEF CreateFails
  <2>2. \A d \in created : mDeviceFd'[d] = "open"
    BY <2>1 DEF InputType
  <2> QED
    BY <2>1, <2>2
<1>3. CASE CreateDevice
  <2>1. /\ phase' = phase + 1 /\ UNCHANGED kern /\ created' = created \cup {Current}
        /\ mDeviceFd' = [mDeviceFd EXCEPT ![Current] = "open"]
        /\ \A p \in 1..4 : p >= phase + 1 => p >= phase /\ DeviceOrder[p] # Current
        /\ Current \in Devices
    BY <1>3, CurrentIs DEF CreateDevice
  <2>2. \A d \in created' : mDeviceFd'[d] = "open"
    BY <2>1 DEF InputType
  <2> QED
    BY <2>1, <2>2
<1>4. CASE Request
  BY <1>4, RequestIs
<1>5. CASE Destroy
  <2>1. created' = {}
    BY <1>5 DEF Destroy, ToClose, InputType
  <2>2. \A d \in Devices : kern'[d] = Idle
    BY <1>5 DEF Destroy, ToClose
  <2> QED
    BY <2>1, <2>2
<1>6. CASE UNCHANGED vars
  BY <1>6 DEF vars
<1> QED
  BY <1>1, <1>2, <1>3, <1>4, <1>5, <1>6, InputSteps

\* Every step keeps a device within its capabilities: uinput drops the rest.
LEMMA CapsStep ==
    ASSUME InputType, CreatedInv, CapsInv, [Next]_vars
    PROVE  CapsInv'
<1> USE DEF CapsInv
<1>1. CASE OpenFails \/ CreateFails \/ UNCHANGED vars
  BY <1>1 DEF OpenFails, CreateFails, vars
<1>2. CASE CreateDevice
  <2>1. /\ UNCHANGED kern /\ phase \in 1..4 /\ Current \in Devices
        /\ Current = DeviceOrder[phase] /\ phase >= phase
    BY <1>2, CurrentIs DEF CreateDevice, Current
  <2>2. kern[Current] = Idle
    BY <2>1 DEF CreatedInv
  <2>3. PICK missing \in SUBSET Capabilities[Current] :
           caps' = [caps EXCEPT ![Current] = Capabilities[Current] \ missing]
    BY <1>2, CreateDeviceIs
  <2>4. caps'[Current] \subseteq Capabilities[Current]
    BY <2>1, <2>3 DEF InputType
  <2>5. \A d \in Devices : d # Current => caps'[d] = caps[d]
    BY <2>3 DEF InputType
  <2>6. kern'[Current].keys \subseteq caps'[Current]
    BY <2>1, <2>2, IdleType
  <2> QED
    BY <2>1, <2>4, <2>5, <2>6
<1>3. CASE Request
  BY <1>3, RequestIs
<1>4. CASE Destroy
  <2>1. \A d \in Devices : kern'[d] = Idle \/ kern'[d] = kern[d]
    BY <1>4 DEF Destroy
  <2>2. caps' = caps
    BY <1>4 DEF Destroy
  <2> QED
    BY <2>1, <2>2, IdleType
<1> QED
  BY <1>1, <1>2, <1>3, <1>4, InputSteps

\* Without a failure the constructor leaves every device complete.
LEMMA CompleteStep ==
    ASSUME InputType, CompleteInv, [Next]_vars
    PROVE  CompleteInv'
<1>0. faults \in 0..MaxFaults /\ MaxFaults \in Nat
  BY InputAssumption DEF InputType
<1> USE DEF CompleteInv
<1>1. CASE OpenFails \/ CreateFails
  <2>1. faults' # 0
    BY <1>0, <1>1 DEF OpenFails, CreateFails
  <2> QED
    BY <2>1
<1>2. CASE CreateDevice
  <2> SUFFICES ASSUME faults' = 0, NEW p \in 1..4, p < phase'
               PROVE  (DeviceOrder[p] \in created
                         /\ caps[DeviceOrder[p]] = Capabilities[DeviceOrder[p]])'
    OBVIOUS
  <2>1. faults = 0 /\ faults' = faults
    BY <1>0, <1>2, CreateDeviceIs
  <2>2. /\ phase' = phase + 1 /\ created' = created \cup {Current} /\ phase # Down
        /\ p < phase \/ DeviceOrder[p] = Current
        /\ p < phase => DeviceOrder[p] # Current
        /\ Current \in Devices /\ DeviceOrder[p] \in Devices
    BY <1>2, CurrentIs, DevicesAre DEF CreateDevice
  <2>3. PICK missing \in SUBSET Capabilities[Current] :
           /\ missing = {}
           /\ caps' = [caps EXCEPT ![Current] = Capabilities[Current] \ missing]
    BY <1>2, <2>1, CreateDeviceIs
  <2>4. caps'[Current] = Capabilities[Current]
    BY <2>2, <2>3 DEF InputType
  <2>5. DeviceOrder[p] # Current => caps'[DeviceOrder[p]] = caps[DeviceOrder[p]]
    BY <2>2, <2>3 DEF InputType
  <2>6. CASE DeviceOrder[p] = Current
    BY <2>2, <2>4, <2>6
  <2>7. CASE DeviceOrder[p] # Current
    BY <2>1, <2>2, <2>5, <2>7
  <2> QED
    BY <2>6, <2>7
<1>3. CASE Request
  <2>1. UNCHANGED <<phase, created, caps>> /\ (faults' = 0 => faults = 0)
    BY <1>0, <1>3, RequestIs
  <2> QED
    BY <2>1
<1>4. CASE Destroy
  BY <1>4 DEF Destroy
<1>5. CASE UNCHANGED vars
  BY <1>5 DEF vars
<1> QED
  BY <1>1, <1>2, <1>3, <1>4, <1>5, InputSteps

\* The destructor is the end, and leaves nothing.
LEMMA NothingStep ==
    ASSUME InputType, CreatedInv, NothingLeftOpen, [Next]_vars
    PROVE  NothingLeftOpen'
<1>1. CASE OpenFails \/ CreateFails \/ CreateDevice
  <2>1. phase' # Down
    BY <1>1, CurrentIs DEF OpenFails, CreateFails, CreateDevice
  <2> QED
    BY <2>1 DEF NothingLeftOpen
<1>2. CASE Request
  <2>1. phase' # Down
    BY <1>2, RequestIs DEF Up, Down
  <2> QED
    BY <2>1 DEF NothingLeftOpen
<1>3. CASE Destroy
  <2>1. created' = {}
    BY <1>3 DEF Destroy, ToClose, CreatedInv, InputType
  <2>2. \A d \in Devices : mDeviceFd'[d] # "open" /\ kern'[d] = Idle
    BY <1>3 DEF Destroy, ToClose, CreatedInv
  <2> QED
    BY <2>1, <2>2 DEF NothingLeftOpen
<1>4. CASE UNCHANGED vars
  BY <1>4 DEF vars, NothingLeftOpen
<1> QED
  BY <1>1, <1>2, <1>3, <1>4, InputSteps

\* While no call has failed, a request presses and releases what it asks for.
LEMMA KeysRequestStep ==
    ASSUME InputType, CreatedInv, CompleteInv, KeysAsAsked, Request, faults' = 0
    PROVE  \A e \in Devices \ misfit' : kern'[e].keys = asked'[e]
<1>0. faults = 0 /\ faults' = faults /\ phase = Up
  <2>1. faults \in 0..MaxFaults /\ MaxFaults \in Nat
    BY InputAssumption DEF InputType
  <2>2. faults <= faults' /\ phase = Up
    BY RequestIs
  <2> QED
    BY <2>1, <2>2
<1>1. \A d \in Devices \ misfit : kern[d].keys = asked[d]
  BY <1>0 DEF KeysAsAsked
<1>2. \A d \in Devices : /\ d \in created /\ mDeviceFd[d] = "open"
                         /\ caps[d] = Capabilities[d]
  BY <1>0, DevicesAre DEF CompleteInv, CreatedInv, Up, Down
<1>3. CASE UNCHANGED <<kern, faults, asked, misfit>>
  BY <1>1, <1>3
<1>4. ASSUME NEW d \in Devices, NEW n \in Nat, NEW events \in [1..n -> Event],
             EmitAll(d, events), KeyRequest(d, n, events) \/ PlainRequest(n, events)
      PROVE  \A e \in Devices \ misfit' : kern'[e].keys = asked'[e]
  <2>1. PICK lost \in SUBSET (1..n) :
           /\ faults' = faults => lost = {}
           /\ kern' = [kern EXCEPT ![d] =
                         After(kern[d], events, Sent(d, events, lost))]
    BY <1>2, <1>4, Emitted
  <2> DEFINE S == Sent(d, events, {})
  <2>2. /\ kern' = [kern EXCEPT ![d] = After(kern[d], events, S)]
        /\ S \in SUBSET (1..n)
        /\ \A i \in 1..n : i \in S <=> events[i].code \in Capabilities[d] \cup {SynReport}
    BY <1>0, <1>2, <2>1 DEF Sent
  <2> HIDE DEF S
  <2>3. kern \in [Devices -> Kernel] /\ kern[d] \in Kernel
        /\ asked \in [Devices -> SUBSET Codes]
    BY DEF InputType
  <2>4. \A e \in Devices : e # d => kern'[e] = kern[e]
    BY <2>2, <2>3
  <2>5. kern'[d].keys = KeysAfter(kern[d], events, S)
    BY <2>2, <2>3 DEF After
  <2>6. CASE PlainRequest(n, events)
    <3>1. KeysAfter(kern[d], events, S) = kern[d].keys
      BY <2>2, <2>3, <2>6, NoKey DEF PlainRequest
    <3> QED
      BY <1>1, <2>4, <2>5, <2>6, <3>1 DEF PlainRequest
  <2>7. CASE KeyRequest(d, n, events)
    <3>0. PICK m \in 1..n :
             /\ events[m].code[1] = "KEY"
             /\ \A i \in 1..n : i # m => events[i].code[1] # "KEY"
             /\ \E c \in CodeTypes \X Nat :
                   /\ c[1] = "KEY" /\ Ask(d, c, events[m].val)
                   /\ c[2] < 65536 => events[m].code = c
      BY <2>7 DEF KeyRequest
    <3>1. /\ m \in 1..n /\ events[m].code[1] = "KEY"
          /\ \A i \in 1..n : events[i].code[1] = "KEY" <=> i = m
      BY <3>0
    <3>2. PICK c \in CodeTypes \X Nat :
             /\ c[1] = "KEY" /\ Ask(d, c, events[m].val)
             /\ c[2] < 65536 => events[m].code = c
      BY <3>0
    <3>3. /\ m \notin S => KeysAfter(kern[d], events, S) = kern[d].keys
          /\ m \in S => KeysAfter(kern[d], events, S)
                            = Pressed(kern[d].keys, events[m].code, events[m].val)
      <4>1. ASSUME NEW k \in Kernel
            PROVE  /\ m \notin S => KeysAfter(k, events, S) = k.keys
                   /\ m \in S => KeysAfter(k, events, S)
                                     = Pressed(k.keys, events[m].code, events[m].val)
        <5>1. S \in SUBSET (1..n)
          BY <2>2
        <5> QED
          BY <3>1, <5>1, OneKey
      <4> QED
        BY <2>3, <4>1
    <3>4. m \in S <=> events[m].code \in Capabilities[d]
      BY <2>2, <3>1, CodesAre
    <3>5. /\ \A e \in Devices : e # d => asked'[e] = asked[e]
          /\ misfit \subseteq misfit' /\ (c[2] < 65536 \/ d \in misfit')
      BY <2>3, <3>2 DEF Ask
    <3>6. asked'[d] = IF c \notin Capabilities[d] THEN asked[d]
                      ELSE Pressed(asked[d], c, events[m].val)
      BY <2>3, <3>2 DEF Ask, Pressed
    <3>7. d \notin misfit' => kern'[d].keys = asked'[d]
      <4> SUFFICES ASSUME d \notin misfit' PROVE kern'[d].keys = asked'[d]
        OBVIOUS
      <4>1. events[m].code = c /\ kern[d].keys = asked[d]
        BY <1>1, <3>2, <3>5
      <4> QED
        BY <2>5, <3>3, <3>4, <3>6, <4>1
    <3> QED
      BY <1>1, <2>4, <3>5, <3>7
  <2> QED
    BY <1>4, <2>6, <2>7
<1> QED
  BY <1>3, <1>4 DEF Request

\* No other step changes a key, but for the destructor, which releases them all.
LEMMA KeysStep ==
    ASSUME InputType, CreatedInv, CompleteInv, KeysAsAsked, [Next]_vars
    PROVE  KeysAsAsked'
<1>0. faults \in 0..MaxFaults /\ MaxFaults \in Nat
  BY InputAssumption DEF InputType
<1>1. CASE OpenFails \/ CreateFails
  <2>1. faults' # 0
    BY <1>0, <1>1 DEF OpenFails, CreateFails
  <2> QED
    BY <2>1 DEF KeysAsAsked
<1>2. CASE CreateDevice
  <2>1. faults' = 0 => faults = 0
    BY <1>0, <1>2, CreateDeviceIs
  <2> QED
    BY <1>2, <2>1 DEF CreateDevice, KeysAsAsked
<1>3. CASE Request
  BY <1>3, KeysRequestStep DEF KeysAsAsked
<1>4. CASE Destroy
  <2>1. \A d \in Devices : kern'[d] = Idle /\ asked'[d] = {}
    BY <1>4 DEF Destroy, ToClose, CreatedInv
  <2> QED
    BY <2>1, IdleType DEF KeysAsAsked
<1>5. CASE UNCHANGED vars
  BY <1>5 DEF vars, KeysAsAsked
<1> QED
  BY <1>1, <1>2, <1>3, <1>4, <1>5, InputSteps

-----------------------------------------------------------------------------
\* What the proofs below keep, of every state.
InputInv == InputType /\ CreatedInv /\ CapsInv /\ CompleteInv

\* The server starts with no device.
LEMMA InputInit ==
    ASSUME Init
    PROVE  InputInv /\ KeysAsAsked /\ NothingLeftOpen
<1>1. MaxFaults \in Nat
  BY InputAssumption
<1>2. InputType
  BY <1>1, IdleType DEF Init, InputType, Down
<1>3. CreatedInv
  BY DevicesAre DEF Init, CreatedInv
<1>4. CapsInv
  BY IdleType DEF Init, CapsInv
<1>5. CompleteInv
  BY DEF Init, CompleteInv
<1>6. KeysAsAsked /\ NothingLeftOpen
  BY IdleType DEF Init, KeysAsAsked, NothingLeftOpen, Down
<1> QED
  BY <1>2, <1>3, <1>4, <1>5, <1>6 DEF InputInv

\* InputInv is an invariant: every step keeps each of its parts.
LEMMA InputInvariant == Spec => []InputInv
<1>1. Init => InputInv
  BY InputInit
<1>2. InputInv /\ [Next]_vars => InputInv'
  BY InputTypeStep, CreatedStep, CapsStep, CompleteStep DEF InputInv
<1> QED
  BY <1>1, <1>2, PTL DEF Spec

\* Every variable keeps its type, every device its capabilities, and the kernel's
\* slot is always one that the multi-touch device has.
THEOREM InputTypeCorrect == Spec => []TypeOK
<1>1. InputInv => TypeOK
  <2> SUFFICES ASSUME InputInv PROVE TypeOK
    OBVIOUS
  <2> USE DEF InputInv
  <2>1. created \subseteq {d \in Devices : mDeviceFd[d] = "open"}
    BY DEF CreatedInv, InputType
  <2>2. \A d \in Devices : kern[d].slot \in Slots /\ asked[d] \subseteq Codes
    BY DEF InputType, Kernel
  <2> QED
    BY <2>1, <2>2 DEF InputType, CapsInv, TypeOK
<1> QED
  BY <1>1, InputInvariant, PTL

\* While no system call has failed, the keys that are down on each device are
\* those that its callers last asked to press, by whichever call and raw value:
\* no press is lost and none stays behind, as long as the codes fit into 16 bits.
THEOREM KeysCorrect == Spec => []KeysAsAsked
<1>1. Init => KeysAsAsked
  BY InputInit
<1>2. InputInv /\ KeysAsAsked /\ [Next]_vars => KeysAsAsked'
  BY KeysStep DEF InputInv
<1> QED
  BY <1>1, <1>2, InputInvariant, PTL DEF Spec

\* Whatever failed before, the destructor leaves no descriptor and no device.
THEOREM NothingLeftOpenCorrect == Spec => []NothingLeftOpen
<1>1. Init => NothingLeftOpen
  BY InputInit
<1>2. InputInv /\ NothingLeftOpen /\ [Next]_vars => NothingLeftOpen'
  BY NothingStep DEF InputInv
<1> QED
  BY <1>1, <1>2, InputInvariant, PTL DEF Spec

-----------------------------------------------------------------------------
(***************************************************************************)
(* The refinement: what a sequence of reports does to the kernel's slots   *)
(* is what the table of contacts promises.                                 *)
(***************************************************************************)
\* The last of the positions of events of a kind is that of the last entry.
LEMMA MaxMap ==
    ASSUME NEW m \in Nat, NEW Q \in SUBSET (1..m), NEW j \in 1..4, NEW P,
           P = {4 * (i - 1) + j : i \in Q}
    PROVE  /\ P = {} <=> Q = {}
           /\ Q # {} => Max(Q) \in Q /\ Max(P) = 4 * (Max(Q) - 1) + j
<1>0. \A q \in Q : q \in Int
  <2>1. \A q \in 1..m : q \in Int
    OBVIOUS
  <2> QED
    BY <2>1, Zenon
<1>1. P = {} <=> Q = {}
  OBVIOUS
<1>2. ASSUME Q # {}
      PROVE  Max(Q) \in Q /\ Max(P) = 4 * (Max(Q) - 1) + j
  <2>1. Max(Q) \in Q /\ \A y \in Q : y <= Max(Q)
    BY <1>2, MaxLast
  <2>2. 4 * m \in Nat /\ P \in SUBSET (1..(4 * m)) /\ P # {}
    <3>1. \A i \in 1..m : 4 * (i - 1) + j \in 1..(4 * m)
      BY PositionOf
    <3>2. \A p \in P : p \in 1..(4 * m)
      BY <3>1
    <3>3. P \in SUBSET (1..(4 * m))
      BY <3>2, Zenon
    <3>4. 4 * m \in Nat
      OBVIOUS
    <3> QED
      BY <1>1, <1>2, <3>3, <3>4, Zenon
  <2>3. Max(P) \in P /\ \A y \in P : y <= Max(P)
    BY <2>2, MaxLast
  <2>4. PICK i \in Q : Max(P) = 4 * (i - 1) + j
    BY <2>3
  <2>5. 4 * (Max(Q) - 1) + j \in P
    BY <2>1
  <2>6. 4 * (Max(Q) - 1) + j <= 4 * (i - 1) + j /\ i <= Max(Q)
    BY <2>1, <2>3, <2>4, <2>5
  <2>7. i \in Int /\ Max(Q) \in Int
    BY <1>0, <2>1, <2>4, Zenon
  <2>8. i = Max(Q)
    BY <2>6, <2>7
  <2> QED
    BY <2>1, <2>4, <2>8
<1> QED
  BY <1>1, <1>2

\* The codes of a report's events are different ones, all supported.
LEMMA TouchCodes ==
    /\ MtSlot # MtId /\ MtSlot # MtX /\ MtSlot # MtY
    /\ MtId # MtX /\ MtId # MtY /\ MtX # MtY
    /\ \A c \in {MtSlot, MtId, MtX, MtY} : c # SynReport /\ c # NotSent.code
    /\ \A c \in {MtSlot, MtId, MtX, MtY} : c \in Capabilities["multi"]
<1>1. \A c \in {MtSlot, MtId, MtX, MtY} : c \in Capabilities["multi"]
  BY CapabilitiesAre
<1>2. \A c \in {MtSlot, MtId, MtX, MtY} : c # SynReport /\ c # NotSent.code
  BY CodesAre
<1> QED
  BY <1>1, <1>2 DEF MtSlot, MtId, MtX, MtY

\* A number that fits is narrowed to itself.
LEMMA NarrowFits ==
    /\ \A n \in 0..127 : NarrowSlot(n) = n
    /\ \A n \in Table!Ids : NarrowId(n) = n
<1>1. ASSUME NEW n \in 0..127 PROVE NarrowSlot(n) = n
  <2>1. n + 128 \in 0..255
    OBVIOUS
  <2>2. (n + 128) % 256 = n + 128
    BY <2>1
  <2> QED
    BY <2>2 DEF NarrowSlot
<1>2. ASSUME NEW n \in Table!Ids PROVE NarrowId(n) = n
  <2>1. n \in Int /\ -1 <= n /\ n <= 32767
    BY DEF Table!Ids
  <2>2. n + 32768 >= 0 /\ n + 32768 <= 65535 /\ n + 32768 \in Int
    BY <2>1
  <2>3. \A m \in Int : m >= 0 /\ m <= 65535 => m % 65536 = m
    OBVIOUS
  <2>4. (n + 32768) % 65536 = n + 32768
    BY <2>2, <2>3
  <2> QED
    BY <2>1, <2>4 DEF NarrowId
<1> QED
  BY <1>1, <1>2

\* The client narrows nothing that the interface allows.
LEMMA NarrowLawful ==
    ASSUME NEW r \in Reports, Table!Lawful(r), NEW i \in 1..Len(r)
    PROVE  /\ r[i].slot \in Slots /\ r[i].id \in Table!Ids
           /\ NarrowedReport(r)[i].slot = r[i].slot
           /\ NarrowedReport(r)[i].id = r[i].id
           /\ NarrowedReport(r)[i].x = r[i].x
           /\ NarrowedReport(r)[i].y = r[i].y
<1>1. r[i].slot \in Slots /\ r[i].id \in Table!Ids
  BY NarrowedType DEF Table!Lawful
<1>2. r[i].slot \in 0..127
  BY <1>1, InputAssumption
<1>3. NarrowSlot(r[i].slot) = r[i].slot
  BY <1>2, NarrowFits
<1>4. NarrowId(r[i].id) = r[i].id
  BY <1>1, NarrowFits
<1> QED
  BY <1>1, <1>3, <1>4, NarrowedType

\* The events of a lawful report.
TouchEvents(r) == ReportEvents(NarrowedReport(r))

LEMMA LawfulEvents ==
    ASSUME NEW r \in Reports, Table!Lawful(r), NEW i \in 1..Len(r)
    PROVE  /\ TouchEvents(r)[4 * (i - 1) + 1] = Ev(MtSlot, r[i].slot)
           /\ TouchEvents(r)[4 * (i - 1) + 2] =
                 IF r[i].id # 0 THEN Ev(MtId, r[i].id) ELSE NotSent
           /\ TouchEvents(r)[4 * (i - 1) + 3] =
                 IF r[i].id >= 0 THEN Ev(MtX, r[i].x) ELSE NotSent
           /\ TouchEvents(r)[4 * (i - 1) + 4] =
                 IF r[i].id >= 0 THEN Ev(MtY, r[i].y) ELSE NotSent
<1>1. NarrowedReport(r) \in Seq(TouchEntry) /\ Len(NarrowedReport(r)) = Len(r)
  BY NarrowedType
<1>2. \A j \in 1..4 :
         TouchEvents(r)[4 * (i - 1) + j] = EntryEvents(NarrowedReport(r)[i])[j]
  BY <1>1, ReportEventsAre DEF TouchEvents
<1>3. /\ NarrowedReport(r)[i].slot = r[i].slot
      /\ NarrowedReport(r)[i].id = r[i].id
      /\ NarrowedReport(r)[i].x = r[i].x
      /\ NarrowedReport(r)[i].y = r[i].y
  BY NarrowLawful
<1>4. /\ EntryEvents(NarrowedReport(r)[i])[1] = Ev(MtSlot, r[i].slot)
      /\ EntryEvents(NarrowedReport(r)[i])[2] =
            IF r[i].id # 0 THEN Ev(MtId, r[i].id) ELSE NotSent
      /\ EntryEvents(NarrowedReport(r)[i])[3] =
            IF r[i].id >= 0 THEN Ev(MtX, r[i].x) ELSE NotSent
      /\ EntryEvents(NarrowedReport(r)[i])[4] =
            IF r[i].id >= 0 THEN Ev(MtY, r[i].y) ELSE NotSent
  BY <1>3 DEF EntryEvents
<1> QED
  BY <1>2, <1>4

\* Which events of a lawful report have which code.
LEMMA TouchPlaces ==
    ASSUME NEW r \in Reports, Table!Lawful(r), NEW p \in 1..(4 * Len(r) + 1)
    PROVE  /\ TouchEvents(r)[p].code = MtSlot <=>
                 \E i \in 1..Len(r) : p = 4 * (i - 1) + 1
           /\ TouchEvents(r)[p].code = MtId <=>
                 \E i \in 1..Len(r) : p = 4 * (i - 1) + 2 /\ r[i].id # 0
           /\ TouchEvents(r)[p].code = MtX <=>
                 \E i \in 1..Len(r) : p = 4 * (i - 1) + 3 /\ r[i].id >= 0
           /\ TouchEvents(r)[p].code = MtY <=>
                 \E i \in 1..Len(r) : p = 4 * (i - 1) + 4 /\ r[i].id >= 0
<1> DEFINE e == TouchEvents(r)
<1>1. Len(r) \in Nat
  BY NarrowedType
<1>2. \A v : /\ Ev(MtSlot, v).code = MtSlot /\ Ev(MtId, v).code = MtId
             /\ Ev(MtX, v).code = MtX /\ Ev(MtY, v).code = MtY
  BY DEF Ev
<1>3. ASSUME NEW i \in 1..Len(r)
      PROVE  /\ e[4 * (i - 1) + 1].code = MtSlot
             /\ e[4 * (i - 1) + 2].code = IF r[i].id # 0 THEN MtId ELSE NotSent.code
             /\ e[4 * (i - 1) + 3].code = IF r[i].id >= 0 THEN MtX ELSE NotSent.code
             /\ e[4 * (i - 1) + 4].code = IF r[i].id >= 0 THEN MtY ELSE NotSent.code
  BY <1>2, LawfulEvents
<1> HIDE DEF e
<1>4. CASE p = 4 * Len(r) + 1
  <2>1. NarrowedReport(r) \in Seq(TouchEntry) /\ Len(NarrowedReport(r)) = Len(r)
    BY NarrowedType
  <2>2. e[p] = Syn
    BY <1>4, <2>1, ReportEventsAre DEF e, TouchEvents
  <2>3. e[p].code # MtSlot /\ e[p].code # MtId /\ e[p].code # MtX /\ e[p].code # MtY
    BY <2>2, CodesAre
  <2>4. \A i \in 1..Len(r), j \in 1..4 : p # 4 * (i - 1) + j
    BY <1>1, <1>4
  <2>5. 1 \in 1..4 /\ 2 \in 1..4 /\ 3 \in 1..4 /\ 4 \in 1..4
    OBVIOUS
  <2> QED
    BY <2>3, <2>4, <2>5 DEF e
<1>5. CASE p \in 1..(4 * Len(r))
  <2>1. PICK i \in 1..Len(r), j \in 1..4 : p = 4 * (i - 1) + j
    BY <1>1, <1>5, Positions
  <2>2. \/ j = 1 /\ e[p].code = MtSlot
        \/ j = 2 /\ e[p].code = IF r[i].id # 0 THEN MtId ELSE NotSent.code
        \/ j = 3 /\ e[p].code = IF r[i].id >= 0 THEN MtX ELSE NotSent.code
        \/ j = 4 /\ e[p].code = IF r[i].id >= 0 THEN MtY ELSE NotSent.code
    <3>1. j = 1 \/ j = 2 \/ j = 3 \/ j = 4
      BY <2>1
    <3> QED
      BY <1>3, <2>1, <3>1
  <2>3. /\ e[p].code = MtSlot => p = 4 * (i - 1) + 1
        /\ e[p].code = MtId => p = 4 * (i - 1) + 2 /\ r[i].id # 0
        /\ e[p].code = MtX => p = 4 * (i - 1) + 3 /\ r[i].id >= 0
        /\ e[p].code = MtY => p = 4 * (i - 1) + 4 /\ r[i].id >= 0
    BY <2>1, <2>2, TouchCodes
  <2> QED
    BY <1>3, <2>1, <2>3 DEF e
<1>6. p = 4 * Len(r) + 1 \/ p \in 1..(4 * Len(r))
  BY <1>1
<1> QED
  BY <1>4, <1>5, <1>6

\* The positions of the events of a lawful report that the device supports.
TouchSent(r) ==
    {p \in 1..(4 * Len(r) + 1) :
        TouchEvents(r)[p].code \in Capabilities["multi"] \cup {SynReport}}

\* All those with a code of the multi-touch protocol are sent.
LEMMA TouchOf ==
    ASSUME NEW r \in Reports, Table!Lawful(r)
    PROVE  /\ Of(TouchEvents(r), TouchSent(r), MtSlot) =
                 {4 * (i - 1) + 1 : i \in 1..Len(r)}
           /\ Of(TouchEvents(r), TouchSent(r), MtId) =
                 {4 * (i - 1) + 2 : i \in {i \in 1..Len(r) : r[i].id # 0}}
           /\ Of(TouchEvents(r), TouchSent(r), MtX) =
                 {4 * (i - 1) + 3 : i \in {i \in 1..Len(r) : r[i].id >= 0}}
           /\ Of(TouchEvents(r), TouchSent(r), MtY) =
                 {4 * (i - 1) + 4 : i \in {i \in 1..Len(r) : r[i].id >= 0}}
<1>1. Len(r) \in Nat
  BY NarrowedType
<1>2. \A c \in {MtSlot, MtId, MtX, MtY} :
         Of(TouchEvents(r), TouchSent(r), c) =
            {p \in 1..(4 * Len(r) + 1) : TouchEvents(r)[p].code = c}
  BY TouchCodes DEF Of, TouchSent
<1>3. \A i \in 1..Len(r), j \in 1..4 : 4 * (i - 1) + j \in 1..(4 * Len(r) + 1)
  BY <1>1
<1>4. 1 \in 1..4 /\ 2 \in 1..4 /\ 3 \in 1..4 /\ 4 \in 1..4
  OBVIOUS
<1>5. ASSUME NEW c, NEW j \in 1..4, NEW Q \in SUBSET (1..Len(r)),
             \A p \in 1..(4 * Len(r) + 1) :
                TouchEvents(r)[p].code = c <=> \E i \in Q : p = 4 * (i - 1) + j
      PROVE  {p \in 1..(4 * Len(r) + 1) : TouchEvents(r)[p].code = c} =
                {4 * (i - 1) + j : i \in Q}
  BY <1>3, <1>5
<1> DEFINE Set == {i \in 1..Len(r) : r[i].id # 0}
           Move == {i \in 1..Len(r) : r[i].id >= 0}
<1>6. \A p \in 1..(4 * Len(r) + 1) :
         /\ TouchEvents(r)[p].code = MtSlot <=>
               \E i \in 1..Len(r) : p = 4 * (i - 1) + 1
         /\ TouchEvents(r)[p].code = MtId <=> \E i \in Set : p = 4 * (i - 1) + 2
         /\ TouchEvents(r)[p].code = MtX <=> \E i \in Move : p = 4 * (i - 1) + 3
         /\ TouchEvents(r)[p].code = MtY <=> \E i \in Move : p = 4 * (i - 1) + 4
  BY TouchPlaces
<1>7. Set \in SUBSET (1..Len(r)) /\ Move \in SUBSET (1..Len(r))
  OBVIOUS
<1> HIDE DEF Set, Move
<1>8. {p \in 1..(4 * Len(r) + 1) : TouchEvents(r)[p].code = MtSlot} =
         {4 * (i - 1) + 1 : i \in 1..Len(r)}
  <2>1. \A p \in 1..(4 * Len(r) + 1) :
           TouchEvents(r)[p].code = MtSlot <=> \E i \in 1..Len(r) : p = 4 * (i - 1) + 1
    BY <1>6
  <2> QED
    BY <1>4, <1>5, <1>7, <2>1, SMTT(30)
<1>9. {p \in 1..(4 * Len(r) + 1) : TouchEvents(r)[p].code = MtId} =
         {4 * (i - 1) + 2 : i \in Set}
  <2>1. \A p \in 1..(4 * Len(r) + 1) :
           TouchEvents(r)[p].code = MtId <=> \E i \in Set : p = 4 * (i - 1) + 2
    BY <1>6
  <2> QED
    BY <1>4, <1>5, <1>7, <2>1, SMTT(30)
<1>10. {p \in 1..(4 * Len(r) + 1) : TouchEvents(r)[p].code = MtX} =
         {4 * (i - 1) + 3 : i \in Move}
  <2>1. \A p \in 1..(4 * Len(r) + 1) :
           TouchEvents(r)[p].code = MtX <=> \E i \in Move : p = 4 * (i - 1) + 3
    BY <1>6
  <2> QED
    BY <1>4, <1>5, <1>7, <2>1, SMTT(30)
<1>11. {p \in 1..(4 * Len(r) + 1) : TouchEvents(r)[p].code = MtY} =
         {4 * (i - 1) + 4 : i \in Move}
  <2>1. \A p \in 1..(4 * Len(r) + 1) :
           TouchEvents(r)[p].code = MtY <=> \E i \in Move : p = 4 * (i - 1) + 4
    BY <1>6
  <2> QED
    BY <1>4, <1>5, <1>7, <2>1, SMTT(30)
<1> QED
  BY <1>2, <1>8, <1>9, <1>10, <1>11 DEF Set, Move

\* The events of an entry go to the slot that the entry selects.
LEMMA TouchSlot ==
    ASSUME NEW r \in Reports, Table!Lawful(r), NEW k, NEW i \in 1..Len(r),
           NEW j \in 2..4
    PROVE  SlotAt(k, TouchEvents(r), TouchSent(r), 4 * (i - 1) + j) = r[i].slot
<1> DEFINE e == TouchEvents(r)
           q == 4 * (i - 1) + 1
           P == {p \in Of(e, TouchSent(r), MtSlot) :
                    p < 4 * (i - 1) + j /\ e[p].val \in Slots}
<1>1. Len(r) \in Nat /\ i \in Nat /\ j \in Nat
  BY NarrowedType
<1>2. e[q].val = r[i].slot /\ r[i].slot \in Slots
  <2>1. e[q] = Ev(MtSlot, r[i].slot)
    BY LawfulEvents
  <2>2. r[i].slot \in Slots
    BY NarrowLawful
  <2> HIDE DEF e, q
  <2> QED
    BY <2>1, <2>2 DEF Ev
<1>3. Of(e, TouchSent(r), MtSlot) = {4 * (h - 1) + 1 : h \in 1..Len(r)}
  BY TouchOf
<1>4. q \in P
  <2>1. q < 4 * (i - 1) + j
    BY <1>1
  <2> HIDE DEF e
  <2> QED
    BY <1>2, <1>3, <2>1
<1>5. \A p \in P : p <= q /\ p \in 1..(4 * Len(r))
  <2> SUFFICES ASSUME NEW p \in P
               PROVE  p <= q /\ p \in 1..(4 * Len(r))
    OBVIOUS
  <2>1. PICK h \in 1..Len(r) : p = 4 * (h - 1) + 1
    BY <1>3
  <2>2. p < 4 * (i - 1) + j
    OBVIOUS
  <2> HIDE DEF P, e
  <2> QED
    BY <1>1, <2>1, <2>2
<1> HIDE DEF P
<1>6. P \in SUBSET (1..(4 * Len(r))) /\ P # {} /\ 4 * Len(r) \in Nat
  BY <1>1, <1>4, <1>5
<1>7. Max(P) \in P /\ \A p \in P : p <= Max(P)
  BY <1>6, MaxLast
<1>8. Max(P) <= q /\ q <= Max(P) /\ Max(P) \in Int /\ q \in Int
  BY <1>1, <1>4, <1>5, <1>7
<1>9. Max(P) = q
  BY <1>8
<1> QED
  BY <1>2, <1>6, <1>9 DEF SlotAt, Latest, P

\* The positions of a report's events of a code are those of event j of the
\* entries in Q.
PlacesOf(r, code, j, Q) ==
    Of(TouchEvents(r), TouchSent(r), code) = {4 * (i - 1) + j : i \in Q}

InSlot(r, Q, s) == {i \in Q : r[i].slot = s}

\* The last of the entries in T has set the axis, if there is one.
AxisIs(r, k, s, code, j, old, T) ==
    /\ T = {} => Axis(k, TouchEvents(r), TouchSent(r), code, old)[s] = old[s]
    /\ T # {} => /\ Max(T) \in T
                 /\ Axis(k, TouchEvents(r), TouchSent(r), code, old)[s] =
                       TouchEvents(r)[4 * (Max(T) - 1) + j].val

\* An axis is left as the last of the entries says that set it.
LEMMA TouchAxis ==
    ASSUME NEW r \in Reports, Table!Lawful(r), NEW k, NEW s \in Slots, NEW code,
           NEW j \in 2..4, NEW Q \in SUBSET (1..Len(r)), NEW old,
           PlacesOf(r, code, j, Q)
    PROVE  AxisIs(r, k, s, code, j, old, InSlot(r, Q, s))
<1> DEFINE U == InSlot(r, Q, s)
           e == TouchEvents(r)
           P == {p \in Of(e, TouchSent(r), code) : SlotAt(k, e, TouchSent(r), p) = s}
<1>1. Len(r) \in Nat /\ j \in 1..4
  BY NarrowedType
<1>2. \A i \in Q : SlotAt(k, e, TouchSent(r), 4 * (i - 1) + j) = r[i].slot
  BY TouchSlot
<1> HIDE DEF e
<1>3. P = {4 * (i - 1) + j : i \in U}
  BY <1>2 DEF e, PlacesOf, InSlot
<1>4. U \in SUBSET (1..Len(r))
  BY DEF InSlot
<1>5. Axis(k, e, TouchSent(r), code, old)[s] = Latest(e, P, old[s])
  BY DEF Axis
<1> HIDE DEF P, U
<1>6. /\ P = {} <=> U = {}
      /\ U # {} => Max(U) \in U /\ Max(P) = 4 * (Max(U) - 1) + j
  BY <1>1, <1>3, <1>4, MaxMap
<1>7. /\ U = {} => Axis(k, e, TouchSent(r), code, old)[s] = old[s]
      /\ U # {} => /\ Max(U) \in U
                   /\ Axis(k, e, TouchSent(r), code, old)[s] =
                         e[4 * (Max(U) - 1) + j].val
  BY <1>5, <1>6 DEF Latest
<1> QED
  BY <1>7 DEF e, U, AxisIs

\* What the table of contacts calls the last entry is the last one.
LEMMA TableMax == ASSUME NEW S PROVE Table!Max(S) = Max(S)
  BY DEF Table!Max, Max

\* A lawful report that reaches the device whole leaves each slot as the table
\* of contacts has it.
LEMMA TouchEffect ==
    ASSUME NEW r \in Reports, Table!Lawful(r), NEW k \in Kernel, NEW s \in Slots
    PROVE  LET a == After(k, TouchEvents(r), TouchSent(r))
           IN  /\ a.id[s] = Table!Latest(r, Table!Setting(r, s), "id", k.id[s])
               /\ a.x[s] = Table!Latest(r, Table!Moving(r, s), "x", k.x[s])
               /\ a.y[s] = Table!Latest(r, Table!Moving(r, s), "y", k.y[s])
<1> DEFINE e == TouchEvents(r)
           S == TouchSent(r)
           Set == {i \in 1..Len(r) : r[i].id # 0}
           Move == {i \in 1..Len(r) : r[i].id >= 0}
           TS == InSlot(r, Set, s)
           TM == InSlot(r, Move, s)
<1>1. PlacesOf(r, MtId, 2, Set) /\ PlacesOf(r, MtX, 3, Move) /\ PlacesOf(r, MtY, 4, Move)
  BY TouchOf DEF PlacesOf
<1>2. Set \in SUBSET (1..Len(r)) /\ Move \in SUBSET (1..Len(r))
  OBVIOUS
<1>3. 2 \in 2..4 /\ 3 \in 2..4 /\ 4 \in 2..4
  OBVIOUS
<1>4. Table!Setting(r, s) = TS /\ Table!Moving(r, s) = TM
  <2>1. DOMAIN r = 1..Len(r)
    BY NarrowedType
  <2> QED
    BY <2>1 DEF Table!Setting, Table!Moving, InSlot
<1>5. /\ \A i \in Set : e[4 * (i - 1) + 2].val = r[i].id
      /\ \A i \in Move : e[4 * (i - 1) + 3].val = r[i].x
      /\ \A i \in Move : e[4 * (i - 1) + 4].val = r[i].y
  <2>1. \A i \in Set : e[4 * (i - 1) + 2] = Ev(MtId, r[i].id)
    BY LawfulEvents
  <2>2. \A i \in Move : /\ e[4 * (i - 1) + 3] = Ev(MtX, r[i].x)
                         /\ e[4 * (i - 1) + 4] = Ev(MtY, r[i].y)
    BY LawfulEvents
  <2>3. \A c, v : Ev(c, v).val = v
    BY DEF Ev
  <2> HIDE DEF Set, Move, e
  <2> QED
    BY <2>1, <2>2, <2>3
<1>6. /\ After(k, e, S).id = Axis(k, e, S, MtId, k.id)
      /\ After(k, e, S).x = Axis(k, e, S, MtX, k.x)
      /\ After(k, e, S).y = Axis(k, e, S, MtY, k.y)
  BY DEF After
<1> HIDE DEF Set, Move
<1>7. /\ AxisIs(r, k, s, MtId, 2, k.id, TS)
      /\ AxisIs(r, k, s, MtX, 3, k.x, TM)
      /\ AxisIs(r, k, s, MtY, 4, k.y, TM)
  BY <1>1, <1>2, <1>3, TouchAxis
<1>8. TS \subseteq Set /\ TM \subseteq Move
  BY DEF InSlot
<1> HIDE DEF e, S, TS, TM
<1>9. Axis(k, e, S, MtId, k.id)[s] = Table!Latest(r, TS, "id", k.id[s])
  BY <1>5, <1>7, <1>8, TableMax DEF Table!Latest, AxisIs, e, S
<1>10. Axis(k, e, S, MtX, k.x)[s] = Table!Latest(r, TM, "x", k.x[s])
  BY <1>5, <1>7, <1>8, TableMax DEF Table!Latest, AxisIs, e, S
<1>11. Axis(k, e, S, MtY, k.y)[s] = Table!Latest(r, TM, "y", k.y[s])
  BY <1>5, <1>7, <1>8, TableMax DEF Table!Latest, AxisIs, e, S
<1> QED
  BY <1>4, <1>6, <1>9, <1>10, <1>11 DEF e, S

-----------------------------------------------------------------------------
\* The contacts that the reader of the device sees, and whether clients can rely
\* on them.
Touches == [s \in Slots |-> [id |-> kern["multi"].id[s],
                              x |-> kern["multi"].x[s],
                              y |-> kern["multi"].y[s]]]
Reliable == intact /\ faults = 0

\* The actions of the table of contacts, of the server's state.
LEMMA TableSteps ==
    /\ ~Reliable' => Table!Next
    /\ kern'["multi"] = kern["multi"] /\ Reliable' = Reliable /\ lastReport' = <<>>
          => Table!Next
    /\ kern'["multi"] = Idle /\ Reliable' = Reliable /\ lastReport' = <<>>
          => Table!Next
    /\ kern'["multi"] = kern["multi"] /\ Reliable' = Reliable /\ UNCHANGED lastReport
          => UNCHANGED Table!vars
<1>1. ASSUME ~Reliable' PROVE Table!Interference
  BY <1>1 DEF Table!Interference, Reliable
<1>2. ASSUME kern'["multi"] = kern["multi"], Reliable' = Reliable, lastReport' = <<>>
      PROVE  Table!Other
  BY <1>2 DEF Table!Other, Reliable
<1>3. ASSUME kern'["multi"] = Idle, Reliable' = Reliable, lastReport' = <<>>
      PROVE  Table!Reset
  BY <1>3 DEF Table!Reset, Table!Untouched, Reliable, Idle
<1>4. ASSUME kern'["multi"] = kern["multi"], Reliable' = Reliable, UNCHANGED lastReport
      PROVE  UNCHANGED Table!vars
  BY <1>4 DEF Table!vars, Reliable
<1> QED
  BY <1>1, <1>2, <1>3, <1>4 DEF Table!Next

\* A request to another device leaves the contacts alone.
LEMMA ElsewhereStep ==
    ASSUME InputInv, Request, lastReport' = <<>>, UNCHANGED intact,
           kern'["multi"] = kern["multi"]
    PROVE  Table!Next
<1>1. faults \in 0..MaxFaults /\ faults' \in 0..MaxFaults /\ faults <= faults'
  BY RequestIs DEF InputInv, InputType
<1>2. MaxFaults \in Nat
  BY InputAssumption
<1>3. CASE faults' # 0
  BY <1>3, TableSteps DEF Reliable
<1>4. CASE faults' = 0
  <2>1. faults' = faults
    BY <1>1, <1>2, <1>4
  <2> QED
    BY <2>1, TableSteps DEF Reliable
<1> QED
  BY <1>3, <1>4

\* emit() writes to one device.
LEMMA OneDevice ==
    ASSUME InputInv, NEW d \in Devices, d # "multi", NEW events, EmitAll(d, events)
    PROVE  kern'["multi"] = kern["multi"]
<1>1. kern \in [Devices -> Kernel] /\ "multi" \in Devices
  BY DevicesAre DEF InputInv, InputType
<1>2. CASE UNCHANGED kern
  BY <1>2
<1>3. CASE \E new : kern' = [kern EXCEPT ![d] = new]
  BY <1>1, <1>3
<1> QED
  BY <1>2, <1>3 DEF EmitAll

\* A report that the interface allows and that loses no event is a Report of the
\* table; any other one breaks the promise.
LEMMA ReportStep ==
    ASSUME InputInv, NEW r \in Reports, SendMultiTouch(r)
    PROVE  Table!Next
<1>1. CASE ~Reliable'
  BY <1>1, TableSteps
<1>2. CASE Reliable'
  <2>1. Request
    BY MultiTouchRequests DEF InputInv
  <2>2. faults = 0 /\ faults' = faults /\ phase = Up
    <3>1. /\ faults \in 0..MaxFaults /\ faults' \in 0..MaxFaults /\ faults <= faults'
          /\ phase = Up /\ MaxFaults \in Nat
      BY <2>1, RequestIs, InputAssumption DEF InputInv, InputType
    <3> QED
      BY <1>2, <3>1 DEF Reliable
  <2>3. intact /\ Table!Lawful(r) /\ lastReport' = r
    BY <1>2 DEF Reliable, SendMultiTouch
  <2>4. /\ "multi" \in Devices /\ "multi" \in created /\ mDeviceFd["multi"] = "open"
        /\ caps["multi"] = Capabilities["multi"]
    BY <2>2, DevicesAre DEF InputInv, CompleteInv, CreatedInv, Up, Down
  <2>5. EmitAll("multi", TouchEvents(r))
    BY DEF SendMultiTouch, handleMultiTouch, NarrowedReport, TouchEvents
  <2> DEFINE n == 4 * Len(r) + 1
  <2>6. n \in Nat /\ TouchEvents(r) \in [1..n -> Event]
    <3>1. /\ NarrowedReport(r) \in Seq(TouchEntry) /\ Len(NarrowedReport(r)) = Len(r)
          /\ Len(r) \in Nat
      BY NarrowedType
    <3> QED
      BY <3>1, ReportEventsType DEF TouchEvents
  <2>7. kern \in [Devices -> Kernel] /\ kern["multi"] \in Kernel
    BY <2>4 DEF InputInv, InputType
  <2>8. kern'["multi"] = After(kern["multi"], TouchEvents(r), TouchSent(r))
    <3>1. PICK lost \in SUBSET (1..n) :
             /\ faults' = faults => lost = {}
             /\ kern' = [kern EXCEPT !["multi"] =
                           After(kern["multi"], TouchEvents(r),
                                 Sent("multi", TouchEvents(r), lost))]
      BY <2>4, <2>5, <2>6, Emitted DEF InputInv
    <3>2. Sent("multi", TouchEvents(r), {}) = TouchSent(r)
      BY <2>4, <2>6 DEF Sent, TouchSent
    <3> QED
      BY <2>2, <2>4, <2>7, <3>1, <3>2
  <2>9. Touches' = Table!Updated(r)
    <3>1. ASSUME NEW s \in Slots
          PROVE  /\ kern'["multi"].id[s] =
                       Table!Latest(r, Table!Setting(r, s), "id", kern["multi"].id[s])
                 /\ kern'["multi"].x[s] =
                       Table!Latest(r, Table!Moving(r, s), "x", kern["multi"].x[s])
                 /\ kern'["multi"].y[s] =
                       Table!Latest(r, Table!Moving(r, s), "y", kern["multi"].y[s])
      BY <2>3, <2>7, <2>8, TouchEffect
    <3> QED
      BY <3>1 DEF Touches, Table!Updated
  <2>10. Table!Report(r)
    BY <1>2, <2>2, <2>3, <2>9 DEF Table!Report, Touches, Reliable
  <2> QED
    BY <2>10 DEF Table!Next
<1> QED
  BY <1>1, <1>2

\* One event to any device: to the multi-touch device it breaks the promise.
LEMMA PassThroughStep ==
    ASSUME InputInv, NEW r \in RawEvents, SendPassThrough(r), Request
    PROVE  Table!Next
<1> USE DEF SendPassThrough, handlePassThrough
<1>1. CASE r.dev \notin DOMAIN DeviceOrder
  <2>1. UNCHANGED <<kern, intact>> /\ lastReport' = <<>>
    BY <1>1
  <2> QED
    BY <2>1, ElsewhereStep
<1>2. CASE r.dev \in DOMAIN DeviceOrder /\ DeviceOrder[r.dev] = "multi"
  <2>1. ~Reliable'
    BY <1>2 DEF Reliable
  <2> QED
    BY <2>1, TableSteps
<1>3. CASE r.dev \in DOMAIN DeviceOrder /\ DeviceOrder[r.dev] # "multi"
  <2>1. /\ EmitAll(DeviceOrder[r.dev], <<Ev(Narrowed(r.code), r.val)>>)
        /\ lastReport' = <<>> /\ DeviceOrder[r.dev] \in Devices
    BY <1>3, DevicesAre
  <2>2. kern'["multi"] = kern["multi"]
    BY <1>3, <2>1, OneDevice
  <2>3. CASE ~Reliable'
    BY <2>3, TableSteps
  <2>4. CASE Reliable'
    <3>1. faults = 0
      <4>1. /\ faults \in 0..MaxFaults /\ faults' \in 0..MaxFaults /\ faults <= faults'
            /\ MaxFaults \in Nat
        BY RequestIs, InputAssumption DEF InputInv, InputType
      <4> QED
        BY <2>4, <4>1 DEF Reliable
    <3>2. intact /\ intact'
      BY <1>3, <2>4 DEF Reliable
    <3>3. Reliable' = Reliable
      BY <2>4, <3>1, <3>2 DEF Reliable
    <3> QED
      BY <2>1, <2>2, <3>3, TableSteps
  <2> QED
    BY <2>3, <2>4
<1> QED
  BY <1>1, <1>2, <1>3

\* Every step of the server is a step of the table of contacts, or none.
LEMMA TouchStep ==
    ASSUME InputInv, [Next]_vars
    PROVE  [Table!Next]_Table!vars
<1>0. faults \in 0..MaxFaults /\ MaxFaults \in Nat
  BY InputAssumption DEF InputInv, InputType
<1>1. CASE OpenFails \/ CreateFails
  <2>1. ~Reliable'
    BY <1>0, <1>1 DEF OpenFails, CreateFails, Reliable
  <2> QED
    BY <2>1, TableSteps
<1>2. CASE CreateDevice
  <2>1. UNCHANGED <<kern, lastReport, intact>> /\ faults' \in 0..MaxFaults
        /\ faults <= faults'
    BY <1>2, CreateDeviceIs DEF CreateDevice, InputInv
  <2>2. CASE faults' # 0
    BY <2>2, TableSteps DEF Reliable
  <2>3. CASE faults' = 0
    <3>1. faults' = faults
      BY <1>0, <2>1, <2>3
    <3> QED
      BY <2>1, <3>1, TableSteps DEF Reliable
  <2> QED
    BY <2>2, <2>3
<1>3. CASE SendMouseMove
  <2>1. Request
    BY <1>3, MouseMoveRequests DEF InputInv
  <2>2. kern'["multi"] = kern["multi"]
    BY <1>3, OneDevice, DevicesAre DEF SendMouseMove, handleMouseMove
  <2> QED
    BY <1>3, <2>1, <2>2, ElsewhereStep
       DEF SendMouseMove, handleMouseMove, OtherRequest
<1>4. ASSUME NEW c \in Keys, NEW p \in 0..1, SendMouseClick(c, p) \/ SendKeyPress(c, p)
      PROVE  Table!Next
  <2>1. Request
    BY <1>4, KeysRequest
  <2>2. kern'["multi"] = kern["multi"]
    BY <1>4, OneDevice, DevicesAre
       DEF SendMouseClick, handleMouseClick, SendKeyPress, handleKeyPressRaw, PressKey
  <2> QED
    BY <1>4, <2>1, <2>2, ElsewhereStep
       DEF SendMouseClick, handleMouseClick, SendKeyPress, handleKeyPressRaw, OtherRequest
<1>5. ASSUME NEW s \in KeySyms, NEW p \in 0..1, SendKeyPressByKeySym(s, p)
      PROVE  Table!Next
  <2>1. Request
    BY <1>5, KeysRequest
  <2>2. kern'["multi"] = kern["multi"]
    BY <1>5, OneDevice, DevicesAre DEF SendKeyPressByKeySym, handleKeyPressSym, PressKey
  <2> QED
    BY <1>5, <2>1, <2>2, ElsewhereStep
       DEF SendKeyPressByKeySym, handleKeyPressSym, OtherRequest
<1>6. ASSUME NEW hx \in BOOLEAN, NEW hy \in BOOLEAN, NEW p \in 0..1,
             SendSingleTouch(hx, hy, p)
      PROVE  Table!Next
  <2>1. Request
    BY <1>6, SingleTouchRequests
  <2>2. kern'["multi"] = kern["multi"]
    BY <1>6, OneDevice, DevicesAre DEF SendSingleTouch, handleSingleTouch
  <2> QED
    BY <1>6, <2>1, <2>2, ElsewhereStep
       DEF SendSingleTouch, handleSingleTouch, OtherRequest
<1>7. ASSUME NEW r \in RawEvents, SendPassThrough(r)
      PROVE  Table!Next
  BY <1>7, PassThroughRequests, PassThroughStep DEF InputInv
<1>8. CASE Destroy
  <2>1. kern'["multi"] = Idle
    BY <1>8, DevicesAre DEF Destroy, ToClose, InputInv, CreatedInv
  <2>2. Reliable' = Reliable /\ lastReport' = <<>>
    BY <1>8 DEF Destroy, Reliable
  <2> QED
    BY <2>1, <2>2, TableSteps
<1>9. CASE Done \/ UNCHANGED vars
  BY <1>9, TableSteps DEF Done, vars, Reliable
<1> QED
  BY <1>1, <1>2, <1>3, <1>4, <1>5, <1>6, <1>7, <1>8, <1>9, ReportStep DEF Next

\* As long as clients keep to the limits of the interface and no call fails, the
\* kernel's slots follow SendMultiTouch() as the table of contacts promises.
THEOREM TouchCorrect == Spec => TouchRefinement
<1>1. Init => Table!Init
  BY DevicesAre DEF Init, Table!Init, Table!Untouched, Idle
<1>2. InputInv /\ [Next]_vars => [Table!Next]_Table!vars
  BY TouchStep
<1> QED
  BY <1>1, <1>2, InputInvariant, PTL DEF Spec, TouchRefinement, Table!Spec
================================================================================
