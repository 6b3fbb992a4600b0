---------------------------- MODULE DeviceDiscovery ----------------------------
(***************************************************************************)
(* What a recorder knows of the input devices: findDevices() and           *)
(* setup_xkb() in the constructor, listDevices(), setDevicesToRecord() as  *)
(* clients use it over the RPC interface, the destructor, and the          *)
(* transformation of touch coordinates by the ranges that were found       *)
(* (recorder/TestRunnerRecorder.cpp).                                      *)
(*                                                                         *)
(* The recorders of one process share its table of descriptors, and a      *)
(* device is named by its descriptor alone.  Recorders are made and        *)
(* destroyed by one thread, so at most one is being constructed.           *)
(***************************************************************************)
EXTENDS Integers, Sequences, FiniteSets

CONSTANTS
    Recorders,
    Nodes,        \* the character devices /dev/input/event*
    EvBits,       \* by node: the event types the device has
    AbsBits,      \* by node: its absolute axes
    AxisRange,    \* by node: the range of an axis, as <<min, max>>
    MaskBits,     \* the width of m_device_mask, 64 in the code
    AbsMax,       \* VIRTUAL_MULTITOUCH_ABS_X_MAX or .._Y_MAX
    Selections,   \* the sets of device types that clients select
    MaxFds,       \* the limit on the descriptors of the process
    MaxFaults     \* bound on the failing system and library calls

EvTypes == {"SYN", "KEY", "REL", "ABS"}
Axes == {"X", "Y", "MT_SLOT", "MT_TRACKING_ID", "MT_POSITION_X", "MT_POSITION_Y"}

\* The two coordinates: the axes whose events are transformed by the range of x,
\* and those by the range of y.
TransformedAxes == <<{"X", "MT_POSITION_X"}, {"Y", "MT_POSITION_Y"}>>

\* What a range is before it is read, and what EVIOCGABS says of an axis that the
\* device does not have.
NoRange == <<0, 0>>

\* Of the devices it is assumed that the kernel has cleansed their bits, as it
\* does when they are registered (EV_SYN is there, and no axis without EV_ABS),
\* and that the axes of one coordinate have one range, as the kernel sees to
\* where it derives the one from the other.
ASSUME DiscoveryAssumption ==
    /\ EvBits \in [Nodes -> SUBSET EvTypes] /\ AbsBits \in [Nodes -> SUBSET Axes]
    /\ \A n \in Nodes : "SYN" \in EvBits[n] /\ (AbsBits[n] # {} => "ABS" \in EvBits[n])
    /\ \A n \in Nodes, a \in Axes :
          AxisRange[n][a] \in Int \X Int /\ (a \notin AbsBits[n] => AxisRange[n][a] = NoRange)
    /\ \A n \in Nodes, c \in 1..2 : \A a, b \in TransformedAxes[c] \cap AbsBits[n] :
          AxisRange[n][a] = AxisRange[n][b]
    /\ MaskBits \in Nat \ {0}
    /\ AbsMax \in Nat \ {0} /\ MaxFds \in Nat /\ MaxFaults \in Nat

VARIABLES
    pc,         \* by recorder: "none", "scan", "ready" or "gone"
    todo,       \* by recorder: the nodes that readdir() has not returned yet
    devices,    \* by recorder: available_devices
    mask,       \* by recorder: the bits of m_device_mask, counted from 1
    xkb,        \* by recorder: the xkb objects it holds
    fds,        \* the descriptors in use, as [descriptor -> [rec, node]]
    skipped,    \* history, by recorder: the nodes it opened and did not list
    refused,    \* history, by recorder: the nodes it could not open
    chosen,     \* history, by recorder: the nodes that a client chose
    faults      \* the number of calls that have failed

vars == <<pc, todo, devices, mask, xkb, fds, skipped, refused, chosen, faults>>

MtBits == {"MT_SLOT", "MT_TRACKING_ID"}
Xkb == {"context", "keymap", "state"}
TouchTypes == {"TOUCHSCREEN", "MULTITOUCHSCREEN"}

Init ==
    /\ pc = [r \in Recorders |-> "none"]
    /\ todo = [r \in Recorders |-> {}]
    /\ devices = [r \in Recorders |-> <<>>]
    /\ mask = [r \in Recorders |-> 1..MaskBits]
    /\ xkb = [r \in Recorders |-> {}]
    /\ fds = <<>>
    /\ skipped = [r \in Recorders |-> {}]
    /\ refused = [r \in Recorders |-> {}]
    /\ chosen = [r \in Recorders |-> Nodes]
    /\ faults = 0

Fail(n) == faults + n <= MaxFaults /\ faults' = faults + n

-----------------------------------------------------------------------------
(***************************************************************************)
(* The constructor.                                                        *)
(***************************************************************************)
\* opendir() may fail: then there is nothing to read.
Construct(r) ==
    /\ pc[r] = "none" /\ \A q \in Recorders : pc[q] # "scan"
    /\ pc' = [pc EXCEPT ![r] = "scan"]
    /\ \/ todo' = [todo EXCEPT ![r] = Nodes] /\ UNCHANGED faults
       \/ Fail(1) /\ UNCHANGED todo
    /\ UNCHANGED <<devices, mask, xkb, fds, skipped, refused, chosen>>

FreeFds == (1..MaxFds) \ DOMAIN fds

\* What open() may return: the lowest descriptor that is free.
LowestFd == {fd \in FreeFds : \A other \in FreeFds : fd <= other}

\* Mutant of HasAbsXY: EV_REL is asked for in place of EV_KEY.
HasAbsXYRel(ev, abs) == {"SYN", "REL"} \subseteq ev

\* has_abs_x and has_abs_y, which test the bits ABS_X and ABS_Y of the event
\* types, where these are EV_SYN and EV_KEY.
HasAbsXY(ev, abs) == {"SYN", "KEY"} \subseteq ev

\* The type of a device with the event types ev and the axes abs.
TypeOf(ev, abs) ==
    IF "ABS" \in ev
    THEN IF MtBits \subseteq abs THEN "MULTITOUCHSCREEN"
         ELSE IF HasAbsXY(ev, abs) THEN "TOUCHSCREEN" ELSE "skipped"
    ELSE IF "REL" \in ev THEN "MOUSE"
    ELSE IF "KEY" \in ev THEN "KEYBOARD" ELSE "skipped"

\* The axes whose range is read; a mouse is asked for ABS_X, which only a device
\* that is none, and was taken for one after a failing call, has.
RangeAxes(type) ==
    IF type = "MULTITOUCHSCREEN" THEN <<"MT_POSITION_X", "MT_POSITION_Y">>
    ELSE IF type = "TOUCHSCREEN" THEN <<"X", "Y">>
    ELSE IF type = "MOUSE" THEN <<"X">> ELSE <<>>

ScanOpenFails(r, n) ==
    /\ pc[r] = "scan" /\ n \in todo[r]
    /\ \/ FreeFds = {} /\ UNCHANGED faults
       \/ Fail(1)
    /\ todo' = [todo EXCEPT ![r] = @ \ {n}]
    /\ refused' = [refused EXCEPT ![r] = @ \cup {n}]
    /\ UNCHANGED <<pc, devices, mask, xkb, fds, skipped, chosen>>

\* What an ioctl for capabilities leaves in its buffer, which is not initialized;
\* of the axes only two bits are read.
Bits(ok, bits, all) == IF ok THEN {bits} ELSE SUBSET all

Failures(evOk, absOk, lost) ==
    (IF evOk THEN 0 ELSE 1) + (IF absOk THEN 0 ELSE 1) + Cardinality(lost)

\* The node n, open as fd, is of the given type: it is added with the ranges that
\* could be read (the others stay 0), or skipped, and then not closed.
AddDevice(r, n, fd, type, lost) ==
    \/ /\ type = "skipped"
       /\ skipped' = [skipped EXCEPT ![r] = @ \cup {n}]
       /\ UNCHANGED devices
    \/ /\ type # "skipped"
       /\ LET axes == RangeAxes(type)
              range == [a \in 1..2 |-> IF a \in DOMAIN axes \ lost
                                       THEN AxisRange[n][axes[a]] ELSE NoRange]
          IN  devices' = [devices EXCEPT ![r] =
                  Append(@, [fd |-> fd, type |-> type, node |-> n, range |-> range])]
       /\ UNCHANGED skipped

\* One node, from open() to push_back().
Scan(r, n) ==
    /\ pc[r] = "scan" /\ n \in todo[r]
    /\ todo' = [todo EXCEPT ![r] = @ \ {n}]
    /\ \E fd \in LowestFd, evOk, absOk \in BOOLEAN :
       \E ev \in Bits(evOk, EvBits[n], EvTypes), abs \in Bits(absOk, AbsBits[n], MtBits) :
       \E lost \in SUBSET DOMAIN RangeAxes(TypeOf(ev, abs)) :
          /\ fds' = [f \in DOMAIN fds \cup {fd} |->
                        IF f = fd THEN [rec |-> r, node |-> n] ELSE fds[f]]
          /\ Fail(Failures(evOk, absOk, lost))
          /\ AddDevice(r, n, fd, TypeOf(ev, abs), lost)
    /\ UNCHANGED <<pc, mask, xkb, refused, chosen>>

\* Mutant of XkbAfterFailure: what was made before is kept.
XkbAfterFailureKept(made) == made

\* setup_xkb() releases what it has made when a later step fails.
XkbAfterFailure(made) == {}

\* The scan is over, and setup_xkb() makes its objects in their order.
Constructed(r) ==
    /\ pc[r] = "scan" /\ todo[r] = {}
    /\ pc' = [pc EXCEPT ![r] = "ready"]
    /\ \/ /\ xkb' = [xkb EXCEPT ![r] = Xkb]
          /\ UNCHANGED faults
       \/ \E made \in {{}, {"context"}, {"context", "keymap"}} :
             xkb' = [xkb EXCEPT ![r] = XkbAfterFailure(made)] /\ Fail(1)
    /\ UNCHANGED <<todo, devices, mask, fds, skipped, refused, chosen>>

-----------------------------------------------------------------------------
\* The devices of r as listDevices() returns them.
listDevices(r) == {devices[r][i] : i \in DOMAIN devices[r]}

\* Mutant of SelectedBy: a device is selected by its type.
SelectedByType(r, list) ==
    {i \in DOMAIN devices[r] : \E d \in list : devices[r][i].type = d.type}

\* The positions of the devices of r whose descriptor is in the list.
SelectedBy(r, list) ==
    {i \in DOMAIN devices[r] : \E d \in list : devices[r][i].fd = d.fd}

\* The values of m_device_mask for the positions sel.  Past its width 1ULL << i is
\* undefined: the hardware shift wraps, the vectorised one yields 0.
MaskOf(sel) ==
    {(sel \cap 1..MaskBits) \cup {1 + ((i - 1) % MaskBits) : i \in wrap} :
        wrap \in SUBSET {i \in sel : i > MaskBits}}

\* A client lists the devices of the recorder q and sends some of them back for
\* the recorder r.
setDevicesToRecord(r, q) ==
    /\ pc[r] = "ready" /\ pc[q] = "ready" /\ \A o \in Recorders : pc[o] # "scan"
    /\ \E keep \in Selections :
          LET list == {d \in listDevices(q) : d.type \in keep}
          IN  /\ \E bits \in MaskOf(SelectedBy(r, list)) :
                    mask' = [mask EXCEPT ![r] = bits]
              /\ chosen' = [chosen EXCEPT ![r] =
                               IF q = r THEN {d.node : d \in list} ELSE {}]
    /\ UNCHANGED <<pc, todo, devices, xkb, fds, skipped, refused, faults>>

\* Mutant of ToClose: the recorded devices only.
ToCloseRecorded(r) == {devices[r][i].fd : i \in mask[r] \cap DOMAIN devices[r]}

ToClose(r) == {devices[r][i].fd : i \in DOMAIN devices[r]}

\* The destructor releases the xkb objects and closes the listed devices.
Destroy(r) ==
    /\ pc[r] = "ready" /\ \A q \in Recorders : pc[q] # "scan"
    /\ pc' = [pc EXCEPT ![r] = "gone"]
    /\ xkb' = [xkb EXCEPT ![r] = {}]
    /\ fds' = [fd \in DOMAIN fds \ ToClose(r) |-> fds[fd]]
    /\ devices' = [devices EXCEPT ![r] = <<>>] /\ mask' = [mask EXCEPT ![r] = {}]
    /\ refused' = [refused EXCEPT ![r] = {}] /\ chosen' = [chosen EXCEPT ![r] = {}]
    /\ UNCHANGED <<todo, skipped, faults>>

Done == (\A r \in Recorders : pc[r] = "gone") /\ UNCHANGED vars

Next ==
    \/ \E r \in Recorders :
          \/ Construct(r) \/ Constructed(r) \/ Destroy(r)
          \/ \E n \in Nodes : Scan(r, n) \/ ScanOpenFails(r, n)
          \/ \E q \in Recorders : setDevicesToRecord(r, q)
    \/ Done

Spec == Init /\ [][Next]_vars

-----------------------------------------------------------------------------
(***************************************************************************)
(* transform_touch_coordinates(), by what integer division and the two     *)
(* roundings of the double product make of it: where the exact quotient is *)
(* an integer the truncated product may be one less.                       *)
(***************************************************************************)
\* Mutant of Normalized: the minimum is not subtracted.
NormalizedNot(val, range) == val

Normalized(val, range) == val - range[1]

transform_touch_coordinates(val, range) ==
    LET native == range[2] - range[1]
        scaled == Normalized(val, range) * AbsMax
    IN  IF native <= 0 THEN {0}
        ELSE {scaled \div native}
               \cup {q \in {scaled \div native - 1} : scaled > 0 /\ scaled % native = 0}

-----------------------------------------------------------------------------
(***************************************************************************)
(* Properties.                                                             *)
(***************************************************************************)
\* A struct device_info of available_devices.
Device == [fd : 1..MaxFds, type : TouchTypes \cup {"MOUSE", "KEYBOARD"},
           node : Nodes, range : [1..2 -> Int \X Int]]

\* Every variable has its type; the xkb objects of a recorder are there all
\* together or not at all, and only while it is in use.
TypeOK ==
    /\ pc \in [Recorders -> {"none", "scan", "ready", "gone"}]
    /\ todo \in [Recorders -> SUBSET Nodes] /\ skipped \in [Recorders -> SUBSET Nodes]
    /\ refused \in [Recorders -> SUBSET Nodes] /\ chosen \in [Recorders -> SUBSET Nodes]
    /\ devices \in [Recorders -> Seq(Device)]
    /\ mask \in [Recorders -> SUBSET (1..MaskBits)]
    /\ xkb \in [Recorders -> {{}, Xkb}]
    /\ \A r \in Recorders :
          /\ pc[r] # "ready" => xkb[r] = {}
          /\ \A i \in DOMAIN devices[r] : devices[r][i].node \notin todo[r]
    /\ DOMAIN fds \subseteq 1..MaxFds
    /\ fds \in [DOMAIN fds -> [rec : Recorders, node : Nodes]]
    /\ faults \in 0..MaxFaults

\* The devices that a recorder selects are those the client picked from its list,
\* no more and no fewer, and a list of another recorder selects none: the
\* descriptor, with which everything else is lost on the way through the
\* client, is enough to name a device for as long as its recorder lives. With
\* more devices than the mask has bits, those within its width that were picked
\* are selected all the same; others may be, by accident.
SelectionExact ==
    \A r \in Recorders :
        pc[r] = "ready" =>
            LET picked == {i \in DOMAIN devices[r] : devices[r][i].node \in chosen[r]}
            IN  /\ picked \cap 1..MaskBits \subseteq mask[r]
                /\ Len(devices[r]) <= MaskBits => mask[r] \cap DOMAIN devices[r] = picked

\* What is left open by a destroyed recorder is a device it had skipped: the
\* leak grows by at most one descriptor for each of these and recorder.
LeaksOnlySkipped ==
    \A fd \in DOMAIN fds :
        LET r == fds[fd].rec
        IN  /\ pc[r] = "gone" => fds[fd].node \in skipped[r]
            /\ \A other \in DOMAIN fds \ {fd} : fds[other] # fds[fd]

\* What a device is, by its own bits and not by those that the code tests: a
\* touchscreen has keys (BTN_TOUCH) and a position, of either protocol; a mouse
\* moves relatively. Joysticks and tablets are not told from touchscreens.
HasPosition(abs) ==
    {"X", "Y"} \subseteq abs \/ {"MT_POSITION_X", "MT_POSITION_Y"} \subseteq abs

WhatItIs(n) ==
    IF MtBits \subseteq AbsBits[n] THEN "MULTITOUCHSCREEN"
    ELSE IF "KEY" \in EvBits[n] /\ HasPosition(AbsBits[n]) THEN "TOUCHSCREEN"
    ELSE IF "REL" \in EvBits[n] THEN "MOUSE"
    ELSE IF "KEY" \in EvBits[n] THEN "KEYBOARD" ELSE "skipped"

\* The devices for which it matters that has_abs_x and has_abs_y test the wrong
\* bits: a mouse or a keyboard that has absolute axes too, such as a volume knob.
Misjudged(n) == "ABS" \in EvBits[n] /\ WhatItIs(n) \in {"MOUSE", "KEYBOARD"}

\* A recorder lists every device that it could open once, if it is one to record,
\* and as what it is, touchscreens without ABS_X and ABS_Y included. The bits that
\* the constructor tests mislead it in one case only: a mouse or keyboard with
\* absolute axes is listed as a touchscreen if it has keys, and not at all if it
\* has none.
InputsListedOnce ==
    \A r \in Recorders :
        pc[r] = "ready" /\ faults = 0 =>
            \A n \in Nodes \ refused[r] :
                LET places == {i \in DOMAIN devices[r] : devices[r][i].node = n}
                    type == IF ~Misjudged(n) THEN WhatItIs(n)
                            ELSE IF "KEY" \in EvBits[n] THEN "TOUCHSCREEN" ELSE "skipped"
                IN  IF type = "skipped" THEN places = {}
                    ELSE \E i \in places : places = {i} /\ devices[r][i].type = type

\* Touches between the ends of the true range, transformed by the range that was
\* read, stay within that of the virtual touchscreens; if what was read is true
\* and not empty, both ends are reached, up to the rounding, and the order is kept.
TouchesFit(range, true) ==
    LET at(v) == transform_touch_coordinates(v, range)
    IN  /\ \A v \in true[1]..true[2] : at(v) \subseteq 0..AbsMax
        /\ range = true /\ true[1] < true[2] =>
              /\ at(true[1]) = {0} /\ at(true[2]) \subseteq {AbsMax - 1, AbsMax}
              /\ \A v \in true[1]..(true[2] - 1) :
                    \A p \in at(v), q \in at(v + 1) : p <= q

\* An event of any transformed axis of a listed device, whatever it was listed
\* as, is recorded within the range of the virtual touchscreens, also when its
\* range could not be read, or was not, as the positions of a touchscreen without
\* ABS_X and ABS_Y, and from end to end and in order when it was.
CoordinatesFit ==
    \A r \in Recorders : \A i \in DOMAIN devices[r], c \in 1..2 :
        LET d == devices[r][i]
        IN  \A a \in TransformedAxes[c] \cap AbsBits[d.node] :
                TouchesFit(d.range[c], AxisRange[d.node][a])
================================================================================
