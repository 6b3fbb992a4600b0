------------------------------- MODULE VirtualInput -------------------------------
(***************************************************************************)
(* Remote input: the Send functions of TestRunnerClient                    *)
(* (client/TestRunnerClient.cpp), which narrow their arguments to the      *)
(* types of the schema, the input half of TestRunnerServer                 *)
(* (server/TestRunnerServer.cpp), with its four uinput devices from setup  *)
(* to destruction and the handlers that turn a request into input events,  *)
(* and what the kernel makes of the events.                                *)
(*                                                                         *)
(* Every handler runs to its end on the RPC thread, so a request is one    *)
(* step; what is shared between requests, of one client or of several, is  *)
(* the kernel's state: keys that are down and the current slot.            *)
(*                                                                         *)
(* Abstractions: relative motion has no value; of the event codes only the *)
(* classes that the kernel treats differently are kept.                    *)
(***************************************************************************)
EXTENDS Integers, Sequences, FiniteSetsExt

CONSTANTS
    Slots,        \* the slots of the multi-touch device, 0..4 in the code
    Reports,      \* the lists of MultiTouch entries that clients send
    Keys,         \* the key and button codes that clients send
    Enabled,      \* those enabled on the keyboard (KEY_ESC .. KEY_MAX - 1)
    Buttons,      \* those enabled on the mouse (BTN_LEFT, BTN_RIGHT)
    KeySyms,      \* the keysyms that clients send, known or not
    Keymap,       \* Keymap[level][key]: the keysyms of a key, if m_xkb_keymap
    RawEvents,    \* the passThrough requests that clients send
    MaxFaults     \* bound on the number of failing system calls

ASSUME InputAssumption ==
    /\ Slots \subseteq 0..127 /\ 0 \in Slots
    /\ Reports \subseteq Seq([slot : Int, id : Int, x : Int, y : Int])
    /\ Keys \subseteq Nat /\ Enabled \subseteq Nat \ {0} /\ Buttons \subseteq Nat
    /\ IsFiniteSet(Enabled) /\ IsFiniteSet(Buttons)
    /\ Keymap \in [0..1 -> [Enabled -> SUBSET KeySyms]]
    /\ RawEvents \subseteq
          [dev : Nat, code : {"SYN", "KEY", "REL", "ABS"} \X Nat, val : Int]
    /\ MaxFaults \in Nat

VARIABLES
    phase,      \* 1..4: the device the constructor sets up; then 5, "up"; 6, "down"
    mDeviceFd,  \* [Devices -> {"none", "open", "closed"}]
    created,    \* the devices for which UI_DEV_CREATE succeeded
    caps,       \* the event codes each device supports
    kern,       \* the kernel's state of each device
    faults,     \* the number of system calls that have failed
    asked,      \* history: the enabled keys that requests left pressed
    misfit,     \* history: the devices sent a code that needs more than 16 bits
    lastReport, \* history: the report of the last request, if it had one
    intact      \* history: no raw event and no unlawful report has reached the
                \* multi-touch device

vars == <<phase, mDeviceFd, created, caps, kern, faults, asked, misfit,
          lastReport, intact>>

\* The order of construction and of the indices of mDeviceFd.
DeviceOrder == <<"mouse", "keyboard", "touchscreen", "multi">>
Devices == Range(DeviceOrder)

Up == 5
Down == 6

\* An event code is its type with its number in linux/input-event-codes.h.
Key(c) == <<"KEY", c>>
RelX == <<"REL", 0>>
RelY == <<"REL", 1>>
AbsX == <<"ABS", 0>>
AbsY == <<"ABS", 1>>
MtSlot == <<"ABS", 47>>
MtX == <<"ABS", 53>>
MtY == <<"ABS", 54>>
MtId == <<"ABS", 57>>
SynReport == <<"SYN", 0>>
Touch == Key(330)

\* The codes each setup function enables, of those that a handler sends.
Capabilities ==
    [mouse |-> {RelX, RelY} \cup {Key(b) : b \in Buttons},
     keyboard |-> {Key(c) : c \in Enabled},
     touchscreen |-> {AbsX, AbsY, Touch},
     multi |-> {MtSlot, MtId, MtX, MtY, Touch}]

Idle == [keys |-> {}, slot |-> 0, id |-> [s \in Slots |-> -1],
         x |-> [s \in Slots |-> 0], y |-> [s \in Slots |-> 0]]

\* The contacts of the multi-touch device, as the reader of the device sees them.
Table == INSTANCE TouchTable WITH
    touches <- [s \in Slots |-> [id |-> kern["multi"].id[s],
                                  x |-> kern["multi"].x[s],
                                  y |-> kern["multi"].y[s]]],
    last <- lastReport, intact <- intact /\ faults = 0

Init ==
    /\ phase = 1
    /\ mDeviceFd = [d \in Devices |-> "none"]
    /\ created = {}
    /\ caps = [d \in Devices |-> {}]
    /\ kern = [d \in Devices |-> Idle]
    /\ faults = 0
    /\ asked = [d \in Devices |-> {}] /\ misfit = {}
    /\ lastReport = <<>> /\ intact = TRUE

-----------------------------------------------------------------------------
(***************************************************************************)
(* The constructor's setup_virtual_*() functions.                          *)
(***************************************************************************)
Setup == phase \in DOMAIN DeviceOrder
Current == DeviceOrder[phase]

\* /dev/uinput cannot be opened: the descriptor stays negative.
OpenFails ==
    /\ Setup
    /\ faults < MaxFaults
    /\ faults' = faults + 1
    /\ phase' = phase + 1
    /\ UNCHANGED <<mDeviceFd, created, caps, kern, asked, misfit, lastReport, intact>>

\* Mutant of CreateDevice: the descriptor is kept in a local variable.
CreateDeviceLocalFd ==
    /\ Setup
    /\ caps' = [caps EXCEPT ![Current] = Capabilities[Current]]
    /\ created' = created \cup {Current}
    /\ phase' = phase + 1
    /\ UNCHANGED <<mDeviceFd, faults, kern, asked, misfit, lastReport, intact>>

\* A failing capability ioctl is logged and costs its code only, if it is one
\* of UI_SET_KEYBIT, .._RELBIT and .._ABSBIT, and all codes of its type, if it is
\* UI_SET_EVBIT: the kernel drops events of a type the device does not have.
CreateDevice ==
    /\ Setup
    /\ \E types \in SUBSET {c[1] : c \in Capabilities[Current]},
          codes \in SUBSET Capabilities[Current] :
          /\ faults + Cardinality(types) + Cardinality(codes) <= MaxFaults
          /\ faults' = faults + Cardinality(types) + Cardinality(codes)
          /\ caps' = [caps EXCEPT ![Current] =
                        {c \in Capabilities[Current] \ codes : c[1] \notin types}]
    /\ mDeviceFd' = [mDeviceFd EXCEPT ![Current] = "open"]
    /\ created' = created \cup {Current}
    /\ phase' = phase + 1
    /\ UNCHANGED <<kern, asked, misfit, lastReport, intact>>

\* UI_DEV_SETUP or UI_DEV_CREATE fails: logged, and the descriptor stays open.
CreateFails ==
    /\ Setup
    /\ faults < MaxFaults
    /\ faults' = faults + 1
    /\ mDeviceFd' = [mDeviceFd EXCEPT ![Current] = "open"]
    /\ phase' = phase + 1
    /\ UNCHANGED <<created, caps, kern, asked, misfit, lastReport, intact>>

-----------------------------------------------------------------------------
(***************************************************************************)
(* The kernel: the effect of a request's events on a device.  It handles   *)
(* them one by one, so for each key, and for each axis of each slot, the   *)
(* last event that concerns it wins.  The events stand in a sequence, and  *)
(* sent is the set of the positions of those that reach the device.        *)
(***************************************************************************)
Ev(code, val) == [code |-> code, val |-> val]
Syn == Ev(SynReport, 0)

\* Stands for an event that the conditions of a handler leave out.
NotSent == Ev(<<"NONE", 0>>, 0)

Of(events, sent, code) == {i \in sent : events[i].code = code}

\* What the event at the last of some positions says, if there is one.
Latest(events, places, old) ==
    IF places = {} THEN old ELSE events[Max(places)].val

\* The slot that is current when the event at position n is handled: the last
\* one selected, of those that the device has.
SlotAt(k, events, sent, n) ==
    Latest(events,
           {i \in Of(events, sent, MtSlot) : i < n /\ events[i].val \in Slots},
           k.slot)

\* An axis event is about the slot that is current.
Axis(k, events, sent, code, old) ==
    [s \in Slots |->
        Latest(events,
               {i \in Of(events, sent, code) : SlotAt(k, events, sent, i) = s},
               old[s])]

\* The events that may change the key c.  The kernel keeps the state of a key on
\* autorepeat, which has the value 2.
KeyChanges(events, sent, c) == {i \in Of(events, sent, c) : events[i].val # 2}

\* The positions of the presses, of any value but 0 and 2, that no later event
\* undoes.
Presses(events, sent) ==
    {i \in sent : /\ events[i].code[1] = "KEY" /\ events[i].val \notin {0, 2}
                  /\ \A j \in KeyChanges(events, sent, events[i].code) : j <= i}

KeysAfter(k, events, sent) ==
    {c \in k.keys : KeyChanges(events, sent, c) = {}}
      \cup {events[i].code : i \in Presses(events, sent)}

After(k, events, sent) ==
    [keys |-> KeysAfter(k, events, sent),
     slot |-> SlotAt(k, events, sent, Len(events) + 1),
     id |-> Axis(k, events, sent, MtId, k.id),
     x |-> Axis(k, events, sent, MtX, k.x),
     y |-> Axis(k, events, sent, MtY, k.y)]

\* emit() for each event of a request to device d.  Without a descriptor, or on
\* a device that was never created, every write fails and is logged; otherwise
\* a write may fail, and the kernel drops an unsupported code.
EmitAll(d, events) ==
    IF mDeviceFd[d] # "open" \/ d \notin created
    THEN UNCHANGED <<kern, faults>>
    ELSE \E lost \in SUBSET {i \in DOMAIN events : events[i] # NotSent} :
            /\ faults + Cardinality(lost) <= MaxFaults
            /\ faults' = faults + Cardinality(lost)
            /\ kern' = [kern EXCEPT ![d] =
                  After(@, events, {i \in DOMAIN events \ lost :
                                      events[i].code \in caps[d] \cup {SynReport}})]

-----------------------------------------------------------------------------
(***************************************************************************)
(* The handlers.  Each replies, whatever became of its events.             *)
(***************************************************************************)
Serving == phase = Up

Served == UNCHANGED <<phase, mDeviceFd, created, caps>>

\* A request that is not a multi-touch report.
OtherRequest == Served /\ lastReport' = <<>> /\ UNCHANGED intact

handleMouseMove ==
    /\ Serving
    /\ EmitAll("mouse", <<Ev(RelX, 1), Ev(RelY, 1), Syn>>)
    /\ OtherRequest

handleMouseClick(btn, pressed) ==
    /\ Serving
    /\ EmitAll("mouse", <<Ev(Key(btn), pressed), Syn>>)
    /\ OtherRequest

\* resolve_keysym(): the lowest key that has the keysym at the unshifted level,
\* else the lowest that has it at the shifted one, else 0.
KeysAt(level, sym) == {k \in Enabled : sym \in Keymap[level][k]}

resolve_keysym(sym) ==
    IF KeysAt(0, sym) # {} THEN Min(KeysAt(0, sym))
    ELSE IF KeysAt(1, sym) # {} THEN Min(KeysAt(1, sym)) ELSE 0

KeyEvents(code, pressed) == <<Ev(Key(code), pressed), Syn>>

PressKey(code, pressed) == EmitAll("keyboard", KeyEvents(code, pressed))

\* RAW_CODE: the code is sent as it is.
handleKeyPressRaw(code, pressed) ==
    /\ Serving
    /\ PressKey(code, pressed)
    /\ OtherRequest

\* KEY_SYM and KEY_NAME: nothing is sent for a keysym without a key.
handleKeyPressSym(sym, pressed) ==
    /\ Serving
    /\ resolve_keysym(sym) # 0
    /\ PressKey(resolve_keysym(sym), pressed)
    /\ OtherRequest

\* A coordinate below 0 is not sent.
handleSingleTouch(hasX, hasY, pressed) ==
    /\ Serving
    /\ EmitAll("touchscreen",
               <<IF hasX THEN Ev(AbsX, 0) ELSE NotSent,
                 IF hasY THEN Ev(AbsY, 0) ELSE NotSent,
                 Ev(Touch, pressed), Syn>>)
    /\ OtherRequest

\* The four events of one entry of a multi-touch request.
EntryEvents(t) ==
    <<Ev(MtSlot, t.slot),
      IF t.id # 0 THEN Ev(MtId, t.id) ELSE NotSent,
      IF t.id >= 0 THEN Ev(MtX, t.x) ELSE NotSent,
      IF t.id >= 0 THEN Ev(MtY, t.y) ELSE NotSent>>

\* Those of all entries, in order, and the synchronisation.
ReportEvents(report) ==
    [n \in 1..(4 * Len(report) + 1) |->
        IF n > 4 * Len(report) THEN Syn
        ELSE EntryEvents(report[1 + ((n - 1) \div 4)])[1 + ((n - 1) % 4)]]

handleMultiTouch(report) == Serving /\ EmitAll("multi", ReportEvents(report))

\* Mutant of NarrowCode: 8 bits.
NarrowCodeTo8(n) == n % 256

\* The 16 bits of input_event.code.
NarrowCode(n) == n % 65536
Narrowed(code) == <<code[1], NarrowCode(code[2])>>

\* One event to any device; an index past MAX_DEVICES has descriptor -1.
handlePassThrough(r) ==
    /\ Serving
    /\ IF r.dev \in DOMAIN DeviceOrder
       THEN /\ EmitAll(DeviceOrder[r.dev], <<Ev(Narrowed(r.code), r.val)>>)
            /\ intact' = (intact /\ DeviceOrder[r.dev] # "multi")
       ELSE UNCHANGED <<kern, faults, intact>>
    /\ Served /\ lastReport' = <<>>

-----------------------------------------------------------------------------
(***************************************************************************)
(* The client.  Some Send functions copy their arguments into the request, *)
(* the others narrow them.                                                 *)
(***************************************************************************)
\* Mutant of NarrowId: the tracking id is sent as an int8_t.
NarrowIdTo8(n) == ((n + 128) % 256) - 128

NarrowSlot(n) == ((n + 128) % 256) - 128
NarrowId(n) == ((n + 32768) % 65536) - 32768

\* What the caller of a Send function asks of the key with this code, as it
\* stands in the call: 0 is a release, 2 leaves it as it is.
Ask(d, code, val) ==
    /\ asked' = [asked EXCEPT ![d] =
          IF code \notin Capabilities[d] \/ code[1] # "KEY" \/ val = 2 THEN @
          ELSE IF val = 0 THEN @ \ {code} ELSE @ \cup {code}]
    /\ misfit' = IF code[2] < 65536 THEN misfit ELSE misfit \cup {d}

AskNothing == UNCHANGED <<asked, misfit>>

SendMouseMove == handleMouseMove /\ AskNothing
SendMouseClick(btn, pressed) ==
    handleMouseClick(NarrowCode(btn), pressed) /\ Ask("mouse", Key(btn), pressed)
SendKeyPress(key, pressed) ==
    handleKeyPressRaw(NarrowCode(key), pressed) /\ Ask("keyboard", Key(key), pressed)
SendKeyPressByKeySym(sym, pressed) ==
    handleKeyPressSym(sym, pressed) /\ Ask("keyboard", Key(resolve_keysym(sym)), pressed)
SendSingleTouch(hasX, hasY, pressed) ==
    handleSingleTouch(hasX, hasY, pressed) /\ Ask("touchscreen", Touch, pressed)
SendPassThrough(r) ==
    /\ handlePassThrough(r)
    /\ IF r.dev \in DOMAIN DeviceOrder
       THEN Ask(DeviceOrder[r.dev], r.code, r.val) ELSE AskNothing

SendMultiTouch(report) ==
    /\ handleMultiTouch([i \in DOMAIN report |->
           [report[i] EXCEPT !.slot = NarrowSlot(@), !.id = NarrowId(@)]])
    /\ lastReport' = report
    /\ intact' = (intact /\ Table!Lawful(report))
    /\ Served /\ AskNothing

\* Mutant of ToClose: the devices that could not be created are skipped.
ToCloseCreated == created

\* What the destructor closes.
ToClose == {d \in Devices : mDeviceFd[d] = "open"}

\* The destructor: each open descriptor gets UI_DEV_DESTROY and is closed.
Destroy ==
    /\ Serving
    /\ mDeviceFd' = [d \in Devices |->
                        IF d \in ToClose THEN "closed" ELSE mDeviceFd[d]]
    /\ created' = created \ ToClose
    /\ kern' = [d \in Devices |-> IF d \in ToClose THEN Idle ELSE kern[d]]
    /\ asked' = [d \in Devices |-> {}] /\ lastReport' = <<>>
    /\ phase' = Down
    /\ UNCHANGED <<caps, faults, misfit, intact>>

Done == phase = Down /\ UNCHANGED vars

-----------------------------------------------------------------------------
Next ==
    \/ OpenFails \/ CreateFails \/ CreateDevice
    \/ SendMouseMove
    \/ \E c \in Keys, p \in 0..1 :
          SendMouseClick(c, p) \/ SendKeyPress(c, p)
    \/ \E s \in KeySyms, p \in 0..1 : SendKeyPressByKeySym(s, p)
    \/ \E hx, hy \in BOOLEAN, p \in 0..1 : SendSingleTouch(hx, hy, p)
    \/ \E r \in Reports : SendMultiTouch(r)
    \/ \E r \in RawEvents : SendPassThrough(r)
    \/ Destroy \/ Done

Spec == Init /\ [][Next]_vars

-----------------------------------------------------------------------------
(***************************************************************************)
(* Properties.                                                             *)
(***************************************************************************)
Codes == UNION {Capabilities[d] : d \in Devices}

\* The shape of the state; the kernel's current slot stays one of the device's,
\* also after a request that names a slot it does not have.
TypeOK ==
    /\ phase \in 1..Down
    /\ mDeviceFd \in [Devices -> {"none", "open", "closed"}]
    /\ created \subseteq {d \in Devices : mDeviceFd[d] = "open"}
    /\ \A d \in Devices :
          /\ caps[d] \subseteq Capabilities[d]
          /\ kern[d].keys \subseteq caps[d] /\ asked[d] \subseteq Codes
          /\ kern[d].slot \in Slots
    /\ misfit \subseteq Devices
    /\ faults \in 0..MaxFaults

\* While no system call has failed, the keys and buttons that are down on each
\* device are those whose last call, of whichever Send function and client, was
\* a press, whatever the value of a raw event; the code that counts is the one
\* in the caller's hand, before it is narrowed on the way. The promise ends for
\* a device that was sent a code which does not fit.
KeysAsAsked ==
    faults = 0 => \A d \in Devices \ misfit : kern[d].keys = asked[d]

\* Whatever failed during setup, the destructor leaves no descriptor open and no
\* device in the kernel, hence no key pressed and no finger down.
NothingLeftOpen ==
    phase = Down => /\ created = {}
                    /\ \A d \in Devices : mDeviceFd[d] # "open" /\ kern[d] = Idle

\* As long as clients keep to the limits of the interface (slots that exist, ids
\* of 15 bits or -1, no raw events) and no call fails, a sequence of
\* SendMultiTouch() calls has the effect on the kernel's slots that the table
\* of contacts promises, although the slot that one entry selects outlives its
\* request and ids are narrowed on the way.
TouchRefinement == Table!Spec
===================================================================================
