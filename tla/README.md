# TLA+ models of test_runner

test_runner is a service for automated tests of an embedded Linux system.  A
server, controlled over Cap'n Proto RPC, injects input through four uinput
devices, records the input of the machine's own devices, takes screenshots of the
compositor and passes on the metrics of a health daemon.  This directory holds TLA+ models of it, TLC configurations
that check them on small instances, and TLAPS proofs for every instance.

To check: `tlc -config RecorderContinuous.cfg MCRecorder` (and likewise for the
other configurations), `tlapm RecorderProofs.tla` (and likewise for the other
modules named `...Proofs`).

## The system

| Component | State | Operations | What makes it hard |
|---|---|---|---|
| Recorder (`recorder/TestRunnerRecorder.cpp`) | `m_stop`, start and stop times, device mask, `m_input_buf`, the thread, xkb state, descriptors, files | `Start`, `Stop`, `isActive`, `setDevicesToRecord`, destructor; `Record()` and `processBuffer()` on threads of their own | three threads, two mutexes, members used without either; ESC, the length, `Stop` and a failing `select()` all end a recording |
| Input half of the server (`server/TestRunnerServer.cpp`) | four descriptors; in the kernel: pressed keys, current slot | setup, `handleMouseMove`, `handleMouseClick`, `handleKeyPress`, `handleSingleTouch`, `handleMultiTouch`, `handlePassThrough`, destructor | kernel state outlives a request and is shared by all clients; every system call may fail, and the request is answered all the same |
| Recorder registry of the server (same file) | the snapshot recorder, up to 20 custom recorders | `getSnapshot`, `createCustomRecorder`, `listDevices`, `setDevicesToRecord`, `startCustomRecording`, `stopCustomRecording`, `checkRecorderActive` | `Stop` blocks the only RPC thread; recorders are never removed |
| Device discovery (in the recorder) | the list of devices with descriptors and ranges, the xkb objects; the process's table of descriptors | `findDevices`, `setup_xkb`, `listDevices`, `setDevicesToRecord`, closing | capability bits, calls that fail one by one, descriptors shared and reused by all recorders |
| Screenshot plugin (`plugins/weston_screenshooter`) | per capture: connection, bound globals, outputs, shared memory | `takeScreenshot` | asynchronous compositor, outputs that come and go, seven error paths |
| Health plugin (`plugins/agl_health`) | the daemon's URL | one getter per metric, `setDaemonUrl` | a blocking HTTP request on the RPC thread; documents that are incomplete or are errors |
| RPC client (`client/`, the plugins' clients) | the connection | one call per operation, ten-second timeout | a timed-out call may still be executed; arguments are narrowed |
| Programs (`server/main.cpp`, `recorder/recorder.cpp`), scripts, schemas | - | option parsing, start, stop | the signal is served by the RPC thread |

All RPC handlers run on one thread, so requests never interleave with each other.
What does interleave: a recorder's two threads with the RPC thread, the server with
the compositor, and the effects of successive requests on the kernel's devices.

What makes each part correct: a recording holds what its window promises and
is complete when its path is returned; no thread uses what was destroyed; `Stop`
and the destructor return; the input that arrives is the input that was asked
for; a client's index names its own recorder, and one client's mistake ends the
server only in known ways; a capture releases what it acquired and answers with
the compositor's pixels; a health snapshot is whole or an error.  `PROJECT.json` lists under `hazards` where in the code each of these
could go wrong.

## Modules

| Module | Models |
|---|---|
| `TestRunnerRecorder` | one recorder object: its owner, `Record()`, `processBuffer()`, the kernel's event queues, the clock, the files |
| `RecorderLifecycle` | abstract specification of a recorder: `m_stop`, the thread, the owner's waits; implemented by `TestRunnerRecorder` |
| `TestRunnerService` | the server's recorder registry, `main()` and its signal, and `RPCClient` with the recorder calls; recorders by the operators of `RecorderLifecycle` |
| `DeviceDiscovery` | what the constructors of several recorders find and open, selection of devices, coordinates |
| `VirtualInput` | the client's `Send` functions, the four uinput devices, every input handler, the kernel's side of a device |
| `TouchTable` | abstract specification of the multi-touch interface, implemented by `VirtualInput` |
| `WestonScreenshooter` | `capture()` against a compositor |
| `AglHealth` | the health plugin, its client, and a daemon |
| `Plugins` | `WestonScreenshooter` and `AglHealth` composed on the one RPC thread |
| `RecorderProofs`, `RecorderWindowProofs`, `RecorderLifeProofs` | proofs: types and thread ownership; the rolling window and the files; the refinement of `RecorderLifecycle` and what the owner relies on |
| `ServiceProofs`, `DiscoveryProofs`, `InputProofs` | proofs: the registry and its clients; the lists, descriptors and coordinates; the keys, the devices and the refinement of `TouchTable` |
| `ScreenshooterProofs`, `PluginsProofs` | proofs: `capture()` and the compositor; both plugins on one thread |
| `MCRecorder`, `MCService`, `MCDiscovery`, `MCVirtualInput`, `MCPlugins`, `MCScreenshooter` | instances for TLC |

Operators marked *Mutant of* state a plausible mistake in the definition they
precede; each property is known to fail when its mutant replaces the definition.

### TestRunnerRecorder

The three threads have program counters `ctlPc` (the owner: the RPC thread, or
`main`), `recPc` (`Record()`) and `bufPc` (`processBuffer()`).  A step of a
thread reaches to the next point where another thread can interfere: a critical
section of `stop_mtx` or `buf_mtx`, one access to an unprotected member, one
system call, one join.  Members keep their names.  `Stop` and the destructor are
split at their joins, `setDevicesToRecord` at every bit it sets, `Record()` at its
lock, its thread creation, its reads of the mask, `select()`, each `read()` and
each `push_back`; `processBuffer()` at its wait, its clock reading, its trim, its
unlocked read of `m_stop_time`, and its dump.

What the code leaves undefined is a choice: a shift past the width of the mask
gives one of the values compilers produce, and a use of the released xkb state
crashes the process (`proc = "crashed"`).  Assigning to a joinable thread
terminates it (`proc = "terminated"`).  `joinable` and `fds` tell whether
`m_recorder_thread` must be joined and whether the descriptors are open.  Two
history variables serve the properties only: `session` counts recordings,
`captured` keeps every record ever pushed.

Data are reduced to what the properties tell apart: an event is ESC or any other
event; a record is its date, its device and its recording; a path is the second
in its name.  The length is the code's `uint32_t` product.

`CallerWaits` selects the owner's discipline.  FALSE: any call at any time.
TRUE: the convention the tests follow (wait for `isActive()` before `Stop()`,
choose devices between recordings).

### RecorderLifecycle

The life of a recording without times, records and files: a flag and a thread that
is absent, started but not yet begun, running, or ended and not yet joined.
`Record()` begins by clearing `m_stop`, whatever was asked before; that is all a
user of a recorder has to fear, and it is kept.  `ImplementsLife` maps the recorder's program
counters to it; `ImplementsFairLife` adds that a started thread begins, a stopped
one ends and the owner's waits return, for an owner that follows the convention.

### TestRunnerService

One RPC thread serves the requests of each connection in order.  A handler is one
step, except that `Stop()` waits: the thread is then at `join` until the recording
thread has ended.  A recorder is a `life` in a slot (slot -1 is the snapshot
recorder), so what a handler does to it is the operator that `RecorderLifecycle`
defines for the call.  `setDevicesToRecord`, `listDevices` and `checkRecorderActive`
have no effect on a thread and are one operation here.

A client has at most one call outstanding.  The call ends with the answer, with a
timeout (the request stays with the server, and will be executed), or with
DISCONNECTED (only then does `RPCClient` drop the connection; the next call needs
`Connect()`).  The network may drop the connection of a client in `Remote`
together with any part of what the server has not read.  Old connections are served to
their end: `epoch` numbers them.  `signal_handler` only sets a flag, which the RPC
thread sees when it is idle; then the recorders are destroyed in order and
the devices are closed.

History: `known` (the indices a client was given), `owner`, `gaveUp`, `starts`.
`StopLost` names the one exception in `RequestsServed` and `SignalEndsServer`: the
RPC thread waits for a thread that was asked to stop before it had begun and that
overwrote the request (`TestRunnerRecorder.cpp:324`).  The tests know the race
(`test_recorder.cpp:815`), `getSnapshot` does not wait it out; SIGTERM has no effect
from then on.  The same loss makes a destructor wait forever.

A failing `select()` ends the thread of a fixed-length recording with `m_stop` unset.
In a continuous one `Record()` goes on to join `bufferThread`, which waits for
`m_stop`: its thread stays.  The snapshot recorder is continuous, so `ThreadFails`
excludes it; a custom recorder may be of either kind.

### DeviceDiscovery

Two recorders are constructed, used and destroyed by one thread over one table of
descriptors.  A node is opened with the lowest free descriptor; the type follows the code's
tests on capability bits, including the one that looks for `ABS_X` and `ABS_Y`
among the event types.  A failing `EVIOCGBIT` leaves any bits in the buffer, a failing
`EVIOCGABS` a range of 0.  `setDevicesToRecord` takes a list that a client got from
this or from another recorder; the mask has `MaskBits` bits, and a shift past them is a
choice (`MaskOf`).  `transform_touch_coordinates` gives the set of results that two
rounded double operations and a truncation can have.

`WhatItIs` says what a device is by its own bits, independently of the code's tests,
and `InputsListedOnce` compares: the tests agree with it but for a mouse or keyboard that also
has absolute axes, such as a volume knob, which is listed as TOUCHSCREEN (or not at
all, without keys).  A panel that has `ABS_MT_POSITION_X` and neither slots nor
`ABS_X` is listed as what it is, but the range of `ABS_X`, which it lacks, is read for
it, and its touches are recorded at 0; `CoordinatesFit` says only that they are on
the screen.  Joysticks and tablets are not told from touchscreens.

Of the kernel it is assumed that every device has `EV_SYN`, that one with axes has
`EV_ABS`, that `EVIOCGABS` gives zeros for an axis that is not there, and that
`ABS_X` and `ABS_MT_POSITION_X` of one device have one range, likewise for y.

### VirtualInput and TouchTable

A handler runs to its end on the RPC thread and is one action; it computes the
events it emits, and `After`, external, is what the input core makes of them: keys,
the current slot, the slots' contacts.  The kernel handles events one by one, so for
each key, and for each axis of each slot, the last event about it wins; `After` says
so directly, in terms of the positions of the events that were not lost, and an
entry that the handler's conditions leave out keeps its position as `NotSent`.  A key event of value 2
(autorepeat, which recordings contain) leaves a key as it is, 0 releases it, other
values press it.  The `Send` functions come before
it, with the narrowing of slots to 8 bits and of ids and codes to 16.  A write to a
descriptor may fail (bounded by `MaxFaults`), a write to a device that was not
created always does.  Setup follows the constructor's order; a failed `open`
leaves the descriptor at -1, a failed create leaves it open; a failing `UI_SET_EVBIT`
costs all codes of its type, another capability call its own code.  A failing
`UI_ABS_SETUP` or `UI_SET_PROPBIT`, which costs the reader a coordinate range or a
hint, is left out.

`asked` is what the caller's arguments ask for, before they are narrowed; of a keysym, by
definition, the key that `resolve_keysym()` finds.  A code of more than 16 bits becomes
another one on the way: the device is then in `misfit`, and `KeysAsAsked` promises
nothing more for it.

`TouchTable` is what a client relies on: each report updates a table with one
contact per slot, and the last entry for a slot wins.  The implementation
emits entries relative to the kernel's current slot, which one request leaves to
the next; `TouchRefinement` says that this makes no difference.  The abstract
module's `last` and the history variable `lastReport` tie each concrete call to
the abstract report of the same entries: a step may not pass for another report.
Other requests leave the table alone (`Other`), the destructor empties it (`Reset`).
The promise ends (`intact`) with a slot the device does not have, an id that does
not fit, a raw event to the device, or a call that fails.

### WestonScreenshooter

`capture()` is a sequence of steps with one action per event handler and per
error path.  The compositor, external, reads requests and sends events through
two FIFO streams; it may lack any global, gain an output at any time and
drop the connection at any time.  The shared memory is blank until the compositor
writes it.  `held` is a set: a compositor that announces `wl_shm` or the screenshooter
twice, whose first proxy the code loses, is left out.

### AglHealth and Plugins

Requests queue up for the RPC thread.  All but `setDaemonUrl` fetch a document with
libcurl, which gives up after five seconds; the client gives up after ten.  A
document is reduced to whether it parses, its shape, which of the keys that code
asks for it has, which values have a wrong type, and the HTTP status, which the code
never reads; what `fill_*` makes of it is an exception, the document's values or
the defaults.  The fields inside a section, and the padding of the scheduler's
histogram, are not told apart.

`Plugins` lets both plugins share the thread: no health request is served
during a capture, and a capture begins only between health requests.

## Runs

| Run | Question | Result |
|---|---|---|
| `recorder_continuous` | continuous recorder, two recordings, any order of calls: is the window kept, is every file in its window and its header, is the returned file the right and complete one, do threads stay inside what they use; is this the abstract life? | holds |
| `recorder_fixed` | fixed length, two devices, a one-bit mask, a failing `select()`: does the recording end, even if a stop request was overwritten; by how much is the length exceeded; is the recorder inactive when it has ended? | holds |
| `recorder_convention` | does the calling convention suffice for `Stop` to return, for the abstract life's liveness, and for the recording to read the devices asked for? | holds |
| `service` | does an index name its client's recorder through timeouts, late replies and reconnections; who uses up the registry; is the snapshot recorder always there; what ends the server; are requests and the signal served? | holds, with these limits: a creation that timed out leaves a recorder nobody knows; a repeated `startCustomRecording` can end the server; a lost stop blocks everything |
| `discovery` | is every device listed once and as what it is, is the selection exact, what leaks, do coordinates fit? | holds, with these limits: a keyboard or mouse with absolute axes is listed as a touchscreen; each recorder leaks one descriptor per skipped device; past the width of the mask devices are selected by accident |
| `input` | do requests of every kind leave the keys that were asked for; do multi-touch calls implement the table of contacts; do failing system calls leave anything behind after the destructor? | holds; a raw code of more than 16 bits acts on another key |
| `plugins` | is everything released on every path of a capture, is the right output shot; is a health snapshot complete and of the current daemon; are both plugins' requests answered? | holds |
| `recorder_start_twice` | is a second `Start()` harmless? | no: `std::terminate` when the recording ended by itself |
| `recorder_destroy_xkb` | does the destructor join cleanly? | no: xkb state is released before the join |
| `recorder_window` | does the file hold the whole window? | no: a trim by a later time has already cut it |
| `screenshooter_blank` | is a success a screenshot? | no: blank memory when the connection ends |
| `plugins_http_errors` | does an answer with an HTTP error throw? | no: where no key is required (memory, security, processes) an error in JSON is a snapshot of defaults |

The last five are disagreements between the code and what its tests, comments
or documents say; `findings` in `PROJECT.json` quotes them.

### Bounds

Recorder: one tick is half a second in the runs about the window and a second
elsewhere; the window is one second, so that records leave it before the clock
stops (`MaxTime`); two recordings let one's leftovers reach the next; three
events exceed `FileMaxLines = 2`; a mask of one bit with two devices reaches the
undefined shift.  No recording starts after `MaxStart`, so each can run to its end
(`BoundsAssumption`).  `wait_for` is taken to time out once the clock has stopped.
Service: three calls of two clients are enough for a create, a start and a
repetition, or a create of each client and a call on the first index; room for two recorders
is filled by two of them; one fault is a lost connection or a failing `select()`; the index 0
is out of range until a recorder exists.
Discovery: a mouse, a multi-touch screen and a panel with ranges that do not begin at 0, a
keyboard with a volume knob and a lid switch, which is skipped, for two recorders and six
descriptors, so that the second recorder finds the table full and reuses what the first
one closed; masks of three bits, so that the fourth device is past their width; one fault
reaches every failing call; the virtual range 21 is a multiple of one native range and
not of the other, so that exact and truncated quotients both occur.
Input: two slots are enough for one slot's selection to leak into the other's
report, two entries for a report to switch slots or to address one slot twice; the
reports hold an id of more than 8 bits, one that becomes -1 in 16 bits and a missing
slot; the raw events one code of more than 16 bits, an autorepeat and a press of another value; one fault breaks any single step of setup or of a request.
Plugins: two requests in all, so that each kind can wait for the other and for its
own; two captures show that the first leaves nothing to the second; one hotplug
suffices to break an assumption about the outputs known.

### Fairness

Recorder: weak fairness of each thread's own steps (the scheduler runs a thread
that can run) and of time.  No fairness for the owner's calls, for device
events, for faults or for spurious wakeups: nothing obliges those to happen.
Screenshots: weak fairness of the RPC thread, and of a compositor serving a
client it keeps connected.  Without the latter `capture()`, which has no timeout,
does not return; the model states it as an assumption on the compositor.
Service: weak fairness of the RPC thread taken as one (it goes on with some request, or with the
signal, whenever it can) and of each recording thread's beginning and, once it is
stopped, ending, which is what `ImplementsFairLife` says of a recorder.  No fairness for
calls, timers, ESC or faults.  Health: weak fairness of the RPC thread, where libcurl's own timeout
bounds the wait for the daemon.

Deadlock is checked in every run; `Done` and `Terminated` are the legitimate ends.

## Proofs

Every safety property, action property and refinement without fairness that a run
checks is also proved, for every value of the constants: any number of devices,
clients, recorders, slots, entries of a report, documents, calls and faults.  The
bounds that keep TLC's runs finite are arbitrary natural numbers in the proofs.
Each `...Proofs` module begins with the argument; in short:

Recorder (from `RecorderAssumption`: natural numbers, a non-empty mask, a
non-zero second)

* `TypeCorrect`.  `TypeOK` is inductive.  It is a conjunction of
  one part per group of variables, and a step keeps the parts whose variables
  it leaves alone (`...TypeStable`); one lemma per action does the rest.
* `ThreadOwnershipCorrect`.  Inductive invariant `ThreadInv`: `ThreadOwnership`, and
  descriptors are closed only when the object is gone.  Without the second part a
  `Start()` on closed descriptors would be a counterexample to induction.
* `LiveWindowCorrect`.  Needs `ClockInv`: no time that a
  thread has read lies in the future.  A trim drops records older than a cutoff
  computed from such a time, hence older than the cutoff of now; and dropping the
  head of a suffix leaves a suffix.
* `DumpInWindowCorrect`.  The final trim stops at the
  first record inside the window, so the rest is inside only because the buffer is
  sorted.  `BufferInv` says so, together with the record that `Record()` has
  dated but not yet pushed; `DiskInv` carries it over to the files and to the
  records a fixed-length recording appends.
* `HeaderCorrect`.  `SessionInv`: the buffer holds records of earlier recordings, but
  none of the current one from before its start, so the header, which is the start or a
  cutoff before the first record, is not after any record of its own recording.
* `OvershootCorrect`.  A counting argument: `OvershootInv` bounds the records that are late already
  plus the devices that this turn of the loop still has to read.
* `LifeImplemented`, the refinement of `RecorderLifecycle`.  Every step of the three threads is a
  step of the abstract life under the mapping, or leaves it alone.  Needs `LifeInv`:
  `ThreadInv`, and that the xkb state is released by the destructor only, and that who
  waits in a join has a thread to wait for.  It justifies the use of the
  abstract operators in `TestRunnerService` for every instance.
* `InactiveCorrect`, `FreshFileCorrect` (an action property: the step in which the join
  returns) and `DevicesCorrect`.  The last one has two hypotheses, the calling convention
  (`CallerWaits`) and `NumDevices <= MaskBits`: without the first `Record()` may read a
  mask that is being written, without the second the shift is undefined.

Registry and clients (`ServiceAssumption`)

* `ServiceTypeCorrect`, part by part as for the recorder.
* `IndicesCorrect` needs that request numbers are unique and that a queued request is
  its client's own (`UniqueIds`, `RequestInv`).
* `OrphansCorrect` counts: the recorders a client does not know and its creations still
  queued are no more than the calls it gave up and the one it waits for (`OrphanInv`).
* `TerminationCorrect`, `SnapshotCorrect`, `EndCorrect` share `CoreInv`: who has a thread was
  started, between requests the snapshot recorder has a thread, and the destructor ends
  the recorders in order.

Device discovery (`DiscoveryAssumption`: integer ranges, and the facts about the kernel
named above)

* `DiscoveryTypeCorrect`, `SelectionCorrect`, `LeaksCorrect`: a recorder that is not in use
  lists nothing (`UnusedInv`), and a descriptor in use belongs to one node of one
  recorder (`FdInv`, `OpenInv`), which is why descriptors can name devices.  `MaskOfType`
  says what a selection makes of the mask: exact within its width, and beyond it only that
  nothing chosen within it is lost.
* `ListingCorrect`: until a call fails, the lists are what the code's tests make of the
  nodes (`ListedInv`); `Classified` compares these tests with `WhatItIs` for all bits.
* `CoordinatesCorrect` bounds the two roundings of `transform_touch_coordinates()` for every
  range and every position; the range in use is the device's own or empty (`RangeInv`).

Input (`InputAssumption`: slots within 0..127, which is what an `int8_t` can name)

* `InputTypeCorrect`, `KeysCorrect`, `NothingLeftOpenCorrect` rest on `InputInv`: only a created device
  has a descriptor and a state, and without a failure every device is complete.  That the
  kernel's keys follow the caller's arguments needs that narrowing leaves a code of 16 bits
  alone, and says nothing of devices in `misfit`.
* `TouchCorrect`, the refinement of `TouchTable`.  The events of a report stand at
  fixed places, four to an entry; the slot current at the last three is that which
  the first selects, and the last place that concerns an axis of a slot is that of
  the last entry that does.  Narrowing is the identity on what the interface allows.

Plugins (`ScreenshooterAssumption`, `HealthAssumption`)

* `NothingLeaksCorrect`, `PixelsCorrect`, `DimensionsCorrect`, `PreferredCorrect` share `ScreenInv`: what is
  held at each step, which message is in which stream and in what order, and that no
  announcement, binding or mode is lost while the compositor is steady.
* `SharedThreadImplements`: the composition implements the screenshot plugin's own
  specification, so these four hold of the server with both plugins
  (`SharedCapturesCorrect`).
* `TimeoutsCorrect`, `CompleteCorrect`, `DaemonCorrect` rest on `HealthInv`.

Only model-checked: the properties that need fairness, which are outside the prover's
reach (`FixedLengthEnds`, `StopCompletes`, `ImplementsFairLife`, `RequestsServed`,
`SignalEndsServer`, `CaptureReturns`, `HealthAnswered`).  The inductive
invariants of the proofs also hold on the runs' instances when TLC checks them.

## Not modelled

libinput's acceleration profiles (an optional build; they are settings of the
recorder's own libinput context), the formatting of dates, the programs' option parsing, the
stand-alone recorder program (a straight line of calls that the recorder's model
allows), the encoding of a screenshot's pixels.  Schemas, scripts, mocks and vendored
libraries have no logic of their own here; Cap'n Proto, libcurl, libwayland, the
compositor, the daemon and the kernel appear as external actions.  The models assume that
the clock does not run backwards and that threads and files can be created.
`length * 1000` wraps in the model as in the code, but nothing says what a wrapped
length should do.

`TestRunnerService` uses recorders through their abstract life, hence does not see
device masks and files; `DeviceDiscovery` sees neither threads nor clients' connections.

## Plan

1. Done: the recorder with its abstract life; the service with clients, registry and
   signal; device discovery; the input devices with the client and their abstract
   specification; the plugins; proofs of all safety properties and of both refinements.
2. Left: safety facts behind the liveness properties that could be proved by
   themselves, such as that a request once read is answered before the next is taken.
