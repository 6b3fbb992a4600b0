-------------------------- MODULE WestonScreenshooter --------------------------
(***************************************************************************)
(* The screenshot plugin (plugins/weston_screenshooter): one capture() at  *)
(* a time, on the RPC thread, against a Wayland compositor on the other    *)
(* end of two FIFO streams.  The compositor and libwayland are external.   *)
(*                                                                         *)
(* Abstractions: a picture is "blank" (the fresh shared memory) or         *)
(* "pixels" (written by the compositor); an output's mode is known or not. *)
(***************************************************************************)
EXTENDS Integers, Sequences, FiniteSets, Functions

CONSTANTS
    Outputs,         \* every wl_output there can be
    Preferred,       \* the outputs whose model is "DP-1"
    Announcements,   \* the lists of globals a compositor may announce
    MaxCaptures,     \* bound on the number of captures
    MaxHotplugs      \* bound on the number of outputs plugged in meanwhile

ASSUME ScreenshooterAssumption ==
    /\ Preferred \subseteq Outputs
    /\ {"shooter", "shm"} \cap Outputs = {}
    /\ Announcements \subseteq Seq(Outputs \cup {"shooter", "shm"})
    /\ MaxCaptures \in Nat /\ MaxHotplugs \in Nat

VARIABLES
    pc,          \* where capture() is
    broken,      \* the connection is lost
    toServer, toClient,
    globals,     \* the compositor's globals
    outputs,     \* s.outputs, in the order they were bound
    models,      \* the outputs whose geometry event has arrived
    modes,       \* the outputs whose current mode has arrived
    held,        \* what capture() has acquired and not yet released
    finished,    \* s.finished
    memory,      \* the shared memory
    target,      \* the output that is shot
    result,      \* the error, "ok", or "none" while there is no answer yet
    image,       \* s.result.imageData
    captures, hotplugs

streamVars == <<toServer, toClient>>
infoVars == <<outputs, models, modes, finished>>
resultVars == <<target, result, image>>
boundVars == <<captures, hotplugs>>

vars == <<pc, broken, toServer, toClient, globals, outputs, models, modes, held,
          finished, memory, target, result, image, captures, hotplugs>>

None == "none"
Msg(t, x) == [type |-> t, arg |-> x]

Init ==
    /\ pc = "idle" /\ broken = FALSE
    /\ toServer = <<>> /\ toClient = <<>>
    /\ globals \in Announcements
    /\ outputs = <<>> /\ models = {} /\ modes = {} /\ finished = FALSE
    /\ held = {} /\ memory = None
    /\ target = None /\ result = None /\ image = None
    /\ captures = 0 /\ hotplugs = 0

-----------------------------------------------------------------------------
(***************************************************************************)
(* capture().                                                              *)
(***************************************************************************)

\* wl_display_connect() fails.
ConnectFails ==
    /\ pc = "idle" /\ captures < MaxCaptures
    /\ captures' = captures + 1
    /\ result' = "connect" /\ image' = None /\ target' = None
    /\ UNCHANGED <<pc, broken, globals, held, memory, hotplugs>>
    /\ UNCHANGED <<streamVars, infoVars>>

\* A new connection and a fresh CaptureState; the registry is requested and the
\* first roundtrip begins.
Connect ==
    /\ pc = "idle" /\ captures < MaxCaptures
    /\ captures' = captures + 1
    /\ broken' = FALSE
    /\ toServer' = <<Msg("get_registry", None), Msg("sync", None)>>
    /\ toClient' = <<>>
    /\ outputs' = <<>> /\ models' = {} /\ modes' = {} /\ finished' = FALSE
    /\ held' = {"display", "registry"}
    /\ result' = None /\ image' = None /\ target' = None
    /\ pc' = "round1"
    /\ UNCHANGED <<globals, memory, hotplugs>>

Dispatching == pc \in {"round1", "round2", "shoot"} /\ ~broken

\* The next event is of type t.
Dispatch(t) ==
    /\ Dispatching
    /\ toClient # <<>> /\ Head(toClient).type = t
    /\ toClient' = Tail(toClient)

\* on_registry_global(): every global of interest is bound.
OnGlobal ==
    /\ Dispatch("global")
    /\ LET g == Head(toClient).arg
       IN  /\ toServer' = Append(toServer, Msg("bind", g))
           /\ held' = held \cup {g}
           /\ outputs' = IF g \in Outputs THEN Append(outputs, g) ELSE outputs
    /\ UNCHANGED <<pc, broken, globals, models, modes, finished, memory>>
    /\ UNCHANGED <<resultVars, boundVars>>

OnGeometry ==
    /\ Dispatch("geometry")
    /\ models' = models \cup {Head(toClient).arg}
    /\ UNCHANGED <<pc, broken, toServer, globals, outputs, modes, finished>>
    /\ UNCHANGED <<held, memory, resultVars, boundVars>>

OnMode ==
    /\ Dispatch("mode")
    /\ modes' = modes \cup {Head(toClient).arg}
    /\ UNCHANGED <<pc, broken, toServer, globals, outputs, models, finished>>
    /\ UNCHANGED <<held, memory, resultVars, boundVars>>

OnShootDone ==
    /\ Dispatch("done")
    /\ finished' = TRUE
    /\ UNCHANGED <<pc, broken, toServer, globals, outputs, models, modes>>
    /\ UNCHANGED <<held, memory, resultVars, boundVars>>

\* Mutant of AfterFirstRoundtrip: the globals are bound, the modes not awaited.
OneRoundtrip == pc' = "select" /\ UNCHANGED toServer

\* After the roundtrip that binds the globals comes the one that flushes the
\* output events.
AfterFirstRoundtrip ==
    /\ pc' = "round2"
    /\ toServer' = Append(toServer, Msg("sync", None))

\* A wl_display_roundtrip() returns.
OnSync ==
    /\ Dispatch("callback")
    /\ \/ pc = "round1" /\ AfterFirstRoundtrip
       \/ pc = "round2" /\ pc' = "select" /\ UNCHANGED toServer
    /\ UNCHANGED <<broken, globals, held, memory>>
    /\ UNCHANGED <<infoVars, resultVars, boundVars>>

\* On a lost connection a roundtrip returns -1, which is ignored.
RoundtripFails ==
    /\ pc \in {"round1", "round2"} /\ broken
    /\ pc' = IF pc = "round1" THEN "round2" ELSE "select"
    /\ UNCHANGED <<broken, globals, held, memory>>
    /\ UNCHANGED <<streamVars, infoVars, resultVars, boundVars>>

\* The places of the outputs that are known to be DP-1.
KnownPreferred == {i \in DOMAIN outputs : outputs[i] \in models \cap Preferred}

\* Mutant of Selected: always the first output.
FirstOutput == IF outputs # <<>> THEN {outputs[1]} ELSE {}

\* The output that is selected: the first that is known to be DP-1, or the first
\* of all.
Selected ==
    LET places == IF KnownPreferred # {} THEN KnownPreferred ELSE DOMAIN outputs
    IN  {outputs[i] : i \in {j \in places : \A k \in places : j <= k}}

\* The errors found between the roundtrips and the allocation.
SelectError ==
    IF "shooter" \notin held THEN "no_shooter"
    ELSE IF "shm" \notin held THEN "no_shm"
    ELSE IF Selected = {} THEN "no_output"
    ELSE IF Selected \cap modes = {} THEN "no_dimensions"
    ELSE None

SelectFails ==
    /\ pc = "select" /\ SelectError # None
    /\ result' = SelectError
    /\ pc' = "cleanup"
    /\ UNCHANGED <<broken, globals, held, memory, target, image>>
    /\ UNCHANGED <<streamVars, infoVars, boundVars>>

Select ==
    /\ pc = "select" /\ SelectError = None
    /\ target' \in Selected
    /\ pc' = "memfd"
    /\ UNCHANGED <<broken, globals, held, memory, result, image>>
    /\ UNCHANGED <<streamVars, infoVars, boundVars>>

\* memfd_create().
CreateMemfd ==
    /\ pc = "memfd"
    /\ \/ /\ held' = held \cup {"fd"} /\ pc' = "map" /\ UNCHANGED result
       \/ /\ result' = "memfd" /\ pc' = "cleanup" /\ UNCHANGED held
    /\ UNCHANGED <<broken, globals, memory, target, image>>
    /\ UNCHANGED <<streamVars, infoVars, boundVars>>

\* Mutant of ReleaseOnError: the error path forgets close(fd).
KeepFd == held

\* What an ftruncate() or mmap() error leaves acquired.
ReleaseOnError == held \ {"fd"}

\* ftruncate() or mmap() fails.
MapFails ==
    /\ pc = "map"
    /\ result' \in {"ftruncate", "mmap"}
    /\ held' = ReleaseOnError
    /\ pc' = "cleanup"
    /\ UNCHANGED <<broken, globals, memory, target, image>>
    /\ UNCHANGED <<streamVars, infoVars, boundVars>>

\* ftruncate() and mmap() succeed; the buffer is created, the descriptor
\* closed, and the shoot request sent.
Shoot ==
    /\ pc = "map"
    /\ held' = (held \ {"fd"}) \cup {"mapping", "buffer"}
    /\ memory' = "blank"
    /\ toServer' = Append(toServer, Msg("shoot", target))
    /\ pc' = "shoot"
    /\ UNCHANGED <<broken, globals, toClient>>
    /\ UNCHANGED <<infoVars, resultVars, boundVars>>

\* Mutant of LoopEnds: the answer is taken as soon as the request is sent.
LoopSkipped == TRUE

\* Mutant of LoopEnds: a lost connection is not noticed.
LoopIgnoresError == finished

\* while (!s.finished && wl_display_dispatch() != -1) ends.
LoopEnds == finished \/ broken

\* The pixels are copied, whatever ended the loop.
Copy ==
    /\ pc = "shoot" /\ LoopEnds
    /\ image' = memory /\ result' = "ok"
    /\ held' = held \ {"mapping", "buffer"} /\ memory' = None
    /\ pc' = "cleanup"
    /\ UNCHANGED <<broken, globals, target>>
    /\ UNCHANGED <<streamVars, infoVars, boundVars>>

\* Everything bound is destroyed, and takeScreenshot() replies.
Cleanup ==
    /\ pc = "cleanup"
    /\ held' = held \ (Range(outputs) \cup {"shm", "shooter", "registry", "display"})
    /\ toServer' = <<>> /\ toClient' = <<>>
    /\ pc' = "idle"
    /\ UNCHANGED <<broken, globals, memory>>
    /\ UNCHANGED <<infoVars, resultVars, boundVars>>

-----------------------------------------------------------------------------
(***************************************************************************)
(* The compositor.                                                         *)
(***************************************************************************)
Connected == pc # "idle" /\ ~broken

Request(t) ==
    /\ Connected
    /\ toServer # <<>> /\ Head(toServer).type = t
    /\ toServer' = Tail(toServer)

Answer(events) == toClient' = toClient \o events

ServeRegistry ==
    /\ Request("get_registry")
    /\ Answer([i \in DOMAIN globals |-> Msg("global", globals[i])])
    /\ UNCHANGED <<pc, broken, globals, held, memory>>
    /\ UNCHANGED <<infoVars, resultVars, boundVars>>

ServeBind ==
    /\ Request("bind")
    /\ LET g == Head(toServer).arg
       IN  Answer(IF g \in Outputs
                  THEN <<Msg("geometry", g), Msg("mode", g)>> ELSE <<>>)
    /\ UNCHANGED <<pc, broken, globals, held, memory>>
    /\ UNCHANGED <<infoVars, resultVars, boundVars>>

ServeSync ==
    /\ Request("sync")
    /\ Answer(<<Msg("callback", None)>>)
    /\ UNCHANGED <<pc, broken, globals, held, memory>>
    /\ UNCHANGED <<infoVars, resultVars, boundVars>>

ServeShoot ==
    /\ Request("shoot")
    /\ memory' = "pixels"
    /\ Answer(<<Msg("done", None)>>)
    /\ UNCHANGED <<pc, broken, globals, held>>
    /\ UNCHANGED <<infoVars, resultVars, boundVars>>

\* An output is plugged in and announced.
Hotplug(o) ==
    /\ Connected /\ hotplugs < MaxHotplugs
    /\ o \notin Range(globals)
    /\ \A i \in DOMAIN toServer : toServer[i].type # "get_registry"
    /\ globals' = Append(globals, o)
    /\ Answer(<<Msg("global", o)>>)
    /\ hotplugs' = hotplugs + 1
    /\ UNCHANGED <<pc, broken, toServer, held, memory, captures>>
    /\ UNCHANGED <<infoVars, resultVars>>

\* The compositor refuses the client or dies: what was not dispatched is lost.
Disconnect ==
    /\ Connected
    /\ broken' = TRUE
    /\ toServer' = <<>> /\ toClient' = <<>>
    /\ UNCHANGED <<pc, globals, held, memory>>
    /\ UNCHANGED <<infoVars, resultVars, boundVars>>

Done == pc = "idle" /\ captures = MaxCaptures /\ UNCHANGED vars

-----------------------------------------------------------------------------
Capture ==
    \/ OnGlobal \/ OnGeometry \/ OnMode \/ OnShootDone \/ OnSync
    \/ RoundtripFails \/ SelectFails \/ Select \/ CreateMemfd \/ MapFails
    \/ Shoot \/ Copy \/ Cleanup

Compositor == ServeRegistry \/ ServeBind \/ ServeSync \/ ServeShoot

Next ==
    \/ ConnectFails \/ Connect \/ Capture \/ Compositor
    \/ \E o \in Outputs : Hotplug(o)
    \/ Disconnect
    \/ Done

Spec == Init /\ [][Next]_vars

\* The RPC thread runs, and the compositor serves a client it keeps connected.
FairSpec == Spec /\ WF_vars(Capture) /\ WF_vars(Compositor)

-----------------------------------------------------------------------------
(***************************************************************************)
(* Properties.                                                             *)
(***************************************************************************)

\* Whichever step fails, capture() returns with everything it acquired released
\* (proxies, descriptor, mapping), also outputs plugged in meanwhile.
NothingLeaks == pc = "idle" => held = {} /\ memory = None

\* capture() reports missing output dimensions only when the connection was
\* lost or an output was plugged in: the second roundtrip has flushed the modes
\* of every output the first one bound.
DimensionsKnown ==
    result = "no_dimensions" => broken \/ hotplugs > 0

\* If the compositor announced a DP-1 output, that is the one that is captured.
PreferredCaptured ==
    target # None /\ ~broken /\ hotplugs = 0
      => (Range(globals) \cap Preferred # {} => target \in Preferred)

\* On a connection that holds, the reply carries what the compositor wrote.
PixelsIfConnected == result = "ok" /\ ~broken => image = "pixels"

\* takeScreenshot() is answered as long as the compositor serves the client.
CaptureReturns == (pc # "idle") ~> (pc = "idle")

\* A successful reply is a captured screenshot.
SuccessIsCapture == result = "ok" => image = "pixels"
================================================================================
