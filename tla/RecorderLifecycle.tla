--------------------------- MODULE RecorderLifecycle ---------------------------
(***************************************************************************)
(* What TestRunnerRecorder promises about the life of one recording: the   *)
(* flag m_stop, the thread m_recorder_thread, and the calls of the owner   *)
(* that wait for it.  TestRunnerRecorder implements this specification;    *)
(* TestRunnerService is built on its operators, one recorder per slot.     *)
(*                                                                         *)
(* A thread is "none" (not joinable), "new" (started, m_stop not yet       *)
(* cleared), "run", or "ended" (Record() has returned, still joinable).    *)
(***************************************************************************)
VARIABLES
    life,     \* [stop |-> m_stop, thread |-> ...]
    call,     \* the owner: "idle", in "join" of Stop(), in the destructor
              \* ("dtor", "dtorJoin"), or "gone"
    proc      \* the process: "up", "terminated" or "crashed"

vars == <<life, call, proc>>

Lives == [stop : BOOLEAN, thread : {"none", "new", "run", "ended"}]

\* Mutant of Fresh: the constructor starts the recording.
FreshRecording == [stop |-> TRUE, thread |-> "new"]

\* A recorder that the constructor has made.
Fresh == [stop |-> TRUE, thread |-> "none"]

Joinable(l) == l.thread # "none"

\* Start() starts a thread on an inactive recorder, ...
Started(l) == [stop |-> l.stop, thread |-> "new"]
\* ... or ends the process, when the old thread was not joined.
Terminates(l) == l.stop /\ Joinable(l)

\* Mutants of StopRequested and Joined: the flag is not set, and the handle
\* stays joinable.
StopNotRequested(l) == l
NotJoined(l) == l

\* Stop() and the destructor set m_stop, and take the thread away by joining it.
StopRequested(l) == [stop |-> TRUE, thread |-> l.thread]
Joined(l) == [stop |-> l.stop, thread |-> "none"]

\* Record() begins by clearing m_stop, whatever was asked since Start().
Begins(l, m) == l.thread = "new" /\ m = [stop |-> FALSE, thread |-> "run"]
\* ESC, or the length of the recording, sets it again.
StopsItself(l, m) == l.thread = "run" /\ m = [stop |-> TRUE, thread |-> "run"]
\* Record() returns when it finds m_stop set, or when select() fails.
Returns(l, m) == l.thread = "run" /\ m = [stop |-> l.stop, thread |-> "ended"]

-----------------------------------------------------------------------------
Init == life = Fresh /\ call = "idle" /\ proc = "up"

Owner(pc) == proc = "up" /\ call = pc

Start ==
    /\ Owner("idle")
    /\ life.stop /\ ~Joinable(life)
    /\ life' = Started(life)
    /\ UNCHANGED <<call, proc>>

StartTerminates ==
    /\ Owner("idle") /\ Terminates(life)
    /\ proc' = "terminated"
    /\ UNCHANGED <<life, call>>

\* Without a thread the join throws.
Stop ==
    /\ Owner("idle")
    /\ life' = StopRequested(life)
    /\ call' = IF Joinable(life) THEN "join" ELSE "idle"
    /\ UNCHANGED proc

StopReturns ==
    /\ Owner("join")
    /\ life.thread = "ended"
    /\ life' = Joined(life) /\ call' = "idle"
    /\ UNCHANGED proc

Destroy == Owner("idle") /\ call' = "dtor" /\ UNCHANGED <<life, proc>>

DestroyStops ==
    /\ Owner("dtor")
    /\ Joinable(life)
    /\ life' = StopRequested(life) /\ call' = "dtorJoin"
    /\ UNCHANGED proc

DestroyReturns ==
    /\ \/ Owner("dtor") /\ ~Joinable(life)
       \/ Owner("dtorJoin") /\ life.thread = "ended"
    /\ life' = Joined(life) /\ call' = "gone"
    /\ UNCHANGED proc

ThreadBegins ==
    proc = "up" /\ Begins(life, life') /\ UNCHANGED <<call, proc>>
ThreadStopsItself ==
    proc = "up" /\ StopsItself(life, life') /\ UNCHANGED <<call, proc>>
ThreadReturns ==
    proc = "up" /\ Returns(life, life') /\ UNCHANGED <<call, proc>>

\* The thread uses the xkb state that the destructor has released.
Crash ==
    /\ proc = "up" /\ call \in {"dtor", "dtorJoin"}
    /\ life.thread = "run"
    /\ proc' = "crashed"
    /\ UNCHANGED <<life, call>>

OwnerWaits == StopReturns \/ DestroyStops \/ DestroyReturns

Next ==
    \/ Start \/ StartTerminates \/ Stop \/ Destroy \/ OwnerWaits
    \/ ThreadBegins \/ ThreadStopsItself \/ ThreadReturns \/ Crash

Spec == Init /\ [][Next]_vars

\* A thread that was started begins, one that was asked to stop ends, and the
\* owner's waits return when they can.
FairSpec ==
    /\ Spec
    /\ WF_vars(ThreadBegins) /\ WF_vars(OwnerWaits)
    /\ WF_vars(life.stop /\ ThreadReturns)
================================================================================
