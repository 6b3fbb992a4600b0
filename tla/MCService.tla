------------------------------- MODULE MCService -------------------------------
EXTENDS TestRunnerService, TLC

CONSTANTS c1, c2

\* Between them the clients make every call on the first recorder; as long as
\* there is none, the index is out of range.
On0(ops) == {[op |-> o, index |-> 0] : o \in ops}
MCCalls ==
    (c1 :> On0({"createCustomRecorder", "startCustomRecording", "getSnapshot"})) @@
    (c2 :> On0({"createCustomRecorder", "stopCustomRecording", "checkRecorderActive"}))
================================================================================
