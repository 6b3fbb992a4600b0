------------------------------ MODULE MCRecorder ------------------------------
(***************************************************************************)
(* Small instances of TestRunnerRecorder.  One second is two ticks, so a   *)
(* one-second window can be half over; UInt32Range is above every length.  *)
(***************************************************************************)
EXTENDS TestRunnerRecorder

\* A recording that starts in time can run to its end before the clock stops.
ASSUME BoundsAssumption == MaxStart + RecordingLength < MaxTime
===============================================================================
