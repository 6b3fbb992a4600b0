-------------------------------- MODULE Plugins --------------------------------
(***************************************************************************)
(* The two plugins on the one RPC thread: while a screenshot is being      *)
(* taken no health request is served, and the other way round.             *)
(***************************************************************************)
EXTENDS WestonScreenshooter

CONSTANTS
    HealthClients, Urls, DefaultUrl, Documents, MaxCalls,
    MaxRequests     \* bound on the requests to either plugin

VARIABLES daemon_url_, queue, fetching, waits, age, delayed, reply, calls

Health == INSTANCE AglHealth

healthState == <<daemon_url_, queue, fetching, waits, age, delayed, calls>>
pluginVars == <<vars, healthState, reply>>

ASSUME HealthAssumption ==
    /\ Documents \subseteq Health!Document /\ DefaultUrl \in Urls
    /\ MaxCalls \in Nat /\ MaxRequests \in Nat

HealthUnchanged == UNCHANGED healthState /\ reply' = <<>>

PluginsInit == Init /\ Health!HealthInit

\* A screenshot request is taken up between two health requests.
CaptureBegins ==
    /\ Health!Idle /\ captures + calls < MaxRequests
    /\ ConnectFails \/ Connect
    /\ HealthUnchanged

CaptureGoesOn == Capture /\ HealthUnchanged
CompositorServes == Compositor /\ HealthUnchanged
CompositorChanges ==
    ((\E o \in Outputs : Hotplug(o)) \/ Disconnect) /\ HealthUnchanged

\* The compositor takes its time.
CaptureTakesTime ==
    /\ pc # "idle"
    /\ Health!Elapse
    /\ delayed' = [c \in HealthClients |-> delayed[c] \/ waits[c] # 0]
    /\ reply' = <<>>
    /\ UNCHANGED <<vars, daemon_url_, queue, fetching, waits, calls>>

HealthServed == pc = "idle" /\ Health!Handler /\ UNCHANGED vars
HealthCalled ==
    /\ Health!Clients /\ captures + calls' <= MaxRequests
    /\ UNCHANGED vars

Over ==
    /\ pc = "idle" /\ queue = <<>> /\ Health!Idle
    /\ UNCHANGED pluginVars

PluginsNext ==
    \/ CaptureBegins \/ CaptureGoesOn \/ CompositorServes \/ CompositorChanges
    \/ CaptureTakesTime \/ HealthServed \/ HealthCalled \/ Over

\* The RPC thread runs, the compositor serves a client it keeps connected, and
\* libcurl returns when its time is over.
PluginsSpec ==
    /\ PluginsInit /\ [][PluginsNext]_pluginVars
    /\ WF_pluginVars(CaptureGoesOn) /\ WF_pluginVars(CompositorServes)
    /\ WF_pluginVars(HealthServed)

-----------------------------------------------------------------------------
(***************************************************************************)
(* Properties.                                                             *)
(***************************************************************************)
\* A health snapshot is complete, or the call fails.
CompleteOrError == Health!CompleteOrError

\* A health call times out only behind another request or a screenshot.
NoLoneTimeout == Health!NoLoneTimeout

\* A health snapshot is of the daemon whose url was set last.
FromCurrentDaemon == Health!FromCurrentDaemon

\* Every health call ends, with an answer or an error, also while screenshots
\* are taken and a daemon is silent.
HealthAnswered == \A c \in HealthClients : waits[c] # 0 ~> waits[c] = 0

\* An answer with an HTTP error makes the health handler throw (a comment in
\* fetchJson(), which the code does not keep).
HttpErrorsThrow == Health!HttpErrorsThrow
================================================================================
