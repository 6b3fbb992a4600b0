--------------------------- MODULE TestRunnerService ---------------------------
(***************************************************************************)
(* The server process with its recorders, and the clients that call it:    *)
(* the recorder handlers and the life of TestRunnerServer                  *)
(* (server/TestRunnerServer.cpp), main() with its signal pipe              *)
(* (server/main.cpp), and RPCClient with the recorder calls of             *)
(* TestRunnerClient (client/).                                             *)
(*                                                                         *)
(* One thread serves every connection: it takes one request at a time, in  *)
(* the order of each connection, and a handler that waits makes everybody  *)
(* wait.  Recorders are used through RecorderLifecycle, which              *)
(* TestRunnerRecorder implements; their device masks, files and paths are  *)
(* left to that module.  Input and plugin requests are one operation that  *)
(* touches no recorder.                                                    *)
(***************************************************************************)
EXTENDS Integers, Sequences, FiniteSets

CONSTANTS
    Clients,
    Remote,        \* the clients whose connection the network may drop
    MAX_CUSTOM_RECORDERS,
    Calls,         \* by client: the calls it makes, as [op, index]
    MaxCalls,      \* bound on the number of calls
    MaxFaults      \* bound on the connections that the network drops and on the
                   \* select() calls that fail

Snapshot == -1
Slots == Snapshot..(MAX_CUSTOM_RECORDERS - 1)
Rejected == 255

\* Requests that have no effect on a thread: those that read a recorder or set
\* its device mask, and everything that is not about recorders.
Queries == {"listDevices", "setDevicesToRecord", "checkRecorderActive", "other"}
Ops == {"getSnapshot", "createCustomRecorder", "startCustomRecording",
        "stopCustomRecording"} \cup Queries

ASSUME ServiceAssumption ==
    /\ Remote \subseteq Clients
    /\ MAX_CUSTOM_RECORDERS \in 1..Rejected
    /\ Calls \in [Clients -> SUBSET [op : Ops, index : 0..Rejected]]
    /\ MaxCalls \in Nat /\ MaxFaults \in Nat

VARIABLES
    recorders,     \* by slot: the snapshot recorder and the custom_recorders
    size,          \* custom_recorders.size()
    rpc,           \* the RPC thread: where it is, on which recorder, for which
                   \* request; early: it asked a thread to stop before that
                   \* had cleared m_stop (history)
    proc,          \* "up", "terminated", "crashed" or "exited"
    devices,       \* the uinput devices: "open" or "closed"
    signalled,     \* a byte is in the signal pipe
    inbox,         \* by client: the requests sent and not yet served
    isConnected,   \* by client: what RPCClient believes
    link,          \* by client: the connection is there
    epoch,         \* by client: the number of its connection
    call,          \* by client: the request that it waits for, or NoRequest
    made,          \* the number of calls so far, which identifies them
    drops, fails,
    known,         \* history, by client: the indices that it was given
    owner,         \* history: the client whose request made each recorder
    gaveUp,        \* history, by client: creations it stopped waiting for
    starts         \* history, by slot: starts served since the last stop, or 2

L == INSTANCE RecorderLifecycle WITH life <- recorders[Snapshot], call <- rpc.at

recVars == <<recorders, starts>>
srvVars == <<size, owner, rpc, proc, devices, signalled>>
cliVars == <<isConnected, link, epoch, call, made, known, gaveUp>>
vars == <<recorders, size, rpc, proc, devices, signalled, inbox, isConnected,
          link, epoch, call, made, drops, fails, known, owner, gaveUp, starts>>

Request == [op : Ops, index : 0..Rejected, client : Clients, id : Nat,
            epoch : Nat]
NoRequest == [op |-> "none", index |-> 0, id |-> 0]
Idle == [at |-> "idle", slot |-> Snapshot, request |-> NoRequest,
         early |-> FALSE]

\* The constructor has made the devices and started the snapshot recorder, and
\* the clients have connected.
Init ==
    /\ recorders = [s \in Slots |-> IF s = Snapshot THEN L!Started(L!Fresh)
                                    ELSE L!Fresh]
    /\ size = 0 /\ owner = <<>>
    /\ rpc = Idle /\ proc = "up" /\ devices = "open" /\ signalled = FALSE
    /\ inbox = [c \in Clients |-> <<>>]
    /\ isConnected = [c \in Clients |-> TRUE]
    /\ link = [c \in Clients |-> TRUE]
    /\ epoch = [c \in Clients |-> 0]
    /\ call = [c \in Clients |-> NoRequest]
    /\ made = 0
    /\ drops = 0 /\ fails = 0
    /\ known = [c \in Clients |-> {}]
    /\ gaveUp = [c \in Clients |-> 0]
    /\ starts = [s \in Slots |-> IF s = Snapshot THEN 1 ELSE 0]

-----------------------------------------------------------------------------
(***************************************************************************)
(* Clients.  A call made without a connection throws and changes nothing.  *)
(* A reply ends the call in the step that makes it (Answer): a reply that  *)
(* comes too late is one whose request was served too late.                *)
(***************************************************************************)
Waits(c) == call[c] # NoRequest

\* The call of c ends without an answer.
Abandon(c) ==
    /\ call' = [call EXCEPT ![c] = NoRequest]
    /\ gaveUp' = [gaveUp EXCEPT ![c] =
                     IF call[c].op = "createCustomRecorder" THEN @ + 1 ELSE @]

\* Connect(), by a client whose last call threw DISCONNECTED; the server may still
\* have requests of the old connection.
Connect(c) ==
    /\ proc = "up" /\ rpc.at \in {"idle", "join"}
    /\ ~Waits(c) /\ ~isConnected[c]
    /\ isConnected' = [isConnected EXCEPT ![c] = TRUE]
    /\ link' = [link EXCEPT ![c] = TRUE]
    /\ epoch' = [epoch EXCEPT ![c] = @ + 1]
    /\ UNCHANGED <<inbox, call, made, known, gaveUp, drops, fails>>
    /\ UNCHANGED <<recVars, srvVars>>

Send(c, k) ==
    /\ isConnected[c] /\ link[c] /\ ~Waits(c) /\ made < MaxCalls
    /\ LET r == [op |-> k.op, index |-> k.index, client |-> c,
                 id |-> made + 1, epoch |-> epoch[c]]
       IN  /\ inbox' = [inbox EXCEPT ![c] = Append(@, r)]
           /\ call' = [call EXCEPT ![c] = [op |-> r.op, index |-> r.index,
                                           id |-> r.id]]
    /\ made' = made + 1
    /\ UNCHANGED <<isConnected, link, epoch, known, gaveUp, drops, fails>>
    /\ UNCHANGED <<recVars, srvVars>>

\* The connection was lost unnoticed: this call finds out (DISCONNECTED).
SendFails(c) ==
    /\ isConnected[c] /\ ~link[c] /\ ~Waits(c)
    /\ isConnected' = [isConnected EXCEPT ![c] = FALSE]
    /\ UNCHANGED <<inbox, link, epoch, call, made, known, gaveUp>>
    /\ UNCHANGED <<drops, fails, recVars, srvVars>>

\* Ten seconds are over: an exception, but the connection stays, and the request
\* is served all the same.
Timeout(c) ==
    /\ Waits(c)
    /\ Abandon(c)
    /\ UNCHANGED <<inbox, isConnected, link, epoch, made, known, drops, fails>>
    /\ UNCHANGED <<recVars, srvVars>>

\* The process is gone: the call of c throws DISCONNECTED.
Disconnected(c) ==
    /\ Waits(c) /\ ~link[c]
    /\ Abandon(c)
    /\ isConnected' = [isConnected EXCEPT ![c] = FALSE]
    /\ UNCHANGED <<inbox, link, epoch, made, known, drops, fails>>
    /\ UNCHANGED <<recVars, srvVars>>

\* The network drops a connection.  A call in progress throws DISCONNECTED, an
\* idle client does not notice; the server may have read a part of what was sent.
Drop(c) ==
    /\ c \in Remote /\ link[c] /\ drops + fails < MaxFaults
    /\ drops' = drops + 1
    /\ link' = [link EXCEPT ![c] = FALSE]
    /\ isConnected' = [isConnected EXCEPT ![c] = ~Waits(c)]
    /\ Abandon(c)
    /\ \E n \in 0..Len(inbox[c]) :
          /\ \A i \in (n + 1)..Len(inbox[c]) : inbox[c][i].epoch = epoch[c]
          /\ inbox' = [inbox EXCEPT ![c] = SubSeq(@, 1, n)]
    /\ UNCHANGED <<epoch, made, known, fails, recVars, srvVars>>

-----------------------------------------------------------------------------
(***************************************************************************)
(* The handlers.  Each is given the request r, and says what becomes of    *)
(* the recorders, the registry, the RPC thread and the reply.              *)
(***************************************************************************)
\* Mutant of Awaited: any waiting client takes the reply for its own.
AwaitedByAny(r) == Waits(r.client)

\* The reply to r finds its client waiting for it.
Awaited(r) == call[r.client].id = r.id /\ link[r.client] /\ epoch[r.client] = r.epoch

\* The call of the request r returns the index, or 0 where there is none; a call
\* that nobody waits for any more does nothing.
Answer(r, index) ==
    LET c == r.client
    IN  /\ call' = IF Awaited(r) THEN [call EXCEPT ![c] = NoRequest] ELSE call
        /\ known' = IF /\ Awaited(r)
                       /\ call[c].op = "createCustomRecorder" /\ index # Rejected
                    THEN [known EXCEPT ![c] = @ \cup {index}] ELSE known

\* An answer without an effect on the recorders, which is also what an index out
\* of range gets.
Reply(r) ==
    /\ Answer(r, 0)
    /\ UNCHANGED <<recorders, starts, size, owner, rpc, proc, link>>

InRange(r) == r.index < size

\* Stop() on slot s up to its join; without a thread the join throws, and the
\* handler answers with the exception.
StopRecorder(r, s) ==
    /\ recorders' = [recorders EXCEPT ![s] = L!StopRequested(@)]
    /\ \/ /\ L!Joinable(recorders[s])
          /\ rpc' = [at |-> "join", slot |-> s, request |-> r,
                     early |-> recorders[s].thread = "new"]
          /\ UNCHANGED <<call, known>>
       \/ /\ ~L!Joinable(recorders[s])
          /\ Answer(r, 0)
          /\ UNCHANGED rpc
    /\ UNCHANGED <<starts, size, owner, proc, link>>

getSnapshot(r) == r.op = "getSnapshot" /\ StopRecorder(r, Snapshot)

\* Mutant of NewIndex: the size is taken before push_back.
NewIndexLate == size + 1

\* custom_recorders.size() - 1, after push_back.
NewIndex == size

\* Mutant of HasRoom: one recorder too many.
HasRoomForOneMore == size <= MAX_CUSTOM_RECORDERS

HasRoom == size < MAX_CUSTOM_RECORDERS

\* A name with a '/' or a ".." is turned down, and so is every name when the
\* registry is full.
createCustomRecorder(r) ==
    /\ r.op = "createCustomRecorder"
    /\ \/ /\ HasRoom
          /\ recorders' = [recorders EXCEPT ![size] = L!Fresh]
          /\ size' = size + 1 /\ owner' = Append(owner, r.client)
          /\ Answer(r, NewIndex)
       \/ /\ Answer(r, Rejected)
          /\ UNCHANGED <<recorders, size, owner>>
    /\ UNCHANGED <<starts, rpc, proc, link>>

query(r) == r.op \in Queries /\ Reply(r)

\* Start(): nothing on an active recorder; std::terminate when an old thread was
\* not joined.
startCustomRecording(r) ==
    /\ r.op = "startCustomRecording"
    /\ LET l == recorders[r.index]
       IN  \/ ~InRange(r) /\ Reply(r)
           \/ /\ InRange(r) /\ L!Terminates(l)
              /\ proc' = "terminated" /\ link' = [c \in Clients |-> FALSE]
              /\ starts' = [starts EXCEPT ![r.index] = IF @ = 0 THEN 1 ELSE 2]
              /\ UNCHANGED <<recorders, size, owner, rpc, call, known>>
           \/ /\ InRange(r) /\ ~L!Terminates(l)
              /\ recorders' = [recorders EXCEPT ![r.index] =
                                  IF l.stop THEN L!Started(l) ELSE l]
              /\ starts' = [starts EXCEPT ![r.index] = IF @ = 0 THEN 1 ELSE 2]
              /\ Answer(r, 0)
              /\ UNCHANGED <<size, owner, rpc, proc, link>>

stopCustomRecording(r) ==
    /\ r.op = "stopCustomRecording"
    /\ \/ InRange(r) /\ StopRecorder(r, r.index)
       \/ ~InRange(r) /\ Reply(r)

\* Mutant of NextOfConnection: a connection that was replaced is not read.
NextOfCurrent(c, n) ==
    /\ inbox[c][n].epoch = epoch[c]
    /\ \A i \in 1..(n - 1) : inbox[c][i].epoch # inbox[c][n].epoch

\* The n-th request of c is the first one of its connection.
NextOfConnection(c, n) ==
    \A i \in 1..(n - 1) : inbox[c][i].epoch # inbox[c][n].epoch

\* The RPC thread takes a request.
Serve(c, n) ==
    /\ proc = "up" /\ rpc.at = "idle"
    /\ NextOfConnection(c, n)
    /\ LET r == inbox[c][n]
       IN  \/ getSnapshot(r) \/ createCustomRecorder(r) \/ query(r)
           \/ startCustomRecording(r) \/ stopCustomRecording(r)
    /\ inbox' = [inbox EXCEPT ![c] = SubSeq(@, 1, n - 1) \o SubSeq(@, n + 1, Len(@))]
    /\ UNCHANGED <<devices, signalled, isConnected, epoch, made, gaveUp>>
    /\ UNCHANGED <<drops, fails>>

\* Mutant of Restarted: getSnapshot forgets to start again.
RestartForgotten(l) == l

\* The Start() at the end of getSnapshot.
Restarted(l) == IF l.stop THEN L!Started(l) ELSE l

\* The join of a Stop() returns, and the handler answers; getSnapshot starts the
\* recorder again.
JoinReturns ==
    /\ proc = "up" /\ rpc.at = "join"
    /\ recorders[rpc.slot].thread = "ended"
    /\ LET l == L!Joined(recorders[rpc.slot])
       IN  recorders' = [recorders EXCEPT ![rpc.slot] =
                            IF rpc.slot = Snapshot THEN Restarted(l) ELSE l]
    /\ starts' = [starts EXCEPT ![rpc.slot] = IF rpc.slot = Snapshot THEN 1 ELSE 0]
    /\ Answer(rpc.request, 0)
    /\ rpc' = Idle
    /\ UNCHANGED <<size, owner, proc, devices, signalled, inbox, isConnected>>
    /\ UNCHANGED <<link, epoch, made, gaveUp, drops, fails>>

-----------------------------------------------------------------------------
(***************************************************************************)
(* The end of the process: a signal writes to the pipe, and the RPC thread *)
(* reads it when it is idle.  server.reset() closes the connections, then  *)
(* destroys the snapshot recorder, the others in their order, the devices. *)
(***************************************************************************)
SignalHandler ==
    /\ proc = "up" /\ ~signalled
    /\ signalled' = TRUE
    /\ UNCHANGED <<recVars, size, owner, rpc, proc, devices, inbox, cliVars>>
    /\ UNCHANGED <<drops, fails>>

\* Mutant of FirstDestroyed: the custom recorders are forgotten.
FirstDestroyedLast == size

FirstDestroyed == Snapshot

Shutdown ==
    /\ proc = "up" /\ rpc.at = "idle" /\ signalled
    /\ rpc' = [Idle EXCEPT !.at = "dtor", !.slot = FirstDestroyed]
    /\ link' = [c \in Clients |-> FALSE]
    /\ inbox' = [c \in Clients |-> <<>>]
    /\ UNCHANGED <<recVars, size, owner, proc, devices, signalled, isConnected>>
    /\ UNCHANGED <<epoch, call, made, known, gaveUp, drops, fails>>

\* The destructor of a recorder: it stops and joins a thread that is left.
DestroyRecorder ==
    /\ proc = "up" /\ rpc.slot < size
    /\ LET l == recorders[rpc.slot]
       IN  \/ /\ rpc.at = "dtor" /\ L!Joinable(l)
              /\ recorders' = [recorders EXCEPT ![rpc.slot] = L!StopRequested(l)]
              /\ rpc' = [rpc EXCEPT !.at = "dtorJoin", !.early = l.thread = "new"]
           \/ /\ \/ rpc.at = "dtor" /\ ~L!Joinable(l)
                 \/ rpc.at = "dtorJoin" /\ l.thread = "ended"
              /\ recorders' = [recorders EXCEPT ![rpc.slot] = L!Joined(l)]
              /\ rpc' = [rpc EXCEPT !.at = "dtor", !.slot = @ + 1]
    /\ UNCHANGED <<starts, size, owner, proc, devices, signalled, inbox, cliVars>>
    /\ UNCHANGED <<drops, fails>>

\* Last the uinput devices are closed, and main() returns.
CloseDevices ==
    /\ proc = "up" /\ rpc.at = "dtor" /\ rpc.slot = size
    /\ devices' = "closed" /\ proc' = "exited"
    /\ UNCHANGED <<recVars, size, owner, rpc, signalled, inbox, cliVars>>
    /\ UNCHANGED <<drops, fails>>

\* A recording thread may use what the destructor has released.
Crash ==
    /\ proc = "up" /\ rpc.at \in {"dtor", "dtorJoin"} /\ rpc.slot < size
    /\ recorders[rpc.slot].thread = "run"
    /\ proc' = "crashed"
    /\ UNCHANGED <<recVars, size, owner, rpc, devices, signalled, inbox, cliVars>>
    /\ UNCHANGED <<drops, fails>>

-----------------------------------------------------------------------------
(***************************************************************************)
(* The recording threads, by RecorderLifecycle.                            *)
(***************************************************************************)
ThreadStep(s, Step(_, _)) ==
    /\ proc = "up"
    /\ \E m \in L!Lives :
          Step(recorders[s], m) /\ recorders' = [recorders EXCEPT ![s] = m]
    /\ UNCHANGED <<starts, srvVars, inbox, cliVars, drops>>

ThreadBegins(s) == ThreadStep(s, L!Begins) /\ UNCHANGED fails
ThreadReturns(s) ==
    recorders[s].stop /\ ThreadStep(s, L!Returns) /\ UNCHANGED fails
ThreadStopsItself(s) ==
    ~recorders[s].stop /\ ThreadStep(s, L!StopsItself) /\ UNCHANGED fails
\* select() fails, and Record() returns with m_stop unset.  The snapshot recorder is
\* continuous: its Record() then waits for bufferThread, which waits for m_stop, and
\* its thread is left running.  (A custom recorder may be of either kind.)
ThreadFails(s) ==
    /\ s # Snapshot
    /\ ~recorders[s].stop /\ drops + fails < MaxFaults
    /\ ThreadStep(s, L!Returns)
    /\ fails' = fails + 1

\* The process is gone, and every client knows.
Over == proc # "up" /\ (\A c \in Clients : ~Waits(c)) /\ UNCHANGED vars

-----------------------------------------------------------------------------
ClientStep(c) == Timeout(c) \/ Disconnected(c)
ServeNext == \E c \in Clients : \E n \in DOMAIN inbox[c] : Serve(c, n)
ThreadGoesOn(s) == ThreadBegins(s) \/ ThreadReturns(s)
Exit == Shutdown \/ DestroyRecorder \/ CloseDevices

Next ==
    \/ \E c \in Clients :
          \/ Connect(c) \/ SendFails(c) \/ Drop(c) \/ ClientStep(c)
          \/ \E k \in Calls[c] : Send(c, k)
    \/ ServeNext \/ JoinReturns \/ Exit \/ Crash \/ SignalHandler
    \/ \E s \in Slots :
          ThreadGoesOn(s) \/ ThreadStopsItself(s) \/ ThreadFails(s)
    \/ Over

Spec == Init /\ [][Next]_vars

\* The RPC thread goes on whenever it can, with a request or with the signal, and
\* the recording threads are scheduled.  Nothing obliges anyone to call, a timer
\* to fire early, ESC to be pressed or anything to fail.
Fairness ==
    /\ WF_vars(ServeNext \/ JoinReturns \/ Exit)
    /\ \A s \in Slots : WF_vars(ThreadGoesOn(s))

FairSpec == Spec /\ Fairness

-----------------------------------------------------------------------------
(***************************************************************************)
(* Properties.                                                             *)
(***************************************************************************)
Indices == 0..(size - 1)

RecorderType == recorders \in [Slots -> L!Lives] /\ starts \in [Slots -> Nat]
RegistryType ==
    /\ size \in 0..MAX_CUSTOM_RECORDERS
    /\ owner \in Seq(Clients) /\ Len(owner) = size
RpcType ==
    /\ rpc \in [at : {"idle", "join", "dtor", "dtorJoin"},
               slot : Snapshot..MAX_CUSTOM_RECORDERS,
               request : Request \cup {NoRequest}, early : BOOLEAN]
    /\ rpc.at = "join" => rpc.request # NoRequest /\ rpc.slot < size
ProcType ==
    /\ proc \in {"up", "terminated", "crashed", "exited"}
    /\ devices \in {"open", "closed"} /\ signalled \in BOOLEAN
InboxType == inbox \in [Clients -> Seq(Request)]
LinkType ==
    /\ isConnected \in [Clients -> BOOLEAN] /\ link \in [Clients -> BOOLEAN]
    /\ epoch \in [Clients -> Nat]
CallType ==
    /\ call \in [Clients -> [op : Ops \cup {"none"}, index : 0..Rejected, id : Nat]]
    /\ known \in [Clients -> SUBSET (0..(Rejected - 1))]
    /\ made \in Nat /\ gaveUp \in [Clients -> Nat]
FaultType == drops \in Nat /\ fails \in Nat

\* Every variable of the service has its type.
TypeOK ==
    /\ RecorderType /\ RegistryType /\ RpcType /\ ProcType
    /\ InboxType /\ LinkType /\ CallType /\ FaultType

\* An index that a client was given names the recorder that its own request
\* made, and no other client was given it: not when replies come late, calls
\* time out, connections change or the registry is full.
IndexNamesOwnRecorder ==
    \A c \in Clients : \A i \in known[c] : i \in Indices /\ owner[i + 1] = c

\* A slot of the registry is used up for nobody only by a client that stopped
\* waiting: the recorders of a client that it does not know are no more than
\* the creations it gave up on, and the one it is waiting for.
OrphansAreGivenUp ==
    \A c \in Clients :
        Cardinality({i \in Indices : owner[i + 1] = c /\ i \notin known[c]})
          <= gaveUp[c] + IF call[c].op = "createCustomRecorder" THEN 1 ELSE 0

\* Between two requests the snapshot recorder has a thread, so that getSnapshot
\* neither throws nor terminates the process: not after ESC, a failing select() or
\* a stop that came too early, and whatever clients do to the other recorders.
SnapshotKept ==
    proc = "up" /\ rpc.at = "idle" => recorders[Snapshot].thread # "none"

\* A client ends the server only with a second start of the same recorder, one
\* after the other with no completed stop between: a retry after a timeout, or
\* two clients; a start that is the first since the last stop never does.
TerminatedByRestart ==
    proc = "terminated" => \E s \in Slots \ {Snapshot} : starts[s] > 1

\* "Stop recorders first": when the uinput devices are closed, no recording
\* thread is left that reads them.
RecordersEndFirst ==
    devices = "closed" => \A s \in Slots : recorders[s].thread = "none"

\* The RPC thread waits for a thread that was asked to stop before it had
\* cleared m_stop, and never heard of it.
StopLost ==
    /\ rpc.at \in {"join", "dtorJoin"} /\ rpc.early
    /\ recorders[rpc.slot] = [stop |-> FALSE, thread |-> "run"]

\* Every request that reached the server is served, unless the process ends or
\* a lost stop blocks the RPC thread: handlers and joins are never circular.
RequestsServed ==
    (\E c \in Clients : inbox[c] # <<>>)
      ~> ((\A c \in Clients : inbox[c] = <<>>) \/ proc # "up" \/ StopLost)

\* A signal ends the process, also while a handler waits, with the same
\* exception.
SignalEndsServer == signalled ~> (proc # "up" \/ StopLost)

================================================================================
