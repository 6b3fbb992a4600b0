----------------------------- MODULE ServiceProofs -----------------------------
(***************************************************************************)
(* The recorder registry of the server with its clients, main() and its    *)
(* signal, for every number of clients and of recorders and every bound on *)
(* requests and faults.                                                    *)
(*                                                                         *)
(* TypeOK is inductive; it is proved part by part. IndexNamesOwnRecorder   *)
(* needs UniqueIds and RequestInv: every request was made by the client in *)
(* whose queue it waits, once, and the answer that a client takes is the   *)
(* one to its call. OrphansAreGivenUp counts: OrphanInv adds the creations *)
(* that are still queued to the recorders a client does not know, and sets *)
(* them against the calls it gave up and the one it waits for, so that     *)
(* serving a request moves a unit from one side to the other.              *)
(*                                                                         *)
(* TerminatedByRestart needs StartInv: a recorder other than the snapshot  *)
(* recorder has a thread only after a start. SnapshotKept needs            *)
(* SnapshotInv, which says when its thread may have ended, and             *)
(* RecordersEndFirst needs DestroyInv: the destructor has joined the       *)
(* threads of all recorders below the one it is at.                        *)
(***************************************************************************)
EXTENDS TestRunnerService, SequenceTheorems, FiniteSetTheorems, TLAPS

Without(q, n) == SubSeq(q, 1, n - 1) \o SubSeq(q, n + 1, Len(q))

\* Taking the n-th element out of a sequence leaves the others, in their order.
LEMMA Removed ==
    ASSUME NEW S, NEW q \in Seq(S), NEW n \in 1..Len(q)
    PROVE  /\ Without(q, n) \in Seq(S) /\ Len(Without(q, n)) = Len(q) - 1
           /\ \A i \in 1..(Len(q) - 1) :
                 Without(q, n)[i] = q[IF i < n THEN i ELSE i + 1]
<1>a. PICK a : a = SubSeq(q, 1, n - 1)
  OBVIOUS
<1>b. PICK b : b = SubSeq(q, n + 1, Len(q))
  OBVIOUS
<1>0. Len(q) \in Nat /\ \A i \in 1..Len(q) : q[i] \in S
  OBVIOUS
<1>1. /\ a \in Seq(S) /\ Len(a) = n - 1
      /\ \A i \in 1..(n - 1) : a[i] = q[i]
  BY <1>0, <1>a, SubSeqProperties
<1>2. /\ b \in Seq(S) /\ Len(b) = Len(q) - n
      /\ \A i \in 1..(Len(q) - n) : b[i] = q[n + i]
  BY <1>0, <1>b, SubSeqProperties
<1>3. /\ a \o b \in Seq(S) /\ Len(a \o b) = Len(a) + Len(b)
      /\ \A i \in 1..(Len(a) + Len(b)) :
            (a \o b)[i] = IF i <= Len(a) THEN a[i] ELSE b[i - Len(a)]
  BY <1>1, <1>2, ConcatProperties
<1>4. Len(a) + Len(b) = Len(q) - 1
  BY <1>0, <1>1, <1>2
<1>5. ASSUME NEW i \in 1..(Len(q) - 1)
      PROVE  (a \o b)[i] = q[IF i < n THEN i ELSE i + 1]
  <2>1. CASE i < n
    BY <2>1, <1>0, <1>1, <1>3, <1>4
  <2>2. CASE ~(i < n)
    <3>1. i - (n - 1) \in 1..(Len(q) - n) /\ n + (i - (n - 1)) = i + 1
      BY <2>2, <1>0
    <3>2. (a \o b)[i] = b[i - (n - 1)]
      BY <2>2, <1>0, <1>1, <1>3, <1>4
    <3> QED
      BY <2>2, <3>1, <3>2, <1>2
  <2> QED
    BY <2>1, <2>2
<1>6. Without(q, n) = a \o b
  BY <1>a, <1>b DEF Without
<1> QED
  BY <1>3, <1>4, <1>5, <1>6

\* Fresh, started, stopped and joined recorders are lives.
LEMMA LifeTypes ==
    ASSUME NEW l \in L!Lives
    PROVE  /\ L!Fresh \in L!Lives /\ L!Started(l) \in L!Lives
           /\ L!StopRequested(l) \in L!Lives /\ L!Joined(l) \in L!Lives
           /\ Restarted(l) \in L!Lives
  BY DEF L!Lives, L!Fresh, L!Started, L!StopRequested, L!Joined, Restarted

\* The reply to a request keeps the clients well typed.
LEMMA AnswerType ==
    ASSUME TypeOK, NEW r \in Request, NEW i \in 0..Rejected, Answer(r, i),
           UNCHANGED <<made, gaveUp>>
    PROVE  CallType'
  BY DEF TypeOK, CallType, Request, Answer, Rejected, NoRequest

\* The end of a call without an answer keeps the clients well typed.
LEMMA AbandonType ==
    ASSUME TypeOK, NEW c \in Clients, Abandon(c), UNCHANGED <<made, known>>
    PROVE  CallType'
  BY DEF TypeOK, CallType, Abandon, Rejected, NoRequest

\* A request that waits to be served is one of those made, and a client that
\* waits for it has it as its call.
Pending(r) ==
    /\ r.id \in 1..made
    /\ call[r.client].id = r.id => call[r.client].op = r.op

RequestInv ==
    /\ \A c \in Clients : \A i \in DOMAIN inbox[c] :
          Pending(inbox[c][i]) /\ inbox[c][i].client = c
    /\ rpc.at = "join" =>
          Pending(rpc.request) /\ rpc.request.op # "createCustomRecorder"

UniqueIds ==
    \A c \in Clients : \A i, j \in DOMAIN inbox[c] :
        inbox[c][i].id = inbox[c][j].id => i = j

\* The creations of c that were not served yet, by their number.
Creating(c) ==
    {id \in 1..made : \E i \in DOMAIN inbox[c] :
        inbox[c][i].id = id /\ inbox[c][i].op = "createCustomRecorder"}

\* The recorders of c that it does not know.
Orphans(c) == {i \in Indices : owner[i + 1] = c /\ i \notin known[c]}

\* 1 while c waits for a creation.
Asking(c) == IF call[c].op = "createCustomRecorder" THEN 1 ELSE 0

\* A recorder unknown to its client is paid for by a creation given up.
OrphanInv ==
    \A c \in Clients :
        Cardinality(Orphans(c)) + Cardinality(Creating(c)) <= gaveUp[c] + Asking(c)

\* Only the snapshot recorder runs without a call of a client.
StartInv ==
    \A s \in Slots \ {Snapshot} : recorders[s].thread # "none" => starts[s] >= 1

\* Between requests the snapshot recorder has a thread, and one that has ended
\* was told to stop.
SnapshotInv ==
    proc = "up" /\ rpc.at \in {"idle", "join"} =>
        /\ recorders[Snapshot].thread # "none"
        /\ recorders[Snapshot].thread = "ended" => recorders[Snapshot].stop

\* The destructor ends the recorders in the order of their indices.
DestroyInv ==
    /\ \A s \in Slots : s >= size => recorders[s].thread = "none"
    /\ rpc.at \in {"dtor", "dtorJoin"} =>
          \A s \in Slots : s < rpc.slot => recorders[s].thread = "none"
    /\ devices = "closed" =>
          proc = "exited" /\ rpc.at = "dtor" /\ rpc.slot = size

\* A step of a recording thread keeps the recorders well typed.
LEMMA ThreadType ==
    ASSUME TypeOK, NEW s \in Slots,
           ThreadGoesOn(s) \/ ThreadStopsItself(s) \/ ThreadFails(s)
    PROVE  TypeOK'
<1>1. /\ RecorderType' /\ FaultType'
  BY DEF TypeOK, RecorderType, FaultType, ThreadGoesOn, ThreadBegins, ThreadReturns, ThreadStopsItself,
         ThreadFails, ThreadStep
<1>2. UNCHANGED <<srvVars, inbox, cliVars>>
  BY DEF ThreadGoesOn, ThreadBegins, ThreadReturns, ThreadStopsItself,
         ThreadFails, ThreadStep
<1> QED
  BY <1>1, <1>2 DEF TypeOK, RegistryType, RpcType, ProcType, InboxType, LinkType,
     CallType, srvVars, cliVars

\* Setting up a connection, calls and their ends keep the state well typed.
LEMMA ClientType ==
    ASSUME TypeOK, NEW c \in Clients,
           Connect(c) \/ SendFails(c) \/ Timeout(c) \/ Disconnected(c)
    PROVE  TypeOK'
<1>1. CASE Connect(c)
  BY <1>1 DEF Connect, TypeOK, RecorderType, RegistryType, RpcType, ProcType, InboxType,
     LinkType, CallType, FaultType, recVars, srvVars
<1>2. CASE SendFails(c)
  BY <1>2 DEF SendFails, TypeOK, RecorderType, RegistryType, RpcType, ProcType,
     InboxType, LinkType, CallType, FaultType, recVars, srvVars
<1>3. CASE Timeout(c) \/ Disconnected(c)
  <2>1. CallType'
    BY <1>3, AbandonType DEF Timeout, Disconnected
  <2> QED
    BY <1>3, <2>1 DEF Timeout, Disconnected, TypeOK, RecorderType, RegistryType, RpcType,
       ProcType, InboxType, LinkType, FaultType, recVars, srvVars
<1> QED
  BY <1>1, <1>2, <1>3

\* A call keeps the state well typed.
LEMMA SendType ==
    ASSUME TypeOK, NEW c \in Clients, NEW k \in Calls[c], Send(c, k)
    PROVE  TypeOK'
<1>1. k \in [op : Ops, index : 0..Rejected]
  BY ServiceAssumption
<1> DEFINE r == [op |-> k.op, index |-> k.index, client |-> c, id |-> made + 1,
                 epoch |-> epoch[c]]
<1>2. r \in Request
  BY <1>1 DEF Request, TypeOK, LinkType, CallType
<1>3. InboxType'
  BY <1>2 DEF Send, TypeOK, InboxType
<1>4. CallType'
  BY <1>1 DEF Send, TypeOK, CallType
<1> QED
  BY <1>3, <1>4 DEF Send, TypeOK, RecorderType, RegistryType, RpcType, ProcType, LinkType,
     FaultType, recVars, srvVars

\* A connection that is dropped keeps the state well typed.
LEMMA DropType ==
    ASSUME TypeOK, NEW c \in Clients, Drop(c)
    PROVE  TypeOK'
<1>1. CallType'
  BY AbandonType DEF Drop
<1>2. LinkType' /\ FaultType'
  BY DEF Drop, TypeOK, LinkType, FaultType, Waits
<1>3. InboxType'
  <2>1. PICK n \in 0..Len(inbox[c]) : inbox' = [inbox EXCEPT ![c] = SubSeq(@, 1, n)]
    BY DEF Drop
  <2>2. inbox[c] \in Seq(Request)
    BY DEF TypeOK, InboxType
  <2>3. SubSeq(inbox[c], 1, n) \in Seq(Request)
    BY <2>2
  <2> QED
    BY <2>1, <2>3 DEF TypeOK, InboxType
<1> QED
  BY <1>1, <1>2, <1>3 DEF Drop, TypeOK, RecorderType, RegistryType, RpcType, ProcType,
     recVars, srvVars

\* What a handler may change, well typed.
HandlerTypes == RecorderType /\ RegistryType /\ RpcType /\ ProcType /\ CallType

\* Stop(), called by a handler, keeps the state well typed.
LEMMA StopRecorderType ==
    ASSUME TypeOK, NEW r \in Request, NEW s \in Slots, s < size, StopRecorder(r, s),
           UNCHANGED <<made, gaveUp, devices, signalled>>
    PROVE  HandlerTypes'
<1>1. RecorderType' /\ RegistryType' /\ ProcType'
  BY LifeTypes DEF StopRecorder, TypeOK, RecorderType, RegistryType, ProcType
<1>2. r # NoRequest
  BY DEF Request, NoRequest, Ops, Queries
<1>3. RpcType'
  <2>1. PICK e \in BOOLEAN : e = (recorders[s].thread = "new")
    OBVIOUS
  <2>2. CASE rpc' = [at |-> "join", slot |-> s, request |-> r, early |-> e]
    <3>1. s \in Snapshot..MAX_CUSTOM_RECORDERS /\ UNCHANGED size
      BY ServiceAssumption DEF Slots, Snapshot, StopRecorder
    <3> QED
      BY <1>2, <2>2, <3>1 DEF RpcType
  <2>3. CASE UNCHANGED rpc
    BY <2>3 DEF TypeOK, RpcType, StopRecorder
  <2> QED
    BY <2>1, <2>2, <2>3 DEF StopRecorder
<1>4. CallType'
  <2>1. CASE UNCHANGED <<call, known>>
    BY <2>1 DEF TypeOK, CallType
  <2>2. CASE Answer(r, 0)
    BY <2>2, AnswerType DEF Rejected
  <2> QED
    BY <2>1, <2>2 DEF StopRecorder
<1> QED
  BY <1>1, <1>3, <1>4 DEF HandlerTypes

\* A plain reply keeps the state well typed.
LEMMA ReplyType ==
    ASSUME TypeOK, NEW r \in Request, Reply(r),
           UNCHANGED <<made, gaveUp, devices, signalled>>
    PROVE  HandlerTypes'
<1>1. CallType'
  BY AnswerType DEF Reply, Rejected
<1> QED
  BY <1>1 DEF HandlerTypes, Reply, TypeOK, RecorderType, RegistryType, RpcType, ProcType

\* createCustomRecorder keeps the state well typed: the index fits in the reply.
LEMMA CreateType ==
    ASSUME TypeOK, NEW r \in Request, createCustomRecorder(r), rpc.at = "idle",
           UNCHANGED <<made, gaveUp, devices, signalled>>
    PROVE  HandlerTypes'
<1>1. size \in 0..Rejected /\ L!Fresh \in L!Lives
  BY ServiceAssumption DEF TypeOK, RegistryType, L!Fresh, L!Lives, Rejected
<1>2. CallType'
  <2>1. CASE Answer(r, NewIndex)
    BY <1>1, <2>1, AnswerType DEF NewIndex
  <2>2. CASE Answer(r, Rejected)
    BY <2>2, AnswerType DEF Rejected
  <2> QED
    BY <2>1, <2>2 DEF createCustomRecorder
<1>3. RecorderType' /\ RegistryType'
  <2>1. CASE UNCHANGED <<recorders, size, owner>>
    BY <2>1 DEF createCustomRecorder, TypeOK, RecorderType, RegistryType
  <2>2. CASE /\ size < MAX_CUSTOM_RECORDERS
             /\ recorders' = [recorders EXCEPT ![size] = L!Fresh]
             /\ size' = size + 1 /\ owner' = Append(owner, r.client)
    <3>1. r.client \in Clients /\ MAX_CUSTOM_RECORDERS \in Nat
      BY ServiceAssumption DEF Request, Rejected
    <3>2. RegistryType'
      BY <2>2, <3>1 DEF TypeOK, RegistryType
    <3>3. RecorderType'
      BY <1>1, <2>2 DEF createCustomRecorder, TypeOK, RecorderType
    <3> QED
      BY <3>2, <3>3
  <2> QED
    BY <2>1, <2>2 DEF createCustomRecorder, HasRoom
<1> QED
  BY <1>2, <1>3 DEF HandlerTypes, createCustomRecorder, TypeOK, RpcType, ProcType

\* startCustomRecording keeps the state well typed.
LEMMA StartType ==
    ASSUME TypeOK, NEW r \in Request, startCustomRecording(r),
           UNCHANGED <<made, gaveUp, devices, signalled>>
    PROVE  HandlerTypes'
<1>1. CASE ~InRange(r) /\ Reply(r)
  BY <1>1, ReplyType
<1>2. CASE InRange(r) /\ ~Reply(r)
  <2>1. r.index \in Slots /\ recorders[r.index] \in L!Lives
    BY <1>2, ServiceAssumption
       DEF InRange, TypeOK, RegistryType, RecorderType, Request, Slots, Snapshot
  <2>2. RecorderType' /\ RegistryType' /\ ProcType' /\ RpcType'
    <3>1. starts' = [starts EXCEPT ![r.index] = IF @ = 0 THEN 1 ELSE 2]
      BY <1>2 DEF startCustomRecording
    <3>2. starts' \in [Slots -> Nat]
      BY <3>1 DEF TypeOK, RecorderType
    <3>3. recorders' \in [Slots -> L!Lives]
      BY <1>2, <2>1, LifeTypes DEF startCustomRecording, TypeOK, RecorderType
    <3>4. RegistryType' /\ ProcType' /\ RpcType'
      BY <1>2 DEF startCustomRecording, TypeOK, RegistryType, ProcType, RpcType
    <3> QED
      BY <3>2, <3>3, <3>4 DEF RecorderType
  <2>3. CallType'
    <3>1. CASE UNCHANGED <<call, known>>
      BY <3>1 DEF TypeOK, CallType
    <3>2. CASE Answer(r, 0)
      BY <3>2, AnswerType DEF Rejected
    <3> QED
      BY <1>2, <3>1, <3>2 DEF startCustomRecording
  <2> QED
    BY <2>2, <2>3 DEF HandlerTypes
<1>3. CASE InRange(r) /\ Reply(r)
  BY <1>3, ReplyType
<1> QED
  BY <1>1, <1>2, <1>3 DEF startCustomRecording

\* Serving a request keeps the state well typed.
LEMMA ServeType ==
    ASSUME TypeOK, NEW c \in Clients, NEW n \in DOMAIN inbox[c], Serve(c, n)
    PROVE  TypeOK'
<1>0. inbox[c] \in Seq(Request) /\ n \in 1..Len(inbox[c]) /\ inbox[c][n] \in Request
  BY DEF TypeOK, InboxType
<1>1. PICK r \in Request : r = inbox[c][n]
  BY <1>0
<1>2. InboxType'
  <2>1. Without(inbox[c], n) \in Seq(Request)
    BY <1>0, Removed
  <2>2. inbox' = [inbox EXCEPT ![c] = Without(inbox[c], n)]
    BY DEF Serve, Without
  <2> QED
    BY <2>1, <2>2 DEF TypeOK, InboxType
<1>3. /\ UNCHANGED <<made, gaveUp, devices, signalled, isConnected, epoch>>
      /\ UNCHANGED <<drops, fails>>
      /\ rpc.at = "idle"
  BY DEF Serve
<1>4. \/ getSnapshot(r) \/ createCustomRecorder(r) \/ query(r)
      \/ startCustomRecording(r) \/ stopCustomRecording(r)
  BY <1>1 DEF Serve
<1>5. HandlerTypes'
  <2>1. CASE getSnapshot(r)
    <3>1. Snapshot \in Slots /\ Snapshot < size
      BY ServiceAssumption DEF Snapshot, Slots, TypeOK, RegistryType
    <3> QED
      BY <2>1, <3>1, <1>3, StopRecorderType DEF getSnapshot
  <2>2. CASE createCustomRecorder(r)
    BY <2>2, <1>3, CreateType
  <2>3. CASE query(r)
    BY <2>3, <1>3, ReplyType DEF query
  <2>4. CASE startCustomRecording(r)
    BY <2>4, <1>3, StartType
  <2>5. CASE stopCustomRecording(r) /\ ~InRange(r)
    BY <2>5, <1>3, ReplyType DEF stopCustomRecording
  <2>6. CASE stopCustomRecording(r) /\ InRange(r)
    <3>1. r.index \in Slots /\ r.index < size
      BY <2>6, ServiceAssumption
         DEF InRange, TypeOK, RegistryType, Request, Slots, Snapshot
    <3> QED
      BY <2>6, <3>1, <1>3, StopRecorderType DEF stopCustomRecording
  <2> QED
    BY <1>4, <2>1, <2>2, <2>3, <2>4, <2>5, <2>6
<1>6. link' = link \/ link' = [d \in Clients |-> FALSE]
  BY <1>4 DEF getSnapshot, createCustomRecorder, query, startCustomRecording,
     stopCustomRecording, StopRecorder, Reply
<1>7. LinkType' /\ FaultType'
  BY <1>3, <1>6 DEF TypeOK, LinkType, FaultType
<1> QED
  BY <1>2, <1>5, <1>7 DEF TypeOK, HandlerTypes

\* The end of a join keeps the state well typed.
LEMMA JoinType ==
    ASSUME TypeOK, JoinReturns
    PROVE  TypeOK'
<1>1. rpc.request \in Request /\ rpc.slot \in Slots /\ recorders[rpc.slot] \in L!Lives
  BY ServiceAssumption
     DEF JoinReturns, TypeOK, RpcType, RegistryType, RecorderType, Slots, Snapshot
<1>2. CallType'
  BY <1>1, AnswerType DEF JoinReturns, Rejected
<1>3. L!Joined(recorders[rpc.slot]) \in L!Lives
  BY <1>1, LifeTypes
<1>4. RecorderType'
  BY <1>1, <1>3, LifeTypes DEF JoinReturns, TypeOK, RecorderType
<1>5. RpcType'
  BY ServiceAssumption DEF JoinReturns, RpcType, Idle, Snapshot
<1> QED
  BY <1>2, <1>4, <1>5
     DEF JoinReturns, TypeOK, RegistryType, ProcType, InboxType, LinkType, FaultType

\* The end of the process keeps the state well typed.
LEMMA EndType ==
    ASSUME TypeOK, Exit \/ Crash \/ SignalHandler
    PROVE  TypeOK'
<1>1. CASE Shutdown
  <2>1. RpcType'
    <3>1. Snapshot \in Snapshot..MAX_CUSTOM_RECORDERS
      BY ServiceAssumption DEF Snapshot, Rejected
    <3>2. rpc' = [at |-> "dtor", slot |-> Snapshot, request |-> NoRequest,
                  early |-> FALSE]
      BY <1>1 DEF Shutdown, Idle, FirstDestroyed
    <3> QED
      BY <3>1, <3>2 DEF RpcType
  <2>2. InboxType' /\ LinkType'
    BY <1>1 DEF Shutdown, TypeOK, InboxType, LinkType
  <2> QED
    BY <1>1, <2>1, <2>2 DEF Shutdown, TypeOK, RecorderType, RegistryType, ProcType,
       CallType, FaultType, recVars
<1>2. CASE DestroyRecorder
  <2>1. rpc.slot \in Slots /\ recorders[rpc.slot] \in L!Lives
    BY <1>2, ServiceAssumption
       DEF DestroyRecorder, TypeOK, RpcType, RegistryType, RecorderType, Slots, Snapshot
  <2>2. RecorderType'
    BY <1>2, <2>1, LifeTypes DEF DestroyRecorder, TypeOK, RecorderType
  <2>3. RpcType'
    <3>1. PICK e \in BOOLEAN : e = (recorders[rpc.slot].thread = "new")
      OBVIOUS
    <3>2. CASE rpc' = [rpc EXCEPT !.at = "dtorJoin", !.early = e]
      BY <1>2, <3>2 DEF DestroyRecorder, TypeOK, RpcType
    <3>3. CASE rpc' = [rpc EXCEPT !.at = "dtor", !.slot = @ + 1]
      <4>1. rpc.slot + 1 \in Snapshot..MAX_CUSTOM_RECORDERS
        BY <2>1, ServiceAssumption DEF Slots, Snapshot, Rejected
      <4> QED
        BY <3>3, <4>1 DEF TypeOK, RpcType
    <3> QED
      BY <1>2, <3>1, <3>2, <3>3 DEF DestroyRecorder
  <2> QED
    BY <1>2, <2>2, <2>3 DEF DestroyRecorder, TypeOK, RegistryType, ProcType,
       InboxType, LinkType, CallType, FaultType, cliVars
<1>3. CASE CloseDevices \/ Crash \/ SignalHandler
  BY <1>3 DEF CloseDevices, Crash, SignalHandler, TypeOK, RecorderType, RegistryType,
     RpcType, ProcType, InboxType, LinkType, CallType, FaultType, recVars, cliVars
<1> QED
  BY <1>1, <1>2, <1>3 DEF Exit

\* Every step keeps the state well typed.
LEMMA NextType == TypeOK /\ [Next]_vars => TypeOK'
<1> SUFFICES ASSUME TypeOK, [Next]_vars PROVE TypeOK'
  OBVIOUS
<1>1. CASE UNCHANGED vars
  BY <1>1 DEF vars, TypeOK, RecorderType, RegistryType, RpcType, ProcType, InboxType,
     LinkType, CallType, FaultType
<1>2. CASE Next /\ ~UNCHANGED vars
  BY <1>2, ClientType, SendType, DropType, ServeType, JoinType, EndType, ThreadType
     DEF Next, ClientStep, ServeNext, Over
<1> QED
  BY <1>1, <1>2

\* Every variable of the service keeps its type, for every number of clients,
\* registry size and set of calls.
THEOREM ServiceTypeCorrect == Spec => []TypeOK
<1>1. Init => TypeOK
  <2> SUFFICES ASSUME Init PROVE TypeOK
    OBVIOUS
  <2>1. MAX_CUSTOM_RECORDERS \in Nat
    BY ServiceAssumption DEF Rejected
  <2>2. RecorderType
    BY DEF Init, RecorderType, L!Fresh, L!Started, L!Lives
  <2>3. RpcType
    BY <2>1 DEF Init, RpcType, Idle, Snapshot
  <2>4. CallType
    BY DEF Init, CallType, NoRequest, Rejected
  <2>5. RegistryType
    BY <2>1 DEF Init, RegistryType
  <2>6. ProcType
    BY DEF Init, ProcType
  <2>7. InboxType
    BY DEF Init, InboxType
  <2>8. LinkType /\ FaultType
    BY DEF Init, LinkType, FaultType
  <2> QED
    BY <2>2, <2>3, <2>4, <2>5, <2>6, <2>7, <2>8 DEF TypeOK
<1> QED
  BY <1>1, NextType, PTL DEF Spec

-----------------------------------------------------------------------------
(***************************************************************************)
(* The registry: which requests there are, and who is given which index.   *)
(***************************************************************************)
\* A step that makes no request, and may serve one, keeps what is known of the
\* others.
LEMMA RequestsShrink ==
    ASSUME TypeOK, RequestInv, UNCHANGED made,
           \A c \in Clients : call'[c] = call[c] \/ call'[c] = NoRequest,
           \A c \in Clients : \A i \in DOMAIN inbox'[c] :
               \E j \in DOMAIN inbox[c] : inbox'[c][i] = inbox[c][j],
           \/ rpc'.at # "join" \/ UNCHANGED rpc
           \/ \E c \in Clients : \E j \in DOMAIN inbox[c] :
                 rpc'.request = inbox[c][j] /\ inbox[c][j].op # "createCustomRecorder"
    PROVE  RequestInv'
<1>1. ASSUME NEW r \in Request, Pending(r)
      PROVE  /\ r.id \in 1..made'
             /\ call'[r.client].id = r.id => call'[r.client].op = r.op
  BY <1>1 DEF Pending, Request, NoRequest, TypeOK, CallType
<1>2. ASSUME NEW c \in Clients, NEW i \in DOMAIN inbox'[c]
      PROVE  Pending(inbox[c][i])' /\ inbox'[c][i].client = c
  <2>1. PICK j \in DOMAIN inbox[c] : inbox'[c][i] = inbox[c][j]
    OBVIOUS
  <2>2. inbox[c][j] \in Request
    BY DEF TypeOK, InboxType
  <2> QED
    BY <2>1, <2>2, <1>1 DEF Pending, RequestInv
<1>3. rpc'.at = "join" => /\ Pending(rpc.request)'
                          /\ rpc'.request.op # "createCustomRecorder"
  <2>1. CASE rpc'.at = "join" /\ UNCHANGED rpc
    <3>1. rpc.request \in Request
      BY <2>1 DEF TypeOK, RpcType
    <3> QED
      BY <2>1, <3>1, <1>1 DEF Pending, RequestInv
  <2>2. ASSUME NEW c \in Clients, NEW j \in DOMAIN inbox[c],
               rpc'.request = inbox[c][j], inbox[c][j].op # "createCustomRecorder"
        PROVE  /\ Pending(rpc.request)'
               /\ rpc'.request.op # "createCustomRecorder"
    <3>1. inbox[c][j] \in Request
      BY DEF TypeOK, InboxType
    <3> QED
      BY <2>2, <3>1, <1>1 DEF Pending, RequestInv
  <2> QED
    BY <2>1, <2>2
<1> QED
  BY <1>2, <1>3 DEF RequestInv

\* The reply to a request that is not a creation gives no index away, and ends
\* no call for a creation.
LEMMA AnswerOther ==
    ASSUME TypeOK, NEW r \in Request, Pending(r), r.op # "createCustomRecorder",
           NEW i, Answer(r, i)
    PROVE  /\ known' = known
           /\ \A c \in Clients :
                 \/ call'[c] = call[c]
                 \/ call'[c] = NoRequest /\ call[c].op # "createCustomRecorder"
  BY DEF Answer, Awaited, Pending, TypeOK, CallType, Request

\* The n-th request of c is taken and served, as far as the registry goes.
Effect(c, n, r) ==
    /\ r = inbox[c][n] /\ n \in 1..Len(inbox[c])
    /\ inbox' = [inbox EXCEPT ![c] = Without(inbox[c], n)]
    /\ Without(inbox[c], n) \in Seq(Request)
    /\ Len(Without(inbox[c], n)) = Len(inbox[c]) - 1
    /\ \A i \in 1..(Len(inbox[c]) - 1) :
          Without(inbox[c], n)[i] = inbox[c][IF i < n THEN i ELSE i + 1]
    /\ UNCHANGED <<made, gaveUp>>
    /\ \/ createCustomRecorder(r)
       \/ /\ r.op # "createCustomRecorder"
          /\ UNCHANGED <<size, owner>>
          /\ \/ UNCHANGED <<call, known>>
             \/ Answer(r, 0)
          /\ \/ UNCHANGED rpc
             \/ rpc'.request = r

\* Serving a request has that effect.
LEMMA Served ==
    ASSUME TypeOK, NEW c \in Clients, NEW n \in DOMAIN inbox[c], Serve(c, n)
    PROVE  \E r \in Request : Effect(c, n, r)
<1>1. inbox[c] \in Seq(Request) /\ n \in 1..Len(inbox[c]) /\ inbox[c][n] \in Request
  BY DEF TypeOK, InboxType
<1>2. PICK r \in Request : r = inbox[c][n]
  BY <1>1
<1>3. \/ getSnapshot(r) \/ createCustomRecorder(r) \/ query(r)
      \/ startCustomRecording(r) \/ stopCustomRecording(r)
  BY <1>2 DEF Serve
<1>4. \/ createCustomRecorder(r)
      \/ /\ r.op # "createCustomRecorder"
         /\ UNCHANGED <<size, owner>>
         /\ UNCHANGED <<call, known>> \/ Answer(r, 0)
         /\ UNCHANGED rpc \/ rpc'.request = r
  <2>1. CASE query(r) \/ startCustomRecording(r)
    BY <2>1 DEF query, Queries, startCustomRecording, Reply
  <2>2. CASE getSnapshot(r) \/ stopCustomRecording(r)
    BY <2>2 DEF getSnapshot, stopCustomRecording, StopRecorder, Reply
  <2> QED
    BY <1>3, <2>1, <2>2
<1>5. inbox' = [inbox EXCEPT ![c] = Without(inbox[c], n)]
  BY DEF Serve, Without
<1>6. UNCHANGED <<made, gaveUp>>
  BY DEF Serve
<1> QED
  BY <1>1, <1>2, <1>4, <1>5, <1>6, Removed DEF Effect

\* Serving a request keeps what is known of the others.
LEMMA ServeRequests ==
    ASSUME TypeOK, RequestInv, UniqueIds,
           NEW c \in Clients, NEW n \in DOMAIN inbox[c], Serve(c, n)
    PROVE  RequestInv' /\ UniqueIds'
<1>1. PICK r \in Request : Effect(c, n, r)
  BY Served
<1> USE DEF Effect
<1>2. \A d \in Clients : inbox'[d] = IF d = c THEN Without(inbox[c], n) ELSE inbox[d]
  BY <1>1 DEF TypeOK, InboxType
<1>3. /\ DOMAIN inbox[c] = 1..Len(inbox[c]) /\ Len(inbox[c]) \in Nat
      /\ DOMAIN Without(inbox[c], n) = 1..(Len(inbox[c]) - 1)
  BY <1>1 DEF TypeOK, InboxType
<1>4. ASSUME NEW i \in DOMAIN inbox'[c]
      PROVE  \E j \in DOMAIN inbox[c] :
                /\ j = (IF i < n THEN i ELSE i + 1)
                /\ inbox'[c][i] = inbox[c][j]
  BY <1>1, <1>2, <1>3
<1>5. \A d \in Clients : call'[d] = call[d] \/ call'[d] = NoRequest
  <2>1. UNCHANGED call \/ \E i : Answer(r, i)
    BY <1>1 DEF createCustomRecorder
  <2> QED
    BY <2>1 DEF Answer, TypeOK, CallType, Request
<1>6. RequestInv'
  <2>1. \A d \in Clients : \A i \in DOMAIN inbox'[d] :
               \E j \in DOMAIN inbox[d] : inbox'[d][i] = inbox[d][j]
    BY <1>2, <1>4
  <2>2. \/ UNCHANGED rpc
        \/ rpc'.request = inbox[c][n] /\ inbox[c][n].op # "createCustomRecorder"
    BY <1>1 DEF createCustomRecorder
  <2> QED
    BY <1>1, <1>5, <2>1, <2>2, RequestsShrink
<1>7. UniqueIds'
  <2> SUFFICES ASSUME NEW d \in Clients, NEW i \in DOMAIN inbox'[d],
                      NEW j \in DOMAIN inbox'[d], inbox'[d][i].id = inbox'[d][j].id
               PROVE  i = j
    BY DEF UniqueIds
  <2>1. CASE d # c
    BY <2>1, <1>2 DEF UniqueIds
  <2>2. CASE d = c
    <3>1. PICK k \in DOMAIN inbox[c] :
             k = (IF i < n THEN i ELSE i + 1) /\ inbox'[c][i] = inbox[c][k]
      BY <2>2, <1>4
    <3>2. PICK m \in DOMAIN inbox[c] :
             m = (IF j < n THEN j ELSE j + 1) /\ inbox'[c][j] = inbox[c][m]
      BY <2>2, <1>4
    <3>3. k = m
      BY <2>2, <3>1, <3>2 DEF UniqueIds
    <3> QED
      BY <2>2, <3>1, <3>2, <3>3, <1>1, <1>2, <1>3
  <2> QED
    BY <2>1, <2>2
<1> QED
  BY <1>6, <1>7

\* A new request has a number of its own.
LEMMA SendRequests ==
    ASSUME TypeOK, RequestInv, UniqueIds, NEW c \in Clients, NEW k \in Calls[c],
           Send(c, k)
    PROVE  RequestInv' /\ UniqueIds'
<1>1. k \in [op : Ops, index : 0..Rejected]
  BY ServiceAssumption
<1>0. [op |-> k.op, index |-> k.index, client |-> c, id |-> made + 1,
       epoch |-> epoch[c]] \in Request
  BY <1>1 DEF Request, TypeOK, LinkType, CallType
<1>2. PICK r \in Request :
          r = [op |-> k.op, index |-> k.index, client |-> c, id |-> made + 1,
               epoch |-> epoch[c]]
  BY <1>0
<1>3. /\ inbox' = [inbox EXCEPT ![c] = Append(@, r)]
      /\ call' = [call EXCEPT ![c] = [op |-> k.op, index |-> k.index, id |-> made + 1]]
      /\ made' = made + 1 /\ UNCHANGED rpc /\ made \in Nat
  BY <1>2 DEF Send, srvVars, TypeOK, CallType
<1>4. ASSUME NEW q \in Request, Pending(q)
      PROVE  Pending(q)'
  BY <1>3, <1>4, SMTT(30) DEF Pending, TypeOK, CallType, Request
<1>5. /\ r.id = made + 1 /\ r.client = c /\ Pending(r)'
  BY <1>1, <1>2, <1>3 DEF Pending, TypeOK, CallType
<1>6. ASSUME NEW d \in Clients, NEW i \in DOMAIN inbox'[d]
      PROVE  \/ inbox'[d][i] = r /\ d = c /\ i = Len(inbox[c]) + 1
             \/ i \in DOMAIN inbox[d] /\ inbox'[d][i] = inbox[d][i]
  <2>1. inbox[c] \in Seq(Request)
    BY DEF TypeOK, InboxType
  <2> QED
    BY <2>1, <1>3 DEF TypeOK, InboxType
<1>7. \A d \in Clients : \A i \in DOMAIN inbox[d] :
         /\ inbox[d][i] \in Request /\ Pending(inbox[d][i])
         /\ inbox[d][i].client = d /\ inbox[d][i].id <= made
  BY <1>3 DEF RequestInv, TypeOK, InboxType, Pending
<1>8. ASSUME NEW d \in Clients, NEW i \in DOMAIN inbox'[d]
      PROVE  Pending(inbox[d][i])' /\ inbox'[d][i].client = d
  <2>1. CASE inbox'[d][i] = r /\ d = c
    BY <2>1, <1>5 DEF Pending
  <2>2. CASE i \in DOMAIN inbox[d] /\ inbox'[d][i] = inbox[d][i]
    BY <2>2, <1>4, <1>7 DEF Pending
  <2> QED
    BY <1>6, <2>1, <2>2
<1>9. rpc.at = "join" => Pending(rpc.request)' /\ rpc.request.op # "createCustomRecorder"
  BY <1>3, <1>4 DEF RequestInv, TypeOK, RpcType, Pending
<1>10. UniqueIds'
  <2> SUFFICES ASSUME NEW d \in Clients, NEW i \in DOMAIN inbox'[d],
                      NEW j \in DOMAIN inbox'[d], inbox'[d][i].id = inbox'[d][j].id
               PROVE  i = j
    BY DEF UniqueIds
  <2> QED
    BY <1>3, <1>5, <1>6, <1>7 DEF UniqueIds
<1> QED
  BY <1>3, <1>8, <1>9, <1>10 DEF RequestInv

\* Losing the end of an inbox keeps what is known of the other requests.
LEMMA DropRequests ==
    ASSUME TypeOK, RequestInv, UniqueIds, NEW c \in Clients, Drop(c)
    PROVE  RequestInv' /\ UniqueIds'
<1>1. PICK n \in 0..Len(inbox[c]) : inbox' = [inbox EXCEPT ![c] = SubSeq(@, 1, n)]
  BY DEF Drop
<1>2. inbox[c] \in Seq(Request)
  BY DEF TypeOK, InboxType
<1>3. ASSUME NEW d \in Clients, NEW i \in DOMAIN inbox'[d]
      PROVE  i \in DOMAIN inbox[d] /\ inbox'[d][i] = inbox[d][i]
  BY <1>1, <1>2 DEF TypeOK, InboxType
<1>4. \A d \in Clients : call'[d] = call[d] \/ call'[d] = NoRequest
  BY DEF Drop, Abandon, TypeOK, CallType
<1>5. RequestInv'
  BY <1>3, <1>4, RequestsShrink DEF Drop, srvVars
<1>6. UniqueIds'
  BY <1>3 DEF UniqueIds
<1> QED
  BY <1>5, <1>6

\* Every step keeps what is known of the requests.
LEMMA NextRequests ==
    TypeOK /\ RequestInv /\ UniqueIds /\ [Next]_vars => RequestInv' /\ UniqueIds'
<1> SUFFICES ASSUME TypeOK, RequestInv, UniqueIds, [Next]_vars
             PROVE  RequestInv' /\ UniqueIds'
  OBVIOUS
<1>1. CASE /\ UNCHANGED inbox \/ inbox' = [c \in Clients |-> <<>>]
           /\ UNCHANGED made
           /\ \A c \in Clients : call'[c] = call[c] \/ call'[c] = NoRequest
           /\ UNCHANGED rpc \/ rpc'.at # "join"
  <2>1. \A c \in Clients : \A i \in DOMAIN inbox'[c] :
            i \in DOMAIN inbox[c] /\ inbox'[c][i] = inbox[c][i]
    BY <1>1
  <2>2. RequestInv'
    BY <1>1, <2>1, RequestsShrink
  <2>3. UniqueIds'
    BY <2>1 DEF UniqueIds
  <2> QED
    BY <2>2, <2>3
<1>2. ASSUME NEW c \in Clients,
             Connect(c) \/ SendFails(c) \/ Timeout(c) \/ Disconnected(c)
      PROVE  RequestInv' /\ UniqueIds'
  BY <1>1, <1>2 DEF Connect, SendFails, Timeout, Disconnected, Abandon, srvVars,
     TypeOK, CallType
<1>3. CASE JoinReturns
  <2>1. rpc.request \in Request
    BY <1>3 DEF JoinReturns, TypeOK, RpcType
  <2>2. \A c \in Clients : call'[c] = call[c] \/ call'[c] = NoRequest
    BY <1>3, <2>1 DEF JoinReturns, Answer, TypeOK, CallType, Request
  <2> QED
    BY <1>1, <1>3, <2>2 DEF JoinReturns, Idle
<1>4. CASE Exit \/ Crash \/ SignalHandler
  BY <1>1, <1>4 DEF Exit, Shutdown, DestroyRecorder, CloseDevices, Crash, SignalHandler,
     cliVars, Idle, TypeOK, RpcType
<1>5. ASSUME NEW s \in Slots,
             ThreadGoesOn(s) \/ ThreadStopsItself(s) \/ ThreadFails(s)
      PROVE  RequestInv' /\ UniqueIds'
  BY <1>1, <1>5 DEF ThreadGoesOn, ThreadBegins, ThreadReturns, ThreadStopsItself,
     ThreadFails, ThreadStep, srvVars, cliVars
<1>6. CASE UNCHANGED vars
  BY <1>1, <1>6 DEF vars
<1> QED
  BY <1>2, <1>3, <1>4, <1>5, <1>6, ServeRequests, SendRequests, DropRequests
     DEF Next, ClientStep, ServeNext, Over

\* Indices are given away by createCustomRecorder only.
LEMMA RegistrySteps ==
    ASSUME TypeOK, RequestInv, [Next]_vars
    PROVE  \/ UNCHANGED <<size, owner, known>>
           \/ \E c \in Clients, r \in Request :
                 \E n \in DOMAIN inbox[c] : Effect(c, n, r) /\ createCustomRecorder(r)
<1>1. ASSUME NEW c \in Clients, NEW n \in DOMAIN inbox[c], Serve(c, n)
      PROVE  \/ UNCHANGED <<size, owner, known>>
             \/ \E r \in Request : Effect(c, n, r) /\ createCustomRecorder(r)
  <2>1. PICK r \in Request : Effect(c, n, r)
    BY <1>1, Served
  <2>2. CASE r.op # "createCustomRecorder"
    BY <2>1, <2>2, AnswerOther DEF Effect, RequestInv, createCustomRecorder
  <2>3. CASE r.op = "createCustomRecorder"
    BY <2>1, <2>3 DEF Effect
  <2> QED
    BY <2>2, <2>3
<1>2. CASE JoinReturns
  <2>1. rpc.request \in Request
    BY <1>2 DEF JoinReturns, TypeOK, RpcType
  <2> QED
    BY <1>2, <2>1, AnswerOther DEF JoinReturns, RequestInv
<1>3. ASSUME NEW c \in Clients,
             \/ Connect(c) \/ SendFails(c) \/ Timeout(c) \/ Disconnected(c) \/ Drop(c)
             \/ \E k \in Calls[c] : Send(c, k)
      PROVE  UNCHANGED <<size, owner, known>>
  BY <1>3 DEF Connect, SendFails, Timeout, Disconnected, Drop, Send, srvVars
<1>4. CASE Exit \/ Crash \/ SignalHandler
  BY <1>4 DEF Exit, Shutdown, DestroyRecorder, CloseDevices, Crash, SignalHandler,
     cliVars
<1>5. ASSUME NEW s \in Slots,
             ThreadGoesOn(s) \/ ThreadStopsItself(s) \/ ThreadFails(s)
      PROVE  UNCHANGED <<size, owner, known>>
  BY <1>5 DEF ThreadGoesOn, ThreadBegins, ThreadReturns, ThreadStopsItself,
     ThreadFails, ThreadStep, srvVars, cliVars
<1>6. CASE UNCHANGED vars
  BY <1>6 DEF vars
<1> QED
  BY <1>1, <1>2, <1>3, <1>4, <1>5, <1>6 DEF Next, ClientStep, ServeNext, Over

\* Every step keeps the indices with the clients whose recorders they name.
LEMMA NextIndices ==
    TypeOK /\ RequestInv /\ IndexNamesOwnRecorder /\ [Next]_vars
      => IndexNamesOwnRecorder'
<1> SUFFICES ASSUME TypeOK, RequestInv, IndexNamesOwnRecorder, [Next]_vars
             PROVE  IndexNamesOwnRecorder'
  OBVIOUS
<1>1. CASE UNCHANGED <<size, owner, known>>
  BY <1>1 DEF IndexNamesOwnRecorder, Indices
<1>2. ASSUME NEW r \in Request, createCustomRecorder(r)
      PROVE  IndexNamesOwnRecorder'
  <2>1. CASE Answer(r, Rejected) /\ UNCHANGED <<size, owner>>
    BY <2>1, <1>1 DEF Answer
  <2>2. CASE /\ size' = size + 1 /\ owner' = Append(owner, r.client)
             /\ Answer(r, size)
    <3>1. /\ size \in Nat /\ Len(owner) = size /\ r.client \in Clients
          /\ owner \in Seq(Clients)
      BY ServiceAssumption DEF TypeOK, RegistryType, Request
    <3>2. \A i \in 0..(size - 1) : owner'[i + 1] = owner[i + 1]
      BY <2>2, <3>1
    <3>3. owner'[size + 1] = r.client
      BY <2>2, <3>1
    <3> SUFFICES ASSUME NEW d \in Clients, NEW i \in known'[d]
                 PROVE  i \in 0..(size' - 1) /\ owner'[i + 1] = d
      BY DEF IndexNamesOwnRecorder, Indices
    <3>4. i \in known[d] \/ (i = size /\ d = r.client)
      BY <2>2 DEF Answer, TypeOK, CallType
    <3>5. CASE i \in known[d]
      BY <2>2, <3>1, <3>2, <3>5 DEF IndexNamesOwnRecorder, Indices
    <3>6. CASE i = size /\ d = r.client
      BY <2>2, <3>1, <3>3, <3>6
    <3> QED
      BY <3>4, <3>5, <3>6
  <2> QED
    BY <1>2, <2>1, <2>2 DEF createCustomRecorder, NewIndex
<1> QED
  BY <1>1, <1>2, RegistrySteps

\* Initially there are no requests, no recorders and no indices.
LEMMA InitRegistry ==
    Init => RequestInv /\ UniqueIds /\ IndexNamesOwnRecorder
<1> SUFFICES ASSUME Init PROVE RequestInv /\ UniqueIds /\ IndexNamesOwnRecorder
  OBVIOUS
<1>1. \A c \in Clients : DOMAIN inbox[c] = {} /\ known[c] = {}
  BY DEF Init
<1> QED
  BY <1>1 DEF Init, RequestInv, UniqueIds, IndexNamesOwnRecorder, Idle

\* An index that a client was given names the recorder that its own request made,
\* for every number of clients, calls, lost connections and timeouts: a late or
\* a foreign reply never hands out somebody else's recorder.
THEOREM IndicesCorrect == Spec => []IndexNamesOwnRecorder
<1>1. TypeOK /\ RequestInv /\ UniqueIds /\ IndexNamesOwnRecorder /\ [Next]_vars
        => (RequestInv /\ UniqueIds /\ IndexNamesOwnRecorder)'
  BY NextRequests, NextIndices
<1> QED
  BY <1>1, InitRegistry, ServiceTypeCorrect, PTL DEF Spec

-----------------------------------------------------------------------------
(***************************************************************************)
(* The slots that nobody knows, counted.                                   *)
(***************************************************************************)
\* What is counted is finite.
LEMMA Countable ==
    ASSUME TypeOK, NEW c
    PROVE  /\ IsFiniteSet(Orphans(c)) /\ IsFiniteSet(Creating(c))
           /\ Cardinality(Orphans(c)) \in Nat /\ Cardinality(Creating(c)) \in Nat
<1>1. IsFiniteSet(0..(size - 1)) /\ IsFiniteSet(1..made)
  BY ServiceAssumption, FS_Interval DEF TypeOK, RegistryType, CallType
<1>2. Orphans(c) \subseteq 0..(size - 1) /\ Creating(c) \subseteq 1..made
  BY DEF Orphans, Creating, Indices
<1> QED
  BY <1>1, <1>2, FS_Subset, FS_CardinalityType

\* Fewer orphans and creations of c, and no fewer excuses, keep the balance of c.
LEMMA Balance ==
    ASSUME TypeOK, TypeOK', OrphanInv, NEW c \in Clients,
           Orphans(c)' \subseteq Orphans(c), Creating(c)' \subseteq Creating(c),
           gaveUp'[c] + Asking(c)' >= gaveUp[c] + Asking(c)
    PROVE  Cardinality(Orphans(c)') + Cardinality(Creating(c)')
             <= gaveUp'[c] + Asking(c)'
<1>1. /\ IsFiniteSet(Orphans(c)) /\ IsFiniteSet(Creating(c))
      /\ Cardinality(Orphans(c)) \in Nat /\ Cardinality(Creating(c)) \in Nat
  BY Countable
<1>2. /\ Cardinality(Orphans(c)') <= Cardinality(Orphans(c))
      /\ Cardinality(Creating(c)') <= Cardinality(Creating(c))
      /\ Cardinality(Orphans(c)') \in Nat /\ Cardinality(Creating(c)') \in Nat
  BY <1>1, FS_Subset, FS_CardinalityType
<1>3. gaveUp[c] \in Nat /\ gaveUp'[c] \in Nat /\ Asking(c) \in Nat /\ Asking(c)' \in Nat
  BY DEF TypeOK, CallType, Asking
<1>4. Cardinality(Orphans(c)) + Cardinality(Creating(c)) <= gaveUp[c] + Asking(c)
  BY DEF OrphanInv
<1> QED
  BY <1>1, <1>2, <1>3, <1>4

\* The end of a call without an answer is counted as a creation given up on.
LEMMA AbandonBalance ==
    ASSUME TypeOK, NEW c \in Clients, Abandon(c), NEW d \in Clients
    PROVE  gaveUp'[d] + Asking(d)' >= gaveUp[d] + Asking(d)
<1>1. gaveUp[d] \in Nat
  BY DEF TypeOK, CallType
<1>2. CASE d = c
  BY <1>1, <1>2 DEF Abandon, Asking, TypeOK, CallType, NoRequest
<1>3. CASE d # c
  BY <1>1, <1>3 DEF Abandon, Asking, TypeOK, CallType
<1> QED
  BY <1>2, <1>3

\* A call for a creation is balanced by its request.
LEMMA SendBalance ==
    ASSUME TypeOK, TypeOK', RequestInv, OrphanInv, NEW c \in Clients,
           NEW k \in Calls[c], Send(c, k)
    PROVE  OrphanInv'
<1>1. /\ k \in [op : Ops, index : 0..Rejected]
      /\ inbox[c] \in Seq(Request) /\ made \in Nat
  BY ServiceAssumption DEF TypeOK, InboxType, CallType
<1>2. PICK r : r = [op |-> k.op, index |-> k.index, client |-> c, id |-> made + 1,
                    epoch |-> epoch[c]]
  OBVIOUS
<1>3. /\ inbox' = [inbox EXCEPT ![c] = Append(@, r)]
      /\ call[c].op # "createCustomRecorder"
      /\ call' = [call EXCEPT ![c] = [op |-> k.op, index |-> k.index, id |-> made + 1]]
      /\ made' = made + 1 /\ UNCHANGED <<size, owner, known, gaveUp>>
  BY <1>2 DEF Send, srvVars, Waits, NoRequest
<1>4. \A d : Orphans(d)' = Orphans(d)
  BY <1>3 DEF Orphans, Indices
<1>5. ASSUME NEW d \in Clients, d # c
      PROVE  Creating(d)' \subseteq Creating(d) /\ Asking(d)' = Asking(d)
  <2>1. inbox'[d] = inbox[d] /\ call'[d] = call[d]
    BY <1>3, <1>5 DEF TypeOK, InboxType, CallType
  <2>2. \A i \in DOMAIN inbox[d] : inbox[d][i].id \in 1..made
    BY DEF RequestInv, Pending
  <2> QED
    BY <2>1, <2>2 DEF Creating, Asking
<1>6. /\ Asking(c) = 0
      /\ Asking(c)' = IF k.op = "createCustomRecorder" THEN 1 ELSE 0
  BY <1>3 DEF Asking, TypeOK, CallType
<1>7. /\ k.op # "createCustomRecorder" => Creating(c)' \subseteq Creating(c)
      /\ Creating(c)' \subseteq Creating(c) \cup {made + 1}
  <2>1. ASSUME NEW i \in DOMAIN inbox'[c]
        PROVE  \/ inbox'[c][i] = r
               \/ i \in DOMAIN inbox[c] /\ inbox'[c][i] = inbox[c][i]
    BY <1>1, <1>3 DEF TypeOK, InboxType
  <2>2. \A i \in DOMAIN inbox[c] : inbox[c][i].id \in 1..made
    BY DEF RequestInv, Pending
  <2> QED
    BY <1>2, <2>1, <2>2 DEF Creating
<1>8. ASSUME NEW d \in Clients
      PROVE  Cardinality(Orphans(d)') + Cardinality(Creating(d)')
               <= gaveUp'[d] + Asking(d)'
  <2>0. gaveUp[d] \in Nat /\ Asking(d) \in Nat
    BY DEF TypeOK, CallType, Asking
  <2>1. CASE d # c \/ k.op # "createCustomRecorder"
    <3>1. gaveUp'[d] + Asking(d)' >= gaveUp[d] + Asking(d)
      BY <2>0, <2>1, <1>3, <1>5, <1>6
    <3> QED
      BY <2>1, <3>1, <1>4, <1>5, <1>7, Balance
  <2>2. CASE d = c /\ k.op = "createCustomRecorder"
    <3>1. /\ IsFiniteSet(Creating(c)) /\ Cardinality(Creating(c)) \in Nat
          /\ Cardinality(Orphans(c)) \in Nat
      BY Countable
    <3>2. made + 1 \notin Creating(c)
      BY <1>1 DEF Creating
    <3>3. /\ IsFiniteSet(Creating(c) \cup {made + 1})
          /\ Cardinality(Creating(c) \cup {made + 1}) = Cardinality(Creating(c)) + 1
      BY <3>1, <3>2, FS_AddElement
    <3>4. /\ Cardinality(Creating(c)') <= Cardinality(Creating(c)) + 1
          /\ Cardinality(Creating(c)') \in Nat
      BY <1>7, <3>3, FS_Subset, FS_CardinalityType
    <3>5. Cardinality(Orphans(c)) + Cardinality(Creating(c)) <= gaveUp[c] + Asking(c)
      BY DEF OrphanInv
    <3> QED
      BY <2>0, <2>2, <3>1, <3>4, <3>5, <1>3, <1>4, <1>6
  <2> QED
    BY <2>1, <2>2
<1> QED
  BY <1>8 DEF OrphanInv

\* A request that is served is not counted any more.
LEMMA ServedOnce ==
    ASSUME TypeOK, UniqueIds, NEW c \in Clients, NEW n \in DOMAIN inbox[c],
           NEW r \in Request, Effect(c, n, r)
    PROVE  /\ Creating(c)' \subseteq Creating(c) \ {r.id}
           /\ \A d \in Clients : d # c => Creating(d)' = Creating(d)
<1> USE DEF Effect
<1>1. \A d \in Clients : inbox'[d] = IF d = c THEN Without(inbox[c], n) ELSE inbox[d]
  BY DEF TypeOK, InboxType
<1>2. /\ DOMAIN inbox[c] = 1..Len(inbox[c]) /\ Len(inbox[c]) \in Nat
      /\ DOMAIN Without(inbox[c], n) = 1..(Len(inbox[c]) - 1)
  BY DEF TypeOK, InboxType
<1>3. ASSUME NEW i \in DOMAIN inbox'[c]
      PROVE  \E j \in DOMAIN inbox[c] :
                inbox'[c][i] = inbox[c][j] /\ inbox[c][j].id # r.id
  <2>1. PICK j : j = IF i < n THEN i ELSE i + 1
    OBVIOUS
  <2>2. j \in DOMAIN inbox[c] /\ j # n /\ inbox'[c][i] = inbox[c][j]
    BY <1>1, <1>2, <2>1, SMTT(30)
  <2> QED
    BY <2>2 DEF UniqueIds
<1>4. Creating(c)' \subseteq Creating(c) \ {r.id}
  BY <1>3, SMTT(30) DEF Creating
<1>5. \A d \in Clients : d # c => Creating(d)' = Creating(d)
  BY <1>1 DEF Creating
<1> QED
  BY <1>4, <1>5

\* A creation that is served is known to its client, or is one that the client
\* gave up on.
LEMMA CreateBalance ==
    ASSUME TypeOK, TypeOK', RequestInv, UniqueIds, OrphanInv,
           NEW c \in Clients, NEW n \in DOMAIN inbox[c], NEW r \in Request,
           Effect(c, n, r), createCustomRecorder(r)
    PROVE  OrphanInv'
<1>1. /\ r.client = c /\ r.op = "createCustomRecorder" /\ r.id \in 1..made /\ Pending(r)
      /\ r.id \in Creating(c)
  BY DEF Effect, RequestInv, createCustomRecorder, Pending, Creating
<1>2. /\ Creating(c)' \subseteq Creating(c) \ {r.id}
      /\ \A d \in Clients : d # c => Creating(d)' = Creating(d)
  BY ServedOnce
<1>3. /\ IsFiniteSet(Creating(c)) /\ Cardinality(Creating(c)) \in Nat
      /\ IsFiniteSet(Orphans(c)) /\ Cardinality(Orphans(c)) \in Nat
  BY Countable
<1>4. /\ Cardinality(Creating(c)') <= Cardinality(Creating(c)) - 1
      /\ Cardinality(Creating(c)') \in Nat
  <2>1. /\ IsFiniteSet(Creating(c) \ {r.id})
        /\ Cardinality(Creating(c) \ {r.id}) = Cardinality(Creating(c)) - 1
    BY <1>1, <1>3, FS_RemoveElement
  <2> QED
    BY <1>2, <2>1, FS_Subset, FS_CardinalityType
<1>5. /\ size \in Nat /\ Len(owner) = size /\ owner \in Seq(Clients) /\ gaveUp[c] \in Nat
      /\ known \in [Clients -> SUBSET (0..(Rejected - 1))]
  BY ServiceAssumption DEF TypeOK, RegistryType, CallType
<1>6. UNCHANGED gaveUp
  BY DEF Effect
<1>7. /\ Awaited(r) => Asking(c) = 1 /\ Asking(c)' = 0
      /\ ~Awaited(r) => Asking(c)' = Asking(c)
      /\ Asking(c) \in Nat
      /\ \A d \in Clients : d # c => call'[d] = call[d]
  <2>1. \E i : Answer(r, i)
    BY DEF createCustomRecorder
  <2> QED
    BY <1>1, <2>1 DEF Answer, Awaited, Pending, Asking, TypeOK, CallType, NoRequest
<1>8. /\ Awaited(r) => Orphans(c)' \subseteq Orphans(c)
      /\ Orphans(c)' \subseteq Orphans(c) \cup {size}
      /\ \A d \in Clients : d # c => Orphans(d)' \subseteq Orphans(d)
  <2>1. CASE Answer(r, Rejected) /\ UNCHANGED <<size, owner>>
    BY <2>1 DEF Answer, Orphans, Indices
  <2>2. CASE /\ size' = size + 1 /\ owner' = Append(owner, r.client)
             /\ Answer(r, size) /\ size # Rejected
    <3>1. \A i \in 0..(size - 1) : owner'[i + 1] = owner[i + 1]
      BY <2>2, <1>5
    <3>2. owner'[size + 1] = c
      BY <2>2, <1>1, <1>5
    <3>3. 0..(size' - 1) = 0..(size - 1) \cup {size}
      BY <2>2, <1>5
    <3>4. \A d \in Clients : known[d] \subseteq known'[d]
      BY <2>2, <1>5 DEF Answer
    <3>5. Awaited(r) => size \in known'[c]
      BY <2>2, <1>1, <1>5 DEF Answer, Awaited, Pending
    <3> QED
      BY <3>1, <3>2, <3>3, <3>4, <3>5 DEF Orphans, Indices
  <2> QED
    BY <2>1, <2>2, ServiceAssumption
       DEF createCustomRecorder, NewIndex, HasRoom, TypeOK, RegistryType, Rejected
<1>9. ASSUME NEW d \in Clients
      PROVE  Cardinality(Orphans(d)') + Cardinality(Creating(d)')
               <= gaveUp'[d] + Asking(d)'
  <2>1. CASE d # c
    <3>1. Asking(d)' = Asking(d) /\ gaveUp[d] + Asking(d) \in Nat
      BY <2>1, <1>7 DEF Asking, TypeOK, CallType
    <3>2. gaveUp'[d] + Asking(d)' >= gaveUp[d] + Asking(d)
      BY <3>1, <1>6
    <3> QED
      BY <2>1, <3>2, <1>2, <1>8, Balance
  <2>2. CASE d = c /\ Awaited(r)
    <3>1. /\ Cardinality(Orphans(c)') <= Cardinality(Orphans(c))
          /\ Cardinality(Orphans(c)') \in Nat
      BY <2>2, <1>3, <1>8, FS_Subset, FS_CardinalityType
    <3>2. Cardinality(Orphans(c)) + Cardinality(Creating(c)) <= gaveUp[c] + Asking(c)
      BY DEF OrphanInv
    <3> QED
      BY <2>2, <3>1, <3>2, <1>3, <1>4, <1>5, <1>6, <1>7
  <2>3. CASE d = c /\ ~Awaited(r)
    <3>1. /\ IsFiniteSet(Orphans(c) \cup {size})
          /\ Cardinality(Orphans(c) \cup {size}) = Cardinality(Orphans(c)) + 1
      <4>1. size \notin Orphans(c)
        BY <1>5 DEF Orphans, Indices
      <4> QED
        BY <4>1, <1>3, FS_AddElement
    <3>2. /\ Cardinality(Orphans(c)') <= Cardinality(Orphans(c)) + 1
          /\ Cardinality(Orphans(c)') \in Nat
      BY <3>1, <1>8, FS_Subset, FS_CardinalityType
    <3>3. Cardinality(Orphans(c)) + Cardinality(Creating(c)) <= gaveUp[c] + Asking(c)
      BY DEF OrphanInv
    <3> QED
      BY <2>3, <3>2, <3>3, <1>3, <1>4, <1>5, <1>6, <1>7
  <2> QED
    BY <2>1, <2>2, <2>3
<1> QED
  BY <1>9 DEF OrphanInv

\* Every step keeps the balance.
LEMMA NextOrphans ==
    TypeOK /\ RequestInv /\ UniqueIds /\ OrphanInv /\ [Next]_vars => OrphanInv'
<1> SUFFICES ASSUME TypeOK, RequestInv, UniqueIds, OrphanInv, [Next]_vars
             PROVE  OrphanInv'
  OBVIOUS
<1>0. TypeOK'
  BY NextType
<1>1. ASSUME UNCHANGED <<size, owner, known, made>>,
             \A c \in Clients : \A i \in DOMAIN inbox'[c] :
                 i \in DOMAIN inbox[c] /\ inbox'[c][i] = inbox[c][i],
             \A c \in Clients : gaveUp'[c] + Asking(c)' >= gaveUp[c] + Asking(c)
      PROVE  OrphanInv'
  <2>1. \A c \in Clients : /\ Orphans(c)' \subseteq Orphans(c)
                           /\ Creating(c)' \subseteq Creating(c)
    BY <1>1 DEF Orphans, Indices, Creating
  <2> QED
    BY <1>0, <1>1, <2>1, Balance DEF OrphanInv
<1>2. ASSUME UNCHANGED <<call, gaveUp>>
      PROVE  \A c \in Clients : gaveUp'[c] + Asking(c)' >= gaveUp[c] + Asking(c)
  BY <1>2 DEF Asking, TypeOK, CallType
<1>3. ASSUME UNCHANGED gaveUp,
             \A c \in Clients :
                 \/ call'[c] = call[c]
                 \/ call'[c] = NoRequest /\ call[c].op # "createCustomRecorder"
      PROVE  \A c \in Clients : gaveUp'[c] + Asking(c)' >= gaveUp[c] + Asking(c)
  BY <1>3 DEF Asking, TypeOK, CallType, NoRequest
<1>4. ASSUME NEW c \in Clients, Connect(c) \/ SendFails(c)
      PROVE  OrphanInv'
  BY <1>1, <1>2, <1>4 DEF Connect, SendFails, srvVars
<1>5. ASSUME NEW c \in Clients, Timeout(c) \/ Disconnected(c)
      PROVE  OrphanInv'
  BY <1>1, <1>5, AbandonBalance DEF Timeout, Disconnected, srvVars
<1>6. ASSUME NEW c \in Clients, Drop(c)
      PROVE  OrphanInv'
  <2>1. PICK n \in 0..Len(inbox[c]) : inbox' = [inbox EXCEPT ![c] = SubSeq(@, 1, n)]
    BY <1>6 DEF Drop
  <2>2. inbox[c] \in Seq(Request)
    BY DEF TypeOK, InboxType
  <2>3. ASSUME NEW d \in Clients, NEW i \in DOMAIN inbox'[d]
        PROVE  i \in DOMAIN inbox[d] /\ inbox'[d][i] = inbox[d][i]
    BY <2>1, <2>2 DEF TypeOK, InboxType
  <2> QED
    BY <1>1, <1>6, <2>3, AbandonBalance DEF Drop, srvVars
<1>7. ASSUME NEW c \in Clients, NEW n \in DOMAIN inbox[c], Serve(c, n)
      PROVE  OrphanInv'
  <2>1. PICK r \in Request : Effect(c, n, r)
    BY <1>7, Served
  <2>2. CASE createCustomRecorder(r)
    BY <1>0, <2>1, <2>2, CreateBalance
  <2>3. CASE ~createCustomRecorder(r)
    <3>1. r.op # "createCustomRecorder" /\ Pending(r) /\ UNCHANGED <<size, owner, gaveUp>>
      BY <2>1, <2>3 DEF Effect, RequestInv
    <3>2. /\ known' = known
          /\ \A d \in Clients :
                \/ call'[d] = call[d]
                \/ call'[d] = NoRequest /\ call[d].op # "createCustomRecorder"
      BY <2>1, <2>3, <3>1, AnswerOther DEF Effect
    <3>3. \A d \in Clients : Orphans(d)' \subseteq Orphans(d)
      BY <3>1, <3>2 DEF Orphans, Indices
    <3>4. \A d \in Clients : Creating(d)' \subseteq Creating(d)
      BY <2>1, ServedOnce
    <3> QED
      BY <1>0, <1>3, <3>1, <3>2, <3>3, <3>4, Balance DEF OrphanInv
  <2> QED
    BY <2>2, <2>3
<1>8. CASE JoinReturns
  <2>1. rpc.request \in Request
    BY <1>8 DEF JoinReturns, TypeOK, RpcType
  <2>2. /\ known' = known
        /\ \A d \in Clients :
              \/ call'[d] = call[d]
              \/ call'[d] = NoRequest /\ call[d].op # "createCustomRecorder"
    BY <1>8, <2>1, AnswerOther DEF JoinReturns, RequestInv
  <2> QED
    BY <1>1, <1>3, <1>8, <2>2 DEF JoinReturns
<1>9. CASE Exit \/ Crash \/ SignalHandler
  BY <1>1, <1>2, <1>9 DEF Exit, Shutdown, DestroyRecorder, CloseDevices, Crash,
     SignalHandler, cliVars
<1>10. ASSUME NEW s \in Slots,
              ThreadGoesOn(s) \/ ThreadStopsItself(s) \/ ThreadFails(s)
       PROVE  OrphanInv'
  BY <1>1, <1>2, <1>10 DEF ThreadGoesOn, ThreadBegins, ThreadReturns,
     ThreadStopsItself, ThreadFails, ThreadStep, srvVars, cliVars
<1>11. CASE UNCHANGED vars
  BY <1>1, <1>2, <1>11 DEF vars
<1> QED
  BY <1>0, <1>4, <1>5, <1>6, <1>7, <1>8, <1>9, <1>10, <1>11, SendBalance
     DEF Next, ClientStep, ServeNext, Over

\* A slot of the registry is used up for nobody only by a client that stopped
\* waiting, for every number of clients, calls and faults.
THEOREM OrphansCorrect == Spec => []OrphansAreGivenUp
<1>1. Init => OrphanInv
  <2> SUFFICES ASSUME Init, NEW c \in Clients
               PROVE  Cardinality(Orphans(c)) + Cardinality(Creating(c))
                        <= gaveUp[c] + Asking(c)
    BY DEF OrphanInv
  <2>1. Orphans(c) = {} /\ Creating(c) = {}
    BY DEF Init, Orphans, Indices, Creating
  <2>2. gaveUp[c] = 0 /\ Asking(c) = 0
    BY DEF Init, Asking, NoRequest
  <2> QED
    BY <2>1, <2>2, FS_EmptySet
<1>2. TypeOK /\ OrphanInv => OrphansAreGivenUp
  <2> SUFFICES ASSUME TypeOK, OrphanInv, NEW c \in Clients
               PROVE  Cardinality(Orphans(c)) <= gaveUp[c] + Asking(c)
    BY DEF OrphansAreGivenUp, Orphans, Asking
  <2> QED
    BY Countable DEF OrphanInv, TypeOK, CallType, Asking
<1>3. TypeOK /\ RequestInv /\ UniqueIds /\ OrphanInv /\ [Next]_vars
        => (RequestInv /\ UniqueIds /\ OrphanInv)'
  BY NextRequests, NextOrphans
<1> QED
  BY <1>1, <1>2, <1>3, InitRegistry, ServiceTypeCorrect, PTL DEF Spec

-----------------------------------------------------------------------------
(***************************************************************************)
(* The recording threads, and the end of the process.                      *)
(***************************************************************************)
CoreInv == StartInv /\ TerminatedByRestart /\ SnapshotInv /\ DestroyInv

coreVars == <<recorders, starts, size, rpc, proc, devices>>

\* The slots are numbers, and the snapshot recorder has the first.
LEMMA SlotNumbers ==
    ASSUME TypeOK
    PROVE  /\ Slots \subseteq Int /\ Snapshot \in Slots /\ Snapshot = -1
           /\ size \in Nat /\ size <= MAX_CUSTOM_RECORDERS /\ MAX_CUSTOM_RECORDERS \in Nat
           /\ \A i \in Int : i \in Slots <=> i >= -1 /\ i < MAX_CUSTOM_RECORDERS
           /\ \A s \in Slots : s >= -1
  BY ServiceAssumption DEF TypeOK, RegistryType, Slots, Snapshot, Rejected

\* A step that touches neither recorders nor the RPC thread nor the process.
LEMMA CoreStable == CoreInv /\ UNCHANGED coreVars => CoreInv'
  BY DEF CoreInv, coreVars, StartInv, TerminatedByRestart, SnapshotInv, DestroyInv

\* Stop(), called by a handler, takes no thread away.
LEMMA StopCore ==
    ASSUME TypeOK, CoreInv, NEW r, NEW s \in Slots, StopRecorder(r, s), proc = "up",
           rpc.at = "idle", UNCHANGED devices
    PROVE  CoreInv'
<1>1. /\ rpc'.at \in {"idle", "join"} /\ UNCHANGED <<starts, size, proc>>
      /\ recorders' = [recorders EXCEPT ![s] = L!StopRequested(@)]
  BY DEF StopRecorder
<1>2. \A t \in Slots : /\ recorders'[t].thread = recorders[t].thread
                       /\ recorders[t].stop => recorders'[t].stop
  BY <1>1 DEF TypeOK, RecorderType, L!StopRequested, L!Lives
<1>3. StartInv' /\ TerminatedByRestart' /\ DestroyInv'
  BY <1>1, <1>2 DEF CoreInv, StartInv, TerminatedByRestart, DestroyInv
<1>4. SnapshotInv'
  BY <1>1, <1>2, SlotNumbers DEF CoreInv, SnapshotInv
<1> QED
  BY <1>3, <1>4 DEF CoreInv

\* A new recorder has no thread.
LEMMA CreateCore ==
    ASSUME TypeOK, CoreInv, NEW r, createCustomRecorder(r), proc = "up",
           rpc.at = "idle", UNCHANGED devices
    PROVE  CoreInv'
<1>1. CASE UNCHANGED <<recorders, size>>
  BY <1>1, CoreStable DEF createCustomRecorder, coreVars
<1>2. CASE /\ size < MAX_CUSTOM_RECORDERS /\ size' = size + 1
           /\ recorders' = [recorders EXCEPT ![size] = L!Fresh]
  <2>1. size \in Slots /\ size # Snapshot
    BY <1>2, SlotNumbers
  <2>2. \A t \in Slots : recorders'[t] = IF t = size THEN L!Fresh ELSE recorders[t]
    BY <1>2, <2>1 DEF TypeOK, RecorderType
  <2>3. L!Fresh.thread = "none"
    BY DEF L!Fresh
  <2>4. StartInv' /\ TerminatedByRestart'
    BY <2>2, <2>3 DEF CoreInv, StartInv, TerminatedByRestart, createCustomRecorder
  <2>5. SnapshotInv'
    BY <2>1, <2>2, SlotNumbers DEF CoreInv, SnapshotInv, createCustomRecorder
  <2>6. DestroyInv'
    BY <1>2, <2>2, <2>3, SlotNumbers DEF CoreInv, DestroyInv, createCustomRecorder
  <2> QED
    BY <2>4, <2>5, <2>6 DEF CoreInv
<1> QED
  BY <1>1, <1>2 DEF createCustomRecorder, HasRoom

\* A start is counted before there is a thread, and one that ends the process
\* finds an earlier start counted.
LEMMA StartCore ==
    ASSUME TypeOK, CoreInv, NEW r \in Request, startCustomRecording(r), proc = "up",
           rpc.at = "idle", UNCHANGED devices
    PROVE  CoreInv'
<1>1. CASE Reply(r)
  BY <1>1, CoreStable DEF Reply, coreVars
<1>2. CASE InRange(r) /\ ~Reply(r)
  <2>1. r.index \in Slots /\ r.index # Snapshot /\ r.index < size
    BY <1>2, SlotNumbers DEF InRange, Request, Rejected
  <2>2. \A t \in Slots : starts'[t] = IF t # r.index THEN starts[t]
                                      ELSE IF starts[t] = 0 THEN 1 ELSE 2
    BY <1>2, <2>1 DEF startCustomRecording, TypeOK, RecorderType
  <2>3. UNCHANGED <<size, rpc>>
    BY <1>2 DEF startCustomRecording
  <2>4. \A t \in Slots : t # r.index => recorders'[t] = recorders[t]
    BY <1>2, <2>1 DEF startCustomRecording, TypeOK, RecorderType
  <2>5. StartInv'
    BY <2>1, <2>2, <2>4 DEF CoreInv, StartInv
  <2>6. SnapshotInv'
    BY <2>1, <2>3, <2>4, SlotNumbers DEF CoreInv, SnapshotInv
  <2>7. DestroyInv'
    BY <2>1, <2>3, <2>4, SlotNumbers DEF CoreInv, DestroyInv
  <2>8. TerminatedByRestart'
    <3>1. CASE UNCHANGED proc
      BY <3>1 DEF TerminatedByRestart
    <3>2. CASE L!Terminates(recorders[r.index])
      <4>1. starts[r.index] # 0
        BY <2>1, <3>2 DEF CoreInv, StartInv, L!Terminates, L!Joinable
      <4>2. starts'[r.index] > 1
        BY <2>1, <2>2, <4>1
      <4> QED
        BY <2>1, <4>2 DEF TerminatedByRestart
    <3> QED
      BY <1>2, <3>1, <3>2 DEF startCustomRecording
  <2> QED
    BY <2>5, <2>6, <2>7, <2>8 DEF CoreInv
<1> QED
  BY <1>1, <1>2 DEF startCustomRecording

\* Serving a request keeps the threads' invariant.
LEMMA ServeCore ==
    ASSUME TypeOK, CoreInv, NEW c \in Clients, NEW n \in DOMAIN inbox[c], Serve(c, n)
    PROVE  CoreInv'
<1>1. inbox[c][n] \in Request
  BY DEF TypeOK, InboxType
<1>2. PICK r \in Request : r = inbox[c][n]
  BY <1>1
<1>3. /\ UNCHANGED devices /\ proc = "up" /\ rpc.at = "idle"
      /\ \/ getSnapshot(r) \/ createCustomRecorder(r) \/ query(r)
         \/ startCustomRecording(r) \/ stopCustomRecording(r)
  BY <1>2 DEF Serve
<1>4. CASE getSnapshot(r)
  BY <1>3, <1>4, StopCore, SlotNumbers DEF getSnapshot
<1>5. CASE createCustomRecorder(r)
  BY <1>3, <1>5, CreateCore
<1>6. CASE Reply(r)
  BY <1>3, <1>6, CoreStable DEF Reply, coreVars
<1>7. CASE startCustomRecording(r)
  BY <1>3, <1>7, StartCore
<1>8. CASE InRange(r) /\ StopRecorder(r, r.index)
  <2>1. r.index \in Slots
    BY <1>8, SlotNumbers DEF InRange, Request, Rejected
  <2> QED
    BY <1>3, <1>8, <2>1, StopCore
<1> QED
  BY <1>3, <1>4, <1>5, <1>6, <1>7, <1>8 DEF query, stopCustomRecording

\* A join that returns leaves a custom recorder without a thread and without a
\* start, and the snapshot recorder with a new thread.
LEMMA JoinCore ==
    ASSUME TypeOK, CoreInv, JoinReturns
    PROVE  CoreInv'
<1>1. /\ rpc.slot \in Slots /\ rpc.slot < size /\ rpc.slot \in Int
      /\ recorders[rpc.slot].thread = "ended"
      /\ proc = "up" /\ rpc.at = "join" /\ rpc'.at = "idle"
      /\ UNCHANGED <<size, proc, devices>>
  BY SlotNumbers DEF JoinReturns, TypeOK, RpcType, Idle, Snapshot
<1>2. \A t \in Slots :
         recorders'[t] = IF t # rpc.slot THEN recorders[t]
                         ELSE IF t = Snapshot THEN Restarted(L!Joined(recorders[t]))
                              ELSE L!Joined(recorders[t])
  BY <1>1 DEF JoinReturns, TypeOK, RecorderType
<1>3. \A t \in Slots : starts'[t] = IF t # rpc.slot THEN starts[t]
                                    ELSE IF t = Snapshot THEN 1 ELSE 0
  BY <1>1 DEF JoinReturns, TypeOK, RecorderType
<1>4. \A l : L!Joined(l).thread = "none" /\ L!Joined(l).stop = l.stop
  BY DEF L!Joined
<1>5. StartInv'
  BY <1>2, <1>3, <1>4 DEF CoreInv, StartInv
<1>6. TerminatedByRestart'
  BY <1>1 DEF TerminatedByRestart
<1>7. DestroyInv'
  BY <1>1, <1>2, SlotNumbers DEF CoreInv, DestroyInv
<1>8. SnapshotInv'
  <2>1. ASSUME NEW l, l.stop
        PROVE  Restarted(L!Joined(l)).thread = "new"
    BY <2>1, <1>4 DEF Restarted, L!Started
  <2>2. CASE rpc.slot # Snapshot
    BY <2>2, <1>1, <1>2, SlotNumbers DEF CoreInv, SnapshotInv
  <2>3. CASE rpc.slot = Snapshot
    BY <2>1, <2>3, <1>1, <1>2 DEF CoreInv, SnapshotInv
  <2> QED
    BY <2>2, <2>3, <1>1 DEF SnapshotInv
<1> QED
  BY <1>5, <1>6, <1>7, <1>8 DEF CoreInv

\* The destructors take the threads away slot by slot, the devices come last.
LEMMA EndCore ==
    ASSUME TypeOK, CoreInv, Exit \/ Crash \/ SignalHandler
    PROVE  CoreInv'
<1>1. CASE Shutdown
  <2>1. rpc'.at = "dtor" /\ rpc'.slot = Snapshot /\ proc = "up"
        /\ UNCHANGED <<recorders, starts, size, proc, devices>>
    BY <1>1 DEF Shutdown, Idle, FirstDestroyed, recVars
  <2> QED
    BY <2>1, SlotNumbers DEF CoreInv, StartInv, TerminatedByRestart, SnapshotInv,
       DestroyInv
<1>2. CASE DestroyRecorder
  <2>0. rpc.slot \in Slots /\ rpc.slot \in Int /\ rpc.slot < size
    BY <1>2, SlotNumbers DEF DestroyRecorder, TypeOK, RpcType, Snapshot
  <2>1. /\ rpc.slot \in Slots /\ rpc.slot \in Int /\ rpc.slot < size
        /\ proc = "up" /\ rpc.at \in {"dtor", "dtorJoin"}
        /\ rpc'.at \in {"dtor", "dtorJoin"}
        /\ UNCHANGED <<starts, size, proc, devices>>
    <3>1. PICK e : e = (recorders[rpc.slot].thread = "new")
      OBVIOUS
    <3>2. \/ rpc' = [rpc EXCEPT !.at = "dtorJoin", !.early = e]
          \/ rpc' = [rpc EXCEPT !.at = "dtor", !.slot = @ + 1]
      BY <1>2, <3>1 DEF DestroyRecorder
    <3>3. rpc'.at \in {"dtor", "dtorJoin"}
      BY <3>2 DEF TypeOK, RpcType
    <3> QED
      BY <1>2, <2>0, <3>3 DEF DestroyRecorder
  <2>2. \A t \in Slots : t # rpc.slot => recorders'[t] = recorders[t]
    BY <1>2, <2>1 DEF DestroyRecorder, TypeOK, RecorderType
  <2>3. \/ /\ recorders'[rpc.slot].thread = recorders[rpc.slot].thread
           /\ rpc'.slot = rpc.slot
        \/ recorders'[rpc.slot].thread = "none" /\ rpc'.slot = rpc.slot + 1
    <3>1. PICK e : e = (recorders[rpc.slot].thread = "new")
      OBVIOUS
    <3>2. CASE /\ recorders' = [recorders EXCEPT ![rpc.slot] =
                                   L!StopRequested(recorders[rpc.slot])]
               /\ rpc' = [rpc EXCEPT !.at = "dtorJoin", !.early = e]
      BY <2>1, <3>2 DEF TypeOK, RecorderType, RpcType, L!StopRequested
    <3>3. CASE /\ recorders' = [recorders EXCEPT ![rpc.slot] =
                                   L!Joined(recorders[rpc.slot])]
               /\ rpc' = [rpc EXCEPT !.at = "dtor", !.slot = @ + 1]
      BY <2>1, <3>3 DEF TypeOK, RecorderType, RpcType, L!Joined
    <3> QED
      BY <1>2, <3>1, <3>2, <3>3 DEF DestroyRecorder
  <2>4. StartInv' /\ TerminatedByRestart' /\ SnapshotInv'
    BY <2>1, <2>2, <2>3 DEF CoreInv, StartInv, TerminatedByRestart, SnapshotInv
  <2>5. DestroyInv'
    BY <2>1, <2>2, <2>3, SlotNumbers DEF CoreInv, DestroyInv
  <2> QED
    BY <2>4, <2>5 DEF CoreInv
<1>3. CASE CloseDevices \/ Crash
  BY <1>3 DEF CloseDevices, Crash, CoreInv, StartInv, TerminatedByRestart, SnapshotInv,
     DestroyInv, recVars
<1>4. CASE SignalHandler
  BY <1>4, CoreStable DEF SignalHandler, coreVars, recVars
<1> QED
  BY <1>1, <1>2, <1>3, <1>4 DEF Exit

\* A thread that ends without m_stop is that of a custom recorder.
LEMMA ThreadCore ==
    ASSUME TypeOK, CoreInv, NEW s \in Slots,
           ThreadGoesOn(s) \/ ThreadStopsItself(s) \/ ThreadFails(s)
    PROVE  CoreInv'
<1>1. PICK m :
        /\ recorders' = [recorders EXCEPT ![s] = m]
        /\ recorders[s].thread \in {"new", "run"} /\ m.thread \in {"run", "ended"}
        /\ s = Snapshot => (m.thread = "ended" => m.stop)
  BY DEF ThreadGoesOn, ThreadBegins, ThreadReturns, ThreadStopsItself, ThreadFails,
     ThreadStep, L!Begins, L!Returns, L!StopsItself
<1>2. UNCHANGED <<starts, size, rpc, proc, devices>> /\ proc = "up"
  BY DEF ThreadGoesOn, ThreadBegins, ThreadReturns, ThreadStopsItself, ThreadFails,
     ThreadStep, srvVars
<1>3. \A t \in Slots : recorders'[t] = IF t = s THEN m ELSE recorders[t]
  BY <1>1 DEF TypeOK, RecorderType
<1>4. StartInv' /\ TerminatedByRestart'
  BY <1>1, <1>2, <1>3 DEF CoreInv, StartInv, TerminatedByRestart
<1>5. SnapshotInv'
  BY <1>1, <1>2, <1>3, SlotNumbers DEF CoreInv, SnapshotInv
<1>6. DestroyInv'
  BY <1>1, <1>2, <1>3 DEF CoreInv, DestroyInv
<1> QED
  BY <1>4, <1>5, <1>6 DEF CoreInv

\* Every step keeps the threads' invariant.
LEMMA NextCore == TypeOK /\ CoreInv /\ [Next]_vars => CoreInv'
<1> SUFFICES ASSUME TypeOK, CoreInv, [Next]_vars PROVE CoreInv'
  OBVIOUS
<1>1. ASSUME NEW c \in Clients,
             \/ Connect(c) \/ SendFails(c) \/ Timeout(c) \/ Disconnected(c) \/ Drop(c)
             \/ \E k \in Calls[c] : Send(c, k)
      PROVE  CoreInv'
  BY <1>1, CoreStable DEF Connect, SendFails, Timeout, Disconnected, Drop, Send, srvVars,
     recVars, coreVars
<1>2. CASE UNCHANGED vars
  BY <1>2, CoreStable DEF vars, coreVars
<1> QED
  BY <1>1, <1>2, ServeCore, JoinCore, EndCore, ThreadCore
     DEF Next, ClientStep, ServeNext, Over

\* The threads' invariant holds in every state.
LEMMA CoreCorrect == Spec => []CoreInv
<1>1. Init => CoreInv
  <2> SUFFICES ASSUME Init PROVE CoreInv
    OBVIOUS
  <2>1. \A s \in Slots : recorders[s].thread = IF s = Snapshot THEN "new" ELSE "none"
    BY DEF Init, L!Fresh, L!Started
  <2>2. StartInv /\ TerminatedByRestart
    BY <2>1 DEF Init, StartInv, TerminatedByRestart
  <2>3. Snapshot \in Slots /\ Snapshot = -1
    BY ServiceAssumption DEF Snapshot, Slots, Rejected
  <2>4. SnapshotInv
    BY <2>1, <2>3 DEF Init, SnapshotInv
  <2>5. DestroyInv
    <3>1. size = 0 /\ rpc.at = "idle" /\ devices = "open"
      BY DEF Init, Idle
    <3> QED
      BY <2>1, <2>3, <3>1 DEF DestroyInv
  <2> QED
    BY <2>2, <2>4, <2>5 DEF CoreInv
<1> QED
  BY <1>1, NextCore, ServiceTypeCorrect, PTL DEF Spec

\* A client ends the server only with a second start of one recorder, for every
\* number of clients and recorders.
THEOREM TerminationCorrect == Spec => []TerminatedByRestart
  BY CoreCorrect, PTL DEF CoreInv

\* The snapshot recorder has a thread between two requests, whatever clients do and
\* whichever calls fail.
THEOREM SnapshotCorrect == Spec => []SnapshotKept
<1>1. CoreInv => SnapshotKept
  BY DEF CoreInv, SnapshotInv, SnapshotKept
<1> QED
  BY <1>1, CoreCorrect, PTL

\* No recording thread is left when the uinput devices are closed.
THEOREM EndCorrect == Spec => []RecordersEndFirst
<1>1. TypeOK /\ CoreInv => RecordersEndFirst
  BY SlotNumbers DEF CoreInv, DestroyInv, RecordersEndFirst
<1> QED
  BY <1>1, CoreCorrect, ServiceTypeCorrect, PTL

================================================================================
