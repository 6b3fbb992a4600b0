----------------------------- MODULE PluginsProofs -----------------------------
(***************************************************************************)
(* Both plugins on the one RPC thread, for every set of clients, daemons   *)
(* and documents and every number of calls.                                *)
(*                                                                         *)
(* The composition implements the screenshot plugin's own specification,   *)
(* so what ScreenshooterProofs says holds of the server too. The health    *)
(* plugin's invariant HealthInv says that a request belongs to the client  *)
(* that waits for its number (OwnerInv), that libcurl asks the daemon      *)
(* whose url is set (UrlInv), and that a call that nothing delayed has     *)
(* waited for its own fetch only (LoneInv): libcurl's five seconds then    *)
(* end before the client's ten.                                            *)
(***************************************************************************)
EXTENDS Plugins, ScreenshooterProofs

\* A step of the server is one of the screenshot plugin or leaves that alone.
LEMMA PluginsStep == [PluginsNext]_pluginVars => [Next]_vars
<1> SUFFICES ASSUME [PluginsNext]_pluginVars
             PROVE  [Next]_vars
  OBVIOUS
<1>1. CASE CaptureBegins
  BY <1>1 DEF CaptureBegins, Next
<1>2. CASE CaptureGoesOn \/ CompositorServes \/ CompositorChanges
  BY <1>2 DEF CaptureGoesOn, CompositorServes, CompositorChanges, Next
<1>3. CASE CaptureTakesTime
  BY <1>3 DEF CaptureTakesTime
<1>4. CASE HealthServed \/ HealthCalled
  BY <1>4 DEF HealthServed, HealthCalled
<1>5. CASE Over \/ UNCHANGED pluginVars
  BY <1>5 DEF Over, pluginVars
<1> QED
  BY <1>1, <1>2, <1>3, <1>4, <1>5 DEF PluginsNext

\* The screenshot plugin behaves as by itself, whatever the health plugin and
\* its clients do on the thread that both share.
THEOREM SharedThreadImplements == PluginsSpec => Spec
<1>1. PluginsInit => Init
  BY DEF PluginsInit
<1>2. [PluginsNext]_pluginVars => [Next]_vars
  BY PluginsStep
<1> QED
  BY <1>1, <1>2, PTL DEF PluginsSpec, Spec

\* Hence in the server with both plugins, too, a capture releases all it held,
\* and its picture is whole, of known size and of the preferred output.
THEOREM SharedCapturesCorrect ==
    PluginsSpec => [](NothingLeaks /\ PixelsIfConnected /\ DimensionsKnown
                        /\ PreferredCaptured)
  BY SharedThreadImplements, NothingLeaksCorrect, PixelsCorrect, DimensionsCorrect,
     PreferredCorrect, PTL

-----------------------------------------------------------------------------
\* The requests of the health clients, by their paths.
HealthRequest ==
    [client : HealthClients, path : Health!Paths, url : Urls \cup {"none"},
     id : Nat \ {0}]
      \cup [client : HealthClients, path : {"setDaemonUrl"}, url : Urls,
            id : Nat \ {0}]

\* The request that libcurl works on, with the url that it asks.
Fetching ==
    [request : [client : HealthClients, path : Health!Paths, url : Urls,
                id : Nat \ {0}],
     waited : 0..Health!CurlLimit]

HealthType ==
    /\ daemon_url_ \in Urls /\ calls \in Nat
    /\ queue \in Seq(HealthRequest)
    /\ fetching \in Seq(Fetching)
    /\ waits \in [HealthClients -> Nat]
    /\ age \in [HealthClients -> 0..Health!ClientLimit]
    /\ delayed \in [HealthClients -> BOOLEAN]

\* A request belongs to the client that waits for its number.
Owned(r) == r.id <= calls /\ \A c \in HealthClients : waits[c] = r.id => r.client = c

OwnerInv ==
    /\ \A c \in HealthClients : waits[c] <= calls
    /\ \A i \in DOMAIN queue : Owned(queue[i])
    /\ fetching # <<>> => Owned(fetching[1].request)

\* libcurl asks the daemon whose url is set.
UrlInv == fetching # <<>> => fetching[1].request.url = daemon_url_

\* A call that was not delayed has waited for its own fetch only.
LoneInv ==
    \A c \in HealthClients : waits[c] # 0 /\ ~delayed[c] =>
        IF fetching = <<>> THEN age[c] = 0
        ELSE fetching[1].request.id = waits[c] /\ age[c] <= fetching[1].waited

HealthInv == HealthType /\ OwnerInv /\ UrlInv /\ LoneInv

-----------------------------------------------------------------------------
\* A step that leaves the health plugin alone keeps its invariant.
LEMMA HealthStable == HealthInv /\ UNCHANGED healthState => HealthInv'
<1> SUFFICES ASSUME HealthInv, UNCHANGED healthState
             PROVE  HealthInv'
  OBVIOUS
<1> USE DEF healthState, HealthInv
<1>1. HealthType'
  BY DEF HealthType
<1>2. OwnerInv'
  BY DEF OwnerInv, Owned
<1>3. UrlInv'
  BY DEF UrlInv
<1>4. LoneInv'
  BY DEF LoneInv
<1> QED
  BY <1>1, <1>2, <1>3, <1>4

\* What is fetched, when something is.
LEMMA FetchingType ==
    ASSUME HealthType, fetching # <<>>
    PROVE  /\ fetching[1] \in Fetching
           /\ fetching[1].request.client \in HealthClients
           /\ fetching[1].request.path \in Health!Paths
           /\ fetching[1].request.url \in Urls
           /\ fetching[1].request.id \in Nat \ {0}
           /\ fetching[1].waited \in 0..1
<1>1. fetching[1] \in Fetching
  BY EmptySeq DEF HealthType
<1> QED
  BY <1>1 DEF Fetching, Health!CurlLimit

\* The head of the queue.
LEMMA HeadType ==
    ASSUME HealthType, queue # <<>>
    PROVE  /\ Head(queue) \in HealthRequest /\ Head(queue) = queue[1]
           /\ 1 \in DOMAIN queue
           /\ Tail(queue) \in Seq(HealthRequest)
           /\ \A i \in DOMAIN Tail(queue) :
                 i + 1 \in DOMAIN queue /\ Tail(queue)[i] = queue[i + 1]
           /\ Head(queue).client \in HealthClients /\ Head(queue).id \in Nat \ {0}
           /\ Head(queue).path = "setDaemonUrl" => Head(queue).url \in Urls
<1>1. PICK q \in Seq(HealthRequest) : q = queue
  BY DEF HealthType
<1>2. PICK t \in Seq(HealthRequest) : t = Tail(q)
  BY <1>1, Dequeued
<1>3. /\ Head(q) = q[1] /\ Head(q) \in HealthRequest /\ Len(q) \in Nat \ {0}
      /\ Len(t) = Len(q) - 1 /\ \A i \in 1..(Len(q) - 1) : t[i] = q[i + 1]
  BY <1>1, <1>2, Dequeued
<1>4. 1 \in DOMAIN q /\ \A i \in DOMAIN t : i + 1 \in DOMAIN q /\ t[i] = q[i + 1]
  BY <1>3
<1>5. PICK r \in HealthRequest : r = Head(q)
  BY <1>3
<1>6. /\ r.client \in HealthClients /\ r.id \in Nat \ {0}
      /\ r.path = "setDaemonUrl" => r.url \in Urls
  BY DEF HealthRequest, Health!Paths
<1> QED
  BY <1>1, <1>2, <1>3, <1>4, <1>5, <1>6

\* The answer to the request r ends the call that waits for it, and no other.
LEMMA AnswerEnds ==
    ASSUME HealthType, OwnerInv, NEW r, NEW ok, NEW doc, NEW snapshot,
           r.client \in HealthClients, r.id \in Nat \ {0}, Owned(r), calls' = calls,
           Health!Answer(r, ok, doc, snapshot)
    PROVE  /\ waits' \in [HealthClients -> Nat]
           /\ \A c \in HealthClients : waits'[c] = 0 \/ waits'[c] = waits[c]
           /\ \A c \in HealthClients : waits'[c] <= calls'
           /\ \A c \in HealthClients : waits[c] = r.id => waits'[c] = 0
<1>1. waits' = [waits EXCEPT ![r.client] = IF @ = r.id THEN 0 ELSE @]
  BY DEF Health!Answer
<1>2. waits \in [HealthClients -> Nat] /\ calls \in Nat
  BY DEF HealthType
<1>3. \A c \in HealthClients : waits[c] <= calls /\ (waits[c] = r.id => r.client = c)
  BY DEF OwnerInv, Owned
<1> QED
  BY <1>1, <1>2, <1>3

\* A request stays owned when calls only end.
LEMMA StillOwned ==
    ASSUME NEW r, r.id \in Nat \ {0}, Owned(r), calls' = calls,
           \A c \in HealthClients : waits'[c] = 0 \/ waits'[c] = waits[c]
    PROVE  /\ r.id <= calls'
           /\ \A c \in HealthClients : waits'[c] = r.id => r.client = c
  BY DEF Owned
\* The requests that wait have numbers.
LEMMA QueueIds ==
    ASSUME HealthType
    PROVE  \A i \in DOMAIN queue : queue[i].id \in Nat \ {0}
<1>1. \A i \in DOMAIN queue : queue[i] \in HealthRequest
  BY DEF HealthType
<1> QED
  BY <1>1 DEF HealthRequest

\* A call of a client.
LEMMA CallKeeps ==
    ASSUME HealthInv, NEW c \in HealthClients, NEW path, NEW url,
           \/ path \in Health!Paths /\ url = "none"
           \/ path = "setDaemonUrl" /\ url \in Urls,
           Health!Call(c, path, url)
    PROVE  HealthInv'
<1> USE DEF HealthInv
<1>1. /\ calls \in Nat /\ waits \in [HealthClients -> Nat]
      /\ age \in [HealthClients -> 0..Health!ClientLimit]
      /\ delayed \in [HealthClients -> BOOLEAN]
      /\ daemon_url_ \in Urls /\ fetching \in Seq(Fetching)
  BY DEF HealthType
<1>2. PICK r : r = [client |-> c, path |-> path, url |-> url, id |-> calls + 1]
  OBVIOUS
<1>3. r \in HealthRequest /\ r.client = c /\ r.id = calls + 1
  BY <1>1, <1>2 DEF HealthRequest
<1>4. PICK late \in BOOLEAN : late = (queue # <<>> \/ fetching # <<>>)
  OBVIOUS
<1>5. /\ calls' = calls + 1 /\ queue' = Append(queue, r)
      /\ waits' = [waits EXCEPT ![c] = calls + 1] /\ age' = [age EXCEPT ![c] = 0]
      /\ delayed' = [delayed EXCEPT ![c] = late]
      /\ UNCHANGED <<daemon_url_, fetching>> /\ waits[c] = 0
  BY <1>2, <1>4 DEF Health!Call
<1>6. HealthType'
  <2>1. queue' \in Seq(HealthRequest)
    BY <1>3, <1>5 DEF HealthType
  <2>2. age' \in [HealthClients -> 0..Health!ClientLimit]
    BY <1>1, <1>5 DEF Health!ClientLimit
  <2> QED
    BY <1>1, <1>5, <2>1, <2>2 DEF HealthType
<1>7. OwnerInv'
  <2>1. \A d \in HealthClients : waits'[d] <= calls'
    BY <1>1, <1>5 DEF OwnerInv
  <2>2. ASSUME NEW s, s.id \in Nat \ {0}, Owned(s)
        PROVE  Owned(s)'
    BY <1>1, <1>5, <2>2 DEF Owned
  <2>3. Owned(r)'
    BY <1>1, <1>3, <1>5 DEF Owned, OwnerInv
  <2>4. ASSUME NEW i \in DOMAIN queue'
        PROVE  Owned(queue[i])'
    <3>1. CASE i \in DOMAIN queue
      <4>1. queue'[i] = queue[i]
        BY <1>3, <1>5, <3>1 DEF HealthType
      <4>2. PICK s : s = queue[i]
        OBVIOUS
      <4>3. s.id \in Nat \ {0} /\ Owned(s)
        BY <3>1, <4>2, QueueIds DEF OwnerInv
      <4>4. Owned(s)'
        BY <2>2, <4>3
      <4> QED
        BY <4>1, <4>2, <4>4 DEF Owned
    <3>2. CASE i \notin DOMAIN queue
      <4>1. queue'[i] = r
        BY <1>3, <1>5, <2>4, <3>2 DEF HealthType
      <4> QED
        BY <2>3, <4>1 DEF Owned
    <3> QED
      BY <3>1, <3>2
  <2>5. ASSUME fetching # <<>>
        PROVE  Owned(fetching[1].request)'
    <3>1. PICK s : s = fetching[1].request
      OBVIOUS
    <3>2. s.id \in Nat \ {0} /\ Owned(s)
      BY <2>5, <3>1, FetchingType DEF OwnerInv
    <3>3. Owned(s)'
      BY <2>2, <3>2
    <3> QED
      BY <1>5, <3>1, <3>3 DEF Owned
  <2> QED
    BY <1>5, <2>1, <2>4, <2>5 DEF OwnerInv
<1>8. UrlInv'
  BY <1>5 DEF UrlInv
<1>9. LoneInv'
  <2> SUFFICES ASSUME NEW d \in HealthClients, waits'[d] # 0, ~delayed'[d]
               PROVE  IF fetching = <<>> THEN age'[d] = 0
                      ELSE /\ fetching[1].request.id = waits'[d]
                           /\ age'[d] <= fetching[1].waited
    BY <1>5 DEF LoneInv
  <2>1. CASE d = c
    BY <1>1, <1>4, <1>5, <2>1
  <2>2. CASE d # c
    BY <1>1, <1>5, <2>2 DEF LoneInv
  <2> QED
    BY <2>1, <2>2
<1> QED
  BY <1>6, <1>7, <1>8, <1>9

\* The end of a call without an answer, or time that passes for a capture.
LEMMA WaitKeeps ==
    ASSUME HealthInv,
           (\E c \in HealthClients : Health!CallTimesOut(c)) \/ CaptureTakesTime
    PROVE  HealthInv'
<1> USE DEF HealthInv
<1>1. /\ calls \in Nat /\ waits \in [HealthClients -> Nat]
      /\ age \in [HealthClients -> 0..Health!ClientLimit]
      /\ delayed \in [HealthClients -> BOOLEAN]
      /\ daemon_url_ \in Urls /\ fetching \in Seq(Fetching)
      /\ queue \in Seq(HealthRequest)
  BY DEF HealthType
<1>2. UNCHANGED <<daemon_url_, queue, fetching, calls>>
  BY DEF Health!CallTimesOut, CaptureTakesTime
<1>3. /\ waits' \in [HealthClients -> Nat]
      /\ \A d \in HealthClients : waits'[d] = 0 \/ waits'[d] = waits[d]
  <2>1. CASE CaptureTakesTime
    BY <1>1, <2>1 DEF CaptureTakesTime
  <2>2. ASSUME NEW c \in HealthClients, Health!CallTimesOut(c)
        PROVE  /\ waits' \in [HealthClients -> Nat]
               /\ \A d \in HealthClients : waits'[d] = 0 \/ waits'[d] = waits[d]
    <3>1. waits' = [waits EXCEPT ![c] = 0]
      BY <2>2 DEF Health!CallTimesOut
    <3> QED
      BY <1>1, <3>1
  <2> QED
    BY <2>1, <2>2
<1>4. /\ age' \in [HealthClients -> 0..Health!ClientLimit]
      /\ delayed' \in [HealthClients -> BOOLEAN]
      /\ \A d \in HealthClients : waits'[d] # 0 /\ ~delayed'[d] =>
            ~delayed[d] /\ age'[d] = age[d]
  <2>1. CASE CaptureTakesTime
    <3>1. age' = [d \in HealthClients |-> IF waits[d] = 0 \/ age[d] = Health!ClientLimit
                                          THEN age[d] ELSE age[d] + 1]
      BY <2>1 DEF CaptureTakesTime, Health!Elapse
    <3>2. /\ delayed' = [d \in HealthClients |-> delayed[d] \/ waits[d] # 0]
          /\ waits' = waits
      BY <2>1 DEF CaptureTakesTime
    <3>3. age' \in [HealthClients -> 0..Health!ClientLimit]
      BY <1>1, <3>1 DEF Health!ClientLimit
    <3>4. delayed' \in [HealthClients -> BOOLEAN]
      BY <1>1, <3>2
    <3>5. \A d \in HealthClients : waits[d] # 0 => delayed'[d]
      BY <3>2
    <3> QED
      BY <3>2, <3>3, <3>4, <3>5
  <2>2. CASE \E c \in HealthClients : Health!CallTimesOut(c)
    BY <1>1, <2>2 DEF Health!CallTimesOut
  <2> QED
    BY <2>1, <2>2
<1>5. HealthType'
  BY <1>1, <1>2, <1>3, <1>4 DEF HealthType
<1>6. OwnerInv'
  <2>1. \A d \in HealthClients : waits'[d] <= calls'
    <3> SUFFICES ASSUME NEW d \in HealthClients
                 PROVE  waits'[d] <= calls
      BY <1>2
    <3>1. waits[d] <= calls
      BY DEF OwnerInv
    <3>2. 0 <= calls
      BY <1>1
    <3> QED
      BY <1>3, <3>1, <3>2
  <2>2. \A i \in DOMAIN queue : Owned(queue[i]) /\ queue[i].id \in Nat \ {0}
    BY QueueIds DEF OwnerInv
  <2>3. \A i \in DOMAIN queue' : Owned(queue[i])'
    BY <1>2, <1>3, <2>2 DEF Owned
  <2>4. fetching' # <<>> => Owned(fetching[1].request)'
    BY <1>2, <1>3, FetchingType DEF Owned, OwnerInv
  <2> QED
    BY <2>1, <2>3, <2>4 DEF OwnerInv
<1>7. UrlInv'
  BY <1>2 DEF UrlInv
<1>8. LoneInv'
  BY <1>2, <1>3, <1>4 DEF LoneInv
<1> QED
  BY <1>5, <1>6, <1>7, <1>8

\* setDaemonUrl() and Fetch take the request at the head of the queue.
LEMMA TakeKeeps ==
    ASSUME HealthInv, Health!setDaemonUrl \/ Health!Fetch
    PROVE  HealthInv'
<1> USE DEF HealthInv
<1>1. /\ calls \in Nat /\ waits \in [HealthClients -> Nat]
      /\ age \in [HealthClients -> 0..Health!ClientLimit]
      /\ delayed \in [HealthClients -> BOOLEAN]
      /\ daemon_url_ \in Urls
  BY DEF HealthType
<1>2. /\ fetching = <<>> /\ queue # <<>> /\ queue' = Tail(queue) /\ calls' = calls
      /\ age' = age
  BY DEF Health!setDaemonUrl, Health!Fetch, Health!Idle
<1>3. PICK r : r = Head(queue)
  OBVIOUS
<1>4. /\ r \in HealthRequest /\ r.client \in HealthClients /\ r.id \in Nat \ {0}
      /\ r = queue[1] /\ Owned(r)
      /\ r.path = "setDaemonUrl" => r.url \in Urls
  BY <1>2, <1>3, HeadType DEF OwnerInv
<1>5. queue' \in Seq(HealthRequest)
      /\ \A i \in DOMAIN queue' : i + 1 \in DOMAIN queue /\ queue'[i] = queue[i + 1]
  BY <1>2, HeadType
<1>6. /\ waits' \in [HealthClients -> Nat]
      /\ \A c \in HealthClients : waits'[c] = 0 \/ waits'[c] = waits[c]
      /\ \A c \in HealthClients : waits'[c] <= calls'
  <2>1. CASE Health!setDaemonUrl
    BY <1>2, <1>3, <1>4, <2>1, AnswerEnds DEF Health!setDaemonUrl
  <2>2. CASE Health!Fetch
    BY <1>1, <1>2, <2>2 DEF Health!Fetch, OwnerInv
  <2> QED
    BY <2>1, <2>2
<1>7. ASSUME NEW i \in DOMAIN queue'
      PROVE  Owned(queue[i])'
  <2>1. PICK s : s = queue[i + 1]
    OBVIOUS
  <2>2. Owned(s) /\ s.id \in Nat \ {0} /\ queue'[i] = s
    BY <1>5, <1>7, <2>1, QueueIds DEF OwnerInv
  <2> QED
    BY <1>2, <1>6, <2>2 DEF Owned
<1>8. CASE Health!setDaemonUrl
  <2>1. fetching' = <<>> /\ delayed' = delayed /\ daemon_url_' = r.url /\ r.url \in Urls
    BY <1>2, <1>3, <1>4, <1>8 DEF Health!setDaemonUrl
  <2>2. HealthType'
    BY <1>1, <1>2, <1>5, <1>6, <2>1 DEF HealthType
  <2>3. OwnerInv'
    BY <1>6, <1>7, <2>1 DEF OwnerInv
  <2>4. UrlInv' /\ LoneInv'
    BY <1>2, <1>6, <2>1 DEF UrlInv, LoneInv
  <2> QED
    BY <2>2, <2>3, <2>4
<1>9. CASE Health!Fetch
  <2>1. /\ fetching' = <<[request |-> [r EXCEPT !.url = daemon_url_], waited |-> 0]>>
        /\ delayed' = [c \in HealthClients |-> delayed[c] \/ waits[c] \notin {0, r.id}]
        /\ UNCHANGED <<daemon_url_, waits>> /\ r.path \in Health!Paths
    BY <1>3, <1>9 DEF Health!Fetch, Health!daemonUrl
  <2>2. PICK f : f = [request |-> [r EXCEPT !.url = daemon_url_], waited |-> 0]
    OBVIOUS
  <2>3. /\ f.request.id = r.id /\ f.request.client = r.client /\ f.waited = 0
        /\ f.request.url = daemon_url_ /\ f \in Fetching
    BY <1>1, <1>4, <2>1, <2>2 DEF HealthRequest, Fetching, Health!CurlLimit
  <2>4. /\ fetching' # <<>> /\ fetching'[1] = f /\ fetching' \in Seq(Fetching)
    BY <2>1, <2>2, <2>3
  <2>5. delayed' \in [HealthClients -> BOOLEAN]
    BY <1>1, <2>1
  <2>6. HealthType'
    BY <1>1, <1>2, <1>5, <2>1, <2>4, <2>5 DEF HealthType
  <2>7. OwnerInv'
    <3>1. Owned(f.request)'
      BY <1>2, <1>4, <2>1, <2>2, <2>3 DEF Owned
    <3>2. Owned(fetching[1].request)'
      BY <2>4, <3>1 DEF Owned
    <3> QED
      BY <1>6, <1>7, <3>2 DEF OwnerInv
  <2>8. UrlInv'
    BY <2>1, <2>3, <2>4 DEF UrlInv
  <2>9. LoneInv'
    <3> SUFFICES ASSUME NEW c \in HealthClients, waits[c] # 0, ~delayed'[c]
                 PROVE  f.request.id = waits[c] /\ age[c] <= f.waited
      BY <1>2, <2>1, <2>4 DEF LoneInv
    <3>1. ~delayed[c] /\ waits[c] = r.id
      BY <2>1
    <3>2. age[c] = 0
      BY <1>2, <3>1 DEF LoneInv
    <3> QED
      BY <2>3, <3>1, <3>2
  <2> QED
    BY <2>6, <2>7, <2>8, <2>9
<1> QED
  BY <1>8, <1>9
\* Time passes for a fetch.
LEMMA FetchWaitsKeeps ==
    ASSUME HealthInv, Health!FetchWaits
    PROVE  HealthInv'
<1> USE DEF HealthInv
<1>1. /\ calls \in Nat /\ waits \in [HealthClients -> Nat]
      /\ age \in [HealthClients -> 0..2]
      /\ delayed \in [HealthClients -> BOOLEAN]
      /\ daemon_url_ \in Urls /\ queue \in Seq(HealthRequest)
  BY DEF HealthType, Health!ClientLimit
<1>2. fetching # <<>> /\ fetching[1].waited < 1
  BY DEF Health!FetchWaits, Health!Idle, Health!CurlLimit
<1>3. PICK f \in Fetching : f = fetching[1]
  BY <1>2, FetchingType
<1>4. PICK g : g = [f EXCEPT !.waited = @ + 1]
  OBVIOUS
<1>5. g \in Fetching /\ g.request = f.request /\ g.waited = f.waited + 1 /\ f.waited \in Nat
  BY <1>2, <1>3, <1>4 DEF Fetching, Health!CurlLimit
<1>6. fetching' = <<g>> /\ UNCHANGED <<daemon_url_, queue, waits, delayed, calls>>
  BY <1>3, <1>4 DEF Health!FetchWaits
<1>7. fetching' \in Seq(Fetching) /\ fetching' # <<>> /\ fetching'[1] = g
  BY <1>5, <1>6
<1>8. age' = [c \in HealthClients |-> IF waits[c] = 0 \/ age[c] = 2
                                      THEN age[c] ELSE age[c] + 1]
  BY DEF Health!FetchWaits, Health!Elapse, Health!ClientLimit
<1>9. age' \in [HealthClients -> 0..2]
  BY <1>1, <1>8
<1>10. HealthType'
  BY <1>1, <1>6, <1>7, <1>9 DEF HealthType, Health!ClientLimit
<1>11. OwnerInv'
  <2>1. Owned(f.request)
    BY <1>2, <1>3 DEF OwnerInv
  <2>2. Owned(fetching[1].request)'
    BY <1>5, <1>6, <1>7, <2>1 DEF Owned
  <2> QED
    BY <1>6, <2>2 DEF OwnerInv, Owned
<1>12. UrlInv'
  BY <1>2, <1>3, <1>5, <1>6, <1>7 DEF UrlInv
<1>13. LoneInv'
  <2> SUFFICES ASSUME NEW c \in HealthClients, waits[c] # 0, ~delayed[c]
               PROVE  g.request.id = waits[c] /\ age'[c] <= g.waited
    BY <1>6, <1>7 DEF LoneInv
  <2>1. f.request.id = waits[c] /\ age[c] <= f.waited
    BY <1>2, <1>3 DEF LoneInv
  <2>2. age'[c] <= age[c] + 1
    BY <1>1, <1>8
  <2> QED
    BY <1>1, <1>5, <1>9, <2>1, <2>2
<1> QED
  BY <1>10, <1>11, <1>12, <1>13

\* The end of a fetch, with a document or without.
LEMMA FetchReturnsKeeps ==
    ASSUME HealthInv, fetching # <<>>, NEW ok, NEW doc, NEW snapshot,
           Health!FetchReturns(ok, doc, snapshot)
    PROVE  HealthInv'
<1> USE DEF HealthInv
<1>1. PICK r : r = fetching[1].request
  OBVIOUS
<1>2. r.client \in HealthClients /\ r.id \in Nat \ {0} /\ Owned(r)
  BY <1>1, FetchingType DEF OwnerInv
<1>3. fetching' = <<>> /\ UNCHANGED <<daemon_url_, queue, age, delayed, calls>>
  BY DEF Health!FetchReturns
<1>4. /\ waits' \in [HealthClients -> Nat]
      /\ \A c \in HealthClients : waits'[c] = 0 \/ waits'[c] = waits[c]
      /\ \A c \in HealthClients : waits'[c] <= calls'
      /\ \A c \in HealthClients : waits[c] = r.id => waits'[c] = 0
  BY <1>1, <1>2, <1>3, AnswerEnds DEF Health!FetchReturns
<1>5. HealthType'
  BY <1>3, <1>4 DEF HealthType
<1>6. OwnerInv'
  <2>1. \A i \in DOMAIN queue : Owned(queue[i]) /\ queue[i].id \in Nat \ {0}
    BY QueueIds DEF OwnerInv
  <2>2. \A i \in DOMAIN queue' : Owned(queue[i])'
    BY <1>3, <1>4, <2>1 DEF Owned
  <2> QED
    BY <1>3, <1>4, <2>2 DEF OwnerInv
<1>7. UrlInv'
  BY <1>3 DEF UrlInv
<1>8. LoneInv'
  <2>1. \A c \in HealthClients : waits'[c] # 0 => delayed[c]
    BY <1>1, <1>4 DEF LoneInv
  <2> QED
    BY <1>3, <2>1 DEF LoneInv
<1> QED
  BY <1>5, <1>6, <1>7, <1>8

\* Every step of the server keeps the health plugin's invariant.
LEMMA NextHealth == HealthInv /\ [PluginsNext]_pluginVars => HealthInv'
<1> SUFFICES ASSUME HealthInv, [PluginsNext]_pluginVars
             PROVE  HealthInv'
  OBVIOUS
<1>1. CASE CaptureBegins \/ CaptureGoesOn \/ CompositorServes \/ CompositorChanges
  BY <1>1, HealthStable DEF CaptureBegins, CaptureGoesOn, CompositorServes,
     CompositorChanges, HealthUnchanged
<1>2. CASE CaptureTakesTime
  BY <1>2, WaitKeeps
<1>3. CASE HealthServed
  <2>1. CASE Health!setDaemonUrl \/ Health!Fetch
    BY <2>1, TakeKeeps
  <2>2. CASE Health!FetchWaits
    BY <2>2, FetchWaitsKeeps
  <2>3. CASE Health!FetchFails
    BY <2>3, FetchReturnsKeeps DEF Health!FetchFails, Health!Idle
  <2>4. ASSUME NEW doc \in Documents, Health!FetchAnswered(doc)
        PROVE  HealthInv'
    BY <2>4, FetchReturnsKeeps DEF Health!FetchAnswered, Health!Idle
  <2> QED
    BY <1>3, <2>1, <2>2, <2>3, <2>4 DEF HealthServed, Health!Handler
<1>4. CASE HealthCalled
  <2>1. PICK c \in HealthClients :
           \/ \E p \in Health!Paths : Health!GetSnapshot(c, p)
           \/ \E u \in Urls : Health!SetDaemonUrl(c, u)
           \/ Health!CallTimesOut(c)
    BY <1>4 DEF HealthCalled, Health!Clients
  <2>2. ASSUME NEW p \in Health!Paths, Health!GetSnapshot(c, p)
        PROVE  HealthInv'
    BY <2>2, CallKeeps DEF Health!GetSnapshot
  <2>3. ASSUME NEW u \in Urls, Health!SetDaemonUrl(c, u)
        PROVE  HealthInv'
    BY <2>3, CallKeeps DEF Health!SetDaemonUrl
  <2>4. CASE Health!CallTimesOut(c)
    BY <2>4, WaitKeeps
  <2> QED
    BY <2>1, <2>2, <2>3, <2>4
<1>5. CASE Over \/ UNCHANGED pluginVars
  BY <1>5, HealthStable DEF Over, pluginVars, healthState
<1> QED
  BY <1>1, <1>2, <1>3, <1>4, <1>5 DEF PluginsNext

\* It holds when the server starts.
LEMMA InitHealth == PluginsInit => HealthInv
<1> SUFFICES ASSUME PluginsInit
             PROVE  HealthInv
  OBVIOUS
<1> USE DEF PluginsInit, Health!HealthInit
<1>1. queue \in Seq(HealthRequest) /\ fetching \in Seq(Fetching)
  OBVIOUS
<1>2. age \in [HealthClients -> 0..Health!ClientLimit]
  BY DEF Health!ClientLimit
<1>3. HealthType
  BY <1>1, <1>2, HealthAssumption DEF HealthType
<1>4. OwnerInv
  BY DEF OwnerInv
<1>5. UrlInv /\ LoneInv
  BY DEF UrlInv, LoneInv
<1> QED
  BY <1>3, <1>4, <1>5 DEF HealthInv

\* It always holds.
LEMMA HealthCorrect == PluginsSpec => []HealthInv
<1>1. PluginsInit => HealthInv
  BY InitHealth
<1>2. HealthInv /\ [PluginsNext]_pluginVars => HealthInv'
  BY NextHealth
<1> QED
  BY <1>1, <1>2, PTL DEF PluginsSpec

\* A health call that neither another request nor a screenshot delays never
\* runs into the client's time limit.
THEOREM TimeoutsCorrect == PluginsSpec => []NoLoneTimeout
<1>1. HealthInv => NoLoneTimeout
  <2> SUFFICES ASSUME HealthInv, NEW c \in HealthClients, waits[c] # 0,
                      age[c] = Health!ClientLimit, ~delayed[c]
               PROVE  FALSE
    BY DEF NoLoneTimeout, Health!NoLoneTimeout
  <2>1. age[c] = 2
    BY DEF Health!ClientLimit
  <2>2. CASE fetching = <<>>
    BY <2>1, <2>2 DEF HealthInv, LoneInv
  <2>3. CASE fetching # <<>>
    <3>1. fetching[1].waited \in 0..1
      BY <2>3, FetchingType DEF HealthInv
    <3>2. age[c] <= fetching[1].waited
      BY <2>3 DEF HealthInv, LoneInv
    <3> QED
      BY <2>1, <3>1, <3>2
  <2> QED
    BY <2>2, <2>3
<1> QED
  BY <1>1, HealthCorrect, PTL

-----------------------------------------------------------------------------
\* A step that gives no answer makes no snapshot.
LEMMA NoReply ==
    ASSUME reply' = <<>>
    PROVE  Health!Snapshots' = {}
  BY DEF Health!Snapshots

\* An answer with the document doc, as a client decodes it.
Decoded(r, ok, doc, snapshot) ==
    [path |-> r.path, ok |-> ok, source |-> r.url, doc |-> doc,
     sections |-> IF ok /\ r.path \in Health!Paths
                  THEN Health!decode(r.path, snapshot) ELSE <<>>]

\* The only snapshot is the answer that is given.
LEMMA OneReply ==
    ASSUME NEW r, NEW ok \in BOOLEAN, NEW doc, NEW snapshot,
           Health!Answer(r, ok, doc, snapshot),
           NEW a \in Health!Snapshots'
    PROVE  a = Decoded(r, ok, doc, snapshot) /\ ok /\ r.path \in Health!Paths
<1>1. PICK b : b = Decoded(r, ok, doc, snapshot)
  OBVIOUS
<1>2. b.path = r.path /\ b.ok = ok
  BY <1>1 DEF Decoded
<1>3. reply' = <<b>> \/ reply' = <<>>
  BY <1>1 DEF Health!Answer, Decoded
<1>4. a \in {reply'[i] : i \in DOMAIN reply'} /\ a.ok /\ a.path \in Health!Paths
  BY DEF Health!Snapshots
<1>5. a = b
  BY <1>3, <1>4
<1> QED
  BY <1>1, <1>2, <1>4, <1>5

\* A document that no fill function refuses has the keys of every section.
LEMMA NotThrown ==
    ASSUME NEW path \in Health!Paths, NEW doc, ~Health!HandlerThrows(path, doc)
    PROVE  /\ \A s \in Health!Sections(path) : Health!Required(s) \subseteq doc.has
           /\ path = "metrics" => Health!TopLevel \subseteq doc.has
<1>1. CASE path = "metrics"
  <2>1. Health!TopLevel \subseteq doc.has
    BY <1>1 DEF Health!HandlerThrows
  <2>2. ASSUME NEW s \in Health!Sections(path)
        PROVE  Health!Required(s) \subseteq doc.has
    <3>1. ~Health!Throws(s, Health!Part(s, doc))
      BY <1>1 DEF Health!HandlerThrows
    <3>2. Health!Required(s) \subseteq Health!Part(s, doc).has
      BY <3>1 DEF Health!Throws
    <3>3. Health!Part(s, doc).has = doc.has
      BY DEF Health!Part
    <3> QED
      BY <3>2, <3>3
  <2> QED
    BY <2>1, <2>2
<1>2. CASE path # "metrics"
  <2>1. Health!Sections(path) = {path}
    BY <1>2 DEF Health!Sections
  <2>2. ~Health!Throws(path, doc)
    BY <1>2 DEF Health!HandlerThrows
  <2> QED
    BY <1>2, <2>1, <2>2 DEF Health!Throws
<1> QED
  BY <1>1, <1>2

\* Which steps answer, and with what.
LEMMA AnsweringSteps ==
    ASSUME HealthInv, [PluginsNext]_pluginVars
    PROVE  \/ UNCHANGED <<reply, daemon_url_>>
           \/ reply' = <<>>
           \/ queue # <<>> /\ Head(queue).path = "setDaemonUrl"
                /\ Health!Answer(Head(queue), TRUE, Health!NoDocument, <<>>)
           \/ /\ fetching # <<>> /\ daemon_url_' = daemon_url_
              /\ \/ Health!Answer(fetching[1].request, FALSE, Health!NoDocument, <<>>)
                 \/ \E doc \in Documents :
                      LET path == fetching[1].request.path
                      IN  Health!Answer(fetching[1].request,
                             ~Health!HandlerThrows(path, doc), doc,
                             [s \in Health!Sections(path) |-> Health!fill(s, doc)])
<1>1. CASE CaptureBegins \/ CaptureGoesOn \/ CompositorServes \/ CompositorChanges
             \/ CaptureTakesTime
  BY <1>1 DEF CaptureBegins, CaptureGoesOn, CompositorServes,
     CompositorChanges, HealthUnchanged, CaptureTakesTime
<1>2. CASE HealthServed
  <2>1. CASE Health!setDaemonUrl
    BY <2>1 DEF Health!setDaemonUrl
  <2>2. CASE Health!Fetch \/ Health!FetchWaits
    BY <2>2 DEF Health!Fetch, Health!FetchWaits
  <2>3. CASE Health!FetchFails
    BY <2>3 DEF Health!FetchFails, Health!FetchReturns, Health!Idle
  <2>4. ASSUME NEW doc \in Documents, Health!FetchAnswered(doc)
        PROVE  /\ fetching # <<>> /\ daemon_url_' = daemon_url_
               /\ LET path == fetching[1].request.path
                  IN  Health!Answer(fetching[1].request,
                         ~Health!HandlerThrows(path, doc), doc,
                         [s \in Health!Sections(path) |-> Health!fill(s, doc)])
    BY <2>4 DEF Health!FetchAnswered, Health!FetchReturns, Health!Idle
  <2> QED
    BY <1>2, <2>1, <2>2, <2>3, <2>4 DEF HealthServed, Health!Handler
<1>3. CASE HealthCalled
  BY <1>3 DEF HealthCalled, Health!Clients, Health!GetSnapshot, Health!SetDaemonUrl,
     Health!Call, Health!CallTimesOut
<1>4. CASE Over \/ UNCHANGED pluginVars
  BY <1>4 DEF Over, pluginVars, healthState
<1> QED
  BY <1>1, <1>2, <1>3, <1>4 DEF PluginsNext
\* A snapshot that a step gives is made of a document that the handler accepted,
\* and of the daemon whose url is set.
LEMMA NewSnapshots ==
    ASSUME HealthInv, [PluginsNext]_pluginVars, NEW a \in Health!Snapshots',
           ~UNCHANGED <<reply, daemon_url_>>
    PROVE  /\ a.path \in Health!Paths /\ a.source = daemon_url_'
           /\ a.doc \in Documents /\ ~Health!HandlerThrows(a.path, a.doc)
           /\ a.sections = [s \in Health!Sections(a.path) |-> Health!fill(s, a.doc)]
<1>1. reply' # <<>>
  BY NoReply
<1>2. ASSUME Health!Answer(Head(queue), TRUE, Health!NoDocument, <<>>)
      PROVE  Head(queue).path # "setDaemonUrl"
  BY <1>2, OneReply DEF Health!Paths
<1>3. ~Health!Answer(fetching[1].request, FALSE, Health!NoDocument, <<>>)
  BY OneReply
<1>4. /\ fetching # <<>> /\ daemon_url_' = daemon_url_
      /\ \E doc \in Documents :
            LET path == fetching[1].request.path
            IN  Health!Answer(fetching[1].request,
                   ~Health!HandlerThrows(path, doc), doc,
                   [s \in Health!Sections(path) |-> Health!fill(s, doc)])
  BY <1>1, <1>2, <1>3, AnsweringSteps
<1>5. PICK r : r = fetching[1].request
  OBVIOUS
<1>6. PICK doc \in Documents :
         Health!Answer(r, ~Health!HandlerThrows(r.path, doc), doc,
                       [s \in Health!Sections(r.path) |-> Health!fill(s, doc)])
  BY <1>4, <1>5
<1>7. PICK snapshot :
         snapshot = [s \in Health!Sections(r.path) |-> Health!fill(s, doc)]
  OBVIOUS
<1>8. PICK ok \in BOOLEAN : ok = ~Health!HandlerThrows(r.path, doc)
  OBVIOUS
<1>9. Health!Answer(r, ok, doc, snapshot)
  BY <1>6, <1>7, <1>8
<1>10. a = Decoded(r, ok, doc, snapshot) /\ ok /\ r.path \in Health!Paths
  BY <1>9, OneReply
<1>11. /\ a.path = r.path /\ a.source = r.url /\ a.doc = doc
       /\ a.sections = Health!decode(r.path, snapshot)
  BY <1>10 DEF Decoded
<1>12. Health!decode(r.path, snapshot) = snapshot
  BY <1>7 DEF Health!decode
<1>13. r.url = daemon_url_'
  BY <1>4, <1>5 DEF HealthInv, UrlInv
<1> QED
  BY <1>7, <1>8, <1>10, <1>11, <1>12, <1>13

\* A step that changes neither the reply nor the url leaves the snapshots.
LEMMA SameSnapshots ==
    ASSUME UNCHANGED <<reply, daemon_url_>>
    PROVE  Health!Snapshots' = Health!Snapshots
  BY DEF Health!Snapshots

\* At the start nobody has an answer.
LEMMA InitReply == PluginsInit => Health!Snapshots = {}
  BY DEF PluginsInit, Health!HealthInit, Health!Snapshots

\* A snapshot has every section of its request, each from the one document with
\* all the keys that its fill function asks for: whatever documents the daemons
\* send, a client never gets a part of a snapshot.
THEOREM CompleteCorrect == PluginsSpec => []CompleteOrError
<1>1. PluginsInit => CompleteOrError
  BY InitReply DEF CompleteOrError, Health!CompleteOrError
<1>2. ASSUME HealthInv, CompleteOrError, [PluginsNext]_pluginVars
      PROVE  CompleteOrError'
  <2> SUFFICES ASSUME NEW a \in Health!Snapshots'
               PROVE  /\ DOMAIN a.sections = Health!Sections(a.path)
                      /\ \A s \in Health!Sections(a.path) :
                            Health!Required(s) \subseteq a.doc.has
                      /\ a.path = "metrics" => Health!TopLevel \subseteq a.doc.has
    BY DEF CompleteOrError, Health!CompleteOrError
  <2>1. CASE UNCHANGED <<reply, daemon_url_>>
    BY <1>2, <2>1, SameSnapshots DEF CompleteOrError, Health!CompleteOrError
  <2>2. CASE ~UNCHANGED <<reply, daemon_url_>>
    <3>1. /\ a.path \in Health!Paths /\ ~Health!HandlerThrows(a.path, a.doc)
          /\ a.sections = [s \in Health!Sections(a.path) |-> Health!fill(s, a.doc)]
      BY <1>2, <2>2, NewSnapshots
    <3>2. DOMAIN a.sections = Health!Sections(a.path)
      BY <3>1
    <3> QED
      BY <3>1, <3>2, NotThrown
  <2> QED
    BY <2>1, <2>2
<1> QED
  BY <1>1, <1>2, HealthCorrect, PTL DEF PluginsSpec

\* A snapshot is of the daemon whose url was set last, by whichever client:
\* while libcurl works nobody sets another.
THEOREM DaemonCorrect == PluginsSpec => []FromCurrentDaemon
<1>1. PluginsInit => FromCurrentDaemon
  BY InitReply DEF FromCurrentDaemon, Health!FromCurrentDaemon
<1>2. ASSUME HealthInv, FromCurrentDaemon, [PluginsNext]_pluginVars
      PROVE  FromCurrentDaemon'
  <2> SUFFICES ASSUME NEW a \in Health!Snapshots'
               PROVE  a.source = daemon_url_'
    BY DEF FromCurrentDaemon, Health!FromCurrentDaemon
  <2>1. CASE UNCHANGED <<reply, daemon_url_>>
    BY <1>2, <2>1, SameSnapshots DEF FromCurrentDaemon, Health!FromCurrentDaemon
  <2>2. CASE ~UNCHANGED <<reply, daemon_url_>>
    BY <1>2, <2>2, NewSnapshots
  <2> QED
    BY <2>1, <2>2
<1> QED
  BY <1>1, <1>2, HealthCorrect, PTL DEF PluginsSpec
================================================================================
