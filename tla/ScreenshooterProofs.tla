--------------------------- MODULE ScreenshooterProofs ---------------------------
(***************************************************************************)
(* capture() against a compositor that may lack any global, gain an output *)
(* at any time and go away at any time, for every set of outputs and every *)
(* order of announcement.                                                  *)
(*                                                                         *)
(* HeldInv says what capture() holds at each step, hence what its cleanup  *)
(* leaves. ShootInv follows the request to shoot through both streams: it  *)
(* is answered once, and after the picture was written; PixelsIfConnected  *)
(* rests on it. DimensionsKnown and PreferredCaptured need the protocol of *)
(* the two roundtrips, as long as the compositor is steady: RoundInv,      *)
(* which callback, global and mode is in which stream, in what order, and  *)
(* FlowInv, that every output announced is bound and every output bound    *)
(* has its mode on the way or in its place when the second roundtrip ends. *)
(***************************************************************************)
EXTENDS WestonScreenshooter, SequenceTheorems, TLAPS

Bindable == Outputs \cup {"shooter", "shm"}
RequestTypes == {"get_registry", "bind", "sync", "shoot"}
Events == [type : {"global"}, arg : Bindable] \cup [type : {"geometry", "mode"}, arg : Outputs]
            \cup [type : {"callback", "done"}, arg : {None}]
Requests == [type : RequestTypes, arg : Bindable \cup {None}]

Pcs == {"idle", "round1", "round2", "select", "memfd", "map", "shoot", "cleanup"}

ScreenType ==
    /\ pc \in Pcs /\ broken \in BOOLEAN /\ finished \in BOOLEAN
    /\ toServer \in Seq(Requests) /\ toClient \in Seq(Events)
    /\ globals \in Seq(Bindable) /\ outputs \in Seq(Outputs)
    /\ target \in Outputs \cup {None}
    /\ memory \in {None, "blank", "pixels"}
    /\ hotplugs \in Nat

\* Some message of the stream q is of type t; there is at most one; it is the
\* last message; and none of type t comes after one of type u.
Has(q, t) == \E i \in DOMAIN q : q[i].type = t
Once(q, t) == \A i, j \in DOMAIN q : q[i].type = t /\ q[j].type = t => i = j
Ends(q, t) == \A i \in DOMAIN q : q[i].type = t => i = Len(q)
Before(q, t, u) ==
    \A i, j \in DOMAIN q : q[i].type = t /\ q[j].type = u => i < j

\* What capture() holds besides the proxies that Cleanup destroys.
Extra ==
    IF pc = "map" THEN {"fd"}
    ELSE IF pc = "shoot" THEN {"mapping", "buffer"} ELSE {}

HeldInv ==
    /\ held \subseteq Range(outputs) \cup {"shm", "shooter", "registry", "display"}
                        \cup Extra
    /\ pc = "idle" => held = {}
    /\ memory # None => pc = "shoot"

\* The request to shoot is answered once, and the answer follows the picture.
ShootInv ==
    /\ finished => pc \in {"shoot", "cleanup", "idle"}
    /\ finished /\ pc = "shoot" => memory = "pixels"
    /\ Has(toServer, "shoot") =>
          \/ pc = "shoot" /\ ~finished /\ ~Has(toClient, "done")
          \/ pc = "cleanup" /\ broken
    /\ Has(toClient, "done") =>
          pc = "shoot" /\ ~broken /\ ~finished /\ memory = "pixels"
    /\ Once(toServer, "shoot") /\ Once(toClient, "done")
    /\ PixelsIfConnected

\* A compositor that stays, with the outputs that it had.
Steady == ~broken /\ hotplugs = 0

\* The order of requests and answers in the two roundtrips.
Rounds ==
    /\ Has(toServer, "get_registry") =>
          /\ pc = "round1" /\ toClient = <<>>
          /\ toServer = <<Msg("get_registry", None), Msg("sync", None)>>
    /\ Has(toServer, "sync") => ~Has(toClient, "callback")
    /\ Once(toServer, "sync") /\ Once(toClient, "callback")
    /\ Before(toClient, "global", "callback")
    /\ pc = "round2" =>
          /\ Ends(toServer, "sync") /\ Ends(toClient, "callback")
          /\ Has(toClient, "callback") => toServer = <<>>
          /\ ~Has(toClient, "global")

RoundInv == Steady /\ pc \in {"round1", "round2"} => Rounds

\* Nothing that the compositor was asked for, or has sent, is lost.
Flow ==
    /\ \A g \in Range(globals) \cap Outputs :
          \/ g \in Range(outputs) \/ Msg("global", g) \in Range(toClient)
          \/ Has(toServer, "get_registry")
    /\ \A o \in Range(outputs) :
          \/ Msg("bind", o) \in Range(toServer)
          \/ /\ o \in models \/ Msg("geometry", o) \in Range(toClient)
             /\ o \in modes \/ Msg("mode", o) \in Range(toClient)
    /\ pc = "select" => toClient = <<>> /\ toServer = <<>>

FlowInv == Steady /\ pc \in {"round1", "round2", "select"} => Flow

-----------------------------------------------------------------------------
\* Taking the first message of a stream leaves the others, one place further to
\* the front.
LEMMA Dequeued ==
    ASSUME NEW S, NEW q \in Seq(S), q # <<>>
    PROVE  /\ Head(q) = q[1] /\ Head(q) \in S /\ Tail(q) \in Seq(S)
           /\ Len(q) \in Nat \ {0} /\ Len(Tail(q)) = Len(q) - 1
           /\ \A i \in 1..(Len(q) - 1) : Tail(q)[i] = q[i + 1]
           /\ Range(q) = {Head(q)} \cup Range(Tail(q))
<1>1. /\ Head(q) = q[1] /\ Head(q) \in S /\ Tail(q) \in Seq(S)
      /\ Len(q) \in Nat \ {0} /\ Len(Tail(q)) = Len(q) - 1
      /\ \A i \in 1..(Len(q) - 1) : Tail(q)[i] = q[i + 1]
  BY EmptySeq
<1>2. Range(q) = {q[i] : i \in 1..Len(q)}
  BY DEF Range
<1>3. Range(Tail(q)) = {Tail(q)[i] : i \in 1..(Len(q) - 1)}
  <2>1. PICK t \in Seq(S) : t = Tail(q)
    BY <1>1
  <2>2. DOMAIN t = 1..(Len(q) - 1)
    BY <1>1, <2>1
  <2> QED
    BY <2>1, <2>2 DEF Range
<1>4. ASSUME NEW i \in 1..Len(q)
      PROVE  q[i] \in {Head(q)} \cup Range(Tail(q))
  <2>1. CASE i = 1
    BY <2>1, <1>1
  <2>2. CASE i # 1
    <3>1. i - 1 \in 1..(Len(q) - 1) /\ (i - 1) + 1 = i
      BY <2>2, <1>1
    <3> QED
      BY <3>1, <1>1, <1>3
  <2> QED
    BY <2>1, <2>2
<1>5. \A i \in 1..(Len(q) - 1) : i + 1 \in 1..Len(q)
  BY <1>1
<1>6. Range(Tail(q)) \subseteq Range(q)
  BY <1>1, <1>2, <1>3, <1>5
<1>7. Head(q) \in Range(q)
  BY <1>1, <1>2
<1> QED
  BY <1>1, <1>2, <1>4, <1>6, <1>7

\* Appending a message leaves the others in their places.
LEMMA Appended ==
    ASSUME NEW S, NEW q \in Seq(S), NEW m \in S
    PROVE  /\ Append(q, m) \in Seq(S) /\ Len(Append(q, m)) = Len(q) + 1
           /\ \A i \in 1..Len(q) : Append(q, m)[i] = q[i]
           /\ Append(q, m)[Len(q) + 1] = m
           /\ Range(Append(q, m)) = Range(q) \cup {m}
<1>1. /\ Append(q, m) \in Seq(S) /\ Len(Append(q, m)) = Len(q) + 1
      /\ \A i \in 1..Len(q) : Append(q, m)[i] = q[i]
      /\ Append(q, m)[Len(q) + 1] = m /\ Len(q) \in Nat
  BY AppendProperties
<1>2. /\ Range(q) = {q[i] : i \in 1..Len(q)}
      /\ Range(Append(q, m)) = {Append(q, m)[i] : i \in 1..(Len(q) + 1)}
  BY <1>1 DEF Range
<1>3. \A i \in 1..(Len(q) + 1) : i \in 1..Len(q) \/ i = Len(q) + 1
  BY <1>1
<1>4. Range(Append(q, m)) \subseteq Range(q) \cup {m}
  BY <1>1, <1>2, <1>3
<1>5. Range(q) \cup {m} \subseteq Range(Append(q, m))
  <2>1. \A i \in 1..Len(q) : i \in 1..(Len(q) + 1)
    BY <1>1
  <2>2. Len(q) + 1 \in 1..(Len(q) + 1)
    BY <1>1
  <2> QED
    BY <1>1, <1>2, <2>1, <2>2
<1> QED
  BY <1>1, <1>4, <1>5

\* Answers come after what was sent before them.
LEMMA Concatenated ==
    ASSUME NEW S, NEW q \in Seq(S), NEW r \in Seq(S)
    PROVE  /\ q \o r \in Seq(S) /\ Len(q \o r) = Len(q) + Len(r)
           /\ \A i \in 1..Len(q) : (q \o r)[i] = q[i]
           /\ \A i \in 1..Len(r) : (q \o r)[Len(q) + i] = r[i]
           /\ Range(q \o r) = Range(q) \cup Range(r)
<1>1. /\ q \o r \in Seq(S) /\ Len(q \o r) = Len(q) + Len(r)
      /\ \A i \in 1..(Len(q) + Len(r)) :
            (q \o r)[i] = IF i <= Len(q) THEN q[i] ELSE r[i - Len(q)]
      /\ Len(q) \in Nat /\ Len(r) \in Nat
  BY ConcatProperties
<1>2. ASSUME NEW i \in 1..Len(q)
      PROVE  i \in 1..(Len(q) + Len(r)) /\ (q \o r)[i] = q[i]
  BY <1>1
<1>3. ASSUME NEW i \in 1..Len(r)
      PROVE  Len(q) + i \in 1..(Len(q) + Len(r)) /\ (q \o r)[Len(q) + i] = r[i]
  <2>1. Len(q) + i \in 1..(Len(q) + Len(r)) /\ ~(Len(q) + i <= Len(q))
        /\ Len(q) + i - Len(q) = i
    BY <1>1
  <2> QED
    BY <1>1, <2>1
<1>4. /\ Range(q) = {q[i] : i \in 1..Len(q)} /\ Range(r) = {r[i] : i \in 1..Len(r)}
      /\ Range(q \o r) = {(q \o r)[i] : i \in 1..(Len(q) + Len(r))}
  BY <1>1 DEF Range
<1>5. ASSUME NEW i \in 1..(Len(q) + Len(r))
      PROVE  (q \o r)[i] \in Range(q) \cup Range(r)
  <2>1. CASE i <= Len(q)
    BY <2>1, <1>1, <1>4
  <2>2. CASE ~(i <= Len(q))
    <3>1. i - Len(q) \in 1..Len(r)
      BY <2>2, <1>1
    <3> QED
      BY <2>2, <3>1, <1>1, <1>4
  <2> QED
    BY <2>1, <2>2
<1>6. Range(q) \subseteq Range(q \o r)
  BY <1>2, <1>4
<1>7. Range(r) \subseteq Range(q \o r)
  BY <1>3, <1>4
<1>8. Range(q \o r) \subseteq Range(q) \cup Range(r)
  BY <1>4, <1>5
<1>9. Range(q \o r) = Range(q) \cup Range(r)
  BY <1>6, <1>7, <1>8, Zenon
<1> QED
  BY <1>1, <1>2, <1>3, <1>9

-----------------------------------------------------------------------------
\* The messages that are sent are of their stream's types.
LEMMA MessageTypes ==
    /\ \A g \in Bindable : Msg("global", g) \in Events /\ Msg("bind", g) \in Requests
    /\ \A o \in Outputs : /\ Msg("geometry", o) \in Events
                          /\ Msg("mode", o) \in Events
                          /\ Msg("shoot", o) \in Requests
    /\ Msg("callback", None) \in Events /\ Msg("done", None) \in Events
    /\ Msg("get_registry", None) \in Requests /\ Msg("sync", None) \in Requests
  BY DEF Msg, Events, Requests, RequestTypes, Bindable, None

\* An event that is dispatched is taken from the stream.
LEMMA DispatchType ==
    ASSUME ScreenType, NEW t, Dispatch(t)
    PROVE  /\ toClient' \in Seq(Events) /\ Head(toClient) \in Events
           /\ Head(toClient).type = t /\ toClient # <<>>
           /\ pc \in {"round1", "round2", "shoot"} /\ ~broken
  BY Dequeued DEF Dispatch, Dispatching, ScreenType

\* A request that is served is taken from the stream.
LEMMA RequestType ==
    ASSUME ScreenType, NEW t, Request(t)
    PROVE  /\ toServer' \in Seq(Requests) /\ Head(toServer) \in Requests
           /\ Head(toServer).type = t /\ toServer # <<>>
           /\ pc # "idle" /\ ~broken
  BY Dequeued DEF Request, Connected, ScreenType

\* What the compositor answers extends the stream.
LEMMA AnswerType ==
    ASSUME ScreenType, NEW events \in Seq(Events), Answer(events)
    PROVE  toClient' \in Seq(Events)
  BY Concatenated DEF Answer, ScreenType

\* The globals are announced one by one.
LEMMA AnnouncementType ==
    ASSUME ScreenType
    PROVE  [i \in DOMAIN globals |-> Msg("global", globals[i])] \in Seq(Events)
<1>1. /\ Len(globals) \in Nat /\ DOMAIN globals = 1..Len(globals)
      /\ \A i \in 1..Len(globals) : globals[i] \in Bindable
  BY DEF ScreenType
<1>2. \A i \in 1..Len(globals) : Msg("global", globals[i]) \in Events
  BY <1>1, MessageTypes
<1> QED
  BY <1>1, <1>2, IsASeq

\* Every step keeps the state well typed.
LEMMA NextType == ScreenType /\ [Next]_vars => ScreenType'
<1> SUFFICES ASSUME ScreenType, [Next]_vars
             PROVE  ScreenType'
  OBVIOUS
<1> USE DEF boundVars, resultVars, infoVars, streamVars
<1>1. CASE ConnectFails
  BY <1>1 DEF ConnectFails, ScreenType, None
<1>2. CASE Connect
  <2>1. <<Msg("get_registry", None), Msg("sync", None)>> \in Seq(Requests)
    BY MessageTypes
  <2>2. toServer' \in Seq(Requests) /\ toClient' \in Seq(Events)
        /\ outputs' \in Seq(Outputs)
    BY <1>2, <2>1 DEF Connect
  <2>3. pc' \in Pcs /\ target' \in Outputs \cup {None}
    BY <1>2 DEF Connect, Pcs
  <2> QED
    BY <1>2, <2>2, <2>3 DEF Connect, ScreenType
<1>3. CASE OnGlobal
  <2>1. /\ toClient' \in Seq(Events) /\ Head(toClient) \in Events
        /\ Head(toClient).type = "global"
    BY <1>3, DispatchType DEF OnGlobal
  <2>2. PICK g \in Bindable : g = Head(toClient).arg
    BY <2>1 DEF Events
  <2>3. toServer' \in Seq(Requests)
    BY <1>3, <2>2, MessageTypes DEF OnGlobal, ScreenType
  <2>4. outputs' \in Seq(Outputs)
    BY <1>3, <2>2 DEF OnGlobal, ScreenType
  <2> QED
    BY <1>3, <2>1, <2>3, <2>4 DEF OnGlobal, ScreenType
<1>4. CASE OnGeometry
  BY <1>4, DispatchType DEF OnGeometry, ScreenType
<1>5. CASE OnMode
  BY <1>5, DispatchType DEF OnMode, ScreenType
<1>6. CASE OnShootDone
  BY <1>6, DispatchType DEF OnShootDone, ScreenType
<1>7. CASE OnSync
  <2>1. toClient' \in Seq(Events)
    BY <1>7, DispatchType DEF OnSync
  <2>2. toServer' \in Seq(Requests) /\ pc' \in Pcs
    <3>1. Msg("sync", None) \in Requests
      BY MessageTypes
    <3>2. CASE AfterFirstRoundtrip
      BY <3>1, <3>2 DEF AfterFirstRoundtrip, ScreenType, Pcs
    <3>3. CASE pc' = "select" /\ UNCHANGED toServer
      BY <3>3 DEF ScreenType, Pcs
    <3> QED
      BY <1>7, <3>2, <3>3 DEF OnSync
  <2> QED
    BY <1>7, <2>1, <2>2 DEF OnSync, ScreenType
<1>8. CASE RoundtripFails
  BY <1>8 DEF RoundtripFails, ScreenType, Pcs
<1>9. CASE SelectFails
  BY <1>9 DEF SelectFails, ScreenType, Pcs
<1>10. CASE Select
  <2>1. Selected \subseteq Outputs
    BY DEF Selected, KnownPreferred, ScreenType
  <2> QED
    BY <1>10, <2>1 DEF Select, ScreenType, Pcs
<1>11. CASE CreateMemfd
  BY <1>11 DEF CreateMemfd, ScreenType, Pcs
<1>12. CASE MapFails
  BY <1>12 DEF MapFails, ScreenType, Pcs
<1>13. CASE Shoot
  <2>1. Msg("shoot", target) \in Requests
    BY DEF Msg, Requests, RequestTypes, Bindable, ScreenType
  <2> QED
    BY <1>13, <2>1 DEF Shoot, ScreenType, Pcs
<1>14. CASE Copy
  BY <1>14 DEF Copy, ScreenType, Pcs
<1>15. CASE Cleanup
  BY <1>15 DEF Cleanup, ScreenType, Pcs
<1>16. CASE ServeRegistry
  <2>1. toClient' \in Seq(Events) /\ toServer' \in Seq(Requests)
    BY <1>16, AnnouncementType, AnswerType, RequestType DEF ServeRegistry
  <2> QED
    BY <1>16, <2>1 DEF ServeRegistry, ScreenType
<1>17. CASE ServeBind
  <2>1. \A g \in Outputs : <<Msg("geometry", g), Msg("mode", g)>> \in Seq(Events)
    BY MessageTypes
  <2>2. PICK g : Answer(IF g \in Outputs THEN <<Msg("geometry", g), Msg("mode", g)>>
                        ELSE <<>>)
    BY <1>17 DEF ServeBind
  <2>3. (IF g \in Outputs THEN <<Msg("geometry", g), Msg("mode", g)>> ELSE <<>>)
          \in Seq(Events)
    BY <2>1
  <2>4. toClient' \in Seq(Events)
    BY <2>2, <2>3, AnswerType
  <2>5. toServer' \in Seq(Requests)
    BY <1>17, RequestType DEF ServeBind
  <2> QED
    BY <1>17, <2>4, <2>5 DEF ServeBind, ScreenType
<1>18. CASE ServeSync
  <2>1. <<Msg("callback", None)>> \in Seq(Events)
    BY MessageTypes
  <2>2. toClient' \in Seq(Events) /\ toServer' \in Seq(Requests)
    BY <1>18, <2>1, AnswerType, RequestType DEF ServeSync
  <2> QED
    BY <1>18, <2>2 DEF ServeSync, ScreenType
<1>19. CASE ServeShoot
  <2>1. <<Msg("done", None)>> \in Seq(Events)
    BY MessageTypes
  <2>2. toClient' \in Seq(Events) /\ toServer' \in Seq(Requests)
    BY <1>19, <2>1, AnswerType, RequestType DEF ServeShoot
  <2> QED
    BY <1>19, <2>2 DEF ServeShoot, ScreenType
<1>20. ASSUME NEW o \in Outputs, Hotplug(o)
       PROVE  ScreenType'
  <2>1. <<Msg("global", o)>> \in Seq(Events) /\ o \in Bindable
    BY MessageTypes DEF Bindable
  <2>2. toClient' \in Seq(Events)
    BY <1>20, <2>1, AnswerType DEF Hotplug
  <2>3. globals' \in Seq(Bindable)
    BY <1>20, <2>1 DEF Hotplug, ScreenType
  <2> QED
    BY <1>20, <2>2, <2>3 DEF Hotplug, ScreenType
<1>21. CASE Disconnect
  BY <1>21 DEF Disconnect, ScreenType
<1>22. CASE UNCHANGED vars
  BY <1>22 DEF vars, ScreenType
<1>23. CASE Done
  BY <1>22, <1>23 DEF Done
<1> QED
  BY <1>1, <1>2, <1>3, <1>4, <1>5, <1>6, <1>7, <1>8, <1>9, <1>10, <1>11, <1>12,
     <1>13, <1>14, <1>15, <1>16, <1>17, <1>18, <1>19, <1>20, <1>21, <1>22, <1>23
     DEF Next, Capture, Compositor

\* The initial states are well typed.
LEMMA InitType == Init => ScreenType
<1> SUFFICES ASSUME Init
             PROVE  ScreenType
  OBVIOUS
<1>1. globals \in Seq(Bindable)
  BY ScreenshooterAssumption DEF Init, Bindable
<1>2. toServer \in Seq(Requests) /\ toClient \in Seq(Events) /\ outputs \in Seq(Outputs)
  BY DEF Init
<1>3. pc \in Pcs /\ hotplugs \in Nat
  BY DEF Init, Pcs
<1>4. memory \in {None, "blank", "pixels"} /\ target \in Outputs \cup {None}
  BY DEF Init
<1> QED
  BY <1>1, <1>2, <1>3, <1>4 DEF Init, ScreenType
-----------------------------------------------------------------------------
\* The stream without its first message.
LEMMA TailFacts ==
    ASSUME NEW S, NEW q \in Seq(S), q # <<>>
    PROVE  /\ Has(q, Head(q).type)
           /\ \A t : Has(Tail(q), t) => Has(q, t)
           /\ \A t : Once(q, t) => Once(Tail(q), t)
           /\ Once(q, Head(q).type) => ~Has(Tail(q), Head(q).type)
           /\ \A t : Ends(q, t) => Ends(Tail(q), t)
           /\ Ends(q, Head(q).type) => Tail(q) = <<>>
           /\ \A t, u : Before(q, t, u) => Before(Tail(q), t, u)
           /\ \A t : Before(q, t, Head(q).type) => ~Has(Tail(q), t)
<1>1. PICK r \in Seq(S) : r = Tail(q)
  BY Dequeued
<1>2. /\ Head(q) = q[1] /\ Len(q) \in Nat \ {0} /\ Len(r) = Len(q) - 1
      /\ \A i \in 1..Len(r) : r[i] = q[i + 1]
      /\ DOMAIN q = 1..Len(q) /\ DOMAIN r = 1..Len(r)
  BY <1>1, Dequeued
<1>3. \A i \in DOMAIN r : i \in Int /\ i + 1 \in DOMAIN q /\ i + 1 # 1
  BY <1>2
<1>4. 1 \in DOMAIN q
  BY <1>2
<1>5. Has(q, Head(q).type)
  BY <1>2, <1>4 DEF Has
<1>6. \A t : Has(r, t) => Has(q, t)
  BY <1>2, <1>3 DEF Has
<1>7. ASSUME NEW t, Once(q, t)
      PROVE  Once(r, t)
  BY <1>2, <1>3, <1>7 DEF Once
<1>8. Once(q, Head(q).type) => ~Has(r, Head(q).type)
  BY <1>2, <1>3, <1>4 DEF Once, Has
<1>9. ASSUME NEW t, Ends(q, t)
      PROVE  Ends(r, t)
  BY <1>2, <1>3, <1>9 DEF Ends
<1>10. ASSUME Ends(q, Head(q).type)
       PROVE  r = <<>>
  <2>1. Len(q) = 1
    BY <1>2, <1>4, <1>10 DEF Ends
  <2> QED
    BY <2>1, <1>2, EmptySeq
<1>11. ASSUME NEW t, NEW u, Before(q, t, u)
       PROVE  Before(r, t, u)
  BY <1>2, <1>3, <1>11 DEF Before
<1>12. ASSUME NEW t, Before(q, t, Head(q).type)
       PROVE  ~Has(r, t)
  <2>1. \A i \in DOMAIN r : ~(i + 1 < 1)
    BY <1>2
  <2> QED
    BY <1>2, <1>3, <1>4, <1>12, <2>1 DEF Before, Has
<1> QED
  BY <1>1, <1>5, <1>6, <1>7, <1>8, <1>9, <1>10, <1>11, <1>12

\* The stream with messages added to its end.
LEMMA ConcatFacts ==
    ASSUME NEW S, NEW q \in Seq(S), NEW r \in Seq(S)
    PROVE  /\ \A t : Has(q \o r, t) => Has(q, t) \/ Has(r, t)
           /\ \A t : Has(q, t) => Has(q \o r, t)
           /\ \A t : Once(q, t) /\ ~Has(r, t) => Once(q \o r, t)
           /\ \A t : ~Has(q, t) /\ Once(r, t) => Once(q \o r, t)
           /\ \A t : ~Has(q, t) /\ Ends(r, t) => Ends(q \o r, t)
           /\ \A t, u : Before(q, t, u) /\ ~Has(r, t) => Before(q \o r, t, u)
           /\ \A t, u : ~Has(q, u) /\ ~Has(r, u) => Before(q \o r, t, u)
<1>1. PICK p \in Seq(S) : p = q \o r
  BY Concatenated
<1>2. /\ Len(q) \in Nat /\ Len(r) \in Nat /\ Len(p) = Len(q) + Len(r)
      /\ DOMAIN p = 1..Len(p) /\ DOMAIN q = 1..Len(q) /\ DOMAIN r = 1..Len(r)
      /\ \A i \in DOMAIN q : p[i] = q[i]
      /\ \A i \in DOMAIN r : p[Len(q) + i] = r[i]
  BY <1>1, Concatenated
<1>3. ASSUME NEW i \in DOMAIN p
      PROVE  \/ i \in DOMAIN q /\ p[i] = q[i]
             \/ ~(i \in DOMAIN q) /\ i - Len(q) \in DOMAIN r /\ p[i] = r[i - Len(q)]
  <2>1. CASE i <= Len(q)
    BY <1>2, <2>1
  <2>2. CASE ~(i <= Len(q))
    <3>1. i - Len(q) \in DOMAIN r /\ Len(q) + (i - Len(q)) = i
      BY <1>2, <2>2
    <3> QED
      BY <1>2, <2>2, <3>1
  <2> QED
    BY <2>1, <2>2
<1>4. \A i \in DOMAIN q : i \in DOMAIN p
  BY <1>2
<1>5. ASSUME NEW t, Has(p, t)
      PROVE  Has(q, t) \/ Has(r, t)
  BY <1>3, <1>5 DEF Has
<1>6. \A t : Has(q, t) => Has(p, t)
  BY <1>2, <1>4 DEF Has
<1>7. ASSUME NEW t, Once(q, t), ~Has(r, t)
      PROVE  Once(p, t)
  BY <1>3, <1>7 DEF Once, Has
<1>8. ASSUME NEW t, ~Has(q, t), Once(r, t)
      PROVE  Once(p, t)
  <2> SUFFICES ASSUME NEW i \in DOMAIN p, NEW j \in DOMAIN p,
                      p[i].type = t, p[j].type = t
               PROVE  i = j
    BY DEF Once
  <2>1. i - Len(q) = j - Len(q)
    BY <1>3, <1>8 DEF Once, Has
  <2> QED
    BY <2>1, <1>2
<1>9. ASSUME NEW t, ~Has(q, t), Ends(r, t)
      PROVE  Ends(p, t)
  <2> SUFFICES ASSUME NEW i \in DOMAIN p, p[i].type = t
               PROVE  i = Len(p)
    BY DEF Ends
  <2>1. i - Len(q) = Len(r)
    BY <1>3, <1>9 DEF Ends, Has
  <2> QED
    BY <2>1, <1>2
<1>10. ASSUME NEW t, NEW u, Before(q, t, u), ~Has(r, t)
       PROVE  Before(p, t, u)
  <2> SUFFICES ASSUME NEW i \in DOMAIN p, NEW j \in DOMAIN p,
                      p[i].type = t, p[j].type = u
               PROVE  i < j
    BY DEF Before
  <2>1. i \in DOMAIN q /\ q[i].type = t
    BY <1>3, <1>10 DEF Has
  <2>2. CASE j \in DOMAIN q
    BY <1>3, <1>10, <2>1, <2>2 DEF Before
  <2>3. CASE j \notin DOMAIN q
    BY <1>2, <2>1, <2>3
  <2> QED
    BY <2>2, <2>3
<1>11. ASSUME NEW t, NEW u, ~Has(q, u), ~Has(r, u)
       PROVE  Before(p, t, u)
  BY <1>3, <1>11 DEF Before, Has
<1> QED
  BY <1>1, <1>5, <1>6, <1>7, <1>8, <1>9, <1>10, <1>11

\* A single message.
LEMMA SingleFacts ==
    ASSUME NEW m
    PROVE  /\ Range(<<m>>) = {m}
           /\ \A t : Has(<<m>>, t) <=> m.type = t
           /\ \A t : Once(<<m>>, t) /\ Ends(<<m>>, t)
<1>1. DOMAIN <<m>> = {1} /\ <<m>>[1] = m /\ Len(<<m>>) = 1
  OBVIOUS
<1> QED
  BY <1>1 DEF Range, Has, Once, Ends

\* The empty stream.
LEMMA EmptyFacts ==
    /\ Range(<<>>) = {}
    /\ \A t : ~Has(<<>>, t) /\ Once(<<>>, t) /\ Ends(<<>>, t)
    /\ \A t, u : Before(<<>>, t, u)
  BY DEF Range, Has, Once, Ends, Before

\* The stream with one message more.
LEMMA AppendFacts ==
    ASSUME NEW S, NEW q \in Seq(S), NEW m \in S
    PROVE  /\ \A t : Has(Append(q, m), t) <=> Has(q, t) \/ m.type = t
           /\ \A t : Once(q, t) /\ m.type # t => Once(Append(q, m), t)
           /\ \A t : ~Has(q, t) => Once(Append(q, m), t) /\ Ends(Append(q, m), t)
<1>1. <<m>> \in Seq(S) /\ Append(q, m) = q \o <<m>>
  BY AppendIsConcat
<1>2. Append(q, m)[Len(q) + 1] = m /\ Len(q) + 1 \in DOMAIN Append(q, m)
  BY AppendProperties
<1>3. \A t : m.type = t => Has(Append(q, m), t)
  BY <1>2 DEF Has
<1>4. PICK r \in Seq(S) : r = <<m>>
  BY <1>1
<1>5. \A t : (Has(r, t) <=> m.type = t) /\ Once(r, t) /\ Ends(r, t)
  BY <1>4, SingleFacts
<1>6. /\ \A t : Has(q \o r, t) => Has(q, t) \/ Has(r, t)
      /\ \A t : Has(q, t) => Has(q \o r, t)
      /\ \A t : Once(q, t) /\ ~Has(r, t) => Once(q \o r, t)
      /\ \A t : ~Has(q, t) /\ Once(r, t) => Once(q \o r, t)
      /\ \A t : ~Has(q, t) /\ Ends(r, t) => Ends(q \o r, t)
  BY ConcatFacts
<1>7. Append(q, m) = q \o r
  BY <1>1, <1>4
<1> QED
  BY <1>3, <1>5, <1>6, <1>7

-----------------------------------------------------------------------------
\* What dispatching an event of type t does to the stream.
LEMMA DispatchFacts ==
    ASSUME ScreenType, NEW t, Dispatch(t)
    PROVE  /\ Has(toClient, t)
           /\ \A u : Has(toClient', u) => Has(toClient, u)
           /\ \A u : Once(toClient, u) => Once(toClient', u)
           /\ Once(toClient, t) => ~Has(toClient', t)
           /\ \A u : Ends(toClient, u) => Ends(toClient', u)
           /\ Ends(toClient, t) => toClient' = <<>>
           /\ \A u, v : Before(toClient, u, v) => Before(toClient', u, v)
           /\ \A u : Before(toClient, u, t) => ~Has(toClient', u)
           /\ Range(toClient) = {Head(toClient)} \cup Range(toClient')
<1>1. /\ toClient \in Seq(Events) /\ toClient # <<>> /\ Head(toClient).type = t
      /\ toClient' = Tail(toClient)
  BY DEF Dispatch, ScreenType
<1>2. Range(toClient) = {Head(toClient)} \cup Range(toClient')
  BY <1>1, Dequeued
<1> QED
  BY <1>1, <1>2, TailFacts

\* What serving a request of type t does to the stream.
LEMMA RequestFacts ==
    ASSUME ScreenType, NEW t, Request(t)
    PROVE  /\ Has(toServer, t)
           /\ \A u : Has(toServer', u) => Has(toServer, u)
           /\ \A u : Once(toServer, u) => Once(toServer', u)
           /\ Once(toServer, t) => ~Has(toServer', t)
           /\ \A u : Ends(toServer, u) => Ends(toServer', u)
           /\ Ends(toServer, t) => toServer' = <<>>
           /\ Range(toServer) = {Head(toServer)} \cup Range(toServer')
<1>1. /\ toServer \in Seq(Requests) /\ toServer # <<>> /\ Head(toServer).type = t
      /\ toServer' = Tail(toServer)
  BY DEF Request, ScreenType
<1>2. Range(toServer) = {Head(toServer)} \cup Range(toServer')
  BY <1>1, Dequeued
<1> QED
  BY <1>1, <1>2, TailFacts

\* What an answer of the compositor does to the stream.
LEMMA AnswerFacts ==
    ASSUME ScreenType, NEW r \in Seq(Events), Answer(r)
    PROVE  /\ \A t : Has(toClient', t) => Has(toClient, t) \/ Has(r, t)
           /\ \A t : Has(toClient, t) => Has(toClient', t)
           /\ \A t : Once(toClient, t) /\ ~Has(r, t) => Once(toClient', t)
           /\ \A t : ~Has(toClient, t) /\ Once(r, t) => Once(toClient', t)
           /\ \A t : ~Has(toClient, t) /\ Ends(r, t) => Ends(toClient', t)
           /\ \A t, u : Before(toClient, t, u) /\ ~Has(r, t) => Before(toClient', t, u)
           /\ \A t, u : ~Has(toClient, u) /\ ~Has(r, u) => Before(toClient', t, u)
           /\ Range(toClient') = Range(toClient) \cup Range(r)
<1>1. toClient \in Seq(Events) /\ toClient' = toClient \o r
  BY DEF Answer, ScreenType
<1>2. Range(toClient') = Range(toClient) \cup Range(r)
  BY <1>1, Concatenated
<1> QED
  BY <1>1, <1>2, ConcatFacts

\* The announcement of the globals has no other messages.
LEMMA AnnouncementFacts ==
    ASSUME ScreenType, NEW r, r = [i \in DOMAIN globals |-> Msg("global", globals[i])]
    PROVE  /\ r \in Seq(Events)
           /\ \A t : t # "global" => ~Has(r, t) /\ Once(r, t)
           /\ \A g \in Range(globals) : Msg("global", g) \in Range(r)
<1>1. r \in Seq(Events) /\ DOMAIN r = DOMAIN globals
  BY AnnouncementType
<1>2. \A i \in DOMAIN r : r[i].type = "global"
  BY <1>1 DEF Msg
<1>3. \A i \in DOMAIN globals : r[i] = Msg("global", globals[i])
  OBVIOUS
<1>4. ASSUME NEW g \in Range(globals)
      PROVE  Msg("global", g) \in Range(r)
  <2>1. PICK i \in DOMAIN globals : g = globals[i]
    BY DEF Range
  <2> QED
    BY <2>1, <1>1, <1>3 DEF Range
<1> QED
  BY <1>1, <1>2, <1>4 DEF Has, Once

\* The answer to a bind: for an output its geometry and its mode.
LEMMA BindAnswer ==
    ASSUME ScreenType, ServeBind
    PROVE  \E r \in Seq(Events) :
              /\ Answer(r)
              /\ \A t : t \notin {"geometry", "mode"} => ~Has(r, t)
              /\ Head(toServer).arg \in Outputs =>
                    /\ Msg("geometry", Head(toServer).arg) \in Range(r)
                    /\ Msg("mode", Head(toServer).arg) \in Range(r)
<1>1. PICK g : g = Head(toServer).arg
  OBVIOUS
<1>2. CASE g \in Outputs
  <2>1. PICK r \in Seq(Events) : r = <<Msg("geometry", g), Msg("mode", g)>>
    <3>1. <<Msg("geometry", g), Msg("mode", g)>> \in Seq(Events)
      BY <1>2, MessageTypes
    <3> QED
      BY <3>1
  <2>2. DOMAIN r = {1, 2} /\ r[1] = Msg("geometry", g) /\ r[2] = Msg("mode", g)
    BY <2>1
  <2>3. \A t : t \notin {"geometry", "mode"} => ~Has(r, t)
    BY <2>2 DEF Has, Msg
  <2>4. Msg("geometry", g) \in Range(r) /\ Msg("mode", g) \in Range(r)
    BY <2>2 DEF Range
  <2>5. Answer(r)
    BY <1>1, <1>2, <2>1 DEF ServeBind
  <2> QED
    BY <1>1, <2>3, <2>4, <2>5
<1>3. CASE g \notin Outputs
  <2>1. Answer(<<>>) /\ <<>> \in Seq(Events)
    BY <1>1, <1>3 DEF ServeBind
  <2> QED
    BY <1>1, <1>3, <2>1, EmptyFacts
<1> QED
  BY <1>2, <1>3

\* A step that neither sends nor answers a shoot request, and does not leave
\* the loop, keeps ShootInv.
LEMMA ShootStable ==
    ASSUME ShootInv, UNCHANGED <<memory, finished, result, image, broken>>,
           Has(toServer', "shoot") => Has(toServer, "shoot"),
           Has(toClient', "done") => Has(toClient, "done"),
           Once(toServer', "shoot") /\ Once(toClient', "done"),
           pc' = pc \/ pc \notin {"shoot", "cleanup", "idle"}
    PROVE  ShootInv'
<1>1. CASE pc' = pc
  BY <1>1 DEF ShootInv, PixelsIfConnected
<1>2. CASE pc \notin {"shoot", "cleanup", "idle"}
  BY <1>2 DEF ShootInv, PixelsIfConnected
<1> QED
  BY <1>1, <1>2

-----------------------------------------------------------------------------
\* A step that touches neither what is held nor the memory, and stays among the
\* places where nothing extra is held or does not move, keeps HeldInv.
LEMMA HeldStable ==
    ASSUME HeldInv, UNCHANGED <<held, memory, outputs>>,
           \/ pc' = pc
           \/ pc' # "idle" /\ pc \notin {"map", "shoot"}
    PROVE  HeldInv'
  BY DEF HeldInv, Extra

\* Every step keeps HeldInv.
LEMMA NextHeld == ScreenType /\ ShootInv /\ HeldInv /\ [Next]_vars => HeldInv'
<1> SUFFICES ASSUME ScreenType, ShootInv, HeldInv, [Next]_vars
             PROVE  HeldInv'
  OBVIOUS
<1> USE DEF boundVars, resultVars, infoVars, streamVars
<1>1. CASE ConnectFails
  BY <1>1, HeldStable DEF ConnectFails
<1>2. CASE Connect
  BY <1>2 DEF Connect, HeldInv, Extra
<1>3. CASE OnGlobal
  <2>1. /\ Head(toClient) \in Events /\ Head(toClient).type = "global"
        /\ pc \in {"round1", "round2", "shoot"}
    BY <1>3, DispatchType DEF OnGlobal
  <2>2. PICK g \in Bindable : g = Head(toClient).arg
    BY <2>1 DEF Events
  <2>3. /\ held' = held \cup {g} /\ pc' = pc /\ memory' = memory
        /\ outputs' = IF g \in Outputs THEN Append(outputs, g) ELSE outputs
    BY <1>3, <2>2 DEF OnGlobal
  <2>4. Range(outputs') = Range(outputs) \cup ({g} \cap Outputs)
    <3>1. CASE g \in Outputs
      BY <2>3, <3>1, Appended DEF ScreenType
    <3>2. CASE g \notin Outputs
      BY <2>3, <3>2
    <3> QED
      BY <3>1, <3>2
  <2>5. g \in Outputs \/ g \in {"shm", "shooter"}
    BY <2>2 DEF Bindable
  <2>6. Extra' = Extra
    BY <2>3 DEF Extra
  <2> QED
    BY <2>1, <2>3, <2>4, <2>5, <2>6 DEF HeldInv
<1>4. CASE OnGeometry
  BY <1>4, HeldStable DEF OnGeometry
<1>5. CASE OnMode
  BY <1>5, HeldStable DEF OnMode
<1>6. CASE OnShootDone
  BY <1>6, HeldStable DEF OnShootDone
<1>7. CASE OnSync
  BY <1>7, HeldStable DEF OnSync, AfterFirstRoundtrip
<1>8. CASE RoundtripFails
  BY <1>8, HeldStable DEF RoundtripFails
<1>9. CASE SelectFails
  BY <1>9, HeldStable DEF SelectFails
<1>10. CASE Select
  BY <1>10, HeldStable DEF Select
<1>11. CASE CreateMemfd
  BY <1>11 DEF CreateMemfd, HeldInv, Extra
<1>12. CASE MapFails
  BY <1>12 DEF MapFails, ReleaseOnError, HeldInv, Extra
<1>13. CASE Shoot
  BY <1>13 DEF Shoot, HeldInv, Extra
<1>14. CASE Copy
  BY <1>14 DEF Copy, HeldInv, Extra
<1>15. CASE Cleanup
  BY <1>15 DEF Cleanup, HeldInv, Extra
<1>16. CASE Compositor
  <2>1. CASE ServeShoot
    <3>1. pc = "shoot"
      <4>1. Has(toServer, "shoot")
        BY <2>1, RequestFacts DEF ServeShoot
      <4>2. ~broken
        BY <2>1, RequestType DEF ServeShoot
      <4> QED
        BY <4>1, <4>2 DEF ShootInv
    <3> QED
      BY <2>1, <3>1 DEF ServeShoot, HeldInv, Extra
  <2> QED
    BY <1>16, <2>1, HeldStable DEF Compositor, ServeRegistry, ServeBind, ServeSync
<1>17. ASSUME NEW o \in Outputs, Hotplug(o)
       PROVE  HeldInv'
  BY <1>17, HeldStable DEF Hotplug
<1>18. CASE Disconnect
  BY <1>18, HeldStable DEF Disconnect
<1>19. CASE UNCHANGED vars
  BY <1>19, HeldStable DEF vars
<1>20. CASE Done
  BY <1>19, <1>20 DEF Done
<1> QED
  BY <1>1, <1>2, <1>3, <1>4, <1>5, <1>6, <1>7, <1>8, <1>9, <1>10, <1>11, <1>12,
     <1>13, <1>14, <1>15, <1>16, <1>17, <1>18, <1>19, <1>20 DEF Next, Capture
-----------------------------------------------------------------------------
\* Every step keeps ShootInv.
LEMMA NextShoot == ScreenType /\ ShootInv /\ [Next]_vars => ShootInv'
<1> SUFFICES ASSUME ScreenType, ShootInv, [Next]_vars
             PROVE  ShootInv'
  OBVIOUS
<1> USE DEF boundVars, resultVars, infoVars, streamVars
<1>0. Once(toServer, "shoot") /\ Once(toClient, "done")
  BY DEF ShootInv
<1>1. CASE ConnectFails
  BY <1>1 DEF ConnectFails, ShootInv, PixelsIfConnected
<1>2. CASE Connect
  <2>1. PICK q : q = <<Msg("get_registry", None), Msg("sync", None)>>
    OBVIOUS
  <2>2. DOMAIN q = {1, 2} /\ q[1].type = "get_registry" /\ q[2].type = "sync"
    BY <2>1 DEF Msg
  <2>3. ~Has(q, "shoot") /\ Once(q, "shoot")
    BY <2>2 DEF Has, Once
  <2>4. /\ toServer' = q /\ toClient' = <<>> /\ finished' = FALSE
        /\ result' = None
    BY <1>2, <2>1 DEF Connect
  <2> QED
    BY <2>3, <2>4, EmptyFacts DEF ShootInv, PixelsIfConnected, None
<1>3. CASE OnGlobal
  <2>1. /\ Has(toClient', "done") => Has(toClient, "done")
        /\ Once(toClient', "done")
    BY <1>0, <1>3, DispatchFacts DEF OnGlobal
  <2>2. /\ Head(toClient) \in Events /\ Head(toClient).type = "global"
    BY <1>3, DispatchType DEF OnGlobal
  <2>3. PICK g \in Bindable : g = Head(toClient).arg
    BY <2>2 DEF Events
  <2>4. toServer' = Append(toServer, Msg("bind", g))
    BY <1>3, <2>3 DEF OnGlobal
  <2>5. Msg("bind", g) \in Requests /\ Msg("bind", g).type # "shoot"
    BY MessageTypes DEF Msg
  <2>6. (Has(toServer', "shoot") => Has(toServer, "shoot")) /\ Once(toServer', "shoot")
    BY <1>0, <2>4, <2>5, AppendFacts DEF ScreenType
  <2> QED
    BY <1>3, <2>1, <2>6, ShootStable DEF OnGlobal
<1>4. CASE OnGeometry
  BY <1>0, <1>4, DispatchFacts, ShootStable DEF OnGeometry
<1>5. CASE OnMode
  BY <1>0, <1>5, DispatchFacts, ShootStable DEF OnMode
<1>6. CASE OnShootDone
  <2>1. /\ Has(toClient, "done") /\ ~Has(toClient', "done")
        /\ Once(toClient', "done")
    BY <1>0, <1>6, DispatchFacts DEF OnShootDone
  <2>2. pc = "shoot" /\ memory = "pixels" /\ ~Has(toServer, "shoot")
    BY <2>1 DEF ShootInv
  <2> QED
    BY <1>6, <2>1, <2>2 DEF OnShootDone, ShootInv, PixelsIfConnected
<1>7. CASE OnSync
  <2>1. /\ Has(toClient', "done") => Has(toClient, "done")
        /\ Once(toClient', "done")
    BY <1>0, <1>7, DispatchFacts DEF OnSync
  <2>2. Msg("sync", None) \in Requests /\ Msg("sync", None).type # "shoot"
    BY MessageTypes DEF Msg
  <2>3. (Has(toServer', "shoot") => Has(toServer, "shoot")) /\ Once(toServer', "shoot")
    <3>1. CASE toServer' = Append(toServer, Msg("sync", None))
      BY <1>0, <2>2, <3>1, AppendFacts DEF ScreenType
    <3>2. CASE toServer' = toServer
      BY <1>0, <3>2
    <3> QED
      BY <1>7, <3>1, <3>2 DEF OnSync, AfterFirstRoundtrip
  <2> QED
    BY <1>7, <2>1, <2>3, ShootStable DEF OnSync
<1>8. CASE RoundtripFails
  BY <1>0, <1>8, ShootStable DEF RoundtripFails
<1>9. CASE SelectFails
  <2>1. result' # "ok"
    BY <1>9 DEF SelectFails, SelectError, None
  <2> QED
    BY <1>9, <2>1 DEF SelectFails, ShootInv, PixelsIfConnected
<1>10. CASE Select
  BY <1>0, <1>10, ShootStable DEF Select
<1>11. CASE CreateMemfd
  <2>1. CASE UNCHANGED result
    BY <1>0, <1>11, <2>1, ShootStable DEF CreateMemfd
  <2>2. CASE result' = "memfd" /\ pc' = "cleanup"
    BY <1>11, <2>2 DEF CreateMemfd, ShootInv, PixelsIfConnected
  <2> QED
    BY <1>11, <2>1, <2>2 DEF CreateMemfd
<1>12. CASE MapFails
  BY <1>12 DEF MapFails, ShootInv, PixelsIfConnected
<1>13. CASE Shoot
  <2>1. /\ ~Has(toServer, "shoot") /\ ~Has(toClient, "done") /\ ~finished
    BY <1>13 DEF Shoot, ShootInv
  <2>2. Msg("shoot", target) \in Requests
    BY DEF Msg, Requests, RequestTypes, Bindable, ScreenType
  <2>3. Once(toServer', "shoot")
    BY <1>13, <2>1, <2>2, AppendFacts DEF Shoot, ScreenType
  <2> QED
    BY <1>13, <2>1, <2>3 DEF Shoot, ShootInv, PixelsIfConnected
<1>14. CASE Copy
  <2>1. ~broken => finished /\ memory = "pixels" /\ ~Has(toServer, "shoot")
    BY <1>14 DEF Copy, LoopEnds, ShootInv
  <2>2. ~Has(toClient, "done")
    BY <1>14 DEF Copy, LoopEnds, ShootInv
  <2> QED
    BY <1>14, <2>1, <2>2 DEF Copy, ShootInv, PixelsIfConnected
<1>15. CASE Cleanup
  <2>1. toServer' = <<>> /\ toClient' = <<>>
    BY <1>15 DEF Cleanup
  <2> QED
    BY <1>15, <2>1, EmptyFacts DEF Cleanup, ShootInv, PixelsIfConnected
<1>16. CASE ServeRegistry
  <2>1. /\ Has(toServer', "shoot") => Has(toServer, "shoot")
        /\ Once(toServer', "shoot")
    BY <1>0, <1>16, RequestFacts DEF ServeRegistry
  <2>2. PICK r : r = [i \in DOMAIN globals |-> Msg("global", globals[i])]
    OBVIOUS
  <2>3. r \in Seq(Events) /\ ~Has(r, "done")
    BY <2>2, AnnouncementFacts
  <2>4. /\ Has(toClient', "done") => Has(toClient, "done")
        /\ Once(toClient', "done")
    BY <1>0, <1>16, <2>2, <2>3, AnswerFacts DEF ServeRegistry
  <2> QED
    BY <1>16, <2>1, <2>4, ShootStable DEF ServeRegistry
<1>17. CASE ServeBind
  <2>1. /\ Has(toServer', "shoot") => Has(toServer, "shoot")
        /\ Once(toServer', "shoot")
    BY <1>0, <1>17, RequestFacts DEF ServeBind
  <2>2. PICK r \in Seq(Events) : Answer(r) /\ ~Has(r, "done")
    BY <1>17, BindAnswer
  <2>3. /\ Has(toClient', "done") => Has(toClient, "done")
        /\ Once(toClient', "done")
    BY <1>0, <2>2, AnswerFacts
  <2> QED
    BY <1>17, <2>1, <2>3, ShootStable DEF ServeBind
<1>18. CASE ServeSync
  <2>1. /\ Has(toServer', "shoot") => Has(toServer, "shoot")
        /\ Once(toServer', "shoot")
    BY <1>0, <1>18, RequestFacts DEF ServeSync
  <2>2. PICK r \in Seq(Events) : r = <<Msg("callback", None)>>
    <3>1. <<Msg("callback", None)>> \in Seq(Events)
      BY MessageTypes
    <3> QED
      BY <3>1
  <2>3. ~Has(r, "done")
    BY <2>2, SingleFacts DEF Msg
  <2>4. /\ Has(toClient', "done") => Has(toClient, "done")
        /\ Once(toClient', "done")
    BY <1>0, <1>18, <2>2, <2>3, AnswerFacts DEF ServeSync
  <2> QED
    BY <1>18, <2>1, <2>4, ShootStable DEF ServeSync
<1>19. CASE ServeShoot
  <2>1. /\ Has(toServer, "shoot") /\ ~Has(toServer', "shoot")
        /\ Once(toServer', "shoot") /\ ~broken
    BY <1>0, <1>19, RequestFacts, RequestType DEF ServeShoot
  <2>2. pc = "shoot" /\ ~finished /\ ~Has(toClient, "done")
    BY <2>1 DEF ShootInv
  <2>3. PICK r \in Seq(Events) : r = <<Msg("done", None)>>
    <3>1. <<Msg("done", None)>> \in Seq(Events)
      BY MessageTypes
    <3> QED
      BY <3>1
  <2>4. Once(r, "done")
    BY <2>3, SingleFacts
  <2>5. Once(toClient', "done")
    BY <1>19, <2>2, <2>3, <2>4, AnswerFacts DEF ServeShoot
  <2> QED
    BY <1>19, <2>1, <2>2, <2>5 DEF ServeShoot, ShootInv, PixelsIfConnected
<1>20. ASSUME NEW o \in Outputs, Hotplug(o)
       PROVE  ShootInv'
  <2>1. PICK r \in Seq(Events) : r = <<Msg("global", o)>>
    <3>1. <<Msg("global", o)>> \in Seq(Events)
      BY MessageTypes DEF Bindable
    <3> QED
      BY <3>1
  <2>2. ~Has(r, "done")
    BY <2>1, SingleFacts DEF Msg
  <2>3. /\ Has(toClient', "done") => Has(toClient, "done")
        /\ Once(toClient', "done")
    BY <1>0, <1>20, <2>1, <2>2, AnswerFacts DEF Hotplug
  <2> QED
    BY <1>0, <1>20, <2>3, ShootStable DEF Hotplug
<1>21. CASE Disconnect
  <2>1. toServer' = <<>> /\ toClient' = <<>>
    BY <1>21 DEF Disconnect
  <2> QED
    BY <1>21, <2>1, EmptyFacts DEF Disconnect, ShootInv, PixelsIfConnected
<1>22. CASE UNCHANGED vars
  BY <1>0, <1>22, ShootStable DEF vars
<1>23. CASE Done
  BY <1>22, <1>23 DEF Done
<1> QED
  BY <1>1, <1>2, <1>3, <1>4, <1>5, <1>6, <1>7, <1>8, <1>9, <1>10, <1>11, <1>12,
     <1>13, <1>14, <1>15, <1>16, <1>17, <1>18, <1>19, <1>20, <1>21, <1>22, <1>23
     DEF Next, Capture, Compositor
-----------------------------------------------------------------------------
\* Messages of a type that a stream does not have are in any order.
LEMMA Absent ==
    ASSUME NEW q, NEW t, ~Has(q, t)
    PROVE  Once(q, t) /\ Ends(q, t)
  BY DEF Has, Once, Ends

\* The requests with which a capture begins.
LEMMA FirstRequests ==
    ASSUME NEW q, q = <<Msg("get_registry", None), Msg("sync", None)>>
    PROVE  /\ Head(q).type = "get_registry" /\ Tail(q) = <<Msg("sync", None)>>
           /\ Has(q, "get_registry") /\ Has(q, "sync") /\ Once(q, "sync")
           /\ \A t : Has(q, t) => t \in {"get_registry", "sync"}
<1>1. DOMAIN q = {1, 2} /\ q[1].type = "get_registry" /\ q[2].type = "sync"
  BY DEF Msg
<1>2. Head(q) = Msg("get_registry", None) /\ Tail(q) = <<Msg("sync", None)>>
  OBVIOUS
<1> QED
  BY <1>1, <1>2 DEF Has, Once, Msg

\* An event other than the end of a roundtrip keeps the order.
LEMMA RoundDispatch ==
    ASSUME ScreenType, Rounds, pc \in {"round1", "round2"}, UNCHANGED <<pc, toServer>>,
           NEW t, Dispatch(t)
    PROVE  Rounds'
<1>1. /\ Has(toClient, t)
      /\ \A u : Has(toClient', u) => Has(toClient, u)
      /\ \A u : Once(toClient, u) => Once(toClient', u)
      /\ \A u : Ends(toClient, u) => Ends(toClient', u)
      /\ \A u, v : Before(toClient, u, v) => Before(toClient', u, v)
  BY DispatchFacts
<1>2. ~Has(toServer, "get_registry")
  BY <1>1, EmptyFacts DEF Rounds
<1> QED
  BY <1>1, <1>2 DEF Rounds

\* Serving a bind keeps the order.
LEMMA RoundBind ==
    ASSUME ScreenType, Rounds, pc \in {"round1", "round2"}, ServeBind
    PROVE  Rounds'
<1>1. /\ Has(toServer, "bind")
      /\ \A u : Has(toServer', u) => Has(toServer, u)
      /\ \A u : Once(toServer, u) => Once(toServer', u)
      /\ \A u : Ends(toServer, u) => Ends(toServer', u)
  BY RequestFacts DEF ServeBind
<1>2. PICK r \in Seq(Events) :
         Answer(r) /\ \A t : t \notin {"geometry", "mode"} => ~Has(r, t)
  BY BindAnswer
<1>3. /\ \A t : Has(toClient', t) => Has(toClient, t) \/ Has(r, t)
      /\ \A t : Once(toClient, t) /\ ~Has(r, t) => Once(toClient', t)
      /\ \A t, u : Before(toClient, t, u) /\ ~Has(r, t) => Before(toClient', t, u)
  BY <1>2, AnswerFacts
<1>4. ~Has(r, "global") /\ ~Has(r, "callback")
  BY <1>2
<1>5. ~Has(toServer', "get_registry")
  BY <1>1, FirstRequests DEF Rounds
<1>6. /\ Has(toClient', "callback") => Has(toClient, "callback")
      /\ Has(toClient', "global") => Has(toClient, "global")
      /\ Once(toClient', "callback") /\ Before(toClient', "global", "callback")
  BY <1>3, <1>4 DEF Rounds
<1>7. pc' = pc
  BY DEF ServeBind
<1>8. ASSUME pc = "round2"
      PROVE  ~Has(toClient', "callback") /\ Ends(toClient', "callback")
  BY <1>1, <1>6, <1>8, Absent, EmptyFacts DEF Rounds
<1> QED
  BY <1>1, <1>5, <1>6, <1>7, <1>8 DEF Rounds

\* Serving the sync request of a roundtrip keeps the order.
LEMMA RoundSync ==
    ASSUME ScreenType, Rounds, pc \in {"round1", "round2"}, ServeSync
    PROVE  Rounds'
<1>1. /\ Has(toServer, "sync") /\ Head(toServer).type = "sync"
      /\ \A u : Has(toServer', u) => Has(toServer, u)
      /\ ~Has(toServer', "sync")
      /\ Ends(toServer, "sync") => toServer' = <<>>
  BY RequestFacts, RequestType DEF ServeSync, Rounds
<1>2. PICK r \in Seq(Events) : r = <<Msg("callback", None)>>
  <2>1. <<Msg("callback", None)>> \in Seq(Events)
    BY MessageTypes
  <2> QED
    BY <2>1
<1>3. ~Has(r, "global") /\ Once(r, "callback") /\ Ends(r, "callback")
  BY <1>2, SingleFacts DEF Msg
<1>4. ~Has(toClient, "callback")
  BY <1>1 DEF Rounds
<1>5. /\ Once(toClient', "callback") /\ Ends(toClient', "callback")
      /\ Before(toClient', "global", "callback")
      /\ Has(toClient', "global") => Has(toClient, "global")
  BY <1>2, <1>3, <1>4, AnswerFacts DEF Rounds, ServeSync
<1>6. ~Has(toServer', "get_registry")
  BY <1>1, FirstRequests DEF Rounds
<1>7. pc' = pc
  BY DEF ServeSync
<1>8. Once(toServer', "sync") /\ Ends(toServer', "sync")
  BY <1>1, Absent
<1> QED
  BY <1>1, <1>5, <1>6, <1>7, <1>8 DEF Rounds

\* Announcing the globals keeps the order.
LEMMA RoundRegistry ==
    ASSUME ScreenType, Rounds, pc \in {"round1", "round2"}, ServeRegistry
    PROVE  Rounds'
<1>1. Has(toServer, "get_registry") /\ toServer' = Tail(toServer)
  BY RequestFacts DEF ServeRegistry, Request
<1>2. /\ pc = "round1" /\ toClient = <<>>
      /\ toServer = <<Msg("get_registry", None), Msg("sync", None)>>
  BY <1>1 DEF Rounds
<1>3. toServer' = <<Msg("sync", None)>>
  BY <1>1, <1>2, FirstRequests
<1>4. ~Has(toServer', "get_registry") /\ Once(toServer', "sync")
  BY <1>3, SingleFacts DEF Msg
<1>5. PICK r : r = [i \in DOMAIN globals |-> Msg("global", globals[i])]
  OBVIOUS
<1>6. r \in Seq(Events) /\ ~Has(r, "callback")
  BY <1>5, AnnouncementFacts
<1>7. ~Has(toClient, "callback")
  BY <1>2, EmptyFacts
<1>8. Answer(r)
  BY <1>5 DEF ServeRegistry
<1>9. ~Has(toClient', "callback") /\ Before(toClient', "global", "callback")
  BY <1>6, <1>7, <1>8, AnswerFacts
<1>10. Once(toClient', "callback")
  BY <1>9, Absent
<1> QED
  BY <1>2, <1>4, <1>9, <1>10 DEF Rounds, ServeRegistry

\* Binding a global keeps the order.
LEMMA RoundGlobal ==
    ASSUME ScreenType, Rounds, pc \in {"round1", "round2"}, OnGlobal
    PROVE  Rounds'
<1>1. /\ Has(toClient, "global")
      /\ \A u : Has(toClient', u) => Has(toClient, u)
      /\ \A u : Once(toClient, u) => Once(toClient', u)
      /\ \A u, v : Before(toClient, u, v) => Before(toClient', u, v)
  BY DispatchFacts DEF OnGlobal
<1>2. pc = "round1" /\ ~Has(toServer, "get_registry")
  BY <1>1, EmptyFacts DEF Rounds
<1>3. /\ Head(toClient) \in Events /\ Head(toClient).type = "global"
  BY DispatchType DEF OnGlobal
<1>4. PICK g \in Bindable : g = Head(toClient).arg
  BY <1>3 DEF Events
<1>5. toServer' = Append(toServer, Msg("bind", g))
  BY <1>4 DEF OnGlobal
<1>6. Msg("bind", g) \in Requests /\ Msg("bind", g).type = "bind"
  BY MessageTypes DEF Msg
<1>7. /\ Has(toServer', "sync") => Has(toServer, "sync")
      /\ ~Has(toServer', "get_registry") /\ Once(toServer', "sync")
  BY <1>2, <1>5, <1>6, AppendFacts DEF ScreenType, Rounds
<1> QED
  BY <1>1, <1>2, <1>7 DEF OnGlobal, Rounds

\* The end of the first roundtrip begins the second with every global bound.
LEMMA RoundEnds ==
    ASSUME ScreenType, Rounds, pc = "round1", OnSync
    PROVE  Rounds'
<1>1. /\ Has(toClient, "callback") /\ ~Has(toClient', "callback")
      /\ ~Has(toClient', "global")
      /\ \A u, v : Before(toClient, u, v) => Before(toClient', u, v)
  BY DispatchFacts DEF OnSync, Rounds
<1>2. ~Has(toServer, "get_registry") /\ ~Has(toServer, "sync")
  BY <1>1, EmptyFacts DEF Rounds
<1>3. pc' = "round2" /\ toServer' = Append(toServer, Msg("sync", None))
  BY DEF OnSync, AfterFirstRoundtrip
<1>4. Msg("sync", None) \in Requests /\ Msg("sync", None).type = "sync"
  BY MessageTypes DEF Msg
<1>5. /\ ~Has(toServer', "get_registry") /\ Once(toServer', "sync")
      /\ Ends(toServer', "sync")
  BY <1>2, <1>3, <1>4, AppendFacts DEF ScreenType
<1>6. Once(toClient', "callback") /\ Ends(toClient', "callback")
  BY <1>1, Absent
<1> QED
  BY <1>1, <1>3, <1>5, <1>6 DEF Rounds

\* Every step keeps RoundInv.
LEMMA NextRound == ScreenType /\ ShootInv /\ RoundInv /\ [Next]_vars => RoundInv'
<1> SUFFICES ASSUME ScreenType, ShootInv, RoundInv, [Next]_vars,
                    Steady', pc' \in {"round1", "round2"}
             PROVE  Rounds'
  BY DEF RoundInv
<1> USE DEF boundVars, resultVars, infoVars, streamVars
<1>1. CASE Connect
  <2>1. /\ toServer' = <<Msg("get_registry", None), Msg("sync", None)>>
        /\ toClient' = <<>> /\ pc' = "round1"
    BY <1>1 DEF Connect
  <2> QED
    BY <2>1, FirstRequests, EmptyFacts DEF Rounds
<1>2. CASE Capture \/ Compositor
  <2>1. Steady
    BY <1>2 DEF Steady, Capture, Compositor, OnGlobal, OnGeometry, OnMode, OnShootDone,
       OnSync, RoundtripFails, SelectFails, Select, CreateMemfd, MapFails, Shoot, Copy,
       Cleanup, ServeRegistry, ServeBind, ServeSync, ServeShoot
  <2>2. pc \in {"round1", "round2"}
    BY <1>2 DEF Capture, Compositor, OnGlobal, OnGeometry, OnMode, OnShootDone,
       OnSync, RoundtripFails, SelectFails, Select, CreateMemfd, MapFails, Shoot, Copy,
       Cleanup, ServeRegistry, ServeBind, ServeSync, ServeShoot
  <2>3. Rounds
    BY <2>1, <2>2 DEF RoundInv
  <2>4. CASE OnGlobal
    BY <2>2, <2>3, <2>4, RoundGlobal
  <2>5. CASE OnGeometry
    BY <2>2, <2>3, <2>5, RoundDispatch DEF OnGeometry
  <2>6. CASE OnMode
    BY <2>2, <2>3, <2>6, RoundDispatch DEF OnMode
  <2>7. CASE OnShootDone
    BY <2>2, <2>3, <2>7, RoundDispatch DEF OnShootDone
  <2>8. CASE OnSync
    BY <2>3, <2>8, RoundEnds DEF OnSync
  <2>9. CASE RoundtripFails
    BY <2>1, <2>9 DEF Steady, RoundtripFails
  <2>10. CASE ServeRegistry
    BY <2>2, <2>3, <2>10, RoundRegistry
  <2>11. CASE ServeBind
    BY <2>2, <2>3, <2>11, RoundBind
  <2>12. CASE ServeSync
    BY <2>2, <2>3, <2>12, RoundSync
  <2>13. CASE ServeShoot
    <3>1. Has(toServer, "shoot")
      BY <2>13, RequestFacts DEF ServeShoot
    <3> QED
      BY <2>2, <3>1 DEF ShootInv
  <2> QED
    BY <1>2, <2>2, <2>4, <2>5, <2>6, <2>7, <2>8, <2>9, <2>10, <2>11, <2>12, <2>13
       DEF Capture, Compositor, SelectFails, Select, CreateMemfd, MapFails, Shoot,
       Copy, Cleanup
<1>3. CASE ConnectFails
  BY <1>3 DEF ConnectFails
<1>4. ASSUME NEW o \in Outputs, Hotplug(o)
      PROVE  FALSE
  BY <1>4 DEF Hotplug, Steady, ScreenType
<1>5. CASE Disconnect
  BY <1>5 DEF Disconnect, Steady
<1>6. CASE UNCHANGED vars
  BY <1>6 DEF vars, RoundInv, Rounds, Steady
<1>7. CASE Done
  BY <1>6, <1>7 DEF Done
<1> QED
  BY <1>1, <1>2, <1>3, <1>4, <1>5, <1>6, <1>7 DEF Next
-----------------------------------------------------------------------------
\* An event or a request is its type and its argument.
LEMMA Messages ==
    /\ \A m \in Events : m = Msg(m.type, m.arg)
    /\ \A m \in Requests : m = Msg(m.type, m.arg)
    /\ \A t, u, x, y : Msg(t, x) = Msg(u, y) => t = u /\ x = y
  BY DEF Events, Requests, Msg

\* The event that is dispatched, and what stays in the stream.
LEMMA DispatchLeaves ==
    ASSUME ScreenType, NEW t, Dispatch(t)
    PROVE  \A m \in Range(toClient) :
              m \in Range(toClient') \/ m = Msg(t, Head(toClient).arg)
<1>1. Head(toClient) = Msg(t, Head(toClient).arg)
  BY DispatchType, Messages
<1>2. Range(toClient) = {Head(toClient)} \cup Range(toClient')
  BY DispatchFacts
<1> QED
  BY <1>1, <1>2

\* The request that is served, and what stays in the stream.
LEMMA RequestLeaves ==
    ASSUME ScreenType, NEW t, Request(t)
    PROVE  \A m \in Range(toServer) :
              m \in Range(toServer') \/ m = Msg(t, Head(toServer).arg)
<1>1. Head(toServer) = Msg(t, Head(toServer).arg)
  BY RequestType, Messages
<1>2. Range(toServer) = {Head(toServer)} \cup Range(toServer')
  BY RequestFacts
<1> QED
  BY <1>1, <1>2

\* A global that is announced is bound, and nothing else is lost.
LEMMA FlowGlobal ==
    ASSUME ScreenType, Flow, OnGlobal, pc # "select"
    PROVE  Flow'
<1>1. PICK g : g = Head(toClient).arg
  OBVIOUS
<1>2. \A m \in Range(toClient) : m \in Range(toClient') \/ m = Msg("global", g)
  BY <1>1, DispatchLeaves DEF OnGlobal
<1>3. Head(toClient) \in Events /\ Head(toClient).type = "global"
  BY DispatchType DEF OnGlobal
<1>4. g \in Bindable
  BY <1>1, <1>3 DEF Events
<1>5. /\ toServer' = Append(toServer, Msg("bind", g))
      /\ outputs' = IF g \in Outputs THEN Append(outputs, g) ELSE outputs
      /\ UNCHANGED <<pc, globals, models, modes>>
  BY <1>1 DEF OnGlobal
<1>6. Msg("bind", g) \in Requests
  BY <1>4, MessageTypes
<1>7. /\ Range(toServer') = Range(toServer) \cup {Msg("bind", g)}
      /\ Has(toServer, "get_registry") => Has(toServer', "get_registry")
  BY <1>5, <1>6, Appended, AppendFacts DEF ScreenType
<1>8. Range(outputs') = Range(outputs) \cup ({g} \cap Outputs)
  <2>1. CASE g \in Outputs
    BY <1>5, <2>1, Appended DEF ScreenType
  <2>2. CASE g \notin Outputs
    BY <1>5, <2>2
  <2> QED
    BY <2>1, <2>2
<1>9. ASSUME NEW h \in Range(globals) \cap Outputs
      PROVE  \/ h \in Range(outputs') \/ Msg("global", h) \in Range(toClient')
             \/ Has(toServer', "get_registry")
  BY <1>2, <1>7, <1>8, Messages DEF Flow
<1>10. ASSUME NEW o \in Range(outputs')
       PROVE  \/ Msg("bind", o) \in Range(toServer')
              \/ /\ o \in models \/ Msg("geometry", o) \in Range(toClient')
                 /\ o \in modes \/ Msg("mode", o) \in Range(toClient')
  <2>1. CASE o = g
    BY <2>1, <1>7
  <2>2. CASE o # g
    <3>1. o \in Range(outputs)
      BY <2>2, <1>8
    <3>2. Msg("geometry", o) # Msg("global", g) /\ Msg("mode", o) # Msg("global", g)
      BY Messages
    <3> QED
      BY <3>1, <3>2, <1>2, <1>7 DEF Flow
  <2> QED
    BY <2>1, <2>2
<1> QED
  BY <1>5, <1>9, <1>10 DEF Flow

\* The geometry and the mode of an output are recorded.
LEMMA FlowInfo ==
    ASSUME ScreenType, Flow, OnGeometry \/ OnMode, pc # "select"
    PROVE  Flow'
<1>1. PICK x : x = Head(toClient).arg
  OBVIOUS
<1>2. UNCHANGED <<pc, globals, outputs, toServer>>
  BY DEF OnGeometry, OnMode
<1>3. CASE OnGeometry
  <2>1. \A m \in Range(toClient) : m \in Range(toClient') \/ m = Msg("geometry", x)
    BY <1>1, <1>3, DispatchLeaves DEF OnGeometry
  <2>2. models' = models \cup {x} /\ modes' = modes
    BY <1>1, <1>3 DEF OnGeometry
  <2>3. \A y : Msg("global", y) # Msg("geometry", x) /\ Msg("mode", y) # Msg("geometry", x)
    BY Messages
  <2>4. \A y : Msg("geometry", y) = Msg("geometry", x) => y = x
    BY Messages
  <2> QED
    BY <1>2, <2>1, <2>2, <2>3, <2>4 DEF Flow
<1>4. CASE OnMode
  <2>1. \A m \in Range(toClient) : m \in Range(toClient') \/ m = Msg("mode", x)
    BY <1>1, <1>4, DispatchLeaves DEF OnMode
  <2>2. modes' = modes \cup {x} /\ models' = models
    BY <1>1, <1>4 DEF OnMode
  <2>3. \A y : Msg("global", y) # Msg("mode", x) /\ Msg("geometry", y) # Msg("mode", x)
    BY Messages
  <2>4. \A y : Msg("mode", y) = Msg("mode", x) => y = x
    BY Messages
  <2> QED
    BY <1>2, <2>1, <2>2, <2>3, <2>4 DEF Flow
<1> QED
  BY <1>3, <1>4

\* The end of a roundtrip loses nothing, and after the second nothing is under
\* way.
LEMMA FlowSync ==
    ASSUME ScreenType, Rounds, Flow, OnSync
    PROVE  Flow'
<1>1. PICK x : x = Head(toClient).arg
  OBVIOUS
<1>2. \A m \in Range(toClient) : m \in Range(toClient') \/ m = Msg("callback", x)
  BY <1>1, DispatchLeaves DEF OnSync
<1>3. \A y : /\ Msg("global", y) # Msg("callback", x)
             /\ Msg("geometry", y) # Msg("callback", x)
             /\ Msg("mode", y) # Msg("callback", x)
  BY Messages
<1>4. Has(toClient, "callback") /\ (Ends(toClient, "callback") => toClient' = <<>>)
  BY DispatchFacts DEF OnSync
<1>5. UNCHANGED <<globals, outputs, models, modes>>
  BY DEF OnSync, infoVars
<1>6. CASE pc = "round1"
  <2>1. toServer' = Append(toServer, Msg("sync", None)) /\ pc' = "round2"
    BY <1>6 DEF OnSync, AfterFirstRoundtrip
  <2>2. Msg("sync", None) \in Requests
    BY MessageTypes
  <2>3. /\ Range(toServer) \subseteq Range(toServer')
        /\ Has(toServer, "get_registry") => Has(toServer', "get_registry")
    BY <2>1, <2>2, Appended, AppendFacts DEF ScreenType
  <2> QED
    BY <1>2, <1>3, <1>5, <2>1, <2>3 DEF Flow
<1>7. CASE pc = "round2"
  <2>1. toServer' = <<>> /\ toClient' = <<>> /\ toServer' = toServer
    BY <1>4, <1>7 DEF OnSync, Rounds
  <2> QED
    BY <1>2, <1>3, <1>5, <2>1 DEF Flow
<1> QED
  BY <1>6, <1>7 DEF OnSync

\* Every request is answered by what it asks for.
LEMMA FlowServe ==
    ASSUME ScreenType, Rounds, Flow, pc \in {"round1", "round2"},
           ServeRegistry \/ ServeBind \/ ServeSync
    PROVE  Flow'
<1>1. UNCHANGED <<pc, globals, outputs, models, modes>>
  BY DEF ServeRegistry, ServeBind, ServeSync, infoVars
<1>2. CASE ServeRegistry
  <2>1. PICK r : r = [i \in DOMAIN globals |-> Msg("global", globals[i])]
    OBVIOUS
  <2>2. r \in Seq(Events) /\ \A g \in Range(globals) : Msg("global", g) \in Range(r)
    BY <2>1, AnnouncementFacts
  <2>3. Range(toClient') = Range(toClient) \cup Range(r)
    BY <1>2, <2>1, <2>2, AnswerFacts DEF ServeRegistry
  <2>4. PICK x : \A m \in Range(toServer) :
           m \in Range(toServer') \/ m = Msg("get_registry", x)
    BY <1>2, RequestLeaves DEF ServeRegistry
  <2>5. \A y : Msg("bind", y) # Msg("get_registry", x)
    BY Messages
  <2> QED
    BY <1>1, <2>2, <2>3, <2>4, <2>5 DEF Flow
<1>3. CASE ServeBind
  <2>1. PICK x : x = Head(toServer).arg
    OBVIOUS
  <2>2. \A m \in Range(toServer) : m \in Range(toServer') \/ m = Msg("bind", x)
    BY <1>3, <2>1, RequestLeaves DEF ServeBind
  <2>3. PICK r \in Seq(Events) :
           /\ Answer(r)
           /\ x \in Outputs => Msg("geometry", x) \in Range(r) /\ Msg("mode", x) \in Range(r)
    BY <1>3, <2>1, BindAnswer
  <2>4. Range(toClient') = Range(toClient) \cup Range(r)
    BY <2>3, AnswerFacts
  <2>5. ~Has(toServer, "get_registry")
    <3>1. Has(toServer, "bind")
      BY <1>3, RequestFacts DEF ServeBind
    <3> QED
      BY <3>1, FirstRequests DEF Rounds
  <2>6. \A y : Msg("bind", y) = Msg("bind", x) => y = x
    BY Messages
  <2>7. Range(outputs) \subseteq Outputs
    BY DEF ScreenType, Range
  <2> QED
    BY <1>1, <2>2, <2>3, <2>4, <2>5, <2>6, <2>7 DEF Flow
<1>4. CASE ServeSync
  <2>1. PICK x : \A m \in Range(toServer) : m \in Range(toServer') \/ m = Msg("sync", x)
    BY <1>4, RequestLeaves DEF ServeSync
  <2>2. \A y : Msg("bind", y) # Msg("sync", x)
    BY Messages
  <2>3. <<Msg("callback", None)>> \in Seq(Events)
    BY MessageTypes
  <2>4. Range(toClient) \subseteq Range(toClient')
    BY <1>4, <2>3, AnswerFacts DEF ServeSync
  <2>5. ~Has(toServer, "get_registry")
    <3>1. Head(toServer).type = "sync"
      BY <1>4, RequestType DEF ServeSync
    <3> QED
      BY <3>1, FirstRequests DEF Rounds
  <2> QED
    BY <1>1, <2>1, <2>2, <2>4, <2>5 DEF Flow
<1> QED
  BY <1>2, <1>3, <1>4

\* Every step keeps FlowInv.
LEMMA NextFlow ==
    ScreenType /\ ShootInv /\ RoundInv /\ FlowInv /\ [Next]_vars => FlowInv'
<1> SUFFICES ASSUME ScreenType, ShootInv, RoundInv, FlowInv, [Next]_vars,
                    Steady', pc' \in {"round1", "round2", "select"}
             PROVE  Flow'
  BY DEF FlowInv
<1> USE DEF boundVars, resultVars, infoVars, streamVars
<1>1. CASE Connect
  <2>1. /\ toServer' = <<Msg("get_registry", None), Msg("sync", None)>>
        /\ toClient' = <<>> /\ pc' = "round1" /\ outputs' = <<>>
    BY <1>1 DEF Connect
  <2>2. Has(toServer', "get_registry") /\ Range(outputs') = {}
    BY <2>1, FirstRequests, EmptyFacts
  <2> QED
    BY <2>1, <2>2 DEF Flow
<1>2. CASE Capture \/ Compositor
  <2>1. Steady
    BY <1>2 DEF Steady, Capture, Compositor, OnGlobal, OnGeometry, OnMode, OnShootDone,
       OnSync, RoundtripFails, SelectFails, Select, CreateMemfd, MapFails, Shoot, Copy,
       Cleanup, ServeRegistry, ServeBind, ServeSync, ServeShoot
  <2>2. pc \in {"round1", "round2", "select"}
    BY <1>2 DEF Capture, Compositor, OnGlobal, OnGeometry, OnMode, OnShootDone,
       OnSync, RoundtripFails, SelectFails, Select, CreateMemfd, MapFails, Shoot, Copy,
       Cleanup, ServeRegistry, ServeBind, ServeSync, ServeShoot
  <2>3. Flow
    BY <2>1, <2>2 DEF FlowInv
  <2>4. CASE pc = "select"
    <3>1. toClient = <<>> /\ toServer = <<>>
      BY <2>3, <2>4 DEF Flow
    <3> QED
      BY <1>2, <2>4, <3>1 DEF Capture, Compositor, OnGlobal, OnGeometry, OnMode,
         OnShootDone, OnSync, Dispatch, RoundtripFails, SelectFails, Select, CreateMemfd,
         MapFails, Shoot, Copy, Cleanup, ServeRegistry, ServeBind, ServeSync, ServeShoot,
         Request
  <2>5. CASE pc \in {"round1", "round2"}
    <3>1. Rounds
      BY <2>1, <2>5 DEF RoundInv
    <3>2. CASE OnGlobal
      BY <2>3, <2>5, <3>2, FlowGlobal
    <3>3. CASE OnGeometry \/ OnMode
      BY <2>3, <2>5, <3>3, FlowInfo
    <3>4. CASE OnShootDone
      <4>1. Has(toClient, "done")
        BY <3>4, DispatchFacts DEF OnShootDone
      <4> QED
        BY <2>5, <4>1 DEF ShootInv
    <3>5. CASE OnSync
      BY <2>3, <3>1, <3>5, FlowSync
    <3>6. CASE RoundtripFails
      BY <2>1, <3>6 DEF Steady, RoundtripFails
    <3>7. CASE ServeRegistry \/ ServeBind \/ ServeSync
      BY <2>3, <2>5, <3>1, <3>7, FlowServe
    <3>8. CASE ServeShoot
      <4>1. Has(toServer, "shoot")
        BY <3>8, RequestFacts DEF ServeShoot
      <4> QED
        BY <2>5, <4>1 DEF ShootInv
    <3> QED
      BY <1>2, <2>5, <3>2, <3>3, <3>4, <3>5, <3>6, <3>7, <3>8
         DEF Capture, Compositor, SelectFails, Select, CreateMemfd, MapFails, Shoot,
         Copy, Cleanup
  <2> QED
    BY <2>2, <2>4, <2>5
<1>3. CASE ConnectFails
  BY <1>3 DEF ConnectFails
<1>4. ASSUME NEW o \in Outputs, Hotplug(o)
      PROVE  FALSE
  BY <1>4 DEF Hotplug, Steady, ScreenType
<1>5. CASE Disconnect
  BY <1>5 DEF Disconnect, Steady
<1>6. CASE UNCHANGED vars
  BY <1>6 DEF vars, FlowInv, Flow, Steady
<1>7. CASE Done
  BY <1>6, <1>7 DEF Done
<1> QED
  BY <1>1, <1>2, <1>3, <1>4, <1>5, <1>6, <1>7 DEF Next
-----------------------------------------------------------------------------
\* When the output is selected on a steady connection, the modes and models of
\* all outputs have arrived, and all the outputs were announced.
LEMMA SelectFacts ==
    ASSUME ScreenType, Flow, pc = "select"
    PROVE  /\ Selected \subseteq modes
           /\ Range(globals) \cap Preferred # {} => Selected \subseteq Preferred
<1>1. toClient = <<>> /\ toServer = <<>>
  BY DEF Flow
<1>2. \A m : m \notin Range(toClient) /\ m \notin Range(toServer)
  BY <1>1, EmptyFacts
<1>3. ~Has(toServer, "get_registry")
  BY <1>1, EmptyFacts
<1>4. \A o \in Range(outputs) : o \in models /\ o \in modes
  BY <1>2 DEF Flow
<1>5. \A g \in Range(globals) \cap Outputs : g \in Range(outputs)
  BY <1>2, <1>3 DEF Flow
<1>6. Selected \subseteq Range(outputs)
  BY DEF Selected, KnownPreferred, Range
<1>7. ASSUME NEW g \in Range(globals) \cap Preferred
      PROVE  Selected \subseteq Preferred
  <2>1. g \in Range(outputs) /\ g \in models
    BY <1>4, <1>5, ScreenshooterAssumption
  <2>2. PICK i \in DOMAIN outputs : outputs[i] = g
    BY <2>1 DEF Range
  <2>3. i \in KnownPreferred
    BY <2>1, <2>2 DEF KnownPreferred
  <2> QED
    BY <2>3 DEF Selected, KnownPreferred
<1> QED
  BY <1>4, <1>6, <1>7

\* Every step keeps DimensionsKnown: only SelectFails reports missing
\* dimensions, and on a steady connection there are none.
LEMMA NextDimensions ==
    ScreenType /\ FlowInv /\ DimensionsKnown /\ [Next]_vars => DimensionsKnown'
<1> SUFFICES ASSUME ScreenType, FlowInv, DimensionsKnown, [Next]_vars
             PROVE  DimensionsKnown'
  OBVIOUS
<1> USE DEF boundVars, resultVars, infoVars, streamVars
<1>1. CASE SelectFails
  <2>1. CASE Steady
    <3>1. Selected \subseteq modes
      BY <1>1, <2>1, SelectFacts DEF FlowInv, SelectFails
    <3>2. SelectError # "no_dimensions"
      BY <3>1 DEF SelectError, None
    <3> QED
      BY <1>1, <3>2 DEF SelectFails, DimensionsKnown
  <2>2. CASE ~Steady
    BY <1>1, <2>2 DEF SelectFails, Steady, DimensionsKnown, ScreenType
  <2> QED
    BY <2>1, <2>2
<1>2. CASE ConnectFails \/ Connect \/ CreateMemfd \/ MapFails \/ Copy
  BY <1>2 DEF ConnectFails, Connect, CreateMemfd, MapFails, Copy, DimensionsKnown, None
<1>3. CASE OnGlobal \/ OnGeometry \/ OnMode \/ OnShootDone \/ OnSync \/ RoundtripFails
  BY <1>3 DEF OnGlobal, OnGeometry, OnMode, OnShootDone, OnSync, RoundtripFails,
     DimensionsKnown
<1>4. CASE Select \/ Shoot \/ Cleanup \/ Compositor
  BY <1>4 DEF Select, Shoot, Cleanup, Compositor, ServeRegistry, ServeBind, ServeSync,
     ServeShoot, DimensionsKnown
<1>5. ASSUME NEW o \in Outputs, Hotplug(o)
      PROVE  DimensionsKnown'
  BY <1>5 DEF Hotplug, DimensionsKnown, ScreenType
<1>6. CASE Disconnect
  BY <1>6 DEF Disconnect, DimensionsKnown
<1>7. CASE Done \/ UNCHANGED vars
  BY <1>7 DEF Done, vars, DimensionsKnown
<1> QED
  BY <1>1, <1>2, <1>3, <1>4, <1>5, <1>6, <1>7 DEF Next, Capture

\* Every step keeps PreferredCaptured: the target is chosen by Select alone, and
\* on a steady connection that knows every model.
LEMMA NextPreferred ==
    ScreenType /\ FlowInv /\ PreferredCaptured /\ [Next]_vars => PreferredCaptured'
<1> SUFFICES ASSUME ScreenType, FlowInv, PreferredCaptured, [Next]_vars
             PROVE  PreferredCaptured'
  OBVIOUS
<1> USE DEF boundVars, resultVars, infoVars, streamVars
<1>1. CASE Select
  <2>1. target' \in Selected /\ UNCHANGED <<globals, broken, hotplugs>>
    BY <1>1 DEF Select
  <2>2. CASE Steady
    <3>1. Range(globals) \cap Preferred # {} => Selected \subseteq Preferred
      BY <1>1, <2>2, SelectFacts DEF FlowInv, Select
    <3> QED
      BY <2>1, <3>1 DEF PreferredCaptured
  <2>3. CASE ~Steady
    BY <2>1, <2>3 DEF Steady, PreferredCaptured
  <2> QED
    BY <2>2, <2>3
<1>2. CASE ConnectFails \/ Connect
  BY <1>2 DEF ConnectFails, Connect, PreferredCaptured
<1>3. CASE OnGlobal \/ OnGeometry \/ OnMode \/ OnShootDone \/ OnSync \/ RoundtripFails
  BY <1>3 DEF OnGlobal, OnGeometry, OnMode, OnShootDone, OnSync, RoundtripFails,
     PreferredCaptured
<1>4. CASE SelectFails \/ CreateMemfd \/ MapFails \/ Shoot \/ Copy \/ Cleanup
  BY <1>4 DEF SelectFails, CreateMemfd, MapFails, Shoot, Copy, Cleanup,
     PreferredCaptured
<1>5. CASE Compositor
  BY <1>5 DEF Compositor, ServeRegistry, ServeBind, ServeSync, ServeShoot,
     PreferredCaptured
<1>6. ASSUME NEW o \in Outputs, Hotplug(o)
      PROVE  PreferredCaptured'
  BY <1>6 DEF Hotplug, PreferredCaptured, ScreenType
<1>7. CASE Disconnect
  BY <1>7 DEF Disconnect, PreferredCaptured
<1>8. CASE Done \/ UNCHANGED vars
  BY <1>8 DEF Done, vars, PreferredCaptured
<1> QED
  BY <1>1, <1>2, <1>3, <1>4, <1>5, <1>6, <1>7, <1>8 DEF Next, Capture

-----------------------------------------------------------------------------
\* The inductive invariant of capture() and the compositor.
ScreenInv ==
    /\ ScreenType /\ HeldInv /\ ShootInv /\ RoundInv /\ FlowInv
    /\ DimensionsKnown /\ PreferredCaptured

\* It holds when the server starts.
LEMMA InitScreen == Init => ScreenInv
<1> SUFFICES ASSUME Init
             PROVE  ScreenInv
  OBVIOUS
<1>1. ScreenType
  BY InitType
<1>2. HeldInv
  BY DEF Init, HeldInv
<1>3. toServer = <<>> /\ toClient = <<>>
  BY DEF Init
<1>4. ShootInv
  BY <1>3, EmptyFacts DEF Init, ShootInv, PixelsIfConnected, None
<1>5. RoundInv /\ FlowInv
  BY DEF Init, RoundInv, FlowInv
<1>6. DimensionsKnown /\ PreferredCaptured
  BY DEF Init, DimensionsKnown, PreferredCaptured, None
<1> QED
  BY <1>1, <1>2, <1>4, <1>5, <1>6 DEF ScreenInv

\* Every step keeps it.
LEMMA NextScreen == ScreenInv /\ [Next]_vars => ScreenInv'
  BY NextType, NextHeld, NextShoot, NextRound, NextFlow, NextDimensions, NextPreferred
     DEF ScreenInv

\* It always holds.
LEMMA ScreenCorrect == Spec => []ScreenInv
<1>1. Init => ScreenInv
  BY InitScreen
<1>2. ScreenInv /\ [Next]_vars => ScreenInv'
  BY NextScreen
<1> QED
  BY <1>1, <1>2, PTL DEF Spec

\* capture() releases all that it acquired, whichever step of it fails, for every
\* list of globals and every number of captures.
THEOREM NothingLeaksCorrect == Spec => []NothingLeaks
<1>1. ScreenInv => NothingLeaks
  BY DEF ScreenInv, HeldInv, NothingLeaks
<1> QED
  BY <1>1, ScreenCorrect, PTL

\* On a connection that holds, the reply carries the picture that the compositor
\* wrote: the done event cannot overtake the pixels.
THEOREM PixelsCorrect == Spec => []PixelsIfConnected
<1>1. ScreenInv => PixelsIfConnected
  BY DEF ScreenInv, ShootInv
<1> QED
  BY <1>1, ScreenCorrect, PTL

\* Two roundtrips are enough: capture() misses the dimensions of an output only
\* after a lost connection or a hotplug.
THEOREM DimensionsCorrect == Spec => []DimensionsKnown
<1>1. ScreenInv => DimensionsKnown
  BY DEF ScreenInv
<1> QED
  BY <1>1, ScreenCorrect, PTL

\* A DP-1 output that the compositor announced is the one that is captured,
\* wherever it is in the list.
THEOREM PreferredCorrect == Spec => []PreferredCaptured
<1>1. ScreenInv => PreferredCaptured
  BY DEF ScreenInv
<1> QED
  BY <1>1, ScreenCorrect, PTL
================================================================================
