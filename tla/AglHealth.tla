------------------------------- MODULE AglHealth -------------------------------
(***************************************************************************)
(* The health plugin (plugins/agl_health): every request fetches a JSON    *)
(* document from the health daemon with libcurl, on the RPC thread, and    *)
(* turns it into a snapshot; the client library decodes the snapshot.      *)
(*                                                                         *)
(* Abstractions: a document is what the parser and the fill functions tell *)
(* apart, the keys that it has and whether their values have the expected  *)
(* types; of a section in a snapshot only is kept whether its values are   *)
(* the document's or the defaults.  Time passes in units of the 5 seconds  *)
(* that libcurl waits; a client waits for two of them.                     *)
(***************************************************************************)
EXTENDS Integers, Sequences, FiniteSets

CONSTANTS
    HealthClients,
    Urls,           \* the daemons
    DefaultUrl,     \* the one the plugin is made with
    Documents,      \* what a daemon may answer
    MaxCalls        \* bound on the number of calls

Paths == {"metrics", "memory", "cpu", "process", "network", "security", "scheduler"}

\* The keys that a fill function asks for with at(), which throws
Required(section) ==
    CASE section = "cpu" -> {"load", "cores"}
      [] section = "network" -> {"ifaces", "tcp"}
      [] section = "scheduler" -> {"histogram", "buckets"}
      [] OTHER -> {}
\* ("values" stands for all that are read with value(), which has a default).
Sections(path) == IF path = "metrics" THEN Paths \ {"metrics"} ELSE {path}

\* The keys of /metrics itself; those of its parts are in Required.
TopLevel == {"memory", "top_processes", "security", "sched"}

Keys == TopLevel \cup {"values"} \cup UNION {Required(s) : s \in Paths}

\* The answer of a daemon: whether it parses, its shape, what is in it, and the
\* HTTP status, at which nobody looks.
Document == [json : BOOLEAN, shape : {"object", "list", "{}", "null"},
             has : SUBSET Keys, mistyped : SUBSET Keys, status : {"ok", "error"}]
NoDocument == [json |-> FALSE, shape |-> "null", has |-> {}, mistyped |-> {},
               status |-> "error"]

VARIABLES
    daemon_url_,
    queue,       \* the requests not yet served, in the order they came
    fetching,    \* the request that waits for libcurl, or <<>>
    waits,       \* by client: the number of the call it waits for, or 0
    age,         \* by client: for how long it has been waiting
    delayed,     \* history, by client: its call had to wait for another request
    reply,       \* the answer that this step gives to a client, or <<>>
    calls        \* the number of calls so far

healthVars == <<daemon_url_, queue, fetching, waits, age, delayed, reply, calls>>

ClientLimit == 2

HealthInit ==
    /\ daemon_url_ = DefaultUrl
    /\ queue = <<>> /\ fetching = <<>>
    /\ waits = [c \in HealthClients |-> 0]
    /\ age = [c \in HealthClients |-> 0]
    /\ delayed = [c \in HealthClients |-> FALSE]
    /\ reply = <<>>
    /\ calls = 0

-----------------------------------------------------------------------------
(***************************************************************************)
(* The client: a call, and what becomes of it.                             *)
(***************************************************************************)
\* GetMetrics() and the others send a request and wait.
Call(c, path, url) ==
    /\ waits[c] = 0 /\ calls < MaxCalls
    /\ calls' = calls + 1
    /\ queue' = Append(queue, [client |-> c, path |-> path, url |-> url, id |-> calls'])
    /\ waits' = [waits EXCEPT ![c] = calls']
    /\ age' = [age EXCEPT ![c] = 0]
    /\ delayed' = [delayed EXCEPT ![c] = queue # <<>> \/ fetching # <<>>]
    /\ reply' = <<>>
    /\ UNCHANGED <<daemon_url_, fetching>>

GetSnapshot(c, path) == Call(c, path, "none")
SetDaemonUrl(c, url) == Call(c, "setDaemonUrl", url)

\* Ten seconds are over.  The request stays where it is.
CallTimesOut(c) ==
    /\ waits[c] # 0 /\ age[c] >= ClientLimit
    /\ waits' = [waits EXCEPT ![c] = 0]
    /\ reply' = <<>>
    /\ UNCHANGED <<daemon_url_, queue, fetching, age, delayed, calls>>

\* Mutant of decode: the last section is forgotten.
decodeShort(path, snapshot) == [s \in Sections(path) \ {"scheduler"} |-> snapshot[s]]

\* What the decode functions make of a snapshot.
decode(path, snapshot) == [s \in Sections(path) |-> snapshot[s]]

\* The answer to the request r reaches its client, if that still waits for it;
\* doc is kept as history.
Answer(r, ok, doc, snapshot) ==
    LET a == [path |-> r.path, ok |-> ok, source |-> r.url, doc |-> doc,
              sections |-> IF ok /\ r.path \in Paths THEN decode(r.path, snapshot)
                           ELSE <<>>]
    IN  /\ waits' = [waits EXCEPT ![r.client] = IF @ = r.id THEN 0 ELSE @]
        /\ reply' = IF waits[r.client] = r.id THEN <<a>> ELSE <<>>

-----------------------------------------------------------------------------
(***************************************************************************)
(* The handlers.                                                           *)
(***************************************************************************)
\* A fill function throws: it needs an object, or for the processes a list or
\* something empty, and the keys it asks for, with values that convert.
Throws(section, doc) ==
    \/ IF section = "process" THEN doc.shape = "object"
       ELSE doc.shape \notin {"object", "{}"}
    \/ ~(Required(section) \subseteq doc.has)
    \/ (Required(section) \cup {"values"}) \cap doc.mistyped # {}

\* Where values are missing, value() puts its default.
fill(section, doc) == IF "values" \in doc.has THEN "data" ELSE "defaults"

\* In /metrics the sections are members of one object, the processes a list.
Part(section, doc) ==
    IF section = "process" THEN [doc EXCEPT !.shape = "list"] ELSE doc

\* json::parse(), at() for a section of /metrics, or a fill function throws.
HandlerThrows(path, doc) ==
    \/ ~doc.json
    \/ path # "metrics" /\ Throws(path, doc)
    \/ /\ path = "metrics"
       /\ \/ doc.shape # "object" \/ ~(TopLevel \subseteq doc.has)
          \/ \E s \in Sections(path) : Throws(s, Part(s, doc))

Idle == fetching = <<>>

setDaemonUrl ==
    /\ Idle /\ queue # <<>> /\ Head(queue).path = "setDaemonUrl"
    /\ daemon_url_' = Head(queue).url
    /\ queue' = Tail(queue)
    /\ Answer(Head(queue), TRUE, NoDocument, <<>>)
    /\ UNCHANGED <<fetching, age, delayed, calls>>

\* Mutant of daemonUrl: the url that was set is not used.
daemonUrlFixed == DefaultUrl

daemonUrl == daemon_url_

\* The other handlers begin with fetchJson(), up to curl_easy_perform().
Fetch ==
    /\ Idle /\ queue # <<>> /\ Head(queue).path \in Paths
    /\ fetching' = <<[request |-> [Head(queue) EXCEPT !.url = daemonUrl],
                      waited |-> 0]>>
    /\ queue' = Tail(queue)
    /\ delayed' = [c \in HealthClients |->
                      delayed[c] \/ waits[c] \notin {0, Head(queue).id}]
    /\ reply' = <<>>
    /\ UNCHANGED <<daemon_url_, waits, age, calls>>

\* Mutant of CurlLimit: ten seconds.
CurlLimitOfClient == 2

\* CURLOPT_TIMEOUT_MS
CurlLimit == 1

\* A unit of time passes for the clients that wait.
Elapse ==
    age' = [c \in HealthClients |-> IF waits[c] = 0 \/ age[c] = ClientLimit
                                    THEN age[c] ELSE age[c] + 1]

\* The daemon does not answer yet.
FetchWaits ==
    /\ ~Idle /\ fetching[1].waited < CurlLimit
    /\ fetching' = <<[fetching[1] EXCEPT !.waited = @ + 1]>>
    /\ Elapse
    /\ reply' = <<>>
    /\ UNCHANGED <<daemon_url_, queue, waits, delayed, calls>>

FetchReturns(ok, doc, snapshot) ==
    /\ Answer(fetching[1].request, ok, doc, snapshot)
    /\ fetching' = <<>>
    /\ UNCHANGED <<daemon_url_, queue, age, delayed, calls>>

\* libcurl cannot connect, or its time is over: the handler throws.
FetchFails == ~Idle /\ FetchReturns(FALSE, NoDocument, <<>>)

\* The document is there in time, and the handler answers or throws.
FetchAnswered(doc) ==
    /\ ~Idle /\ fetching[1].waited < CurlLimit
    /\ LET path == fetching[1].request.path
       IN  FetchReturns(~HandlerThrows(path, doc), doc,
                        [s \in Sections(path) |-> fill(s, doc)])

-----------------------------------------------------------------------------
Clients ==
    \E c \in HealthClients :
        \/ \E p \in Paths : GetSnapshot(c, p)
        \/ \E u \in Urls : SetDaemonUrl(c, u)
        \/ CallTimesOut(c)

Handler ==
    \/ setDaemonUrl \/ Fetch \/ FetchWaits \/ FetchFails
    \/ \E doc \in Documents : FetchAnswered(doc)

-----------------------------------------------------------------------------
(***************************************************************************)
(* Properties.                                                             *)
(***************************************************************************)
Snapshots == {a \in {reply[i] : i \in DOMAIN reply} : a.ok /\ a.path \in Paths}

\* A snapshot has every section of its request, and every one of them comes out
\* of the one document: a missing section is an error, never a part left blank
\* (the fill functions write into the reply as they go, and throw midway).
CompleteOrError ==
    \A a \in Snapshots :
        /\ DOMAIN a.sections = Sections(a.path)
        /\ \A s \in Sections(a.path) : Required(s) \subseteq a.doc.has
        /\ a.path = "metrics" => TopLevel \subseteq a.doc.has

\* A call that nobody else's request delays is answered, if only with an error,
\* before the client's ten seconds are over: libcurl gives up first.
NoLoneTimeout ==
    \A c \in HealthClients : waits[c] # 0 /\ age[c] = ClientLimit => delayed[c]

\* A snapshot is of the daemon whose url was set last when the reply is made, by
\* whichever client and however long the request had been waiting.
FromCurrentDaemon == \A a \in Snapshots : a.source = daemon_url_

(***************************************************************************)
(* What a comment in fetchJson() says, and the code does not keep.         *)
(***************************************************************************)
\* "HTTP-level errors will surface as malformed JSON and throw below": no snapshot
\* is made of an answer with an HTTP error.
HttpErrorsThrow == \A a \in Snapshots : a.doc.status # "error"
================================================================================
