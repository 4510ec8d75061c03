----------------------------- MODULE Connector -----------------------------
(***************************************************************************)
(* Connecting to a service by a race of candidate URLs                     *)
(* (RobotRaconteurNode_connector).  A candidate is tried every 15 ms while  *)
(* none has succeeded: it opens a transport connection for an endpoint of   *)
(* its own, the first that opens goes on to connect the service, the others *)
(* are closed.  The caller's handler gets the client or one error.          *)
(* The transport and the service are external: they answer a candidate      *)
(* late, in any order, or never.                                            *)
(***************************************************************************)
EXTENDS Integers, FiniteSets

CONSTANT URLs       \* the candidates some transport can connect to

ASSUME URLsAssumption == IsFiniteSet(URLs) /\ URLs # {}

VARIABLES
    started,                \* connect() has run: it is posted to the event loop
    finite_timeout,         \* timeout # RR_TIMEOUT_INFINITE, fixed
    urls,                   \* candidates not tried yet
    connecting, transport_connected,
    active,                 \* keys of what is in progress
    connect_timer,          \* TRUE: running
    connect_backoff_timer,  \* TRUE: running
    waiting,                \* candidate -> the callback it waits for
    endpoint,               \* candidate -> its endpoint in the node
    connection,             \* candidate -> its transport connection
    outcome,                \* history: what the handler was called with
    handler_calls           \* history: how often

timers == <<connect_timer, connect_backoff_timer>>
vars == <<started, finite_timeout, urls, connecting, transport_connected, active,
          connect_timer, connect_backoff_timer, waiting, endpoint, connection,
          outcome, handler_calls>>

\* Values of active_count: one for the list of URLs, two for each candidate.
MainKey == <<"urls">>

TransportKey(u) == <<"transport", u>>
ServiceKey(u) == <<"service", u>>

Keys == {MainKey} \cup ({"transport", "service"} \X URLs)

Outcomes == {"none", "client", "all failed", "service failed", "timed out"}

Init == /\ started = FALSE
        /\ finite_timeout \in BOOLEAN
        /\ urls = URLs
        /\ connecting = TRUE /\ transport_connected = FALSE
        /\ active = {}
        /\ connect_timer = FALSE /\ connect_backoff_timer = FALSE
        /\ waiting = [u \in URLs |-> "none"]
        /\ endpoint = [u \in URLs |-> "none"]
        /\ connection = [u \in URLs |-> "none"]
        /\ outcome = "none" /\ handler_calls = 0

-----------------------------------------------------------------------------
Answer(result) ==
    /\ connecting' = FALSE
    /\ outcome' = result /\ handler_calls' = handler_calls + 1

NoAnswer == UNCHANGED <<connecting, outcome, handler_calls>>

\* Mutant: one failure is the failure of the connect.
FailsAtOnce(keys, key) ==
    /\ active' = keys \ {key}
    /\ IF connecting THEN Answer("all failed") ELSE NoAnswer

\* Mutant: the key of what failed stays in the list.
KeyStaysActive(keys, key) ==
    /\ active' = keys
    /\ NoAnswer

\* handle_error, with keys in the active list.
handle_error(keys, key) ==
    \/ /\ ~connecting
       /\ active' = keys
       /\ NoAnswer
    \/ /\ connecting
       /\ active' = keys \ {key}
       /\ IF active' = {} THEN Answer("all failed") ELSE NoAnswer

\* The last reference to endpoint_cleanup of u goes: DeleteEndpoint closes the
\* connection too.
Deleted(u) == [endpoint EXCEPT ![u] = "deleted"]
Closed(u) == [connection EXCEPT ![u] = "closed"]

-----------------------------------------------------------------------------
(* connect2: try the next URL.                                             *)

\* AsyncCreateTransportConnection accepts it: its handler will be called later.
StartsCandidate(u, keys) ==
    /\ waiting' = [waiting EXCEPT ![u] = "transport"]
    /\ endpoint' = [endpoint EXCEPT ![u] = "registered"]
    /\ active' = IF urls' = {} THEN (keys \cup {TransportKey(u)}) \ {MainKey}
                               ELSE keys \cup {TransportKey(u)}
    /\ connect_backoff_timer' = (urls' # {})
    /\ connect_timer' = (urls' = {} /\ finite_timeout)
    /\ NoAnswer

\* It throws: not the last URL.
SkipsCandidate(u, keys) ==
    /\ urls' # {}
    /\ endpoint' = Deleted(u)
    /\ active' = keys
    /\ connect_backoff_timer' = TRUE
    /\ UNCHANGED <<waiting, connect_timer>>
    /\ NoAnswer

\* It throws for the last URL: the connect timer is not started.
LastCandidateThrows(u, keys) ==
    /\ urls' = {}
    /\ endpoint' = Deleted(u)
    /\ handle_error(keys, MainKey)
    /\ connect_backoff_timer' = FALSE
    /\ UNCHANGED <<waiting, connect_timer>>

connect2(keys) ==
    \E u \in urls :
      /\ urls' = urls \ {u}
      /\ \/ StartsCandidate(u, keys)
         \/ SkipsCandidate(u, keys)
         \/ LastCandidateThrows(u, keys)
      /\ UNCHANGED <<finite_timeout, transport_connected, connection>>

\* Mutant: the list of URLs itself is not counted as active.
KeysWithoutMain == {}

KeysAtStart == {MainKey}

Connect ==
    /\ ~started /\ started' = TRUE
    /\ connect2(KeysAtStart)

BackoffTimerFires ==
    /\ connect_backoff_timer
    /\ \/ /\ connecting
          /\ connect2(active)
       \/ /\ ~connecting
          /\ connect_backoff_timer' = FALSE
          /\ UNCHANGED <<finite_timeout, urls, connecting, transport_connected, active,
                         connect_timer, waiting, endpoint, connection, outcome,
                         handler_calls>>
    /\ UNCHANGED started

-----------------------------------------------------------------------------
(* connected_transport                                                     *)

TransportFails ==
    \E u \in URLs :
      /\ waiting[u] = "transport"
      /\ waiting' = [waiting EXCEPT ![u] = "none"]
      /\ endpoint' = Deleted(u)
      /\ handle_error(active, TransportKey(u))
      /\ UNCHANGED <<started, finite_timeout, urls, transport_connected, timers, connection>>

\* Mutant: the whole transport is closed, not the connection.
ClosesTransport(u) ==
    /\ active' = IF connecting THEN active \ {TransportKey(u)} ELSE active
    /\ waiting' = [waiting EXCEPT ![u] = "none"]
    /\ endpoint' = Deleted(u)
    /\ connection' = [v \in URLs |-> IF v = u \/ connection[v] = "open"
                                     THEN "closed" ELSE connection[v]]
    /\ UNCHANGED transport_connected
    /\ NoAnswer

\* A connection that is not needed any more.
ClosesLoser(u) ==
    /\ active' = IF connecting THEN active \ {TransportKey(u)} ELSE active
    /\ waiting' = [waiting EXCEPT ![u] = "none"]
    /\ endpoint' = Deleted(u)
    /\ connection' = Closed(u)
    /\ UNCHANGED transport_connected
    /\ NoAnswer

ConnectsService(u) ==
    /\ transport_connected' = TRUE
    /\ active' = (active \ {TransportKey(u)}) \cup {ServiceKey(u)}
    /\ waiting' = [waiting EXCEPT ![u] = "service"]
    /\ connection' = [connection EXCEPT ![u] = "open"]
    /\ UNCHANGED endpoint
    /\ NoAnswer

\* ClientContext::AsyncConnectService throws: the whole transport is closed,
\* with all its open connections.  The request it was sending may have been
\* recorded already: then its error comes to connected_client later.
ServiceThrows(u) ==
    /\ \/ /\ waiting' = [waiting EXCEPT ![u] = "none"]
          /\ endpoint' = Deleted(u)
       \/ /\ waiting' = [waiting EXCEPT ![u] = "late error"]
          /\ UNCHANGED endpoint
    /\ connection' = [v \in URLs |-> IF v = u \/ connection[v] = "open"
                                     THEN "closed" ELSE connection[v]]
    /\ handle_error(active, TransportKey(u))
    /\ UNCHANGED transport_connected

HaveOne == ~connecting \/ transport_connected

TransportConnects ==
    \E u \in URLs :
      /\ waiting[u] = "transport"
      /\ \/ HaveOne /\ ClosesLoser(u)
         \/ ~HaveOne /\ ConnectsService(u)
         \/ ~HaveOne /\ ServiceThrows(u)
      /\ UNCHANGED <<started, finite_timeout, urls, timers>>

-----------------------------------------------------------------------------
(* connected_client                                                        *)

\* An error ends the connect, whatever else is in progress.
ServiceFails ==
    \E u \in URLs :
      /\ waiting[u] \in {"service", "late error"}
      /\ waiting' = [waiting EXCEPT ![u] = "none"]
      /\ endpoint' = Deleted(u)
      /\ connection' = Closed(u)
      /\ IF connecting THEN Answer("service failed") ELSE NoAnswer
      /\ UNCHANGED <<started, finite_timeout, urls, transport_connected, active, timers>>

\* Mutant: a client that comes too late is given to the caller as well.
ReleasesAlways(u) ==
    /\ Answer("client")
    /\ endpoint' = [endpoint EXCEPT ![u] = "released"]
    /\ UNCHANGED connection

\* Mutant: a client that comes too late is forgotten.
ForgetsLate(u) ==
    \/ /\ connecting
       /\ Answer("client")
       /\ endpoint' = [endpoint EXCEPT ![u] = "released"]
       /\ UNCHANGED connection
    \/ /\ ~connecting
       /\ NoAnswer
       /\ UNCHANGED <<endpoint, connection>>

\* The client goes to the caller; one that comes too late is disconnected.
ReleasesOrDisconnects(u) ==
    \/ /\ connecting
       /\ Answer("client")
       /\ endpoint' = [endpoint EXCEPT ![u] = "released"]
       /\ UNCHANGED connection
    \/ /\ ~connecting
       /\ NoAnswer
       /\ endpoint' = Deleted(u)
       /\ connection' = Closed(u)

ServiceConnects ==
    \E u \in URLs :
      /\ waiting[u] = "service"
      /\ waiting' = [waiting EXCEPT ![u] = "none"]
      /\ ReleasesOrDisconnects(u)
      /\ UNCHANGED <<started, finite_timeout, urls, transport_connected, active, timers>>

-----------------------------------------------------------------------------
\* connect_timer_callback
ConnectTimerFires ==
    /\ connect_timer /\ connect_timer' = FALSE
    /\ IF connecting THEN Answer("timed out") ELSE NoAnswer
    /\ UNCHANGED <<started, finite_timeout, urls, transport_connected, active,
                   connect_backoff_timer, waiting, endpoint, connection>>

Next == \/ Connect \/ BackoffTimerFires \/ ConnectTimerFires
        \/ TransportFails \/ TransportConnects
        \/ ServiceFails \/ ServiceConnects

Spec == Init /\ [][Next]_vars

ServiceAnswers == ServiceFails \/ ServiceConnects

\* The event loop runs what was posted and every timer that is due.  With a
\* timeout the service connect has one of its own (ClientContext::AsyncConnectService).
EventLoop == /\ WF_vars(Connect) /\ WF_vars(BackoffTimerFires) /\ WF_vars(ConnectTimerFires)
             /\ WF_vars(finite_timeout /\ ServiceAnswers)

\* And the transport and the service always answer, one way or the other.
Peers == WF_vars(TransportFails \/ TransportConnects) /\ WF_vars(ServiceAnswers)

EventLoopSpec == Spec /\ EventLoop
FairSpec == EventLoopSpec /\ Peers

-----------------------------------------------------------------------------
\* Every variable has its type: what is active is the list of URLs or one of
\* the candidates' callbacks, each under a key of its own (active_count).
TypeOK ==
    /\ started \in BOOLEAN /\ finite_timeout \in BOOLEAN
    /\ urls \subseteq URLs
    /\ connecting \in BOOLEAN /\ transport_connected \in BOOLEAN
    /\ active \subseteq Keys
    /\ connect_timer \in BOOLEAN /\ connect_backoff_timer \in BOOLEAN
    /\ waiting \in [URLs -> {"none", "transport", "service", "late error"}]
    /\ endpoint \in [URLs -> {"none", "registered", "released", "deleted"}]
    /\ connection \in [URLs -> {"none", "open", "closed"}]
    /\ outcome \in Outcomes /\ handler_calls \in Nat

\* The caller's handler is called once at most, and then nothing is connecting
\* any more, however candidates, timers and errors interleave (connecting).
HandlerOnce ==
    /\ handler_calls <= 1
    /\ connecting <=> handler_calls = 0
    /\ outcome = "none" <=> handler_calls = 0

\* A candidate that waits for nothing has not leaked: its endpoint is deleted,
\* and its connection closed, unless it is the client the caller got, and then
\* its connection is open (endpoint_cleanup, connected_transport, connected_client).
LosersReleased ==
    \A u \in URLs \ urls :
      waiting[u] = "none" =>
        \/ endpoint[u] = "deleted" /\ connection[u] # "open"
        \/ endpoint[u] = "released" /\ outcome = "client"
             /\ \A v \in URLs : endpoint[v] = "released" => v = u

\* The client the caller got has an open connection: neither a loser nor an
\* error on another candidate closed it (connected_transport).
ClientStaysConnected ==
    \A u \in URLs : endpoint[u] = "released" => connection[u] = "open"

\* One candidate at most connects the service, though several transports may
\* open (transport_connected).
OneServiceConnect ==
    Cardinality({u \in URLs : connection[u] = "open"}) <= 1

\* While the connect is undecided, something active will decide it: the list
\* of URLs with its timer, or a candidate with a callback to come (active).
ActiveIsPending ==
    started /\ connecting =>
      /\ active # {}
      /\ MainKey \in active <=> connect_backoff_timer
      /\ \A u \in URLs : /\ TransportKey(u) \in active <=> waiting[u] = "transport"
                         /\ ServiceKey(u) \in active <=> waiting[u] = "service"

\* When nothing is active any more the handler gets the error of the last candidate,
\* and then every URL was tried and every one has failed (handle_error).  The error of
\* a service connect, which ends the connect at once, is another outcome.
FailsWhenAllFailed ==
    [][outcome = "none" /\ outcome' = "all failed" =>
         urls' = {} /\ \A u \in URLs : waiting'[u] \in {"none", "late error"}]_vars

\* If the transport and the service always answer, the handler is called, also
\* without a timeout (connect, connect2, handle_error).
HandlerCalled == <>(handler_calls = 1)

\* RobotRaconteurNode.h: "handler is called after the client connection succeeds
\* are fails", "Timeout is milliseconds": with a timeout the handler is called,
\* whatever the peers do.
HandlerCalledInTime == finite_timeout ~> handler_calls = 1
-----------------------------------------------------------------------------
(* The strengthening of the invariants above that every step keeps.        *)

\* Before connect() nothing has happened.
NotStarted ==
    ~started => /\ urls = URLs /\ connecting /\ ~transport_connected
                /\ ~connect_backoff_timer /\ ~connect_timer
                /\ \A u \in URLs : waiting[u] = "none"

\* What a candidate waits for says where its endpoint and its connection are.
Places ==
    \A u \in URLs :
      /\ u \in urls => waiting[u] = "none" /\ endpoint[u] = "none" /\ connection[u] = "none"
      /\ waiting[u] = "transport" => endpoint[u] = "registered" /\ connection[u] = "none"
      /\ waiting[u] = "service" => endpoint[u] = "registered" /\ connection[u] = "open"
      /\ waiting[u] = "late error" => endpoint[u] = "registered" /\ connection[u] = "closed"
      /\ waiting[u] = "none" /\ u \notin urls =>
           \/ endpoint[u] = "deleted" /\ connection[u] # "open"
           \/ endpoint[u] = "released" /\ connection[u] = "open" /\ outcome = "client"

\* transport_connected stands for the one connection that is or was open.
OneOpen ==
    /\ \A u \in URLs : connection[u] = "open" => transport_connected
    /\ \A u, v \in URLs : connection[u] = "open" /\ connection[v] = "open" => u = v

\* While the connect is undecided, the URLs not tried have their timer, and
\* the service of the open connection has not answered.
Undecided ==
    started /\ connecting =>
      /\ ~connect_backoff_timer => urls = {}
      /\ transport_connected => \E u \in URLs : waiting[u] = "service"

\* The inductive invariant: while the connect is undecided what is active is
\* exactly what will call back, and every candidate's endpoint and connection
\* are where its callback says (active, connected_transport, connected_client).
IInv == /\ TypeOK /\ HandlerOnce /\ ActiveIsPending
        /\ NotStarted /\ Places /\ OneOpen /\ Undecided
=============================================================================
