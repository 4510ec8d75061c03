# TLA+ specifications of the Robot Raconteur Pyodide core

Robot Raconteur is a remote-object protocol: a *service* offers objects with
properties, functions, events, *pipes* (packet streams) and *wires* (latest
value), and a *client* uses them through stubs. This repository is the client
that runs in a browser: the C++ core is compiled to WebAssembly and driven from
Python in Pyodide. It has no threads. Everything happens in callbacks of the
browser's event loop: timers (`emscripten_async_call`), functions that
`RobotRaconteurNode::Post` queues as timers of zero milliseconds, and the
callbacks of WebSockets. Between two callbacks anything may happen at the other
end of the connection, so that the hard part of the code is the order of
callbacks: replies, packets, timers, failures and the user's own calls.

Each specification models one such callback, or one call of the user, as one
action. This is exact for code without threads: nothing interleaves inside a
callback. A handler that the code calls *inside* a callback may call back into
the core; where the code changes nothing after the handlers ran, such a call is
an action that happens to follow at once, and the modules that rely on this say
so.

All paths below are in `src/RobotRaconteurCore/`: `src/X.cpp` is
`src/RobotRaconteurCore/src/X.cpp`.

## The system

| component | state it keeps | operations | what is hard |
|---|---|---|---|
| Pipe endpoint (`PipeEndpointBase`, `src/PipeMember.cpp`) | send and receive packet number (wrap at 2^32), receive queue, out-of-order buffer, ignore flag | send, receive, take, look, ignore, close | reordering, wrap, exceptions after a number is used |
| Pipe client member (`PipeClientBase`) | `connecting_endpoints`, `early_endpoints`, `pipeendpoints` | connect, packet routing, close from either side, shutdown of the stub | packets before the connect reply, timeouts of a connect the service accepted, reuse of an index |
| Service connector (`src/RobotRaconteurNode_connector.cpp`) | list of untried URLs, list of what is active, two timers, `connecting`, `transport_connected` | connect by a race of candidate URLs | any order of success and failure of candidates, timers and exceptions |
| Client context, requests (`ClientContext`, `src/Client.cpp`) | `request_number`, `outstanding_requests`, connection test timer, `m_Connected` | request, reply, timeout, failed send, connection test, close | late replies, wrap of numbers, closing with requests outstanding, lost connection |
| Client context, objects and session | table of stubs, `active_stub_searches`, authentication, locks, pulled service types | find an object reference, connect the service, authenticate, release, lock | concurrent searches of one path, service types pulled half-way, release during a search |
| Stream transport (`src/ASIOStreamBaseTransport.cpp`) | send queue, receive state, heartbeat, stream-op set-up | send one message at a time, receive, heartbeat, close | replacement of queued wire packets, close while a send is in progress |
| Browser WebSocket transport (`src/BrowserWebSocketTransport.cpp`) | table of connections, the socket's state and its one pending connect, send and receive handler | connect, read, write, close, events of the socket | close events during a connect, late events of a closed socket |
| Wire member (`src/WireMember.cpp`) | in and out value with timestamps, the connection | connect, value in, value out, close | stale values, a packet before the connect reply |
| Subscriptions (`src/Subscription.cpp`) | subscribed services and their connection state, retry timers, pipe and wire subscriptions | connect to what discovery finds, retry, close | retry racing discovery, close during a connect |
| Discovery (`src/Discovery.cpp`) | discovered nodes and services, updates in progress | announcements, update of services, subscriptions | updates of a node that went away |
| Node (`src/RobotRaconteurNode.cpp`) | transports, endpoints, recently deleted endpoints | routing, registering and deleting endpoints, cleanup | late messages for a deleted endpoint |
| Timers, async helpers (`src/Timer.cpp`, `src/AsyncUtils.cpp`) | running flag, the pending browser callback | start, stop, fire | stop from inside the callback, a timer racing its handler |
| Message reader and writer (`src/AsyncMessageReader.cpp`, `src/AsyncMessageWriter.cpp`) | a stack of parse states | read, write; resumable at any byte | resumption |
| Generators (`src/Generator.cpp`) | index of the generator at the service | next, abort, close | order of calls |
| Data (messages, packing, node IDs, errors, service definitions) | none | conversions | not concurrent |
| Python binding, node setup, logging, tap | none of the protocol's | conversions, I/O | not part of the protocol |

How they interact. The user calls `AsyncConnectService` of the **node**, which
makes a **connector**. The connector asks **transports** for connections, makes
a **client context** for each candidate and lets one connect the service. From
then on the context owns the session: a member call becomes
`AsyncProcessRequest`, a message down the transport and a table entry waiting for
the reply. Messages up go transport → node → endpoint (the client context) →
stub → member: `PipePacketReceived` and `WirePacketReceived` of the members, or
`MessageEntryReceived` of the context for replies. **Members** use requests of
the context to connect and disconnect, and plain messages for packets.
**Subscriptions** drive the connector from what **discovery** learned.

What makes each component correct:

* Pipe endpoint: packets come out once and in order, a lost one stops the stream
  but nothing overtakes it, nothing is stranded in the buffer.
* Pipe client: an endpoint that was handed to a caller gets all of its own
  session's packets, and only those; it is closed once.
* Connector: the handler is called exactly once; the winner keeps its connection,
  losers leave nothing behind; failure is reported when all failed and not before.
* Requests: every handler is called once, with the reply to its own request;
  closing or losing the connection answers everybody.
* Transport: messages leave in order, a close answers every pending handler.
* Objects: a path has one live stub, and whoever searches for it is answered once.
* Wire: a connection has values of its own session only, and the value set last is
  the one that arrives.
* Subscription: a service is connected, being connected or waiting for a retry, and
  never two of these; as long as it is open, claimed clients are left alone; closing
  leaves no client that it still manages.
* Discovery: the services kept of a node are not older than their nonce.
* Node: a message goes to the endpoint it was meant for.

## Modules

| module | models | run |
|---|---|---|
| `PipePackets` | receive side of one endpoint, as operators on its state | (used by `PipeStream`, `PipeClient`) |
| `ReliableStream` | abstract: what a reliable pipe promises | `pipe_stream` (refinement) |
| `PipeStream` | one direction of a connected pipe: two endpoints and the path | `pipe_stream`, `pipe_stream_gap` |
| `PipeStream_proofs` | proofs about `PipeStream` | |
| `PipeClient` | client side of a pipe member, every endpoint of it | `pipe_client_reconnect` |
| `WireClient` | client side of a wire member and its connections | (composed in `ClientMembers`) |
| `WireClient_proofs` | proofs about `WireClient` | |
| `ClientMembers`, `MCClientMembers` | a stub with a member of either kind, and its release; its instance | `pipe_client` |
| `ClientMembers_proofs` | proofs about `ClientMembers`: what is true of a pipe; every step of the stub is one of its member | |
| `Connector` | `RobotRaconteurNode_connector` | `connector`, `connector_timeout` |
| `Connector_proofs` | proofs about `Connector` | |
| `ClientRequests` | the request table of `ClientContext` | (used by `ClientObjects`) |
| `ClientRequests_proofs` | proofs about `ClientRequests` | |
| `ClientObjects` | searches for objects and the table of stubs, over `ClientRequests` | `client_requests` |
| `ClientObjects_proofs` | proofs about `ClientObjects`, which implements `ClientRequests` | |
| `StreamConnection` | one connection of the browser transport: connect, send queue, heartbeat, close | `stream_connection`, `stream_connection_stall` |
| `StreamConnection_proofs` | proofs about `StreamConnection` | |
| `Discovery` | what a node knows of one remote node, and its updaters | (composed in `Subscriptions`) |
| `ServiceSubscription` | a subscription that keeps clients connected, by type or by URL | (composed in `Subscriptions`) |
| `ServiceInfo2Subscription` | a subscription to the information of services | (composed in `Subscriptions`) |
| `Subscriptions`, `MCSubscriptions` | a node with one subscription of either kind; its instance | `subscriptions`, `subscriptions_claimed`, `subscriptions_forgotten` |
| `Subscriptions_proofs` | proofs about `Subscriptions`, with discovery and both kinds of subscription | |

### PipePackets and PipeStream

`receiver` is the part of `PipeEndpointBase` that `PipePacketReceived` changes:
`recv_packet_number`, `recv_packets`, `out_of_order_packets`. The drain loop of
the code is one operator, `DrainLengths`: the number of buffered packets that
follow without a gap. Packets are named 1, 2, ... in the order in which the
caller asked for them; what travels is the packet with its number. `lost` is a
history variable of the packets that an exception swallowed, either in
`AsyncSendPacketBase` (after the number was advanced) or in `DispatchPacket`
(before the endpoint saw it).

The path is a set: the code below the pipe may deliver in any order (messages of
a pipe declared `unreliable` may be lost too, `Drop`). Asynchronous `Deliver`
callbacks to the user's listeners, packet acknowledgements and `PeekNextPacket`
change no packet state and are left out.

*Assumption* `InWindow`: fewer than `NumMod - 1` packets are between the two
ends (2^32 - 1 in the code, which does not check it either).

### PipeClient

The four tables of the code: `connecting_endpoints`, `early_endpoints`,
`pipeendpoints`, and for each connect request the state of its entry in the
request table (`attempts`). `endpoints` is the list of all endpoint objects, so
that a table entry is an index into it. The service's ends (`sessions`) and the
two directions of the connection are external; the connection keeps order, as
the stream transports do. A packet carries the session it belongs to, which the
code does not know: `StreamOfOneSession` compares it with the session whose
connect reply the endpoint was handed out for. Nobody calls `ReceivePacket`, so
that `recv_packets` is everything an endpoint ever received.

A packet that `DispatchPacket` cannot unpack is swallowed (`src/PipeMember.cpp:586`), at
a connected endpoint as at an early one, which may be made for it: `undecoded` of the
endpoint records it, and a reliable endpoint then holds everything behind it.
`NoPacketLost` counts these packets, and what is held. Nothing is assumed about the order
of the service's reply and its closing: a service may send packets to an endpoint, and
close it, before it replies.

The properties have four exceptions, because the code has them:

* `Abandoned(i)`: a connect request of index i timed out but the service
  accepted it. Nothing tells the service. Its packets may open an early endpoint
  that a *later* connect of this index adopts (as long as some connect is in
  progress the early endpoints live), so that the caller gets packets of two
  sessions.
* `GivenUp(i)`: the caller closed an endpoint of index i. `AsyncClose` does not
  remove it from `pipeendpoints`, and `Register` (`unordered_map::insert`) does
  not replace it. This is the finding of `pipe_client_reconnect`. Closing an
  endpoint that the service has already closed, and whose index it has already
  given to someone else, disconnects that someone.
* `ClosedUnheard(i)`: the service closed an endpoint of index i before it replied to
  its connect. `PipeClosed` looks in `pipeendpoints` alone and is ignored
  (`src/PipeMember.cpp:489`); the reply then registers an endpoint that is closed
  already, and the next connect of this index is not registered at all, or its packets
  go to the dead one.
* `shut_down`: a connect reply that comes after the stub was released still
  registers and hands out an endpoint.

`Good(i)` says that none of the first three has happened at index i. Each is of one
index: what the code does wrong there never reaches another, which is what the
properties show.

### WireClient and ClientMembers

A wire has no queue: each side keeps the latest value of the other, with a time, and
drops what is not newer. `connection` is the member's one connection, an index of
`wires`, which holds every connection object that a caller was ever given: callers
keep old ones, and nothing in the code stops them from sending or closing with
those. A value is its sender and its time; `SendTime` is the rule that makes the
next time later than the last even when the clock is not. The service is external:
one session at a time, which takes values by the same rule.

`AsyncConnect` with a connection throws, and the `catch` of the code resets the
connection that was there; `ReceiveWireClosed` closes the member's connection with
another request. Both are in the model as they are. The properties have three
exceptions, each a history variable: `overlapped` (a connect was sent while another
was pending: the code cannot tell whose reply comes), `closed_other` (the caller
closed an object that is not the member's connection: the code then disconnects the
session of the one that is) and `stray_value` (such an object sent a value).

`ClientMembers` puts a pipe member and a wire member behind the release of their
stub (`Shutdown`). Members of a stub have nothing else in common, so that `member`
is fixed in the initial state and the state space is the sum of the two, not the
product.

### Connector

`active` is `active`/`active_count`: a value for the list of URLs (`MainKey`)
and two for each candidate (`TransportKey` and `ServiceKey`), which are distinct
because the code takes a fresh number for each. `waiting[u]` says which callback
of the candidate is still to come. `endpoint[u]` and `connection[u]` say what the
candidate holds in the node: `endpoint_cleanup` deletes the endpoint, with its
connections, when the last callback that holds it goes.

*Assumptions.* URLs are not empty and a transport can connect each of them (the
others are filtered by `connect`); transports outlive the connect (`connect2` skips the
candidate of one that is gone without an error, `src/RobotRaconteurNode_connector.cpp:384`,
which is not modelled). A timer that the code
drops with `reset()` still fires; it then finds `connecting` false.
`transport->Close()` in `ServiceThrows` closes all connections of the transport;
only those of the same connect are modelled.

Details of the code that the model keeps: when the last URL throws no connect
timer is started (`LastCandidateThrows`); the error of a *service* connect ends
the connect whatever else is active (`ServiceFails`); a service connect that
throws may still report an error later (`"late error"`).

### ClientRequests

`outstanding_requests` maps request numbers to calls. A close is a request with
`kind = "close"`, whose handler is `AsyncClose1`; `AsyncClose1` answers
everything that is outstanding, other closes included, whose handlers are
`AsyncClose1` again: `Complete`, `ConnectionTest` and `PostedClose` write out
where this recursion ends. A call that throws has both its exception and,
later, its handler called (the entry was made before the send); `Sent` excludes
it from the properties. A reply that is an error is decoded when its entry is out of the
table and its timer stopped; if that throws (`src/Client.cpp:841-842`, swallowed at 860)
the handler is never called: `Drop`, and `dropped` of the call, which the properties of
that call except. The message of a close whose send fails makes the code
post `AsyncClose1` itself, so that its handler is called twice (`DisconnectsDue`) and
`ClientClosed` may be raised twice.

*Assumptions.* `InWindow`: a number is not reused while a message that carries
it is on its way (2^32 numbers, a bounded delay). With all numbers taken
`NextNumbers` is empty where the code would loop for ever. The extra call of
`connection_test` that `Timer::Stop` can leave behind is one more
`ConnectionTest`. The reuse of a request number by a *stale timer* (timers of
requests that were answered by an error are not stopped) needs all 2^32 numbers
to come round within the timeout and is not modelled.

### ClientObjects

`AsyncFindObjRef` over the requests: a search asks for the type of the object, pulls
definitions if it must (each a request made in the handler of the last:
`ReplyAsksAgain` of `ClientRequests`), and makes a stub. A search of a path that is
being searched joins (`active_stub_searches_handlers`). All searches are of one path:
those of others touch other entries of each table. `finds` is the list of the calls;
a call that joined has no request. `searching` says whether the path is in
`active_stub_searches`.

What makes it hard is that the tables are keyed by path, while a search may end
twice: its own timer (`async_timeout_wrapper`, started before the request) answers
it and takes the path out, and its request goes on and ends it again, by then perhaps
in the place of a newer search of the path. `AsyncFindObjRef3` therefore answers all
that joined, whichever search it belongs to, and `Unanswered` (`handled` of the
wrapper) makes the second end harmless. A search whose reply is dropped ends by its
timer alone; without one its path stays in `active_stub_searches`, and every later search
of the path joins it and waits for ever (`Awaited`; `EveryFindAnswered` excepts it). Every action of `ClientRequests` that answers
requests is taken together with what this does to the searches (`RequestsAnswered`).

Three details the model keeps: the timeout of a call that joins is not used; the
definitions are pulled with the timeout of the search converted to unsigned, which
throws for an infinite one, so that such a search fails (`SearchesFail`); a stub in
the table is returned whatever type the caller asked for.

### StreamConnection

`BrowserWebSocketTransportConnection` with its base class
`ASIOStreamBaseTransport`. `socket` is what the browser knows ("lost" covers
closing and closed); `active_transports` says whether its events still find the
connection, so that a socket can be lost some time before `WebsocketEnds` tells.
`out` is the sending half: `sending`, the queue, the message being written and how
many pieces of it are left (64 KB each in the code, two for a `"call"` here). A
write in progress is exactly one posted completion, `EndSendMessage`. All else that
the code posts is in the set `posted` and runs in any order.

Kinds of messages: `"call"` (any message of a member), `"packet"` (a value of one
wire), `"unwritable"` (`ComputeSize` accepts it, `Write` throws: an entry with more
than 65535 elements, or no memory for the buffer), and the connection's own
`"streamop"`, `"test"` and `"testret"`, whose handler closes it on an error. Their
headers differ, so that only a packet replaces a packet and only a heartbeat is
dropped for a heartbeat.

`server` is read in `AsyncConnect1` before anything is assigned to it: both values
are initial states. As a "server" the connection reports success at once, without
the handshake. `url_valid` says whether `ParseConnectionURL` accepts the URL;
`CanConnectService` looks at the scheme only, and with an invalid URL
`AsyncConnect1` swallows the exception together with the connect handler.

*Abstractions.* Version 2 messages, written synchronously, as the transport sets
by default. Times: `heartbeat_timer_func` decides freely whether a heartbeat is due
and whether the peer was silent too long. Write errors do not occur: the code
ignores the result of `emscripten_websocket_send_binary` and always completes with
success, so what is written to a lost socket vanishes (`async_write_some`). The
transport object outlives its connections. A handler that sends or closes is an
action that follows at once; the code changes nothing after the handlers, except
in `EndSendMessage1`, where such a send is queued in either order. Callers
send only after their connect handler had success. Pausing and the capability
requests have no caller in this repository.

### Discovery, ServiceSubscription, ServiceInfo2Subscription, Subscriptions

`Discovery` is the storage of one remote node. The remote node has a list of services
that changes (`history`), and a nonce that changes with it; here the nonce of a list
is its version. Announcements carry any version up to the present one: they are
datagrams, late and out of order. An updater (`backoff`, `connecting`, `answered`)
tries up to `MaxTries` times and posts its result; the storage and both of these
outlive the node (`Held`, `Kept` say what of a lost storage still matters).

`ServiceSubscription` keeps one client per service. `clients` are the entries of its
map, `connections` every client context it ever connected; a connection passes
`connecting`, `open`, `lost`, `closing`, `closed` or `failed`, and `ClientConnected`
(`ClientConnects`) may run when it has already been lost again. The subscription
knows its clients by weak pointers: `Alive` says whether the pointer can be locked,
which is so until `AsyncClose1` has cleared the stubs, and afterwards only if the
application holds the client. `ClientEvent` compares what it finds with the
connection the event is about. `left` is a history variable: what `Close` found being
connected, which it does not close, and what was claimed.

`ServiceInfo2Subscription` keeps a list only; its `NodeUpdated` stops at the first
service it knows (`NewOnes`), as the code does.

`Subscriptions` composes them: discovery calls `NodeUpdated` and `NodeLost` in the
step that changes its storage. The full product of discovery with a connecting
subscription has more than 15 million states, so that the kinds of subscription share
them differently: with a subscription to information discovery runs in full; to one
by type it is external and tells any list the node may have had, again and again,
which includes all that discovery could tell; one by URL does not hear of discovery.

## What the runs check

| run | bounds | result |
|---|---|---|
| `pipe_stream` | `NumMod = 4`, 6 packets | numbers wrap once inside the run, three packets (a full window) can be out of order at once; all properties hold and the ends implement `ReliableStream` |
| `pipe_stream_gap` | `NumMod = 4`, 3 packets | violation: a packet sent after one whose send threw never arrives |
| `pipe_client` | pipe: 2 indices, 2 connects, 2 packets per session, 3 messages in flight; wire: 2 connects, times up to 2, 3 messages each way; one failure, either a packet that cannot be unpacked or a close before the reply (6.5 million states) | all hold. Two connects cover every collision of one connect with another (same index, `ANY_INDEX`, an index just freed); two packets are the least that can be split by a connect reply; three messages hold a packet, a reply and a close at once. The wire alone with three connects, one time and two messages holds as well (1.37 million states), and shows that the exception `overlapped` is needed. Without the bound of one failure (a state constraint of `MCClientMembers`) all hold, too (14.5 million states) |
| `pipe_client_reconnect` | those of the pipe | violation: connect, close, connect the same index |
| `connector` | 3 URLs | all hold: a winner, a loser and one that is not tried yet are there together |
| `connector_timeout` | 2 URLs | violation: first hangs, last throws, no timer runs |
| `client_requests` | 2 numbers, 3 calls, 3 searches (332 thousand states) | all hold: the numbers come round past an outstanding request; one search can time out, a second of the path start, and a third join it before the first's reply comes. The safety part is proved for every bound |
| `stream_connection` | 4 messages, 3 of them the callers' after a handshake | all hold: one message being written and three queued are enough for a packet to replace another around a third message, and for one that cannot be written to be first or in the middle |
| `stream_connection_stall` | the same | violation: a message queued behind one that cannot be written is never answered |
| `subscriptions` | 2 services, 2 histories of 2 lists, 2 storages, 1 nonce remembered, 2 tries, 2 updaters per storage, 2 connects, gives up after 1 error (399 thousand states) | all hold. Two lists are what an update can be caught between; two storages are a node that is lost and found while its old updater runs; two connects are a connection and its successor, whose events must not be confused |
| `subscriptions_claimed` | the same | violation: a client is connected and claimed, and Close closes it |
| `subscriptions_forgotten` | the same with 1 storage, try and updater | violation: a service closes, its client is destroyed first, and the subscription never retries |

In `pipe_stream` and `connector` the checked `IInv` contains the type invariant, and in
`connector` also `ActiveIsPending` and `OneOpen` (at most one open connection).

`CHECK_DEADLOCK FALSE` everywhere: every model stops when the bounded number of
calls has been made and all messages have been handled.

Properties worth reading first: `BufferedOnlyBehindAGap` and `ImplementsStream`
(PipeStream), `StreamOfOneSession` and `NoPacketLost` (PipeClient),
`ActiveIsPending`, `LosersReleased` and `HandlerCalled` (Connector),
`OutstandingUntilAnswered`, `AnswerIsOwn` and `EveryRequestAnswered`
(ClientRequests), `WaitingIsSearched` and `OneStub` (ClientObjects), `AnsweredOnce` and
`SupersededByNewer` (StreamConnection), `NoDeadConnection` and `LastValueReached`
(WireClient), `OneAttempt` and `ClaimedIsLeft` (Subscriptions), `NoOlderThanNonce`
(Discovery).

### Fairness

All fairness is weak and belongs to the event loop, which runs every callback
that is due: `Receive` (a message the transport has read is dispatched),
`Connect` (posted), the timers of the connector, `RequestTimeout`,
`ConnectionTest`, `PostedClose` and, in `ClientObjects`, `SearchTimeout`; in `StreamConnection` the completion of a write,
each posted call, the timer of the handshake, and the browser's telling of a lost
socket. Nothing is assumed of the user. Of the peers
only the run of `HandlerCalled` assumes something (`Peers`: the transport and the
service answer every candidate in some way); without it and without a timeout a
connect may wait for ever, as it should. `HandlerCalledInTime` assumes the event
loop alone. `EveryFindAnswered` assumes timers alone, too, and so speaks of searches
with a timeout, or of a lost connection. Nothing is promised in time by a
subscription or by a wire: their properties are safety.

### Findings

1. *A throwing send breaks a reliable pipe* (`src/PipeMember.cpp:153`). The number
   is used before packing and sending, so that a packet that is too large leaves
   a gap that the receiver waits for.
2. *Reconnecting an index gives a dead endpoint* (`src/PipeMember.cpp:812`).
3. *A connect with a timeout may hang* (`src/RobotRaconteurNode_connector.cpp:410`).
4. *A message that cannot be written stops a connection*
   (`src/ASIOStreamBaseTransport.cpp:676`). `sending` stays true, and since the
   receive timeout is measured to the last message *sent*, the connection does
   not notice.
5. *Closing a subscription closes claimed clients* (`src/Subscription.cpp:524`).
   `include/RobotRaconteur/Subscription.h:301` and `:330` say that the subscription does not
   manage a claimed client any more, and `ReleaseClient` still closes one that is
   released after `Close`; but `Close` has closed it, and forgets every claim. An open
   subscription leaves claimed clients alone (`ClaimedIsLeft`), and of those that were
   claimed when it was closed `ClosedLeavesNoOther` says nothing.
6. *A subscription forgets a service whose client nobody holds*
   (`src/Subscription.cpp:1042`). `AsyncClose1` clears the stubs, the only strong
   pointers to the client, before it tells the subscription, which then finds its weak
   pointer expired and starts no retry timer.

Met while modelling, and not the subject of a run (the models do the same where it
concerns what they model):

* `NodeUpdated` of both kinds of subscription returns at the first service that is
  known or connected, where it should go on with the next (`src/Subscription.cpp:359`,
  `:758`): services later in the list are not looked at until the list changes again.
* `ServiceInfo2Subscription` announces a service that is gone as detected
  (`src/Subscription.cpp:416`); `ConnectRetry2` forgets an entry whose node has not
  been updated for 65 seconds, which is also a node that has not *changed* for so long
  (`:945`); an exception of the connect in `InitServiceURL` is not retried;
  `UpdateServiceURL` looks at the first of its URLs only; `Close` leaves clients whose
  connect is in progress (`ClosedLeavesNoOther` excepts exactly these and the claimed).
* An old announcement that comes late sets the nonce back, and the current one is then
  "recent": the services stay stale until a nonce comes that is not remembered
  (`src/Discovery.cpp:1125`). A failed update is likewise not tried again by an
  announcement whose nonce is remembered. An updater that outlives its node tells
  subscriptions of services of a node that is lost (`LostNodeIsForgotten` excepts
  exactly this).
* A disconnect of a client that is not connected any more, a second one for example,
  returns without calling its handler (`src/Client.cpp:1668`), of which
  `include/RobotRaconteur/RobotRaconteurNode.h:939` says that it is called when complete.
* An error reply that cannot be decoded leaves its request without an answer
  (`src/Client.cpp:841-842`); a close before the connect reply leaves a dead endpoint
  at the index (`src/PipeMember.cpp:489`).
* When the request for the services of a node cannot be sent, `handle_error` of discovery
  runs twice, for the exception and for the entry the request left
  (`src/Discovery.cpp:821`, `:826`), and two attempts go on in one updater. The second is not
  modelled: both share the count of tries and the handler, which whatever ends first
  takes, so that what becomes of the storage is what one attempt can make of it, and no
  property speaks of the attempts.
* A connect of a wire that is connected throws and drops the connection there is
  (`src/WireMember.cpp:608`); `WirePacketReceived` uses a null connection when the
  service closes a wire that is not connected (`:499`); closing an old connection
  object disconnects the present one.
* A call of `AsyncFindObjRef` that joins a search has no timeout of its own, and a
  search without a timeout fails when it must pull a definition
  (`src/Client.cpp:1918`).

## What is proved

The eight `_proofs` modules are checked by TLAPS without any assumption but the ones on
the constants: `NumMod >= 2`; `URLs` finite and not empty; at least one request number;
in every history a node has a list of its services at any time, with no service twice
(`HistoriesAssumption`); indices of a pipe that are natural numbers, and fewer packets
on one of its endpoints than there are packet numbers (`BoundsAssumption`; numbers that
wrap are the subject of PipeStream); and bounds that are natural numbers (`MaxPackets`,
`MaxSends`, `MaxTime`, `MaxMessages`, `MaxConnects`, `MaxInFlight` and the bounds of
discovery and subscriptions). TLC evaluates
these assumptions in the runs.

**PipeStream**, for every modulus and number of packets: `TypeCorrect`,
`DeliveredInOrder`, `StopsAtALoss`, `NothingStranded`, `NeverWaitsInVain`, and
`StreamImplemented`, that the two ends implement `ReliableStream`. `InOrder` alone is not inductive: it says nothing of
what is on the path or in the buffer. The inductive invariant `IInv` says that a
packet's number is its place in the order of requests modulo `NumMod`
(`NumbersFollowRequests`); that everything buffered, on the path or lost lies
ahead of the queue (`Ahead`), in one place only (`OnePlace`); and that all of it
lies in a window shorter than `NumMod` (`Window`), so that in this window a number
names one packet. The lemmas on `%` show the last point; with it, the buffered
packets that the drain loop takes are the ones that follow. `NothingStranded` needs
the companion invariant `Accounted`: no packet ahead of the queue disappears, so the
one that a buffered packet waits for is on the path or lost (or was ignored). From it
`NeverWaitsInVain` follows too: the packet whose turn it is is never in the buffer, so
that a pipe stops for good only at a loss.

**Connector**, for every finite set of URLs: `CalledOnce`, `NothingLeaks`,
`StaysConnected`, `OneConnection`, `Progressing`, and the action property
`FailsLast`. Here the strengthening is that what a candidate waits for determines
where its endpoint and connection are (`Places`), that `transport_connected`
stands for at most one open connection (`OneOpen`), and that while the connect is
undecided the active keys are exactly the callbacks and the timer still to come
(`ActiveIsPending`, `Undecided`). `handle_error` decides by `active = {}`; without
the last part it could report failure with a candidate still open.

**ClientRequests**, for every number of request numbers and of calls: `AnsweredOnce`,
`OwnAnswer`, `Tested`, `Final`, `DisconnectsDue` and `TypeCorrect`. The inductive invariant says that the table and the
calls fit (`Fits`: an entry's call is not answered, and every call that was sent and
is not answered has its one entry), that a message whose number is that of an entry
is about the call of that entry (`Own`: this is what makes the reuse of numbers
harmless, and what a number that came round too early would break), and that only
closes that were never sent are posted, so that nothing is called after the client was
closed. `NumberIsFree` is the fact about the loop that takes the next number.
A request whose reply was dropped has neither an entry nor an answer, and never gets one:
`AnsweredOnce` says so, instead of leaving such requests out.
`DisconnectsDue` says what becomes of the handlers of disconnects whose reply was not
dropped: the calls made, the entry left in the table and the posted `AsyncClose1` are
together one for a disconnect that was sent, two for one that could not be sent, and none
for one made when the client was not connected.

**ClientObjects**: `RequestsOfObjects` shows that every step with searches is a step
of `ClientRequests` or leaves it alone, so that the theorems above hold of it as
well. On top of them `NobodyForgotten`, `StubsAreOne` and the types (`ObjectsTyped`) are
proved for any number of searches. `WaitingIsSearched` needs to know that a search has a
request of its own (`OwnRequests`), that no request leaves the table unanswered, and that a good reply
answers one request alone (`AnswersTheRest`): otherwise the success of one search
could swallow the end of another, and those that joined would wait for nobody.

**StreamConnection**: `WrittenInOrder`, that what reaches the socket is whole messages
in the order of sending. The property speaks of the wire alone; the strengthening
`SendInv` adds what is still to be written: the queue is in an order in which it may be
written and holds at most one packet of a wire (`QueueFits`, else the packet that
replaces an older one could overtake another packet), everything written may precede
everything queued (`WireFits`), and an open socket has all but the rest of the message
being written (`LastWritten`, else two messages could mix). That a queue is kept only
while sending and connected is what makes the message sent at once the next in order.
`HandlersAnsweredOnce` needs where every handler is: a message that was accepted has its
handler in exactly one of five places (the queue, the write going on, posted with success,
posted with an error, called), the connect handler in exactly one of six (the socket, the
handshake, the posted error of an attach, posted with success or an error, called), and
nothing is accepted, posted or answered before the socket opens (`HandlersInv`,
`Unopened`). The counts of `AnsweredOnce` then follow. `DroppedForNewer` is an action
property: a packet of a wire leaves the queue for the socket or for a newer one; so is
`NoneOvertaken`: as long as it is queued, no message gets more of the others before it.
`HandlersUnderWay` is the safety side of `SendAnswered` and `HandshakeAnswered`: an
accepted message whose handler was not called is behind a write in progress or has its
answer posted, and a connect that was not answered has the browser still to report
(`BrowserWillTell`), a handshake to go on or its answer posted. The one exception is
`Stalled`: sending waits for the end of a write that failed before it was begun, which is
what run stream_connection_stall shows.

**Discovery and the subscriptions**, with every step of one able to call the other:
`Invariant`, and from it `TypeCorrect`, `NeverOlderThanNonce`, `AtMostOneAttempt`,
`NoOtherIsLeft`, `LostIsForgotten`, `OnlyClosedForgotten` and the action property
`ClaimedStaysLeft`. For
`NoOlderThanNonce` the strengthening `DiscoveryInv` follows an answer from the updater
through the posted callback into the storage: on each it is at least as new as the nonce it
is for, and no nonce is known that is newer than the node's services. For `OneAttempt`,
`SubscriptionInv` speaks of connections instead of services: a connection is used while
its connect was not answered, while it is open, and while it is the client of its service
and not both closed and let go (`Used`); of the used ones no two have the same
service, and their service has an entry without a running timer (`AtMostOne`). A retry, an
update and a late event turn one of these cases into another, so that the counts of
`OneAttempt` alone are not inductive. Besides, an open and answered connection is a
client (`OpenAreClients`), a client is an answered connection of its service
(`ClientsKnown`, which also gives `ClaimedIsLeft`), what is connecting is not answered
(`ConnectingIsUnanswered`), and a subscription that is not active has no entries, timers or
connections but those it left (`NotActive`). `OnlyClosedForgotten` is what holds in place of
the documented `LostIsRetried`: with an entry of an open subscription something goes on (a
connect, a client, a timer), or it has given up, or its client object was closed and let go by
whoever held it, the case that run subscriptions_forgotten shows. Its strengthening
`EntriesGoOn` speaks of connects that were not answered instead of connections in use, so
that each event can be followed on its own; that an update makes no entry without a
connect of its own is a matter of counting (`EachConnected`).

**Wire member**: `WireClient_proofs` proves `WireInv` of a member and its service.
`ValueOfOwnSession`, `NoDeadConnection` and `LastValueReached` relate the two ends, so
that the strengthening is about what is between them. As long as no two connects overlap
only the last attempt can be pending and both directions carry connects in the order of
the attempts (`ConnectsInOrder`, `Settled`), so that when a pending connect is answered
nothing else of a connect is on its way, and what follows a reply is its session's
(`BehindReply`); a connection whose session is over has its end on the way
(`EndsAnnounced`); and the values on the way are newer and newer, the last being the
connection's own (`ValuesInOrder`). `ClientMembers_proofs` shows that every
step of the stub is a step of its wire or leaves it alone, and states the three as
`ValuesOfOwnSession`, `ConnectionsEnd` and `LastValuesReach`.

**Pipe member**: `ClientMembers_proofs` also shows, for any set of indices and all bounds,
`MembersTyped`, `OpenEndpointsAreRouted`, `StreamsOfOneSession`, `NoPacketsLost` and the
action property `ShutdownClosesThem`. The properties speak of endpoints and tables, and
none of them is inductive: a packet that is at the head of the path may be of an earlier
session of the same index, and only the order of everything that is on its way says that
it is not. The strengthening `PipeInv` (at the end of `PipeClient`) has three parts.
`PipeTypes`: tables, messages and endpoints refer to what exists. `Calls`: a request key is of
one request or one session (`KeysOnce`), a connect that is still pending is expected by
an entry of `connecting_endpoints` (`Awaited`), and only what the caller gave up is
disconnected (`ClosesGivenUp`). The third, `IndexInv`, is for each `Good` index, that is one
where none of the exceptions of the pipe's properties has happened (another index may have
had any of them):

- `InTurn`: the sessions of an index follow one another, and so does what is on its way
  of them; a closing separates two of them, and nothing of a session comes behind its own.
- `Entries`: the endpoint an index leads to is of the session whose turn it is; every open
  endpoint is led to; a connected session that is not over, or of which something is on its
  way, has such an endpoint.
- `Streams`: the first l packets of its session have come to an endpoint, for some l, and
  exactly the others are on their way, in order (`InStream`, `Numbered`); an early endpoint
  has those of the one pending session whose turn it is, so that the reply finds the right
  one. What has come is all received, or received up to the first that could not be
  decoded and held behind it (`Came`).

From these, a packet at the head belongs to the endpoint that takes it and has number
l + 1, so that it is received or, behind a gap, held, and the reply, which takes over the
early endpoint, makes no gap. `NoPacketLost` then is a matter of counting: what was
received, held or not decoded is l, and the packets on their way are as many as the numbers
from l + 1 to the last sent.

Only model-checked: the properties under fairness (out of TLAPS's reach, as is
`ENABLED`): `EveryPacketArrives`, `HandlerCalled`, `EveryRequestAnswered`,
`EveryFindAnswered`, `HandshakeAnswered` and `SendAnswered`. Every other property of a
passing run is a theorem. Of each of the six the safety side is one as well, that nobody
waits with nothing in progress: `NeverWaitsInVain`, `Progressing`, `AnsweredOnce` with
`Tested`, `NobodyForgotten` and `HandlersUnderWay`. That what is in progress comes to an
end is what fairness adds, and TLC checks. Facts about recursive definitions need induction
over data, which the installed backends cannot instantiate; the modules use no `RECURSIVE` operator for this reason.

## Plan

The modules above cover what a client does from discovery to the values of a member.
What is left, in this order:

1. `ClientSession`: connecting the service, authentication, locks, pulling of service
   types at the start (`src/Client.cpp`), as the connector's external service connect.
2. `StreamReceive`: the receiving half of `ASIOStreamBaseTransport` over
   `async_read_some` (messages reassembled from what the socket delivers).
3. `NodeEndpoints`: recently deleted endpoints and the cleanup task; generators
   (`src/Generator.cpp`); wire and pipe subscriptions.
4. Proofs: the invariants of these modules.

Bounds are planned as in the present runs: two or three of everything that can
collide, counters that wrap inside the run.

## Not modelled

Of the components that are modelled in part: packet acknowledgements, listeners and
broadcasters of pipes and wires, peeking and poking and the lifespan of wire values;
filters, listeners, the default client, and the wire and pipe subscriptions of a
service subscription; the searches of discovery (by type, by identifier, by name) and
the parsing of announcements; receiving and pausing of a stream connection; locks,
events and callbacks of a client. None of them changes the state that the properties
above speak of, except where the plan lists it.

Data and its conversions (messages, packing, node identifiers, errors, service
definitions and generated stubs): sequential functions without protocol state.
Node setup, logging and the tap: I/O. The Python binding: conversions and
forwarding of callbacks. The services and the browser itself, which are external to
this repository, appear only as what the code can observe of them.
