----------------------------- MODULE PipeClient -----------------------------
(***************************************************************************)
(* The client side of one pipe member (PipeClientBase, PipeMember.cpp):    *)
(* connecting endpoints by index while packets of the new endpoint may      *)
(* already be arriving, routing packets to endpoints, closing from either   *)
(* side.  The service and the message path are external: one connection     *)
(* that keeps the order of messages in each direction.  A packet is         *)
(* <<session, n>>, the n-th packet the service sent on that endpoint pair.  *)
(***************************************************************************)
EXTENDS PipePackets, FiniteSets

CONSTANTS Indices,       \* endpoint indices the callers and the service use
          MaxConnects,   \* bound: calls of AsyncConnect
          MaxPackets,    \* bound: packets the service sends on one endpoint
          MaxInFlight    \* bound: messages on their way to the client

ASSUME BoundsAssumption ==
    /\ Indices \subseteq Nat /\ MaxConnects \in Nat
    /\ MaxPackets \in Nat /\ MaxPackets < NumMod
    /\ MaxInFlight \in Nat

ANY_INDEX == -1

VARIABLES
    unreliable,             \* the member is declared unreliable
    connecting_endpoints,   \* set of [key, index]
    early_endpoints,        \* index -> endpoint, before the connect reply
    pipeendpoints,          \* index -> endpoint
    endpoints,              \* every endpoint object created, in that order
    attempts,               \* state of the connect request with each key
    shut_down,              \* the stub was closed and released
    to_service, to_client,  \* messages on their way
    sessions                \* external: the service's ends, in order of creation

vars == <<unreliable, connecting_endpoints, early_endpoints, pipeendpoints, endpoints,
          attempts, shut_down, to_service, to_client, sessions>>

external == <<to_service, to_client, sessions>>

Keys == 1..MaxConnects
NoSession == 0

\* An endpoint as CreateNewPipeEndpoint makes it.  History: the connect handler
\* got it (handed), for that session; AsyncClose was called on it (given_up);
\* how often its closed callback ran; the packets that could not be unpacked.
\* Nobody reads recv_packets here, so it is all the endpoint ever received.
NewEndpoint(index, unrel) ==
    [index |-> index, unreliable |-> unrel, receiver |-> NewReceiver, closed |-> FALSE,
     handed |-> FALSE, session |-> NoSession, given_up |-> FALSE, callbacks |-> 0,
     undecoded |-> {}]

Put(map, index, e) == [i \in DOMAIN map \cup {index} |-> IF i = index THEN e ELSE map[i]]

\* Mutant: the entry is emptied, not erased.
Emptied(map, index) == [i \in DOMAIN map |-> IF i = index THEN NoSession ELSE map[i]]

Without(map, index) == [i \in DOMAIN map \ {index} |-> map[i]]
EmptyMap == [i \in {} |-> 0]

Init == /\ unreliable \in BOOLEAN
        /\ connecting_endpoints = {}
        /\ early_endpoints = EmptyMap /\ pipeendpoints = EmptyMap
        /\ endpoints = <<>>
        /\ attempts = <<>>
        /\ shut_down = FALSE
        /\ to_service = <<>> /\ to_client = <<>>
        /\ sessions = <<>>

-----------------------------------------------------------------------------
(* The service, external.                                                  *)

InUse == {sessions[s].index : s \in {t \in DOMAIN sessions : sessions[t].open}}

\* A connect request gets an endpoint at its index, or at a free one; the
\* reply follows later, and packets may go out before it.
ServiceAccepts ==
    /\ to_service # <<>> /\ Head(to_service).type = "PipeConnectReq"
    /\ LET m == Head(to_service)
       IN  \E i \in Indices \ InUse :
             /\ m.index \in {i, ANY_INDEX}
             /\ sessions' = Append(sessions, [index |-> i, key |-> m.key, open |-> TRUE,
                                              replied |-> FALSE, unheard |-> FALSE,
                                              sent |-> 0])
    /\ to_service' = Tail(to_service)
    /\ UNCHANGED to_client

ServiceRefuses ==
    /\ to_service # <<>> /\ Head(to_service).type = "PipeConnectReq"
    /\ \/ Head(to_service).index \in InUse
       \/ Head(to_service).index = ANY_INDEX /\ Indices \subseteq InUse
    /\ to_client' = Append(to_client, [type |-> "PipeConnectErr", key |-> Head(to_service).key])
    /\ to_service' = Tail(to_service)
    /\ UNCHANGED sessions

\* An unreliable member's endpoint may still be confirmed as reliable.
ServiceReplies ==
    \E s \in DOMAIN sessions, confirmed \in (IF unreliable THEN BOOLEAN ELSE {FALSE}) :
      /\ ~sessions[s].replied
      /\ sessions' = [sessions EXCEPT ![s].replied = TRUE]
      /\ to_client' = Append(to_client,
           [type |-> "PipeConnectRet", key |-> sessions[s].key, session |-> s,
            index |-> sessions[s].index, unreliable |-> confirmed])
      /\ UNCHANGED to_service

ServiceSends ==
    \E s \in DOMAIN sessions :
      /\ sessions[s].open /\ sessions[s].sent < MaxPackets
      /\ sessions' = [sessions EXCEPT ![s].sent = @ + 1]
      /\ to_client' = Append(to_client,
           [type |-> "PipePacket", index |-> sessions[s].index, session |-> s,
            packetnum |-> sessions[s].sent + 1])
      /\ UNCHANGED to_service

\* The service may close an endpoint before it has replied to its connect
\* request (history: unheard).
ServiceCloses ==
    \E s \in DOMAIN sessions :
      /\ sessions[s].open
      /\ sessions' = [sessions EXCEPT ![s].open = FALSE, ![s].unheard = @ \/ ~sessions[s].replied]
      /\ to_client' = Append(to_client, [type |-> "PipeClosed", index |-> sessions[s].index])
      /\ UNCHANGED to_service

\* The reply to a disconnect request goes to the close handler alone.
ServiceDisconnects ==
    /\ to_service # <<>> /\ Head(to_service).type = "PipeDisconnectReq"
    /\ sessions' = [s \in DOMAIN sessions |->
                      IF sessions[s].index = Head(to_service).index
                      THEN [sessions[s] EXCEPT !.open = FALSE]
                      ELSE sessions[s]]
    /\ to_service' = Tail(to_service)
    /\ UNCHANGED to_client

Service == /\ Len(to_client) < MaxInFlight
           /\ \/ ServiceAccepts \/ ServiceRefuses \/ ServiceReplies
              \/ ServiceSends \/ ServiceCloses \/ ServiceDisconnects
           /\ UNCHANGED <<unreliable, connecting_endpoints, early_endpoints, pipeendpoints,
                          endpoints, attempts, shut_down>>

-----------------------------------------------------------------------------
(* Calls of the user.                                                      *)

\* AsyncConnect_internal.
AsyncConnect ==
    \E index \in Indices \cup {ANY_INDEX} :
      /\ Len(attempts) < MaxConnects /\ ~shut_down
      /\ LET key == Len(attempts) + 1
         IN  /\ attempts' = Append(attempts, "pending")
             /\ connecting_endpoints' = connecting_endpoints \cup {[key |-> key, index |-> index]}
             /\ to_service' = Append(to_service,
                  [type |-> "PipeConnectReq", key |-> key, index |-> index])
      /\ UNCHANGED <<unreliable, early_endpoints, pipeendpoints, endpoints, shut_down,
                     to_client, sessions>>

\* PipeEndpointBase::AsyncClose, once on each endpoint: the entry of
\* pipeendpoints stays.  The service may have closed the endpoint already.
AsyncClose ==
    \E e \in DOMAIN endpoints :
      /\ endpoints[e].handed /\ ~endpoints[e].given_up /\ ~shut_down
      /\ endpoints' = [endpoints EXCEPT ![e].closed = TRUE, ![e].given_up = TRUE]
      /\ to_service' = Append(to_service,
           [type |-> "PipeDisconnectReq", index |-> endpoints[e].index])
      /\ UNCHANGED <<unreliable, connecting_endpoints, early_endpoints, pipeendpoints,
                     attempts, shut_down, to_client, sessions>>

-----------------------------------------------------------------------------
(* The connect handler, AsyncConnect_internal1.                            *)

StopConnecting(key) ==
    connecting_endpoints' = {c \in connecting_endpoints : c.key # key}

\* Early endpoints live as long as some connect is in progress.
Early(map) == early_endpoints' = IF connecting_endpoints' = {} THEN EmptyMap ELSE map

ConnectFailed(key) ==
    /\ StopConnecting(key)
    /\ Early(early_endpoints)
    /\ attempts' = [attempts EXCEPT ![key] = "failed"]
    /\ UNCHANGED <<unreliable, pipeendpoints, endpoints, shut_down>>

\* The early endpoint is adopted unless the service confirmed unreliable.
AdoptsEarly(index, unrel) == ~unrel /\ index \in DOMAIN early_endpoints

\* std::unordered_map::insert: an endpoint already at the index stays there.
Register(index, e) ==
    pipeendpoints' = IF index \in DOMAIN pipeendpoints
                     THEN pipeendpoints ELSE Put(pipeendpoints, index, e)

Connected(m) ==
    LET adopts == AdoptsEarly(m.index, m.unreliable)
        e      == IF adopts THEN early_endpoints[m.index] ELSE Len(endpoints) + 1
        all    == IF adopts THEN endpoints
                  ELSE Append(endpoints, NewEndpoint(m.index, m.unreliable))
    IN  /\ StopConnecting(m.key)
        /\ endpoints' = [all EXCEPT ![e].handed = TRUE, ![e].session = m.session]
        /\ Register(m.index, e)
        /\ Early(Without(early_endpoints, m.index))
        /\ attempts' = [attempts EXCEPT ![m.key] = "connected"]
        /\ UNCHANGED <<unreliable, shut_down>>

\* The reply is for an outstanding request, or is ignored.
ReceiveConnectRet ==
    /\ to_client # <<>> /\ Head(to_client).type \in {"PipeConnectRet", "PipeConnectErr"}
    /\ to_client' = Tail(to_client)
    /\ LET m == Head(to_client)
       IN  \/ /\ attempts[m.key] # "pending"
              /\ UNCHANGED <<unreliable, connecting_endpoints, early_endpoints, pipeendpoints,
                             endpoints, attempts, shut_down>>
           \/ /\ attempts[m.key] = "pending" /\ m.type = "PipeConnectErr"
              /\ ConnectFailed(m.key)
           \/ /\ attempts[m.key] = "pending" /\ m.type = "PipeConnectRet"
              /\ Connected(m)
    /\ UNCHANGED <<to_service, sessions>>

\* The request's timer fires first.
ConnectTimeout ==
    \E key \in DOMAIN attempts :
      /\ attempts[key] = "pending"
      /\ ConnectFailed(key)
      /\ UNCHANGED external

-----------------------------------------------------------------------------
(* Messages for the pipe, PipeClientBase::PipePacketReceived.              *)

\* DispatchPacket to endpoint ep: unpacking throws, which is swallowed, or
\* PipeEndpointBase::PipePacketReceived takes the packet.
Dispatched(ep, m) ==
    LET packet == <<m.session, m.packetnum>>
    IN  {[ep EXCEPT !.undecoded = @ \cup {packet}]}
          \cup IF ep.unreliable
               THEN {[ep EXCEPT !.receiver.recv_packets = Append(@, packet)]}
               ELSE {[ep EXCEPT !.receiver = r] :
                       r \in PacketReceived(ep.receiver, m.packetnum, packet)}

\* Mutant: only a connect of that very index opens an early endpoint.
ExpectedExactly(index) ==
    \E c \in connecting_endpoints : c.index = index

\* A connect in progress may be about to get this index.
Expected(index) ==
    \E c \in connecting_endpoints : c.index = index \/ c.index = ANY_INDEX

ReceivePacket ==
    /\ to_client # <<>> /\ Head(to_client).type = "PipePacket"
    /\ to_client' = Tail(to_client)
    /\ LET m == Head(to_client)
           i == m.index
       IN  \/ /\ i \in DOMAIN pipeendpoints /\ ~shut_down
              /\ \E ep \in Dispatched(endpoints[pipeendpoints[i]], m) :
                   endpoints' = [endpoints EXCEPT ![pipeendpoints[i]] = ep]
              /\ UNCHANGED early_endpoints
           \/ /\ i \notin DOMAIN pipeendpoints /\ i \in DOMAIN early_endpoints /\ ~shut_down
              /\ \E ep \in Dispatched(endpoints[early_endpoints[i]], m) :
                   endpoints' = [endpoints EXCEPT ![early_endpoints[i]] = ep]
              /\ UNCHANGED early_endpoints
           \/ /\ i \notin DOMAIN pipeendpoints \cup DOMAIN early_endpoints /\ ~shut_down
              /\ Expected(i)
              /\ \E ep \in Dispatched(NewEndpoint(i, FALSE), m) :
                   endpoints' = Append(endpoints, ep)
              /\ early_endpoints' = Put(early_endpoints, i, Len(endpoints) + 1)
           \/ /\ \/ i \notin DOMAIN pipeendpoints \cup DOMAIN early_endpoints /\ ~Expected(i)
                 \/ shut_down
              /\ UNCHANGED <<endpoints, early_endpoints>>
    /\ UNCHANGED <<unreliable, connecting_endpoints, pipeendpoints, attempts, shut_down,
                   to_service, sessions>>

\* Mutant: the closed endpoint stays registered.
KeepOnPipeClosed(index) == UNCHANGED pipeendpoints

ForgetEndpoint(index) == pipeendpoints' = Without(pipeendpoints, index)

\* RemoteClose of the registered endpoint; early endpoints are not looked at.
\* (PipeClosedRet would erase the entry, but nothing hands one to a client's
\* member: ClientContext passes on PipeClosed, PipePacket and PipePacketRet.)
ReceivePipeClosed ==
    /\ to_client # <<>> /\ Head(to_client).type = "PipeClosed"
    /\ to_client' = Tail(to_client)
    /\ LET i == Head(to_client).index
       IN  \/ /\ i \in DOMAIN pipeendpoints /\ ~shut_down
              /\ ForgetEndpoint(i)
              /\ endpoints' = [endpoints EXCEPT ![pipeendpoints[i]].closed = TRUE,
                                                ![pipeendpoints[i]].callbacks = @ + 1]
           \/ /\ i \notin DOMAIN pipeendpoints \/ shut_down
              /\ UNCHANGED <<pipeendpoints, endpoints>>
    /\ UNCHANGED <<unreliable, connecting_endpoints, early_endpoints, attempts, shut_down,
                   to_service, sessions>>

\* Mutant: only the map is cleared.
ShutNothing == endpoints

ShutAll == [e \in DOMAIN endpoints |->
              IF \E i \in DOMAIN pipeendpoints : pipeendpoints[i] = e
              THEN [endpoints[e] EXCEPT !.closed = TRUE, !.callbacks = @ + 1]
              ELSE endpoints[e]]

\* PipeClientBase::Shutdown, when the service releases the object's path: the
\* stub leaves the context's table, outstanding connect requests stay.
Shutdown ==
    /\ ~shut_down /\ shut_down' = TRUE
    /\ endpoints' = ShutAll
    /\ pipeendpoints' = EmptyMap
    /\ UNCHANGED <<unreliable, connecting_endpoints, early_endpoints, attempts,
                   to_service, to_client, sessions>>

MemberNext ==
    \/ Service \/ AsyncConnect \/ AsyncClose
    \/ ReceiveConnectRet \/ ConnectTimeout \/ ReceivePacket \/ ReceivePipeClosed

Next == MemberNext \/ Shutdown

Spec == Init /\ [][Next]_vars

-----------------------------------------------------------------------------
Received(e) == endpoints[e].receiver.recv_packets

\* Every variable has its type: the two tables lead from indices to endpoints
\* that exist, and an erased entry is gone (pipeendpoints, early_endpoints).
TypeOK ==
    /\ connecting_endpoints \subseteq [key : Keys, index : Indices \cup {ANY_INDEX}]
    /\ DOMAIN early_endpoints \subseteq Indices /\ DOMAIN pipeendpoints \subseteq Indices
    /\ \A i \in DOMAIN early_endpoints : early_endpoints[i] \in DOMAIN endpoints
    /\ \A i \in DOMAIN pipeendpoints : pipeendpoints[i] \in DOMAIN endpoints
    /\ \A k \in DOMAIN attempts : attempts[k] \in {"pending", "connected", "failed"}
    /\ \A e \in DOMAIN endpoints : endpoints[e].receiver.recv_packet_number \in PacketNumbers

\* A connect request for the index timed out although the service had, or was
\* about to make, an endpoint for it: nothing tells the service, whose packets
\* keep coming.
Abandoned(index) ==
    \E s \in DOMAIN sessions :
      sessions[s].index = index /\ attempts[sessions[s].key] = "failed"

\* The caller closed an endpoint of the index: its entry is not removed.
GivenUp(index) == \E e \in DOMAIN endpoints :
                     endpoints[e].index = index /\ endpoints[e].given_up

\* The service closed an endpoint of the index before it replied: PipeClosed finds
\* no entry and is ignored, and the reply then registers what is closed already.
ClosedUnheard(index) == \E s \in DOMAIN sessions :
                          sessions[s].index = index /\ sessions[s].unheard

\* None of the three has happened at the index.
Good(index) == ~GivenUp(index) /\ ~Abandoned(index) /\ ~ClosedUnheard(index)

Routed(e) == LET i == endpoints[e].index
             IN  i \in DOMAIN pipeendpoints /\ pipeendpoints[i] = e

\* The endpoints that a caller got and nobody closed.
Live == {e \in DOMAIN endpoints : endpoints[e].handed /\ ~endpoints[e].closed}

\* An endpoint the caller got and nobody closed is the one its index leads to,
\* so that its packets reach it: unless the caller had closed an endpoint of
\* that index before, a connect to it was given up by timeout, the service closed
\* one before replying, or the reply came after the stub was released
\* (AsyncConnect_internal1, PipePacketReceived).
OpenEndpointIsRouted ==
    \A e \in Live : Routed(e) \/ ~Good(endpoints[e].index) \/ shut_down

\* An endpoint the caller got has received the packets of its own session, from
\* the first, in order, whether they came before or after the connect reply and
\* whatever the service closed at its index before: unless the caller had closed
\* an endpoint of that index, which closes whatever the service has there by
\* then, a connect to it was given up, or the service closed one there before it
\* replied (early_endpoints, PipePacketReceived).
StreamOfOneSession ==
    \A e \in Live :
      ~endpoints[e].unreliable /\ Good(endpoints[e].index) =>
        Received(e) = [n \in 1..Len(Received(e)) |-> <<endpoints[e].session, n>>]

\* Packets of session s still on their way.
OnTheWay(s) ==
    Cardinality({k \in DOMAIN to_client :
                   to_client[k].type = "PipePacket" /\ to_client[k].session = s})

\* No packet falls between the early endpoint and the connected one: what an
\* open reliable endpoint has received, what it holds until a missing one comes,
\* what could not be unpacked and what is on its way is all that the service sent
\* it, under the exceptions of OpenEndpointIsRouted (PipePacketReceived).
NoPacketLost ==
    \A e \in Live :
      LET ep       == endpoints[e]
          arrived  == Len(ep.receiver.recv_packets)
                        + Cardinality(DOMAIN ep.receiver.out_of_order_packets)
                        + Cardinality(ep.undecoded)
      IN  ~ep.unreliable /\ Good(ep.index) /\ ~shut_down =>
            arrived + OnTheWay(ep.session) = sessions[ep.session].sent

\* When the stub is released, every endpoint a caller still has open is closed
\* and its callback runs, with the exceptions of OpenEndpointIsRouted (Shutdown).
ShutdownClosesAll ==
    [][~shut_down /\ shut_down' =>
         \A e \in Live :
           Good(endpoints[e].index) => endpoints'[e].closed /\ endpoints'[e].callbacks = 1]_vars

\* PipeMember.h: "Packets sent by one endpoint is sent to the other": every open
\* endpoint the caller got is one that packets reach, unless a connect or a close
\* of that index was not heard of.
ConnectedEndpointReceives ==
    \A e \in Live : \/ Routed(e) \/ shut_down
                    \/ Abandoned(endpoints[e].index) \/ ClosedUnheard(endpoints[e].index)

-----------------------------------------------------------------------------
(* The strengthening of these properties that every step keeps.            *)

FromClient == [type : {"PipeConnectReq"}, key : Nat, index : Indices \cup {ANY_INDEX}]
                \cup [type : {"PipeDisconnectReq"}, index : Indices]
FromService ==
    [type : {"PipeConnectRet"}, key : Nat, session : Nat, index : Indices, unreliable : BOOLEAN]
      \cup [type : {"PipePacket"}, index : Indices, session : Nat, packetnum : 1..MaxPackets]
      \cup [type : {"PipeClosed"}, index : Indices] \cup [type : {"PipeConnectErr"}, key : Nat]

IsReceiver(r) == /\ r = [recv_packet_number   |-> r.recv_packet_number,
                         recv_packets         |-> r.recv_packets,
                         out_of_order_packets |-> r.out_of_order_packets]
                 /\ r.recv_packet_number \in PacketNumbers

IsEndpoint(ep) ==
    /\ ep = [index |-> ep.index, unreliable |-> ep.unreliable, receiver |-> ep.receiver,
             closed |-> ep.closed, handed |-> ep.handed, session |-> ep.session,
             given_up |-> ep.given_up, callbacks |-> ep.callbacks,
             undecoded |-> ep.undecoded]
    /\ ep.index \in Indices /\ IsReceiver(ep.receiver)
    /\ ep.given_up => ep.handed /\ ep.closed
    /\ ~ep.closed => ep.callbacks = 0

AttemptsTyped ==
    /\ connecting_endpoints \subseteq [key : Keys, index : Indices \cup {ANY_INDEX}]
    /\ attempts \in Seq({"pending", "connected", "failed"}) /\ Len(attempts) <= MaxConnects

SessionsTyped ==
    /\ sessions \in Seq([index : Indices, key : Nat, open : BOOLEAN, replied : BOOLEAN,
                         unheard : BOOLEAN, sent : 0..MaxPackets])
    /\ \A s \in DOMAIN sessions : sessions[s].key \in DOMAIN attempts

EndpointsTyped ==
    /\ endpoints \in Seq({endpoints[e] : e \in DOMAIN endpoints})
    /\ \A e \in DOMAIN endpoints :
        /\ IsEndpoint(endpoints[e])
        /\ endpoints[e].handed =>
            /\ endpoints[e].session \in DOMAIN sessions
            /\ sessions[endpoints[e].session].index = endpoints[e].index
            /\ attempts[sessions[endpoints[e].session].key] = "connected"

TablesTyped ==
    /\ \A i \in DOMAIN pipeendpoints :
        /\ i \in Indices /\ pipeendpoints[i] \in DOMAIN endpoints
        /\ endpoints[pipeendpoints[i]].index = i /\ endpoints[pipeendpoints[i]].handed
    /\ \A i \in DOMAIN early_endpoints :
        /\ i \in Indices /\ early_endpoints[i] \in DOMAIN endpoints
        /\ endpoints[early_endpoints[i]].index = i
        /\ ~endpoints[early_endpoints[i]].handed /\ ~endpoints[early_endpoints[i]].closed
        /\ ~endpoints[early_endpoints[i]].unreliable

ToServiceTyped ==
    /\ to_service \in Seq(FromClient)
    /\ \A p \in DOMAIN to_service :
        to_service[p].type = "PipeConnectReq" => to_service[p].key \in DOMAIN attempts

ToClientTyped ==
    /\ to_client \in Seq(FromService)
    /\ \A p \in DOMAIN to_client :
        /\ to_client[p].type \in {"PipeConnectRet", "PipePacket"} =>
            /\ to_client[p].session \in DOMAIN sessions
            /\ to_client[p].index = sessions[to_client[p].session].index
        /\ to_client[p].type = "PipeConnectRet" =>
            to_client[p].key = sessions[to_client[p].session].key
        /\ to_client[p].type = "PipeConnectErr" => to_client[p].key \in DOMAIN attempts

\* Messages are about attempts and sessions that exist, and so are endpoints.
PipeTypes == /\ AttemptsTyped /\ SessionsTyped /\ EndpointsTyped /\ TablesTyped
             /\ ToServiceTyped /\ ToClientTyped

Requests == {p \in DOMAIN to_service : to_service[p].type = "PipeConnectReq"}

\* A key is of one request or of one session.
KeysOnce ==
    /\ \A p, q \in Requests : p # q => to_service[p].key # to_service[q].key
    /\ \A s, t \in DOMAIN sessions : s # t => sessions[s].key # sessions[t].key
    /\ \A p \in Requests, s \in DOMAIN sessions : to_service[p].key # sessions[s].key

\* A request is not answered before its session, and who waits for either is expected.
Awaited ==
    /\ \A p \in Requests, k \in DOMAIN attempts : to_service[p].key = k =>
        /\ attempts[k] # "connected"
        /\ attempts[k] = "pending" =>
            \E c \in connecting_endpoints : c.key = k /\ c.index = to_service[p].index
    /\ \A s \in DOMAIN sessions, k \in DOMAIN attempts :
        sessions[s].key = k /\ attempts[k] = "pending" =>
          \E c \in connecting_endpoints : c.key = k /\ c.index \in {sessions[s].index, ANY_INDEX}

\* Only what the caller gave up is disconnected.
ClosesGivenUp ==
    \A p \in DOMAIN to_service, i \in Indices :
      to_service[p].type = "PipeDisconnectReq" /\ to_service[p].index = i => GivenUp(i)

Calls == KeysOnce /\ Awaited /\ ClosesGivenUp

Sessions(index) == {s \in DOMAIN sessions : sessions[s].index = index}
EndpointsOf(index) == {e \in DOMAIN endpoints : endpoints[e].index = index}

Status(s) == attempts[sessions[s].key]

IsEarly(e) == LET i == endpoints[e].index
              IN  i \in DOMAIN early_endpoints /\ early_endpoints[i] = e

\* The positions of replies, packets and both of session s, and of closings of an index.
Replies(s, queue) == {p \in DOMAIN queue : queue[p].type = "PipeConnectRet" /\ queue[p].session = s}
Packets(s, queue) == {p \in DOMAIN queue : queue[p].type = "PipePacket" /\ queue[p].session = s}
About(s, queue) == Replies(s, queue) \cup Packets(s, queue)
Closings(index, queue) == {p \in DOMAIN queue : queue[p].type = "PipeClosed" /\ queue[p].index = index}

\* Behind p are a closing that later sessions of the index begin behind, and the closing
\* of session s, which it has when it is over and behind which nothing of it comes.
Turn(index, s, p) ==
    /\ \A t \in Sessions(index) : s < t =>
        \E r \in Closings(index, to_client) :
          p < r /\ \A q \in About(t, to_client) : r < q
    /\ sessions[s].open <=> \A r \in Closings(index, to_client) : ~(p < r)
    /\ \A r \in Closings(index, to_client), q \in About(s, to_client) : ~(p < r /\ r < q)

NothingBefore(index, s) ==
    \A t \in Sessions(index) : t < s => About(t, to_client) = {}

\* Sessions of an index follow one another, also in what is on its way of them.
InTurn(index) ==
    \A s \in Sessions(index) :
      /\ sessions[s].open => \A t \in Sessions(index) : ~(s < t)
      /\ sessions[s].replied \/ sessions[s].open
      /\ Status(s) = "pending" /\ sessions[s].replied => Replies(s, to_client) # {}
      /\ \A p \in About(s, to_client) : Turn(index, s, p)

\* The entry of an index is of the session whose turn it is.
Entries(index) ==
    /\ \A e \in EndpointsOf(index), s \in Sessions(index) :
        Routed(e) /\ endpoints[e].session = s => Turn(index, s, 0) /\ NothingBefore(index, s)
    /\ \A e \in EndpointsOf(index) : e \in Live => Routed(e)
    /\ \A s \in Sessions(index) :
        Status(s) = "connected" /\ (sessions[s].open \/ About(s, to_client) # {}) =>
          \E e \in EndpointsOf(index) : Routed(e) /\ endpoints[e].session = s

\* The first l packets of session s have come to a receiver, in their order: it
\* has received the k before the first undecoded one, and holds what came after.
Came(receiver, undecoded, s, l) ==
    \E k \in 0..l :
      /\ receiver = [recv_packet_number   |-> k,
                     recv_packets         |-> [n \in 1..k |-> <<s, n>>],
                     out_of_order_packets |->
                       [n \in {j \in (k + 1)..l : <<s, j>> \notin undecoded} |-> <<s, n>>]]
      /\ undecoded \subseteq {<<s, n>> : n \in (k + 1)..l}
      /\ k < l => <<s, k + 1>> \in undecoded

InStream(e, s, l) == Came(endpoints[e].receiver, endpoints[e].undecoded, s, l)

\* All packets of s but the first k are on their way, in their order.
Numbered(s, k) ==
    /\ k <= sessions[s].sent
    /\ \A p \in Packets(s, to_client) :
        /\ k < to_client[p].packetnum /\ to_client[p].packetnum <= sessions[s].sent
        /\ \A q \in Packets(s, to_client) :
            p < q => to_client[p].packetnum < to_client[q].packetnum
    /\ \A n \in (k + 1)..sessions[s].sent :
        \E p \in Packets(s, to_client) : to_client[p].packetnum = n

\* What was received and what is on its way is all that was sent.
Streams(index) ==
    /\ \A e \in EndpointsOf(index) : IsEarly(e) =>
        \E s \in Sessions(index), k \in 1..MaxPackets :
          /\ InStream(e, s, k) /\ Status(s) = "pending"
          /\ NothingBefore(index, s) /\ (~shut_down => Numbered(s, k))
    /\ \A s \in Sessions(index) : ~shut_down /\ Status(s) = "pending" =>
        \/ Numbered(s, 0)
        \/ \E e \in EndpointsOf(index), k \in 1..MaxPackets : IsEarly(e) /\ InStream(e, s, k)
    /\ \A e \in EndpointsOf(index) : e \in Live /\ ~endpoints[e].unreliable =>
        \E s \in Sessions(index), k \in 0..MaxPackets :
          /\ endpoints[e].session = s /\ InStream(e, s, k)
          /\ ~shut_down => Numbered(s, k)

IndexInv(index) == InTurn(index) /\ (~shut_down => Entries(index)) /\ Streams(index)

PipeInv == PipeTypes /\ Calls /\ \A i \in Indices : Good(i) => IndexInv(i)
=============================================================================
