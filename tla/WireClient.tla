----------------------------- MODULE WireClient -----------------------------
(***************************************************************************)
(* The client side of a wire member (WireClientBase) and its connections    *)
(* (WireConnectionBase, WireMember.cpp).  A wire sends the latest value     *)
(* each way, with a time that decides which is the latest.  There is one    *)
(* connection of a client at a time, the member's, while old objects stay   *)
(* in the hands of the caller.  The service is external; it takes values by *)
(* the rule of the client.  Messages keep their order each way, as in the   *)
(* transports.                                                              *)
(***************************************************************************)
EXTENDS Integers, Sequences, FiniteSets

CONSTANTS
    MaxConnects,    \* bound on the calls of AsyncConnect that send a request
    MaxTime,        \* bound on the times of values
    MaxMessages     \* bound on the messages in flight each way

VARIABLES
    connection,     \* the member's, an index of wires; 0: none
    wires,          \* every connection object that was handed out
    attempts,       \* the state of each connect request
    shut_down,      \* the stub was closed and released
    service,        \* external: the open session at the service; 0: none
    sessions,       \* external: every session, with the last value of each way
    to_service, to_client,
    overlapped,     \* history: a connect was sent while another was pending
    closed_other,   \* history: a connection was closed that is not the member's
    stray_value     \* history: a value was sent by one that is not the member's

vars == <<connection, wires, attempts, shut_down, service, sessions,
          to_service, to_client, overlapped, closed_other, stray_value>>

NoValue == [from |-> 0, time |-> 0]
NewWire(session) == [session |-> session, inval |-> NoValue, outval |-> NoValue]
NewSession == [inval |-> NoValue, outval |-> NoValue]

Init == /\ connection = 0 /\ wires = <<>> /\ attempts = <<>> /\ shut_down = FALSE
        /\ service = 0 /\ sessions = <<>>
        /\ to_service = <<>> /\ to_client = <<>>
        /\ overlapped = FALSE /\ closed_other = FALSE /\ stray_value = FALSE

CanSend == Len(to_service) < MaxMessages
SendToService(m) == to_service' = Append(to_service, m)

Pending == {k \in DOMAIN attempts : attempts[k] = "pending"}

-----------------------------------------------------------------------------
\* With a connection it throws, and its exception handler lets go of that one.
AsyncConnect ==
    /\ \/ /\ connection # 0 /\ connection' = 0
          /\ UNCHANGED <<attempts, to_service, overlapped>>
       \/ /\ connection = 0 /\ UNCHANGED connection
          /\ Len(attempts) < MaxConnects /\ CanSend
          /\ attempts' = Append(attempts, "pending")
          /\ SendToService([type |-> "ConnectReq", attempt |-> Len(attempts) + 1])
          /\ overlapped' = (overlapped \/ Pending # {})
    /\ UNCHANGED <<wires, shut_down, service, sessions, to_client,
                   closed_other, stray_value>>

\* Mutant: the member keeps its connection.
StaysConnected == connection

NotConnected == 0

\* AsyncClose by the caller, on any connection it was given, once or again.
AsyncClose ==
    /\ CanSend
    /\ \E i \in DOMAIN wires : closed_other' = (closed_other \/ i # connection)
    /\ SendToService([type |-> "DisconnectReq"])
    /\ connection' = NotConnected
    /\ UNCHANGED <<wires, attempts, shut_down, service, sessions, to_client,
                   overlapped, stray_value>>

\* Mutant: a value gets the time of the clock.
ClockTime(now, last) == now

\* Later than the last, also when the clock stands still or was set back.
SendTime(now, last) == IF now <= last THEN last + 1 ELSE now

\* Nothing asks whether the connection was closed (send_closed).
SetOutValue ==
    /\ CanSend
    /\ \E i \in DOMAIN wires, now \in 1..MaxTime :
         LET value == [from |-> i, time |-> SendTime(now, wires[i].outval.time)] IN
         /\ value.time <= MaxTime
         /\ SendToService([type |-> "Packet", value |-> value])
         /\ wires' = [wires EXCEPT ![i].outval = value]
         /\ stray_value' = (stray_value \/ i # connection)
    /\ UNCHANGED <<connection, attempts, shut_down, service, sessions, to_client,
                   overlapped, closed_other>>

-----------------------------------------------------------------------------
(* Messages of the service.                                                *)

Receives(type) ==
    /\ to_client # <<>> /\ Head(to_client).type = type
    /\ to_client' = Tail(to_client)

\* AsyncConnect_internal1.  Who connects while another has connected gets an error;
\* a reply after the timeout finds no request.
ReceiveConnectRet ==
    /\ Receives("ConnectRet")
    /\ LET m == Head(to_client)
           connects == attempts[m.attempt] = "pending" /\ m.session # 0 /\ connection = 0
       IN /\ attempts' = [attempts EXCEPT ![m.attempt] = IF @ = "pending" THEN "answered" ELSE @]
          /\ wires' = IF connects THEN Append(wires, NewWire(m.session)) ELSE wires
          /\ connection' = IF connects THEN Len(wires) + 1 ELSE connection
    /\ UNCHANGED <<shut_down, service, sessions, to_service, overlapped,
                   closed_other, stray_value>>

ConnectTimeout ==
    /\ \E k \in Pending : attempts' = [attempts EXCEPT ![k] = "timed out"]
    /\ UNCHANGED <<connection, wires, shut_down, service, sessions, to_service,
                   to_client, overlapped, closed_other, stray_value>>

Newer(value, kept) == value.time > kept.time

\* Mutant: packets of the wire go to every connection there is.
ToEvery == DOMAIN wires

ToConnection == {connection} \cap DOMAIN wires

\* WirePacketReceived, if the stub is there and the value can be unpacked.
ReceivePacket ==
    /\ Receives("Packet")
    /\ LET value == Head(to_client).value IN
       \/ /\ ~shut_down
          /\ wires' = [i \in DOMAIN wires |->
               IF i \in ToConnection /\ Newer(value, wires[i].inval)
               THEN [wires[i] EXCEPT !.inval = value] ELSE wires[i]]
       \/ UNCHANGED wires
    /\ UNCHANGED <<connection, attempts, shut_down, service, sessions, to_service,
                   overlapped, closed_other, stray_value>>

\* The connection is closed as the caller would close it, with a request.  Without
\* a connection the code uses a null pointer; what comes of it is caught.
ReceiveWireClosed ==
    /\ Receives("Closed")
    /\ \/ /\ connection # 0 /\ ~shut_down /\ CanSend
          /\ SendToService([type |-> "DisconnectReq"])
          /\ connection' = NotConnected
       \/ /\ connection = 0 \/ shut_down
          /\ UNCHANGED <<connection, to_service>>
    /\ UNCHANGED <<wires, attempts, shut_down, service, sessions, overlapped,
                   closed_other, stray_value>>

\* The stub is released; the connection is told, but not taken from the member.
Shutdown ==
    /\ ~shut_down /\ shut_down' = TRUE
    /\ UNCHANGED <<connection, wires, attempts, service, sessions, to_service, to_client,
                   overlapped, closed_other, stray_value>>

-----------------------------------------------------------------------------
(* The service.                                                            *)

ServiceReceives(type) ==
    /\ to_service # <<>> /\ Head(to_service).type = type
    /\ to_service' = Tail(to_service)
    /\ UNCHANGED <<connection, wires, attempts, shut_down, overlapped, closed_other,
                   stray_value>>

Replies(attempt, session) ==
    to_client' = Append(to_client, [type |-> "ConnectRet", attempt |-> attempt,
                                    session |-> session])

ServiceConnects ==
    /\ ServiceReceives("ConnectReq")
    /\ LET attempt == Head(to_service).attempt IN
       \/ /\ service = 0
          /\ sessions' = Append(sessions, NewSession)
          /\ service' = Len(sessions) + 1
          /\ Replies(attempt, Len(sessions) + 1)
       \/ /\ Replies(attempt, 0)    \* connected already, or refused
          /\ UNCHANGED <<service, sessions>>

ServiceDisconnects == /\ ServiceReceives("DisconnectReq") /\ service' = 0
                      /\ UNCHANGED <<sessions, to_client>>

ServiceTakes ==
    /\ ServiceReceives("Packet")
    /\ LET value == Head(to_service).value IN
       sessions' = [s \in DOMAIN sessions |->
         IF s = service /\ Newer(value, sessions[s].inval)
         THEN [sessions[s] EXCEPT !.inval = value] ELSE sessions[s]]
    /\ UNCHANGED <<service, to_client>>

ServiceSends ==
    /\ service # 0 /\ Len(to_client) < MaxMessages
    /\ LET value == [from |-> service, time |-> sessions[service].outval.time + 1] IN
       /\ value.time <= MaxTime
       /\ to_client' = Append(to_client, [type |-> "Packet", value |-> value])
       /\ sessions' = [sessions EXCEPT ![service].outval = value]
    /\ UNCHANGED <<connection, wires, attempts, shut_down, service, to_service,
                   overlapped, closed_other, stray_value>>

ServiceCloses ==
    /\ service # 0 /\ service' = 0 /\ Len(to_client) < MaxMessages
    /\ to_client' = Append(to_client, [type |-> "Closed"])
    /\ UNCHANGED <<connection, wires, attempts, shut_down, sessions, to_service,
                   overlapped, closed_other, stray_value>>

MemberNext ==
    \/ AsyncConnect \/ AsyncClose \/ SetOutValue
    \/ ReceiveConnectRet \/ ConnectTimeout \/ ReceivePacket \/ ReceiveWireClosed
    \/ ServiceConnects \/ ServiceDisconnects \/ ServiceTakes \/ ServiceSends \/ ServiceCloses

Next == MemberNext \/ Shutdown

Spec == Init /\ [][Next]_vars

-----------------------------------------------------------------------------
Values(S) == {NoValue} \cup [from : S, time : 1..MaxTime]

TypeOK ==
    /\ connection \in 0..Len(wires) /\ service \in 0..Len(sessions)
    /\ attempts \in Seq({"pending", "answered", "timed out"})
    /\ \A i \in DOMAIN wires : /\ wires[i].session \in DOMAIN sessions
                               /\ wires[i].inval \in Values(DOMAIN sessions)
                               /\ wires[i].outval \in Values({i})
    /\ \A s \in DOMAIN sessions : /\ sessions[s].inval \in Values(DOMAIN wires)
                                  /\ sessions[s].outval \in Values({s})
    /\ shut_down \in BOOLEAN
    /\ overlapped \in BOOLEAN /\ closed_other \in BOOLEAN /\ stray_value \in BOOLEAN

\* A connection only ever has a value of the session it was connected to, though
\* connects time out and both sides close and connect again, unless a connect is
\* sent while another is pending (connection, AsyncConnect_internal1).
ValueOfOwnSession ==
    \A i \in DOMAIN wires :
      wires[i].inval # NoValue /\ ~overlapped => wires[i].inval.from = wires[i].session

NothingPending == Pending = {} /\ to_client = <<>> /\ to_service = <<>>

\* When all messages have arrived the member is not left with a connection whose
\* other end is gone, unless one that is not the member's was closed or connects
\* overlapped: both make the client disconnect a session it does not know
\* (AsyncClose, WirePacketReceived).
NoDeadConnection ==
    NothingPending /\ connection # 0 /\ ~overlapped /\ ~closed_other /\ ~shut_down =>
      service = wires[connection].session

\* The service has the value set last when no value is on its way, also when the
\* clock stands still or is set back, unless a closed connection sent one, too, or
\* connects overlapped (SetOutValueBase, lasttime_send).
LastValueReached ==
    connection # 0 /\ wires[connection].session = service
      /\ ~stray_value /\ ~overlapped
      /\ (\A k \in DOMAIN to_service : to_service[k].type # "Packet") =>
    sessions[service].inval = wires[connection].outval

-----------------------------------------------------------------------------
(* The strengthening of these properties that every step keeps.            *)

Value == [from : Nat, time : Nat]
FromClient == [type : {"ConnectReq"}, attempt : Nat] \cup [type : {"DisconnectReq"}]
                \cup [type : {"Packet"}, value : Value]
FromService == [type : {"ConnectRet"}, attempt : Nat, session : Nat]
                 \cup [type : {"Packet"}, value : Value] \cup [type : {"Closed"}]

\* Messages are about attempts, sessions and connections that exist.
WireTypes ==
    /\ TypeOK
    /\ wires \in Seq([session : Nat, inval : Value, outval : Value])
    /\ sessions \in Seq([inval : Value, outval : Value])
    /\ to_service \in Seq(FromClient) /\ to_client \in Seq(FromService)
    /\ \A p \in DOMAIN to_service :
        /\ to_service[p].type = "ConnectReq" => to_service[p].attempt \in DOMAIN attempts
        /\ to_service[p].type = "Packet" =>
            to_service[p].value \in [from : DOMAIN wires, time : 1..MaxTime]
    /\ \A p \in DOMAIN to_client :
        /\ to_client[p].type = "ConnectRet" =>
            to_client[p].attempt \in DOMAIN attempts /\ to_client[p].session \in 0..Len(sessions)
        /\ to_client[p].type = "Packet" =>
            to_client[p].value \in [from : DOMAIN sessions, time : 1..MaxTime]

\* The positions of messages of a type.
Of(type, queue) == {p \in DOMAIN queue : queue[p].type = type}

\* Connects are answered in the order of sending, and the last alone may be pending.
ConnectsInOrder ==
    /\ \A p, q \in Of("ConnectRet", to_client) :
        p < q => to_client[p].attempt < to_client[q].attempt
    /\ \A p, q \in Of("ConnectReq", to_service) :
        p < q => to_service[p].attempt < to_service[q].attempt
    /\ \A p \in Of("ConnectRet", to_client), q \in Of("ConnectReq", to_service) :
        to_client[p].attempt < to_service[q].attempt
    /\ ~overlapped => Pending \subseteq {Len(attempts)}

\* The last reply in a queue to the client, at p.
LastRet(p, queue) == p \in Of("ConnectRet", queue)
                       /\ \A q \in Of("ConnectRet", queue) : ~(p < q)

\* Behind the last reply is nothing but its session's.
BehindReply ==
    \A p \in DOMAIN to_client : LastRet(p, to_client) /\ to_client[p].session # 0 =>
        /\ service \in {0, to_client[p].session}
        /\ \A q \in Of("Packet", to_client) :
            p < q => to_client[q].value.from = to_client[p].session

\* With a connection no connect is on its way, and all packets are its session's.
Settled ==
    connection # 0 /\ ~overlapped =>
        /\ Of("ConnectRet", to_client) = {} /\ Of("ConnectReq", to_service) = {}
        /\ service \in {0, wires[connection].session}
        /\ \A q \in Of("Packet", to_client) :
            to_client[q].value.from = wires[connection].session

\* No disconnect overtakes a connect, and the end of a session is announced.
EndsAnnounced ==
    ~overlapped /\ ~closed_other =>
        /\ \A p \in Of("ConnectReq", to_service), q \in Of("DisconnectReq", to_service) :
            ~(p < q)
        /\ connection # 0 \/ Of("ConnectRet", to_client) # {} =>
            Of("DisconnectReq", to_service) = {}
        /\ \A p \in DOMAIN to_client : LastRet(p, to_client) /\ to_client[p].session # 0 =>
            service = to_client[p].session \/ \E q \in Of("Closed", to_client) : p < q
        /\ connection # 0 /\ ~shut_down =>
            service = wires[connection].session \/ Of("Closed", to_client) # {}

\* The values of the connection on their way are newer and newer, the last is its own.
ValuesInOrder ==
    ~overlapped /\ ~stray_value =>
        /\ \A p \in Of("ConnectReq", to_service), q \in Of("Packet", to_service) : ~(p < q)
        /\ Of("ConnectRet", to_client) # {} => Of("Packet", to_service) = {}
        /\ \A p \in Of("ConnectRet", to_client) : to_client[p].session # 0 =>
            sessions[to_client[p].session].inval = NoValue
        /\ connection # 0 /\ wires[connection].session = service =>
            /\ \A p \in Of("Packet", to_service) :
                /\ sessions[service].inval.time < to_service[p].value.time
                /\ to_service[p].value.time <= wires[connection].outval.time
                /\ \A q \in Of("Packet", to_service) :
                    p < q => to_service[p].value.time < to_service[q].value.time
                /\ \/ to_service[p].value = wires[connection].outval
                   \/ \E q \in Of("Packet", to_service) : p < q
            /\ Of("Packet", to_service) = {} =>
                sessions[service].inval = wires[connection].outval

WireInv == /\ WireTypes /\ ConnectsInOrder /\ BehindReply /\ Settled
           /\ EndsAnnounced /\ ValuesInOrder /\ ValueOfOwnSession
=============================================================================
