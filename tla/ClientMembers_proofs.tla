------------------------- MODULE ClientMembers_proofs -------------------------
(***************************************************************************)
(* Proofs about ClientMembers, for any bounds and any set of indices.  What *)
(* is true of a wire is proved in WireClient_proofs; here it is shown that   *)
(* the stub takes only the steps of the wire.  The rest is about a pipe:     *)
(* every step keeps PipeInv of PipeClient, action by action, which for most  *)
(* is what it does to the index it is about and that it leaves the others;  *)
(* the properties follow from PipeInv.                                       *)
(***************************************************************************)
EXTENDS ClientMembers, FiniteSetTheorems, TLAPS

\* The wire with the variables it has here.
WireProofs == INSTANCE WireClient_proofs WITH
    attempts <- wire_attempts, sessions <- wire_sessions,
    to_service <- wire_to_service, to_client <- wire_to_client

-----------------------------------------------------------------------------
(* The wire.                                                               *)

\* The pipe does not release the stub.
LEMMA PipeKeepsStub == ASSUME MemberNext PROVE UNCHANGED shut_down
  BY DEF MemberNext, Service, AsyncConnect, AsyncClose, ReceiveConnectRet, ConnectTimeout,
         ReceivePacket, ReceivePipeClosed, ConnectFailed, Connected

\* Neither does the wire.
LEMMA WireKeepsStub ==
  ASSUME Wire!MemberNext
  PROVE  UNCHANGED shut_down
  <1>1. Wire!AsyncConnect => UNCHANGED shut_down  BY DEF Wire!AsyncConnect
  <1>2. Wire!AsyncClose => UNCHANGED shut_down  BY DEF Wire!AsyncClose
  <1>3. Wire!SetOutValue => UNCHANGED shut_down  BY DEF Wire!SetOutValue
  <1>4. Wire!ReceiveConnectRet => UNCHANGED shut_down  BY DEF Wire!ReceiveConnectRet
  <1>5. Wire!ConnectTimeout => UNCHANGED shut_down  BY DEF Wire!ConnectTimeout
  <1>6. Wire!ReceivePacket => UNCHANGED shut_down  BY DEF Wire!ReceivePacket
  <1>7. Wire!ReceiveWireClosed => UNCHANGED shut_down  BY DEF Wire!ReceiveWireClosed
  <1>8. Wire!ServiceConnects => UNCHANGED shut_down  BY DEF Wire!ServiceConnects, Wire!ServiceReceives
  <1>9. Wire!ServiceDisconnects => UNCHANGED shut_down  BY DEF Wire!ServiceDisconnects, Wire!ServiceReceives
  <1>10. Wire!ServiceTakes => UNCHANGED shut_down  BY DEF Wire!ServiceTakes, Wire!ServiceReceives
  <1>11. Wire!ServiceSends => UNCHANGED shut_down  BY DEF Wire!ServiceSends
  <1>12. Wire!ServiceCloses => UNCHANGED shut_down  BY DEF Wire!ServiceCloses
  <1> QED BY <1>1, <1>2, <1>3, <1>4, <1>5, <1>6, <1>7, <1>8, <1>9, <1>10, <1>11, <1>12
          DEF Wire!MemberNext

\* A stub starts as its wire does.
LEMMA WireStarts == ASSUME MembersInit PROVE WireProofs!Init
  BY DEF MembersInit, Wire!Init, WireProofs!Init

\* Every step of the stub is one of its wire, or leaves the wire alone.
LEMMA WireSteps ==
  ASSUME [MembersNext]_memberVars
  PROVE  [WireProofs!Next]_(WireProofs!vars)
  <1>1. CASE member = "wire" /\ Wire!MemberNext
    <2>1. Wire!AsyncConnect => WireProofs!AsyncConnect
      BY DEF Wire!AsyncConnect, WireProofs!AsyncConnect, Wire!CanSend, WireProofs!CanSend,
             Wire!SendToService, WireProofs!SendToService, Wire!Pending, WireProofs!Pending
    <2>2. Wire!AsyncClose => WireProofs!AsyncClose
      BY DEF Wire!AsyncClose, WireProofs!AsyncClose, Wire!CanSend, WireProofs!CanSend,
             Wire!SendToService, WireProofs!SendToService, Wire!NotConnected,
             WireProofs!NotConnected
    <2>3. Wire!SetOutValue => WireProofs!SetOutValue
      BY DEF Wire!SetOutValue, WireProofs!SetOutValue, Wire!CanSend, WireProofs!CanSend,
             Wire!SendToService, WireProofs!SendToService, Wire!SendTime, WireProofs!SendTime
    <2>4. Wire!ReceiveConnectRet => WireProofs!ReceiveConnectRet
      BY DEF Wire!ReceiveConnectRet, WireProofs!ReceiveConnectRet, Wire!Receives,
             WireProofs!Receives, Wire!NewWire, WireProofs!NewWire, Wire!NoValue,
             WireProofs!NoValue
    <2>5. Wire!ConnectTimeout => WireProofs!ConnectTimeout
      BY DEF Wire!ConnectTimeout, WireProofs!ConnectTimeout, Wire!Pending, WireProofs!Pending
    <2>6. Wire!ReceivePacket => WireProofs!ReceivePacket
      BY DEF Wire!ReceivePacket, WireProofs!ReceivePacket, Wire!Receives,
             WireProofs!Receives, Wire!ToConnection, WireProofs!ToConnection, Wire!Newer,
             WireProofs!Newer
    <2>7. Wire!ReceiveWireClosed => WireProofs!ReceiveWireClosed
      BY DEF Wire!ReceiveWireClosed, WireProofs!ReceiveWireClosed, Wire!Receives,
             WireProofs!Receives, Wire!CanSend, WireProofs!CanSend, Wire!SendToService,
             WireProofs!SendToService, Wire!NotConnected, WireProofs!NotConnected
    <2>8. Wire!ServiceConnects => WireProofs!ServiceConnects
      BY DEF Wire!ServiceConnects, WireProofs!ServiceConnects, Wire!ServiceReceives,
             WireProofs!ServiceReceives, Wire!Replies, WireProofs!Replies, Wire!NewSession,
             WireProofs!NewSession, Wire!NoValue, WireProofs!NoValue
    <2>9. Wire!ServiceDisconnects => WireProofs!ServiceDisconnects
      BY DEF Wire!ServiceDisconnects, WireProofs!ServiceDisconnects, Wire!ServiceReceives,
             WireProofs!ServiceReceives
    <2>10. Wire!ServiceTakes => WireProofs!ServiceTakes
      BY DEF Wire!ServiceTakes, WireProofs!ServiceTakes, Wire!ServiceReceives,
             WireProofs!ServiceReceives, Wire!Newer, WireProofs!Newer
    <2>11. Wire!ServiceSends => WireProofs!ServiceSends
      BY DEF Wire!ServiceSends, WireProofs!ServiceSends
    <2>12. Wire!ServiceCloses => WireProofs!ServiceCloses
      BY DEF Wire!ServiceCloses, WireProofs!ServiceCloses
    <2> QED BY <1>1, <2>1, <2>2, <2>3, <2>4, <2>5, <2>6, <2>7, <2>8, <2>9, <2>10, <2>11, <2>12
            DEF Wire!MemberNext, WireProofs!Next, WireProofs!MemberNext
  <1>2. CASE ReleaseStub
    <2>1. WireProofs!Shutdown  BY <1>2 DEF ReleaseStub, Wire!Shutdown, WireProofs!Shutdown
    <2> QED BY <2>1 DEF WireProofs!Next
  <1>3. CASE UNCHANGED wireOnly /\ UNCHANGED shut_down
    BY <1>3 DEF wireOnly, WireProofs!vars
  <1>4. CASE UNCHANGED memberVars
    BY <1>3, <1>4 DEF memberVars, vars
  <1> QED BY <1>1, <1>2, <1>3, <1>4, PipeKeepsStub DEF MembersNext

\* The strengthening of the wire holds of the stub's wire.
LEMMA WireInvariant == MembersSpec => []WireProofs!WireInv
  <1>1. MaxTime \in Nat  BY WireBoundsAssumption
  <1>2. MembersInit => WireProofs!Init  BY WireStarts
  <1>3. [MembersNext]_memberVars => [WireProofs!Next]_(WireProofs!vars)  BY WireSteps
  <1>4. WireProofs!Spec => []WireProofs!WireInv  BY <1>1, WireProofs!Invariant
  <1> QED BY <1>2, <1>3, <1>4, PTL DEF MembersSpec, WireProofs!Spec

\* What a state of the wire that has the strengthening has.
LEMMA WireProperties ==
  ASSUME WireProofs!WireInv
  PROVE  Wire!TypeOK /\ ValueOfOwnSession /\ NoDeadConnection /\ LastValueReached
  <1>1. /\ WireProofs!TypeOK /\ WireProofs!ValueOfOwnSession
        /\ WireProofs!NoDeadConnection /\ WireProofs!LastValueReached
    BY WireProofs!WireInvImplies
  <1>2. Wire!TypeOK
    BY <1>1 DEF Wire!TypeOK, WireProofs!TypeOK, Wire!Values, WireProofs!Values,
                Wire!NoValue, WireProofs!NoValue
  <1>3. ValueOfOwnSession
    BY <1>1 DEF ValueOfOwnSession, Wire!ValueOfOwnSession, WireProofs!ValueOfOwnSession,
                Wire!NoValue, WireProofs!NoValue
  <1>4. NoDeadConnection
    BY <1>1 DEF NoDeadConnection, Wire!NoDeadConnection, WireProofs!NoDeadConnection,
                Wire!NothingPending, WireProofs!NothingPending, Wire!Pending, WireProofs!Pending
  <1>5. LastValueReached
    BY <1>1 DEF LastValueReached, Wire!LastValueReached, WireProofs!LastValueReached
  <1> QED BY <1>2, <1>3, <1>4, <1>5

\* A wire connection only ever has a value of the session it was connected to, unless a
\* connect is sent while another is pending (connection, AsyncConnect_internal1).
THEOREM ValuesOfOwnSession == MembersSpec => []ValueOfOwnSession
  <1>1. WireProofs!WireInv => ValueOfOwnSession  BY WireProperties
  <1> QED BY <1>1, WireInvariant, PTL

\* When all messages have arrived the wire is not left with a connection whose other end
\* is gone, unless one that is not the member's was closed, connects overlapped or the
\* stub was released (AsyncClose, WireClosed).
THEOREM ConnectionsEnd == MembersSpec => []NoDeadConnection
  <1>1. WireProofs!WireInv => NoDeadConnection  BY WireProperties
  <1> QED BY <1>1, WireInvariant, PTL

\* The service has the value set last when none is on its way, whatever the clock did,
\* unless a connection that is not the member's sent one or connects overlapped
\* (SetOutValueBase, lasttime_send).
THEOREM LastValuesReach == MembersSpec => []LastValueReached
  <1>1. WireProofs!WireInv => LastValueReached  BY WireProperties
  <1> QED BY <1>1, WireInvariant, PTL

-----------------------------------------------------------------------------
(* The pipe: what is on its way when a message was taken or sent.          *)

\* Queue t is q without its first message; it is q and message m.
IsRest(q, t) == WireProofs!IsRest(q, t)
IsMore(q, m, t) == WireProofs!IsMore(q, m, t)

\* The messages of a session and the closings of an index in what is left.
LEMMA PipeRest ==
  ASSUME NEW q, NEW t, IsRest(q, t), NEW s
  PROVE  /\ \A p \in Replies(s, t) : p \in Nat /\ p + 1 \in Replies(s, q) /\ t[p] = q[p + 1]
         /\ \A p \in Packets(s, t) : p \in Nat /\ p + 1 \in Packets(s, q) /\ t[p] = q[p + 1]
         /\ \A p \in About(s, t) : p \in Nat /\ p + 1 \in About(s, q) /\ t[p] = q[p + 1]
         /\ \A p \in Closings(s, t) : p \in Nat /\ p + 1 \in Closings(s, q)
         /\ \A p \in Replies(s, q) : p \in Nat /\ 1 =< p /\ (p # 1 => p - 1 \in Replies(s, t))
         /\ \A p \in Packets(s, q) : p \in Nat /\ 1 =< p /\
                (p # 1 => p - 1 \in Packets(s, t) /\ t[p - 1] = q[p])
         /\ \A p \in Closings(s, q) : p \in Nat /\ 1 =< p /\ (p # 1 => p - 1 \in Closings(s, t))
  <1>1. /\ \A p \in DOMAIN q : p \in Nat /\ 1 =< p
        /\ \A p \in DOMAIN t : p \in Nat /\ p + 1 \in DOMAIN q /\ t[p] = q[p + 1]
        /\ \A p \in DOMAIN q : p # 1 => p - 1 \in DOMAIN t /\ t[p - 1] = q[p]
    BY DEF IsRest, WireProofs!IsRest
  <1>2. /\ \A p \in Replies(s, t) : p \in Nat /\ p + 1 \in Replies(s, q) /\ t[p] = q[p + 1]
        /\ \A p \in Packets(s, t) : p \in Nat /\ p + 1 \in Packets(s, q) /\ t[p] = q[p + 1]
        /\ \A p \in Closings(s, t) : p \in Nat /\ p + 1 \in Closings(s, q)
    BY <1>1 DEF Replies, Packets, Closings
  <1>3. /\ \A p \in Replies(s, q) : p \in Nat /\ 1 =< p /\ (p # 1 => p - 1 \in Replies(s, t))
        /\ \A p \in Packets(s, q) : p \in Nat /\ 1 =< p /\
                (p # 1 => p - 1 \in Packets(s, t) /\ t[p - 1] = q[p])
        /\ \A p \in Closings(s, q) : p \in Nat /\ 1 =< p /\ (p # 1 => p - 1 \in Closings(s, t))
    BY <1>1 DEF Replies, Packets, Closings
  <1> QED BY <1>2, <1>3 DEF About

\* The same with one more message.
LEMMA PipeMore ==
  ASSUME NEW q, NEW m, NEW t, IsMore(q, m, t), NEW s, NEW n, n = Len(q) + 1
  PROVE  /\ n \in Nat /\ n >= 1 /\ t[n] = m
         /\ \A p \in DOMAIN q : p \in Nat /\ p < n /\ p \in DOMAIN t /\ t[p] = q[p]
         /\ \A p \in DOMAIN t : p \in DOMAIN q \/ p = n
         /\ \A p \in Replies(s, q) : p \in Nat /\ p < n /\ p \in Replies(s, t) /\ t[p] = q[p]
         /\ \A p \in Packets(s, q) : p \in Nat /\ p < n /\ p \in Packets(s, t) /\ t[p] = q[p]
         /\ \A p \in About(s, q) : p \in Nat /\ p < n /\ p \in About(s, t) /\ t[p] = q[p]
         /\ \A p \in Closings(s, q) : p \in Nat /\ p < n /\ p \in Closings(s, t) /\ t[p] = q[p]
         /\ \A p \in Replies(s, t) :
                p \in Replies(s, q) \/ (p = n /\ m.type = "PipeConnectRet" /\ m.session = s)
         /\ \A p \in Packets(s, t) :
                p \in Packets(s, q) \/ (p = n /\ m.type = "PipePacket" /\ m.session = s)
         /\ \A p \in Closings(s, t) :
                p \in Closings(s, q) \/ (p = n /\ m.type = "PipeClosed" /\ m.index = s)
         /\ m.type = "PipeConnectRet" /\ m.session = s => n \in Replies(s, t)
         /\ m.type = "PipePacket" /\ m.session = s => n \in Packets(s, t)
         /\ m.type = "PipeClosed" /\ m.index = s => n \in Closings(s, t)
  <1>1. /\ \A p \in DOMAIN q : p \in Nat /\ p < n /\ p \in DOMAIN t /\ t[p] = q[p]
        /\ \A p \in DOMAIN t : p = n \/ p \in DOMAIN q
        /\ n \in DOMAIN t /\ t[n] = m /\ n \in Nat /\ n >= 1
    BY DEF IsMore, WireProofs!IsMore
  <1>2. /\ \A p \in Replies(s, q) : p \in Nat /\ p < n /\ p \in Replies(s, t) /\ t[p] = q[p]
        /\ \A p \in Packets(s, q) : p \in Nat /\ p < n /\ p \in Packets(s, t) /\ t[p] = q[p]
        /\ \A p \in Closings(s, q) : p \in Nat /\ p < n /\ p \in Closings(s, t) /\ t[p] = q[p]
    BY <1>1 DEF Replies, Packets, Closings
  <1>3. /\ \A p \in Replies(s, t) :
             p \in Replies(s, q) \/ (p = n /\ m.type = "PipeConnectRet" /\ m.session = s)
        /\ \A p \in Packets(s, t) :
             p \in Packets(s, q) \/ (p = n /\ m.type = "PipePacket" /\ m.session = s)
        /\ \A p \in Closings(s, t) :
             p \in Closings(s, q) \/ (p = n /\ m.type = "PipeClosed" /\ m.index = s)
    BY <1>1 DEF Replies, Packets, Closings
  <1>4. /\ m.type = "PipeConnectRet" /\ m.session = s => n \in Replies(s, t)
        /\ m.type = "PipePacket" /\ m.session = s => n \in Packets(s, t)
        /\ m.type = "PipeClosed" /\ m.index = s => n \in Closings(s, t)
    BY <1>1 DEF Replies, Packets, Closings
  <1> QED BY <1>1, <1>2, <1>3, <1>4 DEF About

-----------------------------------------------------------------------------
(* The pipe: what its types say, and what a step leaves as it was.         *)

\* A session of the service.
Session == [index : Indices, key : Nat, open : BOOLEAN, replied : BOOLEAN, unheard : BOOLEAN,
            sent : 0..MaxPackets]

\* Indices lead to endpoints, sessions and attempts that exist.
LEMMA PipeShapes ==
  ASSUME PipeTypes
  PROVE  /\ Len(endpoints) \in Nat /\ DOMAIN endpoints = 1..Len(endpoints)
         /\ Len(sessions) \in Nat /\ DOMAIN sessions = 1..Len(sessions)
         /\ Len(attempts) \in Nat /\ DOMAIN attempts = 1..Len(attempts)
         /\ \A s \in DOMAIN sessions :
              s \in Nat \ {0} /\ sessions[s] \in Session /\ sessions[s].key \in DOMAIN attempts
         /\ \A e \in DOMAIN endpoints : e \in Nat \ {0} /\ IsEndpoint(endpoints[e])
         /\ \A i \in DOMAIN pipeendpoints : i \in Indices /\ pipeendpoints[i] \in DOMAIN endpoints
         /\ \A i \in DOMAIN early_endpoints : i \in Indices /\ early_endpoints[i] \in DOMAIN endpoints
  <1>1. Len(endpoints) \in Nat /\ DOMAIN endpoints = 1..Len(endpoints)
    <2>1. PICK S : endpoints \in Seq(S)  BY DEF PipeTypes, EndpointsTyped
    <2> QED BY <2>1
  <1>2. /\ Len(sessions) \in Nat /\ DOMAIN sessions = 1..Len(sessions)
        /\ \A s \in DOMAIN sessions : sessions[s] \in Session
    <2>1. sessions \in Seq(Session)  BY DEF PipeTypes, SessionsTyped, Session
    <2> QED BY <2>1
  <1>3. Len(attempts) \in Nat /\ DOMAIN attempts = 1..Len(attempts)
    <2>1. PICK S : attempts \in Seq(S)  BY DEF PipeTypes, AttemptsTyped
    <2> QED BY <2>1
  <1>4. /\ \A s \in DOMAIN sessions : sessions[s].key \in DOMAIN attempts
        /\ \A e \in DOMAIN endpoints : IsEndpoint(endpoints[e])
    BY DEF PipeTypes, SessionsTyped, EndpointsTyped
  <1> QED BY <1>1, <1>2, <1>3, <1>4 DEF PipeTypes, TablesTyped

\* What is left of the messages to the client.
LEMMA PipeClientRest ==
  ASSUME PipeTypes, to_client # <<>>, to_client' = Tail(to_client)
  PROVE  /\ to_client' \in Seq(FromService) /\ IsRest(to_client, to_client')
         /\ 1 \in DOMAIN to_client /\ Head(to_client) = to_client[1]
         /\ to_client[1] \in FromService
         /\ \A p \in DOMAIN to_client' : p + 1 \in DOMAIN to_client /\ to_client'[p] = to_client[p + 1]
  <1>1. to_client \in Seq(FromService)  BY DEF PipeTypes, ToClientTyped
  <1>2. /\ to_client' \in Seq(FromService) /\ WireProofs!IsRest(to_client, to_client')
        /\ 1 \in DOMAIN to_client /\ Head(to_client) = to_client[1]
        /\ Head(to_client) \in FromService
    BY <1>1, WireProofs!RestOf
  <1> QED BY <1>2 DEF IsRest, WireProofs!IsRest

\* Endpoints, sessions and failed attempts stay what they are about.
Lasting ==
  /\ \A e \in DOMAIN endpoints :
       /\ e \in DOMAIN endpoints' /\ endpoints'[e].index = endpoints[e].index
       /\ endpoints[e].given_up => endpoints'[e].given_up
  /\ \A s \in DOMAIN sessions :
       /\ s \in DOMAIN sessions' /\ sessions'[s].index = sessions[s].index
       /\ sessions'[s].key = sessions[s].key
       /\ sessions[s].unheard => sessions'[s].unheard
  /\ \A k \in DOMAIN attempts : attempts[k] = "failed" => attempts'[k] = "failed"

\* What an index has lost it does not get back.
LEMMA GoodLasts ==
  ASSUME PipeTypes, Lasting, NEW i, Good(i)'
  PROVE  Good(i)
  <1>1. GivenUp(i) => GivenUp(i)'  BY DEF GivenUp, Lasting
  <1>2. Abandoned(i) => Abandoned(i)'
    <2> SUFFICES ASSUME NEW s \in DOMAIN sessions, sessions[s].index = i,
                        attempts[sessions[s].key] = "failed"
                 PROVE  Abandoned(i)'
      BY DEF Abandoned
    <2>1. sessions[s].key \in DOMAIN attempts  BY PipeShapes
    <2>2. /\ s \in DOMAIN sessions' /\ sessions'[s].index = i
          /\ attempts'[sessions'[s].key] = "failed"
      BY <2>1 DEF Lasting
    <2> QED BY <2>2 DEF Abandoned
  <1>3. ClosedUnheard(i) => ClosedUnheard(i)'  BY DEF ClosedUnheard, Lasting
  <1> QED BY <1>1, <1>2, <1>3 DEF Good

-----------------------------------------------------------------------------
(* The pipe: the first packets of a session have come to a receiver.       *)

\* The function that is defined nowhere.
LEMMA NoFunction == ASSUME NEW D, D = {}, NEW s PROVE [n \in D |-> <<s, n>>] = <<>>
  OBVIOUS

\* None has come to a new receiver.
LEMMA CameNone == ASSUME NEW s PROVE Came(NewReceiver, {}, s, 0)
  <1>1. PICK k \in Nat : k = 0  OBVIOUS
  <1>2. PICK D : D = {j \in (k + 1)..k : <<s, j>> \notin {}}  OBVIOUS
  <1>3. D = {}  BY <1>1, <1>2
  <1>4. [n \in D |-> <<s, n>>] = <<>>  BY ONLY <1>3, NoFunction
  <1>5. [n \in 1..k |-> <<s, n>>] = <<>>
    <2>1. 1..k = {}  BY <1>1
    <2> QED BY ONLY <2>1, NoFunction
  <1>6. NewReceiver = [recv_packet_number   |-> k,
                       recv_packets         |-> [n \in 1..k |-> <<s, n>>],
                       out_of_order_packets |-> [n \in D |-> <<s, n>>]]
    BY <1>1, <1>4, <1>5 DEF NewReceiver
  <1>7. k \in 0..k  BY <1>1
  <1> QED BY <1>1, <1>2, <1>6, <1>7 DEF Came

\* Of the l packets that have come the receiver has received k, and holds those of D.
HasCome(r, u, s, l, k, D) ==
    /\ D = {j \in (k + 1)..l : <<s, j>> \notin u}
    /\ r = [recv_packet_number |-> k, recv_packets |-> [n \in 1..k |-> <<s, n>>],
            out_of_order_packets |-> [n \in D |-> <<s, n>>]]
    /\ r.recv_packet_number = k /\ r.recv_packets = [n \in 1..k |-> <<s, n>>]
    /\ r.out_of_order_packets = [n \in D |-> <<s, n>>]
    /\ DOMAIN r.out_of_order_packets = D
    /\ u \subseteq {<<s, n>> : n \in (k + 1)..l}
    /\ k < l => <<s, k + 1>> \in u

\* What a receiver has received, and what it holds.
LEMMA CameFields ==
  ASSUME NEW r, NEW u, NEW s, NEW l \in Nat, Came(r, u, s, l)
  PROVE  \E k \in 0..l, D \in SUBSET Nat : HasCome(r, u, s, l, k, D)
  <1>1. PICK k \in 0..l :
          /\ r = [recv_packet_number   |-> k,
                  recv_packets         |-> [n \in 1..k |-> <<s, n>>],
                  out_of_order_packets |->
                    [n \in {j \in (k + 1)..l : <<s, j>> \notin u} |-> <<s, n>>]]
          /\ u \subseteq {<<s, n>> : n \in (k + 1)..l}
          /\ k < l => <<s, k + 1>> \in u
    BY DEF Came
  <1>2. PICK D : D = {j \in (k + 1)..l : <<s, j>> \notin u}  OBVIOUS
  <1>3. r = [recv_packet_number |-> k, recv_packets |-> [n \in 1..k |-> <<s, n>>],
             out_of_order_packets |-> [n \in D |-> <<s, n>>]]
    BY <1>1, <1>2
  <1>4. /\ r.recv_packet_number = k /\ r.recv_packets = [n \in 1..k |-> <<s, n>>]
        /\ r.out_of_order_packets = [n \in D |-> <<s, n>>]
        /\ DOMAIN r.out_of_order_packets = D
    BY <1>3
  <1>5. D \in SUBSET Nat  BY <1>1, <1>2
  <1> QED BY <1>1, <1>2, <1>3, <1>4, <1>5 DEF HasCome

\* What has come is of one session.
LEMMA CameOfOne ==
  ASSUME NEW r, NEW u, NEW s, NEW l \in Nat, l >= 1, Came(r, u, s, l),
         NEW t, NEW m \in Nat, m >= 1, Came(r, u, t, m)
  PROVE  s = t /\ l = m
  <1>a. PICK k \in 0..l, D \in SUBSET Nat : HasCome(r, u, s, l, k, D)  BY CameFields
  <1>b. PICK i \in 0..m, E \in SUBSET Nat : HasCome(r, u, t, m, i, E)  BY CameFields
  <1>1. /\ D = {j \in (k + 1)..l : <<s, j>> \notin u}
        /\ r.recv_packet_number = k /\ r.recv_packets = [n \in 1..k |-> <<s, n>>]
        /\ DOMAIN r.out_of_order_packets = D
        /\ u \subseteq {<<s, n>> : n \in (k + 1)..l}
        /\ k < l => <<s, k + 1>> \in u
    BY <1>a DEF HasCome
  <1>2. /\ E = {j \in (i + 1)..m : <<t, j>> \notin u}
        /\ r.recv_packet_number = i /\ r.recv_packets = [n \in 1..i |-> <<t, n>>]
        /\ DOMAIN r.out_of_order_packets = E
        /\ u \subseteq {<<t, n>> : n \in (i + 1)..m}
        /\ i < m => <<t, i + 1>> \in u
    BY <1>b DEF HasCome
  <1>3. i = k /\ D = E  BY <1>1, <1>2
  <1>4. s = t
    <2>1. CASE k >= 1
      <3>1. PICK a, b : /\ a = [n \in 1..k |-> <<s, n>>] /\ b = [n \in 1..k |-> <<t, n>>]
                        /\ a = b
        BY <1>1, <1>2, <1>3
      <3>2. a[1] = <<s, 1>> /\ b[1] = <<t, 1>>  BY <2>1, <3>1
      <3> QED BY <3>1, <3>2
    <2>2. CASE k < 1
      <3>1. <<s, k + 1>> \in u  BY <1>1, <2>2
      <3> QED BY <1>2, <3>1
    <2> QED BY <1>1, <2>1, <2>2
  <1>5. \A j \in (k + 1)..l : j \in (k + 1)..m
    <2> SUFFICES ASSUME NEW j \in (k + 1)..l PROVE j \in (k + 1)..m  OBVIOUS
    <2>1. CASE <<s, j>> \in u
      BY <1>2, <1>3, <1>4, <2>1
    <2>2. CASE <<s, j>> \notin u
      BY <1>1, <1>2, <1>3, <2>2
    <2> QED BY <2>1, <2>2
  <1>6. \A j \in (k + 1)..m : j \in (k + 1)..l
    <2> SUFFICES ASSUME NEW j \in (k + 1)..m PROVE j \in (k + 1)..l  OBVIOUS
    <2>1. CASE <<s, j>> \in u
      BY <1>1, <1>3, <1>4, <2>1
    <2>2. CASE <<s, j>> \notin u
      BY <1>1, <1>2, <1>3, <1>4, <2>2
    <2> QED BY <2>1, <2>2
  <1>7. k <= l /\ k <= m /\ k \in Nat  BY <1>1, <1>2, <1>3
  <1>8. l = m
    <2>1. l <= m
      <3>1. CASE k < l
        <4>1. l \in (k + 1)..l  BY <1>7, <3>1
        <4> QED BY <1>5, <4>1
      <3>2. CASE k = l  BY <1>7, <3>2
      <3> QED BY <1>7, <3>1, <3>2
    <2>2. m <= l
      <3>1. CASE k < m
        <4>1. m \in (k + 1)..m  BY <1>7, <3>1
        <4> QED BY <1>6, <4>1
      <3>2. CASE k = m  BY <1>7, <3>2
      <3> QED BY <1>7, <3>1, <3>2
    <2> QED BY <2>1, <2>2
  <1> QED BY <1>4, <1>8

\* A packet that is not the next to receive is held.
LEMMA CameHeld ==
  ASSUME NEW s, NEW u, NEW l \in Nat, NEW k \in 0..l, k < l, l + 1 <= MaxPackets,
         u \subseteq {<<s, j>> : j \in (k + 1)..l}, <<s, k + 1>> \in u,
         NEW D, D = {j \in (k + 1)..l : <<s, j>> \notin u},
         NEW r, r = [recv_packet_number |-> k, recv_packets |-> [j \in 1..k |-> <<s, j>>],
                     out_of_order_packets |-> [j \in D |-> <<s, j>>]],
         NEW n, n = l + 1, NEW packet, packet = <<s, n>>, NEW t \in PacketReceived(r, n, packet)
  PROVE  Came(t, u, s, n)
  <1>1. n \in Nat /\ n < NumMod /\ NumMod \in Nat /\ k < NumMod - 1 /\ k + 1 # n /\ k \in Nat
    BY BoundsAssumption, NumModAssumption
  <1>2. Increment(k) # n  BY <1>1 DEF Increment
  <1>3. t = Buffered(r, n, packet)  BY <1>2 DEF PacketReceived
  <1>4. PICK f : f = [j \in D |-> <<s, j>>]  OBVIOUS
  <1>5. PICK E : E = {j \in (k + 1)..n : <<s, j>> \notin u}  OBVIOUS
  <1>6. E = D \cup {n}
    <2>1. <<s, n>> \notin u  BY <1>1
    <2>2. \A j : j \in (k + 1)..n <=> j \in (k + 1)..l \/ j = n  BY <1>1
    <2> QED BY <1>5, <2>1, <2>2
  <1>7. n \notin D  BY <1>1
  <1>8. PICK g : g = [j \in DOMAIN f \cup {n} |-> IF j \in DOMAIN f THEN f[j] ELSE packet]  OBVIOUS
  <1>9. g = [j \in E |-> <<s, j>>]
    <2>1. DOMAIN f = D  BY <1>4
    <2>2. g = [j \in E |-> IF j \in D THEN f[j] ELSE packet]  BY <1>6, <1>8, <2>1
    <2>3. \A j \in E : (IF j \in D THEN f[j] ELSE packet) = <<s, j>>  BY <1>4, <1>6
    <2> QED BY <2>2, <2>3
  <1>10. t = [r EXCEPT !.out_of_order_packets = g]  BY <1>3, <1>4, <1>8 DEF Buffered
  <1>11. t = [recv_packet_number |-> k, recv_packets |-> [j \in 1..k |-> <<s, j>>],
              out_of_order_packets |-> g]
    BY <1>10
  <1>12. u \subseteq {<<s, j>> : j \in (k + 1)..n} /\ k \in 0..n  BY <1>1
  <1> QED BY <1>5, <1>9, <1>11, <1>12 DEF Came

\* A packet that is lost keeps those after it from being received.
LEMMA CameLost ==
  ASSUME NEW r, NEW u, NEW s, NEW l \in Nat, Came(r, u, s, l), NEW n, n = l + 1
  PROVE  Came(r, u \cup {<<s, n>>}, s, n)
  <1>a. PICK k \in 0..l, D \in SUBSET Nat : HasCome(r, u, s, l, k, D)  BY CameFields
  <1>1. /\ D = {j \in (k + 1)..l : <<s, j>> \notin u}
        /\ r = [recv_packet_number |-> k, recv_packets |-> [j \in 1..k |-> <<s, j>>],
                out_of_order_packets |-> [j \in D |-> <<s, j>>]]
        /\ u \subseteq {<<s, j>> : j \in (k + 1)..l}
        /\ k < l => <<s, k + 1>> \in u
    BY <1>a DEF HasCome
  <1>2. PICK w : w = u \cup {<<s, n>>}  OBVIOUS
  <1>3. \A j : j \in (k + 1)..n <=> j \in (k + 1)..l \/ j = n  BY <1>1
  <1>4. D = {j \in (k + 1)..n : <<s, j>> \notin w}
    <2>1. \A j \in (k + 1)..l : <<s, j>> \notin w <=> <<s, j>> \notin u
      <3>1. \A j \in (k + 1)..l : j # n  BY <1>1
      <3> QED BY <1>2, <3>1
    <2> QED BY <1>1, <1>2, <1>3, <2>1
  <1>5. w \subseteq {<<s, j>> : j \in (k + 1)..n}  BY <1>1, <1>2, <1>3
  <1>6. k < n => <<s, k + 1>> \in w  BY <1>1, <1>2
  <1>7. k \in 0..n  BY <1>1
  <1>8. Came(r, w, s, n)
    BY <1>1, <1>4, <1>5, <1>6, <1>7 DEF Came
  <1> QED BY <1>2, <1>8

\* A receiver with the first k packets of session s, which holds none.
StreamOf(s, k) == [recv_packet_number   |-> k,
                   recv_packets         |-> [n \in 1..k |-> <<s, n>>],
                   out_of_order_packets |-> <<>>]

\* The next packet of the session is taken at once.
LEMMA NextTaken ==
  ASSUME NEW s, NEW k \in Nat, k + 1 <= MaxPackets, NEW r, r = StreamOf(s, k), NEW n, n = k + 1,
         NEW packet, packet = <<s, n>>, NEW t \in PacketReceived(r, n, packet)
  PROVE  t = StreamOf(s, n)
  <1>1. n \in Nat /\ n < NumMod /\ NumMod \in Nat /\ n \in 1..n
    BY BoundsAssumption, NumModAssumption
  <1>2. /\ r.recv_packet_number = k /\ r.out_of_order_packets = <<>>
        /\ r.recv_packets = [j \in 1..k |-> <<s, j>>]
    BY DEF StreamOf
  <1>3. Increment(k) = n  BY <1>1 DEF Increment
  <1>4. PICK d \in DrainLengths(n, <<>>) : t = Accepted(r, packet, d)
    BY <1>2, <1>3 DEF PacketReceived
  <1>5. d = 0
    <2>1. d \in Nat /\ \A j \in 1..d : After(n, j) \in DOMAIN <<>>
      BY <1>1, <1>4 DEF DrainLengths, PacketNumbers
    <2>2. DOMAIN <<>> = {}  OBVIOUS
    <2>3. \A j \in 1..d : FALSE  BY <2>1, <2>2
    <2>4. d >= 1 => 1 \in 1..d  BY <2>1
    <2> QED BY <2>1, <2>3, <2>4
  <1>6. After(n, d) = n
    <2>1. n % NumMod = n  BY <1>1
    <2>2. n + d = n  BY <1>1, <1>5
    <2> QED BY <2>1, <2>2 DEF After
  <1>7. PICK p : p = [j \in 1..k |-> <<s, j>>]  OBVIOUS
  <1>8. PICK S : S = {<<s, j>> : j \in 1..n}  OBVIOUS
  <1>9. p \in Seq(S) /\ Len(p) = k
    <2>1. \A j \in 1..k : <<s, j>> \in S  BY <1>1, <1>8
    <2> QED BY <1>7, <2>1
  <1>10. packet \in S  BY <1>1, <1>8
  <1>11. PICK q : q = Append(p, packet)  OBVIOUS
  <1>12. q \in Seq(S) /\ Len(q) = n /\ q[n] = packet /\ \A j \in 1..k : q[j] = p[j]
    BY <1>9, <1>10, <1>11
  <1>13. q = [j \in 1..n |-> <<s, j>>]
    <2>1. \A j \in 1..n : q[j] = <<s, j>>
      <3>1. \A j \in 1..k : q[j] = <<s, j>>  BY <1>7, <1>12
      <3>2. \A j \in 1..n : j \in 1..k \/ j = n  BY <1>1
      <3> QED BY <1>12, <3>1, <3>2
    <2>2. q = [j \in 1..n |-> q[j]]  BY <1>12
    <2> QED BY <2>1, <2>2
  <1>14. PICK b : b = [j \in 1..d |-> <<>>[After(n, j)]]  OBVIOUS
  <1>15. b = <<>>  BY <1>5, <1>14
  <1>16. q \o b = q  BY <1>12, <1>15
  <1>17. PICK o : o = [x \in (DOMAIN <<>>) \ {After(n, j) : j \in 1..d} |-> <<>>[x]]  OBVIOUS
  <1>18. o = <<>>  BY <1>17
  <1>19. t = [recv_packet_number |-> After(n, d), recv_packets |-> q \o b,
              out_of_order_packets |-> o]
    BY <1>2, <1>3, <1>4, <1>7, <1>11, <1>14, <1>17 DEF Accepted
  <1> QED BY <1>6, <1>13, <1>16, <1>18, <1>19 DEF StreamOf


\* The packet that comes next is received, held or lost.
LEMMA CameNext ==
  ASSUME NEW s, NEW r, NEW u, NEW l \in Nat, l + 1 <= MaxPackets, Came(r, u, s, l),
         NEW n, n = l + 1, NEW packet, packet = <<s, n>>, NEW t, NEW w,
         \/ t \in PacketReceived(r, n, packet) /\ w = u
         \/ t = r /\ w = u \cup {packet}
  PROVE  Came(t, w, s, n)
  <1>1. CASE t = r /\ w = u \cup {packet}
    BY <1>1, CameLost
  <1>2. CASE t \in PacketReceived(r, n, packet) /\ w = u
    <2>a. PICK k \in 0..l, D \in SUBSET Nat : HasCome(r, u, s, l, k, D)  BY CameFields
    <2>1. /\ D = {j \in (k + 1)..l : <<s, j>> \notin u}
          /\ r = [recv_packet_number |-> k, recv_packets |-> [j \in 1..k |-> <<s, j>>],
                  out_of_order_packets |-> [j \in D |-> <<s, j>>]]
          /\ u \subseteq {<<s, j>> : j \in (k + 1)..l}
          /\ k < l => <<s, k + 1>> \in u
      BY <2>a DEF HasCome
    <2>2. CASE k < l
      BY <1>2, <2>1, <2>2, CameHeld
    <2>3. CASE k = l
      <3>1. D = {} /\ u = {}
        <4>1. (k + 1)..l = {}  BY <2>3
        <4> QED BY <2>1, <4>1
      <3>2. [j \in D |-> <<s, j>>] = <<>>  BY ONLY <3>1, NoFunction
      <3>3. r = StreamOf(s, l)  BY <2>1, <2>3, <3>2 DEF StreamOf
      <3>4. t = StreamOf(s, n)  BY <1>2, <3>3, NextTaken
      <3>5. PICK E : E = {j \in (n + 1)..n : <<s, j>> \notin w}  OBVIOUS
      <3>6. E = {} /\ w = {} /\ n \in 0..n  BY <1>2, <3>1, <3>5
      <3>7. [j \in E |-> <<s, j>>] = <<>>  BY ONLY <3>6, NoFunction
      <3>8. t = [recv_packet_number |-> n, recv_packets |-> [j \in 1..n |-> <<s, j>>],
                 out_of_order_packets |-> [j \in E |-> <<s, j>>]]
        BY <3>4, <3>7 DEF StreamOf
      <3>9. w \subseteq {<<s, j>> : j \in (n + 1)..n} /\ (n < n => <<s, n + 1>> \in w)
        BY <3>6
      <3>10. t = [recv_packet_number |-> n, recv_packets |-> [j \in 1..n |-> <<s, j>>],
                  out_of_order_packets |->
                    [j \in {i \in (n + 1)..n : <<s, i>> \notin w} |-> <<s, j>>]]
        BY <3>5, <3>8
      <3> QED BY <3>6, <3>9, <3>10 DEF Came
    <2> QED BY <2>1, <2>2, <2>3
  <1> QED BY <1>1, <1>2

-----------------------------------------------------------------------------
(* The pipe: an index that a step leaves as it was.                        *)

\* What was in turn at q is in turn at p after the step.
Kept(i, s, q, p) == Turn(i, s, q) => Turn(i, s, p)'

\* Every message of the index is in its turn if it was, and none of a session is before.
TurnsKept(i) ==
  /\ \A s \in Sessions(i)' : \A p \in About(s, to_client') :
       Turn(i, s, p)' \/ \E q \in About(s, to_client) : s \in Sessions(i) /\ Kept(i, s, q, p)
  /\ \A s \in Sessions(i) : NothingBefore(i, s) => NothingBefore(i, s)'

\* The streams of the index have what they had on its way.
NumbersKept(i) ==
  \A s \in Sessions(i) : \A k \in Nat : Numbered(s, k) => Numbered(s, k)'

\* The turns are kept when no session of the index opens.
LEMMA InTurnKept ==
  ASSUME NEW i, InTurn(i), TurnsKept(i), Sessions(i)' = Sessions(i),
         \A s \in Sessions(i) :
           /\ sessions'[s].open => sessions[s].open
           /\ sessions'[s].replied \/ sessions'[s].open
           /\ Status(s)' = "pending" /\ sessions'[s].replied => Replies(s, to_client') # {}
  PROVE  InTurn(i)'
  <1> SUFFICES ASSUME NEW s \in Sessions(i)
               PROVE  /\ sessions'[s].open => \A t \in Sessions(i)' : ~(s < t)
                      /\ sessions'[s].replied \/ sessions'[s].open
                      /\ Status(s)' = "pending" /\ sessions'[s].replied =>
                           Replies(s, to_client') # {}
                      /\ \A p \in About(s, to_client') : Turn(i, s, p)'
    BY DEF InTurn
  <1>1. /\ sessions[s].open => \A t \in Sessions(i) : ~(s < t)
        /\ \A p \in About(s, to_client) : Turn(i, s, p)
    BY DEF InTurn
  <1>2. \A p \in About(s, to_client') : Turn(i, s, p)'
    BY <1>1 DEF TurnsKept, Kept
  <1> QED BY <1>1, <1>2

\* The entry is kept with its session.
LEMMA EntriesKept ==
  ASSUME NEW i, Entries(i), TurnsKept(i),
         \A s \in Sessions(i) : Kept(i, s, 0, 0),
         EndpointsOf(i)' = EndpointsOf(i),
         \A e \in EndpointsOf(i) : /\ Routed(e)' <=> Routed(e)
                                   /\ e \in Live' => e \in Live
                                   /\ endpoints'[e].session = endpoints[e].session,
         \A e \in EndpointsOf(i) : Routed(e) => endpoints[e].session \in Sessions(i),
         \A s \in Sessions(i)' :
           Status(s)' = "connected" /\ (sessions'[s].open \/ About(s, to_client') # {}) =>
             /\ s \in Sessions(i) /\ Status(s) = "connected"
             /\ sessions[s].open \/ About(s, to_client) # {}
  PROVE  Entries(i)'
  <1>1. ASSUME NEW e \in EndpointsOf(i), NEW s, Routed(e), endpoints[e].session = s
        PROVE  Turn(i, s, 0)' /\ NothingBefore(i, s)'
    <2>1. s \in Sessions(i)  BY <1>1
    <2>2. Turn(i, s, 0) /\ NothingBefore(i, s)  BY <1>1, <2>1 DEF Entries
    <2> QED BY <2>1, <2>2 DEF TurnsKept, Kept
  <1>2. \A e \in EndpointsOf(i) : e \in Live' => Routed(e)'
    BY DEF Entries
  <1>3. ASSUME NEW s \in Sessions(i)', Status(s)' = "connected",
               sessions'[s].open \/ About(s, to_client') # {}
        PROVE  \E e \in EndpointsOf(i) : Routed(e)' /\ endpoints'[e].session = s
    <2>1. PICK e \in EndpointsOf(i) : Routed(e) /\ endpoints[e].session = s
      BY <1>3 DEF Entries
    <2> QED BY <2>1
  <1> QED BY <1>1, <1>2, <1>3 DEF Entries

\* The streams are kept with their endpoints and sessions; early endpoints may all go when
\* no connect is pending.
LEMMA StreamsKept ==
  ASSUME NEW i, Streams(i), TurnsKept(i), shut_down => shut_down',
         ~shut_down' => NumbersKept(i),
         Sessions(i) \subseteq Sessions(i)',
         \A s \in Sessions(i)' : Status(s)' = "pending" =>
           \/ Numbered(s, 0)'
           \/ s \in Sessions(i) /\ Status(s) = "pending",
         EndpointsOf(i)' = EndpointsOf(i),
         \A e \in EndpointsOf(i) : /\ endpoints'[e].receiver = endpoints[e].receiver
                                   /\ endpoints'[e].undecoded = endpoints[e].undecoded
                                   /\ endpoints'[e].session = endpoints[e].session
                                   /\ endpoints'[e].unreliable = endpoints[e].unreliable
                                   /\ e \in Live' => e \in Live,
         \/ /\ \A e \in EndpointsOf(i) : IsEarly(e)' <=> IsEarly(e)
            /\ \A s \in Sessions(i) : Status(s) = "pending" => Status(s)' = "pending"
         \/ /\ \A e \in EndpointsOf(i) : ~IsEarly(e)'
            /\ \A s \in Sessions(i)' : Status(s)' # "pending"
  PROVE  Streams(i)'
  <1>1. MaxPackets \in Nat  BY BoundsAssumption
  <1>2. ASSUME NEW e \in EndpointsOf(i), NEW s, NEW k, InStream(e, s, k)
        PROVE  InStream(e, s, k)'
    BY <1>2 DEF InStream
  <1>3. ASSUME NEW e \in EndpointsOf(i), IsEarly(e)'
        PROVE  \E s \in Sessions(i)', k \in 1..MaxPackets :
                 /\ InStream(e, s, k)' /\ Status(s)' = "pending"
                 /\ NothingBefore(i, s)' /\ (~shut_down' => Numbered(s, k)')
    <2>1. IsEarly(e)  BY <1>3
    <2>2. PICK s \in Sessions(i), k \in 1..MaxPackets :
            /\ InStream(e, s, k) /\ Status(s) = "pending"
            /\ NothingBefore(i, s) /\ (~shut_down => Numbered(s, k))
      BY <2>1 DEF Streams
    <2>3. Status(s)' = "pending"  BY <1>3, <2>2
    <2>4. ~shut_down' => Numbered(s, k)'
      <3>1. k \in Nat  BY <1>1
      <3> QED BY <2>2, <3>1 DEF NumbersKept
    <2> QED BY <1>2, <2>2, <2>3, <2>4 DEF TurnsKept
  <1>4. ASSUME NEW s \in Sessions(i)', ~shut_down', Status(s)' = "pending"
        PROVE  \/ Numbered(s, 0)'
               \/ \E e \in EndpointsOf(i), k \in 1..MaxPackets :
                    IsEarly(e)' /\ InStream(e, s, k)'
    <2> SUFFICES ASSUME ~Numbered(s, 0)'
                 PROVE  \E e \in EndpointsOf(i), k \in 1..MaxPackets :
                          IsEarly(e)' /\ InStream(e, s, k)'
      OBVIOUS
    <2>1. s \in Sessions(i) /\ Status(s) = "pending" /\ ~shut_down  BY <1>4
    <2>2. ~Numbered(s, 0)  BY <1>4, <2>1 DEF NumbersKept
    <2>3. PICK e \in EndpointsOf(i), k \in 1..MaxPackets : IsEarly(e) /\ InStream(e, s, k)
      BY <2>1, <2>2 DEF Streams
    <2> QED BY <1>2, <1>4, <2>3
  <1>5. ASSUME NEW e \in EndpointsOf(i), e \in Live', ~endpoints'[e].unreliable
        PROVE  \E s \in Sessions(i)', k \in 0..MaxPackets :
                 /\ endpoints'[e].session = s /\ InStream(e, s, k)'
                 /\ ~shut_down' => Numbered(s, k)'
    <2>1. PICK s \in Sessions(i), k \in 0..MaxPackets :
            /\ endpoints[e].session = s /\ InStream(e, s, k)
            /\ ~shut_down => Numbered(s, k)
      BY <1>5 DEF Streams
    <2>2. ~shut_down' => Numbered(s, k)'
      <3>1. k \in Nat  BY <1>1
      <3> QED BY <2>1, <3>1 DEF NumbersKept
    <2> QED BY <1>2, <2>1, <2>2
  <1> QED BY <1>3, <1>4, <1>5 DEF Streams

\* What was behind q in the queue is behind p in what is left of it.
LEMMA KeptByRest ==
  ASSUME IsRest(to_client, to_client'), sessions' = sessions, NEW i, NEW s,
         NEW p \in Nat, NEW q \in Nat,
         q = p + 1 \/ (q = 0 /\ p = 0 /\ 1 \notin Closings(i, to_client))
  PROVE  Kept(i, s, q, p)
  <1> SUFFICES ASSUME Turn(i, s, q) PROVE Turn(i, s, p)'
    BY DEF Kept
  <1>1. \A r \in Closings(i, to_client) : q < r => r - 1 \in Closings(i, to_client') /\ p < r - 1
    <2> SUFFICES ASSUME NEW r \in Closings(i, to_client), q < r
                 PROVE  r - 1 \in Closings(i, to_client') /\ p < r - 1
      OBVIOUS
    <2>1. r \in Nat /\ 1 =< r /\ (r # 1 => r - 1 \in Closings(i, to_client'))  BY PipeRest
    <2>2. r # 1 /\ p < r - 1  BY <2>1
    <2> QED BY <2>1, <2>2
  <1>2. \A r \in Closings(i, to_client') :
          r \in Nat /\ r + 1 \in Closings(i, to_client) /\ (p < r => q < r + 1)
    BY PipeRest
  <1>3. \A t : \A x \in About(t, to_client') : x \in Nat /\ x + 1 \in About(t, to_client)
    BY PipeRest
  <1>4. Sessions(i)' = Sessions(i)  BY DEF Sessions
  <1>5. ASSUME NEW t \in Sessions(i), s < t
        PROVE  \E r \in Closings(i, to_client') : p < r /\ \A x \in About(t, to_client') : r < x
    <2>1. PICK r \in Closings(i, to_client) : q < r /\ \A x \in About(t, to_client) : r < x
      BY <1>5 DEF Turn
    <2>2. r \in Nat /\ r - 1 \in Closings(i, to_client') /\ p < r - 1  BY <1>1, <2>1, PipeRest
    <2>3. \A x \in About(t, to_client') : r - 1 < x  BY <1>3, <2>1, <2>2
    <2> QED BY <2>2, <2>3
  <1>6. (\A r \in Closings(i, to_client) : ~(q < r)) <=> (\A r \in Closings(i, to_client') : ~(p < r))
    BY <1>1, <1>2
  <1>7. sessions[s].open <=> \A r \in Closings(i, to_client) : ~(q < r)
    BY DEF Turn
  <1>8. ASSUME NEW r \in Closings(i, to_client'), NEW x \in About(s, to_client'), p < r
        PROVE  ~(r < x)
    <2>1. ~(q < r + 1 /\ r + 1 < x + 1)  BY <1>2, <1>3 DEF Turn
    <2> QED BY <1>2, <1>3, <1>8, <2>1
  <1>9. sessions'[s].open <=> \A r \in Closings(i, to_client') : ~(p < r)
    BY <1>6, <1>7
  <1> QED BY <1>4, <1>5, <1>8, <1>9 DEF Turn

\* When a message was taken the turns stay, and a stream of which it was no packet.
LEMMA RestKeeps ==
  ASSUME IsRest(to_client, to_client'), sessions' = sessions, NEW i
  PROVE  /\ TurnsKept(i)
         /\ 1 \notin Closings(i, to_client) => \A s \in Sessions(i) : Kept(i, s, 0, 0)
         /\ \A s : 1 \notin Packets(s, to_client) =>
              \A k \in Nat : Numbered(s, k) => Numbered(s, k)'
  <1>1. Sessions(i)' = Sessions(i)  BY DEF Sessions
  <1>2. ASSUME NEW s \in Sessions(i), NEW p \in About(s, to_client')
        PROVE  \E q \in About(s, to_client) : Kept(i, s, q, p)
    <2>1. p \in Nat /\ p + 1 \in About(s, to_client)  BY PipeRest
    <2>2. Kept(i, s, p + 1, p)
      <3>1. PICK q : q = p + 1 /\ q \in Nat  BY <2>1
      <3> QED BY <2>1, <3>1, KeptByRest
    <2> QED BY <2>1, <2>2
  <1>3. ASSUME NEW s \in Sessions(i), NothingBefore(i, s) PROVE NothingBefore(i, s)'
    <2>1. \A t : About(t, to_client) = {} => About(t, to_client') = {}  BY PipeRest
    <2> QED BY <1>1, <1>3, <2>1 DEF NothingBefore
  <1>4. ASSUME NEW s, 1 \notin Packets(s, to_client), NEW k \in Nat, Numbered(s, k)
        PROVE  Numbered(s, k)'
    <2>1. \A p \in Packets(s, to_client') :
            p \in Nat /\ p + 1 \in Packets(s, to_client) /\ to_client'[p] = to_client[p + 1]
      BY PipeRest
    <2>2. \A p \in Packets(s, to_client) :
            p \in Nat /\ p - 1 \in Packets(s, to_client') /\ to_client'[p - 1] = to_client[p]
      BY <1>4, PipeRest
    <2>3. ASSUME NEW p \in Packets(s, to_client')
          PROVE  /\ k < to_client'[p].packetnum /\ to_client'[p].packetnum <= sessions[s].sent
                 /\ \A q \in Packets(s, to_client') :
                      p < q => to_client'[p].packetnum < to_client'[q].packetnum
      <3>1. p \in Nat /\ p + 1 \in Packets(s, to_client) /\ to_client'[p] = to_client[p + 1]
        BY <2>1
      <3>2. /\ k < to_client[p + 1].packetnum /\ to_client[p + 1].packetnum <= sessions[s].sent
            /\ \A q \in Packets(s, to_client) :
                 p + 1 < q => to_client[p + 1].packetnum < to_client[q].packetnum
        BY <1>4, <3>1 DEF Numbered
      <3>3. ASSUME NEW q \in Packets(s, to_client'), p < q
            PROVE  to_client'[p].packetnum < to_client'[q].packetnum
        <4>1. q \in Nat /\ q + 1 \in Packets(s, to_client) /\ to_client'[q] = to_client[q + 1]
          BY <2>1
        <4>2. p + 1 < q + 1  BY <3>1, <3>3, <4>1
        <4> QED BY <3>1, <3>2, <4>1, <4>2
      <3> QED BY <3>1, <3>2, <3>3
    <2>4. ASSUME NEW n \in (k + 1)..sessions[s].sent
          PROVE  \E p \in Packets(s, to_client') : to_client'[p].packetnum = n
      <3>1. PICK p \in Packets(s, to_client) : to_client[p].packetnum = n
        BY <1>4 DEF Numbered
      <3> QED BY <2>2, <3>1
    <2>5. k <= sessions[s].sent  BY <1>4 DEF Numbered
    <2> QED BY <2>3, <2>4, <2>5 DEF Numbered
  <1>5. 1 \notin Closings(i, to_client) => \A s \in Sessions(i) : Kept(i, s, 0, 0)
    <2>1. PICK p : p = 0 /\ p \in Nat  OBVIOUS
    <2> QED BY <2>1, KeptByRest
  <1> QED BY <1>1, <1>2, <1>3, <1>4, <1>5 DEF TurnsKept

\* The step leaves the sessions of the index as they were.
SessionsStay(i) == /\ Sessions(i)' = Sessions(i)
                   /\ \A s \in Sessions(i) : sessions'[s] = sessions[s]

\* When nothing was taken or sent, turns and streams stay.
LEMMA SameKeeps ==
  ASSUME to_client' = to_client, NEW i, SessionsStay(i)
  PROVE  /\ TurnsKept(i) /\ NumbersKept(i)
         /\ \A s \in Sessions(i) : Kept(i, s, 0, 0)
  <1>1. \A s \in Sessions(i) : \A p : Kept(i, s, p, p)
    BY DEF Kept, Turn, SessionsStay
  <1>2. \A s \in Sessions(i) : \A k : Numbered(s, k) => Numbered(s, k)'
    BY DEF Numbered, SessionsStay
  <1>3. \A s \in Sessions(i) : NothingBefore(i, s) => NothingBefore(i, s)'
    BY DEF NothingBefore, SessionsStay
  <1> QED BY <1>1, <1>2, <1>3 DEF TurnsKept, NumbersKept, SessionsStay

\* Message m is about session s; it closes what is at index i.
IsAbout(m, s) == m.type \in {"PipeConnectRet", "PipePacket"} /\ m.session = s
IsClosing(m, i) == m.type = "PipeClosed" /\ m.index = i

\* The message sent is about no session of the index but the open one, after which there
\* is none, or closes all of them.
Follows(m, i) ==
  /\ Sessions(i)' = Sessions(i)
  /\ \A s \in Sessions(i) :
       /\ IsAbout(m, s) => sessions[s].open /\ \A t \in Sessions(i) : ~(s < t)
       /\ IF IsClosing(m, i) THEN ~sessions'[s].open
                             ELSE sessions'[s].open <=> sessions[s].open

\* What is behind a message stays when another one is sent.
LEMMA KeptByMore ==
  ASSUME NEW m, IsMore(to_client, m, to_client'), NEW i, Follows(m, i), NEW s \in Sessions(i),
         NEW n, n = Len(to_client) + 1, NEW p, p < n
  PROVE  Kept(i, s, p, p)
  <1> SUFFICES ASSUME Turn(i, s, p) PROVE Turn(i, s, p)'
    BY DEF Kept
  <1>1. \A r \in Closings(i, to_client) : r \in Nat /\ r < n /\ r \in Closings(i, to_client')
    BY PipeMore
  <1>2. \A r \in Closings(i, to_client') :
          r \in Closings(i, to_client) \/ (r = n /\ IsClosing(m, i))
    BY PipeMore DEF IsClosing
  <1>3. IsClosing(m, i) => n \in Closings(i, to_client')
    BY PipeMore DEF IsClosing
  <1>4. \A t : \A x \in About(t, to_client') :
          (x \in About(t, to_client) /\ x \in Nat /\ x < n) \/ (x = n /\ IsAbout(m, t))
    <2> SUFFICES ASSUME NEW t, NEW x \in About(t, to_client')
                 PROVE  (x \in About(t, to_client) /\ x \in Nat /\ x < n)
                          \/ (x = n /\ IsAbout(m, t))
      OBVIOUS
    <2>1. x \in Replies(t, to_client') \/ x \in Packets(t, to_client')  BY DEF About
    <2>2. x \in About(t, to_client) => x \in Nat /\ x < n  BY PipeMore
    <2>3. \/ x \in Replies(t, to_client) \/ x \in Packets(t, to_client)
          \/ x = n /\ IsAbout(m, t)
      BY <2>1, PipeMore DEF IsAbout
    <2> QED BY <2>2, <2>3 DEF About
  <1>5. n \in Nat  BY PipeMore
  <1>6. ASSUME NEW t \in Sessions(i), s < t
        PROVE  \E r \in Closings(i, to_client') : p < r /\ \A x \in About(t, to_client') : r < x
    <2>1. PICK r \in Closings(i, to_client) : p < r /\ \A x \in About(t, to_client) : r < x
      BY <1>6 DEF Turn
    <2>2. r < n /\ r \in Closings(i, to_client')  BY <1>1
    <2>3. \A x \in About(t, to_client') : r < x  BY <1>4, <2>1, <2>2
    <2> QED BY <2>1, <2>2, <2>3
  <1>7. sessions'[s].open <=> \A r \in Closings(i, to_client') : ~(p < r)
    <2>1. CASE IsClosing(m, i)
      BY <1>3, <2>1 DEF Follows
    <2>2. CASE ~IsClosing(m, i)
      <3>1. sessions[s].open <=> \A r \in Closings(i, to_client) : ~(p < r)  BY DEF Turn
      <3>2. sessions'[s].open <=> sessions[s].open  BY <2>2 DEF Follows
      <3>3. Closings(i, to_client') = Closings(i, to_client)  BY <1>1, <1>2, <2>2
      <3> QED BY <3>1, <3>2, <3>3
    <2> QED BY <2>1, <2>2
  <1>8. ASSUME NEW r \in Closings(i, to_client'), NEW x \in About(s, to_client'), p < r
        PROVE  ~(r < x)
    <2>1. CASE r = n
      BY <1>4, <1>5, <2>1
    <2>2. CASE r \in Closings(i, to_client) /\ x \in About(s, to_client)
      BY <1>8, <2>2 DEF Turn
    <2>3. CASE r \in Closings(i, to_client) /\ IsAbout(m, s)
      <3>1. sessions[s].open  BY <2>3 DEF Follows
      <3> QED BY <1>8, <2>3, <3>1 DEF Turn
    <2> QED BY <1>2, <1>4, <2>1, <2>2, <2>3
  <1>9. Sessions(i)' = Sessions(i)  BY DEF Follows
  <1> QED BY <1>6, <1>7, <1>8, <1>9 DEF Turn

\* The message sent is in its turn, and so are those before it.
LEMMA MoreKeeps ==
  ASSUME NEW m, IsMore(to_client, m, to_client'), NEW i, Follows(m, i)
  PROVE  /\ TurnsKept(i)
         /\ \A s \in Sessions(i) : Kept(i, s, 0, 0)
  <1>1. PICK n : n = Len(to_client) + 1  OBVIOUS
  <1>2. n \in Nat /\ n >= 1  BY <1>1, PipeMore
  <1>3. \A r \in Closings(i, to_client') : r \in Nat /\ ~(n < r)
    BY <1>1, <1>2, PipeMore
  <1>4. ASSUME NEW s \in Sessions(i), NEW x \in About(s, to_client')
        PROVE  \/ x \in About(s, to_client) /\ x < n
               \/ x = n /\ IsAbout(m, s)
    <2>1. x \in Replies(s, to_client') \/ x \in Packets(s, to_client')  BY DEF About
    <2>2. x \in About(s, to_client) => x \in Nat /\ x < n  BY <1>1, PipeMore
    <2>3. \/ x \in Replies(s, to_client) \/ x \in Packets(s, to_client)
          \/ x = n /\ IsAbout(m, s)
      BY <1>1, <2>1, PipeMore DEF IsAbout
    <2> QED BY <2>2, <2>3 DEF About
  <1>5. ASSUME NEW s \in Sessions(i), IsAbout(m, s)
        PROVE  Turn(i, s, n)'
    <2>1. sessions[s].open /\ \A t \in Sessions(i) : ~(s < t)  BY <1>5 DEF Follows
    <2>2. ~IsClosing(m, i)  BY <1>5 DEF IsClosing, IsAbout
    <2>3. sessions'[s].open /\ Sessions(i)' = Sessions(i)  BY <2>1, <2>2 DEF Follows
    <2> QED BY <1>3, <2>1, <2>3 DEF Turn
  <1>6. ASSUME NEW s \in Sessions(i), NEW x \in About(s, to_client')
        PROVE  Turn(i, s, x)' \/ \E q \in About(s, to_client) : Kept(i, s, q, x)
    <2>1. CASE x \in About(s, to_client) /\ x < n
      BY <1>1, <2>1, KeptByMore
    <2>2. CASE x = n /\ IsAbout(m, s)
      BY <1>5, <2>2
    <2> QED BY <1>4, <2>1, <2>2
  <1>7. ASSUME NEW s \in Sessions(i), NothingBefore(i, s) PROVE NothingBefore(i, s)'
    <2>1. ASSUME NEW t \in Sessions(i), t < s PROVE About(t, to_client') = {}
      <3>1. About(t, to_client) = {}  BY <1>7, <2>1 DEF NothingBefore
      <3>2. ~IsAbout(m, t)  BY <2>1 DEF Follows
      <3> QED BY <1>4, <3>1, <3>2
    <2> QED BY <2>1 DEF NothingBefore, Follows
  <1>8. \A s \in Sessions(i) : Kept(i, s, 0, 0)
    <2>1. PICK p : p = 0 /\ p < n  BY <1>2
    <2> QED BY <1>1, <2>1, KeptByMore
  <1> QED BY <1>6, <1>7, <1>8 DEF TurnsKept, Follows

\* The stream of which the message sent is no packet, or the next.
LEMMA NumberedMore ==
  ASSUME NEW m, IsMore(to_client, m, to_client'), NEW s, NEW k \in Nat, Numbered(s, k),
         sessions[s].sent \in Nat,
         \A p \in Packets(s, to_client) : to_client[p].packetnum \in Nat,
         \/ /\ ~(m.type = "PipePacket" /\ m.session = s)
            /\ sessions'[s].sent = sessions[s].sent
         \/ /\ m.type = "PipePacket" /\ m.session = s
            /\ sessions'[s].sent = sessions[s].sent + 1
            /\ m.packetnum = sessions[s].sent + 1
  PROVE  Numbered(s, k)'
  <1>1. PICK n : n = Len(to_client) + 1  OBVIOUS
  <1>2. PICK a \in Nat : a = sessions[s].sent  OBVIOUS
  <1>3. PICK b \in Nat : /\ b = sessions'[s].sent
                         /\ \/ b = a /\ ~(m.type = "PipePacket" /\ m.session = s)
                            \/ /\ b = a + 1 /\ m.type = "PipePacket" /\ m.session = s
                               /\ m.packetnum = b
    BY <1>2
  <1>4. /\ k <= a
        /\ \A p \in Packets(s, to_client) :
             /\ k < to_client[p].packetnum /\ to_client[p].packetnum <= a
             /\ \A q \in Packets(s, to_client) :
                  p < q => to_client[p].packetnum < to_client[q].packetnum
        /\ \A x \in (k + 1)..a : \E p \in Packets(s, to_client) : to_client[p].packetnum = x
    BY <1>2 DEF Numbered
  <1>5. /\ n \in Nat /\ to_client'[n] = m
        /\ \A p \in Packets(s, to_client) :
             p \in Nat /\ p < n /\ p \in Packets(s, to_client') /\ to_client'[p] = to_client[p]
        /\ \A p \in Packets(s, to_client') :
             p \in Packets(s, to_client) \/ (p = n /\ m.type = "PipePacket" /\ m.session = s)
        /\ m.type = "PipePacket" /\ m.session = s => n \in Packets(s, to_client')
    BY <1>1, PipeMore
  <1>6. ASSUME NEW p \in Packets(s, to_client')
        PROVE  k < to_client'[p].packetnum /\ to_client'[p].packetnum <= b
    <2>1. CASE p \in Packets(s, to_client)
      <3>1. PICK x : x = to_client[p].packetnum /\ x = to_client'[p].packetnum  BY <1>5, <2>1
      <3>2. k < x /\ x <= a  BY <1>4, <2>1, <3>1
      <3>3. x \in Nat  BY <2>1, <3>1
      <3> QED BY <1>2, <1>3, <3>1, <3>2, <3>3
    <2>2. CASE p = n /\ m.type = "PipePacket" /\ m.session = s
      <3>1. to_client'[p].packetnum = b /\ b = a + 1  BY <1>3, <1>5, <2>2
      <3> QED BY <1>4, <3>1
    <2> QED BY <1>5, <2>1, <2>2
  <1>7. ASSUME NEW p \in Packets(s, to_client'), NEW q \in Packets(s, to_client'), p < q
        PROVE  to_client'[p].packetnum < to_client'[q].packetnum
    <2>1. CASE p \in Packets(s, to_client) /\ q \in Packets(s, to_client)
      BY <1>4, <1>5, <1>7, <2>1
    <2>2. CASE /\ p \in Packets(s, to_client)
               /\ q = n /\ m.type = "PipePacket" /\ m.session = s
      <3>1. to_client'[q].packetnum = b /\ b = a + 1  BY <1>3, <1>5, <2>2
      <3>2. PICK x \in Nat : x = to_client'[p].packetnum /\ x <= a  BY <1>4, <1>5, <2>2
      <3> QED BY <3>1, <3>2
    <2>3. CASE p = n
      BY <1>5, <1>7, <2>3
    <2> QED BY <1>5, <2>1, <2>2, <2>3
  <1>8. ASSUME NEW x \in (k + 1)..b
        PROVE  \E p \in Packets(s, to_client') : to_client'[p].packetnum = x
    <2>1. CASE x <= a
      <3>1. PICK p \in Packets(s, to_client) : to_client[p].packetnum = x  BY <1>4, <2>1
      <3> QED BY <1>5, <3>1
    <2>2. CASE ~(x <= a)
      <3>1. x = b /\ b = a + 1 /\ m.packetnum = b /\ m.type = "PipePacket" /\ m.session = s
        BY <1>3, <2>2
      <3> QED BY <1>5, <3>1
    <2> QED BY <2>1, <2>2
  <1>9. k <= b  BY <1>3, <1>4
  <1> QED BY <1>3, <1>6, <1>7, <1>8, <1>9 DEF Numbered

\* An endpoint that a caller got has a session of its index, which is connected.
LEMMA HandedSession ==
  ASSUME PipeTypes, NEW i \in Indices, NEW e \in EndpointsOf(i),
         Routed(e) \/ endpoints[e].handed \/ e \in Live
  PROVE  /\ endpoints[e].handed /\ endpoints[e].session \in Sessions(i)
         /\ Status(endpoints[e].session) = "connected"
  <1>1. endpoints[e].handed  BY DEF PipeTypes, TablesTyped, EndpointsOf, Routed, Live
  <1>2. e \in DOMAIN endpoints /\ endpoints[e].index = i  BY DEF EndpointsOf
  <1>3. /\ endpoints[e].session \in DOMAIN sessions
        /\ sessions[endpoints[e].session].index = i
        /\ attempts[sessions[endpoints[e].session].key] = "connected"
    BY <1>1, <1>2 DEF PipeTypes, EndpointsTyped
  <1> QED BY <1>1, <1>3 DEF Sessions, Status

\* The step leaves the endpoints of the index and its entry as they were.
EndpointsStay(i) ==
  /\ EndpointsOf(i)' = EndpointsOf(i)
  /\ \A e \in EndpointsOf(i) : endpoints'[e] = endpoints[e] /\ (Routed(e)' <=> Routed(e))

\* It leaves the early endpoint of the index, or removes it when nobody waits.
EarlyStays(i) ==
  \/ \A e \in EndpointsOf(i) : IsEarly(e)' <=> IsEarly(e)
  \/ /\ \A e \in EndpointsOf(i) : ~IsEarly(e)'
     /\ \A s \in Sessions(i) : Status(s)' # "pending"

\* It brings no first message of a session of the index, nor takes a reply awaited.
MessagesStay(i) ==
  \A s \in Sessions(i) :
    /\ About(s, to_client') # {} => About(s, to_client) # {}
    /\ Status(s) = "pending" /\ Replies(s, to_client) # {} => Replies(s, to_client') # {}

\* The invariant of an index that the step does not touch.
LEMMA IndexKept ==
  ASSUME PipeTypes, NEW i \in Indices, IndexInv(i), TurnsKept(i), NumbersKept(i), SessionsStay(i),
         \A s \in Sessions(i) : Kept(i, s, 0, 0) /\ Status(s)' = Status(s),
         EndpointsStay(i), EarlyStays(i), MessagesStay(i), shut_down' = shut_down
  PROVE  IndexInv(i)'
  <1>1. /\ Sessions(i)' = Sessions(i) /\ \A s \in Sessions(i) : sessions'[s] = sessions[s]
        /\ EndpointsOf(i)' = EndpointsOf(i)
        /\ \A e \in EndpointsOf(i) : endpoints'[e] = endpoints[e] /\ (Routed(e)' <=> Routed(e))
    BY DEF SessionsStay, EndpointsStay
  <1>2. \A e \in EndpointsOf(i) : e \in Live' => e \in Live
    BY <1>1 DEF Live, EndpointsOf
  <1>3. InTurn(i)'
    <2>1. \A s \in Sessions(i) :
            /\ sessions'[s].open => sessions[s].open
            /\ sessions'[s].replied \/ sessions'[s].open
            /\ Status(s)' = "pending" /\ sessions'[s].replied => Replies(s, to_client') # {}
      BY <1>1 DEF IndexInv, InTurn, MessagesStay
    <2> QED BY <1>1, <2>1, InTurnKept DEF IndexInv
  <1>4. ~shut_down => Entries(i)'
    <2>1. \A e \in EndpointsOf(i) : Routed(e) => endpoints[e].session \in Sessions(i)
      BY HandedSession
    <2>2. \A s \in Sessions(i)' :
            Status(s)' = "connected" /\ (sessions'[s].open \/ About(s, to_client') # {}) =>
              /\ s \in Sessions(i) /\ Status(s) = "connected"
              /\ sessions[s].open \/ About(s, to_client) # {}
      BY <1>1 DEF MessagesStay
    <2>3. \A e \in EndpointsOf(i) : /\ Routed(e)' <=> Routed(e)
                                    /\ e \in Live' => e \in Live
                                    /\ endpoints'[e].session = endpoints[e].session
      BY <1>1, <1>2
    <2>4. \A s \in Sessions(i) : Kept(i, s, 0, 0)  OBVIOUS
    <2>5. ~shut_down => Entries(i)  BY DEF IndexInv
    <2> QED BY <1>1, <2>1, <2>2, <2>3, <2>4, <2>5, EntriesKept
  <1>5. Streams(i)'
    <2>1. /\ Sessions(i) \subseteq Sessions(i)'
          /\ \A s \in Sessions(i)' : Status(s)' = "pending" =>
               \/ Numbered(s, 0)'
               \/ s \in Sessions(i) /\ Status(s) = "pending"
      BY <1>1
    <2>2. \A e \in EndpointsOf(i) : /\ endpoints'[e].receiver = endpoints[e].receiver
                                    /\ endpoints'[e].undecoded = endpoints[e].undecoded
                                    /\ endpoints'[e].session = endpoints[e].session
                                    /\ endpoints'[e].unreliable = endpoints[e].unreliable
                                    /\ e \in Live' => e \in Live
      BY <1>1, <1>2
    <2>3. \/ /\ \A e \in EndpointsOf(i) : IsEarly(e)' <=> IsEarly(e)
             /\ \A s \in Sessions(i) : Status(s) = "pending" => Status(s)' = "pending"
          \/ /\ \A e \in EndpointsOf(i) : ~IsEarly(e)'
             /\ \A s \in Sessions(i)' : Status(s)' # "pending"
      BY <1>1 DEF EarlyStays
    <2>4. Streams(i)  BY DEF IndexInv
    <2> QED BY <1>1, <2>1, <2>2, <2>3, <2>4, StreamsKept
  <1> QED BY <1>3, <1>4, <1>5 DEF IndexInv

-----------------------------------------------------------------------------
(* The pipe: a connect is asked for.                                       *)

\* A connect sends a request with a new key and waits for it.
LEMMA AsyncConnectTypes ==
  ASSUME PipeTypes, AsyncConnect
  PROVE  /\ PipeTypes'
         /\ \A k \in DOMAIN attempts : k \in DOMAIN attempts' /\ attempts'[k] = attempts[k]
         /\ \E index \in Indices \cup {ANY_INDEX}, key \in Keys :
              /\ key \notin DOMAIN attempts /\ attempts'[key] = "pending"
              /\ connecting_endpoints' = connecting_endpoints \cup {[key |-> key, index |-> index]}
              /\ IsMore(to_service, [type |-> "PipeConnectReq", key |-> key, index |-> index],
                        to_service')
  <1>1. PICK index \in Indices \cup {ANY_INDEX}, key \in {Len(attempts) + 1} :
          /\ Len(attempts) < MaxConnects /\ key = Len(attempts) + 1
          /\ attempts' = Append(attempts, "pending")
          /\ connecting_endpoints' = connecting_endpoints \cup {[key |-> key, index |-> index]}
          /\ to_service' = Append(to_service,
               [type |-> "PipeConnectReq", key |-> key, index |-> index])
    BY DEF AsyncConnect
  <1>2. UNCHANGED <<early_endpoints, pipeendpoints, endpoints, to_client, sessions>>
    BY DEF AsyncConnect
  <1>3. PICK S : S = {"pending", "connected", "failed"} /\ attempts \in Seq(S)
    BY DEF PipeTypes, AttemptsTyped
  <1>4. PICK v : v = "pending" /\ v \in S  BY <1>3
  <1>5. attempts' = Append(attempts, v)  BY <1>1, <1>4
  <1>6. /\ attempts' \in Seq(S) /\ Len(attempts') = key /\ attempts'[key] = v
        /\ Len(attempts) \in Nat /\ key \in DOMAIN attempts' /\ DOMAIN attempts = 1..Len(attempts)
        /\ \A k \in DOMAIN attempts : k \in DOMAIN attempts' /\ attempts'[k] = attempts[k]
    BY <1>1, <1>3, <1>4, <1>5, WireProofs!Extended
  <1>7. key \in Nat /\ key \in Keys /\ key \notin DOMAIN attempts
    BY <1>1, <1>6, BoundsAssumption DEF Keys
  <1>8. PICK m : m = [type |-> "PipeConnectReq", key |-> key, index |-> index]  OBVIOUS
  <1>9. to_service \in Seq(FromClient) /\ m \in FromClient /\ to_service' = Append(to_service, m)
    BY <1>1, <1>7, <1>8 DEF PipeTypes, ToServiceTyped, FromClient
  <1>10. to_service' \in Seq(FromClient) /\ WireProofs!IsMore(to_service, m, to_service')
    BY <1>9, WireProofs!MoreOf
  <1>11. AttemptsTyped'
    <2>1. connecting_endpoints' \subseteq [key : Keys, index : Indices \cup {ANY_INDEX}]
      BY <1>1, <1>7 DEF PipeTypes, AttemptsTyped
    <2>2. Len(attempts') <= MaxConnects
      BY <1>1, <1>6, BoundsAssumption
    <2> QED BY <1>3, <1>6, <2>1, <2>2 DEF AttemptsTyped
  <1>12. SessionsTyped'
    BY <1>2, <1>6 DEF PipeTypes, SessionsTyped
  <1>13. EndpointsTyped'
    BY <1>2, <1>6, PipeShapes DEF PipeTypes, EndpointsTyped
  <1>14. TablesTyped'
    BY <1>2 DEF PipeTypes, TablesTyped
  <1>15. ToServiceTyped'
    <2>1. ASSUME NEW p \in DOMAIN to_service', to_service'[p].type = "PipeConnectReq"
          PROVE  to_service'[p].key \in DOMAIN attempts'
      <3>1. \/ p \in DOMAIN to_service /\ to_service'[p] = to_service[p]
            \/ to_service'[p] = m
        BY <1>10 DEF WireProofs!IsMore
      <3> QED BY <1>6, <1>8, <2>1, <3>1 DEF PipeTypes, ToServiceTyped
    <2> QED BY <1>10, <2>1 DEF ToServiceTyped
  <1>16. ToClientTyped'
    BY <1>2, <1>6 DEF PipeTypes, ToClientTyped
  <1>17. PipeTypes'
    BY <1>11, <1>12, <1>13, <1>14, <1>15, <1>16 DEF PipeTypes
  <1> QED BY <1>1, <1>4, <1>6, <1>7, <1>8, <1>10, <1>17 DEF IsMore

\* Its key is of no other request and of no session, and who waits for it is expected.
LEMMA AsyncConnectCalls ==
  ASSUME PipeTypes, Calls, AsyncConnect
  PROVE  Calls'
  <1>1. \A k \in DOMAIN attempts : attempts'[k] = attempts[k]  BY AsyncConnectTypes
  <1>2. PICK index \in Indices \cup {ANY_INDEX}, key \in Keys :
          /\ key \notin DOMAIN attempts /\ attempts'[key] = "pending"
          /\ connecting_endpoints' = connecting_endpoints \cup {[key |-> key, index |-> index]}
          /\ IsMore(to_service, [type |-> "PipeConnectReq", key |-> key, index |-> index],
                    to_service')
    BY AsyncConnectTypes
  <1>3. PICK m : m = [type |-> "PipeConnectReq", key |-> key, index |-> index]  OBVIOUS
  <1>4. PICK n : n = Len(to_service) + 1  OBVIOUS
  <1>5. \A p \in DOMAIN to_service' :
          \/ p \in DOMAIN to_service /\ to_service'[p] = to_service[p]
          \/ p = n /\ to_service'[p] = m
    BY <1>2, <1>3, <1>4 DEF IsMore, WireProofs!IsMore
  <1>6. UNCHANGED <<endpoints, sessions>>  BY DEF AsyncConnect
  <1>7. \A p \in Requests' : \/ p \in Requests /\ to_service'[p] = to_service[p]
                             \/ p = n /\ to_service'[p] = m
    BY <1>5 DEF Requests
  <1>8. \A p \in Requests : to_service[p].key \in DOMAIN attempts
    BY DEF PipeTypes, ToServiceTyped, Requests
  <1>9. \A s \in DOMAIN sessions : sessions[s].key \in DOMAIN attempts  BY PipeShapes
  <1>10. KeysOnce'
    BY <1>2, <1>3, <1>6, <1>7, <1>8, <1>9 DEF Calls, KeysOnce
  <1>11. ASSUME NEW p \in Requests', NEW k \in DOMAIN attempts', to_service'[p].key = k
         PROVE  /\ attempts'[k] # "connected"
                /\ attempts'[k] = "pending" =>
                     \E c \in connecting_endpoints' : c.key = k /\ c.index = to_service'[p].index
    <2>1. CASE p \in Requests /\ to_service'[p] = to_service[p]
      <3>1. k \in DOMAIN attempts /\ attempts'[k] = attempts[k]  BY <1>1, <1>8, <1>11, <2>1
      <3>2. /\ attempts[k] # "connected"
            /\ attempts[k] = "pending" =>
                 \E c \in connecting_endpoints : c.key = k /\ c.index = to_service[p].index
        BY <1>11, <2>1, <3>1 DEF Calls, Awaited
      <3> QED BY <1>2, <2>1, <3>1, <3>2
    <2>2. CASE to_service'[p] = m
      <3>1. PICK c : c = [key |-> key, index |-> index]  OBVIOUS
      <3>2. m.key = key /\ m.index = index /\ c.key = key /\ c.index = index /\ k = key
        BY <1>3, <1>11, <2>2, <3>1
      <3>3. c \in connecting_endpoints'  BY <1>2, <3>1
      <3> QED BY <1>2, <2>2, <3>2, <3>3
    <2> QED BY <1>7, <2>1, <2>2
  <1>12. ASSUME NEW s \in DOMAIN sessions, NEW k \in DOMAIN attempts', sessions[s].key = k,
                attempts'[k] = "pending"
         PROVE  \E c \in connecting_endpoints' :
                  c.key = k /\ c.index \in {sessions[s].index, ANY_INDEX}
    <2>1. k \in DOMAIN attempts /\ attempts[k] = "pending"  BY <1>1, <1>9, <1>12
    <2>2. PICK c \in connecting_endpoints : c.key = k /\ c.index \in {sessions[s].index, ANY_INDEX}
      BY <1>12, <2>1 DEF Calls, Awaited
    <2> QED BY <1>2, <2>2
  <1>13. Awaited'
    BY <1>6, <1>11, <1>12 DEF Awaited
  <1>14. ClosesGivenUp'
    BY <1>3, <1>5, <1>6 DEF Calls, ClosesGivenUp, GivenUp
  <1> QED BY <1>10, <1>13, <1>14 DEF Calls

\* The indices of a step, one by one, from what it keeps of each.
LEMMA GoodIndices ==
  ASSUME PipeTypes, \A i \in Indices : Good(i) => IndexInv(i), Lasting, NEW i \in Indices, Good(i)'
  PROVE  IndexInv(i) /\ Good(i)
  BY GoodLasts

\* It leaves every index.
LEMMA AsyncConnectIndices ==
  ASSUME PipeInv, AsyncConnect, NEW i \in Indices, Good(i)'
  PROVE  IndexInv(i)'
  <1>1. \A k \in DOMAIN attempts : attempts'[k] = attempts[k]
    BY AsyncConnectTypes DEF PipeInv
  <1>2. UNCHANGED <<early_endpoints, pipeendpoints, endpoints, to_client, sessions, shut_down>>
    BY DEF AsyncConnect
  <1>3. PipeTypes /\ \A j \in Indices : Good(j) => IndexInv(j)  BY DEF PipeInv
  <1>4. Lasting  BY <1>1, <1>2 DEF Lasting
  <1>5. IndexInv(i)  BY <1>3, <1>4, GoodIndices
  <1>6. SessionsStay(i)  BY <1>2 DEF SessionsStay, Sessions
  <1>7. \A s \in Sessions(i) : Status(s)' = Status(s)
    BY <1>1, <1>2, <1>3, PipeShapes DEF Status, Sessions
  <1>8. EndpointsStay(i) /\ EarlyStays(i) /\ MessagesStay(i)
    BY <1>2 DEF EndpointsStay, EndpointsOf, EarlyStays, MessagesStay, Routed, IsEarly
  <1> QED BY <1>2, <1>3, <1>5, <1>6, <1>7, <1>8, SameKeeps, IndexKept

-----------------------------------------------------------------------------
(* The pipe: the endpoints that a step changes.                            *)

\* The endpoints g are f with v at k.
IsChanged(f, k, v, g) ==
  /\ g \in Seq({g[j] : j \in DOMAIN g}) /\ DOMAIN g = DOMAIN f /\ Len(g) = Len(f)
  /\ k \in DOMAIN f /\ g[k] = v /\ \A j \in DOMAIN f : j # k => g[j] = f[j]

\* The endpoints g are f and v.
IsExtended(f, k, v, g) ==
  /\ g \in Seq({g[j] : j \in DOMAIN g}) /\ DOMAIN g = DOMAIN f \cup {k}
  /\ k \notin DOMAIN f /\ k \in Nat /\ g[k] = v /\ \A j \in DOMAIN f : g[j] = f[j]

\* A sequence is one of its own elements.
LEMMA Ranged == ASSUME NEW S, NEW f \in Seq(S) PROVE f \in Seq({f[j] : j \in DOMAIN f})
  OBVIOUS

\* A sequence with one element replaced.
LEMMA ChangedAt ==
  ASSUME NEW S, NEW f \in Seq(S), NEW k \in DOMAIN f, NEW v, NEW g, g = [f EXCEPT ![k] = v]
  PROVE  IsChanged(f, k, v, g)
  <1>1. f \in Seq(S \cup {v})  OBVIOUS
  <1>2. /\ g \in Seq(S \cup {v}) /\ DOMAIN g = DOMAIN f /\ Len(g) = Len(f) /\ g[k] = v
        /\ \A j \in DOMAIN f : j # k => g[j] = f[j]
    BY <1>1
  <1>3. g \in Seq({g[j] : j \in DOMAIN g})  BY ONLY <1>2, Ranged
  <1> QED BY <1>2, <1>3 DEF IsChanged

\* A sequence with one more element.
LEMMA ExtendedBy ==
  ASSUME NEW S, NEW f \in Seq(S), NEW v, NEW g, g = Append(f, v), NEW k, k = Len(f) + 1
  PROVE  IsExtended(f, k, v, g)
  <1>1. f \in Seq(S \cup {v}) /\ v \in S \cup {v}  OBVIOUS
  <1>2. /\ g \in Seq(S \cup {v}) /\ Len(g) = Len(f) + 1 /\ g[Len(f) + 1] = v
        /\ Len(f) \in Nat /\ Len(f) + 1 \in DOMAIN g /\ DOMAIN f = 1..Len(f)
        /\ \A i \in DOMAIN f : i \in DOMAIN g /\ g[i] = f[i]
        /\ \A i \in DOMAIN g : i \in DOMAIN f \/ i = Len(f) + 1
    BY ONLY <1>1, WireProofs!Extended, g = Append(f, v)
  <1>3. g \in Seq({g[j] : j \in DOMAIN g})  BY ONLY <1>2, Ranged
  <1>4. k \notin DOMAIN f /\ k \in Nat  BY <1>2
  <1> QED BY <1>2, <1>3, <1>4 DEF IsExtended

\* Endpoint v has its type, and its session if it was handed out.
EndpointFits(v) ==
  /\ IsEndpoint(v)
  /\ v.handed => /\ v.session \in DOMAIN sessions /\ sessions[v.session].index = v.index
                 /\ attempts[sessions[v.session].key] = "connected"

\* An endpoint that fits still does when sessions stay and none is disconnected.
LEMMA EndpointsFit ==
  ASSUME EndpointsTyped, Lasting,
         \A k \in DOMAIN attempts : attempts[k] = "connected" => attempts'[k] = "connected",
         SessionsTyped,
         NEW k, NEW v, EndpointFits(v)',
         IsChanged(endpoints, k, v, endpoints') \/ IsExtended(endpoints, k, v, endpoints')
  PROVE  EndpointsTyped'
  <1>1. \A e \in DOMAIN endpoints' :
          endpoints'[e] = v \/ (e \in DOMAIN endpoints /\ endpoints'[e] = endpoints[e])
    BY DEF IsChanged, IsExtended
  <1>2. ASSUME NEW e \in DOMAIN endpoints
        PROVE  /\ IsEndpoint(endpoints[e])
               /\ endpoints[e].handed =>
                   /\ endpoints[e].session \in DOMAIN sessions'
                   /\ sessions'[endpoints[e].session].index = endpoints[e].index
                   /\ attempts'[sessions'[endpoints[e].session].key] = "connected"
    <2>1. /\ IsEndpoint(endpoints[e])
          /\ endpoints[e].handed =>
              /\ endpoints[e].session \in DOMAIN sessions
              /\ sessions[endpoints[e].session].index = endpoints[e].index
              /\ attempts[sessions[endpoints[e].session].key] = "connected"
      BY DEF EndpointsTyped
    <2>2. ASSUME NEW s \in DOMAIN sessions
          PROVE  /\ s \in DOMAIN sessions' /\ sessions'[s].index = sessions[s].index
                 /\ sessions'[s].key = sessions[s].key /\ sessions[s].key \in DOMAIN attempts
      BY DEF SessionsTyped, Lasting
    <2> QED BY <2>1, <2>2
  <1>3. /\ IsEndpoint(v)
        /\ v.handed => /\ v.session \in DOMAIN sessions' /\ sessions'[v.session].index = v.index
                       /\ attempts'[sessions'[v.session].key] = "connected"
    BY DEF EndpointFits
  <1>4. endpoints' \in Seq({endpoints'[j] : j \in DOMAIN endpoints'})
    BY DEF IsChanged, IsExtended
  <1> QED BY <1>1, <1>2, <1>3, <1>4 DEF EndpointsTyped

\* An endpoint with these fields.
Made(i, u, c, d, h, s, g, n, o) ==
  [index |-> i, unreliable |-> u, receiver |-> c, closed |-> d, handed |-> h, session |-> s,
   given_up |-> g, callbacks |-> n, undecoded |-> o]

\* An endpoint has no other fields.
LEMMA EndpointFields ==
  ASSUME NEW ep, IsEndpoint(ep)
  PROVE  ep = Made(ep.index, ep.unreliable, ep.receiver, ep.closed, ep.handed, ep.session,
                   ep.given_up, ep.callbacks, ep.undecoded)
  BY DEF IsEndpoint, Made

\* The endpoint that AsyncClose was called on.
LEMMA GivenUpAt ==
  ASSUME NEW S, NEW f \in Seq(S), NEW k \in DOMAIN f, NEW ep, ep = f[k], IsEndpoint(ep), NEW g,
         g = [f EXCEPT ![k].closed = TRUE, ![k].given_up = TRUE]
  PROVE  IsChanged(f, k, Made(ep.index, ep.unreliable, ep.receiver, TRUE, ep.handed, ep.session, TRUE,
                         ep.callbacks, ep.undecoded), g)
  <1>1. PICK i, u, c, d, h, s, a, n, l, x, y :
          /\ i = ep.index /\ u = ep.unreliable /\ c = ep.receiver /\ d = ep.closed
          /\ h = ep.handed /\ s = ep.session /\ a = ep.given_up /\ n = ep.callbacks /\ l = ep.undecoded
          /\ x = TRUE /\ y = TRUE
    OBVIOUS
  <1>2. ep = Made(i, u, c, d, h, s, a, n, l)  BY <1>1, EndpointFields
  <1>3. PICK w : w = [ep EXCEPT !.closed = x]  OBVIOUS
  <1>4. w = Made(i, u, c, x, h, s, a, n, l)  BY ONLY <1>2, <1>3 DEF Made
  <1>5. PICK v : v = [w EXCEPT !.given_up = y]  OBVIOUS
  <1>6. v = Made(i, u, c, x, h, s, y, n, l)  BY ONLY <1>4, <1>5 DEF Made
  <1>7. v = [[ep EXCEPT !.closed = x] EXCEPT !.given_up = y]  BY <1>3, <1>5
  <1>8. g = [f EXCEPT ![k] = [ep EXCEPT !.closed = x, !.given_up = y]]  BY <1>1
  <1>9. g = [f EXCEPT ![k] = v]
    <2>1. [ep EXCEPT !.closed = x, !.given_up = y] = [[ep EXCEPT !.closed = x] EXCEPT !.given_up = y]
      OBVIOUS
    <2> QED BY ONLY <1>7, <1>8, <2>1
  <1>10. IsChanged(f, k, v, g)  BY ONLY <1>9, ChangedAt, f \in Seq(S), k \in DOMAIN f
  <1> QED BY <1>1, <1>6, <1>10

\* The endpoint that the service closed.
LEMMA ClosedAt ==
  ASSUME NEW S, NEW f \in Seq(S), NEW k \in DOMAIN f, NEW ep, ep = f[k], IsEndpoint(ep), NEW g,
         g = [f EXCEPT ![k].closed = TRUE, ![k].callbacks = @ + 1]
  PROVE  IsChanged(f, k, Made(ep.index, ep.unreliable, ep.receiver, TRUE, ep.handed, ep.session,
                         ep.given_up, ep.callbacks + 1, ep.undecoded), g)
  <1>1. PICK i, u, c, d, h, s, a, n, l, x, y :
          /\ i = ep.index /\ u = ep.unreliable /\ c = ep.receiver /\ d = ep.closed
          /\ h = ep.handed /\ s = ep.session /\ a = ep.given_up /\ n = ep.callbacks /\ l = ep.undecoded
          /\ x = TRUE /\ y = ep.callbacks + 1
    OBVIOUS
  <1>2. ep = Made(i, u, c, d, h, s, a, n, l)  BY <1>1, EndpointFields
  <1>3. PICK w : w = [ep EXCEPT !.closed = x]  OBVIOUS
  <1>4. w = Made(i, u, c, x, h, s, a, n, l)  BY ONLY <1>2, <1>3 DEF Made
  <1>5. PICK v : v = [w EXCEPT !.callbacks = y]  OBVIOUS
  <1>6. v = Made(i, u, c, x, h, s, a, y, l)  BY ONLY <1>4, <1>5 DEF Made
  <1>7. v = [[ep EXCEPT !.closed = x] EXCEPT !.callbacks = y]  BY <1>3, <1>5
  <1>8. g = [f EXCEPT ![k] = [ep EXCEPT !.closed = x, !.callbacks = y]]  BY <1>1
  <1>9. g = [f EXCEPT ![k] = v]
    <2>1. [ep EXCEPT !.closed = x, !.callbacks = y] = [[ep EXCEPT !.closed = x] EXCEPT !.callbacks = y]
      OBVIOUS
    <2> QED BY ONLY <1>7, <1>8, <2>1
  <1>10. IsChanged(f, k, v, g)  BY ONLY <1>9, ChangedAt, f \in Seq(S), k \in DOMAIN f
  <1> QED BY <1>1, <1>6, <1>10

\* The endpoint that the caller gets for session t.
LEMMA HandedAt ==
  ASSUME NEW S, NEW f \in Seq(S), NEW k \in DOMAIN f, NEW ep, ep = f[k], IsEndpoint(ep), NEW t, NEW g,
         g = [f EXCEPT ![k].handed = TRUE, ![k].session = t]
  PROVE  IsChanged(f, k, Made(ep.index, ep.unreliable, ep.receiver, ep.closed, TRUE, t, ep.given_up,
                         ep.callbacks, ep.undecoded), g)
  <1>1. PICK i, u, c, d, h, s, a, n, l, x, y :
          /\ i = ep.index /\ u = ep.unreliable /\ c = ep.receiver /\ d = ep.closed
          /\ h = ep.handed /\ s = ep.session /\ a = ep.given_up /\ n = ep.callbacks /\ l = ep.undecoded
          /\ x = TRUE /\ y = t
    OBVIOUS
  <1>2. ep = Made(i, u, c, d, h, s, a, n, l)  BY <1>1, EndpointFields
  <1>3. PICK w : w = [ep EXCEPT !.handed = x]  OBVIOUS
  <1>4. w = Made(i, u, c, d, x, s, a, n, l)  BY ONLY <1>2, <1>3 DEF Made
  <1>5. PICK v : v = [w EXCEPT !.session = y]  OBVIOUS
  <1>6. v = Made(i, u, c, d, x, y, a, n, l)  BY ONLY <1>4, <1>5 DEF Made
  <1>7. v = [[ep EXCEPT !.handed = x] EXCEPT !.session = y]  BY <1>3, <1>5
  <1>8. g = [f EXCEPT ![k] = [ep EXCEPT !.handed = x, !.session = y]]  BY <1>1
  <1>9. g = [f EXCEPT ![k] = v]
    <2>1. [ep EXCEPT !.handed = x, !.session = y] = [[ep EXCEPT !.handed = x] EXCEPT !.session = y]
      OBVIOUS
    <2> QED BY ONLY <1>7, <1>8, <2>1
  <1>10. IsChanged(f, k, v, g)  BY ONLY <1>9, ChangedAt, f \in Seq(S), k \in DOMAIN f
  <1> QED BY <1>1, <1>6, <1>10

\* The endpoints of an index that none of the endpoints changed is of.
LEMMA OtherEndpoints ==
  ASSUME PipeTypes, NEW i,
         \/ \E k, v : /\ IsChanged(endpoints, k, v, endpoints')
                      /\ endpoints[k].index # i /\ v.index # i
         \/ \E k, v : IsExtended(endpoints, k, v, endpoints') /\ v.index # i
         \/ endpoints' = endpoints
  PROVE  /\ EndpointsOf(i)' = EndpointsOf(i)
         /\ \A e \in EndpointsOf(i) : endpoints'[e] = endpoints[e]
  <1>1. ASSUME NEW k, NEW v, IsChanged(endpoints, k, v, endpoints'), endpoints[k].index # i,
               v.index # i
        PROVE  /\ EndpointsOf(i)' = EndpointsOf(i)
               /\ \A e \in EndpointsOf(i) : endpoints'[e] = endpoints[e]
    <2>1. /\ DOMAIN endpoints' = DOMAIN endpoints /\ endpoints'[k] = v
          /\ \A e \in DOMAIN endpoints : e # k => endpoints'[e] = endpoints[e]
      BY <1>1 DEF IsChanged
    <2> QED BY <1>1, <2>1 DEF EndpointsOf
  <1>2. ASSUME NEW k, NEW v, IsExtended(endpoints, k, v, endpoints'), v.index # i
        PROVE  /\ EndpointsOf(i)' = EndpointsOf(i)
               /\ \A e \in EndpointsOf(i) : endpoints'[e] = endpoints[e]
    <2>1. /\ DOMAIN endpoints' = DOMAIN endpoints \cup {k} /\ endpoints'[k] = v
          /\ \A e \in DOMAIN endpoints : endpoints'[e] = endpoints[e]
      BY <1>2 DEF IsExtended
    <2> QED BY <1>2, <2>1 DEF EndpointsOf
  <1>3. CASE endpoints' = endpoints
    BY <1>3 DEF EndpointsOf
  <1> QED BY <1>1, <1>2, <1>3

-----------------------------------------------------------------------------
(* The pipe: an endpoint is closed by the caller.                          *)

\* The endpoint that the caller closes is given up, and the service is told.
LEMMA AsyncCloseChanges ==
  ASSUME PipeTypes, AsyncClose
  PROVE  \E e \in DOMAIN endpoints : \E v :
           /\ endpoints[e].handed /\ IsChanged(endpoints, e, v, endpoints')
           /\ EndpointFits(v) /\ v.index = endpoints[e].index /\ v.handed /\ v.given_up
           /\ IsMore(to_service, [type |-> "PipeDisconnectReq", index |-> v.index], to_service')
           /\ to_service' \in Seq(FromClient)
  <1>1. PICK e \in DOMAIN endpoints :
          /\ endpoints[e].handed
          /\ endpoints' = [endpoints EXCEPT ![e].closed = TRUE, ![e].given_up = TRUE]
          /\ to_service' = Append(to_service,
               [type |-> "PipeDisconnectReq", index |-> endpoints[e].index])
    BY DEF AsyncClose
  <1>2. PICK S : endpoints \in Seq(S)  BY DEF PipeTypes, EndpointsTyped
  <1>3. PICK ep : ep = endpoints[e] /\ IsEndpoint(ep)  BY PipeShapes
  <1>4. PICK v : v = Made(ep.index, ep.unreliable, ep.receiver, TRUE, ep.handed, ep.session, TRUE,
                         ep.callbacks, ep.undecoded)
    OBVIOUS
  <1>5. IsChanged(endpoints, e, v, endpoints')
    BY <1>1, <1>2, <1>3, <1>4, GivenUpAt
  <1>6. /\ v.index = ep.index /\ v.handed = ep.handed /\ v.session = ep.session
        /\ v.given_up = TRUE /\ v.closed = TRUE /\ v.receiver = ep.receiver
    BY <1>4 DEF Made
  <1>7. ep.index \in Indices /\ IsReceiver(ep.receiver) /\ ep.handed
    BY <1>1, <1>3 DEF IsEndpoint
  <1>8. IsEndpoint(v)
    BY <1>4, <1>6, <1>7 DEF Made, IsEndpoint
  <1>9. EndpointFits(v)
    BY <1>1, <1>3, <1>6, <1>8 DEF EndpointFits, PipeTypes, EndpointsTyped
  <1>10. PICK m : m = [type |-> "PipeDisconnectReq", index |-> ep.index]  OBVIOUS
  <1>11. m \in FromClient /\ to_service \in Seq(FromClient) /\ to_service' = Append(to_service, m)
    BY <1>1, <1>3, <1>7, <1>10 DEF FromClient, PipeTypes, ToServiceTyped
  <1>12. to_service' \in Seq(FromClient) /\ WireProofs!IsMore(to_service, m, to_service')
    BY <1>11, WireProofs!MoreOf
  <1> QED BY <1>1, <1>3, <1>5, <1>6, <1>7, <1>9, <1>10, <1>12 DEF IsMore

\* The index of an endpoint that the caller closes is lost, the others are left.
LEMMA AsyncCloseSteps ==
  ASSUME PipeInv, AsyncClose
  PROVE  /\ PipeTypes' /\ Calls'
         /\ \A i \in Indices : Good(i)' => IndexInv(i)'
  <1>1. PipeTypes /\ Calls /\ \A i \in Indices : Good(i) => IndexInv(i)  BY DEF PipeInv
  <1>2. UNCHANGED <<connecting_endpoints, early_endpoints, pipeendpoints, attempts, shut_down,
                    to_client, sessions>>
    BY DEF AsyncClose
  <1>0. PICK e \in DOMAIN endpoints : \E v :
            /\ endpoints[e].handed /\ IsChanged(endpoints, e, v, endpoints')
            /\ EndpointFits(v) /\ v.index = endpoints[e].index /\ v.handed /\ v.given_up
            /\ IsMore(to_service, [type |-> "PipeDisconnectReq", index |-> v.index], to_service')
            /\ to_service' \in Seq(FromClient)
    BY <1>1, AsyncCloseChanges
  <1>3. PICK v :
          /\ endpoints[e].handed /\ IsChanged(endpoints, e, v, endpoints')
          /\ EndpointFits(v) /\ v.index = endpoints[e].index /\ v.handed /\ v.given_up
          /\ IsMore(to_service, [type |-> "PipeDisconnectReq", index |-> v.index], to_service')
          /\ to_service' \in Seq(FromClient)
    BY <1>0
  <1>4. /\ DOMAIN endpoints' = DOMAIN endpoints /\ endpoints'[e] = v
        /\ \A d \in DOMAIN endpoints : d # e => endpoints'[d] = endpoints[d]
    BY <1>3 DEF IsChanged
  <1>5. PICK m : m = [type |-> "PipeDisconnectReq", index |-> v.index]  OBVIOUS
  <1>6. \A p \in DOMAIN to_service' :
          \/ p \in DOMAIN to_service /\ to_service'[p] = to_service[p]
          \/ p = Len(to_service) + 1 /\ to_service'[p] = m
    BY <1>3, <1>5 DEF IsMore, WireProofs!IsMore
  <1>7. \A d \in DOMAIN endpoints :
          endpoints'[d].index = endpoints[d].index /\ (endpoints[d].given_up => endpoints'[d].given_up)
    BY <1>3, <1>4
  <1>8. Lasting  BY <1>2, <1>4, <1>7 DEF Lasting
  <1>9. PipeTypes'
    <2>1. AttemptsTyped' /\ SessionsTyped'
      BY <1>1, <1>2 DEF PipeTypes, AttemptsTyped, SessionsTyped
    <2>2. EndpointsTyped'
      <3>1. EndpointFits(v)'  BY <1>2, <1>3 DEF EndpointFits
      <3> QED BY <1>1, <1>2, <1>3, <1>8, <3>1, EndpointsFit DEF PipeTypes
    <2>3. TablesTyped'
      BY <1>1, <1>2, <1>3, <1>4 DEF PipeTypes, TablesTyped
    <2>4. ToServiceTyped'
      BY <1>1, <1>2, <1>3, <1>5, <1>6 DEF PipeTypes, ToServiceTyped
    <2>5. ToClientTyped'
      BY <1>1, <1>2 DEF PipeTypes, ToClientTyped
    <2> QED BY <2>1, <2>2, <2>3, <2>4, <2>5 DEF PipeTypes
  <1>10. Calls'
    <2>1. \A p \in Requests' : p \in Requests /\ to_service'[p] = to_service[p]
      BY <1>5, <1>6 DEF Requests
    <2>2. KeysOnce'  BY <1>1, <1>2, <2>1 DEF Calls, KeysOnce
    <2>3. Awaited'  BY <1>1, <1>2, <2>1 DEF Calls, Awaited
    <2>4. ASSUME NEW p \in DOMAIN to_service', NEW i \in Indices,
                 to_service'[p].type = "PipeDisconnectReq", to_service'[p].index = i
          PROVE  GivenUp(i)'
      <3>1. CASE p \in DOMAIN to_service /\ to_service'[p] = to_service[p]
        <4>1. GivenUp(i)  BY <1>1, <2>4, <3>1 DEF Calls, ClosesGivenUp
        <4> QED BY <1>4, <1>7, <4>1 DEF GivenUp
      <3>2. CASE to_service'[p] = m
        BY <1>3, <1>4, <1>5, <2>4, <3>2 DEF GivenUp
      <3> QED BY <1>6, <3>1, <3>2
    <2>5. ClosesGivenUp'  BY <2>4 DEF ClosesGivenUp
    <2> QED BY <2>2, <2>3, <2>5 DEF Calls
  <1>11. ASSUME NEW i \in Indices, Good(i)' PROVE IndexInv(i)'
    <2>1. IndexInv(i)  BY <1>1, <1>8, <1>11, GoodIndices
    <2>2. v.index # i
      <3>1. ~GivenUp(i)'  BY <1>11 DEF Good
      <3> QED BY <1>3, <1>4, <3>1 DEF GivenUp
    <2>3. SessionsStay(i)  BY <1>2 DEF SessionsStay, Sessions
    <2>4. \A s \in Sessions(i) : Status(s)' = Status(s)  BY <1>2 DEF Status
    <2>5. EndpointsOf(i)' = EndpointsOf(i) /\ \A d \in EndpointsOf(i) : endpoints'[d] = endpoints[d]
      BY <1>1, <1>3, <2>2, OtherEndpoints
    <2>6. EndpointsStay(i) /\ EarlyStays(i) /\ MessagesStay(i)
      BY <1>2, <2>5 DEF EndpointsStay, EarlyStays, MessagesStay, Routed, IsEarly
    <2> QED BY <1>1, <1>2, <2>1, <2>3, <2>4, <2>6, SameKeeps, IndexKept
  <1> QED BY <1>9, <1>10, <1>11

-----------------------------------------------------------------------------
(* The pipe: the stub is released.                                         *)

\* The endpoint that the release shut.
ShutEndpoint(ep) == [ep EXCEPT !.closed = TRUE, !.callbacks = @ + 1]

\* An endpoint that is shut: closed, and its callback ran once more.
LEMMA ShutFields ==
  ASSUME NEW ep, IsEndpoint(ep)
  PROVE  ShutEndpoint(ep) = Made(ep.index, ep.unreliable, ep.receiver, TRUE, ep.handed,
                                 ep.session, ep.given_up, ep.callbacks + 1, ep.undecoded)
  <1>1. PICK i, u, c, d, h, s, a, n, l, x, y :
          /\ i = ep.index /\ u = ep.unreliable /\ c = ep.receiver /\ d = ep.closed
          /\ h = ep.handed /\ s = ep.session /\ a = ep.given_up /\ n = ep.callbacks /\ l = ep.undecoded
          /\ x = TRUE /\ y = ep.callbacks + 1
    OBVIOUS
  <1>2. ep = Made(i, u, c, d, h, s, a, n, l)  BY <1>1, EndpointFields
  <1>3. PICK w : w = [ep EXCEPT !.closed = x]  OBVIOUS
  <1>4. w = Made(i, u, c, x, h, s, a, n, l)  BY ONLY <1>2, <1>3 DEF Made
  <1>5. PICK v : v = [w EXCEPT !.callbacks = y]  OBVIOUS
  <1>6. v = Made(i, u, c, x, h, s, a, y, l)  BY ONLY <1>4, <1>5 DEF Made
  <1>7. v = [[ep EXCEPT !.closed = x] EXCEPT !.callbacks = y]  BY <1>3, <1>5
  <1>8. ShutEndpoint(ep) = [ep EXCEPT !.closed = x, !.callbacks = y]  BY <1>1 DEF ShutEndpoint
  <1>9. ShutEndpoint(ep) = v
    <2>1. [ep EXCEPT !.closed = x, !.callbacks = y] = [[ep EXCEPT !.closed = x] EXCEPT !.callbacks = y]
      OBVIOUS
    <2> QED BY ONLY <1>7, <1>8, <2>1
  <1> QED BY <1>1, <1>6, <1>9

\* Every endpoint that is shut had an entry, and nothing else of it changes.
LEMMA ShutdownChanges ==
  ASSUME PipeTypes, endpoints' = ShutAll
  PROVE  /\ endpoints' \in Seq({endpoints'[e] : e \in DOMAIN endpoints'})
         /\ DOMAIN endpoints' = DOMAIN endpoints
         /\ \A e \in DOMAIN endpoints :
              /\ endpoints'[e].index = endpoints[e].index
              /\ endpoints'[e].unreliable = endpoints[e].unreliable
              /\ endpoints'[e].receiver = endpoints[e].receiver
              /\ endpoints'[e].undecoded = endpoints[e].undecoded
              /\ endpoints'[e].handed = endpoints[e].handed
              /\ endpoints'[e].session = endpoints[e].session
              /\ endpoints'[e].given_up = endpoints[e].given_up
              /\ IsEndpoint(endpoints'[e])
              /\ IF \E i \in DOMAIN pipeendpoints : pipeendpoints[i] = e
                 THEN endpoints'[e].closed /\ endpoints'[e].callbacks = endpoints[e].callbacks + 1
                 ELSE endpoints'[e] = endpoints[e]
  <1>1. endpoints' = [e \in DOMAIN endpoints |->
                        IF \E i \in DOMAIN pipeendpoints : pipeendpoints[i] = e
                        THEN ShutEndpoint(endpoints[e]) ELSE endpoints[e]]
    BY DEF ShutAll, ShutEndpoint
  <1>2. DOMAIN endpoints = 1..Len(endpoints) /\ Len(endpoints) \in Nat  BY PipeShapes
  <1>3. DOMAIN endpoints' = DOMAIN endpoints
    BY <1>1
  <1>4. endpoints' \in Seq({endpoints'[e] : e \in DOMAIN endpoints'})
    <2>1. PICK T : T = {endpoints'[e] : e \in DOMAIN endpoints'}  OBVIOUS
    <2>2. endpoints' = [e \in 1..Len(endpoints) |-> endpoints'[e]]
      BY <1>1, <1>2
    <2>3. \A e \in 1..Len(endpoints) : endpoints'[e] \in T  BY <1>2, <1>3, <2>1
    <2>4. endpoints' \in Seq(T)  BY ONLY <1>2, <2>2, <2>3
    <2> QED BY <2>1, <2>4
  <1>5. ASSUME NEW e \in DOMAIN endpoints
        PROVE  /\ endpoints'[e].index = endpoints[e].index
               /\ endpoints'[e].unreliable = endpoints[e].unreliable
               /\ endpoints'[e].receiver = endpoints[e].receiver
               /\ endpoints'[e].undecoded = endpoints[e].undecoded
               /\ endpoints'[e].handed = endpoints[e].handed
               /\ endpoints'[e].session = endpoints[e].session
               /\ endpoints'[e].given_up = endpoints[e].given_up
               /\ IsEndpoint(endpoints'[e])
               /\ IF \E i \in DOMAIN pipeendpoints : pipeendpoints[i] = e
                  THEN endpoints'[e].closed /\ endpoints'[e].callbacks = endpoints[e].callbacks + 1
                  ELSE endpoints'[e] = endpoints[e]
    <2>1. PICK ep : ep = endpoints[e] /\ IsEndpoint(ep)  BY PipeShapes
    <2>2. CASE \E i \in DOMAIN pipeendpoints : pipeendpoints[i] = e
      <3>1. endpoints'[e] = ShutEndpoint(ep)  BY <1>1, <2>1, <2>2
      <3>2. PICK v : /\ v = endpoints'[e]
                     /\ v = Made(ep.index, ep.unreliable, ep.receiver, TRUE, ep.handed,
                                 ep.session, ep.given_up, ep.callbacks + 1, ep.undecoded)
        BY <2>1, <3>1, ShutFields
      <3>3. ep.index \in Indices /\ IsReceiver(ep.receiver) /\ (ep.given_up => ep.handed)
        BY <2>1 DEF IsEndpoint
      <3>4. /\ v.index = ep.index /\ v.unreliable = ep.unreliable /\ v.receiver = ep.receiver
            /\ v.undecoded = ep.undecoded
            /\ v.handed = ep.handed /\ v.session = ep.session /\ v.given_up = ep.given_up
            /\ v.closed = TRUE /\ v.callbacks = ep.callbacks + 1
        BY <3>2 DEF Made
      <3>5. IsEndpoint(v)
        BY <3>2, <3>3, <3>4 DEF Made, IsEndpoint
      <3> QED BY <2>1, <2>2, <3>2, <3>4, <3>5
    <2>3. CASE ~\E i \in DOMAIN pipeendpoints : pipeendpoints[i] = e
      <3>1. endpoints'[e] = endpoints[e]  BY <1>1, <2>3
      <3> QED BY <2>1, <2>3, <3>1
    <2> QED BY <2>2, <2>3
  <1> QED BY <1>3, <1>4, <1>5

\* A release leaves no entry; what was received stays.
LEMMA ShutdownSteps ==
  ASSUME PipeInv, Shutdown
  PROVE  /\ PipeTypes' /\ Calls'
         /\ \A i \in Indices : Good(i)' => IndexInv(i)'
  <1>1. PipeTypes /\ Calls /\ \A i \in Indices : Good(i) => IndexInv(i)  BY DEF PipeInv
  <1>2. /\ UNCHANGED <<connecting_endpoints, early_endpoints, attempts, to_service, to_client,
                       sessions>>
        /\ pipeendpoints' = EmptyMap /\ shut_down' /\ endpoints' = ShutAll
    BY DEF Shutdown
  <1>3. /\ endpoints' \in Seq({endpoints'[e] : e \in DOMAIN endpoints'})
        /\ DOMAIN endpoints' = DOMAIN endpoints
        /\ \A e \in DOMAIN endpoints :
             /\ endpoints'[e].index = endpoints[e].index
             /\ endpoints'[e].unreliable = endpoints[e].unreliable
             /\ endpoints'[e].receiver = endpoints[e].receiver
             /\ endpoints'[e].undecoded = endpoints[e].undecoded
             /\ endpoints'[e].handed = endpoints[e].handed
             /\ endpoints'[e].session = endpoints[e].session
             /\ endpoints'[e].given_up = endpoints[e].given_up
             /\ IsEndpoint(endpoints'[e])
             /\ IF \E i \in DOMAIN pipeendpoints : pipeendpoints[i] = e
                THEN endpoints'[e].closed /\ endpoints'[e].callbacks = endpoints[e].callbacks + 1
                ELSE endpoints'[e] = endpoints[e]
    BY <1>1, <1>2, ShutdownChanges
  <1>4. Lasting  BY <1>2, <1>3 DEF Lasting
  <1>5. PipeTypes'
    <2>1. AttemptsTyped' /\ SessionsTyped' /\ ToServiceTyped' /\ ToClientTyped'
      BY <1>1, <1>2 DEF PipeTypes, AttemptsTyped, SessionsTyped, ToServiceTyped, ToClientTyped
    <2>2. ASSUME NEW e \in DOMAIN endpoints'
          PROVE  /\ IsEndpoint(endpoints'[e])
                 /\ endpoints'[e].handed =>
                      /\ endpoints'[e].session \in DOMAIN sessions
                      /\ sessions[endpoints'[e].session].index = endpoints'[e].index
                      /\ attempts[sessions[endpoints'[e].session].key] = "connected"
      <3>1. EndpointsTyped  BY <1>1 DEF PipeTypes
      <3>2. /\ e \in DOMAIN endpoints /\ endpoints'[e].index = endpoints[e].index
            /\ endpoints'[e].handed = endpoints[e].handed
            /\ endpoints'[e].session = endpoints[e].session
            /\ IsEndpoint(endpoints'[e])
        BY <1>3
      <3> QED BY <3>1, <3>2 DEF EndpointsTyped
    <2>3. EndpointsTyped'
      BY <1>2, <1>3, <2>2 DEF EndpointsTyped
    <2>4. DOMAIN pipeendpoints' = {}  BY <1>2 DEF EmptyMap
    <2>5. ASSUME NEW i \in DOMAIN early_endpoints
          PROVE  endpoints'[early_endpoints[i]] = endpoints[early_endpoints[i]]
      <3>1. ~endpoints[early_endpoints[i]].handed /\ early_endpoints[i] \in DOMAIN endpoints
        BY <1>1 DEF PipeTypes, TablesTyped
      <3>2. \A j \in DOMAIN pipeendpoints : endpoints[pipeendpoints[j]].handed
        BY <1>1 DEF PipeTypes, TablesTyped
      <3> QED BY <1>3, <3>1, <3>2
    <2>6. TablesTyped'
      BY <1>1, <1>2, <1>3, <2>4, <2>5 DEF PipeTypes, TablesTyped
    <2> QED BY <2>1, <2>3, <2>6 DEF PipeTypes
  <1>6. Calls'
    <2>1. KeysOnce' /\ Awaited'  BY <1>1, <1>2 DEF Calls, KeysOnce, Awaited, Requests
    <2>2. \A i \in Indices : GivenUp(i) => GivenUp(i)'  BY <1>3 DEF GivenUp
    <2>3. ClosesGivenUp'  BY <1>1, <1>2, <2>2 DEF Calls, ClosesGivenUp
    <2> QED BY <2>1, <2>3 DEF Calls
  <1>7. ASSUME NEW i \in Indices, Good(i)' PROVE IndexInv(i)'
    <2>1. IndexInv(i)  BY <1>1, <1>4, <1>7, GoodIndices
    <2>2. SessionsStay(i) /\ Sessions(i)' = Sessions(i)  BY <1>2 DEF SessionsStay, Sessions
    <2>3. TurnsKept(i) /\ NumbersKept(i)  BY <1>2, <2>2, SameKeeps
    <2>4. \A s \in Sessions(i) : Status(s)' = Status(s)  BY <1>2 DEF Status
    <2>5. InTurn(i)'
      <3>1. InTurn(i)  BY <2>1 DEF IndexInv
      <3> QED BY <1>2, <2>2, <2>3, <3>1 DEF InTurn, Status, TurnsKept, Kept
    <2>6. /\ EndpointsOf(i)' = EndpointsOf(i)
          /\ \A e \in EndpointsOf(i) : /\ endpoints'[e].receiver = endpoints[e].receiver
                                       /\ endpoints'[e].undecoded = endpoints[e].undecoded
                                       /\ endpoints'[e].session = endpoints[e].session
                                       /\ endpoints'[e].unreliable = endpoints[e].unreliable
                                       /\ e \in Live' => e \in Live
                                       /\ IsEarly(e)' <=> IsEarly(e)
      BY <1>2, <1>3 DEF EndpointsOf, Live, IsEarly
    <2>7. Streams(i)'
      <3>1. Streams(i)  BY <2>1 DEF IndexInv
      <3> QED BY <1>2, <2>2, <2>3, <2>4, <2>6, <3>1, StreamsKept
    <2> QED BY <1>2, <2>5, <2>7 DEF IndexInv
  <1> QED BY <1>5, <1>6, <1>7

-----------------------------------------------------------------------------
(* The pipe: a message is taken that is not about the index.               *)

\* The messages that are left when one was taken have their types.
LEMMA TakenTypes ==
  ASSUME PipeTypes, to_client # <<>>, to_client' = Tail(to_client), Lasting,
         DOMAIN attempts' = DOMAIN attempts
  PROVE  ToClientTyped'
  <1>1. /\ to_client' \in Seq(FromService)
        /\ \A p \in DOMAIN to_client' : p + 1 \in DOMAIN to_client /\ to_client'[p] = to_client[p + 1]
    BY PipeClientRest
  <1>2. ASSUME NEW p \in DOMAIN to_client'
        PROVE  /\ to_client'[p].type \in {"PipeConnectRet", "PipePacket"} =>
                    /\ to_client'[p].session \in DOMAIN sessions'
                    /\ to_client'[p].index = sessions'[to_client'[p].session].index
               /\ to_client'[p].type = "PipeConnectRet" =>
                    to_client'[p].key = sessions'[to_client'[p].session].key
               /\ to_client'[p].type = "PipeConnectErr" => to_client'[p].key \in DOMAIN attempts'
    <2>1. PICK m : m = to_client'[p] /\ m = to_client[p + 1] /\ p + 1 \in DOMAIN to_client
      BY <1>1
    <2>2. /\ m.type \in {"PipeConnectRet", "PipePacket"} =>
               /\ m.session \in DOMAIN sessions /\ m.index = sessions[m.session].index
          /\ m.type = "PipeConnectRet" => m.key = sessions[m.session].key
          /\ m.type = "PipeConnectErr" => m.key \in DOMAIN attempts
      BY <2>1 DEF PipeTypes, ToClientTyped
    <2> QED BY <2>1, <2>2 DEF Lasting
  <1> QED BY <1>1, <1>2 DEF ToClientTyped

\* The message taken was not about the index.
LEMMA TakenKeeps ==
  ASSUME PipeTypes, to_client # <<>>, to_client' = Tail(to_client), sessions' = sessions, NEW i,
         \A s \in Sessions(i) : ~IsAbout(Head(to_client), s),
         ~IsClosing(Head(to_client), i)
  PROVE  /\ TurnsKept(i) /\ NumbersKept(i) /\ MessagesStay(i)
         /\ \A s \in Sessions(i) : Kept(i, s, 0, 0)
  <1>1. IsRest(to_client, to_client') /\ Head(to_client) = to_client[1]
    BY PipeClientRest
  <1>2. 1 \notin Closings(i, to_client)  BY <1>1 DEF Closings, IsClosing
  <1>3. \A s \in Sessions(i) : 1 \notin Packets(s, to_client) /\ 1 \notin Replies(s, to_client)
    BY <1>1 DEF Packets, Replies, IsAbout
  <1>4. /\ TurnsKept(i) /\ NumbersKept(i)
        /\ \A s \in Sessions(i) : Kept(i, s, 0, 0)
    BY <1>1, <1>2, <1>3, RestKeeps DEF NumbersKept
  <1>5. MessagesStay(i)
    <2>1. \A s \in Sessions(i) : /\ About(s, to_client') # {} => About(s, to_client) # {}
                                 /\ Replies(s, to_client) # {} => Replies(s, to_client') # {}
      BY <1>1, <1>3, PipeRest
    <2> QED BY <2>1 DEF MessagesStay
  <1> QED BY <1>4, <1>5

-----------------------------------------------------------------------------
(* The pipe: a connect fails, by the timer or by the service's answer.     *)

\* An index is lost with the connect that failed, or left.
LEMMA ConnectFailedSteps ==
  ASSUME PipeInv, NEW key \in DOMAIN attempts, attempts[key] = "pending", ConnectFailed(key),
         UNCHANGED <<to_service, sessions>>,
         \/ to_client' = to_client
         \/ /\ to_client # <<>> /\ Head(to_client).type = "PipeConnectErr"
            /\ to_client' = Tail(to_client)
  PROVE  /\ PipeTypes' /\ Calls'
         /\ \A i \in Indices : Good(i)' => IndexInv(i)'
  <1>1. PipeTypes /\ Calls /\ \A i \in Indices : Good(i) => IndexInv(i)  BY DEF PipeInv
  <1>2. /\ UNCHANGED <<pipeendpoints, endpoints, shut_down>>
        /\ connecting_endpoints' = {c \in connecting_endpoints : c.key # key}
        /\ early_endpoints' = IF connecting_endpoints' = {} THEN EmptyMap ELSE early_endpoints
        /\ attempts' = [attempts EXCEPT ![key] = "failed"]
    BY DEF ConnectFailed, StopConnecting, Early
  <1>3. PICK S : S = {"pending", "connected", "failed"} /\ attempts \in Seq(S)
    BY <1>1 DEF PipeTypes, AttemptsTyped
  <1>4. /\ attempts' \in Seq(S) /\ DOMAIN attempts' = DOMAIN attempts
        /\ Len(attempts') = Len(attempts) /\ attempts'[key] = "failed"
        /\ \A k \in DOMAIN attempts : k # key => attempts'[k] = attempts[k]
    <2>1. PICK v \in S : v = "failed"  BY <1>3
    <2> QED BY <1>2, <1>3, <2>1, WireProofs!Replaced
  <1>5. Lasting  BY <1>2, <1>4 DEF Lasting
  <1>6. PipeTypes'
    <2>1. AttemptsTyped'
      BY <1>1, <1>2, <1>3, <1>4 DEF PipeTypes, AttemptsTyped
    <2>2. SessionsTyped'
      BY <1>1, <1>4 DEF PipeTypes, SessionsTyped
    <2>3. EndpointsTyped'
      <3>1. \A k \in DOMAIN attempts : attempts[k] = "connected" => attempts'[k] = "connected"
        BY <1>4
      <3>2. \A s \in DOMAIN sessions : sessions[s].key \in DOMAIN attempts  BY <1>1, PipeShapes
      <3> QED BY <1>1, <1>2, <3>1, <3>2 DEF PipeTypes, EndpointsTyped
    <2>4. TablesTyped'
      <3>1. \A i \in DOMAIN early_endpoints' :
              i \in DOMAIN early_endpoints /\ early_endpoints'[i] = early_endpoints[i]
        <4>1. DOMAIN EmptyMap = {}  BY DEF EmptyMap
        <4> QED BY <1>2, <4>1
      <3> QED BY <1>1, <1>2, <3>1 DEF PipeTypes, TablesTyped
    <2>5. ToServiceTyped'
      BY <1>1, <1>4 DEF PipeTypes, ToServiceTyped
    <2>6. ToClientTyped'
      <3>1. CASE to_client' = to_client
        BY <1>1, <1>4, <3>1 DEF PipeTypes, ToClientTyped
      <3>2. CASE to_client # <<>> /\ to_client' = Tail(to_client)
        BY <1>1, <1>4, <1>5, <3>2, TakenTypes
      <3> QED BY <3>1, <3>2
    <2> QED BY <2>1, <2>2, <2>3, <2>4, <2>5, <2>6 DEF PipeTypes
  <1>7. Calls'
    <2>1. KeysOnce'  BY <1>1 DEF Calls, KeysOnce, Requests
    <2>2. \A k \in DOMAIN attempts' : attempts'[k] # "failed" => k # key /\ attempts'[k] = attempts[k]
      BY <1>4
    <2>3. Awaited'
      <3>1. ASSUME NEW p \in Requests, NEW k \in DOMAIN attempts, to_service[p].key = k
            PROVE  /\ attempts'[k] # "connected"
                   /\ attempts'[k] = "pending" =>
                        \E c \in connecting_endpoints' : c.key = k /\ c.index = to_service[p].index
        BY <1>1, <1>2, <1>4, <2>2, <3>1 DEF Calls, Awaited
      <3>2. ASSUME NEW s \in DOMAIN sessions, NEW k \in DOMAIN attempts, sessions[s].key = k,
                   attempts'[k] = "pending"
            PROVE  \E c \in connecting_endpoints' :
                     c.key = k /\ c.index \in {sessions[s].index, ANY_INDEX}
        BY <1>1, <1>2, <1>4, <2>2, <3>2 DEF Calls, Awaited
      <3> QED BY <1>4, <3>1, <3>2 DEF Awaited, Requests
    <2>4. ClosesGivenUp'  BY <1>1, <1>2 DEF Calls, ClosesGivenUp, GivenUp
    <2> QED BY <2>1, <2>3, <2>4 DEF Calls
  <1>8. ASSUME NEW i \in Indices, Good(i)' PROVE IndexInv(i)'
    <2>1. IndexInv(i)  BY <1>1, <1>5, <1>8, GoodIndices
    <2>2. SessionsStay(i)  BY DEF SessionsStay, Sessions
    <2>3. \A s \in Sessions(i) : s \in DOMAIN sessions /\ sessions[s].key \in DOMAIN attempts
      BY <1>1, PipeShapes DEF Sessions
    <2>4. \A s \in Sessions(i) : Status(s)' = Status(s)
      <3>1. ~Abandoned(i)'  BY <1>8 DEF Good
      <3>2. \A s \in Sessions(i) : attempts'[sessions[s].key] # "failed"
        BY <3>1 DEF Abandoned, Sessions
      <3> QED BY <1>4, <2>3, <3>2 DEF Status
    <2>5. EndpointsStay(i)
      BY <1>2 DEF EndpointsStay, EndpointsOf, Routed
    <2>6. EarlyStays(i)
      <3>1. CASE connecting_endpoints' = {}
        <4>1. \A s \in Sessions(i) : Status(s)' # "pending"
          BY <1>4, <1>7, <2>3, <3>1 DEF Calls, Awaited, Status
        <4>2. \A e \in EndpointsOf(i) : ~IsEarly(e)'
          BY <1>2, <3>1 DEF IsEarly, EmptyMap
        <4> QED BY <4>1, <4>2 DEF EarlyStays
      <3>2. CASE connecting_endpoints' # {}
        BY <1>2, <3>2 DEF EarlyStays, IsEarly
      <3> QED BY <3>1, <3>2
    <2>7. /\ TurnsKept(i) /\ NumbersKept(i) /\ MessagesStay(i)
          /\ \A s \in Sessions(i) : Kept(i, s, 0, 0)
      <3>1. CASE to_client' = to_client
        BY <2>2, <3>1, SameKeeps DEF MessagesStay
      <3>2. CASE /\ to_client # <<>> /\ Head(to_client).type = "PipeConnectErr"
                 /\ to_client' = Tail(to_client)
        <4>1. /\ \A s \in Sessions(i) : ~IsAbout(Head(to_client), s)
              /\ ~IsClosing(Head(to_client), i)
          BY <3>2 DEF IsAbout, IsClosing
        <4> QED BY <1>1, <3>2, <4>1, TakenKeeps
      <3> QED BY <3>1, <3>2
    <2> QED BY <1>1, <1>2, <2>1, <2>2, <2>4, <2>5, <2>6, <2>7, IndexKept
  <1> QED BY <1>6, <1>7, <1>8

-----------------------------------------------------------------------------
(* The pipe: steps of the service.                                         *)

\* What the service does not touch.
clientOnly == <<unreliable, connecting_endpoints, early_endpoints, pipeendpoints, endpoints,
                attempts, shut_down>>

\* The service takes a request.
LEMMA RequestTaken ==
  ASSUME PipeTypes, to_service # <<>>, to_service' = Tail(to_service), attempts' = attempts
  PROVE  /\ ToServiceTyped'
         /\ 1 \in DOMAIN to_service /\ Head(to_service) = to_service[1]
         /\ Head(to_service) \in FromClient
         /\ \A p \in DOMAIN to_service' : /\ p \in Nat /\ p + 1 \in DOMAIN to_service /\ p + 1 # 1
                                          /\ to_service'[p] = to_service[p + 1]
  <1>1. to_service \in Seq(FromClient)  BY DEF PipeTypes, ToServiceTyped
  <1>2. /\ to_service' \in Seq(FromClient) /\ WireProofs!IsRest(to_service, to_service')
        /\ 1 \in DOMAIN to_service /\ Head(to_service) = to_service[1]
        /\ Head(to_service) \in FromClient
    BY <1>1, WireProofs!RestOf
  <1>3. \A p \in DOMAIN to_service' : /\ p \in Nat /\ p + 1 \in DOMAIN to_service /\ p + 1 # 1
                                      /\ to_service'[p] = to_service[p + 1]
    BY <1>2 DEF WireProofs!IsRest
  <1>4. ASSUME NEW p \in DOMAIN to_service', to_service'[p].type = "PipeConnectReq"
        PROVE  to_service'[p].key \in DOMAIN attempts
    <2>1. PICK q \in DOMAIN to_service : to_service'[p] = to_service[q]  BY <1>3
    <2> QED BY <1>4, <2>1 DEF PipeTypes, ToServiceTyped
  <1> QED BY <1>2, <1>3, <1>4 DEF ToServiceTyped

\* What a session is about does not change.
SameSessions == /\ DOMAIN sessions' = DOMAIN sessions
                /\ \A s \in DOMAIN sessions : /\ sessions'[s].index = sessions[s].index
                                              /\ sessions'[s].key = sessions[s].key
                                              /\ sessions[s].unheard => sessions'[s].unheard

\* The service takes a request, or none, and makes no session.
LEMMA ServiceCalls ==
  ASSUME PipeTypes, Calls, UNCHANGED clientOnly, SameSessions,
         \/ to_service' = to_service
         \/ to_service # <<>> /\ to_service' = Tail(to_service)
  PROVE  Calls'
  <1>1. UNCHANGED <<connecting_endpoints, endpoints, attempts>>  BY DEF clientOnly
  <1>2. \A p \in DOMAIN to_service' : \E q \in DOMAIN to_service : to_service'[p] = to_service[q]
    BY <1>1, RequestTaken
  <1>3. ASSUME NEW p \in Requests', NEW q \in Requests', p # q
        PROVE  to_service'[p].key # to_service'[q].key
    <2>1. CASE to_service' = to_service
      BY <1>3, <2>1 DEF Calls, KeysOnce, Requests
    <2>2. CASE to_service # <<>> /\ to_service' = Tail(to_service)
      <3>1. /\ p \in Nat /\ p + 1 \in DOMAIN to_service /\ to_service'[p] = to_service[p + 1]
            /\ q \in Nat /\ q + 1 \in DOMAIN to_service /\ to_service'[q] = to_service[q + 1]
        BY <1>1, <2>2, RequestTaken DEF Requests
      <3>2. p + 1 \in Requests /\ q + 1 \in Requests /\ p + 1 # q + 1
        BY <1>3, <3>1 DEF Requests
      <3> QED BY <3>1, <3>2 DEF Calls, KeysOnce
    <2> QED BY <2>1, <2>2
  <1>4. \A p \in Requests' : \E q \in Requests : to_service'[p] = to_service[q]
    BY <1>2 DEF Requests
  <1>5. KeysOnce'
    BY <1>3, <1>4 DEF Calls, KeysOnce, SameSessions
  <1>6. Awaited'
    <2>1. ASSUME NEW p \in Requests', NEW k \in DOMAIN attempts, to_service'[p].key = k
          PROVE  /\ attempts[k] # "connected"
                 /\ attempts[k] = "pending" =>
                      \E c \in connecting_endpoints : c.key = k /\ c.index = to_service'[p].index
      BY <1>4, <2>1 DEF Calls, Awaited
    <2>2. ASSUME NEW s \in DOMAIN sessions, NEW k \in DOMAIN attempts, sessions'[s].key = k,
                 attempts[k] = "pending"
          PROVE  \E c \in connecting_endpoints :
                   c.key = k /\ c.index \in {sessions'[s].index, ANY_INDEX}
      BY <2>2 DEF Calls, Awaited, SameSessions
    <2> QED BY <1>1, <2>1, <2>2 DEF Awaited, SameSessions
  <1>7. ClosesGivenUp'
    <2>1. \A i \in Indices : GivenUp(i) => GivenUp(i)'  BY <1>1 DEF GivenUp
    <2> QED BY <1>2, <2>1 DEF Calls, ClosesGivenUp
  <1> QED BY <1>5, <1>6, <1>7 DEF Calls

\* Types after a step of the service.
LEMMA ServiceTypes ==
  ASSUME PipeTypes, UNCHANGED clientOnly, Lasting, SessionsTyped', ToServiceTyped', ToClientTyped'
  PROVE  PipeTypes'
  <1>1. UNCHANGED <<connecting_endpoints, early_endpoints, pipeendpoints, endpoints, attempts>>
    BY DEF clientOnly
  <1>2. AttemptsTyped' /\ TablesTyped'
    BY <1>1 DEF PipeTypes, AttemptsTyped, TablesTyped
  <1>3. EndpointsTyped'
    BY <1>1 DEF PipeTypes, EndpointsTyped, Lasting
  <1> QED BY <1>2, <1>3 DEF PipeTypes

\* The service sends a message.
LEMMA ReplyTypes ==
  ASSUME PipeTypes, Lasting, attempts' = attempts, NEW m \in FromService,
         to_client' = Append(to_client, m),
         m.type \in {"PipeConnectRet", "PipePacket"} =>
           m.session \in DOMAIN sessions /\ m.index = sessions[m.session].index,
         m.type = "PipeConnectRet" => m.key = sessions[m.session].key,
         m.type = "PipeConnectErr" => m.key \in DOMAIN attempts
  PROVE  ToClientTyped' /\ IsMore(to_client, m, to_client')
  <1>1. to_client \in Seq(FromService)  BY DEF PipeTypes, ToClientTyped
  <1>2. to_client' \in Seq(FromService) /\ WireProofs!IsMore(to_client, m, to_client')
    BY <1>1, WireProofs!MoreOf
  <1>3. \A p \in DOMAIN to_client' :
          to_client'[p] = m \/ (p \in DOMAIN to_client /\ to_client'[p] = to_client[p])
    BY <1>2 DEF WireProofs!IsMore
  <1>4. ASSUME NEW x \in FromService, x = m \/ \E p \in DOMAIN to_client : x = to_client[p]
        PROVE  /\ x.type \in {"PipeConnectRet", "PipePacket"} =>
                    /\ x.session \in DOMAIN sessions'
                    /\ x.index = sessions'[x.session].index
               /\ x.type = "PipeConnectRet" => x.key = sessions'[x.session].key
               /\ x.type = "PipeConnectErr" => x.key \in DOMAIN attempts'
    BY <1>4 DEF PipeTypes, ToClientTyped, Lasting
  <1>5. \A p \in DOMAIN to_client' : to_client'[p] \in FromService
    BY <1>2
  <1> QED BY <1>2, <1>3, <1>4, <1>5 DEF ToClientTyped, IsMore

\* What a step of the service leaves of the client.
LEMMA ClientStays ==
  ASSUME UNCHANGED clientOnly, SameSessions
  PROVE  /\ Lasting /\ shut_down' = shut_down /\ attempts' = attempts
         /\ \A i : /\ EndpointsStay(i) /\ EarlyStays(i) /\ Sessions(i)' = Sessions(i)
                   /\ \A s \in Sessions(i) : Status(s)' = Status(s)
                   /\ \A e \in EndpointsOf(i) : e \in Live' <=> e \in Live
  <1>1. UNCHANGED <<connecting_endpoints, early_endpoints, pipeendpoints, endpoints, attempts,
                    shut_down>>
    BY DEF clientOnly
  <1>2. Lasting  BY <1>1 DEF Lasting, SameSessions
  <1>3. \A i : EndpointsStay(i) /\ EarlyStays(i) /\ Sessions(i)' = Sessions(i)
    BY <1>1 DEF EndpointsStay, EndpointsOf, EarlyStays, Routed, IsEarly, Sessions, SameSessions
  <1>4. \A i : \A s \in Sessions(i) : Status(s)' = Status(s)
    BY <1>1 DEF Status, SameSessions, Sessions
  <1>5. \A i : \A e \in EndpointsOf(i) : e \in Live' <=> e \in Live
    BY <1>1 DEF EndpointsOf, Live
  <1> QED BY <1>1, <1>2, <1>3, <1>4, <1>5

\* The packets on their way are numbered.
LEMMA PacketNums ==
  ASSUME PipeTypes, NEW s, NEW p \in Packets(s, to_client)
  PROVE  to_client[p].packetnum \in 1..MaxPackets
  <1>1. PICK m : m = to_client[p] /\ m \in FromService
    BY DEF PipeTypes, ToClientTyped, Packets
  <1>2. m.type = "PipePacket"  BY <1>1 DEF Packets
  <1>3. m \in [type : {"PipePacket"}, index : Indices, session : Nat, packetnum : 1..MaxPackets]
    BY <1>1, <1>2 DEF FromService
  <1> QED BY <1>1, <1>3

\* A message that is not about the index leaves its invariant.
LEMMA OtherSent ==
  ASSUME PipeTypes, UNCHANGED clientOnly, SameSessions, NEW m, IsMore(to_client, m, to_client'),
         NEW i \in Indices, IndexInv(i), \A s \in Sessions(i) : sessions'[s] = sessions[s],
         \A s \in Sessions(i) : ~IsAbout(m, s), ~IsClosing(m, i)
  PROVE  IndexInv(i)'
  <1>1. /\ shut_down' = shut_down /\ EndpointsStay(i) /\ EarlyStays(i) /\ Sessions(i)' = Sessions(i)
        /\ \A s \in Sessions(i) : Status(s)' = Status(s)
    BY ClientStays
  <1>2. SessionsStay(i)  BY <1>1 DEF SessionsStay
  <1>3. Follows(m, i)  BY <1>1 DEF Follows
  <1>4. TurnsKept(i) /\ \A s \in Sessions(i) : Kept(i, s, 0, 0)  BY <1>3, MoreKeeps
  <1>5. NumbersKept(i)
    <2> SUFFICES ASSUME NEW s \in Sessions(i), NEW k \in Nat, Numbered(s, k)
                 PROVE  Numbered(s, k)'
      BY DEF NumbersKept
    <2>1. sessions[s].sent \in Nat
      <3>1. sessions[s] \in Session  BY PipeShapes DEF Sessions
      <3> QED BY <3>1, BoundsAssumption DEF Session
    <2>2. \A p \in Packets(s, to_client) : to_client[p].packetnum \in Nat
      BY PacketNums, BoundsAssumption
    <2>3. ~(m.type = "PipePacket" /\ m.session = s)  BY DEF IsAbout
    <2> QED BY <2>1, <2>2, <2>3, NumberedMore
  <1>6. MessagesStay(i)
    <2> SUFFICES ASSUME NEW s \in Sessions(i)
                 PROVE  /\ About(s, to_client') # {} => About(s, to_client) # {}
                        /\ Replies(s, to_client) # {} => Replies(s, to_client') # {}
      BY DEF MessagesStay
    <2>1. ~IsAbout(m, s)  OBVIOUS
    <2>2. Replies(s, to_client') \subseteq Replies(s, to_client)
          /\ Packets(s, to_client') \subseteq Packets(s, to_client)
          /\ Replies(s, to_client) \subseteq Replies(s, to_client')
      BY <2>1, PipeMore DEF IsAbout
    <2> QED BY <2>2 DEF About
  <1> QED BY <1>1, <1>2, <1>4, <1>5, <1>6, IndexKept

\* A refusal is about no session.
LEMMA ServiceRefusesSteps ==
  ASSUME PipeInv, ServiceRefuses, UNCHANGED clientOnly
  PROVE  /\ PipeTypes' /\ Calls'
         /\ \A i \in Indices : Good(i)' => IndexInv(i)'
  <1>1. PipeTypes /\ Calls /\ \A i \in Indices : Good(i) => IndexInv(i)  BY DEF PipeInv
  <1>2. PICK m : /\ m = [type |-> "PipeConnectErr", key |-> Head(to_service).key]
                 /\ to_client' = Append(to_client, m)
    BY DEF ServiceRefuses
  <1>3. /\ to_service # <<>> /\ Head(to_service).type = "PipeConnectReq"
        /\ to_service' = Tail(to_service) /\ sessions' = sessions
    BY DEF ServiceRefuses
  <1>4. SameSessions  BY <1>3 DEF SameSessions
  <1>5. Lasting /\ attempts' = attempts  BY <1>4, ClientStays
  <1>6. /\ ToServiceTyped' /\ Head(to_service) \in FromClient
        /\ 1 \in DOMAIN to_service /\ Head(to_service) = to_service[1]
    BY <1>1, <1>3, <1>5, RequestTaken
  <1>7. m.key \in DOMAIN attempts /\ m.type = "PipeConnectErr"
    BY <1>1, <1>2, <1>3, <1>6 DEF PipeTypes, ToServiceTyped
  <1>8. m \in FromService
    <2>1. m.key \in Nat  BY <1>1, <1>7, PipeShapes
    <2> QED BY <1>2, <2>1 DEF FromService
  <1>9. ToClientTyped' /\ IsMore(to_client, m, to_client')
    BY <1>1, <1>2, <1>5, <1>7, <1>8, ReplyTypes
  <1>10. PipeTypes'
    <2>1. SessionsTyped'  BY <1>1, <1>3, <1>5 DEF PipeTypes, SessionsTyped
    <2> QED BY <1>1, <1>5, <1>6, <1>9, <2>1, ServiceTypes
  <1>11. Calls'  BY <1>1, <1>3, <1>4, ServiceCalls
  <1>12. ASSUME NEW i \in Indices, Good(i)' PROVE IndexInv(i)'
    <2>1. IndexInv(i)  BY <1>1, <1>5, <1>12, GoodIndices
    <2>2. ~IsClosing(m, i) /\ \A s \in Sessions(i) : ~IsAbout(m, s)
      BY <1>7 DEF IsClosing, IsAbout
    <2> QED BY <1>1, <1>3, <1>4, <1>9, <2>1, <2>2, OtherSent
  <1> QED BY <1>10, <1>11, <1>12

\* The service closes what the caller gave up.
LEMMA ServiceDisconnectsSteps ==
  ASSUME PipeInv, ServiceDisconnects, UNCHANGED clientOnly
  PROVE  /\ PipeTypes' /\ Calls'
         /\ \A i \in Indices : Good(i)' => IndexInv(i)'
  <1>1. PipeTypes /\ Calls /\ \A i \in Indices : Good(i) => IndexInv(i)  BY DEF PipeInv
  <1>2. /\ to_service # <<>> /\ Head(to_service).type = "PipeDisconnectReq"
        /\ to_service' = Tail(to_service) /\ to_client' = to_client
    BY DEF ServiceDisconnects
  <1>3. sessions' = [s \in DOMAIN sessions |->
                       IF sessions[s].index = Head(to_service).index
                       THEN [sessions[s] EXCEPT !.open = FALSE]
                       ELSE sessions[s]]
    BY DEF ServiceDisconnects
  <1>4. /\ DOMAIN sessions' = DOMAIN sessions
        /\ \A s \in DOMAIN sessions :
             /\ sessions[s].index # Head(to_service).index => sessions'[s] = sessions[s]
             /\ sessions[s] \in Session /\ sessions'[s] \in Session
             /\ sessions'[s].index = sessions[s].index /\ sessions'[s].key = sessions[s].key
             /\ sessions'[s].unheard = sessions[s].unheard
    BY <1>1, <1>3, PipeShapes DEF Session
  <1>5. SameSessions  BY <1>4 DEF SameSessions
  <1>6. Lasting /\ attempts' = attempts /\ shut_down' = shut_down  BY <1>5, ClientStays
  <1>7. /\ ToServiceTyped' /\ Head(to_service) \in FromClient
        /\ 1 \in DOMAIN to_service /\ Head(to_service) = to_service[1]
    BY <1>1, <1>2, <1>6, RequestTaken
  <1>8. PICK n \in Indices : n = Head(to_service).index
    BY <1>2, <1>7 DEF FromClient
  <1>9. GivenUp(n)
    BY <1>1, <1>2, <1>7, <1>8 DEF Calls, ClosesGivenUp
  <1>10. PipeTypes'
    <2>1. sessions' \in Seq(Session)
      <3>1. DOMAIN sessions = 1..Len(sessions) /\ Len(sessions) \in Nat  BY <1>1, PipeShapes
      <3>2. sessions' = [s \in 1..Len(sessions) |-> sessions'[s]]  BY <1>3, <3>1
      <3> QED BY <1>4, <3>1, <3>2
    <2>2. SessionsTyped'
      BY <1>1, <1>4, <1>6, <2>1 DEF PipeTypes, SessionsTyped, Session
    <2>3. ToClientTyped'
      BY <1>1, <1>2, <1>4, <1>6 DEF PipeTypes, ToClientTyped
    <2> QED BY <1>1, <1>6, <1>7, <2>2, <2>3, ServiceTypes
  <1>11. Calls'  BY <1>1, <1>2, <1>5, ServiceCalls
  <1>12. ASSUME NEW i \in Indices, Good(i)' PROVE IndexInv(i)'
    <2>1. IndexInv(i) /\ Good(i)  BY <1>1, <1>6, <1>12, GoodIndices
    <2>2. i # n  BY <1>9, <2>1 DEF Good
    <2>3. /\ EndpointsStay(i) /\ EarlyStays(i) /\ Sessions(i)' = Sessions(i)
          /\ \A s \in Sessions(i) : Status(s)' = Status(s)
      BY <1>5, ClientStays
    <2>4. SessionsStay(i)  BY <1>4, <1>8, <2>2, <2>3 DEF SessionsStay, Sessions
    <2>5. MessagesStay(i)  BY <1>2 DEF MessagesStay
    <2> QED BY <1>1, <1>2, <1>6, <2>1, <2>3, <2>4, <2>5, SameKeeps, IndexKept
  <1> QED BY <1>10, <1>11, <1>12

\* One session changes, but not what it is about.
LEMMA SessionAt ==
  ASSUME PipeTypes, attempts' = attempts, NEW s \in DOMAIN sessions, NEW v \in Session,
         sessions' = [sessions EXCEPT ![s] = v],
         v.index = sessions[s].index, v.key = sessions[s].key,
         sessions[s].unheard => v.unheard
  PROVE  /\ SessionsTyped' /\ SameSessions /\ sessions'[s] = v
         /\ \A t \in DOMAIN sessions : t # s => sessions'[t] = sessions[t]
  <1>1. sessions \in Seq(Session)  BY DEF PipeTypes, SessionsTyped, Session
  <1>2. /\ sessions' \in Seq(Session) /\ DOMAIN sessions' = DOMAIN sessions /\ sessions'[s] = v
        /\ \A t \in DOMAIN sessions : t # s => sessions'[t] = sessions[t]
    BY <1>1, WireProofs!Replaced
  <1>3. SameSessions  BY <1>2 DEF SameSessions
  <1>4. SessionsTyped'
    BY <1>2, <1>3 DEF PipeTypes, SessionsTyped, Session, SameSessions
  <1> QED BY <1>2, <1>3, <1>4

\* A message of the open session leaves the invariant of its index.
LEMMA OwnSent ==
  ASSUME PipeTypes, UNCHANGED clientOnly, SameSessions, NEW m, IsMore(to_client, m, to_client'),
         NEW i \in Indices, IndexInv(i), Follows(m, i),
         \A s \in Sessions(i) :
           /\ sessions'[s].open => sessions[s].open
           /\ sessions'[s].replied \/ sessions'[s].open
           /\ sessions'[s].replied => sessions[s].replied \/ (m.type = "PipeConnectRet" /\ m.session = s)
           /\ sessions[s].sent \in Nat
           /\ \/ /\ ~(m.type = "PipePacket" /\ m.session = s)
                 /\ sessions'[s].sent = sessions[s].sent
              \/ /\ m.type = "PipePacket" /\ m.session = s
                 /\ sessions'[s].sent = sessions[s].sent + 1
                 /\ m.packetnum = sessions[s].sent + 1
  PROVE  IndexInv(i)'
  <1>1. /\ shut_down' = shut_down /\ EndpointsStay(i) /\ EarlyStays(i) /\ Sessions(i)' = Sessions(i)
        /\ \A s \in Sessions(i) : Status(s)' = Status(s)
        /\ \A e \in EndpointsOf(i) : e \in Live' <=> e \in Live
    BY ClientStays
  <1>2. TurnsKept(i) /\ \A s \in Sessions(i) : Kept(i, s, 0, 0)  BY MoreKeeps
  <1>3. NumbersKept(i)
    <2> SUFFICES ASSUME NEW s \in Sessions(i), NEW k \in Nat, Numbered(s, k)
                 PROVE  Numbered(s, k)'
      BY DEF NumbersKept
    <2>1. \A p \in Packets(s, to_client) : to_client[p].packetnum \in Nat
      BY PacketNums, BoundsAssumption
    <2> QED BY <2>1, NumberedMore
  <1>4. InTurn(i)'
    <2>1. ASSUME NEW s \in Sessions(i), Status(s)' = "pending", sessions'[s].replied
          PROVE  Replies(s, to_client') # {}
      <3>1. CASE sessions[s].replied
        <4>1. Replies(s, to_client) # {}  BY <1>1, <2>1, <3>1 DEF IndexInv, InTurn
        <4> QED BY <4>1, PipeMore
      <3>2. CASE m.type = "PipeConnectRet" /\ m.session = s
        BY <3>2, PipeMore
      <3> QED BY <2>1, <3>1, <3>2
    <2> QED BY <1>1, <1>2, <2>1, InTurnKept DEF IndexInv
  <1>5. ~shut_down => Entries(i)'
    <2>1. \A e \in EndpointsOf(i) : Routed(e) => endpoints[e].session \in Sessions(i)
      BY HandedSession
    <2>2. ASSUME NEW s \in Sessions(i), sessions'[s].open \/ About(s, to_client') # {}
          PROVE  sessions[s].open \/ About(s, to_client) # {}
      <3>1. IsAbout(m, s) => sessions[s].open  BY DEF Follows
      <3>2. ~IsAbout(m, s) => About(s, to_client') \subseteq About(s, to_client)
        BY PipeMore DEF IsAbout, About
      <3> QED BY <2>2, <3>1, <3>2
    <2>3. EndpointsOf(i)' = EndpointsOf(i) /\ \A e \in EndpointsOf(i) :
            /\ Routed(e)' <=> Routed(e)
            /\ e \in Live' => e \in Live
            /\ endpoints'[e].session = endpoints[e].session
      BY <1>1 DEF EndpointsStay
    <2>4. ~shut_down => Entries(i)  BY DEF IndexInv
    <2> QED BY <1>1, <1>2, <2>1, <2>2, <2>3, <2>4, EntriesKept
  <1>6. Streams(i)'
    <2>1. EndpointsOf(i)' = EndpointsOf(i) /\ \A e \in EndpointsOf(i) :
            /\ endpoints'[e].receiver = endpoints[e].receiver
            /\ endpoints'[e].undecoded = endpoints[e].undecoded
            /\ endpoints'[e].session = endpoints[e].session
            /\ endpoints'[e].unreliable = endpoints[e].unreliable
            /\ e \in Live' => e \in Live
      BY <1>1 DEF EndpointsStay
    <2>2. \/ /\ \A e \in EndpointsOf(i) : IsEarly(e)' <=> IsEarly(e)
             /\ \A s \in Sessions(i) : Status(s) = "pending" => Status(s)' = "pending"
          \/ /\ \A e \in EndpointsOf(i) : ~IsEarly(e)'
             /\ \A s \in Sessions(i)' : Status(s)' # "pending"
      BY <1>1 DEF EarlyStays
    <2>3. Streams(i)  BY DEF IndexInv
    <2>4. \A s \in Sessions(i)' : Status(s)' = "pending" =>
            \/ Numbered(s, 0)'
            \/ s \in Sessions(i) /\ Status(s) = "pending"
      BY <1>1
    <2> QED BY <1>1, <1>2, <1>3, <2>1, <2>2, <2>3, <2>4, StreamsKept
  <1> QED BY <1>1, <1>4, <1>5, <1>6 DEF IndexInv

\* Session s becomes v and the service sends m for it.
Sends(s, v, m) ==
  /\ s \in DOMAIN sessions /\ v \in Session /\ m \in FromService
  /\ sessions' = [sessions EXCEPT ![s] = v]
  /\ v.index = sessions[s].index /\ v.key = sessions[s].key
  /\ sessions[s].unheard => v.unheard
  /\ to_client' = Append(to_client, m)
  /\ m.index = sessions[s].index
  /\ m.type # "PipeConnectErr"
  /\ m.type \in {"PipeConnectRet", "PipePacket"} => m.session = s
  /\ m.type = "PipeConnectRet" => m.key = sessions[s].key

\* What every such step keeps: all but the invariant of the index it is sent for.
SentKeeps(s, v, m) ==
  /\ PipeTypes' /\ Calls' /\ SameSessions /\ IsMore(to_client, m, to_client')
  /\ \A i \in Indices : Good(i)' => IndexInv(i)
  /\ \A i \in Indices : Good(i)' /\ i # m.index => IndexInv(i)'
  /\ sessions'[s] = v
  /\ \A t \in DOMAIN sessions : t # s => sessions'[t] = sessions[t]

\* The service replies, sends a packet or closes: the types, and what is left to show.
LEMMA SentTypes ==
  ASSUME PipeInv, UNCHANGED clientOnly, to_service' = to_service,
         NEW s, NEW v, NEW m, Sends(s, v, m)
  PROVE  SentKeeps(s, v, m)
  <1>a. s \in DOMAIN sessions /\ v \in Session /\ m \in FromService  BY DEF Sends
  <1>b. /\ sessions' = [sessions EXCEPT ![s] = v]
        /\ v.index = sessions[s].index /\ v.key = sessions[s].key
        /\ sessions[s].unheard => v.unheard
    BY DEF Sends
  <1>c. /\ to_client' = Append(to_client, m)
        /\ m.index = sessions[s].index
        /\ m.type # "PipeConnectErr"
        /\ m.type \in {"PipeConnectRet", "PipePacket"} => m.session = s
        /\ m.type = "PipeConnectRet" => m.key = sessions[s].key
    BY DEF Sends
  <1>1. PipeTypes /\ Calls /\ \A i \in Indices : Good(i) => IndexInv(i)  BY DEF PipeInv
  <1>2. attempts' = attempts  BY DEF clientOnly
  <1>3. /\ SessionsTyped' /\ SameSessions /\ sessions'[s] = v
        /\ \A t \in DOMAIN sessions : t # s => sessions'[t] = sessions[t]
    BY <1>1, <1>2, <1>a, <1>b, SessionAt
  <1>4. Lasting  BY <1>3, ClientStays
  <1>5. ToClientTyped' /\ IsMore(to_client, m, to_client')
    BY <1>1, <1>2, <1>4, <1>a, <1>c, ReplyTypes
  <1>6. ToServiceTyped'  BY <1>1, <1>2 DEF PipeTypes, ToServiceTyped
  <1>7. PipeTypes'  BY <1>1, <1>3, <1>4, <1>5, <1>6, ServiceTypes
  <1>8. Calls'  BY <1>1, <1>3, ServiceCalls
  <1>9. \A i \in Indices : Good(i)' => IndexInv(i)  BY <1>1, <1>4, GoodIndices
  <1>10. ASSUME NEW i \in Indices, Good(i)', i # m.index PROVE IndexInv(i)'
    <2>1. s \notin Sessions(i)  BY <1>c, <1>10 DEF Sessions
    <2>2. \A t \in Sessions(i) : ~IsAbout(m, t) /\ sessions'[t] = sessions[t]
      BY <1>3, <1>a, <1>c, <2>1 DEF IsAbout, Sessions
    <2>3. ~IsClosing(m, i)  BY <1>10 DEF IsClosing
    <2> QED BY <1>1, <1>3, <1>5, <1>9, <1>10, <1>a, <2>2, <2>3, OtherSent
  <1> QED BY <1>3, <1>5, <1>7, <1>8, <1>9, <1>10 DEF SentKeeps

\* The service replies to a connect.
LEMMA ServiceRepliesSteps ==
  ASSUME PipeInv, ServiceReplies, UNCHANGED clientOnly
  PROVE  /\ PipeTypes' /\ Calls'
         /\ \A i \in Indices : Good(i)' => IndexInv(i)'
  <1>1. PipeTypes  BY DEF PipeInv
  <1>2. PICK s \in DOMAIN sessions, confirmed \in BOOLEAN :
          /\ ~sessions[s].replied
          /\ sessions' = [sessions EXCEPT ![s].replied = TRUE]
          /\ to_client' = Append(to_client,
               [type |-> "PipeConnectRet", key |-> sessions[s].key, session |-> s,
                index |-> sessions[s].index, unreliable |-> confirmed])
    BY DEF ServiceReplies
  <1>3. to_service' = to_service  BY DEF ServiceReplies
  <1>4. s \in Nat /\ sessions[s] \in Session  BY <1>1, PipeShapes
  <1>5. PICK v : v = [sessions[s] EXCEPT !.replied = TRUE]  OBVIOUS
  <1>6. /\ v \in Session /\ v.index = sessions[s].index /\ v.key = sessions[s].key
        /\ v.open = sessions[s].open /\ v.sent = sessions[s].sent /\ v.unheard = sessions[s].unheard
    BY <1>4, <1>5 DEF Session
  <1>7. sessions' = [sessions EXCEPT ![s] = v]  BY <1>2, <1>5
  <1>8. PICK m : m = [type |-> "PipeConnectRet", key |-> sessions[s].key, session |-> s,
                      index |-> sessions[s].index, unreliable |-> confirmed]
    OBVIOUS
  <1>9. m \in FromService /\ m.type = "PipeConnectRet" /\ m.session = s /\ m.index = sessions[s].index
        /\ m.key = sessions[s].key
    BY <1>4, <1>8 DEF FromService, Session
  <1>10. to_client' = Append(to_client, m)  BY <1>2, <1>8
  <1>s. Sends(s, v, m)  BY <1>6, <1>7, <1>9, <1>10 DEF Sends
  <1>k. SentKeeps(s, v, m)  BY <1>3, <1>s, SentTypes
  <1>11. /\ PipeTypes' /\ Calls' /\ SameSessions /\ IsMore(to_client, m, to_client')
         /\ \A i \in Indices : Good(i)' => IndexInv(i)
         /\ \A i \in Indices : Good(i)' /\ i # m.index => IndexInv(i)'
         /\ sessions'[s] = v
         /\ \A t \in DOMAIN sessions : t # s => sessions'[t] = sessions[t]
    BY <1>k DEF SentKeeps
  <1>12. ASSUME NEW i \in Indices, Good(i)', i = m.index PROVE IndexInv(i)'
    <2>1. IndexInv(i)  BY <1>11, <1>12
    <2>2. s \in Sessions(i) /\ \A t \in Sessions(i) : t \in DOMAIN sessions
      BY <1>9, <1>12 DEF Sessions
    <2>3. \A t \in Sessions(i) : t # s => sessions'[t] = sessions[t]  BY <1>11, <2>2
    <2>4. sessions[s].open /\ \A t \in Sessions(i) : ~(s < t)
      BY <1>2, <2>1, <2>2 DEF IndexInv, InTurn
    <2>5. Sessions(i)' = Sessions(i)  BY <1>11 DEF Sessions, SameSessions
    <2>6. Follows(m, i)
      <3>1. ASSUME NEW t \in Sessions(i)
            PROVE  /\ IsAbout(m, t) => t = s
                   /\ ~IsClosing(m, i) /\ (sessions'[t].open <=> sessions[t].open)
        BY <1>6, <1>9, <1>11, <2>3 DEF IsAbout, IsClosing
      <3> QED BY <2>4, <2>5, <3>1 DEF Follows
    <2>7. \A t \in Sessions(i) : sessions[t].replied \/ sessions[t].open
      BY <2>1 DEF IndexInv, InTurn
    <2>8. \A t \in Sessions(i) : sessions[t].sent \in Nat
      BY <1>1, <2>2, PipeShapes, BoundsAssumption DEF Session
    <2>9. ASSUME NEW t \in Sessions(i)
          PROVE  /\ sessions'[t].open => sessions[t].open
                 /\ sessions'[t].replied \/ sessions'[t].open
                 /\ sessions'[t].replied =>
                      sessions[t].replied \/ (m.type = "PipeConnectRet" /\ m.session = t)
                 /\ sessions[t].sent \in Nat
                 /\ ~(m.type = "PipePacket" /\ m.session = t)
                 /\ sessions'[t].sent = sessions[t].sent
      BY <1>6, <1>9, <1>11, <2>3, <2>4, <2>7, <2>8
    <2> QED BY <1>1, <1>11, <2>1, <2>6, <2>9, OwnSent
  <1> QED BY <1>11, <1>12

\* The service sends a packet.
LEMMA ServiceSendsSteps ==
  ASSUME PipeInv, ServiceSends, UNCHANGED clientOnly
  PROVE  /\ PipeTypes' /\ Calls'
         /\ \A i \in Indices : Good(i)' => IndexInv(i)'
  <1>1. PipeTypes  BY DEF PipeInv
  <1>2. PICK s \in DOMAIN sessions :
          /\ sessions[s].open /\ sessions[s].sent < MaxPackets
          /\ sessions' = [sessions EXCEPT ![s].sent = @ + 1]
          /\ to_client' = Append(to_client,
               [type |-> "PipePacket", index |-> sessions[s].index, session |-> s,
                packetnum |-> sessions[s].sent + 1])
    BY DEF ServiceSends
  <1>3. to_service' = to_service  BY DEF ServiceSends
  <1>4. s \in Nat /\ sessions[s] \in Session  BY <1>1, PipeShapes
  <1>5. PICK n \in 1..MaxPackets : n = sessions[s].sent + 1
    BY <1>2, <1>4, BoundsAssumption DEF Session
  <1>6. PICK v : v = [sessions[s] EXCEPT !.sent = n]  OBVIOUS
  <1>7. /\ v \in Session /\ v.index = sessions[s].index /\ v.key = sessions[s].key
        /\ v.open = sessions[s].open /\ v.replied = sessions[s].replied /\ v.sent = n
        /\ v.unheard = sessions[s].unheard
    BY <1>4, <1>6, BoundsAssumption DEF Session
  <1>8. sessions' = [sessions EXCEPT ![s] = v]  BY <1>2, <1>5, <1>6
  <1>9. PICK m : m = [type |-> "PipePacket", index |-> sessions[s].index, session |-> s,
                      packetnum |-> n]
    OBVIOUS
  <1>10. /\ m \in FromService /\ m.type = "PipePacket" /\ m.session = s
         /\ m.index = sessions[s].index /\ m.packetnum = n
    BY <1>4, <1>9 DEF FromService, Session
  <1>11. to_client' = Append(to_client, m)  BY <1>2, <1>5, <1>9
  <1>s. Sends(s, v, m)  BY <1>7, <1>8, <1>10, <1>11 DEF Sends
  <1>k. SentKeeps(s, v, m)  BY <1>3, <1>s, SentTypes
  <1>12. /\ PipeTypes' /\ Calls' /\ SameSessions /\ IsMore(to_client, m, to_client')
         /\ \A i \in Indices : Good(i)' => IndexInv(i)
         /\ \A i \in Indices : Good(i)' /\ i # m.index => IndexInv(i)'
         /\ sessions'[s] = v
         /\ \A t \in DOMAIN sessions : t # s => sessions'[t] = sessions[t]
    BY <1>k DEF SentKeeps
  <1>13. ASSUME NEW i \in Indices, Good(i)', i = m.index PROVE IndexInv(i)'
    <2>1. IndexInv(i)  BY <1>12, <1>13
    <2>2. s \in Sessions(i) /\ \A t \in Sessions(i) : t \in DOMAIN sessions
      BY <1>10, <1>13 DEF Sessions
    <2>3. \A t \in Sessions(i) : t # s => sessions'[t] = sessions[t]  BY <1>12, <2>2
    <2>4. \A t \in Sessions(i) : ~(s < t)
      BY <1>2, <2>1, <2>2 DEF IndexInv, InTurn
    <2>5. Sessions(i)' = Sessions(i)  BY <1>12 DEF Sessions, SameSessions
    <2>6. Follows(m, i)
      <3>1. ASSUME NEW t \in Sessions(i)
            PROVE  /\ IsAbout(m, t) => t = s
                   /\ ~IsClosing(m, i) /\ (sessions'[t].open <=> sessions[t].open)
        BY <1>7, <1>10, <1>12, <2>3 DEF IsAbout, IsClosing
      <3> QED BY <1>2, <2>4, <2>5, <3>1 DEF Follows
    <2>7. \A t \in Sessions(i) : sessions[t].replied \/ sessions[t].open
      BY <2>1 DEF IndexInv, InTurn
    <2>8. \A t \in Sessions(i) : sessions[t].sent \in Nat
      BY <1>1, <2>2, PipeShapes, BoundsAssumption DEF Session
    <2>9. ASSUME NEW t \in Sessions(i)
          PROVE  /\ sessions'[t].open => sessions[t].open
                 /\ sessions'[t].replied \/ sessions'[t].open
                 /\ sessions'[t].replied => sessions[t].replied
                 /\ sessions[t].sent \in Nat
                 /\ \/ /\ ~(m.type = "PipePacket" /\ m.session = t)
                       /\ sessions'[t].sent = sessions[t].sent
                    \/ /\ m.type = "PipePacket" /\ m.session = t
                       /\ sessions'[t].sent = sessions[t].sent + 1
                       /\ m.packetnum = sessions[t].sent + 1
      BY <1>2, <1>5, <1>7, <1>10, <1>12, <2>3, <2>7, <2>8
    <2> QED BY <1>1, <1>12, <2>1, <2>6, <2>9, OwnSent
  <1> QED BY <1>12, <1>13

\* The service closes an endpoint.
LEMMA ServiceClosesSteps ==
  ASSUME PipeInv, ServiceCloses, UNCHANGED clientOnly
  PROVE  /\ PipeTypes' /\ Calls'
         /\ \A i \in Indices : Good(i)' => IndexInv(i)'
  <1>1. PipeTypes  BY DEF PipeInv
  <1>2. PICK s \in DOMAIN sessions :
          /\ sessions[s].open
          /\ sessions' = [sessions EXCEPT ![s].open = FALSE,
                                          ![s].unheard = @ \/ ~sessions[s].replied]
          /\ to_client' = Append(to_client, [type |-> "PipeClosed", index |-> sessions[s].index])
    BY DEF ServiceCloses
  <1>3. to_service' = to_service  BY DEF ServiceCloses
  <1>4. s \in Nat /\ sessions[s] \in Session  BY <1>1, PipeShapes
  <1>5. PICK v : v = [sessions[s] EXCEPT !.open = FALSE, !.unheard = @ \/ ~sessions[s].replied]
    OBVIOUS
  <1>6. /\ v \in Session /\ v.index = sessions[s].index /\ v.key = sessions[s].key
        /\ v.replied = sessions[s].replied /\ v.sent = sessions[s].sent /\ ~v.open
        /\ sessions[s].unheard => v.unheard
        /\ ~sessions[s].replied => v.unheard
    BY <1>4, <1>5 DEF Session
  <1>7. sessions' = [sessions EXCEPT ![s] = v]  BY <1>2, <1>5
  <1>8. PICK m : m = [type |-> "PipeClosed", index |-> sessions[s].index]  OBVIOUS
  <1>9. m \in FromService /\ m.type = "PipeClosed" /\ m.index = sessions[s].index
    BY <1>4, <1>8 DEF FromService, Session
  <1>10. to_client' = Append(to_client, m)  BY <1>2, <1>8
  <1>s. Sends(s, v, m)  BY <1>6, <1>7, <1>9, <1>10 DEF Sends
  <1>k. SentKeeps(s, v, m)  BY <1>3, <1>s, SentTypes
  <1>11. /\ PipeTypes' /\ Calls' /\ SameSessions /\ IsMore(to_client, m, to_client')
         /\ \A i \in Indices : Good(i)' => IndexInv(i)
         /\ \A i \in Indices : Good(i)' /\ i # m.index => IndexInv(i)'
         /\ sessions'[s] = v
         /\ \A t \in DOMAIN sessions : t # s => sessions'[t] = sessions[t]
    BY <1>k DEF SentKeeps
  <1>12. ASSUME NEW i \in Indices, Good(i)', i = m.index PROVE IndexInv(i)'
    <2>1. IndexInv(i)  BY <1>11, <1>12
    <2>2. s \in Sessions(i) /\ \A t \in Sessions(i) : t \in DOMAIN sessions
      BY <1>9, <1>12 DEF Sessions
    <2>3. \A t \in Sessions(i) : t # s => sessions'[t] = sessions[t]  BY <1>11, <2>2
    <2>4. \A t \in Sessions(i) : sessions[t].open => t = s
      <3>1. \A t \in Sessions(i) : sessions[t].open => ~(t < s) /\ ~(s < t)
        BY <1>2, <2>1, <2>2 DEF IndexInv, InTurn
      <3>2. \A t \in Sessions(i) : t \in Nat  BY <1>1, <2>2, PipeShapes
      <3> QED BY <1>4, <3>1, <3>2
    <2>5. Sessions(i)' = Sessions(i)  BY <1>11 DEF Sessions, SameSessions
    <2>6. Follows(m, i)
      <3>1. ASSUME NEW t \in Sessions(i)
            PROVE  ~IsAbout(m, t) /\ ~sessions'[t].open
        BY <1>6, <1>9, <1>11, <2>3, <2>4 DEF IsAbout
      <3>2. IsClosing(m, i)  BY <1>9, <1>12 DEF IsClosing
      <3> QED BY <2>5, <3>1, <3>2 DEF Follows
    <2>7. \A t \in Sessions(i) : sessions[t].replied
      <3>1. ~ClosedUnheard(i)'  BY <1>12 DEF Good
      <3>2. ~v.unheard
        BY <1>6, <1>9, <1>11, <1>12, <3>1 DEF ClosedUnheard, SameSessions
      <3>3. \A t \in Sessions(i) : sessions[t].replied \/ sessions[t].open
        BY <2>1 DEF IndexInv, InTurn
      <3> QED BY <1>6, <2>4, <3>2, <3>3
    <2>8. \A t \in Sessions(i) : sessions[t].sent \in Nat
      BY <1>1, <2>2, PipeShapes, BoundsAssumption DEF Session
    <2>9. ASSUME NEW t \in Sessions(i)
          PROVE  /\ sessions'[t].open => sessions[t].open
                 /\ sessions'[t].replied /\ sessions[t].replied
                 /\ sessions[t].sent \in Nat
                 /\ ~(m.type = "PipePacket" /\ m.session = t)
                 /\ sessions'[t].sent = sessions[t].sent
      BY <1>2, <1>6, <1>9, <1>11, <2>3, <2>7, <2>8
    <2> QED BY <1>1, <1>11, <2>1, <2>6, <2>9, OwnSent
  <1> QED BY <1>11, <1>12

\* The requests that are left when the service took one.
LEMMA RequestsLeft ==
  ASSUME PipeTypes, KeysOnce, attempts' = attempts, to_service # <<>>,
         to_service' = Tail(to_service)
  PROVE  /\ \A p \in Requests' : \E q \in Requests \ {1} : to_service'[p] = to_service[q]
         /\ \A p, q \in Requests' : p # q => to_service'[p].key # to_service'[q].key
  <1>1. \A p \in Requests' : /\ p \in Nat /\ p + 1 \in Requests /\ p + 1 # 1
                             /\ to_service'[p] = to_service[p + 1]
    BY RequestTaken DEF Requests
  <1>2. ASSUME NEW p \in Requests', NEW q \in Requests', p # q
        PROVE  to_service'[p].key # to_service'[q].key
    <2>1. p + 1 # q + 1  BY <1>1, <1>2
    <2> QED BY <1>1, <2>1 DEF KeysOnce
  <1> QED BY <1>1, <1>2

\* The session that a request gets: types, and who waits for it.
LEMMA ServiceAcceptsChanges ==
  ASSUME PipeTypes, Calls, ServiceAccepts, UNCHANGED clientOnly
  PROVE  /\ PipeTypes' /\ Calls' /\ Lasting
         /\ \E n, v : /\ n \notin DOMAIN sessions /\ n \in Nat /\ \A s \in DOMAIN sessions : s < n
                      /\ DOMAIN sessions' = DOMAIN sessions \cup {n} /\ sessions'[n] = v
                      /\ \A s \in DOMAIN sessions : sessions'[s] = sessions[s]
                      /\ v.index \in Indices \ InUse
                      /\ v.open /\ ~v.replied /\ v.sent = 0 /\ attempts[v.key] # "connected"
  <1>1. PICK m : /\ m = Head(to_service) /\ m.type = "PipeConnectReq"
                 /\ to_service # <<>> /\ to_service' = Tail(to_service)
                 /\ to_client' = to_client
    BY DEF ServiceAccepts
  <1>2. PICK i \in Indices \ InUse :
          /\ m.index \in {i, ANY_INDEX}
          /\ sessions' = Append(sessions, [index |-> i, key |-> m.key, open |-> TRUE,
                                           replied |-> FALSE, unheard |-> FALSE, sent |-> 0])
    BY <1>1 DEF ServiceAccepts
  <1>3. UNCHANGED <<connecting_endpoints, endpoints, attempts>>  BY DEF clientOnly
  <1>4. ToServiceTyped' /\ m \in FromClient /\ 1 \in Requests /\ to_service[1] = m
    BY <1>1, <1>3, RequestTaken DEF Requests
  <1>5. m.key \in DOMAIN attempts
    BY <1>4 DEF PipeTypes, ToServiceTyped, Requests
  <1>6. PICK v : v = [index |-> i, key |-> m.key, open |-> TRUE, replied |-> FALSE,
                      unheard |-> FALSE, sent |-> 0]
    OBVIOUS
  <1>7. v.index = i /\ v.key = m.key /\ v.open /\ ~v.replied /\ v.sent = 0  BY <1>6
  <1>8. v \in Session
    <2>1. m.key \in Nat /\ 0 \in 0..MaxPackets  BY <1>5, PipeShapes, BoundsAssumption
    <2> QED BY <1>6, <2>1 DEF Session
  <1>9. sessions' = Append(sessions, v)  BY <1>2, <1>6
  <1>10. sessions \in Seq(Session)  BY DEF PipeTypes, SessionsTyped, Session
  <1>11. PICK n : n = Len(sessions) + 1  OBVIOUS
  <1>12. /\ sessions' \in Seq(Session) /\ sessions'[n] = v /\ n \in DOMAIN sessions'
         /\ Len(sessions) \in Nat /\ DOMAIN sessions = 1..Len(sessions)
         /\ \A s \in DOMAIN sessions : s \in DOMAIN sessions' /\ sessions'[s] = sessions[s]
         /\ \A s \in DOMAIN sessions' : s \in DOMAIN sessions \/ s = n
    BY <1>8, <1>9, <1>10, <1>11, WireProofs!Extended
  <1>13. /\ n \notin DOMAIN sessions /\ n \in Nat /\ \A s \in DOMAIN sessions : s < n
         /\ DOMAIN sessions' = DOMAIN sessions \cup {n}
    <2>1. n \notin DOMAIN sessions /\ n \in Nat /\ \A s \in DOMAIN sessions : s < n
      BY <1>11, <1>12
    <2>2. DOMAIN sessions' = DOMAIN sessions \cup {n}
      BY ONLY <1>12
    <2> QED BY <2>1, <2>2
  <1>14. Lasting  BY <1>3, <1>12 DEF Lasting
  <1>15. PipeTypes'
    <2>1. \A s \in DOMAIN sessions' : sessions'[s].key \in DOMAIN attempts'
      BY <1>3, <1>5, <1>7, <1>12, PipeShapes
    <2>2. SessionsTyped'  BY <1>12, <2>1 DEF SessionsTyped, Session
    <2>3. ToClientTyped'
      BY <1>1, <1>3, <1>12 DEF PipeTypes, ToClientTyped
    <2> QED BY <1>4, <1>14, <2>2, <2>3, ServiceTypes
  <1>16. KeysOnce /\ Awaited /\ ClosesGivenUp  BY DEF Calls
  <1>17. /\ \A p \in Requests' : \E q \in Requests \ {1} : to_service'[p] = to_service[q]
         /\ \A p, q \in Requests' : p # q => to_service'[p].key # to_service'[q].key
    BY <1>1, <1>3, <1>16, RequestsLeft
  <1>18. \A p \in Requests \ {1} : to_service[p].key # v.key
    BY <1>4, <1>7, <1>16 DEF KeysOnce
  <1>19. \A s \in DOMAIN sessions : sessions[s].key # v.key
    BY <1>4, <1>7, <1>16 DEF KeysOnce
  <1>20. KeysOnce'
    <2>1. \A s, t \in DOMAIN sessions' : s # t => sessions'[s].key # sessions'[t].key
      BY <1>12, <1>16, <1>19 DEF KeysOnce
    <2>2. \A p \in Requests', s \in DOMAIN sessions' : to_service'[p].key # sessions'[s].key
      BY <1>12, <1>16, <1>17, <1>18 DEF KeysOnce
    <2> QED BY <1>17, <2>1, <2>2 DEF KeysOnce
  <1>21. /\ attempts[m.key] # "connected"
         /\ attempts[m.key] = "pending" =>
              \E c \in connecting_endpoints : c.key = m.key /\ c.index \in {i, ANY_INDEX}
    BY <1>2, <1>4, <1>5, <1>16 DEF Awaited
  <1>22. Awaited'
    <2>1. ASSUME NEW p \in Requests', NEW k \in DOMAIN attempts, to_service'[p].key = k
          PROVE  /\ attempts[k] # "connected"
                 /\ attempts[k] = "pending" =>
                      \E c \in connecting_endpoints : c.key = k /\ c.index = to_service'[p].index
      BY <1>16, <1>17, <2>1 DEF Awaited
    <2>2. ASSUME NEW s \in DOMAIN sessions', NEW k \in DOMAIN attempts, sessions'[s].key = k,
                 attempts[k] = "pending"
          PROVE  \E c \in connecting_endpoints :
                   c.key = k /\ c.index \in {sessions'[s].index, ANY_INDEX}
      <3>1. CASE s \in DOMAIN sessions /\ sessions'[s] = sessions[s]
        BY <1>16, <2>2, <3>1 DEF Awaited
      <3>2. CASE s = n
        BY <1>7, <1>12, <1>21, <2>2, <3>2
      <3> QED BY <1>12, <3>1, <3>2
    <2> QED BY <1>3, <2>1, <2>2 DEF Awaited
  <1>23. ClosesGivenUp'
    <2>1. \A p \in DOMAIN to_service' : \E q \in DOMAIN to_service : to_service'[p] = to_service[q]
      BY <1>1, <1>3, RequestTaken
    <2>2. \A j \in Indices : GivenUp(j) => GivenUp(j)'  BY <1>3 DEF GivenUp
    <2> QED BY <1>16, <2>1, <2>2 DEF ClosesGivenUp
  <1>24. Calls'  BY <1>20, <1>22, <1>23 DEF Calls
  <1> QED BY <1>2, <1>7, <1>12, <1>13, <1>14, <1>15, <1>21, <1>24

\* A new session begins when those of its index before it are over.
LEMMA ServiceAcceptsSteps ==
  ASSUME PipeInv, ServiceAccepts, UNCHANGED clientOnly
  PROVE  /\ PipeTypes' /\ Calls'
         /\ \A i \in Indices : Good(i)' => IndexInv(i)'
  <1>1. PipeTypes /\ Calls /\ \A i \in Indices : Good(i) => IndexInv(i)  BY DEF PipeInv
  <1>2. PipeTypes' /\ Calls' /\ Lasting  BY <1>1, ServiceAcceptsChanges
  <1>3. PICK n, v : /\ n \notin DOMAIN sessions /\ n \in Nat /\ \A s \in DOMAIN sessions : s < n
                    /\ DOMAIN sessions' = DOMAIN sessions \cup {n} /\ sessions'[n] = v
                    /\ \A s \in DOMAIN sessions : sessions'[s] = sessions[s]
                    /\ v.index \in Indices \ InUse
                    /\ v.open /\ ~v.replied /\ v.sent = 0 /\ attempts[v.key] # "connected"
    BY <1>1, ServiceAcceptsChanges
  <1>4. /\ UNCHANGED <<early_endpoints, pipeendpoints, endpoints, attempts, shut_down>>
        /\ to_client' = to_client
    BY DEF clientOnly, ServiceAccepts
  <1>5. ASSUME NEW i \in Indices, Good(i)' PROVE IndexInv(i)'
    <2>1. IndexInv(i)  BY <1>1, <1>2, <1>5, GoodIndices
    <2>2. Sessions(i)' = IF v.index = i THEN Sessions(i) \cup {n} ELSE Sessions(i)
      BY <1>3 DEF Sessions
    <2>3. \A s \in Sessions(i) : /\ sessions'[s] = sessions[s] /\ Status(s)' = Status(s)
                                 /\ s < n /\ s # n
      BY <1>3, <1>4 DEF Sessions, Status
    <2>4. /\ EndpointsStay(i) /\ EarlyStays(i) /\ MessagesStay(i)
          /\ EndpointsOf(i)' = EndpointsOf(i)
          /\ \A e \in EndpointsOf(i) : e \in Live' <=> e \in Live
      BY <1>4 DEF EndpointsStay, EndpointsOf, EarlyStays, MessagesStay, Routed, IsEarly, Live
    <2>5. CASE v.index # i
      <3>1. SessionsStay(i)  BY <2>2, <2>3, <2>5 DEF SessionsStay
      <3> QED BY <1>1, <1>4, <2>1, <2>3, <2>4, <3>1, SameKeeps, IndexKept
    <2>6. CASE v.index = i
      <3>1. \A s \in Sessions(i) : ~sessions[s].open
        BY <1>3, <2>6 DEF InUse, Sessions
      <3>2. About(n, to_client) = {}
        BY <1>1, <1>3 DEF PipeTypes, ToClientTyped, About, Replies, Packets
      <3>3. Sessions(i)' = Sessions(i) \cup {n}  BY <2>2, <2>6
      <3>4. ASSUME NEW s \in Sessions(i), NEW p, Turn(i, s, p) PROVE Turn(i, s, p)'
        <4>1. \E r \in Closings(i, to_client) : p < r  BY <3>1, <3>4 DEF Turn
        <4>2. \A t \in Sessions(i)' : s < t =>
                \E r \in Closings(i, to_client) :
                  p < r /\ \A q \in About(t, to_client) : r < q
          BY <3>2, <3>3, <3>4, <4>1 DEF Turn
        <4>3. sessions'[s].open <=> \A r \in Closings(i, to_client) : ~(p < r)
          BY <2>3, <3>4 DEF Turn
        <4> QED BY <1>4, <3>4, <4>2, <4>3 DEF Turn
      <3>5. \A s \in Sessions(i) : Kept(i, s, 0, 0)  BY <3>4 DEF Kept
      <3>6. TurnsKept(i)
        <4>1. \A s \in Sessions(i)' : \A p \in About(s, to_client') :
                \E q \in About(s, to_client) : s \in Sessions(i) /\ Kept(i, s, q, p)
          BY <1>4, <3>2, <3>3, <3>4 DEF Kept
        <4>2. \A s \in Sessions(i) : NothingBefore(i, s) => NothingBefore(i, s)'
          BY <1>4, <3>2, <3>3 DEF NothingBefore
        <4> QED BY <4>1, <4>2 DEF TurnsKept
      <3>7. NumbersKept(i)
        BY <1>4, <2>3 DEF NumbersKept, Numbered
      <3>8. InTurn(i)'
        <4>1. ASSUME NEW s \in Sessions(i)
              PROVE  /\ ~sessions'[s].open /\ sessions'[s].replied
                     /\ Status(s)' = "pending" /\ sessions'[s].replied =>
                          Replies(s, to_client') # {}
                     /\ \A p \in About(s, to_client') : Turn(i, s, p)'
          BY <1>4, <2>1, <2>3, <3>1, <3>4 DEF IndexInv, InTurn
        <4>2. /\ \A t \in Sessions(i)' : ~(n < t)
              /\ sessions'[n].open /\ ~sessions'[n].replied
              /\ About(n, to_client') = {}
          <5>1. \A t \in Sessions(i) : t \in Nat  BY <1>1, PipeShapes DEF Sessions
          <5>2. \A t \in Sessions(i)' : ~(n < t)  BY <1>3, <2>3, <3>3, <5>1
          <5> QED BY <1>3, <1>4, <3>2, <5>2
        <4> QED BY <3>3, <4>1, <4>2 DEF InTurn
      <3>9. ~shut_down => Entries(i)'
        <4>1. \A e \in EndpointsOf(i) : Routed(e) => endpoints[e].session \in Sessions(i)
          BY <1>1, HandedSession
        <4>2. \A s \in Sessions(i)' : Status(s)' = "connected" => s \in Sessions(i)
          BY <1>3, <1>4, <3>3 DEF Status
        <4>3. \A s \in Sessions(i)' :
                Status(s)' = "connected" /\ (sessions'[s].open \/ About(s, to_client') # {}) =>
                  /\ s \in Sessions(i) /\ Status(s) = "connected"
                  /\ sessions[s].open \/ About(s, to_client) # {}
          BY <1>4, <2>3, <4>2
        <4>4. \A e \in EndpointsOf(i) : /\ Routed(e)' <=> Routed(e)
                                        /\ e \in Live' => e \in Live
                                        /\ endpoints'[e].session = endpoints[e].session
          BY <2>4 DEF EndpointsStay
        <4>5. ~shut_down => Entries(i)  BY <2>1 DEF IndexInv
        <4> QED BY <2>4, <3>5, <3>6, <4>1, <4>3, <4>4, <4>5, EntriesKept
      <3>10. Streams(i)'
        <4>1. Numbered(n, 0)'
          <5>1. Packets(n, to_client') = {}  BY <1>4, <3>2 DEF About
          <5>2. sessions'[n].sent = 0  BY <1>3
          <5> QED BY <5>1, <5>2 DEF Numbered
        <4>2. /\ Sessions(i) \subseteq Sessions(i)'
              /\ \A s \in Sessions(i)' : Status(s)' = "pending" =>
                   Numbered(s, 0)' \/ (s \in Sessions(i) /\ Status(s) = "pending")
          BY <2>3, <3>3, <4>1
        <4>3. \A e \in EndpointsOf(i) : /\ endpoints'[e].receiver = endpoints[e].receiver
                                        /\ endpoints'[e].undecoded = endpoints[e].undecoded
                                        /\ endpoints'[e].session = endpoints[e].session
                                        /\ endpoints'[e].unreliable = endpoints[e].unreliable
                                        /\ e \in Live' => e \in Live
                                        /\ IsEarly(e)' <=> IsEarly(e)
          BY <1>4, <2>4 DEF IsEarly
        <4>4. \A s \in Sessions(i) : Status(s) = "pending" => Status(s)' = "pending"  BY <2>3
        <4>5. Streams(i)  BY <2>1 DEF IndexInv
        <4> QED BY <1>4, <2>4, <3>6, <3>7, <4>2, <4>3, <4>4, <4>5, StreamsKept
      <3> QED BY <1>4, <3>8, <3>9, <3>10 DEF IndexInv
    <2> QED BY <2>5, <2>6
  <1> QED BY <1>2, <1>5

\* Every step of the service keeps the strengthening.
LEMMA ServiceSteps ==
  ASSUME PipeInv, Service
  PROVE  /\ PipeTypes' /\ Calls'
         /\ \A i \in Indices : Good(i)' => IndexInv(i)'
  <1>1. UNCHANGED clientOnly  BY DEF Service, clientOnly
  <1> QED BY <1>1, ServiceAcceptsSteps, ServiceRefusesSteps, ServiceRepliesSteps,
             ServiceSendsSteps, ServiceClosesSteps, ServiceDisconnectsSteps DEF Service

-----------------------------------------------------------------------------
(* The pipe: the session whose message comes next.                         *)

\* It is the session of the entry, nothing of those before it is left, and no other one
\* that is pending is next.
LEMMA HeadTurn ==
  ASSUME PipeTypes, NEW i \in Indices, IndexInv(i), NEW s \in Sessions(i),
         1 \in About(s, to_client)
  PROVE  /\ NothingBefore(i, s)
         /\ \A t \in Sessions(i) : Status(t) = "pending" /\ NothingBefore(i, t) => t = s
         /\ ~shut_down => \A e \in EndpointsOf(i) : Routed(e) => endpoints[e].session = s
  <1>1. InTurn(i) /\ (~shut_down => Entries(i))  BY DEF IndexInv
  <1>2. \A t \in Sessions(i) : t \in Nat  BY PipeShapes DEF Sessions
  <1>3. DOMAIN to_client \subseteq Nat \ {0}
    <2>1. to_client \in Seq(FromService)  BY DEF PipeTypes, ToClientTyped
    <2> QED BY <2>1
  <1>4. /\ \A t : \A p \in About(t, to_client) : p \in Nat \ {0}
        /\ \A r \in Closings(i, to_client) : r \in Nat \ {0}
    BY <1>3 DEF About, Replies, Packets, Closings
  <1>5. ASSUME NEW t \in Sessions(i), NEW p \in Nat, Turn(i, t, p)
        PROVE  ~(t < s)
    <2> SUFFICES ASSUME t < s PROVE FALSE  OBVIOUS
    <2>1. PICK r \in Closings(i, to_client) : p < r /\ \A q \in About(s, to_client) : r < q
      BY <1>5 DEF Turn
    <2>2. r < 1 /\ r \in Nat \ {0}  BY <1>4, <2>1
    <2> QED BY <2>2
  <1>6. NothingBefore(i, s)
    <2>1. ASSUME NEW t \in Sessions(i), t < s, NEW p \in About(t, to_client) PROVE FALSE
      BY <1>1, <1>4, <1>5, <2>1 DEF InTurn
    <2> QED BY <2>1 DEF NothingBefore
  <1>7. ASSUME NEW t \in Sessions(i), NothingBefore(i, t) PROVE ~(s < t)
    BY <1>7 DEF NothingBefore
  <1>8. ASSUME NEW t \in Sessions(i), Status(t) = "pending", NothingBefore(i, t)
        PROVE  t = s
    <2>1. ~(t < s)
      <3> SUFFICES ASSUME t < s PROVE FALSE  OBVIOUS
      <3>1. sessions[t].replied  BY <1>1 DEF InTurn
      <3>2. Replies(t, to_client) # {}  BY <1>1, <1>8, <3>1 DEF InTurn
      <3> QED BY <1>6, <3>2 DEF NothingBefore, About
    <2> QED BY <1>2, <1>7, <1>8, <2>1
  <1>9. ASSUME ~shut_down, NEW e \in EndpointsOf(i), Routed(e)
        PROVE  endpoints[e].session = s
    <2>1. PICK t \in Sessions(i) : t = endpoints[e].session  BY <1>9, HandedSession
    <2>2. Turn(i, t, 0) /\ NothingBefore(i, t)  BY <1>1, <1>9, <2>1 DEF Entries
    <2>3. ~(t < s)  BY <1>5, <2>2
    <2> QED BY <1>2, <1>7, <2>1, <2>2, <2>3
  <1> QED BY <1>6, <1>8, <1>9

-----------------------------------------------------------------------------
(* The pipe: the answer to a connect.                                      *)

\* A reply that nobody waits for is dropped.
LEMMA ReplyIgnoredSteps ==
  ASSUME PipeInv, to_client # <<>>, Head(to_client).type \in {"PipeConnectRet", "PipeConnectErr"},
         to_client' = Tail(to_client), attempts[Head(to_client).key] # "pending",
         UNCHANGED clientOnly, UNCHANGED <<to_service, sessions>>
  PROVE  /\ PipeTypes' /\ Calls'
         /\ \A i \in Indices : Good(i)' => IndexInv(i)'
  <1>1. PipeTypes /\ Calls /\ \A i \in Indices : Good(i) => IndexInv(i)  BY DEF PipeInv
  <1>2. SameSessions  BY DEF SameSessions
  <1>3. Lasting /\ shut_down' = shut_down /\ attempts' = attempts  BY <1>2, ClientStays
  <1>4. PICK m : /\ m = Head(to_client) /\ m = to_client[1] /\ 1 \in DOMAIN to_client
                 /\ IsRest(to_client, to_client')
    BY <1>1, PipeClientRest
  <1>5. m.type \in {"PipeConnectRet", "PipeConnectErr"} /\ attempts[m.key] # "pending"  BY <1>4
  <1>6. PipeTypes'
    <2>1. ToClientTyped'  BY <1>1, <1>3, TakenTypes
    <2>2. SessionsTyped' /\ ToServiceTyped'
      BY <1>1, <1>3 DEF PipeTypes, SessionsTyped, ToServiceTyped
    <2> QED BY <1>1, <1>3, <2>1, <2>2, ServiceTypes
  <1>7. Calls'  BY <1>1, <1>2, ServiceCalls
  <1>8. ASSUME NEW i \in Indices, Good(i)' PROVE IndexInv(i)'
    <2>1. IndexInv(i)  BY <1>1, <1>3, <1>8, GoodIndices
    <2>2. /\ EndpointsStay(i) /\ EarlyStays(i) /\ Sessions(i)' = Sessions(i)
          /\ \A s \in Sessions(i) : Status(s)' = Status(s)
      BY <1>2, ClientStays
    <2>3. SessionsStay(i)  BY <2>2 DEF SessionsStay
    <2>4. 1 \notin Closings(i, to_client) /\ \A s : 1 \notin Packets(s, to_client)
      BY <1>4, <1>5 DEF Closings, Packets
    <2>5. /\ TurnsKept(i) /\ NumbersKept(i)
          /\ \A s \in Sessions(i) : Kept(i, s, 0, 0)
      BY <1>4, <2>4, RestKeeps DEF NumbersKept
    <2>6. MessagesStay(i)
      <3> SUFFICES ASSUME NEW s \in Sessions(i)
                   PROVE  /\ About(s, to_client') # {} => About(s, to_client) # {}
                          /\ Status(s) = "pending" /\ Replies(s, to_client) # {} =>
                               Replies(s, to_client') # {}
        BY DEF MessagesStay
      <3>1. About(s, to_client') # {} => About(s, to_client) # {}  BY <1>4, PipeRest
      <3>2. Status(s) = "pending" => 1 \notin Replies(s, to_client)
        <4>1. 1 \in Replies(s, to_client) => m.key = sessions[s].key
          BY <1>1, <1>4 DEF PipeTypes, ToClientTyped, Replies
        <4> QED BY <1>5, <4>1 DEF Status
      <3>3. Status(s) = "pending" /\ Replies(s, to_client) # {} => Replies(s, to_client') # {}
        BY <1>4, <3>2, PipeRest
      <3> QED BY <3>1, <3>3
    <2> QED BY <1>1, <1>3, <2>1, <2>2, <2>3, <2>5, <2>6, IndexKept
  <1> QED BY <1>6, <1>7, <1>8

\* The endpoint that the caller gets, the early one or a new one.
LEMMA ConnectedEndpoint ==
  ASSUME PipeTypes, NEW m, m.index \in Indices, Connected(m)
  PROVE  \E e, v :
           /\ v.index = m.index /\ v.handed /\ v.session = m.session
           /\ ~v.closed /\ IsEndpoint(v)
           /\ \/ /\ m.index \in DOMAIN early_endpoints /\ e = early_endpoints[m.index]
                 /\ IsChanged(endpoints, e, v, endpoints')
                 /\ v.receiver = endpoints[e].receiver /\ v.undecoded = endpoints[e].undecoded
              \/ /\ IsExtended(endpoints, e, v, endpoints')
                 /\ m.index \in DOMAIN early_endpoints => v.unreliable
                 /\ v.receiver = NewReceiver /\ v.undecoded = {}
           /\ pipeendpoints' = IF m.index \in DOMAIN pipeendpoints
                               THEN pipeendpoints ELSE Put(pipeendpoints, m.index, e)
  <1>1. PICK S : endpoints \in Seq(S)  BY DEF PipeTypes, EndpointsTyped
  <1>2. PICK u, s, i : u = m.unreliable /\ s = m.session /\ i = m.index  OBVIOUS
  <1>3. CASE AdoptsEarly(m.index, m.unreliable)
    <2>1. PICK e : /\ e = early_endpoints[i]
                   /\ endpoints' = [endpoints EXCEPT ![e].handed = TRUE, ![e].session = s]
                   /\ pipeendpoints' = IF i \in DOMAIN pipeendpoints
                                       THEN pipeendpoints ELSE Put(pipeendpoints, i, e)
      BY <1>2, <1>3 DEF Connected, Register
    <2>2. i \in DOMAIN early_endpoints  BY <1>2, <1>3 DEF AdoptsEarly
    <2>3. PICK ep : ep = endpoints[e] /\ e \in DOMAIN endpoints /\ IsEndpoint(ep) /\ ep.index = i
                    /\ ~ep.handed /\ ~ep.closed
      BY <2>1, <2>2, PipeShapes DEF PipeTypes, TablesTyped
    <2>4. PICK v : v = Made(ep.index, ep.unreliable, ep.receiver, ep.closed, TRUE, s, ep.given_up,
                            ep.callbacks, ep.undecoded)
      OBVIOUS
    <2>5. IsChanged(endpoints, e, v, endpoints')
      BY <1>1, <2>1, <2>3, <2>4, HandedAt
    <2>6. /\ v.index = ep.index /\ v.handed = TRUE /\ v.session = s /\ v.closed = ep.closed
          /\ v.receiver = ep.receiver /\ v.given_up = ep.given_up /\ v.callbacks = ep.callbacks
           /\ v.undecoded = ep.undecoded
      BY <2>4 DEF Made
    <2>7. IsEndpoint(v)
      <3>1. /\ ep.index \in Indices /\ IsReceiver(ep.receiver)
            /\ ep.given_up => ep.handed /\ ep.closed
            /\ ~ep.closed => ep.callbacks = 0
        BY <2>3 DEF IsEndpoint
      <3> QED BY <2>4, <2>6, <3>1 DEF Made, IsEndpoint
    <2> QED BY <1>2, <2>1, <2>2, <2>3, <2>5, <2>6, <2>7
  <1>4. CASE ~AdoptsEarly(m.index, m.unreliable)
    <2>1. PICK e, ep, all :
            /\ e = Len(endpoints) + 1 /\ ep = NewEndpoint(i, u) /\ all = Append(endpoints, ep)
            /\ endpoints' = [all EXCEPT ![e].handed = TRUE, ![e].session = s]
            /\ pipeendpoints' = IF i \in DOMAIN pipeendpoints
                                THEN pipeendpoints ELSE Put(pipeendpoints, i, e)
      BY <1>2, <1>4 DEF Connected, Register
    <2>2. PICK c, f, o, l : c = NewReceiver /\ f = FALSE /\ o = 0 /\ l = {}  OBVIOUS
    <2>3. ep = Made(i, u, c, f, f, NoSession, f, o, l)  BY <2>1, <2>2 DEF NewEndpoint, Made
    <2>4. /\ ep.index = i /\ ep.unreliable = u /\ ep.receiver = c /\ ep.closed = f
          /\ ep.handed = f /\ ep.given_up = f /\ ep.callbacks = o /\ ep.undecoded = l
      BY <2>3 DEF Made
    <2>5. IsReceiver(c)
      BY <2>2, NumModAssumption DEF NewReceiver, IsReceiver, PacketNumbers
    <2>6. IsEndpoint(ep)
      BY <1>2, <2>2, <2>3, <2>4, <2>5 DEF Made, IsEndpoint
    <2>7. IsExtended(endpoints, e, ep, all)  BY <1>1, <2>1, ExtendedBy
    <2>8. PICK T : all \in Seq(T)  BY <2>7 DEF IsExtended
    <2>9. e \in DOMAIN all /\ all[e] = ep  BY <2>7 DEF IsExtended
    <2>10. PICK v : v = Made(ep.index, ep.unreliable, ep.receiver, ep.closed, TRUE, s, ep.given_up,
                             ep.callbacks, ep.undecoded)
      OBVIOUS
    <2>11. IsChanged(all, e, v, endpoints')
      BY <2>1, <2>6, <2>8, <2>9, <2>10, HandedAt
    <2>12. IsExtended(endpoints, e, v, endpoints')
      BY <2>7, <2>11 DEF IsExtended, IsChanged
    <2>13. /\ v.index = ep.index /\ v.handed = TRUE /\ v.session = s /\ v.closed = ep.closed
           /\ v.receiver = ep.receiver /\ v.given_up = ep.given_up /\ v.callbacks = ep.callbacks
           /\ v.undecoded = ep.undecoded
           /\ v.unreliable = ep.unreliable
      BY <2>10 DEF Made
    <2>14. IsEndpoint(v)
      BY <1>2, <2>2, <2>4, <2>5, <2>10, <2>13 DEF Made, IsEndpoint
    <2>15. m.index \in DOMAIN early_endpoints => v.unreliable
      BY <1>2, <1>4, <2>4, <2>13 DEF AdoptsEarly
    <2> QED BY <1>2, <2>1, <2>2, <2>4, <2>12, <2>13, <2>14, <2>15
  <1> QED BY <1>3, <1>4

\* The session that a reply is about is the one whose attempt succeeds.
LEMMA ConnectedAttempt ==
  ASSUME PipeTypes, Calls, to_client # <<>>, NEW m, m = Head(to_client),
         m.type = "PipeConnectRet", to_client' = Tail(to_client),
         attempts[m.key] = "pending", Connected(m), UNCHANGED <<to_service, sessions>>
  PROVE  /\ m = to_client[1] /\ 1 \in DOMAIN to_client /\ IsRest(to_client, to_client')
         /\ m.session \in DOMAIN sessions /\ m.index \in Indices
         /\ sessions[m.session].index = m.index /\ sessions[m.session].key = m.key
         /\ m.key \in DOMAIN attempts
         /\ AttemptsTyped' /\ DOMAIN attempts' = DOMAIN attempts /\ attempts'[m.key] = "connected"
         /\ \A k \in DOMAIN attempts : k # m.key => attempts'[k] = attempts[k]
         /\ connecting_endpoints' = {c \in connecting_endpoints : c.key # m.key}
         /\ \A s \in DOMAIN sessions : s # m.session => sessions[s].key # m.key
         /\ shut_down' = shut_down
         /\ early_endpoints' = IF connecting_endpoints' = {} THEN EmptyMap
                               ELSE Without(early_endpoints, m.index)
  <1>1. /\ m = to_client[1] /\ 1 \in DOMAIN to_client /\ IsRest(to_client, to_client')
        /\ m \in FromService
    BY PipeClientRest
  <1>2. /\ m.session \in DOMAIN sessions /\ sessions[m.session].index = m.index
        /\ sessions[m.session].key = m.key
    BY <1>1 DEF PipeTypes, ToClientTyped
  <1>3. m.key \in DOMAIN attempts /\ m.index \in Indices
    BY <1>2, PipeShapes DEF Session
  <1>4. \A s \in DOMAIN sessions : s # m.session => sessions[s].key # m.key
    BY <1>2 DEF Calls, KeysOnce
  <1>5. /\ attempts' = [attempts EXCEPT ![m.key] = "connected"]
        /\ connecting_endpoints' = {c \in connecting_endpoints : c.key # m.key}
        /\ shut_down' = shut_down
        /\ early_endpoints' = IF connecting_endpoints' = {} THEN EmptyMap
                              ELSE Without(early_endpoints, m.index)
    BY DEF Connected, StopConnecting, Early
  <1>6. PICK S : S = {"pending", "connected", "failed"} /\ attempts \in Seq(S)
    BY DEF PipeTypes, AttemptsTyped
  <1>7. /\ attempts' \in Seq(S) /\ DOMAIN attempts' = DOMAIN attempts
        /\ Len(attempts') = Len(attempts) /\ attempts'[m.key] = "connected"
        /\ \A k \in DOMAIN attempts : k # m.key => attempts'[k] = attempts[k]
    <2>1. PICK v \in S : v = "connected"  BY <1>6
    <2>2. PICK k \in DOMAIN attempts : k = m.key  BY <1>3
    <2> QED BY <1>5, <1>6, <2>1, <2>2, WireProofs!Replaced
  <1>8. AttemptsTyped'
    BY <1>5, <1>6, <1>7 DEF PipeTypes, AttemptsTyped
  <1> QED BY <1>1, <1>2, <1>3, <1>4, <1>5, <1>7, <1>8

\* Types and calls when a connect succeeded.
LEMMA ConnectedTypes ==
  ASSUME PipeTypes, Calls, to_client # <<>>, NEW m, m = Head(to_client),
         m.type = "PipeConnectRet", to_client' = Tail(to_client),
         attempts[m.key] = "pending", Connected(m), UNCHANGED <<to_service, sessions>>
  PROVE  PipeTypes' /\ Calls' /\ Lasting
  <1>1. /\ m = to_client[1] /\ 1 \in DOMAIN to_client /\ IsRest(to_client, to_client')
        /\ m.session \in DOMAIN sessions /\ m.index \in Indices
        /\ sessions[m.session].index = m.index /\ sessions[m.session].key = m.key
        /\ m.key \in DOMAIN attempts
        /\ AttemptsTyped' /\ DOMAIN attempts' = DOMAIN attempts /\ attempts'[m.key] = "connected"
        /\ \A k \in DOMAIN attempts : k # m.key => attempts'[k] = attempts[k]
        /\ connecting_endpoints' = {c \in connecting_endpoints : c.key # m.key}
        /\ \A s \in DOMAIN sessions : s # m.session => sessions[s].key # m.key
        /\ shut_down' = shut_down
        /\ early_endpoints' = IF connecting_endpoints' = {} THEN EmptyMap
                              ELSE Without(early_endpoints, m.index)
    BY ConnectedAttempt
  <1>2. PICK e, v :
          /\ v.index = m.index /\ v.handed /\ v.session = m.session
          /\ ~v.closed /\ IsEndpoint(v)
          /\ \/ /\ m.index \in DOMAIN early_endpoints /\ e = early_endpoints[m.index]
                /\ IsChanged(endpoints, e, v, endpoints')
             \/ IsExtended(endpoints, e, v, endpoints')
          /\ pipeendpoints' = IF m.index \in DOMAIN pipeendpoints
                              THEN pipeendpoints ELSE Put(pipeendpoints, m.index, e)
    BY <1>1, ConnectedEndpoint
  <1>3. /\ e \in DOMAIN endpoints' /\ endpoints'[e] = v
        /\ \A d \in DOMAIN endpoints : d \in DOMAIN endpoints' /\ (d # e => endpoints'[d] = endpoints[d])
        /\ e \in DOMAIN endpoints =>
             ~endpoints[e].handed /\ ~endpoints[e].given_up /\ endpoints[e].index = m.index
    <2>1. CASE IsExtended(endpoints, e, v, endpoints')
      BY <2>1 DEF IsExtended
    <2>2. CASE /\ m.index \in DOMAIN early_endpoints /\ e = early_endpoints[m.index]
               /\ IsChanged(endpoints, e, v, endpoints')
      <3>1. ~endpoints[e].handed /\ endpoints[e].index = m.index /\ e \in DOMAIN endpoints
        BY <2>2 DEF PipeTypes, TablesTyped
      <3>2. ~endpoints[e].given_up  BY <3>1, PipeShapes DEF IsEndpoint
      <3> QED BY <2>2, <3>1, <3>2 DEF IsChanged
    <2> QED BY <1>2, <2>1, <2>2
  <1>4. Lasting
    <2>1. \A d \in DOMAIN endpoints :
            /\ d \in DOMAIN endpoints' /\ endpoints'[d].index = endpoints[d].index
            /\ endpoints[d].given_up => endpoints'[d].given_up
      BY <1>2, <1>3
    <2>2. \A k \in DOMAIN attempts : attempts[k] = "failed" => attempts'[k] = "failed"
      BY <1>1
    <2> QED BY <2>1, <2>2 DEF Lasting
  <1>5. PipeTypes'
    <2>1. EndpointsTyped'
      <3>1. EndpointFits(v)'
        BY <1>1, <1>2 DEF EndpointFits
      <3>2. \A k \in DOMAIN attempts : attempts[k] = "connected" => attempts'[k] = "connected"
        BY <1>1
      <3> QED BY <1>2, <1>4, <3>1, <3>2, EndpointsFit DEF PipeTypes
    <2>2. SessionsTyped' /\ ToServiceTyped'
      BY <1>1 DEF PipeTypes, SessionsTyped, ToServiceTyped
    <2>3. ToClientTyped'  BY <1>1, <1>4, TakenTypes
    <2>4. ASSUME NEW i \in DOMAIN pipeendpoints'
          PROVE  /\ i \in Indices /\ pipeendpoints'[i] \in DOMAIN endpoints'
                 /\ endpoints'[pipeendpoints'[i]].index = i /\ endpoints'[pipeendpoints'[i]].handed
      <3>1. CASE i \in DOMAIN pipeendpoints /\ pipeendpoints'[i] = pipeendpoints[i]
        <4>1. /\ i \in Indices /\ pipeendpoints[i] \in DOMAIN endpoints
              /\ endpoints[pipeendpoints[i]].index = i /\ endpoints[pipeendpoints[i]].handed
          BY <3>1 DEF PipeTypes, TablesTyped
        <4> QED BY <1>3, <3>1, <4>1
      <3>2. CASE i = m.index /\ pipeendpoints'[i] = e
        BY <1>1, <1>2, <1>3, <3>2
      <3>3. \/ i \in DOMAIN pipeendpoints /\ pipeendpoints'[i] = pipeendpoints[i]
            \/ i = m.index /\ pipeendpoints'[i] = e
        BY <1>2 DEF Put
      <3> QED BY <3>1, <3>2, <3>3
    <2>5. ASSUME NEW i \in DOMAIN early_endpoints'
          PROVE  /\ i \in Indices /\ early_endpoints'[i] \in DOMAIN endpoints'
                 /\ endpoints'[early_endpoints'[i]].index = i
                 /\ ~endpoints'[early_endpoints'[i]].handed
                 /\ ~endpoints'[early_endpoints'[i]].closed
                 /\ ~endpoints'[early_endpoints'[i]].unreliable
      <3>1. i \in DOMAIN early_endpoints /\ i # m.index /\ early_endpoints'[i] = early_endpoints[i]
        BY <1>1 DEF Without, EmptyMap
      <3>2. /\ i \in Indices /\ early_endpoints[i] \in DOMAIN endpoints
            /\ endpoints[early_endpoints[i]].index = i
            /\ ~endpoints[early_endpoints[i]].handed
            /\ ~endpoints[early_endpoints[i]].closed
            /\ ~endpoints[early_endpoints[i]].unreliable
        BY <3>1 DEF PipeTypes, TablesTyped
      <3>3. early_endpoints[i] # e  BY <1>3, <3>1, <3>2
      <3> QED BY <1>3, <3>1, <3>2, <3>3
    <2>6. TablesTyped'  BY <2>4, <2>5 DEF TablesTyped
    <2> QED BY <1>1, <2>1, <2>2, <2>3, <2>6 DEF PipeTypes
  <1>6. Calls'
    <2>1. KeysOnce /\ Awaited /\ ClosesGivenUp  BY DEF Calls
    <2>2. KeysOnce'  BY <2>1 DEF KeysOnce, Requests
    <2>3. \A p \in Requests : to_service[p].key # m.key
      BY <1>1, <2>1 DEF KeysOnce
    <2>4. ASSUME NEW p \in Requests, NEW k \in DOMAIN attempts, to_service[p].key = k
          PROVE  /\ attempts'[k] # "connected"
                 /\ attempts'[k] = "pending" =>
                      \E c \in connecting_endpoints' : c.key = k /\ c.index = to_service[p].index
      <3>1. k # m.key /\ attempts'[k] = attempts[k]  BY <1>1, <2>3, <2>4
      <3> QED BY <1>1, <2>1, <2>4, <3>1 DEF Awaited
    <2>5. ASSUME NEW s \in DOMAIN sessions, NEW k \in DOMAIN attempts, sessions[s].key = k,
                 attempts'[k] = "pending"
          PROVE  \E c \in connecting_endpoints' :
                   c.key = k /\ c.index \in {sessions[s].index, ANY_INDEX}
      <3>1. k # m.key /\ attempts'[k] = attempts[k]  BY <1>1, <2>5
      <3> QED BY <1>1, <2>1, <2>5, <3>1 DEF Awaited
    <2>6. Awaited'  BY <1>1, <2>4, <2>5 DEF Awaited, Requests
    <2>7. \A i \in Indices : GivenUp(i) => GivenUp(i)'  BY <1>4 DEF GivenUp, Lasting
    <2>8. ClosesGivenUp'  BY <2>1, <2>7 DEF ClosesGivenUp
    <2> QED BY <2>2, <2>6, <2>8 DEF Calls
  <1> QED BY <1>4, <1>5, <1>6

\* A connect that succeeded leaves the other indices.
LEMMA ConnectedOther ==
  ASSUME PipeInv, to_client # <<>>, NEW m, m = Head(to_client),
         m.type = "PipeConnectRet", to_client' = Tail(to_client),
         attempts[m.key] = "pending", Connected(m), UNCHANGED <<to_service, sessions>>,
         NEW i \in Indices, Good(i)', i # m.index
  PROVE  IndexInv(i)'
  <1>1. PipeTypes /\ Calls /\ \A j \in Indices : Good(j) => IndexInv(j)  BY DEF PipeInv
  <1>2. PipeTypes' /\ Calls' /\ Lasting  BY <1>1, ConnectedTypes
  <1>3. /\ m = to_client[1]
        /\ m.session \in DOMAIN sessions /\ m.index \in Indices
        /\ sessions[m.session].index = m.index
        /\ DOMAIN attempts' = DOMAIN attempts
        /\ \A k \in DOMAIN attempts : k # m.key => attempts'[k] = attempts[k]
        /\ \A s \in DOMAIN sessions : s # m.session => sessions[s].key # m.key
        /\ shut_down' = shut_down
        /\ early_endpoints' = IF connecting_endpoints' = {} THEN EmptyMap
                              ELSE Without(early_endpoints, m.index)
    BY <1>1, ConnectedAttempt
  <1>4. PICK e, v :
          /\ v.index = m.index
          /\ \/ /\ m.index \in DOMAIN early_endpoints /\ e = early_endpoints[m.index]
                /\ IsChanged(endpoints, e, v, endpoints')
             \/ IsExtended(endpoints, e, v, endpoints')
          /\ pipeendpoints' = IF m.index \in DOMAIN pipeendpoints
                              THEN pipeendpoints ELSE Put(pipeendpoints, m.index, e)
    BY <1>1, <1>3, ConnectedEndpoint
  <1>5. IndexInv(i)  BY <1>1, <1>2, GoodIndices
  <1>6. m.index \in DOMAIN early_endpoints => endpoints[early_endpoints[m.index]].index = m.index
    BY <1>1 DEF PipeTypes, TablesTyped
  <1>7. EndpointsOf(i)' = EndpointsOf(i) /\ \A d \in EndpointsOf(i) : endpoints'[d] = endpoints[d]
    BY <1>1, <1>4, <1>6, OtherEndpoints
  <1>8. SessionsStay(i)  BY DEF SessionsStay, Sessions
  <1>9. \A s \in Sessions(i) : /\ s \in DOMAIN sessions /\ sessions[s].key \in DOMAIN attempts
                               /\ s # m.session
    BY <1>1, <1>3, PipeShapes DEF Sessions
  <1>10. \A s \in Sessions(i) : Status(s)' = Status(s)
    BY <1>3, <1>9 DEF Status
  <1>11. EndpointsStay(i)
    <2>1. /\ i \in DOMAIN pipeendpoints' <=> i \in DOMAIN pipeendpoints
          /\ i \in DOMAIN pipeendpoints => pipeendpoints'[i] = pipeendpoints[i]
      BY <1>4 DEF Put
    <2>2. \A d \in EndpointsOf(i) : endpoints[d].index = i  BY DEF EndpointsOf
    <2>3. \A d \in EndpointsOf(i) : Routed(d)' <=> Routed(d)
      BY <1>7, <2>1, <2>2 DEF Routed
    <2> QED BY <1>7, <2>3 DEF EndpointsStay
  <1>12. EarlyStays(i)
    <2>1. \A d \in EndpointsOf(i) : endpoints[d].index = i /\ endpoints'[d].index = i
      BY <1>7 DEF EndpointsOf
    <2>2. CASE connecting_endpoints' = {}
      <3>1. \A s \in Sessions(i) : Status(s)' # "pending"
        BY <1>2, <1>3, <1>9, <2>2 DEF Calls, Awaited, Status
      <3>2. \A d \in EndpointsOf(i) : ~IsEarly(d)'
        BY <1>3, <2>2 DEF IsEarly, EmptyMap
      <3> QED BY <3>1, <3>2 DEF EarlyStays
    <2>3. CASE connecting_endpoints' # {}
      <3>1. /\ i \in DOMAIN early_endpoints' <=> i \in DOMAIN early_endpoints
            /\ i \in DOMAIN early_endpoints => early_endpoints'[i] = early_endpoints[i]
        BY <1>3, <2>3 DEF Without
      <3> QED BY <2>1, <3>1 DEF EarlyStays, IsEarly
    <2> QED BY <2>2, <2>3
  <1>13. /\ TurnsKept(i) /\ NumbersKept(i) /\ MessagesStay(i)
         /\ \A s \in Sessions(i) : Kept(i, s, 0, 0)
    <2>1. /\ \A s \in Sessions(i) : ~IsAbout(Head(to_client), s)
          /\ ~IsClosing(Head(to_client), i)
      BY <1>9 DEF IsAbout, IsClosing
    <2> QED BY <1>1, <2>1, TakenKeeps
  <1> QED BY <1>1, <1>3, <1>5, <1>8, <1>10, <1>11, <1>12, <1>13, IndexKept

\* The caller gets the endpoint of the session whose turn it is, with its stream so far.
LEMMA ConnectedOwn ==
  ASSUME PipeInv, to_client # <<>>, NEW m, m = Head(to_client),
         m.type = "PipeConnectRet", to_client' = Tail(to_client),
         attempts[m.key] = "pending", Connected(m), UNCHANGED <<to_service, sessions>>,
         NEW i \in Indices, Good(i)', i = m.index
  PROVE  IndexInv(i)'
  <1>1. PipeTypes /\ Calls /\ \A j \in Indices : Good(j) => IndexInv(j)  BY DEF PipeInv
  <1>2. Lasting  BY <1>1, ConnectedTypes
  <1>3. /\ m = to_client[1] /\ 1 \in DOMAIN to_client /\ IsRest(to_client, to_client')
        /\ m.session \in DOMAIN sessions /\ m.index \in Indices
        /\ sessions[m.session].index = m.index /\ sessions[m.session].key = m.key
        /\ m.key \in DOMAIN attempts
        /\ DOMAIN attempts' = DOMAIN attempts /\ attempts'[m.key] = "connected"
        /\ \A k \in DOMAIN attempts : k # m.key => attempts'[k] = attempts[k]
        /\ \A s \in DOMAIN sessions : s # m.session => sessions[s].key # m.key
        /\ shut_down' = shut_down
        /\ early_endpoints' = IF connecting_endpoints' = {} THEN EmptyMap
                              ELSE Without(early_endpoints, m.index)
    BY <1>1, ConnectedAttempt
  <1>4. IndexInv(i)  BY <1>1, <1>2, GoodIndices
  <1>5. PICK s : s = m.session  OBVIOUS
  <1>6. s \in Sessions(i) /\ 1 \in Replies(s, to_client) /\ Status(s) = "pending"
    BY <1>3, <1>5 DEF Sessions, Replies, Status
  <1>7. /\ NothingBefore(i, s)
        /\ \A t \in Sessions(i) : Status(t) = "pending" /\ NothingBefore(i, t) => t = s
        /\ ~shut_down => \A d \in EndpointsOf(i) : Routed(d) => endpoints[d].session = s
    BY <1>1, <1>4, <1>6, HeadTurn DEF About
  <1>8. ~shut_down => \A d \in EndpointsOf(i) : ~Routed(d)
    <2>1. ASSUME ~shut_down, NEW d \in EndpointsOf(i), Routed(d) PROVE FALSE
      <3>1. Status(endpoints[d].session) = "connected"  BY <1>1, <2>1, HandedSession
      <3> QED BY <1>6, <1>7, <2>1, <3>1
    <2> QED BY <2>1
  <1>9. ~shut_down => i \notin DOMAIN pipeendpoints
    BY <1>1, <1>8 DEF PipeTypes, TablesTyped, EndpointsOf, Routed
  <1>10. PICK e, v :
           /\ v.index = m.index /\ v.handed /\ v.session = m.session /\ ~v.closed /\ IsEndpoint(v)
           /\ \/ /\ m.index \in DOMAIN early_endpoints /\ e = early_endpoints[m.index]
                 /\ IsChanged(endpoints, e, v, endpoints')
                 /\ v.receiver = endpoints[e].receiver /\ v.undecoded = endpoints[e].undecoded
              \/ /\ IsExtended(endpoints, e, v, endpoints')
                 /\ m.index \in DOMAIN early_endpoints => v.unreliable
                 /\ v.receiver = NewReceiver /\ v.undecoded = {}
           /\ pipeendpoints' = IF m.index \in DOMAIN pipeendpoints
                               THEN pipeendpoints ELSE Put(pipeendpoints, m.index, e)
    BY <1>1, <1>3, ConnectedEndpoint
  <1>11. ~shut_down => i \in DOMAIN pipeendpoints' /\ pipeendpoints'[i] = e
    BY <1>9, <1>10 DEF Put
  <1>12. /\ EndpointsOf(i)' = EndpointsOf(i) \cup {e} /\ endpoints'[e] = v
         /\ \A d \in EndpointsOf(i) : d # e => endpoints'[d] = endpoints[d]
    <2>1. CASE /\ m.index \in DOMAIN early_endpoints /\ e = early_endpoints[m.index]
               /\ IsChanged(endpoints, e, v, endpoints')
      <3>1. e \in DOMAIN endpoints /\ endpoints[e].index = i
        BY <1>1, <2>1 DEF PipeTypes, TablesTyped
      <3>2. /\ DOMAIN endpoints' = DOMAIN endpoints /\ endpoints'[e] = v
            /\ \A d \in DOMAIN endpoints : d # e => endpoints'[d] = endpoints[d]
        BY <2>1 DEF IsChanged
      <3> QED BY <1>10, <3>1, <3>2 DEF EndpointsOf
    <2>2. CASE IsExtended(endpoints, e, v, endpoints')
      <3>1. /\ DOMAIN endpoints' = DOMAIN endpoints \cup {e} /\ endpoints'[e] = v
            /\ \A d \in DOMAIN endpoints : endpoints'[d] = endpoints[d]
        BY <2>2 DEF IsExtended
      <3> QED BY <1>10, <3>1 DEF EndpointsOf
    <2> QED BY <1>10, <2>1, <2>2
  <1>13. 1 \notin Closings(i, to_client) /\ \A t : 1 \notin Packets(t, to_client)
    BY <1>3 DEF Closings, Packets
  <1>14. /\ TurnsKept(i) /\ NumbersKept(i)
         /\ \A t \in Sessions(i) : Kept(i, t, 0, 0)
    BY <1>3, <1>13, RestKeeps DEF NumbersKept
  <1>15. Sessions(i)' = Sessions(i)  BY DEF Sessions
  <1>16. \A t \in Sessions(i) : t # s => Status(t)' = Status(t)
    BY <1>1, <1>3, <1>5, PipeShapes DEF Sessions, Status
  <1>17. Status(s)' = "connected"  BY <1>3, <1>5 DEF Status
  <1>18. InTurn(i)'
    <2>1. ASSUME NEW t \in Sessions(i), Status(t)' = "pending", sessions[t].replied
          PROVE  Replies(t, to_client') # {}
      <3>1. t # s  BY <1>17, <2>1
      <3>2. Replies(t, to_client) # {}  BY <1>4, <1>16, <2>1, <3>1 DEF IndexInv, InTurn
      <3>3. 1 \notin Replies(t, to_client)  BY <1>3, <1>5, <3>1 DEF Replies
      <3> QED BY <1>3, <3>2, <3>3, PipeRest
    <2>2. \A t \in Sessions(i) : sessions[t].replied \/ sessions[t].open
      BY <1>4 DEF IndexInv, InTurn
    <2> QED BY <1>4, <1>14, <1>15, <2>1, <2>2, InTurnKept DEF IndexInv
  <1>19. ~shut_down => Entries(i)'
    <2> SUFFICES ASSUME ~shut_down PROVE Entries(i)'  OBVIOUS
    <2>1. Entries(i) /\ i \notin DOMAIN pipeendpoints  BY <1>4, <1>9 DEF IndexInv
    <2>2. \A d \in EndpointsOf(i)' : endpoints'[d].index = i  BY DEF EndpointsOf
    <2>3. e \in EndpointsOf(i)'  BY <1>12
    <2>4. \A d \in EndpointsOf(i)' : Routed(d)' <=> d = e
      BY <1>11, <2>2 DEF Routed
    <2>5. Turn(i, s, 0)' /\ NothingBefore(i, s)'
      <3>1. Turn(i, s, 1)  BY <1>4, <1>6 DEF IndexInv, InTurn, About
      <3>2. Kept(i, s, 1, 0)
        <4>1. PICK p, q : p = 0 /\ q = 1 /\ p \in Nat /\ q \in Nat /\ q = p + 1  OBVIOUS
        <4> QED BY <1>3, <4>1, KeptByRest
      <3> QED BY <1>6, <1>7, <1>14, <3>1, <3>2 DEF Kept, TurnsKept
    <2>6. ASSUME NEW d \in EndpointsOf(i)', d \in Live' PROVE d = e
      <3> SUFFICES ASSUME d # e PROVE FALSE  OBVIOUS
      <3>1. d \in EndpointsOf(i) /\ endpoints'[d] = endpoints[d]  BY <1>12
      <3>2. d \in Live  BY <2>6, <3>1 DEF Live, EndpointsOf
      <3> QED BY <1>8, <2>1, <3>1, <3>2 DEF Entries
    <2>7. ASSUME NEW t \in Sessions(i), Status(t)' = "connected",
                 sessions[t].open \/ About(t, to_client') # {}
          PROVE  t = s
      <3> SUFFICES ASSUME t # s PROVE FALSE  OBVIOUS
      <3>1. Status(t) = "connected"  BY <1>16, <2>7
      <3>2. sessions[t].open \/ About(t, to_client) # {}  BY <1>3, <2>7, PipeRest
      <3> QED BY <1>8, <2>1, <3>1, <3>2 DEF Entries
    <2>8. endpoints'[e].session = s  BY <1>5, <1>10, <1>12
    <2> QED BY <1>15, <2>3, <2>4, <2>5, <2>6, <2>7, <2>8 DEF Entries
  <1>20. \A d \in EndpointsOf(i)' : ~IsEarly(d)'
    <2>1. i \notin DOMAIN early_endpoints'  BY <1>3 DEF Without, EmptyMap
    <2> QED BY <2>1 DEF IsEarly, EndpointsOf
  <1>21. \A n \in Nat : \A t \in Sessions(i) : Numbered(t, n) => Numbered(t, n)'
    BY <1>14 DEF NumbersKept
  <1>22. \A d \in EndpointsOf(i) : \A t, k : IsEarly(d) /\ InStream(d, t, k) /\ k \in 1..MaxPackets
                                           => t = s /\ (~shut_down => Numbered(s, k))
    <2> SUFFICES ASSUME NEW d \in EndpointsOf(i), NEW t, NEW k \in 1..MaxPackets, IsEarly(d),
                        InStream(d, t, k)
                 PROVE  t = s /\ (~shut_down => Numbered(s, k))
      OBVIOUS
    <2>1. PICK x \in Sessions(i), n \in 1..MaxPackets :
            /\ InStream(d, x, n) /\ Status(x) = "pending"
            /\ NothingBefore(i, x) /\ (~shut_down => Numbered(x, n))
      BY <1>4 DEF IndexInv, Streams
    <2>2. x = s  BY <1>7, <2>1
    <2>3. t = x /\ k = n  BY <2>1, CameOfOne, BoundsAssumption DEF InStream
    <2> QED BY <2>1, <2>2, <2>3
  <1>23. ASSUME NEW t \in Sessions(i), ~shut_down, Status(t)' = "pending"
         PROVE  Numbered(t, 0)'
    <2>1. t # s /\ Status(t) = "pending"  BY <1>16, <1>17, <1>23
    <2>2. Numbered(t, 0)
      BY <1>4, <1>22, <1>23, <2>1 DEF IndexInv, Streams
    <2> QED BY <1>21, <2>2
  <1>24. ASSUME NEW d \in EndpointsOf(i)', d \in Live', ~endpoints'[d].unreliable
         PROVE  \E t \in Sessions(i), k \in 0..MaxPackets :
                  /\ endpoints'[d].session = t /\ InStream(d, t, k)'
                  /\ ~shut_down => Numbered(t, k)'
    <2>1. CASE d # e
      <3>1. d \in EndpointsOf(i) /\ endpoints'[d] = endpoints[d]  BY <1>12, <2>1
      <3>2. d \in Live  BY <1>24, <3>1 DEF Live, EndpointsOf
      <3>3. PICK t \in Sessions(i), k \in 0..MaxPackets :
              /\ endpoints[d].session = t /\ InStream(d, t, k)
              /\ ~shut_down => Numbered(t, k)
        BY <1>4, <1>24, <3>1, <3>2 DEF IndexInv, Streams
      <3>4. InStream(d, t, k)'  BY <3>1, <3>3 DEF InStream
      <3> QED BY <1>21, <3>1, <3>3, <3>4, BoundsAssumption
    <2>2. CASE /\ d = e /\ m.index \in DOMAIN early_endpoints /\ e = early_endpoints[m.index]
               /\ v.receiver = endpoints[e].receiver /\ v.undecoded = endpoints[e].undecoded
      <3>1. e \in EndpointsOf(i) /\ IsEarly(e)
        BY <1>1, <2>2 DEF PipeTypes, TablesTyped, EndpointsOf, IsEarly
      <3>2. PICK t \in Sessions(i), k \in 1..MaxPackets : InStream(e, t, k)
        BY <1>4, <3>1 DEF IndexInv, Streams
      <3>3. t = s /\ (~shut_down => Numbered(s, k))  BY <1>22, <3>1, <3>2
      <3>4. InStream(e, s, k)'  BY <1>12, <2>2, <3>2, <3>3 DEF InStream
      <3>5. k \in Nat /\ k \in 0..MaxPackets  BY BoundsAssumption
      <3>6. ~shut_down => Numbered(s, k)'  BY <1>6, <1>21, <3>3, <3>5
      <3>7. endpoints'[e].session = s  BY <1>5, <1>10, <1>12
      <3> QED BY <1>6, <2>2, <3>4, <3>5, <3>6, <3>7
    <2>3. CASE /\ d = e /\ v.receiver = NewReceiver /\ v.undecoded = {}
               /\ m.index \in DOMAIN early_endpoints => v.unreliable
      <3>1. i \notin DOMAIN early_endpoints  BY <1>12, <1>24, <2>3
      <3>2. \A x \in EndpointsOf(i) : ~IsEarly(x)  BY <3>1 DEF IsEarly, EndpointsOf
      <3>3. ~shut_down => Numbered(s, 0)  BY <1>4, <1>6, <3>2 DEF IndexInv, Streams
      <3>4. InStream(e, s, 0)'  BY <1>12, <2>3, CameNone DEF InStream
      <3>5. endpoints'[e].session = s  BY <1>5, <1>10, <1>12
      <3> QED BY <1>6, <1>21, <2>3, <3>3, <3>4, <3>5, BoundsAssumption
    <2> QED BY <1>10, <2>1, <2>2, <2>3
  <1>25. Streams(i)'
    BY <1>3, <1>15, <1>20, <1>23, <1>24 DEF Streams
  <1> QED BY <1>3, <1>18, <1>19, <1>25 DEF IndexInv

\* The answer to a connect, whatever it is, keeps the strengthening.
LEMMA ReceiveConnectRetSteps ==
  ASSUME PipeInv, ReceiveConnectRet
  PROVE  /\ PipeTypes' /\ Calls'
         /\ \A i \in Indices : Good(i)' => IndexInv(i)'
  <1>1. PICK m : /\ m = Head(to_client) /\ m.type \in {"PipeConnectRet", "PipeConnectErr"}
                 /\ to_client # <<>> /\ to_client' = Tail(to_client)
                 /\ UNCHANGED <<to_service, sessions>>
                 /\ \/ attempts[m.key] # "pending" /\ UNCHANGED clientOnly
                    \/ /\ attempts[m.key] = "pending" /\ m.type = "PipeConnectErr"
                       /\ ConnectFailed(m.key)
                    \/ /\ attempts[m.key] = "pending" /\ m.type = "PipeConnectRet"
                       /\ Connected(m)
    BY DEF ReceiveConnectRet, clientOnly
  <1>2. CASE attempts[m.key] # "pending" /\ UNCHANGED clientOnly
    BY <1>1, <1>2, ReplyIgnoredSteps
  <1>3. CASE /\ attempts[m.key] = "pending" /\ m.type = "PipeConnectErr"
             /\ ConnectFailed(m.key)
    <2>1. m.key \in DOMAIN attempts
      <3>1. 1 \in DOMAIN to_client /\ m = to_client[1]
        BY <1>1, PipeClientRest DEF PipeInv
      <3> QED BY <1>3, <3>1 DEF PipeInv, PipeTypes, ToClientTyped
    <2> QED BY <1>1, <1>3, <2>1, ConnectFailedSteps
  <1>4. CASE /\ attempts[m.key] = "pending" /\ m.type = "PipeConnectRet"
             /\ Connected(m)
    <2>1. PipeTypes' /\ Calls'  BY <1>1, <1>4, ConnectedTypes DEF PipeInv
    <2>2. ASSUME NEW i \in Indices, Good(i)' PROVE IndexInv(i)'
      BY <1>1, <1>4, <2>2, ConnectedOther, ConnectedOwn
    <2> QED BY <2>1, <2>2
  <1> QED BY <1>1, <1>2, <1>3, <1>4

\* The timer of a connect fires.
LEMMA ConnectTimeoutSteps ==
  ASSUME PipeInv, ConnectTimeout
  PROVE  /\ PipeTypes' /\ Calls'
         /\ \A i \in Indices : Good(i)' => IndexInv(i)'
  <1>1. PICK key \in DOMAIN attempts : attempts[key] = "pending" /\ ConnectFailed(key)
    BY DEF ConnectTimeout
  <1>2. UNCHANGED <<to_service, to_client, sessions>>  BY DEF ConnectTimeout, external
  <1> QED BY <1>1, <1>2, ConnectFailedSteps

-----------------------------------------------------------------------------
(* The pipe: a packet arrives.                                             *)

\* The packet that comes next is the first of those on their way.
LEMMA NextNumber ==
  ASSUME PipeTypes, to_client # <<>>, to_client' = Tail(to_client), UNCHANGED sessions,
         NEW s \in DOMAIN sessions, NEW k \in Nat, Numbered(s, k), 1 \in Packets(s, to_client)
  PROVE  /\ to_client[1].packetnum = k + 1 /\ k + 1 <= MaxPackets
         /\ Numbered(s, k + 1)'
  <1>0. IsRest(to_client, to_client')  BY PipeClientRest
  <1>1. PICK a \in 0..MaxPackets : a = sessions[s].sent  BY PipeShapes DEF Session
  <1>2. MaxPackets \in Nat  BY BoundsAssumption
  <1>3. \A p \in Packets(s, to_client) : to_client[p].packetnum \in 1..MaxPackets
    BY PacketNums
  <1>4. /\ k <= a
        /\ \A p \in Packets(s, to_client) :
             /\ k < to_client[p].packetnum /\ to_client[p].packetnum <= a
             /\ \A q \in Packets(s, to_client) :
                  p < q => to_client[p].packetnum < to_client[q].packetnum
        /\ \A n \in (k + 1)..a : \E p \in Packets(s, to_client) : to_client[p].packetnum = n
    BY <1>1 DEF Numbered
  <1>5. PICK l \in Nat : l = k + 1  OBVIOUS
  <1>6. PICK x \in 1..MaxPackets : x = to_client[1].packetnum  BY <1>3
  <1>7. l <= x /\ x <= a  BY <1>4, <1>5, <1>6
  <1>8. x = l
    <2>1. PICK p \in Packets(s, to_client) : to_client[p].packetnum = l
      <3>1. l \in (k + 1)..a  BY <1>1, <1>5, <1>7
      <3> QED BY <1>4, <3>1
    <2>2. p \in Nat /\ 1 <= p  BY ONLY <1>0, PipeRest
    <2>3. 1 < p => x < l  BY <1>4, <1>6, <2>1
    <2>4. p # 1 => 1 < p  BY <2>2
    <2> QED BY <1>6, <1>7, <2>1, <2>3, <2>4
  <1>9. \A p \in Packets(s, to_client') :
          p \in Nat /\ p + 1 \in Packets(s, to_client) /\ to_client'[p] = to_client[p + 1]
    BY ONLY <1>0, PipeRest
  <1>10. \A p \in Packets(s, to_client) :
           p # 1 => p - 1 \in Packets(s, to_client') /\ to_client'[p - 1] = to_client[p]
    BY ONLY <1>0, PipeRest
  <1>11. \A p \in Packets(s, to_client') : 1 < p + 1
    <2>1. to_client' \in Seq(FromService)  BY PipeClientRest
    <2>2. \A p \in DOMAIN to_client' : p \in Nat /\ 1 <= p  BY <2>1
    <2> QED BY <2>2 DEF Packets
  <1>12. ASSUME NEW p \in Packets(s, to_client')
         PROVE  /\ l < to_client'[p].packetnum /\ to_client'[p].packetnum <= a
                /\ \A q \in Packets(s, to_client') :
                     p < q => to_client'[p].packetnum < to_client'[q].packetnum
    <2>1. p \in Nat /\ p + 1 \in Packets(s, to_client) /\ to_client'[p] = to_client[p + 1]
      BY <1>9
    <2>2. l < to_client[p + 1].packetnum /\ to_client[p + 1].packetnum <= a
      BY <1>4, <1>6, <1>8, <1>11, <2>1
    <2>3. ASSUME NEW q \in Packets(s, to_client'), p < q
          PROVE  to_client'[p].packetnum < to_client'[q].packetnum
      <3>1. q \in Nat /\ q + 1 \in Packets(s, to_client) /\ to_client'[q] = to_client[q + 1]
        BY <1>9
      <3>2. p + 1 < q + 1  BY <2>1, <2>3, <3>1
      <3> QED BY <1>4, <2>1, <3>1, <3>2
    <2> QED BY <2>1, <2>2, <2>3
  <1>13. ASSUME NEW n \in (l + 1)..a
         PROVE  \E p \in Packets(s, to_client') : to_client'[p].packetnum = n
    <2>1. n \in (k + 1)..a /\ n # l  BY <1>5
    <2>2. PICK p \in Packets(s, to_client) : to_client[p].packetnum = n  BY <1>4, <2>1
    <2>3. p # 1  BY <1>6, <1>8, <2>1, <2>2
    <2> QED BY <1>10, <2>2, <2>3
  <1>14. Numbered(s, l)'  BY <1>1, <1>7, <1>8, <1>12, <1>13 DEF Numbered
  <1> QED BY <1>1, <1>2, <1>5, <1>6, <1>7, <1>8, <1>14

\* A receiver stays one.
LEMMA ReceiverTyped ==
  ASSUME NEW r, IsReceiver(r), NEW n \in Nat, NEW packet, NEW t \in PacketReceived(r, n, packet)
  PROVE  IsReceiver(t)
  <1>1. NumMod \in Nat /\ NumMod >= 2  BY NumModAssumption
  <1>2. CASE n = Increment(r.recv_packet_number)
    <2>1. PICK k \in DrainLengths(n, r.out_of_order_packets) : t = Accepted(r, packet, k)
      BY <1>2 DEF PacketReceived
    <2>2. k \in Nat  BY <1>1, <2>1 DEF DrainLengths, PacketNumbers
    <2>3. PICK x, y, z : t = [recv_packet_number |-> x, recv_packets |-> y,
                              out_of_order_packets |-> z] /\ x = After(n, k)
      BY <1>2, <2>1 DEF Accepted
    <2>4. x \in PacketNumbers
      <3>1. PICK a \in Nat : a = n + k  BY <2>2
      <3>2. a % NumMod \in 0..(NumMod - 1)  BY <1>1, <3>1
      <3> QED BY <2>3, <3>1, <3>2 DEF After, PacketNumbers
    <2> QED BY <2>3, <2>4 DEF IsReceiver
  <1>3. CASE n # Increment(r.recv_packet_number)
    <2>1. t = Buffered(r, n, packet)  BY <1>3 DEF PacketReceived
    <2>2. PICK x : t = [r EXCEPT !.out_of_order_packets = x]  BY <2>1 DEF Buffered
    <2>3. PICK a, b, c : r = [recv_packet_number |-> a, recv_packets |-> b,
                              out_of_order_packets |-> c] /\ a \in PacketNumbers
      BY DEF IsReceiver
    <2>4. t = [recv_packet_number |-> a, recv_packets |-> b, out_of_order_packets |-> x]
      BY <2>2, <2>3
    <2> QED BY <2>3, <2>4 DEF IsReceiver
  <1> QED BY <1>2, <1>3

\* All but the receiver and what was lost.
Alike(ep, v) ==
  /\ v.index = ep.index /\ v.unreliable = ep.unreliable /\ v.closed = ep.closed
  /\ v.handed = ep.handed /\ v.session = ep.session /\ v.given_up = ep.given_up

\* The receiver takes the packet, or the packet is lost.
Receives(ep, v, m) ==
  ~ep.unreliable =>
    \/ /\ v.receiver \in PacketReceived(ep.receiver, m.packetnum, <<m.session, m.packetnum>>)
       /\ v.undecoded = ep.undecoded
    \/ /\ v.receiver = ep.receiver
       /\ v.undecoded = ep.undecoded \cup {<<m.session, m.packetnum>>}

\* A packet changes the receiver of its endpoint, or is added to its lost ones.
LEMMA DispatchedFields ==
  ASSUME NEW ep, IsEndpoint(ep), NEW m, m.packetnum \in Nat, NEW v \in Dispatched(ep, m)
  PROVE  IsEndpoint(v) /\ Alike(ep, v) /\ Receives(ep, v, m)
  <1>1. PICK packet : packet = <<m.session, m.packetnum>>  OBVIOUS
  <1>2. PICK i, u, c, d, h, s, a, n, l :
          /\ i = ep.index /\ u = ep.unreliable /\ c = ep.receiver /\ d = ep.closed
          /\ h = ep.handed /\ s = ep.session /\ a = ep.given_up /\ n = ep.callbacks
          /\ l = ep.undecoded
    OBVIOUS
  <1>3. ep = Made(i, u, c, d, h, s, a, n, l)  BY <1>2, EndpointFields
  <1>4. \E r, w :
          /\ v = Made(i, u, r, d, h, s, a, n, w) /\ IsReceiver(r)
          /\ ~ep.unreliable => \/ r \in PacketReceived(ep.receiver, m.packetnum, packet) /\ w = l
                               \/ r = c /\ w = l \cup {packet}
    <2>1. CASE v = [ep EXCEPT !.undecoded = @ \cup {packet}]
      <3>1. PICK w : w = l \cup {packet}  OBVIOUS
      <3>2. v = [ep EXCEPT !.undecoded = w]  BY <1>2, <2>1, <3>1
      <3>3. v = Made(i, u, c, d, h, s, a, n, w)  BY ONLY <1>3, <3>2 DEF Made
      <3>4. IsReceiver(c)  BY <1>2 DEF IsEndpoint
      <3> QED BY <3>1, <3>3, <3>4
    <2>2. CASE ep.unreliable /\ v = [ep EXCEPT !.receiver.recv_packets = Append(@, packet)]
      <3>1. PICK x : x = Append(ep.receiver.recv_packets, packet)  OBVIOUS
      <3>2. PICK r : r = [c EXCEPT !.recv_packets = x]  OBVIOUS
      <3>3. v = [ep EXCEPT !.receiver = r]  BY <1>2, <2>2, <3>1, <3>2
      <3>4. PICK b, e, f : c = [recv_packet_number |-> b, recv_packets |-> e,
                                out_of_order_packets |-> f] /\ b \in PacketNumbers
        BY <1>2 DEF IsEndpoint, IsReceiver
      <3>5. r = [recv_packet_number |-> b, recv_packets |-> x, out_of_order_packets |-> f]
        BY <3>2, <3>4
      <3>6. IsReceiver(r)  BY <3>4, <3>5 DEF IsReceiver
      <3>7. v = Made(i, u, r, d, h, s, a, n, l)  BY ONLY <1>3, <3>3 DEF Made
      <3> QED BY <2>2, <3>6, <3>7
    <2>3. CASE /\ ~ep.unreliable
               /\ \E r \in PacketReceived(ep.receiver, m.packetnum, packet) :
                    v = [ep EXCEPT !.receiver = r]
      <3>1. PICK r \in PacketReceived(ep.receiver, m.packetnum, packet) : v = [ep EXCEPT !.receiver = r]
        BY <2>3
      <3>2. IsReceiver(ep.receiver)  BY DEF IsEndpoint
      <3>3. IsReceiver(r)  BY <3>1, <3>2, ReceiverTyped
      <3>4. v = Made(i, u, r, d, h, s, a, n, l)  BY ONLY <1>3, <3>1 DEF Made
      <3> QED BY <3>1, <3>3, <3>4
    <2> QED BY <1>1, <2>1, <2>2, <2>3 DEF Dispatched
  <1>5. PICK r, w :
          /\ v = Made(i, u, r, d, h, s, a, n, w) /\ IsReceiver(r)
          /\ ~ep.unreliable => \/ r \in PacketReceived(ep.receiver, m.packetnum, packet) /\ w = l
                               \/ r = c /\ w = l \cup {packet}
    BY <1>4
  <1>6. /\ v.index = i /\ v.unreliable = u /\ v.receiver = r /\ v.closed = d /\ v.handed = h
        /\ v.session = s /\ v.given_up = a /\ v.callbacks = n /\ v.undecoded = w
    BY <1>5 DEF Made
  <1>7. ep.index \in Indices /\ (a => h /\ d) /\ (~d => n = 0)
    BY <1>2 DEF IsEndpoint
  <1>8. IsEndpoint(v)  BY <1>2, <1>5, <1>6, <1>7 DEF Made, IsEndpoint
  <1>9. Alike(ep, v)  BY <1>2, <1>6 DEF Alike
  <1>10. Receives(ep, v, m)  BY <1>1, <1>2, <1>5, <1>6 DEF Receives
  <1> QED BY <1>8, <1>9, <1>10

\* The endpoint that a packet reaches, an old one or a new one, and what that leaves.
LEMMA PacketChanges ==
  ASSUME PipeTypes, ReceivePacket
  PROVE  \E m :
    /\ m = Head(to_client) /\ m = to_client[1] /\ m.type = "PipePacket"
    /\ m.session \in DOMAIN sessions /\ m.index = sessions[m.session].index /\ m.index \in Indices
    /\ \/ \E e, v :
            /\ ~shut_down /\ IsChanged(endpoints, e, v, endpoints')
            /\ \/ m.index \in DOMAIN pipeendpoints /\ e = pipeendpoints[m.index]
               \/ /\ m.index \notin DOMAIN pipeendpoints
                  /\ m.index \in DOMAIN early_endpoints /\ e = early_endpoints[m.index]
            /\ v \in Dispatched(endpoints[e], m)
            /\ early_endpoints' = early_endpoints
       \/ \E e, v :
            /\ ~shut_down /\ IsExtended(endpoints, e, v, endpoints')
            /\ m.index \notin DOMAIN pipeendpoints \cup DOMAIN early_endpoints
            /\ v \in Dispatched(NewEndpoint(m.index, FALSE), m)
            /\ early_endpoints' = Put(early_endpoints, m.index, e)
       \/ /\ \/ m.index \notin DOMAIN pipeendpoints \cup DOMAIN early_endpoints /\ ~Expected(m.index)
             \/ shut_down
          /\ UNCHANGED <<endpoints, early_endpoints>>
  <1>1. PICK m : /\ m = Head(to_client) /\ m.type = "PipePacket"
                 /\ to_client # <<>> /\ to_client' = Tail(to_client)
    BY DEF ReceivePacket
  <1>2. m = to_client[1] /\ 1 \in DOMAIN to_client /\ m \in FromService
    BY <1>1, PipeClientRest
  <1>3. m.session \in DOMAIN sessions /\ m.index = sessions[m.session].index
    BY <1>1, <1>2 DEF PipeTypes, ToClientTyped
  <1>4. m.index \in Indices  BY <1>3, PipeShapes DEF Session
  <1>5. PICK S : endpoints \in Seq(S)  BY DEF PipeTypes, EndpointsTyped
  <1>6. PICK i : i = m.index  OBVIOUS
  <1>7. \/ /\ i \in DOMAIN pipeendpoints /\ ~shut_down
           /\ \E ep \in Dispatched(endpoints[pipeendpoints[i]], m) :
                endpoints' = [endpoints EXCEPT ![pipeendpoints[i]] = ep]
           /\ UNCHANGED early_endpoints
        \/ /\ i \notin DOMAIN pipeendpoints /\ i \in DOMAIN early_endpoints /\ ~shut_down
           /\ \E ep \in Dispatched(endpoints[early_endpoints[i]], m) :
                endpoints' = [endpoints EXCEPT ![early_endpoints[i]] = ep]
           /\ UNCHANGED early_endpoints
        \/ /\ i \notin DOMAIN pipeendpoints \cup DOMAIN early_endpoints /\ ~shut_down
           /\ \E ep \in Dispatched(NewEndpoint(i, FALSE), m) :
                endpoints' = Append(endpoints, ep)
           /\ early_endpoints' = Put(early_endpoints, i, Len(endpoints) + 1)
        \/ /\ \/ i \notin DOMAIN pipeendpoints \cup DOMAIN early_endpoints /\ ~Expected(i)
              \/ shut_down
           /\ UNCHANGED <<endpoints, early_endpoints>>
    BY <1>1, <1>6 DEF ReceivePacket
  <1>8. ASSUME NEW e \in DOMAIN endpoints, NEW v, endpoints' = [endpoints EXCEPT ![e] = v]
        PROVE  IsChanged(endpoints, e, v, endpoints')
    BY <1>5, <1>8, ChangedAt
  <1>9. ASSUME NEW v, endpoints' = Append(endpoints, v), NEW e, e = Len(endpoints) + 1
        PROVE  IsExtended(endpoints, e, v, endpoints')
    BY <1>5, <1>9, ExtendedBy
  <1>10. CASE /\ i \in DOMAIN pipeendpoints /\ ~shut_down
              /\ \E ep \in Dispatched(endpoints[pipeendpoints[i]], m) :
                   endpoints' = [endpoints EXCEPT ![pipeendpoints[i]] = ep]
              /\ UNCHANGED early_endpoints
    <2>1. PICK e \in DOMAIN endpoints : e = pipeendpoints[i]  BY <1>10, PipeShapes
    <2>2. PICK v \in Dispatched(endpoints[e], m) : endpoints' = [endpoints EXCEPT ![e] = v]
      BY <1>10, <2>1
    <2>3. IsChanged(endpoints, e, v, endpoints')  BY <1>8, <2>2
    <2> QED BY <1>1, <1>2, <1>3, <1>4, <1>6, <1>10, <2>1, <2>2, <2>3
  <1>11. CASE /\ i \notin DOMAIN pipeendpoints /\ i \in DOMAIN early_endpoints /\ ~shut_down
              /\ \E ep \in Dispatched(endpoints[early_endpoints[i]], m) :
                   endpoints' = [endpoints EXCEPT ![early_endpoints[i]] = ep]
              /\ UNCHANGED early_endpoints
    <2>1. PICK e \in DOMAIN endpoints : e = early_endpoints[i]  BY <1>11, PipeShapes
    <2>2. PICK v \in Dispatched(endpoints[e], m) : endpoints' = [endpoints EXCEPT ![e] = v]
      BY <1>11, <2>1
    <2>3. IsChanged(endpoints, e, v, endpoints')  BY <1>8, <2>2
    <2> QED BY <1>1, <1>2, <1>3, <1>4, <1>6, <1>11, <2>1, <2>2, <2>3
  <1>12. CASE /\ i \notin DOMAIN pipeendpoints \cup DOMAIN early_endpoints /\ ~shut_down
              /\ \E ep \in Dispatched(NewEndpoint(i, FALSE), m) :
                   endpoints' = Append(endpoints, ep)
              /\ early_endpoints' = Put(early_endpoints, i, Len(endpoints) + 1)
    <2>1. PICK e : e = Len(endpoints) + 1  OBVIOUS
    <2>2. PICK v \in Dispatched(NewEndpoint(i, FALSE), m) : endpoints' = Append(endpoints, v)
      BY <1>12
    <2>3. IsExtended(endpoints, e, v, endpoints')  BY <1>9, <2>1, <2>2
    <2> QED BY <1>1, <1>2, <1>3, <1>4, <1>6, <1>12, <2>1, <2>2, <2>3
  <1>13. CASE /\ \/ i \notin DOMAIN pipeendpoints \cup DOMAIN early_endpoints /\ ~Expected(i)
                 \/ shut_down
              /\ UNCHANGED <<endpoints, early_endpoints>>
    BY <1>1, <1>2, <1>3, <1>4, <1>6, <1>13
  <1> QED BY <1>7, <1>10, <1>11, <1>12, <1>13

\* A new endpoint has its type.
LEMMA NewFits ==
  ASSUME NEW i \in Indices, NEW u, NEW ep, ep = NewEndpoint(i, u)
  PROVE  /\ IsEndpoint(ep) /\ ep.index = i /\ ep.unreliable = u /\ ep.receiver = NewReceiver
         /\ ~ep.closed /\ ~ep.handed /\ ~ep.given_up
  <1>1. PICK c, f, o, s, l : /\ c = NewReceiver /\ f = FALSE /\ o = 0 /\ s = NoSession
                           /\ l = {}
    OBVIOUS
  <1>2. ep = Made(i, u, c, f, f, s, f, o, l)  BY <1>1 DEF NewEndpoint, Made
  <1>3. /\ ep.index = i /\ ep.unreliable = u /\ ep.receiver = c /\ ep.closed = f
        /\ ep.handed = f /\ ep.given_up = f /\ ep.callbacks = o /\ ep.undecoded = l
    BY <1>2 DEF Made
  <1>4. IsReceiver(c)
    BY <1>1, NumModAssumption DEF NewReceiver, IsReceiver, PacketNumbers
  <1>5. IsEndpoint(ep)  BY <1>1, <1>2, <1>3, <1>4 DEF Made, IsEndpoint
  <1> QED BY <1>1, <1>3, <1>5

\* The endpoints after a packet, one by one.
LEMMA PacketEndpoints ==
  ASSUME PipeTypes, ReceivePacket
  PROVE  /\ endpoints' \in Seq({endpoints'[e] : e \in DOMAIN endpoints'})
         /\ \A e \in DOMAIN endpoints :
              /\ e \in DOMAIN endpoints' /\ IsEndpoint(endpoints'[e])
              /\ endpoints'[e].index = endpoints[e].index
              /\ endpoints'[e].unreliable = endpoints[e].unreliable
              /\ endpoints'[e].closed = endpoints[e].closed
              /\ endpoints'[e].handed = endpoints[e].handed
              /\ endpoints'[e].session = endpoints[e].session
              /\ endpoints'[e].given_up = endpoints[e].given_up
         /\ \A e \in DOMAIN endpoints' \ DOMAIN endpoints :
              /\ IsEndpoint(endpoints'[e]) /\ endpoints'[e].index = Head(to_client).index
              /\ ~endpoints'[e].handed /\ ~endpoints'[e].closed /\ ~endpoints'[e].unreliable
         /\ \/ early_endpoints' = early_endpoints
            \/ \E e \in DOMAIN endpoints' \ DOMAIN endpoints :
                 early_endpoints' = Put(early_endpoints, Head(to_client).index, e)
  <1>1. PICK m :
    /\ m = Head(to_client) /\ m = to_client[1] /\ m.type = "PipePacket"
    /\ m.session \in DOMAIN sessions /\ m.index = sessions[m.session].index /\ m.index \in Indices
    /\ \/ \E e, v :
            /\ ~shut_down /\ IsChanged(endpoints, e, v, endpoints')
            /\ v \in Dispatched(endpoints[e], m)
            /\ early_endpoints' = early_endpoints
       \/ \E e, v :
            /\ ~shut_down /\ IsExtended(endpoints, e, v, endpoints')
            /\ v \in Dispatched(NewEndpoint(m.index, FALSE), m)
            /\ early_endpoints' = Put(early_endpoints, m.index, e)
       \/ UNCHANGED <<endpoints, early_endpoints>>
    BY PacketChanges
  <1>2. m.packetnum \in Nat
    <2>1. 1 \in Packets(m.session, to_client)
      <3>1. 1 \in DOMAIN to_client  BY PipeClientRest DEF ReceivePacket
      <3> QED BY <1>1, <3>1 DEF Packets
    <2> QED BY <1>1, <2>1, PacketNums, BoundsAssumption
  <1>3. \A e \in DOMAIN endpoints : IsEndpoint(endpoints[e])  BY PipeShapes
  <1>4. CASE \E e, v :
               /\ ~shut_down /\ IsChanged(endpoints, e, v, endpoints')
               /\ v \in Dispatched(endpoints[e], m)
               /\ early_endpoints' = early_endpoints
    <2>1. PICK e, v : /\ IsChanged(endpoints, e, v, endpoints')
                      /\ v \in Dispatched(endpoints[e], m)
                      /\ early_endpoints' = early_endpoints
      BY <1>4
    <2>2. /\ e \in DOMAIN endpoints /\ DOMAIN endpoints' = DOMAIN endpoints /\ endpoints'[e] = v
          /\ \A d \in DOMAIN endpoints : d # e => endpoints'[d] = endpoints[d]
          /\ endpoints' \in Seq({endpoints'[d] : d \in DOMAIN endpoints'})
      BY <2>1 DEF IsChanged
    <2>3. /\ IsEndpoint(v)
          /\ v.index = endpoints[e].index /\ v.unreliable = endpoints[e].unreliable
          /\ v.closed = endpoints[e].closed /\ v.handed = endpoints[e].handed
          /\ v.session = endpoints[e].session /\ v.given_up = endpoints[e].given_up
      <3>1. IsEndpoint(endpoints[e]) /\ v \in Dispatched(endpoints[e], m)  BY <1>3, <2>1, <2>2
      <3>2. IsEndpoint(v) /\ Alike(endpoints[e], v)  BY ONLY <1>2, <3>1, DispatchedFields
      <3> QED BY <3>2 DEF Alike
    <2> QED BY <1>3, <2>1, <2>2, <2>3
  <1>5. CASE \E e, v :
               /\ ~shut_down /\ IsExtended(endpoints, e, v, endpoints')
               /\ v \in Dispatched(NewEndpoint(m.index, FALSE), m)
               /\ early_endpoints' = Put(early_endpoints, m.index, e)
    <2>1. PICK e, v : /\ IsExtended(endpoints, e, v, endpoints')
                      /\ v \in Dispatched(NewEndpoint(m.index, FALSE), m)
                      /\ early_endpoints' = Put(early_endpoints, m.index, e)
      BY <1>5
    <2>2. /\ e \notin DOMAIN endpoints /\ DOMAIN endpoints' = DOMAIN endpoints \cup {e}
          /\ endpoints'[e] = v
          /\ \A d \in DOMAIN endpoints : endpoints'[d] = endpoints[d]
          /\ endpoints' \in Seq({endpoints'[d] : d \in DOMAIN endpoints'})
      BY <2>1 DEF IsExtended
    <2>3. PICK ep : /\ ep = NewEndpoint(m.index, FALSE)
                    /\ IsEndpoint(ep) /\ ep.index = m.index /\ ep.unreliable = FALSE
                    /\ ~ep.closed /\ ~ep.handed
      <3>1. PICK i \in Indices : i = m.index  BY <1>1
      <3>2. PICK ep : ep = NewEndpoint(i, FALSE)  OBVIOUS
      <3>3. /\ IsEndpoint(ep) /\ ep.index = i /\ ep.unreliable = FALSE
            /\ ~ep.closed /\ ~ep.handed
        BY ONLY <3>2, NewFits
      <3> QED BY <3>1, <3>2, <3>3
    <2>4. IsEndpoint(v) /\ v.index = ep.index /\ v.unreliable = ep.unreliable
          /\ v.closed = ep.closed /\ v.handed = ep.handed
      <3>1. IsEndpoint(ep) /\ v \in Dispatched(ep, m)  BY <2>1, <2>3
      <3>2. IsEndpoint(v) /\ Alike(ep, v)  BY ONLY <1>2, <3>1, DispatchedFields
      <3> QED BY <3>2 DEF Alike
    <2> QED BY <1>1, <1>3, <2>1, <2>2, <2>3, <2>4
  <1>6. CASE UNCHANGED <<endpoints, early_endpoints>>
    BY <1>3, <1>6 DEF PipeTypes, EndpointsTyped
  <1> QED BY <1>1, <1>4, <1>5, <1>6

\* Types and calls when a packet arrived.
LEMMA PacketTypes ==
  ASSUME PipeTypes, Calls, ReceivePacket
  PROVE  PipeTypes' /\ Calls' /\ Lasting
  <1>1. /\ UNCHANGED <<connecting_endpoints, pipeendpoints, attempts, to_service, sessions>>
        /\ to_client # <<>> /\ to_client' = Tail(to_client)
    BY DEF ReceivePacket
  <1>2. /\ endpoints' \in Seq({endpoints'[e] : e \in DOMAIN endpoints'})
        /\ \A e \in DOMAIN endpoints :
             /\ e \in DOMAIN endpoints' /\ IsEndpoint(endpoints'[e])
             /\ endpoints'[e].index = endpoints[e].index
             /\ endpoints'[e].unreliable = endpoints[e].unreliable
             /\ endpoints'[e].closed = endpoints[e].closed
             /\ endpoints'[e].handed = endpoints[e].handed
             /\ endpoints'[e].session = endpoints[e].session
             /\ endpoints'[e].given_up = endpoints[e].given_up
        /\ \A e \in DOMAIN endpoints' \ DOMAIN endpoints :
             /\ IsEndpoint(endpoints'[e]) /\ endpoints'[e].index = Head(to_client).index
             /\ ~endpoints'[e].handed /\ ~endpoints'[e].closed /\ ~endpoints'[e].unreliable
        /\ \/ early_endpoints' = early_endpoints
           \/ \E e \in DOMAIN endpoints' \ DOMAIN endpoints :
                early_endpoints' = Put(early_endpoints, Head(to_client).index, e)
    BY PacketEndpoints
  <1>3. Head(to_client).index \in Indices
    BY PacketChanges
  <1>4. Lasting  BY <1>1, <1>2 DEF Lasting
  <1>5. AttemptsTyped' /\ SessionsTyped' /\ ToServiceTyped'
    BY <1>1 DEF PipeTypes, AttemptsTyped, SessionsTyped, ToServiceTyped
  <1>6. EndpointsTyped'
    <2>1. \A e \in DOMAIN endpoints :
            /\ IsEndpoint(endpoints[e])
            /\ endpoints[e].handed =>
                 /\ endpoints[e].session \in DOMAIN sessions
                 /\ sessions[endpoints[e].session].index = endpoints[e].index
                 /\ attempts[sessions[endpoints[e].session].key] = "connected"
      BY DEF PipeTypes, EndpointsTyped
    <2>2. \A e \in DOMAIN endpoints' :
            /\ IsEndpoint(endpoints'[e])
            /\ endpoints'[e].handed =>
                 /\ endpoints'[e].session \in DOMAIN sessions
                 /\ sessions[endpoints'[e].session].index = endpoints'[e].index
                 /\ attempts[sessions[endpoints'[e].session].key] = "connected"
      BY <1>2, <2>1
    <2> QED BY <1>1, <1>2, <2>2 DEF EndpointsTyped
  <1>7. TablesTyped'
    <2>1. ASSUME NEW i \in DOMAIN pipeendpoints
          PROVE  /\ i \in Indices /\ pipeendpoints[i] \in DOMAIN endpoints'
                 /\ endpoints'[pipeendpoints[i]].index = i /\ endpoints'[pipeendpoints[i]].handed
      <3>1. /\ i \in Indices /\ pipeendpoints[i] \in DOMAIN endpoints
            /\ endpoints[pipeendpoints[i]].index = i /\ endpoints[pipeendpoints[i]].handed
        BY DEF PipeTypes, TablesTyped
      <3> QED BY <1>2, <3>1
    <2>2. ASSUME NEW i \in DOMAIN early_endpoints'
          PROVE  /\ i \in Indices /\ early_endpoints'[i] \in DOMAIN endpoints'
                 /\ endpoints'[early_endpoints'[i]].index = i
                 /\ ~endpoints'[early_endpoints'[i]].handed
                 /\ ~endpoints'[early_endpoints'[i]].closed
                 /\ ~endpoints'[early_endpoints'[i]].unreliable
      <3>1. CASE i \in DOMAIN early_endpoints /\ early_endpoints'[i] = early_endpoints[i]
        <4>1. /\ i \in Indices /\ early_endpoints[i] \in DOMAIN endpoints
              /\ endpoints[early_endpoints[i]].index = i
              /\ ~endpoints[early_endpoints[i]].handed
              /\ ~endpoints[early_endpoints[i]].closed
              /\ ~endpoints[early_endpoints[i]].unreliable
          BY <3>1 DEF PipeTypes, TablesTyped
        <4> QED BY <1>2, <3>1, <4>1
      <3>2. CASE /\ i = Head(to_client).index
                 /\ early_endpoints'[i] \in DOMAIN endpoints' \ DOMAIN endpoints
        BY <1>2, <1>3, <3>2
      <3> QED BY <1>2, <3>1, <3>2 DEF Put
    <2> QED BY <1>1, <2>1, <2>2 DEF TablesTyped
  <1>8. ToClientTyped'  BY <1>1, <1>4, TakenTypes
  <1>9. PipeTypes'  BY <1>5, <1>6, <1>7, <1>8 DEF PipeTypes
  <1>10. Calls'
    <2>1. KeysOnce' /\ Awaited'  BY <1>1 DEF Calls, KeysOnce, Awaited, Requests
    <2>2. \A i \in Indices : GivenUp(i) => GivenUp(i)'  BY <1>4 DEF GivenUp, Lasting
    <2>3. ClosesGivenUp'  BY <1>1, <2>2 DEF Calls, ClosesGivenUp
    <2> QED BY <2>1, <2>3 DEF Calls
  <1> QED BY <1>4, <1>9, <1>10

\* A packet leaves the other indices.
LEMMA PacketOther ==
  ASSUME PipeInv, ReceivePacket, NEW i \in Indices, Good(i)', i # Head(to_client).index
  PROVE  IndexInv(i)'
  <1>1. PipeTypes /\ Calls /\ \A j \in Indices : Good(j) => IndexInv(j)  BY DEF PipeInv
  <1>2. PipeTypes' /\ Calls' /\ Lasting  BY <1>1, PacketTypes
  <1>3. /\ UNCHANGED <<connecting_endpoints, pipeendpoints, attempts, shut_down, sessions>>
        /\ to_client # <<>> /\ to_client' = Tail(to_client)
    BY DEF ReceivePacket
  <1>4. PICK m :
    /\ m = Head(to_client) /\ m.type = "PipePacket"
    /\ m.session \in DOMAIN sessions /\ m.index = sessions[m.session].index
    /\ \/ \E e, v :
            /\ IsChanged(endpoints, e, v, endpoints')
            /\ \/ m.index \in DOMAIN pipeendpoints /\ e = pipeendpoints[m.index]
               \/ m.index \in DOMAIN early_endpoints /\ e = early_endpoints[m.index]
            /\ early_endpoints' = early_endpoints
       \/ \E e, v :
            /\ IsExtended(endpoints, e, v, endpoints')
            /\ early_endpoints' = Put(early_endpoints, m.index, e)
       \/ UNCHANGED <<endpoints, early_endpoints>>
    BY <1>1, PacketChanges
  <1>5. IndexInv(i)  BY <1>1, <1>2, GoodIndices
  <1>6. i # m.index  BY <1>4
  <1>7. /\ EndpointsOf(i)' = EndpointsOf(i) /\ \A d \in EndpointsOf(i) : endpoints'[d] = endpoints[d]
        /\ i \in DOMAIN early_endpoints' <=> i \in DOMAIN early_endpoints
        /\ i \in DOMAIN early_endpoints => early_endpoints'[i] = early_endpoints[i]
    <2>1. CASE \E e, v :
            /\ IsChanged(endpoints, e, v, endpoints')
            /\ \/ m.index \in DOMAIN pipeendpoints /\ e = pipeendpoints[m.index]
               \/ m.index \in DOMAIN early_endpoints /\ e = early_endpoints[m.index]
            /\ early_endpoints' = early_endpoints
      <3>1. PICK e, v :
              /\ IsChanged(endpoints, e, v, endpoints')
              /\ \/ m.index \in DOMAIN pipeendpoints /\ e = pipeendpoints[m.index]
                 \/ m.index \in DOMAIN early_endpoints /\ e = early_endpoints[m.index]
              /\ early_endpoints' = early_endpoints
        BY <2>1
      <3>2. e \in DOMAIN endpoints /\ endpoints[e].index = m.index
        BY <1>1, <3>1 DEF PipeTypes, TablesTyped
      <3>3. endpoints'[e] = v  BY <3>1 DEF IsChanged
      <3>4. v.index = m.index
        <4>1. endpoints'[e].index = endpoints[e].index  BY <1>2, <3>2 DEF Lasting
        <4> QED BY <3>2, <3>3, <4>1
      <3> QED BY <1>1, <1>6, <3>1, <3>2, <3>4, OtherEndpoints
    <2>2. CASE \E e, v :
            /\ IsExtended(endpoints, e, v, endpoints')
            /\ early_endpoints' = Put(early_endpoints, m.index, e)
      <3>1. PICK e, v : /\ IsExtended(endpoints, e, v, endpoints')
                        /\ early_endpoints' = Put(early_endpoints, m.index, e)
        BY <2>2
      <3>2. e \in DOMAIN endpoints' \ DOMAIN endpoints /\ endpoints'[e] = v
        BY <3>1 DEF IsExtended
      <3>3. v.index = m.index  BY <1>1, <1>4, <3>2, PacketEndpoints
      <3>4. EndpointsOf(i)' = EndpointsOf(i) /\ \A d \in EndpointsOf(i) : endpoints'[d] = endpoints[d]
        BY <1>1, <1>6, <3>1, <3>3, OtherEndpoints
      <3>5. /\ i \in DOMAIN early_endpoints' <=> i \in DOMAIN early_endpoints
            /\ i \in DOMAIN early_endpoints => early_endpoints'[i] = early_endpoints[i]
        BY <1>6, <3>1 DEF Put
      <3> QED BY <3>4, <3>5
    <2>3. CASE UNCHANGED <<endpoints, early_endpoints>>
      BY <2>3 DEF EndpointsOf
    <2> QED BY <1>4, <2>1, <2>2, <2>3
  <1>8. \A d \in EndpointsOf(i) : endpoints[d].index = i  BY DEF EndpointsOf
  <1>9. EndpointsStay(i) /\ EarlyStays(i)
    BY <1>3, <1>7, <1>8 DEF EndpointsStay, EarlyStays, Routed, IsEarly
  <1>10. SessionsStay(i)  BY <1>3 DEF SessionsStay, Sessions
  <1>11. \A s \in Sessions(i) : Status(s)' = Status(s)  BY <1>3 DEF Status
  <1>12. /\ TurnsKept(i) /\ NumbersKept(i) /\ MessagesStay(i)
         /\ \A s \in Sessions(i) : Kept(i, s, 0, 0)
    <2>1. /\ \A s \in Sessions(i) : ~IsAbout(Head(to_client), s)
          /\ ~IsClosing(Head(to_client), i)
      BY <1>4, <1>6 DEF IsAbout, IsClosing, Sessions
    <2> QED BY <1>1, <1>3, <2>1, TakenKeeps
  <1> QED BY <1>1, <1>3, <1>5, <1>9, <1>10, <1>11, <1>12, IndexKept

\* What a packet leaves of its own index: the turns, and the streams of other sessions.
LEMMA PacketKeeps ==
  ASSUME PipeInv, ReceivePacket, NEW i \in Indices, Good(i)', i = Head(to_client).index
  PROVE  /\ IndexInv(i) /\ InTurn(i)' /\ TurnsKept(i)
         /\ \A s \in Sessions(i) : Kept(i, s, 0, 0)
         /\ \A s \in Sessions(i) : /\ About(s, to_client') # {} => About(s, to_client) # {}
                                   /\ Status(s)' = Status(s)
         /\ Sessions(i)' = Sessions(i)
         /\ \E s \in Sessions(i) :
              /\ s = Head(to_client).session /\ 1 \in Packets(s, to_client)
              /\ \A t \in Sessions(i), k \in Nat : t # s /\ Numbered(t, k) => Numbered(t, k)'
  <1>1. PipeTypes /\ Calls /\ \A j \in Indices : Good(j) => IndexInv(j)  BY DEF PipeInv
  <1>2. PipeTypes' /\ Calls' /\ Lasting  BY <1>1, PacketTypes
  <1>3. /\ UNCHANGED <<connecting_endpoints, pipeendpoints, attempts, shut_down, sessions>>
        /\ to_client # <<>> /\ to_client' = Tail(to_client)
    BY DEF ReceivePacket
  <1>4. PICK m : /\ m = Head(to_client) /\ m = to_client[1] /\ 1 \in DOMAIN to_client
                 /\ IsRest(to_client, to_client') /\ m.type = "PipePacket"
    BY <1>1, <1>3, PipeClientRest DEF ReceivePacket
  <1>5. PICK s \in Sessions(i) : s = m.session
    BY <1>1, <1>4 DEF PipeTypes, ToClientTyped, Sessions
  <1>6. IndexInv(i)  BY <1>1, <1>2, GoodIndices
  <1>7. 1 \notin Closings(i, to_client)  BY <1>4 DEF Closings
  <1>8. \A t : 1 \notin Replies(t, to_client)  BY <1>4 DEF Replies
  <1>9. 1 \in Packets(s, to_client)  BY <1>4, <1>5 DEF Packets
  <1>10. \A t : t # s => 1 \notin Packets(t, to_client)  BY <1>4, <1>5 DEF Packets
  <1>11. /\ TurnsKept(i)
         /\ \A t \in Sessions(i) : Kept(i, t, 0, 0)
         /\ \A t \in Sessions(i), k \in Nat : t # s /\ Numbered(t, k) => Numbered(t, k)'
    BY <1>3, <1>4, <1>7, <1>10, RestKeeps
  <1>12. Sessions(i)' = Sessions(i) /\ \A t \in Sessions(i) : Status(t)' = Status(t)
    BY <1>3 DEF Sessions, Status
  <1>13. \A t \in Sessions(i) : /\ About(t, to_client') # {} => About(t, to_client) # {}
                                /\ Replies(t, to_client) # {} => Replies(t, to_client') # {}
    BY <1>4, <1>8, PipeRest
  <1>14. InTurn(i)'
    <2>1. \A t \in Sessions(i) :
            /\ sessions'[t].open => sessions[t].open
            /\ sessions'[t].replied \/ sessions'[t].open
            /\ Status(t)' = "pending" /\ sessions'[t].replied => Replies(t, to_client') # {}
      BY <1>3, <1>6, <1>12, <1>13 DEF IndexInv, InTurn
    <2> QED BY <1>6, <1>11, <1>12, <2>1, InTurnKept DEF IndexInv
  <1> QED BY <1>4, <1>5, <1>6, <1>9, <1>11, <1>12, <1>13, <1>14

\* The next packet extends the stream of its endpoint.
LEMMA StreamGrows ==
  ASSUME PipeTypes, to_client # <<>>, to_client' = Tail(to_client), UNCHANGED sessions,
         NEW m, m = Head(to_client), m = to_client[1],
         NEW s \in DOMAIN sessions, s = m.session, 1 \in Packets(s, to_client),
         NEW k \in Nat, Numbered(s, k),
         NEW ep, IsEndpoint(ep), ~ep.unreliable, Came(ep.receiver, ep.undecoded, s, k),
         NEW v \in Dispatched(ep, m)
  PROVE  /\ Came(v.receiver, v.undecoded, s, k + 1) /\ k + 1 \in 1..MaxPackets
         /\ Numbered(s, k + 1)'
  <1>1. to_client[1].packetnum = k + 1 /\ k + 1 <= MaxPackets /\ Numbered(s, k + 1)'
    BY NextNumber
  <1>2. PICK n \in Nat : n = k + 1 /\ n = m.packetnum  BY <1>1
  <1>3. PICK packet : packet = <<s, n>>  OBVIOUS
  <1>4. PICK r, t, u, w :
          /\ r = ep.receiver /\ t = v.receiver /\ u = ep.undecoded /\ w = v.undecoded
          /\ \/ t \in PacketReceived(r, n, packet) /\ w = u
             \/ t = r /\ w = u \cup {packet}
    BY <1>2, <1>3, DispatchedFields DEF Receives
  <1>5. Came(t, w, s, n)  BY <1>1, <1>2, <1>3, <1>4, CameNext
  <1>6. k + 1 \in 1..MaxPackets  BY <1>1, BoundsAssumption
  <1> QED BY <1>1, <1>2, <1>4, <1>5, <1>6

\* The packet is of the session of the entry, and the next of its stream.
LEMMA PacketRouted ==
  ASSUME PipeInv, ReceivePacket, NEW i \in Indices, Good(i)', i = Head(to_client).index,
         ~shut_down, NEW e, NEW v, IsChanged(endpoints, e, v, endpoints'),
         i \in DOMAIN pipeendpoints, e = pipeendpoints[i],
         v \in Dispatched(endpoints[e], Head(to_client)), early_endpoints' = early_endpoints
  PROVE  IndexInv(i)'
  <1>1. PipeTypes  BY DEF PipeInv
  <1>2. /\ UNCHANGED <<pipeendpoints, attempts, shut_down, sessions>>
        /\ to_client # <<>> /\ to_client' = Tail(to_client)
    BY DEF ReceivePacket
  <1>3. /\ IndexInv(i) /\ InTurn(i)' /\ TurnsKept(i)
        /\ \A t \in Sessions(i) : Kept(i, t, 0, 0)
        /\ \A t \in Sessions(i) : /\ About(t, to_client') # {} => About(t, to_client) # {}
                                  /\ Status(t)' = Status(t)
        /\ Sessions(i)' = Sessions(i)
    BY PacketKeeps
  <1>4. PICK s \in Sessions(i) :
          /\ s = Head(to_client).session /\ 1 \in Packets(s, to_client)
          /\ \A t \in Sessions(i), k \in Nat : t # s /\ Numbered(t, k) => Numbered(t, k)'
    BY PacketKeeps
  <1>5. Entries(i) /\ Streams(i)  BY <1>3 DEF IndexInv
  <1>6. e \in EndpointsOf(i) /\ Routed(e) /\ \A d \in EndpointsOf(i) : Routed(d) => d = e
    BY <1>1 DEF PipeTypes, TablesTyped, EndpointsOf, Routed
  <1>7. endpoints[e].handed /\ Status(endpoints[e].session) = "connected"
    BY <1>1, <1>6, HandedSession
  <1>8. endpoints[e].session = s
    BY <1>1, <1>3, <1>4, <1>6, HeadTurn DEF About
  <1>9. /\ DOMAIN endpoints' = DOMAIN endpoints /\ endpoints'[e] = v
        /\ \A d \in DOMAIN endpoints : d # e => endpoints'[d] = endpoints[d]
    BY DEF IsChanged
  <1>10. PICK m : m = Head(to_client) /\ m = to_client[1]  BY <1>1, <1>2, PipeClientRest
  <1>11. IsEndpoint(endpoints[e]) /\ s \in DOMAIN sessions
    BY <1>1, <1>4, <1>6, PipeShapes DEF EndpointsOf, Sessions
  <1>12. m.packetnum \in Nat
    BY <1>1, <1>4, <1>10, PacketNums, BoundsAssumption
  <1>13. /\ v.index = endpoints[e].index /\ v.unreliable = endpoints[e].unreliable
         /\ v.closed = endpoints[e].closed /\ v.handed = endpoints[e].handed
         /\ v.session = endpoints[e].session
    <2>1. PICK ep : ep = endpoints[e] /\ IsEndpoint(ep)  BY <1>11
    <2>2. v \in Dispatched(ep, m)  BY ONLY v \in Dispatched(endpoints[e], Head(to_client)), <1>10, <2>1
    <2>3. /\ v.index = ep.index /\ v.unreliable = ep.unreliable /\ v.closed = ep.closed
          /\ v.handed = ep.handed /\ v.session = ep.session
      <3>1. Alike(ep, v)  BY ONLY <1>12, <2>1, <2>2, DispatchedFields
      <3> QED BY <3>1 DEF Alike
    <2> QED BY <2>1, <2>3
  <1>14. /\ EndpointsOf(i)' = EndpointsOf(i)
         /\ \A d \in EndpointsOf(i) : /\ endpoints'[d].session = endpoints[d].session
                                      /\ endpoints'[d].unreliable = endpoints[d].unreliable
                                      /\ d \in Live' => d \in Live
                                      /\ Routed(d)' <=> Routed(d)
                                      /\ IsEarly(d)' <=> IsEarly(d)
    <2>1. \A d \in DOMAIN endpoints :
            /\ endpoints'[d].index = endpoints[d].index
            /\ endpoints'[d].session = endpoints[d].session
            /\ endpoints'[d].unreliable = endpoints[d].unreliable
            /\ endpoints'[d].closed = endpoints[d].closed
            /\ endpoints'[d].handed = endpoints[d].handed
      BY <1>9, <1>13
    <2> QED BY <1>2, <1>9, <2>1 DEF EndpointsOf, Live, Routed, IsEarly
  <1>15. Entries(i)'
    <2>1. \A d \in EndpointsOf(i) : Routed(d) => endpoints[d].session \in Sessions(i)
      BY <1>1, HandedSession
    <2>2. \A t \in Sessions(i)' :
            Status(t)' = "connected" /\ (sessions'[t].open \/ About(t, to_client') # {}) =>
              /\ t \in Sessions(i) /\ Status(t) = "connected"
              /\ sessions[t].open \/ About(t, to_client) # {}
      BY <1>2, <1>3
    <2> QED BY <1>3, <1>5, <1>14, <2>1, <2>2, EntriesKept
  <1>16. ASSUME NEW d \in EndpointsOf(i), d # e, NEW t, NEW k, InStream(d, t, k)
         PROVE  InStream(d, t, k)'
    <2>1. endpoints'[d] = endpoints[d]  BY <1>9, <1>16 DEF EndpointsOf
    <2> QED BY <1>16, <2>1 DEF InStream
  <1>17. ~IsEarly(e)
    BY <1>1, <1>6, <1>7 DEF PipeTypes, TablesTyped, IsEarly, EndpointsOf
  <1>18. \A t \in Sessions(i) : Status(t) = "pending" => t # s  BY <1>7, <1>8
  <1>19. ASSUME NEW d \in EndpointsOf(i), IsEarly(d)
         PROVE  \E t \in Sessions(i), k \in 1..MaxPackets :
                  /\ InStream(d, t, k)' /\ Status(t)' = "pending"
                  /\ NothingBefore(i, t)' /\ Numbered(t, k)'
    <2>1. PICK t \in Sessions(i), k \in 1..MaxPackets :
            /\ InStream(d, t, k) /\ Status(t) = "pending"
            /\ NothingBefore(i, t) /\ Numbered(t, k)
      BY <1>5, <1>19 DEF Streams
    <2>2. k \in Nat  BY BoundsAssumption
    <2>3. d # e  BY <1>17, <1>19
    <2>4. InStream(d, t, k)'  BY <1>16, <2>1, <2>3
    <2>5. Numbered(t, k)'  BY <1>4, <1>18, <2>1, <2>2
    <2>6. NothingBefore(i, t)'  BY <1>3, <2>1 DEF TurnsKept
    <2> QED BY <1>3, <2>1, <2>4, <2>5, <2>6
  <1>20. ASSUME NEW t \in Sessions(i), Status(t) = "pending"
         PROVE  \/ Numbered(t, 0)'
                \/ \E d \in EndpointsOf(i), k \in 1..MaxPackets : IsEarly(d) /\ InStream(d, t, k)'
    <2>1. CASE Numbered(t, 0)
      BY <1>4, <1>18, <1>20, <2>1
    <2>2. CASE \E d \in EndpointsOf(i), k \in 1..MaxPackets : IsEarly(d) /\ InStream(d, t, k)
      BY <1>16, <1>17, <2>2
    <2> QED BY <1>5, <1>20, <2>1, <2>2 DEF Streams
  <1>21. ASSUME NEW d \in EndpointsOf(i), d \in Live, ~endpoints[d].unreliable
         PROVE  \E k \in 0..MaxPackets :
                  endpoints[d].session = s /\ InStream(d, s, k)' /\ Numbered(s, k)'
    <2>1. d = e  BY <1>5, <1>6, <1>21 DEF Entries
    <2>2. PICK k \in 0..MaxPackets : InStream(e, s, k) /\ Numbered(s, k)
      BY <1>5, <1>8, <1>21, <2>1 DEF Streams
    <2>3. k \in Nat  BY BoundsAssumption
    <2>4. Came(endpoints[e].receiver, endpoints[e].undecoded, s, k)  BY <2>2 DEF InStream
    <2>5. Came(v.receiver, v.undecoded, s, k + 1) /\ k + 1 \in 1..MaxPackets /\ Numbered(s, k + 1)'
      BY <1>1, <1>2, <1>4, <1>10, <1>11, <1>21, <2>1, <2>2, <2>3, <2>4, StreamGrows
    <2>6. PICK n : n = k + 1 /\ n \in 0..MaxPackets  BY <2>5
    <2>7. InStream(e, s, n)'  BY <1>9, <2>5, <2>6 DEF InStream
    <2> QED BY <1>8, <2>1, <2>5, <2>6, <2>7
  <1>22. Streams(i)'
    <2>1. \A d \in EndpointsOf(i) : d \in Live' /\ ~endpoints'[d].unreliable =>
            \E t \in Sessions(i)', k \in 0..MaxPackets :
              endpoints'[d].session = t /\ InStream(d, t, k)' /\ Numbered(t, k)'
      BY <1>3, <1>4, <1>14, <1>21
    <2>2. \A d \in EndpointsOf(i)' : IsEarly(d)' =>
            \E t \in Sessions(i)', k \in 1..MaxPackets :
                  /\ InStream(d, t, k)' /\ Status(t)' = "pending"
                  /\ NothingBefore(i, t)' /\ Numbered(t, k)'
      BY <1>3, <1>14, <1>19
    <2>3. \A t \in Sessions(i)' : Status(t)' = "pending" =>
            \/ Numbered(t, 0)'
            \/ \E d \in EndpointsOf(i)', k \in 1..MaxPackets : IsEarly(d)' /\ InStream(d, t, k)'
      BY <1>3, <1>14, <1>20
    <2> QED BY <1>14, <2>1, <2>2, <2>3 DEF Streams
  <1> QED BY <1>3, <1>15, <1>22 DEF IndexInv

\* The packet is of the session that the early endpoint waits for, and the next of its stream.
LEMMA PacketEarly ==
  ASSUME PipeInv, ReceivePacket, NEW i \in Indices, Good(i)', i = Head(to_client).index,
         ~shut_down, NEW e, NEW v, IsChanged(endpoints, e, v, endpoints'),
         i \notin DOMAIN pipeendpoints, i \in DOMAIN early_endpoints, e = early_endpoints[i],
         v \in Dispatched(endpoints[e], Head(to_client)), early_endpoints' = early_endpoints
  PROVE  IndexInv(i)'
  <1>1. PipeTypes  BY DEF PipeInv
  <1>2. /\ UNCHANGED <<pipeendpoints, attempts, shut_down, sessions>>
        /\ to_client # <<>> /\ to_client' = Tail(to_client)
    BY DEF ReceivePacket
  <1>3. /\ IndexInv(i) /\ InTurn(i)' /\ TurnsKept(i)
        /\ \A t \in Sessions(i) : Kept(i, t, 0, 0)
        /\ \A t \in Sessions(i) : /\ About(t, to_client') # {} => About(t, to_client) # {}
                                  /\ Status(t)' = Status(t)
        /\ Sessions(i)' = Sessions(i)
    BY PacketKeeps
  <1>4. PICK s \in Sessions(i) :
          /\ s = Head(to_client).session /\ 1 \in Packets(s, to_client)
          /\ \A t \in Sessions(i), k \in Nat : t # s /\ Numbered(t, k) => Numbered(t, k)'
    BY PacketKeeps
  <1>5. Entries(i) /\ Streams(i)  BY <1>3 DEF IndexInv
  <1>6. /\ e \in EndpointsOf(i) /\ IsEarly(e) /\ ~endpoints[e].unreliable
        /\ \A d \in EndpointsOf(i) : ~Routed(d) /\ (IsEarly(d) => d = e)
    BY <1>1 DEF PipeTypes, TablesTyped, EndpointsOf, Routed, IsEarly
  <1>7. PICK t \in Sessions(i), k \in 1..MaxPackets :
          /\ InStream(e, t, k) /\ Status(t) = "pending"
          /\ NothingBefore(i, t) /\ Numbered(t, k)
    BY <1>5, <1>6 DEF Streams
  <1>8. t = s  BY <1>1, <1>3, <1>4, <1>7, HeadTurn DEF About
  <1>9. /\ DOMAIN endpoints' = DOMAIN endpoints /\ endpoints'[e] = v
        /\ \A d \in DOMAIN endpoints : d # e => endpoints'[d] = endpoints[d]
    BY DEF IsChanged
  <1>10. PICK m : m = Head(to_client) /\ m = to_client[1]  BY <1>1, <1>2, PipeClientRest
  <1>11. IsEndpoint(endpoints[e]) /\ s \in DOMAIN sessions
    BY <1>1, <1>4, <1>6, PipeShapes DEF EndpointsOf, Sessions
  <1>12. m.packetnum \in Nat
    BY <1>1, <1>4, <1>10, PacketNums, BoundsAssumption
  <1>13. /\ v.index = endpoints[e].index /\ v.unreliable = endpoints[e].unreliable
         /\ v.closed = endpoints[e].closed /\ v.handed = endpoints[e].handed
         /\ v.session = endpoints[e].session
    <2>1. PICK ep : ep = endpoints[e] /\ IsEndpoint(ep)  BY <1>11
    <2>2. v \in Dispatched(ep, m)  BY ONLY v \in Dispatched(endpoints[e], Head(to_client)), <1>10, <2>1
    <2>3. /\ v.index = ep.index /\ v.unreliable = ep.unreliable /\ v.closed = ep.closed
          /\ v.handed = ep.handed /\ v.session = ep.session
      <3>1. Alike(ep, v)  BY ONLY <1>12, <2>1, <2>2, DispatchedFields
      <3> QED BY <3>1 DEF Alike
    <2> QED BY <2>1, <2>3
  <1>14. /\ EndpointsOf(i)' = EndpointsOf(i)
         /\ \A d \in EndpointsOf(i) : /\ endpoints'[d].session = endpoints[d].session
                                      /\ d \in Live' => d \in Live
                                      /\ Routed(d)' <=> Routed(d)
                                      /\ IsEarly(d)' <=> IsEarly(d)
    <2>1. \A d \in DOMAIN endpoints :
            /\ endpoints'[d].index = endpoints[d].index
            /\ endpoints'[d].session = endpoints[d].session
            /\ endpoints'[d].closed = endpoints[d].closed
            /\ endpoints'[d].handed = endpoints[d].handed
      BY <1>9, <1>13
    <2> QED BY <1>2, <1>9, <2>1 DEF EndpointsOf, Live, Routed, IsEarly
  <1>15. Entries(i)'
    <2>1. \A d \in EndpointsOf(i) : Routed(d) => endpoints[d].session \in Sessions(i)
      BY <1>6
    <2>2. \A x \in Sessions(i)' :
            Status(x)' = "connected" /\ (sessions'[x].open \/ About(x, to_client') # {}) =>
              /\ x \in Sessions(i) /\ Status(x) = "connected"
              /\ sessions[x].open \/ About(x, to_client) # {}
      BY <1>2, <1>3
    <2> QED BY <1>3, <1>5, <1>14, <2>1, <2>2, EntriesKept
  <1>16. k \in Nat  BY BoundsAssumption
  <1>17. Came(endpoints[e].receiver, endpoints[e].undecoded, s, k)  BY <1>7, <1>8 DEF InStream
  <1>18. Came(v.receiver, v.undecoded, s, k + 1) /\ k + 1 \in 1..MaxPackets /\ Numbered(s, k + 1)'
    BY <1>1, <1>2, <1>4, <1>6, <1>7, <1>8, <1>10, <1>11, <1>16, <1>17, StreamGrows
  <1>19. PICK n : n = k + 1 /\ n \in 1..MaxPackets  BY <1>18
  <1>20. InStream(e, s, n)'  BY <1>9, <1>18, <1>19 DEF InStream
  <1>21. NothingBefore(i, s)'  BY <1>3, <1>7, <1>8 DEF TurnsKept
  <1>22. ASSUME NEW x \in Sessions(i), x # s, Status(x) = "pending" PROVE Numbered(x, 0)'
    <2>1. Numbered(x, 0)
      <3> SUFFICES ASSUME NEW l \in 1..MaxPackets, InStream(e, x, l) PROVE FALSE
        BY <1>5, <1>6, <1>22 DEF Streams
      <3>1. x = s  BY <1>7, <1>8, CameOfOne, BoundsAssumption DEF InStream
      <3> QED BY <1>22, <3>1
    <2> QED BY <1>4, <1>22, <2>1
  <1>23. \A d \in EndpointsOf(i) : d \notin Live'
    BY <1>5, <1>6, <1>14 DEF Entries
  <1>24. Streams(i)'
    <2>1. \A d \in EndpointsOf(i)' : IsEarly(d)' =>
            \E x \in Sessions(i)', l \in 1..MaxPackets :
                  /\ InStream(d, x, l)' /\ Status(x)' = "pending"
                  /\ NothingBefore(i, x)' /\ Numbered(x, l)'
      <3>1. \A d \in EndpointsOf(i)' : IsEarly(d)' => d = e  BY <1>6, <1>14
      <3>2. Status(s)' = "pending"  BY <1>3, <1>7, <1>8
      <3> QED BY <1>3, <1>18, <1>19, <1>20, <1>21, <3>1, <3>2
    <2>2. \A x \in Sessions(i)' : Status(x)' = "pending" =>
            \/ Numbered(x, 0)'
            \/ \E d \in EndpointsOf(i)', l \in 1..MaxPackets : IsEarly(d)' /\ InStream(d, x, l)'
      <3>1. \A x \in Sessions(i)' : Status(x)' = "pending" => x = s \/ Numbered(x, 0)'
        BY <1>3, <1>22
      <3>2. e \in EndpointsOf(i)' /\ IsEarly(e)'  BY <1>6, <1>14
      <3> QED BY <1>19, <1>20, <3>1, <3>2
    <2> QED BY <1>14, <1>23, <2>1, <2>2 DEF Streams
  <1> QED BY <1>3, <1>15, <1>24 DEF IndexInv

\* The packet is the first of a session whose connect is pending: an early endpoint gets it.
LEMMA PacketNew ==
  ASSUME PipeInv, ReceivePacket, NEW i \in Indices, Good(i)', i = Head(to_client).index,
         ~shut_down, NEW e, NEW v, IsExtended(endpoints, e, v, endpoints'),
         i \notin DOMAIN pipeendpoints \cup DOMAIN early_endpoints,
         v \in Dispatched(NewEndpoint(i, FALSE), Head(to_client)),
         early_endpoints' = Put(early_endpoints, i, e)
  PROVE  IndexInv(i)'
  <1>1. PipeTypes /\ Calls /\ \A j \in Indices : Good(j) => IndexInv(j)  BY DEF PipeInv
  <1>2. /\ UNCHANGED <<pipeendpoints, attempts, shut_down, sessions>>
        /\ to_client # <<>> /\ to_client' = Tail(to_client)
    BY DEF ReceivePacket
  <1>3. /\ IndexInv(i) /\ InTurn(i)' /\ TurnsKept(i)
        /\ \A t \in Sessions(i) : /\ About(t, to_client') # {} => About(t, to_client) # {}
                                  /\ Status(t)' = Status(t)
        /\ Sessions(i)' = Sessions(i)
    BY PacketKeeps
  <1>4. PICK s \in Sessions(i) :
          /\ s = Head(to_client).session /\ 1 \in Packets(s, to_client)
          /\ \A t \in Sessions(i), k \in Nat : t # s /\ Numbered(t, k) => Numbered(t, k)'
    BY PacketKeeps
  <1>5. Entries(i) /\ Streams(i)  BY <1>3 DEF IndexInv
  <1>6. \A d \in EndpointsOf(i) : ~Routed(d) /\ ~IsEarly(d)
    BY DEF EndpointsOf, Routed, IsEarly
  <1>7. \A t \in Sessions(i) : Status(t) = "connected" => ~sessions[t].open /\ About(t, to_client) = {}
    BY <1>5, <1>6 DEF Entries
  <1>8. Status(s) = "pending"
    <2>1. Status(s) \in {"pending", "connected", "failed"}
      <3>1. sessions[s].key \in DOMAIN attempts  BY <1>1, PipeShapes DEF Sessions
      <3>2. attempts \in Seq({"pending", "connected", "failed"})
        BY <1>1 DEF PipeTypes, AttemptsTyped
      <3> QED BY <3>1, <3>2 DEF Status
    <2>2. Status(s) # "connected"  BY <1>4, <1>7 DEF About
    <2>3. Status(s) # "failed"
      <3>1. Lasting  BY <1>1, PacketTypes
      <3>2. Good(i)  BY <1>1, <3>1, GoodIndices
      <3> QED BY <3>2 DEF Good, Abandoned, Sessions, Status
    <2> QED BY <2>1, <2>2, <2>3
  <1>9. \A t \in Sessions(i) : Status(t) = "pending" => Numbered(t, 0)
    BY <1>5, <1>6 DEF Streams
  <1>10. NothingBefore(i, s)'
    <2>1. NothingBefore(i, s)  BY <1>1, <1>3, <1>4, HeadTurn DEF About
    <2> QED BY <1>3, <2>1 DEF TurnsKept
  <1>11. PICK m : m = Head(to_client) /\ m = to_client[1]  BY <1>1, <1>2, PipeClientRest
  <1>12. m.packetnum \in Nat /\ s \in DOMAIN sessions
    BY <1>1, <1>4, <1>11, PacketNums, BoundsAssumption DEF Sessions
  <1>13. PICK ep : /\ ep = NewEndpoint(i, FALSE) /\ IsEndpoint(ep)
                   /\ ep.index = i /\ ~ep.unreliable /\ ep.receiver = NewReceiver
                   /\ ep.undecoded = {} /\ ~ep.closed /\ ~ep.handed
    <2>1. PICK ep, u : u = FALSE /\ ep = NewEndpoint(i, u)  OBVIOUS
    <2>2. /\ IsEndpoint(ep) /\ ep.index = i /\ ep.unreliable = u /\ ep.receiver = NewReceiver
          /\ ~ep.closed /\ ~ep.handed
      BY ONLY i \in Indices, <2>1, NewFits
    <2>3. ep.undecoded = {}  BY <2>1 DEF NewEndpoint
    <2> QED BY ONLY <2>1, <2>2, <2>3
  <1>14. v \in Dispatched(ep, m)
    BY ONLY v \in Dispatched(NewEndpoint(i, FALSE), Head(to_client)), <1>11, <1>13
  <1>15. v.index = i /\ ~v.handed
    <2>1. v.index = ep.index /\ v.handed = ep.handed
      BY ONLY <1>12, <1>13, <1>14, DispatchedFields DEF Alike
    <2> QED BY ONLY <1>13, <2>1
  <1>16. PICK k \in Nat : k = 0  OBVIOUS
  <1>17. Came(ep.receiver, ep.undecoded, s, k)  BY <1>13, <1>16, CameNone
  <1>18. Came(v.receiver, v.undecoded, s, k + 1) /\ k + 1 \in 1..MaxPackets /\ Numbered(s, k + 1)'
    <2>1. Numbered(s, k)  BY <1>8, <1>9, <1>16
    <2>2. UNCHANGED sessions /\ to_client # <<>> /\ to_client' = Tail(to_client)  BY <1>2
    <2>3. s = m.session /\ 1 \in Packets(s, to_client) /\ k \in Nat  BY <1>4, <1>11
    <2>4. IsEndpoint(ep) /\ ~ep.unreliable  BY <1>13
    <2> QED BY ONLY <1>1, <1>11, <1>12, <1>14, <1>17, <2>1, <2>2, <2>3, <2>4, StreamGrows
  <1>19. PICK n : n = k + 1 /\ n \in 1..MaxPackets  BY <1>18
  <1>20. /\ e \notin DOMAIN endpoints /\ DOMAIN endpoints' = DOMAIN endpoints \cup {e}
         /\ endpoints'[e] = v /\ \A d \in DOMAIN endpoints : endpoints'[d] = endpoints[d]
    BY DEF IsExtended
  <1>21. InStream(e, s, n)'  BY <1>18, <1>19, <1>20 DEF InStream
  <1>22. /\ EndpointsOf(i)' = EndpointsOf(i) \cup {e}
         /\ \A d \in EndpointsOf(i)' : ~Routed(d)' /\ (IsEarly(d)' <=> d = e)
         /\ \A d \in EndpointsOf(i)' : d \notin Live'
    <2>1. EndpointsOf(i)' = EndpointsOf(i) \cup {e}
      BY <1>15, <1>20 DEF EndpointsOf
    <2>2. \A d \in EndpointsOf(i)' : endpoints'[d].index = i  BY DEF EndpointsOf
    <2>3. i \in DOMAIN early_endpoints' /\ early_endpoints'[i] = e  BY DEF Put
    <2>4. i \notin DOMAIN pipeendpoints'  BY <1>2
    <2>5. e \notin Live'  BY <1>15, <1>20 DEF Live
    <2>6. \A d \in EndpointsOf(i) : d \notin Live' 
      BY <1>5, <1>6, <1>20 DEF Entries, Live, EndpointsOf
    <2> QED BY <2>1, <2>2, <2>3, <2>4, <2>5, <2>6 DEF Routed, IsEarly
  <1>23. Entries(i)'
    <2>1. \A t \in Sessions(i)' :
            ~(Status(t)' = "connected" /\ (sessions'[t].open \/ About(t, to_client') # {}))
      BY <1>2, <1>3, <1>7
    <2> QED BY <1>22, <2>1 DEF Entries
  <1>24. Streams(i)'
    <2>1. \A d \in EndpointsOf(i)' : IsEarly(d)' =>
            \E t \in Sessions(i)', l \in 1..MaxPackets :
                  /\ InStream(d, t, l)' /\ Status(t)' = "pending"
                  /\ NothingBefore(i, t)' /\ Numbered(t, l)'
      BY <1>3, <1>4, <1>8, <1>10, <1>18, <1>19, <1>21, <1>22
    <2>2. \A t \in Sessions(i)' : Status(t)' = "pending" =>
            \/ Numbered(t, 0)'
            \/ \E d \in EndpointsOf(i)', l \in 1..MaxPackets : IsEarly(d)' /\ InStream(d, t, l)'
      <3>1. \A t \in Sessions(i)' : Status(t)' = "pending" => t = s \/ Numbered(t, 0)'
        BY <1>3, <1>4, <1>9
      <3> QED BY <1>19, <1>21, <1>22, <3>1
    <2> QED BY <1>22, <2>1, <2>2 DEF Streams
  <1> QED BY <1>3, <1>23, <1>24 DEF IndexInv

\* The packet that nobody expects is of a stub that was released, or of an index that the
\* caller has lost.
LEMMA PacketDropped ==
  ASSUME PipeInv, ReceivePacket, NEW i \in Indices, Good(i)', i = Head(to_client).index,
         \/ i \notin DOMAIN pipeendpoints \cup DOMAIN early_endpoints /\ ~Expected(i)
         \/ shut_down,
         UNCHANGED <<endpoints, early_endpoints>>
  PROVE  IndexInv(i)'
  <1>1. PipeTypes /\ Calls /\ \A j \in Indices : Good(j) => IndexInv(j)  BY DEF PipeInv
  <1>2. /\ UNCHANGED <<pipeendpoints, attempts, shut_down, sessions>>
        /\ to_client # <<>> /\ to_client' = Tail(to_client)
    BY DEF ReceivePacket
  <1>3. /\ IndexInv(i) /\ InTurn(i)' /\ TurnsKept(i)
        /\ \A t \in Sessions(i) : Status(t)' = Status(t)
        /\ Sessions(i)' = Sessions(i)
    BY PacketKeeps
  <1>4. shut_down
    <2> SUFFICES ASSUME ~shut_down PROVE FALSE  OBVIOUS
    <2>1. PICK s \in Sessions(i) : 1 \in Packets(s, to_client)  BY PacketKeeps
    <2>2. s \in DOMAIN sessions /\ sessions[s].key \in DOMAIN attempts /\ sessions[s].index = i
      BY <1>1, PipeShapes DEF Sessions
    <2>3. Status(s) \in {"pending", "connected", "failed"}
      <3>1. attempts \in Seq({"pending", "connected", "failed"})
        BY <1>1 DEF PipeTypes, AttemptsTyped
      <3> QED BY <2>2, <3>1 DEF Status
    <2>4. Status(s) # "connected"
      <3>1. \A d \in EndpointsOf(i) : ~Routed(d)  BY DEF EndpointsOf, Routed
      <3> QED BY <1>3, <2>1, <3>1 DEF IndexInv, Entries, About
    <2>5. Status(s) # "failed"
      <3>1. Lasting  BY <1>1, PacketTypes
      <3>2. Good(i)  BY <1>1, <3>1, GoodIndices
      <3> QED BY <3>2 DEF Good, Abandoned, Sessions, Status
    <2>6. Status(s) # "pending"
      <3>1. Status(s) = "pending" =>
              \E c \in connecting_endpoints : c.index \in {i, ANY_INDEX}
        BY <1>1, <2>2 DEF Calls, Awaited, Status
      <3> QED BY <3>1 DEF Expected
    <2> QED BY <2>3, <2>4, <2>5, <2>6
  <1>5. Streams(i)'
    <2>1. /\ EndpointsOf(i)' = EndpointsOf(i)
          /\ \A e \in EndpointsOf(i) : /\ endpoints'[e].receiver = endpoints[e].receiver
                                       /\ endpoints'[e].undecoded = endpoints[e].undecoded
                                       /\ endpoints'[e].session = endpoints[e].session
                                       /\ endpoints'[e].unreliable = endpoints[e].unreliable
                                       /\ e \in Live' => e \in Live
                                       /\ IsEarly(e)' <=> IsEarly(e)
      BY DEF EndpointsOf, Live, IsEarly
    <2>2. Streams(i) /\ shut_down'  BY <1>2, <1>3, <1>4 DEF IndexInv
    <2>3. \A s \in Sessions(i) : Status(s) = "pending" => Status(s)' = "pending"  BY <1>3
    <2>4. \A s \in Sessions(i)' : Status(s)' = "pending" =>
            \/ Numbered(s, 0)'
            \/ s \in Sessions(i) /\ Status(s) = "pending"
      BY <1>3
    <2> QED BY <1>3, <2>1, <2>2, <2>3, <2>4, StreamsKept
  <1> QED BY <1>2, <1>3, <1>4, <1>5 DEF IndexInv

\* A packet that arrives keeps the strengthening.
LEMMA ReceivePacketSteps ==
  ASSUME PipeInv, ReceivePacket
  PROVE  /\ PipeTypes' /\ Calls'
         /\ \A i \in Indices : Good(i)' => IndexInv(i)'
  <1>1. PipeTypes /\ Calls  BY DEF PipeInv
  <1>2. PipeTypes' /\ Calls'  BY <1>1, PacketTypes
  <1>3. ASSUME NEW i \in Indices, Good(i)', i = Head(to_client).index PROVE IndexInv(i)'
    <2>1. PICK m :
        /\ m = Head(to_client)
        /\ \/ \E e, v :
                /\ ~shut_down /\ IsChanged(endpoints, e, v, endpoints')
                /\ \/ m.index \in DOMAIN pipeendpoints /\ e = pipeendpoints[m.index]
                   \/ /\ m.index \notin DOMAIN pipeendpoints
                      /\ m.index \in DOMAIN early_endpoints /\ e = early_endpoints[m.index]
                /\ v \in Dispatched(endpoints[e], m)
                /\ early_endpoints' = early_endpoints
           \/ \E e, v :
                /\ ~shut_down /\ IsExtended(endpoints, e, v, endpoints')
                /\ m.index \notin DOMAIN pipeendpoints \cup DOMAIN early_endpoints
                /\ v \in Dispatched(NewEndpoint(m.index, FALSE), m)
                /\ early_endpoints' = Put(early_endpoints, m.index, e)
           \/ /\ \/ m.index \notin DOMAIN pipeendpoints \cup DOMAIN early_endpoints /\ ~Expected(m.index)
                 \/ shut_down
              /\ UNCHANGED <<endpoints, early_endpoints>>
      BY <1>1, PacketChanges
    <2>2. m.index = i  BY <1>3, <2>1
    <2>3. CASE \E e, v :
            /\ ~shut_down /\ IsChanged(endpoints, e, v, endpoints')
            /\ \/ m.index \in DOMAIN pipeendpoints /\ e = pipeendpoints[m.index]
               \/ /\ m.index \notin DOMAIN pipeendpoints
                  /\ m.index \in DOMAIN early_endpoints /\ e = early_endpoints[m.index]
            /\ v \in Dispatched(endpoints[e], m)
            /\ early_endpoints' = early_endpoints
      <3>1. PICK e, v :
              /\ ~shut_down /\ IsChanged(endpoints, e, v, endpoints')
              /\ \/ i \in DOMAIN pipeendpoints /\ e = pipeendpoints[i]
                 \/ /\ i \notin DOMAIN pipeendpoints
                    /\ i \in DOMAIN early_endpoints /\ e = early_endpoints[i]
              /\ v \in Dispatched(endpoints[e], Head(to_client))
              /\ early_endpoints' = early_endpoints
        BY <2>1, <2>2, <2>3
      <3>2. CASE i \in DOMAIN pipeendpoints /\ e = pipeendpoints[i]
        BY <1>3, <3>1, <3>2, PacketRouted
      <3>3. CASE /\ i \notin DOMAIN pipeendpoints
                 /\ i \in DOMAIN early_endpoints /\ e = early_endpoints[i]
        BY <1>3, <3>1, <3>3, PacketEarly
      <3> QED BY <3>1, <3>2, <3>3
    <2>4. CASE \E e, v :
            /\ ~shut_down /\ IsExtended(endpoints, e, v, endpoints')
            /\ m.index \notin DOMAIN pipeendpoints \cup DOMAIN early_endpoints
            /\ v \in Dispatched(NewEndpoint(m.index, FALSE), m)
            /\ early_endpoints' = Put(early_endpoints, m.index, e)
      <3>1. PICK e, v :
              /\ ~shut_down /\ IsExtended(endpoints, e, v, endpoints')
              /\ i \notin DOMAIN pipeendpoints \cup DOMAIN early_endpoints
              /\ v \in Dispatched(NewEndpoint(i, FALSE), Head(to_client))
              /\ early_endpoints' = Put(early_endpoints, i, e)
        BY <2>1, <2>2, <2>4
      <3> QED BY <1>3, <3>1, PacketNew
    <2>5. CASE /\ \/ m.index \notin DOMAIN pipeendpoints \cup DOMAIN early_endpoints
                     /\ ~Expected(m.index)
                  \/ shut_down
               /\ UNCHANGED <<endpoints, early_endpoints>>
      BY <1>3, <2>1, <2>2, <2>5, PacketDropped
    <2> QED BY <2>1, <2>3, <2>4, <2>5
  <1> QED BY <1>2, <1>3, PacketOther

-----------------------------------------------------------------------------
(* The pipe: the service closed an endpoint.                               *)

\* The entry of the index is closed and erased, if there is one and the stub is in use.
LEMMA PipeClosedChanges ==
  ASSUME PipeTypes, ReceivePipeClosed
  PROVE  \E m :
    /\ m = Head(to_client) /\ m = to_client[1] /\ 1 \in DOMAIN to_client
    /\ m.type = "PipeClosed" /\ m.index \in Indices
    /\ \/ \E e, v :
            /\ ~shut_down /\ m.index \in DOMAIN pipeendpoints /\ e = pipeendpoints[m.index]
            /\ pipeendpoints' = Without(pipeendpoints, m.index)
            /\ IsChanged(endpoints, e, v, endpoints') /\ IsEndpoint(v)
            /\ v.index = endpoints[e].index /\ v.unreliable = endpoints[e].unreliable
            /\ v.receiver = endpoints[e].receiver /\ v.handed = endpoints[e].handed
            /\ v.undecoded = endpoints[e].undecoded
            /\ v.session = endpoints[e].session /\ v.given_up = endpoints[e].given_up
            /\ v.closed = TRUE
       \/ /\ m.index \notin DOMAIN pipeendpoints \/ shut_down
          /\ UNCHANGED <<pipeendpoints, endpoints>>
  <1>1. PICK m : /\ m = Head(to_client) /\ m.type = "PipeClosed"
                 /\ to_client # <<>> /\ to_client' = Tail(to_client)
    BY DEF ReceivePipeClosed
  <1>2. m = to_client[1] /\ 1 \in DOMAIN to_client /\ m \in FromService
    BY <1>1, PipeClientRest
  <1>3. m.index \in Indices  BY <1>1, <1>2 DEF FromService
  <1>4. PICK i : i = m.index  OBVIOUS
  <1>5. \/ /\ i \in DOMAIN pipeendpoints /\ ~shut_down
           /\ pipeendpoints' = Without(pipeendpoints, i)
           /\ endpoints' = [endpoints EXCEPT ![pipeendpoints[i]].closed = TRUE,
                                             ![pipeendpoints[i]].callbacks = @ + 1]
        \/ /\ i \notin DOMAIN pipeendpoints \/ shut_down
           /\ UNCHANGED <<pipeendpoints, endpoints>>
    BY <1>1, <1>4 DEF ReceivePipeClosed, ForgetEndpoint
  <1>6. CASE /\ i \in DOMAIN pipeendpoints /\ ~shut_down
             /\ pipeendpoints' = Without(pipeendpoints, i)
             /\ endpoints' = [endpoints EXCEPT ![pipeendpoints[i]].closed = TRUE,
                                               ![pipeendpoints[i]].callbacks = @ + 1]
    <2>1. PICK e \in DOMAIN endpoints : e = pipeendpoints[i]  BY <1>6, PipeShapes
    <2>2. endpoints' = [endpoints EXCEPT ![e].closed = TRUE, ![e].callbacks = @ + 1]
      BY <1>6, <2>1
    <2>3. PICK ep : ep = endpoints[e] /\ IsEndpoint(ep)  BY PipeShapes
    <2>4. PICK S : endpoints \in Seq(S)  BY DEF PipeTypes, EndpointsTyped
    <2>5. PICK v : v = Made(ep.index, ep.unreliable, ep.receiver, TRUE, ep.handed, ep.session,
                            ep.given_up, ep.callbacks + 1, ep.undecoded)
      OBVIOUS
    <2>6. IsChanged(endpoints, e, v, endpoints')
      BY ONLY <2>1, <2>2, <2>3, <2>4, <2>5, ClosedAt
    <2>7. /\ v.index = ep.index /\ v.unreliable = ep.unreliable /\ v.receiver = ep.receiver
            /\ v.undecoded = ep.undecoded
          /\ v.handed = ep.handed /\ v.session = ep.session /\ v.given_up = ep.given_up
          /\ v.closed = TRUE /\ v.callbacks = ep.callbacks + 1
      BY <2>5 DEF Made
    <2>8. IsEndpoint(v)
      <3>1. ep.index \in Indices /\ IsReceiver(ep.receiver) /\ (ep.given_up => ep.handed)
        BY <2>3 DEF IsEndpoint
      <3> QED BY <2>5, <2>7, <3>1 DEF Made, IsEndpoint
    <2> QED BY <1>1, <1>2, <1>3, <1>4, <1>6, <2>1, <2>3, <2>6, <2>7, <2>8
  <1>7. CASE /\ i \notin DOMAIN pipeendpoints \/ shut_down
             /\ UNCHANGED <<pipeendpoints, endpoints>>
    BY <1>1, <1>2, <1>3, <1>4, <1>7
  <1> QED BY <1>5, <1>6, <1>7

\* The endpoints and the entries after it, one by one.
LEMMA PipeClosedEndpoints ==
  ASSUME PipeTypes, ReceivePipeClosed
  PROVE  /\ DOMAIN endpoints' = DOMAIN endpoints
         /\ \A e \in DOMAIN endpoints :
              /\ endpoints'[e].index = endpoints[e].index
              /\ endpoints'[e].unreliable = endpoints[e].unreliable
              /\ endpoints'[e].receiver = endpoints[e].receiver
              /\ endpoints'[e].undecoded = endpoints[e].undecoded
              /\ endpoints'[e].handed = endpoints[e].handed
              /\ endpoints'[e].session = endpoints[e].session
              /\ endpoints'[e].given_up = endpoints[e].given_up
              /\ endpoints[e].closed => endpoints'[e].closed
              /\ ~endpoints[e].handed => endpoints'[e] = endpoints[e]
              /\ endpoints[e].index # Head(to_client).index => endpoints'[e] = endpoints[e]
         /\ \A i \in DOMAIN pipeendpoints' :
              i \in DOMAIN pipeendpoints /\ pipeendpoints'[i] = pipeendpoints[i]
         /\ \A i \in DOMAIN pipeendpoints : i # Head(to_client).index => i \in DOMAIN pipeendpoints'
         /\ ~shut_down => /\ Head(to_client).index \notin DOMAIN pipeendpoints'
                          /\ \A e \in DOMAIN endpoints : Routed(e) /\ endpoints[e].index = Head(to_client).index =>
                               endpoints'[e].closed
         /\ EndpointsTyped'
  <1>1. PICK m :
    /\ m = Head(to_client) /\ m.type = "PipeClosed" /\ m.index \in Indices
    /\ \/ \E e, v :
            /\ ~shut_down /\ m.index \in DOMAIN pipeendpoints /\ e = pipeendpoints[m.index]
            /\ pipeendpoints' = Without(pipeendpoints, m.index)
            /\ IsChanged(endpoints, e, v, endpoints') /\ IsEndpoint(v)
            /\ v.index = endpoints[e].index /\ v.unreliable = endpoints[e].unreliable
            /\ v.receiver = endpoints[e].receiver /\ v.handed = endpoints[e].handed
            /\ v.undecoded = endpoints[e].undecoded
            /\ v.session = endpoints[e].session /\ v.given_up = endpoints[e].given_up
            /\ v.closed = TRUE
       \/ /\ m.index \notin DOMAIN pipeendpoints \/ shut_down
          /\ UNCHANGED <<pipeendpoints, endpoints>>
    BY PipeClosedChanges
  <1>2. UNCHANGED <<sessions, attempts, shut_down>>  BY DEF ReceivePipeClosed
  <1>3. CASE \E e, v :
            /\ ~shut_down /\ m.index \in DOMAIN pipeendpoints /\ e = pipeendpoints[m.index]
            /\ pipeendpoints' = Without(pipeendpoints, m.index)
            /\ IsChanged(endpoints, e, v, endpoints') /\ IsEndpoint(v)
            /\ v.index = endpoints[e].index /\ v.unreliable = endpoints[e].unreliable
            /\ v.receiver = endpoints[e].receiver /\ v.handed = endpoints[e].handed
            /\ v.undecoded = endpoints[e].undecoded
            /\ v.session = endpoints[e].session /\ v.given_up = endpoints[e].given_up
            /\ v.closed = TRUE
    <2>1. PICK e, v :
            /\ ~shut_down /\ m.index \in DOMAIN pipeendpoints /\ e = pipeendpoints[m.index]
            /\ pipeendpoints' = Without(pipeendpoints, m.index)
            /\ IsChanged(endpoints, e, v, endpoints') /\ IsEndpoint(v)
            /\ v.index = endpoints[e].index /\ v.unreliable = endpoints[e].unreliable
            /\ v.receiver = endpoints[e].receiver /\ v.handed = endpoints[e].handed
            /\ v.undecoded = endpoints[e].undecoded
            /\ v.session = endpoints[e].session /\ v.given_up = endpoints[e].given_up
            /\ v.closed = TRUE
      BY <1>3
    <2>2. /\ e \in DOMAIN endpoints /\ DOMAIN endpoints' = DOMAIN endpoints /\ endpoints'[e] = v
          /\ \A d \in DOMAIN endpoints : d # e => endpoints'[d] = endpoints[d]
      BY <2>1 DEF IsChanged
    <2>3. endpoints[e].index = m.index /\ endpoints[e].handed
      BY <2>1, PipeShapes DEF PipeTypes, TablesTyped
    <2>4. \A d \in DOMAIN endpoints :
              /\ endpoints'[d].index = endpoints[d].index
              /\ endpoints'[d].unreliable = endpoints[d].unreliable
              /\ endpoints'[d].receiver = endpoints[d].receiver
              /\ endpoints'[d].undecoded = endpoints[d].undecoded
              /\ endpoints'[d].handed = endpoints[d].handed
              /\ endpoints'[d].session = endpoints[d].session
              /\ endpoints'[d].given_up = endpoints[d].given_up
              /\ endpoints[d].closed => endpoints'[d].closed
      BY <2>1, <2>2
    <2>5. \A d \in DOMAIN endpoints :
              /\ ~endpoints[d].handed => endpoints'[d] = endpoints[d]
              /\ endpoints[d].index # m.index => endpoints'[d] = endpoints[d]
      BY <2>2, <2>3
    <2>6. /\ DOMAIN pipeendpoints' = DOMAIN pipeendpoints \ {m.index}
          /\ \A i \in DOMAIN pipeendpoints' : pipeendpoints'[i] = pipeendpoints[i]
      BY <2>1 DEF Without
    <2>7. \A d \in DOMAIN endpoints : Routed(d) /\ endpoints[d].index = m.index => endpoints'[d].closed
      BY <2>1, <2>2 DEF Routed
    <2>8. EndpointsTyped'
      <3>1. Lasting  BY <1>2, <2>2, <2>4 DEF Lasting
      <3>2. EndpointFits(v)'
        BY <1>2, <2>1, <2>2 DEF PipeTypes, EndpointsTyped, EndpointFits
      <3> QED BY <1>2, <2>1, <3>1, <3>2, EndpointsFit DEF PipeTypes
    <2> QED BY <1>1, <2>2, <2>4, <2>5, <2>6, <2>7, <2>8
  <1>4. CASE /\ m.index \notin DOMAIN pipeendpoints \/ shut_down
             /\ UNCHANGED <<pipeendpoints, endpoints>>
    <2>1. EndpointsTyped'  BY <1>2, <1>4 DEF PipeTypes, EndpointsTyped
    <2> QED BY <1>1, <1>4, <2>1 DEF Routed
  <1> QED BY <1>1, <1>3, <1>4

\* A closing leaves no entry of its index, whose session is over.
LEMMA PipeClosedSteps ==
  ASSUME PipeInv, ReceivePipeClosed
  PROVE  /\ PipeTypes' /\ Calls'
         /\ \A i \in Indices : Good(i)' => IndexInv(i)'
  <1>1. PipeTypes /\ Calls /\ \A i \in Indices : Good(i) => IndexInv(i)  BY DEF PipeInv
  <1>2. /\ UNCHANGED <<connecting_endpoints, early_endpoints, attempts, shut_down, to_service,
                       sessions>>
        /\ to_client # <<>> /\ to_client' = Tail(to_client)
    BY DEF ReceivePipeClosed
  <1>3. PICK m : /\ m = Head(to_client) /\ m = to_client[1] /\ 1 \in DOMAIN to_client
                 /\ m.type = "PipeClosed" /\ m.index \in Indices
    BY <1>1, PipeClosedChanges
  <1>4. /\ DOMAIN endpoints' = DOMAIN endpoints
        /\ \A e \in DOMAIN endpoints :
              /\ endpoints'[e].index = endpoints[e].index
              /\ endpoints'[e].unreliable = endpoints[e].unreliable
              /\ endpoints'[e].receiver = endpoints[e].receiver
              /\ endpoints'[e].undecoded = endpoints[e].undecoded
              /\ endpoints'[e].handed = endpoints[e].handed
              /\ endpoints'[e].session = endpoints[e].session
              /\ endpoints'[e].given_up = endpoints[e].given_up
              /\ endpoints[e].closed => endpoints'[e].closed
              /\ ~endpoints[e].handed => endpoints'[e] = endpoints[e]
              /\ endpoints[e].index # m.index => endpoints'[e] = endpoints[e]
        /\ \A i \in DOMAIN pipeendpoints' :
              i \in DOMAIN pipeendpoints /\ pipeendpoints'[i] = pipeendpoints[i]
        /\ \A i \in DOMAIN pipeendpoints : i # m.index => i \in DOMAIN pipeendpoints'
        /\ ~shut_down => /\ m.index \notin DOMAIN pipeendpoints'
                         /\ \A e \in DOMAIN endpoints :
                              Routed(e) /\ endpoints[e].index = m.index => endpoints'[e].closed
        /\ EndpointsTyped'
    BY <1>1, <1>3, PipeClosedEndpoints
  <1>5. Lasting  BY <1>2, <1>4 DEF Lasting
  <1>6. PipeTypes'
    <2>1. AttemptsTyped' /\ SessionsTyped' /\ ToServiceTyped'
      BY <1>1, <1>2 DEF PipeTypes, AttemptsTyped, SessionsTyped, ToServiceTyped
    <2>2. TablesTyped'
      BY <1>1, <1>2, <1>4 DEF PipeTypes, TablesTyped
    <2>3. ToClientTyped'  BY <1>1, <1>2, <1>5, TakenTypes
    <2> QED BY <1>4, <2>1, <2>2, <2>3 DEF PipeTypes
  <1>7. Calls'
    <2>1. KeysOnce' /\ Awaited'  BY <1>1, <1>2 DEF Calls, KeysOnce, Awaited, Requests
    <2>2. \A i \in Indices : GivenUp(i) => GivenUp(i)'  BY <1>4 DEF GivenUp
    <2>3. ClosesGivenUp'  BY <1>1, <1>2, <2>2 DEF Calls, ClosesGivenUp
    <2> QED BY <2>1, <2>3 DEF Calls
  <1>8. ASSUME NEW i \in Indices, Good(i)', i # m.index PROVE IndexInv(i)'
    <2>1. IndexInv(i)  BY <1>1, <1>5, <1>8, GoodIndices
    <2>2. SessionsStay(i)  BY <1>2 DEF SessionsStay, Sessions
    <2>3. \A s \in Sessions(i) : Status(s)' = Status(s)  BY <1>2 DEF Status
    <2>4. EndpointsOf(i)' = EndpointsOf(i) /\ \A d \in EndpointsOf(i) : endpoints'[d] = endpoints[d]
      BY <1>4, <1>8 DEF EndpointsOf
    <2>5. /\ i \in DOMAIN pipeendpoints' <=> i \in DOMAIN pipeendpoints
          /\ i \in DOMAIN pipeendpoints => pipeendpoints'[i] = pipeendpoints[i]
      BY <1>4, <1>8
    <2>6. \A d \in EndpointsOf(i) : endpoints[d].index = i  BY DEF EndpointsOf
    <2>7. EndpointsStay(i) /\ EarlyStays(i)
      BY <1>2, <2>4, <2>5, <2>6 DEF EndpointsStay, EarlyStays, Routed, IsEarly
    <2>8. /\ TurnsKept(i) /\ NumbersKept(i) /\ MessagesStay(i)
          /\ \A s \in Sessions(i) : Kept(i, s, 0, 0)
      <3>1. /\ \A s \in Sessions(i) : ~IsAbout(Head(to_client), s)
            /\ ~IsClosing(Head(to_client), i)
        BY <1>3, <1>8 DEF IsAbout, IsClosing
      <3> QED BY <1>1, <1>2, <3>1, TakenKeeps
    <2> QED BY <1>1, <1>2, <2>1, <2>2, <2>3, <2>7, <2>8, IndexKept
  <1>9. ASSUME NEW i \in Indices, Good(i)', i = m.index PROVE IndexInv(i)'
    <2>1. IndexInv(i)  BY <1>1, <1>5, <1>9, GoodIndices
    <2>2. IsRest(to_client, to_client')  BY <1>1, <1>2, PipeClientRest
    <2>3. \A s : 1 \notin Packets(s, to_client) /\ 1 \notin Replies(s, to_client)
      BY <1>3 DEF Packets, Replies
    <2>4. TurnsKept(i) /\ NumbersKept(i)
      BY <1>2, <2>2, <2>3, RestKeeps DEF NumbersKept
    <2>5. Sessions(i)' = Sessions(i) /\ \A t \in Sessions(i) : Status(t)' = Status(t)
      BY <1>2 DEF Sessions, Status
    <2>6. \A t \in Sessions(i) : /\ About(t, to_client') # {} => About(t, to_client) # {}
                                 /\ Replies(t, to_client) # {} => Replies(t, to_client') # {}
      BY <2>2, <2>3, PipeRest
    <2>7. InTurn(i)'
      <3>1. \A t \in Sessions(i) :
              /\ sessions'[t].open => sessions[t].open
              /\ sessions'[t].replied \/ sessions'[t].open
              /\ Status(t)' = "pending" /\ sessions'[t].replied => Replies(t, to_client') # {}
        BY <1>2, <2>1, <2>5, <2>6 DEF IndexInv, InTurn
      <3> QED BY <2>1, <2>4, <2>5, <3>1, InTurnKept DEF IndexInv
    <2>8. EndpointsOf(i)' = EndpointsOf(i) /\ \A d \in EndpointsOf(i) : d \in Live' => d \in Live
      BY <1>4 DEF EndpointsOf, Live
    <2>9. \A d \in EndpointsOf(i) : IsEarly(d)' <=> IsEarly(d)
      BY <1>2, <1>4 DEF EndpointsOf, IsEarly
    <2>10. Streams(i)'
      <3>1. \A e \in EndpointsOf(i) : /\ endpoints'[e].receiver = endpoints[e].receiver
                                      /\ endpoints'[e].undecoded = endpoints[e].undecoded
                                      /\ endpoints'[e].session = endpoints[e].session
                                      /\ endpoints'[e].unreliable = endpoints[e].unreliable
                                      /\ e \in Live' => e \in Live
        BY <1>4, <2>8 DEF EndpointsOf
      <3>2. \A s \in Sessions(i)' : Status(s)' = "pending" =>
              \/ Numbered(s, 0)'
              \/ s \in Sessions(i) /\ Status(s) = "pending"
        BY <2>5
      <3>3. \A s \in Sessions(i) : Status(s) = "pending" => Status(s)' = "pending"  BY <2>5
      <3>4. Streams(i)  BY <2>1 DEF IndexInv
      <3> QED BY <1>2, <2>4, <2>5, <2>8, <2>9, <3>1, <3>2, <3>3, <3>4, StreamsKept
    <2>11. ASSUME ~shut_down PROVE Entries(i)'
      <3>1. Entries(i)  BY <2>1, <2>11 DEF IndexInv
      <3>2. \A d \in EndpointsOf(i) : ~Routed(d)' /\ d \notin Live'
        <4>1. i \notin DOMAIN pipeendpoints'  BY <1>4, <1>9, <2>11
        <4>2. ASSUME NEW d \in EndpointsOf(i), d \in Live' PROVE FALSE
          <5>1. Routed(d)  BY <2>8, <3>1, <4>2 DEF Entries
          <5>2. endpoints'[d].closed  BY <1>4, <1>9, <2>11, <5>1 DEF EndpointsOf
          <5> QED BY <4>2, <5>2 DEF Live
        <4>3. \A d \in EndpointsOf(i) : endpoints'[d].index = i  BY <1>4 DEF EndpointsOf
        <4> QED BY <4>1, <4>2, <4>3 DEF Routed
      <3>3. ASSUME NEW e \in EndpointsOf(i), Routed(e)
            PROVE  ~sessions[endpoints[e].session].open /\ About(endpoints[e].session, to_client) = {}
        <4>1. PICK s \in Sessions(i) : s = endpoints[e].session  BY <1>1, <3>3, HandedSession
        <4>2. Turn(i, s, 0)  BY <3>1, <3>3, <4>1 DEF Entries
        <4>3. 1 \in Closings(i, to_client) /\ 0 < 1  BY <1>3, <1>9 DEF Closings
        <4>4. ~sessions[s].open  BY <4>2, <4>3 DEF Turn
        <4>5. \A q \in About(s, to_client) : ~(1 < q)  BY <4>2, <4>3 DEF Turn
        <4>6. \A q \in About(s, to_client) : q \in Nat /\ 1 =< q /\ q # 1
          <5>1. \A q \in Replies(s, to_client) \cup Packets(s, to_client) : q \in Nat /\ 1 =< q
            BY <2>2, PipeRest
          <5> QED BY <2>3, <5>1 DEF About
        <4> QED BY <4>1, <4>4, <4>5, <4>6
      <3>4. ASSUME NEW t \in Sessions(i), Status(t)' = "connected",
                   sessions'[t].open \/ About(t, to_client') # {}
            PROVE  FALSE
        <4>1. Status(t) = "connected" /\ (sessions[t].open \/ About(t, to_client) # {})
          BY <1>2, <2>5, <2>6, <3>4
        <4>2. PICK e \in EndpointsOf(i) : Routed(e) /\ endpoints[e].session = t
          BY <3>1, <4>1 DEF Entries
        <4> QED BY <3>3, <4>1, <4>2
      <3> QED BY <2>5, <2>8, <3>2, <3>4 DEF Entries
    <2> QED BY <1>2, <2>7, <2>10, <2>11 DEF IndexInv
  <1> QED BY <1>6, <1>7, <1>8, <1>9

-----------------------------------------------------------------------------
(* The pipe: every reachable state has the strengthening.                  *)

\* A stub starts with nothing of its pipe.
LEMMA PipeStarts ==
  ASSUME MembersInit PROVE PipeInv
  <1>1. /\ connecting_endpoints = {} /\ early_endpoints = EmptyMap /\ pipeendpoints = EmptyMap
        /\ endpoints = <<>> /\ attempts = <<>> /\ to_service = <<>> /\ to_client = <<>>
        /\ sessions = <<>>
    BY DEF MembersInit, Init
  <1>2. DOMAIN EmptyMap = {}  BY DEF EmptyMap
  <1>3. PipeTypes
    <2>1. AttemptsTyped /\ SessionsTyped
      BY <1>1, BoundsAssumption DEF AttemptsTyped, SessionsTyped
    <2>2. EndpointsTyped  BY <1>1 DEF EndpointsTyped
    <2>3. TablesTyped  BY <1>1, <1>2 DEF TablesTyped
    <2>4. ToServiceTyped /\ ToClientTyped  BY <1>1 DEF ToServiceTyped, ToClientTyped
    <2> QED BY <2>1, <2>2, <2>3, <2>4 DEF PipeTypes
  <1>4. Calls
    BY <1>1 DEF Calls, KeysOnce, Awaited, ClosesGivenUp, Requests
  <1>5. \A i \in Indices : IndexInv(i)
    BY <1>1 DEF IndexInv, InTurn, Entries, Streams, Sessions, EndpointsOf
  <1> QED BY <1>3, <1>4, <1>5 DEF PipeInv

\* A step that leaves the pipe and the stub.
LEMMA PipeLeft ==
  ASSUME PipeInv, UNCHANGED pipeOnly, UNCHANGED shut_down
  PROVE  PipeInv'
  <1>1. PipeTypes /\ Calls /\ \A i \in Indices : Good(i) => IndexInv(i)  BY DEF PipeInv
  <1>2. UNCHANGED <<unreliable, connecting_endpoints, early_endpoints, pipeendpoints, endpoints,
                    attempts, to_service, to_client, sessions>>
    BY DEF pipeOnly
  <1>3. Lasting  BY <1>2 DEF Lasting
  <1>4. PipeTypes'
    BY <1>1, <1>2 DEF PipeTypes, AttemptsTyped, SessionsTyped, EndpointsTyped, TablesTyped,
                      ToServiceTyped, ToClientTyped
  <1>5. Calls'
    BY <1>1, <1>2 DEF Calls, KeysOnce, Awaited, ClosesGivenUp, Requests, GivenUp
  <1>6. ASSUME NEW i \in Indices, Good(i)' PROVE IndexInv(i)'
    <2>1. IndexInv(i)  BY <1>1, <1>3, <1>6, GoodIndices
    <2>2. SessionsStay(i)  BY <1>2 DEF SessionsStay, Sessions
    <2>3. \A s \in Sessions(i) : Status(s)' = Status(s)  BY <1>2 DEF Status
    <2>4. EndpointsStay(i) /\ EarlyStays(i) /\ MessagesStay(i)
      BY <1>2 DEF EndpointsStay, EndpointsOf, EarlyStays, MessagesStay, Routed, IsEarly
    <2> QED BY <1>1, <1>2, <2>1, <2>2, <2>3, <2>4, SameKeeps, IndexKept
  <1> QED BY <1>4, <1>5, <1>6 DEF PipeInv

\* Every step of the stub keeps the strengthening of its pipe.
LEMMA PipeSteps ==
  ASSUME PipeInv, [MembersNext]_memberVars
  PROVE  PipeInv'
  <1>1. CASE Service  BY <1>1, ServiceSteps DEF PipeInv
  <1>2. CASE AsyncConnect
    <2>1. PipeTypes /\ Calls  BY DEF PipeInv
    <2> QED BY <1>2, <2>1, AsyncConnectTypes, AsyncConnectCalls, AsyncConnectIndices DEF PipeInv
  <1>3. CASE AsyncClose  BY <1>3, AsyncCloseSteps DEF PipeInv
  <1>4. CASE ReceiveConnectRet  BY <1>4, ReceiveConnectRetSteps DEF PipeInv
  <1>5. CASE ConnectTimeout  BY <1>5, ConnectTimeoutSteps DEF PipeInv
  <1>6. CASE ReceivePacket  BY <1>6, ReceivePacketSteps DEF PipeInv
  <1>7. CASE ReceivePipeClosed  BY <1>7, PipeClosedSteps DEF PipeInv
  <1>8. CASE Shutdown  BY <1>8, ShutdownSteps DEF PipeInv
  <1>9. CASE Wire!MemberNext /\ UNCHANGED pipeOnly
    <2>1. UNCHANGED shut_down  BY <1>9, WireKeepsStub
    <2> QED BY <1>9, <2>1, PipeLeft
  <1>10. CASE UNCHANGED memberVars
    BY <1>10, PipeLeft DEF memberVars, vars, pipeOnly
  <1>11. MemberNext => \/ Service \/ AsyncConnect \/ AsyncClose \/ ReceiveConnectRet
                       \/ ConnectTimeout \/ ReceivePacket \/ ReceivePipeClosed
    BY DEF MemberNext
  <1> QED BY <1>1, <1>2, <1>3, <1>4, <1>5, <1>6, <1>7, <1>8, <1>9, <1>10, <1>11
          DEF MembersNext, ReleaseStub

\* The strengthening of the pipe is an invariant.
LEMMA PipeInvariant == MembersSpec => []PipeInv
  <1>1. MembersInit => PipeInv  BY PipeStarts
  <1>2. PipeInv /\ [MembersNext]_memberVars => PipeInv'  BY PipeSteps
  <1> QED BY <1>1, <1>2, PTL DEF MembersSpec

-----------------------------------------------------------------------------
(* The pipe: its properties.                                               *)

\* An endpoint in use of a reliable pipe has a first part of its stream, and the rest is
\* on its way.
LEMMA LiveStream ==
  ASSUME PipeInv, NEW e \in Live, ~endpoints[e].unreliable, Good(endpoints[e].index)
  PROVE  \E s \in DOMAIN sessions, l \in Nat :
           /\ endpoints[e].session = s
           /\ Came(endpoints[e].receiver, endpoints[e].undecoded, s, l)
           /\ ~shut_down => Numbered(s, l)
  <1>1. PICK i : i = endpoints[e].index  OBVIOUS
  <1>2. e \in EndpointsOf(i) /\ i \in Indices
    BY <1>1, PipeShapes DEF PipeInv, Live, EndpointsOf, IsEndpoint
  <1>3. Streams(i)  BY <1>1, <1>2 DEF PipeInv, IndexInv
  <1>4. PICK s \in Sessions(i), l \in 0..MaxPackets :
          /\ endpoints[e].session = s /\ InStream(e, s, l)
          /\ ~shut_down => Numbered(s, l)
    BY <1>2, <1>3 DEF Streams
  <1>5. l \in Nat /\ s \in DOMAIN sessions  BY BoundsAssumption DEF Sessions
  <1>6. Came(endpoints[e].receiver, endpoints[e].undecoded, s, l)
    BY <1>4 DEF InStream
  <1> QED BY <1>4, <1>5, <1>6

\* What has come was received, is held or was lost.
LEMMA CameCount ==
  ASSUME NEW r, NEW u, NEW s, NEW l \in Nat, Came(r, u, s, l)
  PROVE  Len(r.recv_packets) + Cardinality(DOMAIN r.out_of_order_packets) + Cardinality(u) = l
  <1>1. PICK k \in 0..l, D \in SUBSET Nat : HasCome(r, u, s, l, k, D)  BY CameFields
  <1>2. PICK T : T = (k + 1)..l  OBVIOUS
  <1>3. PICK J : J = {j \in T : <<s, j>> \in u}  OBVIOUS
  <1>4. D = T \ J  BY <1>1, <1>2, <1>3 DEF HasCome
  <1>5. IsFiniteSet(T) /\ Cardinality(T) = l - k
    <2>1. IsFiniteSet(T) /\ Cardinality(T) = IF k + 1 > l THEN 0 ELSE l - (k + 1) + 1
      BY <1>2, FS_Interval
    <2> QED BY <2>1
  <1>6. IsFiniteSet(J) /\ IsFiniteSet(D)  BY <1>3, <1>4, <1>5, FS_Subset
  <1>7. D \cup J = T /\ D \cap J = {}  BY <1>3, <1>4
  <1>8. PICK a, b \in Nat : a = Cardinality(D) /\ b = Cardinality(J)  BY <1>6, FS_CardinalityType
  <1>9. a + b = l - k
    <2>1. Cardinality(T) = a + b - Cardinality({})  BY <1>6, <1>7, <1>8, FS_Union
    <2>2. Cardinality({}) = 0  BY FS_EmptySet
    <2>3. Cardinality(T) = a + b - 0  BY ONLY <2>1, <2>2
    <2> QED BY <1>5, <1>8, <2>3
  <1>10. Cardinality(u) = b
    <2>1. PICK f : f = [j \in J |-> <<s, j>>]  OBVIOUS
    <2>2. u \subseteq {<<s, j>> : j \in T}  BY <1>1, <1>2 DEF HasCome
    <2>3. f \in [J -> u]  BY <1>3, <2>1
    <2>4. \A i, j \in J : f[i] = f[j] => i = j  BY <2>1
    <2>5. \A p \in u : \E j \in J : f[j] = p
      <3> SUFFICES ASSUME NEW p \in u PROVE \E j \in J : f[j] = p  OBVIOUS
      <3>1. PICK j \in T : p = <<s, j>>  BY <2>2
      <3>2. j \in J  BY <1>3, <3>1
      <3> QED BY <2>1, <3>1, <3>2
    <2>6. f \in Injection(J, u)  BY <2>3, <2>4 DEF Injection, IsInjective
    <2>7. f \in Surjection(J, u)  BY <2>3, <2>5 DEF Surjection
    <2>8. ExistsBijection(J, u)  BY <2>6, <2>7 DEF ExistsBijection, Bijection
    <2> QED BY <1>6, <1>8, <2>8, FS_Bijection
  <1>11. Len(r.recv_packets) = k
    <2>1. r.recv_packets = [n \in 1..k |-> <<s, n>>]  BY <1>1 DEF HasCome
    <2> QED BY <2>1
  <1>12. DOMAIN r.out_of_order_packets = D  BY <1>1 DEF HasCome
  <1>13. PICK x, y, z : /\ x = Len(r.recv_packets) /\ y = Cardinality(DOMAIN r.out_of_order_packets)
                        /\ z = Cardinality(u)
    OBVIOUS
  <1>14. x = k /\ y = a /\ z = b  BY <1>8, <1>10, <1>11, <1>12, <1>13
  <1>15. k + a + b = l  BY <1>8, <1>9
  <1>16. x + y + z = l  BY ONLY <1>14, <1>15
  <1> QED BY ONLY <1>13, <1>16

\* As many packets of a session are on their way as were sent but not received.
LEMMA OnTheWayCount ==
  ASSUME PipeTypes, NEW s \in DOMAIN sessions, NEW k \in Nat, Numbered(s, k)
  PROVE  k + OnTheWay(s) = sessions[s].sent
  <1>1. PICK a \in Nat : a = sessions[s].sent
    BY PipeShapes, BoundsAssumption DEF Session
  <1>2. PICK P : P = Packets(s, to_client)  OBVIOUS
  <1>3. \A p \in P : p \in Nat
    <2>1. to_client \in Seq(FromService)  BY DEF PipeTypes, ToClientTyped
    <2> QED BY <1>2, <2>1 DEF Packets
  <1>4. \A p \in P : to_client[p].packetnum \in Nat
    BY <1>2, PacketNums, BoundsAssumption
  <1>5. /\ k <= a
        /\ \A p \in P : /\ k < to_client[p].packetnum /\ to_client[p].packetnum <= a
                        /\ \A q \in P : p < q => to_client[p].packetnum < to_client[q].packetnum
        /\ \A n \in (k + 1)..a : \E p \in P : to_client[p].packetnum = n
    BY <1>1, <1>2 DEF Numbered
  <1>6. PICK T : T = (k + 1)..a  OBVIOUS
  <1>7. PICK f : f = [p \in P |-> to_client[p].packetnum]  OBVIOUS
  <1>8. f \in [P -> T]  BY <1>4, <1>5, <1>6, <1>7
  <1>9. \A p, q \in P : f[p] = f[q] => p = q
    <2> SUFFICES ASSUME NEW p \in P, NEW q \in P, p # q PROVE f[p] # f[q]
      OBVIOUS
    <2>1. p < q \/ q < p  BY <1>3
    <2>2. f[p] < f[q] \/ f[q] < f[p]  BY <1>5, <1>7, <2>1
    <2>3. f[p] \in Nat /\ f[q] \in Nat  BY <1>4, <1>7
    <2> QED BY <2>2, <2>3
  <1>10. \A n \in T : \E p \in P : f[p] = n  BY <1>5, <1>6, <1>7
  <1>11. ExistsBijection(P, T)
    <2>1. f \in Injection(P, T)  BY <1>8, <1>9 DEF Injection, IsInjective
    <2>2. f \in Surjection(P, T)  BY <1>8, <1>10 DEF Surjection
    <2> QED BY <2>1, <2>2 DEF ExistsBijection, Bijection
  <1>12. IsFiniteSet(P)
    <2>1. PICK n \in Nat : DOMAIN to_client = 1..n
      <3>1. to_client \in Seq(FromService)  BY DEF PipeTypes, ToClientTyped
      <3> QED BY <3>1
    <2>2. IsFiniteSet(1..n)  BY FS_Interval
    <2>3. P \subseteq 1..n  BY <1>2, <2>1 DEF Packets
    <2> QED BY <2>2, <2>3, FS_Subset
  <1>13. Cardinality(T) = Cardinality(P)  BY <1>11, <1>12, FS_Bijection
  <1>14. Cardinality(T) = a - k
    <2>1. Cardinality(T) = IF k + 1 > a THEN 0 ELSE a - (k + 1) + 1  BY <1>6, FS_Interval
    <2> QED BY <1>5, <2>1
  <1>15. OnTheWay(s) = Cardinality(P)  BY <1>2 DEF OnTheWay, Packets
  <1>16. PICK x : x = OnTheWay(s) /\ x = a - k  BY <1>13, <1>14, <1>15
  <1> QED BY <1>1, <1>16

\* What a state of the pipe that has the strengthening has.
LEMMA PipeProperties ==
  ASSUME PipeInv
  PROVE  TypeOK /\ OpenEndpointIsRouted /\ StreamOfOneSession /\ NoPacketLost
  <1>1. PipeTypes  BY DEF PipeInv
  <1>2. TypeOK
    <2>1. \A k \in DOMAIN attempts : attempts[k] \in {"pending", "connected", "failed"}
      <3>1. attempts \in Seq({"pending", "connected", "failed"})
        BY <1>1 DEF PipeTypes, AttemptsTyped
      <3> QED BY <3>1
    <2>2. \A e \in DOMAIN endpoints : endpoints[e].receiver.recv_packet_number \in PacketNumbers
      BY <1>1, PipeShapes DEF IsEndpoint, IsReceiver
    <2> QED BY <1>1, <2>1, <2>2, PipeShapes DEF TypeOK, PipeTypes, AttemptsTyped
  <1>3. OpenEndpointIsRouted
    <2> SUFFICES ASSUME NEW e \in Live, Good(endpoints[e].index), ~shut_down
                 PROVE  Routed(e)
      BY DEF OpenEndpointIsRouted, Good
    <2>1. PICK i : i = endpoints[e].index  OBVIOUS
    <2>2. e \in EndpointsOf(i) /\ i \in Indices
      BY <1>1, <2>1, PipeShapes DEF Live, EndpointsOf, IsEndpoint
    <2>3. Entries(i)  BY <2>1, <2>2 DEF PipeInv, IndexInv
    <2> QED BY <2>2, <2>3 DEF Entries
  <1>4. StreamOfOneSession
    <2> SUFFICES ASSUME NEW e \in Live, ~endpoints[e].unreliable, Good(endpoints[e].index)
                 PROVE  Received(e) = [n \in 1..Len(Received(e)) |-> <<endpoints[e].session, n>>]
      BY DEF StreamOfOneSession
    <2>1. PICK s \in DOMAIN sessions, l \in Nat :
            /\ endpoints[e].session = s
            /\ Came(endpoints[e].receiver, endpoints[e].undecoded, s, l)
      BY LiveStream
    <2>2. PICK k \in 0..l, D \in SUBSET Nat :
            HasCome(endpoints[e].receiver, endpoints[e].undecoded, s, l, k, D)
      BY <2>1, CameFields
    <2>3. PICK r : r = Received(e) /\ r = [n \in 1..k |-> <<s, n>>]
      BY <2>2 DEF Received, HasCome
    <2>4. Len(r) = k
      <3>1. k \in Nat  BY <2>2
      <3> QED BY ONLY <2>3, <3>1
    <2> QED BY <2>1, <2>3, <2>4
  <1>5. NoPacketLost
    <2> SUFFICES ASSUME NEW e \in Live, ~endpoints[e].unreliable, Good(endpoints[e].index),
                        ~shut_down
                 PROVE  Len(endpoints[e].receiver.recv_packets)
                          + Cardinality(DOMAIN endpoints[e].receiver.out_of_order_packets)
                          + Cardinality(endpoints[e].undecoded)
                          + OnTheWay(endpoints[e].session)
                        = sessions[endpoints[e].session].sent
      BY DEF NoPacketLost
    <2>1. PICK s \in DOMAIN sessions, l \in Nat :
            /\ endpoints[e].session = s
            /\ Came(endpoints[e].receiver, endpoints[e].undecoded, s, l)
            /\ Numbered(s, l)
      BY LiveStream
    <2>2. Len(endpoints[e].receiver.recv_packets)
            + Cardinality(DOMAIN endpoints[e].receiver.out_of_order_packets)
            + Cardinality(endpoints[e].undecoded) = l
      BY <2>1, CameCount
    <2>3. l + OnTheWay(s) = sessions[s].sent  BY <1>1, <2>1, OnTheWayCount
    <2> QED BY <2>1, <2>2, <2>3
  <1> QED BY <1>2, <1>3, <1>4, <1>5

\* What the release does to the endpoints in use.
LEMMA ShutdownCloses ==
  ASSUME PipeInv, Shutdown, NEW e \in Live, Good(endpoints[e].index)
  PROVE  endpoints'[e].closed /\ endpoints'[e].callbacks = 1
  <1>1. PipeTypes /\ ~shut_down /\ endpoints' = ShutAll  BY DEF PipeInv, Shutdown
  <1>2. PICK i : i = endpoints[e].index  OBVIOUS
  <1>3. e \in DOMAIN endpoints /\ e \in EndpointsOf(i) /\ i \in Indices /\ IsEndpoint(endpoints[e])
    BY <1>1, <1>2, PipeShapes DEF Live, EndpointsOf, IsEndpoint
  <1>4. Entries(i)  BY <1>1, <1>2, <1>3 DEF PipeInv, IndexInv
  <1>5. \E j \in DOMAIN pipeendpoints : pipeendpoints[j] = e
    <2>1. Routed(e)  BY <1>3, <1>4 DEF Entries
    <2> QED BY <2>1 DEF Routed
  <1>6. endpoints[e].callbacks = 0  BY <1>3 DEF Live, IsEndpoint
  <1>7. endpoints'[e].closed /\ endpoints'[e].callbacks = endpoints[e].callbacks + 1
    BY <1>1, <1>3, <1>5, ShutdownChanges
  <1> QED BY <1>6, <1>7

\* The variables of both kinds of member are typed: the tables of the pipe lead from indices
\* to endpoints that exist (pipeendpoints, early_endpoints, connection).
THEOREM MembersTyped == MembersSpec => []MembersTypeOK
  <1>1. MembersInit => member \in {"pipe", "wire"}  BY DEF MembersInit
  <1>2. member \in {"pipe", "wire"} /\ [MembersNext]_memberVars => (member \in {"pipe", "wire"})'
    BY DEF MembersNext, memberVars, ReleaseStub
  <1>3. MembersSpec => [](member \in {"pipe", "wire"})
    BY <1>1, <1>2, PTL DEF MembersSpec
  <1>4. PipeInv /\ WireProofs!WireInv /\ member \in {"pipe", "wire"} => MembersTypeOK
    BY PipeProperties, WireProperties DEF MembersTypeOK
  <1> QED BY <1>3, <1>4, PipeInvariant, WireInvariant, PTL

\* Packets reach every endpoint that a caller got and nobody closed, unless an endpoint of
\* its index was closed by the caller or, before it replied, by the service, a connect to it
\* was given up, or the stub was released (AsyncConnect_internal1, PipePacketReceived).
THEOREM OpenEndpointsAreRouted == MembersSpec => []OpenEndpointIsRouted
  <1>1. PipeInv => OpenEndpointIsRouted  BY PipeProperties
  <1> QED BY <1>1, PipeInvariant, PTL

\* Such an endpoint has received the packets of its own session, from the first, in order,
\* before and after the reply to its connect, and none behind one that could not be
\* unpacked (early_endpoints, PipePacketReceived, DispatchPacket).
THEOREM StreamsOfOneSession == MembersSpec => []StreamOfOneSession
  <1>1. PipeInv => StreamOfOneSession  BY PipeProperties
  <1> QED BY <1>1, PipeInvariant, PTL

\* What it has received, holds, could not unpack and what is on its way is all that the
\* service sent it: nothing falls between the early endpoint and the connected one
\* (early_endpoints, DispatchPacket).
THEOREM NoPacketsLost == MembersSpec => []NoPacketLost
  <1>1. PipeInv => NoPacketLost  BY PipeProperties
  <1> QED BY <1>1, PipeInvariant, PTL

\* The release of the stub closes an endpoint of OpenEndpointsAreRouted, and its callback
\* runs once (Shutdown).
THEOREM ShutdownClosesThem == MembersSpec => ShutdownClosesAll
  <1>1. ASSUME PipeInv, MembersNext, ~shut_down, shut_down', NEW e \in Live,
               Good(endpoints[e].index)
        PROVE  endpoints'[e].closed /\ endpoints'[e].callbacks = 1
    <2>1. Shutdown
      <3>1. Wire!MemberNext => UNCHANGED shut_down  BY WireKeepsStub
      <3> QED BY <1>1, <3>1, PipeKeepsStub DEF MembersNext, ReleaseStub
    <2> QED BY <1>1, <2>1, ShutdownCloses
  <1>2. PipeInv /\ [MembersNext]_memberVars =>
          [~shut_down /\ shut_down' =>
             \A e \in Live :
               Good(endpoints[e].index) => endpoints'[e].closed /\ endpoints'[e].callbacks = 1]_vars
    BY <1>1 DEF memberVars
  <1> QED BY <1>2, PipeInvariant, PTL DEF MembersSpec, ShutdownClosesAll
=============================================================================
