-------------------------- MODULE WireClient_proofs --------------------------
(***************************************************************************)
(* Proofs about WireClient, for any bounds: values are of the connection's  *)
(* own session, no connection outlives its session unnoticed, and the last  *)
(* value arrives.                                                           *)
(***************************************************************************)
EXTENDS WireClient, TLAPS

(* Queues.                                                                 *)

\* The queue t is q without its first message.
IsRest(q, t) ==
    /\ \A p \in DOMAIN q : p \in Nat /\ 1 =< p
    /\ \A p \in DOMAIN t : p \in Nat /\ p + 1 \in DOMAIN q /\ t[p] = q[p + 1]
    /\ \A p \in DOMAIN q : p # 1 => p - 1 \in DOMAIN t /\ t[p - 1] = q[p]

\* The queue t is q with one more message.
IsMore(q, m, t) ==
    /\ \A p \in DOMAIN q : p \in Nat /\ p < Len(q) + 1 /\ p \in DOMAIN t /\ t[p] = q[p]
    /\ \A p \in DOMAIN t : p = Len(q) + 1 \/ p \in DOMAIN q
    /\ Len(q) + 1 \in DOMAIN t /\ t[Len(q) + 1] = m /\ Len(q) \in Nat

\* Taking the first message.
LEMMA RestOf ==
  ASSUME NEW M, NEW q \in Seq(M), q # <<>>, NEW t, t = Tail(q)
  PROVE  /\ t \in Seq(M) /\ IsRest(q, t)
         /\ 1 \in DOMAIN q /\ Head(q) = q[1] /\ Head(q) \in M
  <1>1. Len(q) \in Nat /\ Len(q) > 0 /\ DOMAIN q = 1..Len(q)  OBVIOUS
  <1>2. t \in Seq(M) /\ DOMAIN t = 1..(Len(q) - 1) /\ \A p \in 1..(Len(q) - 1) : t[p] = q[p + 1]
    OBVIOUS
  <1>3. \A p \in DOMAIN q : p \in Nat /\ 1 =< p  BY <1>1
  <1>4. \A p \in DOMAIN t : p \in Nat /\ p + 1 \in DOMAIN q /\ t[p] = q[p + 1]
    BY <1>1, <1>2
  <1>5. ASSUME NEW p \in DOMAIN q, p # 1 PROVE p - 1 \in DOMAIN t /\ t[p - 1] = q[p]
    <2>1. p - 1 \in 1..(Len(q) - 1) /\ (p - 1) + 1 = p  BY <1>1, <1>5
    <2> QED BY <1>2, <2>1
  <1> QED BY <1>1, <1>2, <1>3, <1>4, <1>5 DEF IsRest

\* Sending one more message.
LEMMA MoreOf ==
  ASSUME NEW M, NEW q \in Seq(M), NEW m \in M, NEW t, t = Append(q, m)
  PROVE  t \in Seq(M) /\ IsMore(q, m, t)
  <1>1. Len(q) \in Nat /\ DOMAIN q = 1..Len(q)  OBVIOUS
  <1>2. /\ t \in Seq(M) /\ DOMAIN t = 1..(Len(q) + 1)
        /\ \A p \in 1..Len(q) : t[p] = q[p]
        /\ t[Len(q) + 1] = m
    OBVIOUS
  <1> QED BY <1>1, <1>2 DEF IsMore

\* The messages of a type in what is left.
LEMMA OfRest ==
  ASSUME NEW q, NEW t, IsRest(q, t), NEW type
  PROVE  /\ \A p \in Of(type, t) : p \in Nat /\ p + 1 \in Of(type, q) /\ t[p] = q[p + 1]
         /\ \A p \in Of(type, q) : p \in Nat /\ 1 =< p /\
                (p # 1 => p - 1 \in Of(type, t) /\ t[p - 1] = q[p])
         /\ q[1].type # type => (Of(type, t) = {} <=> Of(type, q) = {})
         /\ Of(type, q) = {} => Of(type, t) = {}
  BY DEF Of, IsRest

\* The messages of a type with one more.
LEMMA OfMore ==
  ASSUME NEW q, NEW m, NEW t, IsMore(q, m, t), NEW type
  PROVE  /\ \A p \in Of(type, q) : p \in Nat /\ p < Len(q) + 1 /\ p \in Of(type, t) /\ t[p] = q[p]
         /\ \A p \in Of(type, t) : p \in Of(type, q) \/ (p = Len(q) + 1 /\ m.type = type)
         /\ m.type = type => Len(q) + 1 \in Of(type, t)
         /\ m.type # type => Of(type, t) = Of(type, q)
  BY DEF Of, IsMore

-----------------------------------------------------------------------------
(* What a step keeps.                                                      *)

\* A request to close is one more message, and no request of another kind.
LEMMA MoreDisconnect ==
  ASSUME WireTypes, SendToService([type |-> "DisconnectReq"])
  PROVE  /\ to_service' \in Seq(FromClient)
         /\ \A p \in DOMAIN to_service' : to_service'[p].type # "DisconnectReq" =>
              p \in DOMAIN to_service /\ to_service'[p] = to_service[p]
         /\ \A type : type # "DisconnectReq" => Of(type, to_service') = Of(type, to_service)
         /\ \A p \in DOMAIN to_service : to_service'[p] = to_service[p]
  <1>1. PICK m : m = [type |-> "DisconnectReq"] /\ to_service' = Append(to_service, m)
    BY DEF SendToService
  <1>2. m \in FromClient /\ m.type = "DisconnectReq"  BY <1>1 DEF FromClient
  <1>3. to_service \in Seq(FromClient)  BY DEF WireTypes
  <1>4. to_service' \in Seq(FromClient) /\ IsMore(to_service, m, to_service')
    BY <1>1, <1>2, <1>3, MoreOf
  <1>5. \A type : type # "DisconnectReq" => Of(type, to_service') = Of(type, to_service)
    BY <1>2, <1>4, OfMore
  <1> QED BY <1>2, <1>4, <1>5 DEF IsMore

-----------------------------------------------------------------------------
(* Steps that take a message of the service.                               *)

\* One element of a sequence replaced.
LEMMA Replaced ==
  ASSUME NEW S, NEW f \in Seq(S), NEW k \in DOMAIN f, NEW v \in S,
         NEW g, g = [f EXCEPT ![k] = v]
  PROVE  /\ g \in Seq(S) /\ DOMAIN g = DOMAIN f /\ Len(g) = Len(f) /\ g[k] = v
         /\ \A i \in DOMAIN f : i # k => g[i] = f[i]
  OBVIOUS

\* One element of a sequence.
LEMMA Element ==
  ASSUME NEW S, NEW f \in Seq(S), NEW k \in DOMAIN f
  PROVE  f[k] \in S
  OBVIOUS

\* One more element of a sequence.
LEMMA Extended ==
  ASSUME NEW S, NEW f \in Seq(S), NEW v \in S, NEW g, g = Append(f, v)
  PROVE  /\ g \in Seq(S) /\ Len(g) = Len(f) + 1 /\ g[Len(f) + 1] = v
         /\ Len(f) \in Nat /\ Len(f) + 1 \in DOMAIN g /\ DOMAIN f = 1..Len(f)
         /\ \A i \in DOMAIN f : i \in DOMAIN g /\ g[i] = f[i]
         /\ \A i \in DOMAIN g : i \in DOMAIN f \/ i = Len(f) + 1
  <1>1. /\ g \in Seq(S) /\ Len(g) = Len(f) + 1 /\ g[Len(f) + 1] = v
        /\ Len(f) \in Nat /\ DOMAIN g = 1..(Len(f) + 1) /\ DOMAIN f = 1..Len(f)
        /\ \A i \in 1..Len(f) : g[i] = f[i]
    OBVIOUS
  <1> QED BY <1>1

\* A connection without a value.
LEMMA NewWireIs ==
  ASSUME NEW s \in Nat, NEW w, w = NewWire(s)
  PROVE  /\ w \in [session : Nat, inval : Value, outval : Value]
         /\ w.session = s /\ w.inval = NoValue /\ w.outval = NoValue
  BY DEF NewWire, Value, NoValue

WireRecord == [session : Nat, inval : Value, outval : Value]
SessionRecord == [inval : Value, outval : Value]

\* Indices lead to connections, sessions and attempts that exist.
LEMMA Shapes ==
  ASSUME WireTypes
  PROVE  /\ Len(wires) \in Nat /\ DOMAIN wires = 1..Len(wires)
         /\ Len(sessions) \in Nat /\ DOMAIN sessions = 1..Len(sessions)
         /\ Len(attempts) \in Nat /\ DOMAIN attempts = 1..Len(attempts)
         /\ connection \in Nat /\ (connection # 0 => connection \in DOMAIN wires)
         /\ service \in Nat /\ (service # 0 => service \in DOMAIN sessions)
         /\ \A i \in DOMAIN wires : i \in Nat \ {0} /\ wires[i] \in WireRecord
         /\ \A s \in DOMAIN sessions : s \in Nat \ {0} /\ sessions[s] \in SessionRecord
  <1>1. /\ Len(wires) \in Nat /\ DOMAIN wires = 1..Len(wires)
        /\ \A i \in DOMAIN wires : wires[i] \in WireRecord
    <2>1. wires \in Seq(WireRecord)  BY DEF WireTypes, WireRecord
    <2> QED BY <2>1
  <1>2. /\ Len(sessions) \in Nat /\ DOMAIN sessions = 1..Len(sessions)
        /\ \A s \in DOMAIN sessions : sessions[s] \in SessionRecord
    <2>1. sessions \in Seq(SessionRecord)  BY DEF WireTypes, SessionRecord
    <2> QED BY <2>1
  <1>3. Len(attempts) \in Nat /\ DOMAIN attempts = 1..Len(attempts)
    <2>1. PICK S : attempts \in Seq(S)  BY DEF WireTypes, TypeOK
    <2> QED BY <2>1
  <1>4. connection \in 0..Len(wires) /\ service \in 0..Len(sessions)
    BY DEF WireTypes, TypeOK
  <1> QED BY <1>1, <1>2, <1>3, <1>4

\* What is left of the messages to the client.
LEMMA ClientRest ==
  ASSUME WireTypes, NEW type, Receives(type)
  PROVE  /\ to_client' \in Seq(FromService) /\ IsRest(to_client, to_client')
         /\ 1 \in Of(type, to_client) /\ 1 \in DOMAIN to_client
         /\ Head(to_client) = to_client[1] /\ to_client[1] \in FromService
         /\ to_client[1].type = type
  BY RestOf DEF WireTypes, Receives, Of

\* The last reply in what is left was the last.
LEMMA LastRest ==
  ASSUME NEW q, NEW t, IsRest(q, t), NEW p, LastRet(p, t)
  PROVE  LastRet(p + 1, q) /\ t[p] = q[p + 1] /\ p \in Nat /\ p + 1 \in DOMAIN q
  <1>1. p \in Nat /\ p + 1 \in Of("ConnectRet", q) /\ t[p] = q[p + 1]
    BY OfRest DEF LastRet
  <1>2. ASSUME NEW r \in Of("ConnectRet", q) PROVE ~(p + 1 < r)
    <2>1. r \in Nat /\ 1 =< r /\ (r # 1 => r - 1 \in Of("ConnectRet", t))  BY OfRest
    <2>2. r # 1 => ~(p < r - 1)  BY <2>1 DEF LastRet
    <2> QED BY <1>1, <2>1, <2>2
  <1> QED BY <1>1, <1>2 DEF LastRet, Of

\* BehindReply and the connects when the first message was taken.
LEMMA BehindRest ==
  ASSUME BehindReply, IsRest(to_client, to_client'), service' = service
  PROVE  BehindReply'
  <1> SUFFICES ASSUME NEW p \in DOMAIN to_client', LastRet(p, to_client'),
                      to_client'[p].session # 0
               PROVE  /\ service' \in {0, to_client'[p].session}
                      /\ \A q \in Of("Packet", to_client') :
                          p < q => to_client'[q].value.from = to_client'[p].session
    BY DEF BehindReply
  <1>1. /\ LastRet(p + 1, to_client) /\ to_client'[p] = to_client[p + 1]
        /\ p \in Nat /\ p + 1 \in DOMAIN to_client
    BY LastRest
  <1>2. /\ service \in {0, to_client[p + 1].session}
        /\ \A q \in Of("Packet", to_client) :
            p + 1 < q => to_client[q].value.from = to_client[p + 1].session
    BY <1>1 DEF BehindReply
  <1>3. ASSUME NEW q \in Of("Packet", to_client'), p < q
        PROVE  to_client'[q].value.from = to_client'[p].session
    <2>1. q \in Nat /\ q + 1 \in Of("Packet", to_client) /\ to_client'[q] = to_client[q + 1]
      BY OfRest
    <2> QED BY <1>1, <1>2, <1>3, <2>1
  <1> QED BY <1>1, <1>2, <1>3

\* The end of the session of the last reply is announced behind it.
RepliesEnd(queue, open) ==
    \A p \in DOMAIN queue : LastRet(p, queue) /\ queue[p].session # 0 =>
        open = queue[p].session \/ \E q \in Of("Closed", queue) : p < q

\* It still is when the first message was taken.
LEMMA EndsRest ==
  ASSUME NEW q, NEW t, NEW open, IsRest(q, t), RepliesEnd(q, open)
  PROVE  RepliesEnd(t, open)
  <1> SUFFICES ASSUME NEW p \in DOMAIN t, LastRet(p, t), t[p].session # 0
               PROVE  open = t[p].session \/ \E r \in Of("Closed", t) : p < r
    BY DEF RepliesEnd
  <1>1. LastRet(p + 1, q) /\ t[p] = q[p + 1] /\ p \in Nat /\ p + 1 \in DOMAIN q  BY LastRest
  <1>2. open = q[p + 1].session \/ \E r \in Of("Closed", q) : p + 1 < r
    BY <1>1 DEF RepliesEnd
  <1>3. ASSUME NEW r \in Of("Closed", q), p + 1 < r
        PROVE  r - 1 \in Of("Closed", t) /\ p < r - 1
    <2>1. r \in Nat /\ 1 =< r /\ (r # 1 => r - 1 \in Of("Closed", t))  BY OfRest
    <2> QED BY <1>1, <1>3, <2>1
  <1> QED BY <1>1, <1>2, <1>3

\* The order of the connects when a reply or another message was taken.
LEMMA ConnectsRest ==
  ASSUME ConnectsInOrder, IsRest(to_client, to_client'), to_service' = to_service,
         ~overlapped' => ~overlapped /\ Pending' \subseteq Pending,
         Len(attempts') = Len(attempts)
  PROVE  ConnectsInOrder'
  <1>1. \A p \in Of("ConnectRet", to_client') :
          /\ p \in Nat /\ p + 1 \in Of("ConnectRet", to_client)
          /\ to_client'[p] = to_client[p + 1]
    BY OfRest
  <1> QED BY <1>1 DEF ConnectsInOrder

\* A value taken is of the connection's session (WirePacketReceived).
LEMMA ReceivePacketKeeps ==
  ASSUME MaxTime \in Nat, WireInv, ReceivePacket
  PROVE  WireInv'
  <1>1. WireTypes /\ Receives("Packet")  BY DEF WireInv, ReceivePacket
  <1>2. /\ to_client' \in Seq(FromService) /\ IsRest(to_client, to_client')
        /\ 1 \in Of("Packet", to_client) /\ 1 \in DOMAIN to_client
        /\ Head(to_client) = to_client[1] /\ to_client[1] \in FromService
        /\ to_client[1].type = "Packet"
    BY <1>1, ClientRest
  <1>3. PICK value : /\ value = to_client[1].value
                     /\ value \in [from : DOMAIN sessions, time : 1..MaxTime]
    BY <1>1, <1>2 DEF WireTypes
  <1>u. UNCHANGED <<connection, attempts, shut_down, service, sessions, to_service,
                   overlapped, closed_other, stray_value>>
    BY DEF ReceivePacket
  <1>4. /\ wires' \in Seq([session : Nat, inval : Value, outval : Value])
        /\ DOMAIN wires' = DOMAIN wires /\ Len(wires') = Len(wires)
        /\ \A i \in DOMAIN wires :
            /\ wires'[i].session = wires[i].session /\ wires'[i].outval = wires[i].outval
            /\ wires'[i].inval = wires[i].inval \/ (i = connection /\ wires'[i].inval = value)
    <2>1. CASE UNCHANGED wires  BY <1>1, <2>1 DEF WireTypes
    <2>2. CASE wires' = [i \in DOMAIN wires |->
                 IF i \in ToConnection /\ Newer(value, wires[i].inval)
                 THEN [wires[i] EXCEPT !.inval = value] ELSE wires[i]]
      <3>1. /\ value \in Value /\ Len(wires) \in Nat /\ DOMAIN wires = 1..Len(wires)
            /\ \A i \in DOMAIN wires : wires[i] \in WireRecord
        BY <1>1, <1>3, Shapes DEF Value
      <3>2. DOMAIN wires' = 1..Len(wires)  BY <2>2, <3>1
      <3>3. ASSUME NEW i \in DOMAIN wires
            PROVE  /\ wires'[i] \in WireRecord
                   /\ wires'[i].session = wires[i].session /\ wires'[i].outval = wires[i].outval
                   /\ wires'[i].inval = wires[i].inval \/ (i = connection /\ wires'[i].inval = value)
        BY <2>2, <3>1 DEF ToConnection, WireRecord
      <3>4. wires' \in [1..Len(wires) -> WireRecord]  BY <2>2, <3>1, <3>3
      <3>5. wires' \in Seq(WireRecord) /\ Len(wires') = Len(wires)  BY <3>1, <3>4
      <3> QED BY <3>1, <3>2, <3>3, <3>5 DEF WireRecord
    <2> QED BY <1>2, <1>3, <2>1, <2>2 DEF ReceivePacket
  <1>5. WireTypes'
    <2>1. TypeOK'
      BY <1>1, <1>3, <1>4, <1>u DEF WireTypes, TypeOK, Values
    <2>2. \A p \in DOMAIN to_client' : p + 1 \in DOMAIN to_client /\ to_client'[p] = to_client[p + 1]
      BY <1>2 DEF IsRest
    <2> QED BY <1>1, <1>2, <1>4, <1>u, <2>1, <2>2 DEF WireTypes
  <1>6. ConnectsInOrder'  BY <1>2, <1>u, ConnectsRest DEF WireInv, Pending
  <1>7. BehindReply'  BY <1>2, <1>u, BehindRest DEF WireInv
  <1>a. connection # 0 =>
          /\ connection \in DOMAIN wires /\ wires'[connection].session = wires[connection].session
          /\ wires'[connection].outval = wires[connection].outval
    BY <1>1, <1>4, Shapes
  <1>b. /\ \A p \in Of("Packet", to_client') : p \in Nat /\ p + 1 \in Of("Packet", to_client)
                                               /\ to_client'[p] = to_client[p + 1]
        /\ \A p \in Of("ConnectRet", to_client') : p \in Nat /\ p + 1 \in Of("ConnectRet", to_client)
                                               /\ to_client'[p] = to_client[p + 1]
        /\ Of("ConnectRet", to_client) = {} => Of("ConnectRet", to_client') = {}
        /\ \A p \in Of("Closed", to_client) : p \in Nat /\ 1 =< p /\
              (p # 1 => p - 1 \in Of("Closed", to_client'))
        /\ 1 \notin Of("Closed", to_client)
    <2>1. 1 \notin Of("Closed", to_client)  BY <1>2 DEF Of
    <2> QED BY <1>2, <2>1, OfRest
  <1>8. Settled'  BY <1>4, <1>u, <1>a, <1>b DEF Settled, WireInv
  <1>9. EndsAnnounced'
    <2>1. ASSUME ~overlapped, ~closed_other PROVE RepliesEnd(to_client', service)
      <3>1. RepliesEnd(to_client, service)  BY <2>1 DEF EndsAnnounced, WireInv, RepliesEnd
      <3> QED BY <1>2, <3>1, EndsRest
    <2>2. Of("Closed", to_client) # {} => Of("Closed", to_client') # {}  BY <1>b
    <2> QED BY <1>4, <1>u, <1>a, <1>b, <2>1, <2>2 DEF EndsAnnounced, WireInv, RepliesEnd
  <1>10. ValuesInOrder'
    BY <1>4, <1>u, <1>a, <1>b DEF ValuesInOrder, WireInv
  <1>11. ValueOfOwnSession'
    BY <1>2, <1>3, <1>4, <1>u DEF ValueOfOwnSession, Settled, WireInv
  <1> QED BY <1>5, <1>6, <1>7, <1>8, <1>9, <1>10, <1>11 DEF WireInv

\* A reply, the last one when it connects, brings a connection of its session
\* (AsyncConnect_internal1).
LEMMA ReceiveConnectRetKeeps ==
  ASSUME MaxTime \in Nat, WireInv, ReceiveConnectRet
  PROVE  WireInv'
  <1>1. WireTypes /\ Receives("ConnectRet")  BY DEF WireInv, ReceiveConnectRet
  <1>2. /\ to_client' \in Seq(FromService) /\ IsRest(to_client, to_client')
        /\ 1 \in Of("ConnectRet", to_client) /\ 1 \in DOMAIN to_client
        /\ Head(to_client) = to_client[1] /\ to_client[1] \in FromService
        /\ to_client[1].type = "ConnectRet"
    BY <1>1, ClientRest
  <1>3. PICK m : /\ m = to_client[1] /\ m.attempt \in DOMAIN attempts
                 /\ m.session \in 0..Len(sessions)
    BY <1>1, <1>2 DEF WireTypes
  <1>4. /\ Len(wires) \in Nat /\ DOMAIN wires = 1..Len(wires)
        /\ Len(sessions) \in Nat /\ DOMAIN sessions = 1..Len(sessions)
        /\ Len(attempts) \in Nat /\ DOMAIN attempts = 1..Len(attempts)
        /\ connection \in Nat /\ (connection # 0 => connection \in DOMAIN wires)
        /\ service \in Nat /\ (service # 0 => service \in DOMAIN sessions)
        /\ \A i \in DOMAIN wires : i \in Nat \ {0} /\ wires[i] \in WireRecord
        /\ m.session \in Nat /\ m.attempt \in Nat
    BY <1>1, <1>3, Shapes
  <1>u. UNCHANGED <<shut_down, service, sessions, to_service, overlapped,
                    closed_other, stray_value>>
    BY DEF ReceiveConnectRet
  <1>5. /\ attempts' \in Seq({"pending", "answered", "timed out"})
        /\ DOMAIN attempts' = DOMAIN attempts /\ Len(attempts') = Len(attempts)
        /\ Pending' \subseteq Pending
        /\ m.attempt \notin Pending'
    <2>1. PICK v : /\ v = IF attempts[m.attempt] = "pending" THEN "answered" ELSE attempts[m.attempt]
                   /\ attempts' = [attempts EXCEPT ![m.attempt] = v]
      BY <1>2, <1>3 DEF ReceiveConnectRet
    <2>2. PICK S : S = {"pending", "answered", "timed out"} /\ attempts \in Seq(S)
      BY <1>1 DEF WireTypes, TypeOK
    <2>3. attempts \in Seq(S) /\ m.attempt \in DOMAIN attempts /\ attempts[m.attempt] \in S
      <3>1. attempts \in Seq(S) /\ m.attempt \in DOMAIN attempts  BY <1>3, <2>2
      <3> QED BY ONLY <3>1, Element
    <2>4. v \in S /\ v # "pending"  BY <2>1, <2>2, <2>3
    <2>5. /\ attempts' \in Seq(S) /\ DOMAIN attempts' = DOMAIN attempts
          /\ Len(attempts') = Len(attempts) /\ attempts'[m.attempt] = v
          /\ \A i \in DOMAIN attempts : i # m.attempt => attempts'[i] = attempts[i]
      <3>1. attempts' = [attempts EXCEPT ![m.attempt] = v]  BY <2>1
      <3>2. v \in S  BY <2>4
      <3> QED BY ONLY <2>3, <3>1, <3>2, Replaced
    <2> QED BY <2>2, <2>4, <2>5 DEF Pending
  <1>b. /\ \A p \in Of("Packet", to_client') : p \in Nat /\ p + 1 \in Of("Packet", to_client)
                                               /\ to_client'[p] = to_client[p + 1]
        /\ \A p \in Of("ConnectRet", to_client') : p \in Nat /\ p + 1 \in Of("ConnectRet", to_client)
                                               /\ to_client'[p] = to_client[p + 1]
        /\ \A p \in DOMAIN to_client' : p \in Nat /\ p + 1 \in DOMAIN to_client
                                               /\ to_client'[p] = to_client[p + 1]
        /\ \A p \in Of("Closed", to_client) : p \in Nat /\ 1 =< p /\
              (p # 1 => p - 1 \in Of("Closed", to_client'))
        /\ 1 \notin Of("Closed", to_client)
        /\ Of("ConnectRet", to_client) # {}
    <2>1. 1 \notin Of("Closed", to_client)  BY <1>2 DEF Of
    <2>2. \A p \in DOMAIN to_client' : p \in Nat /\ p + 1 \in DOMAIN to_client
                                        /\ to_client'[p] = to_client[p + 1]
      BY <1>2 DEF IsRest
    <2> QED BY <1>2, <2>1, <2>2, OfRest
  <1>c. ConnectsInOrder'
    BY <1>2, <1>5, <1>u, ConnectsRest DEF WireInv
  <1>d. BehindReply'  BY <1>2, <1>u, BehindRest DEF WireInv
  <1>e. ASSUME ~overlapped, ~closed_other PROVE RepliesEnd(to_client', service)
    <2>1. RepliesEnd(to_client, service)  BY <1>e DEF EndsAnnounced, WireInv, RepliesEnd
    <2> QED BY <1>2, <2>1, EndsRest
  <1>g. \A p \in DOMAIN to_client' :
          /\ to_client'[p].type = "ConnectRet" =>
              to_client'[p].attempt \in DOMAIN attempts' /\ to_client'[p].session \in 0..Len(sessions')
          /\ to_client'[p].type = "Packet" =>
              to_client'[p].value \in [from : DOMAIN sessions', time : 1..MaxTime]
    BY <1>1, <1>5, <1>b, <1>u DEF WireTypes
  <1>6. CASE UNCHANGED <<wires, connection>>
    <2>1. TypeOK'  BY <1>1, <1>5, <1>6, <1>u DEF WireTypes, TypeOK
    <2>2. WireTypes'
      <3>1. \A p \in DOMAIN to_service' :
              /\ to_service'[p].type = "ConnectReq" => to_service'[p].attempt \in DOMAIN attempts'
              /\ to_service'[p].type = "Packet" =>
                   to_service'[p].value \in [from : DOMAIN wires', time : 1..MaxTime]
        BY <1>1, <1>5, <1>6, <1>u DEF WireTypes
      <3> QED BY <1>1, <1>2, <1>6, <1>g, <1>u, <2>1, <3>1 DEF WireTypes
    <2>3. Settled'  BY <1>6, <1>b, <1>u DEF Settled, WireInv
    <2>4. EndsAnnounced'
      <3>1. Of("Closed", to_client) # {} => Of("Closed", to_client') # {}  BY <1>b
      <3> QED BY <1>6, <1>b, <1>e, <1>u, <3>1 DEF EndsAnnounced, WireInv, RepliesEnd
    <2>5. ValuesInOrder'  BY <1>6, <1>b, <1>u DEF ValuesInOrder, WireInv
    <2>6. ValueOfOwnSession'  BY <1>6, <1>u DEF ValueOfOwnSession, WireInv
    <2> QED BY <1>c, <1>d, <2>2, <2>3, <2>4, <2>5, <2>6 DEF WireInv
  <1>7. CASE /\ attempts[m.attempt] = "pending" /\ m.session # 0 /\ connection = 0
             /\ wires' = Append(wires, NewWire(m.session))
             /\ connection' = Len(wires) + 1
    <2>1. PICK w : /\ w = NewWire(m.session) /\ w \in WireRecord /\ w.session = m.session
                   /\ w.inval = NoValue /\ w.outval = NoValue
      BY <1>4, NewWireIs DEF WireRecord
    <2>2. wires \in Seq(WireRecord)  BY <1>1 DEF WireTypes, WireRecord
    <2>3. /\ wires' \in Seq(WireRecord) /\ Len(wires') = Len(wires) + 1
          /\ DOMAIN wires' = 1..(Len(wires) + 1)
          /\ \A i \in DOMAIN wires : i \in DOMAIN wires' /\ wires'[i] = wires[i]
          /\ wires'[connection'] = w /\ connection' \in DOMAIN wires'
          /\ \A i \in DOMAIN wires' : i \in DOMAIN wires \/ i = connection'
      BY <1>4, <1>7, <2>1, <2>2
    <2>4. TypeOK'
      <3>1. TypeOK  BY <1>1 DEF WireTypes
      <3>2. DOMAIN wires \subseteq DOMAIN wires'  BY <2>3
      <3>3. ASSUME NEW i \in DOMAIN wires'
            PROVE  /\ wires'[i].session \in DOMAIN sessions'
                   /\ wires'[i].inval \in Values(DOMAIN sessions)
                   /\ wires'[i].outval \in Values({i})
        <4>1. CASE i \in DOMAIN wires  BY <1>u, <2>3, <3>1, <4>1 DEF TypeOK
        <4>2. CASE i = connection'
          <5>1. m.session \in DOMAIN sessions  BY <1>3, <1>4, <1>7
          <5> QED BY <1>u, <2>1, <2>3, <4>2, <5>1 DEF Values
        <4> QED BY <2>3, <4>1, <4>2
      <3>4. \A s \in DOMAIN sessions : /\ sessions[s].inval \in Values(DOMAIN wires')
                                       /\ sessions[s].outval \in Values({s})
        BY <3>1, <3>2 DEF TypeOK, Values
      <3>5. connection' \in 0..Len(wires') /\ service' \in 0..Len(sessions')
        <4>1. connection' \in 0..Len(wires')  BY <1>4, <1>7, <2>3
        <4>2. service \in 0..Len(sessions)  BY <3>1 DEF TypeOK
        <4> QED BY <1>u, <4>1, <4>2
      <3> QED BY <1>5, <1>u, <3>1, <3>3, <3>4, <3>5 DEF TypeOK
    <2>5. WireTypes'
      <3>1. DOMAIN wires \subseteq DOMAIN wires'  BY <2>3
      <3>2. \A p \in DOMAIN to_service' :
              /\ to_service'[p].type = "ConnectReq" => to_service'[p].attempt \in DOMAIN attempts'
              /\ to_service'[p].type = "Packet" =>
                   to_service'[p].value \in [from : DOMAIN wires', time : 1..MaxTime]
        BY <1>1, <1>5, <1>u, <3>1 DEF WireTypes
      <3>3. wires' \in Seq([session : Nat, inval : Value, outval : Value])
        BY <2>3 DEF WireRecord
      <3> QED BY <1>1, <1>2, <1>g, <1>u, <2>4, <3>2, <3>3 DEF WireTypes
    <2>6. ASSUME ~overlapped
          PROVE  /\ Of("ConnectRet", to_client') = {} /\ Of("ConnectReq", to_service) = {}
                 /\ LastRet(1, to_client)
      <3>1. ConnectsInOrder /\ m.attempt = Len(attempts)
        BY <1>3, <1>7, <2>6 DEF ConnectsInOrder, WireInv, Pending
      <3>2. ASSUME NEW p \in Of("ConnectRet", to_client), 1 < p PROVE FALSE
        <4>1. m.attempt < to_client[p].attempt  BY <1>2, <1>3, <3>1, <3>2 DEF ConnectsInOrder
        <4>2. to_client[p].attempt \in DOMAIN attempts  BY <1>1 DEF Of, WireTypes
        <4> QED BY <1>4, <3>1, <4>1, <4>2
      <3>3. ASSUME NEW p \in Of("ConnectReq", to_service) PROVE FALSE
        <4>1. m.attempt < to_service[p].attempt  BY <1>2, <1>3, <3>1 DEF ConnectsInOrder
        <4>2. to_service[p].attempt \in DOMAIN attempts  BY <1>1 DEF Of, WireTypes
        <4> QED BY <1>4, <3>1, <4>1, <4>2
      <3>4. ASSUME NEW p \in Of("ConnectRet", to_client') PROVE FALSE
        <4>1. p + 1 \in Of("ConnectRet", to_client) /\ p \in Nat /\ 1 =< p
          BY <1>b, <1>2, <3>4 DEF Of, IsRest
        <4> QED BY <3>2, <4>1
      <3> QED BY <1>2, <3>2, <3>3, <3>4 DEF LastRet
    <2>7. Settled'
      <3> SUFFICES ASSUME ~overlapped
                   PROVE  /\ Of("ConnectRet", to_client') = {} /\ Of("ConnectReq", to_service) = {}
                          /\ service \in {0, m.session}
                          /\ \A q \in Of("Packet", to_client') :
                                to_client'[q].value.from = m.session
        BY <1>u, <2>1, <2>3 DEF Settled
      <3>1. /\ service \in {0, m.session}
            /\ \A q \in Of("Packet", to_client) : 1 < q => to_client[q].value.from = m.session
        BY <1>2, <1>3, <1>7, <2>6 DEF BehindReply, WireInv
      <3>2. ASSUME NEW q \in Of("Packet", to_client') PROVE to_client'[q].value.from = m.session
        <4>1. /\ q + 1 \in Of("Packet", to_client) /\ q \in Nat /\ 1 =< q
              /\ to_client'[q] = to_client[q + 1]
          BY <1>b, <1>2, <3>2 DEF Of, IsRest
        <4> QED BY <3>1, <4>1
      <3> QED BY <2>6, <3>1, <3>2
    <2>8. EndsAnnounced'
      <3>1. Of("DisconnectReq", to_service) = {} \/ overlapped \/ closed_other
        BY <1>b DEF EndsAnnounced, WireInv
      <3>2. ASSUME ~overlapped, ~closed_other
            PROVE  service = m.session \/ Of("Closed", to_client') # {}
        <4>1. service = m.session \/ \E q \in Of("Closed", to_client) : 1 < q
          BY <1>2, <1>3, <1>7, <2>6, <3>2 DEF EndsAnnounced, WireInv
        <4> QED BY <1>b, <4>1
      <3> QED BY <1>e, <1>u, <2>1, <2>3, <2>6, <3>1, <3>2 DEF EndsAnnounced, RepliesEnd
    <2>9. ValuesInOrder'
      <3> SUFFICES ASSUME ~overlapped, ~stray_value
                   PROVE  /\ Of("ConnectReq", to_service) = {} /\ Of("ConnectRet", to_client') = {}
                          /\ Of("Packet", to_service) = {}
                          /\ sessions[m.session].inval = NoValue
        BY <1>u, <2>1, <2>3 DEF ValuesInOrder
      <3>1. Of("Packet", to_service) = {} /\ sessions[m.session].inval = NoValue
        BY <1>2, <1>3, <1>7, <1>b DEF ValuesInOrder, WireInv
      <3> QED BY <2>6, <3>1
    <2>10. ValueOfOwnSession'
      BY <1>u, <2>1, <2>3 DEF ValueOfOwnSession, WireInv
    <2> QED BY <1>c, <1>d, <2>5, <2>7, <2>8, <2>9, <2>10 DEF WireInv
  <1> QED BY <1>2, <1>3, <1>6, <1>7 DEF ReceiveConnectRet

\* The connection whose end was announced is let go, with a request
\* (WireClosed).
LEMMA ReceiveWireClosedKeeps ==
  ASSUME MaxTime \in Nat, WireInv, ReceiveWireClosed
  PROVE  WireInv'
  <1>1. WireTypes /\ Receives("Closed")  BY DEF WireInv, ReceiveWireClosed
  <1>2. /\ to_client' \in Seq(FromService) /\ IsRest(to_client, to_client')
        /\ 1 \in Of("Closed", to_client) /\ 1 \in DOMAIN to_client
    BY <1>1, ClientRest
  <1>u. UNCHANGED <<wires, attempts, shut_down, service, sessions, overlapped,
                    closed_other, stray_value>>
    BY DEF ReceiveWireClosed
  <1>b. /\ \A p \in Of("Packet", to_client') : p \in Nat /\ p + 1 \in Of("Packet", to_client)
                                               /\ to_client'[p] = to_client[p + 1]
        /\ \A p \in Of("ConnectRet", to_client') : p \in Nat /\ p + 1 \in Of("ConnectRet", to_client)
                                               /\ to_client'[p] = to_client[p + 1]
        /\ \A p \in DOMAIN to_client' : p \in Nat /\ p + 1 \in DOMAIN to_client
                                               /\ to_client'[p] = to_client[p + 1]
    <2>1. \A p \in DOMAIN to_client' : p \in Nat /\ p + 1 \in DOMAIN to_client
                                        /\ to_client'[p] = to_client[p + 1]
      BY <1>2 DEF IsRest
    <2> QED BY <1>2, <2>1, OfRest
  <1>d. BehindReply'  BY <1>2, <1>u, BehindRest DEF WireInv
  <1>e. ASSUME ~overlapped, ~closed_other PROVE RepliesEnd(to_client', service)
    <2>1. RepliesEnd(to_client, service)  BY <1>e DEF EndsAnnounced, WireInv, RepliesEnd
    <2> QED BY <1>2, <2>1, EndsRest
  <1>f. ValueOfOwnSession'  BY <1>u DEF ValueOfOwnSession, WireInv
  <1>g. \A p \in DOMAIN to_client' :
          /\ to_client'[p].type = "ConnectRet" =>
              to_client'[p].attempt \in DOMAIN attempts' /\ to_client'[p].session \in 0..Len(sessions')
          /\ to_client'[p].type = "Packet" =>
              to_client'[p].value \in [from : DOMAIN sessions', time : 1..MaxTime]
    BY <1>1, <1>b, <1>u DEF WireTypes
  <1>3. CASE (connection = 0 \/ shut_down) /\ UNCHANGED <<connection, to_service>>
    <2>1. TypeOK'  BY <1>1, <1>3, <1>u DEF WireTypes, TypeOK
    <2>2. WireTypes'  BY <1>1, <1>2, <1>3, <1>g, <1>u, <2>1 DEF WireTypes
    <2>3. ConnectsInOrder'  BY <1>2, <1>3, <1>u, ConnectsRest DEF WireInv, Pending
    <2>4. Settled'  BY <1>3, <1>b, <1>u DEF Settled, WireInv
    <2>5. EndsAnnounced'
      BY <1>3, <1>b, <1>e, <1>u DEF EndsAnnounced, WireInv, RepliesEnd
    <2>6. ValuesInOrder'  BY <1>3, <1>b, <1>u DEF ValuesInOrder, WireInv
    <2> QED BY <1>d, <1>f, <2>2, <2>3, <2>4, <2>5, <2>6 DEF WireInv
  <1>4. CASE /\ connection # 0 /\ connection' = 0
             /\ SendToService([type |-> "DisconnectReq"])
    <2>1. /\ to_service' \in Seq(FromClient)
          /\ \A p \in DOMAIN to_service' : to_service'[p].type # "DisconnectReq" =>
               p \in DOMAIN to_service /\ to_service'[p] = to_service[p]
          /\ Of("ConnectReq", to_service') = Of("ConnectReq", to_service)
          /\ Of("Packet", to_service') = Of("Packet", to_service)
          /\ \A p \in DOMAIN to_service : to_service'[p] = to_service[p]
      BY <1>1, <1>4, MoreDisconnect
    <2>2. TypeOK'
      <3>1. TypeOK /\ connection' \in 0..Len(wires)  BY <1>1, <1>4, Shapes DEF WireTypes
      <3> QED BY <1>u, <3>1 DEF TypeOK
    <2>3. WireTypes'  BY <1>1, <1>2, <1>g, <1>u, <2>1, <2>2 DEF WireTypes
    <2>4. ConnectsInOrder'
      <3>1. \A p \in Of("ConnectReq", to_service) : to_service'[p] = to_service[p]
        BY <2>1 DEF Of
      <3>2. ConnectsInOrder  BY DEF WireInv
      <3>3. \A p, q \in Of("ConnectRet", to_client') :
              p < q => to_client'[p].attempt < to_client'[q].attempt
        BY <1>b, <3>2 DEF ConnectsInOrder
      <3>4. \A p, q \in Of("ConnectReq", to_service') :
              p < q => to_service'[p].attempt < to_service'[q].attempt
        BY <2>1, <3>1, <3>2 DEF ConnectsInOrder
      <3>5. \A p \in Of("ConnectRet", to_client'), q \in Of("ConnectReq", to_service') :
              to_client'[p].attempt < to_service'[q].attempt
        BY <1>b, <2>1, <3>1, <3>2 DEF ConnectsInOrder
      <3>6. ~overlapped' => Pending' \subseteq {Len(attempts')}
        BY <1>u, <3>2 DEF ConnectsInOrder, Pending
      <3> QED BY <3>3, <3>4, <3>5, <3>6 DEF ConnectsInOrder
    <2>5. Settled'  BY <1>4 DEF Settled
    <2>6. ~overlapped => Of("ConnectReq", to_service') = {} /\ Of("ConnectRet", to_client') = {}
      BY <1>4, <1>b, <2>1 DEF Settled, WireInv
    <2>7. EndsAnnounced'
      BY <1>4, <1>e, <1>u, <2>6 DEF EndsAnnounced, RepliesEnd
    <2>8. ValuesInOrder'
      BY <1>4, <1>u, <2>6 DEF ValuesInOrder
    <2> QED BY <1>d, <1>f, <2>3, <2>4, <2>5, <2>7, <2>8 DEF WireInv
  <1> QED BY <1>3, <1>4 DEF ReceiveWireClosed, NotConnected

-----------------------------------------------------------------------------
(* Steps of the caller, of time and of the stub.                           *)

\* The member lets go of its connection, or sends one more connect (AsyncConnect).
LEMMA AsyncConnectKeeps ==
  ASSUME MaxTime \in Nat, WireInv, AsyncConnect
  PROVE  WireInv'
  <1>1. WireTypes  BY DEF WireInv
  <1>u. UNCHANGED <<wires, shut_down, service, sessions, to_client,
                    closed_other, stray_value>>
    BY DEF AsyncConnect
  <1>2. BehindReply'  BY <1>u DEF BehindReply, WireInv
  <1>4. CASE connection # 0 /\ connection' = 0 /\ UNCHANGED <<attempts, to_service, overlapped>>
    <2>1. TypeOK'
      <3>1. TypeOK /\ connection' \in 0..Len(wires)  BY <1>1, <1>4, Shapes DEF WireTypes
      <3> QED BY <1>4, <1>u, <3>1 DEF TypeOK
    <2>2. WireTypes'  BY <1>1, <1>4, <1>u, <2>1 DEF WireTypes
    <2>3. ConnectsInOrder'  BY <1>4, <1>u DEF ConnectsInOrder, WireInv, Pending
    <2>4. Settled'  BY <1>4 DEF Settled
    <2>5. EndsAnnounced'  BY <1>4, <1>u DEF EndsAnnounced, WireInv
    <2>6. ValuesInOrder'  BY <1>4, <1>u DEF ValuesInOrder, WireInv
    <2>7. ValueOfOwnSession'  BY <1>4, <1>u DEF ValueOfOwnSession, WireInv
    <2> QED BY <1>2, <2>2, <2>3, <2>4, <2>5, <2>6, <2>7 DEF WireInv
  <1>5. CASE /\ connection = 0 /\ UNCHANGED connection
             /\ attempts' = Append(attempts, "pending")
             /\ SendToService([type |-> "ConnectReq", attempt |-> Len(attempts) + 1])
             /\ overlapped' = (overlapped \/ Pending # {})
    <2>1. PICK k : k = Len(attempts) + 1  OBVIOUS
    <2>2. PICK S : S = {"pending", "answered", "timed out"} /\ attempts \in Seq(S)
      BY <1>1 DEF WireTypes, TypeOK
    <2>3. "pending" \in S  BY <2>2
    <2>4. /\ attempts' \in Seq(S) /\ Len(attempts') = k /\ Len(attempts) \in Nat
          /\ k \in DOMAIN attempts' /\ DOMAIN attempts = 1..Len(attempts)
          /\ \A i \in DOMAIN attempts : i \in DOMAIN attempts' /\ attempts'[i] = attempts[i]
          /\ \A i \in DOMAIN attempts' : i \in DOMAIN attempts \/ i = k
      <3>1. attempts' = Append(attempts, "pending")  BY <1>5
      <3>2. attempts \in Seq(S)  BY <2>2
      <3> QED BY ONLY <2>1, <2>3, <3>1, <3>2, Extended
    <2>5. PICK m : /\ m = [type |-> "ConnectReq", attempt |-> k]
                   /\ to_service' = Append(to_service, m)
      BY <1>5, <2>1 DEF SendToService
    <2>6. m \in FromClient /\ m.type = "ConnectReq" /\ m.attempt = k
      BY <2>1, <2>4, <2>5 DEF FromClient
    <2>7. to_service \in Seq(FromClient)  BY <1>1 DEF WireTypes
    <2>8. to_service' \in Seq(FromClient) /\ IsMore(to_service, m, to_service')
      BY <2>5, <2>6, <2>7, MoreOf
    <2>9. TypeOK'
      <3>1. TypeOK /\ attempts' \in Seq({"pending", "answered", "timed out"})
            /\ (overlapped' \in BOOLEAN)
        BY <1>1, <1>5, <2>2, <2>4 DEF WireTypes, TypeOK
      <3> QED BY <1>5, <1>u, <3>1 DEF TypeOK
    <2>10. WireTypes'
      <3>1. \A p \in DOMAIN to_service' : p \in DOMAIN to_service \/ to_service'[p] = m
        BY <2>8 DEF IsMore
      <3>2. \A p \in DOMAIN to_service : to_service'[p] = to_service[p]  BY <2>8 DEF IsMore
      <3> QED BY <1>1, <1>5, <1>u, <2>4, <2>6, <2>8, <2>9, <3>1, <3>2 DEF WireTypes
    <2>11. /\ \A p \in Of("ConnectReq", to_service) :
                p \in Nat /\ p < Len(to_service) + 1 /\ to_service'[p] = to_service[p]
           /\ \A p \in Of("ConnectReq", to_service') :
                p \in Of("ConnectReq", to_service) \/ p = Len(to_service) + 1
           /\ to_service'[Len(to_service) + 1] = m
           /\ Of("DisconnectReq", to_service') = Of("DisconnectReq", to_service)
           /\ Of("Packet", to_service') = Of("Packet", to_service)
           /\ \A p \in DOMAIN to_service : p \in Nat /\ p < Len(to_service) + 1
           /\ Len(to_service) \in Nat
      BY <2>6, <2>8, OfMore DEF IsMore
    <2>12. /\ \A p \in Of("ConnectReq", to_service) :
                to_service[p].attempt \in DOMAIN attempts /\ to_service[p].attempt < k
           /\ \A p \in Of("ConnectRet", to_client) :
                to_client[p].attempt \in DOMAIN attempts /\ to_client[p].attempt < k
      BY <1>1, <2>1, <2>4 DEF WireTypes, Of
    <2>13. ConnectsInOrder'
      <3>1. ~overlapped' => Pending' \subseteq {k}  BY <1>5, <2>4 DEF Pending
      <3>2. \A p, q \in Of("ConnectReq", to_service') :
              p < q => to_service'[p].attempt < to_service'[q].attempt
        BY <2>6, <2>11, <2>12 DEF ConnectsInOrder, WireInv
      <3>3. \A p \in Of("ConnectRet", to_client), q \in Of("ConnectReq", to_service') :
              to_client[p].attempt < to_service'[q].attempt
        BY <2>6, <2>11, <2>12 DEF ConnectsInOrder, WireInv
      <3> QED BY <1>u, <2>4, <3>1, <3>2, <3>3 DEF ConnectsInOrder, WireInv
    <2>14. Settled'  BY <1>5 DEF Settled
    <2>15. EndsAnnounced'
      <3>1. ASSUME ~overlapped, ~closed_other, NEW p \in Of("ConnectReq", to_service'),
                   NEW q \in Of("DisconnectReq", to_service)
            PROVE  ~(p < q)
        <4>1. q \in Nat /\ q < Len(to_service) + 1  BY <2>11 DEF Of
        <4>2. CASE p = Len(to_service) + 1  BY <2>11, <4>1, <4>2
        <4>3. CASE p \in Of("ConnectReq", to_service)
          BY <3>1, <4>3 DEF EndsAnnounced, WireInv
        <4> QED BY <2>11, <4>2, <4>3
      <3> QED BY <1>5, <1>u, <2>11, <3>1 DEF EndsAnnounced, WireInv
    <2>16. ValuesInOrder'
      <3>1. ASSUME ~overlapped, ~stray_value, NEW p \in Of("ConnectReq", to_service'),
                   NEW q \in Of("Packet", to_service)
            PROVE  ~(p < q)
        <4>1. q \in Nat /\ q < Len(to_service) + 1  BY <2>11 DEF Of
        <4>2. CASE p = Len(to_service) + 1  BY <2>11, <4>1, <4>2
        <4>3. CASE p \in Of("ConnectReq", to_service)
          BY <3>1, <4>3 DEF ValuesInOrder, WireInv
        <4> QED BY <2>11, <4>2, <4>3
      <3> QED BY <1>5, <1>u, <2>11, <3>1 DEF ValuesInOrder, WireInv
    <2>17. ValueOfOwnSession'  BY <1>5, <1>u DEF ValueOfOwnSession, WireInv
    <2> QED BY <1>2, <2>10, <2>13, <2>14, <2>15, <2>16, <2>17 DEF WireInv
  <1> QED BY <1>4, <1>5 DEF AsyncConnect

\* A connect that timed out is not pending, and its reply will find no request.
LEMMA ConnectTimeoutKeeps ==
  ASSUME MaxTime \in Nat, WireInv, ConnectTimeout
  PROVE  WireInv'
  <1>1. WireTypes  BY DEF WireInv
  <1>u. UNCHANGED <<connection, wires, shut_down, service, sessions, to_service,
                    to_client, overlapped, closed_other, stray_value>>
    BY DEF ConnectTimeout
  <1>2. PICK k \in Pending : attempts' = [attempts EXCEPT ![k] = "timed out"]
    BY DEF ConnectTimeout
  <1>3. PICK S : S = {"pending", "answered", "timed out"} /\ attempts \in Seq(S)
    BY <1>1 DEF WireTypes, TypeOK
  <1>4. PICK v : v = "timed out"  OBVIOUS
  <1>5. /\ attempts' \in Seq(S) /\ DOMAIN attempts' = DOMAIN attempts
        /\ Len(attempts') = Len(attempts) /\ attempts'[k] = v
        /\ \A i \in DOMAIN attempts : i # k => attempts'[i] = attempts[i]
    <2>1. attempts \in Seq(S) /\ k \in DOMAIN attempts /\ v \in S
      BY <1>2, <1>3, <1>4 DEF Pending
    <2>2. attempts' = [attempts EXCEPT ![k] = v]  BY <1>2, <1>4
    <2> QED BY ONLY <2>1, <2>2, Replaced
  <1>6. Pending' \subseteq Pending  BY <1>4, <1>5 DEF Pending
  <1>7. TypeOK'  BY <1>1, <1>3, <1>5, <1>u DEF WireTypes, TypeOK
  <1>8. WireTypes'  BY <1>1, <1>5, <1>7, <1>u DEF WireTypes
  <1>9. ConnectsInOrder'  BY <1>5, <1>6, <1>u DEF ConnectsInOrder, WireInv
  <1>10. BehindReply' /\ Settled' /\ EndsAnnounced'
    BY <1>u DEF BehindReply, Settled, EndsAnnounced, WireInv
  <1>11. ValuesInOrder' /\ ValueOfOwnSession'
    BY <1>u DEF ValuesInOrder, ValueOfOwnSession, WireInv
  <1> QED BY <1>8, <1>9, <1>10, <1>11 DEF WireInv

\* The stub is released.
LEMMA ShutdownKeeps ==
  ASSUME MaxTime \in Nat, WireInv, Shutdown
  PROVE  WireInv'
  <1>1. WireTypes  BY DEF WireInv
  <1>u. /\ UNCHANGED <<connection, wires, attempts, service, sessions, to_service,
                       to_client, overlapped, closed_other, stray_value>>
        /\ shut_down' = TRUE
    BY DEF Shutdown
  <1>2. TypeOK'  BY <1>1, <1>u DEF WireTypes, TypeOK
  <1>3. WireTypes'  BY <1>1, <1>2, <1>u DEF WireTypes
  <1>4. ConnectsInOrder'  BY <1>u DEF ConnectsInOrder, Pending, WireInv
  <1>5. BehindReply' /\ Settled'  BY <1>u DEF BehindReply, Settled, WireInv
  <1>6. EndsAnnounced'  BY <1>u DEF EndsAnnounced, WireInv
  <1>7. ValuesInOrder' /\ ValueOfOwnSession'
    BY <1>u DEF ValuesInOrder, ValueOfOwnSession, WireInv
  <1> QED BY <1>3, <1>4, <1>5, <1>6, <1>7 DEF WireInv

\* Nothing happens.
LEMMA StutterKeeps ==
  ASSUME WireInv, UNCHANGED vars
  PROVE  WireInv'
  <1>u. UNCHANGED <<connection, wires, attempts, shut_down, service, sessions, to_service,
                    to_client, overlapped, closed_other, stray_value>>
    BY DEF vars
  <1>1. WireTypes  BY DEF WireInv
  <1>2. TypeOK'  BY <1>1, <1>u DEF WireTypes, TypeOK
  <1>3. WireTypes'  BY <1>1, <1>2, <1>u DEF WireTypes
  <1>4. ConnectsInOrder'  BY <1>u DEF ConnectsInOrder, Pending, WireInv
  <1>5. BehindReply' /\ Settled'  BY <1>u DEF BehindReply, Settled, WireInv
  <1>6. EndsAnnounced'  BY <1>u DEF EndsAnnounced, WireInv
  <1>7. ValuesInOrder' /\ ValueOfOwnSession'
    BY <1>u DEF ValuesInOrder, ValueOfOwnSession, WireInv
  <1> QED BY <1>3, <1>4, <1>5, <1>6, <1>7 DEF WireInv

\* The caller closes a connection; the member has none then (AsyncClose).
LEMMA AsyncCloseKeeps ==
  ASSUME MaxTime \in Nat, WireInv, AsyncClose
  PROVE  WireInv'
  <1>1. WireTypes  BY DEF WireInv
  <1>u. UNCHANGED <<wires, attempts, shut_down, service, sessions, to_client,
                    overlapped, stray_value>>
    BY DEF AsyncClose
  <1>2. PICK i \in DOMAIN wires : closed_other' = (closed_other \/ i # connection)
    BY DEF AsyncClose
  <1>3. connection' = 0  BY DEF AsyncClose, NotConnected
  <1>4. (closed_other' \in BOOLEAN) /\ (~closed_other' => ~closed_other /\ connection # 0)
    <2>1. i # 0 /\ (closed_other \in BOOLEAN)  BY <1>1, Shapes DEF WireTypes, TypeOK
    <2> QED BY <1>2, <2>1
  <1>5. /\ to_service' \in Seq(FromClient)
        /\ \A p \in DOMAIN to_service' : to_service'[p].type # "DisconnectReq" =>
             p \in DOMAIN to_service /\ to_service'[p] = to_service[p]
        /\ Of("ConnectReq", to_service') = Of("ConnectReq", to_service)
        /\ Of("Packet", to_service') = Of("Packet", to_service)
        /\ \A p \in DOMAIN to_service : to_service'[p] = to_service[p]
    BY <1>1, MoreDisconnect DEF AsyncClose
  <1>6. TypeOK'
    <2>1. TypeOK /\ connection' \in 0..Len(wires)  BY <1>1, <1>3, Shapes DEF WireTypes
    <2> QED BY <1>4, <1>u, <2>1 DEF TypeOK
  <1>7. WireTypes'  BY <1>1, <1>5, <1>6, <1>u DEF WireTypes
  <1>8. ConnectsInOrder'
    <2>1. \A p \in Of("ConnectReq", to_service) : to_service'[p] = to_service[p]
      BY <1>5 DEF Of
    <2> QED BY <1>5, <1>u, <2>1 DEF ConnectsInOrder, WireInv, Pending
  <1>9. BehindReply' /\ Settled' /\ ValueOfOwnSession'
    BY <1>3, <1>u DEF BehindReply, Settled, ValueOfOwnSession, WireInv
  <1>10. EndsAnnounced'
    <2>1. ~overlapped /\ ~closed_other' =>
            Of("ConnectReq", to_service') = {} /\ Of("ConnectRet", to_client) = {}
      BY <1>4, <1>5 DEF Settled, WireInv
    <2> QED BY <1>3, <1>4, <1>u, <2>1 DEF EndsAnnounced, WireInv, LastRet
  <1>11. ValuesInOrder'  BY <1>3, <1>5, <1>u DEF ValuesInOrder, WireInv
  <1> QED BY <1>7, <1>8, <1>9, <1>10, <1>11 DEF WireInv

\* A value set is newer than every one before (SetOutValueBase).
LEMMA SetOutValueKeeps ==
  ASSUME MaxTime \in Nat, WireInv, SetOutValue
  PROVE  WireInv'
  <1>1. WireTypes  BY DEF WireInv
  <1>s. /\ Len(sessions) \in Nat /\ DOMAIN sessions = 1..Len(sessions)
        /\ connection \in Nat /\ (connection # 0 => connection \in DOMAIN wires)
        /\ service \in Nat /\ (service # 0 => service \in DOMAIN sessions)
        /\ \A j \in DOMAIN wires : j \in Nat \ {0} /\ wires[j] \in WireRecord
        /\ \A s \in DOMAIN sessions : s \in Nat \ {0} /\ sessions[s] \in SessionRecord
    BY <1>1, Shapes
  <1>u. UNCHANGED <<connection, attempts, shut_down, service, sessions, to_client,
                    overlapped, closed_other>>
    BY DEF SetOutValue
  <1>2. PICK i \in DOMAIN wires, now \in 1..MaxTime :
          LET value == [from |-> i, time |-> SendTime(now, wires[i].outval.time)] IN
          /\ value.time <= MaxTime
          /\ SendToService([type |-> "Packet", value |-> value])
          /\ wires' = [wires EXCEPT ![i].outval = value]
          /\ stray_value' = (stray_value \/ i # connection)
    BY DEF SetOutValue
  <1>3. PICK t : t = SendTime(now, wires[i].outval.time)  OBVIOUS
  <1>4. PICK value : value = [from |-> i, time |-> t]  OBVIOUS
  <1>5. PICK m : m = [type |-> "Packet", value |-> value]  OBVIOUS
  <1>6. PICK w : w = [wires[i] EXCEPT !.outval = value]  OBVIOUS
  <1>7. /\ t =< MaxTime /\ to_service' = Append(to_service, m)
        /\ wires' = [wires EXCEPT ![i] = w]
        /\ stray_value' = (stray_value \/ i # connection)
    BY <1>2, <1>3, <1>4, <1>5, <1>6 DEF SendToService
  <1>8. /\ wires[i] \in WireRecord /\ wires[i].outval.time \in Nat
        /\ wires[i].outval.time < t /\ t \in 1..MaxTime
    <2>1. wires[i] \in WireRecord /\ wires[i].outval.time \in Nat
      BY <1>s DEF WireRecord, Value
    <2> QED BY <1>3, <1>7, <2>1 DEF SendTime
  <1>9. /\ value \in Value /\ value.from = i /\ value.time = t
        /\ value \in [from : {i}, time : 1..MaxTime]
    BY <1>4, <1>8, <1>s DEF Value
  <1>10. /\ w \in WireRecord /\ w.session = wires[i].session
         /\ w.inval = wires[i].inval /\ w.outval = value
    BY <1>6, <1>8, <1>9 DEF WireRecord
  <1>11. /\ wires' \in Seq(WireRecord) /\ DOMAIN wires' = DOMAIN wires
         /\ Len(wires') = Len(wires) /\ wires'[i] = w
         /\ \A j \in DOMAIN wires : j # i => wires'[j] = wires[j]
    <2>1. wires \in Seq(WireRecord)  BY <1>1 DEF WireTypes, WireRecord
    <2> QED BY <1>7, <1>10, <2>1, Replaced
  <1>12. m \in FromClient /\ m.type = "Packet" /\ m.value = value
    BY <1>5, <1>9 DEF FromClient
  <1>13. to_service' \in Seq(FromClient) /\ IsMore(to_service, m, to_service')
    <2>1. to_service \in Seq(FromClient)  BY <1>1 DEF WireTypes
    <2> QED BY <1>7, <1>12, <2>1, MoreOf
  <1>14. PICK n : n = Len(to_service) + 1  OBVIOUS
  <1>15. /\ Of("ConnectReq", to_service') = Of("ConnectReq", to_service)
         /\ Of("DisconnectReq", to_service') = Of("DisconnectReq", to_service)
         /\ n \in Of("Packet", to_service') /\ to_service'[n] = m
         /\ \A p \in Of("Packet", to_service) :
              p \in Nat /\ p < n /\ p \in Of("Packet", to_service') /\ to_service'[p] = to_service[p]
         /\ \A p \in Of("Packet", to_service') : p \in Of("Packet", to_service) \/ p = n
         /\ \A p \in Of("ConnectReq", to_service) : to_service'[p] = to_service[p]
    BY <1>12, <1>13, <1>14, OfMore DEF IsMore
  <1>16. TypeOK'
    <2>1. TypeOK  BY <1>1 DEF WireTypes
    <2>2. ASSUME NEW j \in DOMAIN wires
          PROVE  /\ wires'[j].session \in DOMAIN sessions
                 /\ wires'[j].inval \in Values(DOMAIN sessions)
                 /\ wires'[j].outval \in Values({j})
      <3>1. /\ wires[j].session \in DOMAIN sessions
            /\ wires[j].inval \in Values(DOMAIN sessions)
            /\ wires[j].outval \in Values({j})
        BY <2>1 DEF TypeOK
      <3>2. CASE j = i
        <4>1. value \in Values({i})  BY <1>9 DEF Values
        <4> QED BY <1>10, <1>11, <3>1, <3>2, <4>1
      <3> QED BY <1>11, <3>1, <3>2
    <2>3. stray_value' \in BOOLEAN  BY <1>7, <2>1 DEF TypeOK
    <2> QED BY <1>11, <1>u, <2>1, <2>2, <2>3 DEF TypeOK
  <1>17. WireTypes'
    <2>1. \A p \in DOMAIN to_service' : \/ to_service'[p] = m
                                        \/ p \in DOMAIN to_service /\ to_service'[p] = to_service[p]
      BY <1>13 DEF IsMore
    <2>2. m.value \in [from : DOMAIN wires, time : 1..MaxTime]  BY <1>9, <1>12
    <2>3. \A p \in DOMAIN to_service' :
            /\ to_service'[p].type = "ConnectReq" => to_service'[p].attempt \in DOMAIN attempts'
            /\ to_service'[p].type = "Packet" =>
                to_service'[p].value \in [from : DOMAIN wires', time : 1..MaxTime]
      BY <1>1, <1>11, <1>12, <1>u, <2>1, <2>2 DEF WireTypes
    <2> QED BY <1>1, <1>11, <1>13, <1>16, <1>u, <2>3 DEF WireTypes, WireRecord
  <1>18. ConnectsInOrder'
    BY <1>15, <1>u DEF ConnectsInOrder, WireInv, Pending
  <1>19. BehindReply'  BY <1>u DEF BehindReply, WireInv
  <1>20. connection # 0 => wires'[connection].session = wires[connection].session
    BY <1>10, <1>11, <1>s
  <1>21. Settled'  BY <1>15, <1>20, <1>u DEF Settled, WireInv
  <1>22. EndsAnnounced'  BY <1>15, <1>20, <1>u DEF EndsAnnounced, WireInv
  <1>23. ValuesInOrder'
    <2> SUFFICES ASSUME ~overlapped, ~stray_value'
                 PROVE  ValuesInOrder'
      BY <1>u DEF ValuesInOrder
    <2>1. ~stray_value /\ i = connection /\ connection # 0  BY <1>7, <1>s
    <2>2. Of("ConnectReq", to_service) = {} /\ Of("ConnectRet", to_client) = {}
      BY <2>1 DEF Settled, WireInv
    <2>3. ASSUME wires[connection].session = service
          PROVE  /\ \A p \in Of("Packet", to_service') :
                     /\ sessions[service].inval.time < to_service'[p].value.time
                     /\ to_service'[p].value.time <= wires'[connection].outval.time
                     /\ \A q \in Of("Packet", to_service') :
                         p < q => to_service'[p].value.time < to_service'[q].value.time
                     /\ \/ to_service'[p].value = wires'[connection].outval
                        \/ \E q \in Of("Packet", to_service') : p < q
                 /\ Of("Packet", to_service') # {}
      <3>1. /\ \A p \in Of("Packet", to_service) :
                /\ sessions[service].inval.time < to_service[p].value.time
                /\ to_service[p].value.time <= wires[connection].outval.time
                /\ \A q \in Of("Packet", to_service) :
                    p < q => to_service[p].value.time < to_service[q].value.time
            /\ Of("Packet", to_service) = {} =>
                sessions[service].inval = wires[connection].outval
        BY <2>1, <2>3 DEF ValuesInOrder, WireInv
      <3>2. PICK last : last = wires[connection].outval.time /\ last \in Nat /\ last < t
        BY <1>8, <2>1
      <3>3. PICK kept : kept = sessions[service].inval.time /\ kept \in Nat
        <4>1. wires[connection].session \in DOMAIN sessions
          BY <1>1, <2>1 DEF WireTypes, TypeOK
        <4> QED BY <1>s, <2>3, <4>1 DEF SessionRecord, Value
      <3>4. \A p \in Of("Packet", to_service) : to_service[p].value.time \in Nat
        BY <1>1, <1>s DEF WireTypes, Of
      <3>5. kept < t
        <4>1. CASE Of("Packet", to_service) = {}
          <5>1. kept = last  BY <3>1, <3>2, <3>3, <4>1
          <5> QED BY <3>2, <5>1
        <4>2. CASE Of("Packet", to_service) # {}
          <5>1. PICK p : p \in Of("Packet", to_service)  BY <4>2
          <5>2. PICK x : x = to_service[p].value.time /\ x \in Nat  BY <3>4, <5>1
          <5>3. kept < x /\ x <= last  BY <3>1, <3>2, <3>3, <5>1, <5>2
          <5> QED BY <1>8, <3>2, <3>3, <5>2, <5>3
        <4> QED BY <4>1, <4>2
      <3>6. wires'[connection].outval = value /\ to_service'[n].value = value /\ value.time = t
        BY <1>9, <1>10, <1>11, <1>12, <1>15, <2>1
      <3>7. \A p \in Of("Packet", to_service) : /\ p < n /\ to_service'[p] = to_service[p]
                                                /\ to_service[p].value.time < t
        <4>1. ASSUME NEW p \in Of("Packet", to_service) PROVE to_service[p].value.time < t
          <5>1. PICK x : x = to_service[p].value.time /\ x \in Nat  BY <3>4
          <5>2. x <= last  BY <3>1, <3>2, <5>1
          <5> QED BY <1>8, <3>2, <5>1, <5>2
        <4> QED BY <1>15, <4>1
      <3>8. n \in Nat  BY <1>13, <1>14 DEF IsMore
      <3>9. ASSUME NEW p \in Of("Packet", to_service')
            PROVE  /\ kept < to_service'[p].value.time /\ to_service'[p].value.time <= t
                   /\ to_service'[p].value = value \/ \E q \in Of("Packet", to_service') : p < q
                   /\ \A q \in Of("Packet", to_service') :
                         p < q => to_service'[p].value.time < to_service'[q].value.time
        <4>1. CASE p = n
          <5>1. \A q \in Of("Packet", to_service') : ~(p < q)  BY <1>15, <3>8, <4>1
          <5> QED BY <1>8, <3>5, <3>6, <4>1, <5>1
        <4>2. CASE p \in Of("Packet", to_service)
          <5>1. /\ kept < to_service'[p].value.time /\ to_service'[p].value.time <= t
                /\ p < n
            BY <1>8, <3>1, <3>3, <3>4, <3>7, <4>2
          <5>2. ASSUME NEW q \in Of("Packet", to_service'), p < q
                PROVE  to_service'[p].value.time < to_service'[q].value.time
            <6>1. CASE q = n  BY <3>6, <3>7, <4>2, <6>1
            <6>2. CASE q \in Of("Packet", to_service)  BY <3>1, <3>7, <4>2, <5>2, <6>2
            <6> QED BY <1>15, <6>1, <6>2
          <5> QED BY <1>15, <5>1, <5>2
        <4> QED BY <1>15, <4>1, <4>2
      <3> QED BY <1>15, <3>3, <3>6, <3>9
    <2> QED BY <1>15, <1>20, <1>u, <2>1, <2>2, <2>3 DEF ValuesInOrder
  <1>24. ValueOfOwnSession'
    BY <1>10, <1>11, <1>u DEF ValueOfOwnSession, WireInv
  <1> QED BY <1>17, <1>18, <1>19, <1>21, <1>22, <1>23, <1>24 DEF WireInv

-----------------------------------------------------------------------------
(* Steps of the service.                                                   *)

\* What is left of the messages to the service.
LEMMA ServiceRest ==
  ASSUME WireTypes, NEW type, ServiceReceives(type)
  PROVE  /\ to_service' \in Seq(FromClient) /\ IsRest(to_service, to_service')
         /\ 1 \in Of(type, to_service) /\ 1 \in DOMAIN to_service
         /\ Head(to_service) = to_service[1] /\ to_service[1] \in FromClient
         /\ to_service[1].type = type
         /\ \A p \in DOMAIN to_service' : p \in Nat /\ 1 =< p /\ p + 1 \in DOMAIN to_service
                                           /\ to_service'[p] = to_service[p + 1]
         /\ UNCHANGED <<connection, wires, attempts, shut_down, overlapped, closed_other,
                        stray_value>>
  <1>1. /\ to_service' \in Seq(FromClient) /\ IsRest(to_service, to_service')
        /\ 1 \in DOMAIN to_service /\ Head(to_service) = to_service[1]
        /\ to_service[1] \in FromClient
    BY RestOf DEF WireTypes, ServiceReceives
  <1>2. \A p \in DOMAIN to_service' : 1 =< p  BY <1>1
  <1> QED BY <1>1, <1>2 DEF ServiceReceives, Of, IsRest

\* The end of a session (OnClientDisconnect).
LEMMA ServiceDisconnectsKeeps ==
  ASSUME MaxTime \in Nat, WireInv, ServiceDisconnects
  PROVE  WireInv'
  <1>1. WireTypes /\ ServiceReceives("DisconnectReq")  BY DEF WireInv, ServiceDisconnects
  <1>2. /\ to_service' \in Seq(FromClient) /\ IsRest(to_service, to_service')
        /\ 1 \in Of("DisconnectReq", to_service)
        /\ \A p \in DOMAIN to_service' : p \in Nat /\ 1 =< p /\ p + 1 \in DOMAIN to_service
                                           /\ to_service'[p] = to_service[p + 1]
        /\ UNCHANGED <<connection, wires, attempts, shut_down, overlapped, closed_other,
                        stray_value, sessions, to_client>>
        /\ service' = 0
    BY <1>1, ServiceRest DEF ServiceDisconnects
  <1>3. /\ \A p \in Of("ConnectReq", to_service') :
             p \in Nat /\ p + 1 \in Of("ConnectReq", to_service) /\ to_service'[p] = to_service[p + 1]
        /\ \A p \in Of("DisconnectReq", to_service') :
             p \in Nat /\ p + 1 \in Of("DisconnectReq", to_service)
        /\ \A p \in Of("Packet", to_service') :
             p \in Nat /\ p + 1 \in Of("Packet", to_service) /\ to_service'[p] = to_service[p + 1]
    BY <1>2, OfRest
  <1>4. TypeOK'
    <2>1. TypeOK /\ 0 \in 0..Len(sessions)  BY <1>1, Shapes DEF WireTypes
    <2> QED BY <1>2, <2>1 DEF TypeOK
  <1>5. WireTypes'  BY <1>1, <1>2, <1>4 DEF WireTypes
  <1>6. ConnectsInOrder'  BY <1>2, <1>3 DEF ConnectsInOrder, WireInv, Pending
  <1>7. BehindReply' /\ Settled'
    BY <1>2, <1>3 DEF BehindReply, Settled, WireInv
  <1>8. EndsAnnounced'
    BY <1>2, <1>3 DEF EndsAnnounced, WireInv, LastRet
  <1>9. ValuesInOrder'
    <2>1. connection # 0 => wires[connection].session # 0
      BY <1>1, Shapes DEF WireTypes, TypeOK
    <2> QED BY <1>2, <1>3, <2>1 DEF ValuesInOrder, WireInv
  <1>10. ValueOfOwnSession'  BY <1>2 DEF ValueOfOwnSession, WireInv
  <1> QED BY <1>5, <1>6, <1>7, <1>8, <1>9, <1>10 DEF WireInv

\* A connect is answered: with a session of its own, or with none (OnClientConnect).
LEMMA ServiceConnectsKeeps ==
  ASSUME MaxTime \in Nat, WireInv, ServiceConnects
  PROVE  WireInv'
  <1>1. WireTypes /\ ServiceReceives("ConnectReq")  BY DEF WireInv, ServiceConnects
  <1>s. /\ Len(sessions) \in Nat /\ DOMAIN sessions = 1..Len(sessions)
        /\ connection \in Nat /\ service \in 0..Len(sessions)
        /\ \A s \in DOMAIN sessions : s \in Nat \ {0}
    BY <1>1, Shapes DEF WireTypes, TypeOK
  <1>2. /\ to_service' \in Seq(FromClient) /\ IsRest(to_service, to_service')
        /\ 1 \in Of("ConnectReq", to_service) /\ 1 \in DOMAIN to_service
        /\ Head(to_service) = to_service[1] /\ to_service[1] \in FromClient
        /\ to_service[1].type = "ConnectReq"
        /\ \A p \in DOMAIN to_service' : p \in Nat /\ 1 =< p /\ p + 1 \in DOMAIN to_service
                                           /\ to_service'[p] = to_service[p + 1]
        /\ UNCHANGED <<connection, wires, attempts, shut_down, overlapped, closed_other,
                       stray_value>>
    BY <1>1, ServiceRest
  <1>3. PICK attempt : attempt = to_service[1].attempt /\ attempt \in DOMAIN attempts
                       /\ attempt \in Nat
    BY <1>1, <1>2, Shapes DEF WireTypes
  <1>4. /\ \A p \in Of("ConnectReq", to_service') :
             /\ p \in Nat /\ 1 < p + 1 /\ p + 1 \in Of("ConnectReq", to_service)
             /\ to_service'[p] = to_service[p + 1]
        /\ \A p \in Of("DisconnectReq", to_service') :
             p \in Nat /\ 1 < p + 1 /\ p + 1 \in Of("DisconnectReq", to_service)
        /\ \A p \in Of("Packet", to_service') :
             /\ p \in Nat /\ 1 < p + 1 /\ p + 1 \in Of("Packet", to_service)
             /\ to_service'[p] = to_service[p + 1]
    <2>1. \A type : \A p \in Of(type, to_service') :
             /\ p \in Nat /\ 1 =< p /\ p + 1 \in Of(type, to_service)
             /\ to_service'[p] = to_service[p + 1]
      BY <1>2, OfRest DEF Of
    <2>2. \A p \in Nat : 1 =< p => 1 < p + 1  OBVIOUS
    <2> QED BY <2>1, <2>2
  <1>5. PICK session, m :
          /\ m = [type |-> "ConnectRet", attempt |-> attempt, session |-> session]
          /\ to_client' = Append(to_client, m)
          /\ \/ /\ service = 0 /\ session = Len(sessions) + 1 /\ service' = session
                /\ sessions' = Append(sessions, NewSession)
             \/ session = 0 /\ UNCHANGED <<service, sessions>>
    BY <1>2, <1>3 DEF ServiceConnects, Replies
  <1>6. session \in Nat  BY <1>s, <1>5
  <1>7. m \in FromService /\ m.type = "ConnectRet" /\ m.attempt = attempt /\ m.session = session
    BY <1>3, <1>5, <1>6 DEF FromService
  <1>8. to_client' \in Seq(FromService) /\ IsMore(to_client, m, to_client')
    <2>1. to_client \in Seq(FromService)  BY <1>1 DEF WireTypes
    <2> QED BY <1>5, <1>7, <2>1, MoreOf
  <1>9. PICK n : n = Len(to_client) + 1 /\ n \in Nat  BY <1>8 DEF IsMore
  <1>10. /\ Of("Packet", to_client') = Of("Packet", to_client)
         /\ \A p \in DOMAIN to_client : p \in Nat /\ p < n /\ to_client'[p] = to_client[p]
         /\ \A p \in DOMAIN to_client' : p \in DOMAIN to_client \/ p = n
         /\ n \in Of("ConnectRet", to_client') /\ to_client'[n] = m
         /\ \A p \in Of("ConnectRet", to_client) : p < n /\ to_client'[p] = to_client[p]
         /\ \A p \in Of("ConnectRet", to_client') : p \in Of("ConnectRet", to_client) \/ p = n
    BY <1>7, <1>8, <1>9, OfMore DEF IsMore
  <1>11. /\ Len(sessions') \in Nat /\ DOMAIN sessions \subseteq DOMAIN sessions'
         /\ sessions' \in Seq(SessionRecord) /\ service' \in 0..Len(sessions')
         /\ session \in 0..Len(sessions') /\ Len(sessions) <= Len(sessions')
         /\ \A s \in DOMAIN sessions : sessions'[s] = sessions[s]
         /\ \A s \in DOMAIN sessions' : s \in DOMAIN sessions \/ sessions'[s] = NewSession
         /\ session # 0 => service' = session /\ sessions'[session] = NewSession
         /\ service' \in {service, session}
    <2>1. sessions \in Seq(SessionRecord)  BY <1>1 DEF WireTypes, SessionRecord
    <2>2. NewSession \in SessionRecord
      BY DEF NewSession, SessionRecord, Value, NoValue
    <2>3. CASE session = 0 /\ UNCHANGED <<service, sessions>>  BY <1>s, <2>1, <2>3
    <2>4. CASE /\ session = Len(sessions) + 1 /\ service' = session
               /\ sessions' = Append(sessions, NewSession)
      <3>1. /\ sessions' \in Seq(SessionRecord) /\ Len(sessions') = session
            /\ sessions'[session] = NewSession
            /\ \A i \in DOMAIN sessions : i \in DOMAIN sessions' /\ sessions'[i] = sessions[i]
            /\ \A i \in DOMAIN sessions' : i \in DOMAIN sessions \/ i = session
        BY <2>1, <2>2, <2>4, Extended
      <3> QED BY <1>s, <2>4, <3>1
    <2> QED BY <1>5, <2>3, <2>4
  <1>12. NewSession.inval = NoValue /\ NewSession.outval = NoValue  BY DEF NewSession
  <1>13. TypeOK'
    <2>1. TypeOK  BY <1>1 DEF WireTypes
    <2>2. \A i \in DOMAIN wires : /\ wires[i].session \in DOMAIN sessions'
                                  /\ wires[i].inval \in Values(DOMAIN sessions')
                                  /\ wires[i].outval \in Values({i})
      BY <1>11, <2>1 DEF TypeOK, Values
    <2>3. \A s \in DOMAIN sessions' : /\ sessions'[s].inval \in Values(DOMAIN wires)
                                      /\ sessions'[s].outval \in Values({s})
      BY <1>11, <1>12, <2>1 DEF TypeOK, Values
    <2> QED BY <1>2, <1>11, <2>1, <2>2, <2>3 DEF TypeOK
  <1>14. WireTypes'
    <2>1. \A p \in DOMAIN to_client' :
            /\ to_client'[p].type = "ConnectRet" =>
                to_client'[p].attempt \in DOMAIN attempts' /\ to_client'[p].session \in 0..Len(sessions')
            /\ to_client'[p].type = "Packet" =>
                to_client'[p].value \in [from : DOMAIN sessions', time : 1..MaxTime]
      <3>1. ASSUME NEW p \in DOMAIN to_client
            PROVE  /\ to_client[p].type = "ConnectRet" =>
                       to_client[p].attempt \in DOMAIN attempts /\ to_client[p].session \in 0..Len(sessions')
                   /\ to_client[p].type = "Packet" =>
                       to_client[p].value \in [from : DOMAIN sessions', time : 1..MaxTime]
        BY <1>1, <1>s, <1>11 DEF WireTypes
      <3> QED BY <1>2, <1>3, <1>7, <1>10, <1>11, <3>1
    <2> QED BY <1>1, <1>2, <1>8, <1>11, <1>13, <2>1 DEF WireTypes, SessionRecord
  <1>15. ConnectsInOrder'
    <2>1. \A p \in Of("ConnectReq", to_service') : attempt < to_service'[p].attempt
      BY <1>2, <1>3, <1>4 DEF ConnectsInOrder, WireInv
    <2>2. \A p \in Of("ConnectRet", to_client) : to_client[p].attempt < attempt
      BY <1>2, <1>3 DEF ConnectsInOrder, WireInv
    <2>3. \A p, q \in Of("ConnectRet", to_client') :
            p < q => to_client'[p].attempt < to_client'[q].attempt
      <3>1. \A q \in Of("ConnectRet", to_client) : ~(n < q)
        BY <1>9, <1>10 DEF Of
      <3>2. ~(n < n)  BY <1>9
      <3> QED BY <1>7, <1>10, <2>2, <3>1, <3>2 DEF ConnectsInOrder, WireInv
    <2>4. \A p, q \in Of("ConnectReq", to_service') :
            p < q => to_service'[p].attempt < to_service'[q].attempt
      BY <1>4 DEF ConnectsInOrder, WireInv
    <2>5. \A p \in Of("ConnectRet", to_client'), q \in Of("ConnectReq", to_service') :
            to_client'[p].attempt < to_service'[q].attempt
      BY <1>4, <1>7, <1>10, <2>1 DEF ConnectsInOrder, WireInv
    <2> QED BY <1>2, <2>3, <2>4, <2>5 DEF ConnectsInOrder, WireInv, Pending
  <1>16. \A p : LastRet(p, to_client') => p = n
    BY <1>10 DEF LastRet
  <1>17. \A q \in Of("Packet", to_client') : ~(n < q)
    BY <1>9, <1>10 DEF Of
  <1>18. BehindReply'
    BY <1>7, <1>10, <1>11, <1>16, <1>17 DEF BehindReply
  <1>19. ~overlapped => connection = 0  BY <1>2 DEF Settled, WireInv
  <1>20. Settled'  BY <1>2, <1>19 DEF Settled
  <1>21. EndsAnnounced'
    <2> SUFFICES ASSUME ~overlapped, ~closed_other PROVE EndsAnnounced'
      BY <1>2 DEF EndsAnnounced
    <2>1. Of("DisconnectReq", to_service') = {}
      BY <1>2, <1>4 DEF EndsAnnounced, WireInv
    <2> QED BY <1>2, <1>7, <1>10, <1>11, <1>16, <1>19, <2>1 DEF EndsAnnounced
  <1>22. ValuesInOrder'
    <2> SUFFICES ASSUME ~overlapped, ~stray_value PROVE ValuesInOrder'
      BY <1>2 DEF ValuesInOrder
    <2>1. Of("Packet", to_service') = {}
      BY <1>2, <1>4 DEF ValuesInOrder, WireInv
    <2>2. ASSUME NEW p \in Of("ConnectRet", to_client'), to_client'[p].session # 0
          PROVE  sessions'[to_client'[p].session].inval = NoValue
      <3>1. CASE p = n  BY <1>7, <1>10, <1>11, <1>12, <2>2, <3>1
      <3>2. CASE p \in Of("ConnectRet", to_client)
        <4>1. to_client[p].session \in DOMAIN sessions /\ to_client'[p] = to_client[p]
          BY <1>1, <1>s, <1>10, <2>2, <3>2 DEF WireTypes, Of
        <4> QED BY <1>11, <2>2, <3>2, <4>1 DEF ValuesInOrder, WireInv
      <3> QED BY <1>10, <3>1, <3>2
    <2> QED BY <1>2, <1>19, <2>1, <2>2 DEF ValuesInOrder
  <1>23. ValueOfOwnSession'  BY <1>2 DEF ValueOfOwnSession, WireInv
  <1> QED BY <1>14, <1>15, <1>18, <1>20, <1>21, <1>22, <1>23 DEF WireInv

\* The service takes the next value of the connection, which is newer than the kept.
LEMMA ServiceTakesKeeps ==
  ASSUME MaxTime \in Nat, WireInv, ServiceTakes
  PROVE  WireInv'
  <1>1. WireTypes /\ ServiceReceives("Packet")  BY DEF WireInv, ServiceTakes
  <1>s. /\ Len(sessions) \in Nat /\ DOMAIN sessions = 1..Len(sessions)
        /\ connection \in Nat /\ (connection # 0 => connection \in DOMAIN wires)
        /\ service \in Nat /\ (service # 0 => service \in DOMAIN sessions)
        /\ \A j \in DOMAIN wires : j \in Nat \ {0} /\ wires[j] \in WireRecord
        /\ \A s \in DOMAIN sessions : s \in Nat \ {0} /\ sessions[s] \in SessionRecord
    BY <1>1, Shapes
  <1>2. /\ to_service' \in Seq(FromClient) /\ IsRest(to_service, to_service')
        /\ 1 \in Of("Packet", to_service) /\ 1 \in DOMAIN to_service
        /\ Head(to_service) = to_service[1] /\ to_service[1].type = "Packet"
        /\ \A p \in DOMAIN to_service' : p \in Nat /\ 1 =< p /\ p + 1 \in DOMAIN to_service
                                           /\ to_service'[p] = to_service[p + 1]
        /\ UNCHANGED <<connection, wires, attempts, shut_down, overlapped, closed_other,
                       stray_value, service, to_client>>
    BY <1>1, ServiceRest DEF ServiceTakes
  <1>3. PICK value : /\ value = to_service[1].value
                     /\ value \in [from : DOMAIN wires, time : 1..MaxTime]
    BY <1>1, <1>2 DEF WireTypes
  <1>4. /\ \A p \in Of("ConnectReq", to_service') :
             /\ p \in Nat /\ 1 < p + 1 /\ p + 1 \in Of("ConnectReq", to_service)
             /\ to_service'[p] = to_service[p + 1]
        /\ \A p \in Of("DisconnectReq", to_service') :
             p \in Nat /\ 1 < p + 1 /\ p + 1 \in Of("DisconnectReq", to_service)
        /\ \A p \in Of("Packet", to_service') :
             /\ p \in Nat /\ 1 < p + 1 /\ p + 1 \in Of("Packet", to_service)
             /\ to_service'[p] = to_service[p + 1]
        /\ \A p \in Of("Packet", to_service) : p \in Nat /\ 1 =< p /\
             (p # 1 => p - 1 \in Of("Packet", to_service') /\ to_service'[p - 1] = to_service[p])
    <2>1. \A type : \A p \in Of(type, to_service') :
             /\ p \in Nat /\ 1 =< p /\ p + 1 \in Of(type, to_service)
             /\ to_service'[p] = to_service[p + 1]
      BY <1>2, OfRest DEF Of
    <2>2. \A p \in Nat : 1 =< p => 1 < p + 1  OBVIOUS
    <2> QED BY <1>2, <2>1, <2>2, OfRest
  <1>5. sessions' = [s \in DOMAIN sessions |->
          IF s = service /\ Newer(value, sessions[s].inval)
          THEN [sessions[s] EXCEPT !.inval = value] ELSE sessions[s]]
    BY <1>2, <1>3 DEF ServiceTakes
  <1>6. value \in Value  BY <1>3, <1>s DEF Value
  <1>7. ASSUME NEW s \in DOMAIN sessions
        PROVE  /\ sessions'[s] \in SessionRecord /\ sessions'[s].outval = sessions[s].outval
               /\ \/ sessions'[s].inval = sessions[s].inval
                  \/ s = service /\ sessions'[s].inval = value
               /\ s = service /\ sessions[s].inval.time < value.time =>
                    sessions'[s].inval = value
    <2>1. sessions[s] \in SessionRecord /\ sessions[s].inval.time \in Nat /\ value.time \in Nat
      BY <1>6, <1>s DEF SessionRecord, Value
    <2> QED BY <1>5, <1>6, <2>1 DEF SessionRecord, Newer
  <1>8. /\ sessions' \in Seq(SessionRecord) /\ DOMAIN sessions' = DOMAIN sessions
        /\ Len(sessions') = Len(sessions)
    <2>1. sessions' \in [1..Len(sessions) -> SessionRecord]  BY <1>5, <1>7, <1>s
    <2> QED BY <1>5, <1>s, <2>1
  <1>9. TypeOK'
    <2>1. TypeOK  BY <1>1 DEF WireTypes
    <2>2. ASSUME NEW s \in DOMAIN sessions
          PROVE  /\ sessions'[s].inval \in Values(DOMAIN wires)
                 /\ sessions'[s].outval \in Values({s})
      BY <1>3, <1>7, <2>1 DEF TypeOK, Values
    <2> QED BY <1>2, <1>8, <2>1, <2>2 DEF TypeOK
  <1>10. WireTypes'
    BY <1>1, <1>2, <1>8, <1>9 DEF WireTypes, SessionRecord
  <1>11. ConnectsInOrder'  BY <1>2, <1>4 DEF ConnectsInOrder, WireInv, Pending
  <1>12. BehindReply' /\ Settled'  BY <1>2, <1>4 DEF BehindReply, Settled, WireInv
  <1>13. EndsAnnounced'  BY <1>2, <1>4 DEF EndsAnnounced, WireInv
  <1>14. ValuesInOrder'
    <2> SUFFICES ASSUME ~overlapped, ~stray_value PROVE ValuesInOrder'
      BY <1>2 DEF ValuesInOrder
    <2>1. Of("ConnectRet", to_client) = {}  BY <1>2 DEF ValuesInOrder, WireInv
    <2>2. \A p \in Of("ConnectReq", to_service'), q \in Of("Packet", to_service') : ~(p < q)
      BY <1>4 DEF ValuesInOrder, WireInv
    <2>3. ASSUME connection # 0, wires[connection].session = service
          PROVE  /\ \A p \in Of("Packet", to_service') :
                     /\ sessions'[service].inval.time < to_service'[p].value.time
                     /\ to_service'[p].value.time <= wires[connection].outval.time
                     /\ \A q \in Of("Packet", to_service') :
                         p < q => to_service'[p].value.time < to_service'[q].value.time
                     /\ \/ to_service'[p].value = wires[connection].outval
                        \/ \E q \in Of("Packet", to_service') : p < q
                 /\ Of("Packet", to_service') = {} =>
                     sessions'[service].inval = wires[connection].outval
      <3>1. \A p \in Of("Packet", to_service) :
                /\ sessions[service].inval.time < to_service[p].value.time
                /\ to_service[p].value.time <= wires[connection].outval.time
                /\ \A q \in Of("Packet", to_service) :
                    p < q => to_service[p].value.time < to_service[q].value.time
                /\ \/ to_service[p].value = wires[connection].outval
                   \/ \E q \in Of("Packet", to_service) : p < q
        BY <2>3 DEF ValuesInOrder, WireInv
      <3>2. wires[connection].session \in DOMAIN sessions
        BY <1>1, <1>s, <2>3 DEF WireTypes, TypeOK
      <3>3. sessions'[service].inval = value
        BY <1>2, <1>3, <1>7, <2>3, <3>1, <3>2
      <3>4. ASSUME NEW p \in Of("Packet", to_service')
            PROVE  /\ value.time < to_service'[p].value.time
                   /\ to_service'[p].value.time <= wires[connection].outval.time
                   /\ \A q \in Of("Packet", to_service') :
                       p < q => to_service'[p].value.time < to_service'[q].value.time
                   /\ \/ to_service'[p].value = wires[connection].outval
                      \/ \E q \in Of("Packet", to_service') : p < q
        <4>1. /\ p \in Nat /\ 1 < p + 1 /\ p + 1 \in Of("Packet", to_service)
              /\ to_service'[p] = to_service[p + 1]
          BY <1>4
        <4>2. value.time < to_service'[p].value.time  BY <1>2, <1>3, <3>1, <4>1
        <4>3. ASSUME NEW q \in Of("Packet", to_service'), p < q
              PROVE  to_service'[p].value.time < to_service'[q].value.time
          BY <1>4, <3>1, <4>1, <4>3
        <4>4. ASSUME NEW q \in Of("Packet", to_service), p + 1 < q
              PROVE  q - 1 \in Of("Packet", to_service') /\ p < q - 1
          BY <1>4, <4>1, <4>4
        <4>5. \/ to_service[p + 1].value = wires[connection].outval
              \/ \E q \in Of("Packet", to_service) : p + 1 < q
          BY <3>1, <4>1
        <4> QED BY <3>1, <4>1, <4>2, <4>3, <4>4, <4>5
      <3>5. Of("Packet", to_service') = {} => value = wires[connection].outval
        <4>1. ASSUME NEW q \in Of("Packet", to_service), 1 < q
              PROVE  q - 1 \in Of("Packet", to_service')
          BY <1>4, <4>1
        <4> QED BY <1>2, <1>3, <3>1, <4>1
      <3> QED BY <3>3, <3>4, <3>5
    <2> QED BY <1>2, <2>1, <2>2, <2>3 DEF ValuesInOrder
  <1>15. ValueOfOwnSession'  BY <1>2 DEF ValueOfOwnSession, WireInv
  <1> QED BY <1>10, <1>11, <1>12, <1>13, <1>14, <1>15 DEF WireInv

\* The last reply when a message of another type was sent to the client.
LEMMA LastMore ==
  ASSUME NEW q, NEW m, NEW t, IsMore(q, m, t), m.type # "ConnectRet", NEW p, LastRet(p, t)
  PROVE  LastRet(p, q) /\ t[p] = q[p] /\ p \in DOMAIN q /\ p < Len(q) + 1
  <1>1. Of("ConnectRet", t) = Of("ConnectRet", q)
        /\ \A r \in Of("ConnectRet", q) : t[r] = q[r]
    BY OfMore
  <1> QED BY <1>1 DEF LastRet, Of, IsMore

\* The service sends a value of its session.
LEMMA ServiceSendsKeeps ==
  ASSUME MaxTime \in Nat, WireInv, ServiceSends
  PROVE  WireInv'
  <1>1. WireTypes  BY DEF WireInv
  <1>s. /\ Len(sessions) \in Nat /\ DOMAIN sessions = 1..Len(sessions)
        /\ service \in Nat /\ (service # 0 => service \in DOMAIN sessions)
        /\ connection \in Nat /\ (connection # 0 => connection \in DOMAIN wires)
        /\ \A s \in DOMAIN sessions : s \in Nat \ {0} /\ sessions[s] \in SessionRecord
    BY <1>1, Shapes
  <1>u. UNCHANGED <<connection, wires, attempts, shut_down, service, to_service,
                    overlapped, closed_other, stray_value>>
    BY DEF ServiceSends
  <1>2. PICK t : t = sessions[service].outval.time + 1  OBVIOUS
  <1>3. PICK value : value = [from |-> service, time |-> t]  OBVIOUS
  <1>4. PICK m : m = [type |-> "Packet", value |-> value]  OBVIOUS
  <1>5. PICK w : w = [sessions[service] EXCEPT !.outval = value]  OBVIOUS
  <1>6. /\ service # 0 /\ t <= MaxTime /\ to_client' = Append(to_client, m)
        /\ sessions' = [sessions EXCEPT ![service] = w]
    BY <1>2, <1>3, <1>4, <1>5 DEF ServiceSends
  <1>7. /\ service \in DOMAIN sessions /\ sessions[service] \in SessionRecord
        /\ t \in 1..MaxTime
    <2>1. /\ service \in DOMAIN sessions /\ sessions[service] \in SessionRecord
          /\ sessions[service].outval.time \in Nat
      BY <1>6, <1>s DEF SessionRecord, Value
    <2> QED BY <1>2, <1>6, <2>1
  <1>8. /\ value \in Value /\ value.from = service /\ value \in [from : {service}, time : 1..MaxTime]
        /\ value \in [from : DOMAIN sessions, time : 1..MaxTime]
    BY <1>3, <1>7, <1>s DEF Value
  <1>9. w \in SessionRecord /\ w.inval = sessions[service].inval /\ w.outval = value
    BY <1>5, <1>7, <1>8 DEF SessionRecord
  <1>10. /\ sessions' \in Seq(SessionRecord) /\ DOMAIN sessions' = DOMAIN sessions
         /\ Len(sessions') = Len(sessions) /\ sessions'[service] = w
         /\ \A s \in DOMAIN sessions : s # service => sessions'[s] = sessions[s]
    <2>1. sessions \in Seq(SessionRecord)  BY <1>1 DEF WireTypes, SessionRecord
    <2> QED BY <1>6, <1>7, <1>9, <2>1, Replaced
  <1>11. m \in FromService /\ m.type = "Packet" /\ m.value = value
    BY <1>4, <1>8 DEF FromService
  <1>12. to_client' \in Seq(FromService) /\ IsMore(to_client, m, to_client')
    <2>1. to_client \in Seq(FromService)  BY <1>1 DEF WireTypes
    <2> QED BY <1>6, <1>11, <2>1, MoreOf
  <1>13. PICK n : n = Len(to_client) + 1  OBVIOUS
  <1>14. /\ Of("ConnectRet", to_client') = Of("ConnectRet", to_client)
         /\ Of("Closed", to_client') = Of("Closed", to_client)
         /\ to_client'[n] = m
         /\ \A p \in Of("Packet", to_client) : p < n /\ to_client'[p] = to_client[p]
         /\ \A p \in Of("Packet", to_client') : p \in Of("Packet", to_client) \/ p = n
         /\ \A p \in Of("ConnectRet", to_client) : to_client'[p] = to_client[p]
         /\ \A p \in DOMAIN to_client' :
              to_client'[p] = m \/ (p \in DOMAIN to_client /\ to_client'[p] = to_client[p])
    <2>1. /\ Of("ConnectRet", to_client') = Of("ConnectRet", to_client)
          /\ Of("Closed", to_client') = Of("Closed", to_client)
          /\ \A p \in Of("Packet", to_client) : p < n /\ to_client'[p] = to_client[p]
          /\ \A p \in Of("Packet", to_client') : p \in Of("Packet", to_client) \/ p = n
          /\ \A p \in Of("ConnectRet", to_client) : to_client'[p] = to_client[p]
      BY <1>11, <1>12, <1>13, OfMore
    <2>2. /\ to_client'[n] = m /\ \A p \in DOMAIN to_client : to_client'[p] = to_client[p]
          /\ \A p \in DOMAIN to_client' : p = n \/ p \in DOMAIN to_client
      BY <1>12, <1>13 DEF IsMore
    <2>3. ASSUME NEW p \in DOMAIN to_client'
          PROVE  to_client'[p] = m \/ (p \in DOMAIN to_client /\ to_client'[p] = to_client[p])
      <3>1. CASE p = n  BY <2>2, <3>1
      <3>2. CASE p \in DOMAIN to_client  BY <2>2, <3>2
      <3> QED BY <2>2, <3>1, <3>2
    <2> QED BY <2>1, <2>2, <2>3
  <1>15. TypeOK'
    <2>1. TypeOK  BY <1>1 DEF WireTypes
    <2>2. ASSUME NEW s \in DOMAIN sessions
          PROVE  /\ sessions'[s].inval \in Values(DOMAIN wires)
                 /\ sessions'[s].outval \in Values({s})
      <3>1. sessions[s].inval \in Values(DOMAIN wires) /\ sessions[s].outval \in Values({s})
        BY <2>1 DEF TypeOK
      <3>2. CASE s = service
        <4>1. value \in Values({service})  BY <1>8 DEF Values
        <4> QED BY <1>9, <1>10, <3>1, <3>2, <4>1
      <3> QED BY <1>10, <3>1, <3>2
    <2> QED BY <1>10, <1>u, <2>1, <2>2 DEF TypeOK
  <1>16. WireTypes'
    <2>1. \A p \in DOMAIN to_client' :
            /\ to_client'[p].type = "ConnectRet" =>
                to_client'[p].attempt \in DOMAIN attempts' /\ to_client'[p].session \in 0..Len(sessions')
            /\ to_client'[p].type = "Packet" =>
                to_client'[p].value \in [from : DOMAIN sessions', time : 1..MaxTime]
      BY <1>1, <1>8, <1>10, <1>11, <1>14, <1>u DEF WireTypes
    <2> QED BY <1>1, <1>10, <1>12, <1>15, <1>u, <2>1 DEF WireTypes, SessionRecord
  <1>17. ConnectsInOrder'
    BY <1>14, <1>u DEF ConnectsInOrder, WireInv, Pending
  <1>18. ASSUME NEW p, LastRet(p, to_client')
         PROVE  /\ LastRet(p, to_client) /\ to_client'[p] = to_client[p]
                /\ p \in DOMAIN to_client
    BY <1>11, <1>12, <1>18, LastMore
  <1>19. BehindReply'
    <2> SUFFICES ASSUME NEW p \in DOMAIN to_client', LastRet(p, to_client'),
                        to_client'[p].session # 0
                 PROVE  /\ service' \in {0, to_client'[p].session}
                        /\ \A q \in Of("Packet", to_client') :
                            p < q => to_client'[q].value.from = to_client'[p].session
      BY DEF BehindReply
    <2>1. /\ service \in {0, to_client[p].session} /\ to_client'[p] = to_client[p]
          /\ \A q \in Of("Packet", to_client) :
              p < q => to_client[q].value.from = to_client[p].session
      BY <1>18 DEF BehindReply, WireInv
    <2> QED BY <1>6, <1>8, <1>11, <1>14, <1>u, <2>1
  <1>20. Settled'
    BY <1>6, <1>8, <1>11, <1>14, <1>u DEF Settled, WireInv
  <1>21. EndsAnnounced'
    <2>1. ~overlapped /\ ~closed_other => RepliesEnd(to_client', service)
      BY <1>14, <1>18 DEF RepliesEnd, EndsAnnounced, WireInv
    <2> QED BY <1>14, <1>u, <2>1 DEF EndsAnnounced, WireInv, RepliesEnd
  <1>22. ValuesInOrder'
    <2>1. \A p \in Of("ConnectRet", to_client) :
            to_client[p].session # 0 => to_client[p].session \in DOMAIN sessions
      BY <1>1, <1>s DEF WireTypes, Of
    <2>2. \A s \in DOMAIN sessions : sessions'[s].inval = sessions[s].inval
      BY <1>9, <1>10
    <2>3. service \in DOMAIN sessions  BY <1>7
    <2> QED BY <1>14, <1>u, <2>1, <2>2, <2>3 DEF ValuesInOrder, WireInv
  <1>23. ValueOfOwnSession'  BY <1>u DEF ValueOfOwnSession, WireInv
  <1> QED BY <1>16, <1>17, <1>19, <1>20, <1>21, <1>22, <1>23 DEF WireInv

\* The service closes the session, and says so.
LEMMA ServiceClosesKeeps ==
  ASSUME MaxTime \in Nat, WireInv, ServiceCloses
  PROVE  WireInv'
  <1>1. WireTypes  BY DEF WireInv
  <1>u. /\ UNCHANGED <<connection, wires, attempts, shut_down, sessions, to_service,
                       overlapped, closed_other, stray_value>>
        /\ service' = 0
    BY DEF ServiceCloses
  <1>2. PICK m : m = [type |-> "Closed"] /\ to_client' = Append(to_client, m)
    BY DEF ServiceCloses
  <1>3. m \in FromService /\ m.type = "Closed"  BY <1>2 DEF FromService
  <1>4. to_client' \in Seq(FromService) /\ IsMore(to_client, m, to_client')
    <2>1. to_client \in Seq(FromService)  BY <1>1 DEF WireTypes
    <2> QED BY <1>2, <1>3, <2>1, MoreOf
  <1>5. PICK n : n = Len(to_client) + 1  OBVIOUS
  <1>6. /\ Of("ConnectRet", to_client') = Of("ConnectRet", to_client)
        /\ Of("Packet", to_client') = Of("Packet", to_client)
        /\ n \in Of("Closed", to_client')
        /\ \A p \in Of("Packet", to_client) : to_client'[p] = to_client[p]
        /\ \A p \in Of("ConnectRet", to_client) : p < n /\ to_client'[p] = to_client[p]
        /\ \A p \in DOMAIN to_client' :
             to_client'[p] = m \/ (p \in DOMAIN to_client /\ to_client'[p] = to_client[p])
    <2>1. /\ Of("ConnectRet", to_client') = Of("ConnectRet", to_client)
          /\ Of("Packet", to_client') = Of("Packet", to_client)
          /\ n \in Of("Closed", to_client')
          /\ \A p \in Of("Packet", to_client) : to_client'[p] = to_client[p]
          /\ \A p \in Of("ConnectRet", to_client) : p < n /\ to_client'[p] = to_client[p]
      BY <1>3, <1>4, <1>5, OfMore
    <2>2. /\ to_client'[n] = m /\ \A p \in DOMAIN to_client : to_client'[p] = to_client[p]
          /\ \A p \in DOMAIN to_client' : p = n \/ p \in DOMAIN to_client
      BY <1>4, <1>5 DEF IsMore
    <2>3. ASSUME NEW p \in DOMAIN to_client'
          PROVE  to_client'[p] = m \/ (p \in DOMAIN to_client /\ to_client'[p] = to_client[p])
      <3>1. CASE p = n  BY <2>2, <3>1
      <3>2. CASE p \in DOMAIN to_client  BY <2>2, <3>2
      <3> QED BY <2>2, <3>1, <3>2
    <2> QED BY <2>1, <2>2, <2>3
  <1>7. TypeOK'
    <2>1. TypeOK /\ 0 \in 0..Len(sessions)  BY <1>1, Shapes DEF WireTypes
    <2> QED BY <1>u, <2>1 DEF TypeOK
  <1>8. WireTypes'
    <2>1. \A p \in DOMAIN to_client' :
            /\ to_client'[p].type = "ConnectRet" =>
                to_client'[p].attempt \in DOMAIN attempts' /\ to_client'[p].session \in 0..Len(sessions')
            /\ to_client'[p].type = "Packet" =>
                to_client'[p].value \in [from : DOMAIN sessions', time : 1..MaxTime]
      BY <1>1, <1>3, <1>6, <1>u DEF WireTypes
    <2> QED BY <1>1, <1>4, <1>7, <1>u, <2>1 DEF WireTypes
  <1>9. ConnectsInOrder'  BY <1>6, <1>u DEF ConnectsInOrder, WireInv, Pending
  <1>10. ASSUME NEW p, LastRet(p, to_client')
         PROVE  /\ LastRet(p, to_client) /\ to_client'[p] = to_client[p]
                /\ p \in DOMAIN to_client /\ p < n
    BY <1>3, <1>4, <1>5, <1>10, LastMore
  <1>11. BehindReply'  BY <1>6, <1>10, <1>u DEF BehindReply, WireInv
  <1>12. Settled'  BY <1>6, <1>u DEF Settled, WireInv
  <1>13. EndsAnnounced'
    <2>1. RepliesEnd(to_client', 0)  BY <1>6, <1>10 DEF RepliesEnd
    <2> QED BY <1>6, <1>u, <2>1 DEF EndsAnnounced, WireInv, RepliesEnd
  <1>14. ValuesInOrder'
    <2>1. connection # 0 => wires[connection].session # 0
      BY <1>1, Shapes DEF WireTypes, TypeOK
    <2> QED BY <1>6, <1>u, <2>1 DEF ValuesInOrder, WireInv
  <1>15. ValueOfOwnSession'  BY <1>u DEF ValueOfOwnSession, WireInv
  <1> QED BY <1>8, <1>9, <1>11, <1>12, <1>13, <1>14, <1>15 DEF WireInv

-----------------------------------------------------------------------------
(* The properties.                                                         *)

\* Initially there are no connections and no messages.
LEMMA WireInitially == ASSUME Init PROVE WireInv
  <1>1. /\ connection = 0 /\ wires = <<>> /\ attempts = <<>> /\ shut_down = FALSE
        /\ service = 0 /\ sessions = <<>> /\ to_service = <<>> /\ to_client = <<>>
        /\ overlapped = FALSE /\ closed_other = FALSE /\ stray_value = FALSE
    BY DEF Init
  <1>2. DOMAIN <<>> = {} /\ Len(<<>>) = 0  OBVIOUS
  <1>3. \A S : <<>> \in Seq(S)  OBVIOUS
  <1>4. TypeOK
    <2>1. PICK S : S = {"pending", "answered", "timed out"}  OBVIOUS
    <2>2. attempts \in Seq(S) /\ connection \in 0..Len(wires) /\ service \in 0..Len(sessions)
      BY <1>1, <1>2, <1>3
    <2> QED BY <1>1, <1>2, <2>1, <2>2 DEF TypeOK
  <1>5. WireTypes  BY <1>1, <1>2, <1>3, <1>4 DEF WireTypes
  <1>6. \A type : Of(type, <<>>) = {}  BY <1>2 DEF Of
  <1>7. ConnectsInOrder  BY <1>1, <1>2, <1>6 DEF ConnectsInOrder, Pending
  <1>8. BehindReply /\ Settled  BY <1>1, <1>2 DEF BehindReply, Settled
  <1>9. EndsAnnounced /\ ValuesInOrder
    BY <1>1, <1>2, <1>6 DEF EndsAnnounced, ValuesInOrder
  <1>10. ValueOfOwnSession  BY <1>1, <1>2 DEF ValueOfOwnSession
  <1> QED BY <1>5, <1>7, <1>8, <1>9, <1>10 DEF WireInv

\* Every state keeps the strengthening: connects are answered in order, a session's end
\* is announced, and values get newer, for the member and the service together.
THEOREM Invariant == MaxTime \in Nat => (Spec => []WireInv)
  <1> SUFFICES ASSUME MaxTime \in Nat PROVE Spec => []WireInv  OBVIOUS
  <1>1. Init => WireInv  BY WireInitially
  <1>2. ASSUME WireInv, [Next]_vars PROVE WireInv'
    <2>1. CASE AsyncConnect  BY <1>2, <2>1, AsyncConnectKeeps
    <2>2. CASE AsyncClose  BY <1>2, <2>2, AsyncCloseKeeps
    <2>3. CASE SetOutValue  BY <1>2, <2>3, SetOutValueKeeps
    <2>4. CASE ReceiveConnectRet  BY <1>2, <2>4, ReceiveConnectRetKeeps
    <2>5. CASE ConnectTimeout  BY <1>2, <2>5, ConnectTimeoutKeeps
    <2>6. CASE ReceivePacket  BY <1>2, <2>6, ReceivePacketKeeps
    <2>7. CASE ReceiveWireClosed  BY <1>2, <2>7, ReceiveWireClosedKeeps
    <2>8. CASE ServiceConnects  BY <1>2, <2>8, ServiceConnectsKeeps
    <2>9. CASE ServiceDisconnects  BY <1>2, <2>9, ServiceDisconnectsKeeps
    <2>10. CASE ServiceTakes  BY <1>2, <2>10, ServiceTakesKeeps
    <2>11. CASE ServiceSends  BY <1>2, <2>11, ServiceSendsKeeps
    <2>12. CASE ServiceCloses  BY <1>2, <2>12, ServiceClosesKeeps
    <2>13. CASE Shutdown  BY <1>2, <2>13, ShutdownKeeps
    <2>14. CASE UNCHANGED vars  BY <1>2, <2>14, StutterKeeps
    <2> QED BY <1>2, <2>1, <2>2, <2>3, <2>4, <2>5, <2>6, <2>7, <2>8, <2>9, <2>10, <2>11,
               <2>12, <2>13, <2>14 DEF Next, MemberNext
  <1> QED BY <1>1, <1>2, PTL DEF Spec

\* The properties follow from the strengthening.
LEMMA WireInvImplies ==
  ASSUME WireInv
  PROVE  TypeOK /\ ValueOfOwnSession /\ NoDeadConnection /\ LastValueReached
  <1>1. TypeOK /\ ValueOfOwnSession  BY DEF WireInv, WireTypes
  <1>2. NoDeadConnection
    <2> SUFFICES ASSUME NothingPending, connection # 0, ~overlapped, ~closed_other, ~shut_down
                 PROVE  service = wires[connection].session
      BY DEF NoDeadConnection
    <2>1. Of("Closed", to_client) = {}  BY DEF NothingPending, Of
    <2> QED BY <2>1 DEF WireInv, EndsAnnounced
  <1>3. LastValueReached
    <2> SUFFICES ASSUME connection # 0, wires[connection].session = service,
                        ~stray_value, ~overlapped,
                        \A k \in DOMAIN to_service : to_service[k].type # "Packet"
                 PROVE  sessions[service].inval = wires[connection].outval
      BY DEF LastValueReached
    <2>1. Of("Packet", to_service) = {}  BY DEF Of
    <2> QED BY <2>1 DEF WireInv, ValuesInOrder
  <1> QED BY <1>1, <1>2, <1>3
=============================================================================
