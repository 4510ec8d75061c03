-------------------------- MODULE PipeStream_proofs --------------------------
(***************************************************************************)
(* Proofs about PipeStream for every NumMod and MaxPackets.                *)
(***************************************************************************)
EXTENDS PipeStream, SequenceTheorems, TLAPS

-----------------------------------------------------------------------------
(* Packet numbers.                                                         *)

\* Division by N leaves one quotient and one remainder.
LEMMA QuotientUnique ==
  ASSUME NEW N \in Nat, NEW p \in Int, NEW q \in Int,
         NEW r \in 0..(N - 1), NEW s \in 0..(N - 1),
         N * p + r = N * q + s
  PROVE  p = q /\ r = s
  <1>1. ASSUME NEW a \in Int, NEW b \in Int, a < b
        PROVE  N * b >= N * a + N
    <2>1. PICK d \in Nat : b = a + 1 + d
      <3>1. b - a - 1 \in Nat /\ b = a + 1 + (b - a - 1)  BY <1>1
      <3> QED BY <3>1
    <2>2. N * b = N * a + N + N * d  BY <2>1
    <2>3. N * d \in Nat  BY <2>1
    <2> QED BY <2>2, <2>3
  <1>2. CASE p < q  BY <1>1, <1>2
  <1>3. CASE q < p  BY <1>1, <1>3
  <1>4. CASE p = q  BY <1>4
  <1> QED BY <1>2, <1>3, <1>4

\* Integer division writes i as a multiple of NumMod and a remainder.
LEMMA DivMod ==
  ASSUME NEW i \in Nat
  PROVE  /\ i \div NumMod \in Int
         /\ i % NumMod \in 0..(NumMod - 1)
         /\ i = NumMod * (i \div NumMod) + (i % NumMod)
  BY NumModAssumption

\* The remainder is known from any way of writing i.
LEMMA ModIs ==
  ASSUME NEW i \in Nat, NEW q \in Int, NEW r \in 0..(NumMod - 1),
         i = NumMod * q + r
  PROVE  i % NumMod = r
  BY DivMod, QuotientUnique, NumModAssumption

\* A remainder is a packet number.
LEMMA ModRange == ASSUME NEW i \in Nat PROVE i % NumMod \in PacketNumbers
  BY DivMod DEF PacketNumbers

\* Numbers of packets less than NumMod apart differ.
LEMMA ModDistinct ==
  ASSUME NEW i \in Nat, NEW j \in Nat, i < j, j - i < NumMod
  PROVE  i % NumMod # j % NumMod
  <1> DEFINE p == i \div NumMod
             q == j \div NumMod
             r == i % NumMod
  <1>1. SUFFICES ASSUME r = j % NumMod PROVE FALSE  OBVIOUS
  <1>2. /\ p \in Int /\ q \in Int /\ r \in 0..(NumMod - 1)
        /\ i = NumMod * p + r
        /\ j = NumMod * q + r
    BY DivMod, <1>1
  <1> HIDE DEF p, q, r
  <1>3. PICK d \in Nat : d = j - i /\ d \in 0..(NumMod - 1) /\ d # 0  BY NumModAssumption
  <1>4. NumMod * (q - p) + 0 = NumMod * 0 + d  BY <1>2, <1>3, NumModAssumption
  <1>5. 0 \in 0..(NumMod - 1) /\ q - p \in Int  BY <1>2, NumModAssumption
  <1> QED BY <1>3, <1>4, <1>5, QuotientUnique, NumModAssumption

\* The number after that of packet i is that of packet i + 1.
LEMMA IncrementMod ==
  ASSUME NEW i \in Nat
  PROVE  Increment(i % NumMod) = (i + 1) % NumMod
  <1> DEFINE q == i \div NumMod
             r == i % NumMod
  <1>1. q \in Int /\ r \in 0..(NumMod - 1) /\ i = NumMod * q + r  BY DivMod
  <1> HIDE DEF q
  <1>2. CASE r < NumMod - 1
    <2>1. r + 1 \in 0..(NumMod - 1) /\ i + 1 = NumMod * q + (r + 1)
      BY <1>1, <1>2, NumModAssumption
    <2> QED BY <2>1, <1>1, <1>2, ModIs DEF Increment
  <1>3. CASE r = NumMod - 1
    <2>1. i + 1 = NumMod * (q + 1) + 0 /\ 0 \in 0..(NumMod - 1) /\ q + 1 \in Int
      BY <1>1, <1>3, NumModAssumption
    <2> QED BY <2>1, <1>1, <1>3, ModIs DEF Increment
  <1> QED BY <1>1, <1>2, <1>3, NumModAssumption

\* The k-th number after that of packet i is that of packet i + k.
LEMMA AfterMod ==
  ASSUME NEW i \in Nat, NEW k \in Nat
  PROVE  After(i % NumMod, k) = (i + k) % NumMod
  <1> DEFINE q == i \div NumMod
             r == i % NumMod
             n == r + k
             p == n \div NumMod
             s == n % NumMod
  <1>1. q \in Int /\ r \in 0..(NumMod - 1) /\ i = NumMod * q + r  BY DivMod
  <1>2. n \in Nat  BY <1>1, NumModAssumption
  <1>3. p \in Int /\ s \in 0..(NumMod - 1) /\ n = NumMod * p + s  BY <1>2, DivMod
  <1>4. i + k = NumMod * (q + p) + s
    <2> HIDE DEF q, p, s, r
    <2> QED BY <1>1, <1>3, NumModAssumption
  <1>5. q + p \in Int /\ i + k \in Nat  BY <1>1, <1>3
  <1>6. (i + k) % NumMod = s  BY <1>3, <1>4, <1>5, ModIs
  <1> QED BY <1>6 DEF After

-----------------------------------------------------------------------------
(* The receive side on a reliable pipe.                                    *)

\* Queued counts packets, and the window keeps numbers apart.
LEMMA QueuedNat == ASSUME TypeOK PROVE Queued \in Nat
  BY DEF TypeOK, IsReceiver, Queued

\* The packet whose number is next is the next packet.
LEMMA NextNumberIsNextPacket ==
  ASSUME IInv, ~unreliable, NEW m \in path
  PROVE  /\ m[2] \in (Queued + 1)..requested
         /\ m[1] = m[2] % NumMod
         /\ m[1] = Increment(receiver.recv_packet_number) <=> m[2] = Queued + 1
  <1>1. Queued \in Nat /\ requested \in Nat  BY QueuedNat DEF IInv, TypeOK
  <1>2. m[2] \in (Queued + 1)..requested /\ m[1] = m[2] % NumMod
    BY <1>1 DEF IInv, Reliable, NumbersFollowRequests, Ahead
  <1>3. Increment(receiver.recv_packet_number) = (Queued + 1) % NumMod
    BY <1>1, IncrementMod DEF IInv, Reliable, QueueInOrder
  <1>4. m[2] - (Queued + 1) < NumMod
    BY <1>1, <1>2, NumModAssumption DEF IInv, Reliable, Window
  <1>5. CASE m[2] = Queued + 1  BY <1>2, <1>3, <1>5
  <1>6. CASE m[2] # Queued + 1
    <2>1. Queued + 1 < m[2] /\ m[2] \in Nat /\ Queued + 1 \in Nat  BY <1>1, <1>2, <1>6
    <2>2. (Queued + 1) % NumMod # m[2] % NumMod  BY <2>1, <1>4, ModDistinct
    <2> QED BY <2>2, <1>2, <1>3, <1>6
  <1> QED BY <1>2, <1>5, <1>6

\* A buffered number within the window names the packet of that place.
LEMMA BufferedNumberIsItsPacket ==
  ASSUME IInv, ~unreliable, NEW i \in Nat, i >= Queued + 2, i <= Queued + NumMod,
         i % NumMod \in DOMAIN receiver.out_of_order_packets
  PROVE  receiver.out_of_order_packets[i % NumMod] = i /\ i <= requested
  <1> DEFINE b == receiver.out_of_order_packets[i % NumMod]
  <1>1. Queued \in Nat /\ requested \in Nat  BY QueuedNat DEF IInv, TypeOK
  <1>2. b \in (Queued + 2)..requested /\ i % NumMod = b % NumMod
    BY DEF IInv, Reliable, Ahead
  <1>3. b \in Nat /\ b <= Queued + NumMod - 1
    BY <1>1, <1>2, NumModAssumption DEF IInv, Reliable, Window
  <1> HIDE DEF b
  <1>4. ~(b < i)
    <2>1. b < i => i - b < NumMod  BY <1>1, <1>2, <1>3, NumModAssumption
    <2> QED BY <1>2, <1>3, <2>1, ModDistinct
  <1>5. ~(i < b)
    <2>1. i < b => b - i < NumMod  BY <1>1, <1>3, NumModAssumption
    <2> QED BY <1>2, <1>3, <2>1, ModDistinct
  <1>6. b = i  BY <1>3, <1>4, <1>5
  <1> QED BY <1>1, <1>2, <1>6 DEF b

\* The drain takes the packets that follow the one that arrived, no others.
LEMMA DrainTakesTheRun ==
  ASSUME IInv, ~unreliable, NEW m \in path,
         m[1] = Increment(receiver.recv_packet_number),
         NEW k \in DrainLengths(m[1], receiver.out_of_order_packets)
  PROVE  /\ k \in Nat
         /\ Queued + 1 + k <= requested
         /\ After(m[1], k) = (Queued + 1 + k) % NumMod
         /\ \A j \in 1..k : /\ After(m[1], j) = (Queued + 1 + j) % NumMod
                            /\ After(m[1], j) \in DOMAIN receiver.out_of_order_packets
                            /\ receiver.out_of_order_packets[After(m[1], j)] = Queued + 1 + j
         /\ ~InBuffer(Queued + 2 + k)
  <1> DEFINE buffer == receiver.out_of_order_packets
             q == Queued
  <1>1. q \in Nat /\ requested \in Nat  BY QueuedNat DEF IInv, TypeOK
  <1>2. m[2] = q + 1 /\ m[1] = (q + 1) % NumMod /\ q + 1 <= requested
    BY NextNumberIsNextPacket
  <1>3. k \in 0..(NumMod - 1)  BY DEF DrainLengths, PacketNumbers
  <1>4. \A j \in 0..NumMod : After(m[1], j) = (q + 1 + j) % NumMod
    <2> TAKE j \in 0..NumMod
    <2>1. q + 1 \in Nat /\ j \in Nat  BY <1>1, NumModAssumption
    <2> HIDE DEF q
    <2> QED BY <1>2, <2>1, AfterMod
  <1>5. \A j \in 1..k : /\ After(m[1], j) = (q + 1 + j) % NumMod
                        /\ After(m[1], j) \in DOMAIN buffer
                        /\ buffer[After(m[1], j)] = q + 1 + j
                        /\ q + 1 + j <= requested
    <2> TAKE j \in 1..k
    <2>1. j \in 0..NumMod /\ j <= NumMod - 1 /\ j >= 1  BY <1>3, NumModAssumption
    <2>2. After(m[1], j) = (q + 1 + j) % NumMod  BY <1>4, <2>1
    <2>3. After(m[1], j) \in DOMAIN buffer  BY DEF DrainLengths
    <2>4. /\ q + 1 + j \in Nat
          /\ q + 1 + j >= q + 2
          /\ q + 1 + j <= q + NumMod
      BY <1>1, <2>1, NumModAssumption
    <2> QED BY <2>2, <2>3, <2>4, BufferedNumberIsItsPacket
  <1>6. q + 1 + k <= requested
    <2>1. CASE k = 0  BY <1>1, <1>2, <2>1
    <2>2. CASE k # 0
      <3>1. k \in 1..k  BY <1>3, <2>2, NumModAssumption
      <3> QED BY <1>5, <3>1
    <2> QED BY <2>1, <2>2
  <1>7. ~InBuffer(q + 2 + k)
    <2>1. SUFFICES ASSUME NEW n \in DOMAIN buffer, buffer[n] = q + 2 + k PROVE FALSE
      BY DEF InBuffer
    <2>2. n = (q + 2 + k) % NumMod  BY <2>1 DEF IInv, Reliable, Ahead
    <2>3. k + 1 \in 0..NumMod /\ q + 1 + (k + 1) = q + 2 + k
      BY <1>1, <1>3, NumModAssumption
    <2>4. After(m[1], k + 1) = n  BY <1>4, <2>2, <2>3
    <2> QED BY <2>4 DEF DrainLengths
  <1>8. k \in Nat /\ After(m[1], k) = (q + 1 + k) % NumMod
    BY <1>3, <1>4, NumModAssumption
  <1> QED BY <1>5, <1>6, <1>7, <1>8

-----------------------------------------------------------------------------
(* Types.                                                                  *)

\* The next packet number is a packet number (increment_packet_number).
LEMMA IncrementType == ASSUME NEW n \in PacketNumbers PROVE Increment(n) \in PacketNumbers
  BY NumModAssumption DEF Increment, PacketNumbers

\* So is the k-th after it.
LEMMA AfterType == ASSUME NEW n \in PacketNumbers, NEW k \in Nat PROVE After(n, k) \in PacketNumbers
  <1>1. n + k \in Nat  BY NumModAssumption DEF PacketNumbers
  <1> QED BY <1>1, ModRange DEF After

\* The length and the elements of a concatenation.
LEMMA Concatenation ==
  ASSUME NEW s \in Seq(Nat), NEW t \in Seq(Nat)
  PROVE  /\ s \o t \in Seq(Nat) /\ Len(s \o t) = Len(s) + Len(t)
         /\ \A j \in 1..Len(s) : (s \o t)[j] = s[j]
         /\ \A j \in 1..Len(t) : (s \o t)[Len(s) + j] = t[j]
  <1>1. Len(s) \in Nat /\ Len(t) \in Nat  OBVIOUS
  <1>2. \A i \in 1..Len(s) + Len(t) :
           (s \o t)[i] = IF i <= Len(s) THEN s[i] ELSE t[i - Len(s)]
    BY ConcatProperties
  <1>3. \A j \in 1..Len(t) : Len(s) + j \in 1..Len(s) + Len(t) /\ ~(Len(s) + j <= Len(s))
                             /\ (Len(s) + j) - Len(s) = j
    BY <1>1
  <1>4. \A j \in 1..Len(s) : j \in 1..Len(s) + Len(t) /\ j <= Len(s)  BY <1>1
  <1>5. s \o t \in Seq(Nat) /\ Len(s \o t) = Len(s) + Len(t)  BY ConcatProperties
  <1> QED BY <1>2, <1>3, <1>4, <1>5

\* What the queue and the buffer hold after the packet whose turn it was.
LEMMA AcceptedQueue ==
  ASSUME NEW r, IsReceiver(r), NEW packet \in Nat,
         NEW k \in DrainLengths(Increment(r.recv_packet_number), r.out_of_order_packets)
  PROVE  /\ IsReceiver(Accepted(r, packet, k))
         /\ Len(Accepted(r, packet, k).recv_packets) = Len(r.recv_packets) + 1 + k
         /\ \A j \in 1..Len(r.recv_packets) :
               Accepted(r, packet, k).recv_packets[j] = r.recv_packets[j]
         /\ Accepted(r, packet, k).recv_packets[Len(r.recv_packets) + 1] = packet
         /\ \A j \in 1..k :
               Accepted(r, packet, k).recv_packets[Len(r.recv_packets) + 1 + j]
                 = r.out_of_order_packets[After(Increment(r.recv_packet_number), j)]
  <1> DEFINE a == Accepted(r, packet, k)
             n == Increment(r.recv_packet_number)
             b == r.out_of_order_packets
             q == Append(r.recv_packets, packet)
             d == [j \in 1..k |-> b[After(n, j)]]
             D == DOMAIN b \ {After(n, j) : j \in 1..k}
  <1>1. k \in Nat /\ n \in PacketNumbers
    BY IncrementType, NumModAssumption DEF DrainLengths, PacketNumbers, IsReceiver
  <1>2. b \in [DOMAIN b -> Nat] /\ DOMAIN b \subseteq PacketNumbers  BY DEF IsReceiver
  <1>3. d \in Seq(Nat) /\ Len(d) = k /\ \A j \in 1..k : d[j] = b[After(n, j)]
    <2>1. \A j \in 1..k : b[After(n, j)] \in Nat  BY <1>2 DEF DrainLengths
    <2> HIDE DEF b, n
    <2> QED BY <2>1, <1>1
  <1>4. r.recv_packets \in Seq(Nat)  BY DEF IsReceiver
  <1>5. /\ q \in Seq(Nat) /\ Len(q) = Len(r.recv_packets) + 1
        /\ \A j \in 1..Len(r.recv_packets) : q[j] = r.recv_packets[j]
        /\ q[Len(r.recv_packets) + 1] = packet
    BY <1>4
  <1>6. a = [recv_packet_number   |-> After(n, k),
             recv_packets         |-> q \o d,
             out_of_order_packets |-> [m \in D |-> b[m]]]
    BY DEF Accepted
  <1> HIDE DEF a, d, q
  <1>7. /\ q \o d \in Seq(Nat) /\ Len(q \o d) = Len(q) + Len(d)
        /\ \A j \in 1..Len(q) : (q \o d)[j] = q[j]
        /\ \A j \in 1..Len(d) : (q \o d)[Len(q) + j] = d[j]
    BY <1>3, <1>5, Concatenation
  <1>8. IsReceiver(a)
    <2>1. After(n, k) \in PacketNumbers  BY <1>1, AfterType
    <2>2. D \subseteq PacketNumbers /\ [m \in D |-> b[m]] \in [D -> Nat]  BY <1>2
    <2> HIDE DEF b, n, D
    <2> QED BY <1>6, <1>7, <2>1, <2>2 DEF IsReceiver
  <1>9. a.recv_packets = q \o d  BY <1>6
  <1>10. Len(r.recv_packets) \in Nat  BY <1>4
  <1>11. \A j \in 1..Len(r.recv_packets) + 1 : j \in 1..Len(q)  BY <1>5, <1>10
  <1>12. Len(r.recv_packets) + 1 \in 1..Len(q)  BY <1>5, <1>10
  <1> HIDE DEF b, n
  <1>13. \A j \in 1..k : a.recv_packets[Len(r.recv_packets) + 1 + j] = b[After(n, j)]
    BY <1>3, <1>5, <1>7, <1>9
  <1>14. \A j \in 1..Len(r.recv_packets) : a.recv_packets[j] = r.recv_packets[j]
    BY <1>5, <1>7, <1>9, <1>10, <1>11
  <1>15. a.recv_packets[Len(r.recv_packets) + 1] = packet
    BY <1>5, <1>7, <1>9, <1>12
  <1>16. Len(a.recv_packets) = Len(r.recv_packets) + 1 + k
    BY <1>1, <1>3, <1>5, <1>7, <1>9, <1>10
  <1> QED BY <1>8, <1>13, <1>14, <1>15, <1>16 DEF a, b, n

\* Buffering a packet keeps the type of the receive state.
LEMMA BufferedType ==
  ASSUME NEW r, IsReceiver(r), NEW packetnum \in PacketNumbers, NEW packet \in Nat
  PROVE  IsReceiver(Buffered(r, packetnum, packet))
  <1> DEFINE b == r.out_of_order_packets
             D == DOMAIN b \cup {packetnum}
             c == [m \in D |-> IF m \in DOMAIN b THEN b[m] ELSE packet]
  <1>1. b \in [DOMAIN b -> Nat] /\ DOMAIN b \subseteq PacketNumbers  BY DEF IsReceiver
  <1>2. D \subseteq PacketNumbers /\ c \in [D -> Nat]  BY <1>1
  <1>3. Buffered(r, packetnum, packet) =
          [recv_packet_number   |-> r.recv_packet_number,
           recv_packets         |-> r.recv_packets,
           out_of_order_packets |-> c]
    BY DEF Buffered, IsReceiver
  <1> HIDE DEF b, c, D
  <1> QED BY <1>2, <1>3 DEF IsReceiver

\* So does a packet that arrives, in its turn or ahead of it.
LEMMA PacketReceivedType ==
  ASSUME NEW r, IsReceiver(r), NEW packetnum \in PacketNumbers, NEW packet \in Nat,
         NEW s \in PacketReceived(r, packetnum, packet)
  PROVE  IsReceiver(s)
  <1>1. CASE packetnum = Increment(r.recv_packet_number)
    <2>1. PICK k \in DrainLengths(packetnum, r.out_of_order_packets) : s = Accepted(r, packet, k)
      BY <1>1 DEF PacketReceived
    <2> QED BY <1>1, <2>1, AcceptedQueue
  <1>2. CASE packetnum # Increment(r.recv_packet_number)
    BY <1>2, BufferedType DEF PacketReceived
  <1> QED BY <1>1, <1>2

\* Every step keeps the types.
LEMMA TypeStep == TypeOK /\ [Next]_vars => TypeOK'
  <1> SUFFICES ASSUME TypeOK, [Next]_vars PROVE TypeOK'  OBVIOUS
  <1>1. CASE AsyncSendPacket
    BY <1>1, IncrementType DEF AsyncSendPacket, NextSendNumber, TypeOK
  <1>2. CASE AsyncSendPacketThrows
    BY <1>2, IncrementType DEF AsyncSendPacketThrows, NextSendNumber, TypeOK
  <1>3. CASE Receive
    <2>1. PICK m \in path : Receive!(m)  BY <1>3 DEF Receive
    <2>2. m[1] \in PacketNumbers /\ m[2] \in Nat /\ IsReceiver(receiver)  BY DEF TypeOK
    <2>3. IsReceiver(receiver')
      <3>1. CASE UNCHANGED receiver  BY <2>2, <3>1
      <3>2. CASE receiver' = [receiver EXCEPT !.recv_packets = Append(@, m[2])]
        <4>1. Append(receiver.recv_packets, m[2]) \in Seq(Nat)  BY <2>2 DEF IsReceiver
        <4> QED BY <2>2, <3>2, <4>1 DEF IsReceiver
      <3>3. CASE receiver' \in PacketReceived(receiver, m[1], m[2])
        BY <2>2, <3>3, PacketReceivedType
      <3> QED BY <2>1, <3>1, <3>2, <3>3
    <2> QED BY <2>1, <2>3 DEF TypeOK
  <1>4. CASE UnpackThrows  BY <1>4 DEF UnpackThrows, TypeOK
  <1>5. CASE Drop  BY <1>5 DEF Drop, TypeOK
  <1>6. CASE ReceivePacket
    <2>1. receiver.recv_packets \in Seq(Nat) /\ receiver.recv_packets # <<>>
      BY <1>6 DEF ReceivePacket, TypeOK, IsReceiver
    <2>2. Head(receiver.recv_packets) \in Nat /\ Tail(receiver.recv_packets) \in Seq(Nat)
      BY <2>1, HeadTailProperties
    <2>3. taken' \in Seq(Nat)  BY <1>6, <2>2 DEF ReceivePacket, TypeOK
    <2>4. IsReceiver(receiver')  BY <1>6, <2>2 DEF ReceivePacket, TypeOK, IsReceiver
    <2> QED BY <1>6, <2>3, <2>4 DEF ReceivePacket, TypeOK
  <1>7. CASE SetIgnoreReceived  BY <1>7 DEF SetIgnoreReceived, TypeOK
  <1>8. CASE UNCHANGED vars  BY <1>8 DEF vars, TypeOK
  <1> QED BY <1>1, <1>2, <1>3, <1>4, <1>5, <1>6, <1>7, <1>8 DEF Next

\* Every step keeps the numbers in the order of the requests.
LEMMA NumbersStep ==
  TypeOK /\ NumbersFollowRequests /\ [Next]_vars => NumbersFollowRequests'
  <1> SUFFICES ASSUME TypeOK, NumbersFollowRequests, [Next]_vars
               PROVE  NumbersFollowRequests'
    OBVIOUS
  <1>1. ASSUME NextSendNumber, requested' = requested + 1
        PROVE  send_packet_number' = requested' % NumMod
    BY <1>1, IncrementMod DEF NextSendNumber, NumbersFollowRequests, TypeOK
  <1>2. requested \in Nat  BY DEF TypeOK
  <1>3. CASE AsyncSendPacket
    <2>1. send_packet_number' = requested' % NumMod  BY <1>1, <1>3 DEF AsyncSendPacket
    <2>2. requested' = requested + 1 /\ path' = path \cup {<<send_packet_number', requested'>>}
      BY <1>3 DEF AsyncSendPacket
    <2> QED BY <1>2, <2>1, <2>2 DEF NumbersFollowRequests
  <1>4. CASE AsyncSendPacketThrows
    <2>1. send_packet_number' = requested' % NumMod  BY <1>1, <1>4 DEF AsyncSendPacketThrows
    <2>2. requested' = requested + 1 /\ path' = path  BY <1>4 DEF AsyncSendPacketThrows
    <2> QED BY <1>2, <2>1, <2>2 DEF NumbersFollowRequests
  <1>5. ASSUME path' \subseteq path, UNCHANGED <<send_packet_number, requested>>
        PROVE  NumbersFollowRequests'
    BY <1>5 DEF NumbersFollowRequests
  <1> QED BY <1>3, <1>4, <1>5
          DEF Next, vars, Receive, UnpackThrows, Drop, ReceivePacket, SetIgnoreReceived

-----------------------------------------------------------------------------
(* The reliable part of the invariant, step by step.                       *)

\* The packet whose turn it is: it and the run after it join the queue.
LEMMA AcceptStep ==
  ASSUME IInv, ~unreliable, NEW m \in path, path' = path \ {m},
         UNCHANGED <<unreliable, requested, taken, lost>>,
         m[1] = Increment(receiver.recv_packet_number),
         NEW k \in DrainLengths(m[1], receiver.out_of_order_packets),
         receiver' = Accepted(receiver, m[2], k)
  PROVE  Reliable'
  <1> DEFINE q == Queued
             b == receiver.out_of_order_packets
             L == Len(taken)
             R == Len(receiver.recv_packets)
  <1>1. /\ q \in Nat /\ requested \in Nat /\ L \in Nat /\ R \in Nat /\ q = L + R
        /\ IsReceiver(receiver) /\ m[2] = q + 1 /\ m[2] \in Nat
    <2>1. TypeOK  BY DEF IInv
    <2>2. IsReceiver(receiver) /\ requested \in Nat  BY <2>1 DEF TypeOK
    <2>3. taken \in Seq(Nat) /\ receiver.recv_packets \in Seq(Nat)
      BY <2>1, <2>2 DEF TypeOK, IsReceiver
    <2>4. L \in Nat /\ R \in Nat  BY <2>3
    <2>5. q = L + R  BY DEF Queued
    <2>6. q \in Nat  BY <2>4, <2>5
    <2>7. m[2] \in (q + 1)..requested /\ m[2] = q + 1  BY NextNumberIsNextPacket
    <2>8. m[2] \in Nat  BY <2>6, <2>7
    <2> QED BY <2>2, <2>4, <2>5, <2>6, <2>7, <2>8
  <1>2. /\ k \in Nat
        /\ q + 1 + k <= requested
        /\ After(m[1], k) = (q + 1 + k) % NumMod
        /\ \A j \in 1..k : /\ After(m[1], j) = (q + 1 + j) % NumMod
                           /\ After(m[1], j) \in DOMAIN b
                           /\ b[After(m[1], j)] = q + 1 + j
        /\ ~InBuffer(q + 2 + k)
    BY DrainTakesTheRun
  <1>3. /\ Len(receiver'.recv_packets) = R + 1 + k
        /\ \A j \in 1..R : receiver'.recv_packets[j] = receiver.recv_packets[j]
        /\ receiver'.recv_packets[R + 1] = m[2]
        /\ \A j \in 1..k : receiver'.recv_packets[R + 1 + j] = b[After(m[1], j)]
    <2>1. k \in DrainLengths(Increment(receiver.recv_packet_number),
                             receiver.out_of_order_packets)
      OBVIOUS
    <2>3. IsReceiver(receiver) /\ m[2] \in Nat  BY <1>1
    <2>4. receiver' = Accepted(receiver, m[2], k) /\ m[1] = Increment(receiver.recv_packet_number)
      OBVIOUS
    <2>5. /\ Len(Accepted(receiver, m[2], k).recv_packets) = Len(receiver.recv_packets) + 1 + k
          /\ \A j \in 1..Len(receiver.recv_packets) :
                Accepted(receiver, m[2], k).recv_packets[j] = receiver.recv_packets[j]
          /\ Accepted(receiver, m[2], k).recv_packets[Len(receiver.recv_packets) + 1] = m[2]
          /\ \A j \in 1..k :
                Accepted(receiver, m[2], k).recv_packets[Len(receiver.recv_packets) + 1 + j]
                  = receiver.out_of_order_packets[After(Increment(receiver.recv_packet_number), j)]
      BY ONLY <2>1, <2>3, AcceptedQueue, SMTT(20)
    <2> QED BY ONLY <2>4, <2>5 DEF b, R
  <1>4. /\ receiver'.recv_packet_number = After(m[1], k)
        /\ DOMAIN receiver'.out_of_order_packets = DOMAIN b \ {After(m[1], j) : j \in 1..k}
        /\ \A n \in DOMAIN receiver'.out_of_order_packets : receiver'.out_of_order_packets[n] = b[n]
    BY DEF Accepted
  <1>5. Queued' = q + 1 + k
    <2>1. Queued' = L + Len(receiver'.recv_packets)  BY DEF Queued
    <2> HIDE DEF q, L, R, b
    <2> QED BY <1>1, <1>2, <1>3, <2>1
  <1>0. /\ q = Queued /\ b = receiver.out_of_order_packets
        /\ L = Len(taken) /\ R = Len(receiver.recv_packets)
    OBVIOUS
  <1> HIDE DEF q, b, L, R
  <1>6. QueueInOrder'
    <2>1. \A j \in 1..R + 1 + k : receiver'.recv_packets[j] = L + j
      <3> TAKE j \in 1..R + 1 + k
      <3>1. CASE j \in 1..R  BY <1>0, <1>3, <3>1 DEF IInv, Reliable, QueueInOrder
      <3>2. CASE j = R + 1  BY <1>1, <1>3, <3>2
      <3>3. CASE j > R + 1
        <4>1. j - R - 1 \in 1..k /\ R + 1 + (j - R - 1) = j  BY <1>1, <1>2, <3>3
        <4>2. receiver'.recv_packets[j] = q + 1 + (j - R - 1)  BY <1>2, <1>3, <4>1
        <4> QED BY <1>1, <4>1, <4>2
      <3> QED BY <1>1, <1>2, <3>1, <3>2, <3>3
    <2>2. \A j \in 1..L : taken'[j] = j  BY <1>0 DEF IInv, Reliable, QueueInOrder
    <2> QED BY <1>0, <1>2, <1>3, <1>4, <1>5, <2>1, <2>2 DEF QueueInOrder
  <1>7. Window'
    <2>1. q <= requested /\ requested - q <= NumMod - 1
      BY <1>0 DEF IInv, Reliable, Window
    <2>2. q + 1 + k <= requested /\ requested - (q + 1 + k) <= NumMod - 1
      BY <1>1, <1>2, <2>1, NumModAssumption
    <2> QED BY <1>5, <2>2 DEF Window
  <1>8. \A i \in (q + 2)..(q + 1 + k) : InBuffer(i)
    <2> TAKE i \in (q + 2)..(q + 1 + k)
    <2>1. i - q - 1 \in 1..k /\ q + 1 + (i - q - 1) = i  BY <1>1, <1>2
    <2> QED BY <1>0, <1>2, <2>1 DEF InBuffer
  <1>9. ASSUME NEW n \in DOMAIN receiver'.out_of_order_packets
        PROVE  /\ n \in DOMAIN b /\ receiver'.out_of_order_packets[n] = b[n]
               /\ b[n] \in (q + 3 + k)..requested
               /\ n = b[n] % NumMod
    <2>1. n \in DOMAIN b /\ receiver'.out_of_order_packets[n] = b[n]  BY <1>4
    <2>2. b[n] \in (q + 2)..requested /\ n = b[n] % NumMod
      BY <1>0, <2>1 DEF IInv, Reliable, Ahead
    <2>3. b[n] # q + 2 + k  BY <1>0, <1>2, <2>1 DEF InBuffer
    <2>4. ~(b[n] < q + 2 + k)
      <3>1. SUFFICES ASSUME b[n] < q + 2 + k PROVE FALSE  OBVIOUS
      <3>2. b[n] - q - 1 \in 1..k /\ q + 1 + (b[n] - q - 1) = b[n]
        BY <1>1, <1>2, <2>2, <3>1
      <3>3. After(m[1], b[n] - q - 1) = n  BY <1>2, <2>2, <3>2
      <3> QED BY <1>4, <3>2, <3>3
    <2> QED BY <1>1, <1>2, <2>1, <2>2, <2>3, <2>4
  <1>10. \A p \in path' : p[2] > q + 1 + k
    <2> TAKE p \in path'
    <2>1. p \in path /\ p # m  OBVIOUS
    <2>2. p[2] \in (q + 1)..requested /\ p[1] = p[2] % NumMod
      BY <1>0, <1>1, <2>1 DEF IInv, Reliable, Ahead, NumbersFollowRequests
    <2>3. p[2] # m[2]
      <3>1. p = <<p[1], p[2]>> /\ m = <<m[1], m[2]>>  BY <2>1 DEF IInv, TypeOK
      <3>2. m[1] = m[2] % NumMod  BY DEF IInv, NumbersFollowRequests
      <3> QED BY <2>1, <2>2, <3>1, <3>2
    <2>4. InPath(p[2]) /\ p[2] \in 1..requested  BY <1>1, <2>1, <2>2 DEF InPath
    <2>5. ~InBuffer(p[2])  BY <2>4 DEF IInv, Reliable, OnePlace
    <2>6. ~(p[2] \in (q + 2)..(q + 1 + k))  BY <1>8, <2>5
    <2> QED BY <1>1, <1>2, <2>2, <2>3, <2>6
  <1>11. \A i \in lost : i > q + 1 + k /\ i <= requested
    <2> TAKE i \in lost
    <2>1. i > q /\ i <= requested /\ i \in Nat  BY <1>0 DEF IInv, Reliable, Ahead, TypeOK
    <2>2. i \in 1..requested  BY <1>1, <2>1
    <2>3. InPath(q + 1)  BY <1>1 DEF InPath
    <2>4. i # q + 1  BY <2>2, <2>3 DEF IInv, Reliable, OnePlace
    <2>5. ~InBuffer(i)  BY <2>2 DEF IInv, Reliable, OnePlace
    <2>6. ~(i \in (q + 2)..(q + 1 + k))  BY <1>8, <2>5
    <2> QED BY <1>1, <1>2, <2>1, <2>4, <2>6
  <1>12. Ahead'
    <2>1. \A n \in DOMAIN receiver'.out_of_order_packets :
             /\ receiver'.out_of_order_packets[n] \in (Queued' + 2)..requested
             /\ n = receiver'.out_of_order_packets[n] % NumMod
      BY <1>1, <1>2, <1>5, <1>9
    <2> QED BY <1>5, <1>10, <1>11, <2>1 DEF Ahead
  <1>13. OnePlace'
    <2>1. ASSUME NEW i, InBuffer(i)' PROVE InBuffer(i)  BY <1>0, <1>9, <2>1 DEF InBuffer
    <2>2. ASSUME NEW i, InPath(i)' PROVE InPath(i)  BY <2>2 DEF InPath
    <2> QED BY <2>1, <2>2 DEF IInv, Reliable, OnePlace
  <1> QED BY <1>6, <1>7, <1>12, <1>13 DEF Reliable

\* A packet ahead of its turn moves from the path to the buffer.
LEMMA BufferStep ==
  ASSUME IInv, ~unreliable, NEW m \in path, path' = path \ {m},
         UNCHANGED <<unreliable, requested, taken, lost>>,
         m[1] # Increment(receiver.recv_packet_number),
         receiver' = Buffered(receiver, m[1], m[2])
  PROVE  Reliable'
  <1> DEFINE b == receiver.out_of_order_packets
  <1>1. /\ Queued \in Nat /\ requested \in Nat
        /\ m[2] \in (Queued + 2)..requested /\ m[1] = m[2] % NumMod
    <2>1. Queued \in Nat /\ requested \in Nat  BY QueuedNat DEF IInv, TypeOK
    <2>2. m[2] \in (Queued + 1)..requested /\ m[2] # Queued + 1 /\ m[1] = m[2] % NumMod
      BY NextNumberIsNextPacket
    <2> QED BY <2>1, <2>2
  <1>2. IsReceiver(receiver)  BY DEF IInv, TypeOK
  <1>3. receiver' = [recv_packet_number   |-> receiver.recv_packet_number,
                     recv_packets         |-> receiver.recv_packets,
                     out_of_order_packets |->
                       [n \in DOMAIN b \cup {m[1]} |-> IF n \in DOMAIN b THEN b[n] ELSE m[2]]]
    BY <1>2 DEF Buffered, IsReceiver
  <1>4. /\ DOMAIN receiver'.out_of_order_packets = DOMAIN b \cup {m[1]}
        /\ \A n \in DOMAIN receiver'.out_of_order_packets :
             receiver'.out_of_order_packets[n] = IF n \in DOMAIN b THEN b[n] ELSE m[2]
        /\ receiver'.recv_packets = receiver.recv_packets
        /\ receiver'.recv_packet_number = receiver.recv_packet_number
        /\ Queued' = Queued
    BY <1>3 DEF Queued
  <1>5. QueueInOrder' /\ Window'  BY <1>4 DEF IInv, Reliable, QueueInOrder, Window
  <1>6. Ahead'
    <2>1. \A n \in DOMAIN receiver'.out_of_order_packets :
            /\ receiver'.out_of_order_packets[n] \in (Queued + 2)..requested
            /\ n = receiver'.out_of_order_packets[n] % NumMod
      BY <1>1, <1>4 DEF IInv, Reliable, Ahead
    <2>2. /\ \A p \in path' : p[2] > Queued
          /\ \A i \in lost : i > Queued /\ i <= requested
      BY DEF IInv, Reliable, Ahead
    <2> QED BY <1>4, <2>1, <2>2 DEF Ahead
  <1>7. OnePlace'
    <2>1. m[2] \in 1..requested /\ InPath(m[2])  BY <1>1 DEF InPath
    <2>2. ASSUME NEW i, InBuffer(i)' PROVE InBuffer(i) \/ i = m[2]
      BY <1>4, <2>2 DEF InBuffer
    <2>3. ASSUME NEW i, InPath(i)' PROVE InPath(i) /\ i # m[2]
      <3>1. PICK p \in path' : p[2] = i  BY <2>3 DEF InPath
      <3>2. p \in path /\ p # m  BY <3>1
      <3>3. p = <<p[1], p[2]>> /\ m = <<m[1], m[2]>>  BY <3>2 DEF IInv, TypeOK
      <3>4. p[1] = p[2] % NumMod  BY <3>2 DEF IInv, NumbersFollowRequests
      <3> QED BY <1>1, <3>1, <3>2, <3>3, <3>4 DEF InPath
    <2> QED BY <2>1, <2>2, <2>3 DEF IInv, Reliable, OnePlace
  <1> QED BY <1>5, <1>6, <1>7 DEF Reliable

\* The caller asks for one more packet: it is on the path or lost.
LEMMA RequestStep ==
  ASSUME IInv, ~unreliable, AsyncSendPacket \/ AsyncSendPacketThrows
  PROVE  Reliable'
  <1>1. /\ Queued \in Nat /\ requested \in Nat /\ requested' = requested + 1
        /\ taken' = taken /\ receiver' = receiver /\ Queued' = Queued
    BY QueuedNat DEF IInv, TypeOK, AsyncSendPacket, AsyncSendPacketThrows, Queued
  <1>2. \/ path' = path /\ lost' = lost \cup {requested + 1}
        \/ path' = path \cup {<<send_packet_number', requested + 1>>} /\ lost' = lost
    BY DEF AsyncSendPacket, AsyncSendPacketThrows
  <1>3. requested - Queued < NumMod - 1
    <2>1. Len(Output) = Queued
      <3>1. taken \in Seq(Nat) /\ receiver.recv_packets \in Seq(Nat)
        BY DEF IInv, TypeOK, IsReceiver
      <3> QED BY <3>1, ConcatProperties DEF Output, Queued
    <2> QED BY <2>1 DEF AsyncSendPacket, AsyncSendPacketThrows, InWindow
  <1>4. Queued <= requested  BY DEF IInv, Reliable, Window
  <1>5. QueueInOrder'  BY <1>1 DEF IInv, Reliable, QueueInOrder
  <1>6. Window'  BY <1>1, <1>3, <1>4, NumModAssumption DEF Window
  <1>7. Ahead'
    <2>1. \A n \in DOMAIN receiver.out_of_order_packets :
            /\ receiver.out_of_order_packets[n] \in (Queued + 2)..(requested + 1)
            /\ n = receiver.out_of_order_packets[n] % NumMod
      BY <1>1 DEF IInv, Reliable, Ahead
    <2>2. \A p \in path' : p[2] > Queued
      BY <1>1, <1>2, <1>4 DEF IInv, Reliable, Ahead
    <2>3. \A i \in lost' : i > Queued /\ i <= requested + 1
      <3> TAKE i \in lost'
      <3>1. CASE i = requested + 1  BY <1>1, <1>4, <3>1
      <3>2. CASE i \in lost
        <4>1. i \in Nat /\ i > Queued /\ i <= requested
          BY <3>2 DEF IInv, TypeOK, Reliable, Ahead
        <4> QED BY <1>1, <4>1
      <3> QED BY <1>2, <3>1, <3>2
    <2> QED BY <1>1, <2>1, <2>2, <2>3 DEF Ahead
  <1>8. OnePlace'
    <2>1. PICK r \in Nat : r = requested + 1  BY <1>1
    <2>2. ~InPath(r) /\ ~InBuffer(r) /\ r \notin lost
      BY <1>1, <2>1 DEF IInv, NumbersFollowRequests, Reliable, Ahead, InPath, InBuffer
    <2>3. \A i : InBuffer(i)' <=> InBuffer(i)  BY <1>1 DEF InBuffer
    <2>4. \A i : InPath(i)' <=> \E m \in path' : m[2] = i  BY DEF InPath
    <2>5. \A i : /\ InPath(i)' => InPath(i) \/ i = r
                 /\ i \in lost' => i \in lost \/ i = r
      BY <1>2, <2>1, <2>4 DEF InPath
    <2>6. ~(InPath(r)' /\ r \in lost')
      <3>1. CASE path' = path
        <4>1. ~InPath(r)'  BY <2>2, <3>1 DEF InPath
        <4> QED BY <4>1
      <3>2. CASE lost' = lost  BY <2>2, <3>2
      <3> QED BY <1>2, <3>1, <3>2
    <2>7. \A i \in 1..requested' : i \in 1..requested \/ i = r  BY <1>1, <2>1
    <2>8. \A i \in 1..requested : ~(InPath(i) /\ InBuffer(i)) /\ ~(InPath(i) /\ i \in lost)
                                  /\ ~(InBuffer(i) /\ i \in lost)
      BY DEF IInv, Reliable, OnePlace
    <2>9. \A i \in 1..requested : i # r  BY <1>1, <2>1
    <2> QED BY <2>2, <2>3, <2>5, <2>6, <2>7, <2>8, <2>9 DEF OnePlace
  <1> QED BY <1>5, <1>6, <1>7, <1>8 DEF Reliable

\* A packet is lost between the path and the endpoint.
LEMMA LoseStep ==
  ASSUME IInv, ~unreliable, UnpackThrows
  PROVE  Reliable'
  <1>1. PICK m \in path : path' = path \ {m} /\ lost' = lost \cup {m[2]}
    BY DEF UnpackThrows
  <1>2. /\ requested' = requested /\ taken' = taken /\ receiver' = receiver
        /\ Queued' = Queued /\ Queued \in Nat /\ requested \in Nat
    BY QueuedNat DEF UnpackThrows, Queued, IInv, TypeOK
  <1>3. m[2] \in 1..requested /\ m[2] > Queued /\ InPath(m[2])
    BY <1>1 DEF IInv, NumbersFollowRequests, Reliable, Ahead, InPath
  <1>4. QueueInOrder' /\ Window'  BY <1>2 DEF IInv, Reliable, QueueInOrder, Window
  <1>5. Ahead'  BY <1>1, <1>2, <1>3 DEF IInv, Reliable, Ahead
  <1>6. OnePlace'
    <2>1. ASSUME NEW i, InPath(i)' PROVE InPath(i) /\ i # m[2]
      <3>1. PICK p \in path' : p[2] = i  BY <2>1 DEF InPath
      <3>2. p \in path /\ p # m  BY <1>1, <3>1
      <3>3. p = <<p[1], p[2]>> /\ m = <<m[1], m[2]>>  BY <3>2 DEF IInv, TypeOK
      <3>4. p[1] = p[2] % NumMod /\ m[1] = m[2] % NumMod
        BY <3>2 DEF IInv, NumbersFollowRequests
      <3> QED BY <3>1, <3>2, <3>3, <3>4 DEF InPath
    <2>2. \A i : InBuffer(i)' <=> InBuffer(i)  BY <1>2 DEF InBuffer
    <2>3. ~InBuffer(m[2])  BY <1>3 DEF IInv, Reliable, OnePlace
    <2> QED BY <1>1, <1>2, <2>1, <2>2, <2>3 DEF IInv, Reliable, OnePlace
  <1> QED BY <1>4, <1>5, <1>6 DEF Reliable

\* The caller takes the head of the queue.
LEMMA TakeStep ==
  ASSUME IInv, ~unreliable, ReceivePacket
  PROVE  Reliable'
  <1> DEFINE L == Len(taken)
             R == Len(receiver.recv_packets)
             h == Head(receiver.recv_packets)
  <1>1. /\ taken \in Seq(Nat) /\ receiver.recv_packets \in Seq(Nat)
        /\ receiver.recv_packets # <<>> /\ L \in Nat /\ R \in Nat /\ R >= 1
    BY DEF IInv, TypeOK, IsReceiver, ReceivePacket
  <1>2. /\ receiver'.recv_packets = Tail(receiver.recv_packets)
        /\ receiver'.recv_packet_number = receiver.recv_packet_number
        /\ receiver'.out_of_order_packets = receiver.out_of_order_packets
        /\ taken' = Append(taken, h)
        /\ UNCHANGED <<requested, path, lost>>
    BY DEF ReceivePacket, IInv, TypeOK, IsReceiver
  <1>3. /\ Len(receiver'.recv_packets) = R - 1
        /\ \A j \in 1..(R - 1) : receiver'.recv_packets[j] = receiver.recv_packets[j + 1]
        /\ h \in Nat
    BY <1>1, <1>2, HeadTailProperties
  <1>4. h = L + 1
    <2>1. h = receiver.recv_packets[1]  BY <1>1
    <2>2. 1 \in 1..R  BY <1>1
    <2> QED BY <2>1, <2>2 DEF IInv, Reliable, QueueInOrder
  <1>5. /\ Len(taken') = L + 1
        /\ \A j \in 1..L : taken'[j] = taken[j]
        /\ taken'[L + 1] = h
    BY <1>1, <1>2, <1>3, AppendProperties
  <1>6. Queued = L + R /\ Queued' = (L + 1) + (R - 1)  BY <1>3, <1>5 DEF Queued
  <1>7. \A j \in 1..R : receiver.recv_packets[j] = L + j
    BY DEF IInv, Reliable, QueueInOrder
  <1>8. \A j \in 1..L : taken[j] = j  BY DEF IInv, Reliable, QueueInOrder
  <1> HIDE DEF L, R, h
  <1>9. Queued' = Queued  BY <1>1, <1>6
  <1>10. QueueInOrder'
    <2>1. \A j \in 1..(R - 1) : receiver'.recv_packets[j] = L + 1 + j
      <3> TAKE j \in 1..(R - 1)
      <3>1. j + 1 \in 1..R  BY <1>1
      <3>2. receiver.recv_packets[j + 1] = L + (j + 1)  BY <1>7, <3>1
      <3>3. receiver'.recv_packets[j] = receiver.recv_packets[j + 1]  BY <1>3
      <3>4. L + (j + 1) = L + 1 + j  BY <1>1
      <3> QED BY <3>2, <3>3, <3>4
    <2>2. \A j \in 1..(L + 1) : taken'[j] = j
      <3> TAKE j \in 1..(L + 1)
      <3>1. j \in 1..L \/ j = L + 1  BY <1>1
      <3> QED BY <1>4, <1>5, <1>8, <3>1
    <2>3. receiver'.recv_packet_number = Queued' % NumMod
      BY <1>2, <1>9 DEF IInv, Reliable, QueueInOrder
    <2> QED BY <1>3, <1>5, <2>1, <2>2, <2>3 DEF QueueInOrder
  <1>11. Window' /\ Ahead' /\ OnePlace'
    BY <1>2, <1>9 DEF IInv, Reliable, Window, Ahead, OnePlace, InPath, InBuffer
  <1> QED BY <1>10, <1>11 DEF Reliable

\* Every step keeps the inductive invariant.
LEMMA InvariantStep == IInv /\ [Next]_vars => IInv'
  <1> SUFFICES ASSUME IInv, [Next]_vars PROVE IInv'  OBVIOUS
  <1>1. TypeOK' /\ NumbersFollowRequests'  BY TypeStep, NumbersStep DEF IInv
  <1>2. unreliable' = unreliable
    BY DEF Next, AsyncSendPacket, AsyncSendPacketThrows, Receive, UnpackThrows, Drop,
           ReceivePacket, SetIgnoreReceived, vars
  <1>3. ASSUME ~unreliable PROVE Reliable'
    <2>1. CASE AsyncSendPacket  BY <1>3, <2>1, RequestStep
    <2>2. CASE AsyncSendPacketThrows  BY <1>3, <2>2, RequestStep
    <2>3. CASE Receive
      <3>1. PICK m \in path : Receive!(m)  BY <2>3 DEF Receive
      <3>2. path' = path \ {m} /\ UNCHANGED <<unreliable, requested, taken, lost>>  BY <3>1
      <3>3. CASE UNCHANGED receiver
        <4>1. /\ path' \subseteq path /\ Queued' = Queued
              /\ UNCHANGED <<requested, receiver, taken, lost>>
          BY <3>2, <3>3 DEF Queued
        <4> QED BY <1>3, <4>1 DEF IInv, Reliable, QueueInOrder, Window, Ahead,
                                  OnePlace, InPath, InBuffer
      <3>4. CASE receiver' \in PacketReceived(receiver, m[1], m[2])
        <4>1. CASE m[1] = Increment(receiver.recv_packet_number)
          <5>1. PICK k \in DrainLengths(m[1], receiver.out_of_order_packets) :
                   receiver' = Accepted(receiver, m[2], k)
            BY <3>4, <4>1 DEF PacketReceived
          <5> QED BY <1>3, <3>2, <4>1, <5>1, AcceptStep
        <4>2. CASE m[1] # Increment(receiver.recv_packet_number)
          <5>1. receiver' = Buffered(receiver, m[1], m[2])  BY <3>4, <4>2 DEF PacketReceived
          <5> QED BY <1>3, <3>2, <4>2, <5>1, BufferStep
        <4> QED BY <4>1, <4>2
      <3> QED BY <1>3, <3>1, <3>3, <3>4
    <2>4. CASE UnpackThrows  BY <1>3, <2>4, LoseStep
    <2>5. CASE Drop  BY <1>3, <2>5 DEF Drop
    <2>6. CASE ReceivePacket  BY <1>3, <2>6, TakeStep
    <2>7. CASE SetIgnoreReceived \/ UNCHANGED vars
      <3>1. UNCHANGED <<requested, path, receiver, taken, lost>>
        BY <2>7 DEF SetIgnoreReceived, vars
      <3> QED BY <1>3, <3>1 DEF IInv, Reliable, QueueInOrder, Window, Ahead, OnePlace,
                                InPath, InBuffer, Queued
    <2> QED BY <2>1, <2>2, <2>3, <2>4, <2>5, <2>6, <2>7 DEF Next
  <1> QED BY <1>1, <1>2, <1>3 DEF IInv

\* The inductive invariant holds at first.
LEMMA InvariantInit == Init => IInv
  <1> SUFFICES ASSUME Init PROVE IInv  OBVIOUS
  <1> USE DEF Init
  <1>1. /\ receiver.recv_packet_number = 0 /\ receiver.recv_packets = <<>>
        /\ receiver.out_of_order_packets = <<>> /\ DOMAIN receiver.out_of_order_packets = {}
    BY DEF NewReceiver
  <1>2. 0 % NumMod = 0 /\ 0 \in PacketNumbers
    BY NumModAssumption, ModIs, 0 = NumMod * 0 + 0 DEF PacketNumbers
  <1>3. IsReceiver(receiver)
    <2>1. receiver.out_of_order_packets \in [{} -> Nat]  BY <1>1
    <2>2. receiver = [recv_packet_number   |-> receiver.recv_packet_number,
                      recv_packets         |-> receiver.recv_packets,
                      out_of_order_packets |-> receiver.out_of_order_packets]
      BY DEF NewReceiver
    <2>3. receiver.recv_packet_number \in PacketNumbers /\ receiver.recv_packets \in Seq(Nat)
      BY <1>1, <1>2
    <2> QED BY <2>1, <2>2, <2>3 DEF IsReceiver
  <1>4. TypeOK
    <2>1. unreliable \in BOOLEAN /\ ignore_incoming_packets \in BOOLEAN  OBVIOUS
    <2>2. /\ send_packet_number \in PacketNumbers /\ requested \in Nat
          /\ path \subseteq PacketNumbers \X Nat /\ taken \in Seq(Nat) /\ lost \subseteq Nat
      BY <1>2
    <2> QED BY <1>3, <2>1, <2>2 DEF TypeOK
  <1>5. Queued = 0  BY <1>1 DEF Queued
  <1>6. NumbersFollowRequests  BY <1>2 DEF NumbersFollowRequests
  <1>7. QueueInOrder  BY <1>1, <1>2, <1>5 DEF QueueInOrder
  <1>8. Window  BY <1>5, NumModAssumption DEF Window
  <1>9. Ahead /\ OnePlace  BY <1>1 DEF Ahead, OnePlace
  <1> QED BY <1>4, <1>6, <1>7, <1>8, <1>9 DEF IInv, Reliable

\* The inductive invariant holds in every reachable state.
THEOREM Invariance == Spec => []IInv
  BY InvariantInit, InvariantStep, PTL DEF Spec

\* Every variable has its type: the packet numbers of both ends stay in range
\* as they wrap (increment_packet_number, AsyncSendPacketBase).
THEOREM TypeCorrect == Spec => []TypeOK
  <1>1. IInv => TypeOK  BY DEF IInv
  <1> QED BY Invariance, <1>1, PTL

\* On a reliable pipe the queue holds the first packets in order.
LEMMA OutputIsPrefix ==
  IInv => /\ Len(Output) = Queued /\ Queued \in Nat
          /\ Output \in Seq(Nat)
          /\ ~unreliable => Output = [i \in 1..Queued |-> i]
  <1> SUFFICES ASSUME IInv
               PROVE  /\ Len(Output) = Queued /\ Queued \in Nat
                      /\ Output \in Seq(Nat)
                      /\ ~unreliable => Output = [i \in 1..Queued |-> i]
    OBVIOUS
  <1> DEFINE s == taken
             t == receiver.recv_packets
  <1>1. s \in Seq(Nat) /\ t \in Seq(Nat)  BY DEF IInv, TypeOK, IsReceiver
  <1>2. /\ Output \in Seq(Nat)
        /\ Len(Output) = Len(s) + Len(t)
        /\ \A j \in 1..Len(s) : Output[j] = s[j]
        /\ \A j \in 1..Len(t) : Output[Len(s) + j] = t[j]
    BY <1>1, Concatenation DEF Output
  <1>3. ASSUME ~unreliable PROVE Output = [i \in 1..Queued |-> i]
    <2>1. \A j \in 1..Len(s) : s[j] = j  BY <1>3 DEF IInv, Reliable, QueueInOrder
    <2>2. \A j \in 1..Len(t) : t[j] = Len(s) + j  BY <1>3 DEF IInv, Reliable, QueueInOrder
    <2>3. Queued = Len(s) + Len(t) /\ Len(s) \in Nat /\ Len(t) \in Nat
      BY <1>1 DEF Queued
    <2> HIDE DEF s, t
    <2>4. \A i \in 1..Len(Output) : Output[i] = i
      <3> TAKE i \in 1..Len(Output)
      <3>1. CASE i <= Len(s)
        <4>1. i \in 1..Len(s)  BY <2>3, <1>2, <3>1
        <4> QED BY <1>2, <2>1, <4>1
      <3>2. CASE i > Len(s)
        <4>1. i - Len(s) \in 1..Len(t) /\ Len(s) + (i - Len(s)) = i  BY <1>2, <2>3, <3>2
        <4> QED BY <1>2, <2>2, <4>1
      <3> QED BY <2>3, <3>1, <3>2
    <2> QED BY <1>2, <2>3, <2>4
  <1> QED BY <1>2, <1>3, QueuedNat DEF IInv, Queued

\* A reliable endpoint queues exactly the first packets of the sender, each
\* once and in order (PipeEndpointBase::PipePacketReceived).
THEOREM DeliveredInOrder == Spec => []InOrder
  <1>1. IInv => InOrder  BY OutputIsPrefix DEF InOrder
  <1> QED BY Invariance, <1>1, PTL

\* A reliable endpoint never queues a packet behind a lost one.
THEOREM StopsAtALoss == Spec => []NothingPastALoss
  <1>1. IInv => NothingPastALoss
    BY OutputIsPrefix DEF IInv, Reliable, Ahead, NothingPastALoss
  <1> QED BY Invariance, <1>1, PTL

-----------------------------------------------------------------------------
(* Nothing is stranded in the buffer.                                      *)

\* The packet whose turn it is takes the run after it along, and leaves the
\* rest of the buffer where it was.
LEMMA AcceptAccounted ==
  ASSUME IInv, Accounted, ~unreliable, ~ignore_incoming_packets,
         NEW m \in path, path' = path \ {m}, UNCHANGED <<requested, taken, lost>>,
         m[1] = Increment(receiver.recv_packet_number),
         NEW k \in DrainLengths(m[1], receiver.out_of_order_packets),
         receiver' = Accepted(receiver, m[2], k)
  PROVE  Accounted'
  <1>1. PICK q \in Nat : q = Queued  BY QueuedNat DEF IInv
  <1>2. requested \in Nat /\ m[2] = q + 1 /\ m[2] \in Nat
    <2>1. m[2] = q + 1  BY <1>1, NextNumberIsNextPacket
    <2> QED BY <2>1 DEF IInv, TypeOK
  <1>3. PICK b : b = receiver.out_of_order_packets  OBVIOUS
  <1>4. /\ k \in Nat
        /\ \A j \in 1..k : After(m[1], j) \in DOMAIN b /\ b[After(m[1], j)] = q + 1 + j
    BY <1>1, <1>3, DrainTakesTheRun
  <1>5. Queued' = q + 1 + k
    <2>1. /\ IsReceiver(receiver) /\ Len(taken) \in Nat /\ Len(receiver.recv_packets) \in Nat
          /\ q = Len(taken) + Len(receiver.recv_packets)
      BY <1>1 DEF IInv, TypeOK, IsReceiver, Queued
    <2>2. k \in DrainLengths(Increment(receiver.recv_packet_number),
                             receiver.out_of_order_packets)
      OBVIOUS
    <2>3. Len(Accepted(receiver, m[2], k).recv_packets) = Len(receiver.recv_packets) + 1 + k
      BY ONLY <1>2, <2>1, <2>2, AcceptedQueue
    <2>4. Queued' = Len(taken) + Len(receiver'.recv_packets)  BY DEF Queued
    <2> QED BY <1>4, <2>1, <2>3, <2>4
  <1>6. /\ DOMAIN receiver'.out_of_order_packets = DOMAIN b \ {After(m[1], j) : j \in 1..k}
        /\ \A n \in DOMAIN receiver'.out_of_order_packets :
             receiver'.out_of_order_packets[n] = b[n]
    BY <1>3 DEF Accepted
  <1>7. ASSUME NEW i \in (q + 2 + k)..requested
        PROVE  InPath(i)' \/ InBuffer(i)' \/ i \in lost
    <2>1. i \in (Queued + 1)..requested /\ i > q + 1 + k  BY <1>1, <1>2, <1>4, <1>7
    <2>2. InPath(i) \/ InBuffer(i) \/ i \in lost  BY <2>1 DEF Accounted
    <2>3. CASE InPath(i)
      <3>1. PICK p \in path : p[2] = i  BY <2>3 DEF InPath
      <3>2. p # m  BY <1>2, <1>4, <2>1, <3>1
      <3> QED BY <3>1, <3>2 DEF InPath
    <2>4. CASE InBuffer(i)
      <3>1. PICK n \in DOMAIN b : b[n] = i  BY <1>3, <2>4 DEF InBuffer
      <3>2. \A j \in 1..k : n # After(m[1], j)
        <4> SUFFICES ASSUME NEW j \in 1..k, n = After(m[1], j) PROVE FALSE  OBVIOUS
        <4>1. i = q + 1 + j /\ j <= k  BY <1>4, <3>1
        <4> QED BY <1>4, <2>1, <4>1
      <3> QED BY <1>6, <3>1, <3>2 DEF InBuffer
    <2> QED BY <2>2, <2>3, <2>4
  <1>8. (Queued' + 1)..requested = (q + 2 + k)..requested  BY <1>4, <1>5
  <1> QED BY <1>7, <1>8 DEF Accounted

\* A packet ahead of its turn is buffered: its number is not taken.
LEMMA BufferAccounted ==
  ASSUME IInv, Accounted, ~unreliable, ~ignore_incoming_packets,
         NEW m \in path, path' = path \ {m}, UNCHANGED <<requested, taken, lost>>,
         m[1] # Increment(receiver.recv_packet_number),
         receiver' = Buffered(receiver, m[1], m[2])
  PROVE  Accounted'
  <1>1. PICK b : b = receiver.out_of_order_packets  OBVIOUS
  <1>2. IsReceiver(receiver) /\ requested \in Nat /\ Queued \in Nat
    BY QueuedNat DEF IInv, TypeOK
  <1>3. receiver' = [recv_packet_number   |-> receiver.recv_packet_number,
                     recv_packets         |-> receiver.recv_packets,
                     out_of_order_packets |->
                       [n \in DOMAIN b \cup {m[1]} |-> IF n \in DOMAIN b THEN b[n] ELSE m[2]]]
    BY <1>1, <1>2 DEF Buffered, IsReceiver
  <1>4. /\ DOMAIN receiver'.out_of_order_packets = DOMAIN b \cup {m[1]}
        /\ \A n \in DOMAIN receiver'.out_of_order_packets :
             receiver'.out_of_order_packets[n] = IF n \in DOMAIN b THEN b[n] ELSE m[2]
        /\ Queued' = Queued
    BY <1>3 DEF Queued
  <1>5. m[1] \notin DOMAIN b
    <2>1. /\ m[2] \in (Queued + 1)..requested /\ m[2] # Queued + 1
          /\ m[1] = m[2] % NumMod
      BY NextNumberIsNextPacket
    <2>2. m[2] \in Nat /\ m[2] >= Queued + 2 /\ m[2] <= Queued + NumMod
      BY <1>2, <2>1, NumModAssumption DEF IInv, Reliable, Window
    <2>3. ASSUME m[1] \in DOMAIN b PROVE InBuffer(m[2])
      BY <1>1, <2>1, <2>2, <2>3, BufferedNumberIsItsPacket DEF InBuffer
    <2>4. m[2] \in 1..requested /\ InPath(m[2])  BY <1>2, <2>1 DEF InPath
    <2> QED BY <2>3, <2>4 DEF IInv, Reliable, OnePlace
  <1>6. ASSUME NEW i \in (Queued + 1)..requested
        PROVE  InPath(i)' \/ InBuffer(i)' \/ i \in lost
    <2>1. InPath(i) \/ InBuffer(i) \/ i \in lost  BY <1>6 DEF Accounted
    <2>2. CASE InPath(i)
      <3>1. PICK p \in path : p[2] = i  BY <2>2 DEF InPath
      <3>2. CASE p = m
        <4>1. receiver'.out_of_order_packets[m[1]] = i  BY <1>4, <1>5, <3>1, <3>2
        <4> QED BY <1>4, <4>1 DEF InBuffer
      <3>3. CASE p # m  BY <3>1, <3>3 DEF InPath
      <3> QED BY <3>2, <3>3
    <2>3. CASE InBuffer(i)  BY <1>1, <1>4, <2>3 DEF InBuffer
    <2> QED BY <2>1, <2>2, <2>3
  <1> QED BY <1>4, <1>6 DEF Accounted

\* A packet asked for is put on the path, or fails.
LEMMA RequestAccounted ==
  ASSUME IInv, Accounted, ~unreliable, ~ignore_incoming_packets,
         AsyncSendPacket \/ AsyncSendPacketThrows
  PROVE  Accounted'
  <1>1. /\ Queued \in Nat /\ requested \in Nat /\ requested' = requested + 1
        /\ receiver' = receiver /\ Queued' = Queued
        /\ path \subseteq path' /\ lost \subseteq lost'
    BY QueuedNat DEF IInv, TypeOK, AsyncSendPacket, AsyncSendPacketThrows, Queued
  <1>2. requested + 1 \in lost' \/ <<send_packet_number', requested + 1>> \in path'
    BY DEF AsyncSendPacket, AsyncSendPacketThrows
  <1>3. ASSUME NEW i \in (Queued + 1)..(requested + 1)
        PROVE  InPath(i)' \/ InBuffer(i)' \/ i \in lost'
    <2>1. CASE i = requested + 1
      <3>1. ASSUME NEW p \in path', p[2] = i PROVE InPath(i)'  BY <3>1 DEF InPath
      <3> QED BY <1>2, <2>1, <3>1
    <2>2. CASE i # requested + 1
      <3>1. i \in (Queued + 1)..requested  BY <1>1, <2>2
      <3>2. InPath(i) \/ InBuffer(i) \/ i \in lost  BY <3>1 DEF Accounted
      <3> QED BY <1>1, <3>2 DEF InPath, InBuffer
    <2> QED BY <2>1, <2>2
  <1> QED BY <1>1, <1>3 DEF Accounted

\* Every step keeps track of every packet.
LEMMA AccountedStep == IInv /\ Accounted /\ [Next]_vars => Accounted'
  <1> SUFFICES ASSUME IInv, Accounted, [Next]_vars, ~unreliable', ~ignore_incoming_packets'
               PROVE  Accounted'
    BY DEF Accounted
  <1>1. ~unreliable /\ ~ignore_incoming_packets
    BY DEF Next, AsyncSendPacket, AsyncSendPacketThrows, Receive, UnpackThrows, Drop,
           ReceivePacket, SetIgnoreReceived, vars
  <1>2. CASE AsyncSendPacket \/ AsyncSendPacketThrows  BY <1>1, <1>2, RequestAccounted
  <1>3. CASE Receive
    <2>1. PICK m \in path : Receive!(m)  BY <1>3 DEF Receive
    <2>2. /\ path' = path \ {m} /\ UNCHANGED <<requested, taken, lost>>
          /\ receiver' \in PacketReceived(receiver, m[1], m[2])
      BY <1>1, <2>1
    <2>3. CASE m[1] = Increment(receiver.recv_packet_number)
      <3>1. PICK k \in DrainLengths(m[1], receiver.out_of_order_packets) :
               receiver' = Accepted(receiver, m[2], k)
        BY <2>2, <2>3 DEF PacketReceived
      <3> QED BY <1>1, <2>2, <2>3, <3>1, AcceptAccounted
    <2>4. CASE m[1] # Increment(receiver.recv_packet_number)
      <3>1. receiver' = Buffered(receiver, m[1], m[2])  BY <2>2, <2>4 DEF PacketReceived
      <3> QED BY <1>1, <2>2, <2>4, <3>1, BufferAccounted
    <2> QED BY <2>3, <2>4
  <1>4. CASE UnpackThrows \/ Drop
    <2>1. PICK m \in path : path' = path \ {m} /\ lost' = lost \cup {m[2]}
      BY <1>4 DEF UnpackThrows, Drop
    <2>2. UNCHANGED <<requested, receiver>> /\ Queued' = Queued
      BY <1>4 DEF UnpackThrows, Drop, Queued
    <2>3. \A i : InPath(i) => InPath(i)' \/ i \in lost'  BY <2>1 DEF InPath
    <2>4. \A i : InBuffer(i) => InBuffer(i)'  BY <2>2 DEF InBuffer
    <2> QED BY <1>1, <2>1, <2>2, <2>3, <2>4 DEF Accounted
  <1>5. CASE ReceivePacket
    <2>1. /\ taken \in Seq(Nat) /\ receiver.recv_packets \in Seq(Nat)
          /\ receiver.recv_packets # <<>>
          /\ Head(receiver.recv_packets) \in Nat
          /\ receiver'.recv_packets = Tail(receiver.recv_packets)
          /\ receiver'.out_of_order_packets = receiver.out_of_order_packets
          /\ taken' = Append(taken, Head(receiver.recv_packets))
          /\ UNCHANGED <<requested, path, lost>>
      BY <1>5 DEF ReceivePacket, IInv, TypeOK, IsReceiver
    <2>2. /\ Len(taken') = Len(taken) + 1
          /\ Len(receiver'.recv_packets) = Len(receiver.recv_packets) - 1
          /\ Len(taken) \in Nat /\ Len(receiver.recv_packets) \in Nat
      BY <2>1, HeadTailProperties, AppendProperties
    <2>3. Queued' = Queued
      <3>1. /\ Queued' = Len(taken') + Len(receiver'.recv_packets)
            /\ Queued = Len(taken) + Len(receiver.recv_packets)
        BY DEF Queued
      <3>2. \A a \in Nat, b \in Nat : (a + 1) + (b - 1) = a + b  OBVIOUS
      <3> QED BY <2>2, <3>1, <3>2, Zenon
    <2>4. \A i : (InPath(i) => InPath(i)') /\ (InBuffer(i) => InBuffer(i)')
      BY <2>1 DEF InPath, InBuffer
    <2> QED BY <1>1, <2>1, <2>3, <2>4 DEF Accounted
  <1>6. CASE SetIgnoreReceived \/ UNCHANGED vars
    <2>1. UNCHANGED <<requested, path, receiver, taken, lost>>
      BY <1>6 DEF SetIgnoreReceived, vars
    <2> QED BY <1>1, <2>1 DEF Accounted, Queued, InPath, InBuffer
  <1> QED BY <1>2, <1>3, <1>4, <1>5, <1>6 DEF Next

\* At first nothing has been asked for.
LEMMA AccountedInit == Init => Accounted
  <1> SUFFICES ASSUME Init PROVE (Queued + 1)..requested = {}  BY DEF Accounted
  <1>1. Queued \in Nat /\ requested = 0  BY InvariantInit, QueuedNat DEF Init, IInv
  <1> QED BY <1>1

\* Nothing is stranded: behind every packet buffered out of order there is an
\* earlier one still on its way, lost or ignored, so that the drain loop of
\* PipePacketReceived never leaves behind a packet whose turn has come.
THEOREM NothingStranded == Spec => []BufferedOnlyBehindAGap
  <1>1. IInv /\ Accounted => BufferedOnlyBehindAGap
    <2> SUFFICES ASSUME IInv, Accounted, ~unreliable,
                        NEW n \in DOMAIN receiver.out_of_order_packets
                 PROVE  LET missing == Len(Output) + 1
                        IN  /\ receiver.out_of_order_packets[n] > missing
                            /\ \/ missing \in lost \/ ignore_incoming_packets
                               \/ \E m \in path : m[2] = missing
      BY DEF BufferedOnlyBehindAGap
    <2>1. Len(Output) = Queued /\ Queued \in Nat /\ requested \in Nat
      BY OutputIsPrefix DEF IInv, TypeOK
    <2>2. receiver.out_of_order_packets[n] \in (Queued + 2)..requested
      BY DEF IInv, Reliable, Ahead
    <2>3. Queued + 1 \in (Queued + 1)..requested  BY <2>1, <2>2
    <2>4. ~InBuffer(Queued + 1)  BY <2>1 DEF IInv, Reliable, Ahead, InBuffer
    <2>5. ignore_incoming_packets \/ InPath(Queued + 1) \/ Queued + 1 \in lost
      BY <2>3, <2>4 DEF Accounted
    <2> QED BY <2>1, <2>2, <2>5 DEF InPath
  <1>2. Spec => []Accounted
    BY AccountedInit, AccountedStep, Invariance, PTL DEF Spec
  <1> QED BY <1>1, <1>2, Invariance, PTL

\* The packet whose turn it is at the receiving end (recv_packet_number + 1).
NextInTurn == Len(Output) + 1

\* A reliable pipe never waits for nothing: the packet that the receiving end
\* needs next is still on the path or was lost, so that it has not slipped into
\* the buffer, where nobody would look for it again (PipePacketReceived).
NextIsUnderWay ==
    ~unreliable /\ ~ignore_incoming_packets /\ NextInTurn <= requested =>
      NextInTurn \in lost \/ \E m \in path : m[2] = NextInTurn

\* So the pipe stops for good only at a loss: this is the safety side of
\* EveryPacketArrives, to which Receive being fair adds the rest.
THEOREM NeverWaitsInVain == Spec => []NextIsUnderWay
  <1>1. IInv /\ Accounted => NextIsUnderWay
    <2> SUFFICES ASSUME IInv, Accounted, ~unreliable, ~ignore_incoming_packets,
                        NextInTurn <= requested
                 PROVE  NextInTurn \in lost \/ \E m \in path : m[2] = NextInTurn
      BY DEF NextIsUnderWay
    <2>1. NextInTurn = Queued + 1 /\ Queued \in Nat /\ requested \in Nat
      BY OutputIsPrefix DEF IInv, TypeOK, NextInTurn
    <2>2. NextInTurn \in (Queued + 1)..requested  BY <2>1
    <2>3. ~InBuffer(NextInTurn)  BY <2>1 DEF IInv, Reliable, Ahead, InBuffer
    <2> QED BY <2>2, <2>3 DEF Accounted, InPath
  <1>2. Spec => []Accounted
    BY AccountedInit, AccountedStep, Invariance, PTL DEF Spec
  <1> QED BY <1>1, <1>2, Invariance, PTL

-----------------------------------------------------------------------------
(* The endpoints implement the reliable stream.                            *)

\* Every step of the two ends is a step of the stream or leaves it alone.
LEMMA StreamStep ==
  IInv /\ IInv' /\ [Next]_vars =>
    [Stream!Next]_<<requested, lost, IF unreliable THEN <<>> ELSE Output>>
  <1> DEFINE out == IF unreliable THEN <<>> ELSE Output
  <1> SUFFICES ASSUME IInv, IInv', [Next]_vars
               PROVE  Stream!Next \/ UNCHANGED <<requested, lost, out>>
    OBVIOUS
  <1>2. unreliable' = unreliable
    BY DEF Next, AsyncSendPacket, AsyncSendPacketThrows, Receive, UnpackThrows, Drop,
           ReceivePacket, SetIgnoreReceived, vars
  <1>3. /\ Len(Output) = Queued
        /\ Queued \in Nat /\ Queued' \in Nat
        /\ ~unreliable => Output = [i \in 1..Queued |-> i]
        /\ Len(Output') = Queued'
        /\ ~unreliable => Output' = [i \in 1..Queued' |-> i]
    <2>1. IInv' => (/\ Len(Output) = Queued /\ Queued \in Nat
                    /\ Output \in Seq(Nat)
                    /\ ~unreliable => Output = [i \in 1..Queued |-> i])'
      BY OutputIsPrefix, PTL
    <2> QED BY <1>2, <2>1, OutputIsPrefix
  <1>1. /\ Queued \in Nat /\ Queued' \in Nat /\ requested \in Nat
    BY <1>3 DEF IInv, TypeOK
  <1>4. ASSUME UNCHANGED <<receiver, taken>> PROVE out' = out
    BY <1>2, <1>4 DEF Output
  <1>5. CASE AsyncSendPacket
    BY <1>4, <1>5 DEF AsyncSendPacket, Stream!Next, Stream!Request
  <1>6. CASE AsyncSendPacketThrows
    BY <1>4, <1>6 DEF AsyncSendPacketThrows, Stream!Next, Stream!RequestLost
  <1>7. CASE Receive
    <2>1. UNCHANGED <<requested, lost, taken>>  BY <1>7 DEF Receive
    <2>2. CASE unreliable  BY <1>2, <2>1, <2>2
    <2>3. CASE ~unreliable /\ Queued' = Queued  BY <1>2, <1>3, <2>1, <2>3
    <2>4. CASE ~unreliable /\ Queued' > Queued
      <3>1. Queued' \in (Len(out) + 1)..requested
        BY <1>1, <1>2, <1>3, <2>1, <2>4 DEF IInv, Reliable, Window
      <3>2. lost \cap (1..Queued') = {}
        BY <1>1, <1>2, <2>1, <2>4 DEF IInv, Reliable, Ahead
      <3>3. out' = [i \in 1..Queued' |-> i]  BY <1>2, <1>3, <2>4
      <3> HIDE DEF out
      <3>4. Stream!Deliver  BY <2>1, <3>1, <3>2, <3>3 DEF Stream!Deliver, out
      <3> QED BY <3>4 DEF Stream!Next
    <2>5. ASSUME ~unreliable PROVE ~(Queued' < Queued)
      <3>1. PICK m \in path : Receive!(m)  BY <1>7 DEF Receive
      <3>2. CASE UNCHANGED receiver  BY <1>1, <2>1, <3>2 DEF Queued
      <3>3. CASE receiver' \in PacketReceived(receiver, m[1], m[2])
        <4>1. /\ IsReceiver(receiver) /\ m[2] \in Nat
              /\ Len(taken) \in Nat /\ Len(receiver.recv_packets) \in Nat
          BY DEF IInv, TypeOK, IsReceiver
        <4>2. Len(receiver'.recv_packets) >= Len(receiver.recv_packets)
              /\ Len(receiver'.recv_packets) \in Nat
          <5>1. CASE receiver' = Buffered(receiver, m[1], m[2])
            <6>1. receiver'.recv_packets = receiver.recv_packets
              BY <4>1, <5>1 DEF Buffered, IsReceiver
            <6> QED BY <4>1, <6>1
          <5>2. CASE m[1] = Increment(receiver.recv_packet_number) /\
                     \E k \in DrainLengths(m[1], receiver.out_of_order_packets) :
                       receiver' = Accepted(receiver, m[2], k)
            <6>1. PICK k \in DrainLengths(Increment(receiver.recv_packet_number),
                                          receiver.out_of_order_packets) :
                     receiver' = Accepted(receiver, m[2], k)
              BY <5>2
            <6>2. k \in Nat  BY NumModAssumption DEF DrainLengths, PacketNumbers
            <6>3. Len(receiver'.recv_packets) = Len(receiver.recv_packets) + 1 + k
              BY <4>1, <6>1, AcceptedQueue
            <6> QED BY <4>1, <6>2, <6>3
          <5> QED BY <3>3, <5>1, <5>2 DEF PacketReceived
        <4>3. Queued = Len(taken) + Len(receiver.recv_packets)
              /\ Queued' = Len(taken) + Len(receiver'.recv_packets)
          BY <2>1 DEF Queued
        <4> QED BY <4>1, <4>2, <4>3
      <3> QED BY <2>5, <3>1, <3>2, <3>3
    <2> QED BY <1>1, <2>2, <2>3, <2>4, <2>5
  <1>8. CASE UnpackThrows \/ Drop
    <2>1. PICK m \in path : lost' = lost \cup {m[2]}  BY <1>8 DEF UnpackThrows, Drop
    <2>2. requested' = requested /\ out' = out
      BY <1>4, <1>8 DEF UnpackThrows, Drop
    <2>3. m[2] \in (Len(out) + 1)..requested
      <3>1. m[2] \in 1..requested  BY DEF IInv, NumbersFollowRequests
      <3>2. CASE unreliable  BY <3>1, <3>2
      <3>3. CASE ~unreliable
        <4>1. m[2] > Queued  BY <3>3 DEF IInv, Reliable, Ahead
        <4>2. Len(out) = Queued  BY <1>3, <3>3
        <4> QED BY <1>1, <3>1, <4>1, <4>2
      <3> QED BY <3>2, <3>3
    <2> HIDE DEF out
    <2>4. Stream!Lose  BY <2>1, <2>2, <2>3 DEF Stream!Lose, out
    <2> QED BY <2>4 DEF Stream!Next
  <1>9. CASE ReceivePacket
    <2>1. UNCHANGED <<requested, lost>>  BY <1>9 DEF ReceivePacket
    <2>2. Queued' = Queued
      <3>1. /\ taken \in Seq(Nat) /\ receiver.recv_packets \in Seq(Nat)
            /\ receiver.recv_packets # <<>>
            /\ Head(receiver.recv_packets) \in Nat
            /\ receiver'.recv_packets = Tail(receiver.recv_packets)
            /\ taken' = Append(taken, Head(receiver.recv_packets))
        BY <1>9 DEF ReceivePacket, IInv, TypeOK, IsReceiver
      <3>2. /\ Len(taken') = Len(taken) + 1
            /\ Len(receiver'.recv_packets) = Len(receiver.recv_packets) - 1
            /\ Len(taken) \in Nat /\ Len(receiver.recv_packets) \in Nat
        BY <3>1, HeadTailProperties, AppendProperties
      <3>3. /\ Queued' = Len(taken') + Len(receiver'.recv_packets)
            /\ Queued = Len(taken) + Len(receiver.recv_packets)
        BY DEF Queued
      <3>4. \A a \in Nat, b \in Nat : (a + 1) + (b - 1) = a + b  OBVIOUS
      <3> QED BY <3>2, <3>3, <3>4, Zenon
    <2> QED BY <1>2, <1>3, <2>1, <2>2
  <1>10. CASE SetIgnoreReceived \/ UNCHANGED vars
    BY <1>4, <1>10 DEF SetIgnoreReceived, vars
  <1> QED BY <1>5, <1>6, <1>7, <1>8, <1>9, <1>10 DEF Next

\* A reliable pipe gives the caller the reliable stream that the pipe's
\* documentation promises, up to the first packet lost at either end.
THEOREM StreamImplemented == Spec => ImplementsStream
  <1>1. Init => Stream!Init
    BY DEF Init, NewReceiver, Output, Stream!Init
  <1> QED BY <1>1, StreamStep, Invariance, PTL DEF Spec, ImplementsStream, Stream!Spec
=============================================================================
