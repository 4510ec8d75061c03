---------------------------- MODULE PipePackets ----------------------------
(***************************************************************************)
(* The receive side of PipeEndpointBase (PipeMember.cpp): the wrapping     *)
(* packet number, the receive queue and the buffer of packets that arrived *)
(* before their turn.  Pure operators on one endpoint's receive state, used *)
(* by PipeStream (one pipe endpoint) and PipeClient (all endpoints of a     *)
(* pipe member).                                                           *)
(***************************************************************************)
EXTENDS Integers, Sequences

CONSTANT NumMod     \* packet numbers are 0 .. NumMod-1 (2^32 in the code)

ASSUME NumModAssumption == NumMod \in Nat /\ NumMod >= 2

PacketNumbers == 0..(NumMod - 1)

\* increment_packet_number
Increment(n) == IF n < NumMod - 1 THEN n + 1 ELSE 0

\* The number k increments after n.
After(n, k) == (n + k) % NumMod

\* Mutant: the endpoint takes itself to have received number 1.
StartsAtOne == [recv_packet_number   |-> 1,
                recv_packets         |-> <<>>,
                out_of_order_packets |-> <<>>]

NewReceiver == [recv_packet_number   |-> 0,
                recv_packets         |-> <<>>,
                out_of_order_packets |-> <<>>]

\* How many buffered packets follow number n without a gap: a set with one
\* element (the drain loop of PipePacketReceived stops at the first gap).
DrainLengths(n, buffer) ==
    {k \in PacketNumbers : /\ \A j \in 1..k : After(n, j) \in DOMAIN buffer
                           /\ After(n, k + 1) \notin DOMAIN buffer}

\* The packet whose turn it is goes to the queue, and k buffered ones after it.
Accepted(r, packet, k) ==
    LET n       == Increment(r.recv_packet_number)
        buffer  == r.out_of_order_packets
        drained == {After(n, j) : j \in 1..k}
    IN  [recv_packet_number   |-> After(n, k),
         recv_packets         |-> Append(r.recv_packets, packet)
                                    \o [j \in 1..k |-> buffer[After(n, j)]],
         out_of_order_packets |-> [m \in DOMAIN buffer \ drained |-> buffer[m]]]

\* std::map::insert: a number already buffered keeps its first packet.
Buffered(r, packetnum, packet) ==
    LET buffer == r.out_of_order_packets
    IN  [r EXCEPT !.out_of_order_packets =
           [m \in DOMAIN buffer \cup {packetnum} |->
              IF m \in DOMAIN buffer THEN buffer[m] ELSE packet]]

\* Mutant: the drained packets stay in the buffer.
DrainKeepsBuffer(r, packetnum, packet) ==
    IF packetnum = Increment(r.recv_packet_number)
    THEN {[Accepted(r, packet, k) EXCEPT !.out_of_order_packets = r.out_of_order_packets] :
             k \in DrainLengths(packetnum, r.out_of_order_packets)}
    ELSE {Buffered(r, packetnum, packet)}

\* Mutant: a packet ahead of its turn goes straight to the queue.
NoReordering(r, packetnum, packet) ==
    {[r EXCEPT !.recv_packets = Append(@, packet), !.recv_packet_number = packetnum]}

\* Mutant: the buffer is not drained when the missing packet arrives.
NoDrain(r, packetnum, packet) ==
    IF packetnum = Increment(r.recv_packet_number)
    THEN {Accepted(r, packet, 0)}
    ELSE {Buffered(r, packetnum, packet)}

\* PipePacketReceived on a reliable endpoint: the (one) possible new state.
PacketReceived(r, packetnum, packet) ==
    IF packetnum = Increment(r.recv_packet_number)
    THEN {Accepted(r, packet, k) : k \in DrainLengths(packetnum, r.out_of_order_packets)}
    ELSE {Buffered(r, packetnum, packet)}
=============================================================================
