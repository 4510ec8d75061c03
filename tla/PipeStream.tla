----------------------------- MODULE PipeStream -----------------------------
(***************************************************************************)
(* One direction of a connected pipe: a PipeEndpointBase that sends         *)
(* (AsyncSendPacketBase), the path between the two ends, and a             *)
(* PipeEndpointBase that receives (PipePacketReceived, ReceivePacketBase).  *)
(* Packets are named by the order in which the caller asked for them to be *)
(* sent; the path may reorder them, and an unreliable pipe may lose them.  *)
(***************************************************************************)
EXTENDS PipePackets, FiniteSets

CONSTANT MaxPackets     \* bound: packets the sender is asked to send

ASSUME MaxPacketsAssumption == MaxPackets \in Nat

VARIABLES
    unreliable,             \* fixed when the endpoint is connected
    send_packet_number,     \* of the sending end
    requested,              \* history: packets the caller asked to send
    path,                   \* packets on their way, <<packetnum, packet>>
    receiver,               \* receive state of the receiving end
    ignore_incoming_packets,
    taken,                  \* history: packets the receiving caller has got
    lost                    \* history: packets that failed at either end

vars == <<unreliable, send_packet_number, requested, path, receiver,
          ignore_incoming_packets, taken, lost>>

Packets == 1..MaxPackets

\* Everything the receiving end has queued, in order.
Output == taken \o receiver.recv_packets

Init == /\ unreliable \in BOOLEAN
        /\ send_packet_number = 0
        /\ requested = 0
        /\ path = {}
        /\ receiver = NewReceiver
        /\ ignore_incoming_packets = FALSE
        /\ taken = <<>>
        /\ lost = {}

\* Fewer than NumMod packets are between the ends (2^32 - 1 in the code).
InWindow == requested - Len(Output) < NumMod - 1

\* Mutant: the number is not advanced, so two packets share it.
NumberReused == send_packet_number' = IF requested = 0 THEN 1 ELSE send_packet_number

\* send_packet_number is advanced before the packet is packed and sent.
NextSendNumber ==
    send_packet_number' = Increment(send_packet_number)

AsyncSendPacket ==
    /\ requested < MaxPackets /\ InWindow
    /\ NextSendNumber
    /\ requested' = requested + 1
    /\ path' = path \cup {<<send_packet_number', requested'>>}
    /\ UNCHANGED <<unreliable, receiver, ignore_incoming_packets, taken, lost>>

\* PackPacket or AsyncSendPipeMessage throws: the caller gets the exception,
\* the number stays used.
AsyncSendPacketThrows ==
    /\ requested < MaxPackets /\ InWindow
    /\ NextSendNumber
    /\ requested' = requested + 1
    /\ lost' = lost \cup {requested'}
    /\ UNCHANGED <<unreliable, path, receiver, ignore_incoming_packets, taken>>

\* PipePacketReceived on the receiving end.
Receive ==
    \E m \in path :
      /\ path' = path \ {m}
      /\ \/ /\ ignore_incoming_packets
            /\ UNCHANGED receiver
         \/ /\ ~ignore_incoming_packets /\ unreliable
            /\ receiver' = [receiver EXCEPT !.recv_packets = Append(@, m[2])]
         \/ /\ ~ignore_incoming_packets /\ ~unreliable
            /\ receiver' \in PacketReceived(receiver, m[1], m[2])
      /\ UNCHANGED <<unreliable, send_packet_number, requested,
                     ignore_incoming_packets, taken, lost>>

\* UnpackData throws in DispatchPacket: the endpoint never sees the packet.
UnpackThrows ==
    \E m \in path :
      /\ path' = path \ {m}
      /\ lost' = lost \cup {m[2]}
      /\ UNCHANGED <<unreliable, send_packet_number, requested, receiver,
                     ignore_incoming_packets, taken>>

\* The path of an unreliable pipe drops a packet.
Drop ==
    /\ unreliable
    /\ \E m \in path :
         /\ path' = path \ {m}
         /\ lost' = lost \cup {m[2]}
    /\ UNCHANGED <<unreliable, send_packet_number, requested, receiver,
                   ignore_incoming_packets, taken>>

\* ReceivePacketBase; TryReceivePacketBase when it finds a packet.
ReceivePacket ==
    /\ receiver.recv_packets # <<>>
    /\ taken' = Append(taken, Head(receiver.recv_packets))
    /\ receiver' = [receiver EXCEPT !.recv_packets = Tail(@)]
    /\ UNCHANGED <<unreliable, send_packet_number, requested, path,
                   ignore_incoming_packets, lost>>

\* SetIgnoreReceived(true); turning it off again throws.
SetIgnoreReceived ==
    /\ ~ignore_incoming_packets
    /\ ignore_incoming_packets' = TRUE
    /\ UNCHANGED <<unreliable, send_packet_number, requested, path, receiver, taken, lost>>

Next == \/ AsyncSendPacket \/ AsyncSendPacketThrows
        \/ Receive \/ UnpackThrows \/ Drop
        \/ ReceivePacket \/ SetIgnoreReceived

Spec == Init /\ [][Next]_vars

\* The transport hands every message it has received to the pipe, and a pipe
\* whose caller keeps reading: both are callbacks of the event loop.
FairSpec == Spec /\ WF_vars(Receive)

-----------------------------------------------------------------------------
\* The receive state: its buffer is a partial function from packet numbers to
\* packets (std::map).
IsReceiver(r) ==
    /\ r = [recv_packet_number   |-> r.recv_packet_number,
            recv_packets         |-> r.recv_packets,
            out_of_order_packets |-> r.out_of_order_packets]
    /\ r.recv_packet_number \in PacketNumbers
    /\ r.recv_packets \in Seq(Nat)
    /\ \E D \in SUBSET PacketNumbers : r.out_of_order_packets \in [D -> Nat]

\* Every variable has its type: in particular the packet numbers of both ends
\* stay in their range when they wrap.
TypeOK ==
    /\ unreliable \in BOOLEAN /\ ignore_incoming_packets \in BOOLEAN
    /\ send_packet_number \in PacketNumbers
    /\ requested \in Nat
    /\ path \subseteq PacketNumbers \X Nat
    /\ IsReceiver(receiver)
    /\ taken \in Seq(Nat)
    /\ lost \subseteq Nat

\* A reliable endpoint queues exactly the first packets of the sender, each
\* once and in order, whatever the order in which the path delivers them and
\* however often the packet number wraps (PipeEndpointBase::PipePacketReceived).
InOrder == ~unreliable => Output = [i \in 1..Len(Output) |-> i]

\* A reliable endpoint never queues a packet that follows a lost one: the gap
\* in the numbers holds back everything after it (PipePacketReceived).
NothingPastALoss ==
    ~unreliable => \A i \in lost : i > Len(Output)

\* Nothing is stranded: a packet buffered out of order waits for an earlier
\* one that is still on its way, was lost, or was ignored (the drain loop).
BufferedOnlyBehindAGap ==
    ~unreliable =>
      \A n \in DOMAIN receiver.out_of_order_packets :
        LET missing == Len(Output) + 1
        IN  /\ receiver.out_of_order_packets[n] > missing
            /\ \/ missing \in lost \/ ignore_incoming_packets
               \/ \E m \in path : m[2] = missing

\* A packet of a reliable pipe is queued at the other end unless that end
\* ignores packets, or it or an earlier packet failed at either end.
EveryPacketArrives ==
    \A i \in Packets :
      (~unreliable /\ requested >= i)
        ~> (Len(Output) >= i \/ ignore_incoming_packets \/ \E j \in lost : j <= i)

-----------------------------------------------------------------------------
(* The strengthening of InOrder and NothingPastALoss that every step keeps. *)

\* The number of packets the receiving end has queued so far.
Queued == Len(taken) + Len(receiver.recv_packets)

InPath(i) == \E m \in path : m[2] = i

InBuffer(i) == \E n \in DOMAIN receiver.out_of_order_packets :
                  receiver.out_of_order_packets[n] = i

\* A packet's number is its place in the order of the requests.
NumbersFollowRequests ==
    /\ send_packet_number = requested % NumMod
    /\ \A m \in path : m[2] \in 1..requested /\ m[1] = m[2] % NumMod

QueueInOrder ==
    /\ \A j \in 1..Len(taken) : taken[j] = j
    /\ \A j \in 1..Len(receiver.recv_packets) : receiver.recv_packets[j] = Len(taken) + j
    /\ receiver.recv_packet_number = Queued % NumMod

Window == Queued <= requested /\ requested - Queued <= NumMod - 1

\* What is in the buffer, on the path or lost is ahead of the queue.
Ahead ==
    /\ \A n \in DOMAIN receiver.out_of_order_packets :
          LET i == receiver.out_of_order_packets[n]
          IN  i \in (Queued + 2)..requested /\ n = i % NumMod
    /\ \A m \in path : m[2] > Queued
    /\ \A i \in lost : i > Queued /\ i <= requested

\* A packet is in one of the three places.
OnePlace ==
    \A i \in 1..requested :
       ~(InPath(i) /\ InBuffer(i)) /\ ~(InPath(i) /\ i \in lost) /\ ~(InBuffer(i) /\ i \in lost)

Reliable == QueueInOrder /\ Window /\ Ahead /\ OnePlace

\* The inductive invariant: on a reliable pipe the queue is the first Queued
\* packets, and a packet number names one packet of the window after them.
IInv == /\ TypeOK
        /\ NumbersFollowRequests
        /\ ~unreliable => Reliable

\* Its companion, for BufferedOnlyBehindAGap: a packet that the receiving end has
\* not queued is on the path, in the buffer or lost, until that end ignores packets.
Accounted ==
    ~unreliable /\ ~ignore_incoming_packets =>
      \A i \in (Queued + 1)..requested : InPath(i) \/ InBuffer(i) \/ i \in lost

-----------------------------------------------------------------------------
\* The endpoints implement the reliable stream.
Stream == INSTANCE ReliableStream
            WITH output <- IF unreliable THEN <<>> ELSE Output

ImplementsStream == Stream!Spec

\* PipeMember.h: "Packets sent by one endpoint is sent to the other, where it
\* is placed in a receive queue": of every packet put on the path.
AcceptedPacketsArrive ==
    \A i \in Packets :
      (~unreliable /\ \E m \in path : m[2] = i)
        ~> (Len(Output) >= i \/ ignore_incoming_packets \/ i \in lost)
=============================================================================
