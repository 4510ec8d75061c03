--------------------------- MODULE ReliableStream ---------------------------
(***************************************************************************)
(* What a reliable pipe promises (PipeMember.h, "reliable packet streams   *)
(* between connected client/service endpoint pairs"): the receiver gets the *)
(* first so-many of the packets the sender was asked to send, each once and *)
(* in order, and never gets past a packet that was lost at either end.     *)
(* Packets are named by the order of the requests to send them.            *)
(***************************************************************************)
EXTENDS Integers, Sequences

VARIABLES requested,    \* number of packets the sender was asked to send
          lost,         \* those that failed at the sender or at the receiver
          output        \* packets the receiver has got

Init == requested = 0 /\ lost = {} /\ output = <<>>

Request == requested' = requested + 1 /\ UNCHANGED <<lost, output>>

RequestLost == /\ requested' = requested + 1
               /\ lost' = lost \cup {requested'}
               /\ UNCHANGED output

Lose == /\ \E i \in (Len(output) + 1)..requested : lost' = lost \cup {i}
        /\ UNCHANGED <<requested, output>>

Deliver == /\ \E k \in (Len(output) + 1)..requested :
                /\ lost \cap (1..k) = {}
                /\ output' = [i \in 1..k |-> i]
           /\ UNCHANGED <<requested, lost>>

Next == Request \/ RequestLost \/ Lose \/ Deliver

Spec == Init /\ [][Next]_<<requested, lost, output>>
=============================================================================
