---------------------- MODULE ServiceInfo2Subscription ----------------------
(***************************************************************************)
(* A subscription that only keeps the services it was told of               *)
(* (ServiceInfo2Subscription): discovery tells it of a node's list when it  *)
(* was updated, and of the node's loss.  The services are one node's, and   *)
(* all of them match.                                                       *)
(***************************************************************************)
EXTENDS Integers, Sequences, SequencesExt

VARIABLES
    info_active,
    detected        \* the services in its map

infoVars == <<info_active, detected>>

InfoInit == info_active = FALSE /\ detected = {}

\* Services before the first that is in the map already.
NewOnes(list) == {list[i] : i \in {k \in DOMAIN list : \A j \in 1..k : list[j] \notin detected}}

\* The first service in the map ends NodeUpdated: what follows it in the list is
\* not looked at, and what is gone from the list stays.
InfoUpdated(list) ==
    detected' = IF \E i \in DOMAIN list : list[i] \in detected
                THEN detected \cup NewOnes(list)
                ELSE ToSet(list)

Info_Init(list) == ~info_active /\ info_active' = TRUE /\ InfoUpdated(list)

InfoNodeUpdated(list) == IF info_active THEN InfoUpdated(list) /\ UNCHANGED info_active
                                        ELSE UNCHANGED infoVars

\* Mutant: what a lost node had is kept.
KeepsDetected == UNCHANGED infoVars

InfoNodeLost == detected' = {} /\ UNCHANGED info_active

InfoClose == info_active /\ info_active' = FALSE /\ detected' = {}
=============================================================================
