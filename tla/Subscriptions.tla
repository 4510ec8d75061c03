--------------------------- MODULE Subscriptions ---------------------------
(***************************************************************************)
(* A node with one subscription, of any of the three kinds there are: to    *)
(* the information of services, to services by type, or to one service by   *)
(* its URL.  Discovery calls NodeUpdated and NodeLost of a subscription in  *)
(* the step that changes its storage.  With the first kind discovery itself *)
(* is here; to the second it is external, and tells of any list the node    *)
(* may have had, again and again; in the third it has no part.              *)
(***************************************************************************)
EXTENDS Discovery, ServiceSubscription, ServiceInfo2Subscription

\* The node always has a list of its services, none twice: they are a map by name.
ASSUME HistoriesAssumption ==
    \A history \in Histories :
      /\ history \in Seq(Seq(Services)) /\ history # <<>>
      /\ \A v \in DOMAIN history : IsInjective(history[v])

VARIABLES
    kind,           \* of the subscription, fixed
    late_update     \* history: an update of a storage that was lost came in

vars == <<discoveryVars, subscriptionVars, infoVars, kind, late_update>>

Init == /\ kind \in {"info", "type", "url"}
        /\ late_update = FALSE
        /\ DiscoveryInit /\ SubscriptionInit /\ InfoInit
        /\ use_service_url <=> kind = "url"
        /\ kind # "info" => /\ remote.announces_nonce
                            /\ remote.history = CHOOSE history \in Histories : TRUE

ServicesOf(st) == IF st.as_of = 0 THEN <<>> ELSE remote.history[st.as_of]

Told == IF discovered = 0 THEN <<>> ELSE ServicesOf(storages[discovered])

\* What a storage tells before its first update: nothing.
AnyList == {<<>>} \cup ToSet(remote.history)

Unsubscribed == ~subscriptions /\ ~active /\ ~info_active /\ left = {} /\ connections = <<>>

SubscribeServiceInfo2 ==
    /\ kind = "info" /\ Unsubscribed
    /\ DoSubscribe /\ Info_Init(Told)
    /\ UNCHANGED <<subscriptionVars, kind, late_update>>

SubscribeServiceByType ==
    /\ kind = "type" /\ Unsubscribed
    /\ \E list \in AnyList : Init_ByType(list)
    /\ UNCHANGED <<discoveryVars, infoVars, kind, late_update>>

SubscribeService ==
    /\ kind = "url" /\ Unsubscribed
    /\ InitServiceURL
    /\ UNCHANGED <<discoveryVars, infoVars, kind, late_update>>

DiscoveryStep == /\ kind = "info" /\ DiscoveryNext
                 /\ UNCHANGED <<subscriptionVars, infoVars, kind, late_update>>

Update ==
    /\ \E i \in DOMAIN storages :
         /\ \E answer \in storages[i].posted :
              /\ EndUpdateServiceInfo(i, answer)
              /\ InfoNodeUpdated(remote.history[answer.as_of])
         /\ late_update' = (late_update \/ i # discovered)
    /\ UNCHANGED <<subscriptionVars, kind>>

UpdateByType == /\ kind = "type"
                /\ \E list \in AnyList : NodeUpdated(list)
                /\ UNCHANGED <<discoveryVars, infoVars, kind, late_update>>

NodeLost == /\ LoseNode /\ InfoNodeLost
            /\ UNCHANGED <<subscriptionVars, kind, late_update>>

SubscriptionStep == /\ SubscriptionNext
                    /\ UNCHANGED <<discoveryVars, infoVars, kind, late_update>>

CloseSubscription ==
    /\ \/ Close /\ UNCHANGED <<infoVars, discoveryVars>>
       \/ InfoClose /\ SubscriptionClosed /\ UNCHANGED subscriptionVars
    /\ UNCHANGED <<kind, late_update>>

Next == \/ SubscribeServiceInfo2 \/ SubscribeServiceByType \/ SubscribeService
        \/ DiscoveryStep \/ Update \/ UpdateByType \/ NodeLost
        \/ SubscriptionStep \/ CloseSubscription

Spec == Init /\ [][Next]_vars

-----------------------------------------------------------------------------
\* Every variable has its type: no entry has more than one timer, no storage
\* more than one updater.
TypeOK == /\ DiscoveryTypeOK /\ SubscriptionTypeOK
          /\ info_active \in BOOLEAN /\ detected \subseteq Services
          /\ kind \in {"info", "type", "url"} /\ late_update \in BOOLEAN

Attempts(s) == {c \in DOMAIN connections :
                  connections[c].service = s /\ ~connections[c].answered}

\* The connections of a service that are being made, open, or its client.
InUse(s) == {c \in DOMAIN connections :
               /\ connections[c].service = s
               /\ \/ ~connections[c].answered
                  \/ connections[c].state = "open"
                  \/ client[s] = c /\ Alive(c)}

\* A service is connected, being connected or waiting for a retry, but never two
\* of these, nor one of them twice, however updates, retries and the events of
\* old connections interleave (NodeUpdated, ConnectRetry, ClientEvent).
OneAttempt ==
    active => \A s \in Services : Cardinality(InUse(s)) + retry_timers[s] <= 1

\* While the subscription is open it never closes a client that is claimed, not
\* even one that was lost; Close does (ClientEvent, UpdateServiceURL).
ClaimedIsLeft ==
    [][\A c \in DOMAIN connections :
         /\ connections[c].state # "dropped" /\ connections'[c].state = "dropped"
         /\ claimed[connections[c].service] /\ client[connections[c].service] = c
         => ~active']_vars

\* Close leaves no client connected, whatever updates, retries and events came
\* before, but those that were in the middle of being connected, which it
\* forgets; of those that were claimed nothing is said (Close, ClientConnected).
ClosedLeavesNoOther ==
    ~active => \A c \in DOMAIN connections : connections[c].state = "open" => c \in left

\* Subscription.h: "Claimed clients will no longer have their lifecycle managed
\* by the subscription": it never closes one.
ClaimedIsTheApplications ==
    [][\A c \in DOMAIN connections :
         /\ claimed[connections[c].service] /\ client[connections[c].service] = c
         /\ connections[c].state # "dropped"
         => connections'[c].state # "dropped"]_vars

\* The services of a node that is not discovered are not kept, unless an updater
\* that was running when the node was lost brought them (NodeLost, NodeUpdated).
LostNodeIsForgotten == discovered = 0 /\ detected # {} => late_update

\* The documented promise of a subscription: what failed or was lost is retried.
\* An entry that is not connected and has not given up waits for an answer or a
\* retry.
LostIsRetried ==
    active => \A s \in clients :
      InUse(s) # {} \/ retry_timers[s] > 0 \/ GivesUp(s)
=============================================================================
