------------------------ MODULE ServiceSubscription ------------------------
(***************************************************************************)
(* A subscription that keeps one client connected to each service it was    *)
(* told of (ServiceSubscription): by type, told by discovery, or to one     *)
(* service by its URL.  Connecting, the service and the transport are       *)
(* external: a connect ends late, either way, and a connection is lost or   *)
(* closed by the service at any time, even before ClientConnected has run.  *)
(* A client object lives as long as its connection, or as the application   *)
(* holds it: the subscription's own pointer to it is weak.                  *)
(***************************************************************************)
EXTENDS Integers, Sequences, FiniteSets

CONSTANTS
    Services,       \* the services that match the subscription
    MaxConnects,    \* bound on the connects
    MaxErrors       \* errors after which it gives up: 25 in the code

ASSUME ServiceSubscriptionAssumption ==
    /\ IsFiniteSet(Services) /\ MaxConnects \in Nat /\ MaxErrors \in Nat

VARIABLES
    active, use_service_url,
    clients,        \* the services in the map
    client,         \* service -> its client, an index of connections; 0: none
    claimed, error_count,
    retry_timers,   \* service -> how many timers run that were not cancelled
    update_is_old,  \* service -> last_node_update is 65 seconds ago
    connections,    \* every client context, in the order of the connects
    held,           \* the clients the application holds
    left            \* history: what was not in ClientConnected when Close ran,
                    \* or was claimed

entries == <<clients, client, claimed, error_count, retry_timers, update_is_old>>
subscriptionVars == <<active, use_service_url, entries, connections, held, left>>

None == 0

\* The state of a connection; "dropped" is closing because the subscription
\* closes it, "detached" that the subscription has forgotten its entry since.
Connecting(s) == [service |-> s, state |-> "connecting", answered |-> FALSE,
                  detached |-> FALSE]
States == {"connecting", "failed", "open", "lost", "closing", "dropped", "closed"}

SubscriptionInit ==
    /\ active = FALSE /\ use_service_url \in BOOLEAN
    /\ clients = {} /\ client = [s \in Services |-> None]
    /\ claimed = [s \in Services |-> FALSE]
    /\ error_count = [s \in Services |-> 0]
    /\ retry_timers = [s \in Services |-> 0]
    /\ update_is_old = [s \in Services |-> FALSE]
    /\ connections = <<>> /\ held = {} /\ left = {}

\* The weak pointer to a client can be locked: its context still has the stub.
Alive(c) == connections[c].state # "closed" \/ c \in held
Connected(s) == client[s] # None /\ Alive(client[s])

\* AsyncConnectService for these services, one after the other.
AsyncConnectService(seq) ==
    connections' = connections \o [i \in DOMAIN seq |-> Connecting(seq[i])]

CanConnect(n) == Len(connections) + n <= MaxConnects

\* AsyncDisconnectService by the subscription; closing already is left alone.
Dropped(cs) ==
    [c \in DOMAIN connections |->
       IF c \in cs /\ connections[c].state \in {"open", "lost"}
       THEN [connections[c] EXCEPT !.state = "dropped"] ELSE connections[c]]

-----------------------------------------------------------------------------
(* ConnectRetry                                                            *)

GivesUp(s) == error_count[s] > MaxErrors /\ ~use_service_url

\* The count, which has no other effect with a URL, stops at its bound.
ConnectRetry(s) ==
    IF GivesUp(s) THEN UNCHANGED <<error_count, retry_timers>>
    ELSE /\ error_count' = [error_count EXCEPT
                              ![s] = IF @ > MaxErrors THEN @ ELSE @ + 1]
         /\ retry_timers' = [retry_timers EXCEPT ![s] = @ + (IF active THEN 1 ELSE 0)]

\* timer_handler, and ConnectRetry2 when the node was updated in time.
RetryConnects ==
    \E s \in Services :
      /\ retry_timers[s] > 0 /\ (use_service_url \/ ~update_is_old[s])
      /\ \/ /\ CanConnect(1) /\ AsyncConnectService(<<s>>)
            /\ retry_timers' = [retry_timers EXCEPT ![s] = @ - 1]
            /\ UNCHANGED error_count
         \/ /\ retry_timers' = [retry_timers EXCEPT ![s] = IF GivesUp(s) THEN @ - 1 ELSE @]
            /\ error_count' = [error_count EXCEPT   \* it throws: ConnectRetry
                                 ![s] = IF @ > MaxErrors THEN @ ELSE @ + 1]
            /\ UNCHANGED connections
      /\ UNCHANGED <<active, use_service_url, clients, client, claimed, update_is_old,
                     held, left>>

\* What is forgotten of services, for an entry may be made for them again.
Forgotten(S) ==
    /\ clients' = clients \ S
    /\ client' = [s \in Services |-> IF s \in S THEN None ELSE client[s]]
    /\ claimed' = [s \in Services |-> s \notin S /\ claimed[s]]
    /\ error_count' = [s \in Services |-> IF s \in S THEN 0 ELSE error_count[s]]
    /\ retry_timers' = [s \in Services |-> IF s \in S THEN 0 ELSE retry_timers[s]]
    /\ update_is_old' = [s \in Services |-> s \notin S /\ update_is_old[s]]

Detached(S) == [c \in DOMAIN connections |->
                  [connections[c] EXCEPT !.detached = @ \/ connections[c].service \in S]]

\* ConnectRetry2 takes a node without an update for one that is lost.
RetryForgets ==
    \E s \in Services :
      /\ retry_timers[s] > 0 /\ ~use_service_url /\ update_is_old[s]
      /\ Forgotten({s})
      /\ connections' = Detached({s})
      /\ UNCHANGED <<active, use_service_url, held, left>>

\* Time passes; the event loop of a page may be suspended for any time.
UpdateGrowsOld ==
    \E s \in clients :
      /\ ~use_service_url /\ ~update_is_old[s]
      /\ update_is_old' = [update_is_old EXCEPT ![s] = TRUE]
      /\ UNCHANGED <<active, use_service_url, clients, client, claimed, error_count,
                     retry_timers, connections, held, left>>

-----------------------------------------------------------------------------
(* NodeUpdated                                                             *)

\* Services after the first that is connected are not looked at.
LookedAt(list) ==
    {list[i] : i \in {k \in DOMAIN list : \A j \in 1..k : ~Connected(list[j])}}

\* Mutant: the timer that runs is not cancelled when one is started.
StartsSecond(s) == retry_timers[s] + (IF retry_timers[s] > 0 THEN 1 ELSE 0)

RestartedTimer(s) == IF retry_timers[s] > 0 THEN 1 ELSE 0

\* These services one after the other, as the list has them.
InOrder(seq, list) ==
    \A i, j \in DOMAIN seq : i < j =>
      \E k, l \in DOMAIN list : k < l /\ list[k] = seq[i] /\ list[l] = seq[j]

\* Where connecting throws no entry is made, and the retry timer of the entry
\* that was not made does nothing.
LookAt(list) ==
    /\ \E new \in SUBSET (LookedAt(list) \ clients) :
         /\ CanConnect(Cardinality(new))
         /\ \E connects \in [1..Cardinality(new) -> new] :
              InOrder(connects, list) /\ AsyncConnectService(connects)
         /\ clients' = clients \cup new
    /\ LET known == LookedAt(list) \cap clients IN
       /\ retry_timers' = [s \in Services |-> IF s \in known THEN RestartedTimer(s)
                                              ELSE retry_timers[s]]
       /\ update_is_old' = [s \in Services |-> update_is_old[s] /\ s \notin known]
    /\ UNCHANGED <<use_service_url, client, claimed, error_count, held, left>>

\* Init, with what discovery knows already, and NodeUpdated from then on.
Init_ByType(list) == ~active /\ active' = TRUE /\ LookAt(list)

NodeUpdated(list) == IF active THEN LookAt(list) /\ UNCHANGED active
                               ELSE UNCHANGED subscriptionVars

\* When connecting throws there is no entry, and nothing is ever retried.
InitServiceURL ==
    /\ ~active /\ active' = TRUE
    /\ \E s \in Services :
         \/ /\ CanConnect(1) /\ AsyncConnectService(<<s>>) /\ clients' = {s}
         \/ UNCHANGED <<connections, clients>>
    /\ UNCHANGED <<use_service_url, client, claimed, error_count, retry_timers,
                   update_is_old, held, left>>

-----------------------------------------------------------------------------
(* ClientConnected                                                         *)

ConnectEnds ==
    /\ \E c \in DOMAIN connections, state \in {"open", "failed"} :
         /\ connections[c].state = "connecting"
         /\ connections' = [connections EXCEPT ![c].state = state]
    /\ UNCHANGED <<active, use_service_url, entries, held, left>>

ClientConnectFails ==
    \E c \in DOMAIN connections :
      /\ connections[c].state = "failed" /\ ~connections[c].answered
      /\ connections' = [connections EXCEPT ![c].answered = TRUE]
      /\ ConnectRetry(connections[c].service)
      /\ UNCHANGED <<active, use_service_url, clients, client, claimed, update_is_old,
                     held, left>>

\* The client is kept after Close, too; a listener may keep it before.
ClientConnects ==
    \E c \in DOMAIN connections :
      LET s == connections[c].service IN
      /\ connections[c].state \notin {"connecting", "failed"} /\ ~connections[c].answered
      /\ connections' = [connections EXCEPT ![c].answered = TRUE]
      /\ client' = [client EXCEPT ![s] = c]
      /\ error_count' = [error_count EXCEPT ![s] = 0]
      /\ \/ active /\ held' = held \cup {c}
         \/ UNCHANGED held
      /\ UNCHANGED <<active, use_service_url, clients, claimed, retry_timers,
                     update_is_old, left>>

-----------------------------------------------------------------------------
(* ClientEvent                                                             *)

\* Mutant: an event of another connection of the service counts as well.
AnyOf(s, c) == client[s] # None

IsClient(s, c) == client[s] = c

\* Mutant: a claimed client that was lost is closed, too.
LostIsDropped(s, c) == {c}

Unclaimed(s, c) == IF claimed[s] THEN {} ELSE {c}

\* An event of connection c, whose state after it is given: alive says if the
\* pointer to the client can be locked.
ClientEvent(c, after, alive) ==
    LET s == after[c].service IN
    IF ~after[c].detached /\ alive /\ IsClient(s, c)
    THEN /\ client' = [client EXCEPT ![s] = None]
         /\ claimed' = [claimed EXCEPT ![s] = FALSE]
         /\ ConnectRetry(s)
         /\ connections' = [after EXCEPT ![c].state =
               IF c \in Unclaimed(s, c) /\ @ = "lost" THEN "dropped" ELSE @]
    ELSE /\ claimed' = IF after[c].detached \/ (Connected(s) /\ ~IsClient(s, c))
                       THEN claimed ELSE [claimed EXCEPT ![s] = FALSE]
         /\ connections' = after
         /\ UNCHANGED <<client, error_count, retry_timers>>

ConnectionLost ==
    /\ \E c \in DOMAIN connections :
         /\ connections[c].state = "open"
         /\ connections' = [connections EXCEPT ![c].state = "lost"]
    /\ UNCHANGED <<active, use_service_url, entries, held, left>>

\* TransportConnectionClosed, and ClientConnectionTimeout as often as it likes.
LostEvent ==
    \E c \in DOMAIN connections :
      /\ connections[c].state = "lost"
      /\ ClientEvent(c, connections, TRUE)
      /\ UNCHANGED <<active, use_service_url, clients, update_is_old, held, left>>

\* The service was closed, or the application disconnects a client it holds.
Closing ==
    /\ \E c \in DOMAIN connections :
         /\ \/ connections[c].state = "open"
            \/ connections[c].state = "lost" /\ c \in held
         /\ connections' = [connections EXCEPT ![c].state = "closing"]
    /\ UNCHANGED <<active, use_service_url, entries, held, left>>

\* AsyncClose1: the stubs are gone before the listener hears of it.
AsyncClose1 ==
    \E c \in DOMAIN connections :
      /\ connections[c].state \in {"closing", "dropped"}
      /\ ClientEvent(c, [connections EXCEPT ![c].state = "closed"], c \in held)
      /\ UNCHANGED <<active, use_service_url, clients, update_is_old, held, left>>

-----------------------------------------------------------------------------
(* The application.                                                        *)

\* GetConnectedClients and the like.
HoldClient ==
    /\ \E s \in clients : Connected(s) /\ held' = held \cup {client[s]}
    /\ UNCHANGED <<active, use_service_url, entries, connections, left>>

LetGo == /\ \E c \in held : held' = held \ {c}
         /\ UNCHANGED <<active, use_service_url, entries, connections, left>>

\* A client is found by its service, so that an old one will do (FindClient).
HasClientOf(s) == \E c \in held : connections[c].service = s

ClaimClient ==
    /\ active
    /\ \E s \in clients :
         /\ HasClientOf(s)
         /\ claimed' = [claimed EXCEPT ![s] = TRUE]
    /\ UNCHANGED <<active, use_service_url, clients, client, error_count, retry_timers,
                   update_is_old, connections, held, left>>

\* After Close the client is disconnected instead.
ReleaseClient ==
    /\ \/ /\ active
          /\ \E s \in clients :
               /\ HasClientOf(s)
               /\ claimed' = [claimed EXCEPT ![s] = FALSE]
          /\ UNCHANGED connections
       \/ /\ ~active
          /\ \E c \in held : connections' = Dropped({c})
          /\ UNCHANGED claimed
    /\ UNCHANGED <<active, use_service_url, clients, client, error_count, retry_timers,
                   update_is_old, held, left>>

\* The new URL is for the connects to come; close_connected is set.
UpdateServiceURL ==
    /\ active /\ use_service_url
    /\ connections' = Dropped({client[s] : s \in {t \in clients : ~claimed[t] /\ Connected(t)}})
    /\ UNCHANGED <<active, use_service_url, entries, held, left>>

AllConnected == {client[s] : s \in {t \in clients : Connected(t)}}

AllClaimed == {client[s] : s \in {t \in clients : Connected(t) /\ claimed[t]}}

\* Claimed clients are closed, too.  A connect in progress goes on, and its client
\* will not be closed.  What is left of timers and events finds its entry gone.
Close ==
    /\ active /\ active' = FALSE
    /\ connections' = [c \in DOMAIN connections |->
                         [Dropped(AllConnected)[c] EXCEPT !.detached = TRUE]]
    /\ claimed' = [s \in Services |-> FALSE]
    /\ clients' = {}
    /\ retry_timers' = [s \in Services |-> 0]
    /\ left' = {c \in DOMAIN connections : ~connections[c].answered} \cup AllClaimed
    /\ UNCHANGED <<use_service_url, client, error_count, update_is_old, held>>

SubscriptionNext ==
    \/ RetryConnects \/ RetryForgets \/ UpdateGrowsOld
    \/ ConnectEnds \/ ClientConnectFails \/ ClientConnects
    \/ ConnectionLost \/ LostEvent \/ Closing \/ AsyncClose1
    \/ HoldClient \/ LetGo \/ ClaimClient \/ ReleaseClient \/ UpdateServiceURL

-----------------------------------------------------------------------------
SubscriptionTypeOK ==
    /\ active \in BOOLEAN /\ use_service_url \in BOOLEAN
    /\ clients \subseteq Services
    /\ client \in [Services -> 0..Len(connections)]
    /\ claimed \in [Services -> BOOLEAN]
    /\ error_count \in [Services -> 0..(MaxErrors + 1)]
    /\ retry_timers \in [Services -> 0..1]
    /\ update_is_old \in [Services -> BOOLEAN]
    /\ connections \in Seq([service : Services, state : States, answered : BOOLEAN,
                            detached : BOOLEAN])
    /\ Len(connections) <= MaxConnects
    /\ held \subseteq DOMAIN connections /\ left \subseteq DOMAIN connections
=============================================================================
