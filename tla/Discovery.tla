----------------------------- MODULE Discovery -----------------------------
(***************************************************************************)
(* What a node knows of one remote node it discovered (Discovery,          *)
(* Discovery_nodestorage, Discovery_updateserviceinfo).  The remote node    *)
(* announces a nonce that changes with its services; a new nonce makes an   *)
(* updater connect and ask for the services.  Announcements are datagrams:  *)
(* they are lost, late and out of order.  A node that is not announced for  *)
(* a minute is lost, while its updater and what this posted live on with    *)
(* the storage they hold.                                                   *)
(***************************************************************************)
EXTENDS Integers, Sequences, SequencesExt, FiniteSets

CONSTANTS
    Histories,      \* the lists of services the remote node may have, one after the other
    MaxStorages,    \* bound on how often the node is discovered
    RecentNonces,   \* how many nonces are remembered: 16 in the code
    MaxTries,       \* how often an updater tries: 3 in the code
    MaxUpdates      \* bound on the updaters started for a storage

ASSUME DiscoveryAssumption ==
    /\ MaxStorages \in Nat \ {0}
    /\ RecentNonces \in Nat \ {0} /\ MaxTries \in Nat \ {0} /\ MaxUpdates \in Nat \ {0}

VARIABLES
    remote,         \* the remote node
    storages,       \* the storages that were made for it
    discovered,     \* the one in m_DiscoveredNodes, 0: none
    subscriptions   \* TRUE: there are some

discoveryVars == <<remote, storages, discovered, subscriptions>>

\* The empty nonce, and the state of a storage no updater runs for.
NoNonce == 0
Idle == [phase |-> "idle"]

Storage(nonce, recent, updater, posted, started) ==
    [nonce |-> nonce, last_update_nonce |-> NoNonce,
     as_of |-> 0,   \* the version of the services, 0: no services yet
     recent |-> recent, updater |-> updater, posted |-> posted, started |-> started]

NewStorage(nonce) == Storage(nonce, <<nonce>>, Idle, {}, 0)

\* A storage of a lost node lives on in its updater and in the results it posted:
\* nothing but what these need of it is kept.
Gone == Storage(NoNonce, <<>>, Idle, {}, 0)

Kept(st) == IF st.updater = Idle /\ st.posted = {} THEN Gone
            ELSE Storage(st.nonce, <<>>, st.updater, st.posted, st.started)

Held(sts, found) == [i \in DOMAIN sts |-> IF i = found THEN sts[i] ELSE Kept(sts[i])]

Bounded(sts) == \A i \in DOMAIN sts : sts[i].started <= MaxUpdates

\* Mutant: services get the nonce known when they come, not when they were asked for.
NonceAtEnd(st, answer) == st.nonce

NonceAsked(st, answer) == answer.nonce

AnnouncedNonce(version) == IF remote.announces_nonce THEN version ELSE NoNonce

DiscoveryInit ==
    /\ \E history \in Histories, nonce \in BOOLEAN :
         remote = [version |-> 1, history |-> history, announces_nonce |-> nonce]
    /\ storages = <<>> /\ discovered = 0
    /\ subscriptions = FALSE

-----------------------------------------------------------------------------
\* The remote node registers or unregisters a service.
RemoteChanges ==
    /\ remote.version < Len(remote.history)
    /\ remote' = [remote EXCEPT !.version = @ + 1]
    /\ UNCHANGED <<storages, discovered, subscriptions>>

Updating(st) == st.updater # Idle

AsyncUpdateServiceInfo(st) ==
    [st EXCEPT !.updater = [phase |-> "backoff", nonce |-> st.nonce, tries |-> 0],
               !.started = @ + 1]

RetryUpdateServiceInfo(st) == IF Updating(st) THEN st ELSE AsyncUpdateServiceInfo(st)

\* Set first, even when the announcement is an old one.
WithNonce(st, nonce) == IF nonce = NoNonce THEN st ELSE [st EXCEPT !.nonce = nonce]

WasRecent(st, nonce) == nonce # NoNonce /\ nonce \in ToSet(st.recent)

Remember(st, nonce) ==
    LET recent == Append(st.recent, nonce) IN
    CASE nonce = NoNonce -> st
      [] nonce # NoNonce /\ Len(recent) > RecentNonces -> [st EXCEPT !.recent = Tail(recent)]
      [] nonce # NoNonce /\ Len(recent) <= RecentNonces -> [st EXCEPT !.recent = recent]

OutOfDate(st) == st.nonce # st.last_update_nonce \/ st.nonce = NoNonce

\* An announcement of a known node.
Announced(st, nonce) ==
    LET named == WithNonce(st, nonce)
        remembered == Remember(named, nonce)
    IN CASE WasRecent(st, nonce) -> named
         [] ~WasRecent(st, nonce) /\ subscriptions /\ OutOfDate(remembered)
              -> RetryUpdateServiceInfo(remembered)
         [] ~WasRecent(st, nonce) /\ ~(subscriptions /\ OutOfDate(remembered))
              -> remembered

FirstAnnounced(nonce) == IF subscriptions THEN AsyncUpdateServiceInfo(NewStorage(nonce))
                                          ELSE NewStorage(nonce)

NodeDetected ==
    /\ \E version \in 1..remote.version :
         LET nonce == AnnouncedNonce(version) IN
         \/ /\ discovered # 0
            /\ storages' = [storages EXCEPT ![discovered] = Announced(@, nonce)]
            /\ UNCHANGED discovered
         \/ /\ discovered = 0 /\ Len(storages) < MaxStorages
            /\ storages' = Append(storages, FirstAnnounced(nonce))
            /\ discovered' = Len(storages) + 1
    /\ Bounded(storages')
    /\ UNCHANGED <<remote, subscriptions>>

\* CleanDiscoveredNodes; who subscribed is told in the same step.
LoseNode == /\ discovered # 0 /\ discovered' = 0
            /\ storages' = Held(storages, 0)
            /\ UNCHANGED <<remote, subscriptions>>

-----------------------------------------------------------------------------
(* The updater of a storage.                                               *)

Fail(st) ==
    IF st.updater.tries + 1 < MaxTries
    THEN [st EXCEPT !.updater = [phase |-> "backoff", nonce |-> st.updater.nonce,
                                 tries |-> st.updater.tries + 1]]
    ELSE [st EXCEPT !.updater = Idle]   \* and the null result posted changes nothing

\* The URLs of a node that was lost are gone: connecting throws.
backoff_timer_handler ==
    /\ \E i \in DOMAIN storages :
         LET st == storages[i] IN
         /\ Updating(st) /\ st.updater.phase = "backoff"
         /\ storages' = Held([storages EXCEPT ![i] =
                           IF i = discovered THEN [st EXCEPT !.updater.phase = "connecting"]
                                             ELSE Fail(st)], discovered)
    /\ UNCHANGED <<remote, discovered, subscriptions>>

\* The remote node is connected and answers GetLocalNodeServices.
RemoteAnswers ==
    /\ \E i \in DOMAIN storages :
         LET st == storages[i] IN
         /\ Updating(st) /\ st.updater.phase = "connecting"
         /\ storages' = [storages EXCEPT ![i].updater =
              [phase |-> "answered", nonce |-> st.updater.nonce, tries |-> st.updater.tries,
               as_of |-> remote.version]]
    /\ UNCHANGED <<remote, discovered, subscriptions>>

\* No connection, another node, no answer, or a bad one.  When the request cannot be
\* sent the code comes here twice, for the exception and for the entry it left in the
\* request table, and goes on with two attempts at once.  They share the count of tries
\* and the handler, which whatever ends first takes, so that what becomes of the
\* storage is what one attempt that fails as often, or succeeds, makes of it; the
\* second attempt is not modelled.
handle_error ==
    /\ \E i \in DOMAIN storages :
         /\ Updating(storages[i]) /\ storages[i].updater.phase \in {"connecting", "answered"}
         /\ storages' = Held([storages EXCEPT ![i] = Fail(@)], discovered)
    /\ UNCHANGED <<remote, discovered, subscriptions>>

\* From here on the storage has no updater, though the result is not there yet.
serviceinfo_handler ==
    /\ \E i \in DOMAIN storages :
         LET u == storages[i].updater IN
         /\ Updating(storages[i]) /\ u.phase = "answered"
         /\ storages' = [storages EXCEPT ![i].updater = Idle,
              ![i].posted = @ \cup {[nonce |-> u.nonce, as_of |-> u.as_of]}]
    /\ UNCHANGED <<remote, discovered, subscriptions>>

Updated(st, answer) ==
    [st EXCEPT !.as_of = answer.as_of,
               !.last_update_nonce = NonceAsked(st, answer),
               !.posted = @ \ {answer}]

\* A nonce that changed during the update asks for another.
Ended(st, answer) ==
    LET updated == Updated(st, answer) IN
    IF updated.last_update_nonce # updated.nonce THEN RetryUpdateServiceInfo(updated)
                                                 ELSE updated

\* Who subscribed is told of storage i in the same step.
EndUpdateServiceInfo(i, answer) ==
    /\ storages' = Held([storages EXCEPT ![i] = Ended(@, answer)], discovered)
    /\ Bounded(storages')
    /\ UNCHANGED <<remote, discovered, subscriptions>>

-----------------------------------------------------------------------------
\* The new subscription is told of the discovered node in the same step.
DoSubscribe ==
    /\ subscriptions' = TRUE
    /\ storages' = IF discovered # 0 /\ OutOfDate(storages[discovered])
                   THEN [storages EXCEPT ![discovered] = RetryUpdateServiceInfo(@)]
                   ELSE storages
    /\ Bounded(storages')
    /\ UNCHANGED <<remote, discovered>>

SubscriptionClosed == /\ subscriptions' = FALSE
                      /\ UNCHANGED <<remote, storages, discovered>>

DiscoveryNext ==
    \/ RemoteChanges \/ NodeDetected
    \/ backoff_timer_handler \/ RemoteAnswers \/ handle_error \/ serviceinfo_handler

-----------------------------------------------------------------------------
Versions == 1..Len(remote.history)
Nonces == {NoNonce} \cup Versions

UpdaterOK(u) ==
    \/ u = Idle
    \/ /\ u.phase \in {"backoff", "connecting", "answered"}
       /\ u.nonce \in Nonces /\ u.tries \in 0..(MaxTries - 1)
       /\ u.phase = "answered" => u.as_of \in Versions

DiscoveryTypeOK ==
    /\ remote.history \in Histories /\ remote.version \in Versions
    /\ remote.announces_nonce \in BOOLEAN
    /\ Len(storages) <= MaxStorages /\ discovered \in 0..Len(storages)
    /\ subscriptions \in BOOLEAN
    /\ \A i \in DOMAIN storages : LET st == storages[i] IN
         /\ {st.nonce, st.last_update_nonce} \cup ToSet(st.recent) \subseteq Nonces
         /\ st.as_of \in 0..Len(remote.history)
         /\ Len(st.recent) <= RecentNonces
         /\ UpdaterOK(st.updater) /\ st.started <= MaxUpdates
         /\ st.posted \subseteq [nonce : Nonces, as_of : Versions]

\* The services of a node are never older than the nonce they are kept under,
\* so that an equal nonce in an announcement means there is nothing new, though
\* the list changes while updates run, end out of order, fail and are retried
\* (service_nonce, EndUpdateServiceInfo).
NoOlderThanNonce ==
    \A i \in DOMAIN storages : storages[i].as_of >= storages[i].last_update_nonce
=============================================================================
