-------------------------- MODULE Connector_proofs --------------------------
(***************************************************************************)
(* Proofs about Connector for every set of candidate URLs.                 *)
(***************************************************************************)
EXTENDS Connector, FiniteSetTheorems, TLAPS

\* Everything in progress has a key of its own (active_count only counts up).
LEMMA KeysDiffer ==
  /\ \A u, v \in URLs : TransportKey(u) = TransportKey(v) => u = v
  /\ \A u, v \in URLs : ServiceKey(u) = ServiceKey(v) => u = v
  /\ \A u, v \in URLs : TransportKey(u) # ServiceKey(v)
  /\ \A u \in URLs : TransportKey(u) # MainKey /\ ServiceKey(u) # MainKey
  BY DEF TransportKey, ServiceKey, MainKey

\* They are the keys that TypeOK allows.
LEMMA KeysAreKeys ==
  MainKey \in Keys /\ \A u \in URLs : TransportKey(u) \in Keys /\ ServiceKey(u) \in Keys
  BY DEF Keys, TransportKey, ServiceKey

\* The invariant holds at first.
LEMMA InvariantInit == Init => IInv
  <1> SUFFICES ASSUME Init PROVE IInv  OBVIOUS
  <1> USE DEF Init
  <1>1. TypeOK  BY DEF TypeOK, Outcomes
  <1>2. HandlerOnce  BY DEF HandlerOnce
  <1>3. ActiveIsPending /\ NotStarted /\ Undecided  BY DEF ActiveIsPending, NotStarted, Undecided
  <1>4. Places  BY DEF Places
  <1>5. OneOpen  BY DEF OneOpen
  <1> QED BY <1>1, <1>2, <1>3, <1>4, <1>5 DEF IInv

\* What handle_error does to the list and to the handler.
LEMMA ErrorHandled ==
  ASSUME NEW keys \in SUBSET Keys, NEW key \in Keys, TypeOK, HandlerOnce, handle_error(keys, key)
  PROVE  /\ active' \in SUBSET Keys
         /\ ~connecting => active' = keys /\ ~connecting'
         /\ connecting => active' = keys \ {key}
         /\ connecting /\ active' # {} => connecting' 
         /\ connecting /\ active' = {} => ~connecting'
         /\ connecting' \in BOOLEAN /\ outcome' \in Outcomes /\ handler_calls' \in Nat
         /\ HandlerOnce'
         /\ outcome = "client" => outcome' = "client"
  <1>1. CASE ~connecting
    <2>1. active' = keys /\ UNCHANGED <<connecting, outcome, handler_calls>>
      BY <1>1 DEF handle_error, NoAnswer
    <2> QED BY <2>1, <1>1 DEF HandlerOnce, TypeOK
  <1>2. CASE connecting /\ active' # {}
    <2>1. active' = keys \ {key} /\ UNCHANGED <<connecting, outcome, handler_calls>>
      BY <1>2 DEF handle_error, NoAnswer
    <2> QED BY <2>1, <1>2 DEF HandlerOnce, TypeOK
  <1>3. CASE connecting /\ active' = {}
    <2>1. active' = keys \ {key} /\ Answer("all failed")  BY <1>3 DEF handle_error
    <2>2. connecting' = FALSE /\ outcome' = "all failed"  BY <2>1 DEF Answer
    <2>3. outcome = "none" /\ handler_calls = 0  BY <1>3 DEF HandlerOnce
    <2>4. handler_calls' = handler_calls + 1  BY <2>1 DEF Answer
    <2>5. handler_calls' = 1  BY <2>3, <2>4
    <2>6. handler_calls' <= 1 /\ handler_calls' # 0 /\ handler_calls' \in Nat  BY <2>5
    <2>7. HandlerOnce'  BY <2>2, <2>6, Zenon DEF HandlerOnce
    <2>8. active' \in SUBSET Keys  BY <2>1
    <2> QED BY <2>1, <2>2, <2>3, <2>6, <2>7, <2>8, <1>3, Zenon DEF Outcomes
  <1> QED BY <1>1, <1>2, <1>3

\* A step that concerns one candidate keeps the others where they are.
LEMMA OtherPlaces ==
  ASSUME Places, NEW u \in URLs, outcome = "client" => outcome' = "client",
         \A v \in URLs : v # u =>
            /\ v \in urls' <=> v \in urls
            /\ waiting'[v] = waiting[v] /\ endpoint'[v] = endpoint[v]
            /\ connection'[v] = connection[v],
         Places!(u)'
  PROVE  Places'
  <1> SUFFICES ASSUME NEW v \in URLs PROVE Places!(v)'  BY DEF Places
  <1>1. CASE v = u  BY <1>1
  <1>2. CASE v # u
    <2>1. Places!(v)  BY DEF Places
    <2>2. /\ v \in urls' <=> v \in urls
          /\ waiting'[v] = waiting[v] /\ endpoint'[v] = endpoint[v]
          /\ connection'[v] = connection[v]
      BY <1>2
    <2> QED BY <2>1, <2>2
  <1> QED BY <1>1, <1>2

-----------------------------------------------------------------------------
(* connect2                                                                *)

\* Trying the next URL keeps the invariant, with keys as the list at entry.
LEMMA ConnectStep ==
  ASSUME IInv, NEW keys \in SUBSET Keys, connect2(keys), started', connecting,
         MainKey \in keys,
         \A u \in URLs : /\ TransportKey(u) \in keys <=> waiting[u] = "transport"
                         /\ ServiceKey(u) \in keys <=> waiting[u] = "service",
         transport_connected => \E u \in URLs : waiting[u] = "service"
  PROVE  IInv'
  <1> USE DEF IInv
  <1>1. PICK u \in urls :
          /\ urls' = urls \ {u}
          /\ StartsCandidate(u, keys) \/ SkipsCandidate(u, keys) \/ LastCandidateThrows(u, keys)
          /\ UNCHANGED <<finite_timeout, transport_connected, connection>>
    BY DEF connect2
  <1>2. u \in URLs /\ waiting[u] = "none" /\ endpoint[u] = "none" /\ connection[u] = "none"
    BY DEF TypeOK, Places
  <1>3. MainKey \in Keys /\ TransportKey(u) \in Keys  BY <1>2, KeysAreKeys
  <1>4. CASE StartsCandidate(u, keys)
    <2> USE <1>1, <1>2, <1>3, <1>4 DEF StartsCandidate, NoAnswer
    <2>1. active' \in SUBSET Keys  OBVIOUS
    <2>2. TypeOK'  BY <2>1 DEF TypeOK
    <2>3. HandlerOnce'  BY DEF HandlerOnce
    <2>4. ActiveIsPending'
      <3>1. TransportKey(u) \in active'  BY KeysDiffer
      <3>2. MainKey \in active' <=> connect_backoff_timer'
        <4>1. CASE urls' = {}  BY <4>1
        <4>2. CASE urls' # {}  BY <4>2
        <4> QED BY <4>1, <4>2
      <3>3. ASSUME NEW v \in URLs
            PROVE  /\ TransportKey(v) \in active' <=> waiting'[v] = "transport"
                   /\ ServiceKey(v) \in active' <=> waiting'[v] = "service"
        <4>1. CASE v = u
          <5>1. waiting'[v] = "transport"  BY <4>1 DEF TypeOK
          <5>2. ServiceKey(u) \notin active'  BY KeysDiffer
          <5> QED BY <5>1, <5>2, <3>1, <4>1
        <4>2. CASE v # u
          <5>1. waiting'[v] = waiting[v]  BY <4>2 DEF TypeOK
          <5>2. TransportKey(v) # TransportKey(u) /\ ServiceKey(v) # TransportKey(u)
                /\ TransportKey(v) # MainKey /\ ServiceKey(v) # MainKey
            BY <4>2, KeysDiffer
          <5>3. /\ TransportKey(v) \in active' <=> TransportKey(v) \in keys
                /\ ServiceKey(v) \in active' <=> ServiceKey(v) \in keys
            BY <5>2
          <5> QED BY <5>1, <5>3
        <4> QED BY <4>1, <4>2
      <3> QED BY <3>1, <3>2, <3>3 DEF ActiveIsPending
    <2>5. NotStarted'  BY DEF NotStarted
    <2>6. Places'  BY DEF Places, TypeOK
    <2>7. OneOpen'  BY DEF OneOpen
    <2>8. Undecided'  BY DEF Undecided, TypeOK
    <2> QED BY <2>2, <2>3, <2>4, <2>5, <2>6, <2>7, <2>8
  <1>5. CASE SkipsCandidate(u, keys)
    <2> USE <1>1, <1>2, <1>3, <1>5 DEF SkipsCandidate, NoAnswer, Deleted
    <2>2. TypeOK'  BY DEF TypeOK
    <2>3. HandlerOnce'  BY DEF HandlerOnce
    <2>4. ActiveIsPending'  BY KeysDiffer DEF ActiveIsPending, TypeOK
    <2>5. NotStarted'  BY DEF NotStarted
    <2>6. Places'  BY DEF Places, TypeOK
    <2>7. OneOpen'  BY DEF OneOpen
    <2>8. Undecided'  BY DEF Undecided, TypeOK
    <2> QED BY <2>2, <2>3, <2>4, <2>5, <2>6, <2>7, <2>8
  <1>6. CASE LastCandidateThrows(u, keys)
    <2> USE <1>1, <1>2, <1>3, <1>6 DEF LastCandidateThrows, Deleted
    <2>1. /\ active' \in SUBSET Keys /\ active' = keys \ {MainKey}
          /\ active' # {} => connecting'
          /\ active' = {} => ~connecting'
          /\ connecting' \in BOOLEAN /\ outcome' \in Outcomes /\ handler_calls' \in Nat
          /\ HandlerOnce'
          /\ outcome = "client" => outcome' = "client"
      BY ErrorHandled
    <2>2. TypeOK'  BY <2>1 DEF TypeOK
    <2>4. ActiveIsPending'  BY <2>1, KeysDiffer DEF ActiveIsPending, TypeOK
    <2>5. NotStarted'  BY DEF NotStarted
    <2>6. Places'  BY <2>1 DEF Places, TypeOK
    <2>7. OneOpen'  BY DEF OneOpen
    <2>8. Undecided'  BY <2>1 DEF Undecided, TypeOK
    <2> QED BY <2>1, <2>2, <2>4, <2>5, <2>6, <2>7, <2>8
  <1> QED BY <1>1, <1>4, <1>5, <1>6

\* The first URL is tried.
LEMMA ConnectKeeps == IInv /\ Connect => IInv'
  <1> SUFFICES ASSUME IInv, Connect PROVE IInv'  OBVIOUS
  <1>1. ~started /\ started' /\ connect2({MainKey})  BY DEF Connect, KeysAtStart
  <1>2. connecting /\ ~transport_connected /\ \A u \in URLs : waiting[u] = "none"
    BY <1>1 DEF IInv, NotStarted
  <1>3. \A u \in URLs : TransportKey(u) \notin {MainKey} /\ ServiceKey(u) \notin {MainKey}
    BY KeysDiffer
  <1>4. {MainKey} \in SUBSET Keys /\ MainKey \in {MainKey}  BY KeysAreKeys
  <1> QED BY <1>1, <1>2, <1>3, <1>4, ConnectStep

\* The backoff timer tries the next URL, or finds the connect decided.
LEMMA BackoffKeeps == IInv /\ BackoffTimerFires => IInv'
  <1> SUFFICES ASSUME IInv, BackoffTimerFires PROVE IInv'  OBVIOUS
  <1>1. started /\ started' /\ connect_backoff_timer
    BY DEF BackoffTimerFires, IInv, NotStarted, TypeOK
  <1>2. CASE connecting
    <2>1. connect2(active)  BY <1>2 DEF BackoffTimerFires
    <2>2. active \in SUBSET Keys  BY DEF IInv, TypeOK
    <2>3. /\ MainKey \in active
          /\ \A u \in URLs : /\ TransportKey(u) \in active <=> waiting[u] = "transport"
                             /\ ServiceKey(u) \in active <=> waiting[u] = "service"
      BY <1>1, <1>2, Zenon DEF IInv, ActiveIsPending
    <2>4. transport_connected => \E u \in URLs : waiting[u] = "service"
      BY <1>1, <1>2 DEF IInv, Undecided
    <2> QED BY <1>1, <1>2, <2>1, <2>2, <2>3, <2>4, ConnectStep
  <1>3. CASE ~connecting
    <2>1. /\ connect_backoff_timer' = FALSE
          /\ UNCHANGED <<started, finite_timeout, urls, connecting, transport_connected, active,
                         connect_timer, waiting, endpoint, connection, outcome, handler_calls>>
      BY <1>3 DEF BackoffTimerFires
    <2>2. TypeOK'  BY <2>1 DEF IInv, TypeOK
    <2>3. HandlerOnce'  BY <2>1 DEF IInv, HandlerOnce
    <2>4. ActiveIsPending' /\ NotStarted' /\ Undecided'
      BY <1>3, <2>1, <1>1 DEF ActiveIsPending, NotStarted, Undecided
    <2>5. Places' /\ OneOpen'  BY <2>1 DEF IInv, Places, OneOpen
    <2> QED BY <2>2, <2>3, <2>4, <2>5 DEF IInv
  <1> QED BY <1>2, <1>3

-----------------------------------------------------------------------------
(* connected_transport, connected_client, connect_timer_callback           *)

\* Answering the caller while the connect is undecided, or not at all, keeps
\* the history straight.
LEMMA AnswerKeeps ==
  ASSUME TypeOK, HandlerOnce, NEW result \in Outcomes \ {"none"},
         IF connecting THEN Answer(result) ELSE NoAnswer
  PROVE  /\ HandlerOnce' /\ ~connecting' /\ handler_calls' \in Nat
         /\ connecting => outcome' = result
         /\ outcome' \in Outcomes
         /\ outcome = "client" => outcome' = "client"
  <1>1. CASE ~connecting
    <2>1. UNCHANGED <<connecting, outcome, handler_calls>>  BY <1>1 DEF NoAnswer
    <2> QED BY <2>1, <1>1 DEF HandlerOnce, TypeOK
  <1>2. CASE connecting
    <2>1. connecting' = FALSE /\ outcome' = result  BY <1>2 DEF Answer
    <2>2. outcome = "none" /\ handler_calls = 0  BY <1>2 DEF HandlerOnce
    <2>3. handler_calls' = handler_calls + 1  BY <1>2 DEF Answer
    <2>4. handler_calls' = 1  BY <2>2, <2>3
    <2>5. handler_calls' <= 1 /\ handler_calls' # 0 /\ handler_calls' \in Nat  BY <2>4
    <2>6. result # "none"  OBVIOUS
    <2>7. HandlerOnce'  BY <2>1, <2>5, <2>6, Zenon DEF HandlerOnce
    <2> QED BY <2>1, <2>2, <2>5, <2>7, <1>2, Zenon
  <1> QED BY <1>1, <1>2

\* What is waited for has started.
LEMMA WaitingStarted ==
  ASSUME IInv, NEW u \in URLs, waiting[u] # "none"
  PROVE  started /\ u \notin urls
  BY DEF IInv, NotStarted, Places, TypeOK

\* A failed transport connection leaves the list.
LEMMA TransportFailsKeeps == IInv /\ TransportFails => IInv'
  <1> SUFFICES ASSUME IInv, TransportFails PROVE IInv'  OBVIOUS
  <1> USE DEF IInv
  <1>1. PICK u \in URLs :
          /\ waiting[u] = "transport"
          /\ waiting' = [waiting EXCEPT ![u] = "none"]
          /\ endpoint' = Deleted(u)
          /\ handle_error(active, TransportKey(u))
          /\ UNCHANGED <<started, finite_timeout, urls, transport_connected, timers, connection>>
    BY DEF TransportFails
  <1>2. started /\ u \notin urls  BY <1>1, WaitingStarted
  <1>3. active \in SUBSET Keys /\ TransportKey(u) \in Keys  BY KeysAreKeys DEF TypeOK
  <1>4. /\ active' \in SUBSET Keys
        /\ ~connecting => ~connecting'
        /\ connecting => active' = active \ {TransportKey(u)}
        /\ connecting /\ active' = {} => ~connecting'
        /\ connecting' \in BOOLEAN /\ outcome' \in Outcomes /\ handler_calls' \in Nat
        /\ HandlerOnce'
        /\ outcome = "client" => outcome' = "client"
    BY <1>1, <1>3, ErrorHandled
  <1>5. waiting'[u] = "none" /\ \A v \in URLs : v # u => waiting'[v] = waiting[v]
    BY <1>1 DEF TypeOK
  <1>6. TypeOK'  BY <1>1, <1>4 DEF TypeOK, Deleted, timers
  <1>7. ActiveIsPending'
    <2> SUFFICES ASSUME connecting' PROVE ActiveIsPending'  BY DEF ActiveIsPending
    <2>1. connecting /\ active' = active \ {TransportKey(u)} /\ active' # {}
      BY <1>4 DEF TypeOK
    <2>2. MainKey \in active' <=> connect_backoff_timer'
      BY <1>1, <1>2, <2>1, KeysDiffer DEF ActiveIsPending, timers
    <2>3. ASSUME NEW v \in URLs
          PROVE  /\ TransportKey(v) \in active' <=> waiting'[v] = "transport"
                 /\ ServiceKey(v) \in active' <=> waiting'[v] = "service"
      BY <1>1, <1>2, <1>5, <2>1, KeysDiffer DEF ActiveIsPending
    <2> QED BY <2>1, <2>2, <2>3 DEF ActiveIsPending
  <1>8. NotStarted'  BY <1>1, <1>2 DEF NotStarted
  <1>9. Places'
    <2>1. endpoint'[u] = "deleted" /\ connection'[u] = "none" /\ u \notin urls'
      BY <1>1, <1>2 DEF TypeOK, Deleted, Places
    <2>2. \A v \in URLs : v # u => /\ v \in urls' <=> v \in urls
                                  /\ waiting'[v] = waiting[v] /\ endpoint'[v] = endpoint[v]
                                  /\ connection'[v] = connection[v]
      BY <1>1, <1>5 DEF TypeOK, Deleted
    <2> HIDE DEF IInv
    <2>3. Places!(u)'  BY <1>5, <2>1
    <2>4. Places  BY DEF IInv
    <2> QED BY <1>4, <2>2, <2>3, <2>4, OtherPlaces
  <1>10. OneOpen'  BY <1>1 DEF OneOpen
  <1>11. Undecided'  BY <1>1, <1>2, <1>4, <1>5 DEF Undecided, TypeOK, timers
  <1> QED BY <1>4, <1>6, <1>7, <1>8, <1>9, <1>10, <1>11

\* A connection that is not needed is closed; what else is in progress stays.
LEMMA LoserKeeps ==
  ASSUME IInv, NEW u \in URLs, waiting[u] = "transport", HaveOne, ClosesLoser(u),
         UNCHANGED <<started, finite_timeout, urls, timers>>
  PROVE  IInv'
  <1> USE DEF IInv
  <1>1. started /\ u \notin urls  BY WaitingStarted
  <1>2. /\ active' = IF connecting THEN active \ {TransportKey(u)} ELSE active
        /\ waiting' = [waiting EXCEPT ![u] = "none"]
        /\ endpoint' = Deleted(u) /\ connection' = Closed(u)
        /\ UNCHANGED <<started, finite_timeout, urls, connect_timer, connect_backoff_timer,
                       transport_connected, connecting, outcome, handler_calls>>
    BY DEF ClosesLoser, NoAnswer, timers
  <1>3. waiting'[u] = "none" /\ \A v \in URLs : v # u => waiting'[v] = waiting[v]
    BY <1>2 DEF TypeOK
  <1>4. TypeOK'  BY <1>2 DEF TypeOK, Deleted, Closed
  <1>5. HandlerOnce'  BY <1>2 DEF HandlerOnce
  <1>6. ActiveIsPending'
    <2> SUFFICES ASSUME connecting PROVE ActiveIsPending'  BY <1>2 DEF ActiveIsPending
    <2>1. active' = active \ {TransportKey(u)}  BY <1>2
    <2>2. MainKey \in active' <=> connect_backoff_timer'
      BY <1>1, <1>2, <2>1, KeysDiffer DEF ActiveIsPending
    <2>3. ASSUME NEW v \in URLs
          PROVE  /\ TransportKey(v) \in active' <=> waiting'[v] = "transport"
                 /\ ServiceKey(v) \in active' <=> waiting'[v] = "service"
      BY <1>1, <1>3, <2>1, KeysDiffer DEF ActiveIsPending
    <2>4. PICK v \in URLs : waiting[v] = "service"  BY <1>1 DEF HaveOne, Undecided
    <2>5. ServiceKey(v) \in active'  BY <1>3, <2>3, <2>4
    <2> QED BY <2>2, <2>3, <2>5 DEF ActiveIsPending
  <1>7. NotStarted'  BY <1>1, <1>2 DEF NotStarted
  <1>8. Places'
    <2>1. endpoint'[u] = "deleted" /\ connection'[u] = "closed" /\ u \notin urls'
      BY <1>1, <1>2 DEF TypeOK, Deleted, Closed
    <2>2. \A v \in URLs : v # u => /\ v \in urls' <=> v \in urls
                                  /\ waiting'[v] = waiting[v] /\ endpoint'[v] = endpoint[v]
                                  /\ connection'[v] = connection[v]
      BY <1>2, <1>3 DEF TypeOK, Deleted, Closed
    <2>5. outcome' = outcome  BY <1>2
    <2> HIDE DEF IInv
    <2>3. Places!(u)'  BY <1>3, <2>1
    <2>4. Places  BY DEF IInv
    <2> QED BY <2>2, <2>3, <2>4, <2>5, OtherPlaces
  <1>9. OneOpen'  BY <1>2 DEF OneOpen, TypeOK, Closed
  <1>10. Undecided'  BY <1>1, <1>2, <1>3 DEF Undecided, TypeOK
  <1> QED BY <1>4, <1>5, <1>6, <1>7, <1>8, <1>9, <1>10

\* The first transport connection goes on to connect the service.
LEMMA WinnerKeeps ==
  ASSUME IInv, NEW u \in URLs, waiting[u] = "transport", ~HaveOne, ConnectsService(u),
         UNCHANGED <<started, finite_timeout, urls, timers>>
  PROVE  IInv'
  <1> USE DEF IInv
  <1>1. started /\ u \notin urls /\ connecting /\ ~transport_connected
    BY WaitingStarted DEF HaveOne
  <1>2. /\ active' = (active \ {TransportKey(u)}) \cup {ServiceKey(u)}
        /\ transport_connected' = TRUE
        /\ waiting' = [waiting EXCEPT ![u] = "service"]
        /\ connection' = [connection EXCEPT ![u] = "open"]
        /\ UNCHANGED <<started, finite_timeout, urls, connect_timer, connect_backoff_timer,
                       endpoint, connecting, outcome, handler_calls>>
    BY DEF ConnectsService, NoAnswer, timers
  <1>3. waiting'[u] = "service" /\ \A v \in URLs : v # u => waiting'[v] = waiting[v]
    BY <1>2 DEF TypeOK
  <1>4. TypeOK'  BY <1>2, KeysAreKeys DEF TypeOK
  <1>5. HandlerOnce'  BY <1>2 DEF HandlerOnce
  <1>6. ActiveIsPending'
    <2>1. MainKey \in active' <=> connect_backoff_timer'
      BY <1>1, <1>2, KeysDiffer DEF ActiveIsPending
    <2>2. ASSUME NEW v \in URLs
          PROVE  /\ TransportKey(v) \in active' <=> waiting'[v] = "transport"
                 /\ ServiceKey(v) \in active' <=> waiting'[v] = "service"
      <3>1. CASE v = u  BY <3>1, <1>2, <1>3, KeysDiffer
      <3>2. CASE v # u  BY <3>2, <1>1, <1>2, <1>3, KeysDiffer DEF ActiveIsPending
      <3> QED BY <3>1, <3>2
    <2>3. active' # {}  BY <1>2
    <2> QED BY <2>1, <2>2, <2>3 DEF ActiveIsPending
  <1>7. NotStarted'  BY <1>1, <1>2 DEF NotStarted
  <1>8. Places'
    <2>1. endpoint'[u] = "registered" /\ connection'[u] = "open" /\ u \notin urls'
      BY <1>1, <1>2 DEF TypeOK, Places
    <2>2. \A v \in URLs : v # u => /\ v \in urls' <=> v \in urls
                                  /\ waiting'[v] = waiting[v] /\ endpoint'[v] = endpoint[v]
                                  /\ connection'[v] = connection[v]
      BY <1>2, <1>3 DEF TypeOK
    <2>5. outcome' = outcome  BY <1>2
    <2> HIDE DEF IInv
    <2>3. Places!(u)'  BY <1>3, <2>1
    <2>4. Places  BY DEF IInv
    <2> QED BY <2>2, <2>3, <2>4, <2>5, OtherPlaces
  <1>9. OneOpen'  BY <1>1, <1>2 DEF OneOpen, TypeOK
  <1>10. Undecided'  BY <1>1, <1>2, <1>3 DEF Undecided, TypeOK
  <1> QED BY <1>4, <1>5, <1>6, <1>7, <1>8, <1>9, <1>10

\* The whole transport is closed: it has no open connection of this connect.
LEMMA ThrowKeeps ==
  ASSUME IInv, NEW u \in URLs, waiting[u] = "transport", ~HaveOne, ServiceThrows(u),
         UNCHANGED <<started, finite_timeout, urls, timers>>
  PROVE  IInv'
  <1> USE DEF IInv
  <1>1. started /\ u \notin urls /\ connecting /\ ~transport_connected
    BY WaitingStarted DEF HaveOne
  <1>2. active \in SUBSET Keys /\ TransportKey(u) \in Keys  BY KeysAreKeys DEF TypeOK
  <1>3. /\ active' \in SUBSET Keys
        /\ active' = active \ {TransportKey(u)}
        /\ active' = {} => ~connecting'
        /\ connecting' \in BOOLEAN /\ outcome' \in Outcomes /\ handler_calls' \in Nat
        /\ HandlerOnce'
        /\ outcome = "client" => outcome' = "client"
    BY <1>1, <1>2, ErrorHandled DEF ServiceThrows
  <1>4. UNCHANGED <<started, finite_timeout, urls, connect_timer, connect_backoff_timer,
                    transport_connected>>
    BY DEF ServiceThrows, timers
  <1>5. /\ \/ waiting' = [waiting EXCEPT ![u] = "none"] /\ endpoint' = Deleted(u)
           \/ waiting' = [waiting EXCEPT ![u] = "late error"] /\ endpoint' = endpoint
        /\ connection' = [v \in URLs |-> IF v = u \/ connection[v] = "open"
                                         THEN "closed" ELSE connection[v]]
    BY DEF ServiceThrows
  <1>6. waiting'[u] \in {"none", "late error"} /\ \A v \in URLs : v # u => waiting'[v] = waiting[v]
    BY <1>5 DEF TypeOK
  <1>7. \A v \in URLs : connection[v] # "open"  BY <1>1 DEF OneOpen
  <1>8. connection'[u] = "closed" /\ \A v \in URLs : v # u => connection'[v] = connection[v]
    BY <1>5, <1>7
  <1>9. TypeOK'
    <2>1. waiting' \in [URLs -> {"none", "transport", "service", "late error"}]
          /\ endpoint' \in [URLs -> {"none", "registered", "released", "deleted"}]
      BY <1>5 DEF TypeOK, Deleted
    <2>2. connection' \in [URLs -> {"none", "open", "closed"}]  BY <1>5 DEF TypeOK
    <2> QED BY <1>3, <1>4, <2>1, <2>2 DEF TypeOK
  <1>10. ActiveIsPending'
    <2> SUFFICES ASSUME connecting' PROVE ActiveIsPending'  BY DEF ActiveIsPending
    <2>1. MainKey \in active' <=> connect_backoff_timer'
      BY <1>1, <1>3, <1>4, KeysDiffer DEF ActiveIsPending
    <2>2. ASSUME NEW v \in URLs
          PROVE  /\ TransportKey(v) \in active' <=> waiting'[v] = "transport"
                 /\ ServiceKey(v) \in active' <=> waiting'[v] = "service"
      <3>1. CASE v = u  BY <3>1, <1>1, <1>3, <1>6, KeysDiffer DEF ActiveIsPending
      <3>2. CASE v # u  BY <3>2, <1>1, <1>3, <1>6, KeysDiffer DEF ActiveIsPending
      <3> QED BY <3>1, <3>2
    <2>3. active' # {}  BY <1>3
    <2> QED BY <2>1, <2>2, <2>3 DEF ActiveIsPending
  <1>11. NotStarted'  BY <1>1, <1>4 DEF NotStarted
  <1>12. Places'
    <2>1. endpoint' \in {Deleted(u), endpoint}  BY <1>5
    <2>2. ASSUME NEW v \in URLs, v # u PROVE endpoint'[v] = endpoint[v]
      BY <2>1, <2>2 DEF Deleted, TypeOK
    <2>3. waiting'[u] = "none" => endpoint'[u] = "deleted"  BY <1>5 DEF Deleted, TypeOK
    <2>4. waiting'[u] = "late error" => endpoint'[u] = "registered"
      BY <1>5 DEF Places, TypeOK
    <2>5. outcome = "client" => outcome' = "client"  BY <1>3
    <2>6. \A v \in URLs : v # u =>
            /\ waiting'[v] = waiting[v] /\ endpoint'[v] = endpoint[v]
            /\ connection'[v] = connection[v]
      BY <1>6, <1>8, <2>2
    <2> SUFFICES ASSUME NEW v \in URLs PROVE Places!(v)'  BY DEF Places
    <2>7. CASE v = u
      BY <1>1, <1>4, <1>6, <1>8, <2>3, <2>4, <2>7
    <2>8. CASE v # u
      <3>1. Places!(v)  BY DEF Places
      <3> QED BY <3>1, <1>4, <2>5, <2>6, <2>8
    <2> QED BY <2>7, <2>8
  <1>13. OneOpen'  BY <1>7, <1>8 DEF OneOpen
  <1>14. Undecided'  BY <1>1, <1>3, <1>4 DEF Undecided, TypeOK
  <1> QED BY <1>3, <1>9, <1>10, <1>11, <1>12, <1>13, <1>14

\* An open transport connection is used, closed or makes the service throw.
LEMMA TransportConnectsKeeps == IInv /\ TransportConnects => IInv'
  BY LoserKeeps, WinnerKeeps, ThrowKeeps DEF TransportConnects

\* A failed service connect ends the connect.
LEMMA ServiceFailsKeeps == IInv /\ ServiceFails => IInv'
  <1> SUFFICES ASSUME IInv, ServiceFails PROVE IInv'  OBVIOUS
  <1> USE DEF IInv
  <1>1. PICK u \in URLs :
          /\ waiting[u] \in {"service", "late error"}
          /\ waiting' = [waiting EXCEPT ![u] = "none"]
          /\ endpoint' = Deleted(u) /\ connection' = Closed(u)
          /\ IF connecting THEN Answer("service failed") ELSE NoAnswer
          /\ UNCHANGED <<started, finite_timeout, urls, transport_connected, active, timers>>
    BY DEF ServiceFails
  <1>2. started /\ u \notin urls  BY <1>1, WaitingStarted
  <1>3. /\ HandlerOnce' /\ ~connecting' /\ handler_calls' \in Nat /\ outcome' \in Outcomes
        /\ outcome = "client" => outcome' = "client"
    BY <1>1, AnswerKeeps DEF Outcomes
  <1>4. waiting'[u] = "none" /\ \A v \in URLs : v # u => waiting'[v] = waiting[v]
    BY <1>1 DEF TypeOK
  <1>5. TypeOK'
    <2>1. waiting' \in [URLs -> {"none", "transport", "service", "late error"}]
          /\ endpoint' \in [URLs -> {"none", "registered", "released", "deleted"}]
          /\ connection' \in [URLs -> {"none", "open", "closed"}]
      BY <1>1 DEF TypeOK, Deleted, Closed
    <2>2. UNCHANGED <<started, finite_timeout, urls, transport_connected, active,
                      connect_timer, connect_backoff_timer>>
      BY <1>1 DEF timers
    <2>3. connecting' \in BOOLEAN  BY <1>1 DEF Answer, NoAnswer, TypeOK
    <2> QED BY <1>3, <2>1, <2>2, <2>3 DEF TypeOK
  <1>6. ActiveIsPending' /\ Undecided'  BY <1>3 DEF ActiveIsPending, Undecided
  <1>7. NotStarted'  BY <1>1, <1>2 DEF NotStarted
  <1>8. Places'
    <2>1. endpoint'[u] = "deleted" /\ connection'[u] = "closed" /\ u \notin urls'
      BY <1>1, <1>2 DEF TypeOK, Deleted, Closed
    <2>2. \A v \in URLs : v # u => /\ v \in urls' <=> v \in urls
                                  /\ waiting'[v] = waiting[v] /\ endpoint'[v] = endpoint[v]
                                  /\ connection'[v] = connection[v]
      BY <1>1, <1>4 DEF TypeOK, Deleted, Closed
    <2> HIDE DEF IInv
    <2>3. Places!(u)'  BY <1>4, <2>1
    <2>4. Places  BY DEF IInv
    <2> QED BY <1>3, <2>2, <2>3, <2>4, OtherPlaces
  <1>9. OneOpen'  BY <1>1 DEF OneOpen, TypeOK, Closed
  <1> QED BY <1>3, <1>5, <1>6, <1>7, <1>8, <1>9

\* A connected client goes to the caller or is disconnected.
LEMMA ServiceConnectsKeeps == IInv /\ ServiceConnects => IInv'
  <1> SUFFICES ASSUME IInv, ServiceConnects PROVE IInv'  OBVIOUS
  <1> USE DEF IInv
  <1>1. PICK u \in URLs :
          /\ waiting[u] = "service"
          /\ waiting' = [waiting EXCEPT ![u] = "none"]
          /\ ReleasesOrDisconnects(u)
          /\ UNCHANGED <<started, finite_timeout, urls, transport_connected, active, timers>>
    BY DEF ServiceConnects
  <1>2. started /\ u \notin urls  BY <1>1, WaitingStarted
  <1>3. IF connecting THEN Answer("client") ELSE NoAnswer  BY <1>1 DEF ReleasesOrDisconnects
  <1>4. /\ HandlerOnce' /\ ~connecting' /\ handler_calls' \in Nat /\ outcome' \in Outcomes
        /\ connecting => outcome' = "client"
        /\ outcome = "client" => outcome' = "client"
    BY <1>3, AnswerKeeps DEF Outcomes
  <1>5. waiting'[u] = "none" /\ \A v \in URLs : v # u => waiting'[v] = waiting[v]
    BY <1>1 DEF TypeOK
  <1>6. connection[u] = "open"  BY <1>1 DEF Places
  <1>7. \/ /\ connecting
           /\ endpoint' = [endpoint EXCEPT ![u] = "released"] /\ connection' = connection
        \/ endpoint' = Deleted(u) /\ connection' = Closed(u)
    BY <1>1 DEF ReleasesOrDisconnects
  <1>8. TypeOK'
    <2>1. waiting' \in [URLs -> {"none", "transport", "service", "late error"}]
          /\ endpoint' \in [URLs -> {"none", "registered", "released", "deleted"}]
          /\ connection' \in [URLs -> {"none", "open", "closed"}]
      BY <1>1, <1>7 DEF TypeOK, Deleted, Closed
    <2>2. UNCHANGED <<started, finite_timeout, urls, transport_connected, active,
                      connect_timer, connect_backoff_timer>>
      BY <1>1 DEF timers
    <2>3. connecting' \in BOOLEAN  BY <1>3 DEF Answer, NoAnswer, TypeOK
    <2> QED BY <1>4, <2>1, <2>2, <2>3 DEF TypeOK
  <1>9. ActiveIsPending' /\ Undecided'  BY <1>4 DEF ActiveIsPending, Undecided
  <1>10. NotStarted'  BY <1>1, <1>2 DEF NotStarted
  <1>11. Places'
    <2>1. u \notin urls' /\ \/ endpoint'[u] = "deleted" /\ connection'[u] = "closed"
                            \/ endpoint'[u] = "released" /\ connection'[u] = "open" /\ connecting
      BY <1>1, <1>2, <1>6, <1>7 DEF TypeOK, Deleted, Closed
    <2>2. \A v \in URLs : v # u => /\ v \in urls' <=> v \in urls
                                  /\ waiting'[v] = waiting[v] /\ endpoint'[v] = endpoint[v]
                                  /\ connection'[v] = connection[v]
      BY <1>1, <1>5, <1>7 DEF TypeOK, Deleted, Closed
    <2> HIDE DEF IInv
    <2>3. Places!(u)'  BY <1>4, <1>5, <2>1
    <2>4. Places  BY DEF IInv
    <2> QED BY <1>4, <2>2, <2>3, <2>4, OtherPlaces
  <1>12. OneOpen'  BY <1>1, <1>7 DEF OneOpen, TypeOK, Closed
  <1> QED BY <1>4, <1>8, <1>9, <1>10, <1>11, <1>12

\* The connect timer ends an undecided connect.
LEMMA TimerKeeps == IInv /\ ConnectTimerFires => IInv'
  <1> SUFFICES ASSUME IInv, ConnectTimerFires PROVE IInv'  OBVIOUS
  <1> USE DEF IInv
  <1>1. /\ connect_timer' = FALSE
        /\ IF connecting THEN Answer("timed out") ELSE NoAnswer
        /\ UNCHANGED <<started, finite_timeout, urls, transport_connected, active,
                       connect_backoff_timer, waiting, endpoint, connection>>
    BY DEF ConnectTimerFires
  <1>2. /\ HandlerOnce' /\ ~connecting' /\ handler_calls' \in Nat /\ outcome' \in Outcomes
        /\ outcome = "client" => outcome' = "client"
    BY <1>1, AnswerKeeps DEF Outcomes
  <1>3. TypeOK'
    <2>1. connecting' \in BOOLEAN  BY <1>1 DEF Answer, NoAnswer, TypeOK
    <2> QED BY <1>1, <1>2, <2>1 DEF TypeOK
  <1>4. ActiveIsPending' /\ Undecided'  BY <1>2 DEF ActiveIsPending, Undecided
  <1>5. NotStarted'
    <2>1. connect_timer  BY DEF ConnectTimerFires
    <2>2. CASE started  BY <1>1, <2>2 DEF NotStarted
    <2>3. CASE ~started  BY <2>1, <2>3 DEF NotStarted
    <2> QED BY <2>2, <2>3
  <1>6. Places' /\ OneOpen'  BY <1>1, <1>2 DEF Places, OneOpen
  <1> QED BY <1>2, <1>3, <1>4, <1>5, <1>6

-----------------------------------------------------------------------------
\* Every step keeps the invariant.
LEMMA InvariantStep == IInv /\ [Next]_vars => IInv'
  <1> SUFFICES ASSUME IInv, [Next]_vars PROVE IInv'  OBVIOUS
  <1>1. CASE Next
    BY <1>1, ConnectKeeps, BackoffKeeps, TimerKeeps, TransportFailsKeeps,
       TransportConnectsKeeps, ServiceFailsKeeps, ServiceConnectsKeeps DEF Next
  <1>2. CASE UNCHANGED vars
    BY <1>2 DEF vars, timers, IInv, TypeOK, HandlerOnce, ActiveIsPending, NotStarted,
                Places, OneOpen, Undecided
  <1> QED BY <1>1, <1>2

\* The inductive invariant holds for every set of candidates.
THEOREM Invariance == Spec => []IInv
  BY InvariantInit, InvariantStep, PTL DEF Spec

\* The caller's handler is called once at most, however candidates, timers and
\* errors interleave (connecting).
THEOREM CalledOnce == Spec => []HandlerOnce
  <1>1. IInv => HandlerOnce  BY DEF IInv
  <1> QED BY <1>1, Invariance, PTL

\* A connect that is undecided has something in progress that will decide it.
THEOREM Progressing == Spec => []ActiveIsPending
  <1>1. IInv => ActiveIsPending  BY DEF IInv
  <1> QED BY <1>1, Invariance, PTL

\* The client the caller got keeps its connection.
THEOREM StaysConnected == Spec => []ClientStaysConnected
  <1>1. IInv => ClientStaysConnected
    BY DEF IInv, Places, TypeOK, ClientStaysConnected
  <1> QED BY <1>1, Invariance, PTL

\* Candidates that lost the race leave neither endpoint nor connection behind.
THEOREM NothingLeaks == Spec => []LosersReleased
  <1>1. IInv => LosersReleased
    <2> SUFFICES ASSUME IInv, NEW u \in URLs \ urls, waiting[u] = "none"
                 PROVE  \/ endpoint[u] = "deleted" /\ connection[u] # "open"
                        \/ endpoint[u] = "released" /\ outcome = "client"
                             /\ \A v \in URLs : endpoint[v] = "released" => v = u
      BY DEF LosersReleased
    <2> USE DEF IInv
    <2>1. CASE endpoint[u] = "deleted"  BY <2>1 DEF Places
    <2>2. CASE endpoint[u] # "deleted"
      <3>1. endpoint[u] = "released" /\ connection[u] = "open" /\ outcome = "client"
        BY <2>2 DEF Places
      <3>2. ASSUME NEW v \in URLs, endpoint[v] = "released" PROVE connection[v] = "open"
        BY <3>2 DEF Places, TypeOK
      <3> QED BY <3>1, <3>2 DEF OneOpen
    <2> QED BY <2>1, <2>2
  <1> QED BY <1>1, Invariance, PTL

\* One candidate at most connects the service.
THEOREM OneConnection == Spec => []OneServiceConnect
  <1>1. IInv => OneServiceConnect
    <2> SUFFICES ASSUME IInv PROVE OneServiceConnect  OBVIOUS
    <2> DEFINE S == {u \in URLs : connection[u] = "open"}
    <2>1. CASE S = {}
      BY <2>1, FS_EmptySet DEF OneServiceConnect
    <2>2. CASE S # {}
      <3>1. PICK u \in URLs : connection[u] = "open"  BY <2>2
      <3>2. S = {u}  BY <3>1 DEF IInv, OneOpen
      <3>3. Cardinality(S) = 1  BY <3>2, FS_Singleton
      <3> QED BY <3>3 DEF OneServiceConnect
    <2> QED BY <2>1, <2>2
  <1> QED BY <1>1, Invariance, PTL

\* handle_error reports the failure of the last thing in progress.
LEMMA LastError ==
  ASSUME NEW keys, NEW key, handle_error(keys, key), outcome = "none", outcome' = "all failed"
  PROVE  connecting /\ keys \subseteq {key}
  BY DEF handle_error, NoAnswer

\* The same for the list of URLs and for a candidate: everything was tried,
\* and nothing else is waited for.
LEMMA LastTransportError ==
  ASSUME IInv, NEW u \in URLs, waiting[u] = "transport", handle_error(active, TransportKey(u)),
         outcome = "none", outcome' = "all failed"
  PROVE  urls = {} /\ \A v \in URLs : v # u => waiting[v] \in {"none", "late error"}
  <1>1. connecting /\ active \subseteq {TransportKey(u)}  BY LastError
  <1>2. started  BY WaitingStarted
  <1>3. MainKey \notin active  BY <1>1, KeysDiffer
  <1>4. ~connect_backoff_timer  BY <1>1, <1>2, <1>3, Zenon DEF IInv, ActiveIsPending
  <1>5. urls = {}  BY <1>1, <1>2, <1>4 DEF IInv, Undecided
  <1>6. ASSUME NEW v \in URLs, v # u PROVE waiting[v] \in {"none", "late error"}
    <2>1. TransportKey(v) \notin active /\ ServiceKey(v) \notin active
      BY <1>1, <1>6, KeysDiffer
    <2>2. waiting[v] # "transport" /\ waiting[v] # "service"
      BY <1>1, <1>2, <2>1, Zenon DEF IInv, ActiveIsPending
    <2> QED BY <2>2 DEF IInv, TypeOK
  <1> QED BY <1>5, <1>6

\* The error of a candidate is the error of the connect only when every URL
\* was tried and every candidate has failed (handle_error).
THEOREM FailsLast == Spec => FailsWhenAllFailed
  <1> DEFINE AllFailed == urls' = {} /\ \A u \in URLs : waiting'[u] \in {"none", "late error"}
  <1>1. ASSUME IInv, Next, outcome = "none", outcome' = "all failed" PROVE AllFailed
    <2>1. ASSUME NEW keys, connect2(keys),
                 \A u \in URLs : /\ TransportKey(u) \in keys <=> waiting[u] = "transport"
                                 /\ ServiceKey(u) \in keys <=> waiting[u] = "service"
          PROVE  AllFailed
      <3>1. PICK u \in urls : LastCandidateThrows(u, keys)
        BY <1>1, <2>1 DEF connect2, StartsCandidate, SkipsCandidate, NoAnswer
      <3>2. keys \subseteq {MainKey}  BY <1>1, <3>1, LastError DEF LastCandidateThrows
      <3>3. ASSUME NEW v \in URLs PROVE waiting[v] \in {"none", "late error"}
        <4>1. TransportKey(v) \notin keys /\ ServiceKey(v) \notin keys  BY <3>2, KeysDiffer
        <4>2. waiting[v] # "transport" /\ waiting[v] # "service"  BY <2>1, <4>1, Zenon
        <4> QED BY <1>1, <4>2 DEF IInv, TypeOK
      <3> QED BY <3>1, <3>3 DEF LastCandidateThrows
    <2>2. CASE Connect
      <3>1. connect2({MainKey}) /\ ~started  BY <2>2 DEF Connect, KeysAtStart
      <3>2. \A u \in URLs : waiting[u] = "none"  BY <1>1, <3>1 DEF IInv, NotStarted
      <3>3. \A u \in URLs : TransportKey(u) \notin {MainKey} /\ ServiceKey(u) \notin {MainKey}
        BY KeysDiffer
      <3> QED BY <2>1, <3>1, <3>2, <3>3
    <2>3. CASE BackoffTimerFires
      <3>1. connect2(active) /\ connecting
        BY <1>1, <2>3 DEF BackoffTimerFires
      <3>2. started  BY <1>1, <2>3 DEF BackoffTimerFires, IInv, NotStarted
      <3>3. \A u \in URLs : /\ TransportKey(u) \in active <=> waiting[u] = "transport"
                            /\ ServiceKey(u) \in active <=> waiting[u] = "service"
        BY <1>1, <3>1, <3>2, Zenon DEF IInv, ActiveIsPending
      <3> QED BY <2>1, <3>1, <3>3
    <2>4. CASE TransportFails
      <3>1. PICK u \in URLs : /\ waiting[u] = "transport"
                              /\ waiting' = [waiting EXCEPT ![u] = "none"]
                              /\ handle_error(active, TransportKey(u))
                              /\ urls' = urls
        BY <2>4 DEF TransportFails
      <3>2. urls = {} /\ \A v \in URLs : v # u => waiting[v] \in {"none", "late error"}
        BY <1>1, <3>1, LastTransportError
      <3> QED BY <1>1, <3>1, <3>2 DEF IInv, TypeOK
    <2>5. CASE TransportConnects
      <3>1. PICK u \in URLs : waiting[u] = "transport" /\ ServiceThrows(u) /\ urls' = urls
        BY <1>1, <2>5 DEF TransportConnects, ClosesLoser, ConnectsService, NoAnswer
      <3>2. handle_error(active, TransportKey(u))  BY <3>1 DEF ServiceThrows
      <3>3. urls = {} /\ \A v \in URLs : v # u => waiting[v] \in {"none", "late error"}
        BY <1>1, <3>1, <3>2, LastTransportError
      <3>4. \/ waiting' = [waiting EXCEPT ![u] = "none"]
            \/ waiting' = [waiting EXCEPT ![u] = "late error"]
        BY <3>1 DEF ServiceThrows
      <3> QED BY <1>1, <3>1, <3>3, <3>4 DEF IInv, TypeOK
    <2>6. CASE ServiceFails \/ ServiceConnects \/ ConnectTimerFires
      <3>1. outcome' \in {outcome, "service failed", "client", "timed out"}
        BY <2>6 DEF ServiceFails, ServiceConnects, ReleasesOrDisconnects, ConnectTimerFires,
                    Answer, NoAnswer
      <3> QED BY <1>1, <3>1
    <2> QED BY <1>1, <2>2, <2>3, <2>4, <2>5, <2>6 DEF Next
  <1>2. IInv /\ [Next]_vars => [outcome = "none" /\ outcome' = "all failed" => AllFailed]_vars
    BY <1>1
  <1> QED BY <1>2, Invariance, PTL DEF Spec, FailsWhenAllFailed
=============================================================================
