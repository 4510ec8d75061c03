------------------------ MODULE Subscriptions_proofs ------------------------
(***************************************************************************)
(* Proofs about Subscriptions for every set of services, every history of   *)
(* the remote node and every bound.                                         *)
(***************************************************************************)
EXTENDS Subscriptions, FiniteSetTheorems, SequenceTheorems, TLAPS

-----------------------------------------------------------------------------
(* The storages of discovery.                                              *)

Updaters(n) ==
    {Idle}
    \cup [phase : {"backoff", "connecting"}, nonce : 0..n, tries : 0..(MaxTries - 1)]
    \cup [phase : {"answered"}, nonce : 0..n, tries : 0..(MaxTries - 1), as_of : 1..n]

Answers(n) == [nonce : 0..n, as_of : 1..n]

StorageRecords(n) ==
    [nonce : 0..n, last_update_nonce : 0..n, as_of : 0..n, recent : Seq(0..n),
     updater : Updaters(n), posted : SUBSET Answers(n), started : Nat]

\* When version v is the last of the node's n: no nonce known is newer than v, and
\* every answer, from the updater to the storage, is as new as the nonce it is for.
AsksInStep(u, v) ==
    u # Idle => u.nonce <= v /\ (u.phase = "answered" => u.nonce <= u.as_of)

AnswersInStep(posted) == \A answer \in posted : answer.nonce <= answer.as_of

InStep(st, v) ==
    /\ st.nonce <= v /\ st.last_update_nonce <= st.as_of
    /\ AsksInStep(st.updater, v) /\ AnswersInStep(st.posted)

StorageFits(st, n, v) ==
    /\ st \in StorageRecords(n) /\ Len(st.recent) <= RecentNonces
    /\ InStep(st, v)

StoragesFit(sts, n, v) ==
    /\ sts \in Seq(StorageRecords(n))
    /\ \A i \in DOMAIN sts : StorageFits(sts[i], n, v)

DiscoveryInv ==
    /\ remote \in [version : Nat, history : Histories, announces_nonce : BOOLEAN]
    /\ remote.version \in 1..Len(remote.history)
    /\ StoragesFit(storages, Len(remote.history), remote.version)
    /\ Bounded(storages)
    /\ Len(storages) <= MaxStorages /\ discovered \in 0..Len(storages)
    /\ subscriptions \in BOOLEAN

-----------------------------------------------------------------------------
\* One field of a storage changed.
SetNonce(st, nonce) == [st EXCEPT !.nonce = nonce]
SetLastNonce(st, last_update_nonce) == [st EXCEPT !.last_update_nonce = last_update_nonce]
SetAsOf(st, as_of) == [st EXCEPT !.as_of = as_of]
SetRecent(st, recent) == [st EXCEPT !.recent = recent]
SetUpdater(st, updater) == [st EXCEPT !.updater = updater]
SetPosted(st, posted) == [st EXCEPT !.posted = posted]
SetStarted(st, started) == [st EXCEPT !.started = started]

\* The fields of a storage and their types.
LEMMA StorageFields ==
  ASSUME NEW n \in Nat, NEW st \in StorageRecords(n)
  PROVE  /\ st.nonce \in 0..n /\ st.last_update_nonce \in 0..n /\ st.as_of \in 0..n
         /\ st.recent \in Seq(0..n) /\ st.updater \in Updaters(n)
         /\ st.posted \in SUBSET Answers(n) /\ st.started \in Nat
  BY Zenon DEF StorageRecords

\* A field changed leaves the others, and the type of the storage.
LEMMA SetNonceKeeps ==
  ASSUME NEW n \in Nat, NEW st \in StorageRecords(n), NEW x \in 0..n
  PROVE  /\ SetNonce(st, x) \in StorageRecords(n) /\ SetNonce(st, x).nonce = x
         /\ SetNonce(st, x).last_update_nonce = st.last_update_nonce /\ SetNonce(st, x).as_of = st.as_of
         /\ SetNonce(st, x).recent = st.recent /\ SetNonce(st, x).updater = st.updater
         /\ SetNonce(st, x).posted = st.posted /\ SetNonce(st, x).started = st.started
  BY DEF StorageRecords, SetNonce

LEMMA SetLastNonceKeeps ==
  ASSUME NEW n \in Nat, NEW st \in StorageRecords(n), NEW x \in 0..n
  PROVE  /\ SetLastNonce(st, x) \in StorageRecords(n) /\ SetLastNonce(st, x).last_update_nonce = x
         /\ SetLastNonce(st, x).nonce = st.nonce /\ SetLastNonce(st, x).as_of = st.as_of
         /\ SetLastNonce(st, x).recent = st.recent /\ SetLastNonce(st, x).updater = st.updater
         /\ SetLastNonce(st, x).posted = st.posted /\ SetLastNonce(st, x).started = st.started
  BY DEF StorageRecords, SetLastNonce

LEMMA SetAsOfKeeps ==
  ASSUME NEW n \in Nat, NEW st \in StorageRecords(n), NEW x \in 0..n
  PROVE  /\ SetAsOf(st, x) \in StorageRecords(n) /\ SetAsOf(st, x).as_of = x
         /\ SetAsOf(st, x).nonce = st.nonce /\ SetAsOf(st, x).last_update_nonce = st.last_update_nonce
         /\ SetAsOf(st, x).recent = st.recent /\ SetAsOf(st, x).updater = st.updater
         /\ SetAsOf(st, x).posted = st.posted /\ SetAsOf(st, x).started = st.started
  BY DEF StorageRecords, SetAsOf

LEMMA SetRecentKeeps ==
  ASSUME NEW n \in Nat, NEW st \in StorageRecords(n), NEW x \in Seq(0..n)
  PROVE  /\ SetRecent(st, x) \in StorageRecords(n) /\ SetRecent(st, x).recent = x
         /\ SetRecent(st, x).nonce = st.nonce /\ SetRecent(st, x).last_update_nonce = st.last_update_nonce
         /\ SetRecent(st, x).as_of = st.as_of /\ SetRecent(st, x).updater = st.updater
         /\ SetRecent(st, x).posted = st.posted /\ SetRecent(st, x).started = st.started
  BY DEF StorageRecords, SetRecent

LEMMA SetUpdaterKeeps ==
  ASSUME NEW n \in Nat, NEW st \in StorageRecords(n), NEW x \in Updaters(n)
  PROVE  /\ SetUpdater(st, x) \in StorageRecords(n) /\ SetUpdater(st, x).updater = x
         /\ SetUpdater(st, x).nonce = st.nonce /\ SetUpdater(st, x).last_update_nonce = st.last_update_nonce
         /\ SetUpdater(st, x).as_of = st.as_of /\ SetUpdater(st, x).recent = st.recent
         /\ SetUpdater(st, x).posted = st.posted /\ SetUpdater(st, x).started = st.started
  BY DEF StorageRecords, SetUpdater

LEMMA SetPostedKeeps ==
  ASSUME NEW n \in Nat, NEW st \in StorageRecords(n), NEW x \in SUBSET Answers(n)
  PROVE  /\ SetPosted(st, x) \in StorageRecords(n) /\ SetPosted(st, x).posted = x
         /\ SetPosted(st, x).nonce = st.nonce /\ SetPosted(st, x).last_update_nonce = st.last_update_nonce
         /\ SetPosted(st, x).as_of = st.as_of /\ SetPosted(st, x).recent = st.recent
         /\ SetPosted(st, x).updater = st.updater /\ SetPosted(st, x).started = st.started
  BY DEF StorageRecords, SetPosted

LEMMA SetStartedKeeps ==
  ASSUME NEW n \in Nat, NEW st \in StorageRecords(n), NEW x \in Nat
  PROVE  /\ SetStarted(st, x) \in StorageRecords(n) /\ SetStarted(st, x).started = x
         /\ SetStarted(st, x).nonce = st.nonce /\ SetStarted(st, x).last_update_nonce = st.last_update_nonce
         /\ SetStarted(st, x).as_of = st.as_of /\ SetStarted(st, x).recent = st.recent
         /\ SetStarted(st, x).updater = st.updater /\ SetStarted(st, x).posted = st.posted
  BY DEF StorageRecords, SetStarted

\* A new storage, one that is kept for its updater, and what is made of a storage by
\* an announcement, by the failure of its updater or by an answer: all of them fit.
LEMMA MadeFits ==
  ASSUME NEW n \in Nat, NEW v \in 1..n, NEW nonce \in 0..v, NEW recent \in Seq(0..n),
         Len(recent) <= RecentNonces, NEW u \in Updaters(n), AsksInStep(u, v),
         NEW posted \in SUBSET Answers(n), AnswersInStep(posted), NEW k \in Nat
  PROVE  /\ StorageFits(Storage(nonce, recent, u, posted, k), n, v)
         /\ Storage(nonce, recent, u, posted, k).started = k
<1>1. PICK st : st = [nonce |-> nonce, last_update_nonce |-> NoNonce, as_of |-> 0,
                      recent |-> recent, updater |-> u, posted |-> posted, started |-> k]
  OBVIOUS
<1>2. st \in StorageRecords(n)
  BY <1>1 DEF StorageRecords, NoNonce
<1>3. /\ st.nonce = nonce /\ st.last_update_nonce = 0 /\ st.as_of = 0
      /\ st.recent = recent /\ st.updater = u /\ st.posted = posted /\ st.started = k
  BY <1>1 DEF NoNonce
<1>4. InStep(st, v)
  BY <1>3 DEF InStep
<1>5. st = Storage(nonce, recent, u, posted, k)
  BY <1>1 DEF Storage
<1> QED BY <1>2, <1>3, <1>4, <1>5 DEF StorageFits

\* No updater, no answers and no remembered nonces fit, too.
LEMMA Empty ==
  ASSUME NEW n \in Nat, NEW v \in 1..n
  PROVE  /\ Idle \in Updaters(n) /\ AsksInStep(Idle, v)
         /\ {} \in SUBSET Answers(n) /\ AnswersInStep({})
         /\ <<>> \in Seq(0..n) /\ Len(<<>>) <= RecentNonces
  BY DiscoveryAssumption DEF Updaters, AsksInStep, AnswersInStep

\* A storage that was just made fits, whatever nonce was announced.
LEMMA NewFits ==
  ASSUME NEW n \in Nat, NEW v \in 1..n, NEW nonce \in 0..v
  PROVE  StorageFits(NewStorage(nonce), n, v) /\ NewStorage(nonce).started = 0
<1>1. PICK r, p : r = <<nonce>> /\ p = {}
  OBVIOUS
<1>2. r \in Seq(0..n) /\ Len(r) <= RecentNonces
  BY <1>1, DiscoveryAssumption
<1>3. /\ Idle \in Updaters(n) /\ AsksInStep(Idle, v)
      /\ p \in SUBSET Answers(n) /\ AnswersInStep(p) /\ 0 \in Nat
  BY <1>1, Empty
<1>4. StorageFits(Storage(nonce, r, Idle, p, 0), n, v)
      /\ Storage(nonce, r, Idle, p, 0).started = 0
  BY <1>2, <1>3, MadeFits
<1> QED BY <1>1, <1>4 DEF NewStorage

\* What is kept of a storage that was lost fits.
LEMMA KeptFits ==
  ASSUME NEW n \in Nat, NEW v \in 1..n, NEW st, StorageFits(st, n, v)
  PROVE  StorageFits(Kept(st), n, v) /\ Kept(st).started \in {0, st.started}
<1>1. CASE st.updater = Idle /\ st.posted = {}
  <2>1. Kept(st) = Storage(0, <<>>, Idle, {}, 0)
    BY <1>1 DEF Kept, Gone, NoNonce
  <2>2. PICK r, p : r = <<>> /\ p = {}
    OBVIOUS
  <2>3. /\ 0 \in 0..v /\ r \in Seq(0..n) /\ Len(r) <= RecentNonces /\ Idle \in Updaters(n)
        /\ AsksInStep(Idle, v) /\ p \in SUBSET Answers(n) /\ AnswersInStep(p) /\ 0 \in Nat
    BY <2>2, Empty
  <2>4. StorageFits(Storage(0, r, Idle, p, 0), n, v) /\ Storage(0, r, Idle, p, 0).started = 0
    BY <2>3, MadeFits
  <2> QED BY <2>1, <2>2, <2>4
<1>2. CASE ~(st.updater = Idle /\ st.posted = {})
  <2>1. Kept(st) = Storage(st.nonce, <<>>, st.updater, st.posted, st.started)
    BY <1>2 DEF Kept
  <2>2. /\ st.nonce \in 0..v /\ st.updater \in Updaters(n) /\ st.started \in Nat
        /\ st.posted \in SUBSET Answers(n)
        /\ AsksInStep(st.updater, v) /\ AnswersInStep(st.posted)
    BY StorageFields DEF StorageFits, InStep
  <2>3. PICK r : r = <<>> /\ r \in Seq(0..n) /\ Len(r) <= RecentNonces
    BY Empty
  <2>4. /\ StorageFits(Storage(st.nonce, r, st.updater, st.posted, st.started), n, v)
        /\ Storage(st.nonce, r, st.updater, st.posted, st.started).started = st.started
    <3>1. PICK nonce, u, p, k :
            nonce = st.nonce /\ u = st.updater /\ p = st.posted /\ k = st.started
      OBVIOUS
    <3>2. /\ nonce \in 0..v /\ u \in Updaters(n) /\ p \in SUBSET Answers(n) /\ k \in Nat
          /\ AsksInStep(u, v) /\ AnswersInStep(p)
      BY <2>2, <3>1
    <3>3. StorageFits(Storage(nonce, r, u, p, k), n, v) /\ Storage(nonce, r, u, p, k).started = k
      BY ONLY <2>3, <3>2, MadeFits
    <3> QED BY <3>1, <3>3
  <2> QED BY <2>1, <2>3, <2>4
<1> QED BY <1>1, <1>2

\* A storage fits with any updater that does.
LEMMA UpdaterSetFits ==
  ASSUME NEW n \in Nat, NEW v \in 1..n, NEW st, StorageFits(st, n, v),
         NEW u \in Updaters(n), AsksInStep(u, v)
  PROVE  StorageFits(SetUpdater(st, u), n, v) /\ SetUpdater(st, u).started = st.started
  BY SetUpdaterKeeps DEF StorageFits, InStep

\* An updater that is started asks for the nonce of its storage.
LEMMA AsyncFits ==
  ASSUME NEW n \in Nat, NEW v \in 1..n, NEW st, StorageFits(st, n, v)
  PROVE  /\ StorageFits(AsyncUpdateServiceInfo(st), n, v)
         /\ StorageFits(RetryUpdateServiceInfo(st), n, v)
<1>1. PICK u : u = [phase |-> "backoff", nonce |-> st.nonce, tries |-> 0]
  OBVIOUS
<1>2. st \in StorageRecords(n) /\ st.nonce \in 0..n /\ st.nonce <= v
  BY StorageFields DEF StorageFits, InStep
<1>3. u \in Updaters(n) /\ AsksInStep(u, v)
  BY <1>1, <1>2, DiscoveryAssumption DEF Updaters, AsksInStep
<1>4. PICK t : t = SetUpdater(st, u)
  OBVIOUS
<1>5. StorageFits(t, n, v) /\ t.started = st.started /\ t.started \in Nat
  BY <1>2, <1>3, <1>4, UpdaterSetFits, StorageFields
<1>6. PICK k \in Nat : k = st.started + 1
  BY <1>5
<1>7. AsyncUpdateServiceInfo(st) = SetStarted(t, k)
  BY <1>1, <1>4, <1>6 DEF AsyncUpdateServiceInfo, SetUpdater, SetStarted
<1>8. StorageFits(SetStarted(t, k), n, v)
  <2>1. PICK w : w = SetStarted(t, k)
    OBVIOUS
  <2>2. t \in StorageRecords(n)
    BY <1>5 DEF StorageFits
  <2>3. /\ w \in StorageRecords(n) /\ w.nonce = t.nonce /\ w.as_of = t.as_of
        /\ w.last_update_nonce = t.last_update_nonce /\ w.recent = t.recent
        /\ w.updater = t.updater /\ w.posted = t.posted
    BY <2>1, <2>2, SetStartedKeeps
  <2>4. InStep(w, v)
    BY <1>5, <2>3 DEF StorageFits, InStep
  <2> QED BY <1>5, <2>1, <2>3, <2>4 DEF StorageFits
<1> QED BY <1>7, <1>8 DEF RetryUpdateServiceInfo

\* The nonces that are remembered stay within their bound.
LEMMA RememberFits ==
  ASSUME NEW n \in Nat, NEW v \in 1..n, NEW st, StorageFits(st, n, v), NEW nonce \in 0..v
  PROVE  StorageFits(Remember(st, nonce), n, v)
<1>1. PICK recent : recent = Append(st.recent, nonce)
  OBVIOUS
<1>2. st.recent \in Seq(0..n) /\ Len(st.recent) <= RecentNonces /\ nonce \in 0..n
      /\ st \in StorageRecords(n)
  BY StorageFields DEF StorageFits
<1>3. recent \in Seq(0..n) /\ Len(recent) = Len(st.recent) + 1
  BY <1>1, <1>2, AppendProperties
<1>4. CASE nonce = NoNonce
  BY <1>4 DEF Remember
<1>5. CASE nonce # NoNonce
  <2>1. PICK r \in Seq(0..n) : Len(r) <= RecentNonces /\ Remember(st, nonce) = SetRecent(st, r)
    <3>1. CASE Len(recent) > RecentNonces
      <4>1. Tail(recent) \in Seq(0..n) /\ Len(Tail(recent)) = Len(recent) - 1
        <5>1. recent # <<>>
          BY <1>2, <1>3
        <5> QED BY <1>3, <5>1, HeadTailProperties
      <4>2. Remember(st, nonce) = SetRecent(st, Tail(recent))
        <5>1. ~(Len(recent) <= RecentNonces)
          BY <1>3, <3>1, DiscoveryAssumption
        <5> QED BY <1>1, <1>5, <3>1, <5>1, Zenon DEF Remember, SetRecent
      <4>3. Len(Tail(recent)) <= RecentNonces
        BY <4>1, <1>2, <1>3, DiscoveryAssumption
      <4> QED BY <4>1, <4>2, <4>3
    <3>2. CASE ~(Len(recent) > RecentNonces)
      <4>1. Len(recent) <= RecentNonces
        BY <1>3, <3>2, DiscoveryAssumption
      <4>2. Remember(st, nonce) = SetRecent(st, recent)
        BY <1>1, <1>5, <3>2, <4>1 DEF Remember, SetRecent
      <4> QED BY <4>1, <4>2, <1>3
    <3> QED BY <3>1, <3>2
  <2> QED BY <2>1, <1>2, SetRecentKeeps DEF StorageFits, InStep
<1> QED BY <1>4, <1>5

\* An announcement of a version there was leaves the storage fitting.
LEMMA AnnouncedFits ==
  ASSUME NEW n \in Nat, NEW v \in 1..n, NEW st, StorageFits(st, n, v), NEW nonce \in 0..v
  PROVE  StorageFits(Announced(st, nonce), n, v)
<1>1. PICK named : named = WithNonce(st, nonce)
  OBVIOUS
<1>2. PICK remembered : remembered = Remember(named, nonce)
  OBVIOUS
<1>3. StorageFits(named, n, v)
  <2>1. CASE nonce = NoNonce
    BY <1>1, <2>1 DEF WithNonce
  <2>2. CASE nonce # NoNonce
    <3>1. named = SetNonce(st, nonce)
      BY <1>1, <2>2 DEF WithNonce, SetNonce
    <3>2. nonce \in 0..n /\ nonce <= v
      OBVIOUS
    <3> QED BY <3>1, <3>2, SetNonceKeeps DEF StorageFits, InStep
  <2> QED BY <2>1, <2>2
<1>4. StorageFits(remembered, n, v)
  BY <1>2, <1>3, RememberFits
<1>5. StorageFits(RetryUpdateServiceInfo(remembered), n, v)
  BY <1>4, AsyncFits
<1> QED BY <1>1, <1>2, <1>3, <1>4, <1>5 DEF Announced

\* What an updater may be.
LEMMA UpdaterFields ==
  ASSUME NEW n \in Nat, NEW u \in Updaters(n), u # Idle
  PROVE  /\ u.nonce \in 0..n /\ u.tries \in 0..(MaxTries - 1)
         /\ u.phase \in {"backoff", "connecting", "answered"}
         /\ u.phase = "answered" => u.as_of \in 1..n
         /\ u.phase = "backoff" =>
              [u EXCEPT !.phase = "connecting"] =
                [phase |-> "connecting", nonce |-> u.nonce, tries |-> u.tries]
  BY DEF Updaters

\* An updater that fails tries again for the same nonce, or is gone.
LEMMA FailFits ==
  ASSUME NEW n \in Nat, NEW v \in 1..n, NEW st, StorageFits(st, n, v), Updating(st)
  PROVE  StorageFits(Fail(st), n, v) /\ Fail(st).started = st.started
<1>1. st.updater \in Updaters(n) /\ st.updater # Idle /\ AsksInStep(st.updater, v)
  BY StorageFields DEF StorageFits, InStep, Updating
<1>2. PICK u \in Updaters(n) : Fail(st) = SetUpdater(st, u) /\ AsksInStep(u, v)
  <2>1. CASE st.updater.tries + 1 < MaxTries
    <3>1. PICK u : u = [phase |-> "backoff", nonce |-> st.updater.nonce,
                        tries |-> st.updater.tries + 1]
      OBVIOUS
    <3>2. u \in Updaters(n) /\ AsksInStep(u, v)
      BY <1>1, <2>1, <3>1, UpdaterFields, DiscoveryAssumption DEF Updaters, AsksInStep
    <3> QED BY <2>1, <3>1, <3>2 DEF Fail, SetUpdater
  <2>2. CASE ~(st.updater.tries + 1 < MaxTries)
    BY <2>2, Empty DEF Fail, SetUpdater
  <2> QED BY <2>1, <2>2
<1> QED BY <1>2, UpdaterSetFits

-----------------------------------------------------------------------------
(* All storages.                                                           *)

\* The storages fit once what was kept for nothing is gone.
LEMMA HeldFits ==
  ASSUME NEW n \in Nat, NEW v \in 1..n, NEW sts, StoragesFit(sts, n, v), NEW found
  PROVE  /\ StoragesFit(Held(sts, found), n, v)
         /\ Len(Held(sts, found)) = Len(sts)
         /\ Bounded(sts) => Bounded(Held(sts, found))
<1>1. sts \in Seq(StorageRecords(n)) /\ DOMAIN sts = 1..Len(sts) /\ Len(sts) \in Nat
  BY DEF StoragesFit
<1>2. PICK h : h = Held(sts, found)
  OBVIOUS
<1>3. DOMAIN h = 1..Len(sts) /\ \A i \in DOMAIN sts : h[i] = IF i = found THEN sts[i]
                                                                        ELSE Kept(sts[i])
  BY <1>1, <1>2 DEF Held
<1>4. \A i \in 1..Len(sts) : /\ StorageFits(h[i], n, v) /\ h[i] \in StorageRecords(n)
                             /\ h[i].started \in {0, sts[i].started}
  <2> TAKE i \in 1..Len(sts)
  <2>1. StorageFits(sts[i], n, v)
    BY <1>1 DEF StoragesFit
  <2>2. StorageFits(Kept(sts[i]), n, v) /\ Kept(sts[i]).started \in {0, sts[i].started}
    BY <2>1, KeptFits
  <2> QED BY <1>1, <1>3, <2>1, <2>2 DEF StorageFits
<1>5. h \in Seq(StorageRecords(n)) /\ Len(h) = Len(sts)
  <2>1. h = [i \in 1..Len(sts) |-> h[i]]
    BY <1>2, <1>1 DEF Held
  <2> QED BY <2>1, <1>1, <1>4, <1>3, IsASeq
<1>6. Bounded(sts) => Bounded(h)
  BY <1>1, <1>3, <1>4, DiscoveryAssumption DEF Bounded
<1> QED BY <1>2, <1>3, <1>4, <1>5, <1>6 DEF StoragesFit

Replace(sts, i, st) == [sts EXCEPT ![i] = st]

\* One storage replaced by another that fits.
LEMMA Replaced ==
  ASSUME NEW n \in Nat, NEW v \in 1..n, NEW sts, StoragesFit(sts, n, v),
         NEW i \in DOMAIN sts, NEW st, StorageFits(st, n, v)
  PROVE  /\ StoragesFit(Replace(sts, i, st), n, v)
         /\ Len(Replace(sts, i, st)) = Len(sts)
         /\ Bounded(sts) /\ st.started = sts[i].started => Bounded(Replace(sts, i, st))
<1>1. /\ sts \in Seq(StorageRecords(n)) /\ st \in StorageRecords(n)
      /\ DOMAIN sts = 1..Len(sts) /\ Len(sts) \in Nat
  BY DEF StoragesFit, StorageFits
<1>2. PICK e : e = [sts EXCEPT ![i] = st]
  OBVIOUS
<1>3. e \in Seq(StorageRecords(n)) /\ Len(e) = Len(sts) /\ DOMAIN e = DOMAIN sts
      /\ \A j \in DOMAIN sts : e[j] = IF j = i THEN st ELSE sts[j]
  BY <1>1, <1>2, ExceptSeq
<1>4. \A j \in DOMAIN sts : StorageFits(e[j], n, v)
  BY <1>3 DEF StoragesFit
<1>5. Bounded(sts) /\ st.started = sts[i].started => Bounded(e)
  BY <1>3 DEF Bounded
<1> QED BY <1>2, <1>3, <1>4, <1>5 DEF StoragesFit, Replace

\* A storage added.
LEMMA Added ==
  ASSUME NEW n \in Nat, NEW v \in 1..n, NEW sts, StoragesFit(sts, n, v),
         NEW st, StorageFits(st, n, v)
  PROVE  StoragesFit(Append(sts, st), n, v) /\ Len(Append(sts, st)) = Len(sts) + 1
<1>1. sts \in Seq(StorageRecords(n)) /\ st \in StorageRecords(n)
  BY DEF StoragesFit, StorageFits
<1>2. PICK e : e = Append(sts, st)
  OBVIOUS
<1>3. /\ e \in Seq(StorageRecords(n)) /\ Len(e) = Len(sts) + 1
      /\ \A j \in 1..Len(sts) : e[j] = sts[j]
      /\ e[Len(sts) + 1] = st
  BY <1>1, <1>2, AppendProperties
<1>4. \A j \in DOMAIN e : StorageFits(e[j], n, v)
  <2> TAKE j \in DOMAIN e
  <2>1. j \in 1..Len(sts) \/ j = Len(sts) + 1
    BY <1>1, <1>3
  <2>2. CASE j \in 1..Len(sts)
    <3>1. e[j] = sts[j] /\ j \in DOMAIN sts
      BY <1>1, <1>3, <2>2
    <3> QED BY <3>1 DEF StoragesFit
  <2>3. CASE j = Len(sts) + 1
    <3>1. e[j] = st
      BY <1>3, <2>3
    <3> QED BY <3>1
  <2> QED BY <2>1, <2>2, <2>3
<1> QED BY <1>2, <1>3, <1>4 DEF StoragesFit

\* A newer version fits as well.
LEMMA NewerFits ==
  ASSUME NEW n \in Nat, NEW v \in 1..n, NEW sts, StoragesFit(sts, n, v), v + 1 <= n
  PROVE  StoragesFit(sts, n, v + 1)
<1>1. ASSUME NEW st, StorageFits(st, n, v) PROVE StorageFits(st, n, v + 1)
  <2>1. st.nonce \in 0..n /\ st.updater \in Updaters(n)
    BY <1>1, StorageFields DEF StorageFits
  <2>2. st.updater # Idle => st.updater.nonce \in 0..n
    BY <2>1 DEF Updaters
  <2>3. AsksInStep(st.updater, v + 1)
    BY <1>1, <2>2 DEF StorageFits, InStep, AsksInStep
  <2> QED BY <1>1, <2>1, <2>3 DEF StorageFits, InStep
<1> QED BY <1>1 DEF StoragesFit

\* The history of the node has a length, and is not empty.
LEMMA HistoryLength ==
  ASSUME DiscoveryInv
  PROVE  /\ Len(remote.history) \in Nat /\ remote.history \in Seq(Seq(Services))
         /\ remote.history \in Histories
  BY HistoriesAssumption DEF DiscoveryInv

\* Enough to show of a step that leaves the remote node alone.
LEMMA DiscoveryKept ==
  ASSUME DiscoveryInv, remote' = remote, subscriptions' \in BOOLEAN,
         StoragesFit(storages', Len(remote.history), remote.version),
         Bounded(storages'), Len(storages') <= MaxStorages,
         discovered' \in 0..Len(storages')
  PROVE  DiscoveryInv'
  BY DEF DiscoveryInv

-----------------------------------------------------------------------------
(* The steps of discovery.                                                 *)

LEMMA RemoteChangesStep == ASSUME DiscoveryInv, RemoteChanges PROVE DiscoveryInv'
<1> DEFINE R == [version : Nat, history : Histories, announces_nonce : BOOLEAN]
<1>1. /\ remote \in R /\ remote.version \in 1..Len(remote.history)
      /\ remote.version < Len(remote.history) /\ Len(remote.history) \in Nat
      /\ remote' = [remote EXCEPT !.version = remote.version + 1]
  BY HistoryLength DEF DiscoveryInv, RemoteChanges
<1>2. PICK w \in Nat : w = remote.version + 1 /\ w \in 1..Len(remote.history)
  BY <1>1
<1>3. /\ remote.version + 1 \in 1..Len(remote.history)
      /\ remote'.version = remote.version + 1 /\ remote'.history = remote.history
      /\ remote' \in R
  <2>1. remote' = [remote EXCEPT !.version = w]
    BY <1>1, <1>2
  <2>2. remote'.version = w /\ remote'.history = remote.history /\ remote' \in R
    BY <1>1, <2>1
  <2> QED BY <1>2, <2>2
<1>4. StoragesFit(storages, Len(remote.history), remote.version + 1)
  BY <1>3, HistoryLength, NewerFits DEF DiscoveryInv
<1>5. UNCHANGED <<storages, discovered, subscriptions>>
  BY DEF RemoteChanges
<1>6. StoragesFit(storages', Len(remote'.history), remote'.version)
  BY <1>3, <1>4, <1>5
<1>7. Bounded(storages')
  BY <1>5 DEF DiscoveryInv
<1> QED BY <1>3, <1>5, <1>6, <1>7 DEF DiscoveryInv

LEMMA NodeDetectedStep == ASSUME DiscoveryInv, NodeDetected PROVE DiscoveryInv'
<1> DEFINE n == Len(remote.history)
           v == remote.version
<1>1. n \in Nat /\ v \in 1..n /\ storages \in Seq(StorageRecords(n))
  BY HistoryLength DEF DiscoveryInv, StoragesFit
<1>2. PICK version \in 1..v :
        LET nonce == AnnouncedNonce(version) IN
        \/ /\ discovered # 0
           /\ storages' = [storages EXCEPT ![discovered] = Announced(@, nonce)]
           /\ UNCHANGED discovered
        \/ /\ discovered = 0 /\ Len(storages) < MaxStorages
           /\ storages' = Append(storages, FirstAnnounced(nonce))
           /\ discovered' = Len(storages) + 1
  BY DEF NodeDetected
<1>3. PICK nonce \in 0..v : nonce = AnnouncedNonce(version)
  BY <1>1, <1>2 DEF AnnouncedNonce, NoNonce
<1>4. Bounded(storages') /\ UNCHANGED <<remote, subscriptions>>
  BY DEF NodeDetected
<1>5. CASE discovered # 0 /\ UNCHANGED discovered
           /\ storages' = [storages EXCEPT ![discovered] = Announced(@, nonce)]
  <2>1. discovered \in DOMAIN storages /\ StorageFits(storages[discovered], n, v)
    BY <1>1, <1>5 DEF DiscoveryInv, StoragesFit
  <2>2. StorageFits(Announced(storages[discovered], nonce), n, v)
    BY <1>1, <2>1, AnnouncedFits
  <2>3. storages' = Replace(storages, discovered, Announced(storages[discovered], nonce))
    BY <1>5 DEF Replace
  <2>4. StoragesFit(storages', n, v) /\ Len(storages') = Len(storages)
    BY <1>1, <2>1, <2>2, <2>3, Replaced DEF DiscoveryInv
  <2> QED BY <1>1, <1>4, <1>5, <2>4, DiscoveryKept DEF DiscoveryInv
<1>6. CASE discovered = 0 /\ Len(storages) < MaxStorages
           /\ storages' = Append(storages, FirstAnnounced(nonce))
           /\ discovered' = Len(storages) + 1
  <2>1. StorageFits(FirstAnnounced(nonce), n, v)
    BY <1>1, NewFits, AsyncFits DEF FirstAnnounced
  <2>2. StoragesFit(storages', n, v) /\ Len(storages') = Len(storages) + 1
    BY <1>1, <1>6, <2>1, Added DEF DiscoveryInv
  <2> QED BY <1>1, <1>4, <1>6, <2>2, DiscoveryAssumption, DiscoveryKept DEF DiscoveryInv
<1> QED BY <1>2, <1>3, <1>5, <1>6

\* A step of one updater, in a storage of a node that may have been lost.
LEMMA UpdaterStep ==
  ASSUME DiscoveryInv, NEW i \in DOMAIN storages, NEW st,
         StorageFits(st, Len(remote.history), remote.version),
         st.started = storages[i].started,
         \/ storages' = [storages EXCEPT ![i] = st]
         \/ storages' = Held([storages EXCEPT ![i] = st], discovered),
         UNCHANGED <<remote, discovered, subscriptions>>
  PROVE  DiscoveryInv'
<1> DEFINE n == Len(remote.history)
           v == remote.version
<1>1. n \in Nat /\ v \in 1..n
  BY HistoryLength DEF DiscoveryInv
<1>2. PICK sts : sts = Replace(storages, i, st)
  OBVIOUS
<1>3. storages' = sts \/ storages' = Held(sts, discovered)
  BY <1>2 DEF Replace
<1>4. StoragesFit(sts, n, v) /\ Len(sts) = Len(storages) /\ Bounded(sts)
  BY <1>1, <1>2, Replaced DEF DiscoveryInv
<1>5. StoragesFit(storages', n, v) /\ Len(storages') = Len(storages) /\ Bounded(storages')
  BY <1>1, <1>3, <1>4, HeldFits
<1> QED BY <1>5, DiscoveryKept DEF DiscoveryInv

\* What a step reads of storage i.
LEMMA StorageRead ==
  ASSUME DiscoveryInv, NEW i \in DOMAIN storages
  PROVE  /\ Len(remote.history) \in Nat /\ remote.version \in 1..Len(remote.history)
         /\ StorageFits(storages[i], Len(remote.history), remote.version)
         /\ storages[i] \in StorageRecords(Len(remote.history))
         /\ storages[i].updater \in Updaters(Len(remote.history))
         /\ AsksInStep(storages[i].updater, remote.version)
         /\ storages[i].posted \in SUBSET Answers(Len(remote.history))
         /\ AnswersInStep(storages[i].posted)
<1>1. StorageFits(storages[i], Len(remote.history), remote.version)
  BY DEF DiscoveryInv, StoragesFit
<1>2. Len(remote.history) \in Nat /\ remote.version \in 1..Len(remote.history)
  BY HistoryLength DEF DiscoveryInv
<1> QED BY <1>1, <1>2, StorageFields DEF StorageFits, InStep

LEMMA BackoffStep == ASSUME DiscoveryInv, backoff_timer_handler PROVE DiscoveryInv'
<1> DEFINE n == Len(remote.history)
           v == remote.version
<1>1. PICK i \in DOMAIN storages :
        LET st == storages[i] IN
        /\ Updating(st) /\ st.updater.phase = "backoff"
        /\ storages' = Held([storages EXCEPT ![i] =
                          IF i = discovered THEN [st EXCEPT !.updater.phase = "connecting"]
                                            ELSE Fail(st)], discovered)
  BY DEF backoff_timer_handler
<1>2. PICK st : st = storages[i]
  OBVIOUS
<1>3. n \in Nat /\ v \in 1..n /\ StorageFits(st, n, v) /\ st \in StorageRecords(n)
      /\ st.updater \in Updaters(n) /\ AsksInStep(st.updater, v)
      /\ st.updater # Idle /\ st.updater.phase = "backoff" /\ Updating(st)
  BY <1>1, <1>2, StorageRead DEF Updating
<1>4. PICK new : new = IF i = discovered THEN [st EXCEPT !.updater.phase = "connecting"]
                                         ELSE Fail(st)
  OBVIOUS
<1>5. StorageFits(new, n, v) /\ new.started = st.started
  <2>1. CASE i = discovered
    <3>1. PICK u : u = [st.updater EXCEPT !.phase = "connecting"]
      OBVIOUS
    <3>2. u = [phase |-> "connecting", nonce |-> st.updater.nonce, tries |-> st.updater.tries]
      BY <1>3, <3>1, UpdaterFields
    <3>3. u \in Updaters(n) /\ AsksInStep(u, v)
      BY <1>3, <3>2, UpdaterFields DEF Updaters, AsksInStep
    <3>4. new = SetUpdater(st, u)
      BY <1>4, <2>1, <3>1 DEF SetUpdater
    <3> QED BY <1>3, <3>3, <3>4, UpdaterSetFits
  <2>2. CASE i # discovered
    BY <1>3, <1>4, <2>2, FailFits
  <2> QED BY <2>1, <2>2
<1>6. storages' = Held([storages EXCEPT ![i] = new], discovered)
  BY <1>1, <1>2, <1>4
<1>7. UNCHANGED <<remote, discovered, subscriptions>>
  BY DEF backoff_timer_handler
<1> QED BY <1>2, <1>5, <1>6, <1>7, UpdaterStep

LEMMA RemoteAnswersStep == ASSUME DiscoveryInv, RemoteAnswers PROVE DiscoveryInv'
<1> DEFINE n == Len(remote.history)
           v == remote.version
<1>1. PICK i \in DOMAIN storages :
        LET st == storages[i] IN
        /\ Updating(st) /\ st.updater.phase = "connecting"
        /\ storages' = [storages EXCEPT ![i].updater =
             [phase |-> "answered", nonce |-> st.updater.nonce, tries |-> st.updater.tries,
              as_of |-> remote.version]]
  BY DEF RemoteAnswers
<1>2. PICK st : st = storages[i]
  OBVIOUS
<1>3. n \in Nat /\ v \in 1..n /\ StorageFits(st, n, v) /\ st \in StorageRecords(n)
      /\ st.updater \in Updaters(n) /\ AsksInStep(st.updater, v) /\ st.updater # Idle
  BY <1>1, <1>2, StorageRead DEF Updating
<1>4. PICK u : u = [phase |-> "answered", nonce |-> st.updater.nonce,
                    tries |-> st.updater.tries, as_of |-> v]
  OBVIOUS
<1>5. u \in Updaters(n) /\ AsksInStep(u, v)
  BY <1>3, <1>4, UpdaterFields DEF Updaters, AsksInStep
<1>6. storages' = [storages EXCEPT ![i] = SetUpdater(st, u)]
  BY <1>1, <1>2, <1>4 DEF SetUpdater
<1>7. StorageFits(SetUpdater(st, u), n, v) /\ SetUpdater(st, u).started = st.started
  BY <1>3, <1>5, UpdaterSetFits
<1>8. UNCHANGED <<remote, discovered, subscriptions>>
  BY DEF RemoteAnswers
<1> QED BY <1>2, <1>6, <1>7, <1>8, UpdaterStep

LEMMA HandleErrorStep == ASSUME DiscoveryInv, handle_error PROVE DiscoveryInv'
<1>1. PICK i \in DOMAIN storages :
        /\ Updating(storages[i])
        /\ storages' = Held([storages EXCEPT ![i] = Fail(@)], discovered)
  BY DEF handle_error
<1>2. PICK st : st = Fail(storages[i])
  OBVIOUS
<1>3. StorageFits(st, Len(remote.history), remote.version)
      /\ st.started = storages[i].started
  BY <1>1, <1>2, StorageRead, FailFits
<1>4. storages' = Held([storages EXCEPT ![i] = st], discovered)
  BY <1>1, <1>2
<1>5. UNCHANGED <<remote, discovered, subscriptions>>
  BY DEF handle_error
<1> QED BY <1>3, <1>4, <1>5, UpdaterStep

LEMMA AnswerPosted == ASSUME DiscoveryInv, serviceinfo_handler PROVE DiscoveryInv'
<1> DEFINE n == Len(remote.history)
           v == remote.version
<1>1. PICK i \in DOMAIN storages :
        LET u == storages[i].updater IN
        /\ Updating(storages[i]) /\ u.phase = "answered"
        /\ storages' = [storages EXCEPT ![i].updater = Idle,
             ![i].posted = @ \cup {[nonce |-> u.nonce, as_of |-> u.as_of]}]
  BY DEF serviceinfo_handler
<1>2. PICK st : st = storages[i]
  OBVIOUS
<1>3. n \in Nat /\ v \in 1..n /\ StorageFits(st, n, v) /\ st \in StorageRecords(n)
      /\ st.updater \in Updaters(n) /\ AsksInStep(st.updater, v) /\ st.updater # Idle
      /\ st.updater.phase = "answered"
      /\ st.posted \in SUBSET Answers(n) /\ AnswersInStep(st.posted)
  BY <1>1, <1>2, StorageRead DEF Updating
<1>4. PICK answer : answer = [nonce |-> st.updater.nonce, as_of |-> st.updater.as_of]
  OBVIOUS
<1>5. answer \in Answers(n) /\ answer.nonce <= answer.as_of
  BY <1>3, <1>4, UpdaterFields DEF Answers, AsksInStep
<1>6. PICK posted : posted = st.posted \cup {answer}
  OBVIOUS
<1>7. posted \in SUBSET Answers(n) /\ AnswersInStep(posted)
  BY <1>3, <1>5, <1>6 DEF AnswersInStep
<1>8. PICK t : t = SetUpdater(st, Idle)
  OBVIOUS
<1>9. StorageFits(t, n, v) /\ t.started = st.started /\ t.posted = st.posted
  BY <1>3, <1>8, Empty, UpdaterSetFits, SetUpdaterKeeps
<1>10. StorageFits(SetPosted(t, posted), n, v) /\ SetPosted(t, posted).started = st.started
  BY <1>3, <1>7, <1>9, SetPostedKeeps DEF StorageFits, InStep
<1>11. storages' = [storages EXCEPT ![i] = SetPosted(t, posted)]
  BY <1>1, <1>2, <1>4, <1>6, <1>8 DEF SetPosted, SetUpdater
<1>12. UNCHANGED <<remote, discovered, subscriptions>>
  BY DEF serviceinfo_handler
<1> QED BY <1>2, <1>10, <1>11, <1>12, UpdaterStep

LEMMA LoseNodeStep == ASSUME DiscoveryInv, LoseNode PROVE DiscoveryInv'
<1>1. /\ StoragesFit(storages', Len(remote.history), remote.version)
      /\ Len(storages') = Len(storages) /\ Bounded(storages')
  BY HistoryLength, HeldFits DEF DiscoveryInv, LoseNode
<1>2. Len(storages) \in Nat
  BY DEF DiscoveryInv
<1> QED BY <1>1, <1>2, DiscoveryKept DEF DiscoveryInv, LoseNode

LEMMA DoSubscribeStep == ASSUME DiscoveryInv, DoSubscribe PROVE DiscoveryInv'
<1> DEFINE n == Len(remote.history)
           v == remote.version
<1>1. n \in Nat /\ v \in 1..n
  BY HistoryLength DEF DiscoveryInv
<1>2. CASE discovered # 0 /\ OutOfDate(storages[discovered])
  <2>1. discovered \in DOMAIN storages
    BY <1>2 DEF DiscoveryInv, StoragesFit
  <2>2. StorageFits(RetryUpdateServiceInfo(storages[discovered]), n, v)
    BY <1>1, <2>1, StorageRead, AsyncFits
  <2>3. storages' = Replace(storages, discovered, RetryUpdateServiceInfo(storages[discovered]))
    BY <1>2 DEF DoSubscribe, Replace
  <2>4. StoragesFit(storages', n, v) /\ Len(storages') = Len(storages)
    BY <1>1, <2>1, <2>2, <2>3, Replaced DEF DiscoveryInv
  <2> QED BY <2>4, DiscoveryKept DEF DiscoveryInv, DoSubscribe
<1>3. CASE ~(discovered # 0 /\ OutOfDate(storages[discovered]))
  BY <1>3, DiscoveryKept DEF DiscoveryInv, DoSubscribe
<1> QED BY <1>2, <1>3

LEMMA EndUpdateStep ==
  ASSUME DiscoveryInv, NEW i \in DOMAIN storages, NEW answer \in storages[i].posted,
         EndUpdateServiceInfo(i, answer)
  PROVE  DiscoveryInv'
<1> DEFINE n == Len(remote.history)
           v == remote.version
<1>1. PICK st : st = storages[i]
  OBVIOUS
<1>2. n \in Nat /\ v \in 1..n /\ StorageFits(st, n, v) /\ st \in StorageRecords(n)
      /\ st.posted \in SUBSET Answers(n) /\ AnswersInStep(st.posted)
  BY <1>1, StorageRead
<1>3. answer.nonce \in 0..n /\ answer.as_of \in 0..n /\ answer.nonce <= answer.as_of
  BY <1>1, <1>2 DEF Answers, AnswersInStep
<1>4. PICK posted : posted = st.posted \ {answer}
  OBVIOUS
<1>5. posted \in SUBSET Answers(n) /\ AnswersInStep(posted)
  BY <1>2, <1>4 DEF AnswersInStep
<1>6. PICK t1 : t1 = SetAsOf(st, answer.as_of)
  OBVIOUS
<1>7. PICK t2 : t2 = SetLastNonce(t1, answer.nonce)
  OBVIOUS
<1>8. PICK t3 : t3 = SetPosted(t2, posted)
  OBVIOUS
<1>9. t1 \in StorageRecords(n) /\ t2 \in StorageRecords(n) /\ t3 \in StorageRecords(n)
  BY <1>2, <1>3, <1>5, <1>6, <1>7, <1>8, SetAsOfKeeps, SetLastNonceKeeps, SetPostedKeeps
<1>10. /\ t1.posted = st.posted
       /\ t3.as_of = answer.as_of /\ t3.last_update_nonce = answer.nonce /\ t3.posted = posted
       /\ t3.nonce = st.nonce /\ t3.recent = st.recent /\ t3.updater = st.updater
  <2>1. t1.as_of = answer.as_of /\ t1.posted = st.posted /\ t1.nonce = st.nonce
        /\ t1.recent = st.recent /\ t1.updater = st.updater
    BY <1>2, <1>3, <1>6, SetAsOfKeeps
  <2>2. t2.as_of = t1.as_of /\ t2.last_update_nonce = answer.nonce /\ t2.posted = t1.posted
        /\ t2.nonce = t1.nonce /\ t2.recent = t1.recent /\ t2.updater = t1.updater
    BY <1>2, <1>3, <1>7, <1>9, SetLastNonceKeeps
  <2>3. t3.as_of = t2.as_of /\ t3.last_update_nonce = t2.last_update_nonce
        /\ t3.posted = posted
        /\ t3.nonce = t2.nonce /\ t3.recent = t2.recent /\ t3.updater = t2.updater
    BY <1>2, <1>5, <1>8, <1>9, SetPostedKeeps
  <2> QED BY <2>1, <2>2, <2>3
<1>11. StorageFits(t3, n, v)
  BY <1>2, <1>3, <1>5, <1>9, <1>10 DEF StorageFits, InStep
<1>12. Updated(st, answer) = t3
  BY <1>4, <1>6, <1>7, <1>8 DEF Updated, NonceAsked, SetAsOf, SetLastNonce, SetPosted
<1>13. StorageFits(Ended(st, answer), n, v)
  BY <1>2, <1>11, <1>12, AsyncFits DEF Ended
<1>14. PICK sts : sts = Replace(storages, i, Ended(st, answer))
  OBVIOUS
<1>15. StoragesFit(sts, n, v) /\ Len(sts) = Len(storages)
  BY <1>2, <1>13, <1>14, Replaced DEF DiscoveryInv
<1>16. storages' = Held(sts, discovered) /\ Bounded(storages')
       /\ UNCHANGED <<remote, discovered, subscriptions>>
  BY <1>1, <1>14 DEF EndUpdateServiceInfo, Replace
<1>17. StoragesFit(storages', n, v) /\ Len(storages') = Len(storages)
  BY <1>2, <1>15, <1>16, HeldFits
<1> QED BY <1>16, <1>17, DiscoveryKept DEF DiscoveryInv

LEMMA DiscoveryStart == ASSUME DiscoveryInit PROVE DiscoveryInv
<1>1. PICK history \in Histories, nonce \in BOOLEAN :
        remote = [version |-> 1, history |-> history, announces_nonce |-> nonce]
  BY DEF DiscoveryInit
<1>2. history \in Seq(Seq(Services)) /\ history # <<>>
  BY HistoriesAssumption
<1>3. Len(history) \in Nat /\ 1 \in 1..Len(history)
  BY <1>2, EmptySeq, LenProperties
<1>4. remote.version = 1 /\ remote.history = history
      /\ remote \in [version : Nat, history : Histories, announces_nonce : BOOLEAN]
  BY <1>1
<1>5. storages = <<>> /\ discovered = 0 /\ subscriptions = FALSE
  BY DEF DiscoveryInit
<1>6. StoragesFit(storages, Len(remote.history), remote.version) /\ Bounded(storages)
      /\ Len(storages) = 0
  BY <1>5 DEF StoragesFit, Bounded
<1>7. remote.version \in 1..Len(remote.history)
  BY <1>3, <1>4
<1>8. Len(storages) <= MaxStorages /\ discovered \in 0..Len(storages)
  BY <1>5, DiscoveryAssumption
<1>9. subscriptions \in BOOLEAN
  BY <1>5
<1> QED BY <1>4, <1>6, <1>7, <1>8, <1>9 DEF DiscoveryInv

LEMMA DiscoverySteps ==
  ASSUME DiscoveryInv,
         \/ DiscoveryNext \/ LoseNode \/ DoSubscribe \/ SubscriptionClosed
         \/ \E i \in DOMAIN storages : \E answer \in storages[i].posted :
              EndUpdateServiceInfo(i, answer)
         \/ UNCHANGED discoveryVars
  PROVE  DiscoveryInv'
<1>1. CASE SubscriptionClosed
  BY <1>1 DEF SubscriptionClosed, DiscoveryInv
<1>2. CASE UNCHANGED discoveryVars
  BY <1>2 DEF discoveryVars, DiscoveryInv
<1> QED BY <1>1, <1>2, RemoteChangesStep, NodeDetectedStep, BackoffStep, RemoteAnswersStep,
           HandleErrorStep, AnswerPosted, LoseNodeStep, DoSubscribeStep, EndUpdateStep
        DEF DiscoveryNext

\* What the invariant gives: the types of discovery, and that no services are older
\* than the nonce they are kept under.
LEMMA DiscoveryFacts ==
  ASSUME DiscoveryInv
  PROVE  NoOlderThanNonce /\ DiscoveryTypeOK
<1>1. NoOlderThanNonce
  BY DEF NoOlderThanNonce, DiscoveryInv, StoragesFit, StorageFits, InStep, StorageRecords
<1>2. ASSUME NEW i \in DOMAIN storages
      PROVE LET st == storages[i] IN
            /\ {st.nonce, st.last_update_nonce} \cup ToSet(st.recent) \subseteq Nonces
            /\ st.as_of \in 0..Len(remote.history)
            /\ Len(st.recent) <= RecentNonces
            /\ UpdaterOK(st.updater) /\ st.started <= MaxUpdates
            /\ st.posted \subseteq [nonce : Nonces, as_of : Versions]
  <2> DEFINE n == Len(remote.history)
             st == storages[i]
  <2>1. n \in Nat /\ StorageFits(st, n, remote.version) /\ st \in StorageRecords(n)
    BY StorageRead
  <2>2. 0..n = Nonces /\ 1..n = Versions
    BY <2>1 DEF Nonces, Versions, NoNonce
  <2>3. st.nonce \in Nonces /\ st.last_update_nonce \in Nonces /\ ToSet(st.recent) \subseteq Nonces
    <3>1. st.nonce \in 0..n /\ st.last_update_nonce \in 0..n /\ st.recent \in Seq(0..n)
      BY <2>1, StorageFields
    <3> QED BY <2>2, <3>1 DEF ToSet
  <2>4. UpdaterOK(st.updater)
    BY <2>1, <2>2, StorageFields, UpdaterFields DEF UpdaterOK
  <2>5. st.posted \subseteq [nonce : Nonces, as_of : Versions]
    BY <2>1, <2>2, StorageFields DEF Answers
  <2>6. st.started <= MaxUpdates
    BY DEF DiscoveryInv, Bounded
  <2> QED BY <2>1, <2>3, <2>4, <2>5, <2>6, StorageFields DEF StorageFits
<1>3. /\ remote.history \in Histories /\ remote.version \in Versions
      /\ remote.announces_nonce \in BOOLEAN
      /\ Len(storages) <= MaxStorages /\ discovered \in 0..Len(storages)
      /\ subscriptions \in BOOLEAN
  BY DEF DiscoveryInv, Versions
<1> QED BY <1>1, <1>2, <1>3 DEF DiscoveryTypeOK

-----------------------------------------------------------------------------
(* The subscription to services by type, or to one by its URL.             *)

\* Connection c is being made, is open, or is the client of its service.
Used(conns, cl, hd, c) ==
    \/ ~conns[c].answered \/ conns[c].state = "open"
    \/ cl[conns[c].service] = c /\ (conns[c].state # "closed" \/ c \in hd)

\* A client is an answered connection of its service.
ClientsKnown ==
    \A s \in Services : client[s] # None =>
      connections[client[s]].service = s /\ connections[client[s]].answered

\* ClientConnected has not run before the connect ends.
ConnectingIsUnanswered ==
    \A c \in DOMAIN connections :
      connections[c].state = "connecting" => ~connections[c].answered

\* What OneAttempt says, connection by connection, and where there is no entry.
AtMostOne ==
    /\ \A c, d \in DOMAIN connections :
         /\ Used(connections, client, held, c) /\ Used(connections, client, held, d)
         /\ connections[c].service = connections[d].service
         => c = d
    /\ \A c \in DOMAIN connections : Used(connections, client, held, c) =>
         connections[c].service \in clients /\ retry_timers[connections[c].service] = 0
    /\ \A s \in Services \ clients : retry_timers[s] = 0

OpenAreClients ==
    \A c \in DOMAIN connections :
      connections[c].state = "open" /\ connections[c].answered
      => client[connections[c].service] = c

OneUsed == active => AtMostOne
OpenIsClient == active => OpenAreClients

\* Before the subscription and after Close.
NotActive ==
    ~active =>
      /\ clients = {} /\ \A s \in Services : retry_timers[s] = 0
      /\ \A c \in DOMAIN connections :
           connections[c].state \in {"connecting", "open"} => c \in left

SubscriptionInv ==
    /\ SubscriptionTypeOK
    /\ ClientsKnown /\ ConnectingIsUnanswered /\ OneUsed /\ OpenIsClient /\ NotActive

InfoInv ==
    /\ info_active \in BOOLEAN /\ detected \subseteq Services
    /\ ~info_active => detected = {}
    /\ LostNodeIsForgotten
    /\ kind \in {"info", "type", "url"} /\ late_update \in BOOLEAN

-----------------------------------------------------------------------------
(* What an action does to the connections.                                 *)

\* A sequence with one element changed.
LEMMA Put ==
  ASSUME NEW S, NEW seq \in Seq(S), NEW i \in DOMAIN seq, NEW e \in S,
         NEW new, new = [seq EXCEPT ![i] = e]
  PROVE  /\ new \in Seq(S) /\ Len(new) = Len(seq) /\ DOMAIN new = DOMAIN seq
         /\ \A j \in DOMAIN seq : new[j] = IF j = i THEN e ELSE seq[j]
  BY ExceptSeq

ConnectionRecords == [service : Services, state : States, answered : BOOLEAN,
                      detached : BOOLEAN]

\* The fields of a connection and their types.
LEMMA ConnectionFields ==
  ASSUME NEW conns \in Seq(ConnectionRecords), NEW c \in DOMAIN conns
  PROVE  /\ conns[c] \in ConnectionRecords
         /\ conns[c].service \in Services /\ conns[c].state \in States
         /\ conns[c].answered \in BOOLEAN /\ conns[c].detached \in BOOLEAN
         /\ DOMAIN conns = 1..Len(conns) /\ Len(conns) \in Nat /\ c # None /\ c \in 1..Len(conns)
<1>1. conns[c] \in ConnectionRecords /\ DOMAIN conns = 1..Len(conns) /\ Len(conns) \in Nat
  OBVIOUS
<1> QED BY <1>1 DEF ConnectionRecords, None

\* The same connections for the same services, with what changed in them aside.
SameServices(old, new) ==
    /\ new \in Seq(ConnectionRecords) /\ Len(new) = Len(old) /\ DOMAIN new = DOMAIN old
    /\ \A d \in DOMAIN old : new[d].service = old[d].service

WithState(conns, c, state) == [conns EXCEPT ![c].state = state]
WithAnswer(conns, c) == [conns EXCEPT ![c].answered = TRUE]

\* One connection in another state.
LEMMA StateSet ==
  ASSUME NEW conns \in Seq(ConnectionRecords), NEW c \in DOMAIN conns, NEW state \in States,
         NEW new, new = WithState(conns, c, state)
  PROVE  /\ SameServices(conns, new)
         /\ \A d \in DOMAIN conns : /\ new[d].answered = conns[d].answered
                                    /\ new[d].detached = conns[d].detached
                                    /\ d # c => new[d].state = conns[d].state
         /\ new[c].state = state
<1>1. PICK r : r = [conns[c] EXCEPT !.state = state]
  OBVIOUS
<1>2. conns[c] \in ConnectionRecords
  OBVIOUS
<1>3. r \in ConnectionRecords /\ r.state = state /\ r.service = conns[c].service
      /\ r.answered = conns[c].answered /\ r.detached = conns[c].detached
  BY <1>1, <1>2 DEF ConnectionRecords
<1>4. new = [conns EXCEPT ![c] = r]
  BY <1>1 DEF WithState
<1>5. /\ new \in Seq(ConnectionRecords) /\ Len(new) = Len(conns) /\ DOMAIN new = DOMAIN conns
      /\ \A d \in DOMAIN conns : new[d] = IF d = c THEN r ELSE conns[d]
  BY ONLY <1>3, <1>4, Put, conns \in Seq(ConnectionRecords), c \in DOMAIN conns
<1> QED BY <1>3, <1>5 DEF SameServices

\* One connection whose connect was answered.
LEMMA AnsweredSet ==
  ASSUME NEW conns \in Seq(ConnectionRecords), NEW c \in DOMAIN conns,
         NEW new, new = WithAnswer(conns, c)
  PROVE  /\ SameServices(conns, new)
         /\ \A d \in DOMAIN conns : /\ new[d].state = conns[d].state
                                    /\ new[d].detached = conns[d].detached
                                    /\ d # c => new[d].answered = conns[d].answered
         /\ new[c].answered
<1>1. PICK r : r = [conns[c] EXCEPT !.answered = TRUE]
  OBVIOUS
<1>2. conns[c] \in ConnectionRecords
  OBVIOUS
<1>3. r \in ConnectionRecords /\ r.state = conns[c].state /\ r.service = conns[c].service
      /\ r.answered = TRUE /\ r.detached = conns[c].detached
  BY <1>1, <1>2 DEF ConnectionRecords
<1>4. new = [conns EXCEPT ![c] = r]
  BY <1>1 DEF WithAnswer
<1>5. /\ new \in Seq(ConnectionRecords) /\ Len(new) = Len(conns) /\ DOMAIN new = DOMAIN conns
      /\ \A d \in DOMAIN conns : new[d] = IF d = c THEN r ELSE conns[d]
  BY ONLY <1>3, <1>4, Put, conns \in Seq(ConnectionRecords), c \in DOMAIN conns
<1> QED BY <1>3, <1>5 DEF SameServices

\* The connections of entries that were forgotten.
LEMMA DetachedSet ==
  ASSUME connections \in Seq(ConnectionRecords), NEW S, NEW new, new = Detached(S)
  PROVE  /\ SameServices(connections, new)
         /\ \A d \in DOMAIN connections : /\ new[d].state = connections[d].state
                                          /\ new[d].answered = connections[d].answered
<1>1. DOMAIN connections = 1..Len(connections) /\ Len(connections) \in Nat
  OBVIOUS
<1>2. new = [d \in 1..Len(connections) |->
               [connections[d] EXCEPT !.detached = @ \/ connections[d].service \in S]]
  BY <1>1 DEF Detached
<1>3. ASSUME NEW d \in 1..Len(connections)
      PROVE /\ new[d] \in ConnectionRecords /\ new[d].service = connections[d].service
            /\ new[d].state = connections[d].state /\ new[d].answered = connections[d].answered
  <2>1. connections[d] \in ConnectionRecords
    OBVIOUS
  <2>2. PICK detached \in BOOLEAN :
          detached = (connections[d].detached \/ connections[d].service \in S)
    OBVIOUS
  <2>3. new[d] = [connections[d] EXCEPT !.detached = detached]
    BY <1>2, <2>2
  <2> QED BY <2>1, <2>3 DEF ConnectionRecords
<1>4. new \in Seq(ConnectionRecords) /\ Len(new) = Len(connections)
      /\ DOMAIN new = DOMAIN connections
  <2>1. new \in [1..Len(connections) -> ConnectionRecords]
    BY <1>2, <1>3
  <2> QED BY <1>1, <2>1
<1> QED BY <1>1, <1>3, <1>4 DEF SameServices

\* The connections the subscription closes.
LEMMA DroppedSet ==
  ASSUME connections \in Seq(ConnectionRecords), NEW cs, NEW new, new = Dropped(cs)
  PROVE  /\ SameServices(connections, new)
         /\ \A d \in DOMAIN connections :
              /\ new[d].answered = connections[d].answered
              /\ \/ new[d].state = connections[d].state
                 \/ new[d].state = "dropped" /\ d \in cs
              /\ d \in cs => new[d].state # "open"
              /\ new[d].state = "closed" <=> connections[d].state = "closed"
<1>1. DOMAIN connections = 1..Len(connections) /\ Len(connections) \in Nat
  OBVIOUS
<1>2. new = [c \in 1..Len(connections) |->
               IF c \in cs /\ connections[c].state \in {"open", "lost"}
               THEN [connections[c] EXCEPT !.state = "dropped"] ELSE connections[c]]
  BY <1>1 DEF Dropped
<1>3. ASSUME NEW d \in 1..Len(connections)
      PROVE /\ new[d] \in ConnectionRecords /\ new[d].service = connections[d].service
            /\ new[d].answered = connections[d].answered
            /\ \/ new[d].state = connections[d].state
               \/ new[d].state = "dropped" /\ d \in cs
            /\ d \in cs => new[d].state # "open"
            /\ new[d].state = "closed" <=> connections[d].state = "closed"
  <2>1. connections[d] \in ConnectionRecords
    OBVIOUS
  <2>2. CASE d \in cs /\ connections[d].state \in {"open", "lost"}
    <3>1. new[d] = [connections[d] EXCEPT !.state = "dropped"]
      BY <1>2, <2>2
    <3>2. /\ new[d] \in ConnectionRecords /\ new[d].service = connections[d].service
          /\ new[d].answered = connections[d].answered /\ new[d].state = "dropped"
      BY <2>1, <3>1 DEF ConnectionRecords, States
    <3> QED BY <2>2, <3>2
  <2>3. CASE ~(d \in cs /\ connections[d].state \in {"open", "lost"})
    <3>1. new[d] = connections[d]
      BY <1>2, <2>3
    <3> QED BY <2>1, <2>3, <3>1
  <2> QED BY <2>2, <2>3
<1>4. new \in Seq(ConnectionRecords) /\ Len(new) = Len(connections)
      /\ DOMAIN new = DOMAIN connections
  <2>1. new \in [1..Len(connections) -> ConnectionRecords]
    BY <1>2, <1>3
  <2> QED BY <1>1, <2>1
<1> QED BY <1>1, <1>3, <1>4 DEF SameServices

\* What Close does to the connections.
DroppedAndForgotten(cs) ==
    [c \in DOMAIN connections |-> [Dropped(cs)[c] EXCEPT !.detached = TRUE]]

LEMMA ClosedSet ==
  ASSUME connections \in Seq(ConnectionRecords), NEW cs, NEW new, new = DroppedAndForgotten(cs)
  PROVE  /\ SameServices(connections, new)
         /\ \A d \in DOMAIN connections :
              /\ new[d].answered = connections[d].answered
              /\ \/ new[d].state = connections[d].state
                 \/ new[d].state = "dropped" /\ d \in cs
              /\ d \in cs => new[d].state # "open"
<1>1. PICK mid : mid = Dropped(cs)
  OBVIOUS
<1>2. /\ SameServices(connections, mid)
      /\ \A d \in DOMAIN connections :
           /\ mid[d].answered = connections[d].answered
           /\ \/ mid[d].state = connections[d].state
              \/ mid[d].state = "dropped" /\ d \in cs
           /\ d \in cs => mid[d].state # "open"
  BY <1>1, DroppedSet
<1>3. /\ DOMAIN connections = 1..Len(connections) /\ Len(connections) \in Nat
      /\ mid \in Seq(ConnectionRecords) /\ DOMAIN mid = DOMAIN connections
  BY <1>2 DEF SameServices
<1>4. new = [d \in 1..Len(connections) |-> [mid[d] EXCEPT !.detached = TRUE]]
  BY <1>1, <1>3 DEF DroppedAndForgotten
<1>5. ASSUME NEW d \in 1..Len(connections)
      PROVE /\ new[d] \in ConnectionRecords /\ new[d].service = mid[d].service
            /\ new[d].state = mid[d].state /\ new[d].answered = mid[d].answered
  <2>1. PICK e \in ConnectionRecords : e = mid[d]
    BY <1>3
  <2>2. PICK f : f = new[d] /\ f = [e EXCEPT !.detached = TRUE]
    BY <1>4, <2>1
  <2>3. /\ f \in ConnectionRecords /\ f.service = e.service
        /\ f.state = e.state /\ f.answered = e.answered
    BY ONLY e \in ConnectionRecords, <2>2 DEF ConnectionRecords
  <2> QED BY <2>1, <2>2, <2>3
<1>6. new \in Seq(ConnectionRecords) /\ Len(new) = Len(connections)
      /\ DOMAIN new = DOMAIN connections
  <2>1. new \in [1..Len(connections) -> ConnectionRecords]
    BY <1>4, <1>5
  <2> QED BY <1>3, <2>1
<1> QED BY <1>2, <1>3, <1>5, <1>6 DEF SameServices

ConnectsTo(seq) == [i \in DOMAIN seq |-> Connecting(seq[i])]

\* The old connections, and n new ones to the services of seq.
Extended(old, new, n, seq) ==
    /\ new \in Seq(ConnectionRecords) /\ Len(new) = Len(old) + n
    /\ \A d \in DOMAIN old : d \in DOMAIN new /\ new[d] = old[d]
    /\ \A d \in DOMAIN new \ DOMAIN old :
         /\ d > Len(old) /\ d - Len(old) \in 1..n
         /\ new[d].service = seq[d - Len(old)]
         /\ new[d].state = "connecting" /\ new[d].answered = FALSE

\* The connections made by connects to a list of services.
LEMMA ConnectsAdded ==
  ASSUME connections \in Seq(ConnectionRecords), NEW n \in Nat,
         NEW seq \in [1..n -> Services], NEW new, new = connections \o ConnectsTo(seq)
  PROVE  Extended(connections, new, n, seq)
<1>1. PICK added : added = ConnectsTo(seq) /\ added = [i \in 1..n |-> Connecting(seq[i])]
  BY DEF ConnectsTo
<1>2. \A i \in 1..n : /\ added[i] \in ConnectionRecords /\ added[i].service = seq[i]
                      /\ added[i].state = "connecting" /\ added[i].answered = FALSE
  BY <1>1 DEF Connecting, ConnectionRecords, States
<1>3. added \in Seq(ConnectionRecords) /\ Len(added) = n
  BY <1>1, <1>2
<1>4. new = connections \o added
  BY <1>1
<1>5. /\ new \in Seq(ConnectionRecords) /\ Len(new) = Len(connections) + n
      /\ \A i \in 1..(Len(connections) + n) :
           new[i] = IF i <= Len(connections) THEN connections[i]
                                             ELSE added[i - Len(connections)]
  BY ONLY <1>3, <1>4, ConcatProperties, connections \in Seq(ConnectionRecords)
<1>6. DOMAIN new = 1..(Len(connections) + n) /\ DOMAIN connections = 1..Len(connections)
      /\ Len(connections) \in Nat
  BY <1>5
<1>7. ASSUME NEW d \in DOMAIN connections
      PROVE d \in DOMAIN new /\ new[d] = connections[d]
  BY <1>5, <1>6
<1>8. ASSUME NEW d \in DOMAIN new \ DOMAIN connections
      PROVE /\ d > Len(connections) /\ d - Len(connections) \in 1..n
            /\ new[d] = added[d - Len(connections)]
  BY <1>5, <1>6
<1>9. ASSUME NEW d \in DOMAIN new \ DOMAIN connections
      PROVE /\ new[d].service = seq[d - Len(connections)]
            /\ new[d].state = "connecting" /\ new[d].answered = FALSE
  BY <1>2, <1>8
<1> QED BY <1>5, <1>7, <1>8, <1>9 DEF Extended

-----------------------------------------------------------------------------
(* Steps that leave the entries, their clients and timers alone.           *)

LEMMA SubscriptionTypes ==
  ASSUME SubscriptionTypeOK
  PROVE  /\ connections \in Seq(ConnectionRecords) /\ Len(connections) \in Nat
         /\ DOMAIN connections = 1..Len(connections) /\ Len(connections) <= MaxConnects
  BY DEF SubscriptionTypeOK, ConnectionRecords

\* A step that changes no entry, no client and no timer, and makes no connection used.
LEMMA Calm ==
  ASSUME SubscriptionInv, SameServices(connections, connections'),
         UNCHANGED <<active, use_service_url, clients, client, retry_timers, left>>,
         claimed' \in [Services -> BOOLEAN],
         error_count' \in [Services -> 0..(MaxErrors + 1)],
         update_is_old' \in [Services -> BOOLEAN],
         held' \subseteq DOMAIN connections,
         \A d \in DOMAIN connections :
           /\ connections'[d].answered = connections[d].answered
           /\ Used(connections', client, held', d) => Used(connections, client, held, d)
           /\ connections'[d].state = "connecting" => connections[d].state = "connecting"
           /\ connections'[d].state = "open" => connections[d].state \in {"open", "connecting"}
  PROVE  SubscriptionInv'
<1>1. SubscriptionTypeOK'
  <2>1. /\ connections' \in Seq(ConnectionRecords) /\ Len(connections') = Len(connections)
        /\ DOMAIN connections' = DOMAIN connections
    BY DEF SameServices
  <2>2. SubscriptionTypeOK
    BY DEF SubscriptionInv
  <2> QED BY <2>1, <2>2 DEF SubscriptionTypeOK, ConnectionRecords
<1>2. \A d \in DOMAIN connections : connections'[d].service = connections[d].service
  BY DEF SameServices
<1>3. DOMAIN connections' = DOMAIN connections
  BY DEF SameServices
<1>4. ClientsKnown'
  <2> SUFFICES ASSUME NEW s \in Services, client'[s] # None
               PROVE  connections'[client'[s]].service = s /\ connections'[client'[s]].answered
    BY DEF ClientsKnown
  <2>1. client[s] \in DOMAIN connections
    BY SubscriptionTypes DEF SubscriptionInv, SubscriptionTypeOK, None
  <2> QED BY <2>1, <1>2 DEF SubscriptionInv, ClientsKnown
<1>5. ConnectingIsUnanswered'
  BY <1>3 DEF SubscriptionInv, ConnectingIsUnanswered
<1>6. OneUsed'
  <2> SUFFICES ASSUME active
               PROVE
      /\ \A c, d \in DOMAIN connections' :
           /\ Used(connections', client', held', c) /\ Used(connections', client', held', d)
           /\ connections'[c].service = connections'[d].service
           => c = d
      /\ \A c \in DOMAIN connections' : Used(connections', client', held', c) =>
           connections'[c].service \in clients' /\ retry_timers'[connections'[c].service] = 0
      /\ \A s \in Services \ clients' : retry_timers'[s] = 0
    BY DEF OneUsed, AtMostOne
  <2>1. client' = client /\ clients' = clients /\ retry_timers' = retry_timers
    OBVIOUS
  <2> QED BY <2>1, <1>2, <1>3 DEF SubscriptionInv, OneUsed, AtMostOne
<1>7. OpenIsClient'
  <2> SUFFICES ASSUME active, NEW c \in DOMAIN connections,
                      connections'[c].state = "open", connections'[c].answered
               PROVE  client'[connections'[c].service] = c
    BY <1>3 DEF OpenIsClient, OpenAreClients
  <2>1. connections[c].answered /\ connections[c].state = "open"
    BY DEF SubscriptionInv, ConnectingIsUnanswered
  <2> QED BY <2>1, <1>2 DEF SubscriptionInv, OpenIsClient, OpenAreClients
<1>8. NotActive'
  BY <1>3 DEF SubscriptionInv, NotActive
<1> QED BY <1>1, <1>4, <1>5, <1>6, <1>7, <1>8 DEF SubscriptionInv

\* Enough to show of a step that changes the state of one connection.
LEMMA CalmState ==
  ASSUME SubscriptionInv, NEW c \in DOMAIN connections, NEW state \in States,
         connections' = [connections EXCEPT ![c].state = state],
         UNCHANGED <<active, use_service_url, clients, client, retry_timers, left, error_count,
                     update_is_old, held>>,
         claimed' \in [Services -> BOOLEAN],
         state # "connecting",
         state = "open" => connections[c].state = "connecting",
         connections[c].state # "closed"
  PROVE  SubscriptionInv'
<1>1. connections \in Seq(ConnectionRecords)
  BY SubscriptionTypes DEF SubscriptionInv
<1>2. /\ SameServices(connections, connections')
      /\ \A d \in DOMAIN connections : /\ connections'[d].answered = connections[d].answered
                                       /\ d # c => connections'[d].state = connections[d].state
      /\ connections'[c].state = state
  <2>1. PICK new : new = connections'
    OBVIOUS
  <2>2. new = WithState(connections, c, state)
    BY <2>1 DEF WithState
  <2>3. /\ SameServices(connections, new)
        /\ \A d \in DOMAIN connections : /\ new[d].answered = connections[d].answered
                                         /\ d # c => new[d].state = connections[d].state
        /\ new[c].state = state
    BY ONLY <1>1, <2>2, StateSet, c \in DOMAIN connections, state \in States
  <2> QED BY <2>1, <2>3
<1>3. \A d \in DOMAIN connections :
        Used(connections', client, held, d) => Used(connections, client, held, d)
  <2> TAKE d \in DOMAIN connections
  <2>1. connections'[d].service = connections[d].service
    BY <1>2 DEF SameServices
  <2>2. CASE d # c
    BY <1>2, <2>1, <2>2 DEF Used
  <2>3. CASE d = c /\ connections[c].state = "connecting"
    BY <2>3 DEF SubscriptionInv, ConnectingIsUnanswered, Used
  <2>4. CASE d = c /\ connections[c].state # "connecting"
    BY <1>2, <2>1, <2>4 DEF Used
  <2> QED BY <2>2, <2>3, <2>4
<1>4. \A d \in DOMAIN connections :
        /\ connections'[d].state = "connecting" => connections[d].state = "connecting"
        /\ connections'[d].state = "open" => connections[d].state \in {"open", "connecting"}
  BY <1>2
<1> QED BY <1>2, <1>3, <1>4, Calm DEF SubscriptionInv, SubscriptionTypeOK

LEMMA ConnectEndsStep == ASSUME SubscriptionInv, ConnectEnds PROVE SubscriptionInv'
<1>1. PICK c \in DOMAIN connections, state \in {"open", "failed"} :
        /\ connections[c].state = "connecting"
        /\ connections' = [connections EXCEPT ![c].state = state]
  BY DEF ConnectEnds
<1> QED BY <1>1, CalmState
        DEF ConnectEnds, entries, States, SubscriptionInv, SubscriptionTypeOK

LEMMA ConnectionLostStep == ASSUME SubscriptionInv, ConnectionLost PROVE SubscriptionInv'
<1>1. PICK c \in DOMAIN connections :
        /\ connections[c].state = "open"
        /\ connections' = [connections EXCEPT ![c].state = "lost"]
  BY DEF ConnectionLost
<1> QED BY <1>1, CalmState
        DEF ConnectionLost, entries, States, SubscriptionInv, SubscriptionTypeOK

LEMMA ClosingStep == ASSUME SubscriptionInv, Closing PROVE SubscriptionInv'
<1>1. PICK c \in DOMAIN connections :
        /\ connections[c].state \in {"open", "lost"}
        /\ connections' = [connections EXCEPT ![c].state = "closing"]
  BY DEF Closing
<1> QED BY <1>1, CalmState
        DEF Closing, entries, States, SubscriptionInv, SubscriptionTypeOK

\* Enough to show of a step that leaves the connections alone.
LEMMA CalmHeld ==
  ASSUME SubscriptionInv,
         UNCHANGED <<active, use_service_url, clients, client, retry_timers, left, error_count,
                     connections>>,
         claimed' \in [Services -> BOOLEAN], update_is_old' \in [Services -> BOOLEAN],
         held' \subseteq DOMAIN connections,
         \A c \in held' \ held : connections[c].state # "closed"
  PROVE  SubscriptionInv'
<1>1. SameServices(connections, connections')
  BY SubscriptionTypes DEF SubscriptionInv, SameServices
<1>2. \A d \in DOMAIN connections :
        Used(connections', client, held', d) => Used(connections, client, held, d)
  BY DEF Used
<1> QED BY <1>1, <1>2, Calm DEF SubscriptionInv, SubscriptionTypeOK

LEMMA HoldClientStep == ASSUME SubscriptionInv, HoldClient PROVE SubscriptionInv'
<1>1. PICK s \in clients : Connected(s) /\ held' = held \cup {client[s]}
  BY DEF HoldClient
<1>2. SubscriptionTypeOK /\ s \in Services
  BY DEF SubscriptionInv, SubscriptionTypeOK
<1>3. client[s] \in DOMAIN connections
  BY <1>1, <1>2, SubscriptionTypes DEF SubscriptionTypeOK, Connected, None
<1>4. \A c \in held' \ held : connections[c].state # "closed"
  BY <1>1 DEF Connected, Alive
<1> QED BY <1>1, <1>2, <1>3, <1>4, CalmHeld DEF HoldClient, entries, SubscriptionTypeOK

LEMMA LetGoStep == ASSUME SubscriptionInv, LetGo PROVE SubscriptionInv'
  BY CalmHeld DEF LetGo, entries, SubscriptionInv, SubscriptionTypeOK

LEMMA ClaimClientStep == ASSUME SubscriptionInv, ClaimClient PROVE SubscriptionInv'
  BY CalmHeld DEF ClaimClient, SubscriptionInv, SubscriptionTypeOK

LEMMA UpdateGrowsOldStep == ASSUME SubscriptionInv, UpdateGrowsOld PROVE SubscriptionInv'
  BY CalmHeld DEF UpdateGrowsOld, SubscriptionInv, SubscriptionTypeOK

\* The subscription closes some of its clients.
LEMMA CalmDropped ==
  ASSUME SubscriptionInv, NEW cs, connections' = Dropped(cs),
         UNCHANGED <<active, use_service_url, clients, client, retry_timers, left, error_count,
                     update_is_old, held, claimed>>
  PROVE  SubscriptionInv'
<1>1. connections \in Seq(ConnectionRecords)
  BY SubscriptionTypes DEF SubscriptionInv
<1>2. /\ SameServices(connections, connections')
      /\ \A d \in DOMAIN connections :
           /\ connections'[d].answered = connections[d].answered
           /\ \/ connections'[d].state = connections[d].state
              \/ connections'[d].state = "dropped"
           /\ connections'[d].state = "closed" <=> connections[d].state = "closed"
  BY <1>1, DroppedSet
<1>3. \A d \in DOMAIN connections :
        Used(connections', client, held, d) => Used(connections, client, held, d)
  BY <1>2 DEF SameServices, Used
<1> QED BY <1>2, <1>3, Calm DEF SubscriptionInv, SubscriptionTypeOK

LEMMA ReleaseClientStep == ASSUME SubscriptionInv, ReleaseClient PROVE SubscriptionInv'
<1>1. CASE UNCHANGED connections
  <2>1. claimed' \in [Services -> BOOLEAN]
    BY DEF ReleaseClient, SubscriptionInv, SubscriptionTypeOK
  <2> QED BY <1>1, <2>1, CalmHeld DEF ReleaseClient, SubscriptionInv, SubscriptionTypeOK
<1>2. CASE UNCHANGED claimed /\ \E c \in held : connections' = Dropped({c})
  BY <1>2, CalmDropped DEF ReleaseClient
<1> QED BY <1>1, <1>2 DEF ReleaseClient

LEMMA UpdateServiceURLStep == ASSUME SubscriptionInv, UpdateServiceURL PROVE SubscriptionInv'
  BY CalmDropped DEF UpdateServiceURL, entries

-----------------------------------------------------------------------------
(* A connection that ends, and the retry timer that this starts.           *)

\* A retry starts one timer, and only of a subscription that is open.
LEMMA RetryTimer ==
  ASSUME SubscriptionTypeOK, NEW s \in Services, ConnectRetry(s)
  PROVE  /\ error_count' \in [Services -> 0..(MaxErrors + 1)]
         /\ retry_timers' \in [Services -> Nat]
         /\ \A t \in Services : t # s => retry_timers'[t] = retry_timers[t]
         /\ retry_timers'[s] \in {retry_timers[s], retry_timers[s] + 1}
         /\ ~active => retry_timers'[s] = retry_timers[s]
<1>1. /\ error_count \in [Services -> 0..(MaxErrors + 1)]
      /\ retry_timers \in [Services -> 0..1] /\ active \in BOOLEAN /\ MaxErrors \in Nat
  BY ServiceSubscriptionAssumption DEF SubscriptionTypeOK
<1>2. CASE GivesUp(s)
  BY <1>1, <1>2 DEF ConnectRetry
<1>3. CASE ~GivesUp(s)
  <2>1. PICK n \in 0..(MaxErrors + 1) : error_count' = [error_count EXCEPT ![s] = n]
    <3>1. error_count[s] \in 0..(MaxErrors + 1)
      BY <1>1
    <3>2. CASE error_count[s] > MaxErrors
      BY <1>3, <3>1, <3>2 DEF ConnectRetry
    <3>3. CASE ~(error_count[s] > MaxErrors)
      <4>1. error_count[s] + 1 \in 0..(MaxErrors + 1)
        BY <1>1, <3>1, <3>3
      <4> QED BY <1>3, <3>3, <4>1 DEF ConnectRetry
    <3> QED BY <3>2, <3>3
  <2>2. PICK k \in Nat : /\ retry_timers' = [retry_timers EXCEPT ![s] = k]
                         /\ k \in {retry_timers[s], retry_timers[s] + 1}
                         /\ ~active => k = retry_timers[s]
    <3>1. PICK i \in {0, 1} : i = IF active THEN 1 ELSE 0
      OBVIOUS
    <3>2. PICK m : m = retry_timers[s] + i
      OBVIOUS
    <3>3. retry_timers' = [retry_timers EXCEPT ![s] = m]
      BY <1>3, <3>1, <3>2, Zenon DEF ConnectRetry
    <3>4. m \in Nat /\ m \in {retry_timers[s], retry_timers[s] + 1}
          /\ (~active => m = retry_timers[s])
      BY <1>1, <3>1, <3>2
    <3> QED BY <3>3, <3>4
  <2>3. error_count' \in [Services -> 0..(MaxErrors + 1)]
    BY <1>1, <2>1
  <2>4. /\ retry_timers' \in [Services -> Nat]
        /\ \A t \in Services : t # s => retry_timers'[t] = retry_timers[t]
        /\ retry_timers'[s] = k
    <3>1. retry_timers \in [Services -> Nat]
      BY <1>1
    <3> QED BY <2>2, <3>1
  <2>5. /\ retry_timers'[s] \in {retry_timers[s], retry_timers[s] + 1}
        /\ ~active => retry_timers'[s] = retry_timers[s]
    BY <2>2, <2>4
  <2> QED BY <2>3, <2>4, <2>5
<1> QED BY <1>2, <1>3

\* The connection in use of a service ends and a retry is started: the place it held is
\* the timer's.
LEMMA ConnectionEnds ==
  ASSUME SubscriptionInv, NEW c \in DOMAIN connections, NEW s \in Services,
         s = connections[c].service, Used(connections, client, held, c),
         SameServices(connections, connections'),
         client' = client \/ client' = [client EXCEPT ![s] = None],
         UNCHANGED <<active, use_service_url, clients, update_is_old, held, left>>,
         claimed' \in [Services -> BOOLEAN], ConnectRetry(s),
         \A d \in DOMAIN connections :
           /\ connections[d].answered => connections'[d].answered
           /\ d # c => /\ connections'[d].answered = connections[d].answered
                       /\ connections'[d].state = connections[d].state,
         ~Used(connections', client', held, c),
         connections'[c].state # "connecting"
  PROVE  SubscriptionInv'
<1>1. SubscriptionTypeOK /\ ClientsKnown /\ ConnectingIsUnanswered /\ OneUsed /\ OpenIsClient
      /\ NotActive
  BY DEF SubscriptionInv
<1>2. /\ connections' \in Seq(ConnectionRecords) /\ Len(connections') = Len(connections)
      /\ DOMAIN connections' = DOMAIN connections
      /\ \A d \in DOMAIN connections : connections'[d].service = connections[d].service
  BY DEF SameServices
<1>3. /\ connections \in Seq(ConnectionRecords) /\ DOMAIN connections = 1..Len(connections)
      /\ Len(connections) \in Nat
      /\ \A d \in DOMAIN connections : connections[d].service \in Services /\ d # None
  BY <1>1, SubscriptionTypes, ConnectionFields
<1>4. /\ client \in [Services -> 0..Len(connections)]
      /\ client' \in [Services -> 0..Len(connections)]
      /\ \A t \in Services : client'[t] \in {client[t], None} /\ (t # s => client'[t] = client[t])
  <2>1. client \in [Services -> 0..Len(connections)]
    BY <1>1 DEF SubscriptionTypeOK
  <2>2. CASE client' = client
    BY <2>1, <2>2
  <2>3. CASE client' = [client EXCEPT ![s] = None]
    <3>1. None \in 0..Len(connections)
      BY <1>3 DEF None
    <3> QED BY <2>1, <2>3, <3>1
  <2> QED BY <2>1, <2>2, <2>3
<1>5. /\ error_count' \in [Services -> 0..(MaxErrors + 1)]
      /\ retry_timers' \in [Services -> Nat]
      /\ \A t \in Services : t # s => retry_timers'[t] = retry_timers[t]
      /\ retry_timers'[s] \in {retry_timers[s], retry_timers[s] + 1}
      /\ ~active => retry_timers'[s] = retry_timers[s]
  BY <1>1, RetryTimer
<1>6. retry_timers' \in [Services -> 0..1]
  <2>1. retry_timers \in [Services -> 0..1] /\ active \in BOOLEAN
    BY <1>1 DEF SubscriptionTypeOK
  <2>2. active => retry_timers[s] = 0
    BY <1>1 DEF OneUsed, AtMostOne
  <2>3. retry_timers'[s] \in 0..1
    BY <1>5, <2>1, <2>2
  <2>4. \A t \in Services : retry_timers'[t] \in 0..1
    BY <1>5, <2>1, <2>3
  <2> QED BY <1>5, <2>4
<1>7. SubscriptionTypeOK'
  BY <1>1, <1>2, <1>4, <1>5, <1>6 DEF SubscriptionTypeOK, ConnectionRecords
<1>8. ClientsKnown'
  <2> SUFFICES ASSUME NEW t \in Services, client'[t] # None
               PROVE  connections'[client'[t]].service = t /\ connections'[client'[t]].answered
    BY DEF ClientsKnown
  <2>1. client'[t] = client[t] /\ client[t] \in DOMAIN connections
    BY <1>3, <1>4 DEF None
  <2>2. connections[client[t]].service = t /\ connections[client[t]].answered
    BY <1>1, <2>1 DEF ClientsKnown
  <2> QED BY <1>2, <2>1, <2>2
<1>9. ConnectingIsUnanswered'
  BY <1>1, <1>2 DEF ConnectingIsUnanswered
<1>10. ASSUME NEW d \in DOMAIN connections, Used(connections', client', held, d)
       PROVE  d # c /\ Used(connections, client, held, d)
  <2>1. d # c
    BY <1>10
  <2>2. client'[connections[d].service] = d => client[connections[d].service] = d
    BY <1>3, <1>4
  <2> QED BY <1>2, <1>10, <2>1, <2>2 DEF Used
<1>11. OneUsed'
  <2> SUFFICES ASSUME active
               PROVE
      /\ \A d, e \in DOMAIN connections' :
           /\ Used(connections', client', held', d) /\ Used(connections', client', held', e)
           /\ connections'[d].service = connections'[e].service
           => d = e
      /\ \A d \in DOMAIN connections' : Used(connections', client', held', d) =>
           connections'[d].service \in clients' /\ retry_timers'[connections'[d].service] = 0
      /\ \A t \in Services \ clients' : retry_timers'[t] = 0
    BY DEF OneUsed, AtMostOne
  <2>1. \A d, e \in DOMAIN connections' :
           /\ Used(connections', client', held', d) /\ Used(connections', client', held', e)
           /\ connections'[d].service = connections'[e].service
           => d = e
    BY <1>1, <1>2, <1>10 DEF OneUsed, AtMostOne
  <2>2. ASSUME NEW d \in DOMAIN connections', Used(connections', client', held', d)
        PROVE  connections'[d].service \in clients'
               /\ retry_timers'[connections'[d].service] = 0
    <3>1. d \in DOMAIN connections /\ d # c /\ Used(connections, client, held, d)
      BY <1>2, <1>10, <2>2
    <3>2. connections[d].service # s
      BY <1>1, <3>1 DEF OneUsed, AtMostOne
    <3>3. connections[d].service \in clients /\ retry_timers[connections[d].service] = 0
      BY <1>1, <3>1 DEF OneUsed, AtMostOne
    <3> QED BY <1>2, <1>3, <1>5, <3>1, <3>2, <3>3
  <2>3. ASSUME NEW t \in Services \ clients' PROVE retry_timers'[t] = 0
    <3>1. s \in clients
      BY <1>1 DEF OneUsed, AtMostOne
    <3>2. t # s /\ retry_timers[t] = 0
      BY <1>1, <3>1 DEF OneUsed, AtMostOne
    <3> QED BY <1>5, <3>2
  <2> QED BY <2>1, <2>2, <2>3
<1>12. OpenIsClient'
  <2> SUFFICES ASSUME active, NEW d \in DOMAIN connections,
                      connections'[d].state = "open", connections'[d].answered
               PROVE  client'[connections'[d].service] = d
    BY <1>2 DEF OpenIsClient, OpenAreClients
  <2>1. d # c
    BY DEF Used
  <2>2. connections[d].state = "open" /\ connections[d].answered
    BY <2>1
  <2>3. client[connections[d].service] = d
    BY <1>1, <2>2 DEF OpenIsClient, OpenAreClients
  <2>4. connections[d].service # s
    BY <1>1, <2>1, <2>2 DEF OneUsed, AtMostOne, Used
  <2> QED BY <1>2, <1>3, <1>4, <2>3, <2>4
<1>13. NotActive'
  <2> SUFFICES ASSUME ~active
               PROVE  /\ clients' = {} /\ \A t \in Services : retry_timers'[t] = 0
                      /\ \A d \in DOMAIN connections' :
                           connections'[d].state \in {"connecting", "open"} => d \in left'
    BY DEF NotActive
  <2>1. clients' = {} /\ \A t \in Services : retry_timers'[t] = 0
    BY <1>1, <1>5 DEF NotActive
  <2>2. ASSUME NEW d \in DOMAIN connections, connections'[d].state \in {"connecting", "open"}
        PROVE  d \in left'
    <3>1. d # c
      BY <2>2 DEF Used
    <3> QED BY <1>1, <2>2, <3>1 DEF NotActive
  <2> QED BY <1>2, <2>1, <2>2
<1> QED BY <1>7, <1>8, <1>9, <1>11, <1>12, <1>13 DEF SubscriptionInv

LEMMA ClientConnectFailsStep ==
  ASSUME SubscriptionInv, ClientConnectFails PROVE SubscriptionInv'
<1>1. PICK c \in DOMAIN connections :
        /\ connections[c].state = "failed" /\ ~connections[c].answered
        /\ connections' = [connections EXCEPT ![c].answered = TRUE]
        /\ ConnectRetry(connections[c].service)
        /\ UNCHANGED <<active, use_service_url, clients, client, claimed, update_is_old,
                       held, left>>
  BY DEF ClientConnectFails
<1>2. SubscriptionTypeOK /\ ClientsKnown
  BY DEF SubscriptionInv
<1>3. connections \in Seq(ConnectionRecords) /\ connections[c].service \in Services /\ c # None
  BY <1>2, SubscriptionTypes, ConnectionFields
<1>4. connections' = WithAnswer(connections, c)
  BY <1>1 DEF WithAnswer
<1>5. /\ SameServices(connections, connections')
      /\ \A d \in DOMAIN connections :
           /\ connections'[d].state = connections[d].state
           /\ d # c => connections'[d].answered = connections[d].answered
      /\ connections'[c].answered
  BY ONLY <1>3, <1>4, AnsweredSet, c \in DOMAIN connections
<1>6. Used(connections, client, held, c)
  BY <1>1 DEF Used
<1>7. client[connections[c].service] # c
  BY <1>1, <1>2, <1>3 DEF ClientsKnown
<1>8. ~Used(connections', client', held, c)
  BY <1>1, <1>5, <1>7 DEF Used, SameServices
<1>9. claimed' \in [Services -> BOOLEAN] /\ connections'[c].state # "connecting"
  BY <1>1, <1>2, <1>5 DEF SubscriptionTypeOK
<1>10. \A d \in DOMAIN connections :
         /\ connections[d].answered => connections'[d].answered
         /\ d # c => /\ connections'[d].answered = connections[d].answered
                     /\ connections'[d].state = connections[d].state
  BY <1>5
<1> QED BY <1>1, <1>3, <1>5, <1>6, <1>8, <1>9, <1>10, ConnectionEnds

\* An event of connection c, which is after it in the state after[c].
LEMMA ClientEventStep ==
  ASSUME SubscriptionInv, NEW c \in DOMAIN connections, NEW state \in {"lost", "closed"},
         NEW after, after = WithState(connections, c, state),
         connections[c].state \in {"lost", "closing", "dropped"},
         NEW alive, ClientEvent(c, after, alive),
         UNCHANGED <<active, use_service_url, clients, update_is_old, held, left>>
  PROVE  SubscriptionInv'
<1>1. SubscriptionTypeOK /\ ClientsKnown /\ ConnectingIsUnanswered
  BY DEF SubscriptionInv
<1>2. PICK s \in Services : s = connections[c].service
  BY <1>1, SubscriptionTypes, ConnectionFields
<1>3. /\ SameServices(connections, after)
      /\ \A d \in DOMAIN connections : /\ after[d].answered = connections[d].answered
                                       /\ after[d].detached = connections[d].detached
                                       /\ d # c => after[d].state = connections[d].state
      /\ after[c].state = state
  BY <1>1, SubscriptionTypes, StateSet DEF States
<1>4. after[c].service = s /\ after \in Seq(ConnectionRecords) /\ c \in DOMAIN after
      /\ DOMAIN after = DOMAIN connections
  BY <1>2, <1>3 DEF SameServices
<1>5. CASE ~after[c].detached /\ alive /\ IsClient(s, c)
  <2>1. /\ client' = [client EXCEPT ![s] = None]
        /\ claimed' = [claimed EXCEPT ![s] = FALSE]
        /\ ConnectRetry(s)
        /\ connections' = [after EXCEPT ![c].state =
              IF c \in Unclaimed(s, c) /\ @ = "lost" THEN "dropped" ELSE @]
    BY <1>4, <1>5 DEF ClientEvent
  <2>2. PICK last \in {"lost", "closed", "dropped"} : connections' = WithState(after, c, last)
    <3>1. PICK last : last = IF c \in Unclaimed(s, c) /\ after[c].state = "lost"
                             THEN "dropped" ELSE after[c].state
      OBVIOUS
    <3>2. connections' = WithState(after, c, last)
      BY <2>1, <3>1 DEF WithState
    <3> QED BY <1>3, <3>1, <3>2
  <2>3. /\ SameServices(after, connections')
        /\ \A d \in DOMAIN after : /\ connections'[d].answered = after[d].answered
                                   /\ d # c => connections'[d].state = after[d].state
        /\ connections'[c].state = last
    BY <1>4, <2>2, StateSet DEF States
  <2>4. /\ SameServices(connections, connections')
        /\ \A d \in DOMAIN connections :
             /\ connections'[d].answered = connections[d].answered
             /\ d # c => connections'[d].state = connections[d].state
    BY <1>3, <1>4, <2>3 DEF SameServices
  <2>5. client[s] = c /\ c # None
    BY <1>1, <1>5, SubscriptionTypes, ConnectionFields DEF IsClient
  <2>6. Used(connections, client, held, c) /\ connections[c].answered
    BY <1>1, <1>2, <2>5 DEF Used, ClientsKnown
  <2>7. client'[s] = None
    BY <1>1, <2>1 DEF SubscriptionTypeOK
  <2>8. ~Used(connections', client', held, c)
    BY <1>2, <2>3, <2>4, <2>5, <2>6, <2>7 DEF Used, SameServices
  <2>9. claimed' \in [Services -> BOOLEAN]
    BY <1>1, <2>1 DEF SubscriptionTypeOK
  <2> QED BY <1>2, <2>1, <2>3, <2>4, <2>6, <2>8, <2>9, ConnectionEnds
<1>6. CASE ~(~after[c].detached /\ alive /\ IsClient(s, c))
  <2>1. /\ claimed' = claimed \/ claimed' = [claimed EXCEPT ![s] = FALSE]
        /\ connections' = after
        /\ UNCHANGED <<client, error_count, retry_timers>>
    BY <1>4, <1>6 DEF ClientEvent
  <2>2. claimed' \in [Services -> BOOLEAN]
    BY <1>1, <2>1 DEF SubscriptionTypeOK
  <2>3. connections' = [connections EXCEPT ![c].state = state]
    BY <2>1 DEF WithState
  <2> QED BY <2>1, <2>2, <2>3, CalmState DEF States, SubscriptionInv, SubscriptionTypeOK
<1> QED BY <1>5, <1>6

LEMMA LostEventStep == ASSUME SubscriptionInv, LostEvent PROVE SubscriptionInv'
<1>1. PICK c \in DOMAIN connections :
        /\ connections[c].state = "lost"
        /\ ClientEvent(c, connections, TRUE)
        /\ UNCHANGED <<active, use_service_url, clients, update_is_old, held, left>>
  BY DEF LostEvent
<1>2. connections = WithState(connections, c, "lost")
  <2>1. connections \in Seq(ConnectionRecords) /\ connections[c] \in ConnectionRecords
    BY SubscriptionTypes, ConnectionFields DEF SubscriptionInv
  <2>2. [connections[c] EXCEPT !.state = "lost"] = connections[c]
    BY <1>1, <2>1 DEF ConnectionRecords
  <2> QED BY <2>1, <2>2 DEF WithState
<1> QED BY <1>1, <1>2, ClientEventStep

LEMMA AsyncClose1Step == ASSUME SubscriptionInv, AsyncClose1 PROVE SubscriptionInv'
<1>1. PICK c \in DOMAIN connections :
        /\ connections[c].state \in {"closing", "dropped"}
        /\ ClientEvent(c, [connections EXCEPT ![c].state = "closed"], c \in held)
        /\ UNCHANGED <<active, use_service_url, clients, update_is_old, held, left>>
  BY DEF AsyncClose1
<1>2. PICK after : after = [connections EXCEPT ![c].state = "closed"]
                   /\ after = WithState(connections, c, "closed")
  BY DEF WithState
<1> QED BY <1>1, <1>2, ClientEventStep

-----------------------------------------------------------------------------
(* ClientConnected                                                         *)

LEMMA ClientConnectsStep == ASSUME SubscriptionInv, ClientConnects PROVE SubscriptionInv'
<1>1. PICK c \in DOMAIN connections :
        LET s == connections[c].service IN
        /\ connections[c].state \notin {"connecting", "failed"} /\ ~connections[c].answered
        /\ connections' = [connections EXCEPT ![c].answered = TRUE]
        /\ client' = [client EXCEPT ![s] = c]
        /\ error_count' = [error_count EXCEPT ![s] = 0]
        /\ \/ active /\ held' = held \cup {c}
           \/ UNCHANGED held
        /\ UNCHANGED <<active, use_service_url, clients, claimed, retry_timers,
                       update_is_old, left>>
  BY DEF ClientConnects
<1>2. SubscriptionTypeOK /\ ClientsKnown /\ ConnectingIsUnanswered /\ OneUsed /\ OpenIsClient
      /\ NotActive
  BY DEF SubscriptionInv
<1>3. /\ connections \in Seq(ConnectionRecords) /\ DOMAIN connections = 1..Len(connections)
      /\ Len(connections) \in Nat
      /\ \A d \in DOMAIN connections : connections[d].service \in Services /\ d # None
  BY <1>2, SubscriptionTypes, ConnectionFields
<1>4. PICK s \in Services : s = connections[c].service
  BY <1>3
<1>5. connections' = WithAnswer(connections, c)
  BY <1>1 DEF WithAnswer
<1>6. /\ SameServices(connections, connections')
      /\ \A d \in DOMAIN connections :
           /\ connections'[d].state = connections[d].state
           /\ d # c => connections'[d].answered = connections[d].answered
      /\ connections'[c].answered
  BY ONLY <1>3, <1>5, AnsweredSet, c \in DOMAIN connections
<1>7. /\ connections' \in Seq(ConnectionRecords) /\ Len(connections') = Len(connections)
      /\ DOMAIN connections' = DOMAIN connections
      /\ \A d \in DOMAIN connections : connections'[d].service = connections[d].service
  BY <1>6 DEF SameServices
<1>8. /\ client \in [Services -> 0..Len(connections)]
      /\ client' \in [Services -> 0..Len(connections)]
      /\ client'[s] = c /\ \A t \in Services : t # s => client'[t] = client[t]
  <2>1. client \in [Services -> 0..Len(connections)] /\ client' = [client EXCEPT ![s] = c]
    BY <1>1, <1>2, <1>4 DEF SubscriptionTypeOK
  <2>2. c \in 0..Len(connections)
    BY <1>3
  <2> QED BY <2>1, <2>2
<1>9. SubscriptionTypeOK'
  <2>1. error_count' \in [Services -> 0..(MaxErrors + 1)]
    <3>1. 0 \in 0..(MaxErrors + 1)
      BY ServiceSubscriptionAssumption
    <3>2. error_count \in [Services -> 0..(MaxErrors + 1)]
      BY <1>2 DEF SubscriptionTypeOK
    <3> QED BY <1>1, <3>1, <3>2
  <2>2. held' \subseteq DOMAIN connections'
    BY <1>1, <1>2, <1>7 DEF SubscriptionTypeOK
  <2> QED BY <1>1, <1>2, <1>7, <1>8, <2>1, <2>2 DEF SubscriptionTypeOK, ConnectionRecords
<1>10. ClientsKnown'
  <2> SUFFICES ASSUME NEW t \in Services, client'[t] # None
               PROVE  connections'[client'[t]].service = t /\ connections'[client'[t]].answered
    BY DEF ClientsKnown
  <2>1. CASE t = s
    BY <1>4, <1>6, <1>7, <1>8, <2>1
  <2>2. CASE t # s
    <3>1. client[t] \in DOMAIN connections /\ client'[t] = client[t]
      BY <1>3, <1>8, <2>2 DEF None
    <3>2. connections[client[t]].service = t /\ connections[client[t]].answered
      BY <1>2, <3>1 DEF ClientsKnown
    <3> QED BY <1>6, <1>7, <3>1, <3>2
  <2> QED BY <2>1, <2>2
<1>11. ConnectingIsUnanswered'
  BY <1>1, <1>2, <1>6, <1>7 DEF ConnectingIsUnanswered
<1>12. ASSUME NEW d \in DOMAIN connections, Used(connections', client', held', d)
       PROVE  Used(connections, client, held, d)
  <2>1. CASE d = c
    BY <1>1, <2>1 DEF Used
  <2>2. CASE d # c
    <3>1. client'[connections[d].service] = d => client[connections[d].service] = d
      BY <1>3, <1>8, <2>2
    <3>2. d \in held' => d \in held
      BY <1>1, <2>2
    <3> QED BY <1>6, <1>7, <1>12, <2>2, <3>1, <3>2 DEF Used
  <2> QED BY <2>1, <2>2
<1>13. OneUsed'
  <2>1. clients' = clients /\ retry_timers' = retry_timers /\ active' = active
    BY <1>1
  <2> QED BY <1>2, <1>7, <1>12, <2>1 DEF OneUsed, AtMostOne
<1>14. OpenIsClient'
  <2> SUFFICES ASSUME active, NEW d \in DOMAIN connections,
                      connections'[d].state = "open", connections'[d].answered
               PROVE  client'[connections'[d].service] = d
    BY <1>1, <1>7 DEF OpenIsClient, OpenAreClients
  <2>1. CASE d = c
    BY <1>4, <1>7, <1>8, <2>1
  <2>2. CASE d # c
    <3>1. connections[d].state = "open" /\ connections[d].answered
      BY <1>6, <2>2
    <3>2. Used(connections, client, held, d) /\ Used(connections, client, held, c)
      BY <1>1, <3>1 DEF Used
    <3>3. connections[d].service # s
      BY <1>2, <1>4, <2>2, <3>2 DEF OneUsed, AtMostOne
    <3>4. client[connections[d].service] = d
      BY <1>2, <3>1 DEF OpenIsClient, OpenAreClients
    <3> QED BY <1>3, <1>7, <1>8, <3>3, <3>4
  <2> QED BY <2>1, <2>2
<1>15. NotActive'
  BY <1>1, <1>2, <1>6, <1>7 DEF NotActive
<1> QED BY <1>9, <1>10, <1>11, <1>13, <1>14, <1>15 DEF SubscriptionInv

-----------------------------------------------------------------------------
(* Connects.                                                               *)

\* Connects to services that are not used, each once and none with a timer.
LEMMA ConnectsMade ==
  ASSUME SubscriptionInv, AtMostOne, OpenAreClients,
         NEW n \in Nat, NEW seq \in [1..n -> Services], Len(connections) + n <= MaxConnects,
         connections' = connections \o ConnectsTo(seq),
         active' = TRUE, clients \subseteq clients', clients' \subseteq Services,
         UNCHANGED <<use_service_url, client, claimed, held, left>>,
         error_count' \in [Services -> 0..(MaxErrors + 1)],
         update_is_old' \in [Services -> BOOLEAN],
         retry_timers' \in [Services -> 0..1],
         \A s \in Services : retry_timers[s] = 0 => retry_timers'[s] = 0,
         \A i, j \in 1..n : seq[i] = seq[j] => i = j,
         \A i \in 1..n : /\ seq[i] \in clients' /\ retry_timers'[seq[i]] = 0
                         /\ \A d \in DOMAIN connections :
                              Used(connections, client, held, d) =>
                              connections[d].service # seq[i]
  PROVE  SubscriptionInv'
<1>1. SubscriptionTypeOK /\ ClientsKnown /\ ConnectingIsUnanswered
  BY DEF SubscriptionInv
<1>2. /\ connections \in Seq(ConnectionRecords) /\ DOMAIN connections = 1..Len(connections)
      /\ Len(connections) \in Nat
      /\ \A d \in DOMAIN connections : connections[d].service \in Services /\ d # None
  BY <1>1, SubscriptionTypes, ConnectionFields
<1>3. /\ connections' \in Seq(ConnectionRecords) /\ Len(connections') = Len(connections) + n
      /\ \A d \in DOMAIN connections : d \in DOMAIN connections' /\ connections'[d] = connections[d]
      /\ \A d \in DOMAIN connections' \ DOMAIN connections :
           /\ d > Len(connections) /\ d - Len(connections) \in 1..n
           /\ connections'[d].service = seq[d - Len(connections)]
           /\ connections'[d].state = "connecting" /\ connections'[d].answered = FALSE
  <2>1. Extended(connections, connections', n, seq)
    BY <1>2, ConnectsAdded
  <2> QED BY <2>1 DEF Extended
<1>4. DOMAIN connections' = 1..(Len(connections) + n)
  BY <1>3
<1>5. SubscriptionTypeOK'
  <2>1. client \in [Services -> 0..Len(connections)] /\ held \subseteq DOMAIN connections
        /\ left \subseteq DOMAIN connections
    BY <1>1 DEF SubscriptionTypeOK
  <2>2. client' \in [Services -> 0..Len(connections')] /\ held' \subseteq DOMAIN connections'
        /\ left' \subseteq DOMAIN connections'
    <3>1. 0..Len(connections) \subseteq 0..Len(connections')
      BY <1>2, <1>3
    <3> QED BY <1>3, <2>1, <3>1
  <2>3. active' \in BOOLEAN
    OBVIOUS
  <2> QED BY <1>1, <1>3, <2>2, <2>3 DEF SubscriptionTypeOK, ConnectionRecords
<1>6. ClientsKnown'
  <2> SUFFICES ASSUME NEW s \in Services, client'[s] # None
               PROVE  connections'[client'[s]].service = s /\ connections'[client'[s]].answered
    BY DEF ClientsKnown
  <2>1. client[s] \in DOMAIN connections
    BY <1>1, <1>2 DEF SubscriptionTypeOK, None
  <2> QED BY <1>1, <1>3, <2>1 DEF ClientsKnown
<1>7. ConnectingIsUnanswered'
  <2> SUFFICES ASSUME NEW d \in DOMAIN connections', connections'[d].state = "connecting"
               PROVE  ~connections'[d].answered
    BY DEF ConnectingIsUnanswered
  <2>1. CASE d \in DOMAIN connections
    BY <1>1, <1>3, <2>1 DEF ConnectingIsUnanswered
  <2>2. CASE d \notin DOMAIN connections
    BY <1>3, <2>2
  <2> QED BY <2>1, <2>2
<1>8. ASSUME NEW d \in DOMAIN connections, Used(connections', client', held', d)
      PROVE  Used(connections, client, held, d)
  BY <1>3, <1>8 DEF Used
<1>9. AtMostOne'
  <2>1. ASSUME NEW d \in DOMAIN connections, NEW e \in DOMAIN connections' \ DOMAIN connections,
               Used(connections', client', held', d)
        PROVE  connections'[d].service # connections'[e].service
    <3>1. PICK i \in 1..n : connections'[e].service = seq[i]
      BY <1>3
    <3>2. Used(connections, client, held, d) /\ connections'[d].service = connections[d].service
      BY <1>3, <1>8, <2>1
    <3> QED BY <3>1, <3>2
  <2>2. ASSUME NEW d \in DOMAIN connections' \ DOMAIN connections,
               NEW e \in DOMAIN connections' \ DOMAIN connections,
               connections'[d].service = connections'[e].service
        PROVE  d = e
    <3>1. PICK i \in 1..n : i = d - Len(connections) /\ connections'[d].service = seq[i]
      BY <1>3
    <3>2. PICK j \in 1..n : j = e - Len(connections) /\ connections'[e].service = seq[j]
      BY <1>3
    <3>3. i = j
      BY <2>2, <3>1, <3>2
    <3> QED BY <1>2, <1>4, <3>1, <3>2, <3>3
  <2>3. ASSUME NEW d \in DOMAIN connections', NEW e \in DOMAIN connections',
               Used(connections', client', held', d), Used(connections', client', held', e),
               connections'[d].service = connections'[e].service
        PROVE  d = e
    <3>1. CASE d \in DOMAIN connections /\ e \in DOMAIN connections
      BY <1>3, <1>8, <2>3, <3>1 DEF AtMostOne
    <3> QED BY <2>1, <2>2, <2>3, <3>1
  <2>4. ASSUME NEW d \in DOMAIN connections', Used(connections', client', held', d)
        PROVE  connections'[d].service \in clients'
               /\ retry_timers'[connections'[d].service] = 0
    <3>1. CASE d \in DOMAIN connections
      <4>1. Used(connections, client, held, d) /\ connections'[d].service = connections[d].service
        BY <1>3, <1>8, <2>4, <3>1
      <4>2. connections[d].service \in clients /\ retry_timers[connections[d].service] = 0
        BY <3>1, <4>1 DEF AtMostOne
      <4> QED BY <1>2, <4>1, <4>2
    <3>2. CASE d \notin DOMAIN connections
      <4>1. PICK i \in 1..n : connections'[d].service = seq[i]
        BY <1>3, <3>2
      <4> QED BY <4>1
    <3> QED BY <3>1, <3>2
  <2>5. \A s \in Services \ clients' : retry_timers'[s] = 0
    BY DEF AtMostOne
  <2> QED BY <2>3, <2>4, <2>5 DEF AtMostOne
<1>10. OpenAreClients'
  <2> SUFFICES ASSUME NEW d \in DOMAIN connections', connections'[d].state = "open",
                      connections'[d].answered
               PROVE  client'[connections'[d].service] = d
    BY DEF OpenAreClients
  <2>1. d \in DOMAIN connections
    BY <1>3
  <2> QED BY <1>3, <2>1 DEF OpenAreClients
<1> QED BY <1>5, <1>6, <1>7, <1>9, <1>10
        DEF SubscriptionInv, OneUsed, OpenIsClient, NotActive

\* The same with no connect.
LEMMA NoneMade ==
  ASSUME SubscriptionInv, AtMostOne, OpenAreClients, active' = TRUE,
         clients \subseteq clients', clients' \subseteq Services,
         UNCHANGED <<use_service_url, client, claimed, held, left, connections>>,
         error_count' \in [Services -> 0..(MaxErrors + 1)],
         update_is_old' \in [Services -> BOOLEAN],
         retry_timers' \in [Services -> 0..1],
         \A s \in Services : retry_timers[s] = 0 => retry_timers'[s] = 0
  PROVE  SubscriptionInv'
<1>1. PICK seq \in [1..0 -> Services] : seq = [i \in 1..0 |-> CHOOSE s \in Services : TRUE]
  <2>1. \A i \in 1..0 : FALSE
    OBVIOUS
  <2> QED BY ONLY <2>1
<1>2. /\ connections \in Seq(ConnectionRecords) /\ Len(connections) \in Nat
      /\ Len(connections) <= MaxConnects
  BY SubscriptionTypes DEF SubscriptionInv
<1>3. ConnectsTo(seq) = <<>>
  BY <1>1 DEF ConnectsTo
<1>4. connections' = connections \o ConnectsTo(seq)
  BY <1>2, <1>3
<1>5. /\ \A i, j \in 1..0 : seq[i] = seq[j] => i = j
      /\ \A i \in 1..0 : /\ seq[i] \in clients' /\ retry_timers'[seq[i]] = 0
                         /\ \A d \in DOMAIN connections :
                              Used(connections, client, held, d) =>
                              connections[d].service # seq[i]
  OBVIOUS
<1>6. 0 \in Nat /\ Len(connections) + 0 <= MaxConnects
  BY <1>2
<1> QED BY <1>4, <1>5, <1>6, ConnectsMade

\* The same with one connect.
LEMMA OneMade ==
  ASSUME SubscriptionInv, AtMostOne, OpenAreClients, active' = TRUE,
         clients \subseteq clients', clients' \subseteq Services,
         NEW s \in clients', CanConnect(1), AsyncConnectService(<<s>>),
         UNCHANGED <<use_service_url, client, claimed, held, left, error_count, update_is_old>>,
         retry_timers' \in [Services -> 0..1],
         \A t \in Services : retry_timers[t] = 0 => retry_timers'[t] = 0,
         retry_timers'[s] = 0,
         \A d \in DOMAIN connections :
           Used(connections, client, held, d) => connections[d].service # s
  PROVE  SubscriptionInv'
<1>1. PICK seq : seq = <<s>>
  OBVIOUS
<1>2. seq \in [1..1 -> Services] /\ \A i \in 1..1 : i = 1 /\ seq[i] = s
  BY <1>1
<1>3. connections' = connections \o ConnectsTo(seq)
  BY <1>1 DEF AsyncConnectService, ConnectsTo
<1>4. /\ error_count' \in [Services -> 0..(MaxErrors + 1)]
      /\ update_is_old' \in [Services -> BOOLEAN]
      /\ Len(connections) + 1 <= MaxConnects
  BY DEF SubscriptionInv, SubscriptionTypeOK, CanConnect
<1>5. /\ \A i, j \in 1..1 : seq[i] = seq[j] => i = j
      /\ \A i \in 1..1 : /\ seq[i] \in clients' /\ retry_timers'[seq[i]] = 0
                         /\ \A d \in DOMAIN connections :
                              Used(connections, client, held, d) =>
                              connections[d].service # seq[i]
  BY <1>2
<1> QED BY <1>2, <1>3, <1>4, <1>5, ConnectsMade

\* A timer that runs is an entry's, of a subscription that is open.
LEMMA TimerRuns ==
  ASSUME SubscriptionInv, NEW s \in Services, retry_timers[s] > 0
  PROVE  /\ active = TRUE /\ AtMostOne /\ OpenAreClients
         /\ s \in clients /\ retry_timers[s] = 1
         /\ \A d \in DOMAIN connections :
              Used(connections, client, held, d) => connections[d].service # s
<1>1. retry_timers[s] = 1 /\ active \in BOOLEAN
  BY DEF SubscriptionInv, SubscriptionTypeOK
<1>2. active = TRUE
  BY <1>1 DEF SubscriptionInv, NotActive
<1>3. AtMostOne /\ OpenAreClients
  BY <1>2 DEF SubscriptionInv, OneUsed, OpenIsClient
<1>4. s \in clients
  BY <1>1, <1>3 DEF AtMostOne
<1>5. \A d \in DOMAIN connections :
        Used(connections, client, held, d) => connections[d].service # s
  BY <1>1, <1>3 DEF AtMostOne
<1> QED BY <1>1, <1>2, <1>3, <1>4, <1>5

LEMMA RetryConnectsStep == ASSUME SubscriptionInv, RetryConnects PROVE SubscriptionInv'
<1>1. PICK s \in Services :
        /\ retry_timers[s] > 0
        /\ \/ /\ CanConnect(1) /\ AsyncConnectService(<<s>>)
              /\ retry_timers' = [retry_timers EXCEPT ![s] = @ - 1]
              /\ UNCHANGED error_count
           \/ /\ retry_timers' = [retry_timers EXCEPT ![s] = IF GivesUp(s) THEN @ - 1 ELSE @]
              /\ error_count' = [error_count EXCEPT
                                   ![s] = IF @ > MaxErrors THEN @ ELSE @ + 1]
              /\ UNCHANGED connections
        /\ UNCHANGED <<active, use_service_url, clients, client, claimed, update_is_old,
                       held, left>>
  BY DEF RetryConnects
<1>2. /\ active = TRUE /\ AtMostOne /\ OpenAreClients /\ s \in clients /\ retry_timers[s] = 1
      /\ \A d \in DOMAIN connections :
           Used(connections, client, held, d) => connections[d].service # s
  BY <1>1, TimerRuns
<1>3. /\ retry_timers \in [Services -> 0..1] /\ clients \subseteq Services
      /\ error_count \in [Services -> 0..(MaxErrors + 1)]
      /\ update_is_old \in [Services -> BOOLEAN] /\ MaxErrors \in Nat
  BY ServiceSubscriptionAssumption DEF SubscriptionInv, SubscriptionTypeOK
<1>4. ASSUME NEW k \in 0..1, retry_timers' = [retry_timers EXCEPT ![s] = k]
      PROVE  /\ retry_timers' \in [Services -> 0..1] /\ retry_timers'[s] = k
             /\ \A t \in Services : retry_timers[t] = 0 => retry_timers'[t] = 0
  BY <1>2, <1>3, <1>4
<1>5. CASE /\ CanConnect(1) /\ AsyncConnectService(<<s>>)
           /\ retry_timers' = [retry_timers EXCEPT ![s] = @ - 1]
           /\ UNCHANGED error_count
  <2>1. PICK k \in 0..1 : k = 0 /\ k = retry_timers[s] - 1
    BY <1>2
  <2>2. retry_timers' = [retry_timers EXCEPT ![s] = k]
    BY <1>5, <2>1, Zenon
  <2>3. /\ retry_timers' \in [Services -> 0..1] /\ retry_timers'[s] = 0
        /\ \A t \in Services : retry_timers[t] = 0 => retry_timers'[t] = 0
    BY <1>4, <2>1, <2>2
  <2> QED BY <1>1, <1>2, <1>3, <1>5, <2>3, OneMade
<1>6. CASE /\ retry_timers' = [retry_timers EXCEPT ![s] = IF GivesUp(s) THEN @ - 1 ELSE @]
           /\ error_count' = [error_count EXCEPT ![s] = IF @ > MaxErrors THEN @ ELSE @ + 1]
           /\ UNCHANGED connections
  <2>1. PICK k \in 0..1 : k = IF GivesUp(s) THEN retry_timers[s] - 1 ELSE retry_timers[s]
    BY <1>2
  <2>2. retry_timers' = [retry_timers EXCEPT ![s] = k]
    BY <1>6, <2>1, Zenon
  <2>3. PICK m \in 0..(MaxErrors + 1) :
          m = IF error_count[s] > MaxErrors THEN error_count[s] ELSE error_count[s] + 1
    BY <1>3
  <2>4. error_count' = [error_count EXCEPT ![s] = m]
    BY <1>6, <2>3, Zenon
  <2>5. /\ retry_timers' \in [Services -> 0..1]
        /\ \A t \in Services : retry_timers[t] = 0 => retry_timers'[t] = 0
    BY <1>4, <2>2
  <2>6. error_count' \in [Services -> 0..(MaxErrors + 1)]
    BY <1>3, <2>4
  <2> QED BY <1>1, <1>2, <1>3, <1>6, <2>5, <2>6, NoneMade
<1> QED BY <1>1, <1>5, <1>6

LEMMA InitServiceURLStep ==
  ASSUME SubscriptionInv, InitServiceURL, connections = <<>> PROVE SubscriptionInv'
<1>1. PICK s \in Services :
        \/ /\ CanConnect(1) /\ AsyncConnectService(<<s>>) /\ clients' = {s}
        \/ UNCHANGED <<connections, clients>>
  BY DEF InitServiceURL
<1>2. /\ ~active /\ active' = TRUE
      /\ UNCHANGED <<use_service_url, client, claimed, error_count, retry_timers,
                     update_is_old, held, left>>
  BY DEF InitServiceURL
<1>3. /\ clients = {} /\ \A t \in Services : retry_timers[t] = 0
      /\ SubscriptionTypeOK
  BY <1>2 DEF SubscriptionInv, NotActive
<1>4. DOMAIN connections = {}
  OBVIOUS
<1>5. AtMostOne /\ OpenAreClients
  BY <1>3, <1>4 DEF AtMostOne, OpenAreClients
<1>6. CASE CanConnect(1) /\ AsyncConnectService(<<s>>) /\ clients' = {s}
  <2>1. s \in clients' /\ clients' \subseteq Services /\ clients \subseteq clients'
    BY <1>3, <1>6
  <2>2. retry_timers' \in [Services -> 0..1] /\ retry_timers'[s] = 0
    BY <1>2, <1>3 DEF SubscriptionTypeOK
  <2> QED BY <1>2, <1>3, <1>4, <1>5, <1>6, <2>1, <2>2, OneMade
<1>7. CASE UNCHANGED <<connections, clients>>
  BY <1>2, <1>3, <1>5, <1>7, NoneMade DEF SubscriptionTypeOK
<1> QED BY <1>1, <1>6, <1>7

\* The list of a node, new or not, looked at by a subscription that is open after
\* it: what it connects to has no connection that is used, and no timer.
LEMMA LookAtStep ==
  ASSUME SubscriptionInv, AtMostOne, OpenAreClients, active' = TRUE,
         NEW list \in Seq(Services), IsInjective(list), LookAt(list)
  PROVE  SubscriptionInv'
<1>1. SubscriptionTypeOK
  BY DEF SubscriptionInv
<1>2. PICK new \in SUBSET (LookedAt(list) \ clients) :
        /\ CanConnect(Cardinality(new))
        /\ \E connects \in [1..Cardinality(new) -> new] :
             InOrder(connects, list) /\ AsyncConnectService(connects)
        /\ clients' = clients \cup new
  BY DEF LookAt
<1>3. new \subseteq Services /\ new \cap clients = {} /\ clients \subseteq Services
  BY <1>1 DEF SubscriptionTypeOK, LookedAt
<1>4. PICK n \in Nat : n = Cardinality(new)
  BY <1>3, FS_Subset, FS_CardinalityType, ServiceSubscriptionAssumption
<1>5. PICK connects \in [1..n -> new] :
        InOrder(connects, list) /\ AsyncConnectService(connects)
  BY <1>2, <1>4
<1>6. PICK known : known = LookedAt(list) \cap clients
  OBVIOUS
<1>7. /\ retry_timers' = [s \in Services |-> IF s \in known THEN RestartedTimer(s)
                                            ELSE retry_timers[s]]
      /\ update_is_old' = [s \in Services |-> update_is_old[s] /\ s \notin known]
      /\ UNCHANGED <<use_service_url, client, claimed, error_count, held, left>>
  BY <1>6 DEF LookAt
<1>8. /\ retry_timers' \in [Services -> 0..1]
      /\ \A s \in Services : retry_timers[s] = 0 => retry_timers'[s] = 0
  BY <1>1, <1>7 DEF RestartedTimer, SubscriptionTypeOK
<1>9. /\ update_is_old' \in [Services -> BOOLEAN]
      /\ error_count' \in [Services -> 0..(MaxErrors + 1)]
  BY <1>1, <1>7 DEF SubscriptionTypeOK
<1>10. connections' = connections \o ConnectsTo(connects) /\ Len(connections) + n <= MaxConnects
  BY <1>2, <1>4, <1>5 DEF AsyncConnectService, ConnectsTo, CanConnect
<1>11. ASSUME NEW i \in 1..n, NEW j \in 1..n, i < j
       PROVE  connects[i] # connects[j]
  <2>1. \E k, l \in DOMAIN list : k < l /\ list[k] = connects[i] /\ list[l] = connects[j]
    <3>1. DOMAIN connects = 1..n
      BY <1>5
    <3>2. InOrder(connects, list)
      BY <1>5
    <3>3. \A a, b \in DOMAIN connects : a < b =>
            \E k, l \in DOMAIN list : k < l /\ list[k] = connects[a] /\ list[l] = connects[b]
      BY ONLY <3>2 DEF InOrder
    <3>4. i \in DOMAIN connects /\ j \in DOMAIN connects
      BY <3>1
    <3> QED BY <1>11, <3>3, <3>4, Zenon
  <2> QED BY <2>1 DEF IsInjective
<1>12. \A i, j \in 1..n : connects[i] = connects[j] => i = j
  <2> TAKE i, j \in 1..n
  <2>1. i < j \/ j < i \/ i = j
    OBVIOUS
  <2> QED BY <1>11, <2>1
<1>13. ASSUME NEW i \in 1..n
       PROVE  /\ connects[i] \in clients' /\ retry_timers'[connects[i]] = 0
              /\ \A d \in DOMAIN connections :
                   Used(connections, client, held, d) => connections[d].service # connects[i]
  <2>1. connects[i] \in new
    OBVIOUS
  <2>2. retry_timers[connects[i]] = 0
    BY <1>3, <2>1 DEF AtMostOne
  <2>3. connects[i] \in clients' /\ retry_timers'[connects[i]] = 0
    BY <1>2, <1>3, <1>8, <2>1, <2>2
  <2>4. \A d \in DOMAIN connections :
          Used(connections, client, held, d) => connections[d].service # connects[i]
    BY <1>3, <2>1 DEF AtMostOne
  <2> QED BY <2>3, <2>4
<1>14. connects \in [1..n -> Services] /\ clients \subseteq clients' /\ clients' \subseteq Services
  BY <1>2, <1>3
<1> QED BY <1>7, <1>8, <1>9, <1>10, <1>12, <1>13, <1>14, ConnectsMade

LEMMA NodeUpdatedStep ==
  ASSUME SubscriptionInv, NEW list \in Seq(Services), IsInjective(list), NodeUpdated(list)
  PROVE  SubscriptionInv'
<1>1. CASE active
  <2>1. LookAt(list) /\ active' = TRUE
    BY <1>1 DEF NodeUpdated, SubscriptionInv, SubscriptionTypeOK
  <2>2. AtMostOne /\ OpenAreClients
    BY <1>1 DEF SubscriptionInv, OneUsed, OpenIsClient
  <2> QED BY <2>1, <2>2, LookAtStep
<1>2. CASE ~active
  <2>1. UNCHANGED <<active, use_service_url, clients, client, retry_timers, left, error_count,
                    connections, claimed, update_is_old, held>>
    BY <1>2 DEF NodeUpdated, subscriptionVars, entries
  <2> QED BY <2>1, CalmHeld DEF SubscriptionInv, SubscriptionTypeOK
<1> QED BY <1>1, <1>2

LEMMA Init_ByTypeStep ==
  ASSUME SubscriptionInv, NEW list \in Seq(Services), IsInjective(list), Init_ByType(list),
         connections = <<>>
  PROVE  SubscriptionInv'
<1>1. DOMAIN connections = {} /\ \A s \in Services : retry_timers[s] = 0
  BY DEF Init_ByType, SubscriptionInv, NotActive
<1>2. AtMostOne /\ OpenAreClients
  BY <1>1 DEF AtMostOne, OpenAreClients
<1> QED BY <1>2, LookAtStep DEF Init_ByType

-----------------------------------------------------------------------------
(* What the subscription forgets.                                          *)

LEMMA RetryForgetsStep == ASSUME SubscriptionInv, RetryForgets PROVE SubscriptionInv'
<1>1. PICK s \in Services :
        /\ retry_timers[s] > 0
        /\ Forgotten({s})
        /\ connections' = Detached({s})
        /\ UNCHANGED <<active, use_service_url, held, left>>
  BY DEF RetryForgets
<1>2. /\ active = TRUE /\ AtMostOne /\ OpenAreClients
      /\ \A d \in DOMAIN connections :
           Used(connections, client, held, d) => connections[d].service # s
  BY <1>1, TimerRuns
<1>3. SubscriptionTypeOK /\ ClientsKnown /\ ConnectingIsUnanswered
  BY DEF SubscriptionInv
<1>4. /\ connections \in Seq(ConnectionRecords) /\ DOMAIN connections = 1..Len(connections)
      /\ Len(connections) \in Nat
      /\ \A d \in DOMAIN connections : connections[d].service \in Services /\ d # None
  BY <1>3, SubscriptionTypes, ConnectionFields
<1>5. /\ SameServices(connections, connections')
      /\ \A d \in DOMAIN connections : /\ connections'[d].state = connections[d].state
                                       /\ connections'[d].answered = connections[d].answered
  BY <1>1, <1>4, DetachedSet
<1>6. /\ connections' \in Seq(ConnectionRecords) /\ Len(connections') = Len(connections)
      /\ DOMAIN connections' = DOMAIN connections
      /\ \A d \in DOMAIN connections : connections'[d].service = connections[d].service
  BY <1>5 DEF SameServices
<1>7. PICK S : S = {s}
  OBVIOUS
<1>8. /\ clients' = clients \ S
      /\ client' = [t \in Services |-> IF t \in S THEN None ELSE client[t]]
      /\ claimed' = [t \in Services |-> t \notin S /\ claimed[t]]
      /\ error_count' = [t \in Services |-> IF t \in S THEN 0 ELSE error_count[t]]
      /\ retry_timers' = [t \in Services |-> IF t \in S THEN 0 ELSE retry_timers[t]]
      /\ update_is_old' = [t \in Services |-> t \notin S /\ update_is_old[t]]
  BY <1>1, <1>7 DEF Forgotten
<1>9. /\ clients' \subseteq Services /\ client' \in [Services -> 0..Len(connections)]
      /\ claimed' \in [Services -> BOOLEAN]
      /\ error_count' \in [Services -> 0..(MaxErrors + 1)]
      /\ retry_timers' \in [Services -> 0..1] /\ update_is_old' \in [Services -> BOOLEAN]
  BY <1>3, <1>4, <1>8, ServiceSubscriptionAssumption DEF SubscriptionTypeOK, None
<1>10. /\ client'[s] = None /\ retry_timers'[s] = 0
       /\ \A t \in Services : t # s => client'[t] = client[t] /\ retry_timers'[t] = retry_timers[t]
  BY <1>7, <1>8
<1>11. SubscriptionTypeOK'
  BY <1>1, <1>3, <1>6, <1>9 DEF SubscriptionTypeOK, ConnectionRecords
<1>12. ClientsKnown'
  <2> SUFFICES ASSUME NEW t \in Services, client'[t] # None
               PROVE  connections'[client'[t]].service = t /\ connections'[client'[t]].answered
    BY DEF ClientsKnown
  <2>1. client'[t] = client[t] /\ client[t] \in DOMAIN connections
    BY <1>3, <1>4, <1>10 DEF SubscriptionTypeOK, None
  <2> QED BY <1>3, <1>5, <1>6, <2>1 DEF ClientsKnown
<1>13. ConnectingIsUnanswered'
  BY <1>3, <1>5, <1>6 DEF ConnectingIsUnanswered
<1>14. ASSUME NEW d \in DOMAIN connections, Used(connections', client', held', d)
       PROVE  Used(connections, client, held, d)
  <2>1. client'[connections[d].service] = d => client[connections[d].service] = d
    BY <1>4, <1>10
  <2>2. held' = held
    BY <1>1
  <2> QED BY <1>5, <1>6, <1>14, <2>1, <2>2 DEF Used
<1>15. AtMostOne'
  <2>1. ASSUME NEW d \in DOMAIN connections', NEW e \in DOMAIN connections',
               Used(connections', client', held', d), Used(connections', client', held', e),
               connections'[d].service = connections'[e].service
        PROVE  d = e
    BY <1>2, <1>6, <1>14, <2>1 DEF AtMostOne
  <2>2. ASSUME NEW d \in DOMAIN connections', Used(connections', client', held', d)
        PROVE  connections'[d].service \in clients'
               /\ retry_timers'[connections'[d].service] = 0
    <3>1. /\ Used(connections, client, held, d) /\ connections[d].service # s
          /\ connections[d].service \in clients /\ retry_timers[connections[d].service] = 0
      BY <1>2, <1>6, <1>14, <2>2 DEF AtMostOne
    <3> QED BY <1>4, <1>6, <1>7, <1>8, <1>10, <3>1
  <2>3. ASSUME NEW t \in Services \ clients' PROVE retry_timers'[t] = 0
    BY <1>2, <1>7, <1>8, <1>10, <2>3 DEF AtMostOne
  <2> QED BY <2>1, <2>2, <2>3 DEF AtMostOne
<1>16. OpenAreClients'
  <2> SUFFICES ASSUME NEW d \in DOMAIN connections, connections'[d].state = "open",
                      connections'[d].answered
               PROVE  client'[connections'[d].service] = d
    BY <1>6 DEF OpenAreClients
  <2>1. connections[d].state = "open" /\ connections[d].answered
    BY <1>5
  <2>2. client[connections[d].service] = d /\ connections[d].service # s
    BY <1>2, <2>1 DEF OpenAreClients, Used
  <2> QED BY <1>4, <1>6, <1>10, <2>2
<1>17. active' = TRUE
  BY <1>1, <1>2
<1> QED BY <1>11, <1>12, <1>13, <1>15, <1>16, <1>17
        DEF SubscriptionInv, OneUsed, OpenIsClient, NotActive

LEMMA CloseStep == ASSUME SubscriptionInv, Close PROVE SubscriptionInv'
<1>1. SubscriptionTypeOK /\ ClientsKnown /\ ConnectingIsUnanswered /\ AtMostOne /\ OpenAreClients
  BY DEF SubscriptionInv, Close, OneUsed, OpenIsClient
<1>2. /\ connections \in Seq(ConnectionRecords) /\ DOMAIN connections = 1..Len(connections)
      /\ Len(connections) \in Nat
      /\ \A d \in DOMAIN connections : connections[d].service \in Services /\ d # None
  BY <1>1, SubscriptionTypes, ConnectionFields
<1>3. PICK cs : cs = AllConnected
  OBVIOUS
<1>4. connections' = DroppedAndForgotten(cs)
  BY <1>3 DEF Close, DroppedAndForgotten
<1>5. /\ SameServices(connections, connections')
      /\ \A d \in DOMAIN connections :
           /\ connections'[d].answered = connections[d].answered
           /\ \/ connections'[d].state = connections[d].state
              \/ connections'[d].state = "dropped"
           /\ d \in cs => connections'[d].state # "open"
  BY <1>2, <1>4, ClosedSet
<1>6. /\ connections' \in Seq(ConnectionRecords) /\ Len(connections') = Len(connections)
      /\ DOMAIN connections' = DOMAIN connections
      /\ \A d \in DOMAIN connections : connections'[d].service = connections[d].service
  BY <1>5 DEF SameServices
<1>7. /\ active' = FALSE /\ claimed' = [s \in Services |-> FALSE] /\ clients' = {}
      /\ retry_timers' = [s \in Services |-> 0]
      /\ left' = {c \in DOMAIN connections : ~connections[c].answered} \cup AllClaimed
      /\ UNCHANGED <<use_service_url, client, error_count, update_is_old, held>>
  BY DEF Close
<1>8. SubscriptionTypeOK'
  <2>1. /\ clients' \subseteq Services /\ claimed' \in [Services -> BOOLEAN]
        /\ retry_timers' \in [Services -> 0..1] /\ left' \subseteq DOMAIN connections'
        /\ active' \in BOOLEAN
    <3>1. claimed' \in [Services -> BOOLEAN] /\ retry_timers' \in [Services -> 0..1]
      BY <1>7
    <3>2. AllClaimed \subseteq DOMAIN connections
      <4>1. \A s \in Services : client[s] # None => client[s] \in DOMAIN connections
        BY <1>1, <1>2 DEF SubscriptionTypeOK, None
      <4>2. \A s \in clients : s \in Services
        BY <1>1 DEF SubscriptionTypeOK
      <4> QED BY <4>1, <4>2 DEF AllClaimed, Connected
    <3>3. left' \subseteq DOMAIN connections'
      BY <1>6, <1>7, <3>2
    <3> QED BY <1>7, <3>1, <3>3
  <2>2. client' \in [Services -> 0..Len(connections')] /\ held' \subseteq DOMAIN connections'
    BY <1>1, <1>6, <1>7 DEF SubscriptionTypeOK
  <2> QED BY <1>1, <1>6, <1>7, <2>1, <2>2 DEF SubscriptionTypeOK, ConnectionRecords
<1>9. ClientsKnown'
  <2> SUFFICES ASSUME NEW t \in Services, client'[t] # None
               PROVE  connections'[client'[t]].service = t /\ connections'[client'[t]].answered
    BY DEF ClientsKnown
  <2>1. client'[t] = client[t] /\ client[t] \in DOMAIN connections
    BY <1>1, <1>2, <1>7 DEF SubscriptionTypeOK, None
  <2> QED BY <1>1, <1>5, <1>6, <2>1 DEF ClientsKnown
<1>10. ConnectingIsUnanswered'
  BY <1>1, <1>5, <1>6 DEF ConnectingIsUnanswered
<1>11. ASSUME NEW d \in DOMAIN connections, connections'[d].state \in {"connecting", "open"}
       PROVE  d \in left'
  <2>1. connections[d].state = connections'[d].state
    BY <1>5, <1>11
  <2>2. ASSUME connections[d].answered PROVE FALSE
    <3>1. connections[d].state = "open"
      BY <1>1, <1>11, <2>1, <2>2 DEF ConnectingIsUnanswered
    <3>2. client[connections[d].service] = d
      BY <1>1, <2>2, <3>1 DEF OpenAreClients
    <3>3. connections[d].service \in clients
      BY <1>1, <3>1 DEF AtMostOne, Used
    <3>4. Connected(connections[d].service)
      BY <1>2, <3>1, <3>2 DEF Connected, Alive
    <3>5. d \in cs
      BY <1>3, <3>2, <3>3, <3>4 DEF AllConnected
    <3> QED BY <1>5, <2>1, <3>1, <3>5
  <2> QED BY <1>7, <2>2
<1>12. \A s \in Services : retry_timers'[s] = 0
  BY <1>7
<1>13. NotActive'
  BY <1>6, <1>7, <1>11, <1>12 DEF NotActive
<1> QED BY <1>7, <1>8, <1>9, <1>10, <1>13 DEF SubscriptionInv, OneUsed, OpenIsClient

LEMMA SubscriptionStart == ASSUME SubscriptionInit PROVE SubscriptionInv
<1>1. connections = <<>> /\ DOMAIN connections = {} /\ Len(connections) = 0
      /\ connections \in Seq(ConnectionRecords)
  BY DEF SubscriptionInit
<1>2. /\ active = FALSE /\ use_service_url \in BOOLEAN /\ clients = {} /\ held = {} /\ left = {}
      /\ client = [s \in Services |-> None] /\ claimed = [s \in Services |-> FALSE]
      /\ error_count = [s \in Services |-> 0] /\ retry_timers = [s \in Services |-> 0]
      /\ update_is_old = [s \in Services |-> FALSE]
  BY DEF SubscriptionInit
<1>3. SubscriptionTypeOK
  <2>1. 0 \in 0..(MaxErrors + 1) /\ 0 <= MaxConnects /\ 0 \in 0..0 /\ 0 \in 0..1
    BY ServiceSubscriptionAssumption
  <2>2. /\ client \in [Services -> 0..Len(connections)] /\ claimed \in [Services -> BOOLEAN]
        /\ error_count \in [Services -> 0..(MaxErrors + 1)]
        /\ retry_timers \in [Services -> 0..1] /\ update_is_old \in [Services -> BOOLEAN]
    BY <1>1, <1>2, <2>1 DEF None
  <2> QED BY <1>1, <1>2, <2>1, <2>2 DEF SubscriptionTypeOK, ConnectionRecords
<1>4. ClientsKnown
  BY <1>2 DEF ClientsKnown
<1> QED BY <1>1, <1>2, <1>3, <1>4
        DEF SubscriptionInv, ConnectingIsUnanswered, OneUsed, OpenIsClient, NotActive

\* A step of a subscription to services by type or by URL, or one that is none.
LEMMA SubscriptionSteps ==
  ASSUME SubscriptionInv,
         \/ SubscriptionNext \/ Close \/ UNCHANGED subscriptionVars
         \/ connections = <<>> /\ InitServiceURL
  PROVE  SubscriptionInv'
<1>1. CASE UNCHANGED subscriptionVars
  <2>1. UNCHANGED <<active, use_service_url, clients, client, retry_timers, left, error_count,
                    connections, claimed, update_is_old, held>>
    BY <1>1 DEF subscriptionVars, entries
  <2> QED BY <2>1, CalmHeld DEF SubscriptionInv, SubscriptionTypeOK
<1> QED BY <1>1, CloseStep, InitServiceURLStep, RetryConnectsStep, RetryForgetsStep,
           UpdateGrowsOldStep, ConnectEndsStep, ClientConnectFailsStep, ClientConnectsStep,
           ConnectionLostStep, LostEventStep, ClosingStep, AsyncClose1Step,
           HoldClientStep, LetGoStep, ClaimClientStep, ReleaseClientStep, UpdateServiceURLStep
        DEF SubscriptionNext

-----------------------------------------------------------------------------
(* The node and its subscription.                                          *)

SubscriptionsInv == DiscoveryInv /\ SubscriptionInv /\ InfoInv

\* What a subscription may be told is a list of services, none of them twice.
LEMMA ListsTold ==
  ASSUME DiscoveryInv
  PROVE  /\ \A v \in DOMAIN remote.history :
              remote.history[v] \in Seq(Services) /\ IsInjective(remote.history[v])
         /\ \A list \in AnyList : list \in Seq(Services) /\ IsInjective(list)
         /\ Told \in Seq(Services)
         /\ \A i \in DOMAIN storages : \A answer \in storages[i].posted :
              remote.history[answer.as_of] \in Seq(Services)
<1>1. PICK history \in Histories : history = remote.history
  BY DEF DiscoveryInv
<1>2. /\ history \in Seq(Seq(Services)) /\ \A v \in DOMAIN history : IsInjective(history[v])
  BY HistoriesAssumption
<1>3. /\ DOMAIN history = 1..Len(history)
      /\ \A v \in DOMAIN history : history[v] \in Seq(Services)
  BY <1>2
<1>4. \A list \in AnyList : list \in Seq(Services) /\ IsInjective(list)
  <2>1. <<>> \in Seq(Services) /\ IsInjective(<<>>)
    BY DEF IsInjective
  <2>2. \A list \in ToSet(history) : list \in Seq(Services) /\ IsInjective(list)
    BY <1>2, <1>3 DEF ToSet
  <2> QED BY <1>1, <2>1, <2>2 DEF AnyList
<1>5. Told \in Seq(Services)
  <2>1. CASE discovered = 0
    BY <2>1 DEF Told
  <2>2. CASE discovered # 0
    <3>1. discovered \in DOMAIN storages
      BY <2>2 DEF DiscoveryInv, StoragesFit
    <3>2. storages[discovered].as_of \in 0..Len(history)
      BY <1>1, <3>1, StorageRead, StorageFields
    <3>3. ServicesOf(storages[discovered]) \in Seq(Services)
      BY <1>1, <1>3, <3>2 DEF ServicesOf
    <3> QED BY <2>2, <3>3 DEF Told
  <2> QED BY <2>1, <2>2
<1>6. ASSUME NEW i \in DOMAIN storages, NEW answer \in storages[i].posted
      PROVE  remote.history[answer.as_of] \in Seq(Services)
  <2>1. answer \in Answers(Len(history))
    BY <1>1, StorageRead
  <2> QED BY <1>1, <1>3, <2>1 DEF Answers
<1> QED BY <1>1, <1>2, <1>3, <1>4, <1>5, <1>6

\* What is detected are services.
LEMMA InfoUpdatedTypes ==
  ASSUME NEW list \in Seq(Services), detected \subseteq Services, InfoUpdated(list)
  PROVE  detected' \subseteq Services
<1>1. \A i \in DOMAIN list : list[i] \in Services
  OBVIOUS
<1> QED BY <1>1 DEF InfoUpdated, NewOnes, ToSet

LEMMA InfoSteps == ASSUME SubscriptionsInv, Next PROVE InfoInv'
<1>1. /\ info_active \in BOOLEAN /\ detected \subseteq Services /\ (~info_active => detected = {})
      /\ (discovered = 0 /\ detected # {} => late_update)
      /\ kind \in {"info", "type", "url"} /\ late_update \in BOOLEAN
  BY DEF SubscriptionsInv, InfoInv, LostNodeIsForgotten
<1>2. DiscoveryInv
  BY DEF SubscriptionsInv
<1>3. ASSUME UNCHANGED <<info_active, detected, kind, late_update>>,
             discovered' = 0 => discovered = 0
      PROVE  InfoInv'
  BY <1>1, <1>3 DEF InfoInv, LostNodeIsForgotten
<1>4. CASE SubscribeServiceInfo2
  <2>1. ~info_active /\ info_active' /\ InfoUpdated(Told) /\ UNCHANGED <<discovered, kind, late_update>>
    BY <1>4 DEF SubscribeServiceInfo2, Info_Init, DoSubscribe
  <2>2. detected' \subseteq Services
    BY <1>1, <1>2, <2>1, ListsTold, InfoUpdatedTypes
  <2>3. discovered = 0 => detected' = {}
    <3>1. discovered = 0 => Told = <<>>
      BY DEF Told
    <3> QED BY <1>1, <2>1, <3>1 DEF InfoUpdated, ToSet
  <2>4. info_active' = TRUE
    BY <1>4 DEF SubscribeServiceInfo2, Info_Init
  <2> QED BY <1>1, <2>1, <2>2, <2>3, <2>4 DEF InfoInv, LostNodeIsForgotten
<1>5. CASE SubscribeServiceByType
  BY <1>3, <1>5 DEF SubscribeServiceByType, infoVars, discoveryVars
<1>6. CASE SubscribeService
  BY <1>3, <1>6 DEF SubscribeService, infoVars, discoveryVars
<1>7. CASE DiscoveryStep
  <2>1. discovered' = 0 => discovered = 0
    <3>1. Len(storages) \in Nat
      BY <1>2 DEF DiscoveryInv, StoragesFit
    <3>2. CASE NodeDetected
      BY <3>1, <3>2 DEF NodeDetected
    <3> QED BY <1>7, <3>2 DEF DiscoveryStep, DiscoveryNext, RemoteChanges, RemoteAnswers,
               backoff_timer_handler, handle_error, serviceinfo_handler
  <2> QED BY <1>3, <1>7, <2>1 DEF DiscoveryStep, infoVars
<1>8. CASE Update
  <2>1. PICK i \in DOMAIN storages :
          /\ \E answer \in storages[i].posted :
               EndUpdateServiceInfo(i, answer) /\ InfoNodeUpdated(remote.history[answer.as_of])
          /\ late_update' = (late_update \/ i # discovered)
    BY <1>8 DEF Update
  <2>2. PICK answer \in storages[i].posted :
          EndUpdateServiceInfo(i, answer) /\ InfoNodeUpdated(remote.history[answer.as_of])
    BY <2>1
  <2>3. PICK list \in Seq(Services) : list = remote.history[answer.as_of]
    BY <1>2, ListsTold
  <2>4. info_active' = info_active /\ detected' \subseteq Services
        /\ (~info_active => detected' = detected)
    <3>1. CASE info_active
      BY <1>1, <2>2, <2>3, <3>1, InfoUpdatedTypes DEF InfoNodeUpdated
    <3>2. CASE ~info_active
      BY <1>1, <2>2, <3>2 DEF InfoNodeUpdated, infoVars
    <3> QED BY <3>1, <3>2
  <2>5. discovered' = discovered /\ kind' = kind
    BY <1>8, <2>2 DEF Update, EndUpdateServiceInfo
  <2>6. discovered = 0 => late_update' = TRUE
    <3>1. i # 0
      BY <1>2 DEF DiscoveryInv, StoragesFit
    <3> QED BY <2>1, <3>1
  <2>7. late_update' \in BOOLEAN
    BY <2>1
  <2> QED BY <1>1, <2>4, <2>5, <2>6, <2>7 DEF InfoInv, LostNodeIsForgotten
<1>9. CASE UpdateByType
  BY <1>3, <1>9 DEF UpdateByType, infoVars, discoveryVars
<1>10. CASE NodeLost
  BY <1>1, <1>10 DEF NodeLost, InfoNodeLost, InfoInv, LostNodeIsForgotten
<1>11. CASE SubscriptionStep
  BY <1>3, <1>11 DEF SubscriptionStep, infoVars, discoveryVars
<1>12. CASE CloseSubscription
  <2>1. CASE UNCHANGED <<infoVars, discoveryVars>>
    BY <1>3, <1>12, <2>1 DEF CloseSubscription, infoVars, discoveryVars
  <2>2. CASE InfoClose
    BY <1>1, <1>12, <2>2 DEF CloseSubscription, InfoClose, InfoInv, LostNodeIsForgotten
  <2> QED BY <1>12, <2>1, <2>2 DEF CloseSubscription
<1> QED BY <1>4, <1>5, <1>6, <1>7, <1>8, <1>9, <1>10, <1>11, <1>12 DEF Next

\* The invariant the theorems rest on holds at the start and is kept by every step.
LEMMA Start == ASSUME Init PROVE SubscriptionsInv
  BY DiscoveryStart, SubscriptionStart
     DEF Init, InfoInit, SubscriptionsInv, InfoInv, LostNodeIsForgotten

LEMMA Steps == ASSUME SubscriptionsInv, [Next]_vars PROVE SubscriptionsInv'
<1>1. DiscoveryInv /\ SubscriptionInv /\ InfoInv
  BY DEF SubscriptionsInv
<1>2. CASE UNCHANGED vars
  <2>1. DiscoveryInv' /\ SubscriptionInv'
    BY <1>1, <1>2, DiscoverySteps, SubscriptionSteps DEF vars
  <2>2. InfoInv'
    BY <1>1, <1>2 DEF vars, infoVars, discoveryVars, InfoInv, LostNodeIsForgotten
  <2> QED BY <2>1, <2>2 DEF SubscriptionsInv
<1>3. CASE Next
  <2>1. InfoInv'
    BY <1>3, InfoSteps
  <2>2. DiscoveryInv'
    BY <1>1, <1>3, DiscoverySteps
       DEF Next, SubscribeServiceInfo2, SubscribeServiceByType, SubscribeService, DiscoveryStep,
           Update, UpdateByType, NodeLost, SubscriptionStep, CloseSubscription
  <2>3. CASE SubscribeServiceByType
    <3>1. PICK list \in AnyList : Init_ByType(list)
      BY <2>3 DEF SubscribeServiceByType
    <3>2. connections = <<>>
      BY <2>3 DEF SubscribeServiceByType, Unsubscribed
    <3>3. SubscriptionInv'
      BY <1>1, <3>1, <3>2, ListsTold, Init_ByTypeStep
    <3> QED BY <2>1, <2>2, <3>3 DEF SubscriptionsInv
  <2>4. CASE UpdateByType
    <3>1. PICK list \in AnyList : NodeUpdated(list)
      BY <2>4 DEF UpdateByType
    <3>2. SubscriptionInv'
      BY <1>1, <3>1, ListsTold, NodeUpdatedStep
    <3> QED BY <2>1, <2>2, <3>2 DEF SubscriptionsInv
  <2>5. CASE SubscribeServiceInfo2 \/ SubscribeService \/ DiscoveryStep \/ Update \/ NodeLost
             \/ SubscriptionStep \/ CloseSubscription
    <3>1. \/ SubscriptionNext \/ Close \/ UNCHANGED subscriptionVars
          \/ connections = <<>> /\ InitServiceURL
      BY <2>5 DEF SubscribeServiceInfo2, SubscribeService, Unsubscribed, DiscoveryStep, Update,
                  NodeLost, SubscriptionStep, CloseSubscription
    <3>2. SubscriptionInv'
      BY <1>1, <3>1, SubscriptionSteps
    <3> QED BY <2>1, <2>2, <3>2 DEF SubscriptionsInv
  <2> QED BY <1>3, <2>3, <2>4, <2>5 DEF Next
<1> QED BY <1>2, <1>3

\* The inductive invariant: connection by connection, each service is used once, what is
\* open is the client of its entry, and every answer is as new as the nonce it is for.
THEOREM Invariant == Spec => []SubscriptionsInv
  BY Start, Steps, PTL DEF Spec

\* Every variable of the node and of its subscription has its type.
THEOREM TypeCorrect == Spec => []TypeOK
<1>1. ASSUME SubscriptionsInv PROVE TypeOK
  BY <1>1, DiscoveryFacts DEF SubscriptionsInv, SubscriptionInv, InfoInv, TypeOK
<1> QED BY <1>1, Invariant, PTL

\* What is kept of a node's services is never older than the nonce it is kept
\* under, however many updates run and fail (EndUpdateServiceInfo).
THEOREM NeverOlderThanNonce == Spec => []NoOlderThanNonce
<1>1. ASSUME SubscriptionsInv PROVE NoOlderThanNonce
  BY <1>1, DiscoveryFacts DEF SubscriptionsInv
<1> QED BY <1>1, Invariant, PTL

\* A service is connected, being connected or waiting for a retry, at most one of
\* these and at most once, for any number of services, connects and errors
\* (NodeUpdated, ConnectRetry, ClientEvent).
THEOREM AtMostOneAttempt == Spec => []OneAttempt
<1>1. ASSUME SubscriptionsInv PROVE OneAttempt
  <2> SUFFICES ASSUME active, NEW s \in Services
               PROVE  Cardinality(InUse(s)) + retry_timers[s] <= 1
    BY DEF OneAttempt
  <2>1. AtMostOne /\ retry_timers[s] \in 0..1
    BY <1>1 DEF SubscriptionsInv, SubscriptionInv, OneUsed, SubscriptionTypeOK
  <2>2. \A c \in InUse(s) : /\ c \in DOMAIN connections /\ connections[c].service = s
                            /\ Used(connections, client, held, c)
    BY DEF InUse, Used, Alive
  <2>3. CASE InUse(s) = {}
    <3>1. Cardinality(InUse(s)) = 0
      BY <2>3, FS_EmptySet
    <3> QED BY <2>1, <3>1
  <2>4. CASE InUse(s) # {}
    <3>1. PICK c \in InUse(s) : TRUE
      BY <2>4
    <3>2. InUse(s) = {c}
      BY <2>1, <2>2, <3>1 DEF AtMostOne
    <3>3. Cardinality(InUse(s)) = 1
      BY <3>2, FS_Singleton
    <3>4. retry_timers[s] = 0
      BY <2>1, <2>2, <3>1 DEF AtMostOne
    <3> QED BY <3>3, <3>4
  <2> QED BY <2>3, <2>4
<1> QED BY <1>1, Invariant, PTL

\* After Close no connection is open but those that were being made when it ran, and at
\* most those that were claimed then (Close, ClientConnected).
THEOREM NoOtherIsLeft == Spec => []ClosedLeavesNoOther
<1>1. ASSUME SubscriptionsInv PROVE ClosedLeavesNoOther
  BY <1>1 DEF SubscriptionsInv, SubscriptionInv, NotActive, ClosedLeavesNoOther
<1> QED BY <1>1, Invariant, PTL

\* The services of a node that was lost are not kept, unless an update that was on
\* its way brought them (NodeLost, NodeUpdated).
THEOREM LostIsForgotten == Spec => []LostNodeIsForgotten
<1>1. ASSUME SubscriptionsInv PROVE LostNodeIsForgotten
  BY <1>1 DEF SubscriptionsInv, InfoInv
<1> QED BY <1>1, Invariant, PTL

-----------------------------------------------------------------------------
(* What closes a client.                                                   *)

\* The step has the subscription close connection c.
Drops(c) == connections[c].state # "dropped" /\ connections'[c].state = "dropped"

\* A connection whose state is set to another than "dropped" is not dropped.
LEMMA SetDropsNone ==
  ASSUME SubscriptionInv, NEW c \in DOMAIN connections, NEW d \in DOMAIN connections,
         \/ \E state \in States \ {"dropped"} : connections' = WithState(connections, d, state)
         \/ connections' = WithAnswer(connections, d)
  PROVE  ~Drops(c)
<1>1. connections \in Seq(ConnectionRecords)
  BY SubscriptionTypes DEF SubscriptionInv
<1>2. CASE \E state \in States \ {"dropped"} : connections' = WithState(connections, d, state)
  <2>1. PICK state \in States \ {"dropped"} : connections' = WithState(connections, d, state)
    BY <1>2
  <2> QED BY <1>1, <2>1, StateSet DEF Drops
<1>3. CASE connections' = WithAnswer(connections, d)
  BY <1>1, <1>3, AnsweredSet DEF Drops
<1> QED BY <1>2, <1>3

\* Connects drop no connection.
LEMMA ConnectDropsNone ==
  ASSUME SubscriptionInv, NEW c \in DOMAIN connections,
         NEW n \in Nat, NEW seq \in [1..n -> Services],
         AsyncConnectService(seq)
  PROVE  ~Drops(c)
<1>1. connections \in Seq(ConnectionRecords)
  BY SubscriptionTypes DEF SubscriptionInv
<1>2. connections' = connections \o ConnectsTo(seq)
  BY DEF AsyncConnectService, ConnectsTo
<1>3. Extended(connections, connections', n, seq)
  BY <1>1, <1>2, ConnectsAdded
<1> QED BY <1>3 DEF Extended, Drops

\* An event drops its own connection only, and never a claimed client.
LEMMA EventDropsNoClaimed ==
  ASSUME SubscriptionInv, NEW c \in DOMAIN connections,
         claimed[connections[c].service], client[connections[c].service] = c,
         NEW d \in DOMAIN connections, NEW state \in {"lost", "closed"},
         NEW after, after = WithState(connections, d, state),
         NEW alive, ClientEvent(d, after, alive)
  PROVE  ~Drops(c)
<1>1. connections \in Seq(ConnectionRecords)
  BY SubscriptionTypes DEF SubscriptionInv
<1>2. /\ SameServices(connections, after)
      /\ \A e \in DOMAIN connections : e # d => after[e].state = connections[e].state
      /\ after[d].state = state
  BY <1>1, StateSet DEF States
<1>3. after \in Seq(ConnectionRecords) /\ d \in DOMAIN after /\ c \in DOMAIN after
      /\ after[d].service = connections[d].service
  BY <1>2 DEF SameServices
<1>4. PICK s : s = after[d].service
  OBVIOUS
<1>5. CASE connections' = after
  BY <1>2, <1>5 DEF Drops
<1>6. CASE connections' = [after EXCEPT ![d].state =
               IF d \in Unclaimed(s, d) /\ @ = "lost" THEN "dropped" ELSE @]
  <2>1. PICK last \in {"lost", "closed", "dropped"} :
          last = IF d \in Unclaimed(s, d) /\ after[d].state = "lost"
                 THEN "dropped" ELSE after[d].state
    BY <1>2
  <2>2. connections' = WithState(after, d, last)
    BY <1>6, <2>1 DEF WithState
  <2>3. /\ \A e \in DOMAIN after : e # d => connections'[e].state = after[e].state
        /\ connections'[d].state = last
    BY <1>3, <2>2, StateSet DEF States
  <2>4. CASE c # d
    BY <1>2, <1>3, <2>3, <2>4 DEF Drops
  <2>5. CASE c = d
    <3>1. claimed[s]
      BY <1>3, <1>4, <2>5
    <3>2. last # "dropped"
      BY <1>2, <2>1, <3>1 DEF Unclaimed
    <3> QED BY <2>3, <2>5, <3>2 DEF Drops
  <2> QED BY <2>4, <2>5
<1> QED BY <1>4, <1>5, <1>6 DEF ClientEvent

\* What a step of the subscription drops is no claimed client, unless the
\* subscription is closed after it.
LEMMA StepDropsNoClaimed ==
  ASSUME SubscriptionInv, NEW c \in DOMAIN connections,
         claimed[connections[c].service], client[connections[c].service] = c,
         SubscriptionNext
  PROVE  Drops(c) => ~active'
<1>1. connections \in Seq(ConnectionRecords) /\ SubscriptionTypeOK /\ ClientsKnown
  BY SubscriptionTypes DEF SubscriptionInv
<1>2. ASSUME UNCHANGED connections PROVE ~Drops(c)
  BY <1>2 DEF Drops
<1>3. CASE RetryConnects
  <2>1. CASE UNCHANGED connections
    BY <1>2, <2>1
  <2>2. CASE \E s \in Services : AsyncConnectService(<<s>>)
    <3>1. PICK s \in Services : AsyncConnectService(<<s>>)
      BY <2>2
    <3>2. PICK seq : seq = <<s>>
      OBVIOUS
    <3>3. seq \in [1..1 -> Services]
      BY <3>2
    <3> QED BY <3>1, <3>2, <3>3, ConnectDropsNone
  <2> QED BY <1>3, <2>1, <2>2 DEF RetryConnects
<1>4. CASE RetryForgets
  <2>1. PICK s \in Services : connections' = Detached({s})
    BY <1>4 DEF RetryForgets
  <2> QED BY <1>1, <2>1, DetachedSet DEF Drops
<1>5. CASE UpdateGrowsOld \/ HoldClient \/ LetGo \/ ClaimClient
  BY <1>2, <1>5 DEF UpdateGrowsOld, HoldClient, LetGo, ClaimClient
<1>6. CASE ConnectEnds
  <2>1. PICK d \in DOMAIN connections, state \in {"open", "failed"} :
          connections' = WithState(connections, d, state)
    BY <1>6 DEF ConnectEnds, WithState
  <2> QED BY <2>1, SetDropsNone DEF States
<1>7. CASE ConnectionLost
  <2>1. PICK d \in DOMAIN connections : connections' = WithState(connections, d, "lost")
    BY <1>7 DEF ConnectionLost, WithState
  <2> QED BY <2>1, SetDropsNone DEF States
<1>8. CASE Closing
  <2>1. PICK d \in DOMAIN connections : connections' = WithState(connections, d, "closing")
    BY <1>8 DEF Closing, WithState
  <2> QED BY <2>1, SetDropsNone DEF States
<1>9. CASE ClientConnectFails \/ ClientConnects
  <2>1. PICK d \in DOMAIN connections : connections' = WithAnswer(connections, d)
    BY <1>9 DEF ClientConnectFails, ClientConnects, WithAnswer
  <2> QED BY <2>1, SetDropsNone
<1>10. CASE LostEvent
  <2>1. PICK d \in DOMAIN connections :
          connections[d].state = "lost" /\ ClientEvent(d, connections, TRUE)
    BY <1>10 DEF LostEvent
  <2>2. connections = WithState(connections, d, "lost")
    <3>1. connections[d] \in ConnectionRecords
      BY <1>1
    <3>2. [connections[d] EXCEPT !.state = "lost"] = connections[d]
      BY <2>1, <3>1 DEF ConnectionRecords
    <3> QED BY <1>1, <3>2 DEF WithState
  <2> QED BY <2>1, <2>2, EventDropsNoClaimed
<1>11. CASE AsyncClose1
  <2>1. PICK d \in DOMAIN connections :
          ClientEvent(d, [connections EXCEPT ![d].state = "closed"], d \in held)
    BY <1>11 DEF AsyncClose1
  <2>2. PICK after : after = [connections EXCEPT ![d].state = "closed"]
                     /\ after = WithState(connections, d, "closed")
    BY DEF WithState
  <2> QED BY <2>1, <2>2, EventDropsNoClaimed
<1>12. CASE ReleaseClient
  <2>1. CASE UNCHANGED connections
    BY <1>2, <2>1
  <2>2. CASE ~active
    BY <1>12, <2>2 DEF ReleaseClient
  <2> QED BY <1>12, <2>1, <2>2 DEF ReleaseClient
<1>13. CASE UpdateServiceURL
  <2>1. PICK cs : cs = {client[s] : s \in {t \in clients : ~claimed[t] /\ Connected(t)}}
    OBVIOUS
  <2>2. connections' = Dropped(cs)
    BY <1>13, <2>1 DEF UpdateServiceURL
  <2>3. c \notin cs
    <3> SUFFICES ASSUME NEW t \in clients, ~claimed[t], Connected(t), client[t] = c PROVE FALSE
      BY <2>1
    <3>1. t \in Services
      BY <1>1 DEF SubscriptionTypeOK
    <3>2. connections[c].service = t
      BY <1>1, <3>1 DEF ClientsKnown, Connected
    <3> QED BY <3>2
  <2>4. \/ connections'[c].state = connections[c].state
        \/ connections'[c].state = "dropped" /\ c \in cs
    BY <1>1, <2>2, DroppedSet
  <2> QED BY <2>3, <2>4 DEF Drops
<1> QED BY <1>3, <1>4, <1>5, <1>6, <1>7, <1>8, <1>9, <1>10, <1>11, <1>12, <1>13
        DEF SubscriptionNext

\* Looking at a list drops none.
LEMMA LookAtDropsNone ==
  ASSUME SubscriptionInv, NEW c \in DOMAIN connections,
         NEW list \in Seq(Services), LookAt(list)
  PROVE  ~Drops(c)
<1>1. PICK new \in SUBSET (LookedAt(list) \ clients) :
        \E connects \in [1..Cardinality(new) -> new] : AsyncConnectService(connects)
  BY DEF LookAt
<1>2. new \subseteq Services
  BY DEF LookedAt
<1>3. PICK n \in Nat : n = Cardinality(new)
  BY <1>2, FS_Subset, FS_CardinalityType, ServiceSubscriptionAssumption
<1>4. PICK connects \in [1..n -> new] : AsyncConnectService(connects)
  BY <1>1, <1>3
<1>5. connects \in [1..n -> Services]
  BY <1>2
<1> QED BY <1>4, <1>5, ConnectDropsNone

\* A subscription that is open never closes a claimed client, whether it is
\* connected or was lost (ClientEvent, UpdateServiceURL, ReleaseClient).
THEOREM ClaimedStaysLeft == Spec => ClaimedIsLeft
<1>1. ASSUME SubscriptionsInv, [Next]_vars, NEW c \in DOMAIN connections, Drops(c),
             claimed[connections[c].service], client[connections[c].service] = c
      PROVE  ~active'
  <2>1. DiscoveryInv /\ SubscriptionInv
    BY <1>1 DEF SubscriptionsInv
  <2>2. ASSUME UNCHANGED connections PROVE FALSE
    BY <1>1, <2>2 DEF Drops
  <2>3. connections # <<>>
    OBVIOUS
  <2>4. CASE UNCHANGED vars
    BY <2>2, <2>4 DEF vars, subscriptionVars
  <2>5. CASE SubscribeServiceInfo2 \/ DiscoveryStep \/ Update \/ NodeLost
    BY <2>2, <2>5 DEF SubscribeServiceInfo2, DiscoveryStep, Update, NodeLost, subscriptionVars
  <2>6. CASE SubscribeServiceByType \/ SubscribeService
    BY <2>3, <2>6 DEF SubscribeServiceByType, SubscribeService, Unsubscribed
  <2>7. CASE UpdateByType
    <3>1. PICK list \in AnyList : NodeUpdated(list)
      BY <2>7 DEF UpdateByType
    <3>2. LookAt(list) \/ UNCHANGED connections
      BY <3>1 DEF NodeUpdated, subscriptionVars
    <3> QED BY <1>1, <2>1, <2>2, <3>2, ListsTold, LookAtDropsNone
  <2>8. CASE SubscriptionStep
    BY <1>1, <2>1, <2>8, StepDropsNoClaimed DEF SubscriptionStep
  <2>9. CASE CloseSubscription
    BY <2>2, <2>9 DEF CloseSubscription, Close, subscriptionVars
  <2> QED BY <1>1, <2>4, <2>5, <2>6, <2>7, <2>8, <2>9 DEF Next
<1>2. ASSUME SubscriptionsInv, [Next]_vars
      PROVE  [\A c \in DOMAIN connections :
                 /\ connections[c].state # "dropped" /\ connections'[c].state = "dropped"
                 /\ claimed[connections[c].service] /\ client[connections[c].service] = c
                 => ~active']_vars
  BY <1>1, <1>2 DEF Drops
<1> QED BY <1>2, Invariant, PTL DEF Spec, ClaimedIsLeft

-----------------------------------------------------------------------------
(* What is retried.                                                        *)

\* An entry that goes on: it waits for an answer, has a client, waits for a retry, or
\* has given up.
GoesOn(s) ==
    \/ \E c \in DOMAIN connections : connections[c].service = s /\ ~connections[c].answered
    \/ client[s] # None \/ retry_timers[s] > 0 \/ GivesUp(s)

EntriesGoOn == active => \A s \in clients : GoesOn(s)

\* An entry of an open subscription that is not in use and will not be has lost its
\* client: an object that nobody held and that went with its connection.
OnlyClosedIsForgotten ==
    active => \A s \in clients :
      \/ InUse(s) # {} \/ retry_timers[s] > 0 \/ GivesUp(s)
      \/ client[s] # None /\ ~Alive(client[s])

\* The connects of service s that were not answered still are not.
AttemptsStay(s) ==
    \A c \in DOMAIN connections :
      connections[c].service = s /\ ~connections[c].answered =>
        /\ c \in DOMAIN connections'
        /\ connections'[c].service = s /\ ~connections'[c].answered

\* A service whose connects, client, timer and errors stay goes on.
LEMMA StaysGoing ==
  ASSUME NEW s, GoesOn(s), use_service_url' = use_service_url, AttemptsStay(s),
         client[s] # None => client'[s] # None,
         retry_timers[s] > 0 => retry_timers'[s] > 0,
         error_count'[s] = error_count[s]
  PROVE  GoesOn(s)'
<1>1. CASE \E c \in DOMAIN connections :
             connections[c].service = s /\ ~connections[c].answered
  BY <1>1 DEF AttemptsStay, GoesOn
<1>2. CASE client[s] # None \/ retry_timers[s] > 0
  BY <1>2 DEF GoesOn
<1>3. CASE GivesUp(s)
  BY <1>3 DEF GivesUp, GoesOn
<1> QED BY <1>1, <1>2, <1>3 DEF GoesOn

\* Connections that keep their services, and stay unanswered.
LEMMA UnansweredStay ==
  ASSUME NEW s, SameServices(connections, connections'),
         \A c \in DOMAIN connections :
           connections[c].service = s => connections'[c].answered = connections[c].answered
  PROVE  AttemptsStay(s)
  BY DEF SameServices, AttemptsStay

\* A step that leaves the entries and what was not answered.
LEMMA EntriesStay ==
  ASSUME EntriesGoOn, UNCHANGED <<active, use_service_url, clients, client, retry_timers,
                                  error_count>>,
         \A s \in clients : AttemptsStay(s)
  PROVE  EntriesGoOn'
<1> SUFFICES ASSUME active, NEW s \in clients PROVE GoesOn(s)'
  BY DEF EntriesGoOn
<1> QED BY StaysGoing DEF EntriesGoOn

\* A retry starts a timer, unless the service was given up.
LEMMA RetryGoesOn ==
  ASSUME SubscriptionTypeOK, active, NEW s \in Services, ConnectRetry(s),
         use_service_url' = use_service_url
  PROVE  /\ GoesOn(s)'
         /\ \A t \in Services : t # s => /\ retry_timers'[t] = retry_timers[t]
                                         /\ error_count'[t] = error_count[t]
<1>1. /\ error_count \in [Services -> 0..(MaxErrors + 1)]
      /\ retry_timers \in [Services -> 0..1]
  BY DEF SubscriptionTypeOK
<1>2. CASE GivesUp(s)
  <2>1. UNCHANGED <<error_count, retry_timers>>
    BY <1>2 DEF ConnectRetry
  <2>2. GivesUp(s)'
    BY <1>2, <2>1 DEF GivesUp
  <2> QED BY <2>1, <2>2 DEF GoesOn
<1>3. CASE ~GivesUp(s)
  <2>1. PICK i : i = IF active THEN 1 ELSE 0
    OBVIOUS
  <2>2. PICK m : m = retry_timers[s] + i
    OBVIOUS
  <2>3. retry_timers' = [retry_timers EXCEPT ![s] = m]
    BY <1>3, <2>1, <2>2, Zenon DEF ConnectRetry
  <2>4. m > 0
    BY <1>1, <2>1, <2>2
  <2>5. retry_timers'[s] > 0
    BY <1>1, <2>3, <2>4
  <2>6. PICK e : error_count' = [error_count EXCEPT ![s] = e]
    BY <1>3, Zenon DEF ConnectRetry
  <2> QED BY <1>1, <2>3, <2>5, <2>6 DEF GoesOn
<1> QED BY <1>2, <1>3

\* The end of a connection: an entry whose client went, or was not had, is retried.
LEMMA EventGoesOn ==
  ASSUME SubscriptionInv, EntriesGoOn, NEW c \in DOMAIN connections,
         NEW state \in {"lost", "closed"}, NEW after, after = WithState(connections, c, state),
         NEW alive, ClientEvent(c, after, alive), UNCHANGED <<active, use_service_url, clients>>
  PROVE  EntriesGoOn'
<1>1. SubscriptionTypeOK /\ clients \subseteq Services
  BY DEF SubscriptionInv, SubscriptionTypeOK
<1>2. connections \in Seq(ConnectionRecords)
  BY <1>1, SubscriptionTypes
<1>3. PICK s \in Services : s = connections[c].service
  BY <1>2, ConnectionFields
<1>4. /\ SameServices(connections, after)
      /\ \A d \in DOMAIN connections : after[d].answered = connections[d].answered
      /\ after[c].state = state
  BY <1>2, StateSet DEF States
<1>5. after[c].service = s /\ after \in Seq(ConnectionRecords) /\ c \in DOMAIN after
  BY <1>3, <1>4 DEF SameServices
<1>6. CASE ~after[c].detached /\ alive /\ IsClient(s, c)
  <2>1. /\ client' = [client EXCEPT ![s] = None]
        /\ ConnectRetry(s)
        /\ connections' = [after EXCEPT ![c].state =
              IF c \in Unclaimed(s, c) /\ @ = "lost" THEN "dropped" ELSE @]
    BY <1>5, <1>6 DEF ClientEvent
  <2>2. PICK last : last = IF c \in Unclaimed(s, c) /\ after[c].state = "lost"
                           THEN "dropped" ELSE after[c].state
    OBVIOUS
  <2>3. last \in States
    BY <1>4, <2>2 DEF States
  <2>4. connections' = WithState(after, c, last)
    BY <2>1, <2>2 DEF WithState
  <2>5. /\ SameServices(after, connections')
        /\ \A d \in DOMAIN after : connections'[d].answered = after[d].answered
    BY <1>5, <2>3, <2>4, StateSet
  <2>6. /\ SameServices(connections, connections')
        /\ \A d \in DOMAIN connections : connections'[d].answered = connections[d].answered
    BY <1>4, <2>5 DEF SameServices
  <2> SUFFICES ASSUME active, NEW t \in clients PROVE GoesOn(t)'
    BY DEF EntriesGoOn
  <2>7. CASE t = s
    BY <1>1, <2>1, <2>7, RetryGoesOn
  <2>8. CASE t # s
    <3>1. client'[t] = client[t]
      BY <1>1, <2>1, <2>8 DEF SubscriptionTypeOK
    <3>2. /\ retry_timers'[t] = retry_timers[t] /\ error_count'[t] = error_count[t]
      BY <1>1, <2>1, <2>8, RetryGoesOn
    <3>3. GoesOn(t)
      BY DEF EntriesGoOn
    <3>4. AttemptsStay(t)
      BY <2>6, UnansweredStay
    <3> QED BY <3>1, <3>2, <3>3, <3>4, StaysGoing
  <2> QED BY <2>7, <2>8
<1>7. CASE ~(~after[c].detached /\ alive /\ IsClient(s, c))
  <2>1. connections' = after /\ UNCHANGED <<client, error_count, retry_timers>>
    BY <1>5, <1>7 DEF ClientEvent
  <2>2. \A t \in clients : AttemptsStay(t)
    BY <1>4, <2>1, UnansweredStay
  <2> QED BY <2>1, <2>2, EntriesStay
<1> QED BY <1>6, <1>7

\* The answer of a connect: a failure is retried, a connection becomes the client.
LEMMA AnswerGoesOn ==
  ASSUME SubscriptionInv, EntriesGoOn, ClientConnectFails \/ ClientConnects
  PROVE  EntriesGoOn'
<1>1. SubscriptionTypeOK /\ clients \subseteq Services
  BY DEF SubscriptionInv, SubscriptionTypeOK
<1>2. connections \in Seq(ConnectionRecords)
  BY <1>1, SubscriptionTypes
<1>3. PICK c \in DOMAIN connections :
        /\ connections' = WithAnswer(connections, c)
        /\ \/ ConnectRetry(connections[c].service) /\ UNCHANGED client
           \/ /\ client' = [client EXCEPT ![connections[c].service] = c]
              /\ error_count' = [error_count EXCEPT ![connections[c].service] = 0]
              /\ UNCHANGED retry_timers
  BY DEF ClientConnectFails, ClientConnects, WithAnswer
<1>4. PICK s \in Services : s = connections[c].service
  BY <1>2, ConnectionFields
<1>5. c # None
  BY <1>2, ConnectionFields
<1>6. /\ SameServices(connections, connections')
      /\ \A d \in DOMAIN connections : d # c => connections'[d].answered = connections[d].answered
  BY <1>2, <1>3, AnsweredSet
<1>7. UNCHANGED <<active, use_service_url, clients>>
  BY DEF ClientConnectFails, ClientConnects
<1> SUFFICES ASSUME active, NEW t \in clients PROVE GoesOn(t)'
  BY <1>7 DEF EntriesGoOn
<1>8. t \in Services /\ GoesOn(t)
  BY <1>1 DEF EntriesGoOn
<1>9. CASE ConnectRetry(s) /\ UNCHANGED client
  <2>1. CASE t = s
    BY <1>1, <1>7, <1>9, <2>1, RetryGoesOn
  <2>2. CASE t # s
    <3>1. AttemptsStay(t)
      BY <1>4, <1>6, <2>2, UnansweredStay
    <3>2. retry_timers'[t] = retry_timers[t] /\ error_count'[t] = error_count[t]
      BY <1>1, <1>7, <1>8, <1>9, <2>2, RetryGoesOn
    <3> QED BY <1>7, <1>8, <1>9, <3>1, <3>2, StaysGoing
  <2> QED BY <2>1, <2>2
<1>10. CASE /\ client' = [client EXCEPT ![s] = c]
            /\ error_count' = [error_count EXCEPT ![s] = 0]
            /\ UNCHANGED retry_timers
  <2>1. CASE t = s
    <3>1. client'[t] = c
      BY <1>1, <1>8, <1>10, <2>1 DEF SubscriptionTypeOK
    <3> QED BY <1>5, <3>1 DEF GoesOn
  <2>2. CASE t # s
    <3>1. AttemptsStay(t)
      BY <1>4, <1>6, <2>2, UnansweredStay
    <3>2. client'[t] = client[t] /\ error_count'[t] = error_count[t]
      BY <1>1, <1>8, <1>10, <2>2 DEF SubscriptionTypeOK
    <3> QED BY <1>7, <1>8, <1>10, <3>1, <3>2, StaysGoing
  <2> QED BY <2>1, <2>2
<1> QED BY <1>3, <1>4, <1>9, <1>10

\* Connects that are made leave what was not answered, and are not answered themselves.
LEMMA MadeUnanswered ==
  ASSUME connections \in Seq(ConnectionRecords), NEW n \in Nat, NEW seq \in [1..n -> Services],
         AsyncConnectService(seq)
  PROVE  /\ \A s \in Services : AttemptsStay(s)
         /\ \A i \in 1..n : GoesOn(seq[i])'
<1>1. connections' = connections \o ConnectsTo(seq)
  BY DEF AsyncConnectService, ConnectsTo
<1>2. Extended(connections, connections', n, seq)
  BY <1>1, ConnectsAdded
<1>3. \A s \in Services : AttemptsStay(s)
  BY <1>2 DEF Extended, AttemptsStay
<1>4. ASSUME NEW i \in 1..n PROVE GoesOn(seq[i])'
  <2>1. Len(connections) \in Nat /\ DOMAIN connections = 1..Len(connections)
    OBVIOUS
  <2>2. DOMAIN connections' = 1..(Len(connections) + n)
    BY <1>2 DEF Extended
  <2>3. PICK c : c = Len(connections) + i
    OBVIOUS
  <2>4. c \in DOMAIN connections' \ DOMAIN connections /\ c - Len(connections) = i
    BY <2>1, <2>2, <2>3
  <2>5. connections'[c].service = seq[i] /\ connections'[c].answered = FALSE
    BY <1>2, <2>4 DEF Extended
  <2> QED BY <2>4, <2>5 DEF GoesOn
<1> QED BY <1>3, <1>4

\* A retry connects, or throws and is tried again.
LEMMA RetryConnectsGoesOn ==
  ASSUME SubscriptionInv, EntriesGoOn, RetryConnects
  PROVE  EntriesGoOn'
<1>1. SubscriptionTypeOK /\ connections \in Seq(ConnectionRecords)
  BY SubscriptionTypes DEF SubscriptionInv
<1>2. /\ retry_timers \in [Services -> 0..1] /\ clients \subseteq Services
      /\ error_count \in [Services -> 0..(MaxErrors + 1)] /\ MaxErrors \in Nat
  BY <1>1, ServiceSubscriptionAssumption DEF SubscriptionTypeOK
<1>3. PICK s \in Services :
        /\ retry_timers[s] > 0
        /\ \/ /\ AsyncConnectService(<<s>>)
              /\ retry_timers' = [retry_timers EXCEPT ![s] = @ - 1]
              /\ UNCHANGED error_count
           \/ /\ retry_timers' = [retry_timers EXCEPT ![s] = IF GivesUp(s) THEN @ - 1 ELSE @]
              /\ error_count' = [error_count EXCEPT
                                   ![s] = IF @ > MaxErrors THEN @ ELSE @ + 1]
              /\ UNCHANGED connections
  BY DEF RetryConnects
<1>4. UNCHANGED <<active, use_service_url, clients, client>>
  BY DEF RetryConnects
<1> SUFFICES ASSUME active, NEW t \in clients PROVE GoesOn(t)'
  BY <1>4 DEF EntriesGoOn
<1>5. t \in Services /\ GoesOn(t)
  BY <1>2 DEF EntriesGoOn
<1>6. CASE /\ AsyncConnectService(<<s>>)
           /\ retry_timers' = [retry_timers EXCEPT ![s] = @ - 1]
           /\ UNCHANGED error_count
  <2>1. PICK seq : seq = <<s>>
    OBVIOUS
  <2>2. seq \in [1..1 -> Services] /\ \A i \in 1..1 : seq[i] = s
    BY <2>1
  <2>3. AttemptsStay(t) /\ GoesOn(s)'
    <3>1. AsyncConnectService(seq) /\ 1 \in Nat /\ 1 \in 1..1
      BY <1>6, <2>1
    <3>2. AttemptsStay(t) /\ GoesOn(seq[1])'
      BY <1>1, <1>5, <2>2, <3>1, MadeUnanswered
    <3>3. s = seq[1]
      BY <2>1
    <3> QED BY <3>2, <3>3
  <2>4. CASE t # s
    <3>1. retry_timers'[t] = retry_timers[t]
      BY <1>2, <1>5, <1>6, <2>4
    <3> QED BY <1>4, <1>5, <1>6, <2>3, <3>1, StaysGoing
  <2> QED BY <2>3, <2>4
<1>7. CASE /\ retry_timers' = [retry_timers EXCEPT ![s] = IF GivesUp(s) THEN @ - 1 ELSE @]
           /\ error_count' = [error_count EXCEPT ![s] = IF @ > MaxErrors THEN @ ELSE @ + 1]
           /\ UNCHANGED connections
  <2>1. PICK k : k = IF GivesUp(s) THEN retry_timers[s] - 1 ELSE retry_timers[s]
    OBVIOUS
  <2>2. retry_timers' = [retry_timers EXCEPT ![s] = k]
    BY <1>7, <2>1, Zenon
  <2>3. PICK m : m = IF error_count[s] > MaxErrors THEN error_count[s] ELSE error_count[s] + 1
    OBVIOUS
  <2>4. error_count' = [error_count EXCEPT ![s] = m]
    BY <1>7, <2>3, Zenon
  <2>5. AttemptsStay(t)
    BY <1>7 DEF AttemptsStay
  <2>6. CASE t # s
    <3>1. retry_timers'[t] = retry_timers[t] /\ error_count'[t] = error_count[t]
      BY <1>2, <1>5, <2>2, <2>4, <2>6
    <3> QED BY <1>4, <1>5, <2>5, <3>1, StaysGoing
  <2>7. CASE GivesUp(s) /\ t = s
    <3>1. error_count'[s] = error_count[s]
      BY <1>2, <2>3, <2>4, <2>7 DEF GivesUp
    <3> QED BY <1>4, <2>7, <3>1 DEF GivesUp, GoesOn
  <2>8. CASE ~GivesUp(s) /\ t = s
    <3>1. retry_timers'[s] = retry_timers[s]
      BY <1>2, <2>1, <2>2, <2>8
    <3> QED BY <1>3, <2>8, <3>1 DEF GoesOn
  <2> QED BY <2>6, <2>7, <2>8
<1> QED BY <1>3, <1>6, <1>7

\* As many connects as there are new services, in the order of a list that has none
\* twice, are one for each.
LEMMA EachConnected ==
  ASSUME NEW list \in Seq(Services), IsInjective(list), NEW new \in SUBSET Services,
         NEW n \in Nat, n = Cardinality(new), NEW connects \in [1..n -> new],
         InOrder(connects, list)
  PROVE  \A s \in new : \E i \in 1..n : connects[i] = s
<1>1. ASSUME NEW i \in 1..n, NEW j \in 1..n, i < j
      PROVE  connects[i] # connects[j]
  <2>1. DOMAIN connects = 1..n
    OBVIOUS
  <2>2. \A x, y \in DOMAIN connects : x < y =>
          \E k, l \in DOMAIN list : k < l /\ list[k] = connects[x] /\ list[l] = connects[y]
    BY ONLY InOrder(connects, list) DEF InOrder
  <2>3. \E k, l \in DOMAIN list : k < l /\ list[k] = connects[i] /\ list[l] = connects[j]
    <3>1. i \in DOMAIN connects /\ j \in DOMAIN connects
      BY <2>1
    <3> QED BY <1>1, <2>2, <3>1, Zenon
  <2> QED BY <2>3 DEF IsInjective
<1>2. IsInjective(connects)
  <2> SUFFICES ASSUME NEW i \in 1..n, NEW j \in 1..n, connects[i] = connects[j] PROVE i = j
    BY DEF IsInjective
  <2>1. i < j \/ j < i \/ i = j
    OBVIOUS
  <2> QED BY <1>1, <2>1
<1>3. connects \in Injection(1..n, new)
  BY <1>2 DEF Injection
<1>4. IsFiniteSet(new)
  BY FS_Subset, ServiceSubscriptionAssumption
<1>5. Cardinality(1..n) = n
  <2>1. 1 \in Int /\ n \in Int
    OBVIOUS
  <2>2. Cardinality(1..n) = IF 1 > n THEN 0 ELSE n - 1 + 1
    BY <2>1, FS_Interval, Zenon
  <2> QED BY <2>2
<1>6. connects \in Surjection(1..n, new)
  BY <1>3, <1>4, <1>5, FS_Injection
<1> QED BY <1>6 DEF Surjection

\* A new service of a list is connected to, the timer of a known one runs on.
LEMMA LookAtGoesOn ==
  ASSUME SubscriptionInv, EntriesGoOn, active \/ clients = {},
         NEW list \in Seq(Services), IsInjective(list), LookAt(list)
  PROVE  EntriesGoOn'
<1>1. SubscriptionTypeOK /\ connections \in Seq(ConnectionRecords) /\ clients \subseteq Services
      /\ retry_timers \in [Services -> 0..1]
  BY SubscriptionTypes DEF SubscriptionInv, SubscriptionTypeOK
<1>2. PICK new \in SUBSET (LookedAt(list) \ clients) :
        /\ \E connects \in [1..Cardinality(new) -> new] :
             InOrder(connects, list) /\ AsyncConnectService(connects)
        /\ clients' = clients \cup new
  BY DEF LookAt
<1>3. new \in SUBSET Services
  BY DEF LookedAt
<1>4. PICK n \in Nat : n = Cardinality(new)
  BY <1>3, FS_Subset, FS_CardinalityType, ServiceSubscriptionAssumption
<1>5. PICK connects \in [1..n -> new] :
        InOrder(connects, list) /\ AsyncConnectService(connects)
  BY <1>2, <1>4
<1>6. connects \in [1..n -> Services]
  BY <1>3
<1>7. /\ \A s \in Services : AttemptsStay(s)
      /\ \A i \in 1..n : GoesOn(connects[i])'
  BY <1>1, <1>5, <1>6, MadeUnanswered
<1>8. \A s \in new : \E i \in 1..n : connects[i] = s
  BY <1>3, <1>4, <1>5, EachConnected
<1>9. UNCHANGED <<use_service_url, client, error_count>>
  BY DEF LookAt
<1>10. \A s \in Services : retry_timers[s] > 0 => retry_timers'[s] > 0
  BY <1>1 DEF LookAt, RestartedTimer
<1> SUFFICES ASSUME NEW s \in clients' PROVE GoesOn(s)'
  BY DEF EntriesGoOn
<1>11. CASE s \in new
  BY <1>7, <1>8, <1>11
<1>12. CASE s \in clients
  <2>1. s \in Services /\ GoesOn(s)
    BY <1>1, <1>12 DEF EntriesGoOn
  <2> QED BY <1>7, <1>9, <1>10, <2>1, StaysGoing
<1> QED BY <1>2, <1>11, <1>12

\* Every step of a subscription leaves its entries going.
LEMMA SubscriptionGoesOn ==
  ASSUME SubscriptionInv, EntriesGoOn, SubscriptionNext
  PROVE  EntriesGoOn'
<1>1. SubscriptionTypeOK /\ connections \in Seq(ConnectionRecords) /\ clients \subseteq Services
  BY SubscriptionTypes DEF SubscriptionInv, SubscriptionTypeOK
<1>2. CASE RetryConnects
  BY <1>2, RetryConnectsGoesOn
<1>3. CASE RetryForgets
  <2>1. PICK s \in Services : Forgotten({s}) /\ connections' = Detached({s})
    BY <1>3 DEF RetryForgets
  <2>2. UNCHANGED <<active, use_service_url>>
    BY <1>3 DEF RetryForgets
  <2>3. /\ SameServices(connections, connections')
        /\ \A d \in DOMAIN connections : connections'[d].answered = connections[d].answered
    BY <1>1, <2>1, DetachedSet
  <2> SUFFICES ASSUME active, NEW t \in clients' PROVE GoesOn(t)'
    BY <2>2 DEF EntriesGoOn
  <2>4. t \in clients /\ t # s /\ t \in Services
    BY <1>1, <2>1 DEF Forgotten
  <2>5. /\ client'[t] = client[t] /\ retry_timers'[t] = retry_timers[t]
        /\ error_count'[t] = error_count[t]
    BY <2>1, <2>4 DEF Forgotten
  <2>6. GoesOn(t) /\ AttemptsStay(t)
    BY <2>3, <2>4, UnansweredStay DEF EntriesGoOn
  <2> QED BY <2>2, <2>5, <2>6, StaysGoing
<1>4. CASE UpdateGrowsOld \/ HoldClient \/ LetGo \/ ClaimClient
  <2>1. UNCHANGED <<active, use_service_url, clients, client, retry_timers, error_count,
                    connections>>
    BY <1>4 DEF UpdateGrowsOld, HoldClient, LetGo, ClaimClient, entries
  <2>2. \A s \in clients : AttemptsStay(s)
    BY <2>1 DEF AttemptsStay
  <2> QED BY <2>1, <2>2, EntriesStay
<1>5. CASE ConnectEnds \/ ConnectionLost \/ Closing
  <2>1. PICK c \in DOMAIN connections, state \in States :
          connections' = WithState(connections, c, state)
    BY <1>5 DEF ConnectEnds, ConnectionLost, Closing, WithState, States
  <2>2. UNCHANGED <<active, use_service_url, clients, client, retry_timers, error_count>>
    BY <1>5 DEF ConnectEnds, ConnectionLost, Closing, entries
  <2>3. \A s \in clients : AttemptsStay(s)
    BY <1>1, <2>1, StateSet, UnansweredStay
  <2> QED BY <2>2, <2>3, EntriesStay
<1>6. CASE ClientConnectFails \/ ClientConnects
  BY <1>6, AnswerGoesOn
<1>7. CASE LostEvent
  <2>1. PICK c \in DOMAIN connections :
          /\ connections[c].state = "lost" /\ ClientEvent(c, connections, TRUE)
          /\ UNCHANGED <<active, use_service_url, clients>>
    BY <1>7 DEF LostEvent
  <2>2. connections = WithState(connections, c, "lost")
    <3>1. connections[c] \in ConnectionRecords
      BY <1>1
    <3>2. [connections[c] EXCEPT !.state = "lost"] = connections[c]
      BY <2>1, <3>1 DEF ConnectionRecords
    <3> QED BY <1>1, <3>2 DEF WithState
  <2> QED BY <2>1, <2>2, EventGoesOn
<1>8. CASE AsyncClose1
  <2>1. PICK c \in DOMAIN connections :
          /\ ClientEvent(c, [connections EXCEPT ![c].state = "closed"], c \in held)
          /\ UNCHANGED <<active, use_service_url, clients>>
    BY <1>8 DEF AsyncClose1
  <2>2. PICK after : after = [connections EXCEPT ![c].state = "closed"]
                     /\ after = WithState(connections, c, "closed")
    BY DEF WithState
  <2> QED BY <2>1, <2>2, EventGoesOn
<1>9. CASE ReleaseClient \/ UpdateServiceURL
  <2>1. UNCHANGED <<active, use_service_url, clients, client, retry_timers, error_count>>
    BY <1>9 DEF ReleaseClient, UpdateServiceURL, entries
  <2>2. UNCHANGED connections \/ \E cs : connections' = Dropped(cs)
    BY <1>9 DEF ReleaseClient, UpdateServiceURL
  <2>3. CASE UNCHANGED connections
    <3>1. \A s \in clients : AttemptsStay(s)
      BY <2>3 DEF AttemptsStay
    <3> QED BY <2>1, <3>1, EntriesStay
  <2>4. CASE \E cs : connections' = Dropped(cs)
    <3>1. \A s \in clients : AttemptsStay(s)
      BY <1>1, <2>4, DroppedSet, UnansweredStay
    <3> QED BY <2>1, <3>1, EntriesStay
  <2> QED BY <2>2, <2>3, <2>4
<1> QED BY <1>2, <1>3, <1>4, <1>5, <1>6, <1>7, <1>8, <1>9 DEF SubscriptionNext

\* And so does every step of the node.
LEMMA StepGoesOn ==
  ASSUME SubscriptionsInv, EntriesGoOn, [Next]_vars
  PROVE  EntriesGoOn'
<1>1. DiscoveryInv /\ SubscriptionInv /\ SubscriptionTypeOK
  BY DEF SubscriptionsInv, SubscriptionInv
<1>2. ~active => clients = {}
  BY <1>1 DEF SubscriptionInv, NotActive
<1>3. CASE UNCHANGED subscriptionVars
  <2>1. UNCHANGED <<active, use_service_url, clients, client, retry_timers, error_count,
                    connections>>
    BY <1>3 DEF subscriptionVars, entries
  <2>2. \A s \in clients : AttemptsStay(s)
    BY <2>1 DEF AttemptsStay
  <2> QED BY <2>1, <2>2, EntriesStay
<1>4. CASE SubscribeServiceByType
  <2>1. PICK list \in AnyList : Init_ByType(list)
    BY <1>4 DEF SubscribeServiceByType
  <2>2. LookAt(list) /\ clients = {}
    BY <1>2, <2>1 DEF Init_ByType
  <2> QED BY <1>1, <2>2, ListsTold, LookAtGoesOn
<1>5. CASE UpdateByType
  <2>1. PICK list \in AnyList : NodeUpdated(list)
    BY <1>5 DEF UpdateByType
  <2>2. CASE active
    <3>1. LookAt(list)
      BY <2>1, <2>2 DEF NodeUpdated
    <3> QED BY <1>1, <2>2, <3>1, ListsTold, LookAtGoesOn
  <2>3. CASE ~active
    <3>1. UNCHANGED subscriptionVars
      BY <2>1, <2>3 DEF NodeUpdated
    <3> QED BY <1>3, <3>1
  <2> QED BY <2>2, <2>3
<1>6. CASE SubscribeService
  <2>1. InitServiceURL /\ clients = {}
    BY <1>2, <1>6 DEF SubscribeService, Unsubscribed
  <2>2. CASE UNCHANGED <<connections, clients>>
    BY <2>1, <2>2 DEF EntriesGoOn
  <2>3. CASE \E s \in Services : AsyncConnectService(<<s>>) /\ clients' = {s}
    <3>1. PICK s \in Services : AsyncConnectService(<<s>>) /\ clients' = {s}
      BY <2>3
    <3>2. PICK seq : seq = <<s>>
      OBVIOUS
    <3>3. seq \in [1..1 -> Services] /\ seq[1] = s /\ 1 \in 1..1 /\ 1 \in Nat
      BY <3>2
    <3>4. connections \in Seq(ConnectionRecords) /\ AsyncConnectService(seq)
      BY <1>1, <3>1, <3>2, SubscriptionTypes
    <3>5. GoesOn(seq[1])'
      BY <3>3, <3>4, MadeUnanswered
    <3>6. GoesOn(s)'
      BY <3>3, <3>5
    <3> QED BY <3>1, <3>6 DEF EntriesGoOn
  <2> QED BY <2>1, <2>2, <2>3 DEF InitServiceURL
<1>7. CASE SubscriptionStep
  BY <1>1, <1>7, SubscriptionGoesOn DEF SubscriptionStep
<1>8. CASE CloseSubscription
  <2>1. CASE Close
    BY <2>1 DEF Close, EntriesGoOn
  <2> QED BY <1>3, <1>8, <2>1 DEF CloseSubscription
<1>9. CASE SubscribeServiceInfo2 \/ DiscoveryStep \/ Update \/ NodeLost
  BY <1>3, <1>9 DEF SubscribeServiceInfo2, DiscoveryStep, Update, NodeLost
<1>10. CASE UNCHANGED vars
  BY <1>3, <1>10 DEF vars
<1> QED BY <1>4, <1>5, <1>6, <1>7, <1>8, <1>9, <1>10 DEF Next

\* What failed or was lost is retried: an entry of an open subscription has a connection
\* that is made or in use or a timer that runs, unless it has given up or nobody held its
\* client when the connection was closed (ClientEvent, whose weak pointer is gone then).
THEOREM OnlyClosedForgotten == Spec => []OnlyClosedIsForgotten
<1>1. Init => EntriesGoOn
  BY DEF Init, SubscriptionInit, EntriesGoOn
<1>2. SubscriptionsInv /\ EntriesGoOn /\ [Next]_vars => EntriesGoOn'
  BY StepGoesOn
<1>3. ASSUME SubscriptionsInv, EntriesGoOn PROVE OnlyClosedIsForgotten
  <2> SUFFICES ASSUME active, NEW s \in clients
               PROVE  \/ InUse(s) # {} \/ retry_timers[s] > 0 \/ GivesUp(s)
                      \/ client[s] # None /\ ~Alive(client[s])
    BY DEF OnlyClosedIsForgotten
  <2>1. SubscriptionTypeOK /\ ClientsKnown /\ GoesOn(s) /\ s \in Services
    BY <1>3 DEF SubscriptionsInv, SubscriptionInv, SubscriptionTypeOK, EntriesGoOn
  <2>2. CASE \E c \in DOMAIN connections :
               connections[c].service = s /\ ~connections[c].answered
    BY <2>2 DEF InUse
  <2>3. CASE client[s] # None /\ Alive(client[s])
    <3>1. client[s] \in 0..Len(connections) /\ connections \in Seq(ConnectionRecords)
      BY <2>1, SubscriptionTypes DEF SubscriptionTypeOK
    <3>2. client[s] \in DOMAIN connections
      BY <2>3, <3>1 DEF None
    <3>3. connections[client[s]].service = s
      BY <2>1, <2>3 DEF ClientsKnown
    <3>4. client[s] \in InUse(s)
      BY <2>3, <3>2, <3>3 DEF InUse
    <3> QED BY <3>4
  <2> QED BY <2>1, <2>2, <2>3 DEF GoesOn
<1> QED BY <1>1, <1>2, <1>3, Invariant, PTL DEF Spec
====
