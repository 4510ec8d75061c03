------------------------ MODULE ClientObjects_proofs ------------------------
(***************************************************************************)
(* Proofs about ClientObjects for every number of request numbers, of calls *)
(* and of searches.                                                         *)
(***************************************************************************)
EXTENDS ClientObjects, ClientRequests_proofs

-----------------------------------------------------------------------------
(* The requests of ClientObjects are those of ClientRequests.              *)

\* A search makes a request as any other call.
LEMMA SearchStep == ASSUME m_Connected, Search PROVE AsyncProcessRequest
  BY DEF Search, AsyncProcessRequest

\* Every step of a search is one of its requests, or none.
LEMMA RequestsStep == [ObjectsNext]_allVars => [Next]_vars
  <1> SUFFICES ASSUME [ObjectsNext]_allVars PROVE [Next]_vars  OBVIOUS
  <1>1. CASE AsyncFindObjRef
    BY <1>1, SearchStep DEF AsyncFindObjRef, Next
  <1>2. CASE RequestsAnswered  BY <1>2 DEF RequestsAnswered, Next
  <1>3. CASE PullDefinition  BY <1>3 DEF PullDefinition, Next
  <1>4. CASE SearchTimeout  BY <1>4 DEF SearchTimeout
  <1>5. CASE ServicePathReleased  BY <1>5 DEF ServicePathReleased
  <1>6. CASE AsyncProcessRequest \/ AsyncClose \/ ServiceReplies \/ LinkLost
    BY <1>6 DEF Next
  <1>7. CASE UNCHANGED allVars  BY <1>7 DEF allVars
  <1> QED BY <1>1, <1>2, <1>3, <1>4, <1>5, <1>6, <1>7 DEF ObjectsNext

\* What is proved of the requests (ClientRequests_proofs) holds with searches.
THEOREM RequestsOfObjects == ObjectsSpec => Spec
  <1>1. ObjectsInit => Init  BY DEF ObjectsInit
  <1> QED BY <1>1, RequestsStep, PTL DEF ObjectsSpec, Spec

-----------------------------------------------------------------------------
(* The searches.                                                           *)

Finds == [request : Nat, timer : BOOLEAN, answers : Nat, stub : Int]

\* A search has a request of its own, which no close is.
OwnRequests ==
    /\ \A f \in DOMAIN finds :
         Joined(f) \/ /\ finds[f].request \in DOMAIN calls
                      /\ calls[finds[f].request].kind = "request"
    /\ \A f, g \in DOMAIN finds :
         ~Joined(f) /\ finds[f].request = finds[g].request => f = g

\* The inductive invariant, with that of the requests.
SInv ==
    /\ finds \in Seq(Finds) /\ stub \in Nat /\ searching \in BOOLEAN
    /\ OwnRequests /\ WaitingIsSearched /\ OneStub

\* Calls are not forgotten.
CallsKept ==
    \A c \in DOMAIN calls :
      /\ c \in DOMAIN calls' /\ calls'[c].kind = calls[c].kind
      /\ calls[c].dropped => calls'[c].dropped

\* So what was dropped is still awaited, and what is outstanding.
LEMMA AwaitedOn ==
  ASSUME CallsKept, NEW c \in Awaited, c \in Outstanding => c \in Outstanding'
  PROVE  c \in Awaited'
  BY DEF CallsKept, Awaited, Dropped

\* Nor are stubs that were handed out.
StubsKept == {NoStub, Error, stub} \cup released \subseteq ({NoStub, Error, stub} \cup released)'

\* What AsyncFindObjRef3 makes of a search.
LEMMA AnsweredFind ==
  ASSUME NEW r \in Finds, NEW a \in Int, NEW r2,
         r2 = [request |-> r.request, timer |-> FALSE, answers |-> r.answers + 1, stub |-> a]
  PROVE  /\ r2 \in Finds /\ r2.request = r.request
         /\ r2.answers = r.answers + 1 /\ r2.stub = a
  <1>1. r.request \in Nat /\ r.answers + 1 \in Nat  BY DEF Finds
  <1>2. r2 \in Finds  BY <1>1, Zenon DEF Finds
  <1> QED BY <1>2

\* Searches of the library's kind of sequence, for any function of that length.
LEMMA SameFinds ==
  ASSUME NEW old \in Seq(Finds), NEW new \in [DOMAIN old -> Finds]
  PROVE  new \in Seq(Finds)
  <1>1. DOMAIN old = 1..Len(old) /\ Len(old) \in Nat  OBVIOUS
  <1> QED BY <1>1, SeqDef

\* AsyncFindObjRef3 answers who waited for the searches that ended, nobody else.
LEMMA EndedFinds ==
  ASSUME SInv, NEW ended \in SUBSET DOMAIN finds, NEW a \in Int, AsyncFindObjRef3(ended, a)
  PROVE  /\ finds' \in Seq(Finds) /\ DOMAIN finds' = DOMAIN finds
         /\ \A f \in DOMAIN finds :
              /\ finds'[f].request = finds[f].request
              /\ f \in Answering(ended) /\ Unanswered(f) =>
                   finds'[f].answers = 1 /\ finds'[f].stub = a
              /\ ~(f \in Answering(ended) /\ Unanswered(f)) => finds'[f] = finds[f]
         /\ searching' = (searching /\ ended = {})
  <1>1. finds' = [f \in DOMAIN finds |->
                    IF f \in Answering(ended) /\ Unanswered(f)
                    THEN [finds[f] EXCEPT !.answers = @ + 1, !.stub = a, !.timer = FALSE]
                    ELSE finds[f]]
        /\ searching' = (searching /\ ended = {})
    BY DEF AsyncFindObjRef3
  <1>2. DOMAIN finds' = DOMAIN finds  BY <1>1
  <1>3. ASSUME NEW f \in DOMAIN finds
        PROVE  /\ finds'[f] \in Finds /\ finds'[f].request = finds[f].request
               /\ f \in Answering(ended) /\ Unanswered(f) =>
                    finds'[f].answers = 1 /\ finds'[f].stub = a
               /\ ~(f \in Answering(ended) /\ Unanswered(f)) => finds'[f] = finds[f]
    <2>1. finds[f] \in Finds  BY DEF SInv
    <2>2. CASE f \in Answering(ended) /\ Unanswered(f)
      <3>1. finds'[f] = [finds[f] EXCEPT !.answers = @ + 1, !.stub = a, !.timer = FALSE]
        BY <1>1, <2>2
      <3>2. ASSUME NEW r \in Finds, r = finds[f], NEW r2, r2 = finds'[f]
            PROVE  /\ r2 \in Finds /\ r2.request = r.request
                   /\ r2.answers = r.answers + 1 /\ r2.stub = a
        <4>1. r2 = [r EXCEPT !.answers = @ + 1, !.stub = a, !.timer = FALSE]
          BY <3>1, <3>2, Zenon
        <4>2. r2 = [request |-> r.request, timer |-> FALSE, answers |-> r.answers + 1,
                    stub |-> a]
          BY <4>1 DEF Finds
        <4> QED BY <3>2, <4>2, AnsweredFind
      <3>3. finds[f].answers = 0  BY <2>2 DEF Unanswered
      <3> QED BY <2>1, <2>2, <3>2, <3>3
    <2>3. CASE ~(f \in Answering(ended) /\ Unanswered(f))
      <3>1. finds'[f] = finds[f]  BY <1>1, <2>3
      <3> QED BY <2>1, <2>3, <3>1
    <2> QED BY <2>2, <2>3
  <1>4. finds' \in [DOMAIN finds -> Finds]
    <2>1. finds' = [f \in DOMAIN finds |-> finds'[f]]  BY <1>1
    <2> QED BY <2>1, <1>3
  <1>5. finds' \in Seq(Finds)  BY <1>4, SameFinds DEF SInv
  <1> QED BY <1>1, <1>2, <1>3, <1>5

\* The end of searches leaves nobody waiting, if what did not end goes on.
LEMMA SearchesEnd ==
  ASSUME SInv, NEW ended \in SUBSET DOMAIN finds, NEW a \in {Error, stub'},
         AsyncFindObjRef3(ended, a), stub' \in Nat, StubsKept, CallsKept,
         \A f \in InProgress : f \in ended \/ finds[f].request \in Awaited'
  PROVE  SInv'
  <1> DEFINE Ends(f) == f \in Answering(ended) /\ Unanswered(f)
  <1>1. /\ finds' \in Seq(Finds) /\ DOMAIN finds' = DOMAIN finds
        /\ \A f \in DOMAIN finds :
             /\ finds'[f].request = finds[f].request
             /\ Ends(f) => finds'[f].answers = 1 /\ finds'[f].stub = a
             /\ ~Ends(f) => finds'[f] = finds[f]
        /\ searching' = (searching /\ ended = {})
    <2>1. a \in Int  BY DEF Error
    <2> QED BY <2>1, EndedFinds
  <1>2. \A f \in DOMAIN finds : Joined(f)' <=> Joined(f)  BY <1>1 DEF Joined
  <1>3. OwnRequests'  BY <1>1, <1>2 DEF OwnRequests, SInv, CallsKept
  <1>4. \A f \in InProgress : f \in ended \/ f \in InProgress'
    BY <1>1, <1>2 DEF InProgress
  <1>5. WaitingIsSearched'
    <2>1. ASSUME NEW f \in DOMAIN finds
          PROVE  \/ finds'[f].answers = 1
                 \/ finds'[f].answers = 0 /\ f \in InProgress'
                 \/ finds'[f].answers = 0 /\ Joined(f)' /\ searching'
      <3>1. CASE Ends(f)  BY <3>1, <1>1
      <3>2. CASE ~Ends(f)
        <4>1. finds'[f] = finds[f]  BY <3>2, <1>1
        <4>2. CASE finds[f].answers = 1  BY <4>1, <4>2
        <4>3. CASE finds[f].answers = 0 /\ f \in InProgress
          <5>1. f \notin ended  BY <3>2, <4>3 DEF Answering, Unanswered
          <5> QED BY <4>1, <4>3, <5>1, <1>4
        <4>4. CASE finds[f].answers = 0 /\ Joined(f) /\ searching
          <5>1. ended = {}  BY <3>2, <4>4 DEF Answering, Unanswered
          <5> QED BY <4>1, <4>4, <5>1, <1>1, <1>2
        <4> QED BY <4>2, <4>3, <4>4 DEF SInv, WaitingIsSearched
      <3> QED BY <3>1, <3>2
    <2>2. ASSUME searching' PROVE \E f \in InProgress' : Unanswered(f)'
      <3>1. PICK f \in InProgress : Unanswered(f)
        BY <2>2, <1>1 DEF SInv, WaitingIsSearched
      <3>2. ended = {}  BY <2>2, <1>1
      <3>3. ~Ends(f) /\ f \in InProgress'  BY <3>2, <1>4 DEF Answering
      <3>4. f \in DOMAIN finds  BY DEF InProgress
      <3>5. Unanswered(f)'  BY <3>1, <3>3, <3>4, <1>1 DEF Unanswered
      <3> QED BY <3>3, <3>5
    <2> QED BY <2>1, <2>2, <1>1 DEF WaitingIsSearched
  <1>6. OneStub'
    <2>1. ASSUME NEW f \in DOMAIN finds
          PROVE  finds'[f].stub \in ({NoStub, Error, stub} \cup released)'
      <3>1. CASE Ends(f)  BY <3>1, <1>1
      <3>2. CASE ~Ends(f)
        <4>1. finds'[f].stub \in {NoStub, Error, stub} \cup released
          BY <3>2, <1>1 DEF SInv, OneStub
        <4> QED BY <4>1 DEF StubsKept
      <3> QED BY <3>1, <3>2
    <2> QED BY <2>1, <1>1 DEF OneStub
  <1> QED BY <1>1, <1>3, <1>5, <1>6 DEF SInv

\* A step that leaves the searches alone.
LEMMA SearchesGoOn ==
  ASSUME SInv, UNCHANGED <<searching, finds>>, stub' \in Nat, StubsKept, CallsKept,
         Awaited \subseteq Awaited'
  PROVE  SInv'
  <1>1. OwnRequests'  BY DEF SInv, OwnRequests, Joined, CallsKept
  <1>2. \A f \in InProgress : f \in InProgress'  BY DEF InProgress, Joined
  <1>3. WaitingIsSearched'
    BY <1>2 DEF SInv, WaitingIsSearched, Unanswered, Joined
  <1>4. OneStub'  BY DEF SInv, OneStub, StubsKept
  <1> QED BY <1>1, <1>3, <1>4 DEF SInv

-----------------------------------------------------------------------------
(* What becomes of the requests.                                           *)

\* Every entry that a step removes is answered, and a reply answers one request.
AnswersTheRest ==
    /\ CallsKept /\ DOMAIN calls' = DOMAIN calls
    /\ \A c \in Awaited : c \in Awaited' \/ c \in JustAnswered
    /\ \A c \in JustAnswered :
         calls'[c].answer = c /\ calls[c].kind = "request" => JustAnswered = {c}

\* The type of a call, and its place in the sequence.
LEMMA CallOf ==
  ASSUME calls \in Seq(Calls), NEW d \in DOMAIN calls
  PROVE  calls[d] \in Calls /\ calls[d].answers \in Nat /\ d \in Nat \ {0, Error}
  <1>1. calls[d] \in Calls  OBVIOUS
  <1>2. \A r \in Calls : r.answers \in Nat  BY DEF Calls
  <1>3. d \in 1..Len(calls) /\ Len(calls) \in Nat  OBVIOUS
  <1> QED BY <1>1, <1>2, <1>3 DEF Error

\* The answer to one request, or to all when it is a close.
LEMMA CompleteAnswers ==
  ASSUME IInv, NEW n \in DOMAIN outstanding_requests,
         NEW answer \in {Error, outstanding_requests[n]}, Complete(n, answer)
  PROVE  AnswersTheRest
  <1> DEFINE c == outstanding_requests[n]
  <1>1. /\ calls \in Seq(Calls) /\ c \in DOMAIN calls
        /\ \A i \in DOMAIN outstanding_requests : outstanding_requests[i] \in DOMAIN calls
        /\ \A i, j \in DOMAIN outstanding_requests :
             outstanding_requests[i] = outstanding_requests[j] => i = j
    BY DEF IInv, Fits
  <1>2. /\ outstanding_requests' =
             [i \in IF Closing(n) THEN {} ELSE DOMAIN outstanding_requests \ {n} |->
                outstanding_requests[i]]
        /\ calls' = [d \in DOMAIN calls |->
                       IF d = c THEN Answered(c, answer)
                       ELSE IF d \in CompletedWith(n) THEN Answered(d, Error) ELSE calls[d]]
    BY DEF Complete
  <1>3. c \in Int /\ Error \in Int  BY <1>1 DEF Error
  <1>4. DOMAIN calls' = DOMAIN calls  BY <1>2
  <1>5. ASSUME NEW d \in DOMAIN calls
        PROVE  /\ calls'[d].kind = calls[d].kind /\ calls'[d].dropped = calls[d].dropped
               /\ d = c => calls'[d].answers = calls[d].answers + 1
               /\ d # c /\ d \in CompletedWith(n) =>
                    calls'[d].answers = calls[d].answers + 1 /\ calls'[d].answer = Error
               /\ d # c /\ d \notin CompletedWith(n) => calls'[d] = calls[d]
    <2>1. calls[d] \in Calls  BY <1>1
    <2>2. CASE d = c  BY <1>2, <1>3, <2>1, <2>2, AnsweredCall
    <2>3. CASE d # c /\ d \in CompletedWith(n)  BY <1>2, <1>3, <2>1, <2>3, AnsweredCall
    <2>4. CASE d # c /\ d \notin CompletedWith(n)  BY <1>2, <2>4
    <2> QED BY <2>2, <2>3, <2>4
  <1>6. \A d \in DOMAIN calls : calls[d].answers \in Nat /\ d # Error
    BY <1>1, CallOf
  <1>7. CallsKept  BY <1>4, <1>5 DEF CallsKept
  <1>8. JustAnswered = {c} \cup (CompletedWith(n) \cap DOMAIN calls)
    <2>1. \A d \in DOMAIN calls :
            calls'[d].answers > calls[d].answers <=> d = c \/ d \in CompletedWith(n)
      BY <1>5, <1>6
    <2> QED BY <1>1, <2>1 DEF JustAnswered
  <1>9. \A d \in Outstanding : d \in Outstanding' \/ d \in JustAnswered
    <2>1. CASE Closing(n)  BY <1>1, <1>8, <2>1 DEF Closing, CompletedWith, Outstanding
    <2>2. CASE ~Closing(n)
      <3>1. /\ DOMAIN outstanding_requests' = DOMAIN outstanding_requests \ {n}
            /\ \A i \in DOMAIN outstanding_requests \ {n} :
                 outstanding_requests'[i] = outstanding_requests[i]
        BY <1>2, <2>2
      <3> QED BY <1>8, <3>1 DEF Outstanding
    <2> QED BY <2>1, <2>2
  <1>10. ASSUME NEW d \in JustAnswered, calls'[d].answer = d, calls[d].kind = "request"
         PROVE  JustAnswered = {d}
    <2>1. d \in DOMAIN calls  BY DEF JustAnswered
    <2>2. d = c  BY <1>5, <1>6, <1>8, <1>10, <2>1
    <2>3. ~Closing(n)  BY <1>10, <2>2 DEF Closing, Closes
    <2>4. CompletedWith(n) = {c}  BY <2>3 DEF Closing, CompletedWith
    <2> QED BY <1>8, <2>2, <2>4
  <1>11. \A d \in Awaited : d \in Awaited' \/ d \in JustAnswered  BY <1>7, <1>9, AwaitedOn
  <1> QED BY <1>4, <1>7, <1>10, <1>11 DEF AnswersTheRest

\* The connection test and the posted close answer all, with an error.
LEMMA AllAnswers ==
  ASSUME IInv, DOMAIN calls' = DOMAIN calls,
         \A d \in DOMAIN calls :
           /\ calls'[d].kind = calls[d].kind /\ calls'[d].dropped = calls[d].dropped
           /\ d \in Outstanding => calls'[d].answers > calls[d].answers
           /\ calls'[d] = calls[d] \/ calls'[d].answer = Error
  PROVE  AnswersTheRest
  <1>1. /\ calls \in Seq(Calls)
        /\ \A i \in DOMAIN outstanding_requests : outstanding_requests[i] \in DOMAIN calls
    BY DEF IInv, Fits
  <1>2. \A d \in DOMAIN calls : calls[d].answers \in Nat /\ d # Error
    BY <1>1, CallOf
  <1>3. \A d \in JustAnswered : d \in DOMAIN calls /\ calls'[d].answer # d
    BY <1>2 DEF JustAnswered
  <1>4. \A d \in Outstanding : d \in JustAnswered  BY <1>1 DEF JustAnswered, Outstanding
  <1>5. CallsKept  BY DEF CallsKept
  <1>6. \A d \in Awaited : d \in Awaited' \/ d \in JustAnswered  BY <1>4, <1>5, AwaitedOn
  <1> QED BY <1>3, <1>5, <1>6 DEF AnswersTheRest

\* A message that finds no entry answers nobody.
LEMMA NobodyAnswers ==
  ASSUME IInv, UNCHANGED <<calls, outstanding_requests>>
  PROVE  AnswersTheRest
  <1>1. calls \in Seq(Calls)  BY DEF IInv, Fits
  <1>2. \A d \in DOMAIN calls : calls[d].answers \in Nat  BY <1>1, CallOf
  <1>3. JustAnswered = {}  BY <1>2 DEF JustAnswered
  <1>4. Outstanding' = Outstanding /\ CallsKept  BY DEF Outstanding, CallsKept
  <1>5. \A c \in Awaited : c \in Awaited'  BY <1>4, AwaitedOn
  <1> QED BY <1>3, <1>4, <1>5 DEF AnswersTheRest

\* A reply that is dropped answers nobody, and its request stays awaited.
LEMMA DropAnswers ==
  ASSUME IInv, NEW n \in DOMAIN outstanding_requests, Drop(n)
  PROVE  AnswersTheRest
  <1> DEFINE c == outstanding_requests[n]
  <1>1. calls \in Seq(Calls) /\ c \in DOMAIN calls  BY DEF IInv, Fits
  <1>2. /\ calls' = [calls EXCEPT ![c].dropped = TRUE]
        /\ outstanding_requests' =
             [i \in DOMAIN outstanding_requests \ {n} |-> outstanding_requests[i]]
    BY DEF Drop
  <1>3. ASSUME NEW d \in DOMAIN calls
        PROVE  /\ calls'[d].kind = calls[d].kind /\ calls'[d].answers = calls[d].answers
               /\ calls[d].dropped => calls'[d].dropped
               /\ calls[d].answers \in Nat
    <2>1. calls[d] \in Calls /\ calls[d].answers \in Nat  BY <1>1, CallOf
    <2>2. CASE d = c  BY <1>1, <1>2, <2>1, <2>2 DEF Calls
    <2>3. CASE d # c  BY <1>1, <1>2, <2>1, <2>3
    <2> QED BY <2>2, <2>3
  <1>4. DOMAIN calls' = DOMAIN calls /\ CallsKept
    <2>1. DOMAIN calls' = DOMAIN calls  BY <1>1, <1>2
    <2> QED BY <1>3, <2>1 DEF CallsKept
  <1>5. calls'[c].dropped
    <2>1. calls[c] \in Calls  BY <1>1
    <2> QED BY <1>1, <1>2, <2>1 DEF Calls
  <1>6. c \in Awaited'  BY <1>1, <1>4, <1>5 DEF Awaited, Dropped
  <1>7. \A d \in Outstanding : d = c \/ d \in Outstanding'  BY <1>2 DEF Outstanding
  <1>8. \A d \in Awaited : d \in Awaited'  BY <1>4, <1>6, <1>7, AwaitedOn
  <1>9. JustAnswered = {}  BY <1>3 DEF JustAnswered
  <1> QED BY <1>4, <1>8, <1>9 DEF AnswersTheRest

\* Replies, timers, errors of sends, the connection test and the posted close.
LEMMA AnswersStep ==
  ASSUME IInv, ReceiveReply \/ RequestTimeout \/ SendFails \/ ConnectionTest \/ PostedClose
  PROVE  AnswersTheRest
  <1> DEFINE Nobody == UNCHANGED <<calls, outstanding_requests>>
  <1>0. calls \in Seq(Calls)  BY DEF IInv, Fits
  <1>1. CASE ReceiveReply
    <2>1. PICK m \in replies :
            (\E n \in EntryFor(m) : Complete(n, m[2]) \/ Drop(n)) \/ Nobody
      BY <1>1 DEF ReceiveReply
    <2>2. CASE \E n \in EntryFor(m) : Complete(n, m[2])
      <3>1. PICK n \in EntryFor(m) : Complete(n, m[2])  BY <2>2
      <3>2. n \in DOMAIN outstanding_requests /\ n = m[1]  BY DEF EntryFor
      <3>3. outstanding_requests[n] = m[2]  BY <3>2 DEF IInv, Own
      <3> QED BY <3>1, <3>2, <3>3, CompleteAnswers
    <2>3. CASE \E n \in EntryFor(m) : Drop(n)  BY <2>3, DropAnswers DEF EntryFor
    <2> QED BY <2>1, <2>2, <2>3, NobodyAnswers
  <1>2. CASE RequestTimeout  BY <1>2, CompleteAnswers DEF RequestTimeout
  <1>3. CASE SendFails
    <2>1. PICK m \in at_service : (\E n \in EntryFor(m) : Complete(n, Error)) \/ Nobody
      BY <1>3 DEF SendFails
    <2>2. EntryFor(m) \subseteq DOMAIN outstanding_requests  BY DEF EntryFor
    <2> QED BY <2>1, <2>2, CompleteAnswers, NobodyAnswers
  <1>4. CASE ConnectionTest
    <2>1. calls' = [d \in DOMAIN calls |->
                      IF d \in Outstanding THEN Answered(d, Error) ELSE calls[d]]
      BY <1>4 DEF ConnectionTest, CompleteAll
    <2>2. ASSUME NEW d \in DOMAIN calls
          PROVE  /\ calls'[d].kind = calls[d].kind /\ calls'[d].dropped = calls[d].dropped
                 /\ d \in Outstanding => calls'[d].answers > calls[d].answers
                 /\ calls'[d] = calls[d] \/ calls'[d].answer = Error
      <3>1. calls[d] \in Calls /\ calls[d].answers \in Nat /\ Error \in Int
        BY <1>0, CallOf DEF Error
      <3>2. CASE d \in Outstanding
        <4>1. calls'[d] = Answered(d, Error)  BY <2>1, <3>2
        <4> QED BY <3>1, <3>2, <4>1, AnsweredCall
      <3>3. CASE d \notin Outstanding  BY <2>1, <3>3
      <3> QED BY <3>2, <3>3
    <2>3. DOMAIN calls' = DOMAIN calls  BY <2>1
    <2> QED BY <2>2, <2>3, AllAnswers
  <1>5. CASE PostedClose
    <2> DEFINE Times(c, d) == (IF d = c THEN 1 ELSE 0) + (IF d \in Outstanding THEN 1 ELSE 0)
    <2>1. PICK c \in posted_close :
            calls' = [d \in DOMAIN calls |->
                        IF Times(c, d) = 0 THEN calls[d]
                        ELSE [calls[d] EXCEPT !.answers = @ + Times(c, d), !.answer = Error]]
      BY <1>5 DEF PostedClose
    <2>2. ASSUME NEW d \in DOMAIN calls
          PROVE  /\ calls'[d].kind = calls[d].kind /\ calls'[d].dropped = calls[d].dropped
                 /\ d \in Outstanding => calls'[d].answers > calls[d].answers
                 /\ calls'[d] = calls[d] \/ calls'[d].answer = Error
      <3>1. calls[d] \in Calls /\ calls[d].answers \in Nat  BY <1>0, CallOf
      <3>2. CASE Times(c, d) = 0
        <4>1. calls'[d] = calls[d]  BY <2>1, <3>2
        <4>2. d \notin Outstanding  BY <3>2
        <4> QED BY <4>1, <4>2
      <3>3. CASE Times(c, d) # 0
        <4>1. Times(c, d) \in 1..2  BY <3>3
        <4>2. ASSUME NEW k \in 1..2, k = Times(c, d), NEW r \in Calls, r = calls[d],
                     NEW r2, r2 = calls'[d]
              PROVE  /\ r2.kind = r.kind /\ r2.dropped = r.dropped
                     /\ r2.answers = r.answers + k /\ r2.answer = Error
          <5>1. calls'[d] = [calls[d] EXCEPT !.answers = @ + Times(c, d), !.answer = Error]
            BY <2>1, <3>3
          <5> HIDE DEF Times
          <5>2. r2 = [r EXCEPT !.answers = @ + k, !.answer = Error]  BY <4>2, <5>1, Zenon
          <5>3. r2 = [kind |-> r.kind, finite |-> r.finite, threw |-> r.threw,
                      ignored |-> r.ignored, answers |-> r.answers + k, answer |-> Error,
                      dropped |-> r.dropped]
            BY <5>2 DEF Calls
          <5> QED BY <5>3
        <4> QED BY <3>1, <4>1, <4>2
      <3> QED BY <3>2, <3>3
    <2>3. DOMAIN calls' = DOMAIN calls  BY <2>1
    <2> QED BY <2>2, <2>3, AllAnswers
  <1> QED BY <1>1, <1>2, <1>3, <1>4, <1>5

\* A new call is outstanding, and so are those that were, its message sent or not.
LEMMA ProcessGoesOn ==
  ASSUME request_number \in RequestNumbers, NEW out, NEW made \in Seq(Calls),
         NEW call \in Calls, Process(call, out, made)
  PROVE  /\ Len(made) + 1 \in Outstanding' /\ \A i \in DOMAIN out : out[i] \in Outstanding'
         /\ DOMAIN calls' = DOMAIN made \cup {Len(made) + 1}
         /\ Len(made) \in Nat /\ Len(made) + 1 \notin DOMAIN made
         /\ \A c \in DOMAIN made : calls'[c] = made[c]
         /\ calls'[Len(made) + 1].kind = call.kind
  <1> DEFINE new(sent) == [call EXCEPT !.threw = ~sent]
  <1>1. PICK n \in NextNumbers(DOMAIN out), sent \in BOOLEAN :
          /\ outstanding_requests' =
               [i \in DOMAIN out \cup {n} |-> IF i = n THEN Len(made) + 1 ELSE out[i]]
          /\ calls' = Append(made, new(sent))
    BY Zenon DEF Process
  <1>2. n \notin DOMAIN out  BY NumberIsFree
  <1>3. ASSUME NEW r \in Calls, r = new(sent) PROVE r.kind = call.kind
    <2>1. r = [kind |-> call.kind, finite |-> call.finite, threw |-> ~sent,
               ignored |-> call.ignored, answers |-> call.answers, answer |-> call.answer,
               dropped |-> call.dropped]
      BY <1>3 DEF Calls
    <2> QED BY <2>1
  <1>4. new(sent) \in Calls
    <2>1. ASSUME NEW r, r = new(sent) PROVE r \in Calls
      <3>1. r = [kind |-> call.kind, finite |-> call.finite, threw |-> ~sent,
                 ignored |-> call.ignored, answers |-> call.answers, answer |-> call.answer,
                 dropped |-> call.dropped]
        BY <2>1 DEF Calls
      <3> QED BY <3>1 DEF Calls
    <2> QED BY <2>1
  <1>5. /\ Len(made) \in Nat /\ DOMAIN made = 1..Len(made)
        /\ DOMAIN outstanding_requests' = DOMAIN out \cup {n}
        /\ outstanding_requests'[n] = Len(made) + 1
        /\ \A i \in DOMAIN out : outstanding_requests'[i] = out[i]
    BY <1>1, <1>2
  <1>6. /\ Len(made) + 1 \in Outstanding'
        /\ \A i \in DOMAIN out : out[i] \in Outstanding'
    <2>1. Outstanding' =
            {outstanding_requests'[i] : i \in DOMAIN outstanding_requests'}
      BY DEF Outstanding
    <2>2. Len(made) + 1 \in Outstanding'  BY <1>5, <2>1
    <2>3. \A i \in DOMAIN out : out[i] \in Outstanding'  BY <1>5, <2>1
    <2> QED BY <2>2, <2>3
  <1>7. /\ Len(calls') = Len(made) + 1 /\ calls' \in Seq(Calls)
        /\ \A i \in 1..Len(made) : calls'[i] = made[i]
        /\ calls'[Len(made) + 1] = new(sent)
    <2> DEFINE r == new(sent)
    <2>1. calls' = Append(made, r) /\ r \in Calls  BY <1>1, <1>4
    <2> HIDE DEF r
    <2>2. /\ Len(calls') = Len(made) + 1 /\ calls' \in Seq(Calls)
          /\ \A i \in 1..Len(made) : calls'[i] = made[i]
          /\ calls'[Len(made) + 1] = r
      BY <2>1, AppendProperties
    <2> QED BY <2>2 DEF r
  <1>8. calls'[Len(made) + 1].kind = call.kind  BY <1>3, <1>4, <1>7
  <1>9. DOMAIN calls' = DOMAIN made \cup {Len(made) + 1} /\ Len(made) + 1 \notin DOMAIN made
    BY <1>5, <1>7
  <1> HIDE DEF new
  <1> QED BY <1>5, <1>6, <1>7, <1>8, <1>9

\* A request or close that is refused is no request.
LEMMA RefuseGoesOn ==
  ASSUME calls \in Seq(Calls), NEW call, Refuse(call)
  PROVE  CallsKept /\ Awaited \subseteq Awaited'
  <1>1. calls' = Append(calls, call) /\ outstanding_requests' = outstanding_requests
    BY DEF Refuse
  <1>2. Len(calls) \in Nat /\ DOMAIN calls = 1..Len(calls)  OBVIOUS
  <1>3. \A c \in DOMAIN calls : c \in DOMAIN calls' /\ calls'[c] = calls[c]
    BY <1>1, <1>2
  <1>4. CallsKept /\ Outstanding' = Outstanding  BY <1>1, <1>3 DEF CallsKept, Outstanding
  <1> QED BY <1>4, AwaitedOn

\* AsyncProcessRequest and AsyncClose leave what is awaited.
LEMMA CallsGoOn ==
  ASSUME IInv, AsyncProcessRequest \/ AsyncClose
  PROVE  CallsKept /\ Awaited \subseteq Awaited'
  <1>1. calls \in Seq(Calls) /\ request_number \in RequestNumbers  BY DEF IInv, Fits
  <1>2. PICK call \in Calls :
          \/ Process(call, outstanding_requests, calls)
          \/ Refuse([call EXCEPT !.threw = TRUE]) \/ Refuse([call EXCEPT !.ignored = TRUE])
    <2>1. \A kind \in {"request", "close"}, finite \in BOOLEAN : NewCall(kind, finite) \in Calls
      BY DEF NewCall, Calls, NoAnswer
    <2>2. CASE AsyncProcessRequest  BY <2>1, <2>2, Zenon DEF AsyncProcessRequest
    <2>3. CASE AsyncClose
      <3>1. NewCall("close", TRUE) \in Calls  BY <2>1
      <3> QED BY <2>3, <3>1, Zenon DEF AsyncClose
    <2> QED BY <2>2, <2>3
  <1>3. CASE Process(call, outstanding_requests, calls)
    <2>1. /\ \A i \in DOMAIN outstanding_requests : outstanding_requests[i] \in Outstanding'
          /\ \A c \in DOMAIN calls : c \in DOMAIN calls' /\ calls'[c] = calls[c]
      BY <1>1, <1>3, ProcessGoesOn
    <2>2. CallsKept /\ Outstanding \subseteq Outstanding'  BY <2>1 DEF CallsKept, Outstanding
    <2> QED BY <2>2, AwaitedOn
  <1>4. CASE Refuse([call EXCEPT !.threw = TRUE])  BY <1>1, <1>4, RefuseGoesOn, Zenon
  <1>5. CASE Refuse([call EXCEPT !.ignored = TRUE])  BY <1>1, <1>5, RefuseGoesOn, Zenon
  <1> QED BY <1>2, <1>3, <1>4, <1>5

-----------------------------------------------------------------------------
(* The steps.                                                              *)

\* One call more: of AsyncFindObjRef, with the search it starts or the one it joins.
LEMMA AppendFind ==
  ASSUME SInv, NEW r \in Finds, finds' = Append(finds, r),
         CallsKept, Awaited \subseteq Awaited', UNCHANGED <<stub, released>>,
         searching' \in BOOLEAN, searching => searching',
         r.stub \in {NoStub, Error, stub} \cup released,
         \/ r.request = 0
         \/ /\ r.request \in DOMAIN calls' /\ calls'[r.request].kind = "request"
            /\ r.request \notin DOMAIN calls,
         \/ r.answers = 1
         \/ r.answers = 0 /\ r.request # 0 /\ r.request \in Awaited'
         \/ r.answers = 0 /\ r.request = 0 /\ searching',
         searching' => \/ searching
                       \/ r.answers = 0 /\ r.request # 0 /\ r.request \in Awaited'
  PROVE  SInv'
  <1>1. finds \in Seq(Finds) /\ Len(finds) \in Nat /\ DOMAIN finds = 1..Len(finds)
    BY DEF SInv
  <1>0. PICK new \in Nat : new = Len(finds) + 1  BY <1>1
  <1>2. /\ finds' \in Seq(Finds) /\ Len(finds') = new /\ finds'[new] = r
        /\ \A f \in DOMAIN finds : finds'[f] = finds[f]
    BY <1>0, <1>1, AppendProperties
  <1>3. DOMAIN finds' = DOMAIN finds \cup {new} /\ new \notin DOMAIN finds
    BY <1>0, <1>1, <1>2
  <1>4. /\ \A f \in DOMAIN finds : Joined(f)' <=> Joined(f)
        /\ Joined(new)' <=> r.request = 0
    BY <1>2 DEF Joined
  <1>5. OwnRequests'
    <2>1. ASSUME NEW f \in DOMAIN finds'
          PROVE  Joined(f)' \/ /\ finds'[f].request \in DOMAIN calls'
                               /\ calls'[finds'[f].request].kind = "request"
      <3>1. CASE f = new  BY <3>1, <1>2, <1>4
      <3>2. CASE f \in DOMAIN finds
        BY <3>2, <1>2, <1>4 DEF SInv, OwnRequests, CallsKept
      <3> QED BY <3>1, <3>2, <1>3
    <2>2. ASSUME NEW f \in DOMAIN finds', NEW g \in DOMAIN finds', ~Joined(f)',
                 finds'[f].request = finds'[g].request
          PROVE  f = g
      <3>1. ASSUME NEW h \in DOMAIN finds, ~Joined(h) PROVE finds[h].request # r.request
        BY <3>1 DEF SInv, OwnRequests, Joined
      <3>2. ~Joined(g)'  BY <2>2 DEF Joined
      <3> QED BY <2>2, <3>1, <3>2, <1>2, <1>3, <1>4 DEF SInv, OwnRequests
    <2> QED BY <2>1, <2>2 DEF OwnRequests
  <1>6. \A f \in InProgress : f \in InProgress' /\ (Unanswered(f)' <=> Unanswered(f))
    BY <1>2, <1>3, <1>4 DEF InProgress, Unanswered
  <1>7. r.request # 0 /\ r.request \in Awaited' => new \in InProgress'
    BY <1>2, <1>3, <1>4 DEF InProgress
  <1>8. WaitingIsSearched'
    <2>1. ASSUME NEW f \in DOMAIN finds'
          PROVE  \/ finds'[f].answers = 1
                 \/ finds'[f].answers = 0 /\ f \in InProgress'
                 \/ finds'[f].answers = 0 /\ Joined(f)' /\ searching'
      <3>1. CASE f = new  BY <3>1, <1>2, <1>4, <1>7
      <3>2. CASE f \in DOMAIN finds
        BY <3>2, <1>2, <1>4, <1>6 DEF SInv, WaitingIsSearched
      <3> QED BY <3>1, <3>2, <1>3
    <2>2. ASSUME searching' PROVE \E f \in InProgress' : Unanswered(f)'
      <3>1. CASE searching  BY <3>1, <1>6 DEF SInv, WaitingIsSearched
      <3>2. CASE r.answers = 0 /\ r.request # 0 /\ r.request \in Awaited'
        <4>1. Unanswered(new)'  BY <3>2, <1>2 DEF Unanswered
        <4> QED BY <3>2, <4>1, <1>7
      <3> QED BY <2>2, <3>1, <3>2
    <2> QED BY <2>1, <2>2 DEF WaitingIsSearched
  <1>9. OneStub'  BY <1>2, <1>3 DEF SInv, OneStub
  <1> QED BY <1>2, <1>5, <1>8, <1>9 DEF SInv

\* AsyncFindObjRef.
LEMMA AsyncFindObjRefKeeps == ASSUME IInv, SInv, AsyncFindObjRef PROVE SInv'
  <1>1. \A r, t : NewFind(r, t).request = r /\ NewFind(r, t).answers = 0
                  /\ NewFind(r, t).stub = NoStub
    BY DEF NewFind
  <1>2. \A r \in Nat, t \in BOOLEAN : NewFind(r, t) \in Finds
    BY DEF NewFind, Finds, NoStub
  <1>3. ASSUME UNCHANGED vars PROVE CallsKept /\ Awaited \subseteq Awaited'
    BY <1>3 DEF vars, CallsKept, Awaited, Outstanding, Dropped
  <1>4. CASE /\ stub # NoStub /\ finds' = Append(finds, Cached)
             /\ UNCHANGED <<vars, stub, searching, released>>
    <2>1. Cached = [request |-> 0, timer |-> FALSE, answers |-> 1, stub |-> stub]
      <3>1. ASSUME NEW r \in Finds, NEW s, NEW r2, r2 = [r EXCEPT !.answers = 1, !.stub = s]
            PROVE  r2 = [request |-> r.request, timer |-> r.timer, answers |-> 1, stub |-> s]
        BY <3>1 DEF Finds
      <3>2. Cached = [request |-> NewFind(0, FALSE).request, timer |-> NewFind(0, FALSE).timer,
                      answers |-> 1, stub |-> stub]
        BY <1>2, <3>1, Zenon DEF Cached
      <3>3. NewFind(0, FALSE).request = 0 /\ NewFind(0, FALSE).timer = FALSE
        BY DEF NewFind
      <3> QED BY <3>2, <3>3, Zenon
    <2>2. ASSUME NEW r, r = Cached
          PROVE  r \in Finds /\ r.request = 0 /\ r.answers = 1 /\ r.stub = stub
      BY <2>1, <2>2 DEF Finds, SInv
    <2>3. Cached \in Finds /\ Cached.request = 0 /\ Cached.answers = 1 /\ Cached.stub = stub
      BY <2>2
    <2> HIDE DEF Cached
    <2> QED BY <1>3, <1>4, <2>3, AppendFind DEF SInv
  <1>5. CASE /\ stub = NoStub /\ searching /\ finds' = Append(finds, NewFind(0, FALSE))
             /\ UNCHANGED <<vars, stub, searching, released>>
    <2> DEFINE r == NewFind(0, FALSE)
    <2>1. r \in Finds /\ r.request = 0 /\ r.answers = 0 /\ r.stub = NoStub
      BY <1>1, <1>2
    <2>2. finds' = Append(finds, r)  BY <1>5
    <2> HIDE DEF r
    <2> QED BY <1>3, <1>5, <2>1, <2>2, AppendFind DEF SInv
  <1>6. CASE stub = NoStub /\ ~searching /\ Search
    <2>1. PICK finite \in BOOLEAN :
            LET sent == ~calls'[Len(calls) + 1].threw IN
            /\ Process(NewCall("request", finite), outstanding_requests, calls)
            /\ finds' = Append(finds, NewFind(Len(calls) + 1, sent /\ finite))
            /\ searching' = sent
      BY <1>6 DEF Search
    <2> DEFINE c == Len(calls) + 1
               sent == ~calls'[c].threw
               r == NewFind(c, sent /\ finite)
               call == NewCall("request", finite)
    <2>2. calls \in Seq(Calls) /\ request_number \in RequestNumbers  BY DEF IInv, Fits
    <2>3. call \in Calls /\ call.kind = "request"  BY DEF NewCall, Calls, NoAnswer
    <2>4. Process(call, outstanding_requests, calls) /\ finds' = Append(finds, r)
          /\ searching' = sent
      BY <2>1
    <2> HIDE DEF call
    <2>5. /\ c \in Outstanding'
          /\ \A i \in DOMAIN outstanding_requests : outstanding_requests[i] \in Outstanding'
          /\ DOMAIN calls' = DOMAIN calls \cup {c} /\ c \in Nat \ {0}
          /\ c \notin DOMAIN calls /\ calls'[c].kind = "request"
          /\ \A d \in DOMAIN calls : calls'[d] = calls[d]
      <3>1. /\ Len(calls) + 1 \in Outstanding'
            /\ \A i \in DOMAIN outstanding_requests : outstanding_requests[i] \in Outstanding'
            /\ DOMAIN calls' = DOMAIN calls \cup {Len(calls) + 1}
            /\ Len(calls) \in Nat /\ Len(calls) + 1 \notin DOMAIN calls
            /\ \A d \in DOMAIN calls : calls'[d] = calls[d]
            /\ calls'[Len(calls) + 1].kind = call.kind
        BY <2>2, <2>3, <2>4, ProcessGoesOn
      <3> QED BY <2>3, <3>1
    <2> HIDE DEF c
    <2>6. r \in Finds /\ r.request = c /\ r.answers = 0 /\ r.stub = NoStub
      <3>1. (sent /\ finite) \in BOOLEAN  OBVIOUS
      <3> QED BY <1>1, <1>2, <2>5, <3>1
    <2>7. CallsKept /\ Awaited \subseteq Awaited' /\ c \in Awaited'
      <3>1. CallsKept /\ Outstanding \subseteq Outstanding'
        BY <2>5 DEF CallsKept, Outstanding
      <3> QED BY <2>5, <3>1, AwaitedOn DEF Awaited
    <2>8. searching' \in BOOLEAN /\ (searching => searching')  BY <1>6, <2>4
    <2>9. UNCHANGED <<stub, released>>  BY <1>6 DEF Search
    <2> HIDE DEF r
    <2> QED BY <2>4, <2>5, <2>6, <2>7, <2>8, <2>9, AppendFind
  <1> QED BY <1>4, <1>5, <1>6 DEF AsyncFindObjRef

\* What happens to the searches when requests are answered.
LEMMA RequestsAnsweredKeeps == ASSUME IInv, SInv, RequestsAnswered PROVE SInv'
  <1>1. AnswersTheRest  BY AnswersStep DEF RequestsAnswered
  <1>2. Ended \in SUBSET DOMAIN finds  BY DEF Ended
  <1>3. \A f \in InProgress : f \in Ended \/ finds[f].request \in Awaited'
    BY <1>1 DEF AnswersTheRest, InProgress, Ended
  <1>4. CASE SearchesFail
    <2>1. /\ AsyncFindObjRef3(Ended, Error)
          /\ \/ stub' = NoStub /\ released' = released \cup ({stub} \ {NoStub})
             \/ UNCHANGED <<stub, released>>
      BY <1>4 DEF SearchesFail, CloseStubs
    <2>2. stub' \in Nat /\ StubsKept  BY <2>1 DEF SInv, StubsKept, NoStub
    <2> QED BY <1>1, <1>2, <1>3, <2>1, <2>2, SearchesEnd DEF AnswersTheRest
  <1>5. CASE SearchSucceeds
    <2>1. PICK f \in Ended : Replied(f) /\ CreateStub(f)  BY <1>5 DEF SearchSucceeds
    <2>2. /\ f \in DOMAIN finds /\ finds[f].request \in JustAnswered
          /\ finds[f].request \in DOMAIN calls
      BY DEF Ended, JustAnswered
    <2>3. ~Joined(f) /\ calls[finds[f].request].kind = "request"
      <3>1. calls \in Seq(Calls)  BY DEF IInv, Fits
      <3>2. finds[f].request # 0  BY <2>2, <3>1, CallOf
      <3> QED BY <2>2, <3>2 DEF SInv, OwnRequests, Joined
    <2>4. JustAnswered = {finds[f].request}
      BY <1>1, <2>1, <2>2, <2>3 DEF AnswersTheRest, Replied
    <2>5. Ended = {f}  BY <2>2, <2>3, <2>4 DEF Ended, SInv, OwnRequests
    <2>6. stub' = StubOf(f) /\ AsyncFindObjRef3(Ended, StubOf(f)) /\ UNCHANGED released
      BY <2>1, <2>5 DEF CreateStub
    <2>7. StubOf(f) \in Nat /\ StubsKept
      <3>1. f \in Nat  BY <2>2 DEF SInv
      <3> QED BY <2>6, <3>1 DEF SInv, StubOf, StubsKept
    <2> QED BY <1>1, <1>2, <1>3, <2>6, <2>7, SearchesEnd DEF AnswersTheRest
  <1> QED BY <1>4, <1>5 DEF RequestsAnswered

\* A search that pulls a definition goes on with its next request, or has failed.
LEMMA PullDefinitionKeeps == ASSUME IInv, SInv, PullDefinition PROVE SInv'
  <1>1. PICK f \in DOMAIN finds :
          /\ ~Joined(f)
          /\ \E m \in replies : m[2] = finds[f].request /\ ReplyAsksAgain(m)
          /\ \/ /\ finds' = [finds EXCEPT ![f].request = Len(calls) + 1]
                /\ UNCHANGED searching
             \/ /\ searching' = FALSE
                /\ finds' = [g \in DOMAIN finds |->
                     LET find == IF g = f THEN [finds[f] EXCEPT !.request = Len(calls) + 1]
                                 ELSE finds[g]
                     IN  IF g \in Answering({f}) /\ Unanswered(g)
                         THEN [find EXCEPT !.answers = @ + 1, !.stub = Error, !.timer = FALSE]
                         ELSE find]
          /\ UNCHANGED <<stub, released>>
    BY Zenon DEF PullDefinition
  <1>2. PICK m \in replies : m[2] = finds[f].request /\ ReplyAsksAgain(m)  BY <1>1
  <1> DEFINE e == outstanding_requests[m[1]]
             out == [n \in DOMAIN outstanding_requests \ {m[1]} |-> outstanding_requests[n]]
             made == [calls EXCEPT ![e] = Answered(e, m[2])]
             call == NewCall("request", TRUE)
  <1>3. m[1] \in DOMAIN outstanding_requests /\ Process(call, out, made)
    BY <1>2 DEF ReplyAsksAgain
  <1>4. /\ calls \in Seq(Calls) /\ request_number \in RequestNumbers
        /\ e = m[2] /\ e \in DOMAIN calls
    BY <1>3 DEF IInv, Fits, Own
  <1>5. /\ made \in Seq(Calls) /\ Len(made) = Len(calls) /\ DOMAIN made = DOMAIN calls
        /\ \A d \in DOMAIN calls :
             made[d].kind = calls[d].kind /\ made[d].dropped = calls[d].dropped
    <2>1. calls[e] \in Calls /\ m[2] \in Int  BY <1>4, CallOf
    <2>2. /\ Answered(e, m[2]) \in Calls /\ Answered(e, m[2]).kind = calls[e].kind
          /\ Answered(e, m[2]).dropped = calls[e].dropped
      BY <1>4, <2>1, AnsweredCall
    <2>3. /\ made \in [DOMAIN calls -> Calls] /\ DOMAIN made = DOMAIN calls
          /\ made[e] = Answered(e, m[2])
          /\ \A d \in DOMAIN calls : d # e => made[d] = calls[d]
      BY <1>4, <2>2
    <2> HIDE DEF made
    <2>4. made \in Seq(Calls)  BY <1>4, <2>3, SameLength
    <2>5. Len(made) = Len(calls)  BY <1>4, <2>3, <2>4
    <2> QED BY <1>4, <2>2, <2>3, <2>4, <2>5
  <1>6. /\ DOMAIN out = DOMAIN outstanding_requests \ {m[1]}
        /\ \A i \in DOMAIN out : out[i] = outstanding_requests[i]
    OBVIOUS
  <1>7. call \in Calls /\ call.kind = "request"  BY DEF NewCall, Calls, NoAnswer
  <1> HIDE DEF e, out, made, call
  <1>8. PICK c \in Nat : c = Len(calls) + 1  BY <1>4
  <1>9. /\ c \in Outstanding' /\ \A i \in DOMAIN out : out[i] \in Outstanding'
        /\ DOMAIN calls' = DOMAIN calls \cup {c} /\ c # 0 /\ c \notin DOMAIN calls
        /\ \A d \in DOMAIN calls : calls'[d] = made[d]
        /\ calls'[c].kind = "request"
    <2>1. /\ Len(made) + 1 \in Outstanding' /\ \A i \in DOMAIN out : out[i] \in Outstanding'
          /\ DOMAIN calls' = DOMAIN made \cup {Len(made) + 1}
          /\ Len(made) \in Nat /\ Len(made) + 1 \notin DOMAIN made
          /\ \A d \in DOMAIN made : calls'[d] = made[d]
          /\ calls'[Len(made) + 1].kind = call.kind
      BY <1>3, <1>4, <1>5, <1>7, ProcessGoesOn
    <2> QED BY <1>5, <1>7, <1>8, <2>1
  <1>10. CallsKept  BY <1>5, <1>9 DEF CallsKept
  <1>11. \A d \in Awaited : d = finds[f].request \/ d \in Awaited'
    <2>1. \A d \in Outstanding : d = finds[f].request \/ d \in Outstanding'
      BY <1>2, <1>4, <1>6, <1>9 DEF Outstanding, e
    <2> QED BY <1>10, <2>1, AwaitedOn
  <1>12. /\ finds' \in Seq(Finds) /\ DOMAIN finds' = DOMAIN finds
         /\ finds'[f].request = c
         /\ \A g \in DOMAIN finds : g # f => finds'[g].request = finds[g].request
         /\ \A g \in DOMAIN finds :
              \/ finds'[g].answers = finds[g].answers /\ finds'[g].stub = finds[g].stub
              \/ finds[g].answers = 0 /\ finds'[g].answers = 1 /\ finds'[g].stub = Error
         /\ \/ /\ UNCHANGED searching
               /\ \A g \in DOMAIN finds : finds'[g].answers = finds[g].answers
            \/ /\ searching' = FALSE
               /\ \A g \in DOMAIN finds :
                    Joined(g) /\ finds[g].answers = 0 => finds'[g].answers = 1
    <2>1. \A g \in DOMAIN finds : finds[g] \in Finds /\ finds[g].answers \in Nat
      <3>1. \A r \in Finds : r.answers \in Nat  BY DEF Finds
      <3> QED BY <3>1 DEF SInv
    <2>2. ASSUME NEW r \in Finds, NEW r2, r2 = [r EXCEPT !.request = c]
          PROVE  /\ r2 \in Finds /\ r2.request = c
                 /\ r2.answers = r.answers /\ r2.stub = r.stub
      <3>1. r2 = [request |-> c, timer |-> r.timer, answers |-> r.answers, stub |-> r.stub]
        BY <2>2 DEF Finds
      <3> QED BY <3>1 DEF Finds
    <2>3. ASSUME NEW r \in Finds, r.answers = 0, NEW r2,
                 r2 = [r EXCEPT !.answers = @ + 1, !.stub = Error, !.timer = FALSE]
          PROVE  /\ r2 \in Finds /\ r2.request = r.request
                 /\ r2.answers = 1 /\ r2.stub = Error
      <3>1. r2 = [request |-> r.request, timer |-> FALSE, answers |-> r.answers + 1,
                  stub |-> Error]
        BY <2>3 DEF Finds
      <3>2. Error \in Int  BY DEF Error
      <3>3. /\ r2 \in Finds /\ r2.request = r.request
            /\ r2.answers = r.answers + 1 /\ r2.stub = Error
        BY <3>1, <3>2, AnsweredFind
      <3> QED BY <2>3, <3>3
    <2>4. PICK pulled \in Finds : pulled = [finds[f] EXCEPT !.request = c]
      BY <2>1, <2>2
    <2>5. pulled.request = c /\ pulled.answers = finds[f].answers /\ pulled.stub = finds[f].stub
      BY <2>1, <2>2, <2>4
    <2>6. CASE /\ finds' = [finds EXCEPT ![f].request = Len(calls) + 1]
               /\ UNCHANGED searching
      <3>1. finds' = [finds EXCEPT ![f] = pulled]  BY <1>8, <2>4, <2>6, Zenon
      <3>2. /\ finds' \in [DOMAIN finds -> Finds] /\ DOMAIN finds' = DOMAIN finds
            /\ finds'[f] = pulled
            /\ \A g \in DOMAIN finds : g # f => finds'[g] = finds[g]
        BY <2>1, <3>1
      <3>3. finds' \in Seq(Finds)  BY <3>2, SameFinds DEF SInv
      <3> QED BY <2>5, <2>6, <3>2, <3>3
    <2>7. CASE /\ searching' = FALSE
               /\ finds' = [g \in DOMAIN finds |->
                    LET find == IF g = f THEN [finds[f] EXCEPT !.request = Len(calls) + 1]
                                ELSE finds[g]
                    IN  IF g \in Answering({f}) /\ Unanswered(g)
                        THEN [find EXCEPT !.answers = @ + 1, !.stub = Error, !.timer = FALSE]
                        ELSE find]
      <3> DEFINE find(g) == IF g = f THEN pulled ELSE finds[g]
      <3>1. finds' = [g \in DOMAIN finds |->
                        IF g \in Answering({f}) /\ Unanswered(g)
                        THEN [find(g) EXCEPT !.answers = @ + 1, !.stub = Error, !.timer = FALSE]
                        ELSE find(g)]
        BY <1>8, <2>4, <2>7, Zenon
      <3>2. \A g \in DOMAIN finds :
              /\ find(g) \in Finds
              /\ find(g).request = IF g = f THEN c ELSE finds[g].request
              /\ find(g).answers = finds[g].answers /\ find(g).stub = finds[g].stub
        BY <2>1, <2>5
      <3> HIDE DEF find
      <3>3. ASSUME NEW g \in DOMAIN finds
            PROVE  /\ finds'[g] \in Finds /\ finds'[g].request = find(g).request
                   /\ IF g \in Answering({f}) /\ Unanswered(g)
                      THEN finds'[g].answers = 1 /\ finds'[g].stub = Error
                      ELSE /\ finds'[g].answers = finds[g].answers
                           /\ finds'[g].stub = finds[g].stub
        <4>1. CASE g \in Answering({f}) /\ Unanswered(g)
          <5>1. finds'[g] = [find(g) EXCEPT !.answers = @ + 1, !.stub = Error, !.timer = FALSE]
            BY <3>1, <4>1, Zenon
          <5>2. find(g).answers = 0 /\ find(g) \in Finds  BY <3>2, <4>1 DEF Unanswered
          <5>3. /\ finds'[g] \in Finds /\ finds'[g].request = find(g).request
                /\ finds'[g].answers = 1 /\ finds'[g].stub = Error
            BY <2>3, <5>1, <5>2, Zenon
          <5> QED BY <4>1, <5>3
        <4>2. CASE ~(g \in Answering({f}) /\ Unanswered(g))
          <5>1. finds'[g] = find(g)  BY <3>1, <4>2, Zenon
          <5> QED BY <3>2, <4>2, <5>1
        <4> QED BY <4>1, <4>2
      <3>4. finds' \in Seq(Finds) /\ DOMAIN finds' = DOMAIN finds
        <4>1. finds' = [g \in DOMAIN finds |-> finds'[g]]  BY <3>1
        <4>2. finds' \in [DOMAIN finds -> Finds]  BY <3>3, <4>1
        <4> QED BY <4>1, <4>2, SameFinds DEF SInv
      <3>5. \A g \in DOMAIN finds : Joined(g) => g \in Answering({f})  BY DEF Answering
      <3> QED BY <2>7, <3>2, <3>3, <3>4, <3>5 DEF Unanswered
    <2> QED BY <1>1, <2>6, <2>7
  <1>13. /\ ~Joined(f)'
         /\ \A g \in DOMAIN finds : Joined(g)' <=> Joined(g)
    BY <1>1, <1>9, <1>12 DEF Joined
  <1>14. OwnRequests'
    <2>1. OwnRequests  BY DEF SInv
    <2>2. ASSUME NEW g \in DOMAIN finds'
          PROVE  Joined(g)' \/ /\ finds'[g].request \in DOMAIN calls'
                               /\ calls'[finds'[g].request].kind = "request"
      <3>1. CASE g = f  BY <1>9, <1>12, <3>1
      <3>2. CASE g # f  BY <1>10, <1>12, <1>13, <2>1, <3>2 DEF OwnRequests, CallsKept
      <3> QED BY <3>1, <3>2
    <2>3. ASSUME NEW g \in DOMAIN finds', NEW h \in DOMAIN finds',
                 ~Joined(g)', finds'[g].request = finds'[h].request
          PROVE  g = h
      <3>1. ASSUME NEW d \in DOMAIN finds, d # f PROVE finds'[d].request # c
        BY <1>9, <1>12, <2>1, <3>1 DEF OwnRequests, Joined
      <3>2. CASE g = f \/ h = f  BY <1>12, <2>3, <3>1, <3>2
      <3>3. CASE g # f /\ h # f  BY <1>12, <1>13, <2>1, <2>3, <3>3 DEF OwnRequests
      <3> QED BY <3>2, <3>3
    <2> QED BY <2>2, <2>3 DEF OwnRequests
  <1>15. \A g \in InProgress : g \in InProgress'
    <2>1. c \in Awaited'  BY <1>9 DEF Awaited
    <2> QED BY <1>1, <1>9, <1>11, <1>12, <1>13, <2>1 DEF InProgress, SInv, OwnRequests, Joined
  <1>16. WaitingIsSearched'
    <2>1. ASSUME NEW g \in DOMAIN finds
          PROVE  \/ finds'[g].answers = 1
                 \/ finds'[g].answers = 0 /\ g \in InProgress'
                 \/ finds'[g].answers = 0 /\ Joined(g)' /\ searching'
      BY <1>12, <1>13, <1>15 DEF SInv, WaitingIsSearched
    <2>2. ASSUME searching' PROVE \E g \in InProgress' : Unanswered(g)'
      <3>1. PICK g \in InProgress : Unanswered(g)
        BY <2>2, <1>12 DEF SInv, WaitingIsSearched
      <3>2. g \in DOMAIN finds  BY DEF InProgress
      <3> QED BY <2>2, <3>1, <3>2, <1>12, <1>15 DEF Unanswered
    <2> QED BY <2>1, <2>2, <1>12 DEF WaitingIsSearched
  <1>17. OneStub'  BY <1>1, <1>12 DEF SInv, OneStub
  <1> QED BY <1>1, <1>12, <1>14, <1>16, <1>17 DEF SInv

\* The timer of a search answers it, and those that joined, while its request goes on.
LEMMA SearchTimeoutKeeps == ASSUME IInv, SInv, SearchTimeout PROVE SInv'
  <1>1. PICK f \in DOMAIN finds : AsyncFindObjRef3({f}, Error)  BY DEF SearchTimeout
  <1>2. CallsKept /\ StubsKept /\ Awaited' = Awaited /\ stub' \in Nat
    BY DEF SearchTimeout, CallsKept, StubsKept, Awaited, Outstanding, Dropped, vars, SInv
  <1>3. \A g \in InProgress : finds[g].request \in Awaited'
    BY <1>2 DEF InProgress
  <1> QED BY <1>1, <1>2, <1>3, SearchesEnd

\* Every step keeps the invariant.
LEMMA SearchesStep == IInv /\ SInv /\ [ObjectsNext]_allVars => SInv'
  <1> SUFFICES ASSUME IInv, SInv, [ObjectsNext]_allVars PROVE SInv'  OBVIOUS
  <1>1. ASSUME UNCHANGED <<calls, outstanding_requests>>
        PROVE  CallsKept /\ Awaited' = Awaited
    BY <1>1 DEF CallsKept, Awaited, Outstanding, Dropped
  <1>2. CASE ServicePathReleased
    <2>1. UNCHANGED <<calls, outstanding_requests, searching, finds>> /\ stub' \in Nat
      BY <1>2 DEF ServicePathReleased, vars, NoStub
    <2>2. StubsKept  BY <1>2 DEF ServicePathReleased, StubsKept
    <2> QED BY <1>1, <2>1, <2>2, SearchesGoOn
  <1>3. CASE (AsyncProcessRequest \/ AsyncClose) /\ UNCHANGED objectVars
    <2>1. UNCHANGED <<searching, finds>> /\ stub' \in Nat /\ StubsKept
      BY <1>3 DEF objectVars, StubsKept, SInv
    <2> QED BY <1>3, <2>1, CallsGoOn, SearchesGoOn
  <1>4. CASE \/ (ServiceReplies \/ LinkLost) /\ UNCHANGED objectVars
             \/ UNCHANGED allVars
    <2>1. UNCHANGED <<calls, outstanding_requests, searching, finds, stub, released>>
      BY <1>4 DEF ServiceReplies, LinkLost, objectVars, allVars, vars
    <2>2. stub' \in Nat /\ StubsKept  BY <2>1 DEF StubsKept, SInv
    <2> QED BY <1>1, <2>1, <2>2, SearchesGoOn
  <1> QED BY <1>2, <1>3, <1>4, AsyncFindObjRefKeeps, RequestsAnsweredKeeps,
             PullDefinitionKeeps, SearchTimeoutKeeps DEF ObjectsNext

\* The inductive invariant of the searches holds (AsyncFindObjRef to
\* AsyncFindObjRef3, async_timeout_wrapper).
THEOREM SearchesInvariance == ObjectsSpec => []SInv
  <1>1. ObjectsInit => SInv
    <2> SUFFICES ASSUME ObjectsInit PROVE SInv  OBVIOUS
    <2>1. finds \in Seq(Finds) /\ DOMAIN finds = {}  BY DEF ObjectsInit
    <2> QED BY <2>1 DEF ObjectsInit, SInv, OwnRequests, WaitingIsSearched, OneStub, NoStub
  <1>2. ObjectsSpec => []IInv  BY RequestsOfObjects, Invariance, PTL
  <1> QED BY <1>1, <1>2, SearchesStep, PTL DEF ObjectsSpec

\* Whoever searches is answered once, and until then has a search that will answer
\* it (active_stub_searches).
THEOREM NobodyForgotten == ObjectsSpec => []WaitingIsSearched
  <1>1. SInv => WaitingIsSearched  BY DEF SInv
  <1> QED BY <1>1, SearchesInvariance, PTL

\* There are never two live stubs of one object (stubs).
THEOREM StubsAreOne == ObjectsSpec => []OneStub
  <1>1. SInv => OneStub  BY DEF SInv
  <1> QED BY <1>1, SearchesInvariance, PTL

-----------------------------------------------------------------------------
(* The types.                                                              *)

\* A stub that is in the table, or was, is named for a search that was made.
StubsOfFinds == stub \in DOMAIN finds \cup {NoStub} /\ released \subseteq DOMAIN finds

\* The step puts no other stubs there, and forgets no search.
LEMMA NoNewStubs ==
  ASSUME StubsOfFinds, DOMAIN finds \subseteq DOMAIN finds',
         stub' \in DOMAIN finds \cup {NoStub, stub},
         released' \subseteq released \cup ({stub} \ {NoStub})
  PROVE  StubsOfFinds'
  BY DEF StubsOfFinds

\* Every step keeps it.
LEMMA StubsStep == SInv /\ StubsOfFinds /\ [ObjectsNext]_allVars => StubsOfFinds'
  <1> SUFFICES ASSUME SInv, StubsOfFinds, [ObjectsNext]_allVars PROVE StubsOfFinds'  OBVIOUS
  <1>1. finds \in Seq(Finds)  BY DEF SInv
  <1>2. ASSUME NEW ended, NEW answer, AsyncFindObjRef3(ended, answer)
        PROVE  DOMAIN finds' = DOMAIN finds
    BY <1>2, Zenon DEF AsyncFindObjRef3
  <1>3. CASE AsyncFindObjRef
    <2>1. PICK r : finds' = Append(finds, r) /\ UNCHANGED <<stub, released>>
      BY <1>3, Zenon DEF AsyncFindObjRef, Search
    <2>2. DOMAIN finds \subseteq DOMAIN finds'  BY <1>1, <2>1
    <2> QED BY <2>1, <2>2, NoNewStubs
  <1>4. CASE RequestsAnswered
    <2>1. CASE SearchesFail
      <3>1. AsyncFindObjRef3(Ended, Error) /\ CloseStubs  BY <2>1 DEF SearchesFail
      <3>2. DOMAIN finds' = DOMAIN finds  BY <1>2, <3>1
      <3>3. /\ stub' \in {NoStub, stub}
            /\ released' \subseteq released \cup ({stub} \ {NoStub})
        BY <3>1 DEF CloseStubs
      <3> QED BY <3>2, <3>3, NoNewStubs
    <2>2. CASE SearchSucceeds
      <3>1. PICK f \in Ended : CreateStub(f)  BY <2>2 DEF SearchSucceeds
      <3>2. f \in DOMAIN finds  BY DEF Ended
      <3>3. AsyncFindObjRef3({f}, StubOf(f)) /\ stub' \in {f, stub} /\ released' = released
        BY <3>1 DEF CreateStub, StubOf
      <3>4. DOMAIN finds' = DOMAIN finds  BY <1>2, <3>3
      <3> QED BY <3>2, <3>3, <3>4, NoNewStubs
    <2> QED BY <1>4, <2>1, <2>2 DEF RequestsAnswered
  <1>5. CASE PullDefinition
    <2>1. DOMAIN finds' = DOMAIN finds /\ UNCHANGED <<stub, released>>
      BY <1>5, Zenon DEF PullDefinition
    <2> QED BY <2>1, NoNewStubs
  <1>6. CASE SearchTimeout
    <2>1. DOMAIN finds' = DOMAIN finds /\ UNCHANGED <<stub, released>>
      BY <1>2, <1>6 DEF SearchTimeout
    <2> QED BY <2>1, NoNewStubs
  <1>7. CASE ServicePathReleased
    <2>1. /\ finds' = finds /\ stub' = NoStub /\ stub # NoStub
          /\ released' = released \cup {stub}
      BY <1>7 DEF ServicePathReleased
    <2> QED BY <2>1, NoNewStubs
  <1>8. CASE UNCHANGED objectVars
    BY <1>8 DEF objectVars, StubsOfFinds
  <1>9. CASE UNCHANGED allVars
    BY <1>9 DEF allVars, objectVars, StubsOfFinds
  <1> QED BY <1>3, <1>4, <1>5, <1>6, <1>7, <1>8, <1>9 DEF ObjectsNext

\* Every variable has its type: a search waits for a request that was made, and stubs are
\* of searches (active_stub_searches, stubs).
THEOREM ObjectsTyped == ObjectsSpec => []ObjectsTypeOK
  <1>1. ObjectsInit => StubsOfFinds  BY DEF ObjectsInit, StubsOfFinds
  <1>2. TypeOK /\ IInv /\ SInv /\ StubsOfFinds => ObjectsTypeOK
    <2> SUFFICES ASSUME TypeOK, IInv, SInv, StubsOfFinds PROVE ObjectsTypeOK  OBVIOUS
    <2>1. DOMAIN finds = 1..Len(finds) /\ Len(finds) \in Nat  BY DEF SInv
    <2>2. DOMAIN calls = 1..Len(calls) /\ Len(calls) \in Nat  BY DEF IInv, Fits
    <2>3. ASSUME NEW f \in DOMAIN finds
          PROVE  /\ finds[f].request \in 0..Len(calls)
                 /\ finds[f].timer \in BOOLEAN /\ finds[f].answers \in Nat
                 /\ finds[f].stub \in {Error} \cup 0..Len(finds)
      <3>1. finds[f].timer \in BOOLEAN /\ finds[f].answers \in Nat
        <4>1. finds[f] \in Finds  BY DEF SInv
        <4> QED BY <4>1 DEF Finds
      <3>2. finds[f].request \in DOMAIN calls \/ finds[f].request = 0
        BY DEF SInv, OwnRequests, Joined
      <3>3. finds[f].stub \in {NoStub, Error} \cup DOMAIN finds
        BY DEF SInv, OneStub, StubsOfFinds
      <3>4. finds[f].request \in 0..Len(calls)  BY <2>2, <3>2
      <3>5. finds[f].stub \in {Error} \cup 0..Len(finds)  BY <2>1, <3>3 DEF NoStub
      <3> QED BY <3>1, <3>4, <3>5
    <2>4. stub \in 0..Len(finds) /\ released \subseteq DOMAIN finds /\ searching \in BOOLEAN
      BY <2>1 DEF StubsOfFinds, SInv, NoStub
    <2> QED BY <2>3, <2>4 DEF ObjectsTypeOK
  <1>3. ObjectsSpec => []IInv /\ []TypeOK  BY RequestsOfObjects, Invariance, TypeCorrect, PTL
  <1> QED BY <1>1, <1>2, <1>3, StubsStep, SearchesInvariance, PTL DEF ObjectsSpec
=============================================================================
