--------------------------- MODULE ClientRequests ---------------------------
(***************************************************************************)
(* The requests of one client connection (ClientContext, Client.cpp): each  *)
(* gets a request number and an entry in outstanding_requests, and is       *)
(* answered by the reply with its number, its timer, a failed send, the     *)
(* connection test, or the closing of the connection.  The connection and   *)
(* the service are external: replies come in any order or not at all, and   *)
(* the connection may be lost at any time.                                  *)
(*                                                                          *)
(* A handler may call back into the context.  Each action removes the       *)
(* entries it answers before it calls their handlers and changes nothing    *)
(* afterwards, so such a call is an action that follows at once.            *)
(***************************************************************************)
EXTENDS Integers, Sequences, FiniteSets

CONSTANTS NumRequests,   \* request numbers are 0 .. NumRequests-1 (2^32 - 1 in the code)
          MaxCalls       \* bound: calls of AsyncProcessRequest and AsyncClose

ASSUME BoundsAssumption == NumRequests \in Nat /\ NumRequests >= 1 /\ MaxCalls \in Nat

VARIABLES
    m_Connected,
    link,                   \* external: the transport connection is alive
    request_number,
    outstanding_requests,   \* request number -> call
    connection_test_timer,  \* TRUE: running, every 50 ms
    posted_close,           \* calls whose AsyncClose1 is posted to the event loop
    at_service, replies,    \* external: messages, <<request number, call>>
    calls,                  \* history: every call and what became of it
    client_closed           \* history: ClientClosed events

vars == <<m_Connected, link, request_number, outstanding_requests, connection_test_timer,
          posted_close, at_service, replies, calls, client_closed>>

RequestNumbers == 0..(NumRequests - 1)

\* threw: the caller got an exception.  answers: how often its handler was
\* called; answer: with the reply to which call, or with an error.  dropped: its
\* reply was an error that could not be decoded, and the handler was not called.
NoAnswer == 0
Error == -1
NewCall(kind, finite) ==
    [kind |-> kind, finite |-> finite, threw |-> FALSE, ignored |-> FALSE,
     answers |-> 0, answer |-> NoAnswer, dropped |-> FALSE]

Init == /\ m_Connected = TRUE /\ link = TRUE
        /\ request_number = 0
        /\ outstanding_requests = [n \in {} |-> 0]
        /\ connection_test_timer = FALSE
        /\ posted_close = {}
        /\ at_service = {} /\ replies = {}
        /\ calls = <<>>
        /\ client_closed = 0

Outstanding == {outstanding_requests[n] : n \in DOMAIN outstanding_requests}
Closes == {c \in Outstanding : calls[c].kind = "close"}
Dropped == {c \in DOMAIN calls : calls[c].dropped}

-----------------------------------------------------------------------------
(* AsyncProcessRequest                                                     *)

\* Mutant: the next number, also when a request with that number is waiting.
CountsOn(taken) == {(request_number + 1) % NumRequests}

\* Mutant: the number does not wrap.
NeverWraps(taken) == {request_number + 1}

\* The do-while loop: the next number that is not taken by an outstanding request
\* (one, or none when all are).
NextNumbers(taken) ==
    LET Taken(n) == n % NumRequests \in taken IN
    {(request_number + k) % NumRequests :
       k \in {l \in 1..NumRequests : /\ ~Taken(request_number + l)
                                     /\ \A j \in 1..(l - 1) : Taken(request_number + j)}}

\* Bound: a number does not come round while a message with it is on its way.
InWindow(n) == \A m \in at_service \cup replies : m[1] # n

\* Mutant: the test is not started.
NoConnectionTest == connection_test_timer

StartConnectionTest == TRUE

\* The entry is made first, then the message is sent.  The caller gets an
\* exception if that throws, and the entry stays.  outstanding are the entries
\* there are already, made the calls.
Process(call, outstanding, made) ==
    \E n \in NextNumbers(DOMAIN outstanding), sent \in BOOLEAN :
      /\ InWindow(n)
      /\ sent => link
      /\ sent \/ ~link \/ call.kind = "request"   \* too large, for one
      /\ LET c == Len(made) + 1
         IN  /\ request_number' = n
             /\ outstanding_requests' =
                  [i \in DOMAIN outstanding \cup {n} |-> IF i = n THEN c ELSE outstanding[i]]
             /\ connection_test_timer' = StartConnectionTest
             /\ calls' = Append(made, [call EXCEPT !.threw = ~sent])
             /\ at_service' = IF sent THEN at_service \cup {<<n, c>>} ELSE at_service
             /\ IF call.kind = "close" /\ ~sent
                THEN /\ m_Connected' = FALSE
                     /\ posted_close' = posted_close \cup {c}
                ELSE UNCHANGED <<m_Connected, posted_close>>
      /\ UNCHANGED <<link, client_closed>>

\* The call has no effect but on the caller.
Refuse(call) ==
    /\ calls' = Append(calls, call)
    /\ UNCHANGED <<m_Connected, link, request_number, outstanding_requests,
                   connection_test_timer, posted_close, at_service, replies, client_closed>>

AsyncProcessRequest ==
    \E finite \in BOOLEAN :
      LET call == NewCall("request", finite)
      IN  /\ Len(calls) < MaxCalls
          /\ \/ m_Connected /\ Process(call, outstanding_requests, calls) /\ UNCHANGED replies
             \/ ~m_Connected /\ Refuse([call EXCEPT !.threw = TRUE])

\* AsyncClose, by the user or when the service says that it is gone
\* (ServiceClosed, InvalidEndpoint): a request with a timeout of 500 ms.
AsyncClose ==
    LET call == NewCall("close", TRUE)
    IN  /\ Len(calls) < MaxCalls
        /\ \/ m_Connected /\ Process(call, outstanding_requests, calls) /\ UNCHANGED replies
           \/ ~m_Connected /\ Refuse([call EXCEPT !.ignored = TRUE])

-----------------------------------------------------------------------------
(* The ways in which a request is answered.                                *)

Answered(c, answer) == [calls[c] EXCEPT !.answers = @ + 1, !.answer = answer]

\* AsyncClose1, the handler of a close, answers all that is outstanding.
CompletedWith(n) ==
    IF outstanding_requests[n] \in Closes THEN Outstanding ELSE {outstanding_requests[n]}

Closing(n) == outstanding_requests[n] \in Closes

\* The request with number n is answered, and what its handler then does.
Complete(n, answer) ==
    LET c       == outstanding_requests[n]
        closing == Closing(n)
    IN  /\ calls' = [d \in DOMAIN calls |->
                       IF d = c THEN Answered(c, answer)
                       ELSE IF d \in CompletedWith(n) THEN Answered(d, Error) ELSE calls[d]]
        /\ outstanding_requests' =
             [i \in IF closing THEN {} ELSE DOMAIN outstanding_requests \ {n} |->
                outstanding_requests[i]]
        /\ m_Connected' = (m_Connected /\ ~closing)
        /\ client_closed' = client_closed + (IF closing THEN Cardinality(Closes) ELSE 0)
        /\ UNCHANGED <<link, request_number, posted_close>>

\* MessageEntryToException or DownCastException throws, when the entry is gone.
Drop(n) ==
    /\ outstanding_requests' =
         [i \in DOMAIN outstanding_requests \ {n} |-> outstanding_requests[i]]
    /\ calls' = [calls EXCEPT ![outstanding_requests[n]].dropped = TRUE]
    /\ UNCHANGED <<m_Connected, link, request_number, posted_close, client_closed>>

\* Mutant: replies go to the entries in any order.
AnyEntry(m) == DOMAIN outstanding_requests

EntryFor(m) == {m[1]} \cap DOMAIN outstanding_requests

\* MessageEntryReceived: the test is stopped when nothing is outstanding.
ReceiveReply ==
    \E m \in replies :
      /\ replies' = replies \ {m}
      /\ \/ /\ m_Connected
            /\ \E n \in EntryFor(m) : Complete(n, m[2]) \/ Drop(n)
            /\ connection_test_timer' =
                 (connection_test_timer /\ DOMAIN outstanding_requests' # {})
         \/ /\ ~m_Connected \/ EntryFor(m) = {}
            /\ UNCHANGED <<m_Connected, link, request_number, outstanding_requests,
                           connection_test_timer, posted_close, calls, client_closed>>
      /\ UNCHANGED at_service

\* A reply whose handler makes the next request of a chain: AsyncFindObjRef1, which
\* asks for the definition of the type, and AsyncPullServiceDefinitionAndImports1.
ReplyAsksAgain(m) ==
    LET out == outstanding_requests IN
    /\ m_Connected /\ m[1] \in DOMAIN out /\ calls[out[m[1]]].kind = "request"
    /\ Len(calls) < MaxCalls
    /\ replies' = replies \ {m}
    /\ Process(NewCall("request", TRUE), [n \in DOMAIN out \ {m[1]} |-> out[n]],
               [calls EXCEPT ![out[m[1]]] = Answered(out[m[1]], m[2])])

\* AsyncProcessRequest_timeout.  The timer of a request that was answered in
\* another way finds no entry with its number.
RequestTimeout ==
    \E n \in DOMAIN outstanding_requests :
      /\ calls[outstanding_requests[n]].finite
      /\ Complete(n, Error)
      /\ connection_test_timer' = (connection_test_timer /\ ~Closing(n))
      /\ UNCHANGED <<at_service, replies>>

\* AsyncProcessRequest_err: the transport could not write the message.
SendFails ==
    \E m \in at_service :
      /\ at_service' = at_service \ {m}
      /\ \/ \E n \in EntryFor(m) :
              /\ Complete(n, Error)
              /\ connection_test_timer' = (connection_test_timer /\ ~Closing(n))
         \/ /\ EntryFor(m) = {}
            /\ UNCHANGED <<m_Connected, link, request_number, outstanding_requests,
                           connection_test_timer, posted_close, calls, client_closed>>
      /\ UNCHANGED replies

\* Mutant: the entries stay.
AnswersOnly(answered, closes) ==
    /\ calls' = [d \in DOMAIN calls |-> IF d \in answered THEN Answered(d, Error) ELSE calls[d]]
    /\ client_closed' = client_closed + closes
    /\ UNCHANGED <<link, request_number, at_service, replies, outstanding_requests,
                   connection_test_timer>>

CompleteAll(answered, closes) ==
    /\ calls' = [d \in DOMAIN calls |-> IF d \in answered THEN Answered(d, Error) ELSE calls[d]]
    /\ outstanding_requests' = [n \in {} |-> 0]
    /\ connection_test_timer' = FALSE
    /\ client_closed' = client_closed + closes
    /\ UNCHANGED <<link, request_number, at_service, replies>>

\* connection_test when CheckConnection throws, else it does nothing.  It also
\* runs once after it was stopped, which is then one more test.
ConnectionTest ==
    /\ connection_test_timer /\ ~link
    /\ CompleteAll(Outstanding, Cardinality(Closes))
    /\ m_Connected' = (m_Connected /\ Closes = {})
    /\ UNCHANGED posted_close

\* AsyncClose1 as AsyncClose posted it.  If the entry of the close itself is
\* still outstanding its handler, another AsyncClose1, runs first.
PostedClose ==
    \E c \in posted_close :
      /\ posted_close' = posted_close \ {c}
      /\ m_Connected' = FALSE
      /\ calls' = [d \in DOMAIN calls |->
                     LET times == (IF d = c THEN 1 ELSE 0) + (IF d \in Outstanding THEN 1 ELSE 0)
                     IN  IF times = 0 THEN calls[d]
                         ELSE [calls[d] EXCEPT !.answers = @ + times, !.answer = Error]]
      /\ outstanding_requests' = [n \in {} |-> 0]
      /\ connection_test_timer' = FALSE
      /\ client_closed' = client_closed + 1 + Cardinality(Closes)
      /\ UNCHANGED <<link, request_number, at_service, replies>>

-----------------------------------------------------------------------------
(* External.                                                               *)

ServiceReplies ==
    /\ link
    /\ \E m \in at_service :
         /\ at_service' = at_service \ {m}
         /\ replies' = replies \cup {m}
    /\ UNCHANGED <<m_Connected, link, request_number, outstanding_requests,
                   connection_test_timer, posted_close, calls, client_closed>>

LinkLost ==
    /\ link /\ link' = FALSE
    /\ at_service' = {} /\ replies' = {}
    /\ UNCHANGED <<m_Connected, request_number, outstanding_requests,
                   connection_test_timer, posted_close, calls, client_closed>>

Next == \/ AsyncProcessRequest \/ AsyncClose
        \/ ReceiveReply \/ (\E m \in replies : ReplyAsksAgain(m))
        \/ RequestTimeout \/ SendFails \/ ConnectionTest \/ PostedClose
        \/ ServiceReplies \/ LinkLost

Spec == Init /\ [][Next]_vars

-----------------------------------------------------------------------------
\* Every variable has its type: request numbers stay in range when they wrap, and
\* an entry belongs to a call that was made (request_number, outstanding_requests).
TypeOK ==
    /\ m_Connected \in BOOLEAN /\ link \in BOOLEAN /\ connection_test_timer \in BOOLEAN
    /\ request_number \in RequestNumbers
    /\ DOMAIN outstanding_requests \subseteq RequestNumbers
    /\ Outstanding \subseteq DOMAIN calls /\ posted_close \subseteq DOMAIN calls
    /\ at_service \cup replies \subseteq RequestNumbers \X DOMAIN calls
    /\ \A c \in DOMAIN calls : /\ calls[c].kind \in {"request", "close"}
                               /\ calls[c].answers \in Nat
                               /\ calls[c].answer \in DOMAIN calls \cup {NoAnswer, Error}
    /\ client_closed \in Nat

Sent(c) == ~calls[c].threw /\ ~calls[c].ignored

\* A request that was sent is outstanding, once, until its handler is called,
\* once, whichever of the reply, the timer, the send error, the connection test
\* and the closing comes first (outstanding_requests).  The exception: nobody is
\* told of an error reply that cannot be decoded.
OutstandingUntilAnswered ==
    /\ \A c \in DOMAIN calls :
         Sent(c) => \/ calls[c].answers = 0 /\ c \in Outstanding \ Dropped
                    \/ calls[c].answers = 0 /\ c \in Dropped \ Outstanding
                    \/ calls[c].answers = 1 /\ c \notin Outstanding \cup Dropped
    /\ \A i, j \in DOMAIN outstanding_requests :
         outstanding_requests[i] = outstanding_requests[j] => i = j

\* A handler that gets a reply gets the reply to its own request, also when the
\* request number has come round and replies are late (RequestID).
AnswerIsOwn ==
    \A c \in DOMAIN calls : calls[c].answer \in {NoAnswer, Error, c}

\* While a request is outstanding the connection is tested, so that a request
\* without a timeout does not wait for a lost connection (connection_test_timer).
TestedWhileOutstanding ==
    DOMAIN outstanding_requests # {} => connection_test_timer

\* When the client was closed nothing is left that could call a handler, but a
\* close whose own request could not be sent (AsyncClose1).
ClosedIsFinal ==
    client_closed > 0 =>
      ~m_Connected /\ Outstanding = {} /\ \A c \in posted_close : calls[c].threw

\* The handler of a request that was sent with a timeout, or over a connection
\* that is lost, is called, unless its reply was dropped.
EveryRequestAnswered ==
    \A c \in 1..MaxCalls :
      (c \in DOMAIN calls /\ Sent(c) /\ (calls[c].finite \/ ~link))
        ~> (c \in DOMAIN calls /\ (calls[c].answers = 1 \/ calls[c].dropped))
=============================================================================
