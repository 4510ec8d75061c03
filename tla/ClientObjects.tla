--------------------------- MODULE ClientObjects ---------------------------
(***************************************************************************)
(* The search of a client for an object (AsyncFindObjRef, Client.cpp) over  *)
(* its requests.  A search asks for the type of the object, then perhaps    *)
(* for definitions of the type, and makes a stub; it has a timer of its     *)
(* own, from the start, while each request has its timeout from when it is  *)
(* made.  A search of a path that is being searched joins that search.  All *)
(* searches here are of one path: those of others do not meet them.         *)
(*                                                                          *)
(* The handlers are called in the step that decides their answer.  The code *)
(* posts some of them; nothing here depends on what they do.                *)
(***************************************************************************)
EXTENDS ClientRequests

CONSTANT MaxFinds       \* bound on the calls of AsyncFindObjRef

ASSUME FindsAssumption == MaxFinds \in Nat

VARIABLES
    stub,       \* the stub at the path in stubs, named for the search that made it; 0: none
    searching,  \* the path is in active_stub_searches
    finds,      \* every call of AsyncFindObjRef
    released    \* history: the stubs that were closed

objectVars == <<stub, searching, finds, released>>
allVars == <<vars, objectVars>>

NoStub == 0

\* request: the one that is or was last outstanding for the search, 0 for a call
\* that joined.  timer: its async_timeout_wrapper runs a timer.  answers: how often
\* the handler was called; stub: with what, an error perhaps.
NewFind(request, timer) == [request |-> request, timer |-> timer, answers |-> 0, stub |-> NoStub]
Cached == [NewFind(0, FALSE) EXCEPT !.answers = 1, !.stub = stub]

Joined(f) == finds[f].request = 0

ObjectsInit == /\ Init
               /\ stub = NoStub /\ searching = FALSE
               /\ finds = <<>> /\ released = {}

-----------------------------------------------------------------------------
\* The path is entered only when the request was sent, and the timer started.
Search ==
    /\ Len(calls) < MaxCalls
    /\ \E finite \in BOOLEAN :
         /\ Process(NewCall("request", finite), outstanding_requests, calls)
         /\ LET sent == ~calls'[Len(calls) + 1].threw IN
            /\ finds' = Append(finds, NewFind(Len(calls) + 1, sent /\ finite))
            /\ searching' = sent
    /\ UNCHANGED <<replies, stub, released>>

\* The timeout of a call that joins is not used.
AsyncFindObjRef ==
    /\ m_Connected /\ Len(finds) < MaxFinds
    /\ \/ /\ stub # NoStub /\ finds' = Append(finds, Cached)
          /\ UNCHANGED <<vars, stub, searching, released>>
       \/ /\ stub = NoStub /\ searching /\ finds' = Append(finds, NewFind(0, FALSE))
          /\ UNCHANGED <<vars, stub, searching, released>>
       \/ /\ stub = NoStub /\ ~searching /\ Search

\* Mutant: those that joined are forgotten.
OnlyTheSearch(ended) == ended

\* Searches that end take along all that joined, whichever search it was.
Answering(ended) ==
    ended \cup (IF ended = {} THEN {} ELSE {f \in DOMAIN finds : Joined(f)})

\* Mutant: the wrapper does not remember that it called the handler.
EveryTime(f) == TRUE

\* async_timeout_wrapper::handled
Unanswered(f) == finds[f].answers = 0

\* AsyncFindObjRef3, of the searches that ended with this stub or an error.
AsyncFindObjRef3(ended, answer) ==
    /\ searching' = (searching /\ ended = {})
    /\ finds' = [f \in DOMAIN finds |->
                   IF f \in Answering(ended) /\ Unanswered(f)
                   THEN [finds[f] EXCEPT !.answers = @ + 1, !.stub = answer, !.timer = FALSE]
                   ELSE finds[f]]

\* Mutant: the search that ends last puts its own stub into the table.
LastStub(f) == f

\* A stub that was made by another search in the meantime is taken.
StubOf(f) == IF stub = NoStub THEN f ELSE stub

\* AsyncFindObjRef2
CreateStub(f) ==
    /\ stub' = StubOf(f)
    /\ AsyncFindObjRef3({f}, StubOf(f))
    /\ UNCHANGED released

-----------------------------------------------------------------------------
(* What becomes of the searches when a request is answered.                *)

JustAnswered == {c \in DOMAIN calls : calls'[c].answers > calls[c].answers}
Ended == {f \in DOMAIN finds : finds[f].request \in JustAnswered}

Replied(f) == calls'[finds[f].request].answer = finds[f].request

\* AsyncClose1 closes the stubs after it called the handlers.
CloseStubs ==
    IF client_closed' > client_closed
    THEN stub' = NoStub /\ released' = released \cup ({stub} \ {NoStub})
    ELSE UNCHANGED <<stub, released>>

\* An error, a reply that is no good, or one after which a definition must be
\* pulled without a timeout: the conversion of the timeout throws.
SearchesFail == AsyncFindObjRef3(Ended, Error) /\ CloseStubs

SearchSucceeds == \E f \in Ended : Replied(f) /\ CreateStub(f)

RequestsAnswered ==
    /\ ReceiveReply \/ RequestTimeout \/ SendFails \/ ConnectionTest \/ PostedClose
    /\ SearchesFail \/ SearchSucceeds

\* The next definition is pulled; if that throws the search has failed.
PullDefinition ==
    \E f \in DOMAIN finds :
      /\ ~Joined(f) /\ calls[finds[f].request].finite
      /\ \E m \in replies : m[2] = finds[f].request /\ ReplyAsksAgain(m)
      /\ LET c == Len(calls) + 1 IN
         \/ /\ ~calls'[c].threw
            /\ finds' = [finds EXCEPT ![f].request = c]
            /\ UNCHANGED searching
         \/ /\ calls'[c].threw
            /\ searching' = FALSE
            /\ finds' = [g \in DOMAIN finds |->
                 LET find == IF g = f THEN [finds[f] EXCEPT !.request = c] ELSE finds[g] IN
                 IF g \in Answering({f}) /\ Unanswered(g)
                 THEN [find EXCEPT !.answers = @ + 1, !.stub = Error, !.timer = FALSE]
                 ELSE find]
      /\ UNCHANGED <<stub, released>>

\* The timer of a search; its request goes on.
SearchTimeout ==
    /\ \E f \in DOMAIN finds : finds[f].timer /\ AsyncFindObjRef3({f}, Error)
    /\ UNCHANGED <<vars, stub, released>>

\* The service has released the object (ServicePathReleasedReq).
ServicePathReleased ==
    /\ m_Connected /\ stub # NoStub
    /\ stub' = NoStub /\ released' = released \cup {stub}
    /\ UNCHANGED <<vars, searching, finds>>

ObjectsNext ==
    \/ AsyncFindObjRef \/ RequestsAnswered \/ PullDefinition
    \/ SearchTimeout \/ ServicePathReleased
    \/ /\ AsyncProcessRequest \/ AsyncClose \/ ServiceReplies \/ LinkLost
       /\ UNCHANGED objectVars

ObjectsSpec == ObjectsInit /\ [][ObjectsNext]_allVars

\* The event loop runs the timers that are due and what was posted.
ObjectsFairSpec ==
    /\ ObjectsSpec
    /\ WF_allVars(SearchTimeout)
    /\ WF_allVars(RequestTimeout /\ (SearchesFail \/ SearchSucceeds))
    /\ WF_allVars(ConnectionTest /\ (SearchesFail \/ SearchSucceeds))
    /\ WF_allVars(PostedClose /\ (SearchesFail \/ SearchSucceeds))

-----------------------------------------------------------------------------
\* Every variable has its type: request numbers stay in range when they wrap
\* (request_number), and a search waits for a request that was made.
ObjectsTypeOK ==
    /\ TypeOK
    /\ stub \in 0..Len(finds) /\ searching \in BOOLEAN
    /\ released \subseteq DOMAIN finds
    /\ \A f \in DOMAIN finds :
         /\ finds[f].request \in 0..Len(calls)
         /\ finds[f].timer \in BOOLEAN /\ finds[f].answers \in Nat
         /\ finds[f].stub \in {Error} \cup 0..Len(finds)

\* A request whose reply was dropped is never over: its search waits for its timer.
Awaited == Outstanding \cup Dropped

InProgress == {f \in DOMAIN finds : ~Joined(f) /\ finds[f].request \in Awaited}

\* Every call is answered once, and until then it has a search that will answer
\* it: its own, whose request is outstanding, or the one that it joined, which is
\* still known to be active, however searches of the path overlap
\* (active_stub_searches, active_stub_searches_handlers).  The exception, in
\* InProgress, is a search whose reply was dropped.
WaitingIsSearched ==
    /\ \A f \in DOMAIN finds :
         \/ finds[f].answers = 1
         \/ finds[f].answers = 0 /\ f \in InProgress
         \/ finds[f].answers = 0 /\ Joined(f) /\ searching
    /\ searching => \E f \in InProgress : Unanswered(f)

\* Whoever got a stub that was not closed since got the one in the table, so that
\* there are never two live stubs of one object (stubs).
OneStub ==
    \A f \in DOMAIN finds : finds[f].stub \in {NoStub, Error, stub} \cup released

NoInfiniteSearch == \A f \in InProgress : calls[finds[f].request].finite

\* A call is answered when no search in progress has an infinite timeout or the
\* connection is lost, also if it joined a search whose service never replies, or
\* one whose reply was dropped: but only a timer ends that.
EveryFindAnswered ==
    \A f \in 1..MaxFinds :
      (f \in DOMAIN finds /\ (NoInfiniteSearch \/ (~link /\ Dropped = {})))
        ~> (f \in DOMAIN finds /\ finds[f].answers >= 1)
=============================================================================
