-------------------------- MODULE StreamConnection --------------------------
(***************************************************************************)
(* One client connection of the browser's WebSocket transport              *)
(* (BrowserWebSocketTransportConnection over ASIOStreamBaseTransport): it   *)
(* opens the socket, does the CreateConnection handshake, sends messages    *)
(* one at a time from a queue, and closes.  What the code posts is run by   *)
(* the event loop in any order.  The browser, the peer and the callers are  *)
(* external: the socket is lost at any time, and the browser tells later.   *)
(* Messages are named by the order in which they are accepted.              *)
(***************************************************************************)
EXTENDS Integers, Sequences, SequencesExt, FiniteSets

CONSTANT MaxSends   \* bound on the messages accepted

ASSUME MaxSendsAssumption == MaxSends \in Nat \ {0}

VARIABLES
    url_valid,              \* ParseConnectionURL accepts the URL, fixed
    server,                 \* never initialised: either value, fixed
    socket,                 \* the browser's view of the socket
    active_transports,      \* TRUE: the browser's callbacks find the connection
    active_connect_handler, \* TRUE: it is set
    registered,             \* TRUE: in TransportConnections
    closing, connected,
    streamop_waiting,       \* TRUE exactly while streamop_timer runs
    heartbeat_timer,        \* TRUE: running
    out,                    \* the sending half
    posted,                 \* posted to the event loop, not run yet
    messages,               \* history: the kinds of the messages accepted
    answers,                \* history: what each one's handler was called with
    wire,                   \* history: what reached the socket
    connect_answers         \* history: what the connect handler was called with

connecting == <<url_valid, server, socket, active_transports,
                active_connect_handler, registered, closing, connected,
                streamop_waiting, heartbeat_timer>>
histories == <<messages, answers, wire>>
vars == <<connecting, out, posted, histories, connect_answers>>

\* An "unwritable" message passes the checks of AsyncSendMessage, Write throws.
FromCallers == {"call", "packet", "unwritable"}
Internal == {"streamop", "test", "testret"}

Pieces(kind) == IF kind = "call" THEN 2 ELSE 1

NoMessage == 0

Answer(m, result) == [event |-> "answer", message |-> m, result |-> result]
AttachError == [event |-> "AsyncAttachStream1"]
PostedClose == [event |-> "Close"]
ConnectAnswer(result) == [event |-> "connect", result |-> result]

Init == /\ url_valid \in BOOLEAN /\ server \in BOOLEAN
        /\ socket = "none"
        /\ active_transports = FALSE /\ active_connect_handler = FALSE
        /\ registered = FALSE
        /\ closing = FALSE /\ connected = TRUE
        /\ streamop_waiting = FALSE /\ heartbeat_timer = FALSE
        /\ out = [sending |-> FALSE, queue |-> <<>>, writing |-> NoMessage, left |-> 0]
        /\ posted = {}
        /\ messages = <<>> /\ answers = <<>> /\ wire = <<>>
        /\ connect_answers = <<>>

-----------------------------------------------------------------------------
(* Sending.  A written piece is lost when the socket is.                   *)

async_write_some(m, piece) ==
    wire' = IF socket = "open" THEN Append(wire, <<m, piece>>) ELSE wire

BeginSendMessage(m, kind, queue) ==
    [sending |-> TRUE, queue |-> queue, writing |-> m, left |-> Pieces(kind) - 1]

Queued(kind) == {i \in DOMAIN out.queue : messages[out.queue[i]] = kind}

\* Mutant: the newer packet is dropped, not the older.
KeepsOlder(m, kind) ==
    IF kind = "packet" /\ Queued(kind) # {} THEN out.queue ELSE Append(out.queue, m)

\* Mutant: what is accepted last is sent first.
LastFirst(m, kind) == <<m>> \o out.queue

\* The queue with m: a newer packet of a wire takes the place of an older one.
Enqueued(m, kind) ==
    IF kind = "packet" /\ Queued(kind) # {}
    THEN [i \in DOMAIN out.queue |-> IF i \in Queued(kind) THEN m ELSE out.queue[i]]
    ELSE Append(out.queue, m)

Superseded(kind) == IF out.sending /\ kind = "packet"
                    THEN {Answer(out.queue[i], "ok") : i \in Queued(kind)}
                    ELSE {}

\* The sending half once a message is accepted.
Accepting(m, kind) ==
    IF out.sending THEN [out EXCEPT !.queue = Enqueued(m, kind)]
                   ELSE BeginSendMessage(m, kind, out.queue)

\* A second heartbeat is not queued behind a first; its handler is dropped.
AlreadyQueued(kind) == out.sending /\ kind = "test" /\ Queued(kind) # {}

Accepts(kind) == /\ connected
                 /\ Len(messages) < MaxSends
                 /\ ~AlreadyQueued(kind)
                 /\ ~(~out.sending /\ kind = "unwritable")

Accepted(kind) == LET m == Len(messages) + 1 IN
    /\ messages' = Append(messages, kind)
    /\ answers' = Append(answers, <<>>)
    /\ IF out.sending THEN UNCHANGED wire ELSE async_write_some(m, 1)

AsyncSendMessage(kind) ==
    /\ Accepts(kind)
    /\ Accepted(kind)
    /\ out' = Accepting(Len(messages) + 1, kind)
    /\ posted' = posted \cup Superseded(kind)
    /\ UNCHANGED <<connecting, connect_answers>>

Send == /\ registered /\ connect_answers = <<"ok">>
        /\ \E kind \in FromCallers : AsyncSendMessage(kind)

-----------------------------------------------------------------------------
(* Closing, with the sending half and the posted events as they are then.  *)

TakeConnectHandler == IF active_connect_handler
                      THEN Append(connect_answers, "error")
                      ELSE connect_answers

\* Mutant: what is queued is forgotten.
SilentFlush(o) == {}

FlushErrors(o) == {Answer(m, "error") : m \in ToSet(o.queue)}

\* Mutant: the handshake in progress is forgotten.
NoHandshakeError == {}

HandshakeError == IF streamop_waiting THEN {AttachError} ELSE {}

Close(o, p) ==
    /\ active_connect_handler' = FALSE
    /\ connect_answers' = TakeConnectHandler
    /\ \/ /\ closing
          /\ out' = o /\ posted' = p
          /\ UNCHANGED <<socket, registered, closing, connected,
                         streamop_waiting, heartbeat_timer>>
       \/ /\ ~closing
          /\ closing' = TRUE /\ connected' = FALSE
          /\ socket' = "lost"
          /\ registered' = FALSE
          /\ heartbeat_timer' = FALSE /\ streamop_waiting' = FALSE
          /\ out' = [o EXCEPT !.queue = <<>>]
          /\ posted' = p \cup FlushErrors(o) \cup HandshakeError
    /\ UNCHANGED <<url_valid, server>>

CloseTransportConnection == /\ registered
                            /\ Close(out, posted)
                            /\ UNCHANGED <<active_transports, histories>>

\* A message that cannot be read, or whose dispatch throws.
ReceiveFails == /\ socket = "open" /\ active_transports /\ url_valid
                /\ Close(out, posted)
                /\ UNCHANGED <<active_transports, histories>>

\* The error or close event, or a text message.
WebsocketEnds == /\ active_transports /\ socket \in {"open", "lost"}
                 /\ active_transports' = FALSE
                 /\ Close(out, posted)
                 /\ UNCHANGED histories

\* The browser loses the socket; its event comes later.
SocketLost == /\ socket \in {"connecting", "open"}
              /\ socket' = "lost"
              /\ UNCHANGED <<url_valid, server, active_transports,
                             active_connect_handler, registered, closing,
                             connected, streamop_waiting, heartbeat_timer, out,
                             posted, histories, connect_answers>>

-----------------------------------------------------------------------------
(* Connecting.                                                             *)

AsyncConnect == /\ socket = "none"
                /\ socket' = "connecting"
                /\ active_transports' = TRUE /\ active_connect_handler' = TRUE
                /\ UNCHANGED <<url_valid, server, registered, closing, connected,
                               streamop_waiting, heartbeat_timer, out, posted,
                               histories, connect_answers>>

\* AsyncAttachStream as a client: the request is the first message.
BeginStreamOp == /\ streamop_waiting' = TRUE
                 /\ messages' = <<"streamop">> /\ answers' = <<<<>>>>
                 /\ wire' = <<<<1, 1>>>>
                 /\ out' = BeginSendMessage(1, "streamop", <<>>)
                 /\ UNCHANGED <<heartbeat_timer, posted>>

\* AsyncAttachStream as a server: nothing is asked of the peer.
AttachAsServer == /\ heartbeat_timer' = TRUE
                  /\ posted' = posted \cup {ConnectAnswer("ok")}
                  /\ UNCHANGED <<streamop_waiting, out, histories>>

\* The open event: AsyncConnect1.  An invalid URL loses the handler.
WebsocketOpen == /\ socket = "connecting"
                 /\ socket' = "open"
                 /\ active_connect_handler' = FALSE
                 /\ registered' = url_valid
                 /\ \/ /\ ~url_valid
                       /\ UNCHANGED <<streamop_waiting, heartbeat_timer, out,
                                      posted, histories>>
                    \/ url_valid /\ server /\ AttachAsServer
                    \/ url_valid /\ ~server /\ BeginStreamOp
                 /\ UNCHANGED <<url_valid, server, active_transports, closing,
                                connected, connect_answers>>

\* AsyncAttachStream1 with an error.
AttachFailed == {PostedClose, ConnectAnswer("error")}

\* The peer's answer to CreateConnection, taken only while it is waited for.
StreamOpMessageReceived ==
    /\ active_transports /\ streamop_waiting
    /\ <<1, 1>> \in ToSet(wire)
    /\ streamop_waiting' = FALSE
    /\ \/ /\ heartbeat_timer' = TRUE
          /\ posted' = posted \cup {ConnectAnswer("ok")}
       \/ /\ posted' = posted \cup AttachFailed
          /\ UNCHANGED heartbeat_timer
    /\ UNCHANGED <<url_valid, server, socket, active_transports,
                   active_connect_handler, registered, closing, connected, out,
                   histories, connect_answers>>

StreamOp_timercallback ==
    /\ streamop_waiting
    /\ streamop_waiting' = FALSE
    /\ posted' = posted \cup {AttachError}
    /\ UNCHANGED <<url_valid, server, socket, active_transports,
                   active_connect_handler, registered, closing, connected,
                   heartbeat_timer, out, histories, connect_answers>>

-----------------------------------------------------------------------------
(* The end of a write, heartbeats, and what was posted.                    *)

Called(m, result) == [answers EXCEPT ![m] = Append(@, result)]

\* Mutant: the handler of a message is called at the end of each write.
CalledEachWrite == answers' = Called(out.writing, "ok")

NotCalled == UNCHANGED answers

\* Mutant: the end of a message is missed.
WritesPastTheEnd ==
    /\ out' = [out EXCEPT !.left = @ - 1]
    /\ NotCalled /\ UNCHANGED wire

WriteRest ==
    /\ out.left > 0
    /\ out' = [out EXCEPT !.left = @ - 1]
    /\ async_write_some(out.writing, Pieces(messages[out.writing]) - out.left + 1)
    /\ NotCalled

NothingQueued == out.queue = <<>> \/ ~connected

SendingDone ==
    /\ out.left = 0 /\ NothingQueued
    /\ out' = [out EXCEPT !.sending = FALSE, !.writing = NoMessage]
    /\ answers' = Called(out.writing, "ok")
    /\ UNCHANGED wire

BeginNext ==
    /\ out.left = 0 /\ ~NothingQueued
    /\ LET m == Head(out.queue) IN
           /\ messages[m] # "unwritable"
           /\ out' = BeginSendMessage(m, messages[m], Tail(out.queue))
           /\ async_write_some(m, 1)
    /\ answers' = Called(out.writing, "ok")

\* The next message cannot be written: sending stays TRUE, nothing is written.
NextThrows ==
    /\ out.left = 0 /\ ~NothingQueued
    /\ messages[Head(out.queue)] = "unwritable"
    /\ out' = [out EXCEPT !.queue = Tail(@), !.writing = NoMessage]
    /\ answers' = [Called(Head(out.queue), "error") EXCEPT
                     ![out.writing] = Append(@, "ok")]
    /\ UNCHANGED wire

EndSendMessage == /\ out.writing # NoMessage
                  /\ WriteRest \/ SendingDone \/ BeginNext \/ NextThrows
                  /\ UNCHANGED <<connecting, posted, messages, connect_answers>>

\* overdue: nothing was sent for a period; silent: nothing came for too long.
heartbeat_timer_func ==
    /\ heartbeat_timer
    /\ \E overdue, silent \in BOOLEAN :
        LET test == overdue /\ ~AlreadyQueued("test")
            o == IF test THEN Accepting(Len(messages) + 1, "test") ELSE out
        IN  /\ test => Accepts("test")
            /\ IF test THEN Accepted("test") ELSE UNCHANGED histories
            /\ IF silent
               THEN Close(o, posted) /\ UNCHANGED active_transports
               ELSE out' = o /\ UNCHANGED <<connecting, posted, connect_answers>>

\* The answer to a heartbeat of the peer.
PeerHeartbeat == /\ active_transports /\ registered
                 /\ AsyncSendMessage("testret")

RunAttachError ==
    /\ AttachError \in posted
    /\ posted' = (posted \ {AttachError}) \cup AttachFailed
    /\ UNCHANGED <<connecting, out, histories, connect_answers>>

RunClose == /\ PostedClose \in posted
            /\ Close(out, posted \ {PostedClose})
            /\ UNCHANGED <<active_transports, histories>>

RunConnectAnswer(result) ==
    /\ ConnectAnswer(result) \in posted
    /\ posted' = posted \ {ConnectAnswer(result)}
    /\ connect_answers' = Append(connect_answers, result)
    /\ UNCHANGED <<connecting, out, histories>>

\* The connection's own handlers close it when they are given an error.
RunAnswer(m, result) ==
    /\ Answer(m, result) \in posted
    /\ answers' = Called(m, result)
    /\ IF messages[m] \in Internal /\ result = "error"
       THEN /\ Close(out, posted \ {Answer(m, result)})
            /\ UNCHANGED active_transports
       ELSE /\ posted' = posted \ {Answer(m, result)}
            /\ UNCHANGED <<connecting, out, connect_answers>>
    /\ UNCHANGED <<messages, wire>>

RunPosted == \/ RunAttachError
             \/ RunClose
             \/ \E result \in {"ok", "error"} :
                    \/ RunConnectAnswer(result)
                    \/ \E m \in 1..MaxSends : RunAnswer(m, result)

Next == \/ AsyncConnect
        \/ WebsocketOpen
        \/ SocketLost
        \/ WebsocketEnds
        \/ StreamOpMessageReceived
        \/ StreamOp_timercallback
        \/ CloseTransportConnection
        \/ ReceiveFails
        \/ Send
        \/ EndSendMessage
        \/ heartbeat_timer_func
        \/ PeerHeartbeat
        \/ RunPosted

Spec == Init /\ [][Next]_vars

\* The event loop runs what was posted and what timers elapse; the browser
\* delivers its events.  Neither the peer nor a caller need do anything.
FairSpec == /\ Spec
            /\ WF_vars(EndSendMessage)
            /\ WF_vars(StreamOp_timercallback)
            /\ WF_vars(active_transports /\ socket = "lost" /\ WebsocketEnds)
            /\ WF_vars(RunAttachError) /\ WF_vars(RunClose)
            /\ \A result \in {"ok", "error"} :
                    /\ WF_vars(RunConnectAnswer(result))
                    /\ \A m \in 1..MaxSends : WF_vars(RunAnswer(m, result))

-----------------------------------------------------------------------------
Ids == 1..Len(messages)

\* What can be posted when these messages were accepted.
Events(ids) == {AttachError, PostedClose}
                 \cup {ConnectAnswer(r) : r \in {"ok", "error"}}
                 \cup {Answer(m, r) : m \in ids, r \in {"ok", "error"}}

\* Every variable has its type; what is queued and written was accepted.
TypeOK ==
    /\ socket \in {"none", "connecting", "open", "lost"}
    /\ {url_valid, server, active_transports, active_connect_handler, registered,
        closing, connected, streamop_waiting, heartbeat_timer} \subseteq BOOLEAN
    /\ messages \in Seq(FromCallers \cup Internal) /\ Len(messages) =< MaxSends
    /\ out \in [sending : BOOLEAN, queue : Seq(Ids),
                writing : Ids \cup {NoMessage}, left : {0, 1}]
    /\ posted \subseteq Events(Ids)
    /\ answers \in Seq(Seq({"ok", "error"})) /\ Len(answers) = Len(messages)
    /\ wire \in Seq(Ids \X {1, 2})
    /\ connect_answers \in Seq({"ok", "error"})

PostedAnswers(m) == {r \in {"ok", "error"} : Answer(m, r) \in posted}

CountOf(condition) == IF condition THEN 1 ELSE 0

\* The handler of every message accepted is in exactly one place: queued,
\* being written, posted, or called once.  So is the connect handler, from
\* AsyncConnect on: it waits for the socket, for the handshake or in the event
\* loop, or has been called once; only an invalid URL loses it.
AnsweredOnce ==
    /\ \A m \in Ids :
        Cardinality({i \in DOMAIN out.queue : out.queue[i] = m})
          + CountOf(out.writing = m) + Cardinality(PostedAnswers(m))
          + Len(answers[m]) = 1
    /\ url_valid /\ socket # "none" =>
        CountOf(active_connect_handler) + CountOf(streamop_waiting)
          + CountOf(AttachError \in posted)
          + Cardinality({r \in {"ok", "error"} : ConnectAnswer(r) \in posted})
          + Len(connect_answers) = 1

\* The handler of message m is in this place and in no other.
InPlace(m, place, o, events, called) ==
    /\ place = "queued" <=> m \in ToSet(o.queue)
    /\ place = "writing" <=> o.writing = m
    /\ \A r \in {"ok", "error"} : place = r <=> Answer(m, r) \in events
    /\ IF place = "called" THEN Len(called[m]) = 1 ELSE called[m] = <<>>

Places == {"queued", "writing", "ok", "error", "called"}

\* Every message has its handler in one place.
MessagePlaces(ids, o, events, called) ==
    \A m \in ids : \E place \in Places : InPlace(m, place, o, events, called)

\* The connect handler is in this place and in no other.
ConnectInPlace(place) ==
    /\ place = "socket" <=> active_connect_handler
    /\ place = "handshake" <=> streamop_waiting
    /\ place = "attach" <=> AttachError \in posted
    /\ \A r \in {"ok", "error"} : place = r <=> ConnectAnswer(r) \in posted
    /\ IF place = "called" THEN Len(connect_answers) = 1 ELSE connect_answers = <<>>

ConnectPlaces == {"socket", "handshake", "attach", "ok", "error", "called"}

\* Until the socket opens nothing was accepted, posted or answered.
Unopened ==
    socket \in {"none", "connecting"} =>
        /\ messages = <<>> /\ posted = {} /\ connect_answers = <<>>
        /\ ~streamop_waiting
        /\ active_connect_handler <=> socket = "connecting"

\* The connect handler is in one place.
ConnectPlaced == url_valid /\ socket # "none" =>
                   \E place \in ConnectPlaces : ConnectInPlace(place)

\* The strengthening of AnsweredOnce that every step keeps, with SendInv.
HandlersInv ==
    TypeOK /\ Unopened /\ ConnectPlaced /\ MessagePlaces(Ids, out, posted, answers)

Follows(i) == IF wire[i][2] > 1
              THEN i > 1 /\ wire[i - 1] = <<wire[i][1], wire[i][2] - 1>>
              ELSE i > 1 => wire[i - 1][2] = Pieces(messages[wire[i - 1][1]])

\* What reaches the socket is whole messages one after another (the last may be
\* cut short), each once, in the order they were accepted; only a packet of a
\* wire may come before older messages, never before an older packet.
WholeAndInOrder ==
    /\ \A i \in DOMAIN wire : Follows(i)
    /\ \A i, j \in DOMAIN wire : i < j =>
        /\ wire[i] # wire[j]
        /\ wire[i][1] > wire[j][1] =>
            messages[wire[i][1]] = "packet" /\ messages[wire[j][1]] # "packet"

\* Of messages of these kinds, a may be written before b.
MayPrecede(kinds, a, b) ==
    a # b /\ (a > b => kinds[a] = "packet" /\ kinds[b] # "packet")

SendTypes ==
    /\ messages \in Seq(FromCallers \cup Internal)
    /\ out \in [sending : BOOLEAN, queue : Seq(Nat), writing : Nat, left : {0, 1}]
    /\ wire \in Seq(Nat \X {1, 2})
    /\ \A q \in DOMAIN out.queue : out.queue[q] \in Ids
    /\ out.writing \in Ids \cup {NoMessage}
    /\ \A i \in DOMAIN wire : wire[i][1] \in Ids

\* Nothing is written before the socket is open.
NotOpened ==
    socket \in {"none", "connecting"} =>
        ~registered /\ ~heartbeat_timer /\ wire = <<>> /\ out.writing = NoMessage

\* A queue is kept only while sending, in the order of writing, one packet at most.
QueueFits ==
    /\ ~out.sending \/ ~connected => out.queue = <<>>
    /\ ~out.sending => out.writing = NoMessage
    /\ \A p, q \in DOMAIN out.queue : p < q =>
        /\ MayPrecede(messages, out.queue[p], out.queue[q])
        /\ ~(messages[out.queue[p]] = "packet" /\ messages[out.queue[q]] = "packet")

WireFits ==
    /\ \A i \in DOMAIN wire : Follows(i)
    /\ \A i, j \in DOMAIN wire : i < j =>
        \/ wire[i][1] = wire[j][1] /\ wire[i][2] < wire[j][2]
        \/ MayPrecede(messages, wire[i][1], wire[j][1])
    /\ \A i \in DOMAIN wire, q \in DOMAIN out.queue :
        MayPrecede(messages, wire[i][1], out.queue[q])

\* An open socket has all but the rest of the message being written.
LastWritten ==
    /\ out.writing # NoMessage => out.left < Pieces(messages[out.writing])
    /\ socket = "open" =>
        /\ out.writing # NoMessage =>
            /\ wire # <<>>
            /\ wire[Len(wire)] =
                 <<out.writing, Pieces(messages[out.writing]) - out.left>>
        /\ out.writing = NoMessage /\ wire # <<>> =>
            wire[Len(wire)][2] = Pieces(messages[wire[Len(wire)][1]])

\* The strengthening of WholeAndInOrder that every step keeps.
SendInv == SendTypes /\ NotOpened /\ QueueFits /\ WireFits /\ LastWritten

\* A packet whose sender was told it is sent and that never reaches an open
\* socket was dropped for a newer one, which is queued or written.
SupersededByNewer ==
    \A m \in Ids :
        messages[m] = "packet" /\ "ok" \in PostedAnswers(m) \cup ToSet(answers[m]) =>
            \/ socket = "lost"
            \/ <<m, 1>> \in ToSet(wire)
            \/ \E newer \in (m + 1)..Len(messages) :
                    /\ messages[newer] = "packet"
                    /\ \/ newer \in ToSet(out.queue)
                       \/ <<newer, 1>> \in ToSet(wire)

Answered(m) == m \in Ids /\ answers[m] # <<>>

\* Sending waits for a write that nobody does.
Stalled == out.sending /\ out.writing = NoMessage

\* Once its URL is accepted and its socket open, a connection answers the connect
\* handler, whether the peer answers or is silent and however it is closed.
HandshakeAnswered ==
    (socket = "open" /\ url_valid) ~> connect_answers # <<>>

\* The handler of every message accepted is called, unless sending stalls behind
\* a message that could not be written.
SendAnswered == \A m \in 1..MaxSends : m \in Ids ~> (Answered(m) \/ Stalled)

\* RobotRaconteurNode.h: the "handler is called after the message has been sent
\* by the transport", and if an error occurs it gets the exception.
SendCompletes == \A m \in 1..MaxSends : m \in Ids ~> Answered(m)
=============================================================================
