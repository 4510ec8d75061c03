----------------------- MODULE StreamConnection_proofs -----------------------
(***************************************************************************)
(* Proofs about StreamConnection for every MaxSends: what reaches the      *)
(* socket is whole messages in the order of sending; every handler is      *)
(* called once, and until then something is under way that will call it;   *)
(* only a newer packet drops a packet, and no message overtakes another.   *)
(***************************************************************************)
EXTENDS StreamConnection, SequenceTheorems, FiniteSetTheorems, TLAPS

\* A message is written in one or two pieces.
LEMMA PiecesOneOrTwo == ASSUME NEW kind PROVE Pieces(kind) \in {1, 2}
  BY DEF Pieces

\* The sending half, field by field.
LEMMA OutFields ==
  ASSUME SendTypes
  PROVE  /\ out.sending \in BOOLEAN /\ out.queue \in Seq(Nat)
         /\ out.writing \in Nat /\ out.left \in {0, 1}
         /\ out = [sending |-> out.sending, queue |-> out.queue,
                   writing |-> out.writing, left |-> out.left]
  BY DEF SendTypes

\* The queue with one more message.
LEMMA Appended ==
  ASSUME NEW c \in Seq(Nat), NEW n \in Nat, NEW e, e = Append(c, n)
  PROVE  /\ e \in Seq(Nat) /\ DOMAIN e = 1..(Len(c) + 1)
         /\ e[Len(c) + 1] = n /\ \A q \in 1..Len(c) : e[q] = c[q]
  OBVIOUS

-----------------------------------------------------------------------------
(* What a step does to the wire.                                           *)

\* One more piece keeps the wire whole and in order, if what is before it may be.
LEMMA PieceWritten ==
  ASSUME SendTypes, WireFits, NEW m \in Nat, NEW piece \in {1, 2},
         wire' = Append(wire, <<m, piece>>),
         \A i \in Ids : messages'[i] = messages[i],
         \A i \in DOMAIN wire : \/ wire[i][1] = m /\ wire[i][2] < piece
                                \/ MayPrecede(messages', wire[i][1], m),
         IF piece = 2
         THEN wire # <<>> /\ wire[Len(wire)] = <<m, 1>>
         ELSE wire # <<>> => wire[Len(wire)][2] = Pieces(messages[wire[Len(wire)][1]]),
         \A q \in DOMAIN out'.queue : /\ MayPrecede(messages', m, out'.queue[q])
                                      /\ \A i \in DOMAIN wire :
                                           MayPrecede(messages', wire[i][1], out'.queue[q])
  PROVE  /\ WireFits'
         /\ wire' \in Seq(Nat \X {1, 2}) /\ wire' # <<>>
         /\ wire'[Len(wire')] = <<m, piece>>
         /\ \A i \in DOMAIN wire' : wire'[i][1] \in Ids \cup {m}
  <1>0. PICK L : L = Len(wire)  OBVIOUS
  <1>1. wire \in Seq(Nat \X {1, 2}) /\ \A i \in DOMAIN wire : wire[i][1] \in Ids
    BY DEF SendTypes
  <1>2. /\ L \in Nat /\ DOMAIN wire = 1..L
        /\ wire' \in Seq(Nat \X {1, 2}) /\ Len(wire') = L + 1 /\ DOMAIN wire' = 1..(L + 1)
        /\ \A i \in 1..L : wire'[i] = wire[i]
        /\ wire'[L + 1] = <<m, piece>>
    BY <1>0, <1>1
  <1>00. L = Len(wire) /\ (wire # <<>> <=> L # 0)  BY <1>0, <1>1
  <1>3. \A i \in DOMAIN wire' : Follows(i)'
    <2> TAKE i \in DOMAIN wire'
    <2>1. CASE i \in 1..L
      <3>1. Follows(i)  BY <1>2, <2>1 DEF WireFits
      <3>2. i > 1 => i - 1 \in 1..L /\ wire[i - 1][1] \in Ids  BY <1>1, <1>2, <2>1
      <3>3. wire'[i] = wire[i] /\ (i > 1 => wire'[i - 1] = wire[i - 1])
        BY <1>2, <2>1, <3>2
      <3> QED BY <3>1, <3>2, <3>3 DEF Follows
    <2>2. CASE i = L + 1
      <3>1. wire'[i] = <<m, piece>> /\ wire'[i][2] = piece /\ wire'[i][1] = m
            /\ i - 1 = L /\ (i > 1 <=> L # 0)
        BY <1>2, <2>2
      <3>2. L # 0 => wire'[L] = wire[L] /\ wire[L][1] \in Ids  BY <1>1, <1>2
      <3>3. CASE piece = 2  BY <1>00, <3>1, <3>2, <3>3 DEF Follows
      <3>4. CASE piece = 1  BY <1>00, <3>1, <3>2, <3>4 DEF Follows
      <3> QED BY <3>3, <3>4
    <2> QED BY <1>2, <2>1, <2>2
  <1>4. ASSUME NEW i \in DOMAIN wire', NEW j \in DOMAIN wire', i < j
        PROVE  \/ wire'[i][1] = wire'[j][1] /\ wire'[i][2] < wire'[j][2]
               \/ MayPrecede(messages', wire'[i][1], wire'[j][1])
    <2>1. i \in 1..L /\ wire'[i] = wire[i] /\ wire[i][1] \in Ids  BY <1>1, <1>2, <1>4
    <2>2. CASE j = L + 1
      <3>1. wire'[j][1] = m /\ wire'[j][2] = piece  BY <1>2, <2>2
      <3> QED BY <1>2, <2>1, <3>1
    <2>3. CASE j \in 1..L
      <3>1. wire'[j] = wire[j] /\ wire[j][1] \in Ids  BY <1>1, <1>2, <2>3
      <3>2. \/ wire[i][1] = wire[j][1] /\ wire[i][2] < wire[j][2]
            \/ MayPrecede(messages, wire[i][1], wire[j][1])
        BY <1>2, <1>4, <2>1, <2>3 DEF WireFits
      <3> QED BY <2>1, <3>1, <3>2 DEF MayPrecede
    <2> QED BY <1>2, <2>2, <2>3
  <1>5. ASSUME NEW i \in DOMAIN wire', NEW q \in DOMAIN out'.queue
        PROVE  MayPrecede(messages', wire'[i][1], out'.queue[q])
    <2>1. CASE i \in 1..L
      <3>1. wire'[i][1] = wire[i][1] /\ i \in DOMAIN wire  BY <1>2, <2>1
      <3> QED BY <3>1
    <2>2. CASE i = L + 1
      <3>1. wire'[i][1] = m  BY <1>2, <2>2
      <3> QED BY <3>1
    <2> QED BY <1>2, <2>1, <2>2
  <1>6. WireFits'  BY <1>3, <1>4, <1>5 DEF WireFits
  <1>7. \A i \in DOMAIN wire' : wire'[i][1] \in Ids \cup {m}
    <2> TAKE i \in DOMAIN wire'
    <2>1. CASE i \in 1..L  BY <1>1, <1>2, <2>1
    <2>2. CASE i = L + 1  BY <1>2, <2>2
    <2> QED BY <1>2, <2>1, <2>2
  <1>8. wire' # <<>>  BY <1>2
  <1> QED BY <1>2, <1>6, <1>7, <1>8

\* An untouched wire stays whole and in order before what is queued then.
LEMMA WireKept ==
  ASSUME SendTypes, WireFits, wire' = wire,
         \A i \in Ids : messages'[i] = messages[i],
         \A q \in DOMAIN out'.queue, i \in DOMAIN wire :
            MayPrecede(messages', wire[i][1], out'.queue[q])
  PROVE  WireFits'
  <1>1. wire \in Seq(Nat \X {1, 2}) /\ \A i \in DOMAIN wire : wire[i][1] \in Ids
    BY DEF SendTypes
  <1>2. \A i \in DOMAIN wire : Follows(i)'
    <2> TAKE i \in DOMAIN wire
    <2>1. Follows(i)  BY DEF WireFits
    <2>2. i > 1 => i - 1 \in DOMAIN wire /\ wire[i - 1][1] \in Ids  BY <1>1
    <2> QED BY <2>1, <2>2 DEF Follows
  <1>3. \A i, j \in DOMAIN wire : i < j =>
          \/ wire[i][1] = wire[j][1] /\ wire[i][2] < wire[j][2]
          \/ MayPrecede(messages', wire[i][1], wire[j][1])
    BY <1>1 DEF WireFits, MayPrecede
  <1> QED BY <1>2, <1>3 DEF WireFits

-----------------------------------------------------------------------------
(* Steps that neither send nor write.                                      *)

\* The socket and the connection's flags change, nothing is sent.
LEMMA Quiet ==
  ASSUME SendInv, UNCHANGED <<out, messages, wire, connected>>,
         socket' = "open" => socket = "open" \/ socket = "connecting",
         socket' \in {"none", "connecting"} =>
            /\ socket \in {"none", "connecting"}
            /\ registered' = registered /\ heartbeat_timer' = heartbeat_timer
  PROVE  SendInv'
  <1>1. SendTypes'  BY DEF SendInv, SendTypes, Ids
  <1>2. NotOpened'  BY DEF SendInv, NotOpened
  <1>3. QueueFits'  BY DEF SendInv, QueueFits, MayPrecede
  <1>4. WireFits'  BY DEF SendInv, WireFits, MayPrecede, Follows
  <1>5. LastWritten'  BY DEF SendInv, LastWritten, NotOpened
  <1> QED BY <1>1, <1>2, <1>3, <1>4, <1>5 DEF SendInv

\* The connection closes: what is queued is dropped, what is written stays.
LEMMA CloseStep ==
  ASSUME SendInv, NEW p, Close(out, p), UNCHANGED <<messages, wire>>
  PROVE  SendInv'
  <1>1. CASE UNCHANGED <<out, socket, registered, connected, heartbeat_timer>>
    BY <1>1, Quiet
  <1>2. CASE out' = [out EXCEPT !.queue = <<>>] /\ socket' = "lost" /\ connected' = FALSE
    <2>1. /\ out'.queue = <<>> /\ DOMAIN out'.queue = {}
          /\ out'.sending = out.sending /\ out'.writing = out.writing /\ out'.left = out.left
          /\ out' \in [sending : BOOLEAN, queue : Seq(Nat), writing : Nat, left : {0, 1}]
      <3>1. out = [sending |-> out.sending, queue |-> out.queue,
                   writing |-> out.writing, left |-> out.left]
        BY OutFields DEF SendInv
      <3>2. out' = [sending |-> out.sending, queue |-> <<>>,
                    writing |-> out.writing, left |-> out.left]
        BY <1>2, <3>1
      <3>3. <<>> \in Seq(Nat) /\ DOMAIN <<>> = {}  OBVIOUS
      <3> QED BY <3>2, <3>3, OutFields DEF SendInv
    <2>2. SendTypes'  BY <2>1 DEF SendInv, SendTypes, Ids
    <2>3. NotOpened'  BY <1>2 DEF NotOpened
    <2>4. QueueFits'  BY <2>1 DEF SendInv, QueueFits
    <2>5. WireFits'  BY <2>1, WireKept DEF SendInv
    <2>6. LastWritten'  BY <1>2, <2>1 DEF SendInv, LastWritten
    <2> QED BY <2>2, <2>3, <2>4, <2>5, <2>6 DEF SendInv
  <1> QED BY <1>1, <1>2 DEF Close

-----------------------------------------------------------------------------
(* A message is accepted.                                                  *)

\* What is queued once message n is: in the order of writing, one packet at most.
LEMMA EnqueuedFits ==
  ASSUME SendInv, NEW kind \in FromCallers \cup Internal,
         NEW n \in Nat, n = Len(messages) + 1, messages' = Append(messages, kind),
         NEW e, e = Enqueued(n, kind)
  PROVE  /\ e \in Seq(Nat)
         /\ \A q \in DOMAIN e : e[q] \in 1..n
         /\ \A p, q \in DOMAIN e : p < q =>
              /\ MayPrecede(messages', e[p], e[q])
              /\ ~(messages'[e[p]] = "packet" /\ messages'[e[q]] = "packet")
         /\ \A q \in DOMAIN e, i \in DOMAIN wire : MayPrecede(messages', wire[i][1], e[q])
  <1>0. PICK c, C : c = out.queue /\ C = Len(out.queue)  OBVIOUS
  <1>1. /\ messages \in Seq(FromCallers \cup Internal) /\ Len(messages) \in Nat
        /\ c \in Seq(Nat) /\ C \in Nat /\ DOMAIN c = 1..C
        /\ \A q \in 1..C : c[q] \in Ids
        /\ \A i \in DOMAIN wire : wire[i][1] \in Ids
    BY <1>0, OutFields DEF SendInv, SendTypes
  <1>2. /\ \A i \in Ids : messages'[i] = messages[i] /\ i \in Nat /\ i < n
        /\ messages'[n] = kind
    BY <1>1 DEF Ids
  <1>3. /\ \A a, b \in Ids : MayPrecede(messages, a, b) => MayPrecede(messages', a, b)
        /\ \A a \in Ids : MayPrecede(messages', a, n)
    <2>1. ASSUME NEW a \in Ids, NEW b \in Ids, MayPrecede(messages, a, b)
          PROVE  MayPrecede(messages', a, b)
      <3>1. messages'[a] = messages[a] /\ messages'[b] = messages[b]  BY <1>2
      <3> QED BY <2>1, <3>1 DEF MayPrecede
    <2>2. ASSUME NEW a \in Ids PROVE MayPrecede(messages', a, n)
      <3>1. a \in Nat /\ a < n  BY <1>2
      <3>2. a # n /\ ~(a > n)  BY <3>1
      <3> QED BY <3>2 DEF MayPrecede
    <2> QED BY <2>1, <2>2
  <1>4. \A p, q \in 1..C : p < q =>
          /\ MayPrecede(messages, c[p], c[q])
          /\ ~(messages[c[p]] = "packet" /\ messages[c[q]] = "packet")
    BY <1>0, <1>1 DEF SendInv, QueueFits
  <1>5. \A i \in DOMAIN wire, q \in 1..C : MayPrecede(messages, wire[i][1], c[q])
    BY <1>0, <1>1 DEF SendInv, WireFits
  <1>00. Ids \subseteq 1..n
    BY <1>1 DEF Ids
  <1>6. CASE kind = "packet" /\ Queued(kind) # {}
    <2>1. PICK x \in 1..C : messages[c[x]] = "packet"  BY <1>0, <1>1, <1>6 DEF Queued
    <2>2. Queued(kind) = {x}
      <3>1. \A y \in 1..C : messages[c[y]] = "packet" => ~(x < y) /\ ~(y < x)
        BY <1>4, <2>1
      <3>2. \A y \in 1..C : messages[c[y]] = "packet" => y = x
        BY <1>1, <2>1, <3>1
      <3> QED BY <1>0, <1>1, <1>6, <2>1, <3>2 DEF Queued
    <2>3. e = [q \in 1..C |-> IF q = x THEN n ELSE c[q]]
      BY <1>0, <1>1, <1>6, <2>2 DEF Enqueued
    <2>4. DOMAIN e = 1..C /\ e[x] = n /\ \A q \in 1..C : q # x => e[q] = c[q]
      BY <2>1, <2>3
    <2>5. e \in Seq(Nat)  BY <1>1, <2>3
    <2>6. \A q \in 1..C : q # x => messages[c[q]] # "packet"
      BY <1>0, <1>1, <1>6, <2>2 DEF Queued
    <2>7. \A b \in Ids : messages[b] # "packet" => MayPrecede(messages', n, b)
      BY <1>2, <1>6 DEF MayPrecede
    <2>8. ASSUME NEW p \in 1..C, NEW q \in 1..C, p < q
          PROVE  /\ MayPrecede(messages', e[p], e[q])
                 /\ ~(messages'[e[p]] = "packet" /\ messages'[e[q]] = "packet")
      <3>1. CASE p = x
        <4>1. e[p] = n /\ e[q] = c[q] /\ c[q] \in Ids /\ messages[c[q]] # "packet"
          BY <1>1, <2>4, <2>6, <2>8, <3>1
        <4>2. MayPrecede(messages', n, c[q]) /\ messages'[c[q]] # "packet"  BY <1>2, <2>7, <4>1
        <4> QED BY <4>1, <4>2
      <3>2. CASE p # x
        <4>1. e[p] = c[p] /\ c[p] \in Ids /\ messages'[c[p]] # "packet"
          BY <1>1, <1>2, <2>4, <2>6, <3>2
        <4>2. CASE q = x
          <5>1. e[q] = n /\ MayPrecede(messages', c[p], n)  BY <1>3, <2>4, <4>1, <4>2
          <5> QED BY <4>1, <5>1
        <4>3. CASE q # x
          <5>1. e[q] = c[q] /\ c[q] \in Ids  BY <1>1, <2>4, <4>3
          <5>2. MayPrecede(messages', c[p], c[q])  BY <1>3, <1>4, <2>8, <4>1, <5>1
          <5> QED BY <4>1, <5>1, <5>2
        <4> QED BY <4>2, <4>3
      <3> QED BY <3>1, <3>2
    <2>9. ASSUME NEW q \in 1..C, NEW i \in DOMAIN wire
          PROVE  MayPrecede(messages', wire[i][1], e[q])
      <3>1. CASE q = x  BY <1>1, <1>3, <2>4, <3>1
      <3>2. CASE q # x  BY <1>1, <1>3, <1>5, <2>4, <3>2
      <3> QED BY <3>1, <3>2
    <2>10. \A q \in 1..C : e[q] \in 1..n  BY <1>00, <1>1, <2>4
    <2>11. \A p, q \in DOMAIN e : p < q =>
             /\ MayPrecede(messages', e[p], e[q])
             /\ ~(messages'[e[p]] = "packet" /\ messages'[e[q]] = "packet")
      <3> TAKE p \in DOMAIN e, q \in DOMAIN e
      <3>1. p \in 1..C /\ q \in 1..C  BY <2>4
      <3> QED BY <2>8, <3>1
    <2> QED BY <2>4, <2>5, <2>9, <2>10, <2>11, Zenon
  <1>7. CASE ~(kind = "packet" /\ Queued(kind) # {})
    <2>1. e = Append(c, n)  BY <1>0, <1>7 DEF Enqueued
    <2>2. /\ e \in Seq(Nat) /\ DOMAIN e = 1..(C + 1)
          /\ e[C + 1] = n /\ \A q \in 1..C : e[q] = c[q]
      <3>1. c \in Seq(Nat) /\ Len(c) = C  BY <1>0, <1>1
      <3>2. n \in Nat  OBVIOUS
      <3> QED BY ONLY <2>1, <3>1, <3>2, Appended
    <2>3. kind = "packet" => \A q \in 1..C : messages[c[q]] # "packet"
      BY <1>0, <1>1, <1>7 DEF Queued
    <2>4. ASSUME NEW p \in 1..(C + 1), NEW q \in 1..(C + 1), p < q
          PROVE  /\ MayPrecede(messages', e[p], e[q])
                 /\ ~(messages'[e[p]] = "packet" /\ messages'[e[q]] = "packet")
      <3>1. p \in 1..C /\ e[p] = c[p] /\ c[p] \in Ids  BY <1>1, <2>2, <2>4
      <3>2. CASE q = C + 1
        <4>1. e[q] = n /\ MayPrecede(messages', c[p], n)  BY <1>3, <2>2, <3>1, <3>2
        <4>2. ~(messages'[c[p]] = "packet" /\ messages'[n] = "packet")
          BY <1>2, <2>3, <3>1
        <4> QED BY <3>1, <4>1, <4>2
      <3>3. CASE q \in 1..C
        <4>1. e[q] = c[q] /\ c[q] \in Ids  BY <1>1, <2>2, <3>3
        <4>2. MayPrecede(messages', c[p], c[q])
              /\ ~(messages[c[p]] = "packet" /\ messages[c[q]] = "packet")
          BY <1>3, <1>4, <2>4, <3>1, <3>3, <4>1
        <4> QED BY <1>2, <3>1, <4>1, <4>2
      <3>4. q = C + 1 \/ q \in 1..C  BY <1>1
      <3> QED BY <3>2, <3>3, <3>4
    <2>5. ASSUME NEW q \in 1..(C + 1), NEW i \in DOMAIN wire
          PROVE  MayPrecede(messages', wire[i][1], e[q])
      <3>1. CASE q = C + 1  BY <1>1, <1>3, <2>2, <3>1
      <3>2. CASE q \in 1..C  BY <1>1, <1>3, <1>5, <2>2, <3>2
      <3>3. q = C + 1 \/ q \in 1..C  BY <1>1
      <3> QED BY <3>1, <3>2, <3>3
    <2>6. ASSUME NEW q \in 1..(C + 1) PROVE e[q] \in 1..n
      <3>1. CASE q = C + 1
        <4>1. e[q] = n /\ n >= 1  BY <1>1, <2>2, <3>1
        <4> QED BY <4>1
      <3>2. CASE q \in 1..C  BY <1>00, <1>1, <2>2, <3>2
      <3> QED BY <1>1, <3>1, <3>2
    <2>7. \A p, q \in DOMAIN e : p < q =>
            /\ MayPrecede(messages', e[p], e[q])
            /\ ~(messages'[e[p]] = "packet" /\ messages'[e[q]] = "packet")
      <3> TAKE p \in DOMAIN e, q \in DOMAIN e
      <3>1. p \in 1..(C + 1) /\ q \in 1..(C + 1)  BY <2>2
      <3> QED BY <2>4, <3>1
    <2> QED BY <2>2, <2>5, <2>6, <2>7, Zenon
  <1> QED BY <1>6, <1>7

\* A message is accepted: it is written at once, or queued while another is; if
\* the connection closes in the same step, what is queued is dropped again.
LEMMA AcceptStep ==
  ASSUME SendInv, NEW kind \in FromCallers \cup Internal,
         Accepts(kind), Accepted(kind), registered \/ heartbeat_timer,
         NEW o, o = Accepting(Len(messages) + 1, kind),
         \/ out' = o /\ UNCHANGED <<socket, registered, heartbeat_timer, connected>>
         \/ out' = [o EXCEPT !.queue = <<>>] /\ socket' = "lost" /\ connected' = FALSE
  PROVE  SendInv'
  <1>1. PICK n \in Nat : n = Len(messages) + 1
    BY DEF SendInv, SendTypes
  <1>2. /\ messages \in Seq(FromCallers \cup Internal) /\ Len(messages) \in Nat
        /\ messages' = Append(messages, kind)
        /\ messages' \in Seq(FromCallers \cup Internal) /\ Len(messages') = n
        /\ \A i \in Ids : messages'[i] = messages[i] /\ i \in Nat /\ i < n
        /\ messages'[n] = kind /\ Ids' = 1..n /\ n \in Ids' /\ Ids \subseteq Ids'
    <2>1. messages' = Append(messages, kind)  BY DEF Accepted
    <2>2. messages \in Seq(FromCallers \cup Internal)  BY DEF SendInv, SendTypes
    <2>3. /\ messages' \in Seq(FromCallers \cup Internal) /\ Len(messages') = n
          /\ Len(messages) \in Nat
          /\ \A i \in 1..Len(messages) : messages'[i] = messages[i]
          /\ messages'[n] = kind
      BY <1>1, <2>1, <2>2, AppendProperties
    <2> QED BY <1>1, <2>1, <2>2, <2>3 DEF Ids
  <1>3. IF out.sending THEN wire' = wire ELSE async_write_some(n, 1)
    BY <1>1 DEF Accepted
  <1>4. socket \notin {"none", "connecting"}
    BY DEF SendInv, NotOpened
  <1>5. NotOpened'  BY <1>4 DEF NotOpened
  <1>6. CASE ~out.sending
    <2>1. o = [sending |-> TRUE, queue |-> <<>>, writing |-> n, left |-> Pieces(kind) - 1]
      BY <1>1, <1>6 DEF Accepting, BeginSendMessage, SendInv, QueueFits
    <2>2. out' = o  BY <2>1
    <2>3. /\ out'.sending = TRUE /\ out'.queue = <<>> /\ DOMAIN out'.queue = {}
          /\ out'.writing = n /\ out'.left = Pieces(kind) - 1
          /\ out' \in [sending : BOOLEAN, queue : Seq(Nat), writing : Nat, left : {0, 1}]
      BY <1>1, <2>1, <2>2, PiecesOneOrTwo
    <2>4. QueueFits'  BY <2>3 DEF QueueFits
    <2>5. /\ wire \in Seq(Nat \X {1, 2}) /\ \A i \in DOMAIN wire : wire[i][1] \in Ids
          /\ out.writing = NoMessage
      BY <1>6 DEF SendInv, SendTypes, QueueFits
    <2>6. CASE socket = "open"
      <3>1. wire' = Append(wire, <<n, 1>>)  BY <1>3, <1>6, <2>6 DEF async_write_some
      <3>2. \A i \in DOMAIN wire : MayPrecede(messages', wire[i][1], n)
        <4> TAKE i \in DOMAIN wire
        <4>1. PICK a : a = wire[i][1]  OBVIOUS
        <4>2. a \in Nat /\ a < n  BY <1>2, <2>5, <4>1
        <4>3. a # n /\ ~(a > n)  BY <4>2
        <4> QED BY <4>1, <4>3 DEF MayPrecede
      <3>3. wire # <<>> => wire[Len(wire)][2] = Pieces(messages[wire[Len(wire)][1]])
        BY <2>5, <2>6 DEF SendInv, LastWritten
      <3>4. /\ WireFits' /\ wire' \in Seq(Nat \X {1, 2}) /\ wire' # <<>>
            /\ wire'[Len(wire')] = <<n, 1>>
            /\ \A i \in DOMAIN wire' : wire'[i][1] \in Ids \cup {n}
        <4>1. 1 \in {1, 2} /\ 1 # 2  OBVIOUS
        <4> QED BY <1>2, <2>3, <3>1, <3>2, <3>3, <4>1, PieceWritten DEF SendInv
      <3>5. SendTypes'  BY <1>2, <2>3, <3>4 DEF SendTypes
      <3>6. LastWritten'
        <4>1. Pieces(kind) - (Pieces(kind) - 1) = 1 /\ Pieces(kind) - 1 < Pieces(kind)
          BY PiecesOneOrTwo
        <4>2. n # NoMessage  BY <1>1, <1>2 DEF NoMessage
        <4> QED BY <1>2, <2>3, <3>4, <4>1, <4>2 DEF LastWritten
      <3> QED BY <1>5, <2>4, <3>4, <3>5, <3>6 DEF SendInv
    <2>7. CASE socket # "open"
      <3>1. wire' = wire  BY <1>3, <1>6, <2>7 DEF async_write_some
      <3>2. WireFits'  BY <1>2, <2>3, <3>1, WireKept DEF SendInv
      <3>3. SendTypes'  BY <1>2, <2>3, <2>5, <3>1 DEF SendTypes
      <3>4. LastWritten'
        <4>1. Pieces(kind) - 1 < Pieces(kind)  BY PiecesOneOrTwo
        <4>2. socket' # "open"  BY <2>7
        <4> QED BY <1>2, <2>3, <4>1, <4>2 DEF LastWritten
      <3> QED BY <1>5, <2>4, <3>2, <3>3, <3>4 DEF SendInv
    <2> QED BY <2>6, <2>7
  <1>7. CASE out.sending
    <2>1. PICK e : e = Enqueued(n, kind)  OBVIOUS
    <2>2. /\ e \in Seq(Nat)
          /\ \A q \in DOMAIN e : e[q] \in 1..n
          /\ \A p, q \in DOMAIN e : p < q =>
               /\ MayPrecede(messages', e[p], e[q])
               /\ ~(messages'[e[p]] = "packet" /\ messages'[e[q]] = "packet")
          /\ \A q \in DOMAIN e, i \in DOMAIN wire : MayPrecede(messages', wire[i][1], e[q])
      BY <1>1, <1>2, <2>1, EnqueuedFits
    <2>3. o = [sending |-> out.sending, queue |-> e,
               writing |-> out.writing, left |-> out.left]
      <3>1. o = [out EXCEPT !.queue = e]  BY <1>1, <1>7, <2>1 DEF Accepting
      <3> QED BY <3>1, OutFields DEF SendInv
    <2>4. PICK q2 : /\ out' = [sending |-> out.sending, queue |-> q2,
                               writing |-> out.writing, left |-> out.left]
                    /\ q2 = e \/ (q2 = <<>> /\ connected' = FALSE)
      <3>1. CASE out' = o  BY <2>3, <3>1
      <3>2. CASE out' = [o EXCEPT !.queue = <<>>] /\ connected' = FALSE
        <4>1. out' = [sending |-> out.sending, queue |-> <<>>,
                      writing |-> out.writing, left |-> out.left]
          BY <2>3, <3>2
        <4> QED BY <3>2, <4>1
      <3> QED BY <3>1, <3>2
    <2>6. /\ q2 \in Seq(Nat)
          /\ \A q \in DOMAIN q2 : q2[q] \in 1..n
          /\ \A p, q \in DOMAIN q2 : p < q =>
               /\ MayPrecede(messages', q2[p], q2[q])
               /\ ~(messages'[q2[p]] = "packet" /\ messages'[q2[q]] = "packet")
          /\ \A q \in DOMAIN q2, i \in DOMAIN wire : MayPrecede(messages', wire[i][1], q2[q])
      <3>1. <<>> \in Seq(Nat) /\ DOMAIN <<>> = {}  OBVIOUS
      <3>2. CASE q2 = e  BY <2>2, <3>2
      <3>3. CASE q2 = <<>>  BY <3>1, <3>3
      <3> QED BY <2>4, <3>2, <3>3
    <2>7. /\ out'.sending = TRUE /\ out'.queue = q2
          /\ out'.writing = out.writing /\ out'.left = out.left
          /\ out' \in [sending : BOOLEAN, queue : Seq(Nat), writing : Nat, left : {0, 1}]
      <3>1. out.sending = TRUE /\ out.writing \in Nat /\ out.left \in {0, 1}
        BY <1>7, OutFields DEF SendInv
      <3> QED BY <2>4, <2>6, <3>1
    <2>8. wire' = wire  BY <1>3, <1>7
    <2>9. QueueFits'
      <3>1. ~connected' => out'.queue = <<>>
        BY <2>4, <2>7 DEF Accepts
      <3> QED BY <2>6, <2>7, <3>1 DEF QueueFits
    <2>10. WireFits'
      <3>1. \A q \in DOMAIN out'.queue, i \in DOMAIN wire :
              MayPrecede(messages', wire[i][1], out'.queue[q])
        BY <2>6, <2>7
      <3> QED BY <1>2, <2>8, <3>1, WireKept DEF SendInv
    <2>11. /\ wire \in Seq(Nat \X {1, 2}) /\ \A i \in DOMAIN wire : wire[i][1] \in Ids
           /\ out.writing \in Ids \cup {NoMessage}
      BY DEF SendInv, SendTypes
    <2>12. SendTypes'  BY <1>2, <2>6, <2>7, <2>8, <2>11 DEF SendTypes
    <2>13. LastWritten'
      <3>1. out.writing # NoMessage => messages'[out.writing] = messages[out.writing]
        BY <1>2, <2>11
      <3>2. wire # <<>> => messages'[wire[Len(wire)][1]] = messages[wire[Len(wire)][1]]
        BY <1>2, <2>11
      <3>3. socket' = "open" => socket = "open"  OBVIOUS
      <3> QED BY <2>7, <2>8, <3>1, <3>2, <3>3 DEF SendInv, LastWritten
    <2> QED BY <1>5, <2>9, <2>10, <2>12, <2>13 DEF SendInv
  <1> QED BY <1>6, <1>7, OutFields DEF SendInv

-----------------------------------------------------------------------------
(* A write ends.                                                           *)

\* The second piece of a message is written after the first.
LEMMA RestStep ==
  ASSUME SendInv, out.writing # NoMessage, WriteRest,
         UNCHANGED <<connecting, messages>>
  PROVE  SendInv'
  <1>1. PICK m \in Nat : m = out.writing  BY OutFields DEF SendInv
  <1>2. /\ m \in Ids /\ m # NoMessage /\ out.left = 1 /\ Pieces(messages[m]) = 2
        /\ wire \in Seq(Nat \X {1, 2}) /\ \A i \in DOMAIN wire : wire[i][1] \in Ids
    BY <1>1, PiecesOneOrTwo DEF WriteRest, SendInv, SendTypes, LastWritten
  <1>3. /\ out'.sending = out.sending /\ out'.queue = out.queue
        /\ out'.writing = m /\ out'.left = 0
        /\ out' \in [sending : BOOLEAN, queue : Seq(Nat), writing : Nat, left : {0, 1}]
    <2>1. out' = [out EXCEPT !.left = @ - 1]  BY DEF WriteRest
    <2>2. out' = [sending |-> out.sending, queue |-> out.queue, writing |-> m, left |-> 0]
      BY <1>1, <1>2, <2>1, OutFields DEF SendInv
    <2> QED BY <1>1, <2>2, OutFields DEF SendInv
  <1>4. async_write_some(m, 2)
    BY <1>1, <1>2 DEF WriteRest
  <1>6. QueueFits'
    BY <1>1, <1>2, <1>3 DEF SendInv, QueueFits, connecting
  <1>7. CASE socket = "open"
    <2>1. wire' = Append(wire, <<m, 2>>)  BY <1>4, <1>7 DEF async_write_some
    <2>2. wire # <<>> /\ wire[Len(wire)] = <<m, 1>>
      BY <1>1, <1>2, <1>7 DEF SendInv, LastWritten
    <2>3. \A i \in DOMAIN wire : \/ wire[i][1] = m /\ wire[i][2] < 2
                                 \/ MayPrecede(messages', wire[i][1], m)
      <3> TAKE i \in DOMAIN wire
      <3>1. Len(wire) \in DOMAIN wire /\ wire[Len(wire)][1] = m /\ wire[Len(wire)][2] = 1
            /\ i \in 1..Len(wire) /\ Len(wire) \in Nat
        BY <1>2, <2>2
      <3>2. CASE i = Len(wire)
        <4>1. wire[i][1] = m /\ wire[i][2] < 2  BY <3>1, <3>2
        <4> QED BY <4>1
      <3>3. CASE i # Len(wire)
        <4>1. i < Len(wire)  BY <3>1, <3>3
        <4>2. \/ wire[i][1] = m /\ wire[i][2] < 1
              \/ MayPrecede(messages, wire[i][1], m)
          BY <3>1, <4>1 DEF SendInv, WireFits
        <4>3. wire[i][2] \in {1, 2}  BY <1>2
        <4>4. MayPrecede(messages, wire[i][1], m)  BY <4>2, <4>3
        <4> QED BY <4>4
      <3> QED BY <3>2, <3>3
    <2>4. \A q \in DOMAIN out'.queue :
            /\ MayPrecede(messages', m, out'.queue[q])
            /\ \A i \in DOMAIN wire : MayPrecede(messages', wire[i][1], out'.queue[q])
      <3>1. Len(wire) \in DOMAIN wire /\ wire[Len(wire)][1] = m  BY <1>2, <2>2
      <3> QED BY <1>3, <3>1 DEF SendInv, WireFits
    <2>5. /\ WireFits' /\ wire' \in Seq(Nat \X {1, 2}) /\ wire' # <<>>
          /\ wire'[Len(wire')] = <<m, 2>>
          /\ \A i \in DOMAIN wire' : wire'[i][1] \in Ids \cup {m}
      <3>1. 2 \in {1, 2}  OBVIOUS
      <3> QED BY <2>1, <2>2, <2>3, <2>4, <3>1, PieceWritten DEF SendInv
    <2>6. SendTypes'  BY <1>2, <1>3, <2>5 DEF SendInv, SendTypes, Ids
    <2>7. LastWritten'
      <3>1. 0 < Pieces(messages[m]) /\ Pieces(messages[m]) - 0 = 2  BY <1>2
      <3> QED BY <1>2, <1>3, <2>5, <3>1 DEF LastWritten
    <2>8. NotOpened'  BY <1>7 DEF NotOpened, connecting
    <2> QED BY <1>6, <2>5, <2>6, <2>7, <2>8 DEF SendInv
  <1>8. CASE socket # "open"
    <2>1. wire' = wire  BY <1>4, <1>8 DEF async_write_some
    <2>2. WireFits'
      <3>1. \A q \in DOMAIN out'.queue, i \in DOMAIN wire :
              MayPrecede(messages', wire[i][1], out'.queue[q])
        BY <1>3 DEF SendInv, WireFits
      <3> QED BY <2>1, <3>1, WireKept DEF SendInv
    <2>3. SendTypes'  BY <1>2, <1>3, <2>1 DEF SendInv, SendTypes, Ids
    <2>4. LastWritten'
      <3>1. 0 < Pieces(messages[m])  BY <1>2
      <3>2. socket' # "open"  BY <1>8 DEF connecting
      <3> QED BY <1>3, <3>1, <3>2 DEF LastWritten
    <2>5. NotOpened'  BY <1>1, <1>2 DEF SendInv, NotOpened, connecting
    <2> QED BY <1>6, <2>2, <2>3, <2>4, <2>5 DEF SendInv
  <1> QED BY <1>7, <1>8

\* The head of the queue, which is not empty, is the next message.
LEMMA QueueHead ==
  ASSUME SendInv, out.queue # <<>>
  PROVE  /\ Head(out.queue) \in Ids /\ Head(out.queue) \in Nat
         /\ Tail(out.queue) \in Seq(Nat)
         /\ \A q \in DOMAIN Tail(out.queue) :
              /\ q + 1 \in DOMAIN out.queue /\ Tail(out.queue)[q] = out.queue[q + 1]
              /\ Tail(out.queue)[q] \in Ids
              /\ MayPrecede(messages, Head(out.queue), Tail(out.queue)[q])
              /\ \A i \in DOMAIN wire : MayPrecede(messages, wire[i][1], Tail(out.queue)[q])
         /\ \A p, q \in DOMAIN Tail(out.queue) : p < q =>
              /\ MayPrecede(messages, Tail(out.queue)[p], Tail(out.queue)[q])
              /\ ~(messages[Tail(out.queue)[p]] = "packet"
                    /\ messages[Tail(out.queue)[q]] = "packet")
         /\ \A i \in DOMAIN wire : MayPrecede(messages, wire[i][1], Head(out.queue))
  <1>1. PICK c, t : c = out.queue /\ t = Tail(out.queue)  OBVIOUS
  <1>2. /\ c \in Seq(Nat) /\ c # <<>> /\ Len(c) \in Nat /\ Len(c) >= 1 /\ DOMAIN c = 1..Len(c)
        /\ \A q \in DOMAIN c : c[q] \in Ids
    BY <1>1, OutFields DEF SendInv, SendTypes
  <1>3. /\ 1 \in DOMAIN c /\ Head(c) = c[1]
        /\ t \in Seq(Nat) /\ DOMAIN t = 1..(Len(c) - 1)
        /\ \A q \in 1..(Len(c) - 1) : t[q] = c[q + 1]
    <2>1. Head(c) = c[1] /\ 1 \in DOMAIN c  BY <1>2
    <2>2. /\ t \in Seq(Nat) /\ Len(t) = Len(c) - 1
          /\ \A q \in 1..Len(t) : t[q] = c[q + 1]
      BY <1>1, <1>2, HeadTailProperties
    <2> QED BY <2>1, <2>2
  <1>4. \A p, q \in DOMAIN c : p < q =>
          /\ MayPrecede(messages, c[p], c[q])
          /\ ~(messages[c[p]] = "packet" /\ messages[c[q]] = "packet")
    BY <1>1 DEF SendInv, QueueFits
  <1>5. \A i \in DOMAIN wire, q \in DOMAIN c : MayPrecede(messages, wire[i][1], c[q])
    BY <1>1 DEF SendInv, WireFits
  <1>6. ASSUME NEW q \in DOMAIN t
        PROVE  /\ q + 1 \in DOMAIN c /\ t[q] = c[q + 1] /\ t[q] \in Ids
               /\ MayPrecede(messages, Head(c), t[q])
               /\ \A i \in DOMAIN wire : MayPrecede(messages, wire[i][1], t[q])
    <2>1. q + 1 \in DOMAIN c /\ t[q] = c[q + 1] /\ 1 < q + 1  BY <1>2, <1>3
    <2>2. MayPrecede(messages, c[1], c[q + 1])  BY <1>3, <1>4, <2>1
    <2> QED BY <1>2, <1>3, <1>5, <2>1, <2>2
  <1>7. ASSUME NEW p \in DOMAIN t, NEW q \in DOMAIN t, p < q
        PROVE  /\ MayPrecede(messages, t[p], t[q])
               /\ ~(messages[t[p]] = "packet" /\ messages[t[q]] = "packet")
    <2>1. p + 1 < q + 1  BY <1>3, <1>7
    <2>2. /\ p + 1 \in DOMAIN c /\ q + 1 \in DOMAIN c
          /\ t[p] = c[p + 1] /\ t[q] = c[q + 1]
      BY <1>6
    <2> QED BY <1>4, <2>1, <2>2
  <1>8. Head(c) \in Ids /\ Head(c) \in Nat
    <2>1. 1 \in DOMAIN c /\ Head(c) = c[1]  BY <1>3
    <2>2. c[1] \in Ids  BY <1>2, <2>1
    <2>3. c[1] \in Nat  BY <2>2, <1>2 DEF Ids
    <2> QED BY <2>1, <2>2, <2>3
  <1>9. \A i \in DOMAIN wire : MayPrecede(messages, wire[i][1], Head(c))
    BY <1>3, <1>5
  <1> QED BY <1>1, <1>3, <1>6, <1>7, <1>8, <1>9

\* The last piece of the last message was written: sending ends.
LEMMA DoneStep ==
  ASSUME SendInv, out.writing # NoMessage, SendingDone,
         UNCHANGED <<connecting, messages>>
  PROVE  SendInv'
  <1>1. out.left = 0 /\ wire' = wire /\ out.queue = <<>>
    BY DEF SendingDone, NothingQueued, SendInv, QueueFits
  <1>2. /\ out'.sending = FALSE /\ out'.queue = <<>> /\ DOMAIN out'.queue = {}
        /\ out'.writing = NoMessage /\ out'.left = 0
        /\ out' \in [sending : BOOLEAN, queue : Seq(Nat), writing : Nat, left : {0, 1}]
    <2>1. out' = [out EXCEPT !.sending = FALSE, !.writing = NoMessage]  BY DEF SendingDone
    <2>2. out' = [sending |-> FALSE, queue |-> <<>>, writing |-> NoMessage, left |-> 0]
      BY <1>1, <2>1, OutFields DEF SendInv
    <2>3. <<>> \in Seq(Nat) /\ DOMAIN <<>> = {} /\ NoMessage \in Nat  BY DEF NoMessage
    <2> QED BY <2>2, <2>3
  <1>3. SendTypes'  BY <1>1, <1>2 DEF SendInv, SendTypes, Ids
  <1>4. NotOpened'  BY <1>1, <1>2 DEF SendInv, NotOpened, connecting
  <1>5. QueueFits'  BY <1>2 DEF QueueFits
  <1>6. WireFits'  BY <1>1, <1>2, WireKept DEF SendInv
  <1>7. LastWritten'
    <2>1. socket' = socket  BY DEF connecting
    <2>2. socket = "open" =>
            wire[Len(wire)] = <<out.writing, Pieces(messages[out.writing]) - out.left>>
      BY DEF SendInv, LastWritten
    <2>3. Pieces(messages[out.writing]) - 0 = Pieces(messages[out.writing])
      BY PiecesOneOrTwo
    <2>4. socket = "open" => wire[Len(wire)][2] = Pieces(messages[wire[Len(wire)][1]])
      BY <1>1, <2>2, <2>3
    <2> QED BY <1>1, <1>2, <2>1, <2>4 DEF LastWritten
  <1> QED BY <1>3, <1>4, <1>5, <1>6, <1>7 DEF SendInv

\* The next message of the queue is written, or cannot be.
LEMMA NextStep ==
  ASSUME SendInv, out.writing # NoMessage, BeginNext \/ NextThrows,
         UNCHANGED <<connecting, messages>>
  PROVE  SendInv'
  <1>1. PICK m, t : m = Head(out.queue) /\ t = Tail(out.queue)  OBVIOUS
  <1>2. out.left = 0 /\ out.queue # <<>> /\ connected
    BY DEF BeginNext, NextThrows, NothingQueued
  <1>3. /\ m \in Ids /\ m \in Nat /\ m # NoMessage /\ t \in Seq(Nat)
        /\ \A q \in DOMAIN t :
             /\ t[q] \in Ids /\ MayPrecede(messages, m, t[q])
             /\ \A i \in DOMAIN wire : MayPrecede(messages, wire[i][1], t[q])
        /\ \A p, q \in DOMAIN t : p < q =>
             /\ MayPrecede(messages, t[p], t[q])
             /\ ~(messages[t[p]] = "packet" /\ messages[t[q]] = "packet")
        /\ \A i \in DOMAIN wire : MayPrecede(messages, wire[i][1], m)
    <2>1. m # NoMessage
      BY <1>1, <1>2, QueueHead DEF Ids, NoMessage, SendInv, SendTypes
    <2> QED BY <1>1, <1>2, <2>1, QueueHead
  <1>4. /\ wire \in Seq(Nat \X {1, 2}) /\ \A i \in DOMAIN wire : wire[i][1] \in Ids
        /\ out.sending
    BY OutFields DEF SendInv, SendTypes, QueueFits
  <1>5. socket = "open" =>
          wire # <<>> /\ wire[Len(wire)][2] = Pieces(messages[wire[Len(wire)][1]])
    <2>1. socket = "open" =>
            /\ wire # <<>>
            /\ wire[Len(wire)] = <<out.writing, Pieces(messages[out.writing]) - out.left>>
      BY DEF SendInv, LastWritten
    <2>2. Pieces(messages[out.writing]) - 0 = Pieces(messages[out.writing])
      BY PiecesOneOrTwo
    <2> QED BY <1>2, <2>1, <2>2
  <1>6. NotOpened'
    BY DEF SendInv, NotOpened, connecting
  <1>7. CASE BeginNext
    <2>1. /\ out'.sending = TRUE /\ out'.queue = t
          /\ out'.writing = m /\ out'.left = Pieces(messages[m]) - 1
          /\ out' \in [sending : BOOLEAN, queue : Seq(Nat), writing : Nat, left : {0, 1}]
      <3>1. out' = [sending |-> TRUE, queue |-> t, writing |-> m,
                    left |-> Pieces(messages[m]) - 1]
        BY <1>1, <1>7 DEF BeginNext, BeginSendMessage
      <3> QED BY <1>3, <3>1, PiecesOneOrTwo
    <2>2. async_write_some(m, 1)  BY <1>1, <1>7 DEF BeginNext
    <2>3. QueueFits'  BY <1>2, <1>3, <2>1 DEF QueueFits, connecting
    <2>4. Pieces(messages[m]) - 1 < Pieces(messages[m])
          /\ Pieces(messages[m]) - (Pieces(messages[m]) - 1) = 1
      BY PiecesOneOrTwo
    <2>5. CASE socket = "open"
      <3>1. wire' = Append(wire, <<m, 1>>)  BY <2>2, <2>5 DEF async_write_some
      <3>2. /\ WireFits' /\ wire' \in Seq(Nat \X {1, 2}) /\ wire' # <<>>
            /\ wire'[Len(wire')] = <<m, 1>>
            /\ \A i \in DOMAIN wire' : wire'[i][1] \in Ids \cup {m}
        <4>1. 1 \in {1, 2} /\ 1 # 2  OBVIOUS
        <4> QED BY <1>3, <1>5, <2>1, <2>5, <3>1, <4>1, PieceWritten DEF SendInv
      <3>3. SendTypes'  BY <1>3, <2>1, <3>2 DEF SendInv, SendTypes, Ids
      <3>4. LastWritten'  BY <1>3, <2>1, <2>4, <3>2 DEF LastWritten
      <3>5. NotOpened'  BY <2>5 DEF NotOpened, connecting
      <3> QED BY <2>3, <3>2, <3>3, <3>4, <3>5 DEF SendInv
    <2>6. CASE socket # "open"
      <3>1. wire' = wire  BY <2>2, <2>6 DEF async_write_some
      <3>2. WireFits'
        <4>1. \A q \in DOMAIN out'.queue, i \in DOMAIN wire :
                MayPrecede(messages', wire[i][1], out'.queue[q])
          BY <1>3, <2>1
        <4> QED BY <3>1, <4>1, WireKept DEF SendInv
      <3>3. SendTypes'  BY <1>3, <1>4, <2>1, <3>1 DEF SendInv, SendTypes, Ids
      <3>4. LastWritten'
        <4>1. socket' # "open"  BY <2>6 DEF connecting
        <4> QED BY <2>1, <2>4, <4>1 DEF LastWritten
      <3> QED BY <1>6, <2>3, <3>2, <3>3, <3>4 DEF SendInv
    <2> QED BY <2>5, <2>6
  <1>8. CASE NextThrows
    <2>1. wire' = wire  BY <1>8 DEF NextThrows
    <2>2. /\ out'.sending = TRUE /\ out'.queue = t
          /\ out'.writing = NoMessage /\ out'.left = 0
          /\ out' \in [sending : BOOLEAN, queue : Seq(Nat), writing : Nat, left : {0, 1}]
      <3>1. out' = [out EXCEPT !.queue = t, !.writing = NoMessage]
        BY <1>1, <1>8 DEF NextThrows
      <3>2. out' = [sending |-> out.sending, queue |-> t, writing |-> NoMessage, left |-> 0]
        BY <1>2, <3>1, OutFields DEF SendInv
      <3>3. NoMessage \in Nat /\ out.sending = TRUE
        BY <1>4, OutFields DEF NoMessage, SendInv
      <3> QED BY <1>3, <3>2, <3>3
    <2>3. QueueFits'  BY <1>2, <1>3, <2>2 DEF QueueFits, connecting
    <2>4. WireFits'
      <3>1. \A q \in DOMAIN out'.queue, i \in DOMAIN wire :
              MayPrecede(messages', wire[i][1], out'.queue[q])
        BY <1>3, <2>2
      <3> QED BY <2>1, <3>1, WireKept DEF SendInv
    <2>5. SendTypes'  BY <1>3, <1>4, <2>1, <2>2 DEF SendInv, SendTypes, Ids
    <2>6. LastWritten'  BY <1>5, <2>1, <2>2 DEF LastWritten, connecting
    <2> QED BY <1>6, <2>3, <2>4, <2>5, <2>6 DEF SendInv
  <1> QED BY <1>7, <1>8

-----------------------------------------------------------------------------
(* The connection.                                                         *)

\* The open event: the handshake's request is the first message.
LEMMA OpenStep ==
  ASSUME SendInv, WebsocketOpen
  PROVE  SendInv'
  <1>1. socket = "connecting" /\ socket' = "open" /\ connected' = connected
    BY DEF WebsocketOpen
  <1>2. CASE UNCHANGED <<out, messages, wire>>  BY <1>1, <1>2, Quiet
  <1>3. CASE BeginStreamOp
    <2>1. /\ messages' = <<"streamop">> /\ wire' = <<<<1, 1>>>>
          /\ out' = [sending |-> TRUE, queue |-> <<>>, writing |-> 1, left |-> 0]
      BY <1>3 DEF BeginStreamOp, BeginSendMessage, Pieces
    <2>2. /\ Len(messages') = 1 /\ messages'[1] = "streamop"
          /\ messages' \in Seq(FromCallers \cup Internal)
      BY <2>1 DEF Internal
    <2>3. /\ Len(wire') = 1 /\ wire'[1] = <<1, 1>> /\ wire'[1][1] = 1 /\ wire'[1][2] = 1
          /\ DOMAIN wire' = {1} /\ wire' \in Seq(Nat \X {1, 2}) /\ wire' # <<>>
      BY <2>1
    <2>4. out'.queue = <<>> /\ DOMAIN out'.queue = {} /\ <<>> \in Seq(Nat)
      BY <2>1
    <2>5. SendTypes'
      <3>1. 1 \in Ids'  BY <2>2 DEF Ids
      <3> QED BY <2>1, <2>2, <2>3, <2>4, <3>1 DEF SendTypes
    <2>6. NotOpened'  BY <1>1 DEF NotOpened
    <2>7. QueueFits'  BY <2>1, <2>4 DEF QueueFits
    <2>8. WireFits'  BY <2>3, <2>4 DEF WireFits, Follows
    <2>9. LastWritten'  BY <2>1, <2>2, <2>3 DEF LastWritten, NoMessage, Pieces
    <2> QED BY <2>5, <2>6, <2>7, <2>8, <2>9 DEF SendInv
  <1> QED BY <1>2, <1>3 DEF WebsocketOpen, AttachAsServer, histories

\* A heartbeat is sent if one is due; a connection too long silent closes.
LEMMA HeartbeatStep ==
  ASSUME SendInv, heartbeat_timer_func
  PROVE  SendInv'
  <1>1. PICK overdue \in BOOLEAN, silent \in BOOLEAN :
          heartbeat_timer_func!2!(overdue, silent)
    BY DEF heartbeat_timer_func
  <1>2. heartbeat_timer  BY DEF heartbeat_timer_func
  <1>3. CASE overdue /\ ~AlreadyQueued("test")
    <2>1. PICK o : o = Accepting(Len(messages) + 1, "test")  OBVIOUS
    <2>2. Accepts("test") /\ Accepted("test") /\ "test" \in FromCallers \cup Internal
      BY <1>1, <1>3 DEF Internal
    <2>3. CASE silent
      <3>1. Close(o, posted)  BY <1>1, <1>3, <2>1, <2>3
      <3>2. \/ out' = o /\ UNCHANGED <<socket, registered, heartbeat_timer, connected>>
            \/ out' = [o EXCEPT !.queue = <<>>] /\ socket' = "lost" /\ connected' = FALSE
        BY <3>1 DEF Close
      <3> QED BY <1>2, <2>1, <2>2, <3>2, AcceptStep
    <2>4. CASE ~silent
      <3>1. out' = o /\ UNCHANGED <<socket, registered, heartbeat_timer, connected>>
        BY <1>1, <1>3, <2>1, <2>4 DEF connecting
      <3> QED BY <1>2, <2>1, <2>2, <3>1, AcceptStep
    <2> QED BY <2>3, <2>4
  <1>4. CASE ~(overdue /\ ~AlreadyQueued("test"))
    <2>1. UNCHANGED <<messages, wire>>  BY <1>1, <1>4 DEF histories
    <2>2. CASE silent
      <3>1. Close(out, posted)  BY <1>1, <1>4, <2>2
      <3> QED BY <2>1, <3>1, CloseStep
    <2>3. CASE ~silent
      <3>1. UNCHANGED <<out, connected, socket, registered, heartbeat_timer>>
        BY <1>1, <1>4, <2>3 DEF connecting
      <3> QED BY <2>1, <3>1, Quiet
    <2> QED BY <2>2, <2>3
  <1> QED BY <1>3, <1>4

\* Every step keeps the strengthening.
LEMMA SendStep == SendInv /\ [Next]_vars => SendInv'
  <1> SUFFICES ASSUME SendInv, [Next]_vars PROVE SendInv'  OBVIOUS
  <1>1. CASE AsyncConnect  BY <1>1, Quiet DEF AsyncConnect, histories
  <1>2. CASE WebsocketOpen  BY <1>2, OpenStep
  <1>3. CASE SocketLost  BY <1>3, Quiet DEF SocketLost, histories
  <1>4. CASE WebsocketEnds \/ CloseTransportConnection \/ ReceiveFails
    <2>1. Close(out, posted) /\ UNCHANGED <<messages, wire>>
      BY <1>4 DEF WebsocketEnds, CloseTransportConnection, ReceiveFails, histories
    <2> QED BY <2>1, CloseStep
  <1>5. CASE StreamOpMessageReceived
    <2>1. UNCHANGED <<out, messages, wire, connected, socket, registered>>
      BY <1>5 DEF StreamOpMessageReceived, histories
    <2>2. wire # <<>>  BY <1>5 DEF StreamOpMessageReceived, ToSet
    <2>3. socket \notin {"none", "connecting"}  BY <2>2 DEF SendInv, NotOpened
    <2> QED BY <2>1, <2>3, Quiet
  <1>6. CASE StreamOp_timercallback
    BY <1>6, Quiet DEF StreamOp_timercallback, histories
  <1>7. CASE Send \/ PeerHeartbeat
    <2>1. PICK kind \in FromCallers \cup Internal : AsyncSendMessage(kind) /\ registered
      BY <1>7 DEF Send, PeerHeartbeat, FromCallers, Internal
    <2>2. PICK o : o = Accepting(Len(messages) + 1, kind)  OBVIOUS
    <2>3. /\ Accepts(kind) /\ Accepted(kind) /\ out' = o
          /\ UNCHANGED <<socket, registered, heartbeat_timer, connected>>
      BY <2>1, <2>2 DEF AsyncSendMessage, connecting
    <2> QED BY <2>1, <2>2, <2>3, AcceptStep
  <1>8. CASE EndSendMessage
    BY <1>8, RestStep, DoneStep, NextStep DEF EndSendMessage
  <1>9. CASE heartbeat_timer_func  BY <1>9, HeartbeatStep
  <1>10. CASE RunPosted
    <2>1. CASE RunAttachError
      BY <2>1, Quiet DEF RunAttachError, connecting, histories
    <2>2. CASE RunClose
      <3>1. Close(out, posted \ {PostedClose}) /\ UNCHANGED <<messages, wire>>
        BY <2>2 DEF RunClose, histories
      <3> QED BY <3>1, CloseStep
    <2>3. ASSUME NEW result \in {"ok", "error"}, RunConnectAnswer(result) PROVE SendInv'
      BY <2>3, Quiet DEF RunConnectAnswer, connecting, histories
    <2>4. ASSUME NEW result \in {"ok", "error"}, NEW m \in 1..MaxSends, RunAnswer(m, result)
          PROVE  SendInv'
      <3>1. UNCHANGED <<messages, wire>>  BY <2>4 DEF RunAnswer
      <3>2. CASE Close(out, posted \ {Answer(m, result)})  BY <3>1, <3>2, CloseStep
      <3>3. CASE UNCHANGED <<connecting, out>>  BY <3>1, <3>3, Quiet DEF connecting
      <3> QED BY <2>4, <3>2, <3>3 DEF RunAnswer
    <2> QED BY <1>10, <2>1, <2>2, <2>3, <2>4 DEF RunPosted
  <1>11. CASE UNCHANGED vars  BY <1>11, Quiet DEF vars, connecting, histories
  <1> QED BY <1>1, <1>2, <1>3, <1>4, <1>5, <1>6, <1>7, <1>8, <1>9, <1>10, <1>11 DEF Next

\* At first nothing was accepted and nothing written.
LEMMA SendInit == Init => SendInv
  <1> SUFFICES ASSUME Init PROVE SendInv  OBVIOUS
  <1>1. /\ messages = <<>> /\ wire = <<>> /\ DOMAIN wire = {}
        /\ out.sending = FALSE /\ out.queue = <<>> /\ DOMAIN out.queue = {}
        /\ out.writing = NoMessage /\ out.left = 0
        /\ out \in [sending : BOOLEAN, queue : Seq(Nat), writing : Nat, left : {0, 1}]
    BY DEF Init, NoMessage
  <1>2. SendTypes  BY <1>1 DEF SendTypes
  <1>3. NotOpened  BY <1>1 DEF Init, NotOpened
  <1>4. QueueFits  BY <1>1 DEF QueueFits
  <1>5. WireFits  BY <1>1 DEF WireFits
  <1>6. LastWritten  BY <1>1 DEF LastWritten
  <1> QED BY <1>2, <1>3, <1>4, <1>5, <1>6 DEF SendInv

\* What reaches the socket is whole messages one after another, each once, in the
\* order in which they were accepted but for the packets of a wire
\* (ASIOStreamBaseTransport::AsyncSendMessage, EndSendMessage2).
THEOREM WrittenInOrder == Spec => []WholeAndInOrder
  <1>1. SendInv => WholeAndInOrder
    <2> SUFFICES ASSUME SendInv PROVE WholeAndInOrder  OBVIOUS
    <2>1. ASSUME NEW i \in DOMAIN wire, NEW j \in DOMAIN wire, i < j
          PROVE  /\ wire[i] # wire[j]
                 /\ wire[i][1] > wire[j][1] =>
                      messages[wire[i][1]] = "packet" /\ messages[wire[j][1]] # "packet"
      <3>1. /\ wire[i][1] \in Nat /\ wire[j][1] \in Nat
            /\ wire[i][2] \in {1, 2} /\ wire[j][2] \in {1, 2}
        BY DEF SendInv, SendTypes
      <3>2. CASE wire[i][1] = wire[j][1] /\ wire[i][2] < wire[j][2]
        <4>1. wire[i][2] # wire[j][2] /\ ~(wire[i][1] > wire[j][1])  BY <3>1, <3>2
        <4> QED BY <4>1
      <3>3. CASE MayPrecede(messages, wire[i][1], wire[j][1])
        <4>1. wire[i][1] # wire[j][1]  BY <3>3 DEF MayPrecede
        <4> QED BY <3>3, <4>1 DEF MayPrecede
      <3> QED BY <2>1, <3>2, <3>3 DEF SendInv, WireFits
    <2> QED BY <2>1 DEF SendInv, WireFits, WholeAndInOrder
  <1> QED BY <1>1, SendInit, SendStep, PTL DEF Spec

-----------------------------------------------------------------------------
(* Where the handlers are: types.                                          *)

\* Two events are equal only if they are about the same.
LEMMA EventsDiffer ==
  /\ \A m, r, n, s : Answer(m, r) = Answer(n, s) => m = n /\ r = s
  /\ \A r, s : ConnectAnswer(r) = ConnectAnswer(s) => r = s
  /\ \A m, r, s : /\ Answer(m, r) # AttachError /\ Answer(m, r) # PostedClose
                  /\ Answer(m, r) # ConnectAnswer(s)
  /\ \A s : ConnectAnswer(s) # AttachError /\ ConnectAnswer(s) # PostedClose
  /\ AttachError # PostedClose
  <1>1. ASSUME NEW m, NEW r, NEW n, NEW s, Answer(m, r) = Answer(n, s)
        PROVE  m = n /\ r = s
    <2>1. Answer(m, r).message = m /\ Answer(n, s).message = n
          /\ Answer(m, r).result = r /\ Answer(n, s).result = s
      BY DEF Answer
    <2> QED BY <1>1, <2>1
  <1>2. ASSUME NEW r, NEW s, ConnectAnswer(r) = ConnectAnswer(s) PROVE r = s
    <2>1. ConnectAnswer(r).result = r /\ ConnectAnswer(s).result = s  BY DEF ConnectAnswer
    <2> QED BY <1>2, <2>1
  <1>3. \A m, r, s : Answer(m, r).event = "answer" /\ ConnectAnswer(s).event = "connect"
    BY DEF Answer, ConnectAnswer
  <1>4. AttachError.event = "AsyncAttachStream1" /\ PostedClose.event = "Close"
    BY DEF AttachError, PostedClose
  <1>5. ASSUME NEW m, NEW r, NEW s
        PROVE  /\ Answer(m, r) # AttachError /\ Answer(m, r) # PostedClose
               /\ Answer(m, r) # ConnectAnswer(s)
    BY <1>3, <1>4
  <1>6. ASSUME NEW s
        PROVE  ConnectAnswer(s) # AttachError /\ ConnectAnswer(s) # PostedClose
    BY <1>3, <1>4
  <1>7. AttachError # PostedClose  BY <1>4
  <1>8. \A m, r, n, s : Answer(m, r) = Answer(n, s) => m = n /\ r = s  BY <1>1
  <1>9. \A r, s : ConnectAnswer(r) = ConnectAnswer(s) => r = s  BY <1>2
  <1> QED BY <1>5, <1>6, <1>7, <1>8, <1>9, Zenon

\* What can be posted, member by member.
LEMMA EventsMembers ==
  ASSUME NEW ids
  PROVE  /\ AttachError \in Events(ids) /\ PostedClose \in Events(ids)
         /\ \A r \in {"ok", "error"} : ConnectAnswer(r) \in Events(ids)
         /\ \A m \in ids, r \in {"ok", "error"} : Answer(m, r) \in Events(ids)
         /\ \A m, r : Answer(m, r) \in Events(ids) => m \in ids
         /\ \A more : ids \subseteq more => Events(ids) \subseteq Events(more)
  <1>1. ASSUME NEW m, NEW r, Answer(m, r) \in Events(ids) PROVE m \in ids
    <2>1. Answer(m, r) \in {Answer(n, s) : n \in ids, s \in {"ok", "error"}}
      BY <1>1, EventsDiffer DEF Events
    <2>2. PICK n \in ids, s \in {"ok", "error"} : Answer(m, r) = Answer(n, s)  BY <2>1
    <2> QED BY <2>2, EventsDiffer
  <1>2. \A m, r : Answer(m, r) \in Events(ids) => m \in ids  BY <1>1
  <1>3. \A more : ids \subseteq more => Events(ids) \subseteq Events(more)  BY DEF Events
  <1>4. \A m \in ids, r \in {"ok", "error"} : Answer(m, r) \in Events(ids)  BY DEF Events
  <1>5. /\ AttachError \in Events(ids) /\ PostedClose \in Events(ids)
        /\ \A r \in {"ok", "error"} : ConnectAnswer(r) \in Events(ids)
    BY DEF Events
  <1> QED BY <1>2, <1>3, <1>4, <1>5, Zenon

\* One message's handler is called once more.
LEMMA OneCalled ==
  ASSUME NEW a \in Seq(Seq({"ok", "error"})), NEW m \in 1..Len(a),
         NEW r \in {"ok", "error"}, NEW b, b = [a EXCEPT ![m] = Append(@, r)]
  PROVE  /\ b \in Seq(Seq({"ok", "error"})) /\ Len(b) = Len(a)
         /\ b[m] = Append(a[m], r)
         /\ \A i \in 1..Len(a) : i # m => b[i] = a[i]
  <1>1. a[m] \in Seq({"ok", "error"})  OBVIOUS
  <1>2. Append(a[m], r) \in Seq({"ok", "error"})  BY <1>1
  <1> QED BY <1>2

\* What TypeOK says beyond SendTypes.
AnswerTypes ==
    /\ socket \in {"none", "connecting", "open", "lost"}
    /\ {url_valid, server, active_transports, active_connect_handler, registered,
        closing, connected, streamop_waiting, heartbeat_timer} \subseteq BOOLEAN
    /\ Len(messages) =< MaxSends
    /\ posted \subseteq Events(Ids)
    /\ answers \in Seq(Seq({"ok", "error"})) /\ Len(answers) = Len(messages)
    /\ connect_answers \in Seq({"ok", "error"})

\* The two parts are all of it.
LEMMA TypesSplit == SendTypes /\ AnswerTypes => TypeOK
  <1> SUFFICES ASSUME SendTypes, AnswerTypes PROVE TypeOK  OBVIOUS
  <1>1. out \in [sending : BOOLEAN, queue : Seq(Ids),
                 writing : Ids \cup {NoMessage}, left : {0, 1}]
    <2>1. out.queue \in Seq(Ids)
      BY DEF SendTypes
    <2> QED BY <2>1, OutFields DEF SendTypes
  <1>2. wire \in Seq(Ids \X {1, 2})
    <2>1. ASSUME NEW i \in DOMAIN wire PROVE wire[i] \in Ids \X {1, 2}
      BY DEF SendTypes
    <2> QED BY <2>1 DEF SendTypes
  <1> QED BY <1>1, <1>2 DEF SendTypes, AnswerTypes, TypeOK

\* TypeOK has the second part.
LEMMA TypesJoined == TypeOK => AnswerTypes
  BY DEF TypeOK, AnswerTypes

\* Closing with any accepted messages keeps the types.
LEMMA CloseTypes ==
  ASSUME AnswerTypes, NEW o, NEW p, Close(o, p), active_transports' \in BOOLEAN,
         messages' \in Seq(FromCallers \cup Internal), Len(messages') =< MaxSends,
         Ids \subseteq Ids', \A i \in DOMAIN o.queue : o.queue[i] \in Ids',
         p \subseteq Events(Ids'),
         answers' \in Seq(Seq({"ok", "error"})), Len(answers') = Len(messages')
  PROVE  AnswerTypes'
  <1>1. connect_answers' \in Seq({"ok", "error"})
    BY DEF Close, TakeConnectHandler, AnswerTypes
  <1>2. posted' \subseteq Events(Ids')
    <2>1. FlushErrors(o) \subseteq Events(Ids')
      <3>1. \A e \in FlushErrors(o) : \E m \in Ids' : e = Answer(m, "error")
        BY DEF FlushErrors, ToSet
      <3> QED BY <3>1, EventsMembers
    <2>2. HandshakeError \subseteq Events(Ids')  BY EventsMembers DEF HandshakeError
    <2> QED BY <2>1, <2>2 DEF Close
  <1>3. /\ socket' \in {"none", "connecting", "open", "lost"}
        /\ {url_valid', server', active_transports', active_connect_handler', registered',
            closing', connected', streamop_waiting', heartbeat_timer'} \subseteq BOOLEAN
    BY DEF Close, AnswerTypes
  <1> QED BY <1>1, <1>2, <1>3 DEF AnswerTypes

\* Accepting a message keeps the types of what it changes.
LEMMA AcceptTypes ==
  ASSUME SendInv, AnswerTypes, NEW kind \in FromCallers \cup Internal,
         Accepts(kind), Accepted(kind)
  PROVE  /\ messages' \in Seq(FromCallers \cup Internal)
         /\ Len(messages') = Len(messages) + 1 /\ Len(messages') =< MaxSends
         /\ Ids \subseteq Ids' /\ Ids' = Ids \cup {Len(messages) + 1}
         /\ answers' \in Seq(Seq({"ok", "error"})) /\ Len(answers') = Len(messages')
         /\ posted \cup Superseded(kind) \subseteq Events(Ids')
  <1>1. /\ messages \in Seq(FromCallers \cup Internal) /\ Len(messages) \in Nat
        /\ messages' = Append(messages, kind) /\ answers' = Append(answers, <<>>)
        /\ MaxSends \in Nat /\ Len(messages) < MaxSends
    BY MaxSendsAssumption DEF SendInv, SendTypes, Accepted, Accepts
  <1>2. /\ messages' \in Seq(FromCallers \cup Internal)
        /\ Len(messages') = Len(messages) + 1
    BY <1>1
  <1>3. Len(messages') =< MaxSends  BY <1>1, <1>2
  <1>4. Ids' = Ids \cup {Len(messages) + 1}  BY <1>1, <1>2 DEF Ids
  <1>5. answers' \in Seq(Seq({"ok", "error"})) /\ Len(answers') = Len(messages')
    <2>1. <<>> \in Seq({"ok", "error"})  OBVIOUS
    <2> QED BY <1>1, <1>2, <2>1 DEF AnswerTypes
  <1>6. Superseded(kind) \subseteq Events(Ids)
    <2>1. \A e \in Superseded(kind) : \E m \in Ids : e = Answer(m, "ok")
      BY DEF Superseded, Queued, SendInv, SendTypes
    <2> QED BY <2>1, EventsMembers
  <1>7. posted \cup Superseded(kind) \subseteq Events(Ids')
    <2>1. Events(Ids) \subseteq Events(Ids')  BY <1>4, EventsMembers
    <2> QED BY <1>6, <2>1 DEF AnswerTypes
  <1> QED BY <1>2, <1>3, <1>4, <1>5, <1>7

\* Every step keeps the types.
LEMMA TypesStep ==
        SendInv /\ SendInv' /\ AnswerTypes /\ Unopened /\ [Next]_vars => AnswerTypes'
  <1> SUFFICES ASSUME SendInv, SendInv', AnswerTypes, Unopened, [Next]_vars
               PROVE  AnswerTypes'
    OBVIOUS
  <1>0. messages \in Seq(FromCallers \cup Internal) /\ Ids = 1..Len(messages)
    BY DEF SendInv, SendTypes, Ids
  <1>00. messages' \in Seq(FromCallers \cup Internal)
    BY DEF SendInv, SendTypes, Ids
  <1>1. CASE AsyncConnect
    BY <1>1 DEF AsyncConnect, histories, AnswerTypes, Ids
  <1>2. CASE WebsocketOpen
    <2>1. \/ UNCHANGED <<out, messages, answers>>
          \/ messages' = <<"streamop">> /\ answers' = <<<<>>>>
      BY <1>2 DEF WebsocketOpen, AttachAsServer, BeginStreamOp, histories
    <2>2. posted' = posted \/ posted' = posted \cup {ConnectAnswer("ok")}
      BY <1>2 DEF WebsocketOpen, AttachAsServer, BeginStreamOp, histories
    <2>3. CASE messages' = messages /\ answers' = answers
      <3>1. posted' \subseteq Events(Ids')
        BY <2>2, <2>3, EventsMembers DEF AnswerTypes, Ids
      <3> QED BY <1>2, <2>3, <3>1 DEF WebsocketOpen, AttachAsServer, BeginStreamOp, AnswerTypes
    <2>4. CASE messages' = <<"streamop">> /\ answers' = <<<<>>>> /\ BeginStreamOp
      <3>1. Len(messages') = 1 /\ Len(answers') = 1 /\ Ids' = {1}
        BY <2>4 DEF Ids
      <3>2. answers' \in Seq(Seq({"ok", "error"}))  BY <2>4
      <3>3. 1 =< MaxSends  BY MaxSendsAssumption
      <3>4. posted' \subseteq Events(Ids')
        <4>1. posted = {}  BY <1>2 DEF WebsocketOpen, Unopened
        <4> QED BY <2>2, <4>1, EventsMembers
      <3> QED BY <1>2, <2>4, <3>1, <3>2, <3>3, <3>4
           DEF WebsocketOpen, BeginStreamOp, AnswerTypes
    <2> QED BY <1>2, <2>3, <2>4 DEF WebsocketOpen, AttachAsServer, BeginStreamOp, histories
  <1>3. CASE SocketLost
    BY <1>3 DEF SocketLost, histories, AnswerTypes, Ids
  <1>4. CASE WebsocketEnds \/ CloseTransportConnection \/ ReceiveFails
    <2>1. /\ UNCHANGED <<messages, answers>> /\ active_transports' \in BOOLEAN
          /\ Close(out, posted)
      BY <1>4 DEF WebsocketEnds, CloseTransportConnection, ReceiveFails, histories, AnswerTypes
    <2> QED BY <1>0, <2>1, CloseTypes DEF AnswerTypes, SendInv, SendTypes, Ids
  <1>5. CASE StreamOpMessageReceived
    <2>1. posted' \subseteq Events(Ids')
      BY <1>5, EventsMembers DEF StreamOpMessageReceived, AttachFailed, AnswerTypes, histories, Ids
    <2> QED BY <1>5, <2>1 DEF StreamOpMessageReceived, AnswerTypes, histories
  <1>6. CASE StreamOp_timercallback
    <2>1. posted' \subseteq Events(Ids')
      BY <1>6, EventsMembers DEF StreamOp_timercallback, AnswerTypes, histories, Ids
    <2> QED BY <1>6, <2>1 DEF StreamOp_timercallback, AnswerTypes, histories
  <1>7. CASE Send \/ PeerHeartbeat
    <2>1. PICK kind \in FromCallers \cup Internal : AsyncSendMessage(kind)
      BY <1>7 DEF Send, PeerHeartbeat, FromCallers, Internal
    <2>2. Accepts(kind) /\ Accepted(kind) /\ posted' = posted \cup Superseded(kind)
          /\ UNCHANGED <<connecting, connect_answers>>
      BY <2>1 DEF AsyncSendMessage
    <2> QED BY <2>2, AcceptTypes DEF AnswerTypes, connecting
  <1>8. CASE EndSendMessage
    <2>0. UNCHANGED <<connecting, posted, messages, connect_answers>>
      BY <1>8 DEF EndSendMessage
    <2>1. answers' \in Seq(Seq({"ok", "error"})) /\ Len(answers') = Len(messages')
      <3>1. out.writing \in 1..Len(answers)
        BY <1>8 DEF EndSendMessage, AnswerTypes, SendInv, SendTypes, Ids
      <3>2. CASE answers' = answers  BY <2>0, <3>2 DEF AnswerTypes
      <3>3. CASE answers' = Called(out.writing, "ok")
        BY <2>0, <3>1, <3>3, OneCalled DEF Called, AnswerTypes
      <3>4. CASE NextThrows
        <4>1. PICK h : h = Head(out.queue)  OBVIOUS
        <4>2. h \in 1..Len(answers)
          <5>1. out.queue # <<>>  BY <3>4 DEF NextThrows, NothingQueued
          <5> QED BY <4>1, <5>1, QueueHead DEF Ids, AnswerTypes
        <4>3. PICK b : b = [answers EXCEPT ![h] = Append(@, "error")] /\ b = Called(h, "error")
          BY DEF Called
        <4>4. b \in Seq(Seq({"ok", "error"})) /\ Len(b) = Len(answers)
          BY <4>2, <4>3, OneCalled DEF AnswerTypes
        <4>5. answers' = [b EXCEPT ![out.writing] = Append(@, "ok")]
          BY <3>4, <4>1, <4>3 DEF NextThrows
        <4> QED BY <2>0, <3>1, <4>4, <4>5, OneCalled DEF AnswerTypes
      <3> QED BY <1>8, <3>2, <3>3, <3>4
           DEF EndSendMessage, WriteRest, SendingDone, BeginNext, NotCalled
    <2> QED BY <2>0, <2>1 DEF AnswerTypes, connecting, Ids
  <1>9. CASE heartbeat_timer_func
    <2>1. PICK overdue \in BOOLEAN, silent \in BOOLEAN :
            heartbeat_timer_func!2!(overdue, silent)
      BY <1>9 DEF heartbeat_timer_func
    <2>2. CASE overdue /\ ~AlreadyQueued("test")
      <3>1. PICK o : o = Accepting(Len(messages) + 1, "test")  OBVIOUS
      <3>2. Accepts("test") /\ Accepted("test") /\ "test" \in FromCallers \cup Internal
        BY <2>1, <2>2 DEF Internal
      <3>3. CASE silent
        <4>1. Close(o, posted) /\ UNCHANGED active_transports
          BY <2>1, <2>2, <3>1, <3>3
        <4>2. \A i \in DOMAIN o.queue : o.queue[i] \in Ids'
          <5>1. PICK n \in Nat : n = Len(messages) + 1  BY <1>0
          <5>2. messages' = Append(messages, "test")  BY <3>2 DEF Accepted
          <5>3. CASE out.sending
            <6>1. o.queue = Enqueued(n, "test")
              <7>1. o = [out EXCEPT !.queue = Enqueued(n, "test")]
                BY <3>1, <5>1, <5>3 DEF Accepting
              <7> QED BY <7>1, OutFields DEF SendInv
            <6>2. \A i \in DOMAIN o.queue : o.queue[i] \in 1..n
              BY <3>2, <5>1, <5>2, <6>1, EnqueuedFits
            <6> QED BY <3>2, <5>1, <6>2, AcceptTypes DEF Ids
          <5>4. CASE ~out.sending
            <6>1. o.queue = out.queue
              BY <3>1, <5>4 DEF Accepting, BeginSendMessage
            <6> QED BY <3>2, <6>1, AcceptTypes DEF SendInv, SendTypes
          <5> QED BY <5>3, <5>4
        <4>3. posted \subseteq Events(Ids')  BY <3>2, AcceptTypes
        <4>4. active_transports' \in BOOLEAN  BY <4>1 DEF AnswerTypes
        <4> QED BY <3>2, <4>1, <4>2, <4>3, <4>4, AcceptTypes, CloseTypes
      <3>4. CASE ~silent
        <4>1. UNCHANGED <<connecting, posted, connect_answers>>
          BY <2>1, <2>2, <3>4
        <4> QED BY <3>2, <4>1, AcceptTypes DEF AnswerTypes, connecting
      <3> QED BY <3>3, <3>4
    <2>3. CASE ~(overdue /\ ~AlreadyQueued("test"))
      <3>1. UNCHANGED <<messages, answers>>  BY <2>1, <2>3 DEF histories
      <3>2. CASE silent
        <4>1. Close(out, posted) /\ UNCHANGED active_transports  BY <2>1, <2>3, <3>2
        <4> QED BY <1>0, <3>1, <4>1, CloseTypes DEF AnswerTypes, SendInv, SendTypes, Ids
      <3>3. CASE ~silent
        <4>1. UNCHANGED <<connecting, posted, connect_answers>>
          BY <2>1, <2>3, <3>3
        <4> QED BY <3>1, <4>1 DEF AnswerTypes, connecting, Ids
      <3> QED BY <3>2, <3>3
    <2> QED BY <2>2, <2>3
  <1>10. CASE RunPosted
    <2>1. CASE RunAttachError
      <3>1. posted' \subseteq Events(Ids')
        BY <2>1, EventsMembers DEF RunAttachError, AttachFailed, AnswerTypes, histories, Ids
      <3> QED BY <2>1, <3>1 DEF RunAttachError, AnswerTypes, connecting, histories
    <2>2. CASE RunClose
      <3>1. /\ Close(out, posted \ {PostedClose})
            /\ UNCHANGED <<messages, answers, active_transports>>
        BY <2>2 DEF RunClose, histories
      <3> QED BY <1>0, <3>1, CloseTypes DEF AnswerTypes, SendInv, SendTypes, Ids
    <2>3. ASSUME NEW result \in {"ok", "error"}, RunConnectAnswer(result)
          PROVE  AnswerTypes'
      BY <2>3 DEF RunConnectAnswer, AnswerTypes, connecting, histories, Ids
    <2>4. ASSUME NEW result \in {"ok", "error"}, NEW m \in 1..MaxSends, RunAnswer(m, result)
          PROVE  AnswerTypes'
      <3>1. messages' = messages /\ Answer(m, result) \in posted
            /\ answers' = [answers EXCEPT ![m] = Append(@, result)]
        BY <2>4 DEF RunAnswer, Called
      <3>2. m \in 1..Len(answers)
        BY <3>1, EventsMembers DEF AnswerTypes, Ids
      <3>3. answers' \in Seq(Seq({"ok", "error"})) /\ Len(answers') = Len(messages')
        BY <3>1, <3>2, OneCalled DEF AnswerTypes
      <3>4. CASE /\ Close(out, posted \ {Answer(m, result)})
                 /\ UNCHANGED active_transports
        BY <1>0, <3>1, <3>3, <3>4, CloseTypes DEF AnswerTypes, SendInv, SendTypes, Ids
      <3>5. CASE /\ posted' = posted \ {Answer(m, result)}
                 /\ UNCHANGED <<connecting, connect_answers>>
        BY <3>1, <3>3, <3>5 DEF AnswerTypes, connecting, Ids
      <3> QED BY <2>4, <3>4, <3>5 DEF RunAnswer
    <2> QED BY <1>10, <2>1, <2>2, <2>3, <2>4 DEF RunPosted
  <1>11. CASE UNCHANGED vars
    BY <1>11 DEF vars, connecting, histories, AnswerTypes, Ids
  <1> QED BY <1>1, <1>2, <1>3, <1>4, <1>5, <1>6, <1>7, <1>8, <1>9, <1>10, <1>11 DEF Next

-----------------------------------------------------------------------------
(* Where the handlers of messages are.                                     *)

\* A message stays where it is if it is queued, written, posted and called alike.
LEMMA PlaceKept ==
  ASSUME NEW m, NEW o, NEW events, NEW called,
         \E place \in Places : InPlace(m, place, o, events, called),
         NEW o2, NEW events2, NEW called2,
         m \in ToSet(o2.queue) <=> m \in ToSet(o.queue),
         o2.writing = m <=> o.writing = m,
         Answer(m, "ok") \in events2 <=> Answer(m, "ok") \in events,
         Answer(m, "error") \in events2 <=> Answer(m, "error") \in events,
         called2[m] = called[m]
  PROVE  \E place \in Places : InPlace(m, place, o2, events2, called2)
  <1>1. PICK place \in Places : InPlace(m, place, o, events, called)  OBVIOUS
  <1>2. InPlace(m, place, o2, events2, called2)  BY <1>1 DEF InPlace
  <1> QED BY <1>2

\* A message is moved from a place to another.
LEMMA PlaceMoved ==
  ASSUME NEW m, NEW o, NEW events, NEW called, NEW from \in Places,
         \E place \in Places : InPlace(m, place, o, events, called),
         \/ from = "queued" /\ m \in ToSet(o.queue)
         \/ from = "writing" /\ o.writing = m
         \/ from \in {"ok", "error"} /\ Answer(m, from) \in events
  PROVE  InPlace(m, from, o, events, called)
  <1>1. PICK place \in Places : InPlace(m, place, o, events, called)  OBVIOUS
  <1>2. place = from  BY <1>1 DEF InPlace, Places
  <1> QED BY <1>1, <1>2

\* Closing posts an error to everything that is queued.
LEMMA Flushed ==
  ASSUME NEW ids, NEW o, NEW events, NEW called, MessagePlaces(ids, o, events, called),
         NEW o2, o2.queue = <<>>, o2.writing = o.writing,
         NEW events2, events2 = events \cup FlushErrors(o) \cup HandshakeError
  PROVE  MessagePlaces(ids, o2, events2, called)
  <1>1. ToSet(o2.queue) = {}
    <2>1. DOMAIN <<>> = {}  OBVIOUS
    <2> QED BY <2>1 DEF ToSet
  <1>2. /\ \A m : Answer(m, "ok") \in events2 <=> Answer(m, "ok") \in events
        /\ \A m : Answer(m, "error") \in events2
                    <=> Answer(m, "error") \in events \/ m \in ToSet(o.queue)
    <2>1. /\ \A m : Answer(m, "ok") \notin FlushErrors(o)
          /\ \A m : Answer(m, "error") \in FlushErrors(o) <=> m \in ToSet(o.queue)
      BY EventsDiffer DEF FlushErrors
    <2>2. \A m, r : Answer(m, r) \notin HandshakeError
      BY EventsDiffer DEF HandshakeError
    <2> QED BY <2>1, <2>2
  <1>3. ASSUME NEW m \in ids
        PROVE  \E place \in Places : InPlace(m, place, o2, events2, called)
    <2>1. PICK place \in Places : InPlace(m, place, o, events, called)
      BY DEF MessagePlaces
    <2>2. CASE place = "queued"
      <3>1. InPlace(m, "error", o2, events2, called)
        BY <1>1, <1>2, <2>1, <2>2 DEF InPlace
      <3> QED BY <3>1 DEF Places
    <2>3. CASE place # "queued"
      <3>1. m \notin ToSet(o.queue)  BY <2>1, <2>3 DEF InPlace
      <3>2. InPlace(m, place, o2, events2, called)
        BY <1>1, <1>2, <2>1, <2>3, <3>1 DEF InPlace
      <3> QED BY <3>2
    <2> QED BY <2>2, <2>3
  <1> QED BY <1>3 DEF MessagePlaces

\* A close keeps every handler in a place.
LEMMA ClosePlaces ==
  ASSUME NEW ids, NEW o, NEW p, NEW called, MessagePlaces(ids, o, p, called), Close(o, p),
         o \in [sending : BOOLEAN, queue : Seq(Nat), writing : Nat, left : {0, 1}]
  PROVE  MessagePlaces(ids, out', posted', called)
  <1>1. CASE out' = o /\ posted' = p  BY <1>1
  <1>2. CASE /\ out' = [o EXCEPT !.queue = <<>>]
             /\ posted' = p \cup FlushErrors(o) \cup HandshakeError
    <2>1. out'.queue = <<>> /\ out'.writing = o.writing  BY <1>2
    <2> QED BY <1>2, <2>1, Flushed
  <1> QED BY <1>1, <1>2 DEF Close

\* The events change, but not those that answer messages.
LEMMA EventsKept ==
  ASSUME NEW ids, NEW o, NEW events, NEW called, MessagePlaces(ids, o, events, called),
         NEW events2,
         \A m, r : Answer(m, r) \in events2 <=> Answer(m, r) \in events
  PROVE  MessagePlaces(ids, o, events2, called)
  BY PlaceKept DEF MessagePlaces

\* With message n queued, a packet replaces the packet there is.
LEMMA EnqueuedSet ==
  ASSUME SendTypes, NEW kind, NEW n \in Nat, NEW e, e = Enqueued(n, kind)
  PROVE  ToSet(e) = {m \in ToSet(out.queue) :
                        ~(kind = "packet" /\ messages[m] = "packet")} \cup {n}
  <1>0. PICK c, C : c = out.queue /\ C = Len(out.queue)  OBVIOUS
  <1>1. c \in Seq(Nat) /\ C \in Nat /\ DOMAIN c = 1..C  BY <1>0, OutFields
  <1>2. CASE kind = "packet" /\ Queued(kind) # {}
    <2>1. DOMAIN e = 1..C /\ \A q \in 1..C :
            e[q] = IF messages[c[q]] = "packet" THEN n ELSE c[q]
      BY <1>0, <1>1, <1>2 DEF Enqueued, Queued
    <2>2. PICK x \in 1..C : messages[c[x]] = "packet"
      BY <1>0, <1>1, <1>2 DEF Queued
    <2>3. e[x] = n  BY <2>1, <2>2
    <2>4. \A m \in ToSet(e) : m = n \/ (m \in ToSet(c) /\ messages[m] # "packet")
      BY <1>1, <2>1 DEF ToSet
    <2>5. \A m \in ToSet(c) : messages[m] # "packet" => m \in ToSet(e)
      BY <1>1, <2>1 DEF ToSet
    <2>6. n \in ToSet(e)  BY <2>1, <2>3 DEF ToSet
    <2> QED BY <1>0, <1>2, <2>4, <2>5, <2>6
  <1>3. CASE ~(kind = "packet" /\ Queued(kind) # {})
    <2>1. e = Append(c, n)  BY <1>0, <1>3 DEF Enqueued
    <2>2. /\ DOMAIN e = 1..(C + 1)
          /\ e[C + 1] = n /\ \A q \in 1..C : e[q] = c[q]
      <3>1. c \in Seq(Nat) /\ Len(c) = C  BY <1>0, <1>1
      <3> QED BY ONLY <2>1, <3>1, Appended, n \in Nat
    <2>3. \A m \in ToSet(c) : ~(kind = "packet" /\ messages[m] = "packet")
      BY <1>0, <1>1, <1>3 DEF Queued, ToSet
    <2>4. \A q \in 1..(C + 1) : q = C + 1 \/ q \in 1..C  BY <1>1
    <2>5. \A m \in ToSet(e) : m = n \/ m \in ToSet(c)
      BY <1>1, <2>2, <2>4 DEF ToSet
    <2>6. \A m \in ToSet(c) : m \in ToSet(e)
      <3> TAKE m \in ToSet(c)
      <3>1. PICK q \in 1..C : m = c[q]  BY <1>1 DEF ToSet
      <3>2. q \in DOMAIN e /\ e[q] = m  BY <1>1, <2>2, <3>1
      <3> QED BY <3>2 DEF ToSet
    <2>7. n \in ToSet(e)
      <3>1. C + 1 \in DOMAIN e  BY <1>1, <2>2
      <3> QED BY <2>2, <3>1 DEF ToSet
    <2> QED BY <1>0, <2>3, <2>5, <2>6, <2>7
  <1> QED BY <1>2, <1>3

\* The first of the queue is queued no more once it is taken.
LEMMA HeadTaken ==
  ASSUME SendTypes, QueueFits, out.queue # <<>>,
         NEW h, h = Head(out.queue), NEW t, t = Tail(out.queue)
  PROVE  h \in ToSet(out.queue) /\ ToSet(t) = ToSet(out.queue) \ {h}
  <1>0. PICK c, C : c = out.queue /\ C = Len(out.queue)  OBVIOUS
  <1>1. c \in Seq(Nat) /\ C \in Nat /\ DOMAIN c = 1..C /\ C > 0 /\ h = c[1]
    BY <1>0, OutFields
  <1>2. DOMAIN t = 1..(C - 1) /\ \A q \in 1..(C - 1) : t[q] = c[q + 1]
    BY <1>0, <1>1
  <1>3. \A q \in 1..C : q # 1 => c[q] # h
    <2> TAKE q \in 1..C
    <2>1. ASSUME q # 1 PROVE c[q] # h
      <3>1. 1 \in DOMAIN c /\ q \in DOMAIN c /\ 1 < q  BY <1>1, <2>1
      <3>2. MayPrecede(messages, c[1], c[q])  BY <1>0, <3>1 DEF QueueFits
      <3> QED BY <1>1, <3>2 DEF MayPrecede
    <2> QED BY <2>1
  <1>4. h \in ToSet(c)
    <2>1. 1 \in DOMAIN c  BY <1>1
    <2> QED BY <1>1, <2>1 DEF ToSet
  <1>5. ASSUME NEW m \in ToSet(t) PROVE m \in ToSet(c) /\ m # h
    <2>1. PICK q \in 1..(C - 1) : m = t[q]  BY <1>2 DEF ToSet
    <2>2. q + 1 \in 1..C /\ q + 1 # 1 /\ m = c[q + 1]  BY <1>1, <1>2, <2>1
    <2> QED BY <1>1, <1>3, <2>2 DEF ToSet
  <1>6. ASSUME NEW m \in ToSet(c), m # h PROVE m \in ToSet(t)
    <2>1. PICK q \in 1..C : m = c[q]  BY <1>1 DEF ToSet
    <2>2. q - 1 \in 1..(C - 1) /\ (q - 1) + 1 = q  BY <1>1, <1>6, <2>1
    <2>3. t[q - 1] = m  BY <1>2, <2>1, <2>2
    <2> QED BY <1>2, <2>2, <2>3 DEF ToSet
  <1> QED BY <1>0, <1>4, <1>5, <1>6

\* A message that is accepted is queued or written, and what it replaces is answered.
LEMMA AcceptPlaces ==
  ASSUME SendInv, AnswerTypes, MessagePlaces(Ids, out, posted, answers),
         NEW kind \in FromCallers \cup Internal, Accepts(kind), Accepted(kind),
         NEW o, o = Accepting(Len(messages) + 1, kind)
  PROVE  /\ MessagePlaces(Ids', o, posted \cup Superseded(kind), answers')
         /\ o \in [sending : BOOLEAN, queue : Seq(Nat), writing : Nat, left : {0, 1}]
  <1>1. PICK n \in Nat : n = Len(messages) + 1  BY DEF SendInv, SendTypes
  <1>2. /\ \A m \in Ids : m # n /\ m # 0 /\ answers'[m] = answers[m]
        /\ answers'[n] = <<>> /\ n # 0
        /\ \A m, r : Answer(m, r) \in posted => m \in Ids
        /\ \A q \in DOMAIN out.queue : out.queue[q] \in Ids
        /\ out.writing \in Ids \cup {0}
    <2>1. answers' = Append(answers, <<>>) /\ Len(answers) = Len(messages)
          /\ answers \in Seq(Seq({"ok", "error"})) /\ Len(messages) \in Nat
      BY DEF Accepted, AnswerTypes, SendInv, SendTypes
    <2>2. \A m \in Ids : m # n /\ m # 0 /\ answers'[m] = answers[m]  BY <1>1, <2>1 DEF Ids
    <2>3. answers'[n] = <<>> /\ n # 0  BY <1>1, <2>1
    <2>4. \A m, r : Answer(m, r) \in posted => m \in Ids
      BY EventsMembers DEF AnswerTypes
    <2> QED BY <2>2, <2>3, <2>4 DEF SendInv, SendTypes, NoMessage
  <1>3. Ids' = Ids \cup {n}  BY <1>1, AcceptTypes
  <1>4. messages' = Append(messages, kind)  BY DEF Accepted
  <1>5. n \notin ToSet(out.queue)  BY <1>2 DEF ToSet
  <1>6. CASE out.sending
    <2>1. PICK e : e = Enqueued(n, kind)  OBVIOUS
    <2>2. o = [sending |-> out.sending, queue |-> e,
               writing |-> out.writing, left |-> out.left]
      BY <1>1, <1>6, <2>1, OutFields DEF Accepting, SendInv
    <2>3. e \in Seq(Nat)  BY <1>1, <1>4, <2>1, EnqueuedFits
    <2>4. ToSet(e) = {m \in ToSet(out.queue) :
                        ~(kind = "packet" /\ messages[m] = "packet")} \cup {n}
      BY <2>1, EnqueuedSet DEF SendInv
    <2>5. \A m, r : Answer(m, r) \in Superseded(kind) <=>
            /\ r = "ok" /\ m \in ToSet(out.queue)
            /\ kind = "packet" /\ messages[m] = "packet"
      <3>1. Superseded(kind) = IF kind = "packet"
                               THEN {Answer(out.queue[i], "ok") : i \in Queued(kind)}
                               ELSE {}
        BY <1>6 DEF Superseded
      <3>2. CASE kind = "packet"
        <4>1. \A m, r : Answer(m, r) \in Superseded(kind) <=>
                \E i \in Queued(kind) : Answer(m, r) = Answer(out.queue[i], "ok")
          BY <3>1, <3>2
        <4>2. \A m, r : Answer(m, r) \in Superseded(kind) <=>
                r = "ok" /\ \E i \in Queued(kind) : m = out.queue[i]
          BY <4>1, EventsDiffer
        <4> QED BY <3>2, <4>2 DEF Queued, ToSet
      <3>3. CASE kind # "packet"  BY <3>1, <3>3
      <3> QED BY <3>2, <3>3
    <2>6. o.queue = e /\ o.writing = out.writing  BY <2>2
    <2>7. ASSUME NEW m \in Ids
          PROVE  \E place \in Places :
                   InPlace(m, place, o, posted \cup Superseded(kind), answers')
      <3>1. PICK place \in Places : InPlace(m, place, out, posted, answers)
        BY DEF MessagePlaces
      <3>2. m \in ToSet(o.queue) <=>
              m \in ToSet(out.queue) /\ ~(kind = "packet" /\ messages[m] = "packet")
        BY <1>2, <2>4, <2>6
      <3>3. CASE /\ m \in ToSet(out.queue)
                 /\ kind = "packet" /\ messages[m] = "packet"
        <4>1. place = "queued"  BY <3>1, <3>3 DEF InPlace
        <4>2. InPlace(m, "ok", o, posted \cup Superseded(kind), answers')
          BY <1>2, <2>5, <2>6, <3>1, <3>2, <3>3, <4>1 DEF InPlace
        <4> QED BY <4>2 DEF Places
      <3>4. CASE ~(/\ m \in ToSet(out.queue)
                   /\ kind = "packet" /\ messages[m] = "packet")
        <4>1. InPlace(m, place, o, posted \cup Superseded(kind), answers')
          BY <1>2, <2>5, <2>6, <3>1, <3>2, <3>4 DEF InPlace
        <4> QED BY <4>1
      <3> QED BY <3>3, <3>4
    <2>8. InPlace(n, "queued", o, posted \cup Superseded(kind), answers')
      <3>1. \A r : Answer(n, r) \notin posted \cup Superseded(kind)
        BY <1>2, <1>5, <2>5
      <3> QED BY <1>2, <2>4, <2>6, <3>1 DEF InPlace
    <2>9. o \in [sending : BOOLEAN, queue : Seq(Nat), writing : Nat, left : {0, 1}]
      BY <2>2, <2>3, OutFields DEF SendInv
    <2> QED BY <1>3, <2>7, <2>8, <2>9 DEF MessagePlaces, Places
  <1>7. CASE ~out.sending
    <2>1. o = [sending |-> TRUE, queue |-> out.queue, writing |-> n,
               left |-> Pieces(kind) - 1]
      BY <1>1, <1>7 DEF Accepting, BeginSendMessage
    <2>2. o.queue = out.queue /\ o.writing = n  BY <2>1
    <2>3. out.writing = 0  BY <1>7 DEF SendInv, QueueFits, NoMessage
    <2>4. posted \cup Superseded(kind) = posted  BY <1>7 DEF Superseded
    <2>5. ASSUME NEW m \in Ids
          PROVE  \E place \in Places :
                   InPlace(m, place, o, posted, answers')
      <3>1. \E place \in Places : InPlace(m, place, out, posted, answers)
        BY DEF MessagePlaces
      <3>2. /\ m \in ToSet(o.queue) <=> m \in ToSet(out.queue)
            /\ o.writing = m <=> out.writing = m
            /\ answers'[m] = answers[m]
        BY <1>2, <2>2, <2>3
      <3> QED BY <3>1, <3>2, PlaceKept
    <2>6. InPlace(n, "writing", o, posted, answers')
      <3>1. \A r : Answer(n, r) \notin posted  BY <1>2
      <3> QED BY <1>2, <1>5, <2>2, <3>1 DEF InPlace
    <2>7. o \in [sending : BOOLEAN, queue : Seq(Nat), writing : Nat, left : {0, 1}]
      <3>1. PICK k : k = Pieces(kind) - 1  OBVIOUS
      <3>2. k \in {0, 1}  BY <3>1, PiecesOneOrTwo
      <3>3. o = [sending |-> TRUE, queue |-> out.queue, writing |-> n, left |-> k]
        BY <2>1, <3>1, Zenon
      <3>4. out.queue \in Seq(Nat)  BY OutFields DEF SendInv
      <3>5. TRUE \in BOOLEAN /\ n \in Nat  OBVIOUS
      <3> QED BY ONLY <3>2, <3>3, <3>4, <3>5
    <2> QED BY <1>3, <2>4, <2>5, <2>6, <2>7 DEF MessagePlaces, Places
  <1> QED BY <1>6, <1>7

\* The end of a write moves the handlers of the message written and of the next.
LEMMA EndPlaces ==
  ASSUME SendInv, AnswerTypes, MessagePlaces(Ids, out, posted, answers), EndSendMessage
  PROVE  MessagePlaces(Ids, out', posted', answers')
  <1>1. posted' = posted /\ messages' = messages /\ out.writing # NoMessage
    BY DEF EndSendMessage
  <1>2. PICK w : w = out.writing  OBVIOUS
  <1>3. w \in Ids /\ w # NoMessage /\ w \in 1..Len(answers)
        /\ Ids = 1..Len(answers) /\ answers \in Seq(Seq({"ok", "error"}))
    BY <1>1, <1>2 DEF SendInv, SendTypes, AnswerTypes, Ids
  <1>4. InPlace(w, "writing", out, posted, answers)
    <2>1. \E place \in Places : InPlace(w, place, out, posted, answers)
      BY <1>3 DEF MessagePlaces
    <2> QED BY <1>2, <2>1, PlaceMoved DEF Places
  <1>5. /\ w \notin ToSet(out.queue) /\ answers[w] = <<>>
        /\ Answer(w, "ok") \notin posted /\ Answer(w, "error") \notin posted
    BY <1>4 DEF InPlace
  <1>6. Called(w, "ok") = [answers EXCEPT ![w] = Append(@, "ok")]  BY DEF Called
  <1>7. PICK b : b = Called(w, "ok")  OBVIOUS
  <1>8. b[w] = <<"ok">> /\ \A m \in Ids : m # w => b[m] = answers[m]
    BY <1>3, <1>5, <1>6, <1>7, OneCalled
  <1>9. CASE WriteRest
    <2>1. out'.queue = out.queue /\ out'.writing = out.writing /\ answers' = answers
      <3>1. out' = [out EXCEPT !.left = @ - 1]  BY <1>9 DEF WriteRest
      <3> QED BY <1>9, <3>1, OutFields DEF SendInv, WriteRest, NotCalled
    <2> QED BY <1>1, <2>1, PlaceKept DEF MessagePlaces
  <1>10. CASE SendingDone
    <2>1. out'.queue = out.queue /\ out'.writing = NoMessage /\ answers' = b
      <3>1. out' = [out EXCEPT !.sending = FALSE, !.writing = NoMessage]
        BY <1>10 DEF SendingDone
      <3>2. answers' = b  BY <1>2, <1>7, <1>10 DEF SendingDone
      <3> QED BY <3>1, <3>2, OutFields DEF SendInv
    <2>2. ASSUME NEW m \in Ids
          PROVE  \E place \in Places : InPlace(m, place, out', posted, b)
      <3>1. \E place \in Places : InPlace(m, place, out, posted, answers)
        BY DEF MessagePlaces
      <3>2. CASE m = w
        <4>1. Len(b[m]) = 1  BY <1>8, <3>2
        <4>2. InPlace(m, "called", out', posted, b)
          BY <1>3, <1>5, <2>1, <3>2, <4>1 DEF InPlace
        <4> QED BY <4>2 DEF Places
      <3>3. CASE m # w
        <4>1. m # NoMessage  BY DEF Ids, NoMessage
        <4> QED BY <1>2, <1>8, <2>1, <3>1, <3>3, <4>1, PlaceKept
      <3> QED BY <3>2, <3>3
    <2> QED BY <1>1, <2>1, <2>2 DEF MessagePlaces
  <1>11. CASE BeginNext \/ NextThrows
    <2>0. out.queue # <<>>  BY <1>11 DEF BeginNext, NextThrows, NothingQueued
    <2>1. PICK h, t : h = Head(out.queue) /\ t = Tail(out.queue)  OBVIOUS
    <2>2. h \in ToSet(out.queue) /\ ToSet(t) = ToSet(out.queue) \ {h}
          /\ h \in Ids /\ h # w /\ h # NoMessage
      <3>1. h \in ToSet(out.queue) /\ ToSet(t) = ToSet(out.queue) \ {h}
        BY <2>0, <2>1, HeadTaken DEF SendInv
      <3>2. h \in Ids  BY <2>0, <2>1, QueueHead
      <3> QED BY <1>5, <3>1, <3>2 DEF Ids, NoMessage
    <2>3. InPlace(h, "queued", out, posted, answers)
      <3>1. \E place \in Places : InPlace(h, place, out, posted, answers)
        BY <2>2 DEF MessagePlaces
      <3> QED BY <2>2, <3>1, PlaceMoved DEF Places
    <2>4. /\ answers[h] = <<>>
          /\ Answer(h, "ok") \notin posted /\ Answer(h, "error") \notin posted
      BY <2>3 DEF InPlace
    <2>5. CASE BeginNext
      <3>1. out'.queue = t /\ out'.writing = h /\ answers' = b
        BY <1>2, <1>7, <2>1, <2>5 DEF BeginNext, BeginSendMessage
      <3>2. ASSUME NEW m \in Ids
            PROVE  \E place \in Places : InPlace(m, place, out', posted, b)
        <4>1. \E place \in Places : InPlace(m, place, out, posted, answers)
          BY DEF MessagePlaces
        <4>2. CASE m = w
          <5>1. Len(b[m]) = 1  BY <1>8, <4>2
          <5>2. InPlace(m, "called", out', posted, b)
            BY <1>5, <2>2, <3>1, <4>2, <5>1 DEF InPlace
          <5> QED BY <5>2 DEF Places
        <4>3. CASE m = h
          <5>1. b[m] = <<>>  BY <1>8, <2>2, <2>4, <4>3
          <5>2. InPlace(m, "writing", out', posted, b)
            BY <2>2, <2>4, <3>1, <4>3, <5>1 DEF InPlace
          <5> QED BY <5>2 DEF Places
        <4>4. CASE m # w /\ m # h
          <5>1. /\ m \in ToSet(out'.queue) <=> m \in ToSet(out.queue)
                /\ out'.writing = m <=> out.writing = m
                /\ b[m] = answers[m]
            BY <1>2, <1>8, <2>2, <3>1, <4>4
          <5> QED BY <4>1, <5>1, PlaceKept
        <4> QED BY <4>2, <4>3, <4>4
      <3> QED BY <1>1, <3>1, <3>2 DEF MessagePlaces
    <2>6. CASE NextThrows
      <3>1. out'.queue = t /\ out'.writing = NoMessage
        <4>1. out' = [out EXCEPT !.queue = t, !.writing = NoMessage]
          BY <2>1, <2>6 DEF NextThrows
        <4> QED BY <4>1, OutFields DEF SendInv
      <3>2. PICK a : a = Called(h, "error")  OBVIOUS
      <3>3. a = [answers EXCEPT ![h] = Append(@, "error")]  BY <3>2 DEF Called
      <3>4. /\ a \in Seq(Seq({"ok", "error"})) /\ Len(a) = Len(answers)
            /\ a[h] = Append(answers[h], "error")
            /\ \A m \in Ids : m # h => a[m] = answers[m]
        BY <1>3, <2>2, <3>3, OneCalled
      <3>5. answers' = [a EXCEPT ![w] = Append(@, "ok")]
        BY <1>2, <2>1, <2>6, <3>2 DEF NextThrows
      <3>6. /\ answers'[w] = Append(answers[w], "ok")
            /\ answers'[h] = Append(answers[h], "error")
            /\ \A m \in Ids : m # h /\ m # w => answers'[m] = answers[m]
        BY <1>3, <2>2, <3>4, <3>5, OneCalled
      <3>7. Len(answers'[w]) = 1 /\ Len(answers'[h]) = 1  BY <1>5, <2>4, <3>6
      <3>8. ASSUME NEW m \in Ids
            PROVE  \E place \in Places : InPlace(m, place, out', posted, answers')
        <4>1. \E place \in Places : InPlace(m, place, out, posted, answers)
          BY DEF MessagePlaces
        <4>2. CASE m = w \/ m = h
          <5>1. InPlace(m, "called", out', posted, answers')
            BY <1>3, <1>5, <2>2, <2>4, <3>1, <3>7, <4>2 DEF InPlace
          <5> QED BY <5>1 DEF Places
        <4>3. CASE m # w /\ m # h
          <5>1. m # NoMessage  BY DEF Ids, NoMessage
          <5>2. /\ m \in ToSet(out'.queue) <=> m \in ToSet(out.queue)
                /\ out'.writing = m <=> out.writing = m
                /\ answers'[m] = answers[m]
            BY <1>2, <2>2, <3>1, <3>6, <4>3, <5>1
          <5> QED BY <4>1, <5>2, PlaceKept
        <4> QED BY <4>2, <4>3
      <3> QED BY <1>1, <3>8 DEF MessagePlaces
    <2> QED BY <1>11, <2>5, <2>6
  <1> QED BY <1>9, <1>10, <1>11 DEF EndSendMessage

\* A posted answer is given.
LEMMA AnswerPlaces ==
  ASSUME SendInv, AnswerTypes, MessagePlaces(Ids, out, posted, answers),
         NEW result \in {"ok", "error"}, NEW m, RunAnswer(m, result)
  PROVE  MessagePlaces(Ids, out', posted', answers')
  <1>1. Answer(m, result) \in posted /\ answers' = Called(m, result)
    BY DEF RunAnswer
  <1>2. m \in Ids  BY <1>1, EventsMembers DEF AnswerTypes
  <1>3. InPlace(m, result, out, posted, answers)
    <2>1. \E place \in Places : InPlace(m, place, out, posted, answers)
      BY <1>2 DEF MessagePlaces
    <2> QED BY <1>1, <2>1, PlaceMoved DEF Places
  <1>4. PICK p : p = posted \ {Answer(m, result)}  OBVIOUS
  <1>5. \A n, r : Answer(n, r) \in p <=> Answer(n, r) \in posted /\ ~(n = m /\ r = result)
    BY <1>4, EventsDiffer
  <1>6. /\ answers'[m] = Append(answers[m], result)
        /\ \A n \in Ids : n # m => answers'[n] = answers[n]
    BY <1>1, <1>2, OneCalled DEF Called, AnswerTypes, Ids
  <1>7. MessagePlaces(Ids, out, p, answers')
    <2> SUFFICES ASSUME NEW n \in Ids
                 PROVE  \E place \in Places : InPlace(n, place, out, p, answers')
      BY DEF MessagePlaces
    <2>1. CASE n = m
      <3>1. /\ m \notin ToSet(out.queue) /\ out.writing # m /\ answers[m] = <<>>
            /\ \A r \in {"ok", "error"} : r # result => Answer(m, r) \notin posted
        BY <1>3 DEF InPlace
      <3>2. Len(answers'[m]) = 1  BY <1>6, <3>1
      <3>3. InPlace(n, "called", out, p, answers')
        BY <1>5, <2>1, <3>1, <3>2 DEF InPlace
      <3> QED BY <3>3 DEF Places
    <2>2. CASE n # m
      <3>1. \E place \in Places : InPlace(n, place, out, posted, answers)
        BY DEF MessagePlaces
      <3>2. /\ Answer(n, "ok") \in p <=> Answer(n, "ok") \in posted
            /\ Answer(n, "error") \in p <=> Answer(n, "error") \in posted
        BY <1>5, <2>2
      <3>3. answers'[n] = answers[n]  BY <1>6, <2>2
      <3> QED BY ONLY <3>1, <3>2, <3>3, PlaceKept
    <2> QED BY <2>1, <2>2
  <1>8. CASE Close(out, p)
    BY <1>7, <1>8, ClosePlaces DEF SendInv, SendTypes
  <1>9. CASE posted' = p /\ UNCHANGED out  BY <1>7, <1>9
  <1> QED BY <1>4, <1>8, <1>9 DEF RunAnswer

\* Every step keeps every message's handler in one place.
LEMMA PlacesStep ==
  ASSUME SendInv, AnswerTypes, Unopened, MessagePlaces(Ids, out, posted, answers),
         [Next]_vars
  PROVE  MessagePlaces(Ids, out, posted, answers)'
  <1>0. /\ out \in [sending : BOOLEAN, queue : Seq(Nat), writing : Nat, left : {0, 1}]
        /\ AnswerTypes
    BY DEF SendInv, SendTypes
  <1>1. ASSUME UNCHANGED <<out, messages, answers>>,
               \A m, r : Answer(m, r) \in posted' <=> Answer(m, r) \in posted
        PROVE  MessagePlaces(Ids', out', posted', answers')
    <2>1. MessagePlaces(Ids, out, posted', answers)  BY <1>1, EventsKept
    <2> QED BY <1>1, <2>1 DEF Ids
  <1>2. ASSUME NEW p, \A m, r : Answer(m, r) \in p <=> Answer(m, r) \in posted,
               Close(out, p), UNCHANGED <<messages, answers>>
        PROVE  MessagePlaces(Ids', out', posted', answers')
    <2>1. MessagePlaces(Ids, out, p, answers)  BY <1>2, EventsKept
    <2>2. MessagePlaces(Ids, out', posted', answers)  BY <1>0, <1>2, <2>1, ClosePlaces
    <2> QED BY <1>2, <2>2 DEF Ids
  <1>3. CASE AsyncConnect  BY <1>1, <1>3 DEF AsyncConnect, histories
  <1>4. CASE WebsocketOpen
    <2>1. CASE UNCHANGED <<out, messages, answers>>
      <3>1. posted' = posted \/ posted' = posted \cup {ConnectAnswer("ok")}
        BY <1>4 DEF WebsocketOpen, AttachAsServer, BeginStreamOp
      <3>2. \A m, r : Answer(m, r) \in posted' <=> Answer(m, r) \in posted
        BY <3>1, EventsDiffer
      <3> QED BY <1>1, <2>1, <3>2
    <2>2. CASE BeginStreamOp
      <3>1. /\ messages' = <<"streamop">> /\ answers' = <<<<>>>> /\ posted' = {}
            /\ out' = [sending |-> TRUE, queue |-> <<>>, writing |-> 1, left |-> 0]
        BY <1>4, <2>2 DEF WebsocketOpen, Unopened, BeginStreamOp, BeginSendMessage, Pieces
      <3>2. Ids' = {1} /\ answers'[1] = <<>>  BY <3>1 DEF Ids
      <3>3. ToSet(out'.queue) = {} /\ out'.writing = 1
        <4>1. DOMAIN <<>> = {}  OBVIOUS
        <4> QED BY <3>1, <4>1 DEF ToSet
      <3>4. InPlace(1, "writing", out', posted', answers')
        BY <3>1, <3>2, <3>3 DEF InPlace
      <3> QED BY <3>2, <3>4 DEF MessagePlaces, Places
    <2> QED BY <1>4, <2>1, <2>2 DEF WebsocketOpen, AttachAsServer, histories
  <1>5. CASE SocketLost  BY <1>1, <1>5 DEF SocketLost, histories
  <1>6. CASE WebsocketEnds \/ CloseTransportConnection \/ ReceiveFails
    <2>1. Close(out, posted) /\ UNCHANGED <<messages, answers>>
      BY <1>6 DEF WebsocketEnds, CloseTransportConnection, ReceiveFails, histories
    <2> QED BY <1>2, <2>1
  <1>7. CASE StreamOpMessageReceived
    <2>1. UNCHANGED <<out, messages, answers>>
      BY <1>7 DEF StreamOpMessageReceived, histories
    <2>2. \A m, r : Answer(m, r) \in posted' <=> Answer(m, r) \in posted
      BY <1>7, EventsDiffer DEF StreamOpMessageReceived, AttachFailed
    <2> QED BY <1>1, <2>1, <2>2
  <1>8. CASE StreamOp_timercallback
    <2>1. UNCHANGED <<out, messages, answers>>
      BY <1>8 DEF StreamOp_timercallback, histories
    <2>2. \A m, r : Answer(m, r) \in posted' <=> Answer(m, r) \in posted
      BY <1>8, EventsDiffer DEF StreamOp_timercallback
    <2> QED BY <1>1, <2>1, <2>2
  <1>9. CASE Send \/ PeerHeartbeat
    <2>1. PICK kind \in FromCallers \cup Internal : AsyncSendMessage(kind)
      BY <1>9 DEF Send, PeerHeartbeat, FromCallers, Internal
    <2>2. PICK o : o = Accepting(Len(messages) + 1, kind)  OBVIOUS
    <2>3. /\ Accepts(kind) /\ Accepted(kind) /\ out' = o
          /\ posted' = posted \cup Superseded(kind)
      BY <2>1, <2>2 DEF AsyncSendMessage
    <2> QED BY <1>0, <2>2, <2>3, AcceptPlaces
  <1>10. CASE EndSendMessage
    <2>1. messages' = messages  BY <1>10 DEF EndSendMessage
    <2> QED BY <1>0, <1>10, <2>1, EndPlaces DEF Ids
  <1>11. CASE heartbeat_timer_func
    <2>1. PICK overdue \in BOOLEAN, silent \in BOOLEAN :
            heartbeat_timer_func!2!(overdue, silent)
      BY <1>11 DEF heartbeat_timer_func
    <2>2. CASE overdue /\ ~AlreadyQueued("test")
      <3>1. PICK o : o = Accepting(Len(messages) + 1, "test")  OBVIOUS
      <3>2. Accepts("test") /\ Accepted("test") /\ "test" \in FromCallers \cup Internal
        BY <2>1, <2>2 DEF Internal
      <3>3. posted \cup Superseded("test") = posted  BY DEF Superseded
      <3>4. /\ MessagePlaces(Ids', o, posted, answers')
            /\ o \in [sending : BOOLEAN, queue : Seq(Nat), writing : Nat, left : {0, 1}]
        BY <1>0, <3>1, <3>2, <3>3, AcceptPlaces
      <3>5. CASE silent
        <4>1. Close(o, posted)  BY <2>1, <2>2, <3>1, <3>5
        <4> QED BY <3>4, <4>1, ClosePlaces
      <3>6. CASE ~silent
        <4>1. out' = o /\ posted' = posted  BY <2>1, <2>2, <3>1, <3>6
        <4> QED BY <3>4, <4>1
      <3> QED BY <3>5, <3>6
    <2>3. CASE ~(overdue /\ ~AlreadyQueued("test"))
      <3>1. UNCHANGED <<messages, answers>>  BY <2>1, <2>3 DEF histories
      <3>2. CASE silent
        <4>1. Close(out, posted)  BY <2>1, <2>3, <3>2
        <4> QED BY <1>2, <3>1, <4>1
      <3>3. CASE ~silent
        <4>1. UNCHANGED <<out, posted>>  BY <2>1, <2>3, <3>3
        <4> QED BY <1>1, <3>1, <4>1
      <3> QED BY <3>2, <3>3
    <2> QED BY <2>2, <2>3
  <1>12. CASE RunPosted
    <2>1. CASE RunAttachError
      <3>1. UNCHANGED <<out, messages, answers>>  BY <2>1 DEF RunAttachError, histories
      <3>2. \A m, r : Answer(m, r) \in posted' <=> Answer(m, r) \in posted
        BY <2>1, EventsDiffer DEF RunAttachError, AttachFailed
      <3> QED BY <1>1, <3>1, <3>2
    <2>2. CASE RunClose
      <3>1. Close(out, posted \ {PostedClose}) /\ UNCHANGED <<messages, answers>>
        BY <2>2 DEF RunClose, histories
      <3>2. \A m, r : Answer(m, r) \in posted \ {PostedClose} <=> Answer(m, r) \in posted
        BY EventsDiffer
      <3> QED BY <1>2, <3>1, <3>2
    <2>3. ASSUME NEW result \in {"ok", "error"}, RunConnectAnswer(result)
          PROVE  MessagePlaces(Ids', out', posted', answers')
      <3>1. UNCHANGED <<out, messages, answers>>
        BY <2>3 DEF RunConnectAnswer, histories
      <3>2. \A m, r : Answer(m, r) \in posted' <=> Answer(m, r) \in posted
        BY <2>3, EventsDiffer DEF RunConnectAnswer
      <3> QED BY <1>1, <3>1, <3>2
    <2>4. ASSUME NEW result \in {"ok", "error"}, NEW m \in 1..MaxSends, RunAnswer(m, result)
          PROVE  MessagePlaces(Ids', out', posted', answers')
      <3>1. messages' = messages  BY <2>4 DEF RunAnswer
      <3> QED BY <1>0, <2>4, <3>1, AnswerPlaces DEF Ids
    <2> QED BY <1>12, <2>1, <2>2, <2>3, <2>4 DEF RunPosted
  <1>13. CASE UNCHANGED vars  BY <1>1, <1>13 DEF vars, histories
  <1>14. MessagePlaces(Ids', out', posted', answers')
    BY <1>3, <1>4, <1>5, <1>6, <1>7, <1>8, <1>9, <1>10, <1>11, <1>12, <1>13 DEF Next
  <1> QED BY <1>14

-----------------------------------------------------------------------------
(* Where the connect handler is.                                           *)

\* What leaves the connect handler alone leaves it in its place.
LEMMA ConnectKept ==
  ASSUME ConnectPlaced, url_valid' = url_valid, socket = "none" => socket' = "none",
         UNCHANGED <<active_connect_handler, streamop_waiting, connect_answers>>,
         AttachError \in posted' <=> AttachError \in posted,
         \A r : ConnectAnswer(r) \in posted' <=> ConnectAnswer(r) \in posted
  PROVE  ConnectPlaced'
  <1> SUFFICES ASSUME url_valid, socket # "none"
               PROVE  \E place \in ConnectPlaces : ConnectInPlace(place)'
    BY DEF ConnectPlaced
  <1>1. PICK place \in ConnectPlaces : ConnectInPlace(place)  BY DEF ConnectPlaced
  <1>2. ConnectInPlace(place)'  BY <1>1 DEF ConnectInPlace
  <1> QED BY <1>2

\* A close answers the connect handler, or ends the handshake with an error.
LEMMA CloseConnect ==
  ASSUME AnswerTypes, ConnectPlaced, socket # "none", NEW o, NEW p, Close(o, p),
         AttachError \in p <=> AttachError \in posted,
         \A r : ConnectAnswer(r) \in p <=> ConnectAnswer(r) \in posted
  PROVE  ConnectPlaced'
  <1> SUFFICES ASSUME url_valid
               PROVE  \E place \in ConnectPlaces : ConnectInPlace(place)'
    BY DEF ConnectPlaced, Close
  <1>1. PICK place \in ConnectPlaces : ConnectInPlace(place)  BY DEF ConnectPlaced
  <1>2. /\ active_connect_handler' = FALSE
        /\ connect_answers' = IF active_connect_handler
                              THEN Append(connect_answers, "error") ELSE connect_answers
    BY DEF Close, TakeConnectHandler
  <1>3. /\ \A r : ConnectAnswer(r) \in posted' <=> ConnectAnswer(r) \in posted
        /\ \/ /\ streamop_waiting' = streamop_waiting
              /\ AttachError \in posted' <=> AttachError \in posted
           \/ /\ streamop_waiting' = FALSE
              /\ AttachError \in posted' <=> AttachError \in posted \/ streamop_waiting
    <2>1. /\ \A r : ConnectAnswer(r) \notin FlushErrors(o)
          /\ AttachError \notin FlushErrors(o)
      BY EventsDiffer DEF FlushErrors
    <2>2. /\ \A r : ConnectAnswer(r) \notin HandshakeError
          /\ AttachError \in HandshakeError <=> streamop_waiting
      BY EventsDiffer DEF HandshakeError
    <2>3. CASE posted' = p /\ streamop_waiting' = streamop_waiting  BY <2>3
    <2>4. CASE /\ posted' = p \cup FlushErrors(o) \cup HandshakeError
               /\ streamop_waiting' = FALSE
      BY <2>1, <2>2, <2>4
    <2> QED BY <2>3, <2>4 DEF Close
  <1>4. CASE active_connect_handler
    <2>1. place = "socket" /\ connect_answers = <<>>  BY <1>1, <1>4 DEF ConnectInPlace
    <2>2. Len(connect_answers') = 1  BY <1>2, <1>4, <2>1
    <2>3. ConnectInPlace("called")'  BY <1>1, <1>2, <1>3, <2>1, <2>2 DEF ConnectInPlace
    <2> QED BY <2>3 DEF ConnectPlaces
  <1>5. CASE ~active_connect_handler /\ streamop_waiting /\ ~streamop_waiting'
    <2>1. place = "handshake"  BY <1>1, <1>5 DEF ConnectInPlace
    <2>2. ConnectInPlace("attach")'
      BY <1>1, <1>2, <1>3, <1>5, <2>1 DEF ConnectInPlace
    <2> QED BY <2>2 DEF ConnectPlaces
  <1>6. CASE ~active_connect_handler /\ (streamop_waiting <=> streamop_waiting')
    <2>1. ConnectInPlace(place)'
      BY <1>1, <1>2, <1>3, <1>6 DEF ConnectInPlace
    <2> QED BY <2>1
  <1> QED BY <1>3, <1>4, <1>5, <1>6

\* Until the socket opens nothing else happens.
LEMMA BeforeOpen ==
  ASSUME SendInv, Unopened, [Next]_vars, socket \in {"none", "connecting"}
  PROVE  AsyncConnect \/ WebsocketOpen \/ SocketLost \/ UNCHANGED vars
  <1>1. /\ ~registered /\ ~heartbeat_timer /\ ~streamop_waiting
        /\ out.writing = NoMessage /\ posted = {}
    BY DEF SendInv, NotOpened, Unopened
  <1>2. ~WebsocketEnds /\ ~ReceiveFails
    BY DEF WebsocketEnds, ReceiveFails
  <1>3. ~CloseTransportConnection /\ ~StreamOpMessageReceived /\ ~StreamOp_timercallback
    BY <1>1 DEF CloseTransportConnection, StreamOpMessageReceived, StreamOp_timercallback
  <1>4. ~Send /\ ~PeerHeartbeat /\ ~EndSendMessage /\ ~heartbeat_timer_func
    BY <1>1 DEF Send, PeerHeartbeat, EndSendMessage, heartbeat_timer_func
  <1>5. ~RunPosted
    BY <1>1 DEF RunPosted, RunAttachError, RunClose, RunConnectAnswer, RunAnswer
  <1> QED BY <1>2, <1>3, <1>4, <1>5 DEF Next

\* A socket that was opened or lost stays so.
LEMMA OpenedStays ==
  ASSUME [Next]_vars, socket \notin {"none", "connecting"}
  PROVE  socket' \notin {"none", "connecting"}
  <1>1. \A o, p : Close(o, p) => socket' \notin {"none", "connecting"}
    BY DEF Close
  <1>2. CASE \/ AsyncConnect \/ WebsocketOpen \/ SocketLost
             \/ StreamOpMessageReceived \/ StreamOp_timercallback
    BY <1>2 DEF AsyncConnect, WebsocketOpen, SocketLost, StreamOpMessageReceived,
                StreamOp_timercallback
  <1>3. CASE WebsocketEnds \/ CloseTransportConnection \/ ReceiveFails
    BY <1>1, <1>3 DEF WebsocketEnds, CloseTransportConnection, ReceiveFails
  <1>4. CASE Send \/ PeerHeartbeat \/ EndSendMessage
    BY <1>4 DEF Send, PeerHeartbeat, EndSendMessage, AsyncSendMessage, connecting
  <1>5. CASE heartbeat_timer_func
    <2>1. PICK overdue \in BOOLEAN, silent \in BOOLEAN :
            heartbeat_timer_func!2!(overdue, silent)
      BY <1>5 DEF heartbeat_timer_func
    <2>2. (\E o : Close(o, posted)) \/ UNCHANGED connecting  BY <2>1
    <2> QED BY <1>1, <2>2 DEF connecting
  <1>6. CASE RunPosted
    BY <1>1, <1>6 DEF RunPosted, RunAttachError, RunClose, RunConnectAnswer, RunAnswer,
                      connecting
  <1>7. CASE UNCHANGED vars  BY <1>7 DEF vars, connecting
  <1> QED BY <1>2, <1>3, <1>4, <1>5, <1>6, <1>7 DEF Next

\* Every step keeps what is so until the socket opens.
LEMMA UnopenedStep ==
  ASSUME SendInv, Unopened, [Next]_vars
  PROVE  Unopened'
  <1> SUFFICES ASSUME socket' \in {"none", "connecting"} PROVE Unopened'  BY DEF Unopened
  <1>1. socket \in {"none", "connecting"}  BY OpenedStays
  <1>2. AsyncConnect \/ UNCHANGED vars
    BY <1>1, BeforeOpen DEF WebsocketOpen, SocketLost
  <1> QED BY <1>1, <1>2 DEF Unopened, AsyncConnect, vars, connecting, histories

\* Every step keeps the connect handler in one place.
LEMMA ConnectStep ==
  ASSUME SendInv, AnswerTypes, Unopened, ConnectPlaced, [Next]_vars
  PROVE  ConnectPlaced'
  <1>0. connect_answers \in Seq({"ok", "error"})  BY DEF AnswerTypes
  <1>1. CASE AsyncConnect
    <2>1. posted' = {} /\ connect_answers' = <<>> /\ streamop_waiting' = streamop_waiting
          /\ ~streamop_waiting /\ active_connect_handler' = TRUE
      BY <1>1 DEF AsyncConnect, Unopened
    <2>2. ConnectInPlace("socket")'  BY <2>1 DEF ConnectInPlace
    <2> QED BY <2>2 DEF ConnectPlaced, ConnectPlaces
  <1>2. CASE WebsocketOpen
    <2>1. /\ posted = {} /\ connect_answers' = <<>> /\ active_connect_handler' = FALSE
          /\ ~streamop_waiting /\ url_valid' = url_valid
      BY <1>2 DEF WebsocketOpen, Unopened
    <2>2. CASE AttachAsServer
      <3>1. posted' = {ConnectAnswer("ok")} /\ streamop_waiting' = streamop_waiting
        BY <2>1, <2>2 DEF AttachAsServer
      <3>2. ConnectInPlace("ok")'  BY <2>1, <3>1, EventsDiffer DEF ConnectInPlace
      <3> QED BY <3>2 DEF ConnectPlaced, ConnectPlaces
    <2>3. CASE BeginStreamOp
      <3>1. posted' = {} /\ streamop_waiting' = TRUE  BY <2>1, <2>3 DEF BeginStreamOp
      <3>2. ConnectInPlace("handshake")'  BY <2>1, <3>1 DEF ConnectInPlace
      <3> QED BY <3>2 DEF ConnectPlaced, ConnectPlaces
    <2> QED BY <1>2, <2>1, <2>2, <2>3 DEF WebsocketOpen, ConnectPlaced
  <1>3. CASE SocketLost  BY <1>3, ConnectKept DEF SocketLost
  <1>4. CASE WebsocketEnds \/ CloseTransportConnection \/ ReceiveFails
    <2>1. socket # "none"
      BY <1>4, BeforeOpen
         DEF WebsocketEnds, CloseTransportConnection, ReceiveFails, SendInv, NotOpened
    <2>2. Close(out, posted)
      BY <1>4 DEF WebsocketEnds, CloseTransportConnection, ReceiveFails
    <2> QED BY <2>1, <2>2, CloseConnect
  <1>5. CASE StreamOpMessageReceived \/ StreamOp_timercallback
    <2>1. /\ streamop_waiting /\ streamop_waiting' = FALSE
          /\ UNCHANGED <<url_valid, socket, active_connect_handler, connect_answers>>
          /\ \/ posted' = posted \cup {ConnectAnswer("ok")}
             \/ posted' = posted \cup AttachFailed
             \/ posted' = posted \cup {AttachError}
      BY <1>5 DEF StreamOpMessageReceived, StreamOp_timercallback
    <2> SUFFICES ASSUME url_valid, socket # "none"
                 PROVE  \E place \in ConnectPlaces : ConnectInPlace(place)'
      BY <2>1 DEF ConnectPlaced
    <2>2. PICK place \in ConnectPlaces : ConnectInPlace(place)  BY DEF ConnectPlaced
    <2>3. place = "handshake"  BY <2>1, <2>2 DEF ConnectInPlace
    <2>4. ConnectInPlace("handshake")  BY <2>2, <2>3
    <2>5. CASE posted' = posted \cup {ConnectAnswer("ok")}
      <3>1. ConnectInPlace("ok")'
        BY <2>1, <2>4, <2>5, EventsDiffer DEF ConnectInPlace
      <3> QED BY <3>1 DEF ConnectPlaces
    <2>6. CASE posted' = posted \cup AttachFailed
      <3>1. ConnectInPlace("error")'
        BY <2>1, <2>4, <2>6, EventsDiffer DEF ConnectInPlace, AttachFailed
      <3> QED BY <3>1 DEF ConnectPlaces
    <2>7. CASE posted' = posted \cup {AttachError}
      <3>1. ConnectInPlace("attach")'
        BY <2>1, <2>4, <2>7, EventsDiffer DEF ConnectInPlace
      <3> QED BY <3>1 DEF ConnectPlaces
    <2> QED BY <2>1, <2>5, <2>6, <2>7
  <1>6. CASE Send \/ PeerHeartbeat
    <2>1. PICK kind : AsyncSendMessage(kind)  BY <1>6 DEF Send, PeerHeartbeat
    <2>2. UNCHANGED <<connecting, connect_answers>> /\ posted' = posted \cup Superseded(kind)
      BY <2>1 DEF AsyncSendMessage
    <2>3. /\ AttachError \notin Superseded(kind)
          /\ \A r : ConnectAnswer(r) \notin Superseded(kind)
      BY EventsDiffer DEF Superseded
    <2> QED BY <2>2, <2>3, ConnectKept DEF connecting
  <1>7. CASE EndSendMessage  BY <1>7, ConnectKept DEF EndSendMessage, connecting
  <1>8. CASE heartbeat_timer_func
    <2>1. PICK overdue \in BOOLEAN, silent \in BOOLEAN :
            heartbeat_timer_func!2!(overdue, silent)
      BY <1>8 DEF heartbeat_timer_func
    <2>2. (\E o : Close(o, posted)) \/ UNCHANGED <<connecting, posted, connect_answers>>
      BY <2>1
    <2>3. socket # "none"
      BY <1>8 DEF heartbeat_timer_func, SendInv, NotOpened
    <2> QED BY <2>2, <2>3, CloseConnect, ConnectKept DEF connecting
  <1>9. CASE RunPosted
    <2>0. socket # "none"
      BY <1>9 DEF Unopened, RunPosted, RunAttachError, RunClose, RunConnectAnswer, RunAnswer
    <2>1. CASE RunAttachError
      <3>1. /\ AttachError \in posted
            /\ posted' = (posted \ {AttachError}) \cup AttachFailed
            /\ UNCHANGED <<connecting, connect_answers>>
        BY <2>1 DEF RunAttachError
      <3> SUFFICES ASSUME url_valid, socket # "none"
                   PROVE  \E place \in ConnectPlaces : ConnectInPlace(place)'
        BY <3>1 DEF ConnectPlaced, connecting
      <3>2. PICK place \in ConnectPlaces : ConnectInPlace(place)  BY DEF ConnectPlaced
      <3>3. place = "attach"  BY <3>1, <3>2 DEF ConnectInPlace
      <3>4. ConnectInPlace("error")'
        BY <3>1, <3>2, <3>3, EventsDiffer DEF ConnectInPlace, AttachFailed, connecting
      <3> QED BY <3>4 DEF ConnectPlaces
    <2>2. CASE RunClose
      <3>1. Close(out, posted \ {PostedClose})  BY <2>2 DEF RunClose
      <3>2. /\ AttachError \in posted \ {PostedClose} <=> AttachError \in posted
            /\ \A r : ConnectAnswer(r) \in posted \ {PostedClose}
                        <=> ConnectAnswer(r) \in posted
        BY EventsDiffer
      <3> QED BY <2>0, <3>1, <3>2, CloseConnect
    <2>3. ASSUME NEW result \in {"ok", "error"}, RunConnectAnswer(result)
          PROVE  ConnectPlaced'
      <3>1. /\ ConnectAnswer(result) \in posted
            /\ posted' = posted \ {ConnectAnswer(result)}
            /\ connect_answers' = Append(connect_answers, result)
            /\ UNCHANGED connecting
        BY <2>3 DEF RunConnectAnswer
      <3> SUFFICES ASSUME url_valid, socket # "none"
                   PROVE  \E place \in ConnectPlaces : ConnectInPlace(place)'
        BY <3>1 DEF ConnectPlaced, connecting
      <3>2. PICK place \in ConnectPlaces : ConnectInPlace(place)  BY DEF ConnectPlaced
      <3>3. place = result  BY <3>1, <3>2 DEF ConnectInPlace
      <3>4. connect_answers = <<>>  BY <3>2, <3>3 DEF ConnectInPlace
      <3>5. Len(connect_answers') = 1  BY <3>1, <3>4
      <3>6. ConnectInPlace("called")'
        BY <3>1, <3>2, <3>3, <3>5, EventsDiffer DEF ConnectInPlace, connecting
      <3> QED BY <3>6 DEF ConnectPlaces
    <2>4. ASSUME NEW result \in {"ok", "error"}, NEW m \in 1..MaxSends, RunAnswer(m, result)
          PROVE  ConnectPlaced'
      <3>1. PICK p : p = posted \ {Answer(m, result)}  OBVIOUS
      <3>2. /\ AttachError \in p <=> AttachError \in posted
            /\ \A r : ConnectAnswer(r) \in p <=> ConnectAnswer(r) \in posted
        BY <3>1, EventsDiffer
      <3>3. CASE Close(out, p)  BY <2>0, <3>2, <3>3, CloseConnect
      <3>4. CASE posted' = p /\ UNCHANGED <<connecting, connect_answers>>
        BY <3>2, <3>4, ConnectKept DEF connecting
      <3> QED BY <2>4, <3>1, <3>3, <3>4 DEF RunAnswer
    <2> QED BY <1>9, <2>1, <2>2, <2>3, <2>4 DEF RunPosted
  <1>10. CASE UNCHANGED vars  BY <1>10, ConnectKept DEF vars, connecting
  <1> QED BY <1>1, <1>2, <1>3, <1>4, <1>5, <1>6, <1>7, <1>8, <1>9, <1>10 DEF Next

-----------------------------------------------------------------------------
(* A packet that is told to be sent.                                       *)

\* The sender of message m was told, or is about to be, that it is sent.
Told(m) == Answer(m, "ok") \in posted \/ "ok" \in ToSet(answers[m])

\* A newer packet than m is queued or written.
NewerStays(m) == \E newer \in (m + 1)..Len(messages) :
                    /\ messages[newer] = "packet"
                    /\ \/ newer \in ToSet(out.queue)
                       \/ <<newer, 1>> \in ToSet(wire)

\* SupersededByNewer with these names.
LEMMA SupersededMeans ==
  SupersededByNewer <=>
    \A m \in Ids : messages[m] = "packet" /\ Told(m) =>
      socket = "lost" \/ <<m, 1>> \in ToSet(wire) \/ NewerStays(m)
  BY DEF SupersededByNewer, PostedAnswers, Told, NewerStays

\* What keeps a packet superseded: the wire grows, and packets leave the queue
\* only for the wire or for a newer one.
LEMMA SupersededKept ==
  ASSUME SendTypes, SupersededByNewer, socket # "lost",
         Len(messages') \in Nat, Len(messages') >= Len(messages),
         \A m \in Ids : messages'[m] = messages[m],
         ToSet(wire) \subseteq ToSet(wire'),
         \A m \in ToSet(out.queue) : messages[m] = "packet" =>
            m \in ToSet(out'.queue) \/ <<m, 1>> \in ToSet(wire') \/ NewerStays(m)',
         \A m \in Ids' : messages'[m] = "packet" /\ Told(m)' =>
            \/ m \in Ids /\ Told(m)
            \/ <<m, 1>> \in ToSet(wire') \/ NewerStays(m)'
  PROVE  SupersededByNewer'
  <1>0. Ids = 1..Len(messages) /\ Len(messages) \in Nat
    BY DEF Ids, SendTypes
  <1>1. SUFFICES ASSUME NEW m \in Ids', messages'[m] = "packet", Told(m)'
                 PROVE  <<m, 1>> \in ToSet(wire') \/ NewerStays(m)'
    <2>1. SupersededByNewer' <=>
            \A m \in Ids' : messages'[m] = "packet" /\ Told(m)' =>
              socket' = "lost" \/ <<m, 1>> \in ToSet(wire') \/ NewerStays(m)'
      BY DEF SupersededByNewer, PostedAnswers, Told, NewerStays
    <2> QED BY <1>1, <2>1
  <1>2. CASE m \in Ids /\ Told(m)
    <2>1. <<m, 1>> \in ToSet(wire) \/ NewerStays(m)  BY <1>1, <1>2, SupersededMeans
    <2>2. CASE <<m, 1>> \in ToSet(wire)  BY <2>2
    <2>3. CASE NewerStays(m)
      <3>1. PICK k \in (m + 1)..Len(messages) :
              /\ messages[k] = "packet"
              /\ k \in ToSet(out.queue) \/ <<k, 1>> \in ToSet(wire)
        BY <2>3 DEF NewerStays
      <3>2. m \in Nat /\ k \in Nat /\ k > m /\ k \in Ids /\ k =< Len(messages')
        BY <1>0, <1>2, <3>1
      <3>3. messages'[k] = "packet"  BY <3>1, <3>2
      <3>4. CASE k \in ToSet(out'.queue) \/ <<k, 1>> \in ToSet(wire')
        <4>1. k \in (m + 1)..Len(messages')  BY <3>2
        <4> QED BY <3>3, <3>4, <4>1 DEF NewerStays
      <3>5. CASE NewerStays(k)'
        <4>1. PICK l \in (k + 1)..Len(messages') :
                /\ messages'[l] = "packet"
                /\ l \in ToSet(out'.queue) \/ <<l, 1>> \in ToSet(wire')
          BY <3>5 DEF NewerStays
        <4>2. l \in (m + 1)..Len(messages')  BY <3>2, <4>1
        <4> QED BY <4>1, <4>2 DEF NewerStays
      <3> QED BY <3>1, <3>4, <3>5
    <2> QED BY <2>1, <2>2, <2>3
  <1> QED BY <1>1, <1>2

\* A packet keeps being superseded while nothing is sent or told.
LEMMA SupersededQuiet ==
  ASSUME SendTypes, SupersededByNewer, socket # "lost",
         UNCHANGED <<messages, wire>>, ToSet(out'.queue) = ToSet(out.queue),
         \A m \in Ids : Told(m)' => Told(m)
  PROVE  SupersededByNewer'
  <1>1. Len(messages) \in Nat /\ Ids' = Ids  BY DEF SendTypes, Ids
  <1> QED BY <1>1, SupersededKept

\* More pieces on the wire.
LEMMA WireGrows ==
  ASSUME SendTypes, NEW x, wire' = Append(wire, x)
  PROVE  ToSet(wire) \subseteq ToSet(wire') /\ x \in ToSet(wire')
  <1>0. PICK L \in Nat : L = Len(wire) /\ DOMAIN wire = 1..L  BY DEF SendTypes
  <1>1. /\ DOMAIN wire' = 1..(L + 1) /\ wire'[L + 1] = x
        /\ \A i \in 1..L : wire'[i] = wire[i]
    BY <1>0 DEF SendTypes
  <1>2. ASSUME NEW y \in ToSet(wire) PROVE y \in ToSet(wire')
    <2>1. PICK i \in 1..L : y = wire[i]  BY <1>0 DEF ToSet
    <2>2. i \in DOMAIN wire' /\ wire'[i] = y  BY <1>1, <2>1
    <2> QED BY <2>2 DEF ToSet
  <1>3. L + 1 \in DOMAIN wire'  BY <1>1
  <1> QED BY <1>1, <1>2, <1>3 DEF ToSet

\* A socket that was lost stays lost.
LEMMA LostStays ==
  ASSUME [Next]_vars, socket = "lost"
  PROVE  socket' = "lost"
  <1>1. \A o, p : Close(o, p) => socket' = "lost"  BY DEF Close
  <1>2. CASE \/ AsyncConnect \/ WebsocketOpen \/ SocketLost
             \/ StreamOpMessageReceived \/ StreamOp_timercallback
    BY <1>2 DEF AsyncConnect, WebsocketOpen, SocketLost, StreamOpMessageReceived,
                StreamOp_timercallback
  <1>3. CASE WebsocketEnds \/ CloseTransportConnection \/ ReceiveFails
    BY <1>1, <1>3 DEF WebsocketEnds, CloseTransportConnection, ReceiveFails
  <1>4. CASE Send \/ PeerHeartbeat \/ EndSendMessage
    BY <1>4 DEF Send, PeerHeartbeat, EndSendMessage, AsyncSendMessage, connecting
  <1>5. CASE heartbeat_timer_func
    <2>1. PICK overdue \in BOOLEAN, silent \in BOOLEAN :
            heartbeat_timer_func!2!(overdue, silent)
      BY <1>5 DEF heartbeat_timer_func
    <2>2. (\E o : Close(o, posted)) \/ UNCHANGED connecting  BY <2>1
    <2> QED BY <1>1, <2>2 DEF connecting
  <1>6. CASE RunPosted
    BY <1>1, <1>6 DEF RunPosted, RunAttachError, RunClose, RunConnectAnswer, RunAnswer,
                      connecting
  <1>7. CASE UNCHANGED vars  BY <1>7 DEF vars, connecting
  <1> QED BY <1>2, <1>3, <1>4, <1>5, <1>6, <1>7 DEF Next

\* Accepting a message while the socket is open: a packet it replaces is older.
LEMMA SupersededAccept ==
  ASSUME SendInv, AnswerTypes, SupersededByNewer, socket = "open",
         NEW kind \in FromCallers \cup Internal, Accepts(kind), Accepted(kind),
         out' = Accepting(Len(messages) + 1, kind),
         posted' \subseteq posted \cup Superseded(kind)
  PROVE  SupersededByNewer'
  <1>1. PICK n \in Nat : n = Len(messages) + 1 /\ Len(messages) \in Nat
    BY DEF SendInv, SendTypes
  <1>2. /\ messages' = Append(messages, kind) /\ Len(messages') = n
        /\ messages'[n] = kind /\ \A m \in Ids : messages'[m] = messages[m]
        /\ Ids' = Ids \cup {n} /\ \A m \in Ids : m \in Nat /\ m < n
    BY <1>1 DEF SendInv, SendTypes, Accepted, Ids
  <1>3. \A m \in Ids : kind = "packet" /\ n \in ToSet(out'.queue) => NewerStays(m)'
    <2> SUFFICES ASSUME NEW m \in Ids, kind = "packet", n \in ToSet(out'.queue)
                 PROVE  NewerStays(m)'
      OBVIOUS
    <2>1. n \in (m + 1)..Len(messages')  BY <1>1, <1>2
    <2> QED BY <1>2, <2>1 DEF NewerStays
  <1>4. ToSet(wire) \subseteq ToSet(wire')
    BY WireGrows DEF Accepted, async_write_some, SendInv
  <1>5. /\ \A m \in Ids : answers'[m] = answers[m]
        /\ answers'[n] = <<>>
        /\ \A m, r : Answer(m, r) \in posted => m \in Ids
    <2>1. answers \in Seq(Seq({"ok", "error"})) /\ Len(answers) = Len(messages)
          /\ answers' = Append(answers, <<>>)
      BY DEF AnswerTypes, Accepted
    <2>2. \A m, r : Answer(m, r) \in posted => m \in Ids
      BY EventsMembers DEF AnswerTypes
    <2> QED BY <1>1, <2>1, <2>2 DEF Ids
  <1>6. n \notin Ids  BY <1>1 DEF Ids
  <1>7. \A m, r : Answer(m, r) \in Superseded(kind) =>
          /\ out.sending /\ kind = "packet" /\ m \in ToSet(out.queue) /\ m \in Ids
          /\ messages[m] = "packet"
    <2> SUFFICES ASSUME NEW m, NEW r, Answer(m, r) \in Superseded(kind)
                 PROVE  /\ out.sending /\ kind = "packet" /\ m \in ToSet(out.queue)
                        /\ m \in Ids /\ messages[m] = "packet"
      OBVIOUS
    <2>1. out.sending /\ kind = "packet"
          /\ \E i \in Queued(kind) : Answer(m, r) = Answer(out.queue[i], "ok")
      BY DEF Superseded
    <2>2. PICK i \in Queued(kind) : m = out.queue[i]  BY <2>1, EventsDiffer
    <2>3. i \in DOMAIN out.queue /\ messages[m] = "packet"  BY <2>1, <2>2 DEF Queued
    <2>4. m \in Ids  BY <2>2, <2>3 DEF SendInv, SendTypes
    <2> QED BY <2>1, <2>2, <2>3, <2>4 DEF ToSet
  <1>8. out.sending => /\ n \in ToSet(out'.queue)
                       /\ \A m \in ToSet(out.queue) :
                            ~(kind = "packet" /\ messages[m] = "packet")
                              => m \in ToSet(out'.queue)
    <2> SUFFICES ASSUME out.sending
                 PROVE  /\ n \in ToSet(out'.queue)
                        /\ \A m \in ToSet(out.queue) :
                             ~(kind = "packet" /\ messages[m] = "packet")
                               => m \in ToSet(out'.queue)
      OBVIOUS
    <2>1. PICK e : e = Enqueued(n, kind)  OBVIOUS
    <2>2. out'.queue = e
      <3>1. out' = [out EXCEPT !.queue = e]  BY <1>1, <2>1 DEF Accepting
      <3> QED BY <3>1, OutFields DEF SendInv
    <2>3. ToSet(e) = {m \in ToSet(out.queue) :
                        ~(kind = "packet" /\ messages[m] = "packet")} \cup {n}
      BY <2>1, EnqueuedSet DEF SendInv
    <2> QED BY <2>2, <2>3
  <1>9. ASSUME NEW m \in ToSet(out.queue), messages[m] = "packet"
        PROVE  m \in ToSet(out'.queue) \/ NewerStays(m)'
    <2>1. out.sending
      <3>1. out.queue # <<>>
        <4>1. DOMAIN <<>> = {}  OBVIOUS
        <4> QED BY <4>1 DEF ToSet
      <3> QED BY <3>1 DEF SendInv, QueueFits
    <2>2. m \in Ids  BY DEF SendInv, SendTypes, ToSet
    <2> QED BY <1>3, <1>8, <2>1, <2>2
  <1>10. ASSUME NEW m \in Ids', messages'[m] = "packet", Told(m)'
         PROVE  (m \in Ids /\ Told(m)) \/ NewerStays(m)'
    <2>1. CASE m \in Ids
      <3>1. answers'[m] = answers[m]  BY <1>5, <2>1
      <3>2. CASE Answer(m, "ok") \in Superseded(kind)
        BY <1>3, <1>7, <1>8, <2>1, <3>2
      <3>3. CASE Answer(m, "ok") \notin Superseded(kind)
        BY <1>10, <2>1, <3>1, <3>3 DEF Told
      <3> QED BY <3>2, <3>3
    <2>2. CASE m = n
      <3>1. Answer(n, "ok") \notin posted'  BY <1>5, <1>6, <1>7
      <3>2. ToSet(answers'[n]) = {}
        <4>1. DOMAIN <<>> = {}  OBVIOUS
        <4> QED BY <1>5, <4>1 DEF ToSet
      <3> QED BY <1>10, <2>2, <3>1, <3>2 DEF Told
    <2> QED BY <1>2, <2>1, <2>2
  <1>11. Len(messages') \in Nat /\ Len(messages') >= Len(messages)  BY <1>1, <1>2
  <1> QED BY <1>2, <1>4, <1>9, <1>10, <1>11, SupersededKept DEF SendInv

\* A packet whose write ends was written; the next message leaves the queue for the wire.
LEMMA SupersededEnd ==
  ASSUME SendInv, AnswerTypes, SupersededByNewer, socket = "open", EndSendMessage
  PROVE  SupersededByNewer'
  <1>1. posted' = posted /\ messages' = messages /\ out.writing # NoMessage
        /\ Len(messages) \in Nat /\ Ids' = Ids
    BY DEF EndSendMessage, SendInv, SendTypes, Ids
  <1>2. PICK w : w = out.writing  OBVIOUS
  <1>3. w \in Ids /\ w \in 1..Len(answers) /\ answers \in Seq(Seq({"ok", "error"}))
        /\ Ids = 1..Len(answers)
    BY <1>1, <1>2 DEF SendInv, SendTypes, AnswerTypes, Ids
  <1>4. out.left = 0 /\ messages[w] = "packet" => <<w, 1>> \in ToSet(wire)
    <2> SUFFICES ASSUME out.left = 0, messages[w] = "packet"
                 PROVE  <<w, 1>> \in ToSet(wire)
      OBVIOUS
    <2>1. wire # <<>> /\ wire[Len(wire)] = <<w, Pieces(messages[w]) - out.left>>
      BY <1>1, <1>2 DEF SendInv, LastWritten
    <2>2. Pieces(messages[w]) - out.left = 1  BY DEF Pieces
    <2>3. Len(wire) \in DOMAIN wire  BY <2>1 DEF SendInv, SendTypes
    <2> QED BY <2>1, <2>2, <2>3 DEF ToSet
  <1>5. ToSet(wire) \subseteq ToSet(wire')
    <2>1. \/ wire' = wire
          \/ \E x : wire' = Append(wire, x)
      BY DEF EndSendMessage, WriteRest, SendingDone, BeginNext, NextThrows, async_write_some
    <2> QED BY <2>1, WireGrows DEF SendInv
  <1>6. PICK b : b = Called(w, "ok")  OBVIOUS
  <1>7. \A m \in Ids : m # w => b[m] = answers[m]
    BY <1>3, <1>6, OneCalled DEF Called
  <1>8. CASE WriteRest
    <2>1. out'.queue = out.queue /\ answers' = answers
      <3>1. out' = [out EXCEPT !.left = @ - 1]  BY <1>8 DEF WriteRest
      <3> QED BY <1>8, <3>1, OutFields DEF SendInv, WriteRest, NotCalled
    <2>2. \A m : Told(m)' => Told(m)  BY <1>1, <2>1 DEF Told
    <2>3. Len(messages') \in Nat /\ Len(messages') >= Len(messages)  BY <1>1
    <2> QED BY <1>1, <1>5, <2>1, <2>2, <2>3, SupersededKept DEF SendInv
  <1>9. CASE SendingDone
    <2>1. out'.queue = out.queue /\ answers' = b /\ out.left = 0
      <3>1. out' = [out EXCEPT !.sending = FALSE, !.writing = NoMessage]
        BY <1>9 DEF SendingDone
      <3>2. answers' = b /\ out.left = 0  BY <1>2, <1>6, <1>9 DEF SendingDone
      <3> QED BY <3>1, <3>2, OutFields DEF SendInv
    <2>2. \A m \in Ids : m # w /\ Told(m)' => Told(m)  BY <1>1, <1>7, <2>1 DEF Told
    <2>3. \A m \in Ids : messages[m] = "packet" /\ Told(m)' =>
            Told(m) \/ <<m, 1>> \in ToSet(wire')
      BY <1>4, <1>5, <2>1, <2>2
    <2>4. Len(messages') \in Nat /\ Len(messages') >= Len(messages)  BY <1>1
    <2> QED BY <1>1, <1>5, <2>1, <2>3, <2>4, SupersededKept DEF SendInv
  <1>10. CASE BeginNext \/ NextThrows
    <2>0. out.queue # <<>> /\ out.left = 0
      BY <1>10 DEF BeginNext, NextThrows, NothingQueued
    <2>1. PICK h, t : h = Head(out.queue) /\ t = Tail(out.queue)  OBVIOUS
    <2>2. /\ ToSet(t) = ToSet(out.queue) \ {h}
          /\ h \in Ids
      BY <2>0, <2>1, HeadTaken, QueueHead DEF SendInv
    <2>3. out'.queue = t
      <3>1. CASE BeginNext  BY <2>1, <3>1 DEF BeginNext, BeginSendMessage
      <3>2. CASE NextThrows
        <4>1. out' = [out EXCEPT !.queue = t, !.writing = NoMessage]
          BY <2>1, <3>2 DEF NextThrows
        <4> QED BY <4>1, OutFields DEF SendInv
      <3> QED BY <1>10, <3>1, <3>2
    <2>4. messages[h] = "packet" => <<h, 1>> \in ToSet(wire')
      <3>1. CASE BeginNext
        <4>1. wire' = Append(wire, <<h, 1>>)
          BY <2>1, <3>1 DEF BeginNext, async_write_some
        <4> QED BY <4>1, WireGrows DEF SendInv
      <3>2. CASE NextThrows  BY <2>1, <3>2 DEF NextThrows
      <3> QED BY <1>10, <3>1, <3>2
    <2>5. \A m \in ToSet(out.queue) : messages[m] = "packet" =>
            m \in ToSet(out'.queue) \/ <<m, 1>> \in ToSet(wire')
      BY <2>2, <2>3, <2>4
    <2>6. \A m \in Ids : m # w /\ messages[m] = "packet" => answers'[m] = answers[m]
      <3>1. CASE BeginNext
        <4>1. answers' = b  BY <1>2, <1>6, <3>1 DEF BeginNext
        <4> QED BY <1>7, <4>1
      <3>2. CASE NextThrows
        <4>1. PICK a : a = Called(h, "error")  OBVIOUS
        <4>2. a = [answers EXCEPT ![h] = Append(@, "error")]  BY <4>1 DEF Called
        <4>3. /\ a \in Seq(Seq({"ok", "error"})) /\ Len(a) = Len(answers)
              /\ \A m \in Ids : m # h => a[m] = answers[m]
          BY <1>3, <2>2, <4>2, OneCalled
        <4>4. answers' = [a EXCEPT ![w] = Append(@, "ok")] /\ messages[h] = "unwritable"
          BY <1>2, <2>1, <3>2, <4>1 DEF NextThrows
        <4>5. \A m \in Ids : m # w => answers'[m] = a[m]
          BY <1>3, <4>3, <4>4, OneCalled
        <4> QED BY <4>3, <4>4, <4>5
      <3> QED BY <1>10, <3>1, <3>2
    <2>7. \A m \in Ids : messages[m] = "packet" /\ Told(m)' =>
            Told(m) \/ <<m, 1>> \in ToSet(wire')
      <3> SUFFICES ASSUME NEW m \in Ids, messages[m] = "packet", Told(m)'
                   PROVE  Told(m) \/ <<m, 1>> \in ToSet(wire')
        OBVIOUS
      <3>1. CASE m = w  BY <1>4, <1>5, <2>0, <3>1
      <3>2. CASE m # w
        <4>1. answers'[m] = answers[m]  BY <2>6, <3>2
        <4> QED BY <1>1, <4>1 DEF Told
      <3> QED BY <3>1, <3>2
    <2>8. Len(messages') \in Nat /\ Len(messages') >= Len(messages)  BY <1>1
    <2> QED BY <1>1, <1>5, <2>5, <2>7, <2>8, SupersededKept DEF SendInv
  <1> QED BY <1>8, <1>9, <1>10 DEF EndSendMessage

\* Every step keeps a packet superseded.
LEMMA SupersededStep ==
  ASSUME SendInv, AnswerTypes, Unopened, SupersededByNewer, [Next]_vars
  PROVE  SupersededByNewer'
  <1>0. \A o, p : Close(o, p) => socket' = "lost" \/ (out' = o /\ posted' = p)
    BY DEF Close
  <1>1. CASE socket' = "lost"  BY <1>1 DEF SupersededByNewer
  <1>2. CASE socket' # "lost" /\ socket \in {"none", "connecting"}
    <2>1. CASE messages' = <<>>
      <3>1. Ids' = {}  BY <2>1 DEF Ids
      <3> QED BY <3>1 DEF SupersededByNewer
    <2>2. CASE messages' = <<"streamop">>
      <3>1. Ids' = {1} /\ messages'[1] # "packet"  BY <2>2 DEF Ids
      <3> QED BY <3>1 DEF SupersededByNewer
    <2>3. messages' = <<>> \/ messages' = <<"streamop">>
      <3>1. messages = <<>>  BY <1>2 DEF Unopened
      <3>2. AsyncConnect \/ WebsocketOpen \/ UNCHANGED vars
        BY <1>2, BeforeOpen DEF SocketLost
      <3> QED BY <3>1, <3>2 DEF AsyncConnect, WebsocketOpen, AttachAsServer, BeginStreamOp,
                                histories, vars
    <2> QED BY <2>1, <2>2, <2>3
  <1>3. CASE socket' # "lost" /\ socket = "open"
    <2>0. SendTypes /\ socket # "lost" /\ Ids = 1..Len(answers)
          /\ answers \in Seq(Seq({"ok", "error"}))
      BY <1>3 DEF SendInv, AnswerTypes, Ids
    <2>1. ASSUME UNCHANGED <<messages, answers, wire, out>>,
                 \A m : Answer(m, "ok") \in posted' => Answer(m, "ok") \in posted
          PROVE  SupersededByNewer'
      <3>1. \A m \in Ids : Told(m)' => Told(m)  BY <2>1 DEF Told
      <3> QED BY <2>0, <2>1, <3>1, SupersededQuiet
    <2>2. CASE AsyncConnect \/ WebsocketOpen \/ SocketLost
      BY <1>3, <2>2 DEF AsyncConnect, WebsocketOpen, SocketLost
    <2>3. CASE WebsocketEnds \/ CloseTransportConnection \/ ReceiveFails
      <3>1. Close(out, posted) /\ UNCHANGED histories
        BY <2>3 DEF WebsocketEnds, CloseTransportConnection, ReceiveFails
      <3> QED BY <1>0, <1>3, <2>1, <3>1 DEF histories
    <2>4. CASE StreamOpMessageReceived \/ StreamOp_timercallback
      <3>1. UNCHANGED <<out, histories>>
        BY <2>4 DEF StreamOpMessageReceived, StreamOp_timercallback
      <3>2. \A m : Answer(m, "ok") \in posted' => Answer(m, "ok") \in posted
        BY <2>4, EventsDiffer
           DEF StreamOpMessageReceived, StreamOp_timercallback, AttachFailed
      <3> QED BY <2>1, <3>1, <3>2 DEF histories
    <2>5. CASE Send \/ PeerHeartbeat
      <3>1. PICK kind \in FromCallers \cup Internal : AsyncSendMessage(kind)
        BY <2>5 DEF Send, PeerHeartbeat, FromCallers, Internal
      <3>2. /\ Accepts(kind) /\ Accepted(kind)
            /\ out' = Accepting(Len(messages) + 1, kind)
            /\ posted' \subseteq posted \cup Superseded(kind)
        BY <3>1 DEF AsyncSendMessage
      <3> QED BY <1>3, <3>2, SupersededAccept
    <2>6. CASE EndSendMessage  BY <1>3, <2>6, SupersededEnd
    <2>7. CASE heartbeat_timer_func
      <3>1. PICK overdue \in BOOLEAN, silent \in BOOLEAN :
              heartbeat_timer_func!2!(overdue, silent)
        BY <2>7 DEF heartbeat_timer_func
      <3>2. CASE overdue /\ ~AlreadyQueued("test")
        <4>1. Accepts("test") /\ Accepted("test") /\ "test" \in FromCallers \cup Internal
          BY <3>1, <3>2 DEF Internal
        <4>2. out' = Accepting(Len(messages) + 1, "test") /\ posted' = posted
          <5>1. PICK o : o = Accepting(Len(messages) + 1, "test")  OBVIOUS
          <5>2. Close(o, posted) \/ (out' = o /\ posted' = posted)
            BY <3>1, <3>2, <5>1
          <5> QED BY <1>0, <1>3, <5>1, <5>2
        <4> QED BY <1>3, <4>1, <4>2, SupersededAccept
      <3>3. CASE ~(overdue /\ ~AlreadyQueued("test"))
        <4>1. UNCHANGED histories  BY <3>1, <3>3
        <4>2. Close(out, posted) \/ UNCHANGED <<out, posted>>  BY <3>1, <3>3
        <4> QED BY <1>0, <1>3, <2>1, <4>1, <4>2 DEF histories
      <3> QED BY <3>2, <3>3
    <2>8. CASE RunPosted
      <3>1. CASE RunAttachError
        <4>1. UNCHANGED <<out, histories>>  BY <3>1 DEF RunAttachError
        <4>2. \A m : Answer(m, "ok") \in posted' => Answer(m, "ok") \in posted
          BY <3>1, EventsDiffer DEF RunAttachError, AttachFailed
        <4> QED BY <2>1, <4>1, <4>2 DEF histories
      <3>2. CASE RunClose
        <4>1. Close(out, posted \ {PostedClose}) /\ UNCHANGED histories
          BY <3>2 DEF RunClose
        <4> QED BY <1>0, <1>3, <2>1, <4>1 DEF histories
      <3>3. ASSUME NEW result \in {"ok", "error"}, RunConnectAnswer(result)
            PROVE  SupersededByNewer'
        <4>1. UNCHANGED <<out, histories>> /\ posted' \subseteq posted
          BY <3>3 DEF RunConnectAnswer
        <4> QED BY <2>1, <4>1 DEF histories
      <3>4. ASSUME NEW result \in {"ok", "error"}, NEW m \in 1..MaxSends,
                   RunAnswer(m, result)
            PROVE  SupersededByNewer'
        <4>1. /\ Answer(m, result) \in posted /\ posted' \subseteq posted /\ out' = out
              /\ UNCHANGED <<messages, wire>>
              /\ answers' = [answers EXCEPT ![m] = Append(@, result)]
          BY <1>0, <1>3, <3>4 DEF RunAnswer, Called
        <4>2. m \in Ids  BY <4>1, EventsMembers DEF AnswerTypes
        <4>3. /\ answers'[m] = Append(answers[m], result)
              /\ \A n \in Ids : n # m => answers'[n] = answers[n]
          BY <2>0, <4>1, <4>2, OneCalled
        <4>4. ASSUME NEW n \in Ids, Told(n)' PROVE Told(n)
          <5>1. CASE n # m  BY <4>1, <4>3, <4>4, <5>1 DEF Told
          <5>2. CASE n = m /\ result = "ok"  BY <4>1, <5>2 DEF Told
          <5>3. CASE n = m /\ result = "error"
            <6>1. PICK s \in Seq({"ok", "error"}) : s = answers[m]  BY <2>0, <4>2
            <6>2. "ok" \in ToSet(Append(s, "error")) => "ok" \in ToSet(s)
              <7> SUFFICES ASSUME "ok" \in ToSet(Append(s, "error"))
                           PROVE  "ok" \in ToSet(s)
                OBVIOUS
              <7>1. PICK i \in DOMAIN Append(s, "error") : Append(s, "error")[i] = "ok"
                BY DEF ToSet
              <7>2. i \in DOMAIN s /\ s[i] = "ok"  BY <7>1
              <7> QED BY <7>2 DEF ToSet
            <6>3. answers'[n] = Append(s, "error") /\ answers[n] = s  BY <4>3, <5>3, <6>1
            <6> QED BY <4>1, <4>4, <6>2, <6>3 DEF Told
          <5> QED BY <5>1, <5>2, <5>3
        <4> QED BY <2>0, <4>1, <4>4, SupersededQuiet
      <3> QED BY <2>8, <3>1, <3>2, <3>3, <3>4 DEF RunPosted
    <2>9. CASE UNCHANGED vars  BY <2>1, <2>9 DEF vars, histories
    <2> QED BY <2>2, <2>3, <2>4, <2>5, <2>6, <2>7, <2>8, <2>9 DEF Next
  <1>4. socket = "lost" => socket' = "lost"  BY LostStays
  <1> QED BY <1>1, <1>2, <1>3, <1>4 DEF AnswerTypes

-----------------------------------------------------------------------------

\* At first there is no message and nobody connects.
LEMMA HandlersInit == Init => SendInv /\ HandlersInv /\ SupersededByNewer
  <1> SUFFICES ASSUME Init PROVE SendInv /\ HandlersInv /\ SupersededByNewer  OBVIOUS
  <1>1. SendInv  BY SendInit
  <1>2. Ids = {} /\ Len(messages) = 0  BY DEF Init, Ids
  <1>3. AnswerTypes
    <2>1. answers \in Seq(Seq({"ok", "error"})) /\ Len(answers) = 0
          /\ connect_answers \in Seq({"ok", "error"})
      BY DEF Init
    <2>2. Len(messages) =< MaxSends  BY <1>2, MaxSendsAssumption
    <2>3. /\ socket \in {"none", "connecting", "open", "lost"}
          /\ {url_valid, server, active_transports, active_connect_handler, registered,
              closing, connected, streamop_waiting, heartbeat_timer} \subseteq BOOLEAN
          /\ posted = {}
      BY DEF Init
    <2>4. posted \subseteq Events(Ids)  BY <2>3
    <2> QED BY <1>2, <2>1, <2>2, <2>3, <2>4 DEF AnswerTypes
  <1>4. Unopened /\ ConnectPlaced  BY DEF Init, Unopened, ConnectPlaced
  <1>5. MessagePlaces(Ids, out, posted, answers)  BY <1>2 DEF MessagePlaces
  <1>6. SupersededByNewer  BY <1>2 DEF SupersededByNewer
  <1>7. TypeOK  BY <1>1, <1>3, TypesSplit DEF SendInv
  <1> QED BY <1>1, <1>4, <1>5, <1>6, <1>7 DEF HandlersInv

\* Every step keeps the handlers in their places.
LEMMA HandlersStep == SendInv /\ HandlersInv /\ [Next]_vars => SendInv' /\ HandlersInv'
  <1> SUFFICES ASSUME SendInv, HandlersInv, [Next]_vars PROVE SendInv' /\ HandlersInv'
    OBVIOUS
  <1>0. AnswerTypes  BY TypesJoined DEF HandlersInv
  <1>1. SendInv'  BY SendStep
  <1>2. TypeOK'
    <2>1. AnswerTypes'  BY <1>0, <1>1, TypesStep DEF HandlersInv
    <2>2. SendTypes'  BY <1>1 DEF SendInv
    <2>3. SendTypes' /\ AnswerTypes' => TypeOK'  BY TypesSplit, PTL
    <2> QED BY <2>1, <2>2, <2>3
  <1>3. Unopened' /\ ConnectPlaced'  BY <1>0, UnopenedStep, ConnectStep DEF HandlersInv
  <1>4. MessagePlaces(Ids, out, posted, answers)'  BY <1>0, PlacesStep DEF HandlersInv
  <1> QED BY <1>1, <1>2, <1>3, <1>4 DEF HandlersInv

\* The strengthening holds in every behavior.
LEMMA HandlersAlways == Spec => [](SendInv /\ HandlersInv)
  BY HandlersInit, HandlersStep, PTL DEF Spec

\* Every variable has its type; only accepted messages are queued, written or
\* answered (ASIOStreamBaseTransport).
THEOREM TypeCorrect == Spec => []TypeOK
  <1>1. HandlersInv => TypeOK  BY DEF HandlersInv
  <1> QED BY <1>1, HandlersAlways, PTL

\* A packet of a wire that was told to be sent and is not was replaced in the queue
\* by a newer one, which is still to be sent or was
\* (ASIOStreamBaseTransport::AsyncSendMessage).
THEOREM DroppedForNewer == Spec => []SupersededByNewer
  <1>1. SendInv /\ HandlersInv /\ SupersededByNewer /\ [Next]_vars => SupersededByNewer'
    BY TypesJoined, SupersededStep DEF HandlersInv
  <1> QED BY <1>1, HandlersInit, HandlersAlways, PTL DEF Spec

\* The handler of every message is called exactly once or still to be called, and so
\* is the connect handler of an accepted URL, however sends, the end of the
\* handshake, errors and closes interleave (AsyncSendMessage, EndSendMessage2,
\* AsyncAttachStream1, Close).
THEOREM HandlersAnsweredOnce == Spec => []AnsweredOnce
  <1>1. ASSUME SendInv, HandlersInv, NEW m \in Ids
        PROVE  Cardinality({i \in DOMAIN out.queue : out.queue[i] = m})
                 + CountOf(out.writing = m) + Cardinality(PostedAnswers(m))
                 + Len(answers[m]) = 1
    <2>1. PICK place \in Places : InPlace(m, place, out, posted, answers)
      BY <1>1 DEF HandlersInv, MessagePlaces
    <2>2. Cardinality({i \in DOMAIN out.queue : out.queue[i] = m})
            = CountOf(place = "queued")
      <3>1. PICK S : S = {i \in DOMAIN out.queue : out.queue[i] = m}  OBVIOUS
      <3>2. CASE place = "queued"
        <4>1. PICK x \in DOMAIN out.queue : out.queue[x] = m
          BY <2>1, <3>2 DEF InPlace, ToSet
        <4>2. \A y \in DOMAIN out.queue : out.queue[y] = m => ~(x < y) /\ ~(y < x)
          BY <1>1, <4>1 DEF SendInv, QueueFits, MayPrecede
        <4>3. \A y \in DOMAIN out.queue : y \in Nat
          BY <1>1, OutFields DEF SendInv
        <4>4. \A y \in DOMAIN out.queue : out.queue[y] = m => y = x
          BY <4>1, <4>2, <4>3
        <4>5. S = {x}  BY <3>1, <4>1, <4>4
        <4> QED BY <3>1, <3>2, <4>5, FS_Singleton DEF CountOf
      <3>3. CASE place # "queued"
        <4>1. S = {}  BY <2>1, <3>1, <3>3 DEF InPlace, ToSet
        <4> QED BY <3>1, <3>3, <4>1, FS_EmptySet DEF CountOf
      <3> QED BY <3>2, <3>3
    <2>3. CountOf(out.writing = m) = CountOf(place = "writing")
      BY <2>1 DEF InPlace, CountOf
    <2>4. Cardinality(PostedAnswers(m)) = CountOf(place \in {"ok", "error"})
      <3>1. PostedAnswers(m) = IF place \in {"ok", "error"} THEN {place} ELSE {}
        BY <2>1 DEF InPlace, PostedAnswers
      <3> QED BY <3>1, FS_Singleton, FS_EmptySet DEF CountOf
    <2>5. Len(answers[m]) = CountOf(place = "called")
      BY <2>1 DEF InPlace, CountOf
    <2> QED BY <2>2, <2>3, <2>4, <2>5 DEF CountOf, Places
  <1>2. ASSUME SendInv, HandlersInv, url_valid, socket # "none"
        PROVE  CountOf(active_connect_handler) + CountOf(streamop_waiting)
                 + CountOf(AttachError \in posted)
                 + Cardinality({r \in {"ok", "error"} : ConnectAnswer(r) \in posted})
                 + Len(connect_answers) = 1
    <2>1. PICK place \in ConnectPlaces : ConnectInPlace(place)
      BY <1>2 DEF HandlersInv, ConnectPlaced
    <2>2. /\ CountOf(active_connect_handler) = CountOf(place = "socket")
          /\ CountOf(streamop_waiting) = CountOf(place = "handshake")
          /\ CountOf(AttachError \in posted) = CountOf(place = "attach")
      BY <2>1 DEF ConnectInPlace, CountOf
    <2>3. Cardinality({r \in {"ok", "error"} : ConnectAnswer(r) \in posted})
            = CountOf(place \in {"ok", "error"})
      <3>1. {r \in {"ok", "error"} : ConnectAnswer(r) \in posted}
              = IF place \in {"ok", "error"} THEN {place} ELSE {}
        BY <2>1 DEF ConnectInPlace
      <3> QED BY <3>1, FS_Singleton, FS_EmptySet DEF CountOf
    <2>4. Len(connect_answers) = CountOf(place = "called")
      BY <2>1 DEF ConnectInPlace, CountOf
    <2> QED BY <2>2, <2>3, <2>4 DEF CountOf, ConnectPlaces
  <1>3. SendInv /\ HandlersInv => AnsweredOnce  BY <1>1, <1>2 DEF AnsweredOnce
  <1> QED BY <1>3, HandlersAlways, PTL

-----------------------------------------------------------------------------
(* What is under way, and that nobody is moved back.                       *)

\* Who waits for a handler does not wait for nothing: a message is being written or its
\* answer is posted, unless sending stalled; the browser has yet to tell of the socket, or
\* the handshake goes on, or the answer of the connect is posted.
SomethingUnderWay ==
    /\ \A m \in Ids : answers[m] = <<>> =>
         out.writing # NoMessage \/ PostedAnswers(m) # {} \/ Stalled
    /\ url_valid /\ socket # "none" /\ connect_answers = <<>> =>
         \/ active_connect_handler /\ active_transports /\ socket \in {"connecting", "lost"}
         \/ streamop_waiting \/ AttachError \in posted
         \/ \E r \in {"ok", "error"} : ConnectAnswer(r) \in posted

\* What is queued before and after has no later place after.
NoneMovedBack(old, new) ==
    \A p \in DOMAIN old : old[p] \in ToSet(new) =>
      \E q \in DOMAIN new : q <= p /\ new[q] = old[p]

\* No step puts another message before one that is queued.
NeverMovedBack == [][NoneMovedBack(out.queue, out.queue')]_vars

\* While the connect handler is set, the browser will tell the connection of its socket.
BrowserWillTell ==
    active_connect_handler => active_transports /\ socket \in {"connecting", "lost"}

LEMMA BrowserWillTellStep ==
  ASSUME BrowserWillTell, [Next]_vars
  PROVE  BrowserWillTell'
  <1>1. \A o, p : Close(o, p) => BrowserWillTell'  BY DEF Close, BrowserWillTell
  <1>2. UNCHANGED connecting => BrowserWillTell'  BY DEF connecting, BrowserWillTell
  <1>3. CASE \/ AsyncConnect \/ WebsocketOpen \/ SocketLost
             \/ StreamOpMessageReceived \/ StreamOp_timercallback
    BY <1>3 DEF AsyncConnect, WebsocketOpen, SocketLost, StreamOpMessageReceived,
                StreamOp_timercallback, BrowserWillTell
  <1>4. CASE WebsocketEnds \/ CloseTransportConnection \/ ReceiveFails
    BY <1>1, <1>4 DEF WebsocketEnds, CloseTransportConnection, ReceiveFails
  <1>5. CASE Send \/ PeerHeartbeat \/ EndSendMessage
    BY <1>2, <1>5 DEF Send, PeerHeartbeat, EndSendMessage, AsyncSendMessage
  <1>6. CASE heartbeat_timer_func
    <2>1. (\E o : Close(o, posted)) \/ UNCHANGED connecting
      BY <1>6 DEF heartbeat_timer_func
    <2> QED BY <1>1, <1>2, <2>1
  <1>7. CASE RunPosted
    BY <1>1, <1>2, <1>7 DEF RunPosted, RunAttachError, RunClose, RunConnectAnswer, RunAnswer
  <1>8. CASE UNCHANGED vars  BY <1>2, <1>8 DEF vars
  <1> QED BY <1>3, <1>4, <1>5, <1>6, <1>7, <1>8 DEF Next

\* Whose handler was not called, of a message or of the connect, does not wait for
\* nothing: what will call it is under way (AsyncSendMessage, EndSendMessage, AsyncConnect,
\* AsyncAttachStream). With fair scheduling these are the reason why it is called.
THEOREM HandlersUnderWay == Spec => []SomethingUnderWay
  <1>1. Init => BrowserWillTell  BY DEF Init, BrowserWillTell
  <1>2. BrowserWillTell /\ [Next]_vars => BrowserWillTell'  BY BrowserWillTellStep
  <1>3. ASSUME SendInv, HandlersInv, BrowserWillTell PROVE SomethingUnderWay
    <2>1. ASSUME NEW m \in Ids, answers[m] = <<>>
          PROVE  out.writing # NoMessage \/ PostedAnswers(m) # {} \/ Stalled
      <3>1. PICK place \in Places : InPlace(m, place, out, posted, answers)
        BY <1>3 DEF HandlersInv, MessagePlaces
      <3>2. CASE place = "queued"
        <4>1. out.queue # <<>>  BY <3>1, <3>2 DEF InPlace, ToSet
        <4>2. out.sending  BY <1>3, <4>1 DEF SendInv, QueueFits
        <4> QED BY <4>2 DEF Stalled
      <3>3. CASE place = "writing"
        <4>1. m # NoMessage  BY DEF Ids, NoMessage
        <4> QED BY <3>1, <3>3, <4>1 DEF InPlace
      <3>4. CASE place \in {"ok", "error"}
        BY <3>1, <3>4 DEF InPlace, PostedAnswers
      <3>5. place # "called"
        <4>1. Len(<<>>) = 0  OBVIOUS
        <4> QED BY <2>1, <3>1, <4>1 DEF InPlace
      <3> QED BY <3>2, <3>3, <3>4, <3>5 DEF Places
    <2>2. ASSUME url_valid, socket # "none", connect_answers = <<>>
          PROVE  \/ active_connect_handler /\ active_transports
                    /\ socket \in {"connecting", "lost"}
                 \/ streamop_waiting \/ AttachError \in posted
                 \/ \E r \in {"ok", "error"} : ConnectAnswer(r) \in posted
      <3>1. PICK place \in ConnectPlaces : ConnectInPlace(place)
        BY <1>3, <2>2 DEF HandlersInv, ConnectPlaced
      <3>2. place # "called"
        <4>1. Len(<<>>) = 0  OBVIOUS
        <4> QED BY <2>2, <3>1, <4>1 DEF ConnectInPlace
      <3>3. CASE place = "socket"
        BY <1>3, <3>1, <3>3 DEF ConnectInPlace, BrowserWillTell
      <3>4. CASE place \in {"handshake", "attach", "ok", "error"}
        BY <3>1, <3>4 DEF ConnectInPlace
      <3> QED BY <3>2, <3>3, <3>4 DEF ConnectPlaces
    <2> QED BY <2>1, <2>2 DEF SomethingUnderWay
  <1> QED BY <1>1, <1>2, <1>3, HandlersAlways, PTL DEF Spec

\* A message accepted takes the place of older packets or the last place.
LEMMA EnqueuedAtEnd ==
  ASSUME SendTypes, NEW kind, NEW n \in Nat, n = Len(messages) + 1,
         NEW e, e = Enqueued(n, kind)
  PROVE  NoneMovedBack(out.queue, e)
  <1>0. PICK c, C : c = out.queue /\ C = Len(out.queue)  OBVIOUS
  <1>1. /\ c \in Seq(Nat) /\ C \in Nat /\ DOMAIN c = 1..C
        /\ \A p \in 1..C : c[p] \in Ids
    BY <1>0, OutFields DEF SendTypes
  <1>2. ToSet(e) = {m \in ToSet(c) : ~(kind = "packet" /\ messages[m] = "packet")} \cup {n}
    BY <1>0, EnqueuedSet
  <1>3. \A p \in 1..C : c[p] # n
    <2>1. n \notin Ids
      <3>1. Len(messages) \in Nat  BY DEF SendTypes
      <3> QED BY <3>1 DEF Ids
    <2> QED BY <1>1, <2>1
  <1> SUFFICES ASSUME NEW p \in 1..C, c[p] \in ToSet(e)
               PROVE  p \in DOMAIN e /\ e[p] = c[p]
    BY <1>0, <1>1 DEF NoneMovedBack
  <1>4. ~(kind = "packet" /\ messages[c[p]] = "packet")  BY <1>2, <1>3
  <1>5. CASE kind = "packet" /\ Queued(kind) # {}
    BY <1>0, <1>1, <1>4, <1>5 DEF Enqueued, Queued
  <1>6. CASE ~(kind = "packet" /\ Queued(kind) # {})
    <2>1. e = Append(c, n)  BY <1>0, <1>6 DEF Enqueued
    <2>2. DOMAIN e = 1..(C + 1) /\ \A q \in 1..C : e[q] = c[q]
      <3>1. c \in Seq(Nat) /\ Len(c) = C  BY <1>0, <1>1
      <3> QED BY ONLY <2>1, <3>1, Appended, n \in Nat
    <2> QED BY <1>1, <2>2
  <1> QED BY <1>5, <1>6

\* When the first is taken the others come one place nearer.
LEMMA RestComesNearer ==
  ASSUME SendTypes, QueueFits, out.queue # <<>>, NEW t, t = Tail(out.queue)
  PROVE  NoneMovedBack(out.queue, t)
  <1>0. PICK c, C : c = out.queue /\ C = Len(out.queue)  OBVIOUS
  <1>1. c \in Seq(Nat) /\ C \in Nat /\ DOMAIN c = 1..C /\ C > 0 /\ Head(c) = c[1]
    BY <1>0, OutFields
  <1>2. DOMAIN t = 1..(C - 1) /\ \A q \in 1..(C - 1) : t[q] = c[q + 1]
    BY <1>0, <1>1
  <1>3. c[1] \notin ToSet(t)  BY <1>0, <1>1, HeadTaken
  <1> SUFFICES ASSUME NEW p \in 1..C, c[p] \in ToSet(t)
               PROVE  \E q \in DOMAIN t : q <= p /\ t[q] = c[p]
    BY <1>0, <1>1 DEF NoneMovedBack
  <1>4. p # 1  BY <1>3
  <1>5. p - 1 \in 1..(C - 1) /\ (p - 1) + 1 = p /\ p - 1 <= p  BY <1>1, <1>4
  <1> QED BY <1>2, <1>5

LEMMA SameQueue ==
  ASSUME SendTypes
  PROVE  NoneMovedBack(out.queue, out.queue) /\ NoneMovedBack(out.queue, <<>>)
  <1>1. \A p \in DOMAIN out.queue : p <= p  BY OutFields
  <1>2. ToSet(<<>>) = {}  BY DEF ToSet
  <1> QED BY <1>1, <1>2 DEF NoneMovedBack

\* The sending half once a message is accepted.
LEMMA AcceptingAtEnd ==
  ASSUME SendTypes, NEW kind, NEW n, n = Len(messages) + 1, NEW o, o = Accepting(n, kind)
  PROVE  NoneMovedBack(out.queue, o.queue)
  <1>1. n \in Nat
    <2>1. Len(messages) \in Nat  BY DEF SendTypes
    <2> QED BY <2>1
  <1>2. CASE out.sending
    <2>1. PICK e : e = Enqueued(n, kind)  OBVIOUS
    <2>2. o = [out EXCEPT !.queue = e]  BY <1>2, <2>1 DEF Accepting
    <2>3. o.queue = e  BY <2>2, OutFields
    <2> QED BY <1>1, <2>1, <2>3, EnqueuedAtEnd
  <1>3. CASE ~out.sending
    <2>1. o.queue = out.queue  BY <1>3 DEF Accepting, BeginSendMessage
    <2> QED BY <2>1, SameQueue
  <1> QED BY <1>2, <1>3

\* Closing leaves the queue it is given, or none.
Closable(o) == NoneMovedBack(out.queue, o.queue) /\ [o EXCEPT !.queue = <<>>].queue = <<>>

LEMMA CloseMovesNone ==
  ASSUME SendTypes, NEW o, NEW p, Close(o, p), Closable(o)
  PROVE  NoneMovedBack(out.queue, out.queue')
  <1>1. CASE out' = o  BY <1>1 DEF Closable
  <1>2. CASE out' = [o EXCEPT !.queue = <<>>]
    <2>1. out.queue' = <<>>  BY <1>2 DEF Closable
    <2> QED BY <2>1, SameQueue
  <1> QED BY <1>1, <1>2 DEF Close

LEMMA ClosableNow == ASSUME SendTypes PROVE Closable(out)
  <1>1. [out EXCEPT !.queue = <<>>].queue = <<>>  BY OutFields
  <1> QED BY <1>1, SameQueue DEF Closable

LEMMA ClosableAccepting ==
  ASSUME SendTypes, NEW kind, NEW n, n = Len(messages) + 1, NEW o, o = Accepting(n, kind)
  PROVE  Closable(o)
  <1>1. [o EXCEPT !.queue = <<>>].queue = <<>>
    <2>1. CASE out.sending
      <3>1. PICK e : e = Enqueued(n, kind)  OBVIOUS
      <3>2. o = [out EXCEPT !.queue = e]  BY <2>1, <3>1 DEF Accepting
      <3> QED BY <3>2, OutFields
    <2>2. CASE ~out.sending
      BY <2>2 DEF Accepting, BeginSendMessage
    <2> QED BY <2>1, <2>2
  <1> QED BY <1>1, AcceptingAtEnd DEF Closable

\* No message is ever overtaken in the queue once it is there: what is accepted later
\* goes behind it or takes the place of an older packet, and each message that is
\* finished brings it nearer (AsyncSendMessage, EndSendMessage).
THEOREM NoneOvertaken == Spec => NeverMovedBack
  <1>1. ASSUME SendInv, [Next]_vars PROVE NoneMovedBack(out.queue, out.queue')
    <2>0. SendTypes /\ QueueFits  BY <1>1 DEF SendInv
    <2>1. ASSUME UNCHANGED out PROVE NoneMovedBack(out.queue, out.queue')
      BY <2>0, <2>1, SameQueue
    <2>2. ASSUME NEW p, Close(out, p) PROVE NoneMovedBack(out.queue, out.queue')
      BY <2>0, <2>2, ClosableNow, CloseMovesNone
    <2>3. CASE \/ AsyncConnect \/ SocketLost
               \/ StreamOpMessageReceived \/ StreamOp_timercallback
      BY <2>1, <2>3 DEF AsyncConnect, SocketLost, StreamOpMessageReceived,
                        StreamOp_timercallback
    <2>4. CASE WebsocketOpen
      <3>1. UNCHANGED out \/ out.queue' = <<>>
        BY <2>4 DEF WebsocketOpen, AttachAsServer, BeginStreamOp, BeginSendMessage
      <3> QED BY <2>0, <2>1, <3>1, SameQueue
    <2>5. CASE WebsocketEnds \/ CloseTransportConnection \/ ReceiveFails
      BY <2>2, <2>5 DEF WebsocketEnds, CloseTransportConnection, ReceiveFails
    <2>6. CASE Send \/ PeerHeartbeat
      <3>1. PICK kind : out' = Accepting(Len(messages) + 1, kind)
        BY <2>6 DEF Send, PeerHeartbeat, AsyncSendMessage
      <3>2. PICK n : n = Len(messages) + 1  OBVIOUS
      <3> QED BY <2>0, <3>1, <3>2, AcceptingAtEnd
    <2>7. CASE EndSendMessage
      <3>1. CASE WriteRest \/ SendingDone
        <4>1. out.queue' = out.queue
          BY <2>0, <3>1, OutFields DEF WriteRest, SendingDone
        <4> QED BY <2>0, <4>1, SameQueue
      <3>2. CASE BeginNext \/ NextThrows
        <4>1. out.queue # <<>>  BY <3>2 DEF BeginNext, NextThrows, NothingQueued
        <4>2. PICK t : t = Tail(out.queue)  OBVIOUS
        <4>3. CASE BeginNext
          BY <2>0, <4>1, <4>2, <4>3, RestComesNearer DEF BeginNext, BeginSendMessage
        <4>4. CASE NextThrows
          <5>1. out' = [out EXCEPT !.queue = t, !.writing = NoMessage]
            BY <4>2, <4>4 DEF NextThrows
          <5>2. out.queue' = t  BY <2>0, <5>1, OutFields
          <5> QED BY <2>0, <4>1, <4>2, <5>2, RestComesNearer
        <4> QED BY <3>2, <4>3, <4>4
      <3> QED BY <2>7, <3>1, <3>2 DEF EndSendMessage
    <2>8. CASE heartbeat_timer_func
      <3>1. PICK overdue \in BOOLEAN, silent \in BOOLEAN :
              heartbeat_timer_func!2!(overdue, silent)
        BY <2>8 DEF heartbeat_timer_func
      <3>2. PICK o : o = IF overdue /\ ~AlreadyQueued("test")
                         THEN Accepting(Len(messages) + 1, "test") ELSE out
        OBVIOUS
      <3>3. Closable(o)
        <4>1. PICK n : n = Len(messages) + 1  OBVIOUS
        <4>2. CASE o = Accepting(n, "test")  BY <2>0, <4>1, <4>2, ClosableAccepting
        <4>3. CASE o = out  BY <2>0, <4>3, ClosableNow
        <4> QED BY <3>2, <4>1, <4>2, <4>3
      <3>4. Close(o, posted) \/ out' = o  BY <3>1, <3>2
      <3> QED BY <2>0, <3>3, <3>4, CloseMovesNone DEF Closable
    <2>9. CASE RunPosted
      <3>1. (\E p : Close(out, p)) \/ UNCHANGED out
        BY <2>9 DEF RunPosted, RunAttachError, RunClose, RunConnectAnswer, RunAnswer
      <3> QED BY <2>1, <2>2, <3>1
    <2>10. CASE UNCHANGED vars  BY <2>1, <2>10 DEF vars
    <2> QED BY <1>1, <2>3, <2>4, <2>5, <2>6, <2>7, <2>8, <2>9, <2>10 DEF Next
  <1> QED BY <1>1, HandlersAlways, PTL DEF Spec, NeverMovedBack
=============================================================================
