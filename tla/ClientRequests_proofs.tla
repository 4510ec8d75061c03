----------------------- MODULE ClientRequests_proofs -----------------------
(***************************************************************************)
(* Proofs about ClientRequests for every number of request numbers.         *)
(***************************************************************************)
EXTENDS ClientRequests, SequenceTheorems, FiniteSetTheorems, TLAPS

Calls == [kind : {"request", "close"}, finite : BOOLEAN, threw : BOOLEAN,
          ignored : BOOLEAN, answers : Nat, answer : Int, dropped : BOOLEAN]

\* The table and the calls fit: what OutstandingUntilAnswered and AnswerIsOwn say
\* of the table out and the calls made, with their types.
Fits(out, made) ==
    /\ made \in Seq(Calls)
    /\ DOMAIN out \subseteq RequestNumbers
    /\ out \in [DOMAIN out -> DOMAIN made]
    /\ \A i, j \in DOMAIN out : out[i] = out[j] => i = j
    /\ \A c \in DOMAIN made :
         /\ made[c].answer \in {NoAnswer, Error, c}
         /\ ~made[c].threw /\ ~made[c].ignored =>
              \/ /\ made[c].answers = 0 /\ ~made[c].dropped
                 /\ \E i \in DOMAIN out : out[i] = c
              \/ /\ made[c].answers = (IF made[c].dropped THEN 0 ELSE 1)
                 /\ \A i \in DOMAIN out : out[i] # c

\* A message with the number of an entry is about that entry.
Own(out, messages) ==
    /\ messages \subseteq RequestNumbers \X Nat
    /\ \A m \in messages : m[1] \in DOMAIN out => out[m[1]] = m[2]

\* The inductive invariant: besides, only closes that were not sent are posted.
IInv ==
    /\ m_Connected \in BOOLEAN /\ connection_test_timer \in BOOLEAN
    /\ request_number \in RequestNumbers /\ client_closed \in Nat
    /\ Fits(outstanding_requests, calls)
    /\ Own(outstanding_requests, at_service \cup replies)
    /\ posted_close \subseteq {c \in DOMAIN calls : calls[c].threw}
    /\ TestedWhileOutstanding
    /\ ClosedIsFinal

-----------------------------------------------------------------------------
\* The loop of AsyncProcessRequest finds a number that is not taken.
LEMMA NumberIsFree ==
  ASSUME NEW taken, request_number \in RequestNumbers, NEW n \in NextNumbers(taken)
  PROVE  n \in RequestNumbers /\ n \notin taken
  <1>1. PICK k \in 1..NumRequests : /\ n = (request_number + k) % NumRequests
                                    /\ n \notin taken
    BY DEF NextNumbers
  <1>2. request_number + k \in Nat  BY DEF RequestNumbers
  <1>3. NumRequests \in Nat /\ NumRequests >= 1  BY BoundsAssumption
  <1> QED BY <1>1, <1>2, <1>3 DEF RequestNumbers

\* The invariant holds at first.
LEMMA InvariantInit == Init => IInv
  <1> SUFFICES ASSUME Init PROVE IInv  OBVIOUS
  <1>1. calls \in Seq(Calls) /\ DOMAIN calls = {}  BY DEF Init
  <1>2. DOMAIN outstanding_requests = {}  BY DEF Init
  <1>3. outstanding_requests \in [DOMAIN outstanding_requests -> DOMAIN calls]
    BY <1>2 DEF Init
  <1>4. Fits(outstanding_requests, calls)  BY <1>1, <1>2, <1>3 DEF Fits
  <1>5. Own(outstanding_requests, at_service \cup replies)  BY DEF Init, Own
  <1>6. request_number \in RequestNumbers  BY BoundsAssumption DEF Init, RequestNumbers
  <1>7. TestedWhileOutstanding  BY <1>2 DEF TestedWhileOutstanding
  <1>8. ClosedIsFinal  BY DEF Init, ClosedIsFinal
  <1> QED BY <1>4, <1>5, <1>6, <1>7, <1>8 DEF Init, IInv

\* A new call that is made and sent, or throws, fits.
LEMMA NewCallFits ==
  ASSUME NEW out, NEW made, Fits(out, made), NEW n \in RequestNumbers, n \notin DOMAIN out,
         NEW call \in Calls, call.answers = 0, call.answer = NoAnswer, ~call.dropped,
         NEW out2 \in [DOMAIN out \cup {n} -> Nat],
         out2[n] = Len(made) + 1, \A i \in DOMAIN out : out2[i] = out[i]
  PROVE  /\ Fits(out2, Append(made, call))
         /\ DOMAIN Append(made, call) = DOMAIN made \cup {Len(made) + 1}
         /\ Len(made) + 1 \notin DOMAIN made
         /\ \A c \in DOMAIN made : Append(made, call)[c] = made[c]
         /\ Append(made, call)[Len(made) + 1] = call
  <1> DEFINE made2 == Append(made, call)
  <1>1. made \in Seq(Calls) /\ DOMAIN made = 1..Len(made) /\ Len(made) \in Nat  BY DEF Fits
  <1>2. /\ made2 \in Seq(Calls) /\ Len(made2) = Len(made) + 1
        /\ \A i \in 1..Len(made) : made2[i] = made[i]
        /\ made2[Len(made) + 1] = call
    BY <1>1, AppendProperties
  <1>3. DOMAIN made2 = 1..(Len(made) + 1)  BY <1>2
  <1>4. DOMAIN made2 = DOMAIN made \cup {Len(made) + 1} /\ Len(made) + 1 \notin DOMAIN made
    BY <1>1, <1>3
  <1>5. DOMAIN out2 = DOMAIN out \cup {n} /\ DOMAIN out2 \subseteq RequestNumbers  BY DEF Fits
  <1>6. /\ out2[n] = Len(made) + 1
        /\ \A i \in DOMAIN out : out2[i] = out[i] /\ out[i] \in DOMAIN made
    BY DEF Fits
  <1>7. out2 \in [DOMAIN out2 -> DOMAIN made2]  BY <1>4, <1>5, <1>6
  <1>8. \A i, j \in DOMAIN out2 : out2[i] = out2[j] => i = j
    BY <1>4, <1>5, <1>6 DEF Fits
  <1>9. ASSUME NEW c \in DOMAIN made2
        PROVE  /\ made2[c].answer \in {NoAnswer, Error, c}
               /\ ~made2[c].threw /\ ~made2[c].ignored =>
                    \/ /\ made2[c].answers = 0 /\ ~made2[c].dropped
                       /\ \E i \in DOMAIN out2 : out2[i] = c
                    \/ /\ made2[c].answers = (IF made2[c].dropped THEN 0 ELSE 1)
                       /\ \A i \in DOMAIN out2 : out2[i] # c
    <2>1. CASE c = Len(made) + 1  BY <2>1, <1>2, <1>5, <1>6
    <2>2. CASE c \in DOMAIN made
      <3>1. made2[c] = made[c] /\ c # Len(made) + 1  BY <2>2, <1>1, <1>2
      <3>2. (\E i \in DOMAIN out : out[i] = c) <=> (\E i \in DOMAIN out2 : out2[i] = c)
        BY <3>1, <1>5, <1>6
      <3> QED BY <2>2, <3>1, <3>2 DEF Fits
    <2> QED BY <1>4, <2>1, <2>2
  <1> QED BY <1>1, <1>2, <1>4, <1>5, <1>7, <1>8, <1>9 DEF Fits

\* Calls of the library's kind of sequence, for any function of the same length.
LEMMA SameLength ==
  ASSUME NEW made \in Seq(Calls), NEW made2 \in [DOMAIN made -> Calls]
  PROVE  made2 \in Seq(Calls)
  <1>1. DOMAIN made = 1..Len(made) /\ Len(made) \in Nat  OBVIOUS
  <1> QED BY <1>1, SeqDef

\* If exactly those whose entries are removed are answered, the rest still fits.
LEMMA AnsweredFits ==
  ASSUME NEW out, NEW made, Fits(out, made),
         NEW out2, NEW made2 \in [DOMAIN made -> Calls],
         DOMAIN out2 \subseteq DOMAIN out, out2 = [i \in DOMAIN out2 |-> out[i]],
         \A d \in DOMAIN made :
           /\ made2[d].threw = made[d].threw /\ made2[d].ignored = made[d].ignored
           /\ made2[d].dropped = made[d].dropped
           /\ made2[d].answer \in {NoAnswer, Error, d}
           /\ ~made[d].threw /\ ~made[d].ignored =>
                made2[d].answers =
                  IF \E i \in DOMAIN out \ DOMAIN out2 : out[i] = d
                  THEN made[d].answers + 1 ELSE made[d].answers
  PROVE  Fits(out2, made2)
  <1>1. made2 \in Seq(Calls) /\ DOMAIN made2 = DOMAIN made  BY SameLength DEF Fits
  <1>2. \A i \in DOMAIN out2 : out2[i] = out[i] /\ out[i] \in DOMAIN made  BY DEF Fits
  <1>3. DOMAIN out2 \subseteq RequestNumbers /\ out2 \in [DOMAIN out2 -> DOMAIN made2]
    BY <1>1, <1>2 DEF Fits
  <1>4. \A i, j \in DOMAIN out2 : out2[i] = out2[j] => i = j  BY <1>2 DEF Fits
  <1>5. ASSUME NEW c \in DOMAIN made, ~made2[c].threw, ~made2[c].ignored
        PROVE  \/ /\ made2[c].answers = 0 /\ ~made2[c].dropped
                  /\ \E i \in DOMAIN out2 : out2[i] = c
               \/ /\ made2[c].answers = (IF made2[c].dropped THEN 0 ELSE 1)
                  /\ \A i \in DOMAIN out2 : out2[i] # c
    <2>1. ~made[c].threw /\ ~made[c].ignored /\ made2[c].dropped = made[c].dropped  BY <1>5
    <2>2. CASE \E i \in DOMAIN out \ DOMAIN out2 : out[i] = c
      <3>1. PICK i \in DOMAIN out \ DOMAIN out2 : out[i] = c  BY <2>2
      <3>2. made[c].answers = 0 /\ ~made[c].dropped  BY <2>1, <3>1 DEF Fits
      <3>3. made2[c].answers = 1  BY <2>1, <2>2, <3>2
      <3>4. \A j \in DOMAIN out2 : out2[j] # c  BY <1>2, <3>1 DEF Fits
      <3> QED BY <2>1, <3>2, <3>3, <3>4
    <2>3. CASE ~\E i \in DOMAIN out \ DOMAIN out2 : out[i] = c
      <3>1. made2[c].answers = made[c].answers  BY <2>1, <2>3
      <3>2. (\E i \in DOMAIN out : out[i] = c) <=> (\E i \in DOMAIN out2 : out2[i] = c)
        BY <1>2, <2>3
      <3> QED BY <2>1, <3>1, <3>2 DEF Fits
    <2> QED BY <2>2, <2>3
  <1> QED BY <1>1, <1>3, <1>4, <1>5 DEF Fits

\* A reply that is dropped: its entry goes, and the call is as if answered.
LEMMA DroppedFits ==
  ASSUME NEW out, NEW made, Fits(out, made), NEW n \in DOMAIN out
  PROVE  Fits([i \in DOMAIN out \ {n} |-> out[i]], [made EXCEPT ![out[n]].dropped = TRUE])
  <1> DEFINE out2 == [i \in DOMAIN out \ {n} |-> out[i]]
             made2 == [made EXCEPT ![out[n]].dropped = TRUE]
  <1>1. made \in Seq(Calls) /\ out[n] \in DOMAIN made  BY DEF Fits
  <1>2. \A i \in DOMAIN out2 : i \in DOMAIN out /\ out2[i] = out[i] /\ i # n  OBVIOUS
  <1>3. /\ DOMAIN made2 = DOMAIN made
        /\ \A d \in DOMAIN made : d # out[n] => made2[d] = made[d]
        /\ made2[out[n]] = [made[out[n]] EXCEPT !.dropped = TRUE]
    BY <1>1
  <1>4. ASSUME NEW r \in Calls, NEW r2, r2 = [r EXCEPT !.dropped = TRUE]
        PROVE  /\ r2 \in Calls /\ r2.threw = r.threw /\ r2.ignored = r.ignored
               /\ r2.answers = r.answers /\ r2.answer = r.answer /\ r2.dropped
    <2>1. r2 = [kind |-> r.kind, finite |-> r.finite, threw |-> r.threw,
                ignored |-> r.ignored, answers |-> r.answers, answer |-> r.answer,
                dropped |-> TRUE]
      BY <1>4 DEF Calls
    <2> QED BY <2>1 DEF Calls
  <1> HIDE DEF out2, made2
  <1>5. ASSUME NEW d \in DOMAIN made
        PROVE  /\ made2[d] \in Calls
               /\ made2[d].threw = made[d].threw /\ made2[d].ignored = made[d].ignored
               /\ made2[d].answers = made[d].answers /\ made2[d].answer = made[d].answer
               /\ made2[d].dropped = (d = out[n] \/ made[d].dropped)
    <2>1. made[d] \in Calls  BY <1>1
    <2>2. made[d].dropped \in BOOLEAN  BY <2>1 DEF Calls
    <2>3. CASE d = out[n]
      <3>1. made2[d] = [made[d] EXCEPT !.dropped = TRUE]  BY <1>3, <2>3
      <3>2. made2[d].dropped = TRUE  BY <2>1, <3>1 DEF Calls
      <3> QED BY <1>4, <2>1, <2>3, <3>1, <3>2
    <2>4. CASE d # out[n]  BY <1>3, <2>1, <2>2, <2>4
    <2> QED BY <2>3, <2>4
  <1>6. made2 \in Seq(Calls)
    <2>1. made2 = [d \in DOMAIN made |-> made2[d]]  BY DEF made2
    <2>2. made2 \in [DOMAIN made -> Calls]  BY <1>5, <2>1
    <2> QED BY <1>1, <2>2, SameLength
  <1>7. DOMAIN out2 \subseteq RequestNumbers /\ out2 \in [DOMAIN out2 -> DOMAIN made2]
    <2>1. out2 = [i \in DOMAIN out2 |-> out2[i]]  BY DEF out2
    <2> QED BY <1>2, <1>3, <2>1 DEF Fits
  <1>8. \A i, j \in DOMAIN out2 : out2[i] = out2[j] => i = j  BY <1>2 DEF Fits
  <1>9. ASSUME NEW c \in DOMAIN made, ~made2[c].threw, ~made2[c].ignored
        PROVE  \/ /\ made2[c].answers = 0 /\ ~made2[c].dropped
                  /\ \E i \in DOMAIN out2 : out2[i] = c
               \/ /\ made2[c].answers = (IF made2[c].dropped THEN 0 ELSE 1)
                  /\ \A i \in DOMAIN out2 : out2[i] # c
    <2>1. ~made[c].threw /\ ~made[c].ignored  BY <1>5, <1>9
    <2>2. CASE c = out[n]
      <3>1. made[c].answers = 0  BY <2>1, <2>2 DEF Fits
      <3>2. \A i \in DOMAIN out2 : out2[i] # c  BY <1>2, <2>2 DEF Fits
      <3> QED BY <1>5, <2>2, <3>1, <3>2
    <2>3. CASE c # out[n]
      <3>1. (\E i \in DOMAIN out : out[i] = c) <=> (\E i \in DOMAIN out2 : out2[i] = c)
        BY <2>3 DEF out2
      <3>2. made2[c] = made[c]  BY <1>3, <2>3
      <3> QED BY <2>1, <3>1, <3>2 DEF Fits
    <2> QED BY <2>2, <2>3
  <1>10. \A c \in DOMAIN made : made2[c].answer \in {NoAnswer, Error, c}
    BY <1>5 DEF Fits
  <1>11. Fits(out2, made2)  BY <1>3, <1>6, <1>7, <1>8, <1>9, <1>10 DEF Fits
  <1> QED BY <1>11 DEF out2, made2

\* Messages that are fewer, and entries that are fewer, still belong together.
LEMMA StillOwn ==
  ASSUME NEW out, NEW out2, NEW old, NEW new, Own(out, old), new \subseteq old,
         DOMAIN out2 \subseteq DOMAIN out, \A i \in DOMAIN out2 : out2[i] = out[i]
  PROVE  Own(out2, new)
  BY DEF Own

\* AsyncProcessRequest and AsyncClose, and the next request of a chain.
LEMMA ProcessKeeps ==
  ASSUME NEW out, NEW made, NEW call \in Calls,
         call.answers = 0, call.answer = NoAnswer, ~call.dropped,
         m_Connected \in BOOLEAN, m_Connected, request_number \in RequestNumbers,
         client_closed = 0, Fits(out, made), Own(out, at_service \cup replies),
         posted_close \subseteq {c \in DOMAIN made : made[c].threw},
         Process(call, out, made), replies' \subseteq replies
  PROVE  IInv'
  <1>1. PICK n \in NextNumbers(DOMAIN out), sent \in BOOLEAN :
          /\ InWindow(n)
          /\ request_number' = n
          /\ outstanding_requests' =
               [i \in DOMAIN out \cup {n} |-> IF i = n THEN Len(made) + 1 ELSE out[i]]
          /\ connection_test_timer' = StartConnectionTest
          /\ calls' = Append(made, [call EXCEPT !.threw = ~sent])
          /\ at_service' = IF sent THEN at_service \cup {<<n, Len(made) + 1>>} ELSE at_service
          /\ IF call.kind = "close" /\ ~sent
             THEN m_Connected' = FALSE /\ posted_close' = posted_close \cup {Len(made) + 1}
             ELSE UNCHANGED <<m_Connected, posted_close>>
          /\ UNCHANGED <<link, client_closed>>
    BY Zenon DEF Process
  <1>2. n \in RequestNumbers /\ n \notin DOMAIN out  BY NumberIsFree
  <1> DEFINE new == [call EXCEPT !.threw = ~sent]
  <1>3. /\ new \in Calls /\ new.answers = 0 /\ new.answer = NoAnswer /\ new.threw = ~sent
        /\ ~new.dropped
    BY DEF Calls
  <1>10. calls' = Append(made, new)  BY <1>1
  <1>11. outstanding_requests' =
           [i \in DOMAIN out \cup {n} |-> IF i = n THEN Len(made) + 1 ELSE out[i]]
    BY <1>1
  <1> HIDE DEF new
  <1>4. /\ Fits(outstanding_requests', calls')
        /\ DOMAIN calls' = DOMAIN made \cup {Len(made) + 1} /\ Len(made) + 1 \notin DOMAIN made
        /\ \A c \in DOMAIN made : calls'[c] = made[c]
        /\ calls'[Len(made) + 1] = new
    <2> DEFINE out2 == outstanding_requests'
    <2>3. Len(made) + 1 \in Nat /\ \A i \in DOMAIN out : out[i] \in Nat  BY DEF Fits
    <2>4. /\ out2 \in [DOMAIN out \cup {n} -> Nat] /\ out2[n] = Len(made) + 1
          /\ \A i \in DOMAIN out : out2[i] = out[i]
      BY <1>2, <1>11, <2>3
    <2> HIDE DEF out2
    <2>1. Fits(out2, Append(made, new))
      BY <1>2, <1>3, <2>4, NewCallFits
    <2>2. /\ DOMAIN Append(made, new) = DOMAIN made \cup {Len(made) + 1}
          /\ Len(made) + 1 \notin DOMAIN made
          /\ \A c \in DOMAIN made : Append(made, new)[c] = made[c]
          /\ Append(made, new)[Len(made) + 1] = new
      BY <1>2, <1>3, <2>4, NewCallFits
    <2> QED BY <2>1, <2>2, <1>10 DEF out2
  <1>5. Own(outstanding_requests', (at_service \cup replies)')
    <2>1. (at_service \cup replies)' \subseteq at_service \cup replies \cup {<<n, Len(made) + 1>>}
      BY <1>1
    <2>2. Len(made) + 1 \in Nat  BY DEF Fits
    <2>3. \A m \in at_service \cup replies : m[1] # n  BY <1>1 DEF InWindow
    <2>4. /\ DOMAIN outstanding_requests' = DOMAIN out \cup {n}
          /\ outstanding_requests'[n] = Len(made) + 1
          /\ \A i \in DOMAIN out : outstanding_requests'[i] = out[i]
      BY <1>1, <1>2
    <2>5. (at_service \cup replies)' \subseteq RequestNumbers \X Nat
      BY <1>2, <2>1, <2>2 DEF Own
    <2>6. ASSUME NEW m \in (at_service \cup replies)', m[1] \in DOMAIN outstanding_requests'
          PROVE  outstanding_requests'[m[1]] = m[2]
      <3>1. CASE m = <<n, Len(made) + 1>>  BY <3>1, <2>4
      <3>2. CASE m \in at_service \cup replies
        <4>1. m[1] \in DOMAIN out  BY <2>3, <2>4, <2>6, <3>2
        <4> QED BY <2>4, <3>2, <4>1 DEF Own
      <3> QED BY <2>1, <3>1, <3>2
    <2> QED BY <2>5, <2>6 DEF Own
  <1>6. posted_close' \subseteq {c \in DOMAIN calls' : calls'[c].threw}
    <2>1. posted_close \subseteq {c \in DOMAIN calls' : calls'[c].threw}  BY <1>4
    <2>2. CASE call.kind = "close" /\ ~sent
      <3>1. posted_close' = posted_close \cup {Len(made) + 1}  BY <1>1, <2>2
      <3>2. calls'[Len(made) + 1].threw /\ Len(made) + 1 \in DOMAIN calls'
        BY <1>3, <1>4, <2>2
      <3> QED BY <2>1, <3>1, <3>2
    <2>3. CASE ~(call.kind = "close" /\ ~sent)
      <3>1. posted_close' = posted_close  BY <1>1, <2>3
      <3> QED BY <2>1, <3>1
    <2> QED BY <2>2, <2>3
  <1>7. TestedWhileOutstanding' /\ connection_test_timer' \in BOOLEAN
    BY <1>1 DEF TestedWhileOutstanding, StartConnectionTest
  <1>8. ClosedIsFinal' /\ client_closed' \in Nat  BY <1>1 DEF ClosedIsFinal
  <1>9. request_number' \in RequestNumbers /\ m_Connected' \in BOOLEAN  BY <1>1, <1>2
  <1> QED BY <1>4, <1>5, <1>6, <1>7, <1>8, <1>9 DEF IInv

\* The number of closes that are outstanding is a number.
LEMMA ClosesCounted ==
  ASSUME Fits(outstanding_requests, calls)
  PROVE  Cardinality(Closes) \in Nat /\ (Closes = {} => Cardinality(Closes) = 0)
  <1>1. DOMAIN calls = 1..Len(calls) /\ Len(calls) \in Nat  BY DEF Fits
  <1>2. IsFiniteSet(DOMAIN calls)  BY <1>1, FS_Interval
  <1>3. Closes \subseteq DOMAIN calls  BY DEF Fits, Closes, Outstanding
  <1> QED BY <1>2, <1>3, FS_Subset, FS_CardinalityType, FS_EmptySet

\* Once closed nothing is outstanding.
LEMMA NotClosedYet ==
  ASSUME IInv, m_Connected \/ Outstanding # {}
  PROVE  client_closed = 0
  BY DEF IInv, ClosedIsFinal

\* What a step that calls handlers must do to keep the invariant: answered are
\* the calls whose entries it removes, and entries are left only if the client
\* is not closed by it.
LEMMA AnswerKeeps ==
  ASSUME IInv,
         DOMAIN outstanding_requests' \subseteq DOMAIN outstanding_requests,
         outstanding_requests' =
           [i \in DOMAIN outstanding_requests' |-> outstanding_requests[i]],
         calls' \in [DOMAIN calls -> Calls],
         \A d \in DOMAIN calls :
           /\ calls'[d].threw = calls[d].threw /\ calls'[d].ignored = calls[d].ignored
           /\ calls'[d].dropped = calls[d].dropped
           /\ calls'[d].answer \in {NoAnswer, Error, d}
           /\ Sent(d) =>
                calls'[d].answers =
                  IF \E i \in DOMAIN outstanding_requests \ DOMAIN outstanding_requests' :
                       outstanding_requests[i] = d
                  THEN calls[d].answers + 1 ELSE calls[d].answers,
         m_Connected' \in BOOLEAN, connection_test_timer' \in BOOLEAN,
         UNCHANGED request_number, client_closed' \in Nat,
         posted_close' \subseteq posted_close,
         (at_service \cup replies)' \subseteq at_service \cup replies,
         TestedWhileOutstanding',
         client_closed' > 0 => ~m_Connected' /\ DOMAIN outstanding_requests' = {}
  PROVE  IInv'
  <1>1. Fits(outstanding_requests', calls')
    <2> DEFINE out2 == outstanding_requests'  made2 == calls'
    <2>1. /\ Fits(outstanding_requests, calls)
          /\ DOMAIN out2 \subseteq DOMAIN outstanding_requests
          /\ out2 = [i \in DOMAIN out2 |-> outstanding_requests[i]]
          /\ made2 \in [DOMAIN calls -> Calls]
          /\ \A d \in DOMAIN calls :
               /\ made2[d].threw = calls[d].threw /\ made2[d].ignored = calls[d].ignored
               /\ made2[d].dropped = calls[d].dropped
               /\ made2[d].answer \in {NoAnswer, Error, d}
               /\ ~calls[d].threw /\ ~calls[d].ignored =>
                    made2[d].answers =
                      IF \E i \in DOMAIN outstanding_requests \ DOMAIN out2 :
                           outstanding_requests[i] = d
                      THEN calls[d].answers + 1 ELSE calls[d].answers
      BY DEF IInv, Sent
    <2> HIDE DEF out2, made2
    <2>2. Fits(out2, made2)  BY <2>1, AnsweredFits
    <2> QED BY <2>2 DEF out2, made2
  <1>2. Own(outstanding_requests', (at_service \cup replies)')  BY DEF IInv, Own
  <1>3. posted_close' \subseteq {c \in DOMAIN calls' : calls'[c].threw}  BY DEF IInv
  <1>4. ClosedIsFinal'
    <2>1. DOMAIN outstanding_requests' = {} => Outstanding' = {}  BY DEF Outstanding
    <2> QED BY <1>3, <2>1 DEF ClosedIsFinal
  <1> QED BY <1>1, <1>2, <1>3, <1>4 DEF IInv

\* What Answered makes of the record of a call.
LEMMA AnsweredCall ==
  ASSUME NEW d \in DOMAIN calls, calls[d] \in Calls, NEW a \in Int
  PROVE  /\ Answered(d, a) \in Calls /\ Answered(d, a).kind = calls[d].kind
         /\ Answered(d, a).threw = calls[d].threw /\ Answered(d, a).ignored = calls[d].ignored
         /\ Answered(d, a).dropped = calls[d].dropped
         /\ Answered(d, a).answer = a /\ Answered(d, a).answers = calls[d].answers + 1
  <1>1. ASSUME NEW r \in Calls, r = calls[d], NEW r2, r2 = Answered(d, a)
        PROVE  /\ r2 \in Calls /\ r2.kind = r.kind
               /\ r2.threw = r.threw /\ r2.ignored = r.ignored
               /\ r2.dropped = r.dropped
               /\ r2.answer = a /\ r2.answers = r.answers + 1
    <2>1. r2 = [r EXCEPT !.answers = @ + 1, !.answer = a]  BY <1>1, Zenon DEF Answered
    <2>2. r2 = [kind |-> r.kind, finite |-> r.finite, threw |-> r.threw,
                ignored |-> r.ignored, answers |-> r.answers + 1, answer |-> a,
                dropped |-> r.dropped]
      BY <2>1 DEF Calls
    <2> QED BY <2>2 DEF Calls
  <1> QED BY <1>1

\* Complete removes an entry, or all of them, and answers whom they belong to.
LEMMA CompleteKeeps ==
  ASSUME IInv, NEW n \in DOMAIN outstanding_requests,
         NEW answer \in {Error, outstanding_requests[n]}, Complete(n, answer),
         (at_service \cup replies)' \subseteq at_service \cup replies,
         connection_test_timer' \in BOOLEAN, TestedWhileOutstanding'
  PROVE  IInv'
  <1> DEFINE c == outstanding_requests[n]
             gone == {d \in DOMAIN calls :
                        \E i \in DOMAIN outstanding_requests \ DOMAIN outstanding_requests' :
                          outstanding_requests[i] = d}
  <1>1. Fits(outstanding_requests, calls) /\ c \in DOMAIN calls  BY DEF IInv, Fits
  <1>2. /\ outstanding_requests' =
             [i \in IF Closing(n) THEN {} ELSE DOMAIN outstanding_requests \ {n} |->
                outstanding_requests[i]]
        /\ calls' = [d \in DOMAIN calls |->
                       IF d = c THEN Answered(c, answer)
                       ELSE IF d \in CompletedWith(n) THEN Answered(d, Error) ELSE calls[d]]
        /\ m_Connected' = (m_Connected /\ ~Closing(n))
        /\ client_closed' = client_closed + (IF Closing(n) THEN Cardinality(Closes) ELSE 0)
        /\ UNCHANGED <<link, request_number, posted_close>>
    BY DEF Complete
  <1>3. DOMAIN outstanding_requests' =
          IF Closing(n) THEN {} ELSE DOMAIN outstanding_requests \ {n}
    BY <1>2
  <1>4. outstanding_requests' =
          [i \in DOMAIN outstanding_requests' |-> outstanding_requests[i]]
    BY <1>2
  <1>5. \A d \in DOMAIN calls :
          calls[d] \in Calls /\ calls[d].answer \in {NoAnswer, Error, d}
    BY <1>1 DEF Fits
  <1>6. \A d \in DOMAIN calls : d \in gone <=> d = c \/ d \in CompletedWith(n)
    <2>1. CASE Closing(n)
      BY <2>1, <1>1, <1>3 DEF CompletedWith, Closing, Outstanding
    <2>2. CASE ~Closing(n)
      <3>1. CompletedWith(n) = {c}  BY <2>2 DEF CompletedWith, Closing
      <3> QED BY <2>2, <3>1, <1>3
    <2> QED BY <2>1, <2>2
  <1>7. ASSUME NEW d \in DOMAIN calls
        PROVE  /\ calls'[d] \in Calls
               /\ calls'[d].threw = calls[d].threw /\ calls'[d].ignored = calls[d].ignored
               /\ calls'[d].dropped = calls[d].dropped
               /\ calls'[d].answer \in {NoAnswer, Error, d}
               /\ calls'[d].answers = IF d \in gone THEN calls[d].answers + 1
                                      ELSE calls[d].answers
    <2> HIDE DEF gone
    <2>1. CASE d = c
      <3>1. calls'[d] = Answered(d, answer) /\ d \in gone
        BY <2>1, <1>1, <1>2, <1>6
      <3>2. answer \in {Error, d} /\ answer \in Int
        BY <2>1, <1>1 DEF Error, Fits
      <3>3. calls[d] \in Calls  BY <1>5
      <3> QED BY <3>1, <3>2, <3>3, AnsweredCall
    <2>2. CASE d # c /\ d \in CompletedWith(n)
      <3>1. calls'[d] = Answered(d, Error) /\ d \in gone
        BY <2>2, <1>2, <1>6
      <3>2. calls[d] \in Calls /\ Error \in Int  BY <1>5 DEF Error
      <3> QED BY <3>1, <3>2, AnsweredCall
    <2>3. CASE d # c /\ d \notin CompletedWith(n)
      <3>1. calls'[d] = calls[d] /\ d \notin gone  BY <2>3, <1>2, <1>6
      <3> QED BY <3>1, <1>5
    <2> QED BY <2>1, <2>2, <2>3
  <1>8. calls' \in [DOMAIN calls -> Calls]
    <2>1. DOMAIN calls' = DOMAIN calls  BY <1>2
    <2>2. calls' = [d \in DOMAIN calls |-> calls'[d]]  BY <1>2
    <2> QED BY <2>1, <2>2, <1>7
  <1>9. m_Connected' \in BOOLEAN /\ client_closed' \in Nat
    BY <1>1, <1>2, ClosesCounted DEF IInv
  <1>10. client_closed' > 0 => ~m_Connected' /\ DOMAIN outstanding_requests' = {}
    <2>1. client_closed = 0  BY NotClosedYet DEF Outstanding
    <2>2. CASE Closing(n)
      <3>1. ~m_Connected' /\ DOMAIN outstanding_requests' = {}  BY <2>2, <1>2, <1>3
      <3> QED BY <3>1
    <2>3. CASE ~Closing(n)
      <3>1. client_closed' = 0  BY <2>1, <2>3, <1>2
      <3> QED BY <3>1
    <2> QED BY <2>2, <2>3
  <1> QED BY <1>2, <1>3, <1>4, <1>7, <1>8, <1>9, <1>10, AnswerKeeps

\* The entries and calls when all that is outstanding is answered, some calls
\* that were not sent perhaps twice.
LEMMA AllAnsweredKeeps ==
  ASSUME IInv, outstanding_requests' = [i \in {} |-> 0],
         calls' \in [DOMAIN calls -> Calls],
         \A d \in DOMAIN calls :
           /\ calls'[d].threw = calls[d].threw /\ calls'[d].ignored = calls[d].ignored
           /\ calls'[d].dropped = calls[d].dropped
           /\ calls'[d].answer \in {calls[d].answer, Error}
           /\ Sent(d) =>
                calls'[d].answers =
                  IF d \in Outstanding THEN calls[d].answers + 1 ELSE calls[d].answers,
         m_Connected' \in BOOLEAN, connection_test_timer' \in BOOLEAN,
         UNCHANGED request_number, client_closed' \in Nat,
         posted_close' \subseteq posted_close, UNCHANGED <<at_service, replies>>,
         client_closed' > 0 => ~m_Connected'
  PROVE  IInv'
  <1>1. DOMAIN outstanding_requests' = {}  OBVIOUS
  <1>2. outstanding_requests' =
          [i \in DOMAIN outstanding_requests' |-> outstanding_requests[i]]
    BY <1>1
  <1>3. \A d \in DOMAIN calls : calls'[d].answer \in {NoAnswer, Error, d}
    BY DEF IInv, Fits
  <1>4. \A d \in DOMAIN calls :
          d \in Outstanding <=>
            \E i \in DOMAIN outstanding_requests \ DOMAIN outstanding_requests' :
              outstanding_requests[i] = d
    BY <1>1 DEF Outstanding
  <1>5. TestedWhileOutstanding'  BY <1>1 DEF TestedWhileOutstanding
  <1>6. (at_service \cup replies)' \subseteq at_service \cup replies  OBVIOUS
  <1>7. \A d \in DOMAIN calls :
          Sent(d) =>
            calls'[d].answers =
              IF \E i \in DOMAIN outstanding_requests \ DOMAIN outstanding_requests' :
                   outstanding_requests[i] = d
              THEN calls[d].answers + 1 ELSE calls[d].answers
    BY <1>4
  <1> QED BY <1>1, <1>2, <1>3, <1>5, <1>6, <1>7, AnswerKeeps

\* connection_test
LEMMA ConnectionTestKeeps == ASSUME IInv, ConnectionTest PROVE IInv'
  <1>1. /\ calls' = [d \in DOMAIN calls |->
                       IF d \in Outstanding THEN Answered(d, Error) ELSE calls[d]]
        /\ outstanding_requests' = [n \in {} |-> 0]
        /\ connection_test_timer' = FALSE
        /\ client_closed' = client_closed + Cardinality(Closes)
        /\ m_Connected' = (m_Connected /\ Closes = {})
        /\ UNCHANGED <<request_number, at_service, replies, posted_close>>
    BY DEF ConnectionTest, CompleteAll
  <1>2. \A d \in DOMAIN calls : calls[d] \in Calls  BY DEF IInv, Fits
  <1>3. ASSUME NEW d \in DOMAIN calls
        PROVE  /\ calls'[d] \in Calls
               /\ calls'[d].threw = calls[d].threw /\ calls'[d].ignored = calls[d].ignored
               /\ calls'[d].dropped = calls[d].dropped
               /\ calls'[d].answer \in {calls[d].answer, Error}
               /\ calls'[d].answers =
                    IF d \in Outstanding THEN calls[d].answers + 1 ELSE calls[d].answers
    <2>1. CASE d \in Outstanding
      <3>1. calls'[d] = Answered(d, Error) /\ calls[d] \in Calls /\ Error \in Int
        BY <2>1, <1>1, <1>2 DEF Error
      <3> QED BY <2>1, <3>1, AnsweredCall
    <2>2. CASE d \notin Outstanding  BY <2>2, <1>1, <1>2
    <2> QED BY <2>1, <2>2
  <1>4. calls' \in [DOMAIN calls -> Calls]
    <2>1. calls' = [d \in DOMAIN calls |-> calls'[d]]  BY <1>1
    <2> QED BY <2>1, <1>3
  <1>5. m_Connected' \in BOOLEAN /\ client_closed' \in Nat
    BY <1>1, ClosesCounted DEF IInv
  <1>6. client_closed' > 0 => ~m_Connected'
    <2>1. CASE m_Connected /\ Closes = {}
      <3>1. client_closed = 0 /\ Cardinality(Closes) = 0
        BY <2>1, NotClosedYet, ClosesCounted DEF IInv
      <3> QED BY <3>1, <1>1
    <2>2. CASE ~(m_Connected /\ Closes = {})
      <3>1. ~m_Connected'  BY <2>2, <1>1
      <3> QED BY <3>1
    <2> QED BY <2>1, <2>2
  <1> QED BY <1>1, <1>3, <1>4, <1>5, <1>6, AllAnsweredKeeps

\* AsyncClose1 as AsyncClose posted it.
LEMMA PostedCloseKeeps == ASSUME IInv, PostedClose PROVE IInv'
  <1> DEFINE times(c, d) ==
               (IF d = c THEN 1 ELSE 0) + (IF d \in Outstanding THEN 1 ELSE 0)
  <1>1. PICK c \in posted_close :
          /\ posted_close' = posted_close \ {c}
          /\ m_Connected' = FALSE
          /\ calls' = [d \in DOMAIN calls |->
               IF times(c, d) = 0 THEN calls[d]
               ELSE [calls[d] EXCEPT !.answers = @ + times(c, d), !.answer = Error]]
          /\ outstanding_requests' = [n \in {} |-> 0]
          /\ connection_test_timer' = FALSE
          /\ client_closed' = client_closed + 1 + Cardinality(Closes)
          /\ UNCHANGED <<link, request_number, at_service, replies>>
    BY DEF PostedClose
  <1>2. \A d \in DOMAIN calls : calls[d] \in Calls  BY DEF IInv, Fits
  <1>3. \A d : Sent(d) => d # c  BY DEF IInv, Sent
  <1>4. ASSUME NEW d \in DOMAIN calls
        PROVE  /\ calls'[d] \in Calls
               /\ calls'[d].threw = calls[d].threw /\ calls'[d].ignored = calls[d].ignored
               /\ calls'[d].dropped = calls[d].dropped
               /\ calls'[d].answer \in {calls[d].answer, Error}
               /\ calls'[d].answers = calls[d].answers + times(c, d)
    <2>1. CASE times(c, d) = 0
      <3>1. calls'[d] = calls[d] /\ calls[d].answers \in Nat  BY <2>1, <1>1, <1>2 DEF Calls
      <3> QED BY <2>1, <3>1, <1>2
    <2>2. CASE times(c, d) # 0
      <3>1. ASSUME NEW r \in Calls, r = calls[d], NEW r2, r2 = calls'[d],
                   NEW k \in Nat, k = times(c, d)
            PROVE  /\ r2 \in Calls /\ r2.threw = r.threw /\ r2.ignored = r.ignored
                                   /\ r2.dropped = r.dropped
                   /\ r2.answer = Error /\ r2.answers = r.answers + k
        <4>1. calls'[d] = [calls[d] EXCEPT !.answers = @ + times(c, d), !.answer = Error]
          BY <2>2, <1>1
        <4> HIDE DEF times
        <4>2. r2 = [r EXCEPT !.answers = @ + k, !.answer = Error]  BY <3>1, <4>1, Zenon
        <4>3. r2 = [kind |-> r.kind, finite |-> r.finite, threw |-> r.threw,
                    ignored |-> r.ignored, answers |-> r.answers + k, answer |-> Error,
                    dropped |-> r.dropped]
          BY <4>2 DEF Calls
        <4> QED BY <4>3 DEF Calls, Error
      <3>2. times(c, d) \in Nat  OBVIOUS
      <3> QED BY <1>2, <3>1, <3>2
    <2> QED BY <2>1, <2>2
  <1>5. calls' \in [DOMAIN calls -> Calls]
    <2>1. calls' = [d \in DOMAIN calls |-> calls'[d]]  BY <1>1
    <2> QED BY <2>1, <1>4
  <1>6. \A d \in DOMAIN calls :
          Sent(d) => calls'[d].answers =
            IF d \in Outstanding THEN calls[d].answers + 1 ELSE calls[d].answers
    <2>1. ASSUME NEW d \in DOMAIN calls, Sent(d)
          PROVE  calls'[d].answers =
                   IF d \in Outstanding THEN calls[d].answers + 1 ELSE calls[d].answers
      <3>1. d # c /\ calls[d].answers \in Nat  BY <2>1, <1>2, <1>3 DEF Calls
      <3> QED BY <3>1, <1>4
    <2> QED BY <2>1
  <1>7. client_closed' \in Nat
    <2>1. client_closed \in Nat /\ Cardinality(Closes) \in Nat  BY ClosesCounted DEF IInv
    <2>2. client_closed' = client_closed + 1 + Cardinality(Closes)  BY <1>1
    <2> QED BY <2>1, <2>2
  <1> QED BY <1>1, <1>4, <1>5, <1>6, <1>7, AllAnsweredKeeps

\* A call that has no effect but on the caller.
LEMMA RefuseKeeps ==
  ASSUME IInv, NEW call \in Calls, call.threw \/ call.ignored, call.answer = NoAnswer,
         Refuse(call)
  PROVE  IInv'
  <1> DEFINE made == calls'
  <1>1. /\ made = Append(calls, call)
        /\ UNCHANGED <<m_Connected, request_number, outstanding_requests,
                       connection_test_timer, posted_close, at_service, replies, client_closed>>
    BY DEF Refuse
  <1>2. Fits(outstanding_requests, calls)  BY DEF IInv
  <1>3. calls \in Seq(Calls) /\ DOMAIN calls = 1..Len(calls) /\ Len(calls) \in Nat
    BY <1>2 DEF Fits
  <1>4. /\ made \in Seq(Calls) /\ Len(made) = Len(calls) + 1
        /\ \A i \in 1..Len(calls) : made[i] = calls[i]
        /\ made[Len(calls) + 1] = call
    BY <1>1, <1>3, AppendProperties
  <1>5. DOMAIN made = DOMAIN calls \cup {Len(calls) + 1}  BY <1>3, <1>4
  <1> HIDE DEF made
  <1>6. Fits(outstanding_requests, made)
    <2>1. outstanding_requests \in [DOMAIN outstanding_requests -> DOMAIN made]
      BY <1>2, <1>5 DEF Fits
    <2>2. ASSUME NEW c \in DOMAIN made
          PROVE  /\ made[c].answer \in {NoAnswer, Error, c}
                 /\ ~made[c].threw /\ ~made[c].ignored =>
                      \/ /\ made[c].answers = 0 /\ ~made[c].dropped
                         /\ \E i \in DOMAIN outstanding_requests : outstanding_requests[i] = c
                      \/ /\ made[c].answers = (IF made[c].dropped THEN 0 ELSE 1)
                         /\ \A i \in DOMAIN outstanding_requests : outstanding_requests[i] # c
      <3>1. CASE c = Len(calls) + 1  BY <3>1, <1>4
      <3>2. CASE c \in DOMAIN calls
        <4>1. made[c] = calls[c]  BY <3>2, <1>3, <1>4
        <4> QED BY <3>2, <4>1, <1>2 DEF Fits
      <3> QED BY <3>1, <3>2, <1>5
    <2> QED BY <2>1, <2>2, <1>2, <1>4 DEF Fits
  <1>7. posted_close \subseteq {c \in DOMAIN made : made[c].threw}
    BY <1>3, <1>4, <1>5 DEF IInv
  <1>8. ClosedIsFinal'
    <2>1. Outstanding' = Outstanding  BY <1>1 DEF Outstanding
    <2> QED BY <1>1, <1>7, <2>1 DEF IInv, ClosedIsFinal, made
  <1>9. TestedWhileOutstanding'  BY <1>1 DEF IInv, TestedWhileOutstanding
  <1>10. Own(outstanding_requests', (at_service \cup replies)')  BY <1>1 DEF IInv
  <1> QED BY <1>1, <1>6, <1>7, <1>8, <1>9, <1>10 DEF IInv, made

\* A call that is refused is recorded as thrown, or its reply as not waited for,
\* and has no answer: AsyncProcessRequest and AsyncClose when not connected.
LEMMA RefusedCall ==
  ASSUME NEW r \in Calls, r.answer = NoAnswer, NEW r2,
         \/ r2 = [r EXCEPT !.threw = TRUE]
         \/ r2 = [r EXCEPT !.ignored = TRUE]
  PROVE  r2 \in Calls /\ (r2.threw \/ r2.ignored) /\ r2.answer = NoAnswer
  <1>1. CASE r2 = [r EXCEPT !.threw = TRUE]
    <2>1. r2 = [kind |-> r.kind, finite |-> r.finite, threw |-> TRUE,
                ignored |-> r.ignored, answers |-> r.answers, answer |-> r.answer,
                dropped |-> r.dropped]
      BY <1>1 DEF Calls
    <2> QED BY <2>1 DEF Calls
  <1>2. CASE r2 = [r EXCEPT !.ignored = TRUE]
    <2>1. r2 = [kind |-> r.kind, finite |-> r.finite, threw |-> r.threw,
                ignored |-> TRUE, answers |-> r.answers, answer |-> r.answer,
                dropped |-> r.dropped]
      BY <1>2 DEF Calls
    <2> QED BY <2>1 DEF Calls
  <1> QED BY <1>1, <1>2

\* AsyncProcessRequest and AsyncClose.
LEMMA AsyncProcessRequestKeeps == ASSUME IInv, AsyncProcessRequest PROVE IInv'
  <1>1. PICK finite \in BOOLEAN :
          \/ /\ m_Connected
             /\ Process(NewCall("request", finite), outstanding_requests, calls)
             /\ UNCHANGED replies
          \/ ~m_Connected /\ Refuse([NewCall("request", finite) EXCEPT !.threw = TRUE])
    BY DEF AsyncProcessRequest
  <1>2. NewCall("request", finite) \in Calls  BY DEF NewCall, Calls, NoAnswer
  <1>3. /\ NewCall("request", finite).answers = 0
        /\ NewCall("request", finite).answer = NoAnswer
        /\ ~NewCall("request", finite).dropped
    BY DEF NewCall
  <1>4. CASE m_Connected /\ Process(NewCall("request", finite), outstanding_requests, calls)
               /\ UNCHANGED replies
    <2>1. client_closed = 0  BY <1>4, NotClosedYet
    <2> QED BY <1>2, <1>3, <1>4, <2>1, ProcessKeeps DEF IInv
  <1>5. CASE Refuse([NewCall("request", finite) EXCEPT !.threw = TRUE])
    <2> DEFINE call == [NewCall("request", finite) EXCEPT !.threw = TRUE]
    <2>1. call \in Calls /\ (call.threw \/ call.ignored) /\ call.answer = NoAnswer
      BY <1>2, <1>3, RefusedCall
    <2> HIDE DEF call
    <2>2. Refuse(call)  BY <1>5 DEF call
    <2> QED BY <2>1, <2>2, RefuseKeeps
  <1> QED BY <1>1, <1>4, <1>5

\* A close that the connection no longer carries is not waited for.
LEMMA AsyncCloseKeeps == ASSUME IInv, AsyncClose PROVE IInv'
  <1> DEFINE new == NewCall("close", TRUE)
  <1>1. /\ new \in Calls /\ new.answers = 0 /\ new.answer = NoAnswer /\ ~new.dropped
    BY DEF NewCall, Calls, NoAnswer
  <1>2. CASE m_Connected /\ Process(new, outstanding_requests, calls) /\ UNCHANGED replies
    <2>1. client_closed = 0  BY <1>2, NotClosedYet
    <2> QED BY <1>1, <1>2, <2>1, ProcessKeeps DEF IInv
  <1>3. CASE Refuse([new EXCEPT !.ignored = TRUE])
    <2> DEFINE call == [new EXCEPT !.ignored = TRUE]
    <2>1. call \in Calls /\ (call.threw \/ call.ignored) /\ call.answer = NoAnswer
      BY <1>1, RefusedCall
    <2> HIDE DEF call
    <2>2. Refuse(call)  BY <1>3 DEF call
    <2> QED BY <2>1, <2>2, RefuseKeeps
  <1> QED BY <1>2, <1>3 DEF AsyncClose

\* A step that answers nobody and makes no call.
LEMMA MessagesKeep ==
  ASSUME IInv, (at_service \cup replies)' \subseteq at_service \cup replies,
         UNCHANGED <<m_Connected, request_number, outstanding_requests,
                     connection_test_timer, posted_close, calls, client_closed>>
  PROVE  IInv'
  <1>1. Own(outstanding_requests', (at_service \cup replies)')  BY DEF IInv, Own
  <1>2. ClosedIsFinal' /\ TestedWhileOutstanding'
    BY DEF IInv, ClosedIsFinal, TestedWhileOutstanding, Outstanding
  <1> QED BY <1>1, <1>2 DEF IInv

\* The entry of a reply that is dropped goes, and nobody is told.
LEMMA DropKeeps ==
  ASSUME IInv, NEW n \in DOMAIN outstanding_requests, Drop(n),
         (at_service \cup replies)' \subseteq at_service \cup replies,
         connection_test_timer' \in BOOLEAN, TestedWhileOutstanding'
  PROVE  IInv'
  <1>1. /\ outstanding_requests' =
             [i \in DOMAIN outstanding_requests \ {n} |-> outstanding_requests[i]]
        /\ calls' = [calls EXCEPT ![outstanding_requests[n]].dropped = TRUE]
        /\ UNCHANGED <<m_Connected, request_number, posted_close, client_closed>>
    BY DEF Drop
  <1>2. Fits(outstanding_requests', calls')  BY <1>1, DroppedFits DEF IInv
  <1>3. Own(outstanding_requests', (at_service \cup replies)')  BY <1>1 DEF IInv, Own
  <1>4. \A d \in DOMAIN calls : d \in DOMAIN calls' /\ calls'[d].threw = calls[d].threw
    <2>1. calls \in Seq(Calls) /\ \A d \in DOMAIN calls : calls[d] \in Calls
      BY DEF IInv, Fits
    <2> QED BY <1>1, <2>1 DEF Calls
  <1>5. posted_close' \subseteq {c \in DOMAIN calls' : calls'[c].threw}
    BY <1>1, <1>4 DEF IInv
  <1>6. ClosedIsFinal'
    <2>1. client_closed = 0  BY NotClosedYet DEF Outstanding
    <2> QED BY <1>1, <2>1 DEF ClosedIsFinal
  <1> QED BY <1>1, <1>2, <1>3, <1>5, <1>6 DEF IInv

\* A reply is given to the entry of its number, which is that of its call.
LEMMA ReceiveReplyKeeps == ASSUME IInv, ReceiveReply PROVE IInv'
  <1>1. PICK m \in replies :
          /\ replies' = replies \ {m} /\ UNCHANGED at_service
          /\ \/ /\ \E n \in EntryFor(m) : Complete(n, m[2]) \/ Drop(n)
                /\ connection_test_timer' =
                     (connection_test_timer /\ DOMAIN outstanding_requests' # {})
             \/ UNCHANGED <<m_Connected, link, request_number, outstanding_requests,
                            connection_test_timer, posted_close, calls, client_closed>>
    BY DEF ReceiveReply
  <1>2. (at_service \cup replies)' \subseteq at_service \cup replies  BY <1>1
  <1>3. CASE /\ \E n \in EntryFor(m) : Complete(n, m[2]) \/ Drop(n)
             /\ connection_test_timer' =
                  (connection_test_timer /\ DOMAIN outstanding_requests' # {})
    <2>1. PICK n \in EntryFor(m) : Complete(n, m[2]) \/ Drop(n)  BY <1>3
    <2>2. n \in DOMAIN outstanding_requests /\ m[2] = outstanding_requests[n]
      BY <1>1 DEF EntryFor, IInv, Own
    <2>3. DOMAIN outstanding_requests' \subseteq DOMAIN outstanding_requests
      BY <2>1 DEF Complete, Drop
    <2>4. TestedWhileOutstanding' /\ connection_test_timer' \in BOOLEAN
      BY <1>3, <2>3 DEF IInv, TestedWhileOutstanding
    <2> QED BY <1>2, <2>1, <2>2, <2>4, CompleteKeeps, DropKeeps
  <1>4. CASE UNCHANGED <<m_Connected, link, request_number, outstanding_requests,
                         connection_test_timer, posted_close, calls, client_closed>>
    BY <1>2, <1>4, MessagesKeep
  <1> QED BY <1>1, <1>3, <1>4

\* A timer, or the error of a send: the timer of the test stops with the closing.
LEMMA ErrorKeeps ==
  ASSUME IInv, NEW n \in DOMAIN outstanding_requests, Complete(n, Error),
         connection_test_timer' = (connection_test_timer /\ ~Closing(n)),
         (at_service \cup replies)' \subseteq at_service \cup replies
  PROVE  IInv'
  <1>1. DOMAIN outstanding_requests' =
          IF Closing(n) THEN {} ELSE DOMAIN outstanding_requests \ {n}
    BY DEF Complete
  <1>2. TestedWhileOutstanding' /\ connection_test_timer' \in BOOLEAN
    BY <1>1 DEF IInv, TestedWhileOutstanding
  <1> QED BY <1>2, CompleteKeeps

\* A timed-out request is answered with the error.
LEMMA RequestTimeoutKeeps == ASSUME IInv, RequestTimeout PROVE IInv'
  <1>1. PICK n \in DOMAIN outstanding_requests :
          /\ Complete(n, Error)
          /\ connection_test_timer' = (connection_test_timer /\ ~Closing(n))
          /\ UNCHANGED <<at_service, replies>>
    BY DEF RequestTimeout
  <1>2. (at_service \cup replies)' \subseteq at_service \cup replies  BY <1>1
  <1> QED BY <1>1, <1>2, ErrorKeeps

\* A send whose error reaches its entry answers it with the error.
LEMMA SendFailsKeeps == ASSUME IInv, SendFails PROVE IInv'
  <1>1. PICK m \in at_service :
          /\ at_service' = at_service \ {m} /\ UNCHANGED replies
          /\ \/ \E n \in EntryFor(m) :
                  /\ Complete(n, Error)
                  /\ connection_test_timer' = (connection_test_timer /\ ~Closing(n))
             \/ UNCHANGED <<m_Connected, link, request_number, outstanding_requests,
                            connection_test_timer, posted_close, calls, client_closed>>
    BY DEF SendFails
  <1>2. (at_service \cup replies)' \subseteq at_service \cup replies  BY <1>1
  <1>3. EntryFor(m) \subseteq DOMAIN outstanding_requests  BY DEF EntryFor
  <1> QED BY <1>1, <1>2, <1>3, ErrorKeeps, MessagesKeep

\* The entry of the request answered goes, and its call is answered.
LEMMA AsksAgainFits ==
  ASSUME IInv, NEW m \in replies, ReplyAsksAgain(m)
  PROVE  LET c    == outstanding_requests[m[1]]
             made == [calls EXCEPT ![c] = Answered(c, m[2])]
         IN  /\ Fits([n \in DOMAIN outstanding_requests \ {m[1]} |->
                       outstanding_requests[n]], made)
             /\ DOMAIN made = DOMAIN calls
             /\ \A d \in DOMAIN calls : made[d].threw = calls[d].threw
  <1> DEFINE c    == outstanding_requests[m[1]]
             out  == [n \in DOMAIN outstanding_requests \ {m[1]} |-> outstanding_requests[n]]
             made == [calls EXCEPT ![c] = Answered(c, m[2])]
  <1>1. m[1] \in DOMAIN outstanding_requests  BY DEF ReplyAsksAgain
  <1>2. Fits(outstanding_requests, calls) /\ m[2] = c  BY <1>1 DEF IInv, Own
  <1>3. c \in DOMAIN calls /\ \A d \in DOMAIN calls : calls[d] \in Calls
    BY <1>1, <1>2 DEF Fits
  <1>4. m[2] \in Int  BY <1>2, <1>3 DEF Fits
  <1>5. /\ Answered(c, m[2]) \in Calls
        /\ Answered(c, m[2]).threw = calls[c].threw
        /\ Answered(c, m[2]).ignored = calls[c].ignored
        /\ Answered(c, m[2]).dropped = calls[c].dropped
        /\ Answered(c, m[2]).answer = c
        /\ Answered(c, m[2]).answers = calls[c].answers + 1
    BY <1>2, <1>3, <1>4, AnsweredCall
  <1>6. /\ DOMAIN out = DOMAIN outstanding_requests \ {m[1]}
        /\ out = [i \in DOMAIN out |-> outstanding_requests[i]]
        /\ \A i \in DOMAIN out : out[i] = outstanding_requests[i]
    OBVIOUS
  <1>7. /\ made \in [DOMAIN calls -> Calls]
        /\ made[c] = Answered(c, m[2])
        /\ \A d \in DOMAIN calls : d # c => made[d] = calls[d]
    BY <1>3, <1>5
  <1>8. \A d \in DOMAIN calls :
          d = c <=> \E i \in DOMAIN outstanding_requests \ DOMAIN out :
                      outstanding_requests[i] = d
    BY <1>1, <1>6
  <1> HIDE DEF c, out, made
  <1>9. ASSUME NEW d \in DOMAIN calls
         PROVE  /\ made[d].threw = calls[d].threw /\ made[d].ignored = calls[d].ignored
                /\ made[d].dropped = calls[d].dropped
                /\ made[d].answer \in {NoAnswer, Error, d}
                /\ made[d].answers =
                     IF \E i \in DOMAIN outstanding_requests \ DOMAIN out :
                          outstanding_requests[i] = d
                     THEN calls[d].answers + 1 ELSE calls[d].answers
    <2>1. CASE d = c  BY <2>1, <1>5, <1>7, <1>8
    <2>2. CASE d # c
      <3>1. made[d] = calls[d]  BY <2>2, <1>7
      <3> QED BY <2>2, <3>1, <1>2, <1>8 DEF Fits
    <2> QED BY <2>1, <2>2
  <1>10. Fits(out, made)  BY <1>2, <1>6, <1>7, <1>9, AnsweredFits
  <1>11. DOMAIN made = DOMAIN calls  BY <1>7
  <1>12. \A d \in DOMAIN calls : made[d].threw = calls[d].threw  BY <1>9
  <1> QED BY <1>10, <1>11, <1>12 DEF c, out, made

\* The next request of a chain is made when the entry of the last is gone.
LEMMA ReplyAsksAgainKeeps ==
  ASSUME IInv, NEW m \in replies, ReplyAsksAgain(m) PROVE IInv'
  <1> DEFINE c    == outstanding_requests[m[1]]
             out  == [n \in DOMAIN outstanding_requests \ {m[1]} |-> outstanding_requests[n]]
             made == [calls EXCEPT ![c] = Answered(c, m[2])]
             call == NewCall("request", TRUE)
  <1>1. /\ m_Connected /\ replies' = replies \ {m}
        /\ Process(call, out, made)
    BY DEF ReplyAsksAgain
  <1>2. call \in Calls /\ call.answers = 0 /\ call.answer = NoAnswer /\ ~call.dropped
    BY DEF NewCall, Calls, NoAnswer
  <1>3. client_closed = 0  BY <1>1, NotClosedYet
  <1>4. \A i \in DOMAIN out : i \in DOMAIN outstanding_requests /\ out[i] = outstanding_requests[i]
    OBVIOUS
  <1>5. /\ Fits(out, made) /\ DOMAIN made = DOMAIN calls
        /\ \A d \in DOMAIN calls : made[d].threw = calls[d].threw
    BY AsksAgainFits
  <1> HIDE DEF c, out, made, call
  <1>6. Own(out, at_service \cup replies)  BY <1>4 DEF IInv, Own
  <1>7. posted_close \subseteq {d \in DOMAIN made : made[d].threw}  BY <1>5 DEF IInv
  <1>8. replies' \subseteq replies /\ m_Connected \in BOOLEAN /\ request_number \in RequestNumbers
    BY <1>1 DEF IInv
  <1> QED BY <1>1, <1>2, <1>3, <1>5, <1>6, <1>7, <1>8, ProcessKeeps

\* Every step keeps the invariant.
LEMMA InvariantStep == IInv /\ [Next]_vars => IInv'
  <1> SUFFICES ASSUME IInv, [Next]_vars PROVE IInv'  OBVIOUS
  <1>1. CASE ServiceReplies
    <2>1. (at_service \cup replies)' \subseteq at_service \cup replies
      BY <1>1 DEF ServiceReplies
    <2> QED BY <1>1, <2>1, MessagesKeep DEF ServiceReplies
  <1>2. CASE LinkLost
    <2>1. (at_service \cup replies)' \subseteq at_service \cup replies  BY <1>2 DEF LinkLost
    <2> QED BY <1>2, <2>1, MessagesKeep DEF LinkLost
  <1>3. CASE UNCHANGED vars
    <2>1. (at_service \cup replies)' \subseteq at_service \cup replies  BY <1>3 DEF vars
    <2> QED BY <1>3, <2>1, MessagesKeep DEF vars
  <1> QED BY <1>1, <1>2, <1>3, AsyncProcessRequestKeeps, AsyncCloseKeeps, ReceiveReplyKeeps,
             ReplyAsksAgainKeeps, RequestTimeoutKeeps, SendFailsKeeps, ConnectionTestKeeps,
             PostedCloseKeeps DEF Next

-----------------------------------------------------------------------------
\* The inductive invariant holds (AsyncProcessRequest, MessageEntryReceived,
\* AsyncProcessRequest_timeout, connection_test, AsyncClose1).
THEOREM Invariance == Spec => []IInv
  <1>1. Init => IInv  BY InvariantInit
  <1>2. IInv /\ [Next]_vars => IInv'  BY InvariantStep
  <1> QED BY <1>1, <1>2, PTL DEF Spec

\* A request that was sent is outstanding until its handler is called, once
\* (outstanding_requests).
THEOREM AnsweredOnce == Spec => []OutstandingUntilAnswered
  <1>1. IInv => OutstandingUntilAnswered
    <2> SUFFICES ASSUME IInv PROVE OutstandingUntilAnswered  OBVIOUS
    <2>1. Fits(outstanding_requests, calls)  BY DEF IInv
    <2> QED BY <2>1 DEF Fits, OutstandingUntilAnswered, Outstanding, Sent, Dropped
  <1> QED BY <1>1, Invariance, PTL

\* A handler that gets a reply gets that to its own request (RequestID).
THEOREM OwnAnswer == Spec => []AnswerIsOwn
  <1>1. IInv => AnswerIsOwn  BY DEF IInv, Fits, AnswerIsOwn
  <1> QED BY <1>1, Invariance, PTL

\* The connection is tested while requests are outstanding
\* (connection_test_timer).
THEOREM Tested == Spec => []TestedWhileOutstanding
  <1>1. IInv => TestedWhileOutstanding  BY DEF IInv
  <1> QED BY <1>1, Invariance, PTL

\* A closed client has nothing left that could call a handler (AsyncClose1).
THEOREM Final == Spec => []ClosedIsFinal
  <1>1. IInv => ClosedIsFinal  BY DEF IInv
  <1> QED BY <1>1, Invariance, PTL

-----------------------------------------------------------------------------
(* The types.                                                              *)

\* What the inductive invariant leaves out: a message is about a call that was made.
MessagesOfCalls ==
    link \in BOOLEAN /\ \A m \in at_service \cup replies : m[2] \in DOMAIN calls

\* A new call is the only one that gets a message.
LEMMA ProcessedMessages ==
  ASSUME NEW call, NEW out, NEW made \in Seq(Calls), Process(call, out, made),
         link \in BOOLEAN, replies' \subseteq replies,
         \A m \in at_service \cup replies : m[2] \in DOMAIN made
  PROVE  MessagesOfCalls'
  <1>1. PICK n, new :
          /\ calls' = Append(made, new)
          /\ at_service' \subseteq at_service \cup {<<n, Len(made) + 1>>}
          /\ link' = link
    BY Zenon DEF Process
  <1>2. Len(made) \in Nat /\ DOMAIN made = 1..Len(made)  OBVIOUS
  <1>3. DOMAIN calls' = 1..(Len(made) + 1)  BY <1>1, <1>2
  <1>4. ASSUME NEW m \in (at_service \cup replies)' PROVE m[2] \in DOMAIN calls'
    <2>1. CASE m \in at_service \cup replies  BY <2>1, <1>2, <1>3
    <2>2. CASE m = <<n, Len(made) + 1>>  BY <2>2, <1>2, <1>3
    <2> QED BY <1>1, <2>1, <2>2
  <1> QED BY <1>1, <1>4 DEF MessagesOfCalls

\* A step that makes no message, and forgets no call.
LEMMA NoNewMessages ==
  ASSUME MessagesOfCalls, link' \in BOOLEAN, DOMAIN calls \subseteq DOMAIN calls',
         (at_service \cup replies)' \subseteq at_service \cup replies
  PROVE  MessagesOfCalls'
  BY DEF MessagesOfCalls

\* A call that is refused is one call more.
LEMMA RefusedMessages ==
  ASSUME IInv, MessagesOfCalls, NEW call, Refuse(call)
  PROVE  MessagesOfCalls'
  <1>1. calls \in Seq(Calls)  BY DEF IInv, Fits
  <1>2. /\ calls' = Append(calls, call) /\ link' = link
        /\ at_service' = at_service /\ replies' = replies
    BY DEF Refuse
  <1>3. DOMAIN calls \subseteq DOMAIN calls'  BY <1>1, <1>2
  <1> QED BY <1>2, <1>3, NoNewMessages DEF MessagesOfCalls

\* Every step keeps it.
LEMMA MessagesStep == IInv /\ MessagesOfCalls /\ [Next]_vars => MessagesOfCalls'
  <1> SUFFICES ASSUME IInv, MessagesOfCalls, [Next]_vars PROVE MessagesOfCalls'  OBVIOUS
  <1>1. calls \in Seq(Calls) /\ link \in BOOLEAN  BY DEF IInv, Fits, MessagesOfCalls
  <1>2. ASSUME NEW n, NEW answer, Complete(n, answer)
        PROVE  DOMAIN calls' = DOMAIN calls /\ link' = link
    BY <1>2 DEF Complete
  <1>3. CASE AsyncProcessRequest
    <2>1. PICK call : \/ Process(call, outstanding_requests, calls) /\ UNCHANGED replies
                      \/ Refuse([call EXCEPT !.threw = TRUE])
      BY <1>3, Zenon DEF AsyncProcessRequest
    <2> QED BY <1>1, <2>1, ProcessedMessages, RefusedMessages DEF MessagesOfCalls
  <1>4. CASE AsyncClose
    <2>1. PICK call : \/ Process(call, outstanding_requests, calls) /\ UNCHANGED replies
                      \/ Refuse([call EXCEPT !.ignored = TRUE])
      BY <1>4, Zenon DEF AsyncClose
    <2> QED BY <1>1, <2>1, ProcessedMessages, RefusedMessages DEF MessagesOfCalls
  <1>5. CASE ReceiveReply
    <2>1. DOMAIN calls' = DOMAIN calls /\ link' = link
          /\ at_service' = at_service /\ replies' \subseteq replies
      BY <1>2, <1>5 DEF ReceiveReply, Drop
    <2> QED BY <1>1, <2>1, NoNewMessages
  <1>6. CASE \E m \in replies : ReplyAsksAgain(m)
    <2>1. PICK m \in replies : ReplyAsksAgain(m)  BY <1>6
    <2> DEFINE c == outstanding_requests[m[1]]
               out == [n \in DOMAIN outstanding_requests \ {m[1]} |-> outstanding_requests[n]]
               made == [calls EXCEPT ![c] = Answered(c, m[2])]
    <2>2. /\ Process(NewCall("request", TRUE), out, made) /\ replies' = replies \ {m}
          /\ m[1] \in DOMAIN outstanding_requests
      BY <2>1 DEF ReplyAsksAgain
    <2>3. c \in DOMAIN calls /\ c = m[2]  BY <2>2 DEF IInv, Fits, Own
    <2>4. made \in Seq(Calls) /\ DOMAIN made = DOMAIN calls
      <3>1. calls[c] \in Calls /\ m[2] \in Nat  BY <1>1, <2>3
      <3>2. Answered(c, m[2]) \in Calls  BY <2>3, <3>1, AnsweredCall
      <3>3. made \in [DOMAIN calls -> Calls]  BY <1>1, <2>3, <3>2
      <3> QED BY <1>1, <3>3, SameLength
    <2> HIDE DEF out, made, c
    <2> QED BY <1>1, <2>2, <2>4, ProcessedMessages DEF MessagesOfCalls
  <1>7. CASE RequestTimeout
    <2>1. DOMAIN calls' = DOMAIN calls /\ link' = link /\ UNCHANGED <<at_service, replies>>
      BY <1>2, <1>7 DEF RequestTimeout
    <2> QED BY <1>1, <2>1, NoNewMessages
  <1>8. CASE SendFails
    <2>1. DOMAIN calls' = DOMAIN calls /\ link' = link
          /\ at_service' \subseteq at_service /\ replies' = replies
      BY <1>2, <1>8 DEF SendFails
    <2> QED BY <1>1, <2>1, NoNewMessages
  <1>9. CASE ConnectionTest \/ PostedClose
    <2>1. DOMAIN calls' = DOMAIN calls /\ link' = link /\ UNCHANGED <<at_service, replies>>
      BY <1>9, Zenon DEF ConnectionTest, CompleteAll, PostedClose
    <2> QED BY <1>1, <2>1, NoNewMessages
  <1>10. CASE ServiceReplies \/ LinkLost \/ UNCHANGED vars
    <2>1. calls' = calls /\ link' \in BOOLEAN
          /\ (at_service \cup replies)' \subseteq at_service \cup replies
      BY <1>1, <1>10 DEF ServiceReplies, LinkLost, vars
    <2> QED BY <2>1, NoNewMessages
  <1> QED BY <1>3, <1>4, <1>5, <1>6, <1>7, <1>8, <1>9, <1>10 DEF Next

\* The variables are typed: request numbers stay in range when they wrap
\* (request_number), and entries and messages are about calls that were made.
THEOREM TypeCorrect == Spec => []TypeOK
  <1>1. Init => MessagesOfCalls  BY DEF Init, MessagesOfCalls
  <1>2. IInv /\ MessagesOfCalls => TypeOK
    <2> SUFFICES ASSUME IInv, MessagesOfCalls PROVE TypeOK  OBVIOUS
    <2>1. calls \in Seq(Calls)  BY DEF IInv, Fits
    <2>2. ASSUME NEW c \in DOMAIN calls
          PROVE  /\ calls[c].kind \in {"request", "close"} /\ calls[c].answers \in Nat
                 /\ calls[c].answer \in DOMAIN calls \cup {NoAnswer, Error}
      <3>1. calls[c] \in Calls  BY <2>1
      <3>2. calls[c].answer \in {NoAnswer, Error, c}  BY DEF IInv, Fits
      <3> QED BY <3>1, <3>2 DEF Calls
    <2>3. /\ DOMAIN outstanding_requests \subseteq RequestNumbers
          /\ Outstanding \subseteq DOMAIN calls
      BY DEF IInv, Fits, Outstanding
    <2>4. at_service \cup replies \subseteq RequestNumbers \X DOMAIN calls
      BY DEF IInv, Own, MessagesOfCalls
    <2> QED BY <2>2, <2>3, <2>4 DEF IInv, MessagesOfCalls, TypeOK
  <1> QED BY <1>1, <1>2, MessagesStep, Invariance, PTL DEF Spec

-----------------------------------------------------------------------------
(* The handlers of the disconnects.                                        *)

HasEntry(out, c) == \E i \in DOMAIN out : out[i] = c
Counted(here) == IF here THEN 1 ELSE 0

\* How often the handler of call c was and will be called: what was called, its
\* entry in the table out and its posted AsyncClose1.
Due(out, made, c) ==
    made[c].answers + Counted(HasEntry(out, c)) + Counted(c \in posted_close)

\* A disconnect that was sent is due once, one that could not be sent twice (its
\* entry stays, and AsyncClose1 is posted), and one made when the client was not
\* connected never.  Nothing is said of one whose reply was dropped.
CountedIn(out, made) ==
    \A c \in DOMAIN made : made[c].kind = "close" /\ ~made[c].dropped =>
       Due(out, made, c) = IF made[c].ignored THEN 0 ELSE IF made[c].threw THEN 2 ELSE 1

DisconnectsCounted == CountedIn(outstanding_requests, calls)

\* The step changes nothing that counts for a disconnect.
LEMMA CountedKeeps ==
  ASSUME IInv, DisconnectsCounted, DOMAIN calls' = DOMAIN calls,
         \A d \in DOMAIN calls :
           /\ calls'[d].kind = calls[d].kind
           /\ calls'[d].threw = calls[d].threw /\ calls'[d].ignored = calls[d].ignored
           /\ calls'[d].dropped = calls[d].dropped
           /\ calls[d].kind = "close" =>
                Due(outstanding_requests, calls, d)' = Due(outstanding_requests, calls, d)
  PROVE  DisconnectsCounted'
  BY DEF DisconnectsCounted, CountedIn

\* Whose entries go are answered: the request alone, or, with a disconnect, all.
LEMMA CompleteCounts ==
  ASSUME IInv, DisconnectsCounted, NEW n \in DOMAIN outstanding_requests,
         NEW answer \in Int, Complete(n, answer)
  PROVE  DisconnectsCounted'
  <1> DEFINE c == outstanding_requests[n]
  <1>1. calls \in Seq(Calls) /\ c \in DOMAIN calls /\ c \in Outstanding
    BY DEF IInv, Fits, Outstanding
  <1>2. /\ calls' = [d \in DOMAIN calls |->
                      IF d = c THEN Answered(c, answer)
                      ELSE IF d \in CompletedWith(n) THEN Answered(d, Error) ELSE calls[d]]
        /\ outstanding_requests' =
             [i \in IF Closing(n) THEN {} ELSE DOMAIN outstanding_requests \ {n} |->
                outstanding_requests[i]]
        /\ posted_close' = posted_close
    BY Zenon DEF Complete
  <1>3. ASSUME NEW d \in DOMAIN calls
        PROVE  /\ calls'[d].kind = calls[d].kind
               /\ calls'[d].threw = calls[d].threw /\ calls'[d].ignored = calls[d].ignored
               /\ calls'[d].dropped = calls[d].dropped
               /\ calls'[d].answers =
                    calls[d].answers + Counted(d = c \/ d \in CompletedWith(n))
    <2>0. calls[d] \in Calls  BY <1>1
    <2>1. calls[d] \in Calls /\ Error \in Int /\ calls[d].answers \in Nat
      BY <2>0 DEF Error, Calls
    <2>2. CASE d = c
      <3>1. calls'[d] = Answered(d, answer)  BY <1>2, <2>2
      <3> QED BY <2>1, <2>2, <3>1, AnsweredCall DEF Counted
    <2>3. CASE d # c /\ d \in CompletedWith(n)
      <3>1. calls'[d] = Answered(d, Error)  BY <1>2, <2>3
      <3> QED BY <2>1, <2>3, <3>1, AnsweredCall DEF Counted
    <2>4. CASE d # c /\ d \notin CompletedWith(n)
      <3>1. calls'[d] = calls[d]  BY <1>2, <2>4
      <3> QED BY <2>1, <2>4, <3>1 DEF Counted
    <2> QED BY <2>2, <2>3, <2>4
  <1>4. ASSUME NEW d \in DOMAIN calls, calls[d].kind = "close"
        PROVE  Due(outstanding_requests, calls, d)' = Due(outstanding_requests, calls, d)
    <2>0. calls[d] \in Calls  BY <1>1
    <2>1. calls[d].answers \in Nat  BY <2>0 DEF Calls
    <2>2. CASE Closing(n)
      <3>1. CompletedWith(n) = Outstanding  BY <2>2 DEF CompletedWith, Closing
      <3>2. (d = c \/ d \in CompletedWith(n)) <=> HasEntry(outstanding_requests, d)
        BY <1>1, <3>1 DEF Outstanding, HasEntry
      <3>3. ~HasEntry(outstanding_requests', d)  BY <1>2, <2>2 DEF HasEntry
      <3> QED BY <1>2, <1>3, <2>1, <3>2, <3>3 DEF Due, Counted
    <2>3. CASE ~Closing(n)
      <3>1. CompletedWith(n) = {c} /\ d # c
        BY <1>1, <1>4, <2>3 DEF CompletedWith, Closing, Closes
      <3>2. HasEntry(outstanding_requests', d) <=> HasEntry(outstanding_requests, d)
        BY <1>2, <2>3, <3>1 DEF HasEntry
      <3> QED BY <1>2, <1>3, <2>1, <3>1, <3>2 DEF Due, Counted
    <2> QED BY <2>2, <2>3
  <1>5. DOMAIN calls' = DOMAIN calls  BY <1>2
  <1> HIDE DEF c
  <1> QED BY <1>3, <1>4, <1>5, CountedKeeps

\* A reply that is dropped takes its call out of the count, and no other.
LEMMA DropCounts ==
  ASSUME IInv, DisconnectsCounted, NEW n \in DOMAIN outstanding_requests, Drop(n)
  PROVE  DisconnectsCounted'
  <1> DEFINE c == outstanding_requests[n]
  <1>1. calls \in Seq(Calls) /\ c \in DOMAIN calls  BY DEF IInv, Fits
  <1>2. /\ outstanding_requests' =
             [i \in DOMAIN outstanding_requests \ {n} |-> outstanding_requests[i]]
        /\ calls' = [calls EXCEPT ![c].dropped = TRUE]
        /\ posted_close' = posted_close
    BY DEF Drop
  <1>3. DOMAIN calls' = DOMAIN calls /\ \A d \in DOMAIN calls : d # c => calls'[d] = calls[d]
    BY <1>1, <1>2
  <1>4. calls'[c].dropped
    <2>1. calls[c] \in Calls  BY <1>1
    <2> QED BY <1>1, <1>2, <2>1 DEF Calls
  <1>5. ASSUME NEW d \in DOMAIN calls, calls'[d].kind = "close", ~calls'[d].dropped
        PROVE  Due(outstanding_requests, calls, d)' =
                 IF calls'[d].ignored THEN 0 ELSE IF calls'[d].threw THEN 2 ELSE 1
    <2>1. d # c /\ calls'[d] = calls[d]  BY <1>3, <1>4, <1>5
    <2>2. HasEntry(outstanding_requests', d) <=> HasEntry(outstanding_requests, d)
      BY <1>2, <2>1 DEF HasEntry
    <2>3. Due(outstanding_requests, calls, d)' = Due(outstanding_requests, calls, d)
      BY <1>2, <2>1, <2>2 DEF Due, Counted
    <2> QED BY <1>5, <2>1, <2>3 DEF DisconnectsCounted, CountedIn
  <1> QED BY <1>3, <1>5 DEF DisconnectsCounted, CountedIn

\* The connection test and a posted AsyncClose1 answer all that is outstanding.
LEMMA AllCounted ==
  ASSUME IInv, DisconnectsCounted, ConnectionTest \/ PostedClose
  PROVE  DisconnectsCounted'
  <1>1. calls \in Seq(Calls)  BY DEF IInv, Fits
  <1>2. outstanding_requests' = [n \in {} |-> 0] /\ DOMAIN calls' = DOMAIN calls
    BY Zenon DEF ConnectionTest, CompleteAll, PostedClose
  <1>3. ASSUME NEW d \in DOMAIN calls
        PROVE  /\ calls'[d].kind = calls[d].kind
               /\ calls'[d].threw = calls[d].threw /\ calls'[d].ignored = calls[d].ignored
               /\ calls'[d].dropped = calls[d].dropped
               /\ calls'[d].answers + Counted(d \in posted_close') =
                    calls[d].answers + Counted(d \in Outstanding) + Counted(d \in posted_close)
    <2>0. calls[d] \in Calls  BY <1>1
    <2>1. calls[d] \in Calls /\ Error \in Int /\ calls[d].answers \in Nat
      BY <2>0 DEF Error, Calls
    <2>2. CASE ConnectionTest
      <3>1. calls'[d] = (IF d \in Outstanding THEN Answered(d, Error) ELSE calls[d])
            /\ posted_close' = posted_close
        BY <2>2, Zenon DEF ConnectionTest, CompleteAll
      <3>2. CASE d \in Outstanding
        <4>1. calls'[d] = Answered(d, Error)  BY <3>1, <3>2
        <4> QED BY <2>1, <3>1, <3>2, <4>1, AnsweredCall DEF Counted
      <3>3. CASE d \notin Outstanding  BY <2>1, <3>1, <3>3 DEF Counted
      <3> QED BY <3>2, <3>3
    <2>3. CASE PostedClose
      <3>1. PICK c \in posted_close :
              /\ posted_close' = posted_close \ {c}
              /\ calls' = [e \in DOMAIN calls |->
                   LET times == (IF e = c THEN 1 ELSE 0) + (IF e \in Outstanding THEN 1 ELSE 0)
                   IN  IF times = 0 THEN calls[e]
                       ELSE [calls[e] EXCEPT !.answers = @ + times, !.answer = Error]]
        BY <2>3, Zenon DEF PostedClose
      <3> DEFINE times == Counted(d = c) + Counted(d \in Outstanding)
      <3>2. times \in Nat  BY DEF Counted
      <3>3. times = (IF d = c THEN 1 ELSE 0) + (IF d \in Outstanding THEN 1 ELSE 0)
        BY DEF Counted
      <3>4. calls'[d] =
              LET some == (IF d = c THEN 1 ELSE 0) + (IF d \in Outstanding THEN 1 ELSE 0)
              IN  IF some = 0 THEN calls[d]
                  ELSE [calls[d] EXCEPT !.answers = @ + some, !.answer = Error]
        BY <3>1, Zenon
      <3> HIDE DEF times
      <3>5. calls'[d] = IF times = 0 THEN calls[d]
                        ELSE [calls[d] EXCEPT !.answers = @ + times, !.answer = Error]
        BY <3>3, <3>4, Zenon
      <3>6. /\ calls'[d].kind = calls[d].kind
            /\ calls'[d].threw = calls[d].threw /\ calls'[d].ignored = calls[d].ignored
            /\ calls'[d].dropped = calls[d].dropped
            /\ calls'[d].answers = calls[d].answers + times
        BY <2>1, <3>2, <3>5 DEF Calls
      <3>7. Counted(d \in posted_close') + Counted(d = c) = Counted(d \in posted_close)
        <4>1. d \in posted_close' <=> d \in posted_close /\ d # c  BY <3>1
        <4>2. CASE d = c
          <5>1. Counted(d \in posted_close') = 0  BY <4>1, <4>2 DEF Counted
          <5>2. Counted(d = c) = 1 /\ Counted(d \in posted_close) = 1  BY <4>2 DEF Counted
          <5> QED BY <5>1, <5>2
        <4>3. CASE d # c
          <5>1. (d \in posted_close') = (d \in posted_close)  BY <4>1, <4>3
          <5>2. Counted(d = c) = 0 /\ Counted(d \in posted_close) \in Nat
            BY <4>3 DEF Counted
          <5>3. Counted(d \in posted_close') = Counted(d \in posted_close)
            BY <5>1 DEF Counted
          <5> QED BY <5>2, <5>3
        <4> QED BY <4>2, <4>3
      <3>8. Counted(d = c) \in Nat /\ Counted(d \in Outstanding) \in Nat
            /\ Counted(d \in posted_close') \in Nat
        BY DEF Counted
      <3> QED BY <2>1, <3>6, <3>7, <3>8 DEF times
    <2> QED BY <2>2, <2>3
  <1>4. ASSUME NEW d \in DOMAIN calls
        PROVE  Due(outstanding_requests, calls, d)' = Due(outstanding_requests, calls, d)
    <2>1. ~HasEntry(outstanding_requests', d)  BY <1>2 DEF HasEntry
    <2>2. HasEntry(outstanding_requests, d) <=> d \in Outstanding
      BY DEF HasEntry, Outstanding
    <2>3. calls'[d].answers + Counted(d \in posted_close') =
            calls[d].answers + Counted(d \in Outstanding) + Counted(d \in posted_close)
      BY <1>3
    <2>0. calls[d] \in Calls  BY <1>1
    <2>4. calls[d].answers \in Nat  BY <2>0 DEF Calls
    <2>5. Counted(HasEntry(outstanding_requests', d)) = 0  BY <2>1 DEF Counted
    <2>6. Counted(HasEntry(outstanding_requests, d)) = Counted(d \in Outstanding)
      BY <2>2 DEF Counted
    <2>7. calls'[d].answers \in Int /\ Counted(d \in posted_close') \in Int
      <3>1. Counted(d \in posted_close') \in Int  BY DEF Counted
      <3>2. calls' \in Seq(Calls)
        BY InvariantStep DEF Next, IInv, Fits
      <3>3. calls'[d] \in Calls  BY <1>2, <3>2
      <3> QED BY <3>1, <3>3 DEF Calls
    <2> QED BY <2>3, <2>4, <2>5, <2>6, <2>7 DEF Due
  <1> QED BY <1>2, <1>3, <1>4, CountedKeeps

\* A new call: its entry, and what is posted if it is a disconnect that is not sent.
LEMMA ProcessCounts ==
  ASSUME NEW out, NEW made, Fits(out, made), CountedIn(out, made),
         posted_close \subseteq DOMAIN made, request_number \in RequestNumbers,
         NEW call \in Calls, call.answers = 0, ~call.ignored, Process(call, out, made)
  PROVE  DisconnectsCounted'
  <1>1. PICK n \in NextNumbers(DOMAIN out), sent \in BOOLEAN :
          /\ outstanding_requests' =
               [i \in DOMAIN out \cup {n} |-> IF i = n THEN Len(made) + 1 ELSE out[i]]
          /\ calls' = Append(made, [call EXCEPT !.threw = ~sent])
          /\ IF call.kind = "close" /\ ~sent
             THEN posted_close' = posted_close \cup {Len(made) + 1}
             ELSE posted_close' = posted_close
    BY Zenon DEF Process
  <1>2. n \notin DOMAIN out  BY NumberIsFree
  <1> DEFINE new == [call EXCEPT !.threw = ~sent]  c == Len(made) + 1
  <1>3. /\ new \in Calls /\ new.answers = 0 /\ new.kind = call.kind
        /\ new.threw = ~sent /\ ~new.ignored
    BY DEF Calls
  <1>4. made \in Seq(Calls) /\ DOMAIN made = 1..Len(made) /\ Len(made) \in Nat  BY DEF Fits
  <1>5. calls' = Append(made, new)  BY <1>1
  <1> HIDE DEF new
  <1>6. /\ DOMAIN calls' = DOMAIN made \cup {c} /\ c \notin DOMAIN made
        /\ \A d \in DOMAIN made : calls'[d] = made[d]
        /\ calls'[c] = new
    BY <1>4, <1>5
  <1>7. \A i \in DOMAIN out : out[i] \in DOMAIN made  BY DEF Fits
  <1>8. ASSUME NEW d \in DOMAIN made, made[d].kind = "close"
        PROVE  Due(outstanding_requests, calls, d)' = Due(out, made, d)
    <2>1. d # c /\ calls'[d] = made[d]  BY <1>6
    <2>2. HasEntry(outstanding_requests', d) <=> HasEntry(out, d)
      BY <1>1, <1>2, <2>1 DEF HasEntry
    <2>3. d \in posted_close' <=> d \in posted_close  BY <1>1, <2>1
    <2> QED BY <2>1, <2>2, <2>3 DEF Due, Counted
  <1>9. ASSUME new.kind = "close"
        PROVE  Due(outstanding_requests, calls, c)' = IF new.threw THEN 2 ELSE 1
    <2>1. HasEntry(outstanding_requests', c)  BY <1>1 DEF HasEntry
    <2>2. c \in posted_close' <=> ~sent  BY <1>1, <1>3, <1>6, <1>9
    <2>3. calls'[c].answers = 0  BY <1>3, <1>6
    <2>4. Counted(HasEntry(outstanding_requests', c)) = 1  BY <2>1 DEF Counted
    <2>5. Counted(c \in posted_close') = IF new.threw THEN 1 ELSE 0
      BY <1>3, <2>2 DEF Counted
    <2> HIDE DEF c
    <2> QED BY <2>3, <2>4, <2>5 DEF Due
  <1> HIDE DEF c
  <1>10. ASSUME NEW d \in DOMAIN calls', calls'[d].kind = "close", ~calls'[d].dropped
         PROVE  Due(outstanding_requests, calls, d)' =
                  IF calls'[d].ignored THEN 0 ELSE IF calls'[d].threw THEN 2 ELSE 1
    <2>1. CASE d = c  BY <1>3, <1>6, <1>9, <1>10, <2>1
    <2>2. CASE d \in DOMAIN made
      <3>1. calls'[d] = made[d]  BY <1>6, <2>2
      <3> QED BY <1>8, <1>10, <2>2, <3>1 DEF CountedIn
    <2> QED BY <1>6, <2>1, <2>2
  <1> QED BY <1>10 DEF DisconnectsCounted, CountedIn

\* A refused call has no entry and is not posted.
LEMMA RefuseCounts ==
  ASSUME IInv, DisconnectsCounted, NEW call, Refuse(call), call.answers = 0,
         call.kind # "close" \/ call.ignored = TRUE
  PROVE  DisconnectsCounted'
  <1>0. PICK c : c = Len(calls) + 1  OBVIOUS
  <1>1. calls \in Seq(Calls) /\ DOMAIN calls = 1..Len(calls) /\ Len(calls) \in Nat
    BY DEF IInv, Fits
  <1>2. /\ calls' = Append(calls, call)
        /\ outstanding_requests' = outstanding_requests /\ posted_close' = posted_close
    BY DEF Refuse
  <1>3. /\ DOMAIN calls' = DOMAIN calls \cup {c} /\ c \notin DOMAIN calls
        /\ \A d \in DOMAIN calls : calls'[d] = calls[d]
        /\ calls'[c] = call
    BY <1>0, <1>1, <1>2
  <1>4. ~HasEntry(outstanding_requests, c) /\ c \notin posted_close
    BY <1>3 DEF HasEntry, IInv, Fits
  <1>5. ASSUME NEW d \in DOMAIN calls
        PROVE  Due(outstanding_requests, calls, d)' = Due(outstanding_requests, calls, d)
    BY <1>2, <1>3 DEF Due
  <1>6. Due(outstanding_requests, calls, c)' = 0
    <2>1. calls'[c].answers = 0  BY <1>3
    <2>2. Counted(HasEntry(outstanding_requests', c)) = 0 /\ Counted(c \in posted_close') = 0
      BY <1>2, <1>4 DEF Counted
    <2> QED BY <2>1, <2>2 DEF Due
  <1>7. ASSUME NEW d \in DOMAIN calls', calls'[d].kind = "close", ~calls'[d].dropped
        PROVE  Due(outstanding_requests, calls, d)' =
                 IF calls'[d].ignored THEN 0 ELSE IF calls'[d].threw THEN 2 ELSE 1
    <2>1. CASE d = c
      <3>1. calls'[d] = call  BY <1>3, <2>1
      <3>2. calls'[d].ignored = TRUE  BY <1>7, <3>1
      <3> QED BY <1>6, <2>1, <3>2
    <2>2. CASE d \in DOMAIN calls
      <3>1. calls'[d] = calls[d]  BY <1>3, <2>2
      <3> QED BY <1>5, <1>7, <2>2, <3>1 DEF DisconnectsCounted, CountedIn
    <2> QED BY <1>3, <2>1, <2>2
  <1> QED BY <1>7 DEF DisconnectsCounted, CountedIn

\* The reply to a request gives way to the next request of its chain.
LEMMA AsksAgainCounts ==
  ASSUME IInv, DisconnectsCounted, NEW m \in replies, ReplyAsksAgain(m)
  PROVE  DisconnectsCounted'
  <1> DEFINE c    == outstanding_requests[m[1]]
             out  == [n \in DOMAIN outstanding_requests \ {m[1]} |-> outstanding_requests[n]]
             made == [calls EXCEPT ![c] = Answered(c, m[2])]
             call == NewCall("request", TRUE)
  <1>1. /\ m[1] \in DOMAIN outstanding_requests /\ calls[c].kind = "request"
        /\ Process(call, out, made)
    BY DEF ReplyAsksAgain
  <1>2. calls \in Seq(Calls) /\ c \in DOMAIN calls /\ m[2] = c
    BY <1>1 DEF IInv, Fits, Own
  <1>3. Fits(out, made)  BY AsksAgainFits
  <1>4. call \in Calls /\ call.answers = 0 /\ ~call.ignored
    BY DEF NewCall, Calls, NoAnswer
  <1>5. DOMAIN made = DOMAIN calls /\ \A d \in DOMAIN calls : d # c => made[d] = calls[d]
    BY <1>2
  <1>6. made[c].kind = "request"
    <2>1. calls[c] \in Calls /\ m[2] \in Int  BY <1>2
    <2>2. Answered(c, m[2]).kind = calls[c].kind  BY <1>2, <2>1, AnsweredCall
    <2> QED BY <1>1, <1>2, <2>2
  <1>7. ASSUME NEW d \in DOMAIN made, made[d].kind = "close"
        PROVE  made[d] = calls[d]
               /\ Due(out, made, d) = Due(outstanding_requests, calls, d)
    <2>1. d # c /\ made[d] = calls[d]  BY <1>5, <1>6, <1>7
    <2>2. HasEntry(out, d) <=> HasEntry(outstanding_requests, d)  BY <2>1 DEF HasEntry
    <2> QED BY <2>1, <2>2 DEF Due, Counted
  <1> HIDE DEF c, out, made, call
  <1>8. CountedIn(out, made)  BY <1>5, <1>7 DEF DisconnectsCounted, CountedIn
  <1>9. posted_close \subseteq DOMAIN made /\ request_number \in RequestNumbers
    BY <1>5 DEF IInv
  <1> QED BY <1>1, <1>3, <1>4, <1>8, <1>9, ProcessCounts

\* Every step keeps the count.
LEMMA CountedStep == IInv /\ DisconnectsCounted /\ [Next]_vars => DisconnectsCounted'
  <1> SUFFICES ASSUME IInv, DisconnectsCounted, [Next]_vars PROVE DisconnectsCounted'
    OBVIOUS
  <1>1. ASSUME NEW kind \in {"request", "close"}, NEW finite \in BOOLEAN
        PROVE  LET call == NewCall(kind, finite)
               IN  /\ call \in Calls /\ call.kind = kind /\ call.answers = 0 /\ ~call.ignored
                   /\ [call EXCEPT !.threw = TRUE].answers = 0
                   /\ [call EXCEPT !.threw = TRUE].kind = kind
                   /\ [call EXCEPT !.ignored = TRUE].answers = 0
                   /\ [call EXCEPT !.ignored = TRUE].ignored = TRUE
    BY DEF NewCall, Calls, NoAnswer
  <1>2. /\ Fits(outstanding_requests, calls) /\ CountedIn(outstanding_requests, calls)
        /\ posted_close \subseteq DOMAIN calls /\ request_number \in RequestNumbers
    BY DEF IInv, DisconnectsCounted
  <1>3. CASE AsyncProcessRequest
    <2>1. PICK finite \in BOOLEAN :
            \/ Process(NewCall("request", finite), outstanding_requests, calls)
            \/ Refuse([NewCall("request", finite) EXCEPT !.threw = TRUE])
      BY <1>3, Zenon DEF AsyncProcessRequest
    <2> DEFINE call == NewCall("request", finite)
    <2>2. /\ call \in Calls /\ call.answers = 0 /\ ~call.ignored
          /\ [call EXCEPT !.threw = TRUE].answers = 0
          /\ [call EXCEPT !.threw = TRUE].kind # "close"
      BY <1>1
    <2> HIDE DEF call
    <2>3. CASE Process(call, outstanding_requests, calls)
      BY <1>2, <2>2, <2>3, ProcessCounts
    <2>4. CASE Refuse([call EXCEPT !.threw = TRUE])
      BY <2>2, <2>4, RefuseCounts
    <2> QED BY <2>1, <2>3, <2>4 DEF call
  <1>4. CASE AsyncClose
    <2> DEFINE call == NewCall("close", TRUE)
    <2>1. \/ Process(call, outstanding_requests, calls)
          \/ Refuse([call EXCEPT !.ignored = TRUE])
      BY <1>4, Zenon DEF AsyncClose
    <2>4. /\ call \in Calls /\ call.answers = 0 /\ ~call.ignored
          /\ [call EXCEPT !.ignored = TRUE].answers = 0
          /\ [call EXCEPT !.ignored = TRUE].ignored = TRUE
      BY <1>1
    <2> HIDE DEF call
    <2>2. CASE Process(call, outstanding_requests, calls)
      BY <1>2, <2>2, <2>4, ProcessCounts
    <2>3. CASE Refuse([call EXCEPT !.ignored = TRUE])
      BY <2>3, <2>4, RefuseCounts
    <2> QED BY <2>1, <2>2, <2>3 DEF call
  <1>5. CASE ReceiveReply
    <2>1. PICK m \in replies :
            \/ \E n \in EntryFor(m) : Complete(n, m[2])
            \/ \E n \in EntryFor(m) : Drop(n)
            \/ UNCHANGED <<outstanding_requests, posted_close, calls>>
      BY <1>5, Zenon DEF ReceiveReply
    <2>2. CASE \E n \in EntryFor(m) : Complete(n, m[2])
      <3>1. PICK n \in EntryFor(m) : Complete(n, m[2])  BY <2>2
      <3>2. n \in DOMAIN outstanding_requests /\ m[2] \in Int
        BY DEF EntryFor, IInv, Own
      <3> QED BY <3>1, <3>2, CompleteCounts
    <2>3. CASE UNCHANGED <<outstanding_requests, posted_close, calls>>
      BY <2>3 DEF DisconnectsCounted, CountedIn, Due
    <2>4. CASE \E n \in EntryFor(m) : Drop(n)
      BY <2>4, DropCounts DEF EntryFor
    <2> QED BY <2>1, <2>2, <2>3, <2>4
  <1>6. CASE \E m \in replies : ReplyAsksAgain(m)  BY <1>6, AsksAgainCounts
  <1>7. CASE RequestTimeout \/ SendFails
    <2>1. \/ \E n \in DOMAIN outstanding_requests : Complete(n, Error)
          \/ UNCHANGED <<outstanding_requests, posted_close, calls>>
      BY <1>7, Zenon DEF RequestTimeout, SendFails, EntryFor
    <2>2. Error \in Int  BY DEF Error
    <2>3. CASE UNCHANGED <<outstanding_requests, posted_close, calls>>
      BY <2>3 DEF DisconnectsCounted, CountedIn, Due
    <2> QED BY <2>1, <2>2, <2>3, CompleteCounts
  <1>8. CASE ConnectionTest \/ PostedClose  BY <1>8, AllCounted
  <1>9. CASE ServiceReplies \/ LinkLost \/ UNCHANGED vars
    <2>1. UNCHANGED <<outstanding_requests, posted_close, calls>>
      BY <1>9 DEF ServiceReplies, LinkLost, vars
    <2> QED BY <2>1 DEF DisconnectsCounted, CountedIn, Due
  <1> QED BY <1>3, <1>4, <1>5, <1>6, <1>7, <1>8, <1>9 DEF Next

\* The handler of a disconnect is never lost, but for that of a client not connected,
\* which AsyncClose does not keep, and that of one whose reply was dropped.  A
\* disconnect that was sent calls its handler once; one that could not be sent
\* calls it twice, for its entry and as AsyncClose1 (AsyncClose).
THEOREM DisconnectsDue == Spec => []DisconnectsCounted
  <1>1. Init => DisconnectsCounted  BY DEF Init, DisconnectsCounted, CountedIn
  <1> QED BY <1>1, CountedStep, Invariance, PTL DEF Spec
=============================================================================
