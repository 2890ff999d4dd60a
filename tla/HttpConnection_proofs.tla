------------------------ MODULE HttpConnection_proofs ------------------------
(***************************************************************************)
(* Proofs about HttpConnection for every set of requests, every number of  *)
(* them, clients that pipeline or not and writes that block or not.        *)
(***************************************************************************)
EXTENDS HttpConnection, SequenceTheorems, TLAPS

LEMMA CompletionKinds ==
    /\ "readOk" \in Completions /\ "readFail" \in Completions
    /\ "writeOk" \in Completions /\ "writeFail" \in Completions
BY DEF Completions, ReadEnds, WriteEnds

\* Membership facts about sequences, in the form the type proofs use.
LEMMA SeqAppend == ASSUME NEW S, NEW s \in Seq(S), NEW e \in S
                   PROVE  Append(s, e) \in Seq(S)
OBVIOUS

LEMMA SeqHeadTail == ASSUME NEW S, NEW s \in Seq(S), s # <<>>
                     PROVE  Head(s) \in S /\ Tail(s) \in Seq(S)
OBVIOUS

LEMMA Unchanged ==
    /\ ClientOK /\ UNCHANGED clientVars => ClientOK'
    /\ IoOK /\ UNCHANGED ioVars => IoOK'
    /\ ConnOK /\ UNCHANGED connVars => ConnOK'
    /\ FeedOK /\ UNCHANGED feedVars => FeedOK'
<1>1. ClientOK /\ UNCHANGED clientVars => ClientOK'
  BY DEF ClientOK, clientVars
<1>2. IoOK /\ UNCHANGED ioVars => IoOK'
  BY DEF IoOK, ioVars
<1>3. ConnOK /\ UNCHANGED connVars => ConnOK'
  BY DEF ConnOK, connVars
<1>4. FeedOK /\ UNCHANGED feedVars => FeedOK'
  BY DEF FeedOK, feedVars
<1> QED
  BY <1>1, <1>2, <1>3, <1>4

\* The parts of the handlers that several actions share keep the types.
LEMMA DoWriteType ==
    ASSUME ClientOK, IoOK, NEW w \in Replies, DoWrite(w)
    PROVE  /\ isWriting' \in BOOLEAN /\ rcvd' \in Seq(Replies) /\ got100' \in BOOLEAN
           /\ wr' \in Seq(Replies) /\ ioq' \in Seq(Completions)
<1>1. /\ rcvd \in Seq(Replies) /\ wr \in Seq(Replies) /\ ioq \in Seq(Completions)
      /\ got100 \in BOOLEAN
  BY DEF ClientOK, IoOK
<1>2. rcvd' \in Seq(Replies)
  BY <1>1, SeqAppend, Zenon DEF DoWrite, Deliver
<1>3. wr' \in Seq(Replies)
  BY <1>1, SeqAppend, Zenon DEF DoWrite
<1>4. ioq' \in Seq(Completions)
  BY <1>1, SeqAppend, CompletionKinds, Zenon DEF DoWrite
<1>5. got100' \in BOOLEAN /\ isWriting' \in BOOLEAN
  BY <1>1, Zenon DEF DoWrite, Deliver
<1> QED
  BY <1>2, <1>3, <1>4, <1>5

LEMMA CloseSocketType ==
    ASSUME IoOK, NEW q \in Seq(Completions), CloseSocket(q)
    PROVE  IoOK'
<1> DEFINE failed == [i \in 1 .. Len(wr) |-> "writeFail"]
           aborted == IF rd THEN <<"readFail">> ELSE <<>>
<1>1. failed \in Seq(Completions)
  BY CompletionKinds DEF IoOK
<1>2. aborted \in Seq(Completions)
  <2>1. CASE rd
    BY <2>1, CompletionKinds
  <2>2. CASE ~rd
    BY <2>2
  <2> QED
    BY <2>1, <2>2
<1>3. ioq' = q \o aborted \o failed
  BY DEF CloseSocket
<1> HIDE DEF failed, aborted
<1>4. ioq' \in Seq(Completions)
  BY <1>1, <1>2, <1>3
<1>5. sockOpen' \in BOOLEAN /\ rd' \in BOOLEAN
  BY Zenon DEF CloseSocket
<1>6. wr' \in Seq(Replies)
  BY DEF CloseSocket
<1> QED
  BY <1>4, <1>5, <1>6 DEF IoOK

LEMMA StopReadingType ==
    ASSUME IoOK, ConnOK, NEW q \in Seq(Completions), StopReading(q)
    PROVE  IoOK' /\ ConnOK'
<1>1. IoOK'
  BY CloseSocketType DEF StopReading
<1>2. timer' \in BOOLEAN /\ isReading' \in BOOLEAN /\ alive' \in BOOLEAN
  BY Zenon DEF StopReading, ConnOK
<1> QED
  BY <1>1, <1>2 DEF StopReading, ConnOK

\* The types of what a handler, or its completion, changes.
ResponseTypes ==
    /\ isWriting \in BOOLEAN /\ rcvd \in Seq(Replies) /\ got100 \in BOOLEAN
    /\ wr \in Seq(Replies) /\ ioq \in Seq(Completions)
    /\ needAfter \in BOOLEAN /\ needRead \in BOOLEAN
    /\ timer \in BOOLEAN /\ rd \in BOOLEAN /\ isReading \in BOOLEAN
    /\ res \in Responses

LEMMA CompleteRequestType ==
    ASSUME TypeOK, NEW n \in Nat, NEW t \in BOOLEAN, NEW r \in Responses,
           CompleteRequest(r, n, t)
    PROVE  ResponseTypes'
<1>0. rd \in BOOLEAN /\ isReading \in BOOLEAN /\ isWriting \in BOOLEAN /\ needRead \in BOOLEAN
  BY DEF TypeOK, IoOK, ConnOK
<1>1. [n |-> n, answer |-> r.content] \in Replies
  BY DEF Replies, Responses
<1>2. CASE sockOpen
  <2>1. Cleared \in Responses
    BY DEF Cleared, Answers, Responses
  <2>2. /\ DoWrite([n |-> n, answer |-> r.content])
        /\ res' = Cleared
        /\ needAfter' = FALSE /\ needRead' = FALSE
        /\ timer' = (t \/ needRead)
        /\ rd' = (rd \/ needRead)
        /\ isReading' = (isReading \/ needRead)
    BY <1>2, Zenon DEF CompleteRequest
  <2>3. /\ timer' \in BOOLEAN /\ rd' \in BOOLEAN /\ isReading' \in BOOLEAN
        /\ needAfter' \in BOOLEAN /\ needRead' \in BOOLEAN
    BY <1>0, <2>2, Zenon
  <2>4. /\ isWriting' \in BOOLEAN /\ rcvd' \in Seq(Replies) /\ got100' \in BOOLEAN
        /\ wr' \in Seq(Replies) /\ ioq' \in Seq(Completions)
    BY <1>1, <2>2, DoWriteType DEF TypeOK
  <2> QED
    BY <2>1, <2>2, <2>3, <2>4 DEF ResponseTypes
<1>3. CASE ~sockOpen
  <2>1. /\ res' = [r EXCEPT !.hook = "null"]
        /\ needAfter' = FALSE /\ timer' = t
        /\ UNCHANGED <<rcvd, got100, rd, wr, ioq, isReading, isWriting, needRead>>
    BY <1>3, Zenon DEF CompleteRequest
  <2>2. res' \in Responses
    BY <2>1 DEF Responses
  <2>3. timer' \in BOOLEAN /\ needAfter' \in BOOLEAN
    BY <2>1, Zenon
  <2> QED
    BY <2>1, <2>2, <2>3 DEF TypeOK, ClientOK, IoOK, ConnOK, ResponseTypes
<1> QED
  BY <1>2, <1>3

LEMMA EndResponseType ==
    ASSUME TypeOK, NEW r \in Responses, EndResponse(r)
    PROVE  ResponseTypes'
<1> DEFINE done == [r EXCEPT !.completed = TRUE]
<1>1. done \in Responses
  BY DEF Responses
<1>2. CASE ~r.completed /\ r.hook = "complete"
  <2>1. CompleteRequest(done, handled, timer)
    BY <1>2 DEF EndResponse
  <2> HIDE DEF done
  <2> QED
    BY <1>1, <2>1, CompleteRequestType DEF TypeOK, ConnOK
<1>3. CASE ~(~r.completed /\ r.hook = "complete")
  <2>1. /\ res' = done
        /\ UNCHANGED <<rcvd, got100, rd, wr, ioq, isReading, isWriting,
                       timer, needAfter, needRead>>
    BY <1>3, Zenon DEF EndResponse
  <2> HIDE DEF done
  <2> QED
    BY <1>1, <2>1 DEF ResponseTypes, TypeOK, ClientOK, IoOK, ConnOK
<1> QED
  BY <1>2, <1>3

LEMMA ScriptType ==
    ASSUME NEW r \in Requests
    PROVE  Script(r.kind) \in Seq({"end", "bareEnd", "throw"})
<1>1. r.kind \in Kinds
  BY RequestsAssumption
<1> QED
  BY SMTT(30), <1>1 DEF Script, Kinds

LEMMA TypeInit == Init => TypeOK
<1> SUFFICES ASSUME Init PROVE TypeOK
  OBVIOUS
<1>1. ClientOK
  <2>1. got100 \in BOOLEAN
    BY Zenon DEF Init
  <2> QED
    BY <2>1 DEF Init, ClientOK
<1>2. IoOK
  <2>1. sockOpen \in BOOLEAN /\ rd \in BOOLEAN
    BY Zenon DEF Init
  <2> QED
    BY <2>1 DEF Init, IoOK
<1>3. ConnOK
  <2>1. /\ alive \in BOOLEAN /\ isReading \in BOOLEAN /\ isWriting \in BOOLEAN
        /\ timer \in BOOLEAN /\ closeConn \in BOOLEAN /\ needAfter \in BOOLEAN
        /\ needRead \in BOOLEAN
    BY Zenon DEF Init
  <2>2. res \in Responses
    BY DEF Init, Cleared, Answers, Responses
  <2> QED
    BY <2>1, <2>2 DEF Init, ConnOK
<1>4. FeedOK
  <2>1. busy \in BOOLEAN /\ dead \in BOOLEAN
    BY Zenon DEF Init
  <2> QED
    BY <2>1 DEF Init, FeedOK
<1> QED
  BY <1>1, <1>2, <1>3, <1>4 DEF TypeOK

LEMMA TypeStep == TypeOK /\ [Next]_vars => TypeOK'
<1> SUFFICES ASSUME TypeOK, [Next]_vars PROVE TypeOK'
  OBVIOUS
<1> USE DEF TypeOK
<1>1. CASE SendHead
  <2>1. sent' \in Seq(Requests)
    BY <1>1 DEF SendHead, ClientOK
  <2>2. inbound' \in Seq(Tokens)
    BY <1>1 DEF SendHead, ClientOK, Tokens
  <2>3. sent' # <<>>
    BY <1>1 DEF SendHead, ClientOK
  <2>4. got100' \in BOOLEAN /\ phase' = "body" /\ UNCHANGED <<peer, rcvd>>
    BY <1>1, Zenon DEF SendHead
  <2>5. ClientOK'
    BY <2>1, <2>2, <2>3, <2>4 DEF ClientOK
  <2> QED
    BY <1>1, <2>5, Unchanged DEF SendHead
<1>2. CASE SendBody
  <2>1. inbound' \in Seq(Tokens)
    BY <1>2 DEF SendBody, ClientOK, Tokens
  <2>2. ClientOK'
    BY <1>2, <2>1 DEF SendBody, ClientOK
  <2> QED
    BY <1>2, <2>2, Unchanged DEF SendBody
<1>3. CASE HalfClose
  <2>1. ClientOK'
    BY <1>3 DEF HalfClose, ClientOK
  <2> QED
    BY <1>3, <2>1, Unchanged DEF HalfClose
<1>4. CASE Leave
  <2>1. ClientOK'
    BY <1>4 DEF Leave, ClientOK
  <2> QED
    BY <1>4, <2>1, Unchanged DEF Leave
<1>5. CASE Receive
  <2>1. PICK k \in 1 .. Len(inbound) :
            /\ buffer' = SubSeq(inbound, 1, k)
            /\ inbound' = SubSeq(inbound, k + 1, Len(inbound))
    BY <1>5 DEF Receive
  <2>2. inbound' \in Seq(Tokens)
    BY <2>1 DEF ClientOK
  <2>3. buffer' \in Seq(Tokens)
    BY <2>1 DEF ClientOK
  <2>4. ioq' \in Seq(Completions)
    BY <1>5, CompletionKinds DEF Receive, IoOK
  <2>5. rd' \in BOOLEAN
    BY <1>5, Zenon DEF Receive
  <2>6. ClientOK'
    BY <1>5, <2>2 DEF Receive, ClientOK
  <2>7. IoOK'
    BY <1>5, <2>4, <2>5 DEF Receive, IoOK
  <2>8. FeedOK'
    BY <1>5, <2>3 DEF Receive, FeedOK
  <2> QED
    BY <1>5, <2>6, <2>7, <2>8, Unchanged DEF Receive
<1>6. CASE ReceiveEof
  <2>1. ioq' \in Seq(Completions)
    BY <1>6, CompletionKinds DEF ReceiveEof, IoOK
  <2>2. rd' \in BOOLEAN
    BY <1>6, Zenon DEF ReceiveEof
  <2>3. IoOK'
    BY <1>6, <2>1, <2>2 DEF ReceiveEof, IoOK
  <2> QED
    BY <1>6, <2>3, Unchanged DEF ReceiveEof
<1>7. CASE Flush
  <2>1. wr \in Seq(Replies) /\ wr # <<>> /\ rcvd \in Seq(Replies) /\ got100 \in BOOLEAN
    BY <1>7 DEF Flush, ClientOK, IoOK
  <2>2. Head(wr) \in Replies /\ wr' \in Seq(Replies)
    BY <1>7, <2>1, SeqHeadTail, Zenon DEF Flush
  <2>3. rcvd' \in Seq(Replies) /\ got100' \in BOOLEAN
    BY <1>7, <2>1, <2>2, SeqAppend, Zenon DEF Flush, Deliver
  <2>4. ioq' \in Seq(Completions)
    BY <1>7, CompletionKinds DEF Flush, IoOK
  <2>5. ClientOK'
    BY <1>7, <2>3 DEF Flush, ClientOK
  <2>6. IoOK'
    BY <1>7, <2>2, <2>4 DEF Flush, IoOK
  <2> QED
    BY <1>7, <2>5, <2>6, Unchanged DEF Flush
<1>8. CASE FlushFails
  <2>1. wr' \in Seq(Replies)
    BY <1>8 DEF FlushFails, IoOK
  <2>2. ioq' \in Seq(Completions)
    BY <1>8, CompletionKinds DEF FlushFails, IoOK
  <2>3. IoOK'
    BY <1>8, <2>1, <2>2 DEF FlushFails, IoOK
  <2> QED
    BY <1>8, <2>3, Unchanged DEF FlushFails
<1>9. CASE ReadArrives
  <2>1. ioq' \in Seq(Completions)
    BY <1>9 DEF ReadArrives, IoOK
  <2>2. busy' \in BOOLEAN
    BY <1>9, Zenon DEF ReadArrives
  <2>3. IoOK'
    BY <1>9, <2>1 DEF ReadArrives, IoOK
  <2>4. FeedOK'
    BY <1>9, <2>2 DEF ReadArrives, FeedOK
  <2> QED
    BY <1>9, <2>3, <2>4, Unchanged DEF ReadArrives
<1>10. CASE ReadFails
  <2>1. Tail(ioq) \in Seq(Completions)
    BY <1>10 DEF ReadFails, IoOK
  <2>2. IoOK' /\ ConnOK'
    BY <1>10, <2>1, StopReadingType DEF ReadFails
  <2> QED
    BY <1>10, <2>2, Unchanged DEF ReadFails
<1>11. CASE HandleHeader
  <2>1. buffer' \in Seq(Tokens)
    BY <1>11 DEF HandleHeader, FeedOK
  <2>2. Continue \in Replies
    BY DEF Continue, Replies, Answers
  <2>3. /\ isWriting' \in BOOLEAN /\ rcvd' \in Seq(Replies) /\ got100' \in BOOLEAN
        /\ wr' \in Seq(Replies) /\ ioq' \in Seq(Completions)
    <3>1. CASE Head(buffer).req.expect
      BY <1>11, <2>2, <3>1, DoWriteType DEF HandleHeader
    <3>2. CASE ~Head(buffer).req.expect
      BY <1>11, <3>2 DEF HandleHeader, ClientOK, IoOK, ConnOK
    <3> QED
      BY <3>1, <3>2
  <2>4. ClientOK'
    BY <1>11, <2>3 DEF HandleHeader, ClientOK
  <2>5. IoOK'
    BY <1>11, <2>3 DEF HandleHeader, IoOK
  <2>6. ConnOK'
    BY <1>11, <2>3 DEF HandleHeader, ConnOK
  <2>7. FeedOK'
    BY <1>11, <2>1 DEF HandleHeader, FeedOK
  <2> QED
    BY <2>4, <2>5, <2>6, <2>7
<1>12. CASE HandleMessage
  <2> DEFINE r == Head(buffer).req
  <2>1. buffer' \in Seq(Tokens)
    BY <1>12 DEF HandleMessage, FeedOK
  <2>2. r \in Requests
    <3>1. Head(buffer) \in Tokens
      BY <1>12 DEF HandleMessage, FeedOK
    <3> QED
      BY <3>1 DEF Tokens
  <2>3. handled' \in Nat
    BY <1>12 DEF HandleMessage, ConnOK
  <2>4. closeConn' \in BOOLEAN /\ dead' \in BOOLEAN
    BY <1>12, Zenon DEF HandleMessage, ConnOK
  <2>5. ResponseTypes' /\ script' \in Seq({"end", "bareEnd", "throw"})
    <3>1. CASE r.kind = "noHost"
      <4> DEFINE bad == [completed |-> FALSE, content |-> "bad400", hook |-> "null"]
      <4>1. bad \in Responses
        BY DEF Responses, Answers
      <4>2. CompleteRequest(bad, handled', FALSE) /\ UNCHANGED script
        BY <1>12, <3>1 DEF HandleMessage
      <4> HIDE DEF bad
      <4> QED
        BY <2>3, <4>1, <4>2, CompleteRequestType DEF FeedOK
    <3>2. CASE r.kind # "noHost" /\ res.completed
      <4>1. CompleteRequest(res, handled', FALSE) /\ UNCHANGED script
        BY <1>12, <3>2 DEF HandleMessage
      <4> QED
        BY <2>3, <4>1, CompleteRequestType DEF FeedOK, ConnOK
    <3>3. CASE r.kind # "noHost" /\ ~res.completed
      <4>1. /\ res' = [res EXCEPT !.hook = "complete"]
            /\ needAfter' = TRUE /\ timer' = FALSE /\ script' = Script(r.kind)
            /\ UNCHANGED <<rcvd, got100, rd, wr, ioq, isReading, isWriting, needRead>>
        BY <1>12, <3>3 DEF HandleMessage
      <4>2. res' \in Responses
        BY <4>1 DEF ConnOK, Responses
      <4>3. script' \in Seq({"end", "bareEnd", "throw"})
        BY <2>2, <4>1, ScriptType
      <4>4. needAfter' \in BOOLEAN /\ timer' \in BOOLEAN
        BY <4>1, Zenon
      <4> QED
        BY <4>1, <4>2, <4>3, <4>4 DEF ClientOK, IoOK, ConnOK, ResponseTypes
    <3> QED
      BY <3>1, <3>2, <3>3
  <2>6. ClientOK'
    BY <1>12, <2>5 DEF HandleMessage, ClientOK, ResponseTypes
  <2>7. IoOK'
    BY <1>12, <2>5 DEF HandleMessage, IoOK, ResponseTypes
  <2>8. ConnOK'
    BY <1>12, <2>3, <2>4, <2>5 DEF HandleMessage, ConnOK, ResponseTypes
  <2>9. FeedOK'
    BY <1>12, <2>1, <2>4, <2>5 DEF HandleMessage, FeedOK
  <2> QED
    BY <2>6, <2>7, <2>8, <2>9
<1>13. ASSUME NEW call, NEW r \in Responses, HandlerStep(call, r)
       PROVE  TypeOK'
  <2>1. script' \in Seq({"end", "bareEnd", "throw"})
    BY <1>13 DEF HandlerStep, FeedOK
  <2>2. ResponseTypes'
    BY <1>13, EndResponseType DEF HandlerStep
  <2>3. ClientOK'
    BY <1>13, <2>2 DEF HandlerStep, ClientOK, ResponseTypes
  <2>4. IoOK'
    BY <1>13, <2>2 DEF HandlerStep, IoOK, ResponseTypes
  <2>5. ConnOK'
    BY <1>13, <2>2 DEF HandlerStep, ConnOK, ResponseTypes
  <2>6. FeedOK'
    BY <1>13, <2>1 DEF HandlerStep, FeedOK
  <2> QED
    BY <2>3, <2>4, <2>5, <2>6
<1>14. CASE HandlerEnds
  BY <1>13, <1>14 DEF HandlerEnds, ConnOK, Responses, Answers
<1>15. CASE HandlerEndsAgain
  BY <1>13, <1>15 DEF HandlerEndsAgain, ConnOK
<1>16. CASE HandlerThrows
  BY <1>13, <1>16 DEF HandlerThrows, ConnOK, Responses, Answers
<1>17. CASE ParseFails
  <2>1. busy' \in BOOLEAN
    BY <1>17, Zenon DEF ParseFails
  <2>2. FeedOK'
    BY <1>17, <2>1 DEF ParseFails, FeedOK
  <2>3. IoOK' /\ ConnOK'
    BY <1>17, StopReadingType DEF ParseFails, IoOK
  <2> QED
    BY <1>17, <2>2, <2>3, Unchanged DEF ParseFails
<1>18. CASE FeedEnds
  <2>1. busy' \in BOOLEAN
    BY <1>18, Zenon DEF FeedEnds
  <2>2. FeedOK'
    BY <1>18, <2>1 DEF FeedEnds, FeedOK
  <2>3. IoOK' /\ ConnOK'
    <3>1. CASE ~sockOpen \/ closeConn
      BY <1>18, <3>1, StopReadingType DEF FeedEnds, IoOK
    <3>2. CASE ~(~sockOpen \/ closeConn)
      <4>1. timer' \in BOOLEAN /\ rd' \in BOOLEAN /\ needRead' \in BOOLEAN
        BY <1>18, <3>2, Zenon DEF FeedEnds, ConnOK
      <4>2. IoOK'
        BY <1>18, <3>2, <4>1 DEF FeedEnds, IoOK
      <4>3. ConnOK'
        BY <1>18, <3>2, <4>1 DEF FeedEnds, ConnOK
      <4> QED
        BY <4>2, <4>3
    <3> QED
      BY <3>1, <3>2
  <2> QED
    BY <1>18, <2>2, <2>3, Unchanged DEF FeedEnds
<1>19. CASE WriteCompletes
  <2>1. Tail(ioq) \in Seq(Completions)
    BY <1>19 DEF WriteCompletes, IoOK
  <2>2. IoOK'
    <3>1. CASE CloseSocket(Tail(ioq))
      BY <2>1, <3>1, CloseSocketType
    <3>2. CASE ioq' = Tail(ioq) /\ UNCHANGED <<sockOpen, rd, wr>>
      BY <2>1, <3>2 DEF IoOK
    <3> QED
      BY <1>19, <3>1, <3>2, Zenon DEF WriteCompletes
  <2>3. isWriting' \in BOOLEAN /\ alive' \in BOOLEAN /\ timer' \in BOOLEAN
    BY <1>19, Zenon DEF WriteCompletes, ConnOK
  <2>4. ConnOK'
    BY <1>19, <2>3 DEF WriteCompletes, ConnOK
  <2> QED
    BY <1>19, <2>2, <2>4, Unchanged DEF WriteCompletes
<1>20. CASE Deadline
  <2>1. IoOK'
    <3>1. CASE sockOpen
      BY <1>20, <3>1, CloseSocketType DEF Deadline, IoOK
    <3>2. CASE ~sockOpen
      BY <1>20, <3>2, Unchanged DEF Deadline
    <3> QED
      BY <3>1, <3>2
  <2>2. timer' \in BOOLEAN
    BY <1>20, Zenon DEF Deadline
  <2>3. ConnOK'
    BY <1>20, <2>2 DEF Deadline, ConnOK
  <2> QED
    BY <1>20, <2>1, <2>3, Unchanged DEF Deadline
<1>21. CASE UNCHANGED vars
  BY <1>21, Unchanged DEF vars
<1> QED
  BY <1>1, <1>2, <1>3, <1>4, <1>5, <1>6, <1>7, <1>8, <1>9, <1>10, <1>11, <1>12,
     <1>14, <1>15, <1>16, <1>17, <1>18, <1>19, <1>20, <1>21
     DEF Next, Client, Kernel, Worker, Over

\* Every variable keeps its type.
THEOREM TypeCorrect == Spec => []TypeOK
BY TypeInit, TypeStep, PTL DEF Spec
-----------------------------------------------------------------------------
(* The part of the connection's invariant that holds for every client: one *)
(* read at a time, the exact is_reading flag, a deadline for whoever is    *)
(* waited for, and no suspended reading.                                   *)

\* The completions of reads in a queue: where they are, that there are none, that
\* there is at most one, and that one of them brought bytes.
ReadsIn(q)    == {i \in 1 .. Len(q) : q[i] \in ReadEnds}
NoReadIn(q)   == ReadsIn(q) = {}
OneReadIn(q)  == \A i, j \in ReadsIn(q) : i = j
BytesIn(q)    == \E i \in 1 .. Len(q) : q[i] = "readOk"

\* What the five invariants say of each other, with <=> for = on flags.
ReadInv ==
    /\ alive => (isReading <=> (rd \/ busy \/ ~NoReadIn(ioq)))
    /\ OneReadIn(ioq)
    /\ (rd \/ busy) => NoReadIn(ioq)
    /\ ~(rd /\ busy)
    /\ rd => buffer = <<>>
    /\ (alive /\ ~busy /\ sockOpen) => timer
    /\ ~needRead
    /\ ~alive => ~isReading /\ ~rd /\ ~busy /\ ~timer /\ NoReadIn(ioq)
    /\ ~sockOpen => ~rd /\ wr = <<>>
    /\ buffer # <<>> => busy \/ BytesIn(ioq)
    /\ script # <<>> => busy
    /\ needAfter <=> (res.hook = "complete")
    /\ needAfter => script # <<>> /\ Head(script) \in {"end", "throw"} /\ ~res.completed

-----------------------------------------------------------------------------
(* Queues of completions.                                                  *)

LEMMA NoReadAfterWriteEnd ==
    ASSUME NEW q \in Seq(Completions), NEW e \in WriteEnds
    PROVE  /\ NoReadIn(Append(q, e)) <=> NoReadIn(q)
           /\ OneReadIn(q) => OneReadIn(Append(q, e))
           /\ BytesIn(q) => BytesIn(Append(q, e))
<1>1. e \notin ReadEnds
  BY DEF WriteEnds, ReadEnds
<1>2. \A i \in 1 .. Len(q) : Append(q, e)[i] = q[i]
  OBVIOUS
<1>3. Len(Append(q, e)) = Len(q) + 1 /\ Append(q, e)[Len(q) + 1] = e /\ Len(q) \in Nat
  OBVIOUS
<1>4. ReadsIn(Append(q, e)) = ReadsIn(q)
  BY <1>1, <1>2, <1>3 DEF ReadsIn
<1>5. BytesIn(q) => BytesIn(Append(q, e))
  BY <1>2, <1>3 DEF BytesIn
<1>6. (NoReadIn(Append(q, e)) <=> NoReadIn(q)) /\ (OneReadIn(q) => OneReadIn(Append(q, e)))
  BY <1>4, Zenon DEF NoReadIn, OneReadIn
<1> QED
  BY <1>5, <1>6

LEMMA OneReadAfterReadEnd ==
    ASSUME NEW q \in Seq(Completions), NEW e \in ReadEnds, NoReadIn(q)
    PROVE  /\ ~NoReadIn(Append(q, e))
           /\ OneReadIn(Append(q, e))
           /\ e = "readOk" => BytesIn(Append(q, e))
<1>1. \A i \in 1 .. Len(q) : Append(q, e)[i] = q[i]
  OBVIOUS
<1>2. Len(Append(q, e)) = Len(q) + 1 /\ Append(q, e)[Len(q) + 1] = e /\ Len(q) \in Nat
  OBVIOUS
<1>3. \A i \in 1 .. Len(q) : q[i] \notin ReadEnds
  BY DEF NoReadIn, ReadsIn
<1>4. ReadsIn(Append(q, e)) = {Len(q) + 1}
  BY <1>1, <1>2, <1>3 DEF ReadsIn
<1>5. e = "readOk" => BytesIn(Append(q, e))
  BY <1>2 DEF BytesIn
<1> QED
  BY <1>4, <1>5 DEF NoReadIn, OneReadIn

LEMMA NoReadAfterTail ==
    ASSUME NEW q \in Seq(Completions), q # <<>>
    PROVE  /\ Head(q) \in WriteEnds => /\ NoReadIn(Tail(q)) <=> NoReadIn(q)
                                       /\ OneReadIn(q) => OneReadIn(Tail(q))
                                       /\ BytesIn(q) => BytesIn(Tail(q))
           /\ Head(q) \in ReadEnds /\ OneReadIn(q) =>
                  /\ NoReadIn(Tail(q)) /\ ~NoReadIn(q)
                  /\ BytesIn(q) => Head(q) = "readOk"
<1>1. /\ Len(Tail(q)) = Len(q) - 1 /\ Len(q) \in Nat \ {0} /\ Head(q) = q[1]
      /\ \A i \in 1 .. Len(q) - 1 : Tail(q)[i] = q[i + 1]
  OBVIOUS
<1>2. \A i \in ReadsIn(Tail(q)) : i \in Nat /\ i >= 1 /\ i + 1 \in ReadsIn(q)
  BY <1>1 DEF ReadsIn
<1>3. \A i \in ReadsIn(q) : i = 1 \/ i - 1 \in ReadsIn(Tail(q))
  BY <1>1 DEF ReadsIn
<1>4. Head(q) \in WriteEnds => 1 \notin ReadsIn(q)
  BY <1>1 DEF ReadsIn, WriteEnds, ReadEnds
<1>5. Head(q) \in ReadEnds => 1 \in ReadsIn(q)
  BY <1>1 DEF ReadsIn
<1>6. Head(q) \in WriteEnds => (NoReadIn(Tail(q)) <=> NoReadIn(q))
  BY <1>2, <1>3, <1>4 DEF NoReadIn
<1>7. OneReadIn(q) => OneReadIn(Tail(q))
  BY <1>2 DEF OneReadIn
<1>8. Head(q) \in ReadEnds /\ OneReadIn(q) => NoReadIn(Tail(q))
  BY <1>2, <1>5 DEF NoReadIn, OneReadIn
<1>9. Head(q) \in WriteEnds /\ BytesIn(q) => BytesIn(Tail(q))
  <2> SUFFICES ASSUME Head(q) \in WriteEnds, NEW i \in 1 .. Len(q), q[i] = "readOk"
               PROVE  BytesIn(Tail(q))
    BY DEF BytesIn
  <2>1. i # 1
    BY <1>1 DEF WriteEnds
  <2>2. i - 1 \in 1 .. Len(Tail(q)) /\ Tail(q)[i - 1] = "readOk"
    BY <1>1, <2>1
  <2> QED
    BY <2>2 DEF BytesIn
<1>10. Head(q) \in ReadEnds /\ OneReadIn(q) /\ BytesIn(q) => Head(q) = "readOk"
  <2> SUFFICES ASSUME Head(q) \in ReadEnds, OneReadIn(q),
                      NEW i \in 1 .. Len(q), q[i] = "readOk"
               PROVE  Head(q) = "readOk"
    BY DEF BytesIn
  <2>1. i \in ReadsIn(q)
    BY DEF ReadsIn, ReadEnds
  <2>2. i = 1
    BY <1>5, <2>1 DEF OneReadIn
  <2> QED
    BY <1>1, <2>2
<1>11. Head(q) \in ReadEnds => ~NoReadIn(q)
  BY <1>5 DEF NoReadIn
<1> QED
  BY <1>6, <1>7, <1>8, <1>9, <1>10, <1>11

LEMMA NoReadInFailed ==
    ASSUME NEW q \in Seq(Completions), NEW n \in Nat
    PROVE  LET f == [i \in 1 .. n |-> "writeFail"] IN
           /\ NoReadIn(q \o f) <=> NoReadIn(q)
           /\ OneReadIn(q) => OneReadIn(q \o f)
           /\ BytesIn(q) => BytesIn(q \o f)
<1> DEFINE f == [i \in 1 .. n |-> "writeFail"]
           s == q \o f
<1>1. f \in Seq(Completions) /\ Len(f) = n
  BY CompletionKinds
<1>2. /\ Len(q) \in Nat /\ Len(s) = Len(q) + n
      /\ \A i \in 1 .. Len(q) : s[i] = q[i]
      /\ \A i \in Len(q) + 1 .. Len(q) + n : s[i] = f[i - Len(q)]
  BY <1>1
<1>3. \A i \in Len(q) + 1 .. Len(q) + n : s[i] \notin ReadEnds
  <2> SUFFICES ASSUME NEW i \in Len(q) + 1 .. Len(q) + n PROVE s[i] \notin ReadEnds
    OBVIOUS
  <2>1. i - Len(q) \in 1 .. n
    BY <1>2
  <2>2. s[i] = "writeFail"
    BY <1>2, <2>1
  <2> HIDE DEF s
  <2> QED
    BY <2>2 DEF ReadEnds
<1> HIDE DEF s
<1>4. ReadsIn(s) = ReadsIn(q)
  BY <1>2, <1>3 DEF ReadsIn
<1>5. (NoReadIn(s) <=> NoReadIn(q)) /\ (OneReadIn(q) => OneReadIn(s))
  BY <1>4, Zenon DEF NoReadIn, OneReadIn
<1>6. BytesIn(q) => BytesIn(s)
  BY <1>2 DEF BytesIn
<1> QED
  BY <1>5, <1>6 DEF s

LEMMA CloseSocketReads ==
    ASSUME IoOK, NEW q \in Seq(Completions), CloseSocket(q), rd => NoReadIn(q),
           OneReadIn(q)
    PROVE  /\ NoReadIn(ioq') <=> (~rd /\ NoReadIn(q))
           /\ OneReadIn(ioq')
           /\ BytesIn(q) => BytesIn(ioq')
           /\ ~sockOpen' /\ ~rd' /\ wr' = <<>>
<1> DEFINE f == [i \in 1 .. Len(wr) |-> "writeFail"]
<1>0. Len(wr) \in Nat
  BY DEF IoOK
<1>1. CASE rd
  <2>1. ioq' = Append(q, "readFail") \o f
    BY <1>1 DEF CloseSocket
  <2>2. "readFail" \in ReadEnds /\ Append(q, "readFail") \in Seq(Completions)
    BY CompletionKinds DEF ReadEnds
  <2>3. ~NoReadIn(Append(q, "readFail")) /\ OneReadIn(Append(q, "readFail"))
    BY <1>1, <2>2, OneReadAfterReadEnd
  <2> HIDE DEF f
  <2>4. ~NoReadIn(ioq') /\ OneReadIn(ioq')
    BY <1>0, <2>1, <2>2, <2>3, NoReadInFailed DEF f
  <2>5. ~BytesIn(q)
    BY <1>1 DEF NoReadIn, ReadsIn, BytesIn, ReadEnds
  <2> QED
    BY <1>1, <2>4, <2>5 DEF CloseSocket
<1>2. CASE ~rd
  <2>1. ioq' = q \o f
    BY <1>2 DEF CloseSocket
  <2>2. /\ NoReadIn(ioq') <=> NoReadIn(q)
        /\ OneReadIn(ioq') /\ (BytesIn(q) => BytesIn(ioq'))
    BY <1>0, <2>1, NoReadInFailed
  <2> QED
    BY <1>2, <2>2 DEF CloseSocket
<1> QED
  BY <1>1, <1>2

-----------------------------------------------------------------------------
(* What the shared parts of the handlers do to the reads.                  *)

\* A write leaves the completions of reads alone.
LEMMA DoWriteReads ==
    ASSUME TypeOK, NEW w, DoWrite(w), OneReadIn(ioq)
    PROVE  /\ NoReadIn(ioq') <=> NoReadIn(ioq)
           /\ OneReadIn(ioq')
           /\ BytesIn(ioq) => BytesIn(ioq')
           /\ ~sockOpen => wr' = wr
<1>1. ioq \in Seq(Completions)
  BY DEF TypeOK, IoOK
<1>2. "writeOk" \in WriteEnds /\ "writeFail" \in WriteEnds
  BY DEF WriteEnds
<1>3. ioq' = ioq \/ ioq' = Append(ioq, "writeOk") \/ ioq' = Append(ioq, "writeFail")
  BY Zenon DEF DoWrite
<1>4. ~sockOpen => wr' = wr
  BY Zenon DEF DoWrite
<1> QED
  BY <1>1, <1>2, <1>3, <1>4, NoReadAfterWriteEnd

LEMMA CompleteRequestReads ==
    ASSUME TypeOK, NEW r \in Responses, NEW n, NEW t,
           CompleteRequest(r, n, t), OneReadIn(ioq), ~needRead
    PROVE  /\ NoReadIn(ioq') <=> NoReadIn(ioq)
           /\ OneReadIn(ioq')
           /\ BytesIn(ioq) => BytesIn(ioq')
           /\ ~sockOpen => wr' = wr
           /\ ~needRead' /\ ~needAfter'
           /\ rd' <=> rd
           /\ isReading' <=> isReading
           /\ res'.hook = "null"
<1>1. CASE sockOpen
  <2>1. /\ DoWrite([n |-> n, answer |-> r.content]) /\ res' = Cleared
        /\ needAfter' = FALSE /\ needRead' = FALSE
        /\ rd' = (rd \/ needRead) /\ isReading' = (isReading \/ needRead)
    BY <1>1, Zenon DEF CompleteRequest
  <2>2. res'.hook = "null"
    BY <2>1 DEF Cleared
  <2>3. (rd' <=> rd) /\ (isReading' <=> isReading) /\ ~needRead' /\ ~needAfter'
    BY <2>1, Zenon
  <2> QED
    BY <1>1, <2>1, <2>2, <2>3, DoWriteReads
<1>2. CASE ~sockOpen
  <2>1. /\ res' = [r EXCEPT !.hook = "null"] /\ needAfter' = FALSE
        /\ UNCHANGED <<rd, wr, ioq, isReading, needRead>>
    BY <1>2, Zenon DEF CompleteRequest
  <2>2. res'.hook = "null"
    BY <2>1 DEF Responses
  <2> QED
    BY <2>1, <2>2
<1> QED
  BY <1>1, <1>2

\* The end of the read handler closes the connection's books on reading.
LEMMA StopReadingReads ==
    ASSUME IoOK, NEW q \in Seq(Completions), StopReading(q),
           rd => NoReadIn(q), OneReadIn(q)
    PROVE  /\ NoReadIn(ioq') <=> (~rd /\ NoReadIn(q))
           /\ OneReadIn(ioq')
           /\ BytesIn(q) => BytesIn(ioq')
           /\ ~sockOpen' /\ ~rd' /\ wr' = <<>>
           /\ ~timer' /\ ~isReading' /\ (alive' <=> isWriting)
           /\ UNCHANGED <<needAfter, needRead, res>>
BY CloseSocketReads, Zenon DEF StopReading

-----------------------------------------------------------------------------
LEMMA ReadInit == Init => ReadInv
<1> SUFFICES ASSUME Init PROVE ReadInv
  OBVIOUS
<1>1. ioq = <<>> /\ buffer = <<>> /\ script = <<>> /\ wr = <<>> /\ res = Cleared
  BY DEF Init
<1>2. ReadsIn(ioq) = {}
  BY <1>1 DEF ReadsIn
<1>3. NoReadIn(ioq) /\ OneReadIn(ioq)
  BY <1>2 DEF NoReadIn, OneReadIn
<1>4. res.hook = "null"
  BY <1>1 DEF Cleared
<1>5. /\ alive /\ isReading /\ ~isWriting /\ timer /\ ~needAfter /\ ~needRead
      /\ rd /\ ~busy /\ sockOpen
  BY Zenon DEF Init
<1> QED
  BY <1>1, <1>3, <1>4, <1>5 DEF ReadInv

LEMMA ReadStep == TypeOK /\ ReadInv /\ [Next]_vars => ReadInv'
<1> SUFFICES ASSUME TypeOK, ReadInv, [Next]_vars PROVE ReadInv'
  OBVIOUS
<1>0. /\ ioq \in Seq(Completions) /\ buffer \in Seq(Tokens)
      /\ "readOk" \in ReadEnds /\ "readFail" \in ReadEnds
      /\ "writeOk" \in WriteEnds /\ "writeFail" \in WriteEnds
  BY DEF TypeOK, IoOK, FeedOK, ReadEnds, WriteEnds
<1>1. CASE SendHead \/ SendBody \/ HalfClose \/ Leave
  <2>1. UNCHANGED <<ioVars, connVars, feedVars>>
    BY <1>1, Zenon DEF SendHead, SendBody, HalfClose, Leave
  <2> QED
    BY <2>1 DEF ReadInv, ioVars, connVars, feedVars
<1>2. CASE Receive
  <2>1. rd /\ ioq' = Append(ioq, "readOk") /\ ~rd'
    BY <1>2, Zenon DEF Receive
  <2>2. ~NoReadIn(ioq') /\ OneReadIn(ioq') /\ BytesIn(ioq')
    BY <1>0, <2>1, OneReadAfterReadEnd DEF ReadInv
  <2>3. UNCHANGED <<sockOpen, wr, connVars, busy, script>>
    BY <1>2, Zenon DEF Receive
  <2> QED
    BY <2>1, <2>2, <2>3 DEF ReadInv, connVars
<1>3. CASE ReceiveEof
  <2>1. rd /\ ioq' = Append(ioq, "readFail") /\ ~rd'
    BY <1>3, Zenon DEF ReceiveEof
  <2>2. ~NoReadIn(ioq') /\ OneReadIn(ioq')
    BY <1>0, <2>1, OneReadAfterReadEnd DEF ReadInv
  <2>3. UNCHANGED <<sockOpen, wr, connVars, feedVars>>
    BY <1>3, Zenon DEF ReceiveEof
  <2> QED
    BY <2>1, <2>2, <2>3 DEF ReadInv, connVars, feedVars
<1>4. CASE Flush \/ FlushFails
  <2>1. wr # <<>> /\ (ioq' = Append(ioq, "writeOk") \/ ioq' = Append(ioq, "writeFail"))
        /\ UNCHANGED <<sockOpen, rd, connVars, feedVars>>
    BY <1>4, Zenon DEF Flush, FlushFails
  <2>2. /\ NoReadIn(ioq') <=> NoReadIn(ioq)
        /\ OneReadIn(ioq') /\ (BytesIn(ioq) => BytesIn(ioq'))
    <3>1. PICK e \in WriteEnds : ioq' = Append(ioq, e)
      BY <1>0, <2>1
    <3>2. OneReadIn(ioq)
      BY DEF ReadInv
    <3> QED
      BY <1>0, <3>1, <3>2, NoReadAfterWriteEnd
  <2> QED
    BY <2>1, <2>2 DEF ReadInv, connVars, feedVars
<1>5. CASE ReadArrives
  <2>1. ioq # <<>> /\ Head(ioq) \in ReadEnds /\ ioq' = Tail(ioq) /\ alive /\ ~busy /\ busy'
    BY <1>0, <1>5, Zenon DEF ReadArrives, Idle
  <2>2. NoReadIn(ioq') /\ ~NoReadIn(ioq)
    BY <1>0, <2>1, NoReadAfterTail DEF ReadInv
  <2>3. OneReadIn(ioq')
    BY <2>2 DEF NoReadIn, OneReadIn
  <2>4. UNCHANGED <<sockOpen, rd, wr, connVars, buffer, script>>
    BY <1>5, Zenon DEF ReadArrives
  <2> QED
    BY <2>1, <2>2, <2>3, <2>4 DEF ReadInv, connVars
<1>6. CASE ReadFails
  <2>1. /\ ioq # <<>> /\ Head(ioq) \in ReadEnds /\ Head(ioq) = "readFail"
        /\ StopReading(Tail(ioq)) /\ ~busy
        /\ UNCHANGED feedVars
    BY <1>0, <1>6, Zenon DEF ReadFails, Idle
  <2>2. NoReadIn(Tail(ioq)) /\ ~NoReadIn(ioq) /\ ~BytesIn(ioq)
    BY <1>0, <2>1, NoReadAfterTail DEF ReadInv
  <2>3. OneReadIn(Tail(ioq)) /\ Tail(ioq) \in Seq(Completions)
    BY <1>0, <2>1, <2>2 DEF NoReadIn, OneReadIn
  <2>4. buffer = <<>> /\ ~rd
    BY <2>1, <2>2 DEF ReadInv
  <2>5. /\ NoReadIn(ioq') /\ OneReadIn(ioq')
        /\ ~sockOpen' /\ ~rd' /\ wr' = <<>> /\ ~timer' /\ ~isReading'
        /\ UNCHANGED <<needAfter, needRead, res>>
    BY <2>1, <2>2, <2>3, <2>4, StopReadingReads DEF TypeOK
  <2> QED
    BY <2>1, <2>4, <2>5 DEF ReadInv, feedVars
<1>7. CASE HandleHeader
  <2>1. /\ busy /\ alive /\ script = <<>>
        /\ UNCHANGED <<sockOpen, rd, alive, isReading, timer, needAfter, needRead,
                       res, busy, script>>
    BY <1>7, Zenon DEF HandleHeader
  <2>2. DoWrite(Continue) \/ UNCHANGED <<wr, ioq>>
    BY <1>7, Zenon DEF HandleHeader
  <2>3. /\ NoReadIn(ioq') <=> NoReadIn(ioq)
        /\ OneReadIn(ioq') /\ (~sockOpen => wr' = wr)
    BY <2>2, DoWriteReads DEF ReadInv
  <2> QED
    BY <2>1, <2>3 DEF ReadInv
<1>8. CASE HandleMessage
  <2> DEFINE r == Head(buffer).req
             bad == [completed |-> FALSE, content |-> "bad400", hook |-> "null"]
  <2>1. busy /\ alive /\ script = <<>> /\ UNCHANGED <<sockOpen, alive, busy>>
    BY <1>8, Zenon DEF HandleMessage
  <2>2. ~needAfter /\ NoReadIn(ioq) /\ OneReadIn(ioq) /\ ~needRead
    BY <2>1 DEF ReadInv
  <2>3. ASSUME NEW a \in Responses, NEW n, CompleteRequest(a, n, FALSE), UNCHANGED script
        PROVE  ReadInv'
    <3>1. /\ NoReadIn(ioq') <=> NoReadIn(ioq)
          /\ OneReadIn(ioq') /\ (~sockOpen => wr' = wr)
          /\ ~needRead' /\ ~needAfter' /\ (rd' <=> rd) /\ (isReading' <=> isReading)
          /\ res'.hook = "null"
      BY <2>2, <2>3, CompleteRequestReads
    <3> QED
      BY <2>1, <2>3, <3>1 DEF ReadInv
  <2>4. CASE r.kind = "noHost"
    <3>1. bad \in Responses
      BY DEF Responses, Answers
    <3>2. CompleteRequest(bad, handled', FALSE) /\ UNCHANGED script
      BY <1>8, <2>4 DEF HandleMessage
    <3> HIDE DEF bad
    <3> QED
      BY <2>3, <3>1, <3>2
  <2>5. CASE r.kind # "noHost" /\ res.completed
    <3>1. CompleteRequest(res, handled', FALSE) /\ UNCHANGED script
      BY <1>8, <2>5 DEF HandleMessage
    <3> QED
      BY <2>3, <3>1 DEF TypeOK, ConnOK
  <2>6. CASE r.kind # "noHost" /\ ~res.completed
    <3>1. /\ res' = [res EXCEPT !.hook = "complete"]
          /\ needAfter' = TRUE /\ timer' = FALSE /\ script' = Script(r.kind)
          /\ UNCHANGED <<rcvd, got100, rd, wr, ioq, isReading, isWriting, needRead>>
      BY <1>8, <2>6 DEF HandleMessage
    <3>2. r \in Requests
      <4>1. Head(buffer) \in Tokens
        BY <1>8 DEF HandleMessage, TypeOK, FeedOK
      <4> QED
        BY <4>1 DEF Tokens
    <3>3. script' # <<>> /\ Head(script') \in {"end", "throw"}
      BY <2>6, <3>1, <3>2, RequestsAssumption DEF Kinds, Script
    <3>4. res'.hook = "complete" /\ ~res'.completed
      BY <2>6, <3>1 DEF TypeOK, ConnOK, Responses
    <3> QED
      BY <2>1, <2>2, <3>1, <3>3, <3>4 DEF ReadInv
  <2> QED
    BY <2>4, <2>5, <2>6
<1>9. ASSUME NEW call \in {"end", "bareEnd", "throw"}, NEW r \in Responses,
             HandlerStep(call, r), r.hook = res.hook,
             call = "bareEnd" => r.completed = res.completed,
             call = "end" => r.completed = res.completed,
             call = "throw" => ~r.completed
      PROVE  ReadInv'
  <2>1. /\ busy /\ alive /\ script # <<>> /\ Head(script) = call /\ EndResponse(r)
        /\ UNCHANGED <<sockOpen, alive, busy, buffer>>
    BY <1>9, Zenon DEF HandlerStep
  <2>2. NoReadIn(ioq) /\ OneReadIn(ioq) /\ ~needRead
    BY <2>1 DEF ReadInv
  <2>3. CASE needAfter
    <3>1. ~r.completed /\ r.hook = "complete"
      BY <1>9, <2>1, <2>3 DEF ReadInv
    <3>2. [r EXCEPT !.completed = TRUE] \in Responses
      BY DEF Responses
    <3>3. CompleteRequest([r EXCEPT !.completed = TRUE], handled, timer)
      BY <2>1, <3>1 DEF EndResponse
    <3>4. /\ NoReadIn(ioq') <=> NoReadIn(ioq)
          /\ OneReadIn(ioq') /\ (~sockOpen => wr' = wr)
          /\ ~needRead' /\ ~needAfter' /\ (rd' <=> rd) /\ (isReading' <=> isReading)
          /\ res'.hook = "null"
      BY <2>2, <3>2, <3>3, CompleteRequestReads
    <3> QED
      BY <2>1, <3>4 DEF ReadInv
  <2>4. CASE ~needAfter
    <3>1. r.hook # "complete"
      BY <1>9, <2>4 DEF ReadInv
    <3>2. /\ res' = [r EXCEPT !.completed = TRUE]
          /\ UNCHANGED <<rcvd, got100, rd, wr, ioq, isReading, isWriting,
                         timer, needAfter, needRead>>
      BY <2>1, <3>1, Zenon DEF EndResponse
    <3>3. res'.hook # "complete"
      BY <3>1, <3>2 DEF Responses
    <3> QED
      BY <2>1, <2>4, <3>2, <3>3 DEF ReadInv
  <2> QED
    BY <2>3, <2>4
<1>10. CASE HandlerEnds
  BY <1>9, <1>10 DEF HandlerEnds, TypeOK, ConnOK, Responses, Answers
<1>11. CASE HandlerEndsAgain
  BY <1>9, <1>11 DEF HandlerEndsAgain, TypeOK, ConnOK
<1>12. CASE HandlerThrows
  BY <1>9, <1>12 DEF HandlerThrows, TypeOK, ConnOK, Responses, Answers
<1>13. CASE ParseFails
  <2>1. /\ busy /\ script = <<>> /\ ~busy' /\ buffer' = <<>> /\ StopReading(ioq)
        /\ UNCHANGED script
    BY <1>13, Zenon DEF ParseFails
  <2>2. NoReadIn(ioq) /\ OneReadIn(ioq) /\ ~rd /\ ~needAfter /\ ~needRead
    BY <2>1 DEF ReadInv
  <2>3. /\ NoReadIn(ioq') /\ OneReadIn(ioq')
        /\ ~sockOpen' /\ ~rd' /\ wr' = <<>> /\ ~timer' /\ ~isReading'
        /\ UNCHANGED <<needAfter, needRead, res>>
    BY <1>0, <2>1, <2>2, StopReadingReads DEF TypeOK
  <2> QED
    BY <2>1, <2>2, <2>3 DEF ReadInv
<1>14. CASE FeedEnds
  <2>1. /\ alive /\ busy /\ script = <<>> /\ buffer = <<>> /\ ~busy'
        /\ UNCHANGED <<buffer, script>>
    BY <1>14, Zenon DEF FeedEnds
  <2>2. NoReadIn(ioq) /\ OneReadIn(ioq) /\ ~rd /\ ~needAfter /\ ~needRead /\ isReading
    BY <2>1 DEF ReadInv
  <2>3. CASE ~sockOpen \/ closeConn
    <3>1. StopReading(ioq)
      BY <1>14, <2>3 DEF FeedEnds
    <3>2. /\ NoReadIn(ioq') /\ OneReadIn(ioq')
          /\ ~sockOpen' /\ ~rd' /\ wr' = <<>> /\ ~timer' /\ ~isReading'
          /\ UNCHANGED <<needAfter, needRead, res>>
      BY <1>0, <2>2, <3>1, StopReadingReads DEF TypeOK
    <3> QED
      BY <2>1, <2>2, <3>2 DEF ReadInv
  <2>4. CASE sockOpen /\ ~closeConn
    <3>1. /\ timer' = (timer \/ ~needAfter) /\ rd' = ~needAfter
          /\ needRead' = (needRead \/ needAfter)
          /\ UNCHANGED <<sockOpen, wr, ioq, alive, isReading, isWriting,
                         closeConn, needAfter, res, handled>>
      BY <1>14, <2>4, Zenon DEF FeedEnds
    <3>2. timer' /\ rd' /\ ~needRead'
      BY <2>2, <3>1, Zenon
    <3> QED
      BY <2>1, <2>2, <2>4, <3>1, <3>2 DEF ReadInv
  <2> QED
    BY <2>3, <2>4
<1>15. CASE WriteCompletes
  <2> DEFINE dies == (Head(ioq) = "writeOk" => closeConn) /\ ~isReading
  <2>1. /\ alive /\ ~busy /\ ioq # <<>> /\ Head(ioq) \in WriteEnds
        /\ alive' = ~dies /\ timer' = (timer /\ ~dies)
        /\ \/ CloseSocket(Tail(ioq))
           \/ ~dies /\ ioq' = Tail(ioq) /\ UNCHANGED <<sockOpen, rd, wr>>
        /\ UNCHANGED <<isReading, needAfter, needRead, res, feedVars>>
    BY <1>15, Zenon DEF WriteCompletes, Idle
  <2> HIDE DEF dies
  <2>2. dies => ~isReading
    BY DEF dies
  <2>3. /\ Tail(ioq) \in Seq(Completions)
        /\ NoReadIn(Tail(ioq)) <=> NoReadIn(ioq)
        /\ OneReadIn(Tail(ioq)) /\ (BytesIn(ioq) => BytesIn(Tail(ioq)))
    BY <1>0, <2>1, NoReadAfterTail DEF ReadInv
  <2>4. CASE CloseSocket(Tail(ioq))
    <3>1. /\ NoReadIn(ioq') <=> (~rd /\ NoReadIn(ioq))
          /\ OneReadIn(ioq') /\ (BytesIn(ioq) => BytesIn(ioq'))
          /\ ~sockOpen' /\ ~rd' /\ wr' = <<>>
      BY <2>3, <2>4, CloseSocketReads DEF ReadInv, TypeOK
    <3> QED
      BY <2>1, <2>2, <3>1 DEF ReadInv, feedVars
  <2>5. CASE ~dies /\ ioq' = Tail(ioq) /\ UNCHANGED <<sockOpen, rd, wr>>
    BY <2>1, <2>3, <2>5 DEF ReadInv, feedVars
  <2> QED
    BY <2>1, <2>4, <2>5
<1>16. CASE Deadline
  <2>1. /\ alive /\ ~busy /\ timer /\ timer' = FALSE
        /\ IF sockOpen THEN CloseSocket(ioq) ELSE UNCHANGED ioVars
        /\ UNCHANGED <<alive, isReading, needAfter, needRead, res, feedVars>>
    BY <1>16, Zenon DEF Deadline, Idle
  <2>2. CASE sockOpen
    <3>1. /\ NoReadIn(ioq') <=> (~rd /\ NoReadIn(ioq))
          /\ OneReadIn(ioq') /\ (BytesIn(ioq) => BytesIn(ioq'))
          /\ ~sockOpen' /\ ~rd' /\ wr' = <<>>
      BY <1>0, <2>1, <2>2, CloseSocketReads DEF ReadInv, TypeOK
    <3> QED
      BY <2>1, <3>1 DEF ReadInv, feedVars
  <2>3. CASE ~sockOpen
    BY <2>1, <2>3 DEF ReadInv, feedVars, ioVars
  <2> QED
    BY <2>2, <2>3
<1>17. CASE UNCHANGED vars
  BY <1>17 DEF ReadInv, vars, ioVars, connVars, feedVars
<1> QED
  BY <1>1, <1>2, <1>3, <1>4, <1>5, <1>6, <1>7, <1>8, <1>10, <1>11, <1>12, <1>13,
     <1>14, <1>15, <1>16, <1>17
     DEF Next, Client, Kernel, Worker, Over

-----------------------------------------------------------------------------
LEMMA ReadInvariant == Spec => [](TypeOK /\ ReadInv)
<1>1. Init => TypeOK /\ ReadInv
  BY TypeInit, ReadInit
<1>2. TypeOK /\ ReadInv /\ [Next]_vars => (TypeOK /\ ReadInv)'
  BY TypeStep, ReadStep
<1> QED
  BY <1>1, <1>2, PTL DEF Spec

LEMMA QueuedReads == Queued(ReadEnds) = ReadsIn(ioq)
BY DEF Queued, ReadsIn

\* is_reading says exactly that a read is with the reactor, queued or being
\* parsed, as long as the object exists.
THEOREM ReadFlagIsExact == Spec => []ReadFlagExact
<1>1. TypeOK /\ ReadInv => ReadFlagExact
  <2> SUFFICES ASSUME TypeOK, ReadInv, alive
               PROVE  isReading = (rd \/ busy \/ Queued(ReadEnds) # {})
    BY DEF ReadFlagExact
  <2>1. isReading <=> (rd \/ busy \/ Queued(ReadEnds) # {})
    BY QueuedReads DEF ReadInv, NoReadIn
  <2>2. isReading \in BOOLEAN
    BY DEF TypeOK, ConnOK
  <2> QED
    BY <2>1, <2>2, Zenon
<1> QED
  BY <1>1, ReadInvariant, PTL

\* There is never more than one read, and buffer_ is not written while it is
\* being parsed.
THEOREM OneReadAtATime == Spec => []OneRead
<1>1. ReadInv => OneRead
  BY QueuedReads DEF ReadInv, NoReadIn, OneReadIn, OneRead
<1> QED
  BY <1>1, ReadInvariant, PTL

\* An open connection that waits for its client has a deadline.
THEOREM WaitingHasDeadline == Spec => []OpenHasDeadline
<1>1. ReadInv => OpenHasDeadline
  BY DEF ReadInv, OpenHasDeadline, Idle
<1> QED
  BY <1>1, ReadInvariant, PTL

\* No request leaves feed() unanswered, so reading is never suspended.
THEOREM ReadingIsNeverSuspended == Spec => []NeverParked
<1>1. ReadInv => NeverParked
  BY DEF ReadInv, NeverParked
<1> QED
  BY <1>1, ReadInvariant, PTL
=============================================================================
