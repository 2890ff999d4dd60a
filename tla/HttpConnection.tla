--------------------------- MODULE HttpConnection ---------------------------
(***************************************************************************)
(* One crow::Connection (include/http_connection.h) with the response      *)
(* object it owns (include/http_response.h), the exception barrier of the  *)
(* router (include/routing.h) and the route handlers of src/main.cpp,      *)
(* reduced to when they call response::end() and when they throw.          *)
(*                                                                         *)
(* The connection is driven by one worker thread: completions of its       *)
(* asynchronous reads and writes wait in the first-in-first-out queue of   *)
(* the worker's io_service and run one at a time.  The client, the kernel  *)
(* and the deadline of the timer queue interleave with them.               *)
(*                                                                         *)
(* A message is abstracted to two tokens, the end of its header and the    *)
(* end of its body, and a read delivers any number of the tokens that have *)
(* arrived.                                                                *)
(***************************************************************************)
EXTENDS Naturals, Sequences

CONSTANTS
    Requests,     \* what a client may ask: a set of [kind, persist, expect]
    MaxRequests,  \* bound on the number of requests of one client
    Pipelining,   \* may a client send before it has been answered?
    MayBlock      \* may a write be too large for the socket's send buffer?

\* What the handler of a request does.
\*   "once"     one res.end(...), the usual route
\*   "twice"    res.end(...) and then res.end() again: "/topic/<string>"
\*   "throws"   an exception before any end(): "/api/topic/<string>" on "error"
\*   "endThrow" an exception after end(): check_at_notification in post/new
\*   "noHost"   an HTTP/1.1 request without Host, which reaches no handler
Kinds == {"once", "twice", "throws", "endThrow", "noHost"}

\* What the request's headers say of the connection.
\*   "keep"   both the parser and the connection keep it
\*   "close"  HTTP/1.0 without Connection, or HTTP/1.1 with Connection: close
\*   "lazy"   HTTP/1.0 with Connection: close: the parser accepts no further
\*            message, but close_connection_ stays false
Persistence == {"keep", "close", "lazy"}

ASSUME RequestsAssumption ==
    Requests \subseteq [kind : Kinds, persist : Persistence, expect : BOOLEAN]
ASSUME BoundsAssumption ==
    /\ MaxRequests \in Nat
    /\ Pipelining \in BOOLEAN
    /\ MayBlock \in BOOLEAN

VARIABLES
    \* the client
    sent,       \* the requests it has begun to send
    inbound,    \* tokens sent and not yet read by the server
    peer,       \* "open", "half" (it sends no more) or "gone"
    rcvd,       \* the replies it has received in full
    phase,      \* "idle", or "body": the last request's body is still to come
    got100,     \* it has an unused 100 Continue
    \* the kernel and the io_service
    sockOpen,   \* socket_.is_open()
    rd,         \* is an asynchronous read pending in the reactor?
    wr,         \* the asynchronous writes pending in the reactor
    ioq,        \* completions queued for the worker
    \* the Connection object
    alive,      \* not deleted yet
    isReading,  \* is_reading
    isWriting,  \* is_writing
    timer,      \* a live deadline of this connection is in the timer queue
    closeConn,  \* close_connection_
    needAfter,  \* need_to_call_after_handlers_
    needRead,   \* need_to_start_read_after_complete_
    res,        \* the response object
    handled,    \* number of messages handle() has been called for
    \* the worker, while it runs the completion of a read
    busy,       \* inside parser_.feed()
    buffer,     \* tokens in buffer_ that are still to be parsed
    dead,       \* the parser is in s_dead
    script      \* what the running handler still has to do

clientVars == <<sent, inbound, peer, phase, rcvd, got100>>
ioVars     == <<sockOpen, rd, wr, ioq>>
connVars   == <<alive, isReading, isWriting, timer, closeConn, needAfter,
                needRead, res, handled>>
feedVars   == <<busy, buffer, dead, script>>
vars       == <<clientVars, ioVars, connVars, feedVars>>

Tokens  == [part : {"head", "body"}, req : Requests]
Answers == {"blank", "page", "error500", "bad400"}
\* A reply names the message whose handling wrote it.
Replies == [n : Nat, answer : Answers]
\* An outstanding write is a reply or an interim 100 Continue.
Continue == [n |-> 0, answer |-> "blank"]
\* Completions as the io_service queues them: of a read or of a write, that
\* succeeded, or that failed or was aborted.
ReadEnds    == {"readOk", "readFail"}
WriteEnds   == {"writeOk", "writeFail"}
Completions == ReadEnds \cup WriteEnds

\* A clear() that leaves the moved-out body behind.
ClearedMutant == [completed |-> FALSE, content |-> "moved", hook |-> "null"]

\* response::clear(), and the state of a default-constructed response.
Cleared == [completed |-> FALSE, content |-> "blank", hook |-> "null"]

\* A router that swallows the exceptions of handlers.
ScriptMutant(kind) ==
    CASE kind \in {"once", "endThrow"} -> <<"end">>
      [] kind = "twice" -> <<"end", "bareEnd">>
      [] OTHER -> <<>>

\* What handlers do, in order: "end" is res.end(...) with the page's content,
\* "bareEnd" is res.end() with nothing added, "throw" is an exception, which
\* the router turns into `res = response(500); res.end()`.
Script(kind) ==
    CASE kind = "once"     -> <<"end">>
      [] kind = "twice"    -> <<"end", "bareEnd">>
      [] kind = "throws"   -> <<"throw">>
      [] kind = "endThrow" -> <<"end", "throw">>
      [] kind = "noHost"   -> <<>>

\* The reply a request's own handler produces first.
Answer(kind) ==
    CASE kind \in {"once", "twice", "endThrow"} -> "page"
      [] kind = "throws" -> "error500"
      [] kind = "noHost" -> "bad400"

-----------------------------------------------------------------------------
\* start() has armed the deadline and issued the first read.
Init ==
    /\ sent = <<>> /\ inbound = <<>> /\ rcvd = <<>>
    /\ peer = "open" /\ phase = "idle" /\ got100 = FALSE
    /\ sockOpen = TRUE /\ rd = TRUE /\ wr = <<>> /\ ioq = <<>>
    /\ alive = TRUE /\ isReading = TRUE /\ isWriting = FALSE /\ timer = TRUE
    /\ closeConn = FALSE /\ needAfter = FALSE /\ needRead = FALSE
    /\ res = Cleared /\ handled = 0
    /\ busy = FALSE /\ buffer = <<>> /\ dead = FALSE /\ script = <<>>

-----------------------------------------------------------------------------
(* The client.                                                             *)

\* The header of the next request.  A client that does not pipeline first
\* waits for the reply to its last request.
SendHead ==
    /\ peer = "open" /\ phase = "idle" /\ Len(sent) < MaxRequests
    /\ Pipelining \/ Len(rcvd) = Len(sent)
    /\ \E r \in Requests :
         /\ sent' = Append(sent, r)
         /\ inbound' = Append(inbound, [part |-> "head", req |-> r])
    /\ phase' = "body" /\ got100' = FALSE
    /\ UNCHANGED <<peer, rcvd, ioVars, connVars, feedVars>>

\* Its body.  A client that does not pipeline and has sent Expect:
\* 100-continue first waits for the interim reply.
SendBody ==
    /\ peer = "open" /\ phase = "body"
    /\ LET r == sent[Len(sent)] IN
         /\ Pipelining \/ ~r.expect \/ got100
         /\ inbound' = Append(inbound, [part |-> "body", req |-> r])
    /\ phase' = "idle"
    /\ UNCHANGED <<sent, peer, rcvd, got100, ioVars, connVars, feedVars>>

\* It shuts down its sending side but goes on reading.
HalfClose ==
    /\ peer = "open" /\ peer' = "half"
    /\ UNCHANGED <<sent, inbound, phase, rcvd, got100, ioVars, connVars, feedVars>>

\* It closes its socket.
Leave ==
    /\ peer # "gone" /\ peer' = "gone"
    /\ UNCHANGED <<sent, inbound, phase, rcvd, got100, ioVars, connVars, feedVars>>

-----------------------------------------------------------------------------
(* The kernel and the reactor.                                             *)

\* The whole of w has reached the client, if there still is one.
Deliver(w) ==
    /\ rcvd' = IF w.n > 0 /\ peer # "gone" THEN Append(rcvd, w) ELSE rcvd
    /\ got100' = (got100 \/ w.n = 0)

\* A pending read takes some of what has arrived.
Receive ==
    /\ rd /\ inbound # <<>>
    /\ \E k \in 1 .. Len(inbound) :
         /\ buffer' = SubSeq(inbound, 1, k)
         /\ inbound' = SubSeq(inbound, k + 1, Len(inbound))
    /\ ioq' = Append(ioq, "readOk")
    /\ rd' = FALSE
    /\ UNCHANGED <<sent, peer, phase, rcvd, got100, sockOpen, wr, connVars,
                   busy, dead, script>>

\* A pending read meets the end of the stream.
ReceiveEof ==
    /\ rd /\ inbound = <<>> /\ peer # "open"
    /\ ioq' = Append(ioq, "readFail")
    /\ rd' = FALSE
    /\ UNCHANGED <<clientVars, sockOpen, wr, connVars, feedVars>>

\* The oldest pending write gets rid of its last byte.
Flush ==
    /\ wr # <<>>
    /\ Deliver(Head(wr))
    /\ wr' = Tail(wr)
    /\ ioq' = Append(ioq, "writeOk")
    /\ UNCHANGED <<sent, inbound, peer, phase, sockOpen, rd, connVars, feedVars>>

\* The oldest pending write meets a reset.
FlushFails ==
    /\ wr # <<>> /\ peer = "gone"
    /\ wr' = Tail(wr)
    /\ ioq' = Append(ioq, "writeFail")
    /\ UNCHANGED <<clientVars, sockOpen, rd, connVars, feedVars>>

-----------------------------------------------------------------------------
(* Operations of the Connection, in terms of the state they change.        *)

\* socket_.close() after the completions q: every pending operation completes
\* with an error.
CloseSocket(q) ==
    /\ sockOpen' = FALSE
    /\ rd' = FALSE
    /\ wr' = <<>>
    /\ ioq' = q \o (IF rd THEN <<"readFail">> ELSE <<>>)
                \o [i \in 1 .. Len(wr) |-> "writeFail"]

\* A do_write() that leaves is_writing as it is.
DoWriteMutant(w) ==
    /\ UNCHANGED isWriting
    /\ \/ /\ sockOpen /\ wr = <<>>
          /\ Deliver(w)
          /\ ioq' = Append(ioq, "writeOk")
          /\ UNCHANGED wr
       \/ /\ sockOpen /\ (MayBlock \/ wr # <<>>)
          /\ wr' = Append(wr, w)
          /\ UNCHANGED <<rcvd, got100, ioq>>
       \/ /\ ~sockOpen \/ (peer = "gone" /\ wr = <<>>)
          /\ ioq' = Append(ioq, "writeFail")
          /\ UNCHANGED <<rcvd, got100, wr>>

\* do_write(): asio writes what it can at once, and leaves the rest to the
\* reactor when the buffer of the socket is full or a write is pending.
DoWrite(w) ==
    /\ isWriting' = TRUE
    /\ \/ /\ sockOpen /\ wr = <<>>
          /\ Deliver(w)
          /\ ioq' = Append(ioq, "writeOk")
          /\ UNCHANGED wr
       \/ /\ sockOpen /\ (MayBlock \/ wr # <<>>)
          /\ wr' = Append(wr, w)
          /\ UNCHANGED <<rcvd, got100, ioq>>
       \/ /\ ~sockOpen \/ (peer = "gone" /\ wr = <<>>)
          /\ ioq' = Append(ioq, "writeFail")
          /\ UNCHANGED <<rcvd, got100, wr>>

\* A complete_request() that always starts the next read.
CompleteRequestMutantReads(r, n, t) ==
    /\ needAfter' = FALSE
    /\ IF sockOpen
         THEN /\ DoWrite([n |-> n, answer |-> r.content])
              /\ res' = Cleared
              /\ needRead' = FALSE
              /\ timer' = (t \/ TRUE)
              /\ rd' = (rd \/ TRUE)
              /\ isReading' = (isReading \/ TRUE)
         ELSE /\ res' = [r EXCEPT !.hook = "null"]
              /\ timer' = t
              /\ UNCHANGED <<rcvd, got100, rd, wr, ioq, isReading, isWriting, needRead>>

\* A complete_request() without res.clear().
CompleteRequestMutantKeeps(r, n, t) ==
    /\ needAfter' = FALSE
    /\ IF sockOpen
         THEN /\ DoWrite([n |-> n, answer |-> r.content])
              /\ res' = [r EXCEPT !.hook = "null"]
              /\ needRead' = FALSE
              /\ timer' = (t \/ needRead)
              /\ rd' = (rd \/ needRead)
              /\ isReading' = (isReading \/ needRead)
         ELSE /\ res' = [r EXCEPT !.hook = "null"]
              /\ timer' = t
              /\ UNCHANGED <<rcvd, got100, rd, wr, ioq, isReading, isWriting, needRead>>

\* complete_request() on the response r, when the deadline is t: write it,
\* clear it and resume a suspended read; or nothing, if the socket is closed.
CompleteRequest(r, n, t) ==
    /\ needAfter' = FALSE
    /\ IF sockOpen
         THEN /\ DoWrite([n |-> n, answer |-> r.content])
              /\ res' = Cleared
              /\ needRead' = FALSE
              /\ timer' = (t \/ needRead)
              /\ rd' = (rd \/ needRead)
              /\ isReading' = (isReading \/ needRead)
         ELSE /\ res' = [r EXCEPT !.hook = "null"]
              /\ timer' = t
              /\ UNCHANGED <<rcvd, got100, rd, wr, ioq, isReading, isWriting, needRead>>

\* A read handler that forgets is_reading_ = false.
StopReadingMutantFlag(q) ==
    /\ timer' = FALSE
    /\ CloseSocket(q)
    /\ UNCHANGED isReading
    /\ UNCHANGED alive
    /\ UNCHANGED <<isWriting, closeConn, needAfter, needRead, res, handled>>

\* A read handler that deletes the object without check_destroy().
StopReadingMutantDeletes(q) ==
    /\ timer' = FALSE
    /\ CloseSocket(q)
    /\ isReading' = FALSE
    /\ alive' = FALSE
    /\ UNCHANGED <<isWriting, closeConn, needAfter, needRead, res, handled>>

\* A read handler without check_destroy().
StopReadingMutantKeeps(q) ==
    /\ timer' = FALSE
    /\ CloseSocket(q)
    /\ isReading' = FALSE
    /\ UNCHANGED alive
    /\ UNCHANGED <<isWriting, closeConn, needAfter, needRead, res, handled>>

\* The end of the read handler when reading went wrong or must stop, with the
\* completions q left in the queue: close, and check_destroy().
StopReading(q) ==
    /\ timer' = FALSE
    /\ CloseSocket(q)
    /\ isReading' = FALSE
    /\ alive' = isWriting
    /\ UNCHANGED <<isWriting, closeConn, needAfter, needRead, res, handled>>

-----------------------------------------------------------------------------
(* The worker: completions, parser callbacks, handlers and the deadline.   *)

Idle == alive /\ ~busy

\* The completion of a read that brought bytes: feed() starts.
ReadArrives ==
    /\ Idle /\ ioq # <<>> /\ Head(ioq) = "readOk"
    /\ busy' = TRUE
    /\ ioq' = Tail(ioq)
    /\ UNCHANGED <<clientVars, sockOpen, rd, wr, connVars, buffer, dead, script>>

\* The completion of a read that failed or was aborted.
ReadFails ==
    /\ Idle /\ ioq # <<>> /\ Head(ioq) = "readFail"
    /\ StopReading(Tail(ioq))
    /\ UNCHANGED <<clientVars, feedVars>>

\* A handle_header() that answers 100 Continue to everyone.
HandleHeaderMutant ==
    /\ alive /\ busy /\ script = <<>> /\ buffer # <<>> /\ ~dead
    /\ Head(buffer).part = "head"
    /\ buffer' = Tail(buffer)
    /\ DoWrite(Continue)
    /\ UNCHANGED <<sent, inbound, peer, phase, sockOpen, rd, alive, isReading,
                   timer, closeConn, needAfter, needRead, res, handled, busy,
                   dead, script>>

\* on_headers_complete: handle_header() answers Expect: 100-continue.
HandleHeader ==
    /\ alive /\ busy /\ script = <<>> /\ buffer # <<>> /\ ~dead
    /\ Head(buffer).part = "head"
    /\ buffer' = Tail(buffer)
    /\ IF Head(buffer).req.expect
         THEN DoWrite(Continue)
         ELSE UNCHANGED <<isWriting, rcvd, got100, wr, ioq>>
    /\ UNCHANGED <<sent, inbound, peer, phase, sockOpen, rd, alive, isReading,
                   timer, closeConn, needAfter, needRead, res, handled, busy,
                   dead, script>>

\* on_message_complete: handle().  A response that is already completed is
\* sent as it is and the handler is not called.
HandleMessage ==
    /\ alive /\ busy /\ script = <<>> /\ buffer # <<>> /\ ~dead
    /\ Head(buffer).part = "body"
    /\ LET r == Head(buffer).req IN
         /\ buffer' = Tail(buffer)
         /\ handled' = handled + 1
         /\ closeConn' = (closeConn \/ r.persist = "close")
         /\ dead' = (r.persist # "keep")
         /\ CASE r.kind = "noHost" ->
                    /\ CompleteRequest([completed |-> FALSE, content |-> "bad400",
                                        hook |-> "null"], handled', FALSE)
                    /\ UNCHANGED script
              [] r.kind # "noHost" /\ res.completed ->
                    /\ CompleteRequest(res, handled', FALSE)
                    /\ UNCHANGED script
              [] r.kind # "noHost" /\ ~res.completed ->
                    /\ res' = [res EXCEPT !.hook = "complete"]
                    /\ needAfter' = TRUE
                    /\ timer' = FALSE
                    /\ script' = Script(r.kind)
                    /\ UNCHANGED <<rcvd, got100, rd, wr, ioq, isReading,
                                   isWriting, needRead>>
    /\ UNCHANGED <<sent, inbound, peer, phase, sockOpen, alive, busy>>

\* response::end() on the response r.
EndResponse(r) ==
    IF ~r.completed /\ r.hook = "complete"
      THEN CompleteRequest([r EXCEPT !.completed = TRUE], handled, timer)
      ELSE /\ res' = [r EXCEPT !.completed = TRUE]
           /\ UNCHANGED <<rcvd, got100, rd, wr, ioq, isReading, isWriting,
                          timer, needAfter, needRead>>

\* The next call of the running handler, or of the router that catches its
\* exception and ends `response(500)`.
HandlerStep(call, r) ==
    /\ alive /\ busy /\ script # <<>> /\ Head(script) = call
    /\ script' = Tail(script)
    /\ EndResponse(r)
    /\ UNCHANGED <<sent, inbound, peer, phase, sockOpen, alive, closeConn,
                   handled, busy, buffer, dead>>

HandlerEnds      == HandlerStep("end", [res EXCEPT !.content = "page"])
HandlerEndsAgain == HandlerStep("bareEnd", res)
HandlerThrows    == HandlerStep("throw", [res EXCEPT !.content = "error500",
                                                     !.completed = FALSE])

\* More bytes for a parser that accepts no further message: feed() fails.
ParseFails ==
    /\ alive /\ busy /\ script = <<>> /\ buffer # <<>> /\ dead
    /\ busy' = FALSE /\ buffer' = <<>>
    /\ StopReading(ioq)
    /\ UNCHANGED <<clientVars, dead, script>>

\* A read handler that does not arm the deadline again.
FeedEndsMutant ==
    /\ alive /\ busy /\ script = <<>> /\ buffer = <<>>
    /\ busy' = FALSE
    /\ IF ~sockOpen \/ closeConn
         THEN StopReading(ioq)
         ELSE /\ rd' = ~needAfter
              /\ needRead' = (needRead \/ needAfter)
              /\ UNCHANGED <<sockOpen, wr, ioq, alive, isReading, isWriting,
                             timer, closeConn, needAfter, res, handled>>
    /\ UNCHANGED <<clientVars, buffer, dead, script>>

\* feed() has consumed everything: stop, read on, or leave the next read to
\* complete_request() if the request in progress is not answered yet.
FeedEnds ==
    /\ alive /\ busy /\ script = <<>> /\ buffer = <<>>
    /\ busy' = FALSE
    /\ IF ~sockOpen \/ closeConn
         THEN StopReading(ioq)
         ELSE /\ timer' = (timer \/ ~needAfter)
              /\ rd' = ~needAfter
              /\ needRead' = (needRead \/ needAfter)
              /\ UNCHANGED <<sockOpen, wr, ioq, alive, isReading, isWriting,
                             closeConn, needAfter, res, handled>>
    /\ UNCHANGED <<clientVars, buffer, dead, script>>

\* A write handler that leaves close_connection_ to the read handler.
WriteCompletesMutant ==
    /\ Idle /\ ioq # <<>> /\ Head(ioq) \in WriteEnds
    /\ isWriting' = FALSE
    /\ LET dies == Head(ioq) = "writeFail" /\ ~isReading
       IN /\ alive' = ~dies
          /\ timer' = (timer /\ ~dies)
          /\ IF dies
               THEN CloseSocket(Tail(ioq))
               ELSE ioq' = Tail(ioq) /\ UNCHANGED <<sockOpen, rd, wr>>
    /\ UNCHANGED <<clientVars, isReading, closeConn, needAfter, needRead, res,
                   handled, feedVars>>

\* The completion of a write.
WriteCompletes ==
    /\ Idle /\ ioq # <<>> /\ Head(ioq) \in WriteEnds
    /\ isWriting' = FALSE
    /\ LET ok     == Head(ioq) = "writeOk"
           checks == ok => closeConn          \* check_destroy() is called,
           dies   == checks /\ ~isReading     \* and deletes the object
       IN /\ alive' = ~dies
          /\ timer' = (timer /\ ~dies)
          /\ IF dies \/ (ok /\ closeConn)
               THEN CloseSocket(Tail(ioq))
               ELSE ioq' = Tail(ioq) /\ UNCHANGED <<sockOpen, rd, wr>>
    /\ UNCHANGED <<clientVars, isReading, closeConn, needAfter, needRead, res,
                   handled, feedVars>>

\* A deadline that does not close the socket.
DeadlineMutant ==
    /\ Idle /\ timer
    /\ timer' = FALSE
    /\ UNCHANGED <<clientVars, ioVars, alive, isReading, isWriting, closeConn,
                   needAfter, needRead, res, handled, feedVars>>

\* The timer queue finds the deadline expired and closes the socket.
Deadline ==
    /\ Idle /\ timer
    /\ timer' = FALSE
    /\ IF sockOpen THEN CloseSocket(ioq) ELSE UNCHANGED ioVars
    /\ UNCHANGED <<clientVars, alive, isReading, isWriting, closeConn,
                   needAfter, needRead, res, handled, feedVars>>

-----------------------------------------------------------------------------
Client == SendHead \/ SendBody \/ HalfClose \/ Leave
Kernel == Receive \/ ReceiveEof \/ Flush \/ FlushFails
Worker ==
    \/ ReadArrives \/ ReadFails \/ HandleHeader \/ HandleMessage
    \/ HandlerEnds \/ HandlerEndsAgain \/ HandlerThrows
    \/ ParseFails \/ FeedEnds \/ WriteCompletes

\* Nothing is left to happen on a closed connection.  (What a completion does
\* to a deleted object is undefined and has no action here.)
Over ==
    /\ ~busy /\ ~sockOpen
    /\ alive => ioq = <<>>
    /\ UNCHANGED vars

Next == Client \/ Kernel \/ Worker \/ Deadline \/ Over

Spec == Init /\ [][Next]_vars

\* The worker runs its queue, the reactor reports what is ready to be read,
\* and the tick of the timer queue comes back every second.  Nothing is
\* assumed of the client, not even that it reads what it is sent.
Fairness ==
    /\ WF_vars(Worker) /\ WF_vars(Deadline)
    /\ WF_vars(Receive \/ ReceiveEof)
FairSpec == Spec /\ Fairness
-----------------------------------------------------------------------------
(* Properties.                                                             *)

Responses == [completed : BOOLEAN, content : Answers, hook : {"null", "complete"}]

ClientOK ==
    /\ sent \in Seq(Requests) /\ inbound \in Seq(Tokens) /\ rcvd \in Seq(Replies)
    /\ peer \in {"open", "half", "gone"} /\ phase \in {"idle", "body"}
    /\ phase = "body" => sent # <<>>
    /\ got100 \in BOOLEAN
IoOK ==
    /\ sockOpen \in BOOLEAN /\ rd \in BOOLEAN
    /\ wr \in Seq(Replies) /\ ioq \in Seq(Completions)
ConnOK ==
    /\ alive \in BOOLEAN /\ isReading \in BOOLEAN /\ isWriting \in BOOLEAN
    /\ timer \in BOOLEAN /\ closeConn \in BOOLEAN
    /\ needAfter \in BOOLEAN /\ needRead \in BOOLEAN
    /\ res \in Responses /\ handled \in Nat
FeedOK ==
    /\ busy \in BOOLEAN /\ buffer \in Seq(Tokens) /\ dead \in BOOLEAN
    /\ script \in Seq({"end", "bareEnd", "throw"})

\* Every variable has its type.
TypeOK == ClientOK /\ IoOK /\ ConnOK /\ FeedOK

Queued(kinds) == {i \in 1 .. Len(ioq) : ioq[i] \in kinds}

\* is_reading (http_connection.h:435, 454) is a flag that do_read and the read
\* handler set by hand.  While the object exists it says exactly that a read is
\* with the reactor, queued, or being parsed.
ReadFlagExact ==
    alive => isReading = (rd \/ busy \/ Queued(ReadEnds) # {})

\* And there is never more than one: buffer_ belongs to one read at a time.
OneRead ==
    /\ \A i, j \in Queued(ReadEnds) : i = j
    /\ (rd \/ busy) => Queued(ReadEnds) = {}
    /\ ~(rd /\ busy)
    /\ rd => buffer = <<>>

\* is_writing (474, 478) is one flag for any number of writes.  It is enough for
\* a client that does not pipeline: a write is outstanding exactly when it is
\* set, and never two, because the completion of a write was queued before the
\* bytes of the next request could arrive.
WriteFlagExact ==
    ~Pipelining =>
        /\ alive => isWriting = (wr # <<>> \/ Queued(WriteEnds) # {})
        /\ \A i, j \in Queued(WriteEnds) : i = j
        /\ wr # <<>> => Len(wr) = 1 /\ Queued(WriteEnds) = {}

\* check_destroy() (496) deletes the object under the `this` of two completion
\* handlers and of a timer callback: none of them is left to run.
DeletedIsQuiet == ~alive => ~rd /\ wr = <<>> /\ ioq = <<>> /\ ~timer /\ ~busy
\* This holds if the client does not pipeline.
DeletedIsQuietUnpipelined == ~Pipelining => DeletedIsQuiet

\* Every path that cancels the deadline (242, 451, 514) arms it again or
\* closes the socket: an open connection waiting for its client has a deadline.
OpenHasDeadline == (Idle /\ sockOpen) => timer

\* need_to_start_read_after_complete_ (466) is for handlers that answer later.
\* No route of main.cpp does: on every path, exceptions included, a request is
\* completed before feed() returns, and reading is never suspended.
NeverParked == ~needRead /\ (busy /\ script = <<>> => ~needAfter)

\* The object is deleted at the latest by the handler that leaves it with
\* nothing outstanding ("delete (idle)", 501).
IdleIsDeleted == Idle => isReading \/ isWriting
\* Where this holds: when every response fits the buffer of the socket.
IdleIsDeletedIfUnblocked == (~MayBlock /\ ~Pipelining) => IdleIsDeleted

\* S is the set of the requests answered without their handler: the handler
\* before ended its response twice, which left the cleared response completed
\* (290), and was not skipped itself.  There is exactly one such set.
Skips(S) ==
    \A i \in 1 .. Len(sent) :
        i \in S <=> /\ i > 1
                    /\ sent[i - 1].kind \in {"twice", "endThrow"}
                    /\ i - 1 \notin S
                    /\ sent[i].kind # "noHost"
Leftover(kind) == IF kind = "twice" THEN "blank" ELSE "error500"
Expected(i, S) == IF i \in S THEN Leftover(sent[i - 1].kind) ELSE Answer(sent[i].kind)

\* Replies arrive in the order of the requests, one for each, and reply i is
\* what the handler of request i produced, except just after a handler that
\* ended its response twice: then it is the blank page or the 500 that handler
\* left behind, and the request after that is served normally again.
RepliesExplained ==
    \E S \in SUBSET (1 .. Len(sent)) :
        /\ Skips(S)
        /\ \A i \in DOMAIN rcvd :
             i <= Len(sent) /\ rcvd[i].n = i /\ rcvd[i].answer = Expected(i, S)

\* "any uncaught exceptions become 500s" (routing.h:862): the 500 that an exception
\* becomes is the answer to the request whose handler has thrown it, and no other's.
Threw(i) ==
    /\ i <= handled /\ sent[i].kind \in {"throws", "endThrow"}
    /\ i = handled => script = <<>>
ExceptionsBecome500 ==
    \A i \in DOMAIN rcvd : rcvd[i].answer = "error500" => Threw(rcvd[i].n)

\* The buffers of a write point into the response object (378-418), which the
\* next request fills again: no request is handled while a write of an earlier
\* reply is with the reactor, if the client does not pipeline.
NoHandlerWhileWriting ==
    [][(~Pipelining /\ handled' # handled) => wr = <<>>]_vars

\* Whatever the client does, and if it does nothing, its socket is closed.
SocketCloses == <>~sockOpen

\* If no write can block, the object is deleted too, whatever the client does.
ConnectionDeleted == <>~alive
=============================================================================
