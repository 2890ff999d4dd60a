-------------------- MODULE HttpConnectionWrites_proofs ---------------------
(***************************************************************************)
(* The part of the connection's invariant that holds for a client that     *)
(* waits for its reply before it asks again: one write at a time, the      *)
(* exact is_writing flag, nothing left to run on a deleted object, no      *)
(* request handled during a write, and, when no write can block, no idle   *)
(* object left behind.                                                     *)
(***************************************************************************)
EXTENDS HttpConnection_proofs

\* The completions of writes in a queue: where they are, that there are none,
\* that there is at most one, and that none of them succeeded.
WritesIn(q)   == {i \in 1 .. Len(q) : q[i] \in WriteEnds}
NoWriteIn(q)  == WritesIn(q) = {}
OneWriteIn(q) == \A i, j \in WritesIn(q) : i = j
NoOkIn(q)     == \A i \in 1 .. Len(q) : q[i] # "writeOk"

\* Every write completes before the read that brought bytes, before any read.
BytesLast(q) == \A i \in 1 .. Len(q) : q[i] = "readOk" => \A j \in WritesIn(q) : j < i
ReadsLast(q) == \A i \in ReadsIn(q), j \in WritesIn(q) : j < i

\* The books of the connection on its writes.
WriteInv ==
    /\ alive => (isWriting <=> (wr # <<>> \/ ~NoWriteIn(ioq)))
    /\ OneWriteIn(ioq)
    /\ wr # <<>> => Len(wr) = 1 /\ NoWriteIn(ioq)
    /\ ~alive => wr = <<>> /\ NoWriteIn(ioq)
    /\ BytesIn(ioq) => buffer # <<>>
    /\ BytesLast(ioq)
    /\ busy /\ (buffer # <<>> \/ needAfter) => NoWriteIn(ioq)

HasBody(s)   == \E i \in 1 .. Len(s) : s[i].part = "body"
HasExpect(s) == \E i \in 1 .. Len(s) : s[i].part = "head" /\ s[i].req.expect

\* The tokens s are of the request r, the body last, and a header that must be
\* answered with 100 Continue comes alone.
OneRequest(s, r) ==
    /\ \A i \in 1 .. Len(s) : s[i].req = r
    /\ \A i \in 1 .. Len(s) : s[i].part = "body" => i = Len(s)
    /\ HasExpect(s) => Len(s) = 1

LastSent == sent[Len(sent)]

\* How the client and the connection take turns.
TalkInv ==
    /\ OneRequest(buffer, LastSent) /\ OneRequest(inbound, LastSent)
    /\ HasBody(buffer) \/ HasBody(inbound) => phase = "idle" /\ handled < Len(sent)
    /\ HasExpect(buffer) \/ HasExpect(inbound) => phase = "body" /\ ~got100
    /\ HasBody(buffer) \/ HasExpect(buffer) => inbound = <<>>
    /\ buffer # <<>> \/ inbound # <<>> =>
          /\ phase = "body" \/ HasBody(buffer) \/ HasBody(inbound)
          /\ wr = <<>> /\ ~needAfter
    /\ phase = "body" => handled < Len(sent)
    /\ handled <= Len(sent) /\ Len(rcvd) <= handled
    /\ needAfter => phase = "idle" /\ Len(rcvd) < handled /\ wr = <<>>
    /\ wr # <<>> /\ Head(wr).n = 0 => phase = "body" /\ LastSent.expect /\ ~got100
    /\ wr # <<>> /\ Head(wr).n # 0 => phase = "idle" /\ Len(rcvd) < handled

\* When no write can block: a write is over before the next read is, so an
\* object that has stopped reading deletes itself with the write it waits for.
IdleInv ==
    /\ wr = <<>>
    /\ ReadsLast(ioq)
    /\ alive /\ ~isReading => isWriting
    /\ alive /\ (~isReading \/ (busy /\ ~sockOpen)) /\ ~closeConn => NoOkIn(ioq)

-----------------------------------------------------------------------------
(* Queues of completions.                                                  *)

LEMMA KindsApart ==
    /\ "readOk" \in ReadEnds /\ "readFail" \in ReadEnds
    /\ "writeOk" \in WriteEnds /\ "writeFail" \in WriteEnds
    /\ "readOk" \notin WriteEnds /\ "readFail" \notin WriteEnds
    /\ \A e \in WriteEnds : e \notin ReadEnds
    /\ \A e \in ReadEnds : e \notin WriteEnds /\ e # "writeOk"
    /\ \A e \in WriteEnds : e # "readOk"
BY DEF ReadEnds, WriteEnds

LEMMA AppendWrite ==
    ASSUME NEW q \in Seq(Completions), NEW e \in WriteEnds
    PROVE  /\ ~NoWriteIn(Append(q, e))
           /\ NoWriteIn(q) => OneWriteIn(Append(q, e))
           /\ BytesIn(Append(q, e)) => BytesIn(q)
           /\ ~BytesIn(q) => BytesLast(Append(q, e))
           /\ NoReadIn(q) => ReadsLast(Append(q, e))
           /\ NoOkIn(q) /\ e = "writeFail" => NoOkIn(Append(q, e))
<1> DEFINE s == Append(q, e)
<1>1. /\ Len(q) \in Nat /\ Len(s) = Len(q) + 1 /\ s[Len(q) + 1] = e
      /\ \A i \in 1 .. Len(q) : s[i] = q[i]
  OBVIOUS
<1> HIDE DEF s
<1>2. WritesIn(s) = WritesIn(q) \cup {Len(q) + 1}
  BY <1>1 DEF WritesIn
<1>3. ~NoWriteIn(s) /\ (NoWriteIn(q) => OneWriteIn(s))
  BY <1>2 DEF NoWriteIn, OneWriteIn
<1>4. BytesIn(s) => BytesIn(q)
  BY <1>1, KindsApart DEF BytesIn
<1>5. ~BytesIn(q) => BytesLast(s)
  BY <1>4 DEF BytesIn, BytesLast
<1>6. NoReadIn(q) => ReadsIn(s) = {}
  BY <1>1, KindsApart DEF ReadsIn, NoReadIn
<1>7. NoReadIn(q) => ReadsLast(s)
  BY <1>6 DEF ReadsLast
<1>8. NoOkIn(q) /\ e = "writeFail" => NoOkIn(s)
  BY <1>1 DEF NoOkIn
<1> QED
  BY <1>3, <1>4, <1>5, <1>7, <1>8 DEF s

LEMMA AppendRead ==
    ASSUME NEW q \in Seq(Completions), NEW e \in ReadEnds
    PROVE  /\ NoWriteIn(Append(q, e)) <=> NoWriteIn(q)
           /\ OneWriteIn(q) => OneWriteIn(Append(q, e))
           /\ BytesIn(Append(q, e)) => BytesIn(q) \/ e = "readOk"
           /\ BytesLast(q) => BytesLast(Append(q, e))
           /\ ReadsLast(q) => ReadsLast(Append(q, e))
           /\ NoOkIn(q) => NoOkIn(Append(q, e))
<1> DEFINE s == Append(q, e)
<1>1. /\ Len(q) \in Nat /\ Len(s) = Len(q) + 1 /\ s[Len(q) + 1] = e
      /\ \A i \in 1 .. Len(q) : s[i] = q[i]
  OBVIOUS
<1> HIDE DEF s
<1>2. WritesIn(s) = WritesIn(q)
  BY <1>1, KindsApart DEF WritesIn
<1>3. (NoWriteIn(s) <=> NoWriteIn(q)) /\ (OneWriteIn(q) => OneWriteIn(s))
  BY <1>2, Zenon DEF NoWriteIn, OneWriteIn
<1>4. BytesIn(s) => BytesIn(q) \/ e = "readOk"
  BY <1>1 DEF BytesIn
<1>5. \A j \in WritesIn(q) : j \in Nat /\ j < Len(q) + 1
  BY <1>1 DEF WritesIn
<1>6. BytesLast(q) => BytesLast(s)
  BY <1>1, <1>2, <1>5 DEF BytesLast
<1>7. ReadsIn(s) = ReadsIn(q) \cup {Len(q) + 1}
  BY <1>1 DEF ReadsIn
<1>8. ReadsLast(q) => ReadsLast(s)
  BY <1>2, <1>5, <1>7 DEF ReadsLast
<1>9. NoOkIn(q) => NoOkIn(s)
  BY <1>1, KindsApart DEF NoOkIn
<1> QED
  BY <1>3, <1>4, <1>6, <1>8, <1>9 DEF s

LEMMA TailOfQueue ==
    ASSUME NEW q \in Seq(Completions), q # <<>>
    PROVE  /\ NoWriteIn(q) => NoWriteIn(Tail(q))
           /\ OneWriteIn(q) => OneWriteIn(Tail(q))
           /\ BytesIn(Tail(q)) => BytesIn(q)
           /\ BytesLast(q) => BytesLast(Tail(q))
           /\ ReadsLast(q) => ReadsLast(Tail(q))
           /\ NoOkIn(q) => NoOkIn(Tail(q)) /\ Head(q) # "writeOk"
           /\ Head(q) \in WriteEnds => ~NoWriteIn(q)
           /\ Head(q) \in WriteEnds /\ OneWriteIn(q) => NoWriteIn(Tail(q))
           /\ Head(q) \in ReadEnds /\ NoWriteIn(Tail(q)) => NoWriteIn(q)
           /\ Head(q) = "readOk" /\ BytesLast(q) => NoWriteIn(q)
           /\ Head(q) \in ReadEnds /\ ReadsLast(q) => NoWriteIn(q)
<1>1. /\ Len(Tail(q)) = Len(q) - 1 /\ Len(q) \in Nat \ {0} /\ Head(q) = q[1]
      /\ \A i \in 1 .. Len(q) - 1 : Tail(q)[i] = q[i + 1]
  OBVIOUS
<1> DEFINE s == Tail(q)
<1> HIDE DEF s
<1>2. /\ Len(s) = Len(q) - 1 /\ \A i \in 1 .. Len(s) : s[i] = q[i + 1] /\ i + 1 \in 1 .. Len(q)
  BY <1>1 DEF s
<1>3. \A i \in WritesIn(s) : i \in Nat \ {0} /\ i + 1 \in WritesIn(q)
  BY <1>2 DEF WritesIn
<1>4. \A i \in ReadsIn(s) : i \in Nat \ {0} /\ i + 1 \in ReadsIn(q)
  BY <1>2 DEF ReadsIn
<1>5. \A i \in WritesIn(q) : i \in Nat \ {0} /\ (i = 1 \/ i - 1 \in WritesIn(s))
  BY <1>1, <1>2 DEF WritesIn
<1>6. /\ Head(q) \in WriteEnds => 1 \in WritesIn(q)
      /\ Head(q) \in ReadEnds => 1 \notin WritesIn(q) /\ 1 \in ReadsIn(q)
  BY <1>1, KindsApart DEF WritesIn, ReadsIn
<1>7. NoWriteIn(q) => NoWriteIn(s)
  BY <1>3 DEF NoWriteIn
<1>8. OneWriteIn(q) => OneWriteIn(s)
  BY <1>3 DEF OneWriteIn
<1>9. BytesIn(s) => BytesIn(q)
  BY <1>2 DEF BytesIn
<1>10. BytesLast(q) => BytesLast(s)
  <2> SUFFICES ASSUME BytesLast(q), NEW i \in 1 .. Len(s), s[i] = "readOk", NEW j \in WritesIn(s)
               PROVE  j < i
    BY DEF BytesLast
  <2>1. j + 1 < i + 1
    BY <1>2, <1>3 DEF BytesLast
  <2> QED
    BY <1>3, <2>1
<1>11. ReadsLast(q) => ReadsLast(s)
  BY <1>3, <1>4 DEF ReadsLast
<1>12. NoOkIn(q) => NoOkIn(s) /\ Head(q) # "writeOk"
  BY <1>1, <1>2 DEF NoOkIn
<1>13. Head(q) \in WriteEnds => ~NoWriteIn(q)
  BY <1>6 DEF NoWriteIn
<1>14. Head(q) \in WriteEnds /\ OneWriteIn(q) => NoWriteIn(s)
  BY <1>3, <1>6 DEF NoWriteIn, OneWriteIn
<1>15. Head(q) \in ReadEnds /\ NoWriteIn(s) => NoWriteIn(q)
  BY <1>5, <1>6 DEF NoWriteIn
<1>16. Head(q) = "readOk" /\ BytesLast(q) => NoWriteIn(q)
  <2> SUFFICES ASSUME Head(q) = "readOk", BytesLast(q), NEW j \in WritesIn(q)
               PROVE  FALSE
    BY DEF NoWriteIn
  <2>1. j < 1
    BY <1>1 DEF BytesLast
  <2> QED
    BY <1>5, <2>1
<1>17. Head(q) \in ReadEnds /\ ReadsLast(q) => NoWriteIn(q)
  BY <1>5, <1>6 DEF ReadsLast, NoWriteIn
<1> QED
  BY <1>7, <1>8, <1>9, <1>10, <1>11, <1>12, <1>13, <1>14, <1>15, <1>16, <1>17 DEF s
-----------------------------------------------------------------------------
(* What the shared parts of the handlers do to the writes.                 *)

\* socket_.close() ends the one write that may be pending.
LEMMA CloseSocketWrites ==
    ASSUME IoOK, NEW q \in Seq(Completions), CloseSocket(q), OneWriteIn(q), BytesLast(q),
           wr # <<>> => Len(wr) = 1 /\ NoWriteIn(q) /\ ~BytesIn(q)
    PROVE  /\ OneWriteIn(ioq') /\ BytesLast(ioq')
           /\ NoWriteIn(ioq') <=> (NoWriteIn(q) /\ wr = <<>>)
           /\ BytesIn(ioq') => BytesIn(q)
           /\ wr' = <<>> /\ ~sockOpen'
           /\ wr = <<>> /\ ReadsLast(q) => ReadsLast(ioq')
           /\ wr = <<>> /\ NoOkIn(q) => NoOkIn(ioq')
<1> DEFINE f == [i \in 1 .. Len(wr) |-> "writeFail"]
           p == IF rd THEN Append(q, "readFail") ELSE q
<1>1. p \in Seq(Completions) /\ ioq' = p \o f
  BY CompletionKinds DEF CloseSocket
<1>2. /\ NoWriteIn(p) <=> NoWriteIn(q)
      /\ OneWriteIn(p) /\ BytesLast(p) /\ (BytesIn(p) => BytesIn(q))
      /\ ReadsLast(q) => ReadsLast(p)
      /\ NoOkIn(q) => NoOkIn(p)
  BY AppendRead, KindsApart
<1>3. wr' = <<>> /\ ~sockOpen'
  BY Zenon DEF CloseSocket
<1> HIDE DEF p
<1>4. CASE wr = <<>>
  <2>1. ioq' = p
    BY <1>1, <1>4
  <2> QED
    BY <1>2, <1>3, <1>4, <2>1
<1>5. CASE wr # <<>>
  <2>1. ioq' = Append(p, "writeFail")
    <3>1. Len(wr) = 1
      BY <1>5
    <3>2. f = <<"writeFail">>
      BY <3>1
    <3> QED
      BY <1>1, <3>2
  <2>2. NoWriteIn(p) /\ ~BytesIn(p)
    BY <1>2, <1>5
  <2>3. /\ ~NoWriteIn(ioq') /\ OneWriteIn(ioq') /\ BytesLast(ioq')
        /\ BytesIn(ioq') => BytesIn(p)
    <3>1. p \in Seq(Completions) /\ "writeFail" \in WriteEnds
      BY <1>1, KindsApart
    <3> QED
      BY <2>1, <2>2, <3>1, AppendWrite
  <2> QED
    BY <1>2, <1>3, <1>5, <2>3
<1> QED
  BY <1>4, <1>5

\* A write that starts when there is none becomes the only one.
LEMMA DoWriteWrites ==
    ASSUME TypeOK, NEW w \in Replies, DoWrite(w), wr = <<>>, NoWriteIn(ioq), NoReadIn(ioq)
    PROVE  /\ isWriting' /\ (wr' # <<>> \/ ~NoWriteIn(ioq'))
           /\ OneWriteIn(ioq') /\ BytesLast(ioq') /\ ReadsLast(ioq') /\ ~BytesIn(ioq')
           /\ wr' # <<>> => /\ wr' = <<w>> /\ NoWriteIn(ioq')
                            /\ rcvd' = rcvd /\ got100' = got100
           /\ rcvd' = rcvd \/ (w.n > 0 /\ rcvd' = Append(rcvd, w))
           /\ w.n > 0 => (got100' <=> got100)
           /\ ~MayBlock => wr' = <<>>
           /\ ~sockOpen /\ NoOkIn(ioq) => NoOkIn(ioq')
<1>0. ioq \in Seq(Completions) /\ w.n \in Nat
  BY DEF TypeOK, IoOK, Replies
<1>1. ~BytesIn(ioq)
  BY KindsApart DEF NoReadIn, ReadsIn, BytesIn
<1>2. OneWriteIn(ioq) /\ BytesLast(ioq) /\ ReadsLast(ioq)
  BY <1>1 DEF NoWriteIn, NoReadIn, OneWriteIn, BytesIn, BytesLast, ReadsLast
<1>3. isWriting'
  BY Zenon DEF DoWrite
<1>4. CASE sockOpen /\ Deliver(w) /\ ioq' = Append(ioq, "writeOk") /\ UNCHANGED wr
  <2>1. rcvd' = rcvd \/ (w.n > 0 /\ rcvd' = Append(rcvd, w))
    BY <1>4, Zenon DEF Deliver
  <2>2. w.n > 0 => (got100' <=> got100)
    <3>1. w.n > 0 => w.n # 0
      BY <1>0
    <3> QED
      BY <1>4, <3>1, Zenon DEF Deliver
  <2>3. ~NoWriteIn(ioq') /\ OneWriteIn(ioq') /\ BytesLast(ioq') /\ ReadsLast(ioq') /\ ~BytesIn(ioq')
    BY <1>0, <1>1, <1>4, AppendWrite, KindsApart
  <2> QED
    BY <1>3, <1>4, <2>1, <2>2, <2>3
<1>5. CASE /\ sockOpen /\ MayBlock /\ wr' = Append(wr, w)
           /\ UNCHANGED <<rcvd, got100, ioq>>
  BY <1>1, <1>2, <1>3, <1>5
<1>6. CASE ioq' = Append(ioq, "writeFail") /\ UNCHANGED <<rcvd, got100, wr>>
  <2>1. /\ ~NoWriteIn(ioq') /\ OneWriteIn(ioq') /\ BytesLast(ioq') /\ ReadsLast(ioq')
        /\ ~BytesIn(ioq') /\ (NoOkIn(ioq) => NoOkIn(ioq'))
    BY <1>0, <1>1, <1>6, AppendWrite, KindsApart
  <2> QED
    BY <1>3, <1>6, <2>1
<1> QED
  BY <1>4, <1>5, <1>6, Zenon DEF DoWrite

\* So does the write of a reply, if the socket is still open to be written to.
LEMMA CompleteRequestWrites ==
    ASSUME TypeOK, NEW r \in Responses, NEW n \in Nat \ {0}, NEW t, CompleteRequest(r, n, t),
           wr = <<>>, NoWriteIn(ioq), NoReadIn(ioq), ~isWriting
    PROVE  /\ isWriting' <=> (wr' # <<>> \/ ~NoWriteIn(ioq'))
           /\ OneWriteIn(ioq') /\ BytesLast(ioq') /\ ReadsLast(ioq') /\ ~BytesIn(ioq')
           /\ wr' # <<>> => /\ Len(wr') = 1 /\ Head(wr').n # 0 /\ NoWriteIn(ioq')
                            /\ rcvd' = rcvd
           /\ Len(rcvd') \in Nat /\ Len(rcvd') <= Len(rcvd) + 1
           /\ got100' <=> got100
           /\ ~MayBlock => wr' = <<>>
           /\ ~sockOpen /\ NoOkIn(ioq) => NoOkIn(ioq')
           /\ ~needAfter'
<1>0. rcvd \in Seq(Replies)
  BY DEF TypeOK, ClientOK
<1>1. ~needAfter'
  BY Zenon DEF CompleteRequest
<1>2. CASE sockOpen
  <2> DEFINE w == [n |-> n, answer |-> r.content]
  <2>1. w \in Replies /\ w.n = n /\ w.n > 0
    BY DEF Replies, Responses
  <2>2. DoWrite(w)
    BY <1>2, Zenon DEF CompleteRequest
  <2> HIDE DEF w
  <2>3. /\ isWriting' /\ (wr' # <<>> \/ ~NoWriteIn(ioq'))
        /\ OneWriteIn(ioq') /\ BytesLast(ioq') /\ ReadsLast(ioq') /\ ~BytesIn(ioq')
        /\ wr' # <<>> => wr' = <<w>> /\ NoWriteIn(ioq') /\ rcvd' = rcvd
        /\ rcvd' = rcvd \/ rcvd' = Append(rcvd, w)
        /\ got100' <=> got100
        /\ ~MayBlock => wr' = <<>>
    BY <2>1, <2>2, DoWriteWrites
  <2>4. wr' # <<>> => Len(wr') = 1 /\ Head(wr').n # 0
    BY <2>1, <2>3
  <2>5. Len(rcvd') \in Nat /\ Len(rcvd') <= Len(rcvd) + 1
    BY <1>0, <2>1, <2>3
  <2> QED
    BY <1>1, <1>2, <2>3, <2>4, <2>5
<1>3. CASE ~sockOpen
  <2>1. UNCHANGED <<rcvd, got100, wr, ioq, isWriting>>
    BY <1>3, Zenon DEF CompleteRequest
  <2>2. ~BytesIn(ioq)
    BY KindsApart DEF NoReadIn, ReadsIn, BytesIn
  <2>3. OneWriteIn(ioq) /\ BytesLast(ioq) /\ ReadsLast(ioq)
    BY <2>2 DEF NoWriteIn, NoReadIn, OneWriteIn, BytesIn, BytesLast, ReadsLast
  <2>4. Len(rcvd) \in Nat /\ Len(rcvd) <= Len(rcvd) + 1
    BY <1>0
  <2> QED
    BY <1>1, <2>1, <2>2, <2>3, <2>4
<1> QED
  BY <1>2, <1>3

-----------------------------------------------------------------------------
(* Tokens of one request.                                                  *)

LEMMA NoTokens ==
    ASSUME NEW r
    PROVE  OneRequest(<<>>, r) /\ ~HasBody(<<>>) /\ ~HasExpect(<<>>)
BY DEF OneRequest, HasBody, HasExpect

LEMMA HeaderAlone ==
    ASSUME NEW r \in Requests
    PROVE  LET s == Append(<<>>, [part |-> "head", req |-> r]) IN
           OneRequest(s, r) /\ ~HasBody(s) /\ (HasExpect(s) <=> r.expect) /\ s # <<>>
BY DEF OneRequest, HasBody, HasExpect

LEMMA BodyAppended ==
    ASSUME NEW s \in Seq(Tokens), NEW r, OneRequest(s, r), ~HasBody(s), ~HasExpect(s)
    PROVE  LET u == Append(s, [part |-> "body", req |-> r]) IN
           OneRequest(u, r) /\ HasBody(u) /\ ~HasExpect(u) /\ u # <<>>
<1> DEFINE e == [part |-> "body", req |-> r]
           u == Append(s, e)
<1>1. /\ Len(s) \in Nat /\ Len(u) = Len(s) + 1 /\ u[Len(s) + 1] = e
      /\ \A i \in 1 .. Len(s) : u[i] = s[i]
  OBVIOUS
<1>2. e.part = "body" /\ e.req = r
  OBVIOUS
<1> HIDE DEF u, e
<1>3. HasBody(u) /\ ~HasExpect(u)
  BY <1>1, <1>2 DEF HasBody, HasExpect
<1>4. OneRequest(u, r)
  BY <1>1, <1>2, <1>3 DEF OneRequest, HasBody
<1>5. u # <<>>
  BY <1>1
<1> QED
  BY <1>3, <1>4, <1>5 DEF u, e

LEMMA TokensCut ==
    ASSUME NEW s \in Seq(Tokens), NEW k \in 1 .. Len(s), NEW r, OneRequest(s, r)
    PROVE  LET a == SubSeq(s, 1, k)
               b == SubSeq(s, k + 1, Len(s))
           IN /\ OneRequest(a, r) /\ OneRequest(b, r) /\ a # <<>>
              /\ HasBody(s) <=> (HasBody(a) \/ HasBody(b))
              /\ HasExpect(a) \/ HasExpect(b) => HasExpect(s)
              /\ HasBody(a) \/ HasExpect(a) => b = <<>>
<1> DEFINE a == SubSeq(s, 1, k)
           b == SubSeq(s, k + 1, Len(s))
<1>1. /\ k \in Nat /\ k >= 1 /\ Len(s) \in Nat /\ k <= Len(s)
      /\ Len(a) = k /\ Len(b) = Len(s) - k
      /\ a \in Seq(Tokens) /\ b \in Seq(Tokens)
  OBVIOUS
<1>a. \A i \in 1 .. Len(a) : i \in 1 .. Len(s) /\ a[i] = s[i]
  OBVIOUS
<1>b. \A i \in 1 .. Len(b) : k + i \in 1 .. Len(s) /\ b[i] = s[k + i]
  OBVIOUS
<1>c. \A i \in 1 .. Len(s) : IF i <= k THEN i \in 1 .. Len(a)
                                       ELSE i - k \in 1 .. Len(b) /\ b[i - k] = s[i]
  OBVIOUS
<1> HIDE DEF a, b
<1>2. HasBody(s) <=> (HasBody(a) \/ HasBody(b))
  <2>1. HasBody(a) \/ HasBody(b) => HasBody(s)
    BY <1>a, <1>b DEF HasBody
  <2>2. ASSUME NEW i \in 1 .. Len(s), s[i].part = "body" PROVE HasBody(a) \/ HasBody(b)
    <3>1. CASE i <= k
      BY <1>a, <1>c, <2>2, <3>1 DEF HasBody
    <3>2. CASE ~(i <= k)
      BY <1>c, <2>2, <3>2 DEF HasBody
    <3> QED
      BY <3>1, <3>2
  <2> QED
    BY <2>1, <2>2 DEF HasBody
<1>3. HasExpect(a) \/ HasExpect(b) => HasExpect(s)
  BY <1>a, <1>b DEF HasExpect
<1>4. HasExpect(s) => Len(a) = 1 /\ Len(b) = 0
  <2>1. HasExpect(s) => Len(s) = 1
    BY DEF OneRequest
  <2> QED
    BY <1>1, <2>1
<1>5. HasBody(a) \/ HasExpect(a) => b = <<>>
  <2>1. ASSUME NEW i \in 1 .. Len(a), a[i].part = "body" PROVE Len(b) = 0
    <3>1. i = Len(s)
      BY <1>a, <2>1 DEF OneRequest
    <3> QED
      BY <1>1, <3>1
  <2>2. HasExpect(a) => Len(b) = 0
    BY <1>3, <1>4
  <2>3. Len(b) = 0 => b = <<>>
    BY <1>1
  <2> QED
    BY <2>1, <2>2, <2>3 DEF HasBody
<1>6. OneRequest(a, r)
  <2>1. \A i \in 1 .. Len(a) : a[i].req = r /\ (a[i].part = "body" => i = Len(a))
    BY <1>1, <1>a DEF OneRequest
  <2> QED
    BY <1>3, <1>4, <2>1 DEF OneRequest
<1>7. OneRequest(b, r)
  <2>1. \A i \in 1 .. Len(b) : b[i].req = r
    BY <1>b DEF OneRequest
  <2>2. ASSUME NEW i \in 1 .. Len(b), b[i].part = "body" PROVE i = Len(b)
    <3>1. k + i = Len(s)
      BY <1>b, <2>2 DEF OneRequest
    <3> QED
      BY <1>1, <3>1
  <2>3. ~HasExpect(b)
    BY <1>3, <1>4 DEF HasExpect
  <2> QED
    BY <2>1, <2>2, <2>3 DEF OneRequest
<1>8. a # <<>>
  BY <1>1
<1> QED
  BY <1>2, <1>3, <1>5, <1>6, <1>7, <1>8 DEF a, b

LEMMA TokensTail ==
    ASSUME NEW s \in Seq(Tokens), s # <<>>, NEW r, OneRequest(s, r)
    PROVE  /\ OneRequest(Tail(s), r) /\ Head(s).req = r
           /\ HasBody(Tail(s)) => HasBody(s)
           /\ HasExpect(Tail(s)) => HasExpect(s)
           /\ HasExpect(s) => Tail(s) = <<>>
           /\ Head(s).part = "body" => HasBody(s) /\ Tail(s) = <<>>
           /\ Head(s).part = "head" => (HasBody(s) => HasBody(Tail(s)))
           /\ Head(s).part = "head" /\ Head(s).req.expect => HasExpect(s)
<1> DEFINE b == Tail(s)
<1>1. /\ Len(s) \in Nat \ {0} /\ Len(b) = Len(s) - 1 /\ Head(s) = s[1]
      /\ \A i \in 1 .. Len(s) - 1 : b[i] = s[i + 1]
      /\ b \in Seq(Tokens)
  OBVIOUS
<1> HIDE DEF b
<1>2. HasBody(b) => HasBody(s)
  BY <1>1 DEF HasBody
<1>3. HasExpect(b) => HasExpect(s)
  BY <1>1 DEF HasExpect
<1>4. Len(b) = 0 => b = <<>>
  BY <1>1
<1>5. HasExpect(s) => b = <<>>
  BY <1>1, <1>4 DEF OneRequest
<1>6. Head(s).part = "body" => HasBody(s) /\ b = <<>>
  BY <1>1, <1>4 DEF OneRequest, HasBody
<1>7. Head(s).part = "head" /\ HasBody(s) => HasBody(b)
  <2> SUFFICES ASSUME Head(s).part = "head", NEW i \in 1 .. Len(s), s[i].part = "body"
               PROVE  HasBody(b)
    BY DEF HasBody
  <2>1. i - 1 \in 1 .. Len(s) - 1 /\ b[i - 1] = s[i]
    BY <1>1
  <2> QED
    BY <1>1, <2>1 DEF HasBody
<1>8. Head(s).part = "head" /\ Head(s).req.expect => HasExpect(s)
  BY <1>1 DEF HasExpect
<1>9. Head(s).req = r
  BY <1>1 DEF OneRequest
<1>10. OneRequest(b, r)
  <2>1. \A i \in 1 .. Len(b) : b[i].req = r /\ (b[i].part = "body" => i = Len(b))
    BY <1>1 DEF OneRequest
  <2>2. ~HasExpect(b)
    BY <1>3, <1>5, NoTokens
  <2> QED
    BY <2>1, <2>2 DEF OneRequest
<1> QED
  BY <1>2, <1>3, <1>5, <1>6, <1>7, <1>8, <1>9, <1>10 DEF b
-----------------------------------------------------------------------------
(* How the client and the connection take turns.                           *)

LEMMA TalkInit == Init => TalkInv
<1> SUFFICES ASSUME Init PROVE TalkInv
  OBVIOUS
<1>1. /\ sent = <<>> /\ inbound = <<>> /\ rcvd = <<>> /\ buffer = <<>> /\ wr = <<>>
      /\ phase = "idle" /\ handled = 0 /\ needAfter = FALSE
  BY DEF Init
<1>2. Len(sent) = 0 /\ Len(rcvd) = 0 /\ phase # "body"
  BY <1>1
<1>3. ~needAfter
  BY <1>1, Zenon
<1> QED
  BY <1>1, <1>2, <1>3, NoTokens DEF TalkInv

\* A step that at most empties the buffer and the pending writes.
LEMMA TalkQuiet ==
    ASSUME TalkInv, UNCHANGED <<sent, inbound, phase, rcvd, got100, handled, needAfter>>,
           wr' = wr \/ wr' = <<>>, buffer' = buffer \/ buffer' = <<>>
    PROVE  TalkInv'
<1>1. CASE buffer' = buffer
  BY <1>1 DEF TalkInv, LastSent
<1>2. CASE buffer' = <<>>
  BY <1>2, NoTokens DEF TalkInv, LastSent
<1> QED
  BY <1>1, <1>2

LEMMA TalkStep ==
    ASSUME ~Pipelining, TypeOK, ReadInv, WriteInv, TalkInv, [Next]_vars
    PROVE  TalkInv'
<1>0. /\ sent \in Seq(Requests) /\ inbound \in Seq(Tokens) /\ buffer \in Seq(Tokens)
      /\ rcvd \in Seq(Replies) /\ wr \in Seq(Replies) /\ handled \in Nat
      /\ Len(sent) \in Nat /\ Len(rcvd) \in Nat
  BY DEF TypeOK, ClientOK, IoOK, ConnOK, FeedOK
<1>1. CASE SendHead
  <2>1. PICK r \in Requests :
            /\ sent' = Append(sent, r)
            /\ inbound' = Append(inbound, [part |-> "head", req |-> r])
    BY <1>1 DEF SendHead
  <2>2. /\ phase = "idle" /\ Len(rcvd) = Len(sent)
        /\ phase' = "body" /\ ~got100'
        /\ UNCHANGED <<rcvd, wr, handled, needAfter, buffer>>
    BY <1>1, Zenon DEF SendHead, ioVars, connVars, feedVars
  <2>3. handled = Len(sent)
    BY <1>0, <2>2 DEF TalkInv
  <2>4. buffer = <<>> /\ inbound = <<>> /\ wr = <<>> /\ ~needAfter
    BY <1>0, <2>2, <2>3 DEF TalkInv
  <2>5. Len(sent') = Len(sent) + 1 /\ LastSent' = r
    BY <1>0, <2>1 DEF LastSent
  <2>6. /\ OneRequest(inbound', r) /\ ~HasBody(inbound') /\ inbound' # <<>>
    BY <2>1, <2>4, HeaderAlone
  <2>7. buffer' = <<>> /\ wr' = <<>> /\ ~needAfter' /\ Len(rcvd') = Len(sent) /\ handled' = Len(sent)
    BY <2>2, <2>3, <2>4
  <2> QED
    BY <1>0, <2>2, <2>5, <2>6, <2>7, NoTokens DEF TalkInv
<1>2. CASE SendBody
  <2>1. /\ phase = "body" /\ phase' = "idle" /\ (~LastSent.expect \/ got100)
        /\ inbound' = Append(inbound, [part |-> "body", req |-> LastSent])
        /\ UNCHANGED <<sent, rcvd, got100, wr, handled, needAfter, buffer>>
    BY <1>2, Zenon DEF SendBody, LastSent, ioVars, connVars, feedVars
  <2>2. ~HasBody(buffer) /\ ~HasBody(inbound)
    BY <2>1 DEF TalkInv
  <2>3. ~HasExpect(buffer) /\ ~HasExpect(inbound)
    <3>1. HasExpect(buffer) => LastSent.expect
      BY DEF TalkInv, OneRequest, HasExpect
    <3>2. HasExpect(inbound) => LastSent.expect
      BY DEF TalkInv, OneRequest, HasExpect
    <3> QED
      BY <2>1, <3>1, <3>2 DEF TalkInv
  <2>4. /\ OneRequest(inbound', LastSent) /\ HasBody(inbound') /\ ~HasExpect(inbound')
        /\ inbound' # <<>>
    <3>1. OneRequest(inbound, LastSent)
      BY DEF TalkInv
    <3> QED
      BY <1>0, <2>1, <2>2, <2>3, <3>1, BodyAppended
  <2>5. wr = <<>> /\ ~needAfter /\ handled < Len(sent)
    BY <2>1 DEF TalkInv
  <2>6. LastSent' = LastSent
    BY <2>1 DEF LastSent
  <2> QED
    BY <2>1, <2>2, <2>3, <2>4, <2>5, <2>6 DEF TalkInv
<1>3. CASE HalfClose \/ Leave
  <2>1. UNCHANGED <<sent, inbound, phase, rcvd, got100, handled, needAfter, wr, buffer>>
    BY <1>3, Zenon DEF HalfClose, Leave, ioVars, connVars, feedVars
  <2> QED
    BY <2>1, TalkQuiet
<1>4. CASE Receive
  <2>1. PICK k \in 1 .. Len(inbound) :
            /\ buffer' = SubSeq(inbound, 1, k)
            /\ inbound' = SubSeq(inbound, k + 1, Len(inbound))
    BY <1>4 DEF Receive
  <2>2. /\ rd /\ inbound # <<>>
        /\ UNCHANGED <<sent, phase, rcvd, got100, handled, needAfter, wr>>
    BY <1>4, Zenon DEF Receive, connVars
  <2>3. OneRequest(inbound, LastSent)
    BY DEF TalkInv
  <2>4. /\ OneRequest(buffer', LastSent) /\ OneRequest(inbound', LastSent) /\ buffer' # <<>>
        /\ HasBody(inbound) <=> (HasBody(buffer') \/ HasBody(inbound'))
        /\ HasExpect(buffer') \/ HasExpect(inbound') => HasExpect(inbound)
        /\ HasBody(buffer') \/ HasExpect(buffer') => inbound' = <<>>
    BY <1>0, <2>1, <2>3, TokensCut
  <2>5. buffer = <<>>
    BY <2>2 DEF ReadInv
  <2>6. LastSent' = LastSent
    BY <2>2 DEF LastSent
  <2> QED
    BY <2>2, <2>4, <2>5, <2>6, NoTokens DEF TalkInv
<1>5. CASE ReceiveEof
  <2>1. UNCHANGED <<sent, inbound, phase, rcvd, got100, handled, needAfter, wr, buffer>>
    BY <1>5, Zenon DEF ReceiveEof, clientVars, connVars, feedVars
  <2> QED
    BY <2>1, TalkQuiet
<1>6. CASE Flush
  <2>1. /\ wr # <<>> /\ Deliver(Head(wr)) /\ wr' = Tail(wr)
        /\ UNCHANGED <<sent, inbound, phase, handled, needAfter, buffer>>
    BY <1>6, Zenon DEF Flush, connVars, feedVars
  <2>2. wr' = <<>> /\ Head(wr) \in Replies
    <3>1. wr' = <<>>
      BY <1>0, <2>1 DEF WriteInv
    <3>2. Head(wr) \in Replies
      BY <1>0, <2>1, SeqHeadTail
    <3> QED
      BY <3>1, <3>2
  <2>3. buffer = <<>> /\ inbound = <<>> /\ ~needAfter
    BY <2>1 DEF TalkInv
  <2>4. rcvd' = rcvd \/ (Head(wr).n > 0 /\ rcvd' = Append(rcvd, Head(wr)))
    BY <2>1, Zenon DEF Deliver
  <2>5. Len(rcvd') <= handled
    <3>1. CASE rcvd' = rcvd
      BY <3>1 DEF TalkInv
    <3>2. CASE Head(wr).n > 0 /\ rcvd' = Append(rcvd, Head(wr))
      <4>1. Head(wr).n # 0
        BY <2>2, <3>2 DEF Replies
      <4>2. Len(rcvd) < handled
        BY <2>1, <4>1 DEF TalkInv
      <4>3. Len(rcvd') = Len(rcvd) + 1
        BY <1>0, <2>2, <3>2
      <4> QED
        BY <1>0, <4>2, <4>3
    <3> QED
      BY <2>4, <3>1, <3>2
  <2>6. buffer' = <<>> /\ inbound' = <<>> /\ ~needAfter' /\ handled' = handled
    BY <2>1, <2>3
  <2> QED
    BY <2>1, <2>2, <2>5, <2>6, NoTokens DEF TalkInv
<1>7. CASE FlushFails
  <2>1. /\ wr # <<>> /\ wr' = Tail(wr)
        /\ UNCHANGED <<sent, inbound, phase, rcvd, got100, handled, needAfter, buffer>>
    BY <1>7, Zenon DEF FlushFails, clientVars, connVars, feedVars
  <2>2. wr' = <<>>
    BY <1>0, <2>1 DEF WriteInv
  <2> QED
    BY <2>1, <2>2, TalkQuiet
<1>8. CASE ReadArrives
  <2>1. UNCHANGED <<sent, inbound, phase, rcvd, got100, handled, needAfter, wr, buffer>>
    BY <1>8, Zenon DEF ReadArrives, clientVars, connVars, feedVars
  <2> QED
    BY <2>1, TalkQuiet
<1>9. CASE ReadFails
  <2>1. /\ UNCHANGED <<sent, inbound, phase, rcvd, got100, handled, needAfter, buffer>>
        /\ wr' = <<>>
    BY <1>9, Zenon DEF ReadFails, StopReading, CloseSocket, clientVars, connVars, feedVars
  <2> QED
    BY <2>1, TalkQuiet
<1>10. CASE HandleHeader
  <2>1. /\ busy /\ buffer # <<>> /\ Head(buffer).part = "head" /\ buffer' = Tail(buffer)
        /\ IF Head(buffer).req.expect THEN DoWrite(Continue)
             ELSE UNCHANGED <<isWriting, rcvd, got100, wr, ioq>>
        /\ UNCHANGED <<sent, inbound, phase, handled, needAfter>>
    BY <1>10, Zenon DEF HandleHeader
  <2>2. wr = <<>> /\ ~needAfter /\ NoWriteIn(ioq) /\ NoReadIn(ioq)
    BY <2>1 DEF TalkInv, WriteInv, ReadInv
  <2>3. /\ OneRequest(buffer', LastSent) /\ Head(buffer).req = LastSent
        /\ HasBody(buffer') => HasBody(buffer)
        /\ HasExpect(buffer') => HasExpect(buffer)
        /\ HasExpect(buffer) => buffer' = <<>>
        /\ HasBody(buffer) => HasBody(buffer')
        /\ Head(buffer).req.expect => HasExpect(buffer)
    <3>1. OneRequest(buffer, LastSent)
      BY DEF TalkInv
    <3> QED
      BY <1>0, <2>1, <3>1, TokensTail
  <2>4. LastSent' = LastSent
    BY <2>1 DEF LastSent
  <2>5. CASE Head(buffer).req.expect
    <3>1. Continue \in Replies /\ Continue.n = 0
      BY DEF Continue, Replies, Answers
    <3>2. /\ wr' # <<>> => wr' = <<Continue>> /\ got100' = got100
          /\ rcvd' = rcvd
      BY <2>1, <2>2, <2>5, <3>1, DoWriteWrites
    <3>3. buffer' = <<>> /\ inbound' = <<>> /\ phase = "body" /\ ~got100 /\ LastSent.expect
      BY <2>1, <2>3, <2>5 DEF TalkInv
    <3>4. wr' # <<>> => Head(wr').n = 0 /\ ~got100'
      BY <3>1, <3>2, <3>3
    <3> QED
      BY <2>1, <2>2, <2>4, <3>2, <3>3, <3>4, NoTokens DEF TalkInv
  <2>6. CASE ~Head(buffer).req.expect
    <3>1. UNCHANGED <<rcvd, got100, wr>>
      BY <2>1, <2>6
    <3> QED
      BY <2>1, <2>2, <2>3, <2>4, <3>1 DEF TalkInv
  <2> QED
    BY <2>5, <2>6
<1>11. CASE HandleMessage
  <2> DEFINE r == Head(buffer).req
             bad == [completed |-> FALSE, content |-> "bad400", hook |-> "null"]
  <2>1. /\ busy /\ alive /\ buffer # <<>> /\ Head(buffer).part = "body" /\ buffer' = Tail(buffer)
        /\ handled' = handled + 1
        /\ UNCHANGED <<sent, inbound, phase>>
    BY <1>11, Zenon DEF HandleMessage
  <2>2. wr = <<>> /\ ~needAfter /\ NoWriteIn(ioq) /\ NoReadIn(ioq) /\ ~isWriting
    BY <2>1 DEF TalkInv, WriteInv, ReadInv
  <2>3. HasBody(buffer) /\ buffer' = <<>>
    <3>1. OneRequest(buffer, LastSent)
      BY DEF TalkInv
    <3> QED
      BY <1>0, <2>1, <3>1, TokensTail
  <2>4. /\ inbound = <<>> /\ phase = "idle" /\ handled < Len(sent)
        /\ handled' \in Nat \ {0} /\ handled' <= Len(sent) /\ Len(rcvd) < handled'
    BY <1>0, <2>1, <2>3 DEF TalkInv
  <2>5. ASSUME NEW a \in Responses, CompleteRequest(a, handled', FALSE) PROVE TalkInv'
    <3>1. /\ wr' # <<>> => Head(wr').n # 0 /\ rcvd' = rcvd
          /\ Len(rcvd') \in Nat /\ Len(rcvd') <= Len(rcvd) + 1
          /\ ~needAfter'
      BY <2>2, <2>4, <2>5, CompleteRequestWrites
    <3>2. /\ sent' = sent /\ inbound' = <<>> /\ phase' = "idle" /\ Len(sent) \in Nat
          /\ Len(rcvd') <= handled'
      BY <1>0, <2>1, <2>4, <3>1
    <3> QED
      BY <1>0, <2>3, <2>4, <3>1, <3>2, NoTokens DEF TalkInv
  <2>6. CASE r.kind = "noHost"
    <3>1. bad \in Responses
      BY DEF Responses, Answers
    <3>2. CompleteRequest(bad, handled', FALSE)
      BY <1>11, <2>6 DEF HandleMessage
    <3> HIDE DEF bad
    <3> QED
      BY <2>5, <3>1, <3>2
  <2>7. CASE r.kind # "noHost" /\ res.completed
    <3>1. CompleteRequest(res, handled', FALSE)
      BY <1>11, <2>7 DEF HandleMessage
    <3> QED
      BY <2>5, <3>1 DEF TypeOK, ConnOK
  <2>8. CASE r.kind # "noHost" /\ ~res.completed
    <3>1. UNCHANGED <<rcvd, wr>>
      BY <1>11, <2>8 DEF HandleMessage
    <3>2. wr' = <<>> /\ rcvd' = rcvd /\ inbound' = <<>> /\ phase' = "idle" /\ sent' = sent
      BY <2>1, <2>2, <2>4, <3>1
    <3> QED
      BY <1>0, <2>3, <2>4, <3>2, NoTokens DEF TalkInv
  <2> QED
    BY <2>6, <2>7, <2>8
<1>12. ASSUME NEW call, NEW r \in Responses, HandlerStep(call, r), r.hook = res.hook
       PROVE  TalkInv'
  <2>1. /\ busy /\ alive /\ EndResponse(r)
        /\ UNCHANGED <<sent, inbound, phase, handled, buffer>>
    BY <1>12, Zenon DEF HandlerStep
  <2>2. CASE ~r.completed /\ r.hook = "complete"
    <3>1. needAfter
      BY <1>12, <2>2 DEF ReadInv
    <3>2. /\ buffer = <<>> /\ inbound = <<>> /\ wr = <<>> /\ phase = "idle"
          /\ Len(rcvd) < handled /\ handled <= Len(sent)
          /\ NoWriteIn(ioq) /\ NoReadIn(ioq) /\ ~isWriting
      BY <2>1, <3>1 DEF TalkInv, WriteInv, ReadInv
    <3>3. handled \in Nat \ {0}
      BY <1>0, <3>2
    <3>4. [r EXCEPT !.completed = TRUE] \in Responses
      BY DEF Responses
    <3>5. CompleteRequest([r EXCEPT !.completed = TRUE], handled, timer)
      BY <2>1, <2>2 DEF EndResponse
    <3>6. /\ wr' # <<>> => Head(wr').n # 0 /\ rcvd' = rcvd
          /\ Len(rcvd') \in Nat /\ Len(rcvd') <= Len(rcvd) + 1
          /\ ~needAfter'
      BY <3>2, <3>3, <3>4, <3>5, CompleteRequestWrites
    <3>7. /\ buffer' = <<>> /\ inbound' = <<>> /\ phase' = "idle" /\ sent' = sent
          /\ handled' = handled /\ Len(rcvd') <= handled
      BY <1>0, <2>1, <3>2, <3>3, <3>6
    <3> QED
      BY <3>2, <3>6, <3>7, NoTokens DEF TalkInv
  <2>3. CASE ~(~r.completed /\ r.hook = "complete")
    <3>1. UNCHANGED <<rcvd, got100, wr, needAfter>>
      BY <2>1, <2>3, Zenon DEF EndResponse
    <3> QED
      BY <2>1, <3>1, TalkQuiet
  <2> QED
    BY <2>2, <2>3
<1>13. CASE HandlerEnds
  BY <1>12, <1>13 DEF HandlerEnds, TypeOK, ConnOK, Responses, Answers
<1>14. CASE HandlerEndsAgain
  BY <1>12, <1>14 DEF HandlerEndsAgain, TypeOK, ConnOK
<1>15. CASE HandlerThrows
  BY <1>12, <1>15 DEF HandlerThrows, TypeOK, ConnOK, Responses, Answers
<1>16. CASE ParseFails
  <2>1. /\ UNCHANGED <<sent, inbound, phase, rcvd, got100, handled, needAfter>>
        /\ wr' = <<>> /\ buffer' = <<>>
    BY <1>16, Zenon DEF ParseFails, StopReading, CloseSocket, clientVars
  <2> QED
    BY <2>1, TalkQuiet
<1>17. CASE FeedEnds
  <2>1. /\ UNCHANGED <<sent, inbound, phase, rcvd, got100, handled, needAfter, buffer>>
        /\ wr' = wr \/ wr' = <<>>
    BY <1>17, Zenon DEF FeedEnds, StopReading, CloseSocket, clientVars
  <2> QED
    BY <2>1, TalkQuiet
<1>18. CASE WriteCompletes
  <2>1. /\ UNCHANGED <<sent, inbound, phase, rcvd, got100, handled, needAfter, buffer>>
        /\ wr' = wr \/ wr' = <<>>
    BY <1>18, Zenon DEF WriteCompletes, CloseSocket, clientVars, feedVars
  <2> QED
    BY <2>1, TalkQuiet
<1>19. CASE Deadline
  <2>1. /\ UNCHANGED <<sent, inbound, phase, rcvd, got100, handled, needAfter, buffer>>
        /\ wr' = wr \/ wr' = <<>>
    BY <1>19, Zenon DEF Deadline, CloseSocket, clientVars, feedVars, ioVars
  <2> QED
    BY <2>1, TalkQuiet
<1>20. CASE UNCHANGED vars
  <2>1. UNCHANGED <<sent, inbound, phase, rcvd, got100, handled, needAfter, wr, buffer>>
    BY <1>20, Zenon DEF vars, clientVars, ioVars, connVars, feedVars
  <2> QED
    BY <2>1, TalkQuiet
<1> QED
  BY <1>1, <1>2, <1>3, <1>4, <1>5, <1>6, <1>7, <1>8, <1>9, <1>10, <1>11, <1>13,
     <1>14, <1>15, <1>16, <1>17, <1>18, <1>19, <1>20
     DEF Next, Client, Kernel, Worker, Over
-----------------------------------------------------------------------------
(* The books on the writes.                                                *)

LEMMA WriteInit == Init => WriteInv
<1> SUFFICES ASSUME Init PROVE WriteInv
  OBVIOUS
<1>1. ioq = <<>> /\ wr = <<>> /\ buffer = <<>>
  BY DEF Init
<1>2. alive /\ ~isWriting /\ ~busy
  BY Zenon DEF Init
<1>3. NoWriteIn(ioq) /\ OneWriteIn(ioq) /\ BytesLast(ioq) /\ ~BytesIn(ioq)
  BY <1>1 DEF NoWriteIn, WritesIn, OneWriteIn, BytesLast, BytesIn
<1> QED
  BY <1>1, <1>2, <1>3 DEF WriteInv

\* The read handler that closes the connection deletes the object exactly if no
\* write is outstanding.
LEMMA StopReadingWrites ==
    ASSUME TypeOK, WriteInv, TalkInv, alive, NEW q \in Seq(Completions), StopReading(q),
           NoWriteIn(q) <=> NoWriteIn(ioq), OneWriteIn(q), BytesLast(q), BytesIn(q) => BytesIn(ioq)
    PROVE  /\ alive' => (isWriting' <=> ~NoWriteIn(ioq'))
           /\ ~alive' => NoWriteIn(ioq')
           /\ OneWriteIn(ioq') /\ BytesLast(ioq') /\ (BytesIn(ioq') => BytesIn(ioq))
           /\ wr' = <<>>
<1>1. wr # <<>> => Len(wr) = 1 /\ NoWriteIn(q) /\ ~BytesIn(q)
  BY DEF WriteInv, TalkInv
<1>2. CloseSocket(q) /\ (alive' <=> isWriting) /\ (isWriting' <=> isWriting)
  BY Zenon DEF StopReading
<1>3. /\ OneWriteIn(ioq') /\ BytesLast(ioq')
      /\ NoWriteIn(ioq') <=> (NoWriteIn(q) /\ wr = <<>>)
      /\ BytesIn(ioq') => BytesIn(q)
      /\ wr' = <<>>
  BY <1>1, <1>2, CloseSocketWrites DEF TypeOK
<1> QED
  BY <1>2, <1>3 DEF WriteInv

LEMMA WriteStep ==
    ASSUME ~Pipelining, TypeOK, ReadInv, WriteInv, TalkInv, [Next]_vars
    PROVE  WriteInv'
<1>0. /\ ioq \in Seq(Completions) /\ wr \in Seq(Replies) /\ inbound \in Seq(Tokens)
      /\ buffer \in Seq(Tokens) /\ handled \in Nat
  BY DEF TypeOK, ClientOK, IoOK, ConnOK, FeedOK
<1>1. CASE SendHead \/ SendBody \/ HalfClose \/ Leave
  <2>1. UNCHANGED <<ioVars, connVars, feedVars>>
    BY <1>1, Zenon DEF SendHead, SendBody, HalfClose, Leave
  <2> QED
    BY <2>1 DEF WriteInv, ioVars, connVars, feedVars
<1>2. CASE Receive
  <2>1. PICK k \in 1 .. Len(inbound) : buffer' = SubSeq(inbound, 1, k)
    BY <1>2 DEF Receive
  <2>2. /\ rd /\ ioq' = Append(ioq, "readOk")
        /\ UNCHANGED <<wr, connVars, busy>>
    BY <1>2, Zenon DEF Receive
  <2>3. buffer' # <<>>
    <3>1. Len(SubSeq(inbound, 1, k)) = k /\ k >= 1 /\ Len(<<>>) = 0
      BY <1>0
    <3> QED
      BY <2>1, <3>1
  <2>4. /\ NoWriteIn(ioq') <=> NoWriteIn(ioq)
        /\ OneWriteIn(ioq') /\ BytesLast(ioq')
    BY <1>0, <2>2, AppendRead, KindsApart DEF WriteInv
  <2>5. ~busy
    BY <2>2 DEF ReadInv
  <2> QED
    BY <2>2, <2>3, <2>4, <2>5 DEF WriteInv, connVars
<1>3. CASE ReceiveEof
  <2>1. /\ rd /\ ioq' = Append(ioq, "readFail")
        /\ UNCHANGED <<wr, connVars, feedVars>>
    BY <1>3, Zenon DEF ReceiveEof
  <2>2. /\ NoWriteIn(ioq') <=> NoWriteIn(ioq)
        /\ OneWriteIn(ioq') /\ BytesLast(ioq') /\ (BytesIn(ioq') => BytesIn(ioq))
    BY <1>0, <2>1, AppendRead, KindsApart DEF WriteInv
  <2> QED
    BY <2>1, <2>2 DEF WriteInv, connVars, feedVars
<1>4. CASE Flush \/ FlushFails
  <2>1. /\ wr # <<>> /\ wr' = Tail(wr)
        /\ ioq' = Append(ioq, "writeOk") \/ ioq' = Append(ioq, "writeFail")
        /\ UNCHANGED <<connVars, feedVars>>
    BY <1>4, Zenon DEF Flush, FlushFails
  <2>2. NoWriteIn(ioq) /\ Len(wr) = 1 /\ buffer = <<>> /\ ~needAfter /\ alive /\ isWriting
    BY <2>1 DEF WriteInv, TalkInv
  <2>3. wr' = <<>>
    BY <1>0, <2>1, <2>2
  <2>4. ~BytesIn(ioq)
    BY <2>2 DEF WriteInv
  <2>5. ~NoWriteIn(ioq') /\ OneWriteIn(ioq') /\ BytesLast(ioq') /\ ~BytesIn(ioq')
    <3>1. PICK e \in WriteEnds : ioq' = Append(ioq, e)
      BY <2>1, KindsApart
    <3> QED
      BY <1>0, <2>2, <2>4, <3>1, AppendWrite
  <2> QED
    BY <2>1, <2>2, <2>3, <2>5 DEF WriteInv, connVars, feedVars
<1>5. CASE ReadArrives
  <2>1. /\ ioq # <<>> /\ Head(ioq) = "readOk" /\ ioq' = Tail(ioq)
        /\ UNCHANGED <<wr, connVars, buffer>>
    BY <1>5, Zenon DEF ReadArrives
  <2>2. NoWriteIn(ioq) /\ NoWriteIn(ioq') /\ OneWriteIn(ioq') /\ BytesLast(ioq')
        /\ (BytesIn(ioq') => BytesIn(ioq))
    BY <1>0, <2>1, TailOfQueue DEF WriteInv
  <2> QED
    BY <2>1, <2>2 DEF WriteInv, connVars
<1>6. CASE ReadFails
  <2>1. /\ alive /\ ~busy /\ ioq # <<>> /\ Head(ioq) = "readFail" /\ StopReading(Tail(ioq))
        /\ UNCHANGED feedVars
    BY <1>6, Zenon DEF ReadFails, Idle
  <2>2. /\ Tail(ioq) \in Seq(Completions)
        /\ NoWriteIn(Tail(ioq)) <=> NoWriteIn(ioq)
        /\ OneWriteIn(Tail(ioq)) /\ BytesLast(Tail(ioq)) /\ (BytesIn(Tail(ioq)) => BytesIn(ioq))
    BY <1>0, <2>1, TailOfQueue, KindsApart DEF WriteInv
  <2>3. /\ alive' => (isWriting' <=> ~NoWriteIn(ioq'))
        /\ ~alive' => NoWriteIn(ioq')
        /\ OneWriteIn(ioq') /\ BytesLast(ioq') /\ (BytesIn(ioq') => BytesIn(ioq))
        /\ wr' = <<>>
    BY <2>1, <2>2, StopReadingWrites
  <2> QED
    BY <2>1, <2>3 DEF WriteInv, feedVars
<1>7. CASE HandleHeader
  <2>1. /\ alive /\ busy /\ buffer # <<>> /\ Head(buffer).part = "head" /\ buffer' = Tail(buffer)
        /\ IF Head(buffer).req.expect THEN DoWrite(Continue)
             ELSE UNCHANGED <<isWriting, rcvd, got100, wr, ioq>>
        /\ UNCHANGED <<needAfter, alive, busy>>
    BY <1>7, Zenon DEF HandleHeader
  <2>2. wr = <<>> /\ ~needAfter /\ NoWriteIn(ioq) /\ NoReadIn(ioq) /\ ~isWriting
    BY <2>1 DEF TalkInv, WriteInv, ReadInv
  <2>3. ~BytesIn(ioq)
    BY <2>2, KindsApart DEF NoReadIn, ReadsIn, BytesIn
  <2>4. CASE Head(buffer).req.expect
    <3>1. Continue \in Replies
      BY DEF Continue, Replies, Answers
    <3>2. /\ isWriting' /\ (wr' # <<>> \/ ~NoWriteIn(ioq'))
          /\ OneWriteIn(ioq') /\ BytesLast(ioq') /\ ~BytesIn(ioq')
          /\ wr' # <<>> => wr' = <<Continue>> /\ NoWriteIn(ioq')
      BY <2>1, <2>2, <2>4, <3>1, DoWriteWrites
    <3>3. buffer' = <<>>
      <4>1. OneRequest(buffer, LastSent)
        BY DEF TalkInv
      <4> QED
        BY <1>0, <2>1, <2>4, <4>1, TokensTail
    <3> QED
      BY <2>1, <2>2, <3>2, <3>3 DEF WriteInv
  <2>5. CASE ~Head(buffer).req.expect
    <3>1. UNCHANGED <<isWriting, wr, ioq>>
      BY <2>1, <2>5
    <3> QED
      BY <2>1, <2>2, <2>3, <3>1 DEF WriteInv
  <2> QED
    BY <2>4, <2>5
<1>8. CASE HandleMessage
  <2> DEFINE r == Head(buffer).req
             bad == [completed |-> FALSE, content |-> "bad400", hook |-> "null"]
  <2>1. /\ busy /\ alive /\ buffer # <<>> /\ Head(buffer).part = "body" /\ buffer' = Tail(buffer)
        /\ handled' = handled + 1
        /\ UNCHANGED <<alive, busy>>
    BY <1>8, Zenon DEF HandleMessage
  <2>2. wr = <<>> /\ ~needAfter /\ NoWriteIn(ioq) /\ NoReadIn(ioq) /\ ~isWriting
    BY <2>1 DEF TalkInv, WriteInv, ReadInv
  <2>3. buffer' = <<>>
    <3>1. OneRequest(buffer, LastSent)
      BY DEF TalkInv
    <3> QED
      BY <1>0, <2>1, <3>1, TokensTail
  <2>4. handled' \in Nat \ {0}
    BY <1>0, <2>1
  <2>5. ASSUME NEW a \in Responses, CompleteRequest(a, handled', FALSE) PROVE WriteInv'
    <3>1. /\ isWriting' <=> (wr' # <<>> \/ ~NoWriteIn(ioq'))
          /\ OneWriteIn(ioq') /\ BytesLast(ioq') /\ ~BytesIn(ioq')
          /\ wr' # <<>> => Len(wr') = 1 /\ NoWriteIn(ioq')
          /\ ~needAfter'
      BY <2>2, <2>4, <2>5, CompleteRequestWrites
    <3> QED
      BY <2>1, <2>3, <3>1 DEF WriteInv
  <2>6. CASE r.kind = "noHost"
    <3>1. bad \in Responses
      BY DEF Responses, Answers
    <3>2. CompleteRequest(bad, handled', FALSE)
      BY <1>8, <2>6 DEF HandleMessage
    <3> HIDE DEF bad
    <3> QED
      BY <2>5, <3>1, <3>2
  <2>7. CASE r.kind # "noHost" /\ res.completed
    <3>1. CompleteRequest(res, handled', FALSE)
      BY <1>8, <2>7 DEF HandleMessage
    <3> QED
      BY <2>5, <3>1 DEF TypeOK, ConnOK
  <2>8. CASE r.kind # "noHost" /\ ~res.completed
    <3>1. UNCHANGED <<wr, ioq, isWriting>>
      BY <1>8, <2>8 DEF HandleMessage
    <3>2. ~BytesIn(ioq)
      BY <2>2, KindsApart DEF NoReadIn, ReadsIn, BytesIn
    <3> QED
      BY <2>1, <2>2, <3>1, <3>2 DEF WriteInv
  <2> QED
    BY <2>6, <2>7, <2>8
<1>9. ASSUME NEW call, NEW r \in Responses, HandlerStep(call, r), r.hook = res.hook
      PROVE  WriteInv'
  <2>1. /\ busy /\ alive /\ EndResponse(r)
        /\ UNCHANGED <<alive, busy, buffer>>
    BY <1>9, Zenon DEF HandlerStep
  <2>2. CASE ~r.completed /\ r.hook = "complete"
    <3>1. needAfter
      BY <1>9, <2>2 DEF ReadInv
    <3>2. /\ buffer = <<>> /\ wr = <<>> /\ 0 <= Len(rcvd) /\ Len(rcvd) < handled
          /\ NoWriteIn(ioq) /\ NoReadIn(ioq) /\ ~isWriting
      BY <2>1, <3>1 DEF TalkInv, WriteInv, ReadInv, TypeOK, ClientOK
    <3>3. handled \in Nat \ {0}
      BY <1>0, <3>2 DEF TypeOK, ClientOK
    <3>4. [r EXCEPT !.completed = TRUE] \in Responses
      BY DEF Responses
    <3>5. CompleteRequest([r EXCEPT !.completed = TRUE], handled, timer)
      BY <2>1, <2>2 DEF EndResponse
    <3>6. /\ isWriting' <=> (wr' # <<>> \/ ~NoWriteIn(ioq'))
          /\ OneWriteIn(ioq') /\ BytesLast(ioq') /\ ~BytesIn(ioq')
          /\ wr' # <<>> => Len(wr') = 1 /\ NoWriteIn(ioq')
          /\ ~needAfter'
      BY <3>2, <3>3, <3>4, <3>5, CompleteRequestWrites
    <3> QED
      BY <2>1, <3>2, <3>6 DEF WriteInv
  <2>3. CASE ~(~r.completed /\ r.hook = "complete")
    <3>1. UNCHANGED <<wr, ioq, isWriting, needAfter>>
      BY <2>1, <2>3, Zenon DEF EndResponse
    <3> QED
      BY <2>1, <3>1 DEF WriteInv
  <2> QED
    BY <2>2, <2>3
<1>10. CASE HandlerEnds
  BY <1>9, <1>10 DEF HandlerEnds, TypeOK, ConnOK, Responses, Answers
<1>11. CASE HandlerEndsAgain
  BY <1>9, <1>11 DEF HandlerEndsAgain, TypeOK, ConnOK
<1>12. CASE HandlerThrows
  BY <1>9, <1>12 DEF HandlerThrows, TypeOK, ConnOK, Responses, Answers
<1>13. CASE ParseFails
  <2>1. /\ alive /\ busy /\ ~busy' /\ StopReading(ioq)
    BY <1>13, Zenon DEF ParseFails
  <2>2. NoReadIn(ioq) /\ ~BytesIn(ioq) /\ OneWriteIn(ioq) /\ BytesLast(ioq)
    BY <2>1, KindsApart DEF ReadInv, WriteInv, NoReadIn, ReadsIn, BytesIn
  <2>3. /\ alive' => (isWriting' <=> ~NoWriteIn(ioq'))
        /\ ~alive' => NoWriteIn(ioq')
        /\ OneWriteIn(ioq') /\ BytesLast(ioq') /\ (BytesIn(ioq') => BytesIn(ioq))
        /\ wr' = <<>>
    BY <1>0, <2>1, <2>2, StopReadingWrites
  <2> QED
    BY <2>1, <2>2, <2>3 DEF WriteInv
<1>14. CASE FeedEnds
  <2>1. alive /\ busy /\ ~busy' /\ buffer' = buffer
    BY <1>14, Zenon DEF FeedEnds
  <2>2. OneWriteIn(ioq) /\ BytesLast(ioq)
    BY DEF WriteInv
  <2>3. CASE ~sockOpen \/ closeConn
    <3>1. StopReading(ioq)
      BY <1>14, <2>3 DEF FeedEnds
    <3>2. /\ alive' => (isWriting' <=> ~NoWriteIn(ioq'))
          /\ ~alive' => NoWriteIn(ioq')
          /\ OneWriteIn(ioq') /\ BytesLast(ioq') /\ (BytesIn(ioq') => BytesIn(ioq))
          /\ wr' = <<>>
      BY <1>0, <2>1, <2>2, <3>1, StopReadingWrites
    <3> QED
      BY <2>1, <3>2 DEF WriteInv
  <2>4. CASE ~(~sockOpen \/ closeConn)
    <3>1. UNCHANGED <<wr, ioq, alive, isWriting>>
      BY <1>14, <2>4, Zenon DEF FeedEnds
    <3> QED
      BY <2>1, <3>1 DEF WriteInv
  <2> QED
    BY <2>3, <2>4
<1>15. CASE WriteCompletes
  <2>1. /\ ~busy /\ ioq # <<>> /\ Head(ioq) \in WriteEnds /\ ~isWriting'
        /\ \/ CloseSocket(Tail(ioq))
           \/ ioq' = Tail(ioq) /\ UNCHANGED wr
        /\ UNCHANGED feedVars
    BY <1>15, Zenon DEF WriteCompletes, Idle
  <2>2. /\ Tail(ioq) \in Seq(Completions) /\ NoWriteIn(Tail(ioq)) /\ ~NoWriteIn(ioq)
        /\ OneWriteIn(Tail(ioq)) /\ BytesLast(Tail(ioq)) /\ (BytesIn(Tail(ioq)) => BytesIn(ioq))
    BY <1>0, <2>1, TailOfQueue DEF WriteInv
  <2>3. wr = <<>>
    BY <2>2 DEF WriteInv
  <2>4. CASE CloseSocket(Tail(ioq))
    <3>1. /\ OneWriteIn(ioq') /\ BytesLast(ioq') /\ NoWriteIn(ioq')
          /\ BytesIn(ioq') => BytesIn(ioq)
          /\ wr' = <<>>
      BY <2>2, <2>3, <2>4, CloseSocketWrites DEF TypeOK
    <3> QED
      BY <2>1, <3>1 DEF WriteInv, feedVars
  <2>5. CASE ioq' = Tail(ioq) /\ UNCHANGED wr
    BY <2>1, <2>2, <2>3, <2>5 DEF WriteInv, feedVars
  <2> QED
    BY <2>1, <2>4, <2>5
<1>16. CASE Deadline
  <2>1. /\ alive /\ ~busy
        /\ IF sockOpen THEN CloseSocket(ioq) ELSE UNCHANGED ioVars
        /\ UNCHANGED <<alive, isWriting, feedVars>>
    BY <1>16, Zenon DEF Deadline, Idle
  <2>2. CASE sockOpen
    <3>1. /\ OneWriteIn(ioq) /\ BytesLast(ioq)
          /\ wr # <<>> => Len(wr) = 1 /\ NoWriteIn(ioq) /\ ~BytesIn(ioq)
      BY DEF WriteInv, TalkInv
    <3>2. /\ OneWriteIn(ioq') /\ BytesLast(ioq')
          /\ NoWriteIn(ioq') <=> (NoWriteIn(ioq) /\ wr = <<>>)
          /\ BytesIn(ioq') => BytesIn(ioq)
          /\ wr' = <<>>
      BY <1>0, <2>1, <2>2, <3>1, CloseSocketWrites DEF TypeOK
    <3> QED
      BY <2>1, <3>2 DEF WriteInv, feedVars
  <2>3. CASE ~sockOpen
    <3>1. UNCHANGED <<wr, ioq, needAfter>>
      BY <1>16, <2>1, <2>3, Zenon DEF ioVars, Deadline
    <3> QED
      BY <2>1, <3>1 DEF WriteInv, feedVars
  <2> QED
    BY <2>2, <2>3
<1>17. CASE UNCHANGED vars
  BY <1>17 DEF WriteInv, vars, ioVars, connVars, feedVars
<1> QED
  BY <1>1, <1>2, <1>3, <1>4, <1>5, <1>6, <1>7, <1>8, <1>10, <1>11, <1>12, <1>13,
     <1>14, <1>15, <1>16, <1>17
     DEF Next, Client, Kernel, Worker, Over
-----------------------------------------------------------------------------
(* Writes that never block.                                                *)

LEMMA IdleInit == Init => IdleInv
<1> SUFFICES ASSUME Init PROVE IdleInv
  OBVIOUS
<1>1. ioq = <<>> /\ wr = <<>>
  BY DEF Init
<1>2. alive /\ isReading /\ ~busy
  BY Zenon DEF Init
<1>3. ReadsLast(ioq)
  BY <1>1 DEF ReadsLast, ReadsIn
<1> QED
  BY <1>1, <1>2, <1>3 DEF IdleInv

\* A read handler that closes the connection while no completed write is queued
\* that would find it open.
LEMMA StopReadingIdle ==
    ASSUME TypeOK, ReadInv, WriteInv, IdleInv, NEW q \in Seq(Completions), StopReading(q),
           OneWriteIn(q), BytesLast(q), ReadsLast(q), isWriting /\ ~closeConn => NoOkIn(q)
    PROVE  /\ wr' = <<>> /\ ReadsLast(ioq')
           /\ alive' => isWriting'
           /\ alive' /\ ~closeConn' => NoOkIn(ioq')
<1>1. wr = <<>>
  BY DEF IdleInv
<1>2. /\ CloseSocket(q) /\ (alive' <=> isWriting) /\ (isWriting' <=> isWriting)
      /\ (closeConn' <=> closeConn)
  BY Zenon DEF StopReading
<1>3. wr' = <<>> /\ ReadsLast(ioq') /\ (NoOkIn(q) => NoOkIn(ioq'))
  BY <1>1, <1>2, CloseSocketWrites DEF TypeOK
<1> QED
  BY <1>2, <1>3

LEMMA IdleStep ==
    ASSUME ~MayBlock, TypeOK, ReadInv, WriteInv, TalkInv, IdleInv, [Next]_vars
    PROVE  IdleInv'
<1>0. /\ ioq \in Seq(Completions) /\ wr = <<>> /\ handled \in Nat /\ ReadsLast(ioq)
  BY DEF TypeOK, IoOK, ConnOK, IdleInv
<1>1. CASE SendHead \/ SendBody \/ HalfClose \/ Leave
  <2>1. UNCHANGED <<ioVars, connVars, feedVars>>
    BY <1>1, Zenon DEF SendHead, SendBody, HalfClose, Leave
  <2> QED
    BY <2>1 DEF IdleInv, ioVars, connVars, feedVars
<1>2. CASE Receive \/ ReceiveEof
  <2>1. /\ ioq' = Append(ioq, "readOk") \/ ioq' = Append(ioq, "readFail")
        /\ UNCHANGED <<sockOpen, wr, connVars, busy>>
    BY <1>2, Zenon DEF Receive, ReceiveEof, feedVars
  <2>2. PICK e \in ReadEnds : ioq' = Append(ioq, e)
    BY <2>1, KindsApart
  <2>3. ReadsLast(ioq') /\ (NoOkIn(ioq) => NoOkIn(ioq'))
    BY <1>0, <2>2, AppendRead
  <2> QED
    BY <1>0, <2>1, <2>3 DEF IdleInv, connVars
<1>3. CASE Flush \/ FlushFails
  <2>1. wr # <<>>
    BY <1>3, Zenon DEF Flush, FlushFails
  <2> QED
    BY <1>0, <2>1
<1>4. CASE ReadArrives
  <2>1. /\ alive /\ ioq # <<>> /\ Head(ioq) = "readOk" /\ ioq' = Tail(ioq)
        /\ UNCHANGED <<wr, connVars>>
    BY <1>4, Zenon DEF ReadArrives, Idle
  <2>2. NoWriteIn(ioq) /\ NoWriteIn(Tail(ioq)) /\ ReadsLast(Tail(ioq)) /\ Tail(ioq) \in Seq(Completions)
    BY <1>0, <2>1, TailOfQueue DEF WriteInv
  <2>3. NoOkIn(Tail(ioq))
    BY <2>2, KindsApart DEF NoWriteIn, WritesIn, NoOkIn
  <2> QED
    BY <1>0, <2>1, <2>2, <2>3 DEF IdleInv, connVars
<1>5. CASE ReadFails
  <2>1. /\ alive /\ ~busy /\ ioq # <<>> /\ Head(ioq) = "readFail" /\ StopReading(Tail(ioq))
        /\ UNCHANGED feedVars
    BY <1>5, Zenon DEF ReadFails, Idle
  <2>2. /\ Tail(ioq) \in Seq(Completions) /\ NoWriteIn(ioq)
        /\ OneWriteIn(Tail(ioq)) /\ BytesLast(Tail(ioq)) /\ ReadsLast(Tail(ioq))
    BY <1>0, <2>1, TailOfQueue, KindsApart DEF WriteInv
  <2>3. ~isWriting
    BY <1>0, <2>1, <2>2 DEF WriteInv
  <2>4. wr' = <<>> /\ ReadsLast(ioq') /\ (alive' => isWriting')
        /\ (alive' /\ ~closeConn' => NoOkIn(ioq'))
    BY <2>1, <2>2, <2>3, StopReadingIdle
  <2> QED
    BY <2>1, <2>4 DEF IdleInv, feedVars
<1>6. CASE HandleHeader
  <2>1. /\ alive /\ busy /\ buffer # <<>>
        /\ IF Head(buffer).req.expect THEN DoWrite(Continue)
             ELSE UNCHANGED <<isWriting, rcvd, got100, wr, ioq>>
        /\ UNCHANGED <<sockOpen, alive, isReading, closeConn, busy>>
    BY <1>6, Zenon DEF HandleHeader
  <2>2. NoWriteIn(ioq) /\ NoReadIn(ioq) /\ isReading
    BY <2>1 DEF WriteInv, ReadInv
  <2>3. CASE Head(buffer).req.expect
    <3>1. Continue \in Replies
      BY DEF Continue, Replies, Answers
    <3>2. wr' = <<>> /\ ReadsLast(ioq') /\ (~sockOpen /\ NoOkIn(ioq) => NoOkIn(ioq'))
      BY <1>0, <2>1, <2>2, <2>3, <3>1, DoWriteWrites
    <3> QED
      BY <2>1, <2>2, <3>2 DEF IdleInv
  <2>4. CASE ~Head(buffer).req.expect
    <3>1. UNCHANGED <<isWriting, wr, ioq>>
      BY <2>1, <2>4
    <3> QED
      BY <2>1, <2>2, <3>1 DEF IdleInv
  <2> QED
    BY <2>3, <2>4
<1>7. CASE HandleMessage
  <2> DEFINE r == Head(buffer).req
             bad == [completed |-> FALSE, content |-> "bad400", hook |-> "null"]
  <2>1. /\ busy /\ alive /\ buffer # <<>> /\ handled' = handled + 1
        /\ closeConn' = (closeConn \/ r.persist = "close")
        /\ UNCHANGED <<sockOpen, alive, busy>>
    BY <1>7, Zenon DEF HandleMessage
  <2>2. NoWriteIn(ioq) /\ NoReadIn(ioq) /\ ~isWriting /\ ~needRead /\ OneReadIn(ioq) /\ isReading
    BY <1>0, <2>1 DEF WriteInv, ReadInv
  <2>3. handled' \in Nat \ {0} /\ (closeConn => closeConn')
    <3>1. handled' \in Nat \ {0}
      BY <1>0, <2>1
    <3>2. closeConn => closeConn'
      BY <2>1, Zenon
    <3> QED
      BY <3>1, <3>2
  <2>4. ASSUME NEW a \in Responses, CompleteRequest(a, handled', FALSE) PROVE IdleInv'
    <3>1. wr' = <<>> /\ ReadsLast(ioq') /\ (~sockOpen /\ NoOkIn(ioq) => NoOkIn(ioq'))
      BY <1>0, <2>2, <2>3, <2>4, CompleteRequestWrites
    <3>2. isReading'
      BY <2>2, <2>4, CompleteRequestReads
    <3> QED
      BY <2>1, <2>2, <2>3, <3>1, <3>2 DEF IdleInv
  <2>5. CASE r.kind = "noHost"
    <3>1. bad \in Responses
      BY DEF Responses, Answers
    <3>2. CompleteRequest(bad, handled', FALSE)
      BY <1>7, <2>5 DEF HandleMessage
    <3> HIDE DEF bad
    <3> QED
      BY <2>4, <3>1, <3>2
  <2>6. CASE r.kind # "noHost" /\ res.completed
    <3>1. CompleteRequest(res, handled', FALSE)
      BY <1>7, <2>6 DEF HandleMessage
    <3> QED
      BY <2>4, <3>1 DEF TypeOK, ConnOK
  <2>7. CASE r.kind # "noHost" /\ ~res.completed
    <3>1. UNCHANGED <<wr, ioq, isWriting, isReading>>
      BY <1>7, <2>7 DEF HandleMessage
    <3> QED
      BY <2>1, <2>2, <2>3, <3>1 DEF IdleInv
  <2> QED
    BY <2>5, <2>6, <2>7
<1>8. ASSUME NEW call, NEW r \in Responses, HandlerStep(call, r), r.hook = res.hook
      PROVE  IdleInv'
  <2>1. /\ busy /\ alive /\ EndResponse(r)
        /\ UNCHANGED <<sockOpen, alive, busy, closeConn>>
    BY <1>8, Zenon DEF HandlerStep
  <2>2. isReading /\ ~needRead /\ NoReadIn(ioq) /\ OneReadIn(ioq)
    BY <2>1 DEF ReadInv
  <2>3. CASE ~r.completed /\ r.hook = "complete"
    <3>1. needAfter
      BY <1>8, <2>3 DEF ReadInv
    <3>2. /\ 0 <= Len(rcvd) /\ Len(rcvd) < handled
          /\ NoWriteIn(ioq) /\ ~isWriting
      BY <1>0, <2>1, <3>1 DEF TalkInv, WriteInv, TypeOK, ClientOK
    <3>3. handled \in Nat \ {0}
      BY <1>0, <3>2 DEF TypeOK, ClientOK
    <3>4. [r EXCEPT !.completed = TRUE] \in Responses
      BY DEF Responses
    <3>5. CompleteRequest([r EXCEPT !.completed = TRUE], handled, timer)
      BY <2>1, <2>3 DEF EndResponse
    <3>6. wr' = <<>> /\ ReadsLast(ioq') /\ (~sockOpen /\ NoOkIn(ioq) => NoOkIn(ioq'))
      BY <1>0, <2>2, <3>2, <3>3, <3>4, <3>5, CompleteRequestWrites
    <3>7. isReading'
      BY <2>2, <3>4, <3>5, CompleteRequestReads
    <3> QED
      BY <2>1, <2>2, <3>6, <3>7 DEF IdleInv
  <2>4. CASE ~(~r.completed /\ r.hook = "complete")
    <3>1. UNCHANGED <<wr, ioq, isWriting, isReading>>
      BY <2>1, <2>4, Zenon DEF EndResponse
    <3> QED
      BY <2>1, <3>1 DEF IdleInv
  <2> QED
    BY <2>3, <2>4
<1>9. CASE HandlerEnds
  BY <1>8, <1>9 DEF HandlerEnds, TypeOK, ConnOK, Responses, Answers
<1>10. CASE HandlerEndsAgain
  BY <1>8, <1>10 DEF HandlerEndsAgain, TypeOK, ConnOK
<1>11. CASE HandlerThrows
  BY <1>8, <1>11 DEF HandlerThrows, TypeOK, ConnOK, Responses, Answers
<1>12. CASE ParseFails
  <2>1. /\ alive /\ busy /\ buffer # <<>> /\ ~busy' /\ StopReading(ioq)
    BY <1>12, Zenon DEF ParseFails
  <2>2. OneWriteIn(ioq) /\ BytesLast(ioq) /\ NoWriteIn(ioq) /\ ~isWriting
    BY <1>0, <2>1 DEF WriteInv
  <2>3. wr' = <<>> /\ ReadsLast(ioq') /\ (alive' => isWriting')
        /\ (alive' /\ ~closeConn' => NoOkIn(ioq'))
    BY <1>0, <2>1, <2>2, StopReadingIdle
  <2> QED
    BY <2>1, <2>3 DEF IdleInv
<1>13. CASE FeedEnds
  <2>1. alive /\ busy /\ ~busy'
    BY <1>13, Zenon DEF FeedEnds
  <2>2. CASE ~sockOpen \/ closeConn
    <3>1. StopReading(ioq)
      BY <1>13, <2>2 DEF FeedEnds
    <3>2. OneWriteIn(ioq) /\ BytesLast(ioq) /\ (~closeConn => NoOkIn(ioq))
      BY <2>1, <2>2 DEF WriteInv, IdleInv
    <3>3. wr' = <<>> /\ ReadsLast(ioq') /\ (alive' => isWriting')
          /\ (alive' /\ ~closeConn' => NoOkIn(ioq'))
      BY <1>0, <3>1, <3>2, StopReadingIdle
    <3> QED
      BY <2>1, <3>3 DEF IdleInv
  <2>3. CASE ~(~sockOpen \/ closeConn)
    <3>1. UNCHANGED <<wr, ioq, isReading>>
      BY <1>13, <2>3, Zenon DEF FeedEnds
    <3>2. isReading
      BY <2>1 DEF ReadInv
    <3> QED
      BY <1>0, <2>1, <3>1, <3>2 DEF IdleInv
  <2> QED
    BY <2>2, <2>3
<1>14. CASE WriteCompletes
  <2> DEFINE dies == (Head(ioq) = "writeOk" => closeConn) /\ ~isReading
  <2>1. /\ alive /\ ~busy /\ ioq # <<>> /\ Head(ioq) \in WriteEnds
        /\ alive' = ~dies
        /\ \/ CloseSocket(Tail(ioq))
           \/ ioq' = Tail(ioq) /\ UNCHANGED wr
        /\ UNCHANGED <<isReading, closeConn, busy>>
    BY <1>14, Zenon DEF WriteCompletes, Idle, feedVars
  <2>2. /\ Tail(ioq) \in Seq(Completions) /\ NoWriteIn(Tail(ioq)) /\ ReadsLast(Tail(ioq))
        /\ OneWriteIn(Tail(ioq)) /\ BytesLast(Tail(ioq)) /\ (NoOkIn(ioq) => Head(ioq) # "writeOk")
    BY <1>0, <2>1, TailOfQueue DEF WriteInv
  <2>3. alive' => isReading
    BY <2>1, <2>2 DEF IdleInv
  <2> HIDE DEF dies
  <2>4. wr' = <<>> /\ ReadsLast(ioq')
    <3>1. CASE CloseSocket(Tail(ioq))
      BY <1>0, <2>2, <3>1, CloseSocketWrites DEF TypeOK
    <3>2. CASE ioq' = Tail(ioq) /\ UNCHANGED wr
      BY <1>0, <2>2, <3>2
    <3> QED
      BY <2>1, <3>1, <3>2
  <2> QED
    BY <2>1, <2>3, <2>4 DEF IdleInv
<1>15. CASE Deadline
  <2>1. /\ alive /\ ~busy
        /\ IF sockOpen THEN CloseSocket(ioq) ELSE UNCHANGED ioVars
        /\ UNCHANGED <<alive, isReading, isWriting, closeConn, busy>>
    BY <1>15, Zenon DEF Deadline, Idle, feedVars
  <2>2. CASE sockOpen
    <3>1. OneWriteIn(ioq) /\ BytesLast(ioq)
      BY DEF WriteInv
    <3>2. wr' = <<>> /\ ReadsLast(ioq') /\ (NoOkIn(ioq) => NoOkIn(ioq'))
      BY <1>0, <2>1, <2>2, <3>1, CloseSocketWrites DEF TypeOK
    <3> QED
      BY <2>1, <3>2 DEF IdleInv
  <2>3. CASE ~sockOpen
    <3>1. UNCHANGED <<wr, ioq, sockOpen>>
      BY <2>1, <2>3 DEF ioVars
    <3> QED
      BY <2>1, <3>1 DEF IdleInv
  <2> QED
    BY <2>2, <2>3
<1>16. CASE UNCHANGED vars
  BY <1>16 DEF IdleInv, vars, ioVars, connVars, feedVars
<1> QED
  BY <1>1, <1>2, <1>3, <1>4, <1>5, <1>6, <1>7, <1>9, <1>10, <1>11, <1>12, <1>13,
     <1>14, <1>15, <1>16
     DEF Next, Client, Kernel, Worker, Over

-----------------------------------------------------------------------------
(* The replies.                                                            *)

\* The response object between two requests, and while a handler runs.
ResponseFits(S) ==
    /\ script = <<>> =>
          /\ res.completed <=> /\ handled > 0 /\ handled \notin S
                               /\ sent[handled].kind \in {"twice", "endThrow"}
          /\ res.completed => res.content = Leftover(sent[handled].kind)
    /\ script # <<>> =>
          /\ handled > 0 /\ handled \notin S
          /\ IF needAfter THEN script = Script(sent[handled].kind)
                          ELSE /\ script = Tail(Script(sent[handled].kind))
                               /\ sent[handled].kind \in {"twice", "endThrow"}
                               /\ ~res.completed /\ res.content = "blank"

\* The replies that have arrived and the one that is on its way.
AnswersFit(S) ==
    /\ Len(sent) <= Len(rcvd) + 1
    /\ \A i \in DOMAIN rcvd : rcvd[i].n = i /\ rcvd[i].answer = Expected(i, S)
    /\ wr # <<>> /\ Head(wr).n # 0 =>
          Head(wr).n = Len(sent) /\ Head(wr).answer = Expected(Len(sent), S)

Explains(S) == Skips(S) /\ AnswersFit(S) /\ (sockOpen => ResponseFits(S))

ReplyInv == \E S \in SUBSET (1 .. Len(sent)) : Explains(S)

LEMMA ScriptIs ==
    ASSUME NEW k \in Kinds
    PROVE  /\ k = "once"     => Script(k) = <<"end">> /\ Answer(k) = "page"
           /\ k = "twice"    => Script(k) = <<"end", "bareEnd">> /\ Answer(k) = "page"
           /\ k = "throws"   => Script(k) = <<"throw">> /\ Answer(k) = "error500"
           /\ k = "endThrow" => Script(k) = <<"end", "throw">> /\ Answer(k) = "page"
           /\ k = "noHost"   => Script(k) = <<>> /\ Answer(k) = "bad400"
BY SMTT(30) DEF Script, Answer, Kinds

\* A new request leaves the explanation of the earlier ones alone.
LEMMA SkipsGrow ==
    ASSUME NEW S \in SUBSET (1 .. Len(sent)), Skips(S), sent \in Seq(Requests),
           NEW r \in Requests, sent' = Append(sent, r)
    PROVE  \E T \in SUBSET (1 .. Len(sent')) :
               Skips(T)' /\ \A i \in 1 .. Len(sent) : i \in T <=> i \in S
<1> DEFINE n == Len(sent)
           skipped == /\ n + 1 > 1 /\ sent[n].kind \in {"twice", "endThrow"}
                      /\ n \notin S /\ r.kind # "noHost"
<1>1. /\ n \in Nat /\ Len(sent') = n + 1 /\ sent'[n + 1] = r
      /\ \A i \in 1 .. n : sent'[i] = sent[i]
  OBVIOUS
<1>2. PICK T : T = IF skipped THEN S \cup {n + 1} ELSE S
  OBVIOUS
<1> HIDE DEF skipped
<1>3. T \in SUBSET (1 .. Len(sent')) /\ \A i \in 1 .. n : i \in T <=> i \in S
  <2>1. S \subseteq 1 .. n + 1 /\ n + 1 \notin 1 .. n /\ n + 1 \in 1 .. n + 1
    BY <1>1
  <2>2. T \subseteq 1 .. n + 1
    BY <1>2, <2>1
  <2>3. \A i \in 1 .. n : i \in T <=> i \in S
    BY <1>2, <2>1
  <2> QED
    BY <1>1, <2>2, <2>3
<1>4. (n + 1) \in T <=> skipped
  BY <1>1, <1>2
<1>5. ASSUME NEW i \in 1 .. Len(sent')
      PROVE  i \in T <=> /\ i > 1
                         /\ sent'[i - 1].kind \in {"twice", "endThrow"}
                         /\ i - 1 \notin T
                         /\ sent'[i].kind # "noHost"
  <2>1. CASE i = n + 1
    <3>1. CASE n = 0
      BY <1>1, <1>4, <2>1, <3>1 DEF skipped
    <3>2. CASE n > 0
      <4>1. n \in 1 .. n /\ i - 1 = n /\ i > 1
        BY <1>1, <2>1, <3>2
      <4>2. sent'[i - 1] = sent[n] /\ (n \in T <=> n \in S) /\ sent'[i] = r
        BY <1>1, <1>3, <2>1, <4>1
      <4> QED
        BY <1>4, <2>1, <4>1, <4>2 DEF skipped
    <3> QED
      BY <1>1, <3>1, <3>2
  <2>2. CASE i \in 1 .. n
    <3>1. CASE i = 1
      BY <1>3, <2>2, <3>1 DEF Skips
    <3>2. CASE i > 1
      <4>1. i - 1 \in 1 .. n
        BY <1>1, <2>2, <3>2
      <4>2. sent'[i - 1] = sent[i - 1] /\ sent'[i] = sent[i] /\ (i - 1 \in T <=> i - 1 \in S)
            /\ (i \in T <=> i \in S)
        BY <1>1, <1>3, <2>2, <4>1
      <4> QED
        BY <2>2, <4>2 DEF Skips
    <3> QED
      BY <1>1, <2>2, <3>1, <3>2
  <2> QED
    BY <1>1, <2>1, <2>2
<1> QED
  BY <1>3, <1>5 DEF Skips

LEMMA ExpectedKept ==
    ASSUME NEW S, NEW T, Skips(S), sent \in Seq(Requests), NEW r \in Requests,
           sent' = Append(sent, r), \A i \in 1 .. Len(sent) : i \in T <=> i \in S,
           NEW i \in 1 .. Len(sent)
    PROVE  Expected(i, T)' = Expected(i, S)
<1>1. sent'[i] = sent[i] /\ (i \in T <=> i \in S)
  OBVIOUS
<1>2. i \in S => sent'[i - 1] = sent[i - 1]
  <2> SUFFICES ASSUME i \in S PROVE sent'[i - 1] = sent[i - 1]
    OBVIOUS
  <2>1. i - 1 \in 1 .. Len(sent)
    BY DEF Skips
  <2> QED
    BY <2>1
<1> QED
  BY <1>1, <1>2 DEF Expected

LEMMA ReplyInit == Init => ReplyInv
<1> SUFFICES ASSUME Init PROVE ReplyInv
  OBVIOUS
<1>1. /\ sent = <<>> /\ rcvd = <<>> /\ wr = <<>> /\ script = <<>> /\ res = Cleared /\ handled = 0
  BY DEF Init
<1>2. Len(sent) = 0 /\ Len(rcvd) = 0 /\ DOMAIN rcvd = {} /\ ~res.completed
  BY <1>1 DEF Cleared
<1>3. Skips({})
  BY <1>2 DEF Skips
<1>4. AnswersFit({})
  BY <1>1, <1>2 DEF AnswersFit
<1>5. ResponseFits({})
  BY <1>1, <1>2 DEF ResponseFits
<1> QED
  BY <1>3, <1>4, <1>5 DEF ReplyInv, Explains

\* A step that leaves the handler, its response and the replies alone.
LEMMA AnswersQuiet ==
    ASSUME NEW S, Skips(S), AnswersFit(S), UNCHANGED <<sent, rcvd>>,
           wr' = wr \/ wr' = <<>> \/ Head(wr').n = 0
    PROVE  Skips(S)' /\ AnswersFit(S)'
<1>1. Skips(S)'
  BY DEF Skips
<1>2. \A i : Expected(i, S)' = Expected(i, S)
  BY DEF Expected
<1>3. AnswersFit(S)'
  BY <1>2 DEF AnswersFit
<1> QED
  BY <1>1, <1>3

LEMMA ReplyQuiet ==
    ASSUME NEW S, Explains(S), UNCHANGED <<sent, rcvd, script, res, handled, needAfter>>,
           wr' = wr \/ wr' = <<>> \/ Head(wr').n = 0, sockOpen' => sockOpen
    PROVE  Explains(S)'
<1>1. Skips(S)' /\ AnswersFit(S)'
  BY AnswersQuiet DEF Explains
<1>2. ResponseFits(S) => ResponseFits(S)'
  BY DEF ResponseFits
<1> QED
  BY <1>1, <1>2 DEF Explains

\* The reply to the last request, delivered or with the reactor.
LEMMA AnswersReply ==
    ASSUME TypeOK, NEW S, Skips(S), AnswersFit(S), sent' = sent, Len(rcvd) < Len(sent),
           NEW w \in Replies, w.n = Len(sent), w.answer = Expected(Len(sent), S),
           rcvd' = rcvd \/ rcvd' = Append(rcvd, w), wr' # <<>> => wr' = <<w>>
    PROVE  Skips(S)' /\ AnswersFit(S)'
<1>0. rcvd \in Seq(Replies) /\ sent \in Seq(Requests)
  BY DEF TypeOK, ClientOK
<1>1. Skips(S)'
  BY DEF Skips
<1>2. \A i : Expected(i, S)' = Expected(i, S)
  BY DEF Expected
<1>3. Len(rcvd) + 1 = Len(sent) /\ Len(rcvd) \in Nat
  BY <1>0 DEF AnswersFit
<1>4. \A i \in DOMAIN rcvd' : rcvd'[i].n = i /\ rcvd'[i].answer = Expected(i, S)
  <2>1. CASE rcvd' = rcvd
    BY <2>1 DEF AnswersFit
  <2>2. CASE rcvd' = Append(rcvd, w)
    <3>1. /\ DOMAIN rcvd = 1 .. Len(rcvd) /\ DOMAIN rcvd' = 1 .. Len(rcvd) + 1
          /\ rcvd'[Len(rcvd) + 1] = w
          /\ \A i \in 1 .. Len(rcvd) : rcvd'[i] = rcvd[i]
      BY <1>0, <2>2
    <3>2. ASSUME NEW i \in 1 .. Len(rcvd) + 1
          PROVE  rcvd'[i].n = i /\ rcvd'[i].answer = Expected(i, S)
      <4>1. CASE i = Len(rcvd) + 1
        BY <1>3, <3>1, <4>1
      <4>2. CASE i \in 1 .. Len(rcvd)
        BY <3>1, <4>2 DEF AnswersFit
      <4> QED
        BY <1>3, <4>1, <4>2
    <3> QED
      BY <3>1, <3>2
  <2> QED
    BY <2>1, <2>2
<1>5. Len(sent') <= Len(rcvd') + 1
  BY <1>0, <1>3
<1>6. wr' # <<>> => Head(wr') = w
  OBVIOUS
<1>7. AnswersFit(S)'
  BY <1>2, <1>4, <1>5, <1>6 DEF AnswersFit
<1> QED
  BY <1>1, <1>7

LEMMA CompleteRequestReplies ==
    ASSUME TypeOK, NEW r \in Responses, NEW n \in Nat \ {0}, NEW t, CompleteRequest(r, n, t),
           wr = <<>>
    PROVE  \E w \in Replies :
               /\ w.n = n /\ w.answer = r.content
               /\ rcvd' = rcvd \/ rcvd' = Append(rcvd, w)
               /\ wr' # <<>> => wr' = <<w>>
               /\ ~sockOpen => rcvd' = rcvd /\ wr' = <<>>
               /\ sockOpen => ~res'.completed /\ res'.content = "blank"
               /\ ~needAfter'
<1>0. PICK w : w = [n |-> n, answer |-> r.content]
  OBVIOUS
<1>1. w \in Replies /\ w.n = n /\ w.answer = r.content
  BY <1>0 DEF Replies, Responses
<1>2. ~needAfter'
  BY Zenon DEF CompleteRequest
<1>3. CASE sockOpen
  <2>1. DoWrite(w) /\ res' = Cleared
    BY <1>0, <1>3, Zenon DEF CompleteRequest
  <2>2. rcvd' = rcvd \/ rcvd' = Append(rcvd, w)
    BY <2>1, Zenon DEF DoWrite, Deliver
  <2>3. wr' = wr \/ wr' = Append(wr, w)
    BY <2>1, Zenon DEF DoWrite
  <2>4. wr' # <<>> => wr' = <<w>>
    BY <2>3
  <2>5. ~res'.completed /\ res'.content = "blank"
    BY <2>1 DEF Cleared
  <2> QED
    BY <1>1, <1>2, <1>3, <2>2, <2>4, <2>5
<1>4. CASE ~sockOpen
  <2>1. UNCHANGED <<rcvd, wr>>
    BY <1>4, Zenon DEF CompleteRequest
  <2> QED
    BY <1>1, <1>2, <1>4, <2>1
<1> QED
  BY <1>3, <1>4

LEMMA ReplyStep ==
    ASSUME ~Pipelining, TypeOK, ReadInv, WriteInv, TalkInv, ReplyInv, [Next]_vars
    PROVE  ReplyInv'
<1>0. /\ sent \in Seq(Requests) /\ rcvd \in Seq(Replies) /\ wr \in Seq(Replies)
      /\ buffer \in Seq(Tokens) /\ handled \in Nat /\ Len(sent) \in Nat /\ Len(rcvd) \in Nat
      /\ res \in Responses
  BY DEF TypeOK, ClientOK, IoOK, ConnOK, FeedOK
<1>1. PICK S \in SUBSET (1 .. Len(sent)) : Explains(S)
  BY DEF ReplyInv
<1>2. ASSUME Explains(S)', sent' = sent PROVE ReplyInv'
  BY <1>1, <1>2 DEF ReplyInv
<1>3. Skips(S) /\ AnswersFit(S) /\ (sockOpen => ResponseFits(S))
  BY <1>1 DEF Explains
<1>4. ASSUME UNCHANGED <<sent, rcvd, script, res, handled, needAfter>>,
             wr' = wr \/ wr' = <<>> \/ Head(wr').n = 0, sockOpen' => sockOpen
      PROVE  ReplyInv'
  BY <1>1, <1>2, <1>4, ReplyQuiet
<1>5. CASE SendHead
  <2>1. PICK r \in Requests : sent' = Append(sent, r)
    BY <1>5 DEF SendHead
  <2>2. /\ phase = "idle" /\ Len(rcvd) = Len(sent)
        /\ UNCHANGED <<rcvd, wr, sockOpen, script, res, handled, needAfter>>
    BY <1>5, Zenon DEF SendHead, ioVars, connVars, feedVars
  <2>3. handled = Len(sent) /\ Len(sent') = Len(sent) + 1
    BY <1>0, <2>1, <2>2 DEF TalkInv
  <2>4. wr = <<>>
    BY <1>0, <2>2, <2>3 DEF TalkInv
  <2>5. PICK T \in SUBSET (1 .. Len(sent')) :
            Skips(T)' /\ \A i \in 1 .. Len(sent) : i \in T <=> i \in S
    BY <1>0, <1>1, <1>3, <2>1, SkipsGrow
  <2>6. \A i \in 1 .. Len(sent) : Expected(i, T)' = Expected(i, S)
    BY <1>0, <1>3, <2>1, <2>5, ExpectedKept
  <2>7. AnswersFit(T)'
    <3>1. DOMAIN rcvd = 1 .. Len(sent)
      BY <1>0, <2>2
    <3>2. \A i \in DOMAIN rcvd' : rcvd'[i].n = i /\ rcvd'[i].answer = Expected(i, T)'
      BY <1>3, <2>2, <2>6, <3>1 DEF AnswersFit
    <3>3. Len(sent') <= Len(rcvd') + 1 /\ wr' = <<>>
      BY <2>2, <2>3, <2>4
    <3> QED
      BY <3>2, <3>3 DEF AnswersFit
  <2>8. ResponseFits(S) => ResponseFits(T)'
    <3>1. handled > 0 => sent'[handled] = sent[handled] /\ (handled \in T <=> handled \in S)
      <4>1. handled > 0 => handled \in 1 .. Len(sent)
        BY <1>0, <2>3
      <4> QED
        BY <1>0, <2>1, <2>5, <4>1
    <3> QED
      BY <2>2, <3>1 DEF ResponseFits
  <2> QED
    BY <1>3, <2>2, <2>5, <2>7, <2>8 DEF ReplyInv, Explains
<1>6. CASE SendBody \/ HalfClose \/ Leave
  <2>1. UNCHANGED <<sent, rcvd, wr, sockOpen, script, res, handled, needAfter>>
    BY <1>6, Zenon DEF SendBody, HalfClose, Leave, ioVars, connVars, feedVars
  <2> QED
    BY <1>4, <2>1
<1>7. CASE Receive \/ ReceiveEof
  <2>1. UNCHANGED <<sent, rcvd, wr, sockOpen, script, res, handled, needAfter>>
    BY <1>7, Zenon DEF Receive, ReceiveEof, clientVars, connVars, feedVars
  <2> QED
    BY <1>4, <2>1
<1>8. CASE Flush
  <2>1. /\ wr # <<>> /\ Deliver(Head(wr)) /\ wr' = Tail(wr)
        /\ UNCHANGED <<sent, sockOpen, script, res, handled, needAfter>>
    BY <1>8, Zenon DEF Flush, connVars, feedVars
  <2>2. Head(wr) \in Replies
    BY <1>0, <2>1, SeqHeadTail
  <2>3. wr' = <<>>
    BY <1>0, <2>1 DEF WriteInv
  <2>4. CASE Head(wr).n = 0
    <3>1. rcvd' = rcvd
      <4>1. ~(Head(wr).n > 0)
        BY <2>4
      <4> QED
        BY <2>1, <4>1, Zenon DEF Deliver
    <3> QED
      BY <1>4, <2>1, <2>3, <3>1
  <2>5. CASE Head(wr).n # 0
    <3>1. Head(wr).n = Len(sent) /\ Head(wr).answer = Expected(Len(sent), S)
      BY <1>3, <2>1, <2>5 DEF AnswersFit
    <3>2. Len(rcvd) < Len(sent)
      BY <1>0, <2>1, <2>5 DEF TalkInv
    <3>3. rcvd' = rcvd \/ rcvd' = Append(rcvd, Head(wr))
      BY <2>1, Zenon DEF Deliver
    <3>4. Skips(S)' /\ AnswersFit(S)'
      BY <1>3, <2>1, <2>2, <2>3, <3>1, <3>2, <3>3, AnswersReply
    <3>5. ResponseFits(S) => ResponseFits(S)'
      BY <2>1 DEF ResponseFits
    <3> QED
      BY <1>2, <1>3, <2>1, <3>4, <3>5 DEF Explains
  <2> QED
    BY <2>4, <2>5
<1>9. CASE FlushFails
  <2>1. /\ wr # <<>> /\ wr' = Tail(wr)
        /\ UNCHANGED <<sent, rcvd, sockOpen, script, res, handled, needAfter>>
    BY <1>9, Zenon DEF FlushFails, clientVars, connVars, feedVars
  <2>2. wr' = <<>>
    BY <1>0, <2>1 DEF WriteInv
  <2> QED
    BY <1>4, <2>1, <2>2
<1>10. CASE ReadArrives
  <2>1. UNCHANGED <<sent, rcvd, wr, sockOpen, script, res, handled, needAfter>>
    BY <1>10, Zenon DEF ReadArrives, clientVars, connVars
  <2> QED
    BY <1>4, <2>1
<1>11. CASE ReadFails \/ ParseFails
  <2>1. /\ UNCHANGED <<sent, rcvd, script, res, handled, needAfter>>
        /\ wr' = <<>> /\ ~sockOpen'
    BY <1>11, Zenon DEF ReadFails, ParseFails, StopReading, CloseSocket, clientVars, feedVars
  <2> QED
    BY <1>4, <2>1
<1>12. CASE HandleHeader
  <2>1. /\ busy /\ buffer # <<>>
        /\ IF Head(buffer).req.expect THEN DoWrite(Continue)
             ELSE UNCHANGED <<isWriting, rcvd, got100, wr, ioq>>
        /\ UNCHANGED <<sent, sockOpen, script, res, handled, needAfter>>
    BY <1>12, Zenon DEF HandleHeader
  <2>2. CASE Head(buffer).req.expect
    <3>1. Continue \in Replies /\ Continue.n = 0
      BY DEF Continue, Replies, Answers
    <3>2. wr = <<>> /\ NoWriteIn(ioq) /\ NoReadIn(ioq)
      BY <2>1 DEF TalkInv, WriteInv, ReadInv
    <3>3. rcvd' = rcvd /\ (wr' # <<>> => wr' = <<Continue>>)
      BY <2>1, <2>2, <3>1, <3>2, DoWriteWrites
    <3>4. wr' = <<>> \/ Head(wr').n = 0
      BY <3>1, <3>3
    <3> QED
      BY <1>4, <2>1, <3>3, <3>4
  <2>3. CASE ~Head(buffer).req.expect
    BY <1>4, <2>1, <2>3
  <2> QED
    BY <2>2, <2>3
<1>13. CASE HandleMessage
  <2> DEFINE r == Head(buffer).req
             bad == [completed |-> FALSE, content |-> "bad400", hook |-> "null"]
  <2>1. /\ busy /\ alive /\ script = <<>> /\ buffer # <<>> /\ Head(buffer).part = "body"
        /\ handled' = handled + 1 /\ UNCHANGED <<sent, sockOpen>>
    BY <1>13, Zenon DEF HandleMessage
  <2>2. r = LastSent /\ HasBody(buffer) /\ wr = <<>>
    <3>1. OneRequest(buffer, LastSent) /\ wr = <<>>
      BY <2>1 DEF TalkInv
    <3> QED
      BY <1>0, <2>1, <3>1, TokensTail
  <2>3. /\ handled' = Len(sent) /\ Len(rcvd) < Len(sent)
        /\ handled = Len(sent) - 1 /\ Len(sent) \in Nat \ {0}
    BY <1>0, <1>3, <2>1, <2>2 DEF TalkInv, AnswersFit
  <2>4. r = sent[Len(sent)] /\ Len(sent) \in 1 .. Len(sent) /\ r \in Requests
    BY <1>0, <2>2, <2>3 DEF LastSent
  <2>5. Len(sent) \in S <=> /\ handled > 0
                            /\ sent[handled].kind \in {"twice", "endThrow"}
                            /\ handled \notin S
                            /\ r.kind # "noHost"
    <3>1. Len(sent) - 1 = handled /\ (Len(sent) > 1 <=> handled > 0)
      BY <1>0, <2>3
    <3> QED
      BY <1>3, <2>4, <3>1 DEF Skips
  <2>6. sockOpen => (Len(sent) \in S <=> res.completed /\ r.kind # "noHost")
    BY <1>3, <2>1, <2>5 DEF ResponseFits
  <2>7. ASSUME NEW a \in Responses, CompleteRequest(a, handled', FALSE), UNCHANGED script,
               sockOpen => a.content = Expected(Len(sent), S),
               sockOpen => Len(sent) \in S \/ r.kind \notin {"twice", "endThrow"}
        PROVE  ReplyInv'
    <3>1. handled' \in Nat \ {0}
      BY <2>3
    <3>2. PICK w \in Replies :
              /\ w.n = handled' /\ w.answer = a.content
              /\ rcvd' = rcvd \/ rcvd' = Append(rcvd, w)
              /\ wr' # <<>> => wr' = <<w>>
              /\ ~sockOpen => rcvd' = rcvd /\ wr' = <<>>
              /\ sockOpen => ~res'.completed /\ res'.content = "blank"
              /\ ~needAfter'
      BY <2>2, <2>7, <3>1, CompleteRequestReplies
    <3>3. CASE sockOpen
      <4>1. Skips(S)' /\ AnswersFit(S)'
        BY <1>3, <2>1, <2>3, <2>7, <3>2, <3>3, AnswersReply
      <4>2. ResponseFits(S)'
        BY <2>1, <2>3, <2>4, <2>7, <3>2, <3>3 DEF ResponseFits
      <4> QED
        BY <1>2, <2>1, <4>1, <4>2 DEF Explains
    <3>4. CASE ~sockOpen
      <4>1. Skips(S)' /\ AnswersFit(S)'
        BY <1>3, <2>1, <3>2, <3>4, AnswersQuiet
      <4> QED
        BY <1>2, <2>1, <3>4, <4>1 DEF Explains
    <3> QED
      BY <3>3, <3>4
  <2>8. CASE r.kind = "noHost"
    <3>1. bad \in Responses /\ bad.content = "bad400"
      BY DEF Responses, Answers
    <3>2. CompleteRequest(bad, handled', FALSE) /\ UNCHANGED script
      BY <1>13, <2>8 DEF HandleMessage
    <3>3. Len(sent) \notin S
      BY <2>5, <2>8
    <3>4. Answer(r.kind) = "bad400"
      BY <2>8, ScriptIs DEF Kinds
    <3>5. Expected(Len(sent), S) = "bad400"
      BY <2>4, <3>3, <3>4 DEF Expected
    <3> HIDE DEF bad
    <3> QED
      BY <2>7, <2>8, <3>1, <3>2, <3>5
  <2>9. CASE r.kind # "noHost" /\ res.completed
    <3>1. CompleteRequest(res, handled', FALSE) /\ UNCHANGED script
      BY <1>13, <2>9 DEF HandleMessage
    <3>2. sockOpen => Len(sent) \in S /\ res.content = Leftover(sent[handled].kind)
      BY <1>3, <2>1, <2>6, <2>9 DEF ResponseFits
    <3>3. sockOpen => res.content = Expected(Len(sent), S)
      BY <2>3, <3>2 DEF Expected
    <3> QED
      BY <1>0, <2>7, <3>1, <3>2, <3>3
  <2>10. CASE r.kind # "noHost" /\ ~res.completed
    <3>1. /\ needAfter' = TRUE /\ script' = Script(r.kind)
          /\ UNCHANGED <<rcvd, wr>>
      BY <1>13, <2>10 DEF HandleMessage
    <3>2. Skips(S)' /\ AnswersFit(S)'
      BY <1>3, <2>1, <3>1, AnswersQuiet
    <3>3. Script(r.kind) # <<>>
      <4>1. r.kind \in Kinds
        BY <2>4, RequestsAssumption
      <4> QED
        BY <2>10, <4>1, ScriptIs DEF Kinds
    <3>4. sockOpen => handled' \notin S /\ handled' > 0 /\ script' = Script(sent'[handled'].kind)
      BY <2>1, <2>3, <2>4, <2>6, <2>10, <3>1
    <3>5. sockOpen => ResponseFits(S)'
      BY <3>1, <3>3, <3>4 DEF ResponseFits
    <3> QED
      BY <1>2, <2>1, <3>2, <3>5 DEF Explains
  <2> QED
    BY <2>8, <2>9, <2>10
<1>14. ASSUME NEW call \in {"end", "bareEnd", "throw"}, NEW r \in Responses,
              HandlerStep(call, r), r.hook = res.hook,
              call = "end" => r.completed = res.completed /\ r.content = "page",
              call = "bareEnd" => r = res,
              call = "throw" => ~r.completed /\ r.content = "error500"
       PROVE  ReplyInv'
  <2> DEFINE k == sent[handled].kind
  <2>1. /\ busy /\ alive /\ script # <<>> /\ Head(script) = call /\ script' = Tail(script)
        /\ EndResponse(r) /\ UNCHANGED <<sent, sockOpen, handled>>
    BY <1>14, Zenon DEF HandlerStep
  <2>2. handled <= Len(sent)
    BY DEF TalkInv
  <2>3. sockOpen => /\ handled > 0 /\ handled \notin S /\ k \in Kinds
                    /\ IF needAfter THEN script = Script(k)
                                    ELSE /\ script = Tail(Script(k)) /\ k \in {"twice", "endThrow"}
                                         /\ ~res.completed /\ res.content = "blank"
    <3>1. sockOpen => ResponseFits(S)
      BY <1>3
    <3>2. sockOpen => handled > 0
      BY <2>1, <3>1 DEF ResponseFits
    <3>3. sockOpen => sent[handled] \in Requests
      BY <1>0, <2>2, <3>2
    <3>4. sockOpen => k \in Kinds
      BY <3>3, RequestsAssumption
    <3> QED
      BY <2>1, <3>1, <3>2, <3>4 DEF ResponseFits
  <2>4. sockOpen /\ needAfter =>
            /\ call = "end" => k \in {"once", "twice", "endThrow"} /\ Answer(k) = "page"
            /\ call = "throw" => k = "throws" /\ Answer(k) = "error500"
            /\ call # "bareEnd"
            /\ script' = <<>> <=> k \in {"once", "throws"}
            /\ script' = Tail(Script(k))
    <3> HIDE DEF k
    <3> QED
      BY SMTT(30), <2>1, <2>3, ScriptIs DEF Kinds
  <2>5. sockOpen /\ ~needAfter =>
            /\ call = "bareEnd" => k = "twice"
            /\ call = "throw" => k = "endThrow"
            /\ call # "end"
            /\ script' = <<>>
    <3> HIDE DEF k
    <3> SUFFICES ASSUME sockOpen, ~needAfter
                 PROVE  /\ call = "bareEnd" => k = "twice"
                        /\ call = "throw" => k = "endThrow"
                        /\ call # "end" /\ script' = <<>>
      OBVIOUS
    <3>1. script = Tail(Script(k)) /\ k \in {"twice", "endThrow"} /\ k \in Kinds
      BY <2>3
    <3>2. script = IF k = "twice" THEN <<"bareEnd">> ELSE <<"throw">>
      <4>1. Script(k) = IF k = "twice" THEN <<"end", "bareEnd">> ELSE <<"end", "throw">>
        BY <3>1, ScriptIs
      <4> QED
        BY <3>1, <4>1
    <3> QED
      BY <2>1, <3>1, <3>2
  <2>6. CASE needAfter
    <3>1. ~res.completed /\ r.hook = "complete" /\ Len(rcvd) < handled /\ wr = <<>>
      BY <1>14, <2>6 DEF ReadInv, TalkInv
    <3>2. Head(script) \in {"end", "throw"}
      BY <2>6 DEF ReadInv
    <3>3. ~r.completed
      BY <1>14, <2>1, <3>1, <3>2
    <3>4. Len(sent) = handled /\ handled \in Nat \ {0}
      BY <1>0, <1>3, <2>2, <3>1 DEF AnswersFit
    <3>5. PICK a \in Responses : a = [r EXCEPT !.completed = TRUE]
      BY DEF Responses
    <3>6. CompleteRequest(a, handled, timer)
      BY <2>1, <3>1, <3>3, <3>5 DEF EndResponse
    <3>7. a.content = r.content
      BY <3>5 DEF Responses
    <3>8. PICK w \in Replies :
              /\ w.n = handled /\ w.answer = a.content
              /\ rcvd' = rcvd \/ rcvd' = Append(rcvd, w)
              /\ wr' # <<>> => wr' = <<w>>
              /\ ~sockOpen => rcvd' = rcvd /\ wr' = <<>>
              /\ sockOpen => ~res'.completed /\ res'.content = "blank"
              /\ ~needAfter'
      BY <3>1, <3>4, <3>6, CompleteRequestReplies
    <3>9. w.answer = r.content
      BY <3>7, <3>8
    <3>10. CASE sockOpen
      <4>1. r.content = Answer(k)
        BY <1>14, <2>1, <2>4, <2>6, <3>2, <3>10
      <4>2. Expected(Len(sent), S) = r.content
        BY <2>3, <3>4, <3>10, <4>1 DEF Expected
      <4>3. Skips(S)' /\ AnswersFit(S)'
        BY <1>3, <2>1, <3>1, <3>4, <3>8, <3>9, <4>2, AnswersReply
      <4>4. ResponseFits(S)'
        <5>1. sent'[handled'].kind = k
          BY <2>1
        <5>2. script' = <<>> => k \notin {"twice", "endThrow"}
          BY <2>4, <2>6, <3>10
        <5>3. script' # <<>> => k \in {"twice", "endThrow"} /\ script' = Tail(Script(k))
          BY <2>3, <2>4, <2>6, <3>10 DEF Kinds
        <5> HIDE DEF k
        <5> QED
          BY <2>1, <2>3, <3>8, <3>10, <5>1, <5>2, <5>3 DEF ResponseFits
      <4> QED
        BY <1>2, <2>1, <4>3, <4>4 DEF Explains
    <3>11. CASE ~sockOpen
      <4>1. Skips(S)' /\ AnswersFit(S)'
        BY <1>3, <2>1, <3>8, <3>11, AnswersQuiet
      <4> QED
        BY <1>2, <2>1, <3>11, <4>1 DEF Explains
    <3> QED
      BY <3>10, <3>11
  <2>7. CASE ~needAfter
    <3>1. r.hook # "complete"
      BY <1>14, <2>7 DEF ReadInv
    <3>2. res' = [r EXCEPT !.completed = TRUE] /\ UNCHANGED <<rcvd, wr, needAfter>>
      BY <2>1, <3>1, Zenon DEF EndResponse
    <3>3. res'.completed /\ res'.content = r.content
      BY <3>2 DEF Responses
    <3>4. Skips(S)' /\ AnswersFit(S)'
      BY <1>3, <2>1, <3>2, AnswersQuiet
    <3>5. CASE sockOpen
      <4>1. r.content = Leftover(k) /\ k \in {"twice", "endThrow"}
        BY <1>14, <2>3, <2>5, <2>7, <3>5 DEF Leftover
      <4>2. sent'[handled'].kind = k
        BY <2>1
      <4> HIDE DEF k
      <4>3. ResponseFits(S)'
        BY <2>1, <2>3, <2>5, <2>7, <3>3, <3>5, <4>1, <4>2 DEF ResponseFits
      <4> QED
        BY <1>2, <2>1, <3>4, <4>3 DEF Explains
    <3>6. CASE ~sockOpen
      BY <1>2, <2>1, <3>4, <3>6 DEF Explains
    <3> QED
      BY <3>5, <3>6
  <2> QED
    BY <2>6, <2>7
<1>15. CASE HandlerEnds
  BY <1>14, <1>15 DEF HandlerEnds, TypeOK, ConnOK, Responses, Answers
<1>16. CASE HandlerEndsAgain
  BY <1>0, <1>14, <1>16 DEF HandlerEndsAgain
<1>17. CASE HandlerThrows
  BY <1>14, <1>17 DEF HandlerThrows, TypeOK, ConnOK, Responses, Answers
<1>18. CASE FeedEnds
  <2>1. /\ UNCHANGED <<sent, rcvd, script, res, handled, needAfter>>
        /\ wr' = wr \/ wr' = <<>>
        /\ sockOpen' => sockOpen
    BY <1>18, Zenon DEF FeedEnds, StopReading, CloseSocket, clientVars
  <2> QED
    BY <1>4, <2>1
<1>19. CASE WriteCompletes
  <2>1. /\ UNCHANGED <<sent, rcvd, script, res, handled, needAfter>>
        /\ wr' = wr \/ wr' = <<>>
        /\ sockOpen' => sockOpen
    BY <1>19, Zenon DEF WriteCompletes, CloseSocket, clientVars, feedVars
  <2> QED
    BY <1>4, <2>1
<1>20. CASE Deadline
  <2>1. /\ UNCHANGED <<sent, rcvd, script, res, handled, needAfter>>
        /\ wr' = wr \/ wr' = <<>>
        /\ sockOpen' => sockOpen
    BY <1>20, Zenon DEF Deadline, CloseSocket, clientVars, feedVars, ioVars
  <2> QED
    BY <1>4, <2>1
<1>21. CASE UNCHANGED vars
  <2>1. UNCHANGED <<sent, rcvd, wr, sockOpen, script, res, handled, needAfter>>
    BY <1>21, Zenon DEF vars, clientVars, ioVars, connVars, feedVars
  <2> QED
    BY <1>4, <2>1
<1> QED
  BY <1>5, <1>6, <1>7, <1>8, <1>9, <1>10, <1>11, <1>12, <1>13, <1>15, <1>16, <1>17,
     <1>18, <1>19, <1>20, <1>21
     DEF Next, Client, Kernel, Worker, Over

-----------------------------------------------------------------------------
\* For a client that waits for its replies, and for a connection whose writes do
\* not block.
Unpipelined == ~Pipelining => WriteInv /\ TalkInv /\ ReplyInv
Unblocked   == ~Pipelining /\ ~MayBlock => IdleInv

LEMMA WriteInvariant == Spec => [](TypeOK /\ ReadInv /\ Unpipelined /\ Unblocked)
<1>1. Init => TypeOK /\ ReadInv /\ Unpipelined /\ Unblocked
  BY TypeInit, ReadInit, WriteInit, TalkInit, ReplyInit, IdleInit DEF Unpipelined, Unblocked
<1>2. TypeOK /\ ReadInv /\ Unpipelined /\ Unblocked /\ [Next]_vars
        => (TypeOK /\ ReadInv /\ Unpipelined /\ Unblocked)'
  BY TypeStep, ReadStep, WriteStep, TalkStep, ReplyStep, IdleStep DEF Unpipelined, Unblocked
<1> QED
  BY <1>1, <1>2, PTL DEF Spec

\* is_writing says exactly that a write is outstanding, and there is never more
\* than one, as long as the client does not pipeline.
THEOREM WriteFlagIsExact == Spec => []WriteFlagExact
<1>1. TypeOK /\ Unpipelined => WriteFlagExact
  <2> SUFFICES ASSUME TypeOK, WriteInv
               PROVE  /\ alive => isWriting = (wr # <<>> \/ Queued(WriteEnds) # {})
                      /\ \A i, j \in Queued(WriteEnds) : i = j
                      /\ wr # <<>> => Len(wr) = 1 /\ Queued(WriteEnds) = {}
    BY Zenon DEF WriteFlagExact, Unpipelined
  <2>1. Queued(WriteEnds) = WritesIn(ioq)
    BY DEF Queued, WritesIn
  <2>2. alive => (isWriting <=> (wr # <<>> \/ Queued(WriteEnds) # {}))
    BY <2>1 DEF WriteInv, NoWriteIn
  <2>3. isWriting \in BOOLEAN
    BY DEF TypeOK, ConnOK
  <2>4. alive => isWriting = (wr # <<>> \/ Queued(WriteEnds) # {})
    BY <2>2, <2>3, Zenon
  <2>5. /\ \A i, j \in Queued(WriteEnds) : i = j
        /\ wr # <<>> => Len(wr) = 1 /\ Queued(WriteEnds) = {}
    BY <2>1 DEF WriteInv, NoWriteIn, OneWriteIn
  <2> QED
    BY <2>4, <2>5
<1> QED
  BY <1>1, WriteInvariant, PTL

\* check_destroy() deletes the object when nothing is left to run on it: no read,
\* no write, no queued completion and no deadline, if the client does not pipeline.
THEOREM DeletedIsLeftAlone == Spec => []DeletedIsQuietUnpipelined
<1>1. TypeOK /\ ReadInv /\ Unpipelined => DeletedIsQuietUnpipelined
  <2> SUFFICES ASSUME TypeOK, ReadInv, WriteInv, ~alive
               PROVE  ~rd /\ wr = <<>> /\ ioq = <<>> /\ ~timer /\ ~busy
    BY DEF DeletedIsQuietUnpipelined, DeletedIsQuiet, Unpipelined
  <2>1. NoReadIn(ioq) /\ NoWriteIn(ioq) /\ ~rd /\ wr = <<>> /\ ~timer /\ ~busy
    BY DEF ReadInv, WriteInv
  <2>2. ioq = <<>>
    <3>1. \A i \in 1 .. Len(ioq) : ioq[i] \in ReadEnds \cup WriteEnds
      BY DEF TypeOK, IoOK, Completions
    <3>2. \A i \in 1 .. Len(ioq) : FALSE
      BY <2>1, <3>1 DEF NoReadIn, NoWriteIn, ReadsIn, WritesIn
    <3> QED
      BY <3>2 DEF TypeOK, IoOK
  <2> QED
    BY <2>1, <2>2
<1> QED
  BY <1>1, WriteInvariant, PTL

\* No request is handled while the write of an earlier reply, whose buffers point
\* into the response object, is with the reactor, if the client does not pipeline.
THEOREM HandlersWaitForWrites == Spec => NoHandlerWhileWriting
<1>1. Unpipelined /\ [Next]_vars => [(~Pipelining /\ handled' # handled) => wr = <<>>]_vars
  <2> SUFFICES ASSUME TalkInv, Next, handled' # handled PROVE wr = <<>>
    BY DEF Unpipelined
  <2>1. CASE HandleMessage
    BY <2>1 DEF HandleMessage, TalkInv
  <2>2. CASE Client \/ Kernel \/ Deadline \/ Over
    BY <2>2, Zenon DEF Client, SendHead, SendBody, HalfClose, Leave, Kernel, Receive,
       ReceiveEof, Flush, FlushFails, Deadline, Over, vars, connVars
  <2>3. CASE ReadArrives \/ ReadFails \/ ParseFails \/ FeedEnds \/ WriteCompletes
    BY <2>3, Zenon DEF ReadArrives, ReadFails, ParseFails, FeedEnds, WriteCompletes,
       StopReading, connVars
  <2>4. CASE HandleHeader \/ HandlerEnds \/ HandlerEndsAgain \/ HandlerThrows
    BY <2>4, Zenon DEF HandleHeader, HandlerEnds, HandlerEndsAgain, HandlerThrows, HandlerStep
  <2> QED
    BY <2>1, <2>2, <2>3, <2>4 DEF Next, Worker
<1> QED
  BY <1>1, WriteInvariant, PTL DEF Spec, NoHandlerWhileWriting

\* No object outlives its work: one that runs nothing, reads nothing and writes
\* nothing has been deleted, if no write blocks and the client does not pipeline.
THEOREM IdleIsNotLeftBehind == Spec => []IdleIsDeletedIfUnblocked
<1>1. Unblocked => IdleIsDeletedIfUnblocked
  BY DEF Unblocked, IdleInv, IdleIsDeletedIfUnblocked, IdleIsDeleted, Idle
<1> QED
  BY <1>1, WriteInvariant, PTL

\* Replies arrive in the order of the requests, one for each, and each is what the
\* handler of its request produced or what a second end() of the handler before
\* it left behind, for any number of requests of a client that does not pipeline.
THEOREM RepliesAreExplained == Spec => [](~Pipelining => RepliesExplained)
<1>1. TypeOK /\ Unpipelined => (~Pipelining => RepliesExplained)
  <2> SUFFICES ASSUME TypeOK, TalkInv, ReplyInv PROVE RepliesExplained
    BY DEF Unpipelined
  <2>1. PICK S \in SUBSET (1 .. Len(sent)) : Explains(S)
    BY DEF ReplyInv
  <2>2. \A i \in DOMAIN rcvd : i <= Len(sent)
    BY DEF TalkInv, TypeOK, ClientOK, ConnOK
  <2> QED
    BY <2>1, <2>2 DEF Explains, AnswersFit, RepliesExplained
<1> QED
  BY <1>1, WriteInvariant, PTL
=============================================================================
