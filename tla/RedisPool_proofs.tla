--------------------------- MODULE RedisPool_proofs --------------------------
(***************************************************************************)
(* Every reply is that of the thread that reads it, and idle connections   *)
(* are clean, for any number of threads, sessions, faults and crashes, and *)
(* for pieces of any length.                                               *)
(*                                                                         *)
(* In this order: a reader that got the first k symbols of a reply has not *)
(* more nor less of it (Looks), whatever pieces they came in; no command   *)
(* is the beginning of another (CommandsDiffer); the invariant says of     *)
(* each connection which of this is on its way; and each step keeps it.    *)
(*                                                                         *)
(* What a loop does after n rounds is shown by NatSet: the numbers of      *)
(* which it is true are a set with 0 and with the next of each.            *)
(***************************************************************************)
EXTENDS RedisPool, SequenceTheorems, FiniteSetTheorems, TLAPS

Texts == Seq(Int)

\* A set of numbers that has 0 and with each number the next has all.
LEMMA NatSet ==
    ASSUME NEW S \in SUBSET Nat, 0 \in S, \A n \in S : n + 1 \in S
    PROVE  S = Nat
<1> SUFFICES ASSUME NEW n \in Nat, n \notin S PROVE FALSE
    OBVIOUS
<1> DEFINE D == {k \in S : k < n}
           f == [k \in D |-> k + 1]
<1>1. IsFiniteSet(D) /\ Cardinality(D) \in Nat
  <2>1. D \in SUBSET Nat /\ \A k \in D : k <= n
    <3> SUFFICES ASSUME NEW k \in D PROVE k \in Nat /\ k <= n
      OBVIOUS
    <3>1. k \in S /\ k < n
      OBVIOUS
    <3> QED BY <3>1
  <2>2. IsFiniteSet(D)
    BY <2>1, FS_BoundedSetOfNaturals
  <2> QED BY <2>2, FS_CardinalityType
<1>2. 0 \in D
  OBVIOUS
<1>3. IsFiniteSet(D \ {0}) /\ Cardinality(D \ {0}) = Cardinality(D) - 1
  BY <1>1, <1>2, FS_RemoveElement
<1>4. f \in [D -> D \ {0}]
  <2>1. ASSUME NEW k \in D PROVE k + 1 \in D \ {0}
    <3>1. k \in S /\ k < n /\ k \in Nat /\ k + 1 \in S
      OBVIOUS
    <3>2. k + 1 # n
      BY <3>1
    <3> QED BY <3>1, <3>2
  <2> QED BY <2>1
<1>5. \E x, y \in D : x # y /\ f[x] = f[y]
  <2>1. Cardinality(D \ {0}) < Cardinality(D)
    BY <1>1, <1>3
  <2> HIDE DEF D, f
  <2> QED BY <2>1, <1>1, <1>3, <1>4, FS_PigeonHole
<1> QED BY <1>5


-----------------------------------------------------------------------------
(* Sequences.                                                              *)

\* A sequence that two others make.
LEMMA Joined ==
    ASSUME NEW s \in Texts, NEW t \in Texts
    PROVE  /\ s \o t \in Texts /\ Len(s \o t) = Len(s) + Len(t)
           /\ \A i \in 1 .. Len(s) : (s \o t)[i] = s[i]
           /\ \A i \in 1 .. Len(t) : (s \o t)[Len(s) + i] = t[i]
BY DEF Texts

LEMMA Reordered ==
    ASSUME NEW s \in Texts, NEW t \in Texts, NEW u \in Texts
    PROVE  (s \o t) \o u = s \o (t \o u)
BY ConcatAssociative DEF Texts

AllTexts(s, t, u, v) == s \in Texts /\ t \in Texts /\ u \in Texts /\ v \in Texts

LEMMA ReorderedFour ==
    ASSUME NEW s, NEW t, NEW u, NEW v, AllTexts(s, t, u, v)
    PROVE  ((s \o t) \o u) \o v = s \o (t \o (u \o v))
<1>1. ((s \o t) \o u) \o v = (s \o t) \o (u \o v)
  <2>1. s \o t \in Texts
    BY Joined DEF AllTexts
  <2> QED BY <2>1, Reordered DEF AllTexts
<1>2. (s \o t) \o (u \o v) = s \o (t \o (u \o v))
  <2>1. u \o v \in Texts
    BY Joined DEF AllTexts
  <2> QED BY SMTT(30), <2>1, Reordered DEF AllTexts
<1> QED BY <1>1, <1>2, Zenon

\* A part of a sequence.
LEMMA Part ==
    ASSUME NEW s \in Texts, NEW a \in Nat, NEW b \in Nat, b <= Len(s), a <= b
    PROVE  /\ SubSeq(s, a + 1, b) \in Texts /\ Len(SubSeq(s, a + 1, b)) = b - a
           /\ \A i \in 1 .. b - a : SubSeq(s, a + 1, b)[i] = s[a + i]
<1>1. \A i \in a + 1 .. b : s[i] \in Int
  <2>1. Len(s) \in Nat
    BY DEF Texts
  <2> QED BY <2>1 DEF Texts
<1>2. a + 1 \in Int /\ b \in Int
  OBVIOUS
<1>3. /\ SubSeq(s, a + 1, b) \in Seq(Int)
      /\ Len(SubSeq(s, a + 1, b)) = IF a + 1 <= b THEN b - (a + 1) + 1 ELSE 0
      /\ \A i \in 1 .. b - (a + 1) + 1 : SubSeq(s, a + 1, b)[i] = s[(a + 1) + i - 1]
  BY <1>1, <1>2, SubSeqProperties
<1>4. Len(SubSeq(s, a + 1, b)) = b - a
  BY <1>3
<1>5. ASSUME NEW i \in 1 .. b - a PROVE SubSeq(s, a + 1, b)[i] = s[a + i]
  <2>1. i \in 1 .. b - (a + 1) + 1 /\ (a + 1) + i - 1 = a + i
    OBVIOUS
  <2> QED BY <1>3, <2>1
<1> QED BY <1>3, <1>4, <1>5 DEF Texts

\* Sequences of the same elements.
LEMMA Same ==
    ASSUME NEW s \in Texts, NEW t \in Texts, NEW n \in Nat, Len(s) = n, Len(t) = n,
           \A i \in 1 .. n : s[i] = t[i]
    PROVE  s = t
BY SeqEqual DEF Texts

-----------------------------------------------------------------------------
(* Lines.                                                                  *)

\* A sequence b has from p on what has arrived of a line.
Shown(b, p, line) ==
    LET n == Len(line)
        l == Len(b)
    IN  /\ \A i \in 1 .. n : line[i] # CR
        /\ \A i \in 1 .. n : p + i <= l => b[p + i] = line[i]
        /\ p + n + 1 <= l => b[p + n + 1] = CR
        /\ p + n + 2 <= l => b[p + n + 2] = LF

\* A line is found where it ends, if both bytes of its end have arrived.
LEMMA LineIs ==
    ASSUME NEW r, r.buf \in Texts, r.pos \in Nat, r.pos <= Len(r.buf),
           NEW text \in Texts, Shown(r.buf, r.pos, text)
    PROVE  IF r.pos + Len(text) + 2 <= Len(r.buf) THEN LineEnd(r) = r.pos + Len(text) + 1 /\ Line(r) = text
           ELSE LineEnd(r) = 0
<1> DEFINE b == r.buf
           p == r.pos
           n == Len(text)
           l == Len(b)
<1>a. /\ b \in Texts /\ p \in Nat /\ n \in Nat /\ l \in Nat /\ p <= l
      /\ \A i \in 1 .. n : text[i] # CR
      /\ \A i \in 1 .. n : p + i <= l => b[p + i] = text[i]
      /\ p + n + 1 <= l => b[p + n + 1] = CR
      /\ p + n + 2 <= l => b[p + n + 2] = LF
  <2>1. b \in Texts /\ p \in Nat /\ p <= l
    OBVIOUS
  <2>2. n \in Nat /\ l \in Nat
    BY DEF Texts
  <2>3. /\ \A i \in 1 .. n : text[i] # CR
        /\ \A i \in 1 .. n : p + i <= l => b[p + i] = text[i]
        /\ p + n + 1 <= l => b[p + n + 1] = CR
        /\ p + n + 2 <= l => b[p + n + 2] = LF
    BY Zenon DEF Shown
  <2> QED BY ONLY <2>1, <2>2, <2>3
<1>b. r.buf = b /\ r.pos = p /\ Len(text) = n /\ Len(b) = l
  OBVIOUS
<1> HIDE DEF b, p, n, l
<1> SUFFICES IF p + n + 2 <= l THEN LineEnd(r) = p + n + 1 /\ Line(r) = text ELSE LineEnd(r) = 0
  BY <1>b
<1> USE <1>a, <1>b
<1> DEFINE ends == {j \in p + 1 .. l - 1 : b[j] = CR /\ b[j + 1] = LF}
<1>1. LineEnd(r) = IF ends = {} THEN 0 ELSE CHOOSE i \in ends : \A j \in ends : i <= j
  <2> DEFINE found == {j \in r.pos + 1 .. Len(r.buf) - 1 : r.buf[j] = CR /\ r.buf[j + 1] = LF}
  <2>1. found = ends
    OBVIOUS
  <2>2. LineEnd(r) = IF found = {} THEN 0 ELSE CHOOSE i \in found : \A j \in found : i <= j
    BY Zenon DEF LineEnd
  <2> HIDE DEF found, ends
  <2> QED BY <2>1, <2>2, Zenon
<1>2. ASSUME NEW j \in ends PROVE j \in Int /\ j >= p + n + 1 /\ p + n + 2 <= l
  <2>1. j \in p + 1 .. l - 1 /\ b[j] = CR
    OBVIOUS
  <2>2. CASE j <= p + n
    <3>1. j - p \in 1 .. n /\ p + (j - p) = j /\ j <= l
      BY <2>1, <2>2
    <3>2. b[p + (j - p)] = text[j - p]
      BY <3>1
    <3> QED BY <2>1, <3>1, <3>2
  <2>3. CASE j > p + n
    BY <2>1, <2>3
  <2> QED BY <2>1, <2>2, <2>3
<1>3. CASE ~(p + n + 2 <= l)
  <2>1. ends = {}
    BY <1>2, <1>3
  <2> HIDE DEF ends
  <2> QED BY <1>1, <2>1, <1>3
<1>4. CASE p + n + 2 <= l
  <2> DEFINE e == p + n + 1
  <2>1. e \in p + 1 .. l - 1 /\ b[e] = CR /\ b[e + 1] = LF
    <3>1. p + n + 1 <= l /\ p + n + 1 + 1 = p + n + 2 /\ p + n + 1 \in p + 1 .. l - 1
      BY <1>4
    <3> QED BY <3>1, <1>4
  <2>2. e \in ends /\ (\A j \in ends : e <= j /\ j \in Int) /\ e \in Int
    BY <2>1, <1>2
  <2>3. LineEnd(r) = e
    <3> HIDE DEF ends, e
    <3>1. ASSUME NEW k \in ends, \A j \in ends : k <= j PROVE k = e
      BY <2>2, <3>1
    <3> QED BY <1>1, <2>2, <3>1
  <2>4. Line(r) = SubSeq(b, p + 1, p + n)
    <3>1. e - 1 = p + n
      OBVIOUS
    <3> QED BY <2>3, <3>1 DEF Line
  <2>5. /\ SubSeq(b, p + 1, p + n) \in Texts /\ Len(SubSeq(b, p + 1, p + n)) = n
        /\ \A i \in 1 .. n : SubSeq(b, p + 1, p + n)[i] = b[p + i]
    <3>1. p + n \in Nat /\ p + n <= l /\ p <= p + n /\ p + n - p = n
      BY <1>4
    <3> QED BY <3>1, Part
  <2>6. \A i \in 1 .. n : b[p + i] = text[i]
    BY <1>4
  <2>7. Line(r) = text
    <3>1. \A i \in 1 .. n : SubSeq(b, p + 1, p + n)[i] = text[i]
      BY <2>5, <2>6
    <3>2. PICK cut \in Texts : cut = SubSeq(b, p + 1, p + n)
      BY ONLY <2>5
    <3>3. Len(cut) = n /\ Len(text) = n /\ n \in Nat /\ \A i \in 1 .. n : cut[i] = text[i]
      BY <2>5, <3>1, <3>2
    <3>4. cut = text
      BY ONLY <3>3, text \in Texts, Same
    <3> QED BY <2>4, <3>2, <3>4
  <2> QED BY <2>3, <2>7, <1>4
<1> QED BY <1>3, <1>4
-----------------------------------------------------------------------------
(* Readers, which are inside of one reply at most.                         *)

Types      == {"none", "error", "status", "string", "nil"}
Root(type) == [type |-> type, elements |-> -1, idx |-> -1]
Stacks  == {<<>>} \cup {<<Root(type)>> : type \in Types}
Objects == [place : {<<>>}, type : Types, value : Texts]
Lists   == {<<>>} \cup {<<o>> : o \in Objects}
Readers == [buf : Texts, pos : Nat, stack : Stacks, objects : Lists, err : BOOLEAN]

\* One field of a reader is changed.
LEMMA BufChanges ==
    ASSUME NEW r \in Readers, NEW x \in Texts, NEW c, c = [r EXCEPT !.buf = x]
    PROVE  /\ c \in Readers /\ c.buf = x /\ c.pos = r.pos /\ c.stack = r.stack
           /\ c.objects = r.objects /\ c.err = r.err
BY DEF Readers

LEMMA PosChanges ==
    ASSUME NEW r \in Readers, NEW x \in Nat, NEW c, c = [r EXCEPT !.pos = x]
    PROVE  /\ c \in Readers /\ c.buf = r.buf /\ c.pos = x /\ c.stack = r.stack
           /\ c.objects = r.objects /\ c.err = r.err
BY DEF Readers

LEMMA StackChanges ==
    ASSUME NEW r \in Readers, NEW x \in Stacks, NEW c, c = [r EXCEPT !.stack = x]
    PROVE  /\ c \in Readers /\ c.buf = r.buf /\ c.pos = r.pos /\ c.stack = x
           /\ c.objects = r.objects /\ c.err = r.err
BY DEF Readers

LEMMA ObjectsChange ==
    ASSUME NEW r \in Readers, NEW x \in Lists, NEW c, c = [r EXCEPT !.objects = x]
    PROVE  /\ c \in Readers /\ c.buf = r.buf /\ c.pos = r.pos /\ c.stack = r.stack
           /\ c.objects = x /\ c.err = r.err
BY DEF Readers
\* The reader c that has got the one object of a reply with some text.
Object(type, text) == [place |-> <<>>, type |-> type, value |-> text]
Got(c, buf, text) ==
    /\ c \in Readers /\ c.buf = buf /\ c.pos = Len(buf) /\ c.stack = <<>> /\ c.err = FALSE
    /\ \E type \in {"error", "status", "string", "nil"} :
          c.objects = <<Object(type, text)>> /\ (type = "nil" => text = <<>>)

\* The end of the root item.
LEMMA RootEnds ==
    ASSUME NEW r \in Readers, NEW type \in Types, r.stack = <<Root(type)>>, r.objects = <<>>,
           r.err = FALSE, NEW text \in Texts,
           NEW tt \in {"error", "status", "string", "nil"}, tt = "nil" => text = <<>>
    PROVE  Got(NextTask(Create(r, tt, text, Len(r.buf))), r.buf, text)
<1> DEFINE o == Object(tt, text)
           m1 == [r EXCEPT !.objects = <<o>>]
           m2 == [m1 EXCEPT !.pos = Len(r.buf)]
           m3 == [m2 EXCEPT !.stack = <<>>]
<1>1. Len(r.buf) \in Nat /\ <<o>> \in Lists /\ <<>> \in Stacks
  <2>1. o \in Objects
    <3> QED BY DEF Object, Objects, Types
  <2> QED BY <2>1 DEF Readers, Texts, Lists, Stacks
<1>2. m1 \in Readers /\ m1.buf = r.buf /\ m1.stack = r.stack /\ m1.objects = <<o>> /\ m1.err = r.err
  <2> HIDE DEF o
  <2> QED BY <1>1, ObjectsChange
<1>3. m2 \in Readers /\ m2.buf = r.buf /\ m2.pos = Len(r.buf) /\ m2.stack = r.stack
      /\ m2.objects = <<o>> /\ m2.err = r.err
  <2> HIDE DEF o, m1
  <2> QED BY <1>1, <1>2, PosChanges
<1>4. m3 \in Readers /\ m3.buf = r.buf /\ m3.pos = Len(r.buf) /\ m3.stack = <<>>
      /\ m3.objects = <<o>> /\ m3.err = r.err
  <2> HIDE DEF o, m2
  <2> QED BY <1>1, <1>3, StackChanges
<1>5. Create(r, tt, text, Len(r.buf)) = m2
  <2>1. Place(r) = <<>>
    BY DEF Place
  <2>2. Append(r.objects, [place |-> Place(r), type |-> tt, value |-> text]) = <<o>>
    BY <2>1 DEF Object
  <2> QED BY <2>2, Zenon DEF Create
<1>6. NextTask(m2) = m3
  <2>1. WithNext(m2) = {}
    <3> HIDE DEF m2
    <3> QED BY <1>3 DEF WithNext
  <2> HIDE DEF m2
  <2> QED BY <2>1 DEF NextTask
<1> HIDE DEF m2, m3
<1> QED BY <1>4, <1>5, <1>6 DEF Got

-----------------------------------------------------------------------------
(* Replies.                                                                *)

\* The reader is inside of an item, of which the first k symbols have arrived.
Within(r, type, s, k) ==
    /\ r \in Readers /\ r.stack = <<Root(type)>> /\ r.objects = <<>> /\ r.err = FALSE
    /\ Len(r.buf) = r.pos + (k - 1) /\ \A i \in 1 .. k - 1 : r.buf[r.pos + i] = s[1 + i]

\* What there is then: the text of the reply once it has all arrived, and no sooner.
Arrives(r, s, k, text) ==
    /\ k < Len(s) => TypedItem(r) = <<>>
    /\ k = Len(s) => \E c : TypedItem(r) = <<c>> /\ Got(c, r.buf, text)

LineReply(c, text) == <<c>> \o text \o NewLine

LEMMA LineReplyIs ==
    ASSUME NEW c \in Int, NEW text \in Texts
    PROVE  LET s == LineReply(c, text)
               n == Len(text)
           IN  /\ s \in Texts /\ Len(s) = n + 3 /\ s[1] = c /\ s[n + 2] = CR /\ s[n + 3] = LF
               /\ \A i \in 1 .. n : s[1 + i] = text[i]
<1> DEFINE t == <<c>> \o text
           n == Len(text)
<1>0. n \in Nat /\ Len(text) = n
  BY DEF Texts
<1> HIDE DEF n
<1>1. /\ t \in Texts /\ Len(t) = n + 1 /\ t[1] = c /\ \A i \in 1 .. n : t[1 + i] = text[i]
  <2>1. <<c>> \in Texts /\ Len(<<c>>) = 1 /\ <<c>>[1] = c /\ 1 + n = n + 1
    BY <1>0 DEF Texts
  <2>2. t \in Texts /\ Len(t) = 1 + n /\ (\A i \in 1 .. 1 : t[i] = <<c>>[i]) /\ \A i \in 1 .. n : t[1 + i] = text[i]
    BY <2>1, <1>0, Joined
  <2> HIDE DEF t
  <2> QED BY <2>1, <2>2, <1>0
<1>2. NewLine \in Texts /\ Len(NewLine) = 2 /\ NewLine[1] = CR /\ NewLine[2] = LF
  BY DEF NewLine, CR, LF, Texts
<1> HIDE DEF t
<1>3. /\ t \o NewLine \in Texts /\ Len(t \o NewLine) = n + 3
      /\ \A i \in 1 .. n + 1 : (t \o NewLine)[i] = t[i]
      /\ \A i \in 1 .. 2 : (t \o NewLine)[n + 1 + i] = NewLine[i]
  <2>1. /\ t \o NewLine \in Texts /\ Len(t \o NewLine) = Len(t) + 2
        /\ \A i \in 1 .. Len(t) : (t \o NewLine)[i] = t[i]
        /\ \A i \in 1 .. 2 : (t \o NewLine)[Len(t) + i] = NewLine[i]
    <3>1. t \in Texts /\ NewLine \in Texts /\ Len(NewLine) = 2
      BY <1>1, <1>2
    <3>2. /\ t \o NewLine \in Texts /\ Len(t \o NewLine) = Len(t) + Len(NewLine)
          /\ \A i \in 1 .. Len(t) : (t \o NewLine)[i] = t[i]
          /\ \A i \in 1 .. Len(NewLine) : (t \o NewLine)[Len(t) + i] = NewLine[i]
      BY <3>1, Joined
    <3> QED BY <3>1, <3>2
  <2>2. Len(t) = n + 1 /\ Len(t) + 2 = n + 3
    BY <1>0, <1>1
  <2> QED BY <2>1, <2>2
<1>4. (t \o NewLine)[n + 2] = CR /\ (t \o NewLine)[n + 3] = LF
  <2>1. n + 1 + 1 = n + 2 /\ n + 1 + 2 = n + 3 /\ 1 \in 1 .. 2 /\ 2 \in 1 .. 2
    BY <1>0
  <2>2. (t \o NewLine)[n + 1 + 1] = CR /\ (t \o NewLine)[n + 1 + 2] = LF
    BY <2>1, <1>2, <1>3
  <2> QED BY <2>1, <2>2
<1>5. (t \o NewLine)[1] = c /\ \A i \in 1 .. n : (t \o NewLine)[1 + i] = text[i]
  BY <1>0, <1>1, <1>3
<1>6. LineReply(c, text) = t \o NewLine
  BY DEF LineReply, t
<1> QED BY <1>3, <1>4, <1>5, <1>6 DEF n

\* A sequence that has a line after its first symbol, which its reader has read.
Leads(s, line) ==
    LET n == Len(line)
    IN  /\ s \in Texts /\ Len(s) >= n + 3 /\ s[n + 2] = CR /\ s[n + 3] = LF
        /\ \A i \in 1 .. n : s[1 + i] = line[i] /\ line[i] # CR

LEMMA FirstLine ==
    ASSUME NEW line \in Texts, NEW s, Leads(s, line), NEW k \in 1 .. Len(s),
           NEW r, NEW type, Within(r, type, s, k)
    PROVE  IF Len(line) + 3 <= k THEN LineEnd(r) = r.pos + Len(line) + 1 /\ Line(r) = line
           ELSE LineEnd(r) = 0
<1> DEFINE n == Len(line)
           b == r.buf
           p == r.pos
           l == Len(b)
<1>1. /\ n \in Nat /\ b \in Texts /\ p \in Nat /\ l \in Nat /\ l = p + (k - 1)
      /\ \A i \in 1 .. k - 1 : b[p + i] = s[1 + i]
  BY DEF Within, Readers, Texts
<1>2. /\ Len(s) \in Nat /\ s[n + 2] = CR /\ s[n + 3] = LF
      /\ \A i \in 1 .. n : s[1 + i] = line[i] /\ line[i] # CR
  BY DEF Leads, Texts
<1>3. k \in Nat /\ k >= 1
  BY <1>2
<1>4. r.buf = b /\ r.pos = p /\ Len(b) = l /\ Len(line) = n
  OBVIOUS
<1> HIDE DEF n, b, p, l
<1>5. \A i \in 1 .. n : line[i] # CR
  BY <1>2
<1>6. /\ \A i \in 1 .. n : p + i <= l => b[p + i] = line[i]
      /\ p + n + 1 <= l => b[p + n + 1] = CR
      /\ p + n + 2 <= l => b[p + n + 2] = LF
  <2>1. ASSUME NEW i \in 1 .. n, p + i <= l PROVE b[p + i] = line[i]
    <3>1. i \in 1 .. k - 1
      BY <2>1, <1>1, <1>3
    <3> QED BY <3>1, <1>1, <1>2
  <2>2. ASSUME p + n + 1 <= l PROVE b[p + n + 1] = CR
    <3>1. n + 1 \in 1 .. k - 1 /\ p + (n + 1) = p + n + 1 /\ 1 + (n + 1) = n + 2
      BY <2>2, <1>1, <1>3
    <3>2. b[p + (n + 1)] = s[1 + (n + 1)]
      BY <3>1, <1>1
    <3> QED BY <3>1, <3>2, <1>2
  <2>3. ASSUME p + n + 2 <= l PROVE b[p + n + 2] = LF
    <3>1. n + 2 \in 1 .. k - 1 /\ p + (n + 2) = p + n + 2 /\ 1 + (n + 2) = n + 3
      BY <2>3, <1>1, <1>3
    <3>2. b[p + (n + 2)] = s[1 + (n + 2)]
      BY <3>1, <1>1
    <3> QED BY <3>1, <3>2, <1>2
  <2> QED BY <2>1, <2>2, <2>3
<1>7. IF p + n + 2 <= l THEN LineEnd(r) = p + n + 1 /\ Line(r) = line ELSE LineEnd(r) = 0
  <2>1. p <= l
    BY <1>1, <1>3
  <2>2. Shown(r.buf, r.pos, line)
    BY <1>4, <1>5, <1>6 DEF Shown
  <2> QED BY <2>1, <2>2, <1>1, <1>4, LineIs
<1>8. n + 3 <= k <=> p + n + 2 <= l
  BY <1>1, <1>3
<1> QED BY <1>4, <1>7, <1>8

\* A reply that is a status or an error.
LEMMA LineArrives ==
    ASSUME NEW text \in Texts, \A i \in 1 .. Len(text) : text[i] # CR, NEW c \in Int,
           NEW type \in {"error", "status"}, NEW k \in 1 .. Len(LineReply(c, text)),
           NEW r, Within(r, type, LineReply(c, text), k)
    PROVE  Arrives(r, LineReply(c, text), k, text)
<1> DEFINE s == LineReply(c, text)
           n == Len(text)
           l == Len(r.buf)
<1>1. n \in Nat /\ r.pos \in Nat /\ l \in Nat /\ l = r.pos + (k - 1)
  BY DEF Within, Readers, Texts
<1>2. Leads(s, text) /\ Len(s) = n + 3
  <2>1. /\ s \in Texts /\ Len(s) = n + 3 /\ s[n + 2] = CR /\ s[n + 3] = LF
        /\ \A i \in 1 .. n : s[1 + i] = text[i]
    BY <1>1, LineReplyIs
  <2> HIDE DEF s
  <2> QED BY <2>1, <1>1 DEF Leads
<1>3. Within(r, type, s, k) /\ k \in 1 .. Len(s) /\ k \in Nat
  BY <1>1, <1>2
<1>4. Top(r).type = type /\ TypedItem(r) = LineItem(r) /\ type # "integer"
  BY DEF Within, Top, Root, TypedItem
<1> HIDE DEF s
<1>5. IF n + 3 <= k THEN LineEnd(r) = r.pos + n + 1 /\ Line(r) = text ELSE LineEnd(r) = 0
  BY <1>2, <1>3, FirstLine
<1> HIDE DEF n, l
<1>6. CASE k < Len(s)
  <2>1. LineEnd(r) = 0 /\ k # Len(s)
    BY <1>1, <1>2, <1>3, <1>5, <1>6
  <2> QED BY <2>1, <1>4 DEF LineItem, Arrives, s
<1>7. CASE k = Len(s)
  <2>1. Line(r) = text /\ LineEnd(r) # 0 /\ LineEnd(r) + 1 = l
    BY <1>1, <1>2, <1>5, <1>7
  <2>2. LineItem(r) = <<NextTask(Create(r, type, text, l))>>
    BY <2>1, <1>4 DEF LineItem
  <2>3. Got(NextTask(Create(r, type, text, l)), r.buf, text)
    BY RootEnds DEF Within, l, Types
  <2> QED BY <2>2, <2>3, <1>4, <1>7 DEF Arrives, s
<1> QED BY <1>2, <1>3, <1>6, <1>7

\* The reply that there is nothing.
LEMMA NilArrives ==
    ASSUME NEW k \in 1 .. Len(NilReply), NEW r, Within(r, "string", NilReply, k)
    PROVE  Arrives(r, NilReply, k, <<>>)
<1> DEFINE l == Len(r.buf)
           line == Written(-1)
<1>1. r.pos \in Nat /\ l \in Nat /\ l = r.pos + (k - 1)
  BY DEF Within, Readers, Texts
<1>2. line \in Texts /\ Len(line) = 1 /\ line[1] = 256 /\ LongLong(line) = -1
  BY DEF Written, Texts, LongLong, Byte
<1>3. Leads(NilReply, line) /\ Len(NilReply) = 4
  <2>1. NilReply = LineReply(Dollar, line)
    BY DEF NilReply, LineReply
  <2>2. Dollar \in Int
    BY DEF Dollar
  <2> HIDE DEF line
  <2>3. /\ NilReply \in Texts /\ Len(NilReply) = Len(line) + 3
        /\ NilReply[Len(line) + 2] = CR /\ NilReply[Len(line) + 3] = LF
        /\ \A i \in 1 .. Len(line) : NilReply[1 + i] = line[i]
    <3>1. line \in Texts
      BY <1>2
    <3> QED BY <2>1, <2>2, <3>1, LineReplyIs
  <2>4. \A i \in 1 .. 1 : line[i] # CR
    BY <1>2 DEF CR
  <2> QED BY <2>3, <2>4, <1>2 DEF Leads
<1>4. TypedItem(r) = BulkItem(r)
  BY DEF Within, Top, Root, TypedItem
<1>5. k \in 1 .. 4
  BY <1>3
<1> HIDE DEF l, line
<1>6. IF 4 <= k THEN LineEnd(r) = r.pos + 2 /\ Line(r) = line ELSE LineEnd(r) = 0
  <2>1. IF Len(line) + 3 <= k THEN LineEnd(r) = r.pos + Len(line) + 1 /\ Line(r) = line ELSE LineEnd(r) = 0
    BY <1>2, <1>3, FirstLine
  <2> QED BY <2>1, <1>1, <1>2
<1>7. CASE k # 4
  <2>1. LineEnd(r) = 0
    BY <1>5, <1>6, <1>7
  <2> QED BY <2>1, <1>3, <1>4, <1>7 DEF BulkItem, Arrives
<1>8. CASE k = 4
  <2>1. Line(r) = line /\ LineEnd(r) # 0 /\ LineEnd(r) + 1 = l
    BY <1>1, <1>6, <1>8
  <2>2. BulkItem(r) = <<NextTask(Create(r, "nil", <<>>, l))>>
    BY <2>1, <1>2 DEF BulkItem
  <2>3. Got(NextTask(Create(r, "nil", <<>>, l)), r.buf, <<>>)
    <3>1. <<>> \in Texts /\ "string" \in Types
      BY DEF Texts, Types
    <3>2. /\ r \in Readers /\ r.stack = <<Root("string")>> /\ r.objects = <<>> /\ r.err = FALSE
      BY DEF Within
    <3> QED BY <3>1, <3>2, RootEnds DEF l
  <2> QED BY <2>2, <2>3, <1>3, <1>4, <1>8 DEF Arrives
<1> QED BY <1>7, <1>8

LEMMA BulkOfIs ==
    ASSUME NEW text \in Texts, NEW n \in Nat, Len(text) = n
    PROVE  LET s == BulkOf(text)
           IN  /\ s \in Texts /\ Len(s) = n + 6 /\ s[1] = Dollar /\ s[2] = 257 + n
               /\ s[3] = CR /\ s[4] = LF /\ \A i \in 1 .. n : s[4 + i] = text[i]
<1> DEFINE a == LineReply(Dollar, Written(n))
           b == a \o text
           s == b \o NewLine
<1>1. /\ a \in Texts /\ Len(a) = 4 /\ a[1] = Dollar /\ a[2] = 257 + n /\ a[3] = CR /\ a[4] = LF
  <2>1. Written(n) \in Texts /\ Len(Written(n)) = 1 /\ Written(n)[1] = 257 + n
    BY DEF Written, Texts
  <2>2. Dollar \in Int
    BY DEF Dollar
  <2> DEFINE line == Written(n)
  <2>3. /\ a \in Texts /\ Len(a) = Len(line) + 3 /\ a[1] = Dollar
        /\ a[Len(line) + 2] = CR /\ a[Len(line) + 3] = LF
        /\ \A i \in 1 .. Len(line) : a[1 + i] = line[i]
    <3>1. line \in Texts /\ a = LineReply(Dollar, line)
      BY <2>1
    <3> HIDE DEF line, a
    <3> QED BY <2>2, <3>1, LineReplyIs
  <2> HIDE DEF a
  <2> QED BY <2>1, <2>3
<1>2. NewLine \in Texts /\ Len(NewLine) = 2
  BY DEF NewLine, CR, LF, Texts
<1>3. BulkOf(text) = s
  BY DEF BulkOf, LineReply
<1> HIDE DEF a
<1>4. /\ b \in Texts /\ Len(b) = n + 4 /\ \A i \in 1 .. 4 : b[i] = a[i]
      /\ \A i \in 1 .. n : b[4 + i] = text[i]
  <2>1. /\ b \in Texts /\ Len(b) = Len(a) + Len(text) /\ \A i \in 1 .. Len(a) : b[i] = a[i]
        /\ \A i \in 1 .. Len(text) : b[Len(a) + i] = text[i]
    <3>1. a \in Texts
      BY <1>1
    <3> QED BY <3>1, Joined
  <2> HIDE DEF b
  <2> QED BY <2>1, <1>1
<1> HIDE DEF b
<1>5. s \in Texts /\ Len(s) = n + 6 /\ \A i \in 1 .. n + 4 : s[i] = b[i]
  <2>1. s \in Texts /\ Len(s) = Len(b) + Len(NewLine) /\ \A i \in 1 .. Len(b) : s[i] = b[i]
    BY <1>2, <1>4, Joined
  <2> HIDE DEF s
  <2> QED BY <2>1, <1>2, <1>4
<1> HIDE DEF s
<1>6. \A i \in 1 .. 4 : s[i] = a[i]
  BY <1>4, <1>5
<1>7. \A i \in 1 .. n : s[4 + i] = text[i]
  <2> SUFFICES ASSUME NEW i \in 1 .. n PROVE s[4 + i] = text[i]
    OBVIOUS
  <2>1. 4 + i \in 1 .. n + 4
    OBVIOUS
  <2> QED BY <2>1, <1>4, <1>5
<1> QED BY <1>1, <1>3, <1>5, <1>6, <1>7

\* The reply that is a text of some length, whatever its bytes are.
LEMMA BulkArrives ==
    ASSUME NEW text \in Texts, NEW k \in 1 .. Len(BulkOf(text)),
           NEW r, Within(r, "string", BulkOf(text), k)
    PROVE  Arrives(r, BulkOf(text), k, text)
<1> DEFINE s == BulkOf(text)
           n == Len(text)
           b == r.buf
           p == r.pos
           l == Len(b)
           line == Written(n)
<1>1. /\ n \in Nat /\ b \in Texts /\ p \in Nat /\ l \in Nat /\ l = p + (k - 1)
      /\ \A i \in 1 .. k - 1 : b[p + i] = s[1 + i]
  BY DEF Within, Readers, Texts
<1>2. /\ s \in Texts /\ Len(s) = n + 6 /\ s[1] = Dollar /\ s[2] = 257 + n
      /\ s[3] = CR /\ s[4] = LF /\ \A i \in 1 .. n : s[4 + i] = text[i]
  BY <1>1, BulkOfIs
<1>3. line \in Texts /\ Len(line) = 1 /\ line[1] = 257 + n /\ LongLong(line) = n
  <2>1. line \in Texts /\ Len(line) = 1 /\ line[1] = 257 + n
    BY <1>1 DEF Written, Texts
  <2>2. 257 + n \notin Byte /\ (257 + n) - 257 = n
    <3>1. n \in Nat
      BY <1>1
    <3> HIDE DEF n
    <3> QED BY <3>1 DEF Byte
  <2> HIDE DEF line, n
  <2> QED BY <2>1, <2>2 DEF LongLong
<1>4. Within(r, "string", s, k) /\ k \in 1 .. Len(s) /\ k \in 1 .. n + 6
  BY <1>2
<1>5. TypedItem(r) = BulkItem(r)
  BY DEF Within, Top, Root, TypedItem
<1> HIDE DEF s, n, b, p, l, line
<1>6. Leads(s, line)
  <2>1. \A i \in 1 .. 1 : s[1 + i] = line[i] /\ line[i] # CR
    BY <1>1, <1>2, <1>3 DEF CR
  <2> QED BY <2>1, <1>1, <1>2, <1>3 DEF Leads
<1>7. IF 4 <= k THEN LineEnd(r) = p + 2 /\ Line(r) = line ELSE LineEnd(r) = 0
  <2>1. IF Len(line) + 3 <= k THEN LineEnd(r) = r.pos + Len(line) + 1 /\ Line(r) = line ELSE LineEnd(r) = 0
    BY <1>3, <1>4, <1>6, FirstLine
  <2> QED BY <2>1, <1>1, <1>3 DEF p
<1>8. LineEnd(r) # 0 => BulkEnd(r, n) = p + n + 5
  BY <1>1, <1>7 DEF BulkEnd
<1>9. CASE k # n + 6
  <2>1. LineEnd(r) = 0 \/ (LongLong(Line(r)) >= 0 /\ BulkEnd(r, LongLong(Line(r))) > Len(r.buf))
    <3>1. CASE k < 4
      BY <3>1, <1>1, <1>4, <1>7
    <3>2. CASE 4 <= k
      <4>1. LineEnd(r) = p + 2 /\ LineEnd(r) # 0 /\ LongLong(Line(r)) = n /\ p + n + 5 > l
        BY <3>2, <1>1, <1>3, <1>4, <1>7, <1>9
      <4> QED BY <4>1, <1>1, <1>8 DEF l, b
    <3> QED BY <3>1, <3>2, <1>1, <1>4
  <2> QED BY <2>1, <1>2, <1>5, <1>9 DEF BulkItem, Arrives, s
<1>10. CASE k = n + 6
  <2>1. LineEnd(r) = p + 2 /\ Line(r) = line /\ LineEnd(r) # 0 /\ BulkEnd(r, n) = l /\ n >= 0 /\ ~(n < 0) /\ ~(l > l)
    BY <1>1, <1>7, <1>8, <1>10
  <2>2. SubSeq(b, LineEnd(r) + 2, LineEnd(r) + 1 + n) = text
    <3> DEFINE q == p + 3
               z == q + n
    <3>1. LineEnd(r) + 2 = q + 1 /\ LineEnd(r) + 1 + n = z
      BY <2>1, <1>1
    <3>2. q \in Nat /\ z \in Nat /\ z <= l /\ q <= z /\ z - q = n
      BY <1>1, <1>10
    <3>3. \A i \in 1 .. n : b[q + i] = text[i]
      <4> SUFFICES ASSUME NEW i \in 1 .. n PROVE b[q + i] = text[i]
        OBVIOUS
      <4>1. 3 + i \in 1 .. k - 1 /\ p + (3 + i) = q + i /\ 1 + (3 + i) = 4 + i
        BY <1>1, <1>10
      <4> HIDE DEF q
      <4>2. b[p + (3 + i)] = s[1 + (3 + i)]
        BY <4>1, <1>1
      <4> QED BY <4>1, <4>2, <1>2
    <3>4. /\ SubSeq(b, q + 1, z) \in Texts /\ Len(SubSeq(b, q + 1, z)) = z - q
          /\ \A i \in 1 .. z - q : SubSeq(b, q + 1, z)[i] = b[q + i]
      <4>1. Len(b) = l
        BY DEF l
      <4> HIDE DEF q, z
      <4> QED BY <4>1, <3>2, <1>1, Part
    <3> HIDE DEF q, z
    <3>5. SubSeq(b, q + 1, z) = text
      <4>1. \A i \in 1 .. n : SubSeq(b, q + 1, z)[i] = text[i]
        BY <3>2, <3>3, <3>4
      <4>2. Len(text) = n
        BY DEF n
      <4>3. text \in Texts /\ n \in Nat /\ z - q = n
        BY <3>2, <1>1
      <4>4. SubSeq(b, q + 1, z) \in Texts /\ Len(SubSeq(b, q + 1, z)) = n
        BY ONLY <3>4, <4>3
      <4> QED BY ONLY <4>1, <4>2, <4>3, <4>4, Same
    <3> QED BY <3>1, <3>5
  <2>3. BulkItem(r) = <<NextTask(Create(r, "string", text, l))>>
    <3>1. LongLong(Line(r)) = n /\ Len(r.buf) = l /\ r.buf = b
      BY <2>1, <1>3 DEF l, b
    <3> QED BY <3>1, <2>1, <2>2 DEF BulkItem
  <2>4. Got(NextTask(Create(r, "string", text, l)), r.buf, text)
    BY RootEnds DEF Within, l, b, Types
  <2> QED BY <2>3, <2>4, <1>2, <1>5, <1>10 DEF Arrives, s
<1> QED BY <1>9, <1>10
\* The replies of some type that have a text.
IsReply(s, type, text) ==
    \/ /\ type = "status" /\ s = LineReply(Plus, text)
       /\ \A i \in 1 .. Len(text) : text[i] # CR
    \/ /\ type = "error" /\ s = LineReply(Minus, text)
       /\ \A i \in 1 .. Len(text) : text[i] # CR
    \/ type = "string" /\ s = BulkOf(text)
    \/ type = "string" /\ s = NilReply /\ text = <<>>

LEMMA ReplyIs ==
    ASSUME NEW text \in Texts, NEW s, NEW type, IsReply(s, type, text)
    PROVE  /\ s \in Texts /\ Len(s) \in Nat /\ Len(s) >= 3
           /\ s[1] \in DOMAIN TypeOf /\ TypeOf[s[1]] = type /\ type \in Types \ {"none"}
<1>1. Len(text) \in Nat
  BY DEF Texts
<1>2. /\ Plus \in DOMAIN TypeOf /\ TypeOf[Plus] = "status"
      /\ Minus \in DOMAIN TypeOf /\ TypeOf[Minus] = "error"
      /\ Dollar \in DOMAIN TypeOf /\ TypeOf[Dollar] = "string"
  BY DEF TypeOf, Plus, Minus, Dollar, Colon, Star
<1>3. Plus \in Int /\ Minus \in Int /\ Dollar \in Int
  BY DEF Plus, Minus, Dollar
<1>4. ASSUME NEW c \in Int, NEW t \in Texts
      PROVE  LineReply(c, t) \in Texts /\ Len(LineReply(c, t)) = Len(t) + 3 /\ LineReply(c, t)[1] = c /\ Len(t) \in Nat
  BY LineReplyIs DEF Texts
<1>5. CASE type = "status" /\ s = LineReply(Plus, text)
  BY <1>2, <1>3, <1>4, <1>5 DEF Types
<1>6. CASE type = "error" /\ s = LineReply(Minus, text)
  BY <1>2, <1>3, <1>4, <1>6 DEF Types
<1>7. CASE type = "string" /\ s = BulkOf(text)
  <2>1. s \in Texts /\ Len(s) = Len(text) + 6 /\ s[1] = Dollar
    BY <1>1, <1>7, BulkOfIs
  <2> QED BY <1>1, <1>2, <1>7, <2>1 DEF Types
<1>8. CASE type = "string" /\ s = NilReply
  <2>1. s = LineReply(Dollar, Written(-1)) /\ Written(-1) \in Texts
    BY <1>8 DEF NilReply, LineReply, Written, Texts
  <2> QED BY <1>2, <1>3, <1>4, <1>8, <2>1 DEF Types
<1> QED BY <1>5, <1>6, <1>7, <1>8 DEF IsReply

LEMMA ReplyArrives ==
    ASSUME NEW text \in Texts, NEW s, NEW type, IsReply(s, type, text),
           NEW k \in 1 .. Len(s), NEW r, Within(r, type, s, k)
    PROVE  Arrives(r, s, k, text)
<1>1. Plus \in Int /\ Minus \in Int
  BY DEF Plus, Minus
<1> QED BY <1>1, LineArrives, BulkArrives, NilArrives DEF IsReply

-----------------------------------------------------------------------------
(* A look at the reader.                                                   *)

\* The rounds end where one changes nothing.
LEMMA Settles ==
    ASSUME NEW r, NEW l \in Nat, Len(r.buf) = l, processItem(processItem(r)) = processItem(r)
    PROVE  ProcessItems(r) = processItem(r)
<1> DEFINE Rounds(f) == f = [n \in Nat |-> IF n = 0 THEN r ELSE processItem(f[n - 1])]
           after == CHOOSE f : Rounds(f)
           rounds == [n \in Nat |-> IF n = 0 THEN r ELSE processItem(r)]
<1>1. ProcessItems(r) = after[l + 1]
  BY DEF ProcessItems
<1>2. Rounds(rounds)
  <2>1. \A n \in Nat : n # 0 => n - 1 \in Nat
    OBVIOUS
  <2>2. \A n \in Nat : rounds[n] = IF n = 0 THEN r ELSE processItem(rounds[n - 1])
    BY <2>1
  <2> QED BY <2>2
<1>3. Rounds(after)
  <2> HIDE DEF Rounds, rounds
  <2> QED BY <1>2
<1>4. \A n \in Nat : after[n] = IF n = 0 THEN r ELSE processItem(after[n - 1])
  <2> HIDE DEF after
  <2> QED BY <1>3
<1> HIDE DEF after, Rounds, rounds
<1> DEFINE S == {n \in Nat : after[n + 1] = processItem(r)}
<1>5. 0 \in S
  <2>1. after[1] = processItem(after[0]) /\ after[0] = r
    BY <1>4
  <2> QED BY <2>1
<1>6. \A n \in S : n + 1 \in S
  <2> SUFFICES ASSUME NEW n \in S PROVE n + 1 \in S
    OBVIOUS
  <2>1. after[(n + 1) + 1] = processItem(after[n + 1])
    BY <1>4
  <2> QED BY <2>1
<1>7. S = Nat
  <2> HIDE DEF S
  <2>1. S \in SUBSET Nat
    BY DEF S
  <2> QED BY <1>5, <1>6, <2>1, NatSet
<1> QED BY <1>1, <1>7

\* The reader is at the beginning of an item, of which the first k symbols have arrived.
Started(r, s, k) ==
    /\ r \in Readers /\ r.stack = <<Root("none")>> /\ r.objects = <<>> /\ r.err = FALSE
    /\ Len(r.buf) = r.pos + k /\ \A i \in 1 .. k : r.buf[r.pos + i] = s[i]

\* A round that reads the type of a reply.
LEMMA TypeIsRead ==
    ASSUME NEW text \in Texts, NEW s, NEW type, IsReply(s, type, text),
           NEW k \in 1 .. Len(s), NEW r, Started(r, s, k)
    PROVE  Within(ReadType(r), type, s, k)
<1> DEFINE m1 == [r EXCEPT !.stack = <<Root(type)>>]
           m2 == [m1 EXCEPT !.pos = r.pos + 1]
<1>1. /\ r \in Readers /\ r.stack = <<Root("none")>> /\ r.objects = <<>> /\ r.err = FALSE
      /\ Len(r.buf) = r.pos + k /\ r.pos \in Nat /\ k \in Nat /\ k >= 1
      /\ \A i \in 1 .. k : r.buf[r.pos + i] = s[i]
  <2>1. Len(s) \in Nat
    BY ReplyIs
  <2> QED BY <2>1 DEF Started, Readers
<1>2. s[1] \in DOMAIN TypeOf /\ TypeOf[s[1]] = type /\ <<Root(type)>> \in Stacks
  BY ReplyIs DEF Stacks
<1>3. r.buf[r.pos + 1] = s[1]
  BY <1>1
<1>4. Top(r) = Root("none") /\ Root("none").type = "none" /\ [Root("none") EXCEPT !.type = type] = Root(type)
  BY <1>1 DEF Top, Root
<1>5. m1 \in Readers /\ m1.buf = r.buf /\ m1.pos = r.pos /\ m1.stack = <<Root(type)>>
      /\ m1.objects = r.objects /\ m1.err = r.err
  BY <1>1, <1>2, StackChanges
<1>6. m2 \in Readers /\ m2.buf = r.buf /\ m2.pos = r.pos + 1 /\ m2.stack = <<Root(type)>>
      /\ m2.objects = r.objects /\ m2.err = r.err
  <2>1. r.pos + 1 \in Nat
    BY <1>1
  <2> HIDE DEF m1
  <2> QED BY <1>5, <2>1, PosChanges
<1>7. ReadType(r) = m2
  <2>1. SetTop(r, Root(type)) = m1
    <3>1. [r.stack EXCEPT ![Len(r.stack)] = Root(type)] = <<Root(type)>>
      BY <1>1
    <3> QED BY <3>1, Zenon DEF SetTop
  <2>2. ReadType(r) = [SetTop(r, Root(type)) EXCEPT !.pos = @ + 1]
    BY <1>2, <1>3, <1>4, Zenon DEF ReadType
  <2> HIDE DEF m1
  <2> QED BY <1>5, <2>1, <2>2
<1>8. Len(r.buf) = r.pos + 1 + (k - 1) /\ \A i \in 1 .. k - 1 : r.buf[r.pos + 1 + i] = s[1 + i]
  <2>1. ASSUME NEW i \in 1 .. k - 1 PROVE r.buf[r.pos + 1 + i] = s[1 + i]
    <3>0. k \in Nat /\ r.pos \in Nat
      BY <1>1
    <3>1. 1 + i \in 1 .. k /\ r.pos + (1 + i) = r.pos + 1 + i
      BY <3>0
    <3>2. r.buf[r.pos + (1 + i)] = s[1 + i]
      BY <1>1, <3>1
    <3> QED BY <3>1, <3>2
  <2> QED BY <1>1, <2>1
<1> HIDE DEF m2
<1> QED BY <1>1, <1>6, <1>7, <1>8 DEF Within

\* A round goes on as far as it can.
LEMMA RoundIs ==
    ASSUME NEW text \in Texts, NEW s, NEW type, IsReply(s, type, text),
           NEW k \in 1 .. Len(s), NEW r, Started(r, s, k) \/ Within(r, type, s, k)
    PROVE  /\ processItem(processItem(r)) = processItem(r)
           /\ k < Len(s) => Within(processItem(r), type, s, k)
           /\ k = Len(s) => Got(processItem(r), processItem(r).buf, text)
<1> DEFINE typed == ReadType(r)
<1>1. type # "none" /\ Len(s) \in Nat /\ k \in Nat /\ k >= 1 /\ k <= Len(s)
  BY ReplyIs
<1>2. ASSUME NEW x, Within(x, type, s, k)
      PROVE  ~Waits(x) /\ ReadType(x) = x /\ x.err = FALSE
  BY <1>1, <1>2 DEF Within, Waits, Top, Root, ReadType
<1>3. ~Waits(r) /\ Within(typed, type, s, k)
  <2>1. CASE Started(r, s, k)
    <3>1. ~Waits(r)
      <4>1. Len(r.buf) = r.pos + k /\ r.pos \in Nat /\ r.stack # <<>>
        BY <2>1 DEF Started, Readers
      <4> QED BY <4>1, <1>1 DEF Waits
    <3> QED BY <2>1, <3>1, TypeIsRead
  <2>2. CASE Within(r, type, s, k)
    BY <1>2, <2>2
  <2> QED BY <2>1, <2>2
<1> HIDE DEF typed
<1>4. processItem(r) = IF ItemIn(typed) = <<>> THEN typed ELSE ItemIn(typed)[1]
  BY <1>3 DEF processItem, typed
<1>5. ~Waits(typed) /\ ReadType(typed) = typed /\ ItemIn(typed) = TypedItem(typed)
  BY <1>2, <1>3 DEF ItemIn
<1>6. Arrives(typed, s, k, text)
  BY <1>3, ReplyArrives
<1>7. CASE k < Len(s)
  <2>1. ItemIn(typed) = <<>> /\ k # Len(s)
    BY <1>1, <1>5, <1>6, <1>7 DEF Arrives
  <2>2. processItem(r) = typed
    BY <1>4, <2>1
  <2>3. processItem(typed) = typed
    BY <1>5, <2>1 DEF processItem
  <2> QED BY <1>3, <2>1, <2>2, <2>3
<1>8. CASE k = Len(s)
  <2>1. PICK c : TypedItem(typed) = <<c>> /\ Got(c, typed.buf, text)
    BY <1>6, <1>8 DEF Arrives
  <2>2. processItem(r) = c
    BY <1>4, <1>5, <2>1
  <2>3. processItem(c) = c /\ c.buf = typed.buf
    BY <2>1 DEF Got, processItem, Waits
  <2> QED BY <1>1, <1>8, <2>1, <2>2, <2>3
<1> QED BY <1>1, <1>7, <1>8
\* What has been used is cut from the buffer, which the reader is in the same place of.
Cut(done) == IF done.pos >= Consumed THEN [done EXCEPT !.buf = Drop(@, done.pos), !.pos = 0] ELSE done

LEMMA CutIs ==
    ASSUME NEW r \in Readers, r.pos <= Len(r.buf)
    PROVE  LET c == Cut(r)
           IN  /\ c \in Readers /\ c.stack = r.stack /\ c.objects = r.objects /\ c.err = r.err
               /\ Len(c.buf) - c.pos = Len(r.buf) - r.pos
               /\ \A i \in 1 .. Len(r.buf) - r.pos : c.buf[c.pos + i] = r.buf[r.pos + i]
<1> DEFINE b == Drop(r.buf, r.pos)
           m1 == [r EXCEPT !.buf = b]
           zero == 0
           m2 == [m1 EXCEPT !.pos = zero]
<1>1. r.buf \in Texts /\ r.pos \in Nat /\ Len(r.buf) \in Nat
  BY DEF Readers, Texts
<1>2. /\ b \in Texts /\ Len(b) = Len(r.buf) - r.pos
      /\ \A i \in 1 .. Len(r.buf) - r.pos : b[i] = r.buf[r.pos + i]
  <2>1. /\ SubSeq(r.buf, r.pos + 1, Len(r.buf)) \in Texts
        /\ Len(SubSeq(r.buf, r.pos + 1, Len(r.buf))) = Len(r.buf) - r.pos
        /\ \A i \in 1 .. Len(r.buf) - r.pos : SubSeq(r.buf, r.pos + 1, Len(r.buf))[i] = r.buf[r.pos + i]
    <3> DEFINE t == r.buf
               q == r.pos
               z == Len(t)
    <3>1. t \in Texts /\ q \in Nat /\ z \in Nat /\ z <= Len(t) /\ q <= z
      BY <1>1
    <3> HIDE DEF t, q, z
    <3>2. /\ SubSeq(t, q + 1, z) \in Texts /\ Len(SubSeq(t, q + 1, z)) = z - q
          /\ \A i \in 1 .. z - q : SubSeq(t, q + 1, z)[i] = t[q + i]
      BY <3>1, Part
    <3> QED BY <3>2 DEF t, q, z
  <2> QED BY <2>1 DEF Drop
<1> HIDE DEF b
<1>3. m1 \in Readers /\ m1.buf = b /\ m1.stack = r.stack /\ m1.objects = r.objects /\ m1.err = r.err
  BY <1>2, BufChanges
<1>4. m2 \in Readers /\ m2.buf = b /\ m2.pos = 0 /\ m2.stack = r.stack /\ m2.objects = r.objects /\ m2.err = r.err
  <2>1. zero \in Nat
    OBVIOUS
  <2> HIDE DEF m1, zero
  <2>2. m2 \in Readers /\ m2.buf = m1.buf /\ m2.pos = zero /\ m2.stack = m1.stack /\ m2.objects = m1.objects
        /\ m2.err = m1.err
    BY <2>1, <1>3, PosChanges
  <2> QED BY <2>2, <1>3 DEF zero
<1>5. CASE r.pos >= Consumed
  <2>1. Cut(r) = [r EXCEPT !.buf = b, !.pos = 0]
    BY <1>5 DEF Cut, b
  <2>2. [r EXCEPT !.buf = b, !.pos = 0] = m2
    BY <1>1, <1>2 DEF Readers
  <2> HIDE DEF m2
  <2> QED BY <2>1, <2>2, <1>1, <1>2, <1>4
<1>6. CASE ~(r.pos >= Consumed)
  BY <1>1, <1>6 DEF Cut
<1> QED BY <1>5, <1>6

\* A reader between two replies, with nothing that it has not used.
Fresh(r) ==
    /\ r \in Readers /\ r.stack \in {<<>>, <<Root("none")>>} /\ r.objects = <<>> /\ r.err = FALSE
    /\ r.pos = Len(r.buf)

LEMMA CutWithin ==
    ASSUME NEW r, NEW type, NEW s, NEW k \in Nat, k >= 1, Within(r, type, s, k)
    PROVE  Within(Cut(r), type, s, k)
<1>1. /\ r \in Readers /\ r.pos \in Nat /\ Len(r.buf) \in Nat /\ Len(r.buf) - r.pos = k - 1 /\ r.pos <= Len(r.buf)
      /\ \A i \in 1 .. k - 1 : r.buf[r.pos + i] = s[1 + i]
  BY DEF Within, Readers, Texts
<1> DEFINE c == Cut(r)
<1>2. /\ c \in Readers /\ c.stack = r.stack /\ c.objects = r.objects /\ c.err = r.err
      /\ Len(c.buf) - c.pos = Len(r.buf) - r.pos
      /\ \A i \in 1 .. Len(r.buf) - r.pos : c.buf[c.pos + i] = r.buf[r.pos + i]
  BY <1>1, CutIs
<1> HIDE DEF c
<1>3. c.pos \in Nat /\ Len(c.buf) \in Nat
  BY <1>2 DEF Readers, Texts
<1>4. Len(c.buf) = c.pos + (k - 1) /\ \A i \in 1 .. k - 1 : c.buf[c.pos + i] = s[1 + i]
  BY <1>1, <1>2, <1>3
<1>5. Within(c, type, s, k)
  BY <1>2, <1>4 DEF Within
<1> QED BY <1>5 DEF c

LEMMA CutEnds ==
    ASSUME NEW r \in Readers, r.pos = Len(r.buf)
    PROVE  LET c == Cut(r)
           IN  /\ c \in Readers /\ c.stack = r.stack /\ c.objects = r.objects /\ c.err = r.err
               /\ c.pos = Len(c.buf)
<1>1. r.pos \in Nat /\ r.pos <= Len(r.buf) /\ Len(r.buf) - r.pos = 0
  BY DEF Readers
<1> DEFINE c == Cut(r)
<1>2. /\ c \in Readers /\ c.stack = r.stack /\ c.objects = r.objects /\ c.err = r.err
      /\ Len(c.buf) - c.pos = Len(r.buf) - r.pos
  BY <1>1, CutIs
<1> HIDE DEF c
<1>3. c.pos \in Nat /\ Len(c.buf) \in Nat
  BY <1>2 DEF Readers, Texts
<1>4. c.pos = Len(c.buf)
  BY <1>1, <1>2, <1>3
<1> QED BY <1>2, <1>4 DEF c

\* What processing ends with inside of an item, and after one.
LEMMA Unfinished ==
    ASSUME NEW r, r.err = FALSE, r.stack # <<>>
    PROVE  Processed(r) = [reader |-> Cut(r), reply |-> <<>>]
BY Zenon DEF Processed, Cut

LEMMA Finished ==
    ASSUME NEW r, NEW text, Got(r, r.buf, text)
    PROVE  LET read == Processed(r)
           IN  /\ Fresh(read.reader) /\ read.reader.stack = <<>>
               /\ \E type \in {"error", "status", "string", "nil"} :
                     read.reply = <<<<Object(type, text)>>>> /\ (type = "nil" => text = <<>>)
<1> DEFINE c == Cut(r)
           e == [c EXCEPT !.objects = <<>>]
<1>1. r \in Readers /\ r.pos = Len(r.buf) /\ r.stack = <<>> /\ r.err = FALSE
  BY DEF Got
<1>2. c \in Readers /\ c.stack = <<>> /\ c.err = FALSE /\ c.pos = Len(c.buf)
  BY <1>1, CutEnds
<1>3. Processed(r) = [reader |-> e, reply |-> <<r.objects>>]
  BY <1>1, Zenon DEF Processed, Cut
<1> HIDE DEF c
<1>4. /\ e \in Readers /\ e.buf = c.buf /\ e.pos = c.pos /\ e.stack = c.stack
      /\ e.objects = <<>> /\ e.err = c.err
  <2>1. <<>> \in Lists
    BY DEF Lists
  <2> QED BY <2>1, <1>2, ObjectsChange
<1> HIDE DEF e
<1>5. Fresh(e) /\ e.stack = <<>>
  BY <1>2, <1>4 DEF Fresh
<1>6. Processed(r).reader = e /\ Processed(r).reply = <<r.objects>>
  BY <1>3
<1> QED BY <1>5, <1>6 DEF Got

\* The reader has been given the first k symbols of a reply that is not complete.
At(r, type, s, k) == IF k = 0 THEN Fresh(r) ELSE Within(r, type, s, k)

\* A part has the n symbols that are next.
NextIn(part, s, k, n) == part \in Texts /\ Len(part) = n /\ \A i \in 1 .. n : part[i] = s[k + i]

\* A part of a reply is given to the reader.
LEMMA Given ==
    ASSUME NEW text \in Texts, NEW s, NEW type, IsReply(s, type, text),
           NEW k \in Nat, NEW n \in Nat, n >= 1, k + n <= Len(s), NEW r, At(r, type, s, k),
           NEW part, NextIn(part, s, k, n)
    PROVE  LET f == Feed(r, part)
           IN  /\ f.err = FALSE /\ f.buf # <<>>
               /\ Started(Begun(f), s, k + n) \/ Within(Begun(f), type, s, k + n)
<1> DEFINE b == r.buf \o part
           f == [r EXCEPT !.buf = b]
<1>1. r \in Readers /\ r.err = FALSE /\ r.objects = <<>> /\ r.buf \in Texts /\ r.pos \in Nat /\ Len(r.buf) \in Nat
  BY DEF At, Fresh, Within, Readers, Texts
<1>2. /\ b \in Texts /\ Len(b) = Len(r.buf) + n /\ \A i \in 1 .. Len(r.buf) : b[i] = r.buf[i]
      /\ \A i \in 1 .. n : b[Len(r.buf) + i] = part[i]
  BY <1>1, Joined DEF NextIn
<1>3. Feed(r, part) = f
  BY <1>1 DEF Feed
<1> HIDE DEF b
<1>4. f \in Readers /\ f.buf = b /\ f.pos = r.pos /\ f.stack = r.stack /\ f.objects = r.objects /\ f.err = r.err
  BY <1>1, <1>2, BufChanges
<1> HIDE DEF f
<1>5. f.err = FALSE /\ f.buf # <<>>
  <2>1. Len(b) # 0
    BY <1>1, <1>2
  <2> QED BY <1>1, <1>4, <2>1
<1>a. \A i \in 1 .. n : part[i] = s[k + i]
  BY DEF NextIn
<1>6. CASE k = 0
  <2>1. r.stack \in {<<>>, <<Root("none")>>} /\ r.pos = Len(r.buf)
    BY <1>6 DEF At, Fresh
  <2> DEFINE g == Begun(f)
  <2>2. g \in Readers /\ g.buf = b /\ g.pos = r.pos /\ g.stack = <<Root("none")>> /\ g.objects = <<>> /\ g.err = FALSE
    <3>1. Task(-1) = Root("none") /\ <<Root("none")>> \in Stacks
      BY DEF Task, Root, Stacks, Types
    <3>2. CASE r.stack = <<>>
      <4>1. g = [f EXCEPT !.stack = <<Root("none")>>]
        BY <3>1, <3>2, <1>4 DEF Begun
      <4> HIDE DEF g
      <4> QED BY <4>1, <3>1, <1>1, <1>4, StackChanges
    <3>3. CASE r.stack = <<Root("none")>>
      <4>1. g = f
        BY <3>3, <1>4 DEF Begun
      <4> QED BY <4>1, <3>3, <1>1, <1>4
    <3> QED BY <2>1, <3>2, <3>3
  <2>3. Len(b) = r.pos + n /\ \A i \in 1 .. n : b[r.pos + i] = s[i]
    <3>1. \A i \in 1 .. n : k + i = i
      BY <1>6
    <3> QED BY <1>1, <1>2, <1>a, <2>1, <3>1
  <2> HIDE DEF g
  <2>4. Started(g, s, n) /\ k + n = n
    BY <2>2, <2>3, <1>6 DEF Started
  <2> QED BY <2>4, <1>3, <1>5 DEF g
<1>7. CASE k # 0
  <2>1. /\ r.stack = <<Root(type)>> /\ Len(r.buf) = r.pos + (k - 1)
        /\ \A i \in 1 .. k - 1 : r.buf[r.pos + i] = s[1 + i]
    BY <1>7 DEF At, Within
  <2>2. Begun(f) = f
    BY <2>1, <1>4 DEF Begun
  <2>a. Len(r.buf) = r.pos + (k - 1) /\ r.pos \in Int /\ Len(r.buf) \in Int /\ Len(b) = Len(r.buf) + n
    BY <2>1, <1>1, <1>2
  <2>3. Len(b) = r.pos + (k + n - 1)
    BY <2>a
  <2>4. \A i \in 1 .. k + n - 1 : b[r.pos + i] = s[1 + i]
    <3> SUFFICES ASSUME NEW i \in 1 .. k + n - 1 PROVE b[r.pos + i] = s[1 + i]
      OBVIOUS
    <3>1. CASE i <= k - 1
      <4>1. i \in 1 .. k - 1 /\ r.pos + i \in 1 .. Len(r.buf)
        BY SMTT(30), <3>1, <2>1, <1>1
      <4> QED BY <4>1, <2>1, <1>2
    <3>2. CASE i > k - 1
      <4> DEFINE j == i - (k - 1)
      <4>1. j \in 1 .. n /\ Len(r.buf) + j = r.pos + i /\ k + j = 1 + i
        <5>1. i \in Int /\ i >= k /\ i <= k + n - 1 /\ k \in Int /\ n \in Int
          BY <3>2
        <5>2. j \in Int /\ j >= 1 /\ j <= n
          BY <5>1
        <5>3. j \in 1 .. n /\ k + j = 1 + i
          BY <5>1, <5>2
        <5>4. Len(r.buf) + j = r.pos + i
          <6> DEFINE l == Len(r.buf)
                     q == r.pos
          <6>1. l = q + (k - 1) /\ q \in Int
            BY <2>a
          <6> HIDE DEF l, q
          <6>2. l + j = q + i
            BY <6>1, <5>1
          <6> QED BY <6>2 DEF l, q
        <5> QED BY <5>3, <5>4
      <4> HIDE DEF j
      <4>2. b[Len(r.buf) + j] = part[j] /\ part[j] = s[k + j]
        BY <4>1, <1>2, <1>a
      <4> QED BY <4>1, <4>2
    <3> QED BY <3>1, <3>2
  <2>5. Within(f, type, s, k + n)
    BY <2>1, <2>3, <2>4, <1>1, <1>4 DEF Within
  <2> QED BY <2>2, <2>5, <1>3, <1>5
<1> QED BY <1>6, <1>7

\* A look at the reader after it has been given a part of a reply: the text of the reply
\* is there as soon as the reply is complete, in whatever parts it came, and no sooner.
LEMMA Looks ==
    ASSUME NEW text \in Texts, NEW s, NEW type, IsReply(s, type, text),
           NEW k \in Nat, NEW n \in Nat, n >= 1, k + n <= Len(s), NEW r, At(r, type, s, k),
           NEW part, NextIn(part, s, k, n)
    PROVE  LET read == GetReply(Feed(r, part))
           IN  /\ k + n < Len(s) => At(read.reader, type, s, k + n) /\ read.reply = <<>>
               /\ k + n = Len(s) =>
                     /\ Fresh(read.reader) /\ read.reader.stack = <<>>
                     /\ \E tt \in {"error", "status", "string", "nil"} :
                           read.reply = <<<<Object(tt, text)>>>> /\ (tt = "nil" => text = <<>>)
<1> DEFINE f == Feed(r, part)
           g == Begun(f)
           p == processItem(g)
<1>1. /\ f.err = FALSE /\ f.buf # <<>>
      /\ Started(g, s, k + n) \/ Within(g, type, s, k + n)
  BY Given
<1>2. k + n \in 1 .. Len(s) /\ k + n \in Nat /\ k + n >= 1 /\ k + n # 0
  BY ReplyIs
<1> HIDE DEF f, g
<1>3. /\ processItem(p) = p
      /\ k + n < Len(s) => Within(p, type, s, k + n)
      /\ k + n = Len(s) => Got(p, p.buf, text)
  BY <1>1, <1>2, RoundIs
<1>4. GetReply(f) = Processed(p)
  <2>1. Len(g.buf) \in Nat
    BY <1>1 DEF Started, Within, Readers, Texts
  <2>2. ProcessItems(g) = p
    BY <2>1, <1>3, Settles
  <2> QED BY <2>2, <1>1 DEF GetReply, g
<1> HIDE DEF p
<1>5. ASSUME k + n < Len(s) PROVE At(Processed(p).reader, type, s, k + n) /\ Processed(p).reply = <<>>
  <2>1. Within(p, type, s, k + n)
    BY <1>3, <1>5
  <2>2. Processed(p) = [reader |-> Cut(p), reply |-> <<>>]
    <3>1. p.err = FALSE /\ p.stack # <<>>
      BY <2>1 DEF Within
    <3> QED BY <3>1, Unfinished
  <2>3. Within(Cut(p), type, s, k + n)
    BY <2>1, <1>2, CutWithin
  <2> QED BY <2>2, <2>3, <1>2 DEF At
<1>6. ASSUME k + n = Len(s)
      PROVE  /\ Fresh(Processed(p).reader) /\ Processed(p).reader.stack = <<>>
             /\ \E tt \in {"error", "status", "string", "nil"} :
                   Processed(p).reply = <<<<Object(tt, text)>>>> /\ (tt = "nil" => text = <<>>)
  BY <1>3, <1>6, Finished
<1> QED BY <1>4, <1>5, <1>6 DEF f

\* A look at a reader that has nothing changes nothing that matters.
LEMMA LooksInVain ==
    ASSUME NEW r, Fresh(r)
    PROVE  Fresh(GetReply(r).reader) /\ GetReply(r).reply = <<>>
<1> DEFINE g == Begun(r)
<1>1. r \in Readers /\ r.err = FALSE /\ r.pos = Len(r.buf)
  BY DEF Fresh
<1>2. CASE r.buf = <<>>
  BY <1>2 DEF GetReply
<1>3. CASE r.buf # <<>>
  <2>1. g \in Readers /\ g.stack = <<Root("none")>> /\ g.objects = <<>> /\ g.err = FALSE /\ g.pos = Len(g.buf)
    <3>1. Task(-1) = Root("none") /\ <<Root("none")>> \in Stacks
      BY DEF Task, Root, Stacks, Types
    <3>2. CASE r.stack = <<>>
      <4>1. g = [r EXCEPT !.stack = <<Root("none")>>]
        BY <3>1, <3>2 DEF Begun
      <4> HIDE DEF g
      <4> QED BY <4>1, <3>1, <1>1, StackChanges DEF Fresh
    <3>3. CASE r.stack = <<Root("none")>>
      <4>1. g = r
        BY <3>3 DEF Begun
      <4> QED BY <4>1, <3>3, <1>1 DEF Fresh
    <3> QED BY <3>2, <3>3 DEF Fresh
  <2> HIDE DEF g
  <2>2. processItem(g) = g
    BY <2>1 DEF processItem, Waits, Top, Root
  <2>3. ProcessItems(g) = g
    <3>1. Len(g.buf) \in Nat
      BY <2>1 DEF Readers, Texts
    <3> QED BY <3>1, <2>2, Settles
  <2>4. GetReply(r) = [reader |-> Cut(g), reply |-> <<>>]
    <3>1. GetReply(r) = Processed(g)
      BY <2>3, <1>1, <1>3 DEF GetReply, g
    <3>2. Processed(g) = [reader |-> Cut(g), reply |-> <<>>]
      <4>1. g.err = FALSE /\ g.stack # <<>>
        BY <2>1
      <4> QED BY <4>1, Unfinished
    <3> QED BY <3>1, <3>2
  <2>5. Fresh(Cut(g))
    BY <2>1, CutEnds DEF Fresh
  <2> QED BY <2>4, <2>5
<1> QED BY <1>2, <1>3
-----------------------------------------------------------------------------
(* Commands.                                                               *)

\* The first of two sequences is the beginning of the second.
Prefix(p, s) == Len(p) <= Len(s) /\ \A i \in 1 .. Len(p) : p[i] = s[i]

LEMMA BeginsIs ==
    ASSUME NEW s \in Texts, NEW p \in Texts, BeginsWith(s, p)
    PROVE  Prefix(p, s)
<1> DEFINE zero == 0
           n == Len(p)
<1>1. zero \in Nat /\ n \in Nat /\ n <= Len(s) /\ zero <= n
  BY DEF BeginsWith, Texts
<1>2. zero + 1 = 1 /\ n - zero = n
  BY <1>1
<1>3. p = SubSeq(s, zero + 1, n)
  BY <1>2 DEF BeginsWith
<1> HIDE DEF zero, n
<1>4. \A i \in 1 .. n - zero : SubSeq(s, zero + 1, n)[i] = s[zero + i]
  BY <1>1, Part
<1>5. ASSUME NEW i \in 1 .. n PROVE p[i] = s[i]
  <2>1. i \in 1 .. n - zero /\ zero + i = i
    BY <1>2 DEF zero
  <2> QED BY <2>1, <1>3, <1>4
<1> QED BY <1>1, <1>5 DEF Prefix, n

LEMMA Peels ==
    ASSUME NEW h \in Texts, NEW x \in Texts, NEW y \in Texts, Prefix(h \o x, h \o y)
    PROVE  Prefix(x, y)
<1> DEFINE n == Len(h)
           s == h \o x
           t == h \o y
<1>1. n \in Nat /\ Len(x) \in Nat /\ Len(y) \in Nat
  BY DEF Texts
<1>2. /\ Len(s) = n + Len(x) /\ \A i \in 1 .. Len(x) : s[n + i] = x[i]
      /\ Len(t) = n + Len(y) /\ \A i \in 1 .. Len(y) : t[n + i] = y[i]
  BY Joined
<1>3. Len(s) <= Len(t) /\ \A i \in 1 .. Len(s) : s[i] = t[i]
  BY DEF Prefix
<1> HIDE DEF n, s, t
<1>4. Len(x) <= Len(y)
  BY <1>1, <1>2, <1>3
<1>5. ASSUME NEW i \in 1 .. Len(x) PROVE x[i] = y[i]
  <2>1. n + i \in 1 .. Len(s) /\ i \in 1 .. Len(y)
    BY <1>1, <1>2, <1>4
  <2> QED BY <2>1, <1>2, <1>3
<1> QED BY <1>4, <1>5 DEF Prefix

LEMMA BulkPeels ==
    ASSUME NEW a \in Texts, NEW b \in Texts, NEW x \in Texts, NEW y \in Texts,
           Prefix(BulkOf(a) \o x, BulkOf(b) \o y)
    PROVE  a = b /\ Prefix(x, y)
<1> DEFINE m == Len(a)
           n == Len(b)
           A == BulkOf(a)
           B == BulkOf(b)
           s == A \o x
           t == B \o y
<1>1. m \in Nat /\ n \in Nat
  BY DEF Texts
<1>2. /\ A \in Texts /\ Len(A) = m + 6 /\ A[2] = 257 + m /\ \A i \in 1 .. m : A[4 + i] = a[i]
      /\ B \in Texts /\ Len(B) = n + 6 /\ B[2] = 257 + n /\ \A i \in 1 .. n : B[4 + i] = b[i]
  BY <1>1, BulkOfIs
<1> HIDE DEF A, B
<1>3. Len(x) \in Nat /\ Len(y) \in Nat /\ A \in Texts /\ B \in Texts
  BY <1>2 DEF Texts
<1>4. /\ Len(s) = Len(A) + Len(x) /\ \A i \in 1 .. Len(A) : s[i] = A[i]
      /\ Len(t) = Len(B) + Len(y) /\ \A i \in 1 .. Len(B) : t[i] = B[i]
  BY <1>3, Joined
<1>5. Len(s) <= Len(t) /\ \A i \in 1 .. Len(s) : s[i] = t[i]
  BY DEF Prefix, A, B
<1> HIDE DEF m, n, s, t
<1>6. m = n
  <2>1. 2 \in 1 .. Len(A) /\ 2 \in 1 .. Len(B) /\ 2 \in 1 .. Len(s)
    BY <1>1, <1>2, <1>3, <1>4
  <2>2. A[2] = B[2]
    BY <2>1, <1>4, <1>5
  <2>3. A[2] = 257 + m /\ B[2] = 257 + n
    BY <1>2
  <2>4. 257 + m = 257 + n
    BY <2>2, <2>3
  <2> QED BY <2>4, <1>1
<1>7. \A i \in 1 .. m : a[i] = b[i]
  <2> SUFFICES ASSUME NEW i \in 1 .. m PROVE a[i] = b[i]
    OBVIOUS
  <2>1. 4 + i \in 1 .. Len(A) /\ 4 + i \in 1 .. Len(B) /\ 4 + i \in 1 .. Len(s)
    BY <1>1, <1>2, <1>3, <1>4, <1>6
  <2>2. A[4 + i] = B[4 + i]
    BY <2>1, <1>4, <1>5
  <2> QED BY <2>2, <1>2, <1>6
<1>8. a = b
  <2>1. Len(a) = m /\ Len(b) = m
    BY <1>6 DEF m, n
  <2> QED BY <2>1, <1>1, <1>7, Same
<1>9. Prefix(x, y)
  <2>1. A = B
    BY <1>8 DEF A, B
  <2>2. Prefix(A \o x, A \o y)
    BY <2>1 DEF A, B
  <2> QED BY <2>2, <1>3, Peels
<1> QED BY <1>8, <1>9

\* The beginning of a command with n arguments.
HeadOf(n) == <<Star>> \o Written(n) \o NewLine

LEMMA HeadIs ==
    ASSUME NEW n \in Nat
    PROVE  HeadOf(n) \in Texts /\ Len(HeadOf(n)) = 4 /\ HeadOf(n)[2] = 257 + n
BY DEF HeadOf, Star, Written, NewLine, CR, LF, Texts

LEMMA HeadInTexts == HeadOf(2) \in Texts /\ HeadOf(3) \in Texts
<1>1. 2 \in Nat /\ 3 \in Nat
  OBVIOUS
<1> QED BY <1>1, HeadIs

LEMMA BulkInTexts ==
    ASSUME NEW text \in Texts
    PROVE  BulkOf(text) \in Texts
<1>1. Len(text) \in Nat
  BY DEF Texts
<1> QED BY <1>1, BulkOfIs

LEMMA FormatTwo ==
    ASSUME NEW a \in Texts, NEW b \in Texts
    PROVE  Format(<<a, b>>) = HeadOf(2) \o (BulkOf(a) \o BulkOf(b))
<1> DEFINE args == <<a, b>>
           h == HeadOf(2)
           A == BulkOf(a)
           B == BulkOf(b)
           Steps(f) == f = [k \in 0 .. Len(args) |-> IF k = 0 THEN HeadOf(Len(args)) ELSE f[k - 1] \o BulkOf(args[k])]
           after == CHOOSE f : Steps(f)
           steps == [k \in 0 .. 2 |-> IF k = 0 THEN h ELSE IF k = 1 THEN h \o A ELSE (h \o A) \o B]
<1>1. Format(args) = after[2]
  BY DEF Format, HeadOf
<1>2. Len(args) = 2 /\ args[1] = a /\ args[2] = b
  OBVIOUS
<1> HIDE DEF args
<1>3. Steps(steps)
  <2>1. \A k \in 0 .. 2 : steps[k] = IF k = 0 THEN HeadOf(Len(args)) ELSE steps[k - 1] \o BulkOf(args[k])
    <3> SUFFICES ASSUME NEW k \in 0 .. 2
                 PROVE  steps[k] = IF k = 0 THEN HeadOf(Len(args)) ELSE steps[k - 1] \o BulkOf(args[k])
      OBVIOUS
    <3>1. k = 0 \/ k = 1 \/ k = 2
      OBVIOUS
    <3> HIDE DEF h, A, B
    <3>2. steps[0] = h /\ steps[1] = h \o A /\ steps[2] = (h \o A) \o B
      OBVIOUS
    <3>3. HeadOf(Len(args)) = h /\ BulkOf(args[1]) = A /\ BulkOf(args[2]) = B
      BY <1>2 DEF h, A, B
    <3> HIDE DEF steps
    <3>4. CASE k = 0
      BY <3>2, <3>3, <3>4
    <3>5. CASE k = 1
      <4>1. k # 0 /\ k - 1 = 0
        BY <3>5
      <4> QED BY <4>1, <3>2, <3>3, <3>5
    <3>6. CASE k = 2
      <4>1. k # 0 /\ k - 1 = 1
        BY <3>6
      <4> QED BY <4>1, <3>2, <3>3, <3>6
    <3> QED BY <3>1, <3>4, <3>5, <3>6
  <2> HIDE DEF h, A, B
  <2> QED BY <2>1, <1>2
<1>4. Steps(after)
  <2> HIDE DEF Steps, steps
  <2> QED BY <1>3
<1>5. \A k \in 0 .. 2 : after[k] = IF k = 0 THEN HeadOf(2) ELSE after[k - 1] \o BulkOf(args[k])
  <2> HIDE DEF after
  <2> QED BY <1>2, <1>4
<1> HIDE DEF after
<1>6. after[2] = (h \o A) \o B
  <2>1. after[0] = h /\ after[1] = after[0] \o A /\ after[2] = after[1] \o B
    BY SMTT(30), <1>2, <1>5
  <2> QED BY <2>1
<1>7. h \in Texts /\ A \in Texts /\ B \in Texts
  BY HeadInTexts, BulkInTexts
<1>8. (h \o A) \o B = h \o (A \o B)
  <2> HIDE DEF h, A, B
  <2> QED BY SMTT(30), <1>7, ConcatAssociative DEF Texts
<1> QED BY <1>1, <1>6, <1>8 DEF args

LEMMA FormatThree ==
    ASSUME NEW a \in Texts, NEW b \in Texts, NEW c \in Texts
    PROVE  Format(<<a, b, c>>) = HeadOf(3) \o (BulkOf(a) \o (BulkOf(b) \o BulkOf(c)))
<1> DEFINE args == <<a, b, c>>
           h == HeadOf(3)
           A == BulkOf(a)
           B == BulkOf(b)
           C == BulkOf(c)
           Steps(f) == f = [k \in 0 .. Len(args) |-> IF k = 0 THEN HeadOf(Len(args)) ELSE f[k - 1] \o BulkOf(args[k])]
           after == CHOOSE f : Steps(f)
           steps == [k \in 0 .. 3 |-> IF k = 0 THEN h ELSE IF k = 1 THEN h \o A
                                      ELSE IF k = 2 THEN (h \o A) \o B ELSE ((h \o A) \o B) \o C]
<1>1. Format(args) = after[3]
  BY DEF Format, HeadOf
<1>2. Len(args) = 3 /\ args[1] = a /\ args[2] = b /\ args[3] = c
  OBVIOUS
<1> HIDE DEF args
<1>3. Steps(steps)
  <2>1. \A k \in 0 .. 3 : steps[k] = IF k = 0 THEN HeadOf(Len(args)) ELSE steps[k - 1] \o BulkOf(args[k])
    <3> SUFFICES ASSUME NEW k \in 0 .. 3
                 PROVE  steps[k] = IF k = 0 THEN HeadOf(Len(args)) ELSE steps[k - 1] \o BulkOf(args[k])
      OBVIOUS
    <3>1. k = 0 \/ k = 1 \/ k = 2 \/ k = 3
      OBVIOUS
    <3> HIDE DEF h, A, B, C
    <3>2. /\ steps[0] = h /\ steps[1] = h \o A /\ steps[2] = (h \o A) \o B
          /\ steps[3] = ((h \o A) \o B) \o C
      OBVIOUS
    <3>3. HeadOf(Len(args)) = h /\ BulkOf(args[1]) = A /\ BulkOf(args[2]) = B /\ BulkOf(args[3]) = C
      BY <1>2 DEF h, A, B, C
    <3> HIDE DEF steps
    <3>4. CASE k = 0
      BY <3>2, <3>3, <3>4
    <3>5. CASE k = 1
      <4>1. k # 0 /\ k - 1 = 0
        BY <3>5
      <4> QED BY <4>1, <3>2, <3>3, <3>5
    <3>6. CASE k = 2
      <4>1. k # 0 /\ k - 1 = 1
        BY <3>6
      <4> QED BY <4>1, <3>2, <3>3, <3>6
    <3>7. CASE k = 3
      <4>1. k # 0 /\ k - 1 = 2
        BY <3>7
      <4> QED BY <4>1, <3>2, <3>3, <3>7
    <3> QED BY <3>1, <3>4, <3>5, <3>6, <3>7
  <2> HIDE DEF h, A, B, C
  <2> QED BY <2>1, <1>2
<1>4. Steps(after)
  <2> HIDE DEF Steps, steps
  <2> QED BY <1>3
<1>5. \A k \in 0 .. 3 : after[k] = IF k = 0 THEN HeadOf(3) ELSE after[k - 1] \o BulkOf(args[k])
  <2> HIDE DEF after
  <2> QED BY <1>2, <1>4
<1> HIDE DEF after
<1>6. after[3] = ((h \o A) \o B) \o C
  <2>1. after[0] = h /\ after[1] = after[0] \o A /\ after[2] = after[1] \o B /\ after[3] = after[2] \o C
    BY SMTT(30), <1>2, <1>5
  <2> QED BY <2>1
<1>7. h \in Texts /\ A \in Texts /\ B \in Texts /\ C \in Texts
  BY HeadInTexts, BulkInTexts
<1>8. ((h \o A) \o B) \o C = h \o (A \o (B \o C))
  <2>1. AllTexts(h, A, B, C)
    BY <1>7 DEF AllTexts
  <2> HIDE DEF h, A, B, C
  <2> QED BY <2>1, ReorderedFour
<1> QED BY <1>1, <1>6, <1>8 DEF args

\* What a worker asks for.
Asks(job) == job.id \in Texts /\ job.content \in Texts

LEMMA CommandIs ==
    ASSUME NEW job, Asks(job)
    PROVE  /\ SESS \o job.id \in Texts
           /\ job.content = <<>> => /\ Command(job) = <<GET, SESS \o job.id>>
                                    /\ Format(Command(job)) = HeadOf(2) \o (BulkOf(GET) \o BulkOf(SESS \o job.id))
           /\ job.content # <<>> =>
                 /\ Command(job) = <<SET, SESS \o job.id, job.content>>
                 /\ Format(Command(job)) =
                       HeadOf(3) \o (BulkOf(SET) \o (BulkOf(SESS \o job.id) \o BulkOf(job.content)))
<1>1. GET \in Texts /\ SET \in Texts /\ SESS \in Texts
  BY DEF GET, SET, SESS, Texts
<1>2. SESS \o job.id \in Texts
  BY <1>1, Joined DEF Asks
<1>3. CASE job.content = <<>>
  <2>1. Command(job) = <<GET, SESS \o job.id>>
    BY <1>3 DEF Command
  <2> QED BY <2>1, <1>1, <1>2, <1>3, FormatTwo
<1>4. CASE job.content # <<>>
  <2>1. Command(job) = <<SET, SESS \o job.id, job.content>>
    BY <1>4 DEF Command
  <2>2. job.content \in Texts
    BY DEF Asks
  <2>3. Format(<<SET, SESS \o job.id, job.content>>) =
           HeadOf(3) \o (BulkOf(SET) \o (BulkOf(SESS \o job.id) \o BulkOf(job.content)))
    <3> DEFINE key     == SESS \o job.id
               content == job.content
    <3>1. SET \in Texts /\ key \in Texts /\ content \in Texts
      BY <2>2, <1>1, <1>2
    <3> HIDE DEF key, content
    <3>2. Format(<<SET, key, content>>) = HeadOf(3) \o (BulkOf(SET) \o (BulkOf(key) \o BulkOf(content)))
      BY ONLY <3>1, FormatThree
    <3> QED BY <3>2 DEF key, content
  <2> QED BY <2>1, <2>3, <1>2, <1>4
<1> QED BY <1>2, <1>3, <1>4

LEMMA HeadJoined ==
    ASSUME NEW n \in Nat, NEW x \in Texts
    PROVE  /\ HeadOf(n) \o x \in Texts /\ Len(HeadOf(n) \o x) \in Nat
           /\ Len(HeadOf(n) \o x) >= 4 /\ (HeadOf(n) \o x)[2] = 257 + n
           /\ Len(HeadOf(n) \o x) >= 4 /\ (HeadOf(n) \o x)[2] = 257 + n
<1> DEFINE h == HeadOf(n)
<1>1. h \in Texts /\ Len(h) = 4 /\ h[2] = 257 + n /\ Len(x) \in Nat
  <2>1. Len(x) \in Nat
    BY DEF Texts
  <2> QED BY <2>1, HeadIs
<1> HIDE DEF h
<1>2. h \o x \in Texts /\ Len(h \o x) = Len(h) + Len(x) /\ \A i \in 1 .. Len(h) : (h \o x)[i] = h[i]
  <2>1. h \in Texts
    BY <1>1
  <2> QED BY <2>1, Joined
<1>3. 2 \in 1 .. Len(h)
  BY <1>1
<1>4. h \o x \in Texts /\ Len(h \o x) \in Nat /\ Len(h \o x) >= 4 /\ (h \o x)[2] = 257 + n
  BY <1>1, <1>2, <1>3
<1> QED BY <1>4 DEF h

LEMMA FormatIs ==
    ASSUME NEW job, Asks(job)
    PROVE  LET s == Format(Command(job))
           IN  s \in Texts /\ Len(s) \in Nat /\ Len(s) >= 4 /\ s[2] = IF job.content = <<>> THEN 259 ELSE 260
<1>2. ASSUME NEW x \in Texts, NEW y \in Texts PROVE x \o y \in Texts /\ BulkOf(x) \in Texts
  BY Joined, BulkInTexts
<1>3. GET \in Texts /\ SET \in Texts /\ SESS \o job.id \in Texts
  BY CommandIs DEF GET, SET, Texts
<1>4. CASE job.content = <<>>
  <2>1. BulkOf(GET) \o BulkOf(SESS \o job.id) \in Texts
    BY <1>2, <1>3
  <2>2. PICK x \in Texts : Format(Command(job)) = HeadOf(2) \o x
    BY <2>1, <1>4, CommandIs
  <2>3. PICK n \in Nat : n = 2
    OBVIOUS
  <2>4. /\ HeadOf(n) \o x \in Texts /\ Len(HeadOf(n) \o x) \in Nat
        /\ Len(HeadOf(n) \o x) >= 4 /\ (HeadOf(n) \o x)[2] = 257 + n
    BY HeadJoined, Zenon
  <2> QED BY <2>2, <2>3, <2>4, <1>4
<1>5. CASE job.content # <<>>
  <2>1. BulkOf(SET) \o (BulkOf(SESS \o job.id) \o BulkOf(job.content)) \in Texts
    BY <1>2, <1>3 DEF Asks
  <2>2. PICK x \in Texts : Format(Command(job)) = HeadOf(3) \o x
    BY <2>1, <1>5, CommandIs
  <2>3. PICK n \in Nat : n = 3
    OBVIOUS
  <2>4. /\ HeadOf(n) \o x \in Texts /\ Len(HeadOf(n) \o x) \in Nat
        /\ Len(HeadOf(n) \o x) >= 4 /\ (HeadOf(n) \o x)[2] = 257 + n
    BY HeadJoined, Zenon
  <2> QED BY <2>2, <2>3, <2>4, <1>5
<1> QED BY <1>4, <1>5

\* No command is the beginning of another.
LEMMA CommandsDiffer ==
    ASSUME NEW job, Asks(job), NEW other, Asks(other),
           Prefix(Format(Command(job)), Format(Command(other)))
    PROVE  Command(job) = Command(other)
<1> DEFINE s == Format(Command(job))
           t == Format(Command(other))
           i == SESS \o job.id
           j == SESS \o other.id
<1>1. /\ s \in Texts /\ Len(s) \in Nat /\ Len(s) >= 4 /\ s[2] = IF job.content = <<>> THEN 259 ELSE 260
      /\ t[2] = IF other.content = <<>> THEN 259 ELSE 260
  BY FormatIs
<1>2. s[2] = t[2]
  BY <1>1 DEF Prefix
<1>3. job.content = <<>> <=> other.content = <<>>
  <2> HIDE DEF s, t
  <2> QED BY <1>1, <1>2
<1>4. /\ i \in Texts /\ j \in Texts /\ GET \in Texts /\ SET \in Texts
      /\ job.content \in Texts /\ other.content \in Texts
  BY CommandIs DEF Asks, GET, SET, Texts
<1>5. HeadOf(2) \in Texts /\ HeadOf(3) \in Texts
  BY HeadInTexts
<1>6. ASSUME NEW x \in Texts PROVE BulkOf(x) \in Texts
  BY BulkInTexts
<1>7. ASSUME NEW x \in Texts, NEW y \in Texts, Prefix(BulkOf(x), BulkOf(y)) PROVE x = y
  <2>1. BulkOf(x) = BulkOf(x) \o <<>> /\ BulkOf(y) = BulkOf(y) \o <<>> /\ <<>> \in Texts
    BY <1>6, ConcatEmptySeq DEF Texts
  <2>2. Prefix(BulkOf(x) \o <<>>, BulkOf(y) \o <<>>)
    BY <2>1, <1>7, Zenon
  <2> QED BY <2>1, <2>2, BulkPeels
<1>8. CASE job.content = <<>>
  <2>1. s = HeadOf(2) \o (BulkOf(GET) \o BulkOf(i)) /\ t = HeadOf(2) \o (BulkOf(GET) \o BulkOf(j))
    BY <1>3, <1>8, CommandIs
  <2> HIDE DEF i, j
  <2>2. Prefix(BulkOf(GET) \o BulkOf(i), BulkOf(GET) \o BulkOf(j))
    <3>1. BulkOf(GET) \o BulkOf(i) \in Texts /\ BulkOf(GET) \o BulkOf(j) \in Texts
      BY <1>4, <1>6, Joined
    <3> QED BY <2>1, <3>1, <1>5, Peels
  <2>3. Prefix(BulkOf(i), BulkOf(j))
    BY <2>2, <1>4, <1>6, BulkPeels
  <2>4. i = j
    BY <2>3, <1>4, <1>7
  <2> QED BY <2>4, <1>3, <1>8, CommandIs DEF i, j
<1>9. CASE job.content # <<>>
  <2> DEFINE x == job.content
             y == other.content
  <2>1. /\ s = HeadOf(3) \o (BulkOf(SET) \o (BulkOf(i) \o BulkOf(x)))
        /\ t = HeadOf(3) \o (BulkOf(SET) \o (BulkOf(j) \o BulkOf(y)))
    BY <1>3, <1>9, CommandIs
  <2>2. x \in Texts /\ y \in Texts
    BY <1>4
  <2> HIDE DEF i, j, x, y
  <2>3. BulkOf(i) \o BulkOf(x) \in Texts /\ BulkOf(j) \o BulkOf(y) \in Texts
    BY <1>4, <1>6, <2>2, Joined
  <2>4. Prefix(BulkOf(SET) \o (BulkOf(i) \o BulkOf(x)), BulkOf(SET) \o (BulkOf(j) \o BulkOf(y)))
    <3>1. BulkOf(SET) \o (BulkOf(i) \o BulkOf(x)) \in Texts /\ BulkOf(SET) \o (BulkOf(j) \o BulkOf(y)) \in Texts
      BY <1>4, <1>6, <2>3, Joined
    <3> QED BY <2>1, <3>1, <1>5, Peels
  <2>5. Prefix(BulkOf(i) \o BulkOf(x), BulkOf(j) \o BulkOf(y))
    BY <2>3, <2>4, <1>4, BulkPeels
  <2>6. i = j /\ Prefix(BulkOf(x), BulkOf(y))
    BY <2>2, <2>5, <1>4, <1>6, BulkPeels
  <2>7. x = y
    BY <2>2, <2>6, <1>7
  <2> QED BY <2>6, <2>7, <1>3, <1>9, CommandIs DEF i, j, x, y
<1> QED BY <1>8, <1>9
-----------------------------------------------------------------------------
(* The invariant.                                                          *)

Conns   == [open : BOOLEAN, alive : BOOLEAN, err : BOOLEAN, obuf : Texts, sent : Texts,
            wire : Texts, reader : Readers]
Threads == [pc : {"free", "writing", "reading", "done", "thrown"}, conn : Nat, id : Texts,
            content : Texts, result : Texts]
Saids   == {<<>>} \cup {<<text>> : text \in Texts}

TypesInv ==
    /\ conn \in [Conn -> Conns] /\ worker \in [Worker -> Threads] /\ said \in [Worker -> Saids]
    /\ pool \subseteq Conn
    /\ \A key \in DOMAIN store : store[key] \in Texts

\* A connection that exists is idle or held by one worker.
Holds(job, c) == job.pc # "free" /\ job.conn = c
HeldInv ==
    /\ \A w \in Worker : worker[w].pc # "free" =>
          worker[w].conn \in Conn /\ worker[w].conn \notin pool /\ conn[worker[w].conn].open
    /\ \A v, w \in Worker : \A c \in Conn : Holds(worker[v], c) /\ Holds(worker[w], c) => v = w
    /\ \A c \in pool : conn[c].open
    /\ \A c \in Conn : conn[c].open => c \in pool \/ \E w \in Worker : Holds(worker[w], c)
    /\ \A c \in Conn : conn[c].alive => conn[c].open

\* Nothing is on its way on a connection.
Quiet(x) ==
    /\ x.err = FALSE /\ x.obuf = <<>> /\ x.sent = <<>> /\ x.wire = <<>>
    /\ Fresh(x.reader) /\ x.reader.stack = <<>>

\* The command is on its way, which what the server has got of it is the beginning of.
Writes(x, job) ==
    /\ x.err = FALSE /\ x.obuf # <<>> /\ x.wire = <<>> /\ Fresh(x.reader)
    /\ IF x.alive THEN x.sent \o x.obuf = Format(Command(job)) ELSE x.sent = <<>>

\* The server has the command, or is gone.
Waiting(x, job) ==
    /\ x.err = FALSE /\ x.obuf = <<>> /\ x.wire = <<>> /\ Fresh(x.reader)
    /\ x.sent = IF x.alive THEN Format(Command(job)) ELSE <<>>

\* The reply is on its way, of which the reader has got the first k symbols.
Comes(x, text, type, s, k) ==
    IsReply(s, type, text) /\ k < Len(s) /\ x.wire = Drop(s, k) /\ At(x.reader, type, s, k)
Kinds(text) == {LineReply(Plus, text), LineReply(Minus, text), BulkOf(text), NilReply}
Answered(x, text) ==
    /\ x.err = FALSE /\ x.obuf = <<>> /\ x.sent = <<>>
    /\ \E type \in Types, s \in Kinds(text) : \E k \in 0 .. Len(s) : Comes(x, text, type, s, k)

\* A worker whose job has what was said to it, and its connection x.
Talk(x, job, answer) ==
    /\ job.pc = "writing" => answer = <<>> /\ Writes(x, job)
    /\ job.pc = "reading" => \/ answer = <<>> /\ Waiting(x, job)
                             \/ \E text \in {answer[i] : i \in DOMAIN answer} :
                                   answer = <<text>> /\ Answered(x, text)
    /\ job.pc = "done" => answer = <<job.result>> /\ Quiet(x)

TalkInv ==
    /\ \A w \in Worker : worker[w].pc = "free" => said[w] = <<>>
    /\ \A w \in Worker : worker[w].pc # "free" => Talk(conn[worker[w].conn], worker[w], said[w])
    /\ \A c \in pool : Quiet(conn[c])

RedisInv == TypesInv /\ HeldInv /\ TalkInv

\* A step of a worker with the connection that it holds, and the server's answer to it.
OneActs(w, c) ==
    /\ conn' \in [Conn -> Conns] /\ \A d \in Conn \ {c} : conn'[d] = conn[d]
    /\ worker' \in [Worker -> Threads] /\ \A v \in Worker \ {w} : worker'[v] = worker[v]
    /\ said' \in [Worker -> Saids] /\ \A v \in Worker \ {w} : said'[v] = said[v]
    /\ \A key \in DOMAIN store' : store'[key] \in Texts

LEMMA OneTalks ==
    ASSUME RedisInv, NEW w \in Worker, NEW c, Holds(worker[w], c), OneActs(w, c), pool' = pool,
           worker'[w].pc # "free", worker'[w].conn = c, conn'[c].open,
           Talk(conn'[c], worker'[w], said'[w])
    PROVE  RedisInv'
<1>1. worker[w].pc # "free" /\ worker[w].conn = c /\ c \in Conn /\ c \notin pool
  BY DEF Holds, RedisInv, HeldInv
<1>2. \A v \in Worker \ {w} : ~Holds(worker[v], c)
  BY <1>1 DEF Holds, RedisInv, HeldInv
<1>3. TypesInv'
  BY DEF OneActs, RedisInv, TypesInv, Conn
<1>4. HeldInv'
  <2>1. \A v \in Worker : worker'[v].conn = worker[v].conn /\ (worker'[v].pc # "free" <=> worker[v].pc # "free")
    BY <1>1 DEF OneActs
  <2>2. \A d \in Conn : conn'[d].open = conn[d].open \/ d = c
    BY DEF OneActs
  <2>3. \A v \in Worker : \A d \in Conn : Holds(worker'[v], d) <=> Holds(worker[v], d)
    BY <2>1 DEF Holds
  <2>4. \A v \in Worker : worker'[v].pc # "free" =>
           worker'[v].conn \in Conn /\ worker'[v].conn \notin pool' /\ conn'[worker'[v].conn].open
    BY <2>1, <2>2 DEF RedisInv, HeldInv
  <2>5. \A u, v \in Worker : \A d \in Conn : Holds(worker'[u], d) /\ Holds(worker'[v], d) => u = v
    BY <2>3 DEF RedisInv, HeldInv
  <2>6. \A d \in pool' : conn'[d].open
    BY <2>2 DEF RedisInv, HeldInv, TypesInv
  <2>7. \A d \in Conn : conn'[d].open => d \in pool' \/ \E v \in Worker : Holds(worker'[v], d)
    <3> SUFFICES ASSUME NEW d \in Conn, conn'[d].open PROVE d \in pool' \/ \E v \in Worker : Holds(worker'[v], d)
      OBVIOUS
    <3>1. CASE d = c
      BY <3>1, <2>3, <1>1
    <3>2. CASE d # c
      BY <3>2, <2>2, <2>3 DEF RedisInv, HeldInv
    <3> QED BY <3>1, <3>2
  <2>8. \A d \in Conn : conn'[d].alive => conn'[d].open
    BY DEF OneActs, RedisInv, HeldInv
  <2> QED BY <2>4, <2>5, <2>6, <2>7, <2>8 DEF HeldInv, Conn
<1>5. TalkInv'
  <2>1. \A v \in Worker : worker'[v].pc = "free" => said'[v] = <<>>
    BY DEF OneActs, RedisInv, TalkInv
  <2>2. \A v \in Worker : worker'[v].pc # "free" => Talk(conn'[worker'[v].conn], worker'[v], said'[v])
    <3> SUFFICES ASSUME NEW v \in Worker, worker'[v].pc # "free"
                 PROVE  Talk(conn'[worker'[v].conn], worker'[v], said'[v])
      OBVIOUS
    <3>1. CASE v = w
      BY <3>1
    <3>2. CASE v # w
      <4>1. worker'[v] = worker[v] /\ said'[v] = said[v]
        BY <3>2 DEF OneActs
      <4>2. worker[v].conn \in Conn \ {c}
        BY <4>1, <3>2, <1>2 DEF Holds, RedisInv, HeldInv
      <4>3. conn'[worker[v].conn] = conn[worker[v].conn]
        BY <4>2 DEF OneActs
      <4> QED BY <4>1, <4>3 DEF RedisInv, TalkInv
    <3> QED BY <3>1, <3>2
  <2>3. \A d \in pool' : Quiet(conn'[d])
    <3>1. \A d \in pool : d \in Conn \ {c}
      BY <1>1 DEF RedisInv, TypesInv
    <3> QED BY <3>1 DEF OneActs, RedisInv, TalkInv
  <2> QED BY <2>1, <2>2, <2>3, Zenon DEF TalkInv
<1> QED BY <1>3, <1>4, <1>5 DEF RedisInv
-----------------------------------------------------------------------------
(* Parts of what is on its way.                                            *)

LEMMA Begins ==
    ASSUME NEW s \in Texts, NEW n \in Nat, n <= Len(s)
    PROVE  SubSeq(s, 1, n) \in Texts /\ Len(SubSeq(s, 1, n)) = n /\ \A i \in 1 .. n : SubSeq(s, 1, n)[i] = s[i]
<1> DEFINE zero == 0
<1>1. zero \in Nat /\ zero <= n /\ zero + 1 = 1 /\ n - zero = n
  OBVIOUS
<1> HIDE DEF zero
<1>2. /\ SubSeq(s, zero + 1, n) \in Texts /\ Len(SubSeq(s, zero + 1, n)) = n - zero
      /\ \A i \in 1 .. n - zero : SubSeq(s, zero + 1, n)[i] = s[zero + i]
  BY <1>1, Part
<1>3. \A i \in 1 .. n : zero + i = i
  BY DEF zero
<1> QED BY <1>1, <1>2, <1>3

LEMMA Behind ==
    ASSUME NEW s \in Texts, NEW n \in Nat, n <= Len(s)
    PROVE  Drop(s, n) \in Texts /\ Len(Drop(s, n)) = Len(s) - n /\ \A i \in 1 .. Len(s) - n : Drop(s, n)[i] = s[n + i]
<1> DEFINE l == Len(s)
<1>1. l \in Nat /\ n <= l /\ l <= Len(s)
  BY DEF Texts
<1>2. Drop(s, n) = SubSeq(s, n + 1, l)
  BY DEF Drop
<1> HIDE DEF l
<1>3. /\ SubSeq(s, n + 1, l) \in Texts /\ Len(SubSeq(s, n + 1, l)) = l - n
      /\ \A i \in 1 .. l - n : SubSeq(s, n + 1, l)[i] = s[n + i]
  BY <1>1, Part
<1> QED BY <1>2, <1>3 DEF l

LEMMA Halves ==
    ASSUME NEW s \in Texts, NEW n \in Nat, n <= Len(s)
    PROVE  SubSeq(s, 1, n) \o Drop(s, n) = s
<1> DEFINE l == Len(s)
           a == SubSeq(s, 1, n)
           b == Drop(s, n)
<1>1. l \in Nat /\ Len(s) = l
  BY DEF Texts
<1>2. a \in Texts /\ Len(a) = n /\ \A i \in 1 .. n : a[i] = s[i]
  BY Begins
<1>3. b \in Texts /\ Len(b) = l - n /\ \A i \in 1 .. l - n : b[i] = s[n + i]
  BY Behind
<1> HIDE DEF l, a, b
<1>4. /\ a \o b \in Texts /\ Len(a \o b) = Len(a) + Len(b)
      /\ \A i \in 1 .. Len(a) : (a \o b)[i] = a[i]
      /\ \A i \in 1 .. Len(b) : (a \o b)[Len(a) + i] = b[i]
  <2>1. a \in Texts /\ b \in Texts
    BY <1>2, <1>3
  <2> QED BY <2>1, Joined
<1>5. Len(a \o b) = l
  BY <1>1, <1>2, <1>3, <1>4
<1>6. ASSUME NEW i \in 1 .. l PROVE (a \o b)[i] = s[i]
  <2>1. CASE i <= n
    <3>1. i \in 1 .. Len(a)
      BY <2>1, <1>2
    <3> QED BY <3>1, <1>2, <1>4
  <2>2. CASE i > n
    <3>1. i - n \in 1 .. l - n /\ n + (i - n) = i
      BY <2>2, <1>1
    <3>2. (a \o b)[n + (i - n)] = b[i - n] /\ b[i - n] = s[n + (i - n)]
      BY <3>1, <1>2, <1>3, <1>4
    <3> QED BY <3>1, <3>2
  <2>3. i <= n \/ i > n
    <3>1. i \in Int /\ n \in Int
      BY <1>1
    <3> QED BY <3>1
  <2> QED BY <2>1, <2>2, <2>3
<1>7. a \o b = s
  BY <1>1, <1>4, <1>5, <1>6, Same
<1> QED BY <1>7 DEF a, b

LEMMA BehindBehind ==
    ASSUME NEW s \in Texts, NEW k \in Nat, NEW n \in Nat, k + n <= Len(s)
    PROVE  /\ Drop(Drop(s, k), n) = Drop(s, k + n)
           /\ NextIn(SubSeq(Drop(s, k), 1, n), s, k, n)
<1> DEFINE l == Len(s)
           t == Drop(s, k)
           m == k + n
<1>1. l \in Nat /\ Len(s) = l /\ k <= l /\ m \in Nat /\ m <= l
  BY DEF Texts
<1>2. t \in Texts /\ Len(t) = l - k /\ \A i \in 1 .. l - k : t[i] = s[k + i]
  BY <1>1, Behind
<1>a. n <= l - k /\ l - m = (l - k) - n
  BY <1>1
<1> HIDE DEF l, t
<1>3. Drop(t, n) \in Texts /\ Len(Drop(t, n)) = Len(t) - n /\ \A i \in 1 .. Len(t) - n : Drop(t, n)[i] = t[n + i]
  BY <1>2, <1>a, Behind
<1>4. SubSeq(t, 1, n) \in Texts /\ Len(SubSeq(t, 1, n)) = n /\ \A i \in 1 .. n : SubSeq(t, 1, n)[i] = t[i]
  BY <1>2, <1>a, Begins
<1>5. NextIn(SubSeq(t, 1, n), s, k, n)
  <2>1. \A i \in 1 .. n : t[i] = s[k + i]
    BY <1>2, <1>a, <1>1
  <2> QED BY <2>1, <1>4 DEF NextIn
<1>b. \A i \in 1 .. Len(t) - n : n + i \in 1 .. l - k /\ k + (n + i) = m + i
  BY <1>1, <1>2
<1> HIDE DEF m
<1>6. Drop(s, m) \in Texts /\ Len(Drop(s, m)) = l - m /\ \A i \in 1 .. l - m : Drop(s, m)[i] = s[m + i]
  BY <1>1, Behind
<1>7. Drop(t, n) = Drop(s, m)
  <2>1. Len(t) - n \in Nat /\ Len(t) - n = l - m
    BY <1>1, <1>2, <1>a
  <2>2. \A i \in 1 .. Len(t) - n : Drop(t, n)[i] = Drop(s, m)[i]
    <3> SUFFICES ASSUME NEW i \in 1 .. Len(t) - n PROVE Drop(t, n)[i] = Drop(s, m)[i]
      OBVIOUS
    <3>1. Drop(t, n)[i] = t[n + i] /\ t[n + i] = s[k + (n + i)]
      BY <1>2, <1>3, <1>b
    <3>2. Drop(s, m)[i] = s[m + i]
      BY <2>1, <1>6
    <3> QED BY <3>1, <3>2, <1>b
  <2>3. PICK q \in Nat : q = Len(t) - n
    BY <2>1
  <2>4. Len(Drop(t, n)) = q /\ Len(Drop(s, m)) = q /\ \A i \in 1 .. q : Drop(t, n)[i] = Drop(s, m)[i]
    BY <2>1, <2>2, <2>3, <1>3, <1>6
  <2> QED BY <2>4, <1>3, <1>6, Same
<1> QED BY <1>5, <1>7 DEF t, m

-----------------------------------------------------------------------------
(* The steps.                                                              *)

LEMMA NoConnIs ==
    /\ NoConn \in Conns /\ NewConn \in Conns /\ Quiet(NewConn) /\ NewConn.open
    /\ NoConn.open = FALSE /\ NoConn.alive = FALSE
<1>1. NewReader \in Readers /\ Fresh(NewReader) /\ NewReader.stack = <<>>
  BY DEF NewReader, Readers, Texts, Stacks, Lists, Fresh
<1>2. /\ NoConn \in Conns /\ NoConn.err = FALSE /\ NoConn.obuf = <<>> /\ NoConn.sent = <<>>
      /\ NoConn.wire = <<>> /\ NoConn.reader = NewReader /\ NoConn.open = FALSE /\ NoConn.alive = FALSE
  BY <1>1 DEF NoConn, Conns, Texts
<1>3. /\ NewConn \in Conns /\ NewConn.err = FALSE /\ NewConn.obuf = <<>> /\ NewConn.sent = <<>>
      /\ NewConn.wire = <<>> /\ NewConn.reader = NewReader /\ NewConn.open = TRUE
  <2> HIDE DEF NoConn
  <2> QED BY <1>2 DEF NewConn, Conns
<1> QED BY <1>1, <1>2, <1>3 DEF Quiet

LEMMA RedisInitHolds == RedisInit => RedisInv
<1> SUFFICES ASSUME RedisInit PROVE RedisInv
  OBVIOUS
<1>1. TypesInv
  <2>1. Free \in Threads
    BY DEF Free, Threads, Texts
  <2>2. DOMAIN store = {}
    BY DEF RedisInit
  <2> QED BY <2>1, <2>2, NoConnIs DEF RedisInit, TypesInv, Saids
<1>2. HeldInv
  BY NoConnIs DEF RedisInit, HeldInv, Free, Holds
<1>3. TalkInv
  BY DEF RedisInit, TalkInv, Free
<1> QED BY <1>1, <1>2, <1>3 DEF RedisInv

\* The worker and its connection.
LEMMA Own ==
    ASSUME RedisInv, NEW w \in Worker, worker[w].pc # "free"
    PROVE  /\ worker[w].conn \in Conn /\ worker[w].conn \notin pool
           /\ Holds(worker[w], worker[w].conn)
           /\ conn[worker[w].conn] \in Conns /\ conn[worker[w].conn].open
           /\ worker[w] \in Threads /\ said[w] \in Saids
           /\ Talk(conn[worker[w].conn], worker[w], said[w])
BY DEF RedisInv, TypesInv, HeldInv, TalkInv, Holds

LEMMA BufferWriteKeeps ==
    ASSUME RedisInv, NEW w \in Worker, BufferWrite(w)
    PROVE  RedisInv'
<1> DEFINE c == worker[w].conn
           x == conn[c]
<1>1. /\ c \in Conn /\ Holds(worker[w], c) /\ x \in Conns /\ x.open
      /\ worker[w].pc = "writing" /\ said[w] = <<>> /\ Writes(x, worker[w])
  BY Own DEF BufferWrite, Talk
<1>2. PICK n \in Nat :
         /\ n >= 1 /\ n <= Len(x.obuf)
         /\ conn' = [conn EXCEPT ![c].obuf = Drop(@, n),
                            ![c].sent = IF conn[c].alive THEN @ \o SubSeq(conn[c].obuf, 1, n) ELSE @]
         /\ worker' = [worker EXCEPT ![w].pc = IF n = Len(conn[c].obuf) THEN "reading" ELSE @]
  <2>1. PICK n \in Amounts(conn[c].obuf, conn[c].sent = <<>>) :
           /\ conn' = [conn EXCEPT ![c].obuf = Drop(@, n),
                              ![c].sent = IF conn[c].alive THEN @ \o SubSeq(conn[c].obuf, 1, n) ELSE @]
           /\ worker' = [worker EXCEPT ![w].pc = IF n = Len(conn[c].obuf) THEN "reading" ELSE @]
    BY DEF BufferWrite
  <2>2. n \in 1 .. Len(x.obuf) /\ Len(x.obuf) \in Nat
    BY <1>1 DEF Amounts, Conns, Texts
  <2>3. n \in Nat /\ n >= 1 /\ n <= Len(x.obuf)
    BY <2>2
  <2> QED BY <2>1, <2>3, Zenon
<1>3. x.obuf \in Texts /\ x.sent \in Texts /\ Len(x.obuf) \in Nat
  BY <1>1 DEF Conns, Texts
<1>4. /\ SubSeq(x.obuf, 1, n) \in Texts /\ Drop(x.obuf, n) \in Texts
      /\ Len(Drop(x.obuf, n)) = Len(x.obuf) - n
      /\ SubSeq(x.obuf, 1, n) \o Drop(x.obuf, n) = x.obuf
  BY <1>2, <1>3, Begins, Behind, Halves
<1>a. n \in Nat /\ n <= Len(x.obuf) /\ Len(x.obuf) \in Nat /\ Len(Drop(x.obuf, n)) = Len(x.obuf) - n
  BY <1>2, <1>3, <1>4
<1> DEFINE sent == IF x.alive THEN x.sent \o SubSeq(x.obuf, 1, n) ELSE x.sent
<1>5. sent \in Texts
  BY <1>3, <1>4, Joined
<1>6. /\ conn' \in [Conn -> Conns] /\ \A d \in Conn \ {c} : conn'[d] = conn[d]
      /\ conn'[c].obuf = Drop(x.obuf, n) /\ conn'[c].sent = sent /\ conn'[c].open = x.open
      /\ conn'[c].alive = x.alive /\ conn'[c].err = x.err /\ conn'[c].wire = x.wire
      /\ conn'[c].reader = x.reader
  <2> HIDE DEF sent
  <2>1. conn \in [Conn -> Conns]
    BY DEF RedisInv, TypesInv
  <2>2. conn' = [conn EXCEPT ![c].obuf = Drop(x.obuf, n), ![c].sent = sent]
    BY <1>2, <2>1 DEF sent
  <2> QED BY <2>1, <2>2, <1>1, <1>4, <1>5 DEF Conns
<1>7. /\ worker' \in [Worker -> Threads] /\ \A v \in Worker \ {w} : worker'[v] = worker[v]
      /\ worker'[w].pc = (IF n = Len(x.obuf) THEN "reading" ELSE "writing")
      /\ worker'[w].conn = c /\ worker'[w].id = worker[w].id /\ worker'[w].content = worker[w].content
  BY <1>1, <1>2 DEF RedisInv, TypesInv, Threads
<1>8. Format(Command(worker'[w])) = Format(Command(worker[w]))
  BY <1>7 DEF Command
<1>9. Talk(conn'[c], worker'[w], said'[w])
  <2>1. said'[w] = <<>>
    BY <1>1 DEF BufferWrite
  <2>2. /\ x.err = FALSE /\ x.wire = <<>> /\ Fresh(x.reader)
        /\ IF x.alive THEN x.sent \o x.obuf = Format(Command(worker[w])) ELSE x.sent = <<>>
    BY <1>1 DEF Writes
  <2>3. x.alive => sent \o Drop(x.obuf, n) = Format(Command(worker[w]))
    <3> SUFFICES ASSUME x.alive
                 PROVE  (x.sent \o SubSeq(x.obuf, 1, n)) \o Drop(x.obuf, n) = Format(Command(worker[w]))
      OBVIOUS
    <3>1. (x.sent \o SubSeq(x.obuf, 1, n)) \o Drop(x.obuf, n) = x.sent \o (SubSeq(x.obuf, 1, n) \o Drop(x.obuf, n))
      <4>1. x.sent \in Texts /\ SubSeq(x.obuf, 1, n) \in Texts /\ Drop(x.obuf, n) \in Texts
        BY <1>3, <1>4
      <4> QED BY <4>1, Reordered
    <3> QED BY <3>1, <2>2, <1>4
  <2>4. CASE n = Len(x.obuf)
    <3>1. Drop(x.obuf, n) = <<>>
      <4>1. Len(Drop(x.obuf, n)) = 0
        BY <2>4, <1>a
      <4> QED BY <4>1, <1>4, EmptySeq DEF Texts
    <3>2. x.alive => sent = Format(Command(worker[w]))
      <4>1. sent \o <<>> = sent
        BY <1>5, ConcatEmptySeq DEF Texts
      <4> HIDE DEF sent
      <4> QED BY <4>1, <3>1, <2>3
    <3>3. ~x.alive => sent = <<>>
      BY <2>2
    <3>4. Waiting(conn'[c], worker'[w]) /\ worker'[w].pc = "reading"
      <4> HIDE DEF sent
      <4> QED BY <2>2, <2>4, <3>1, <3>2, <3>3, <1>6, <1>7, <1>8 DEF Waiting
    <3> QED BY <3>4, <2>1 DEF Talk
  <2>5. CASE n # Len(x.obuf)
    <3>1. Drop(x.obuf, n) # <<>>
      <4>1. Len(Drop(x.obuf, n)) # 0
        BY <2>5, <1>a
      <4> QED BY <4>1
    <3>2. ~x.alive => sent = <<>>
      BY <2>2
    <3>3. Writes(conn'[c], worker'[w]) /\ worker'[w].pc = "writing"
      <4> HIDE DEF sent
      <4> QED BY <2>2, <2>3, <2>5, <3>1, <3>2, <1>6, <1>7, <1>8 DEF Writes
    <3> QED BY <3>3, <2>1 DEF Talk
  <2> QED BY <2>4, <2>5
<1>10. OneActs(w, c) /\ pool' = pool
  BY <1>6, <1>7 DEF OneActs, BufferWrite, RedisInv, TypesInv
<1>11. worker'[w].pc # "free" /\ conn'[c].open
  BY <1>1, <1>6, <1>7
<1> HIDE DEF c
<1> QED BY <1>1, <1>7, <1>9, <1>10, <1>11, OneTalks

LEMMA Breaking ==
    ASSUME RedisInv, NEW w \in Worker, worker[w].pc # "free", Breaks(w, worker[w].conn),
           UNCHANGED <<up, store, pool, said, runs, crashes>>
    PROVE  RedisInv'
<1> DEFINE c == worker[w].conn
<1>1. c \in Conn /\ Holds(worker[w], c) /\ conn[c] \in Conns /\ conn[c].open
  BY Own
<1>2. /\ conn' \in [Conn -> Conns] /\ (\A d \in Conn \ {c} : conn'[d] = conn[d]) /\ conn'[c].open
  BY <1>1 DEF Breaks, RedisInv, TypesInv, Conns
<1>3. /\ worker' \in [Worker -> Threads] /\ \A v \in Worker \ {w} : worker'[v] = worker[v]
      /\ worker'[w].pc = "thrown" /\ worker'[w].conn = c
  <2>1. worker \in [Worker -> Threads] /\ <<>> \in Texts
    BY DEF RedisInv, TypesInv, Texts
  <2>2. worker' = [worker EXCEPT ![w].pc = "thrown", ![w].result = <<>>]
    BY DEF Breaks, Proceeds
  <2> QED BY <2>1, <2>2 DEF Threads
<1>4. OneActs(w, c)
  BY <1>2, <1>3 DEF OneActs, RedisInv, TypesInv
<1>5. Talk(conn'[c], worker'[w], said'[w])
  BY <1>3 DEF Talk
<1> HIDE DEF c
<1> QED BY <1>1, <1>2, <1>3, <1>4, <1>5, OneTalks

LEMMA FailsKeep ==
    ASSUME RedisInv, NEW w \in Worker, WriteFails(w) \/ ReadFails(w)
    PROVE  RedisInv'
BY Breaking DEF WriteFails, ReadFails

LEMMA NoOutcome ==
    ASSUME NEW read, read.reader.err = FALSE, read.reply = <<>>, NEW pc
    PROVE  Outcome(read, pc) = [pc |-> pc, result |-> <<>>]
BY DEF Outcome

LEMMA SomeOutcome ==
    ASSUME NEW read, read.reader.err = FALSE, NEW text, NEW type \in {"error", "status", "string", "nil"},
           read.reply = <<<<Object(type, text)>>>>, type = "nil" => text = <<>>, NEW pc
    PROVE  Outcome(read, pc) \in {[pc |-> "thrown", result |-> <<>>], [pc |-> "done", result |-> text]}
<1>1. read.reply # <<>> /\ read.reply[1][1] = Object(type, text)
  OBVIOUS
<1>2. TextOf(Object(type, text)) = text
  BY DEF TextOf, Object
<1> QED BY <1>1, <1>2 DEF Outcome

\* What has arrived is given to the reader.
LEMMA BufferReadKeeps ==
    ASSUME RedisInv, NEW w \in Worker, BufferRead(w)
    PROVE  RedisInv'
<1> DEFINE c == worker[w].conn
           x == conn[c]
<1>1. /\ c \in Conn /\ Holds(worker[w], c) /\ x \in Conns /\ x.open
      /\ worker[w].pc = "reading" /\ said[w] \in Saids
      /\ \/ Waiting(x, worker[w])
         \/ \E text \in {said[w][i] : i \in DOMAIN said[w]} : said[w] = <<text>> /\ Answered(x, text)
      /\ x.wire \in Texts /\ Len(x.wire) \in Nat
  <2>1. worker[w].pc = "reading"
    BY DEF BufferRead
  <2>2. /\ c \in Conn /\ Holds(worker[w], c) /\ x \in Conns /\ x.open /\ said[w] \in Saids
        /\ Talk(x, worker[w], said[w])
    BY <2>1, Own
  <2>3. x.wire \in Texts
    BY <2>2 DEF Conns
  <2>4. Len(x.wire) \in Nat
    BY <2>3 DEF Texts
  <2> HIDE DEF c, x
  <2>5. \/ Waiting(x, worker[w])
        \/ \E text \in {said[w][i] : i \in DOMAIN said[w]} : said[w] = <<text>> /\ Answered(x, text)
    BY <2>1, <2>2 DEF Talk
  <2> QED BY <2>1, <2>2, <2>3, <2>4, <2>5
<1> DEFINE read(n) == GetReply(Feed(x.reader, SubSeq(x.wire, 1, n)))
<1>2. PICK n \in Nat : n >= 1 /\ n <= Len(x.wire) /\ BufferReadOf(w, c, n, read(n))
  <2>1. PICK n \in Amounts(x.wire, x.reader.stack = <<>>) : BufferReadOf(w, c, n, read(n))
    BY DEF BufferRead
  <2>2. n \in 1 .. Len(x.wire) /\ Len(x.wire) \in Nat
    BY <1>1 DEF Amounts
  <2>3. n \in Nat /\ n >= 1 /\ n <= Len(x.wire)
    BY <2>2
  <2> QED BY <2>1, <2>3, Zenon
<1>3. PICK text \in Texts : said[w] = <<text>> /\ Answered(x, text)
  <2>1. ~Waiting(x, worker[w])
    <3>1. x.wire # <<>>
      BY <1>1, <1>2
    <3> QED BY <3>1 DEF Waiting
  <2>2. PICK text : said[w] = <<text>> /\ Answered(x, text)
    BY <1>1, <2>1
  <2>3. text \in Texts
    BY <2>2, <1>1 DEF Saids
  <2> QED BY <2>2, <2>3
<1>4. PICK type \in Types, s \in Kinds(text) : \E k \in 0 .. Len(s) : Comes(x, text, type, s, k)
  BY <1>3 DEF Answered
<1>5. PICK k \in 0 .. Len(s) : Comes(x, text, type, s, k)
  BY <1>4
<1>6. IsReply(s, type, text) /\ x.wire = Drop(s, k) /\ At(x.reader, type, s, k)
  BY <1>5 DEF Comes
<1>7. s \in Texts /\ Len(s) \in Nat /\ k \in Nat /\ k <= Len(s)
  BY <1>5, <1>6, ReplyIs
<1>8. Len(x.wire) = Len(s) - k
  BY <1>6, <1>7, Behind
<1>9. k + n \in Nat /\ k + n <= Len(s)
  BY <1>2, <1>7, <1>8
<1> DEFINE wire == Drop(x.wire, n)
           got == read(n)
           out == Outcome(got, "reading")
<1>10. wire = Drop(s, k + n) /\ NextIn(SubSeq(x.wire, 1, n), s, k, n)
  BY <1>6, <1>7, <1>9, BehindBehind
<1>11. /\ k + n < Len(s) => At(got.reader, type, s, k + n) /\ got.reply = <<>>
       /\ k + n = Len(s) =>
             /\ Fresh(got.reader) /\ got.reader.stack = <<>>
             /\ \E tt \in {"error", "status", "string", "nil"} :
                   got.reply = <<<<Object(tt, text)>>>> /\ (tt = "nil" => text = <<>>)
  <2> DEFINE rd   == x.reader
             part == SubSeq(x.wire, 1, n)
  <2>1. /\ text \in Texts /\ IsReply(s, type, text) /\ k \in Nat /\ n \in Nat /\ n >= 1
        /\ k + n <= Len(s) /\ At(rd, type, s, k) /\ NextIn(part, s, k, n)
    BY <1>2, <1>6, <1>7, <1>9, <1>10
  <2>2. got = GetReply(Feed(rd, part))
    OBVIOUS
  <2> HIDE DEF rd, part, got
  <2>3. LET last == GetReply(Feed(rd, part))
        IN  /\ k + n < Len(s) => At(last.reader, type, s, k + n) /\ last.reply = <<>>
            /\ k + n = Len(s) =>
                  /\ Fresh(last.reader) /\ last.reader.stack = <<>>
                  /\ \E tt \in {"error", "status", "string", "nil"} :
                        last.reply = <<<<Object(tt, text)>>>> /\ (tt = "nil" => text = <<>>)
    BY ONLY <2>1, Looks
  <2> QED BY ONLY <2>2, <2>3
<1>12. wire \in Texts
  BY <1>1, <1>2, Behind
<1>13. k + n < Len(s) \/ k + n = Len(s)
  BY <1>7, <1>9
<1>14. got.reader \in Readers /\ got.reader.err = FALSE
  <2> HIDE DEF got
  <2>1. CASE k + n < Len(s)
    BY <2>1, <1>11 DEF At, Fresh, Within
  <2>2. CASE k + n = Len(s)
    BY <2>2, <1>11 DEF Fresh
  <2> QED BY <2>1, <2>2, <1>13
<1>15. /\ out.result \in Texts
       /\ k + n < Len(s) => out.pc = "reading"
       /\ k + n = Len(s) => out.pc = "thrown" \/ (out.pc = "done" /\ out.result = text)
  <2> HIDE DEF got
  <2>1. CASE k + n < Len(s)
    <3>1. out = [pc |-> "reading", result |-> <<>>]
      BY <2>1, <1>11, <1>14, NoOutcome
    <3>2. k + n # Len(s)
      BY <2>1, <1>7, <1>9
    <3> HIDE DEF out
    <3> QED BY <3>1, <3>2 DEF Texts
  <2>2. CASE k + n = Len(s)
    <3>1. out \in {[pc |-> "thrown", result |-> <<>>], [pc |-> "done", result |-> text]}
      BY <2>2, <1>11, <1>14, SomeOutcome
    <3>2. ~(k + n < Len(s))
      BY <2>2, <1>7, <1>9
    <3>3. <<>> \in Texts
      BY DEF Texts
    <3> HIDE DEF out
    <3>4. \/ out.pc = "thrown" /\ out.result = <<>>
          \/ out.pc = "done" /\ out.result = text
      BY <3>1
    <3> QED BY <3>2, <3>3, <3>4
  <2> QED BY <2>1, <2>2, <1>13
<1>16. /\ conn' \in [Conn -> Conns] /\ \A d \in Conn \ {c} : conn'[d] = conn[d]
       /\ conn'[c].open = x.open /\ conn'[c].alive = x.alive /\ conn'[c].err = x.err
       /\ conn'[c].obuf = x.obuf /\ conn'[c].sent = x.sent /\ conn'[c].wire = wire
       /\ conn'[c].reader = got.reader
  <2>1. conn \in [Conn -> Conns]
    BY DEF RedisInv, TypesInv
  <2>2. x.err = FALSE
    BY <1>3 DEF Answered
  <2>3. conn' = [conn EXCEPT ![c].wire = Drop(@, n), ![c].reader = got.reader, ![c].err = @ \/ got.reader.err]
    BY <1>2 DEF BufferReadOf
  <2> HIDE DEF got
  <2>4. (x.err \/ got.reader.err) = FALSE
    BY <2>2, <1>14
  <2>5. conn' = [conn EXCEPT ![c].wire = wire, ![c].reader = got.reader, ![c].err = FALSE]
    BY <2>1, <2>3, <2>4
  <2> HIDE DEF wire
  <2> QED BY <2>1, <2>2, <2>5, <1>1, <1>12, <1>14 DEF Conns
<1>17. /\ worker' \in [Worker -> Threads] /\ \A v \in Worker \ {w} : worker'[v] = worker[v]
       /\ worker'[w].pc = out.pc /\ worker'[w].result = out.result /\ worker'[w].conn = c
  <2>1. worker \in [Worker -> Threads]
    BY DEF RedisInv, TypesInv
  <2>2. worker' = [worker EXCEPT ![w].pc = out.pc, ![w].result = out.result]
    BY <1>2 DEF BufferReadOf, Proceeds
  <2> HIDE DEF out
  <2>3. out.pc \in {"reading", "thrown", "done"}
    BY <1>13, <1>15
  <2> QED BY <2>1, <2>2, <2>3, <1>15 DEF Threads
<1> HIDE DEF out, got, wire
<1>18. Talk(conn'[c], worker'[w], said'[w])
  <2>1. said'[w] = <<text>>
    BY <1>3 DEF BufferRead
  <2>2. x.err = FALSE /\ x.obuf = <<>> /\ x.sent = <<>>
    BY <1>3 DEF Answered
  <2>3. CASE k + n < Len(s)
    <3>1. Comes(conn'[c], text, type, s, k + n)
      BY <2>3, <1>6, <1>10, <1>11, <1>16 DEF Comes, wire
    <3>2. k + n \in 0 .. Len(s)
      BY <1>7, <1>9
    <3>3. Answered(conn'[c], text)
      BY <2>2, <3>1, <3>2, <1>16 DEF Answered
    <3>4. worker'[w].pc = "reading"
      BY <2>3, <1>15, <1>17
    <3>5. text \in {said'[w][i] : i \in DOMAIN said'[w]}
      BY <2>1
    <3> QED BY <2>1, <3>3, <3>4, <3>5 DEF Talk
  <2>4. CASE k + n = Len(s)
    <3>1. wire = <<>>
      <4>1. Len(Drop(s, k + n)) = Len(s) - (k + n)
        BY <1>7, <1>9, Behind
      <4>2. Len(wire) = 0
        BY <2>4, <4>1, <1>7, <1>10
      <4> QED BY <4>2, <1>12, EmptySeq DEF Texts
    <3>2. Quiet(conn'[c])
      BY <2>2, <2>4, <3>1, <1>11, <1>16 DEF Quiet
    <3>3. worker'[w].pc = "thrown" \/ (worker'[w].pc = "done" /\ worker'[w].result = text)
      BY <2>4, <1>15, <1>17
    <3> QED BY <2>1, <3>2, <3>3 DEF Talk
  <2> QED BY <2>3, <2>4, <1>13
<1>19. OneActs(w, c) /\ pool' = pool
  BY <1>16, <1>17 DEF OneActs, BufferRead, RedisInv, TypesInv
<1>20. worker'[w].pc # "free" /\ conn'[c].open
  BY <1>1, <1>13, <1>15, <1>16, <1>17
<1> HIDE DEF c
<1> QED BY <1>1, <1>17, <1>18, <1>19, <1>20, OneTalks

-----------------------------------------------------------------------------
(* The server.                                                             *)

LEMMA BytesAreText ==
    ASSUME NEW s \in Seq(Byte)
    PROVE  s \in Texts
<1>1. Len(s) \in Nat /\ s \in [1 .. Len(s) -> Byte]
  OBVIOUS
<1>2. \A b \in Byte : b \in Int
  BY DEF Byte
<1>3. s \in [1 .. Len(s) -> Int]
  BY <1>1, <1>2
<1> QED BY <1>1, <1>3, SeqDef DEF Texts

LEMMA JobsAsk == \A job \in Jobs : Asks(job) /\ job.conn = 0
<1>1. \A i \in Ids : i \in Texts
  BY PoolAssumption, BytesAreText
<1>2. \A x \in Contents \cup {<<>>} : x \in Texts
  <2>1. \A x \in Contents : x \in Seq(Byte)
    BY PoolAssumption, Zenon
  <2>2. <<>> \in Texts
    BY DEF Texts
  <2> QED BY <2>1, <2>2, BytesAreText
<1> SUFFICES ASSUME NEW job \in Jobs PROVE Asks(job) /\ job.conn = 0
  OBVIOUS
<1>3. PICK i \in Ids, x \in Contents \cup {<<>>} : job = Job(i, x)
  BY DEF Jobs
<1>4. job.id = i /\ job.content = x /\ job.conn = 0
  BY <1>3 DEF Free, Job
<1> QED BY <1>1, <1>2, <1>4 DEF Asks

\* The server has answered a job on a connection.
Served(c, job, reply, text) ==
    /\ conn' = [conn EXCEPT ![c].wire = @ \o reply, ![c].sent = Drop(@, Len(Format(Command(job))))]
    /\ said' = [w \in Worker |->
                  IF w \in {v \in Worker : worker[v].pc # "free" /\ worker[v].conn = c
                                           /\ Command(worker[v]) = Command(job)}
                  THEN <<text>> ELSE said[w]]

Replies(c, job, reply, text) ==
    /\ \E type \in Types : IsReply(reply, type, text)
    /\ reply \in Kinds(text)
    /\ Served(c, job, reply, text)

LEMMA ServeIs ==
    ASSUME TypesInv, NEW c \in Conn, Serve(c)
    PROVE  /\ conn[c].alive /\ pool' = pool /\ worker' = worker
           /\ \A key \in DOMAIN store' : store'[key] \in Texts
           /\ \E job \in Jobs : /\ BeginsWith(conn[c].sent, Format(Command(job)))
                                /\ \E text \in Texts : \E reply \in Kinds(text) : Replies(c, job, reply, text)
<1>1. PICK job \in Jobs :
         LET args == Command(job)
             key  == args[2]
         IN /\ BeginsWith(conn[c].sent, Format(args))
            /\ \/ \E fault \in Faults : Served(c, job, ErrorReply(fault), fault) /\ UNCHANGED store
               \/ /\ args[1] = SET
                  /\ Served(c, job, StatusReply, OK)
                  /\ store' = [k \in DOMAIN store \cup {key} |-> IF k = key THEN args[3] ELSE store[k]]
               \/ /\ args[1] = GET
                  /\ IF key \in DOMAIN store THEN Served(c, job, BulkOf(store[key]), store[key])
                     ELSE Served(c, job, NilReply, <<>>)
                  /\ UNCHANGED store
  BY Zenon DEF Serve, Served
<1>2. conn[c].alive /\ pool' = pool /\ worker' = worker
  BY DEF Serve
<1> DEFINE args == Command(job)
           key  == args[2]
           Whole == \E text \in Texts : \E reply \in Kinds(text) : Replies(c, job, reply, text)
<1>3. Asks(job)
  BY JobsAsk
<1>4. ASSUME NEW fault \in Faults, Served(c, job, ErrorReply(fault), fault), UNCHANGED store
      PROVE  Whole /\ \A k \in DOMAIN store' : store'[k] \in Texts
  <2>1. fault \in Texts /\ \A i \in 1 .. Len(fault) : fault[i] # CR
    <3>1. fault \in Seq(Byte) /\ CR \notin {fault[i] : i \in DOMAIN fault}
      BY PoolAssumption, Zenon
    <3>2. DOMAIN fault = 1 .. Len(fault)
      BY <3>1
    <3> QED BY <3>1, <3>2, BytesAreText
  <2>2. ErrorReply(fault) = LineReply(Minus, fault)
    BY DEF ErrorReply, LineReply
  <2>3. IsReply(ErrorReply(fault), "error", fault) /\ ErrorReply(fault) \in Kinds(fault)
    BY <2>1, <2>2 DEF IsReply, Kinds
  <2>4. Replies(c, job, ErrorReply(fault), fault)
    BY <2>3, <1>4 DEF Replies, Types
  <2> QED BY <2>1, <2>3, <2>4, <1>4 DEF TypesInv
<1>5. ASSUME args[1] = SET, Served(c, job, StatusReply, OK),
             store' = [k \in DOMAIN store \cup {key} |-> IF k = key THEN args[3] ELSE store[k]]
      PROVE  Whole /\ \A k \in DOMAIN store' : store'[k] \in Texts
  <2>1. OK \in Texts /\ \A i \in 1 .. Len(OK) : OK[i] # CR
    BY DEF OK, Texts, CR
  <2>2. StatusReply = LineReply(Plus, OK)
    BY DEF StatusReply, LineReply
  <2>3. IsReply(StatusReply, "status", OK) /\ StatusReply \in Kinds(OK)
    BY <2>1, <2>2 DEF IsReply, Kinds
  <2>4. Replies(c, job, StatusReply, OK)
    BY <2>3, <1>5 DEF Replies, Types
  <2>5. job.content # <<>>
    <3>1. GET # SET
      BY DEF GET, SET
    <3>2. ASSUME job.content = <<>> PROVE FALSE
      BY <3>1, <3>2, <1>3, <1>5, CommandIs
    <3> QED BY <3>2
  <2>6. args[3] \in Texts
    BY <2>5, <1>3, CommandIs DEF Asks
  <2>7. \A k \in DOMAIN store' : store'[k] \in Texts
    <3> HIDE DEF args, key
    <3>1. DOMAIN store' = DOMAIN store \cup {key}
      BY <1>5
    <3>2. \A k \in DOMAIN store' : store'[k] = IF k = key THEN args[3] ELSE store[k]
      BY <1>5
    <3> QED BY <3>1, <3>2, <2>6 DEF TypesInv
  <2> QED BY <2>1, <2>3, <2>4, <2>7
<1>6. ASSUME IF key \in DOMAIN store THEN Served(c, job, BulkOf(store[key]), store[key])
             ELSE Served(c, job, NilReply, <<>>), UNCHANGED store
      PROVE  Whole /\ \A k \in DOMAIN store' : store'[k] \in Texts
  <2>1. CASE key \in DOMAIN store
    <3>1. store[key] \in Texts
      BY <2>1 DEF TypesInv
    <3>2. IsReply(BulkOf(store[key]), "string", store[key]) /\ BulkOf(store[key]) \in Kinds(store[key])
      BY DEF IsReply, Kinds
    <3>3. Replies(c, job, BulkOf(store[key]), store[key])
      BY <3>2, <2>1, <1>6 DEF Replies, Types
    <3> QED BY <3>1, <3>2, <3>3, <1>6 DEF TypesInv
  <2>2. CASE key \notin DOMAIN store
    <3>1. <<>> \in Texts
      BY DEF Texts
    <3>2. IsReply(NilReply, "string", <<>>) /\ NilReply \in Kinds(<<>>)
      BY DEF IsReply, Kinds
    <3>3. Replies(c, job, NilReply, <<>>)
      BY <3>2, <2>2, <1>6 DEF Replies, Types
    <3> QED BY <3>1, <3>2, <3>3, <1>6 DEF TypesInv
  <2> QED BY <2>1, <2>2
<1>7. Whole /\ \A k \in DOMAIN store' : store'[k] \in Texts
  <2> HIDE DEF Whole
  <2> QED BY <1>1, <1>4, <1>5, <1>6
<1> QED BY <1>1, <1>2, <1>7

LEMMA Extends ==
    ASSUME NEW p \in Texts, NEW s \in Texts, NEW t \in Texts, Prefix(p, s)
    PROVE  Prefix(p, s \o t)
<1>1. Len(p) \in Nat /\ Len(s) \in Nat /\ Len(t) \in Nat
  BY DEF Texts
<1>2. Len(s \o t) = Len(s) + Len(t) /\ \A i \in 1 .. Len(s) : (s \o t)[i] = s[i]
  BY Joined
<1> QED BY <1>1, <1>2 DEF Prefix

LEMMA ServeKeeps ==
    ASSUME RedisInv, NEW c \in Conn, Serve(c)
    PROVE  RedisInv'
<1> DEFINE x == conn[c]
<1>1. TypesInv /\ x \in Conns
  BY DEF RedisInv, TypesInv
<1>2. /\ x.alive /\ pool' = pool /\ worker' = worker
      /\ \A key \in DOMAIN store' : store'[key] \in Texts
  BY <1>1, ServeIs
<1>3. PICK job \in Jobs : /\ BeginsWith(x.sent, Format(Command(job)))
                         /\ \E text \in Texts : \E reply \in Kinds(text) : Replies(c, job, reply, text)
  BY <1>1, ServeIs
<1>a. PICK text \in Texts : \E reply \in Kinds(text) : Replies(c, job, reply, text)
  BY <1>3
<1>4. PICK reply \in Kinds(text) : Replies(c, job, reply, text)
  BY <1>a
<1>5. PICK type \in Types : IsReply(reply, type, text)
  BY <1>4 DEF Replies
<1>6. reply \in Texts /\ Len(reply) \in Nat /\ Len(reply) >= 3
  BY <1>5, ReplyIs
<1> DEFINE F == Format(Command(job))
<1>7. F \in Texts /\ Len(F) \in Nat /\ Len(F) >= 4 /\ Asks(job)
  BY JobsAsk, FormatIs
<1>8. x.sent \in Texts /\ x.obuf \in Texts /\ x.wire \in Texts /\ Len(x.sent) \in Nat
  BY <1>1 DEF Conns, Texts
<1>9. Prefix(F, x.sent)
  <2> HIDE DEF F
  <2> QED BY <1>3, <1>7, <1>8, BeginsIs DEF F
<1>10. x.sent # <<>> /\ Len(F) <= Len(x.sent)
  <2>1. Len(F) <= Len(x.sent)
    BY <1>9 DEF Prefix
  <2> HIDE DEF F
  <2> QED BY <2>1, <1>7
<1>11. c \notin pool
  BY <1>10 DEF RedisInv, TalkInv, Quiet
<1>12. PICK w \in Worker : Holds(worker[w], c)
  BY <1>2, <1>11 DEF RedisInv, HeldInv
<1>13. /\ worker[w].pc # "free" /\ worker[w].conn = c /\ worker[w] \in Threads
       /\ x.open /\ Talk(x, worker[w], said[w]) /\ said[w] \in Saids
  BY <1>12, Own DEF Holds
<1>14. \A v \in Worker \ {w} : ~Holds(worker[v], c)
  BY <1>12 DEF RedisInv, HeldInv
<1> DEFINE rest == Drop(x.sent, Len(F))
           wire == x.wire \o reply
<1>15. rest \in Texts /\ wire \in Texts
  <2> HIDE DEF F
  <2>1. rest \in Texts
    BY <1>7, <1>8, <1>10, Behind
  <2>2. wire \in Texts
    BY <1>6, <1>8, Joined
  <2> QED BY <2>1, <2>2
<1>16. Served(c, job, reply, text)
  BY <1>4 DEF Replies
<1>17. /\ conn' \in [Conn -> Conns] /\ \A d \in Conn \ {c} : conn'[d] = conn[d]
       /\ conn'[c].open = x.open /\ conn'[c].alive = x.alive /\ conn'[c].err = x.err
       /\ conn'[c].obuf = x.obuf /\ conn'[c].sent = rest /\ conn'[c].wire = wire
       /\ conn'[c].reader = x.reader
  <2>1. conn \in [Conn -> Conns]
    BY <1>1 DEF TypesInv
  <2>2. conn' = [conn EXCEPT ![c].wire = wire, ![c].sent = rest]
    BY <2>1, <1>16 DEF Served
  <2> HIDE DEF wire, rest
  <2> QED BY <2>1, <2>2, <1>1, <1>15 DEF Conns
<1>18. /\ said' \in [Worker -> Saids] /\ \A v \in Worker \ {w} : said'[v] = said[v]
       /\ Command(worker[w]) = Command(job) => said'[w] = <<text>>
  <2>1. \A v \in Worker : said'[v] = IF worker[v].pc # "free" /\ worker[v].conn = c /\ Command(worker[v]) = Command(job)
                                    THEN <<text>> ELSE said[v]
    BY <1>16 DEF Served
  <2>2. DOMAIN said' = Worker /\ said' = [v \in Worker |-> said'[v]]
    BY <1>16 DEF Served
  <2>3. <<text>> \in Saids
    BY DEF Saids
  <2>4. said \in [Worker -> Saids]
    BY <1>1 DEF TypesInv
  <2>5. \A v \in Worker : said'[v] \in Saids
    BY <2>1, <2>3, <2>4
  <2>6. said' \in [Worker -> Saids]
    BY <2>2, <2>5
  <2> QED BY <2>1, <2>6, <1>13, <1>14 DEF Holds
<1>19. Asks(worker[w])
  BY <1>13 DEF Threads, Asks
<1> DEFINE G == Format(Command(worker[w]))
<1>20. G \in Texts /\ Len(G) \in Nat
  BY <1>19, FormatIs
<1>21. ASSUME Prefix(F, G) PROVE Command(worker[w]) = Command(job) /\ G = F
  <2>1. Command(job) = Command(worker[w])
    BY <1>7, <1>19, <1>21, CommandsDiffer
  <2> QED BY <2>1
<1>22. Talk(conn'[c], worker[w], said'[w])
  <2>1. ASSUME worker[w].pc = "writing" PROVE FALSE
    <3>1. x.obuf # <<>> /\ x.sent \o x.obuf = G
      BY <2>1, <1>2, <1>13 DEF Talk, Writes
    <3> HIDE DEF F, G
    <3>2. Prefix(F, G)
      <4>1. Prefix(F, x.sent \o x.obuf)
        BY <1>7, <1>8, <1>9, Extends
      <4> QED BY <4>1, <3>1
    <3>3. G = F
      BY <3>2, <1>21
    <3>4. Len(x.sent \o x.obuf) = Len(x.sent) + Len(x.obuf) /\ Len(x.obuf) \in Nat
      BY <1>8 DEF Texts
    <3>5. Len(x.sent) + Len(x.obuf) = Len(F)
      BY <3>1, <3>3, <3>4
    <3>6. Len(x.obuf) = 0
      <4>1. Len(x.sent) \in Nat /\ Len(F) \in Nat /\ Len(F) <= Len(x.sent)
        BY <1>7, <1>8, <1>10
      <4>2. Len(x.obuf) \in Nat
        BY <3>4
      <4>3. \A a, b, f \in Nat : a + b = f /\ f <= a => b = 0
        OBVIOUS
      <4> QED BY <4>1, <4>2, <4>3, <3>5, Zenon
    <3> QED BY <3>1, <3>6, <1>8, EmptySeq DEF Texts
  <2>2. ASSUME worker[w].pc = "done" PROVE FALSE
    BY <2>2, <1>10, <1>13 DEF Talk, Quiet
  <2>3. CASE worker[w].pc = "reading"
    <3>1. Waiting(x, worker[w])
      BY <2>3, <1>10, <1>13 DEF Talk, Answered
    <3>2. x.err = FALSE /\ x.obuf = <<>> /\ x.wire = <<>> /\ Fresh(x.reader) /\ x.sent = G
      BY <3>1, <1>2 DEF Waiting
    <3>3. Command(worker[w]) = Command(job) /\ G = F
      <4> HIDE DEF F, G
      <4> QED BY <3>2, <1>9, <1>21
    <3>4. rest = <<>>
      <4> HIDE DEF F, G
      <4>1. Len(rest) = Len(x.sent) - Len(F)
        BY <1>7, <1>8, <1>10, Behind
      <4>2. Len(rest) = 0
        BY <4>1, <3>2, <3>3, <1>7
      <4> HIDE DEF rest
      <4> QED BY <4>2, <1>15, EmptySeq DEF Texts
    <3>5. wire = reply
      <4>1. <<>> \o reply = reply
        BY <1>6, ConcatEmptySeq DEF Texts
      <4> QED BY <4>1, <3>2
    <3>6. reply = Drop(reply, 0)
      <4> DEFINE zero == 0
      <4>1. zero \in Nat /\ zero <= Len(reply)
        BY <1>6
      <4>2. \A i \in Int : zero + i = i /\ i - zero = i
        OBVIOUS
      <4> HIDE DEF zero
      <4>3. /\ Drop(reply, zero) \in Texts /\ Len(Drop(reply, zero)) = Len(reply) - zero
            /\ \A i \in 1 .. Len(reply) - zero : Drop(reply, zero)[i] = reply[zero + i]
        BY <4>1, <1>6, Behind
      <4>4. /\ Len(Drop(reply, zero)) = Len(reply)
            /\ \A i \in 1 .. Len(reply) : Drop(reply, zero)[i] = reply[i]
        BY <4>2, <4>3, <1>6
      <4>5. Drop(reply, zero) = reply
        BY <4>3, <4>4, <1>6, Same
      <4> QED BY <4>5 DEF zero
    <3>7. Comes(conn'[c], text, type, reply, 0) /\ 0 \in 0 .. Len(reply)
      <4> HIDE DEF rest, wire
      <4> QED BY <3>2, <3>5, <3>6, <1>5, <1>6, <1>17 DEF Comes, At
    <3>8. Answered(conn'[c], text)
      <4> HIDE DEF rest, wire
      <4> QED BY <3>2, <3>4, <3>7, <1>17 DEF Answered
    <3>9. said'[w] = <<text>>
      BY <3>3, <1>18
    <3>10. text \in {said'[w][i] : i \in DOMAIN said'[w]}
      BY <3>9
    <3> QED BY <2>3, <3>8, <3>9, <3>10 DEF Talk
  <2> QED BY <2>1, <2>2, <2>3 DEF Talk
<1>23. OneActs(w, c)
  <2>1. worker \in [Worker -> Threads]
    BY <1>1 DEF TypesInv
  <2> QED BY <2>1, <1>2, <1>17, <1>18 DEF OneActs
<1> QED BY <1>2, <1>12, <1>13, <1>17, <1>22, <1>23, OneTalks

-----------------------------------------------------------------------------
(* A connection is taken and given back.                                   *)

\* A worker without a connection leaves one closed.
LEMMA OneIsClosed ==
    ASSUME RedisInv, pool = {}, NEW w \in Worker, worker[w].pc = "free"
    PROVE  \E c \in Conn : ~conn[c].open
<1> SUFFICES ASSUME \A c \in Conn : conn[c].open PROVE FALSE
  OBVIOUS
<1> DEFINE f == [c \in Conn |-> CHOOSE v \in Worker : Holds(worker[v], c)]
           Others == Worker \ {w}
<1>1. \A c \in Conn : \E v \in Worker : Holds(worker[v], c)
  BY DEF RedisInv, HeldInv
<1>2. \A c \in Conn : f[c] \in Worker /\ Holds(worker[f[c]], c)
  BY <1>1
<1>3. f \in [Conn -> Others]
  BY <1>2 DEF Holds
<1>4. IsFiniteSet(Worker)
  BY PoolAssumption
<1>5. IsFiniteSet(Others) /\ Cardinality(Others) = Cardinality(Worker) - 1
  BY <1>4, FS_RemoveElement
<1>6. Cardinality(Worker) \in Nat
  BY <1>4, FS_CardinalityType
<1>7. IsFiniteSet(Conn) /\ Cardinality(Conn) = Cardinality(Worker)
  <2>1. PICK n \in Nat : n = Cardinality(Worker)
    BY <1>6
  <2>2. PICK one \in Int : one = 1
    OBVIOUS
  <2>3. IsFiniteSet(one .. n) /\ Cardinality(one .. n) = IF one > n THEN 0 ELSE n - one + 1
    <3>1. one \in Int /\ n \in Int
      BY <2>2
    <3> QED BY ONLY <3>1, FS_Interval
  <2>4. (IF one > n THEN 0 ELSE n - one + 1) = n
    BY <2>2
  <2> QED BY <2>1, <2>2, <2>3, <2>4 DEF Conn
<1>8. Cardinality(Others) < Cardinality(Conn)
  BY <1>5, <1>6, <1>7
<1> HIDE DEF f, Others
<1>9. PICK c \in Conn, d \in Conn : c # d /\ f[c] = f[d]
  BY <1>3, <1>5, <1>7, <1>8, FS_PigeonHole
<1> QED BY <1>2, <1>9 DEF Holds

\* The command is appended to a quiet connection.
LEMMA RunIs ==
    ASSUME TypesInv, NEW w \in Worker, NEW c \in Conn, NEW job \in Jobs,
           NEW before \in Conns, Quiet(before), before.open, Run(w, c, job, before)
    PROVE  /\ conn' \in [Conn -> Conns] /\ (\A d \in Conn \ {c} : conn'[d] = conn[d]) /\ conn'[c].open
           /\ worker' \in [Worker -> Threads] /\ \A v \in Worker \ {w} : worker'[v] = worker[v]
           /\ worker'[w].pc = "writing" /\ worker'[w].conn = c
           /\ Talk(conn'[c], worker'[w], <<>>)
<1> DEFINE read == GetReply(before.reader)
           F == Format(Command(job))
<1>1. Fresh(read.reader) /\ read.reply = <<>>
  BY LooksInVain DEF Quiet
<1>2. read.reader \in Readers /\ read.reader.err = FALSE
  BY <1>1 DEF Fresh
<1>3. Outcome(read, "writing") = [pc |-> "writing", result |-> <<>>]
  <2> HIDE DEF read
  <2> QED BY <1>1, <1>2, NoOutcome
<1>4. Asks(job) /\ F \in Texts /\ Len(F) \in Nat /\ Len(F) >= 4
  BY JobsAsk, FormatIs
<1>5. before.obuf \o F = F /\ before.sent \o F = F /\ F # <<>>
  <2> HIDE DEF F
  <2>1. <<>> \o F = F
    BY <1>4, ConcatEmptySeq DEF Texts
  <2> QED BY <2>1, <1>4 DEF Quiet
<1>6. RunWith(w, c, job, before, read, [pc |-> "writing", result |-> <<>>])
  BY <1>3 DEF Run, RunAfter
<1> HIDE DEF read
<1> DEFINE y == [before EXCEPT !.obuf = F, !.reader = read.reader, !.err = FALSE]
<1>7. conn' = [conn EXCEPT ![c] = y]
  <2>1. (before.err \/ read.reader.err) = FALSE
    BY <1>2 DEF Quiet
  <2> HIDE DEF F
  <2>2. conn' = [conn EXCEPT ![c] = [before EXCEPT !.obuf = @ \o F, !.reader = read.reader,
                                                  !.err = @ \/ read.reader.err]]
    BY <1>6 DEF RunWith, F
  <2> QED BY <2>1, <2>2, <1>5 DEF Conns
<1>8. /\ y \in Conns /\ y.open /\ y.alive = before.alive /\ y.err = FALSE /\ y.obuf = F
      /\ y.sent = before.sent /\ y.wire = before.wire /\ y.reader = read.reader
  <2> HIDE DEF F
  <2> QED BY <1>2, <1>4 DEF Conns
<1> HIDE DEF y
<1>9. /\ conn' \in [Conn -> Conns] /\ \A d \in Conn \ {c} : conn'[d] = conn[d]
      /\ conn'[c] = y
  BY <1>7, <1>8 DEF TypesInv
<1>10. PICK i \in Ids, x \in Contents \cup {<<>>} : job = Job(i, x)
  BY DEF Jobs
<1> DEFINE z == [job EXCEPT !.pc = "writing", !.conn = c, !.result = <<>>]
<1>11. worker' = [worker EXCEPT ![w] = z]
  BY <1>6 DEF RunWith
<1>12. /\ z.pc = "writing" /\ z.conn = c /\ z.id = job.id /\ z.content = job.content
       /\ z \in Threads
  <2>1. job = [pc |-> "free", conn |-> 0, id |-> i, content |-> x, result |-> <<>>]
    BY <1>10 DEF Job, Free
  <2>2. i \in Texts /\ x \in Texts /\ c \in Nat /\ <<>> \in Texts
    BY <2>1, <1>4 DEF Asks, Conn, Texts
  <2> QED BY <2>1, <2>2 DEF Threads
<1>13. Command(z) = Command(job)
  BY <1>12 DEF Command
<1> HIDE DEF z
<1>14. worker' \in [Worker -> Threads] /\ (\A v \in Worker \ {w} : worker'[v] = worker[v]) /\ worker'[w] = z
  BY <1>11, <1>12 DEF TypesInv
<1>15. Writes(y, z)
  <2>1. Format(Command(z)) = F
    BY <1>13
  <2> HIDE DEF F
  <2> QED BY <2>1, <1>1, <1>5, <1>8 DEF Quiet, Writes
<1>16. Talk(y, z, <<>>)
  BY <1>12, <1>15 DEF Talk
<1> QED BY <1>8, <1>9, <1>12, <1>14, <1>16

LEMMA GetKeeps ==
    ASSUME RedisInv, NEW w \in Worker, Get(w)
    PROVE  RedisInv'
<1>1. TypesInv /\ worker[w].pc = "free" /\ said' = said /\ store' = store /\ said[w] = <<>>
  BY DEF Get, RedisInv, TalkInv
<1>2. PICK job \in Jobs, c \in Conn, before \in Conns :
         /\ Quiet(before) /\ before.open /\ Run(w, c, job, before) /\ pool' = pool \ {c}
         /\ c \in pool \/ ~conn[c].open
  <2>1. PICK job \in Jobs :
           \/ \E c \in pool : Run(w, c, job, conn[c]) /\ pool' = pool \ {c}
           \/ /\ pool = {} /\ pool' = pool
              /\ Run(w, CHOOSE c \in Conn : ~conn[c].open, job, NewConn)
    BY DEF Get, Taken
  <2>2. ASSUME NEW c \in pool, Run(w, c, job, conn[c]), pool' = pool \ {c}
        PROVE  c \in Conn /\ conn[c] \in Conns /\ Quiet(conn[c]) /\ conn[c].open
    BY DEF RedisInv, TypesInv, HeldInv, TalkInv
  <2>3. ASSUME pool = {}, pool' = pool, Run(w, CHOOSE c \in Conn : ~conn[c].open, job, NewConn)
        PROVE  \E c \in Conn : ~conn[c].open /\ Run(w, c, job, NewConn) /\ pool' = pool \ {c}
    <3>1. \E c \in Conn : ~conn[c].open
      BY <2>3, <1>1, OneIsClosed
    <3>2. PICK c \in Conn : c = (CHOOSE d \in Conn : ~conn[d].open) /\ ~conn[c].open
      BY <3>1
    <3>3. Run(w, c, job, NewConn)
      BY <2>3, <3>2
    <3>4. pool' = pool \ {c}
      BY <2>3
    <3> QED BY <3>2, <3>3, <3>4
  <2>4. CASE \E c \in pool : Run(w, c, job, conn[c]) /\ pool' = pool \ {c}
    BY <2>2, <2>4
  <2>5. CASE /\ pool = {} /\ pool' = pool
             /\ Run(w, CHOOSE c \in Conn : ~conn[c].open, job, NewConn)
    BY <2>3, <2>5, NoConnIs
  <2> QED BY <2>1, <2>4, <2>5
<1>3. /\ conn' \in [Conn -> Conns] /\ (\A d \in Conn \ {c} : conn'[d] = conn[d]) /\ conn'[c].open
      /\ worker' \in [Worker -> Threads] /\ \A v \in Worker \ {w} : worker'[v] = worker[v]
      /\ worker'[w].pc = "writing" /\ worker'[w].conn = c
      /\ Talk(conn'[c], worker'[w], <<>>)
  BY <1>1, <1>2, RunIs
<1>4. \A v \in Worker : ~Holds(worker[v], c)
  BY <1>2 DEF RedisInv, HeldInv, Holds
<1>5. TypesInv'
  BY <1>1, <1>2, <1>3 DEF TypesInv, Conn
<1>6. HeldInv'
  <2>1. \A v \in Worker : \A d \in Conn : Holds(worker'[v], d) <=> (Holds(worker[v], d) \/ (v = w /\ d = c))
    BY <1>1, <1>3 DEF Holds
  <2>2. \A d \in Conn : conn'[d].open = conn[d].open \/ d = c
    BY <1>3
  <2>3. \A v \in Worker : worker'[v].pc # "free" =>
           worker'[v].conn \in Conn /\ worker'[v].conn \notin pool' /\ conn'[worker'[v].conn].open
    <3> SUFFICES ASSUME NEW v \in Worker, worker'[v].pc # "free"
                 PROVE  worker'[v].conn \in Conn /\ worker'[v].conn \notin pool' /\ conn'[worker'[v].conn].open
      OBVIOUS
    <3>1. CASE v = w
      BY <3>1, <1>2, <1>3
    <3>2. CASE v # w
      <4>1. worker'[v] = worker[v]
        BY <3>2, <1>3
      <4>2. worker[v].conn \in Conn /\ worker[v].conn \notin pool /\ conn[worker[v].conn].open
        BY <4>1 DEF RedisInv, HeldInv
      <4> QED BY <4>1, <4>2, <2>2, <1>2, <1>3
    <3> QED BY <3>1, <3>2
  <2>4. \A u, v \in Worker : \A d \in Conn : Holds(worker'[u], d) /\ Holds(worker'[v], d) => u = v
    BY <2>1, <1>4 DEF RedisInv, HeldInv
  <2>5. \A d \in pool' : conn'[d].open
    BY <2>2, <1>2, <1>3 DEF RedisInv, HeldInv, TypesInv
  <2>6. \A d \in Conn : conn'[d].open => d \in pool' \/ \E v \in Worker : Holds(worker'[v], d)
    <3> SUFFICES ASSUME NEW d \in Conn, conn'[d].open PROVE d \in pool' \/ \E v \in Worker : Holds(worker'[v], d)
      OBVIOUS
    <3>1. CASE d = c
      BY <3>1, <2>1
    <3>2. CASE d # c
      <4>1. d \in pool \/ \E v \in Worker : Holds(worker[v], d)
        BY <3>2, <2>2 DEF RedisInv, HeldInv
      <4> QED BY <3>2, <4>1, <2>1, <1>2
    <3> QED BY <3>1, <3>2
  <2>7. \A d \in Conn : conn'[d].alive => conn'[d].open
    BY <1>3 DEF RedisInv, HeldInv
  <2> QED BY <2>3, <2>4, <2>5, <2>6, <2>7 DEF HeldInv, Conn
<1>7. TalkInv'
  <2>1. \A v \in Worker : worker'[v].pc = "free" => said'[v] = <<>>
    BY <1>1, <1>3 DEF RedisInv, TalkInv
  <2>2. \A v \in Worker : worker'[v].pc # "free" => Talk(conn'[worker'[v].conn], worker'[v], said'[v])
    <3> SUFFICES ASSUME NEW v \in Worker, worker'[v].pc # "free"
                 PROVE  Talk(conn'[worker'[v].conn], worker'[v], said'[v])
      OBVIOUS
    <3>1. CASE v = w
      BY <3>1, <1>1, <1>3
    <3>2. CASE v # w
      <4>1. worker'[v] = worker[v] /\ said'[v] = said[v]
        BY <3>2, <1>1, <1>3
      <4>2. worker[v].conn \in Conn \ {c}
        BY <4>1, <1>4 DEF Holds, RedisInv, HeldInv
      <4>3. conn'[worker[v].conn] = conn[worker[v].conn]
        BY <4>2, <1>3
      <4> QED BY <4>1, <4>3 DEF RedisInv, TalkInv
    <3> QED BY <3>1, <3>2
  <2>3. \A d \in pool' : Quiet(conn'[d])
    <3>1. \A d \in pool' : d \in Conn \ {c} /\ d \in pool
      BY <1>2 DEF RedisInv, TypesInv
    <3> QED BY <3>1, <1>3 DEF RedisInv, TalkInv
  <2> QED BY <2>1, <2>2, <2>3, Zenon DEF TalkInv
<1> QED BY <1>5, <1>6, <1>7 DEF RedisInv

\* A connection that nobody holds any more: it is closed, or quiet in the pool.
LEMMA GivenBack ==
    ASSUME RedisInv, NEW w \in Worker, NEW c, Holds(worker[w], c),
           worker' = [worker EXCEPT ![w] = Free], said' = [said EXCEPT ![w] = <<>>], store' = store,
           conn' \in [Conn -> Conns], \A d \in Conn \ {c} : conn'[d] = conn[d],
           \/ pool' = pool /\ ~conn'[c].open /\ ~conn'[c].alive
           \/ pool' = pool \cup {c} /\ conn'[c].open /\ Quiet(conn'[c])
    PROVE  RedisInv'
<1>1. worker[w].pc # "free" /\ worker[w].conn = c /\ c \in Conn /\ c \notin pool
  BY DEF Holds, RedisInv, HeldInv
<1>2. \A v \in Worker \ {w} : ~Holds(worker[v], c)
  BY <1>1 DEF Holds, RedisInv, HeldInv
<1>3. /\ worker' \in [Worker -> Threads] /\ (\A v \in Worker \ {w} : worker'[v] = worker[v])
      /\ worker'[w] = Free /\ Free.pc = "free"
      /\ said' \in [Worker -> Saids] /\ (\A v \in Worker \ {w} : said'[v] = said[v])
      /\ said'[w] = <<>>
  <2>1. Free \in Threads /\ Free.pc = "free" /\ <<>> \in Saids
    BY DEF Free, Threads, Texts, Saids
  <2> QED BY <2>1 DEF RedisInv, TypesInv
<1>4. TypesInv'
  BY <1>1, <1>3 DEF RedisInv, TypesInv, Conn
<1>5. \A v \in Worker : worker'[v].pc # "free" => v # w /\ worker'[v] = worker[v] /\ said'[v] = said[v]
  BY <1>3
<1>6. ASSUME NEW v \in Worker, worker'[v].pc # "free"
      PROVE  /\ worker[v].conn \in Conn \ {c} /\ worker[v].conn \notin pool /\ worker[v].conn \notin pool'
             /\ conn'[worker[v].conn] = conn[worker[v].conn] /\ conn[worker[v].conn].open
  BY <1>2, <1>5, <1>6 DEF Holds, RedisInv, HeldInv
<1>7. HeldInv'
  <2>1. \A v \in Worker : \A d \in Conn : Holds(worker'[v], d) <=> Holds(worker[v], d) /\ v # w
    BY <1>3 DEF Holds
  <2>2. \A v \in Worker : worker'[v].pc # "free" =>
           worker'[v].conn \in Conn /\ worker'[v].conn \notin pool' /\ conn'[worker'[v].conn].open
    BY <1>5, <1>6
  <2>3. \A u, v \in Worker : \A d \in Conn : Holds(worker'[u], d) /\ Holds(worker'[v], d) => u = v
    BY <2>1 DEF RedisInv, HeldInv
  <2>4. \A d \in pool' : conn'[d].open
    BY <1>1 DEF RedisInv, HeldInv, TypesInv
  <2>5. \A d \in Conn : conn'[d].open => d \in pool' \/ \E v \in Worker : Holds(worker'[v], d)
    <3> SUFFICES ASSUME NEW d \in Conn, conn'[d].open PROVE d \in pool' \/ \E v \in Worker : Holds(worker'[v], d)
      OBVIOUS
    <3>1. CASE d = c
      BY <3>1
    <3>2. CASE d # c
      <4>1. d \in pool \/ \E v \in Worker : Holds(worker[v], d)
        BY <3>2 DEF RedisInv, HeldInv
      <4>2. ~Holds(worker[w], d)
        BY <3>2, <1>1 DEF Holds
      <4> QED BY <4>1, <4>2, <2>1
    <3> QED BY <3>1, <3>2
  <2>6. \A d \in Conn : conn'[d].alive => conn'[d].open
    BY DEF RedisInv, HeldInv
  <2> QED BY <2>2, <2>3, <2>4, <2>5, <2>6 DEF HeldInv, Conn
<1>8. TalkInv'
  <2>1. \A v \in Worker : worker'[v].pc = "free" => said'[v] = <<>>
    BY <1>3 DEF RedisInv, TalkInv
  <2>2. \A v \in Worker : worker'[v].pc # "free" => Talk(conn'[worker'[v].conn], worker'[v], said'[v])
    BY <1>5, <1>6 DEF RedisInv, TalkInv
  <2>3. \A d \in pool' : Quiet(conn'[d])
    <3> SUFFICES ASSUME NEW d \in pool' PROVE Quiet(conn'[d])
      OBVIOUS
    <3>1. CASE d = c
      BY <3>1, <1>1
    <3>2. CASE d # c
      <4>1. d \in pool /\ d \in Conn \ {c}
        BY <3>2 DEF RedisInv, TypesInv
      <4> QED BY <4>1 DEF RedisInv, TalkInv
    <3> QED BY <3>1, <3>2
  <2> QED BY <2>1, <2>2, <2>3, Zenon DEF TalkInv
<1> QED BY <1>4, <1>7, <1>8 DEF RedisInv

LEMMA PutKeeps ==
    ASSUME RedisInv, NEW w \in Worker, Put(w)
    PROVE  RedisInv'
<1> DEFINE c == worker[w].conn
<1>1. /\ c \in Conn /\ Holds(worker[w], c) /\ conn[c].open /\ Quiet(conn[c])
  BY Own DEF Put, Talk
<1>2. pool' = pool \cup {c} /\ conn' = conn
  BY <1>1 DEF Put, Quiet
<1>3. /\ worker' = [worker EXCEPT ![w] = Free] /\ said' = [said EXCEPT ![w] = <<>>] /\ store' = store
  BY DEF Put
<1>4. conn' \in [Conn -> Conns] /\ \A d \in Conn \ {c} : conn'[d] = conn[d]
  BY <1>2 DEF RedisInv, TypesInv
<1>5. pool' = pool \cup {c} /\ conn'[c].open /\ Quiet(conn'[c])
  BY <1>1, <1>2
<1> HIDE DEF c
<1> QED BY <1>1, <1>3, <1>4, <1>5, GivenBack

LEMMA ThrowKeeps ==
    ASSUME RedisInv, NEW w \in Worker, Throw(w)
    PROVE  RedisInv'
<1> DEFINE c == worker[w].conn
<1>1. c \in Conn /\ Holds(worker[w], c)
  BY Own DEF Throw
<1>2. pool' = pool /\ conn' = [conn EXCEPT ![c] = NoConn]
  BY DEF Throw
<1>3. /\ worker' = [worker EXCEPT ![w] = Free] /\ said' = [said EXCEPT ![w] = <<>>] /\ store' = store
  BY DEF Throw
<1>4. /\ conn' \in [Conn -> Conns] /\ \A d \in Conn \ {c} : conn'[d] = conn[d]
      /\ ~conn'[c].open /\ ~conn'[c].alive
  BY <1>1, <1>2, NoConnIs DEF RedisInv, TypesInv
<1> HIDE DEF c
<1> QED BY <1>1, <1>2, <1>3, <1>4, GivenBack

\* The server is gone.
LEMMA CrashTalks ==
    ASSUME NEW x \in Conns, NEW y, y = [x EXCEPT !.alive = FALSE, !.sent = <<>>]
    PROVE  /\ y \in Conns /\ y.open = x.open /\ y.alive = FALSE /\ (Quiet(x) => Quiet(y))
           /\ \A job, answer : Talk(x, job, answer) => Talk(y, job, answer)
<1>1. /\ y \in Conns /\ y.open = x.open /\ y.alive = FALSE /\ y.err = x.err /\ y.obuf = x.obuf
      /\ y.sent = <<>> /\ y.wire = x.wire /\ y.reader = x.reader
  <2>1. <<>> \in Texts
    BY DEF Texts
  <2> QED BY <2>1 DEF Conns
<1>2. Quiet(x) => Quiet(y)
  BY <1>1 DEF Quiet
<1>3. ASSUME NEW job, NEW answer, Talk(x, job, answer) PROVE Talk(y, job, answer)
  <2>1. Writes(x, job) => Writes(y, job)
    BY <1>1 DEF Writes
  <2>2. Waiting(x, job) => Waiting(y, job)
    BY <1>1 DEF Waiting
  <2>3. \A text : Answered(x, text) => Answered(y, text)
    BY <1>1 DEF Answered, Comes
  <2> QED BY <2>1, <2>2, <2>3, <1>2, <1>3 DEF Talk
<1> QED BY <1>1, <1>2, <1>3

LEMMA CrashKeeps ==
    ASSUME RedisInv, Crash
    PROVE  RedisInv'
<1>1. pool' = pool /\ worker' = worker /\ said' = said /\ store' = store
  BY DEF Crash
<1>2. /\ conn' = [c \in Conn |-> conn'[c]]
      /\ \A c \in Conn : conn'[c] = [conn[c] EXCEPT !.alive = FALSE, !.sent = <<>>]
  BY DEF Crash
<1>3. \A c \in Conn : /\ conn'[c] \in Conns /\ conn'[c].open = conn[c].open /\ conn'[c].alive = FALSE
                      /\ (Quiet(conn[c]) => Quiet(conn'[c]))
                      /\ \A job, answer : Talk(conn[c], job, answer) => Talk(conn'[c], job, answer)
  <2> SUFFICES ASSUME NEW c \in Conn
               PROVE  /\ conn'[c] \in Conns /\ conn'[c].open = conn[c].open /\ conn'[c].alive = FALSE
                      /\ (Quiet(conn[c]) => Quiet(conn'[c]))
                      /\ \A job, answer : Talk(conn[c], job, answer) => Talk(conn'[c], job, answer)
    OBVIOUS
  <2>1. conn[c] \in Conns
    BY DEF RedisInv, TypesInv
  <2> QED BY <1>2, <2>1, CrashTalks
<1>4. TypesInv'
  <2>1. conn' \in [Conn -> Conns]
    BY <1>2, <1>3
  <2> QED BY <2>1, <1>1 DEF RedisInv, TypesInv, Conn
<1>5. HeldInv'
  BY <1>1, <1>3 DEF RedisInv, HeldInv, TypesInv, Conn, Holds
<1>6. TalkInv'
  BY <1>1, <1>3 DEF RedisInv, TalkInv, HeldInv, TypesInv
<1> QED BY <1>4, <1>5, <1>6 DEF RedisInv

\* What is said and held is the same.
LEMMA NothingKeeps ==
    ASSUME RedisInv, UNCHANGED <<conn, pool, worker, said>>, store' \in {store, <<>>}
    PROVE  RedisInv'
BY DEF RedisInv, TypesInv, HeldInv, TalkInv, Conn, Holds

LEMMA RedisNextKeeps == RedisInv /\ [RedisNext]_redisVars => RedisInv'
<1> SUFFICES ASSUME RedisInv, [RedisNext]_redisVars PROVE RedisInv'
  OBVIOUS
<1>1. ASSUME NEW w \in Worker, Get(w) PROVE RedisInv'
  BY <1>1, GetKeeps
<1>2. ASSUME NEW w \in Worker, ConnectFails(w) PROVE RedisInv'
  BY <1>2, NothingKeeps DEF ConnectFails
<1>3. ASSUME NEW w \in Worker, BufferWrite(w) PROVE RedisInv'
  BY <1>3, BufferWriteKeeps
<1>4. ASSUME NEW w \in Worker, WriteFails(w) \/ ReadFails(w) PROVE RedisInv'
  BY <1>4, FailsKeep
<1>5. ASSUME NEW w \in Worker, BufferRead(w) PROVE RedisInv'
  BY <1>5, BufferReadKeeps
<1>6. ASSUME NEW w \in Worker, Put(w) PROVE RedisInv'
  BY <1>6, PutKeeps
<1>7. ASSUME NEW w \in Worker, Throw(w) PROVE RedisInv'
  BY <1>7, ThrowKeeps
<1>8. ASSUME NEW c \in Conn, Serve(c) PROVE RedisInv'
  BY <1>8, ServeKeeps
<1>9. CASE Crash
  BY <1>9, CrashKeeps
<1>10. CASE Restart
  BY <1>10, NothingKeeps DEF Restart
<1>11. CASE UNCHANGED redisVars
  BY <1>11, NothingKeeps DEF redisVars
<1> QED BY <1>1, <1>2, <1>3, <1>4, <1>5, <1>6, <1>7, <1>8, <1>9, <1>10, <1>11 DEF RedisNext

THEOREM RedisTalks == RedisSpec => []RedisInv
BY RedisInitHolds, RedisNextKeeps, PTL DEF RedisSpec

THEOREM RepliesAreOwn == RedisSpec => []OwnReplies
<1>1. RedisInv => OwnReplies
  BY DEF RedisInv, TalkInv, Talk, OwnReplies
<1> QED BY <1>1, RedisTalks, PTL

THEOREM PoolIsClean == RedisSpec => []PooledAreClean
<1>1. RedisInv => PooledAreClean
  BY DEF RedisInv, TalkInv, HeldInv, Quiet, Fresh, PooledAreClean
<1> QED BY <1>1, RedisTalks, PTL
=============================================================================
