---------------------------- MODULE Buffers_proofs ----------------------------
(***************************************************************************)
(* Buffers keep what is put into them, for any lengths of pieces and of    *)
(* commands, whatever the units and limits by which memory grows.          *)
(***************************************************************************)
EXTENDS Buffers, SequenceTheorems, FiniteSetTheorems, TLAPS

Memory == Seq(Int)

\* A set of numbers that has 0 and with each number the next has all.
LEMMA NatSet ==
    ASSUME NEW S \in SUBSET Nat, 0 \in S, \A n \in S : n + 1 \in S
    PROVE  S = Nat
<1> SUFFICES ASSUME NEW n \in Nat, n \notin S PROVE FALSE
    OBVIOUS
<1> DEFINE D == {k \in S : k < n}
           f == [k \in D |-> k + 1]
<1>1. IsFiniteSet(D) /\ Cardinality(D) \in Nat
  <2>1. D \in SUBSET Nat /\ \A k \in D : k <= n
    <3> SUFFICES ASSUME NEW k \in D PROVE k \in Nat /\ k <= n
      OBVIOUS
    <3>1. k \in S /\ k < n
      OBVIOUS
    <3> QED BY <3>1
  <2>2. IsFiniteSet(D)
    BY <2>1, FS_BoundedSetOfNaturals
  <2> QED BY <2>2, FS_CardinalityType
<1>2. 0 \in D
  OBVIOUS
<1>3. IsFiniteSet(D \ {0}) /\ Cardinality(D \ {0}) = Cardinality(D) - 1
  BY <1>1, <1>2, FS_RemoveElement
<1>4. f \in [D -> D \ {0}]
  <2>1. ASSUME NEW k \in D PROVE k + 1 \in D \ {0}
    <3>1. k \in S /\ k < n /\ k \in Nat /\ k + 1 \in S
      OBVIOUS
    <3>2. k + 1 # n
      BY <3>1
    <3> QED BY <3>1, <3>2
  <2> QED BY <2>1
<1>5. \E x, y \in D : x # y /\ f[x] = f[y]
  <2>1. Cardinality(D \ {0}) < Cardinality(D)
    BY <1>1, <1>3
  <2> HIDE DEF D, f
  <2> QED BY <2>1, <1>1, <1>3, <1>4, FS_PigeonHole
<1> QED BY <1>5

-----------------------------------------------------------------------------
(* Memory.                                                                 *)

\* A sequence that two others make.
LEMMA Joined ==
    ASSUME NEW s \in Memory, NEW t \in Memory
    PROVE  /\ s \o t \in Memory /\ Len(s \o t) = Len(s) + Len(t)
           /\ \A i \in 1 .. Len(s) : (s \o t)[i] = s[i]
           /\ \A i \in 1 .. Len(t) : (s \o t)[Len(s) + i] = t[i]
BY DEF Memory

LEMMA Reordered ==
    ASSUME NEW s \in Memory, NEW t \in Memory, NEW u \in Memory
    PROVE  (s \o t) \o u = s \o (t \o u)
BY ConcatAssociative DEF Memory

LEMMA JoinedAt ==
    ASSUME NEW s \in Memory, NEW t \in Memory, NEW i \in 1 .. Len(s \o t)
    PROVE  (s \o t)[i] = IF i <= Len(s) THEN s[i] ELSE t[i - Len(s)]
BY DEF Memory

\* A part of a sequence.
LEMMA Part ==
    ASSUME NEW s \in Memory, NEW a \in Nat, NEW b \in Nat, b <= Len(s), a <= b
    PROVE  /\ SubSeq(s, a + 1, b) \in Memory /\ Len(SubSeq(s, a + 1, b)) = b - a
           /\ \A i \in 1 .. b - a : SubSeq(s, a + 1, b)[i] = s[a + i]
<1>1. \A i \in a + 1 .. b : s[i] \in Int
  <2>1. Len(s) \in Nat
    BY DEF Memory
  <2> QED BY <2>1 DEF Memory
<1>2. a + 1 \in Int /\ b \in Int
  OBVIOUS
<1>3. /\ SubSeq(s, a + 1, b) \in Seq(Int)
      /\ Len(SubSeq(s, a + 1, b)) = IF a + 1 <= b THEN b - (a + 1) + 1 ELSE 0
      /\ \A i \in 1 .. b - (a + 1) + 1 : SubSeq(s, a + 1, b)[i] = s[(a + 1) + i - 1]
  BY <1>1, <1>2, SubSeqProperties
<1>4. Len(SubSeq(s, a + 1, b)) = b - a
  BY <1>3
<1>5. ASSUME NEW i \in 1 .. b - a PROVE SubSeq(s, a + 1, b)[i] = s[a + i]
  <2>1. i \in 1 .. b - (a + 1) + 1 /\ (a + 1) + i - 1 = a + i
    OBVIOUS
  <2> QED BY <1>3, <2>1
<1> QED BY <1>3, <1>4, <1>5 DEF Memory

\* Sequences of the same elements.
LEMMA Same ==
    ASSUME NEW s \in Memory, NEW t \in Memory, NEW n \in Nat, Len(s) = n, Len(t) = n,
           \A i \in 1 .. n : s[i] = t[i]
    PROVE  s = t
BY SeqEqual DEF Memory

LEMMA SpanIs ==
    ASSUME NEW s \in Memory, NEW a \in Nat, NEW b \in Nat, a <= b, b <= Len(s)
    PROVE  /\ Span(s, a, b) \in Memory /\ Len(Span(s, a, b)) = b - a
           /\ \A i \in 1 .. b - a : Span(s, a, b)[i] = s[a + i]
<1>1. Len(s) \in Nat /\ Least(b, Len(s)) = b
  BY DEF Memory, Least
<1> QED BY <1>1, Part DEF Span

LEMMA CellsAre ==
    ASSUME NEW n \in Nat
    PROVE  Cells(n) \in Memory /\ Len(Cells(n)) = n
BY DEF Cells, Memory, Unset

LEMMA ReallocIs ==
    ASSUME NEW s \in Memory, NEW n \in Nat
    PROVE  /\ Realloc(s, n) \in Memory /\ Len(Realloc(s, n)) = n
           /\ \A i \in 1 .. n : i <= Len(s) => Realloc(s, n)[i] = s[i]
<1> DEFINE kept == Least(n, Len(s))
           s0   == SubSeq(s, 1, kept)
           rest == Cells(n - kept)
<1>1. Len(s) \in Nat /\ kept \in Nat /\ kept <= Len(s) /\ kept <= n /\ n - kept \in Nat
      /\ \A i \in 1 .. n : i <= Len(s) => i \in 1 .. kept
  BY DEF Memory, Least
<1> HIDE DEF kept
<1>2. s0 \in Memory /\ Len(s0) = kept /\ \A i \in 1 .. kept : s0[i] = s[i]
  <2>1. 0 \in Nat /\ 0 <= kept /\ 0 + 1 = 1 /\ kept - 0 = kept /\ \A i \in 1 .. kept : 0 + i = i
    BY <1>1
  <2>2. /\ SubSeq(s, 0 + 1, kept) \in Memory /\ Len(SubSeq(s, 0 + 1, kept)) = kept - 0
        /\ \A i \in 1 .. kept - 0 : SubSeq(s, 0 + 1, kept)[i] = s[0 + i]
    BY ONLY <1>1, <2>1, s \in Memory, Part
  <2> QED BY <2>1, <2>2
<1>3. rest \in Memory /\ Len(rest) = n - kept
  BY <1>1, CellsAre
<1> HIDE DEF s0, rest
<1>4. /\ s0 \o rest \in Memory /\ Len(s0 \o rest) = kept + (n - kept)
      /\ \A i \in 1 .. kept : (s0 \o rest)[i] = s0[i]
  BY <1>2, <1>3, Joined
<1>5. Realloc(s, n) = s0 \o rest
  BY DEF Realloc, s0, rest, kept
<1> QED BY <1>1, <1>2, <1>4, <1>5

LEMMA WroteIs ==
    ASSUME NEW s \in Memory, NEW at \in Nat, NEW t \in Memory, at + Len(t) <= Len(s)
    PROVE  /\ Wrote(s, at, t) \in Memory /\ Len(Wrote(s, at, t)) = Len(s)
           /\ \A i \in 1 .. at : Wrote(s, at, t)[i] = s[i]
           /\ \A i \in 1 .. Len(t) : Wrote(s, at, t)[at + i] = t[i]
           /\ \A i \in 1 .. Len(s) : i > at + Len(t) => Wrote(s, at, t)[i] = s[i]
<1> DEFINE w == [k \in DOMAIN s |-> IF k - at \in DOMAIN t THEN t[k - at] ELSE s[k]]
<1>1. Len(s) \in Nat /\ Len(t) \in Nat /\ DOMAIN s = 1 .. Len(s) /\ DOMAIN t = 1 .. Len(t)
      /\ (\A k \in 1 .. Len(s) : s[k] \in Int) /\ (\A k \in 1 .. Len(t) : t[k] \in Int)
  BY DEF Memory
<1>2. Wrote(s, at, t) = w
  BY <1>1 DEF Wrote
<1>3. w \in Memory /\ Len(w) = Len(s)
  <2>1. \A k \in 1 .. Len(s) : w[k] \in Int
    BY <1>1
  <2>2. w \in [1 .. Len(s) -> Int]
    BY <1>1, <2>1
  <2> QED BY <1>1, <2>2 DEF Memory
<1>4. \A i \in 1 .. at : w[i] = s[i]
  <2> SUFFICES ASSUME NEW i \in 1 .. at PROVE w[i] = s[i]
    OBVIOUS
  <2>1. i \in DOMAIN s /\ i - at \notin 1 .. Len(t)
    BY <1>1
  <2> QED BY <1>1, <2>1
<1>5. \A i \in 1 .. Len(t) : w[at + i] = t[i]
  <2> SUFFICES ASSUME NEW i \in 1 .. Len(t) PROVE w[at + i] = t[i]
    OBVIOUS
  <2>1. at + i \in DOMAIN s /\ at + i - at = i
    BY <1>1
  <2> QED BY <1>1, <2>1
<1>6. \A i \in 1 .. Len(s) : i > at + Len(t) => w[i] = s[i]
  <2> SUFFICES ASSUME NEW i \in 1 .. Len(s), i > at + Len(t) PROVE w[i] = s[i]
    OBVIOUS
  <2>1. i \in DOMAIN s /\ i - at \notin 1 .. Len(t)
    BY <1>1
  <2> QED BY <1>1, <2>1
<1> QED BY <1>2, <1>3, <1>4, <1>5, <1>6

-----------------------------------------------------------------------------
(* sds.                                                                    *)

\* A text in its memory, and with its NUL.
SdsType == [len : Nat, free : Nat, mem : Memory]
IsSds(s, t) ==
    /\ s \in SdsType /\ t \in Memory /\ Len(t) = s.len
    /\ Len(s.mem) = s.len + s.free + 1
    /\ \A i \in 1 .. Len(t) : s.mem[i] = t[i]
Ended(s) == s.mem[s.len + 1] = Nul

LEMMA SdsFacts ==
    ASSUME NEW s, NEW t, IsSds(s, t)
    PROVE  s.len \in Nat /\ s.free \in Nat /\ s.mem \in Memory /\ t \in Memory /\ Len(t) \in Nat
BY DEF IsSds, SdsType

\* Which is what the property says of it.
LEMMA SdsIsKept ==
    ASSUME NEW s, NEW t, IsSds(s, t), Ended(s)
    PROVE  SdsKeeps(s, t)
<1>1. /\ s.len \in Nat /\ s.free \in Nat /\ s.mem \in Memory /\ t \in Memory /\ Len(t) = s.len
      /\ Len(s.mem) = s.len + s.free + 1 /\ \A i \in 1 .. Len(t) : s.mem[i] = t[i]
  BY DEF IsSds, SdsType
<1>2. /\ Span(s.mem, 0, s.len) \in Memory /\ Len(Span(s.mem, 0, s.len)) = s.len
      /\ \A i \in 1 .. s.len : Span(s.mem, 0, s.len)[i] = s.mem[i]
  <2>1. 0 \in Nat /\ 0 <= s.len /\ s.len <= Len(s.mem)
    BY <1>1
  <2>2. /\ Span(s.mem, 0, s.len) \in Memory /\ Len(Span(s.mem, 0, s.len)) = s.len - 0
        /\ \A i \in 1 .. s.len - 0 : Span(s.mem, 0, s.len)[i] = s.mem[0 + i]
    BY ONLY <1>1, <2>1, SpanIs
  <2>3. s.len - 0 = s.len /\ \A i \in 1 .. s.len : 0 + i = i
    BY <1>1
  <2> QED BY <2>2, <2>3
<1>3. Span(s.mem, 0, s.len) = t
  BY ONLY <1>1, <1>2, Same
<1> QED BY <1>1, <1>3 DEF SdsKeeps, Ended

LEMMA NewSdsIs ==
    ASSUME NEW t \in Memory
    PROVE  IsSds(sdsnewlen(t), t) /\ Ended(sdsnewlen(t))
<1>1. /\ Append(t, Nul) \in Memory /\ Len(Append(t, Nul)) = Len(t) + 1 /\ Len(t) \in Nat
      /\ Append(t, Nul)[Len(t) + 1] = Nul
      /\ \A i \in 1 .. Len(t) : Append(t, Nul)[i] = t[i]
  BY DEF Memory, Nul
<1> DEFINE m == Append(t, Nul)
<1> HIDE DEF m
<1>2. m \in Memory /\ Len(m) = Len(t) + 0 + 1 /\ m[Len(t) + 1] = Nul /\ \A i \in 1 .. Len(t) : m[i] = t[i]
  BY <1>1 DEF m
<1>3. sdsnewlen(t) = [len |-> Len(t), free |-> 0, mem |-> m]
  BY DEF sdsnewlen, m
<1> QED BY <1>1, <1>2, <1>3 DEF IsSds, SdsType, Ended

LEMMA EmptyIs == <<>> \in Memory /\ Len(<<>>) = 0 /\ IsSds(sdsempty, <<>>) /\ Ended(sdsempty)
<1>1. <<>> \in Memory /\ Len(<<>>) = 0
  BY DEF Memory
<1> QED BY <1>1, NewSdsIs DEF sdsempty

LEMMA PreallocIs == ASSUME NEW n \in Nat PROVE Prealloc(n) \in Nat /\ Prealloc(n) >= n
BY BufferAssumption DEF Prealloc

LEMMA RoomIsMade ==
    ASSUME NEW s, NEW t, IsSds(s, t), NEW n \in Nat
    PROVE  IsSds(sdsMakeRoomFor(s, n), t) /\ sdsMakeRoomFor(s, n).free >= n
<1> DEFINE p == Prealloc(s.len + n)
           m == Realloc(s.mem, p + 1)
           g == [s EXCEPT !.free = p - s.len, !.mem = m]
<1>1. /\ s.len \in Nat /\ s.free \in Nat /\ s.mem \in Memory /\ t \in Memory /\ Len(t) = s.len
      /\ Len(s.mem) = s.len + s.free + 1 /\ \A i \in 1 .. Len(t) : s.mem[i] = t[i]
  BY DEF IsSds, SdsType
<1>2. CASE s.free >= n
  BY <1>2 DEF sdsMakeRoomFor
<1>3. CASE ~(s.free >= n)
  <2>1. p \in Nat /\ p >= s.len + n
    <3>1. PICK k \in Nat : k = s.len + n
      BY <1>1
    <3> QED BY <3>1, PreallocIs
  <2> HIDE DEF p
  <2>2. p + 1 \in Nat /\ p - s.len \in Nat /\ p - s.len >= n /\ s.len + (p - s.len) + 1 = p + 1
    BY <1>1, <2>1
  <2>3. m \in Memory /\ Len(m) = p + 1 /\ \A i \in 1 .. p + 1 : i <= Len(s.mem) => m[i] = s.mem[i]
    BY <1>1, <2>2, ReallocIs
  <2>4. \A i \in 1 .. Len(t) : m[i] = t[i]
    <3>1. \A i \in 1 .. Len(t) : i \in 1 .. p + 1 /\ i <= Len(s.mem)
      BY <1>1, <2>1
    <3> QED BY <1>1, <2>3, <3>1
  <2> HIDE DEF m
  <2>5. g \in SdsType /\ g.len = s.len /\ g.free = p - s.len /\ g.mem = m
    <3>1. s \in SdsType
      BY DEF IsSds
    <3> QED BY <2>2, <2>3, <3>1 DEF SdsType
  <2>6. sdsMakeRoomFor(s, n) = g
    BY <1>3 DEF sdsMakeRoomFor, p, m
  <2> HIDE DEF g
  <2> QED BY <1>1, <2>2, <2>3, <2>4, <2>5, <2>6 DEF IsSds
<1> QED BY <1>2, <1>3

LEMMA LengthenedIs ==
    ASSUME NEW s, NEW t, IsSds(s, t), NEW u \in Memory, Len(u) <= s.free
    PROVE  IsSds(Lengthened(s, u), t \o u)
<1> DEFINE m == Wrote(s.mem, s.len, u)
<1>1. /\ s.len \in Nat /\ s.free \in Nat /\ s.mem \in Memory /\ t \in Memory /\ Len(t) = s.len
      /\ Len(s.mem) = s.len + s.free + 1 /\ Len(u) \in Nat
      /\ \A i \in 1 .. Len(t) : s.mem[i] = t[i]
  BY DEF IsSds, SdsType, Memory
<1>2. /\ m \in Memory /\ Len(m) = Len(s.mem) /\ \A i \in 1 .. s.len : m[i] = s.mem[i]
      /\ \A i \in 1 .. Len(u) : m[s.len + i] = u[i]
  <2>1. s.len + Len(u) <= Len(s.mem)
    BY <1>1
  <2> QED BY ONLY <1>1, <2>1, u \in Memory, WroteIs
<1> HIDE DEF m
<1>3. Lengthened(s, u) = [len |-> s.len + Len(u), free |-> s.free - Len(u), mem |-> m]
  BY DEF Lengthened, m
<1>4. t \o u \in Memory /\ Len(t \o u) = s.len + Len(u)
  <2>1. t \o u \in Memory /\ Len(t \o u) = Len(t) + Len(u)
    BY ONLY <1>1, u \in Memory, Joined
  <2> QED BY <1>1, <2>1
<1>5. ASSUME NEW i \in 1 .. Len(t \o u) PROVE m[i] = (t \o u)[i]
  <2>1. (t \o u)[i] = IF i <= Len(t) THEN t[i] ELSE u[i - Len(t)]
    BY <1>1, JoinedAt
  <2>2. CASE i <= Len(t)
    BY <1>1, <1>2, <1>4, <2>1, <2>2
  <2>3. CASE ~(i <= Len(t))
    <3>1. i - Len(t) \in 1 .. Len(u) /\ s.len + (i - Len(t)) = i
      BY <1>1, <1>4, <2>3
    <3> QED BY <1>2, <2>1, <2>3, <3>1
  <2> QED BY <2>2, <2>3
<1>6. /\ s.len + Len(u) \in Nat /\ s.free - Len(u) \in Nat
      /\ Len(m) = (s.len + Len(u)) + (s.free - Len(u)) + 1
  BY <1>1, <1>2
<1>7. PICK len \in Nat, free \in Nat : len = s.len + Len(u) /\ free = s.free - Len(u)
  BY <1>6
<1>8. /\ Lengthened(s, u) = [len |-> len, free |-> free, mem |-> m]
      /\ Len(t \o u) = len /\ Len(m) = len + free + 1
  BY <1>3, <1>4, <1>6, <1>7
<1>9. Lengthened(s, u) \in SdsType
  BY ONLY <1>2, <1>8, len \in Nat, free \in Nat DEF SdsType
<1> QED BY ONLY <1>4, <1>5, <1>8, <1>9 DEF IsSds

LEMMA TerminatedIs ==
    ASSUME NEW s, NEW t, IsSds(s, t)
    PROVE  IsSds(Terminated(s), t) /\ Ended(Terminated(s))
<1> DEFINE m == Wrote(s.mem, s.len, <<Nul>>)
<1>1. /\ s \in SdsType /\ s.len \in Nat /\ s.free \in Nat /\ s.mem \in Memory /\ t \in Memory
      /\ Len(t) = s.len /\ Len(s.mem) = s.len + s.free + 1 /\ \A i \in 1 .. Len(t) : s.mem[i] = t[i]
  BY DEF IsSds, SdsType
<1>2. <<Nul>> \in Memory /\ Len(<<Nul>>) = 1 /\ <<Nul>>[1] = Nul
  BY DEF Memory, Nul
<1>3. /\ m \in Memory /\ Len(m) = Len(s.mem) /\ \A i \in 1 .. s.len : m[i] = s.mem[i]
      /\ m[s.len + 1] = Nul
  <2>1. s.len + Len(<<Nul>>) <= Len(s.mem)
    BY <1>1, <1>2
  <2>2. /\ m \in Memory /\ Len(m) = Len(s.mem) /\ \A i \in 1 .. s.len : m[i] = s.mem[i]
        /\ \A i \in 1 .. Len(<<Nul>>) : m[s.len + i] = <<Nul>>[i]
    BY ONLY <1>1, <1>2, <2>1, WroteIs
  <2> QED BY <1>2, <2>2
<1> HIDE DEF m
<1>4. /\ Terminated(s) \in SdsType /\ Terminated(s).len = s.len /\ Terminated(s).free = s.free
      /\ Terminated(s).mem = m
  <2>1. Terminated(s) = [s EXCEPT !.mem = m]
    BY DEF Terminated, m
  <2> QED BY <1>1, <1>3, <2>1 DEF SdsType
<1> QED BY <1>1, <1>3, <1>4 DEF IsSds, Ended

\* sdscatlen() adds a text.
LEMMA SdsIsAdded ==
    ASSUME NEW s, NEW t, IsSds(s, t), NEW u \in Memory
    PROVE  IsSds(sdscatlen(s, u), t \o u) /\ Ended(sdscatlen(s, u))
<1> DEFINE r == sdsMakeRoomFor(s, Len(u))
<1>1. Len(u) \in Nat
  BY DEF Memory
<1>2. IsSds(r, t) /\ r.free >= Len(u) /\ r.free \in Nat
  <2>1. IsSds(r, t) /\ r.free >= Len(u)
    BY <1>1, RoomIsMade
  <2> QED BY <2>1, SdsFacts
<1> HIDE DEF r
<1>3. IsSds(Lengthened(r, u), t \o u)
  BY <1>1, <1>2, LengthenedIs
<1> QED BY <1>3, TerminatedIs DEF sdscatlen, r

\* sdscatfmt() adds its pieces.
LEMMA PieceIsAdded ==
    ASSUME NEW s, NEW t, IsSds(s, t), NEW u \in Memory
    PROVE  IsSds(FormatPiece(s, u), t \o u)
<1> DEFINE one == RoomForOne(s)
           r   == sdsMakeRoomFor(one, Len(u))
<1>1. Len(u) \in Nat
  BY DEF Memory
<1>2. IsSds(one, t)
  BY RoomIsMade DEF RoomForOne
<1> HIDE DEF one
<1>3. IsSds(r, t) /\ r.free >= Len(u) /\ r.free \in Nat
  <2>1. IsSds(r, t) /\ r.free >= Len(u)
    BY <1>1, <1>2, RoomIsMade
  <2> QED BY <2>1, SdsFacts
<1> HIDE DEF r
<1>4. IsSds(Lengthened(r, u), t \o u)
  BY <1>1, <1>3, LengthenedIs
<1> QED BY <1>4 DEF FormatPiece, one, r

Line(c, digits) == ((<<c>> \o digits) \o <<13>>) \o <<10>>
LEMMA LineIsAdded ==
    ASSUME NEW s, NEW t, IsSds(s, t), NEW c \in Int, NEW u \in Memory
    PROVE  /\ Line(c, u) \in Memory /\ Len(Line(c, u)) = 1 + Len(u) + 2
           /\ IsSds(sdscatfmt(s, c, u), t \o Line(c, u)) /\ Ended(sdscatfmt(s, c, u))
<1> DEFINE head == <<c>>
           cr   == <<13>>
           lf   == <<10>>
<1>1. head \in Memory /\ cr \in Memory /\ lf \in Memory /\ t \in Memory
      /\ Len(head) = 1 /\ Len(cr) = 1 /\ Len(lf) = 1
  BY SdsFacts DEF Memory
<1> HIDE DEF head, cr, lf
<1>2. /\ head \o u \in Memory /\ (head \o u) \o cr \in Memory
      /\ Len(head \o u) = 1 + Len(u) /\ Len((head \o u) \o cr) = 1 + Len(u) + 1
  <2>1. head \o u \in Memory /\ Len(head \o u) = Len(head) + Len(u)
    BY ONLY <1>1, u \in Memory, Joined
  <2>2. (head \o u) \o cr \in Memory /\ Len((head \o u) \o cr) = Len(head \o u) + Len(cr)
    BY ONLY <1>1, <2>1, Joined
  <2> QED BY <1>1, <2>1, <2>2
<1>3. ((head \o u) \o cr) \o lf \in Memory /\ Len(((head \o u) \o cr) \o lf) = 1 + Len(u) + 1 + 1
  BY <1>1, <1>2, Joined
<1>4. Line(c, u) = ((head \o u) \o cr) \o lf
  BY DEF Line, head, cr, lf
<1> DEFINE p1 == FormatPiece(s, head)
           p2 == FormatPiece(p1, u)
           p3 == FormatPiece(p2, cr)
           p4 == FormatPiece(p3, lf)
<1>5. IsSds(p1, t \o head)
  BY <1>1, PieceIsAdded
<1> HIDE DEF p1
<1>6. IsSds(p2, (t \o head) \o u)
  BY <1>5, PieceIsAdded
<1> HIDE DEF p2
<1>7. IsSds(p3, ((t \o head) \o u) \o cr)
  BY <1>1, <1>6, PieceIsAdded
<1> HIDE DEF p3
<1>8. IsSds(p4, (((t \o head) \o u) \o cr) \o lf)
  BY <1>1, <1>7, PieceIsAdded
<1> HIDE DEF p4
<1>9. (((t \o head) \o u) \o cr) \o lf = t \o Line(c, u)
  <2>1. (t \o head) \o u = t \o (head \o u)
    BY <1>1, Reordered
  <2>2. (t \o (head \o u)) \o cr = t \o ((head \o u) \o cr)
    BY ONLY <1>1, <1>2, Reordered
  <2>3. (t \o ((head \o u) \o cr)) \o lf = t \o (((head \o u) \o cr) \o lf)
    BY ONLY <1>1, <1>2, Reordered
  <2> QED BY <2>1, <2>2, <2>3, <1>4
<1>10. sdscatfmt(s, c, u) = Terminated(p4)
  BY DEF sdscatfmt, FormatLine, p4, p3, p2, p1, head, cr, lf
<1>11. Len(u) \in Nat
  BY DEF Memory
<1> QED BY <1>3, <1>4, <1>8, <1>9, <1>10, <1>11, TerminatedIs

\* What is behind the first a bytes of a text.
Behind(u, t, a) ==
    u \in Memory /\ a \in Nat /\ Len(t) = a + Len(u) /\ \A i \in 1 .. Len(u) : u[i] = t[a + i]

LEMMA SpanIsBehind ==
    ASSUME NEW t \in Memory, NEW a \in Nat, a <= Len(t)
    PROVE  Behind(Span(t, a, Len(t)), t, a)
<1>1. Len(t) \in Nat
  BY DEF Memory
<1>2. /\ Span(t, a, Len(t)) \in Memory /\ Len(Span(t, a, Len(t))) = Len(t) - a
      /\ \A i \in 1 .. Len(t) - a : Span(t, a, Len(t))[i] = t[a + i]
  <2>1. Len(t) <= Len(t)
    BY <1>1
  <2> QED BY ONLY <1>1, <2>1, t \in Memory, a \in Nat, a <= Len(t), SpanIs
<1>3. Len(t) = a + (Len(t) - a)
  BY <1>1
<1> QED BY <1>2, <1>3 DEF Behind

LEMMA RangedIs ==
    ASSUME NEW s, NEW t, IsSds(s, t), NEW a, NEW u, Behind(u, t, a)
    PROVE  IsSds(Ranged(s, a, Len(u)), u) /\ Ended(Ranged(s, a, Len(u)))
<1> DEFINE n   == Len(u)
           v   == Span(s.mem, a, a + n)
           m   == Wrote(s.mem, 0, v)
           w   == Wrote(m, n, <<Nul>>)
           len == n
           free == s.free + s.len - n
<1>1. /\ s.len \in Nat /\ s.free \in Nat /\ s.mem \in Memory /\ t \in Memory /\ Len(t) = s.len
      /\ Len(s.mem) = s.len + s.free + 1 /\ \A i \in 1 .. Len(t) : s.mem[i] = t[i]
  BY DEF IsSds, SdsType
<1>2. /\ n \in Nat /\ a \in Nat /\ u \in Memory /\ s.len = a + n /\ a + n \in Nat
      /\ \A i \in 1 .. n : u[i] = t[a + i]
  <2>1. /\ u \in Memory /\ a \in Nat /\ Len(t) = a + n
        /\ \A i \in 1 .. n : u[i] = t[a + i]
    BY DEF Behind
  <2>2. n \in Nat
    BY <2>1 DEF Memory
  <2> QED BY <1>1, <2>1, <2>2
<1>3. Ranged(s, a, n) = [len |-> n, free |-> free, mem |-> w]
  BY DEF Ranged
<1>4. free \in Nat /\ Len(s.mem) = n + free + 1
  BY <1>1, <1>2
<1> HIDE DEF n, free
<1>5. v \in Memory /\ Len(v) = n /\ \A i \in 1 .. n : v[i] = s.mem[a + i]
  <2>1. PICK k \in Nat : k = a + n /\ a <= k /\ k <= Len(s.mem) /\ k - a = n
    BY <1>1, <1>2
  <2>2. /\ Span(s.mem, a, k) \in Memory /\ Len(Span(s.mem, a, k)) = k - a
        /\ \A i \in 1 .. k - a : Span(s.mem, a, k)[i] = s.mem[a + i]
    BY ONLY <1>1, <1>2, <2>1, SpanIs
  <2>3. v = Span(s.mem, a, k)
    BY <2>1
  <2> QED BY ONLY <2>1, <2>2, <2>3
<1>6. \A i \in 1 .. n : v[i] = u[i]
  <2> SUFFICES ASSUME NEW i \in 1 .. n PROVE v[i] = u[i]
    OBVIOUS
  <2>1. a + i \in 1 .. Len(t)
    BY <1>1, <1>2
  <2> QED BY <1>1, <1>2, <1>5, <2>1
<1> HIDE DEF v
<1>7. m \in Memory /\ Len(m) = Len(s.mem) /\ \A i \in 1 .. n : m[i] = v[i]
  <2>1. 0 \in Nat /\ 0 + Len(v) <= Len(s.mem) /\ \A i \in 1 .. n : 0 + i = i
    BY <1>1, <1>2, <1>5
  <2>2. m \in Memory /\ Len(m) = Len(s.mem) /\ \A i \in 1 .. Len(v) : m[0 + i] = v[i]
    BY ONLY <1>1, <1>5, <2>1, WroteIs
  <2> QED BY <1>5, <2>1, <2>2
<1> HIDE DEF m
<1>8. <<Nul>> \in Memory /\ Len(<<Nul>>) = 1 /\ <<Nul>>[1] = Nul
  BY DEF Memory, Nul
<1>9. /\ w \in Memory /\ Len(w) = Len(s.mem) /\ \A i \in 1 .. n : w[i] = m[i]
      /\ w[n + 1] = Nul
  <2>1. n + Len(<<Nul>>) <= Len(m)
    BY ONLY <1>2, <1>4, <1>7, <1>8
  <2>2. PICK z \in Memory : z = <<Nul>> /\ Len(z) = 1 /\ z[1] = Nul /\ n + Len(z) <= Len(m)
    BY ONLY <1>8, <2>1
  <2>3. /\ Wrote(m, n, z) \in Memory /\ Len(Wrote(m, n, z)) = Len(m)
        /\ \A i \in 1 .. n : Wrote(m, n, z)[i] = m[i]
        /\ \A i \in 1 .. Len(z) : Wrote(m, n, z)[n + i] = z[i]
    <3>1. n \in Nat /\ m \in Memory
      BY <1>2, <1>7
    <3> QED BY ONLY <3>1, <2>2, WroteIs
  <2>4. w = Wrote(m, n, z) /\ 1 \in 1 .. Len(z)
    BY <2>2 DEF w
  <2> QED BY ONLY <1>7, <2>2, <2>3, <2>4
<1> HIDE DEF w
<1>10. \A i \in 1 .. n : w[i] = u[i]
  BY <1>6, <1>7, <1>9
<1>11. Ranged(s, a, n) \in SdsType
  BY ONLY <1>2, <1>3, <1>4, <1>9 DEF SdsType
<1>12. Len(u) = n
  BY DEF n
<1> QED BY ONLY <1>2, <1>3, <1>4, <1>9, <1>10, <1>11, <1>12 DEF IsSds, Ended

\* sdsrange() from a place to the end.
LEMMA RangeIs ==
    ASSUME NEW s, NEW t, IsSds(s, t), Ended(s), NEW a, NEW u, Behind(u, t, a)
    PROVE  IsSds(sdsrange(s, a, -1), u) /\ Ended(sdsrange(s, a, -1))
<1>1. s.len \in Nat /\ t \in Memory /\ Len(t) = s.len
  BY DEF IsSds, SdsType
<1>2. Len(u) \in Nat /\ a \in Nat /\ s.len = a + Len(u) /\ u \in Memory
  <2>1. u \in Memory /\ a \in Nat /\ Len(t) = a + Len(u)
    BY DEF Behind
  <2>2. Len(u) \in Nat
    BY <2>1 DEF Memory
  <2> QED BY <1>1, <2>1, <2>2
<1>3. CASE s.len = 0
  <2>1. a = 0 /\ Len(u) = 0
    BY <1>2, <1>3
  <2>2. u = t
    BY <1>1, <1>2, <1>3, <2>1, Same
  <2> QED BY <1>3, <2>2 DEF sdsrange
<1>4. CASE s.len # 0
  <2>1. FromEnd(s.len, a) = a
    BY <1>2 DEF FromEnd
  <2>2. FromEnd(s.len, -1) = s.len - 1
    BY <1>1, <1>4 DEF FromEnd
  <2>3. RangeLength(s.len, a, s.len - 1) = Len(u)
    BY <1>1, <1>2, <1>4 DEF RangeLength, Least
  <2>4. sdsrange(s, a, -1) = Ranged(s, a, Len(u))
    BY <1>4, <2>1, <2>2, <2>3 DEF sdsrange
  <2> QED BY <2>4, RangedIs
<1> QED BY <1>3, <1>4

-----------------------------------------------------------------------------
(* Digits.                                                                 *)

LEMMA Tenth ==
    ASSUME NEW n \in Nat
    PROVE  /\ n \div 10 \in Nat /\ 10 * (n \div 10) <= n /\ n < 10 * (n \div 10) + 10
           /\ n % 10 \in Nat
OBVIOUS

LEMMA TenThousandth ==
    ASSUME NEW n \in Nat
    PROVE  /\ n \div 10000 \in Nat
           /\ 10000 * (n \div 10000) <= n /\ n < 10000 * (n \div 10000) + 10000
OBVIOUS

LEMMA Smaller ==
    ASSUME NEW n \in Nat, n >= 10
    PROVE  n \div 10 < n /\ n \div 10000 < n
BY Tenth, TenThousandth

LEMMA FourTenths ==
    ASSUME NEW n \in Nat
    PROVE  (((n \div 10) \div 10) \div 10) \div 10 = n \div 10000
<1>1. PICK a \in Nat : a = n \div 10 /\ 10 * a <= n /\ n < 10 * a + 10
  BY Tenth
<1>2. PICK b \in Nat : b = a \div 10 /\ 10 * b <= a /\ a < 10 * b + 10
  BY Tenth
<1>3. PICK c \in Nat : c = b \div 10 /\ 10 * c <= b /\ b < 10 * c + 10
  BY Tenth
<1>4. PICK d \in Nat : d = c \div 10 /\ 10 * d <= c /\ c < 10 * d + 10
  BY Tenth
<1>5. PICK e \in Nat : e = n \div 10000 /\ 10000 * e <= n /\ n < 10000 * e + 10000
  BY TenThousandth
<1>6. d = e
  BY ONLY <1>1, <1>2, <1>3, <1>4, <1>5, n \in Nat
<1> QED BY <1>1, <1>2, <1>3, <1>4, <1>5, <1>6

\* The two functions, on the numbers up to v.
CountTo(f, n) ==
    IF n < 10 THEN 1 ELSE IF n < 100 THEN 2 ELSE IF n < 1000 THEN 3
    ELSE IF n < 10000 THEN 4 ELSE 4 + f[n \div 10000]
DigitsTo(f, n) == IF n < 10 THEN <<48 + n>> ELSE Append(f[n \div 10], 48 + (n % 10))
Counts(f, v)   == f = [n \in 0 .. v |-> CountTo(f, n)]
Digits(f, v)   == f = [n \in 0 .. v |-> DigitsTo(f, n)]

LEMMA CountsExist == ASSUME NEW v \in Nat PROVE \E f : Counts(f, v)
<1> DEFINE S == {n \in Nat : \E f : Counts(f, n)}
           zero == [n \in 0 .. 0 |-> 1]
<1>1. 0 \in S
  <2>1. \A n \in 0 .. 0 : CountTo(zero, n) = 1
    BY DEF CountTo
  <2>2. zero = [n \in 0 .. 0 |-> CountTo(zero, n)]
    <3> HIDE DEF zero
    <3>1. zero = [n \in 0 .. 0 |-> 1]
      BY DEF zero
    <3> QED BY <2>1, <3>1
  <2>3. Counts(zero, 0)
    BY <2>2 DEF Counts
  <2> QED BY <2>3
<1>2. ASSUME NEW n \in S PROVE n + 1 \in S
  <2>1. n \in Nat /\ \E f : Counts(f, n)
    OBVIOUS
  <2>2. PICK f : Counts(f, n)
    BY <2>1
  <2> DEFINE g == [k \in 0 .. n + 1 |-> CountTo(f, k)]
  <2>3. ASSUME NEW k \in 0 .. n + 1 PROVE CountTo(g, k) = CountTo(f, k)
    <3>1. CASE k < 10000
      BY <3>1 DEF CountTo
    <3>2. CASE ~(k < 10000)
      <4>1. k \in Nat /\ k >= 10 /\ k <= n + 1
        BY <2>1, <3>2
      <4>2. k \div 10000 \in Nat /\ k \div 10000 < k
        BY <4>1, TenThousandth, Smaller
      <4>3. PICK q \in 0 .. n : q = k \div 10000
        BY <2>1, <4>1, <4>2
      <4>4. f[q] = CountTo(f, q)
        <5>1. f = [m \in 0 .. n |-> CountTo(f, m)]
          BY <2>2 DEF Counts
        <5> HIDE DEF g
        <5> QED BY <5>1
      <4>5. g[q] = CountTo(f, q)
        <5>1. q \in 0 .. n + 1
          BY <2>1
        <5> QED BY <5>1
      <4> HIDE DEF g
      <4> QED BY <4>3, <4>4, <4>5 DEF CountTo
    <3> QED BY <3>1, <3>2
  <2> HIDE DEF g
  <2>4. g = [k \in 0 .. n + 1 |-> CountTo(g, k)]
    <3>1. g = [k \in 0 .. n + 1 |-> CountTo(f, k)]
      BY DEF g
    <3> QED BY <2>3, <3>1
  <2>5. Counts(g, n + 1)
    BY <2>4 DEF Counts
  <2> QED BY <2>1, <2>5
<1> HIDE DEF S
<1>3. S = Nat
  <2>1. S \in SUBSET Nat
    BY DEF S
  <2> QED BY <1>1, <1>2, <2>1, NatSet
<1> QED BY <1>3 DEF S

LEMMA DigitsExist == ASSUME NEW v \in Nat PROVE \E f : Digits(f, v)
<1> DEFINE S == {n \in Nat : \E f : Digits(f, n)}
           zero == [n \in 0 .. 0 |-> <<48 + n>>]
<1>1. 0 \in S
  <2>1. \A n \in 0 .. 0 : DigitsTo(zero, n) = <<48 + n>>
    BY DEF DigitsTo
  <2>2. zero = [n \in 0 .. 0 |-> DigitsTo(zero, n)]
    <3> HIDE DEF zero
    <3>1. zero = [n \in 0 .. 0 |-> <<48 + n>>]
      BY DEF zero
    <3> QED BY <2>1, <3>1
  <2>3. Digits(zero, 0)
    BY <2>2 DEF Digits
  <2> QED BY <2>3
<1>2. ASSUME NEW n \in S PROVE n + 1 \in S
  <2>1. n \in Nat /\ \E f : Digits(f, n)
    OBVIOUS
  <2>2. PICK f : Digits(f, n)
    BY <2>1
  <2> DEFINE g == [k \in 0 .. n + 1 |-> DigitsTo(f, k)]
  <2>3. ASSUME NEW k \in 0 .. n + 1 PROVE DigitsTo(g, k) = DigitsTo(f, k)
    <3>1. CASE k < 10
      BY <3>1 DEF DigitsTo
    <3>2. CASE ~(k < 10)
      <4>1. k \in Nat /\ k >= 10 /\ k <= n + 1
        BY <2>1, <3>2
      <4>2. k \div 10 \in Nat /\ k \div 10 < k
        BY <4>1, Tenth, Smaller
      <4>3. PICK q \in 0 .. n : q = k \div 10
        BY <2>1, <4>1, <4>2
      <4>4. f[q] = DigitsTo(f, q)
        <5>1. f = [m \in 0 .. n |-> DigitsTo(f, m)]
          BY <2>2 DEF Digits
        <5> HIDE DEF g
        <5> QED BY <5>1
      <4>5. g[q] = DigitsTo(f, q)
        <5>1. q \in 0 .. n + 1
          BY <2>1
        <5> QED BY <5>1
      <4> HIDE DEF g
      <4> QED BY <4>3, <4>4, <4>5 DEF DigitsTo
    <3> QED BY <3>1, <3>2
  <2> HIDE DEF g
  <2>4. g = [k \in 0 .. n + 1 |-> DigitsTo(g, k)]
    <3>1. g = [k \in 0 .. n + 1 |-> DigitsTo(f, k)]
      BY DEF g
    <3> QED BY <2>3, <3>1
  <2>5. Digits(g, n + 1)
    BY <2>4 DEF Digits
  <2> QED BY <2>1, <2>5
<1> HIDE DEF S
<1>3. S = Nat
  <2>1. S \in SUBSET Nat
    BY DEF S
  <2> QED BY <1>1, <1>2, <2>1, NatSet
<1> QED BY <1>3 DEF S

\* As many digits are written as are counted.
LEMMA DigitsAreCounted ==
    ASSUME NEW v \in Nat
    PROVE  DigitsOf(v) \in Memory /\ countDigits(v) \in Nat /\ Len(DigitsOf(v)) = countDigits(v)
<1> DEFINE c == CHOOSE f : Counts(f, v)
           d == CHOOSE f : Digits(f, v)
<1>1. Counts(c, v) /\ Digits(d, v)
  <2>1. \E f : Counts(f, v)
    BY CountsExist
  <2>2. \E f : Digits(f, v)
    BY DigitsExist
  <2> QED BY <2>1, <2>2
<1>2. countDigits(v) = c[v]
  BY DEF countDigits, Counts, CountTo
<1>3. DigitsOf(v) = d[v]
  BY DEF DigitsOf, Digits, DigitsTo
<1> HIDE DEF c, d
<1>4. \A n \in 0 .. v : c[n] = CountTo(c, n)
  <2>1. c = [n \in 0 .. v |-> CountTo(c, n)]
    BY <1>1 DEF Counts
  <2> QED BY <2>1
<1>5. \A n \in 0 .. v : d[n] = DigitsTo(d, n)
  <2>1. d = [n \in 0 .. v |-> DigitsTo(d, n)]
    BY <1>1 DEF Digits
  <2> QED BY <2>1
<1> DEFINE Good(n) == d[n] \in Memory /\ c[n] \in Nat /\ Len(d[n]) = c[n]
           S == {m \in Nat : \A n \in 0 .. v : n <= m => Good(n)}
<1>6. ASSUME NEW n \in 0 .. v, n >= 10
      PROVE  /\ n \div 10 \in 0 .. v /\ n \div 10 < n
             /\ d[n \div 10] \in Memory => d[n] \in Memory /\ Len(d[n]) = Len(d[n \div 10]) + 1
  <2>1. n \in Nat
    OBVIOUS
  <2>2. n \div 10 \in Nat /\ n \div 10 < n /\ n % 10 \in Nat
    BY <1>6, <2>1, Tenth, Smaller
  <2>3. d[n] = Append(d[n \div 10], 48 + (n % 10))
    <3>1. d[n] = DigitsTo(d, n) /\ ~(n < 10)
      BY <1>5, <1>6, <2>1
    <3> QED BY ONLY <3>1 DEF DigitsTo
  <2>4. PICK x \in Int : x = 48 + (n % 10)
    BY <2>2
  <2>5. n \div 10 \in 0 .. v
    BY <2>1, <2>2
  <2>6. ASSUME d[n \div 10] \in Memory PROVE d[n] \in Memory /\ Len(d[n]) = Len(d[n \div 10]) + 1
    <3>1. PICK t \in Memory : t = d[n \div 10]
      BY <2>6
    <3>2. Append(t, x) \in Memory /\ Len(Append(t, x)) = Len(t) + 1
      BY DEF Memory
    <3> QED BY <2>3, <2>4, <3>1, <3>2
  <2> QED BY <2>2, <2>5, <2>6
<1>7. ASSUME NEW n \in 0 .. v, n < 10 PROVE d[n] \in Memory /\ Len(d[n]) = 1 /\ c[n] = 1
  <2>1. d[n] = <<48 + n>> /\ c[n] = 1
    <3>1. d[n] = DigitsTo(d, n) /\ c[n] = CountTo(c, n)
      BY <1>4, <1>5
    <3> QED BY ONLY <1>7, <3>1 DEF DigitsTo, CountTo
  <2>2. PICK x \in Int : x = 48 + n
    OBVIOUS
  <2>3. <<x>> \in Memory /\ Len(<<x>>) = 1
    BY DEF Memory
  <2> QED BY <2>1, <2>2, <2>3
<1>8. ASSUME NEW n \in 0 .. v, n >= 10, \A k \in 0 .. v : k < n => Good(k) PROVE Good(n)
  <2> DEFINE q1 == n \div 10
             q2 == q1 \div 10
             q3 == q2 \div 10
             q4 == n \div 10000
  <2>1. n \in Nat /\ q1 \in Nat /\ 10 * q1 <= n /\ n < 10 * q1 + 10
    BY <1>8, Tenth
  <2>2. q2 \in Nat /\ 10 * q2 <= q1 /\ q1 < 10 * q2 + 10
    BY <2>1, Tenth
  <2>3. q3 \in Nat /\ 10 * q3 <= q2 /\ q2 < 10 * q3 + 10
    BY <2>2, Tenth
  <2>4. q4 \in Nat /\ 10000 * q4 <= n /\ n < 10000 * q4 + 10000 /\ q3 \div 10 = q4
    BY <2>1, TenThousandth, FourTenths
  <2>5. /\ q1 \in 0 .. v /\ d[q1] \in Memory
        /\ d[n] \in Memory /\ Len(d[n]) = Len(d[q1]) + 1
    BY <1>6, <1>8
  <2>6. c[n] = CountTo(c, n)
    BY <1>4
  <2>7. ASSUME q1 >= 10
        PROVE  /\ q2 \in 0 .. v /\ d[q2] \in Memory
               /\ Len(d[q1]) = Len(d[q2]) + 1
    <3>1. q2 \in 0 .. v /\ q2 < q1 /\ q1 < n
      BY <1>6, <1>8, <2>5, <2>7
    <3>2. q2 < n
      BY ONLY <2>1, <2>2, <3>1
    <3> HIDE DEF q1, q2
    <3>3. d[q2] \in Memory
      BY <1>8, <3>1, <3>2
    <3> QED BY <1>6, <2>5, <2>7, <3>1, <3>3 DEF q2
  <2>8. ASSUME q1 >= 10, q2 >= 10
        PROVE  /\ q3 \in 0 .. v /\ d[q3] \in Memory
               /\ Len(d[q2]) = Len(d[q3]) + 1
    <3>1. q2 \in 0 .. v /\ q3 \in 0 .. v /\ q3 < q2
      BY <1>6, <2>7, <2>8
    <3>2. q3 < n
      BY ONLY <2>1, <2>2, <2>3, <3>1
    <3> HIDE DEF q1, q2, q3
    <3>3. d[q3] \in Memory
      BY <1>8, <3>1, <3>2
    <3> QED BY <1>6, <2>8, <3>1, <3>3 DEF q3
  <2>9. ASSUME q1 >= 10, q2 >= 10, q3 >= 10
        PROVE  /\ Good(q4) /\ Len(d[q3]) = Len(d[q4]) + 1
    <3>1. q3 \in 0 .. v /\ q4 \in 0 .. v /\ q4 < q3
      BY <1>6, <2>4, <2>8, <2>9
    <3>2. q4 < n
      BY ONLY <2>1, <2>2, <2>3, <2>4, <3>1
    <3> HIDE DEF q1, q2, q3, q4
    <3>3. Good(q4)
      BY <1>8, <3>1, <3>2
    <3>4. q3 \div 10 = q4
      BY <2>4
    <3> QED BY <1>6, <2>9, <3>1, <3>3, <3>4
  <2> HIDE DEF q1, q2, q3
  <2>10. CASE n < 100
    <3>1. q1 < 10 /\ c[n] = 2
      BY ONLY <1>8, <2>1, <2>6, <2>10 DEF CountTo
    <3>2. Len(d[q1]) = 1
      BY <1>7, <2>5, <3>1
    <3> QED BY <2>5, <3>1, <3>2
  <2>11. CASE ~(n < 100) /\ n < 1000
    <3>1. q1 >= 10 /\ q2 < 10 /\ c[n] = 3
      BY ONLY <1>8, <2>1, <2>2, <2>6, <2>11 DEF CountTo
    <3>2. Len(d[q2]) = 1
      BY <1>7, <2>7, <3>1
    <3>3. Len(d[q1]) = Len(d[q2]) + 1
      BY ONLY <2>7, <3>1
    <3>4. Len(d[n]) = 3 /\ d[n] \in Memory
      BY ONLY <2>5, <3>2, <3>3
    <3> QED BY ONLY <3>1, <3>4 DEF Good
  <2>12. CASE ~(n < 1000) /\ n < 10000
    <3>1. q1 >= 10 /\ q2 >= 10 /\ q3 < 10 /\ c[n] = 4
      BY ONLY <1>8, <2>1, <2>2, <2>3, <2>6, <2>12 DEF CountTo
    <3>2. Len(d[q3]) = 1
      BY <1>7, <2>8, <3>1
    <3>3. Len(d[q1]) = Len(d[q2]) + 1 /\ Len(d[q2]) = Len(d[q3]) + 1
      BY ONLY <2>7, <2>8, <3>1
    <3>4. Len(d[n]) = 4 /\ d[n] \in Memory
      BY ONLY <2>5, <3>2, <3>3
    <3> QED BY ONLY <3>1, <3>4 DEF Good
  <2>13. CASE ~(n < 10000)
    <3>1. q1 >= 10 /\ q2 >= 10 /\ q3 >= 10
      BY ONLY <2>1, <2>2, <2>3, <2>13
    <3>2. c[n] = 4 + c[q4]
      BY ONLY <2>1, <2>6, <2>13 DEF CountTo, q4
    <3> HIDE DEF q4
    <3>3. /\ Len(d[q1]) = Len(d[q2]) + 1 /\ Len(d[q2]) = Len(d[q3]) + 1
          /\ Len(d[q3]) = Len(d[q4]) + 1 /\ Good(q4)
      BY ONLY <2>7, <2>8, <2>9, <3>1
    <3>4. PICK k \in Nat : k = c[q4] /\ Len(d[q4]) = k
      BY ONLY <3>3 DEF Good
    <3>5. Len(d[n]) = k + 4 /\ c[n] = 4 + k /\ d[n] \in Memory
      BY ONLY <2>5, <3>2, <3>3, <3>4
    <3> QED BY ONLY <3>5, k \in Nat DEF Good
  <2> QED BY <2>1, <2>10, <2>11, <2>12, <2>13
<1>9. 0 \in S
  <2>1. ASSUME NEW n \in 0 .. v, n <= 0 PROVE Good(n)
    <3>1. n < 10
      BY <2>1
    <3>2. d[n] \in Memory /\ Len(d[n]) = 1 /\ c[n] = 1
      BY <1>7, <3>1
    <3> QED BY ONLY <3>2 DEF Good
  <2> HIDE DEF Good
  <2> QED BY <2>1
<1>10. ASSUME NEW m \in S PROVE m + 1 \in S
  <2>1. m \in Nat /\ \A k \in 0 .. v : k <= m => Good(k)
    OBVIOUS
  <2>2. ASSUME NEW n \in 0 .. v, n <= m + 1 PROVE Good(n)
    <3> HIDE DEF Good
    <3>1. \A k \in 0 .. v : k < n => Good(k)
      BY <2>1, <2>2
    <3>2. CASE n < 10
      BY <1>7, <3>2 DEF Good
    <3>3. CASE n >= 10
      BY <1>8, <3>1, <3>3
    <3> QED BY <3>2, <3>3
  <2> HIDE DEF Good
  <2> QED BY <2>1, <2>2
<1> HIDE DEF Good
<1>11. v \in S
  <2> HIDE DEF S
  <2>1. S \in SUBSET Nat
    BY DEF S
  <2>2. S = Nat
    BY <1>9, <1>10, <2>1, NatSet
  <2> QED BY <2>2
<1>12. Good(v)
  BY <1>11
<1> QED BY <1>2, <1>3, <1>12 DEF Good

-----------------------------------------------------------------------------
(* Commands.                                                               *)

LEMMA CrlfIs == Crlf \in Memory /\ Len(Crlf) = 2 /\ <<13>> \o <<10>> = Crlf
<1>1. Crlf \in Memory /\ Len(Crlf) = 2 /\ Crlf[1] = 13 /\ Crlf[2] = 10
  BY DEF Crlf, Memory
<1>2. PICK s \in Memory, t \in Memory :
         s = <<13>> /\ t = <<10>> /\ Len(s) = 1 /\ Len(t) = 1 /\ s[1] = 13 /\ t[1] = 10
  <2>1. <<13>> \in Memory /\ Len(<<13>>) = 1 /\ <<13>>[1] = 13
    BY DEF Memory
  <2>2. <<10>> \in Memory /\ Len(<<10>>) = 1 /\ <<10>>[1] = 10
    BY DEF Memory
  <2> QED BY <2>1, <2>2
<1>3. s \o t \in Memory /\ Len(s \o t) = 2
  BY <1>2, Joined
<1>4. ASSUME NEW i \in 1 .. 2 PROVE (s \o t)[i] = Crlf[i]
  <2>1. (s \o t)[i] = IF i <= 1 THEN s[i] ELSE t[i - 1]
    BY <1>2, <1>3, JoinedAt
  <2> QED BY <1>1, <1>2, <2>1
<1>5. s \o t = Crlf
  BY ONLY <1>1, <1>3, <1>4, 2 \in Nat, Same
<1> QED BY <1>1, <1>2, <1>5

LEMMA LineIs ==
    ASSUME NEW c \in Int, NEW u \in Memory
    PROVE  Line(c, u) = (<<c>> \o u) \o Crlf
<1> DEFINE cr == <<13>>
           lf == <<10>>
           hd == <<c>>
<1>1. hd \in Memory /\ cr \in Memory /\ lf \in Memory /\ cr \o lf = Crlf
  BY CrlfIs DEF Memory
<1>2. Line(c, u) = ((hd \o u) \o cr) \o lf
  BY DEF Line
<1> HIDE DEF hd, cr, lf
<1>3. hd \o u \in Memory
  BY <1>1, Joined
<1>4. ((hd \o u) \o cr) \o lf = (hd \o u) \o (cr \o lf)
  BY ONLY <1>1, <1>3, Reordered
<1> QED BY <1>1, <1>2, <1>4 DEF hd

\* An argument, with what is before and behind it.
LEMMA ArgumentIsAdded ==
    ASSUME NEW s, NEW t, IsSds(s, t), NEW arg \in Memory
    PROVE  /\ Bulk(arg) \in Memory /\ Len(Bulk(arg)) = bulklen(Len(arg))
           /\ IsSds(Argument(s, arg), t \o Bulk(arg)) /\ Ended(Argument(s, arg))
<1> DEFINE d == DigitsOf(Len(arg))
           l == Line(36, d)
           f == sdscatfmt(s, 36, d)
           a == sdscatlen(f, arg)
<1>1. t \in Memory /\ Crlf \in Memory /\ Len(Crlf) = 2 /\ Len(arg) \in Nat
  BY SdsFacts, CrlfIs DEF Memory
<1>2. d \in Memory /\ countDigits(Len(arg)) \in Nat /\ Len(d) = countDigits(Len(arg))
  BY <1>1, DigitsAreCounted
<1>3. Bulk(arg) = (((<<36>> \o d) \o Crlf) \o arg) \o Crlf
  BY DEF Bulk
<1> HIDE DEF d
<1>4. l = (<<36>> \o d) \o Crlf
  BY <1>2, LineIs
<1>5. l \in Memory /\ Len(l) = 1 + Len(d) + 2 /\ IsSds(f, t \o l)
  BY <1>2, LineIsAdded
<1> HIDE DEF l, f
<1>6. IsSds(a, (t \o l) \o arg)
  BY <1>5, SdsIsAdded
<1> HIDE DEF a
<1>7. IsSds(sdscatlen(a, Crlf), ((t \o l) \o arg) \o Crlf) /\ Ended(sdscatlen(a, Crlf))
  BY <1>1, <1>6, SdsIsAdded
<1>8. l \o arg \in Memory /\ Len(l \o arg) = Len(l) + Len(arg)
  BY ONLY <1>5, arg \in Memory, Joined
<1>9. (l \o arg) \o Crlf \in Memory /\ Len((l \o arg) \o Crlf) = Len(l \o arg) + Len(Crlf)
  BY ONLY <1>1, <1>8, Joined
<1>10. ((t \o l) \o arg) \o Crlf = t \o ((l \o arg) \o Crlf)
  <2>1. (t \o l) \o arg = t \o (l \o arg)
    BY ONLY <1>1, <1>5, arg \in Memory, Reordered
  <2>2. (t \o (l \o arg)) \o Crlf = t \o ((l \o arg) \o Crlf)
    BY ONLY <1>1, <1>8, Reordered
  <2> QED BY <2>1, <2>2
<1>11. Bulk(arg) = (l \o arg) \o Crlf
  BY <1>3, <1>4
<1>12. Argument(s, arg) = sdscatlen(a, Crlf)
  BY DEF Argument, a, f, d
<1>13. Len(Bulk(arg)) = bulklen(Len(arg))
  <2>1. PICK n \in Nat : n = countDigits(Len(arg)) /\ Len(l) = 1 + n + 2
    BY <1>2, <1>5
  <2>2. Len(Bulk(arg)) = 1 + n + 2 + Len(arg) + 2
    BY ONLY <1>1, <1>8, <1>9, <1>11, <2>1
  <2> QED BY <2>1, <2>2 DEF bulklen
<1> QED BY <1>7, <1>9, <1>10, <1>11, <1>12, <1>13

\* What is built of the first n arguments: the text, its length, and what it should be.
Arguments(f, args, cmd, n) ==
    f = [k \in 0 .. n |-> IF k = 0 THEN sdscatfmt(cmd, 42, DigitsOf(Len(args)))
                          ELSE Argument(f[k - 1], args[k])]
Lengths(g, args, n) ==
    g = [k \in 0 .. n |-> IF k = 0 THEN 1 + countDigits(Len(args)) + 2
                          ELSE g[k - 1] + bulklen(Len(args[k]))]
Bulks(h, args, n) ==
    h = [k \in 0 .. n |-> IF k = 0 THEN <<42>> \o DigitsOf(Len(args)) \o Crlf
                          ELSE h[k - 1] \o Bulk(args[k])]

LEMMA ArgumentsExist ==
    ASSUME NEW args, NEW cmd, NEW v \in Nat
    PROVE  \E f : Arguments(f, args, cmd, v)
<1> DEFINE S    == {n \in Nat : \E f : Arguments(f, args, cmd, n)}
           a    == sdscatfmt(cmd, 42, DigitsOf(Len(args)))
           N(x, k) == Argument(x, args[k])
<1>1. 0 \in S
  <2> HIDE DEF a, N
  <2>1. [k \in 0 .. 0 |-> a] = [k \in 0 .. 0 |-> IF k = 0 THEN a ELSE N([j \in 0 .. 0 |-> a][k - 1], k)]
    OBVIOUS
  <2>2. Arguments([k \in 0 .. 0 |-> a], args, cmd, 0)
    BY <2>1 DEF Arguments, a, N
  <2> QED BY <2>2
<1>2. ASSUME NEW n \in S PROVE n + 1 \in S
  <2>1. n \in Nat /\ \E f : Arguments(f, args, cmd, n)
    OBVIOUS
  <2>2. PICK f : Arguments(f, args, cmd, n)
    BY <2>1
  <2>3. f = [k \in 0 .. n |-> IF k = 0 THEN a ELSE N(f[k - 1], k)]
    BY <2>2 DEF Arguments
  <2> DEFINE g == [k \in 0 .. n + 1 |-> IF k = 0 THEN a ELSE N(f[k - 1], k)]
  <2> HIDE DEF a, N
  <2>4. ASSUME NEW k \in 0 .. n + 1, k # 0 PROVE g[k - 1] = f[k - 1]
    <3>1. k - 1 \in 0 .. n /\ k - 1 \in 0 .. n + 1
      BY <2>1, <2>4
    <3>2. PICK j \in 0 .. n : j = k - 1 /\ j \in 0 .. n + 1
      BY <3>1
    <3>3. f[j] = IF j = 0 THEN a ELSE N(f[j - 1], j)
      BY ONLY <2>3, j \in 0 .. n
    <3>4. g[j] = IF j = 0 THEN a ELSE N(f[j - 1], j)
      BY <3>2
    <3> HIDE DEF g
    <3> QED BY <3>2, <3>3, <3>4
  <2> HIDE DEF g
  <2>5. g = [k \in 0 .. n + 1 |-> IF k = 0 THEN a ELSE N(g[k - 1], k)]
    <3>1. g = [k \in 0 .. n + 1 |-> IF k = 0 THEN a ELSE N(f[k - 1], k)]
      BY DEF g
    <3> QED BY <2>4, <3>1
  <2>6. Arguments(g, args, cmd, n + 1)
    BY <2>5 DEF Arguments, a, N
  <2> QED BY <2>1, <2>6
<1> HIDE DEF S
<1>3. S = Nat
  <2>1. S \in SUBSET Nat
    BY DEF S
  <2> QED BY <1>1, <1>2, <2>1, NatSet
<1> QED BY <1>3 DEF S

LEMMA LengthsExist ==
    ASSUME NEW args, NEW v \in Nat
    PROVE  \E f : Lengths(f, args, v)
<1> DEFINE S    == {n \in Nat : \E f : Lengths(f, args, n)}
           a    == 1 + countDigits(Len(args)) + 2
           N(x, k) == x + bulklen(Len(args[k]))
<1>1. 0 \in S
  <2> HIDE DEF a, N
  <2>1. [k \in 0 .. 0 |-> a] = [k \in 0 .. 0 |-> IF k = 0 THEN a ELSE N([j \in 0 .. 0 |-> a][k - 1], k)]
    OBVIOUS
  <2>2. Lengths([k \in 0 .. 0 |-> a], args, 0)
    BY <2>1 DEF Lengths, a, N
  <2> QED BY <2>2
<1>2. ASSUME NEW n \in S PROVE n + 1 \in S
  <2>1. n \in Nat /\ \E f : Lengths(f, args, n)
    OBVIOUS
  <2>2. PICK f : Lengths(f, args, n)
    BY <2>1
  <2>3. f = [k \in 0 .. n |-> IF k = 0 THEN a ELSE N(f[k - 1], k)]
    BY <2>2 DEF Lengths
  <2> DEFINE g == [k \in 0 .. n + 1 |-> IF k = 0 THEN a ELSE N(f[k - 1], k)]
  <2> HIDE DEF a, N
  <2>4. ASSUME NEW k \in 0 .. n + 1, k # 0 PROVE g[k - 1] = f[k - 1]
    <3>1. k - 1 \in 0 .. n /\ k - 1 \in 0 .. n + 1
      BY <2>1, <2>4
    <3>2. PICK j \in 0 .. n : j = k - 1 /\ j \in 0 .. n + 1
      BY <3>1
    <3>3. f[j] = IF j = 0 THEN a ELSE N(f[j - 1], j)
      BY ONLY <2>3, j \in 0 .. n
    <3>4. g[j] = IF j = 0 THEN a ELSE N(f[j - 1], j)
      BY <3>2
    <3> HIDE DEF g
    <3> QED BY <3>2, <3>3, <3>4
  <2> HIDE DEF g
  <2>5. g = [k \in 0 .. n + 1 |-> IF k = 0 THEN a ELSE N(g[k - 1], k)]
    <3>1. g = [k \in 0 .. n + 1 |-> IF k = 0 THEN a ELSE N(f[k - 1], k)]
      BY DEF g
    <3> QED BY <2>4, <3>1
  <2>6. Lengths(g, args, n + 1)
    BY <2>5 DEF Lengths, a, N
  <2> QED BY <2>1, <2>6
<1> HIDE DEF S
<1>3. S = Nat
  <2>1. S \in SUBSET Nat
    BY DEF S
  <2> QED BY <1>1, <1>2, <2>1, NatSet
<1> QED BY <1>3 DEF S

LEMMA BulksExist ==
    ASSUME NEW args, NEW v \in Nat
    PROVE  \E f : Bulks(f, args, v)
<1> DEFINE S    == {n \in Nat : \E f : Bulks(f, args, n)}
           a    == <<42>> \o DigitsOf(Len(args)) \o Crlf
           N(x, k) == x \o Bulk(args[k])
<1>1. 0 \in S
  <2> HIDE DEF a, N
  <2>1. [k \in 0 .. 0 |-> a] = [k \in 0 .. 0 |-> IF k = 0 THEN a ELSE N([j \in 0 .. 0 |-> a][k - 1], k)]
    OBVIOUS
  <2>2. Bulks([k \in 0 .. 0 |-> a], args, 0)
    BY <2>1 DEF Bulks, a, N
  <2> QED BY <2>2
<1>2. ASSUME NEW n \in S PROVE n + 1 \in S
  <2>1. n \in Nat /\ \E f : Bulks(f, args, n)
    OBVIOUS
  <2>2. PICK f : Bulks(f, args, n)
    BY <2>1
  <2>3. f = [k \in 0 .. n |-> IF k = 0 THEN a ELSE N(f[k - 1], k)]
    BY <2>2 DEF Bulks
  <2> DEFINE g == [k \in 0 .. n + 1 |-> IF k = 0 THEN a ELSE N(f[k - 1], k)]
  <2> HIDE DEF a, N
  <2>4. ASSUME NEW k \in 0 .. n + 1, k # 0 PROVE g[k - 1] = f[k - 1]
    <3>1. k - 1 \in 0 .. n /\ k - 1 \in 0 .. n + 1
      BY <2>1, <2>4
    <3>2. PICK j \in 0 .. n : j = k - 1 /\ j \in 0 .. n + 1
      BY <3>1
    <3>3. f[j] = IF j = 0 THEN a ELSE N(f[j - 1], j)
      BY ONLY <2>3, j \in 0 .. n
    <3>4. g[j] = IF j = 0 THEN a ELSE N(f[j - 1], j)
      BY <3>2
    <3> HIDE DEF g
    <3> QED BY <3>2, <3>3, <3>4
  <2> HIDE DEF g
  <2>5. g = [k \in 0 .. n + 1 |-> IF k = 0 THEN a ELSE N(g[k - 1], k)]
    <3>1. g = [k \in 0 .. n + 1 |-> IF k = 0 THEN a ELSE N(f[k - 1], k)]
      BY DEF g
    <3> QED BY <2>4, <3>1
  <2>6. Bulks(g, args, n + 1)
    BY <2>5 DEF Bulks, a, N
  <2> QED BY <2>1, <2>6
<1> HIDE DEF S
<1>3. S = Nat
  <2>1. S \in SUBSET Nat
    BY DEF S
  <2> QED BY <1>1, <1>2, <2>1, NatSet
<1> QED BY <1>3 DEF S

\* redisFormatSdsCommandArgv() builds the command that the protocol wants, of the length
\* that was computed before.
LEMMA CommandIsBuilt ==
    ASSUME NEW args \in Seq(Memory)
    PROVE  /\ Resp(args) \in Memory
           /\ IsSds(redisFormatSdsCommandArgv(args), Resp(args))
<1> DEFINE m   == Len(args)
           cmd == sdsMakeRoomFor(sdsempty, Total(args))
           f   == CHOOSE x : Arguments(x, args, cmd, m)
           g   == CHOOSE x : Lengths(x, args, m)
           h   == CHOOSE x : Bulks(x, args, m)
<1>1. m \in Nat /\ \A k \in 1 .. m : args[k] \in Memory
  OBVIOUS
<1>2. Arguments(f, args, cmd, m) /\ Lengths(g, args, m) /\ Bulks(h, args, m)
  <2> HIDE DEF cmd
  <2>1. (\E x : Arguments(x, args, cmd, m)) /\ (\E x : Lengths(x, args, m)) /\ (\E x : Bulks(x, args, m))
    BY <1>1, ArgumentsExist, LengthsExist, BulksExist
  <2> QED BY <2>1
<1>3. Constructed(cmd, args) = f[m]
  BY DEF Constructed, Arguments
<1>4. Total(args) = g[m]
  BY DEF Total, Lengths
<1>5. Resp(args) = h[m]
  BY DEF Resp, Bulks
<1>6. redisFormatSdsCommandArgv(args) = Asserted(Constructed(cmd, args), Total(args))
  BY DEF redisFormatSdsCommandArgv
<1> HIDE DEF f, g, h
<1>7. \A k \in 0 .. m : g[k] = IF k = 0 THEN 1 + countDigits(m) + 2 ELSE g[k - 1] + bulklen(Len(args[k]))
  <2>1. g = [k \in 0 .. m |-> IF k = 0 THEN 1 + countDigits(m) + 2 ELSE g[k - 1] + bulklen(Len(args[k]))]
    BY <1>2 DEF Lengths
  <2> QED BY <2>1
<1>8. \A k \in 0 .. m : h[k] = IF k = 0 THEN <<42>> \o DigitsOf(m) \o Crlf ELSE h[k - 1] \o Bulk(args[k])
  <2>1. h = [k \in 0 .. m |-> IF k = 0 THEN <<42>> \o DigitsOf(m) \o Crlf ELSE h[k - 1] \o Bulk(args[k])]
    BY <1>2 DEF Bulks
  <2> QED BY <2>1
<1>9. \A k \in 0 .. m : f[k] = IF k = 0 THEN sdscatfmt(cmd, 42, DigitsOf(m)) ELSE Argument(f[k - 1], args[k])
  <2>1. f = [k \in 0 .. m |-> IF k = 0 THEN sdscatfmt(cmd, 42, DigitsOf(m)) ELSE Argument(f[k - 1], args[k])]
    BY <1>2 DEF Arguments
  <2> QED BY <2>1
<1> DEFINE Grows(k) == h[k] \in Memory /\ g[k] \in Nat /\ Len(h[k]) = g[k]
           Built(k) == IsSds(f[k], h[k])
           head == Line(42, DigitsOf(m))
<1>10. /\ DigitsOf(m) \in Memory /\ countDigits(m) \in Nat
       /\ head \in Memory /\ Len(head) = 1 + countDigits(m) + 2 /\ head = (<<42>> \o DigitsOf(m)) \o Crlf
  <2>1. DigitsOf(m) \in Memory /\ countDigits(m) \in Nat /\ Len(DigitsOf(m)) = countDigits(m)
    BY <1>1, DigitsAreCounted
  <2>2. IsSds(sdsempty, <<>>) /\ 42 \in Int
    BY EmptyIs
  <2>3. head \in Memory /\ Len(head) = 1 + Len(DigitsOf(m)) + 2
    BY ONLY <2>1, <2>2, LineIsAdded DEF head
  <2>4. head = (<<42>> \o DigitsOf(m)) \o Crlf
    BY <2>1, LineIs
  <2> QED BY <2>1, <2>3, <2>4
<1> HIDE DEF m, cmd, head
<1>11. ASSUME NEW k \in 0 .. m, k # 0
       PROVE  /\ k - 1 \in 0 .. m /\ args[k] \in Memory
              /\ g[k] = g[k - 1] + bulklen(Len(args[k])) /\ h[k] = h[k - 1] \o Bulk(args[k])
              /\ f[k] = Argument(f[k - 1], args[k])
  <2>1. k - 1 \in 0 .. m /\ k \in 1 .. m
    BY <1>1, <1>11
  <2> QED BY <2>1, <1>1, <1>7, <1>8, <1>9, <1>11
<1>12. ASSUME NEW k \in 0 .. m PROVE Grows(k)
  <2> DEFINE S == {n \in Nat : \A j \in 0 .. m : j <= n => Grows(j)}
  <2>1. Grows(0)
    <3>1. 0 \in 0 .. m
      BY <1>1
    <3>2. g[0] = 1 + countDigits(m) + 2 /\ h[0] = head
      BY <1>7, <1>8, <1>10, <3>1
    <3> QED BY <1>10, <3>2
  <2>2. ASSUME NEW j \in 0 .. m, j # 0, Grows(j - 1) PROVE Grows(j)
    <3>1. /\ args[j] \in Memory /\ g[j] = g[j - 1] + bulklen(Len(args[j]))
          /\ h[j] = h[j - 1] \o Bulk(args[j])
      BY <1>11, <2>2
    <3>2. Bulk(args[j]) \in Memory /\ Len(Bulk(args[j])) = bulklen(Len(args[j]))
      <4>1. IsSds(sdsempty, <<>>)
        BY EmptyIs
      <4> QED BY ONLY <4>1, <3>1, ArgumentIsAdded
    <3>3. PICK t \in Memory, u \in Memory : t = h[j - 1] /\ u = Bulk(args[j])
      BY <2>2, <3>2
    <3>4. t \o u \in Memory /\ Len(t \o u) = Len(t) + Len(u) /\ Len(t \o u) \in Nat
      BY Joined DEF Memory
    <3> QED BY <2>2, <3>1, <3>2, <3>3, <3>4
  <2> HIDE DEF Grows
  <2>3. 0 \in S
    BY <2>1
  <2>4. ASSUME NEW n \in S PROVE n + 1 \in S
    <3>1. n \in Nat /\ \A j \in 0 .. m : j <= n => Grows(j)
      OBVIOUS
    <3>2. ASSUME NEW j \in 0 .. m, j <= n + 1 PROVE Grows(j)
      <4>1. CASE j = 0
        BY <2>1, <4>1
      <4>2. CASE j # 0
        <5>1. j - 1 \in 0 .. m /\ j - 1 <= n
          BY <1>1, <3>1, <3>2, <4>2
        <5> QED BY <2>2, <3>1, <4>2, <5>1
      <4> QED BY <4>1, <4>2
    <3> QED BY <3>1, <3>2
  <2> HIDE DEF S
  <2>5. k \in S
    <3>1. S \in SUBSET Nat
      BY DEF S
    <3>2. S = Nat
      BY <2>3, <2>4, <3>1, NatSet
    <3> QED BY <3>2
  <2> QED BY <2>5 DEF S
<1>13. g[m] \in Nat /\ h[m] \in Memory /\ Len(h[m]) = g[m]
  <2>1. m \in 0 .. m
    BY <1>1
  <2> QED BY <1>12, <2>1
<1>14. IsSds(cmd, <<>>)
  <2>1. IsSds(sdsempty, <<>>)
    BY EmptyIs
  <2> QED BY <1>4, <1>13, <2>1, RoomIsMade DEF cmd
<1>15. ASSUME NEW k \in 0 .. m PROVE Built(k)
  <2> DEFINE S == {n \in Nat : \A j \in 0 .. m : j <= n => Built(j)}
  <2>1. Built(0)
    <3>1. 0 \in 0 .. m
      BY <1>1
    <3>2. f[0] = sdscatfmt(cmd, 42, DigitsOf(m)) /\ h[0] = head
      BY <1>8, <1>9, <1>10, <3>1
    <3>3. IsSds(f[0], <<>> \o head)
      <4>1. PICK e, d \in Memory : e = <<>> /\ d = DigitsOf(m) /\ IsSds(cmd, e)
        BY <1>10, <1>14, EmptyIs
      <4>2. IsSds(sdscatfmt(cmd, 42, d), e \o Line(42, d))
        <5>1. 42 \in Int
          OBVIOUS
        <5> QED BY ONLY <4>1, <5>1, LineIsAdded
      <4> QED BY <3>2, <4>1, <4>2 DEF head
    <3>4. <<>> \o head = head
      BY <1>10 DEF Memory
    <3> QED BY <3>2, <3>3, <3>4
  <2>2. ASSUME NEW j \in 0 .. m, j # 0, Built(j - 1) PROVE Built(j)
    <3>1. /\ args[j] \in Memory /\ h[j] = h[j - 1] \o Bulk(args[j])
          /\ f[j] = Argument(f[j - 1], args[j])
      BY <1>11, <2>2
    <3>2. PICK u \in Memory : u = args[j]
      BY <3>1
    <3> DEFINE x == f[j - 1]
               t == h[j - 1]
    <3>3. IsSds(x, t)
      BY <2>2
    <3> HIDE DEF x, t
    <3>4. IsSds(Argument(x, u), t \o Bulk(u))
      BY ONLY <3>3, u \in Memory, ArgumentIsAdded
    <3> QED BY <3>1, <3>2, <3>4 DEF x, t
  <2> HIDE DEF Built
  <2>3. 0 \in S
    BY <2>1
  <2>4. ASSUME NEW n \in S PROVE n + 1 \in S
    <3>1. n \in Nat /\ \A j \in 0 .. m : j <= n => Built(j)
      OBVIOUS
    <3>2. ASSUME NEW j \in 0 .. m, j <= n + 1 PROVE Built(j)
      <4>1. CASE j = 0
        BY <2>1, <4>1
      <4>2. CASE j # 0
        <5>1. j - 1 \in 0 .. m /\ j - 1 <= n
          BY <1>1, <3>1, <3>2, <4>2
        <5> QED BY <2>2, <3>1, <4>2, <5>1
      <4> QED BY <4>1, <4>2
    <3> QED BY <3>1, <3>2
  <2> HIDE DEF S
  <2>5. k \in S
    <3>1. S \in SUBSET Nat
      BY DEF S
    <3>2. S = Nat
      BY <2>3, <2>4, <3>1, NatSet
    <3> QED BY <3>2
  <2> QED BY <2>5 DEF S
<1>16. IsSds(f[m], h[m])
  <2>1. m \in 0 .. m
    BY <1>1
  <2> QED BY <1>15, <2>1
<1>17. Asserted(f[m], g[m]) = f[m]
  <2>1. f[m].len = g[m]
    BY ONLY <1>13, <1>16 DEF IsSds
  <2> QED BY <2>1 DEF Asserted
<1> QED BY <1>3, <1>4, <1>5, <1>6, <1>13, <1>16, <1>17

-----------------------------------------------------------------------------
(* The buffers of the Markdown parser.                                     *)

Bufs == [size : Nat, asize : Nat, unit : Nat, mem : Memory]
IsBuf(b, t) ==
    /\ b \in Bufs /\ b.unit > 0 /\ t \in Memory /\ Len(t) = b.size
    /\ b.size <= b.asize /\ Len(b.mem) = b.asize
    /\ \A i \in 1 .. Len(t) : b.mem[i] = t[i]

LEMMA BufFacts ==
    ASSUME NEW b, NEW t, IsBuf(b, t)
    PROVE  /\ b \in Bufs /\ b.size \in Nat /\ b.asize \in Nat /\ b.unit \in Nat /\ b.unit > 0
           /\ b.mem \in Memory /\ t \in Memory /\ Len(t) = b.size /\ b.size <= b.asize
           /\ Len(b.mem) = b.asize /\ \A i \in 1 .. b.size : b.mem[i] = t[i]
BY DEF IsBuf, Bufs

LEMMA BufIsKept == ASSUME NEW b, NEW t, IsBuf(b, t) PROVE HtmlKeeps(b, t)
<1>1. /\ b.size \in Nat /\ b.asize \in Nat /\ b.mem \in Memory /\ t \in Memory /\ Len(t) = b.size
      /\ b.size <= b.asize /\ Len(b.mem) = b.asize /\ \A i \in 1 .. b.size : b.mem[i] = t[i]
  BY BufFacts
<1>2. /\ Span(b.mem, 0, b.size) \in Memory /\ Len(Span(b.mem, 0, b.size)) = b.size
      /\ \A i \in 1 .. b.size : Span(b.mem, 0, b.size)[i] = b.mem[i]
  <2>1. 0 \in Nat /\ 0 <= b.size /\ b.size <= Len(b.mem)
    BY <1>1
  <2>2. /\ Span(b.mem, 0, b.size) \in Memory /\ Len(Span(b.mem, 0, b.size)) = b.size - 0
        /\ \A i \in 1 .. b.size - 0 : Span(b.mem, 0, b.size)[i] = b.mem[0 + i]
    BY ONLY <1>1, <2>1, SpanIs
  <2>3. b.size - 0 = b.size /\ \A i \in 1 .. b.size : 0 + i = i
    BY <1>1
  <2> QED BY <2>2, <2>3
<1>3. Span(b.mem, 0, b.size) = t
  BY ONLY <1>1, <1>2, Same
<1> QED BY <1>1, <1>3 DEF HtmlKeeps

\* The least of some numbers.
LEMMA LeastOf ==
    ASSUME NEW T \in SUBSET Nat, NEW x \in T
    PROVE  \E k \in T : \A j \in T : k <= j
<1> SUFFICES ASSUME \A k \in T : \E j \in T : ~(k <= j) PROVE FALSE
  OBVIOUS
<1> DEFINE S == {n \in Nat : \A k \in T : k > n}
           U == {n \in Nat : \A k \in T : k >= n}
<1>1. 0 \in U
  OBVIOUS
<1>2. ASSUME NEW n \in U PROVE n + 1 \in U
  <2>1. n \in Nat /\ \A k \in T : k >= n
    OBVIOUS
  <2>2. ASSUME NEW k \in T PROVE k >= n + 1
    <3>1. PICK j \in T : ~(k <= j)
      OBVIOUS
    <3>2. k \in Nat /\ j \in Nat /\ j >= n
      BY <2>1
    <3> QED BY <2>1, <3>1, <3>2
  <2> QED BY <2>1, <2>2
<1>3. x + 1 \in U
  <2>1. U \in SUBSET Nat
    OBVIOUS
  <2> HIDE DEF U
  <2>2. U = Nat
    BY <1>1, <1>2, <2>1, NatSet
  <2> QED BY <2>2
<1>4. x >= x + 1 /\ x \in Nat
  BY <1>3
<1> QED BY <1>4

\* A size of one unit more at least, and as many as are needed.
Sizes(f, b, n) == f = [k \in 0 .. n |-> IF k = 0 THEN b.asize ELSE f[k - 1] + b.unit]

LEMMA SizesExist ==
    ASSUME NEW b, NEW v \in Nat
    PROVE  \E f : Sizes(f, b, v)
<1> DEFINE S    == {n \in Nat : \E f : Sizes(f, b, n)}
           a    == b.asize
           N(x, k) == x + b.unit
<1>1. 0 \in S
  <2> HIDE DEF a, N
  <2>1. [k \in 0 .. 0 |-> a] = [k \in 0 .. 0 |-> IF k = 0 THEN a ELSE N([j \in 0 .. 0 |-> a][k - 1], k)]
    OBVIOUS
  <2>2. Sizes([k \in 0 .. 0 |-> a], b, 0)
    BY <2>1 DEF Sizes, a, N
  <2> QED BY <2>2
<1>2. ASSUME NEW n \in S PROVE n + 1 \in S
  <2>1. n \in Nat /\ \E f : Sizes(f, b, n)
    OBVIOUS
  <2>2. PICK f : Sizes(f, b, n)
    BY <2>1
  <2>3. f = [k \in 0 .. n |-> IF k = 0 THEN a ELSE N(f[k - 1], k)]
    BY <2>2 DEF Sizes
  <2> DEFINE g == [k \in 0 .. n + 1 |-> IF k = 0 THEN a ELSE N(f[k - 1], k)]
  <2> HIDE DEF a, N
  <2>4. ASSUME NEW k \in 0 .. n + 1, k # 0 PROVE g[k - 1] = f[k - 1]
    <3>1. k - 1 \in 0 .. n /\ k - 1 \in 0 .. n + 1
      BY <2>1, <2>4
    <3>2. PICK j \in 0 .. n : j = k - 1 /\ j \in 0 .. n + 1
      BY <3>1
    <3>3. f[j] = IF j = 0 THEN a ELSE N(f[j - 1], j)
      BY ONLY <2>3, j \in 0 .. n
    <3>4. g[j] = IF j = 0 THEN a ELSE N(f[j - 1], j)
      BY <3>2
    <3> HIDE DEF g
    <3> QED BY <3>2, <3>3, <3>4
  <2> HIDE DEF g
  <2>5. g = [k \in 0 .. n + 1 |-> IF k = 0 THEN a ELSE N(g[k - 1], k)]
    <3>1. g = [k \in 0 .. n + 1 |-> IF k = 0 THEN a ELSE N(f[k - 1], k)]
      BY DEF g
    <3> QED BY <2>4, <3>1
  <2>6. Sizes(g, b, n + 1)
    BY <2>5 DEF Sizes, a, N
  <2> QED BY <2>1, <2>6
<1> HIDE DEF S
<1>3. S = Nat
  <2>1. S \in SUBSET Nat
    BY DEF S
  <2> QED BY <1>1, <1>2, <2>1, NatSet
<1> QED BY <1>3 DEF S

LEMMA UnitsAre ==
    ASSUME NEW b \in Bufs, b.unit > 0, NEW n \in Nat
    PROVE  Units(b, n) \in Nat /\ Units(b, n) >= n
<1> DEFINE f == CHOOSE x : Sizes(x, b, n + 1)
           Enough(k) == f[k] >= n /\ (k = 1 \/ f[k - 1] < n)
           u == CHOOSE k \in 1 .. n + 1 : Enough(k)
<1>1. b.asize \in Nat /\ b.unit \in Nat
  BY DEF Bufs
<1>2. Sizes(f, b, n + 1)
  <2>1. \E x : Sizes(x, b, n + 1)
    BY SizesExist
  <2> QED BY <2>1
<1>3. Units(b, n) = f[u]
  BY DEF Units, Sizes
<1> HIDE DEF f
<1>4. \A k \in 0 .. n + 1 : f[k] = IF k = 0 THEN b.asize ELSE f[k - 1] + b.unit
  <2>1. f = [k \in 0 .. n + 1 |-> IF k = 0 THEN b.asize ELSE f[k - 1] + b.unit]
    BY <1>2 DEF Sizes
  <2> QED BY <2>1
<1> DEFINE S == {k \in Nat : k <= n + 1 => f[k] \in Nat /\ f[k] >= k}
<1>5. 0 \in S
  <2>1. f[0] = b.asize
    BY <1>4
  <2> QED BY <1>1, <2>1
<1>6. ASSUME NEW k \in S PROVE k + 1 \in S
  <2>1. k \in Nat /\ (k <= n + 1 => f[k] \in Nat /\ f[k] >= k)
    OBVIOUS
  <2>2. ASSUME k + 1 <= n + 1 PROVE f[k + 1] \in Nat /\ f[k + 1] >= k + 1
    <3>1. k <= n + 1 /\ k + 1 \in 0 .. n + 1 /\ k + 1 # 0 /\ k + 1 - 1 = k
      BY <2>1, <2>2
    <3>2. f[k + 1] = f[k] + b.unit
      <4>1. f[k + 1] = f[k + 1 - 1] + b.unit
        BY <1>4, <3>1
      <4> QED BY <3>1, <4>1
    <3> QED BY <1>1, <2>1, <3>1, <3>2
  <2> QED BY <2>1, <2>2
<1>7. \A k \in 0 .. n + 1 : f[k] \in Nat /\ f[k] >= k
  <2>1. S \in SUBSET Nat
    OBVIOUS
  <2> HIDE DEF S
  <2>2. S = Nat
    BY <1>5, <1>6, <2>1, NatSet
  <2>3. \A k \in 0 .. n + 1 : k \in S /\ k <= n + 1
    BY <2>2
  <2> QED BY <2>3 DEF S
<1>8. \E k \in 1 .. n + 1 : Enough(k)
  <2> DEFINE T == {k \in 1 .. n + 1 : f[k] >= n}
  <2>1. T \in SUBSET Nat /\ n + 1 \in T
    BY <1>7
  <2>2. PICK k \in T : \A j \in T : k <= j
    <3> HIDE DEF T
    <3> QED BY <2>1, LeastOf
  <2>3. k \in 1 .. n + 1 /\ f[k] >= n
    BY <2>2
  <2>4. ASSUME k # 1 PROVE f[k - 1] < n
    <3>1. k - 1 \in 1 .. n + 1 /\ k - 1 \in 0 .. n + 1 /\ ~(k <= k - 1)
      BY <2>3, <2>4
    <3>2. k - 1 \notin T
      BY <2>2, <3>1
    <3>3. f[k - 1] \in Nat /\ ~(f[k - 1] >= n)
      BY <1>7, <3>1, <3>2
    <3> QED BY <3>3
  <2> QED BY <2>3, <2>4
<1>9. u \in 1 .. n + 1 /\ Enough(u)
  <2> HIDE DEF Enough
  <2> QED BY <1>8
<1>10. u \in 0 .. n + 1 /\ f[u] >= n
  BY <1>9
<1> QED BY <1>3, <1>7, <1>10

LEMMA GrownIs ==
    ASSUME NEW b, NEW t, IsBuf(b, t), NEW n \in Nat
    PROVE  IsBuf(hoedown_buffer_grow(b, n), t) /\ hoedown_buffer_grow(b, n).asize >= n
<1> DEFINE a == Units(b, n)
           m == Realloc(b.mem, a)
           g == [b EXCEPT !.asize = a, !.mem = m]
<1>1. /\ b \in Bufs /\ b.size \in Nat /\ b.asize \in Nat /\ b.unit \in Nat /\ b.unit > 0
      /\ b.mem \in Memory /\ t \in Memory /\ Len(t) = b.size /\ b.size <= b.asize
      /\ Len(b.mem) = b.asize /\ \A i \in 1 .. b.size : b.mem[i] = t[i]
  BY BufFacts
<1>2. CASE b.asize >= n
  BY <1>2 DEF hoedown_buffer_grow
<1>3. CASE ~(b.asize >= n)
  <2>1. a \in Nat /\ a >= n
    BY <1>1, UnitsAre
  <2>2. hoedown_buffer_grow(b, n) = g
    BY <1>3 DEF hoedown_buffer_grow
  <2> HIDE DEF a
  <2>3. m \in Memory /\ Len(m) = a /\ \A i \in 1 .. a : i <= Len(b.mem) => m[i] = b.mem[i]
    BY <1>1, <2>1, ReallocIs
  <2>4. \A i \in 1 .. b.size : m[i] = t[i]
    <3>1. \A i \in 1 .. b.size : i \in 1 .. a /\ i <= Len(b.mem)
      BY <1>1, <1>3, <2>1
    <3> QED BY <1>1, <2>3, <3>1
  <2> HIDE DEF m
  <2>5. g \in Bufs /\ g.size = b.size /\ g.asize = a /\ g.unit = b.unit /\ g.mem = m
    BY <1>1, <2>1, <2>3 DEF Bufs
  <2> HIDE DEF g
  <2>6. b.size <= a
    BY <1>1, <1>3, <2>1
  <2> QED BY <1>1, <2>1, <2>2, <2>3, <2>4, <2>5, <2>6 DEF IsBuf
<1> QED BY <1>2, <1>3

\* What is written behind a text does not change it.
LEMMA WrittenBehind ==
    ASSUME NEW b, NEW t, IsBuf(b, t), NEW u \in Memory, b.size + Len(u) <= b.asize
    PROVE  /\ IsBuf([b EXCEPT !.mem = Wrote(@, b.size, u)], t)
           /\ [b EXCEPT !.mem = Wrote(@, b.size, u)].asize = b.asize
           /\ [b EXCEPT !.mem = Wrote(@, b.size, u)].size = b.size
           /\ \A i \in 1 .. Len(u) : [b EXCEPT !.mem = Wrote(@, b.size, u)].mem[b.size + i] = u[i]
<1> DEFINE m == Wrote(b.mem, b.size, u)
           g == [b EXCEPT !.mem = m]
<1>1. /\ b \in Bufs /\ b.size \in Nat /\ b.asize \in Nat /\ b.unit \in Nat /\ b.unit > 0
      /\ b.mem \in Memory /\ t \in Memory /\ Len(t) = b.size /\ b.size <= b.asize
      /\ Len(b.mem) = b.asize /\ \A i \in 1 .. b.size : b.mem[i] = t[i]
  BY BufFacts
<1>2. [b EXCEPT !.mem = Wrote(@, b.size, u)] = g
  OBVIOUS
<1>3. /\ m \in Memory /\ Len(m) = Len(b.mem) /\ \A i \in 1 .. b.size : m[i] = b.mem[i]
      /\ \A i \in 1 .. Len(u) : m[b.size + i] = u[i]
  <2>1. b.size + Len(u) <= Len(b.mem)
    BY <1>1
  <2> QED BY ONLY <1>1, <2>1, u \in Memory, WroteIs
<1> HIDE DEF m
<1>4. g \in Bufs /\ g.size = b.size /\ g.asize = b.asize /\ g.unit = b.unit /\ g.mem = m
  BY <1>1, <1>3 DEF Bufs
<1> HIDE DEF g
<1>5. IsBuf(g, t)
  BY <1>1, <1>3, <1>4 DEF IsBuf
<1> QED BY <1>2, <1>3, <1>4, <1>5

\* It becomes part of the text when the size says so.
LEMMA Taken ==
    ASSUME NEW b, NEW t, IsBuf(b, t), NEW u \in Memory, b.size + Len(u) <= b.asize,
           \A i \in 1 .. Len(u) : b.mem[b.size + i] = u[i]
    PROVE  IsBuf([b EXCEPT !.size = @ + Len(u)], t \o u)
<1>1. /\ b \in Bufs /\ b.size \in Nat /\ b.asize \in Nat /\ b.unit \in Nat /\ b.unit > 0
      /\ b.mem \in Memory /\ t \in Memory /\ Len(t) = b.size /\ b.size <= b.asize
      /\ Len(b.mem) = b.asize /\ \A i \in 1 .. b.size : b.mem[i] = t[i]
  BY BufFacts
<1>2. Len(u) \in Nat
  BY DEF Memory
<1>3. PICK n \in Nat : n = b.size + Len(u) /\ n <= b.asize
  BY <1>1, <1>2
<1> DEFINE g == [b EXCEPT !.size = n]
<1>4. [b EXCEPT !.size = @ + Len(u)] = g
  BY <1>3
<1>5. g \in Bufs /\ g.size = n /\ g.asize = b.asize /\ g.unit = b.unit /\ g.mem = b.mem
  BY ONLY <1>1, n \in Nat DEF Bufs
<1> HIDE DEF g
<1>6. t \o u \in Memory /\ Len(t \o u) = n
  <2>1. t \o u \in Memory /\ Len(t \o u) = Len(t) + Len(u)
    BY ONLY <1>1, u \in Memory, Joined
  <2> QED BY <1>1, <1>3, <2>1
<1>7. ASSUME NEW i \in 1 .. n PROVE b.mem[i] = (t \o u)[i]
  <2>1. (t \o u)[i] = IF i <= Len(t) THEN t[i] ELSE u[i - Len(t)]
    BY <1>1, <1>6, JoinedAt
  <2>2. CASE i <= Len(t)
    BY <1>1, <2>1, <2>2
  <2>3. CASE ~(i <= Len(t))
    <3>1. i - Len(t) \in 1 .. Len(u) /\ b.size + (i - Len(t)) = i
      BY <1>1, <1>2, <1>3, <2>3
    <3> QED BY <2>1, <2>3, <3>1
  <2> QED BY <2>2, <2>3
<1>8. IsBuf(g, t \o u)
  BY ONLY <1>1, <1>3, <1>5, <1>6, <1>7 DEF IsBuf
<1> QED BY <1>4, <1>8

LEMMA PutIntoIs ==
    ASSUME NEW b, NEW t, IsBuf(b, t), NEW u \in Memory, b.size + Len(u) <= b.asize
    PROVE  IsBuf(PutInto(b, u), t \o u)
<1> DEFINE g == [b EXCEPT !.mem = Wrote(@, b.size, u)]
<1>1. /\ IsBuf(g, t) /\ g.asize = b.asize /\ g.size = b.size
      /\ \A i \in 1 .. Len(u) : g.mem[b.size + i] = u[i]
  BY WrittenBehind
<1>2. PutInto(b, u) = [g EXCEPT !.size = @ + Len(u)]
  <2>1. b \in Bufs
    BY DEF IsBuf
  <2> QED BY <2>1 DEF PutInto, Bufs
<1> HIDE DEF g
<1>3. /\ IsBuf(g, t) /\ g.size + Len(u) <= g.asize
      /\ \A i \in 1 .. Len(u) : g.mem[g.size + i] = u[i]
  BY <1>1
<1>4. IsBuf([g EXCEPT !.size = @ + Len(u)], t \o u)
  BY ONLY <1>3, u \in Memory, Taken
<1> QED BY <1>2, <1>4

LEMMA PutIs ==
    ASSUME NEW b, NEW t, IsBuf(b, t), NEW u \in Memory
    PROVE  IsBuf(hoedown_buffer_put(b, u), t \o u)
<1>1. b.size \in Nat /\ Len(u) \in Nat /\ Len(t) = b.size
  BY BufFacts DEF Memory
<1>2. PICK n \in Nat : n = b.size + Len(u)
  BY <1>1
<1> DEFINE g == hoedown_buffer_grow(b, n)
<1>3. IsBuf(g, t) /\ g.asize >= n
  BY GrownIs
<1>4. hoedown_buffer_put(b, u) = PutInto(g, u)
  BY <1>2 DEF hoedown_buffer_put
<1> HIDE DEF g
<1>5. g.size = b.size /\ g.asize \in Nat
  BY <1>1, <1>3, BufFacts
<1>6. g.size + Len(u) <= g.asize
  BY <1>1, <1>2, <1>3, <1>5
<1> QED BY ONLY <1>3, <1>4, <1>6, u \in Memory, PutIntoIs

\* Room for one byte more.
LEMMA RoomForByte ==
    ASSUME NEW b, NEW t, IsBuf(b, t)
    PROVE  LET g == IF b.size >= b.asize THEN hoedown_buffer_grow(b, b.size + 1) ELSE b
           IN  IsBuf(g, t) /\ g.size + 1 <= g.asize
<1>1. /\ b.size \in Nat /\ b.asize \in Nat /\ Len(t) = b.size
  BY BufFacts
<1>2. CASE b.size >= b.asize
  <2>1. PICK n \in Nat : n = b.size + 1
    BY <1>1
  <2> DEFINE g == hoedown_buffer_grow(b, n)
  <2>2. IsBuf(g, t) /\ g.asize >= n
    BY GrownIs
  <2> HIDE DEF g
  <2>3. g.size = b.size /\ g.asize \in Nat
    BY <1>1, <2>2, BufFacts
  <2>4. g.size + 1 <= g.asize
    BY <1>1, <2>1, <2>2, <2>3
  <2> QED BY <1>2, <2>1, <2>2, <2>4 DEF g
<1>3. CASE ~(b.size >= b.asize)
  BY <1>1, <1>3
<1> QED BY <1>2, <1>3

LEMMA PutcIs ==
    ASSUME NEW b, NEW t, IsBuf(b, t), NEW c \in Int
    PROVE  IsBuf(hoedown_buffer_putc(b, c), t \o <<c>>)
<1> DEFINE g == IF b.size >= b.asize THEN hoedown_buffer_grow(b, b.size + 1) ELSE b
           u == <<c>>
<1>1. IsBuf(g, t) /\ g.size + 1 <= g.asize
  BY RoomForByte
<1>2. u \in Memory /\ Len(u) = 1
  BY DEF Memory
<1>3. hoedown_buffer_putc(b, c) = PutInto(g, u)
  BY DEF hoedown_buffer_putc
<1> HIDE DEF g, u
<1>4. g.size + Len(u) <= g.asize
  BY <1>1, <1>2
<1>5. IsBuf(PutInto(g, u), t \o u)
  BY ONLY <1>1, <1>2, <1>4, PutIntoIs
<1> QED BY <1>3, <1>5 DEF u

LEMMA CutShortIs ==
    ASSUME NEW b, NEW t, IsBuf(b, t), NEW v \in Memory, b.size + 1 <= b.asize
    PROVE  /\ CutShort(b, v) \in Memory /\ b.size + Len(CutShort(b, v)) <= b.asize
           /\ Len(v) < b.asize - b.size =>
                 Len(CutShort(b, v)) = Len(v) + 1 /\ \A i \in 1 .. Len(v) : CutShort(b, v)[i] = v[i]
<1> DEFINE k == Least(Len(v), b.asize - b.size - 1)
           w == SubSeq(v, 1, k)
<1>1. b.size \in Nat /\ b.asize \in Nat /\ Len(v) \in Nat
  BY BufFacts DEF Memory
<1>2. /\ k \in Nat /\ k <= Len(v) /\ b.size + (k + 1) <= b.asize
      /\ Len(v) < b.asize - b.size => k = Len(v)
  BY <1>1 DEF Least
<1>3. CutShort(b, v) = Append(w, Nul)
  BY DEF CutShort
<1> HIDE DEF k
<1>4. w \in Memory /\ Len(w) = k /\ \A i \in 1 .. k : w[i] = v[i]
  <2>1. 0 \in Nat /\ 0 <= k /\ 0 + 1 = 1 /\ k - 0 = k /\ \A i \in 1 .. k : 0 + i = i
    BY <1>2
  <2>2. /\ SubSeq(v, 0 + 1, k) \in Memory /\ Len(SubSeq(v, 0 + 1, k)) = k - 0
        /\ \A i \in 1 .. k - 0 : SubSeq(v, 0 + 1, k)[i] = v[0 + i]
    BY ONLY <1>2, <2>1, v \in Memory, Part
  <2> QED BY <2>1, <2>2
<1> HIDE DEF w
<1>5. /\ Append(w, Nul) \in Memory /\ Len(Append(w, Nul)) = k + 1
      /\ \A i \in 1 .. k : Append(w, Nul)[i] = w[i]
  BY <1>2, <1>4 DEF Memory, Nul
<1> QED BY <1>2, <1>3, <1>4, <1>5

LEMMA FormattedIs ==
    ASSUME NEW b, NEW t, IsBuf(b, t), NEW v \in Memory, b.size + 1 <= b.asize
    PROVE  /\ IsBuf(Formatted(b, v), t) /\ Formatted(b, v).asize = b.asize
           /\ Formatted(b, v).size = b.size
           /\ Len(v) < b.asize - b.size =>
                 \A i \in 1 .. Len(v) : Formatted(b, v).mem[b.size + i] = v[i]
<1> DEFINE u == CutShort(b, v)
           g == [b EXCEPT !.mem = Wrote(@, b.size, u)]
<1>1. /\ u \in Memory /\ b.size + Len(u) <= b.asize
      /\ Len(v) < b.asize - b.size =>
            Len(u) = Len(v) + 1 /\ \A i \in 1 .. Len(v) : u[i] = v[i]
  BY CutShortIs
<1>2. Formatted(b, v) = g
  BY DEF Formatted
<1> HIDE DEF u
<1>3. /\ IsBuf(g, t) /\ g.asize = b.asize /\ g.size = b.size
      /\ \A i \in 1 .. Len(u) : g.mem[b.size + i] = u[i]
  BY <1>1, WrittenBehind
<1> HIDE DEF g
<1>4. ASSUME Len(v) < b.asize - b.size PROVE \A i \in 1 .. Len(v) : g.mem[b.size + i] = v[i]
  <2>1. Len(v) \in Nat /\ \A i \in 1 .. Len(v) : i \in 1 .. Len(u)
    BY <1>1, <1>4 DEF Memory
  <2> QED BY <1>1, <1>3, <1>4, <2>1
<1> QED BY <1>2, <1>3, <1>4

LEMMA PrintedIs ==
    ASSUME NEW b, NEW t, IsBuf(b, t), NEW v \in Memory, b.size + 1 <= b.asize
    PROVE  IsBuf(Printed(b, v), t \o v)
<1> DEFINE f == Formatted(b, v)
<1>1. b.size \in Nat /\ b.asize \in Nat /\ Len(v) \in Nat
  BY BufFacts DEF Memory
<1>2. /\ IsBuf(f, t) /\ f.asize = b.asize /\ f.size = b.size
      /\ Len(v) < b.asize - b.size => \A i \in 1 .. Len(v) : f.mem[b.size + i] = v[i]
  BY FormattedIs
<1>3. PICK x : /\ x = Grown(b, v) /\ IsBuf(x, t) /\ x.size + Len(v) <= x.asize
               /\ \A i \in 1 .. Len(v) : x.mem[x.size + i] = v[i]
  <2>1. CASE Len(v) >= b.asize - b.size
    <3>1. PICK n \in Nat : n = b.size + Len(v) + 1
      BY <1>1
    <3> DEFINE g == hoedown_buffer_grow(f, n)
               x == Formatted(g, v)
    <3> HIDE DEF f
    <3>2. IsBuf(g, t) /\ g.asize >= n
      BY <1>2, GrownIs
    <3>3. Grown(b, v) = x
      BY <2>1, <3>1 DEF Grown, f
    <3> HIDE DEF g
    <3>4. g.size = b.size /\ g.asize \in Nat
      BY <1>1, <1>2, <3>2, BufFacts
    <3>5. g.size + 1 <= g.asize /\ Len(v) < g.asize - g.size /\ g.size + Len(v) <= g.asize
      BY <1>1, <3>1, <3>2, <3>4
    <3>6. /\ IsBuf(x, t) /\ x.asize = g.asize /\ x.size = g.size
          /\ \A i \in 1 .. Len(v) : x.mem[g.size + i] = v[i]
      BY <3>2, <3>5, FormattedIs
    <3> HIDE DEF x
    <3> QED BY <3>3, <3>5, <3>6
  <2>2. CASE ~(Len(v) >= b.asize - b.size)
    <3>1. Grown(b, v) = f
      BY <2>2 DEF Grown
    <3> HIDE DEF f
    <3>2. Len(v) < b.asize - b.size /\ f.size + Len(v) <= f.asize
      BY <1>1, <1>2, <2>2
    <3> QED BY <1>2, <3>1, <3>2
  <2> QED BY <2>1, <2>2
<1>4. IsBuf([x EXCEPT !.size = @ + Len(v)], t \o v)
  BY ONLY <1>3, v \in Memory, Taken
<1>5. Printed(b, v) = [x EXCEPT !.size = @ + Len(v)]
  BY <1>3 DEF Printed
<1> QED BY <1>4, <1>5

LEMMA PrintfIs ==
    ASSUME NEW b, NEW t, IsBuf(b, t), NEW v \in Memory
    PROVE  IsBuf(hoedown_buffer_printf(b, v), t \o v)
<1> DEFINE g == IF b.size >= b.asize THEN hoedown_buffer_grow(b, b.size + 1) ELSE b
<1>1. IsBuf(g, t) /\ g.size + 1 <= g.asize
  BY RoomForByte
<1>2. hoedown_buffer_printf(b, v) = Printed(g, v)
  BY DEF hoedown_buffer_printf
<1> HIDE DEF g
<1> QED BY <1>1, <1>2, PrintedIs

\* A text without NUL, with one behind it, is what the caller takes.
LEMMA CstrIs ==
    ASSUME NEW b, NEW t, IsBuf(b, t)
    PROVE  LET c == hoedown_buffer_cstr(b) IN IsBuf(c, t) /\ c.size + 1 <= c.asize /\ c.mem[c.size + 1] = Nul
<1> DEFINE c == hoedown_buffer_cstr(b)
<1>1. b.size \in Nat /\ b.asize \in Nat
  BY BufFacts
<1>2. CASE HasNul(b)
  BY <1>1, <1>2 DEF HasNul, hoedown_buffer_cstr
<1>3. CASE ~HasNul(b)
  <2>1. PICK n \in Nat : n = b.size + 1
    BY <1>1
  <2> DEFINE g == hoedown_buffer_grow(b, n)
             u == <<Nul>>
             w == [g EXCEPT !.mem = Wrote(@, g.size, u)]
  <2>2. IsBuf(g, t) /\ g.asize >= n
    BY GrownIs
  <2>3. c = w
    BY <1>3, <2>1 DEF hoedown_buffer_cstr, WithNul
  <2>4. u \in Memory /\ Len(u) = 1 /\ u[1] = Nul
    BY DEF Memory, Nul
  <2> HIDE DEF g, u
  <2>5. g.size = b.size /\ g.asize \in Nat
    BY <1>1, <2>2, BufFacts
  <2>6. g.size + Len(u) <= g.asize /\ g.size + 1 <= g.asize
    BY <1>1, <2>1, <2>2, <2>4, <2>5
  <2>7. /\ IsBuf(w, t) /\ w.asize = g.asize /\ w.size = g.size
        /\ \A i \in 1 .. Len(u) : w.mem[g.size + i] = u[i]
    BY ONLY <2>2, <2>4, <2>6, WrittenBehind
  <2> HIDE DEF w
  <2>8. w.mem[w.size + 1] = Nul
    BY <2>4, <2>7
  <2> QED BY <2>3, <2>6, <2>7, <2>8
<1> QED BY <1>2, <1>3

LEMMA TakenUpToNul ==
    ASSUME NEW b, NEW t, IsBuf(b, t), \A i \in 1 .. Len(t) : t[i] # Nul,
           b.size + 1 <= b.asize, b.mem[b.size + 1] = Nul
    PROVE  TextUpToNul(b) = t
<1>1. /\ b.size \in Nat /\ b.asize \in Nat /\ b.mem \in Memory /\ t \in Memory /\ Len(t) = b.size
      /\ Len(b.mem) = b.asize /\ \A i \in 1 .. b.size : b.mem[i] = t[i]
  BY BufFacts
<1>2. PICK e \in Nat : e = b.size + 1 /\ e - 1 = b.size
  BY <1>1
<1>3. DOMAIN b.mem = 1 .. b.asize
  BY <1>1 DEF Memory
<1>4. e \in Nuls(b)
  BY <1>1, <1>2, <1>3 DEF Nuls
<1>5. ASSUME NEW k \in Nuls(b) PROVE k \in Nat /\ e <= k
  <2>1. k \in 1 .. b.asize /\ b.mem[k] = Nul
    BY <1>3 DEF Nuls
  <2>2. ~(k \in 1 .. b.size)
    BY <1>1, <2>1
  <2> QED BY <1>1, <1>2, <2>1, <2>2
<1> DEFINE First(k) == \A j \in Nuls(b) : k <= j
           f == CHOOSE k \in Nuls(b) : First(k)
<1>6. First(e)
  BY <1>5
<1>7. f \in Nuls(b) /\ First(f)
  <2> HIDE DEF First
  <2> QED BY <1>4, <1>6
<1>8. f = e
  <2>1. f <= e /\ e <= f /\ f \in Nat
    BY <1>4, <1>5, <1>7
  <2> HIDE DEF f
  <2> QED BY <2>1
<1>9. TextUpToNul(b) = Span(b.mem, 0, f - 1)
  BY <1>4 DEF TextUpToNul
<1> HIDE DEF f
<1>10. Span(b.mem, 0, b.size) = t
  BY BufIsKept DEF HtmlKeeps
<1> QED BY <1>2, <1>8, <1>9, <1>10

-----------------------------------------------------------------------------
(* The stack of the JSON parser.                                           *)

JsonStacks == [top : Nat, end : Nat, mem : Memory]
IsStack(s, t) ==
    /\ s \in JsonStacks /\ t \in Memory /\ Len(t) = s.top
    /\ s.top <= s.end /\ Len(s.mem) = s.end
    /\ \A i \in 1 .. Len(t) : s.mem[i] = t[i]

LEMMA StackFacts ==
    ASSUME NEW s, NEW t, IsStack(s, t)
    PROVE  /\ s \in JsonStacks /\ s.top \in Nat /\ s.end \in Nat /\ s.mem \in Memory /\ t \in Memory
           /\ Len(t) = s.top /\ s.top <= s.end /\ Len(s.mem) = s.end
           /\ \A i \in 1 .. s.top : s.mem[i] = t[i]
BY DEF IsStack, JsonStacks

LEMMA CapacityIs ==
    ASSUME NEW s, NEW t, IsStack(s, t), NEW n \in Nat
    PROVE  Capacity(s, n) \in Nat /\ Capacity(s, n) >= s.top + n
<1>1. s.top \in Nat /\ s.end \in Nat /\ StackCapacity \in Nat
  BY StackFacts, BufferAssumption
<1>2. (s.end + 1) \div 2 \in Nat
  BY <1>1
<1>3. PICK w \in Nat : w = IF s.end = 0 THEN StackCapacity ELSE s.end + (s.end + 1) \div 2
  BY <1>1, <1>2
<1>4. Capacity(s, n) = IF w < s.top + n THEN s.top + n ELSE w
  BY <1>3 DEF Capacity
<1> QED BY <1>1, <1>4

LEMMA ExpandIs ==
    ASSUME NEW s, NEW t, IsStack(s, t), NEW n \in Nat
    PROVE  IsStack(Expand(s, n), t) /\ s.top + n <= Expand(s, n).end /\ Expand(s, n).top = s.top
<1> DEFINE c == Capacity(s, n)
           m == Realloc(s.mem, c)
           g == [s EXCEPT !.mem = m, !.end = c]
<1>1. /\ s \in JsonStacks /\ s.top \in Nat /\ s.end \in Nat /\ s.mem \in Memory /\ t \in Memory
      /\ Len(t) = s.top /\ s.top <= s.end /\ Len(s.mem) = s.end
      /\ \A i \in 1 .. s.top : s.mem[i] = t[i]
  BY StackFacts
<1>2. c \in Nat /\ c >= s.top + n
  BY CapacityIs
<1>3. Expand(s, n) = g
  BY DEF Expand
<1> HIDE DEF c
<1>4. m \in Memory /\ Len(m) = c /\ \A i \in 1 .. c : i <= Len(s.mem) => m[i] = s.mem[i]
  BY <1>1, <1>2, ReallocIs
<1>5. \A i \in 1 .. s.top : m[i] = t[i]
  <2>1. \A i \in 1 .. s.top : i \in 1 .. c /\ i <= Len(s.mem)
    BY <1>1, <1>2
  <2> QED BY <1>1, <1>4, <2>1
<1> HIDE DEF m
<1>6. g \in JsonStacks /\ g.top = s.top /\ g.end = c /\ g.mem = m
  BY <1>1, <1>2, <1>4 DEF JsonStacks
<1> HIDE DEF g
<1>7. s.top <= c
  BY <1>1, <1>2
<1> QED BY <1>1, <1>2, <1>3, <1>4, <1>5, <1>6, <1>7 DEF IsStack

LEMMA JsonPushedIs ==
    ASSUME NEW s, NEW t, IsStack(s, t), NEW u \in Memory, s.top + Len(u) <= s.end
    PROVE  IsStack(JsonPushed(s, u), t \o u)
<1> DEFINE m == Wrote(s.mem, s.top, u)
<1>1. /\ s \in JsonStacks /\ s.top \in Nat /\ s.end \in Nat /\ s.mem \in Memory /\ t \in Memory
      /\ Len(t) = s.top /\ s.top <= s.end /\ Len(s.mem) = s.end
      /\ \A i \in 1 .. s.top : s.mem[i] = t[i]
  BY StackFacts
<1>2. Len(u) \in Nat
  BY DEF Memory
<1>3. PICK n \in Nat : n = s.top + Len(u) /\ n <= s.end
  BY <1>1, <1>2
<1>4. /\ m \in Memory /\ Len(m) = Len(s.mem) /\ \A i \in 1 .. s.top : m[i] = s.mem[i]
      /\ \A i \in 1 .. Len(u) : m[s.top + i] = u[i]
  <2>1. s.top + Len(u) <= Len(s.mem)
    BY <1>1
  <2> QED BY ONLY <1>1, <2>1, u \in Memory, WroteIs
<1> DEFINE g == [s EXCEPT !.mem = m, !.top = n]
<1>5. JsonPushed(s, u) = g
  BY <1>1, <1>3 DEF JsonPushed, JsonStacks
<1> HIDE DEF m
<1>6. g \in JsonStacks /\ g.top = n /\ g.end = s.end /\ g.mem = m
  BY ONLY <1>1, <1>4, n \in Nat DEF JsonStacks
<1> HIDE DEF g
<1>7. t \o u \in Memory /\ Len(t \o u) = n
  <2>1. t \o u \in Memory /\ Len(t \o u) = Len(t) + Len(u)
    BY ONLY <1>1, u \in Memory, Joined
  <2> QED BY <1>1, <1>3, <2>1
<1>8. ASSUME NEW i \in 1 .. n PROVE m[i] = (t \o u)[i]
  <2>1. (t \o u)[i] = IF i <= Len(t) THEN t[i] ELSE u[i - Len(t)]
    BY <1>1, <1>7, JoinedAt
  <2>2. CASE i <= Len(t)
    BY <1>1, <1>4, <2>1, <2>2
  <2>3. CASE ~(i <= Len(t))
    <3>1. i - Len(t) \in 1 .. Len(u) /\ s.top + (i - Len(t)) = i
      BY <1>1, <1>2, <1>3, <2>3
    <3> QED BY <1>4, <2>1, <2>3, <3>1
  <2> QED BY <2>2, <2>3
<1>9. IsStack(g, t \o u)
  BY ONLY <1>1, <1>3, <1>4, <1>6, <1>7, <1>8 DEF IsStack
<1> QED BY <1>5, <1>9

LEMMA PushIs ==
    ASSUME NEW s, NEW t, IsStack(s, t), NEW u \in Memory
    PROVE  IsStack(Push(s, u), t \o u)
<1> DEFINE g == IF s.top + Len(u) >= s.end THEN Expand(s, Len(u)) ELSE s
<1>1. Len(u) \in Nat /\ s.top \in Nat /\ s.end \in Nat
  BY StackFacts DEF Memory
<1>2. IsStack(g, t) /\ g.top + Len(u) <= g.end
  <2>1. CASE s.top + Len(u) >= s.end
    BY <1>1, <2>1, ExpandIs
  <2>2. CASE ~(s.top + Len(u) >= s.end)
    BY <1>1, <2>2
  <2> QED BY <2>1, <2>2
<1>3. Push(s, u) = JsonPushed(g, u)
  BY DEF Push
<1> HIDE DEF g
<1> QED BY <1>2, <1>3, JsonPushedIs

\* The first bytes of a text.
LEMMA FirstAre ==
    ASSUME NEW t \in Memory, NEW k \in Nat, k <= Len(t)
    PROVE  /\ Span(t, 0, k) \in Memory /\ Len(Span(t, 0, k)) = k
           /\ \A i \in 1 .. k : Span(t, 0, k)[i] = t[i]
<1>1. 0 \in Nat /\ 0 <= k /\ k - 0 = k /\ \A i \in 1 .. k : 0 + i = i
  OBVIOUS
<1>2. /\ Span(t, 0, k) \in Memory /\ Len(Span(t, 0, k)) = k - 0
      /\ \A i \in 1 .. k - 0 : Span(t, 0, k)[i] = t[0 + i]
  BY ONLY <1>1, t \in Memory, k \in Nat, k <= Len(t), SpanIs
<1> QED BY <1>1, <1>2

LEMMA PopIs ==
    ASSUME NEW s, NEW t, IsStack(s, t), NEW n \in Nat, n <= Len(t)
    PROVE  IsStack(Pop(s, n), Span(t, 0, Len(t) - n))
<1>1. /\ s \in JsonStacks /\ s.top \in Nat /\ s.end \in Nat /\ s.mem \in Memory /\ t \in Memory
      /\ Len(t) = s.top /\ s.top <= s.end /\ Len(s.mem) = s.end
      /\ \A i \in 1 .. s.top : s.mem[i] = t[i]
  BY StackFacts
<1>2. PICK k \in Nat : k = s.top - n /\ k = Len(t) - n /\ k <= Len(t) /\ k <= s.end
  BY <1>1
<1> DEFINE g == [s EXCEPT !.top = k]
<1>3. Pop(s, n) = g
  BY <1>2 DEF Pop
<1>4. g \in JsonStacks /\ g.top = k /\ g.end = s.end /\ g.mem = s.mem
  BY ONLY <1>1, k \in Nat DEF JsonStacks
<1> HIDE DEF g
<1>5. /\ Span(t, 0, k) \in Memory /\ Len(Span(t, 0, k)) = k
      /\ \A i \in 1 .. k : Span(t, 0, k)[i] = t[i]
  BY <1>1, <1>2, FirstAre
<1>6. \A i \in 1 .. k : s.mem[i] = t[i]
  BY <1>1, <1>2
<1>7. IsStack(g, Span(t, 0, k))
  BY ONLY <1>1, <1>2, <1>4, <1>5, <1>6 DEF IsStack
<1> QED BY <1>2, <1>3, <1>7

LEMMA StackIsKept ==
    ASSUME NEW s, NEW t, IsStack(s, t)
    PROVE  Span(s.mem, 0, s.top) = t /\ Len(s.mem) = s.end
<1>1. /\ s.top \in Nat /\ s.mem \in Memory /\ t \in Memory /\ Len(t) = s.top
      /\ s.top <= Len(s.mem) /\ Len(s.mem) = s.end /\ \A i \in 1 .. s.top : s.mem[i] = t[i]
  BY StackFacts
<1>2. /\ Span(s.mem, 0, s.top) \in Memory /\ Len(Span(s.mem, 0, s.top)) = s.top
      /\ \A i \in 1 .. s.top : Span(s.mem, 0, s.top)[i] = s.mem[i]
  BY <1>1, FirstAre
<1>3. Span(s.mem, 0, s.top) = t
  BY ONLY <1>1, <1>2, Same
<1> QED BY <1>1, <1>3

-----------------------------------------------------------------------------
(* The reader of replies: what it has not used is behind what it has.      *)

IsReader(r, t) ==
    /\ r \in [buf : SdsType, pos : Nat, len : Nat]
    /\ r.len = r.buf.len /\ Ended(r.buf)
    /\ \E all \in Memory : IsSds(r.buf, all) /\ Behind(t, all, r.pos)

LEMMA BehindFacts ==
    ASSUME NEW t, NEW all \in Memory, NEW a, Behind(t, all, a)
    PROVE  /\ t \in Memory /\ a \in Nat /\ Len(t) \in Nat /\ Len(all) \in Nat
           /\ Len(all) = a + Len(t) /\ \A i \in 1 .. Len(t) : t[i] = all[a + i]
<1>1. t \in Memory /\ a \in Nat /\ Len(all) = a + Len(t) /\ \A i \in 1 .. Len(t) : t[i] = all[a + i]
  BY DEF Behind
<1>2. Len(t) \in Nat /\ Len(all) \in Nat
  BY <1>1 DEF Memory
<1> QED BY <1>1, <1>2

LEMMA BehindGrows ==
    ASSUME NEW t, NEW all \in Memory, NEW a, Behind(t, all, a), NEW u \in Memory
    PROVE  Behind(t \o u, all \o u, a)
<1>1. /\ t \in Memory /\ a \in Nat /\ Len(t) \in Nat /\ Len(all) \in Nat /\ Len(u) \in Nat
      /\ Len(all) = a + Len(t) /\ \A i \in 1 .. Len(t) : t[i] = all[a + i]
  BY BehindFacts DEF Memory
<1>2. t \o u \in Memory /\ Len(t \o u) = Len(t) + Len(u)
  BY ONLY <1>1, u \in Memory, Joined
<1>3. all \o u \in Memory /\ Len(all \o u) = Len(all) + Len(u)
  BY ONLY all \in Memory, u \in Memory, Joined
<1>4. Len(all \o u) = a + Len(t \o u)
  BY <1>1, <1>2, <1>3
<1>5. ASSUME NEW i \in 1 .. Len(t \o u) PROVE (t \o u)[i] = (all \o u)[a + i]
  <2>1. PICK j \in 1 .. Len(all \o u) : j = a + i
    BY <1>1, <1>2, <1>3
  <2>2. (t \o u)[i] = IF i <= Len(t) THEN t[i] ELSE u[i - Len(t)]
    BY <1>1, <1>2, JoinedAt
  <2>3. (all \o u)[j] = IF j <= Len(all) THEN all[j] ELSE u[j - Len(all)]
    BY <1>3, JoinedAt
  <2>4. CASE i <= Len(t)
    <3>1. i \in 1 .. Len(t) /\ j <= Len(all)
      BY <1>1, <1>2, <2>1, <2>4
    <3> QED BY <1>1, <2>1, <2>2, <2>3, <2>4, <3>1
  <2>5. CASE ~(i <= Len(t))
    <3>1. ~(j <= Len(all)) /\ i - Len(t) = j - Len(all)
      BY <1>1, <1>2, <2>1, <2>5
    <3> QED BY <2>1, <2>2, <2>3, <2>5, <3>1
  <2> QED BY <2>4, <2>5
<1> QED BY <1>1, <1>2, <1>4, <1>5 DEF Behind

LEMMA BehindMoves ==
    ASSUME NEW t, NEW all \in Memory, NEW a, Behind(t, all, a), NEW n \in Nat, n <= Len(t)
    PROVE  Behind(Span(t, n, Len(t)), all, a + n)
<1>1. /\ t \in Memory /\ a \in Nat /\ Len(t) \in Nat /\ Len(all) = a + Len(t)
      /\ \A i \in 1 .. Len(t) : t[i] = all[a + i]
  BY BehindFacts
<1> DEFINE u == Span(t, n, Len(t))
<1>2. Behind(u, t, n)
  BY <1>1, SpanIsBehind
<1> HIDE DEF u
<1>3. /\ u \in Memory /\ Len(u) \in Nat /\ Len(t) = n + Len(u)
      /\ \A i \in 1 .. Len(u) : u[i] = t[n + i]
  BY <1>1, <1>2, BehindFacts
<1>4. ASSUME NEW i \in 1 .. Len(u) PROVE u[i] = all[(a + n) + i]
  <2>1. PICK j \in 1 .. Len(t) : j = n + i /\ a + j = (a + n) + i
    BY <1>1, <1>3
  <2> QED BY <1>1, <1>3, <2>1
<1>5. a + n \in Nat /\ Len(all) = (a + n) + Len(u)
  BY <1>1, <1>3
<1> QED BY <1>3, <1>4, <1>5 DEF Behind, u

LEMMA NewReaderIs == IsReader(NewReader, <<>>)
<1>1. IsSds(sdsempty, <<>>) /\ Ended(sdsempty) /\ <<>> \in Memory /\ Len(<<>>) = 0
  BY EmptyIs
<1>2. sdsempty \in SdsType /\ sdsempty.len = 0
  BY <1>1 DEF IsSds
<1>3. Behind(<<>>, <<>>, 0)
  BY <1>1 DEF Behind
<1> QED BY <1>1, <1>2, <1>3 DEF IsReader, NewReader

LEMMA FeedIs ==
    ASSUME NEW r, NEW t, IsReader(r, t), NEW u \in Memory
    PROVE  IsReader(redisReaderFeed(r, u), t \o u)
<1> DEFINE e == FedTo(r)
<1>1. IsReader(e, t)
  <2>1. CASE r.len = 0 /\ r.buf.free > READER_MAX_BUF
    <3>1. PICK all \in Memory : IsSds(r.buf, all) /\ Behind(t, all, r.pos)
      BY DEF IsReader
    <3>2. Len(all) = 0
      BY <2>1, <3>1 DEF IsSds, IsReader
    <3>3. t \in Memory /\ Len(t) = 0
      <4>1. t \in Memory /\ r.pos \in Nat /\ Len(t) \in Nat /\ Len(all) = r.pos + Len(t)
        BY <3>1, BehindFacts
      <4> QED BY ONLY <4>1, <3>2
    <3>4. t = <<>>
      BY <3>3 DEF Memory
    <3> QED BY <2>1, <3>4, NewReaderIs DEF FedTo
  <2>2. CASE ~(r.len = 0 /\ r.buf.free > READER_MAX_BUF)
    BY <2>2 DEF FedTo
  <2> QED BY <2>1, <2>2
<1>2. redisReaderFeed(r, u) = Fed(e, u)
  BY DEF redisReaderFeed
<1> HIDE DEF e
<1>3. PICK all \in Memory : IsSds(e.buf, all) /\ Behind(t, all, e.pos)
  BY <1>1 DEF IsReader
<1> DEFINE b == sdscatlen(e.buf, u)
<1>4. IsSds(b, all \o u) /\ Ended(b)
  BY <1>3, SdsIsAdded
<1>5. Fed(e, u) = [e EXCEPT !.buf = b, !.len = b.len]
  BY DEF Fed
<1> HIDE DEF b
<1>6. b \in SdsType /\ b.len \in Nat /\ all \o u \in Memory
  BY <1>4 DEF IsSds, SdsType
<1>7. Behind(t \o u, all \o u, e.pos)
  BY <1>3, BehindGrows
<1>8. e \in [buf : SdsType, pos : Nat, len : Nat]
  BY <1>1 DEF IsReader
<1> DEFINE f == [e EXCEPT !.buf = b, !.len = b.len]
<1>9. f \in [buf : SdsType, pos : Nat, len : Nat] /\ f.buf = b /\ f.len = b.len /\ f.pos = e.pos
  BY ONLY <1>6, <1>8
<1> HIDE DEF f
<1>10. IsReader(f, t \o u)
  BY <1>4, <1>6, <1>7, <1>9 DEF IsReader
<1> QED BY <1>2, <1>5, <1>10 DEF f

LEMMA ReplyIsTaken ==
    ASSUME NEW r, NEW t, IsReader(r, t), NEW n \in Nat, n <= Len(t)
    PROVE  IsReader(redisReaderGetReply([r EXCEPT !.pos = @ + n]), Span(t, n, Len(t)))
<1> DEFINE u == Span(t, n, Len(t))
<1>1. r \in [buf : SdsType, pos : Nat, len : Nat] /\ r.len = r.buf.len /\ Ended(r.buf)
  BY DEF IsReader
<1>2. PICK all \in Memory : IsSds(r.buf, all) /\ Behind(t, all, r.pos)
  BY DEF IsReader
<1>3. PICK p \in Nat : p = r.pos + n
  BY <1>1
<1>4. Behind(u, all, p)
  BY <1>2, <1>3, BehindMoves
<1> HIDE DEF u
<1> DEFINE e == [r EXCEPT !.pos = p]
<1>5. [r EXCEPT !.pos = @ + n] = e
  BY <1>3
<1>6. /\ e \in [buf : SdsType, pos : Nat, len : Nat]
      /\ e.buf = r.buf /\ e.len = r.len /\ e.pos = p
  BY ONLY <1>1, p \in Nat
<1> HIDE DEF e
<1>7. CASE e.pos >= Discarded
  <2> DEFINE b == sdsrange(e.buf, e.pos, -1)
             f == [buf |-> b, pos |-> 0, len |-> b.len]
  <2>1. redisReaderGetReply(e) = f
    BY <1>7 DEF redisReaderGetReply, Rest
  <2>2. IsSds(b, u) /\ Ended(b)
    BY <1>1, <1>2, <1>4, <1>6, RangeIs
  <2> HIDE DEF b
  <2>3. b \in SdsType /\ b.len \in Nat /\ u \in Memory /\ Len(u) = b.len
    BY <2>2 DEF IsSds, SdsType
  <2>4. Behind(u, u, 0)
    <3>1. \A i \in 1 .. Len(u) : 0 + i = i
      OBVIOUS
    <3>2. Len(u) = 0 + Len(u)
      BY <2>3
    <3> QED BY <2>3, <3>1, <3>2 DEF Behind
  <2>5. f \in [buf : SdsType, pos : Nat, len : Nat] /\ f.buf = b /\ f.len = b.len /\ f.pos = 0
    BY <2>3
  <2> HIDE DEF f
  <2> QED BY <1>5, <2>1, <2>2, <2>3, <2>4, <2>5 DEF IsReader, u
<1>8. CASE ~(e.pos >= Discarded)
  <2>1. redisReaderGetReply(e) = e
    BY <1>8 DEF redisReaderGetReply
  <2>2. IsReader(e, u)
    BY <1>1, <1>2, <1>4, <1>6 DEF IsReader
  <2> QED BY <1>5, <2>1, <2>2 DEF u
<1> QED BY <1>7, <1>8

LEMMA ReaderIsKept ==
    ASSUME NEW r, NEW t, IsReader(r, t)
    PROVE  /\ SdsKeeps(r.buf, Span(r.buf.mem, 0, r.len))
           /\ Span(r.buf.mem, r.pos, r.len) = t
<1>1. r.len = r.buf.len /\ Ended(r.buf) /\ r.pos \in Nat
  BY DEF IsReader
<1>2. PICK all \in Memory : IsSds(r.buf, all) /\ Behind(t, all, r.pos)
  BY DEF IsReader
<1>3. SdsKeeps(r.buf, all)
  BY <1>1, <1>2, SdsIsKept
<1>4. Span(r.buf.mem, 0, r.len) = all
  BY <1>1, <1>3 DEF SdsKeeps
<1>5. /\ t \in Memory /\ Len(t) \in Nat /\ Len(all) = r.pos + Len(t)
      /\ \A i \in 1 .. Len(t) : t[i] = all[r.pos + i]
  BY <1>2, BehindFacts
<1>6. /\ r.buf.mem \in Memory /\ Len(all) = r.len /\ r.len \in Nat /\ r.len <= Len(r.buf.mem)
      /\ \A i \in 1 .. Len(all) : r.buf.mem[i] = all[i]
  BY <1>1, <1>2 DEF IsSds, SdsType
<1>7. /\ Span(r.buf.mem, r.pos, r.len) \in Memory /\ Len(Span(r.buf.mem, r.pos, r.len)) = r.len - r.pos
      /\ \A i \in 1 .. r.len - r.pos : Span(r.buf.mem, r.pos, r.len)[i] = r.buf.mem[r.pos + i]
  <2>1. r.pos <= r.len
    BY <1>1, <1>5, <1>6
  <2> QED BY ONLY <1>1, <1>6, <2>1, SpanIs
<1> DEFINE w == Span(r.buf.mem, r.pos, r.len)
<1>8. r.len - r.pos = Len(t)
  BY <1>1, <1>5, <1>6
<1>9. w \in Memory /\ Len(w) = Len(t) /\ \A i \in 1 .. Len(t) : w[i] = r.buf.mem[r.pos + i]
  BY <1>7, <1>8
<1> HIDE DEF w
<1>10. ASSUME NEW i \in 1 .. Len(t) PROVE w[i] = t[i]
  <2>1. r.pos + i \in 1 .. Len(all)
    BY <1>1, <1>5
  <2> QED BY <1>5, <1>6, <1>9, <2>1
<1>11. w = t
  BY ONLY <1>5, <1>9, <1>10, Same
<1> QED BY <1>3, <1>4, <1>11 DEF w

-----------------------------------------------------------------------------
(* The working buffers: those in use are below the top, and above it are   *)
(* those to be used again.                                                 *)

WorkStacks == [size : Nat, asize : Nat, item : Seq(Bufs)]
Usable(b) == b = NULL \/ \E t : IsBuf(b, t)
IsWork(st, h) ==
    /\ st \in WorkStacks /\ h \in Seq(Memory) /\ Len(h) = st.size
    /\ Len(st.item) = st.asize /\ st.asize > 0 /\ st.size <= st.asize
    /\ \A k \in 1 .. st.size : IsBuf(st.item[k], h[k])
    /\ \A k \in 1 .. st.asize : Usable(st.item[k])

LEMMA WorkFacts ==
    ASSUME NEW st, NEW h, IsWork(st, h)
    PROVE  /\ st \in WorkStacks /\ st.size \in Nat /\ st.asize \in Nat /\ st.item \in Seq(Bufs)
           /\ h \in Seq(Memory) /\ Len(h) = st.size
           /\ Len(st.item) = st.asize /\ st.asize > 0 /\ st.size <= st.asize
           /\ \A k \in 1 .. st.size : IsBuf(st.item[k], h[k])
           /\ \A k \in 1 .. st.asize : Usable(st.item[k])
BY DEF IsWork, WorkStacks

LEMMA WorkIsKept ==
    ASSUME NEW st, NEW h, IsWork(st, h)
    PROVE  Len(h) = st.size /\ \A k \in 1 .. Len(h) : HtmlKeeps(st.item[k], h[k])
<1>1. Len(h) = st.size /\ \A k \in 1 .. st.size : IsBuf(st.item[k], h[k])
  BY WorkFacts
<1>2. ASSUME NEW k \in 1 .. Len(h) PROVE HtmlKeeps(st.item[k], h[k])
  <2>1. IsBuf(st.item[k], h[k])
    BY <1>1
  <2> QED BY <2>1, BufIsKept
<1> QED BY <1>1, <1>2

LEMMA NoBuffer == NULL \in Bufs /\ NULL.unit = 0 /\ Usable(NULL)
<1>1. <<>> \in Memory
  BY EmptyIs
<1>2. NULL = [size |-> 0, asize |-> 0, unit |-> 0, mem |-> <<>>]
  BY DEF NULL, hoedown_buffer_new
<1>3. [size |-> 0, asize |-> 0, unit |-> 0, mem |-> <<>>] \in Bufs
  BY ONLY <1>1 DEF Bufs
<1> QED BY <1>2, <1>3 DEF Usable

LEMMA NewBufIs ==
    ASSUME NEW n \in Nat, n > 0
    PROVE  IsBuf(hoedown_buffer_new(n), <<>>)
<1> DEFINE b == [size |-> 0, asize |-> 0, unit |-> n, mem |-> <<>>]
<1>1. <<>> \in Memory /\ Len(<<>>) = 0
  BY EmptyIs
<1>2. b \in Bufs /\ b.unit = n /\ b.size = 0 /\ b.asize = 0 /\ b.mem = <<>>
  BY ONLY <1>1, n \in Nat DEF Bufs
<1>3. hoedown_buffer_new(n) = b
  BY DEF hoedown_buffer_new
<1> HIDE DEF b
<1> QED BY <1>1, <1>2, <1>3 DEF IsBuf

\* A buffer that is used again is empty.
LEMMA UsedAgain ==
    ASSUME NEW b, NEW t, IsBuf(b, t)
    PROVE  IsBuf([b EXCEPT !.size = 0], <<>>)
<1>1. /\ b \in Bufs /\ b.size \in Nat /\ b.asize \in Nat /\ b.unit \in Nat /\ b.unit > 0
      /\ b.mem \in Memory /\ Len(b.mem) = b.asize
  BY BufFacts
<1> DEFINE e == [b EXCEPT !.size = 0]
<1>2. e \in Bufs /\ e.size = 0 /\ e.asize = b.asize /\ e.unit = b.unit /\ e.mem = b.mem
  BY ONLY <1>1 DEF Bufs
<1> HIDE DEF e
<1>3. <<>> \in Memory /\ Len(<<>>) = 0
  BY EmptyIs
<1>4. IsBuf(e, <<>>)
  BY ONLY <1>1, <1>2, <1>3 DEF IsBuf
<1> QED BY <1>4 DEF e

\* What is on the stack after another is on it.
LEMMA OnTop ==
    ASSUME NEW h \in Seq(Memory), NEW t \in Memory
    PROVE  /\ Append(h, t) \in Seq(Memory) /\ Len(Append(h, t)) = Len(h) + 1
           /\ Append(h, t)[Len(h) + 1] = t
           /\ \A k \in 1 .. Len(h) : Append(h, t)[k] = h[k]
BY ONLY h \in Seq(Memory), t \in Memory, AppendProperties

LEMMA ItemPut ==
    ASSUME NEW S, NEW s \in Seq(S), NEW n \in 1 .. Len(s), NEW b \in S
    PROVE  /\ [s EXCEPT ![n] = b] \in Seq(S) /\ Len([s EXCEPT ![n] = b]) = Len(s)
           /\ [s EXCEPT ![n] = b][n] = b
           /\ \A k \in 1 .. Len(s) : k # n => [s EXCEPT ![n] = b][k] = s[k]
<1>1. /\ [s EXCEPT ![n] = b] \in Seq(S) /\ Len([s EXCEPT ![n] = b]) = Len(s)
      /\ \A k \in 1 .. Len(s) : [s EXCEPT ![n] = b][k] = IF k = n THEN b ELSE s[k]
  BY ExceptSeq
<1> DEFINE i == [s EXCEPT ![n] = b]
<1>2. i \in Seq(S) /\ Len(i) = Len(s) /\ \A k \in 1 .. Len(s) : i[k] = IF k = n THEN b ELSE s[k]
  BY <1>1
<1> HIDE DEF i
<1>3. i[n] = b
  BY <1>2
<1>4. \A k \in 1 .. Len(s) : k # n => i[k] = s[k]
  BY <1>2
<1> QED BY <1>2, <1>3, <1>4 DEF i

LEMMA StackPushedIs ==
    ASSUME NEW st, NEW h, IsWork(st, h), st.size < st.asize, NEW b, NEW t, IsBuf(b, t)
    PROVE  IsWork(StackPushed(st, b), Append(h, t))
<1>1. /\ st \in WorkStacks /\ st.size \in Nat /\ st.asize \in Nat /\ st.item \in Seq(Bufs)
      /\ h \in Seq(Memory) /\ Len(h) = st.size
      /\ Len(st.item) = st.asize /\ st.asize > 0 /\ st.size <= st.asize
      /\ \A k \in 1 .. st.size : IsBuf(st.item[k], h[k])
      /\ \A k \in 1 .. st.asize : Usable(st.item[k])
  BY WorkFacts
<1>2. b \in Bufs /\ t \in Memory
  BY BufFacts
<1>3. PICK n \in 1 .. Len(st.item) : n = st.size + 1
  BY <1>1
<1> DEFINE i == [st.item EXCEPT ![n] = b]
           g == [st EXCEPT !.item = i, !.size = n]
<1>4. /\ i \in Seq(Bufs) /\ Len(i) = Len(st.item) /\ i[n] = b
      /\ \A k \in 1 .. Len(st.item) : k # n => i[k] = st.item[k]
  <2>1. st.item \in Seq(Bufs) /\ b \in Bufs /\ n \in 1 .. Len(st.item)
    BY <1>1, <1>2, <1>3
  <2> QED BY ONLY <2>1, ItemPut
<1>5. StackPushed(st, b) = g
  BY <1>3 DEF StackPushed
<1> HIDE DEF i
<1>6. g \in WorkStacks /\ g.item = i /\ g.size = n /\ g.asize = st.asize
  <2>1. n \in Nat
    BY <1>1, <1>3
  <2> QED BY ONLY <1>1, <1>4, <2>1 DEF WorkStacks
<1> HIDE DEF g
<1>7. /\ Append(h, t) \in Seq(Memory) /\ Len(Append(h, t)) = Len(h) + 1
      /\ Append(h, t)[Len(h) + 1] = t
      /\ \A k \in 1 .. Len(h) : Append(h, t)[k] = h[k]
  BY ONLY <1>1, <1>2, OnTop
<1>8. ASSUME NEW k \in 1 .. n PROVE IsBuf(i[k], Append(h, t)[k])
  <2>1. CASE k = n
    BY <1>1, <1>3, <1>4, <1>7, <2>1
  <2>2. CASE k # n
    <3>1. k \in 1 .. st.size /\ k \in 1 .. Len(h) /\ k \in 1 .. Len(st.item)
      BY <1>1, <1>3, <2>2
    <3> QED BY <1>1, <1>4, <1>7, <2>2, <3>1
  <2> QED BY <2>1, <2>2
<1>9. ASSUME NEW k \in 1 .. st.asize PROVE Usable(i[k])
  <2>1. CASE k = n
    BY <1>4, <2>1 DEF Usable
  <2>2. CASE k # n
    BY <1>1, <1>4, <2>2
  <2> QED BY <2>1, <2>2
<1>10. Len(Append(h, t)) = n /\ n <= st.asize
  BY <1>1, <1>3, <1>7
<1> QED BY <1>1, <1>4, <1>5, <1>6, <1>7, <1>8, <1>9, <1>10 DEF IsWork

\* Another buffer in the place of one in use, with another text.
LEMMA ItemIsReplaced ==
    ASSUME NEW st, NEW h, IsWork(st, h), NEW n \in 1 .. st.size, NEW b, NEW t, IsBuf(b, t)
    PROVE  IsWork([st EXCEPT !.item = [st.item EXCEPT ![n] = b]], [h EXCEPT ![n] = t])
<1>1. /\ st \in WorkStacks /\ st.size \in Nat /\ st.asize \in Nat /\ st.item \in Seq(Bufs)
      /\ h \in Seq(Memory) /\ Len(h) = st.size
      /\ Len(st.item) = st.asize /\ st.asize > 0 /\ st.size <= st.asize
      /\ \A k \in 1 .. st.size : IsBuf(st.item[k], h[k])
      /\ \A k \in 1 .. st.asize : Usable(st.item[k])
  BY WorkFacts
<1>2. b \in Bufs /\ t \in Memory
  BY BufFacts
<1>3. n \in 1 .. Len(st.item) /\ n \in 1 .. Len(h)
  BY <1>1
<1> DEFINE i == [st.item EXCEPT ![n] = b]
           f == [h EXCEPT ![n] = t]
           g == [st EXCEPT !.item = i]
<1>4. /\ i \in Seq(Bufs) /\ Len(i) = Len(st.item) /\ i[n] = b
      /\ \A k \in 1 .. Len(st.item) : k # n => i[k] = st.item[k]
  <2>1. st.item \in Seq(Bufs) /\ b \in Bufs /\ n \in 1 .. Len(st.item)
    BY <1>1, <1>2, <1>3
  <2> QED BY ONLY <2>1, ItemPut
<1>5. /\ f \in Seq(Memory) /\ Len(f) = Len(h) /\ f[n] = t
      /\ \A k \in 1 .. Len(h) : k # n => f[k] = h[k]
  BY ONLY <1>1, <1>2, <1>3, ItemPut
<1> HIDE DEF i, f
<1>6. g \in WorkStacks /\ g.item = i /\ g.size = st.size /\ g.asize = st.asize
  BY ONLY <1>1, <1>4 DEF WorkStacks
<1> HIDE DEF g
<1>7. ASSUME NEW k \in 1 .. st.size PROVE IsBuf(i[k], f[k])
  <2>1. CASE k = n
    BY <1>4, <1>5, <2>1
  <2>2. CASE k # n
    <3>1. k \in 1 .. st.size /\ k \in 1 .. Len(h) /\ k \in 1 .. Len(st.item)
      BY <1>1, <2>2
    <3> QED BY <1>1, <1>4, <1>5, <2>2, <3>1
  <2> QED BY <2>1, <2>2
<1>8. ASSUME NEW k \in 1 .. st.asize PROVE Usable(i[k])
  <2>1. CASE k = n
    BY <1>4, <2>1 DEF Usable
  <2>2. CASE k # n
    BY <1>1, <1>4, <2>2
  <2> QED BY <2>1, <2>2
<1>9. IsWork(g, f)
  BY <1>1, <1>4, <1>5, <1>6, <1>7, <1>8 DEF IsWork
<1> QED BY <1>9 DEF g, i, f

\* What is added to one of them.
LEMMA ItemIsAdded ==
    ASSUME NEW st, NEW h, IsWork(st, h), NEW n \in 1 .. st.size, NEW t \in Memory
    PROVE  IsWork([st EXCEPT !.item[n] = hoedown_buffer_put(@, t)], [h EXCEPT ![n] = @ \o t])
<1>1. IsBuf(st.item[n], h[n])
  BY WorkFacts
<1>2. IsBuf(hoedown_buffer_put(st.item[n], t), h[n] \o t)
  BY <1>1, PutIs
<1>3. IsWork([st EXCEPT !.item = [st.item EXCEPT ![n] = hoedown_buffer_put(st.item[n], t)]],
             [h EXCEPT ![n] = h[n] \o t])
  BY <1>2, ItemIsReplaced
<1>4. n \in 1 .. Len(st.item) /\ n \in 1 .. Len(h)
  BY WorkFacts
<1>5. [st EXCEPT !.item[n] = hoedown_buffer_put(@, t)]
      = [st EXCEPT !.item = [st.item EXCEPT ![n] = hoedown_buffer_put(st.item[n], t)]]
  OBVIOUS
<1>6. [h EXCEPT ![n] = @ \o t] = [h EXCEPT ![n] = h[n] \o t]
  OBVIOUS
<1> QED BY <1>3, <1>5, <1>6

LEMMA PoppedIs ==
    ASSUME NEW st, NEW h, IsWork(st, h), NEW g \in Seq(Memory), NEW n \in Nat, Len(h) = n + 1,
           Len(g) = n, \A k \in 1 .. n : g[k] = h[k]
    PROVE  IsWork(popbuf(st), g)
<1>1. /\ st \in WorkStacks /\ st.size \in Nat /\ st.asize \in Nat /\ st.item \in Seq(Bufs)
      /\ Len(h) = st.size
      /\ Len(st.item) = st.asize /\ st.asize > 0 /\ st.size <= st.asize
      /\ \A k \in 1 .. st.size : IsBuf(st.item[k], h[k])
      /\ \A k \in 1 .. st.asize : Usable(st.item[k])
  BY WorkFacts
<1>2. n = st.size - 1 /\ n <= st.asize /\ \A k \in 1 .. n : k \in 1 .. st.size
  BY <1>1
<1> DEFINE p == [st EXCEPT !.size = n]
<1>3. popbuf(st) = p
  BY <1>2 DEF popbuf
<1>4. p \in WorkStacks /\ p.size = n /\ p.asize = st.asize /\ p.item = st.item
  BY ONLY <1>1, n \in Nat DEF WorkStacks
<1> HIDE DEF p
<1>5. ASSUME NEW k \in 1 .. n PROVE IsBuf(st.item[k], g[k])
  BY <1>1, <1>2
<1> QED BY <1>1, <1>2, <1>3, <1>4, <1>5 DEF IsWork

LEMMA NullsAre ==
    ASSUME NEW n \in Nat
    PROVE  /\ [k \in 1 .. n |-> NULL] \in Seq(Bufs) /\ Len([k \in 1 .. n |-> NULL]) = n
           /\ \A k \in 1 .. n : [j \in 1 .. n |-> NULL][k] = NULL
<1>1. NULL \in Bufs
  BY NoBuffer
<1> QED BY ONLY <1>1, n \in Nat

LEMMA StackGrownIs ==
    ASSUME NEW st, NEW h, IsWork(st, h), NEW n \in Nat
    PROVE  /\ IsWork(hoedown_stack_grow(st, n), h)
           /\ hoedown_stack_grow(st, n).size = st.size /\ hoedown_stack_grow(st, n).asize >= n
<1>1. /\ st \in WorkStacks /\ st.size \in Nat /\ st.asize \in Nat /\ st.item \in Seq(Bufs)
      /\ h \in Seq(Memory) /\ Len(h) = st.size
      /\ Len(st.item) = st.asize /\ st.asize > 0 /\ st.size <= st.asize
      /\ \A k \in 1 .. st.size : IsBuf(st.item[k], h[k])
      /\ \A k \in 1 .. st.asize : Usable(st.item[k])
  BY WorkFacts
<1>2. CASE st.asize >= n
  BY <1>2 DEF hoedown_stack_grow
<1>3. CASE ~(st.asize >= n)
  <2>1. PICK m \in Nat : m = n - st.asize
    BY <1>1, <1>3
  <2> DEFINE s == [k \in 1 .. m |-> NULL]
             i == st.item \o s
             g == [st EXCEPT !.item = i, !.asize = n]
  <2>2. s \in Seq(Bufs) /\ Len(s) = m /\ \A k \in 1 .. m : s[k] = NULL
    BY NullsAre
  <2>3. hoedown_stack_grow(st, n) = g
    BY <1>3, <2>1 DEF hoedown_stack_grow
  <2> HIDE DEF s
  <2>4. /\ i \in Seq(Bufs) /\ Len(i) = Len(st.item) + Len(s)
        /\ \A k \in 1 .. Len(st.item) + Len(s) :
              i[k] = IF k <= Len(st.item) THEN st.item[k] ELSE s[k - Len(st.item)]
    <3>1. st.item \in Seq(Bufs)
      BY <1>1
    <3> QED BY ONLY <2>2, <3>1, ConcatProperties
  <2> HIDE DEF i
  <2>5. g \in WorkStacks /\ g.item = i /\ g.size = st.size /\ g.asize = n
    BY ONLY <1>1, <2>4, n \in Nat DEF WorkStacks
  <2> HIDE DEF g
  <2>6. Len(i) = n /\ n > 0 /\ st.size <= n
    BY <1>1, <1>3, <2>1, <2>2, <2>4
  <2>7. ASSUME NEW k \in 1 .. st.size PROVE IsBuf(i[k], h[k])
    <3>1. k \in 1 .. Len(st.item) + Len(s) /\ k <= Len(st.item)
      BY <1>1, <2>1, <2>2
    <3> QED BY <1>1, <2>4, <3>1
  <2>8. ASSUME NEW k \in 1 .. n PROVE Usable(i[k])
    <3>1. i[k] = IF k <= Len(st.item) THEN st.item[k] ELSE s[k - Len(st.item)]
      BY <1>1, <2>1, <2>2, <2>4
    <3>2. CASE k <= Len(st.item)
      BY <1>1, <3>1, <3>2
    <3>3. CASE ~(k <= Len(st.item))
      <4>1. k - Len(st.item) \in 1 .. m
        BY <1>1, <2>1, <3>3
      <4> QED BY <2>2, <3>1, <3>3, <4>1 DEF Usable
    <3> QED BY <3>2, <3>3
  <2>9. IsWork(g, h)
    BY <1>1, <2>4, <2>5, <2>6, <2>7, <2>8 DEF IsWork
  <2>10. g.asize >= n
    BY <2>5
  <2> QED BY <2>3, <2>5, <2>9, <2>10
<1> QED BY <1>2, <1>3

LEMMA StackPushIs ==
    ASSUME NEW st, NEW h, IsWork(st, h), NEW b, NEW t, IsBuf(b, t)
    PROVE  IsWork(hoedown_stack_push(st, b), Append(h, t))
<1> DEFINE r == IF st.size >= st.asize THEN hoedown_stack_grow(st, st.size * 2) ELSE st
<1>1. st.size \in Nat /\ st.asize \in Nat /\ st.asize > 0 /\ st.size <= st.asize
  BY WorkFacts
<1>2. IsWork(r, h) /\ r.size < r.asize
  <2>1. CASE st.size >= st.asize
    <3>1. PICK n \in Nat : n = st.size * 2 /\ n > st.size
      BY <1>1, <2>1
    <3>2. /\ IsWork(hoedown_stack_grow(st, n), h)
          /\ hoedown_stack_grow(st, n).size = st.size /\ hoedown_stack_grow(st, n).asize >= n
      BY StackGrownIs
    <3>3. hoedown_stack_grow(st, n).asize \in Nat
      BY <3>2, WorkFacts
    <3>4. r = hoedown_stack_grow(st, n)
      BY <2>1, <3>1
    <3> HIDE DEF r
    <3> QED BY <1>1, <3>1, <3>2, <3>3, <3>4
  <2>2. CASE ~(st.size >= st.asize)
    BY <1>1, <2>2
  <2> QED BY <2>1, <2>2
<1>3. hoedown_stack_push(st, b) = StackPushed(r, b)
  BY DEF hoedown_stack_push
<1> HIDE DEF r
<1> QED BY <1>2, <1>3, StackPushedIs

LEMMA NewWorkIs ==
    ASSUME NEW st, NEW h, IsWork(st, h)
    PROVE  IsWork(newbuf(st), Append(h, <<>>))
<1>1. CASE st.size < st.asize /\ st.item[st.size + 1] # NULL
  <2>1. PICK n \in 1 .. st.asize : n = st.size + 1
    BY <1>1, WorkFacts
  <2>2. Usable(st.item[n])
    BY WorkFacts
  <2>3. PICK t : IsBuf(st.item[n], t)
    BY <1>1, <2>1, <2>2 DEF Usable
  <2>4. IsBuf([st.item[n] EXCEPT !.size = 0], <<>>)
    BY <2>3, UsedAgain
  <2>5. newbuf(st) = StackPushed(st, [st.item[n] EXCEPT !.size = 0])
    BY <1>1, <2>1 DEF newbuf
  <2> QED BY <1>1, <2>4, <2>5, StackPushedIs
<1>2. CASE ~(st.size < st.asize /\ st.item[st.size + 1] # NULL)
  <2>1. IsBuf(hoedown_buffer_new(BufferUnit), <<>>)
    BY BufferAssumption, NewBufIs
  <2>2. newbuf(st) = hoedown_stack_push(st, hoedown_buffer_new(BufferUnit))
    BY <1>2 DEF newbuf
  <2> QED BY <2>1, <2>2, StackPushIs
<1> QED BY <1>1, <1>2

LEMMA NewStackIs == IsWork(NewStack, <<>>)
<1> DEFINE i == [k \in 1 .. StackSize |-> NULL]
           w == [size |-> 0, asize |-> StackSize, item |-> i]
<1>1. StackSize \in Nat /\ StackSize > 0
  BY BufferAssumption
<1>2. i \in Seq(Bufs) /\ Len(i) = StackSize /\ \A k \in 1 .. StackSize : i[k] = NULL
  BY <1>1, NullsAre
<1>3. NewStack = w
  BY DEF NewStack
<1> HIDE DEF i
<1>4. w \in WorkStacks /\ w.size = 0 /\ w.asize = StackSize /\ w.item = i
  BY ONLY <1>1, <1>2 DEF WorkStacks
<1> HIDE DEF w
<1>5. <<>> \in Seq(Memory) /\ Len(<<>>) = 0
  BY EmptySeq
<1>6. 1 .. 0 = {}
  OBVIOUS
<1> QED BY <1>1, <1>2, <1>3, <1>4, <1>5, <1>6 DEF IsWork, Usable

-----------------------------------------------------------------------------
(* What is put.                                                            *)

LEMMA PieceIs ==
    ASSUME NEW n \in Nat, uses \in Nat
    PROVE  /\ Piece(n) \in Memory /\ Len(Piece(n)) = n
           /\ \A i \in 1 .. Len(Piece(n)) : Piece(n)[i] # Nul
<1>1. \A k \in 1 .. n : 100 * (uses + 1) + k \in Int /\ 100 * (uses + 1) + k # 0
  OBVIOUS
<1> DEFINE p == [k \in 1 .. n |-> 100 * (uses + 1) + k]
<1>2. p \in Seq(Int) /\ Len(p) = n /\ \A k \in 1 .. n : p[k] # 0
  <2>1. p \in [1 .. n -> Int]
    BY <1>1
  <2>2. p \in Seq(Int) /\ Len(p) = n
    BY <2>1
  <2> QED BY <1>1, <2>2
<1> HIDE DEF p
<1>3. Piece(n) = p
  BY DEF Piece, p
<1> QED BY <1>2, <1>3 DEF Memory, Nul

LEMMA OnePieceIs ==
    ASSUME uses \in Nat
    PROVE  Piece(1)[1] \in Int /\ <<Piece(1)[1]>> = Piece(1)
<1> DEFINE p == Piece(1)
           s == <<p[1]>>
<1>1. 1 \in Nat
  OBVIOUS
<1>2. p \in Memory /\ Len(p) = 1
  BY <1>1, PieceIs
<1> HIDE DEF p
<1>3. p[1] \in Int
  BY <1>2 DEF Memory
<1>4. s \in Memory /\ Len(s) = 1 /\ s[1] = p[1]
  BY <1>3 DEF Memory
<1> HIDE DEF s
<1>5. \A i \in 1 .. 1 : s[i] = p[i]
  BY <1>4
<1>6. s = p
  BY ONLY <1>1, <1>2, <1>4, <1>5, Same
<1> QED BY <1>3, <1>6 DEF p, s

LEMMA ArgsAre ==
    ASSUME NEW lengths \in Seq(Nat), uses \in Nat
    PROVE  Args(lengths) \in Seq(Memory)
<1> DEFINE A(k) == [i \in 1 .. lengths[k] |-> 100 * (uses + 1) + 20 * k + i]
           a    == [k \in 1 .. Len(lengths) |-> A(k)]
<1>1. Len(lengths) \in Nat /\ DOMAIN lengths = 1 .. Len(lengths)
  OBVIOUS
<1>2. ASSUME NEW k \in 1 .. Len(lengths) PROVE A(k) \in Memory
  <2>1. lengths[k] \in Nat /\ k \in Nat
    OBVIOUS
  <2>2. \A i \in 1 .. lengths[k] : 100 * (uses + 1) + 20 * k + i \in Int
    BY <2>1
  <2>3. A(k) \in [1 .. lengths[k] -> Int]
    BY <2>2
  <2> HIDE DEF A
  <2>4. A(k) \in Seq(Int)
    BY ONLY <2>1, <2>3, SeqDef
  <2> QED BY <2>4 DEF Memory
<1>3. Args(lengths) = a
  BY <1>1 DEF Args
<1> HIDE DEF A
<1>4. a \in [1 .. Len(lengths) -> Memory]
  BY <1>2
<1> HIDE DEF a
<1>5. a \in Seq(Memory)
  BY ONLY <1>1, <1>4, SeqDef
<1> QED BY <1>3, <1>5

LEMMA WithoutNuls ==
    ASSUME NEW s \in Memory, NEW t \in Memory,
           \A i \in 1 .. Len(s) : s[i] # Nul, \A i \in 1 .. Len(t) : t[i] # Nul
    PROVE  \A i \in 1 .. Len(s \o t) : (s \o t)[i] # Nul
<1>1. /\ Len(s \o t) = Len(s) + Len(t) /\ Len(s) \in Nat /\ Len(t) \in Nat
      /\ \A i \in 1 .. Len(s \o t) : (s \o t)[i] = IF i <= Len(s) THEN s[i] ELSE t[i - Len(s)]
  BY Joined, JoinedAt DEF Memory
<1>2. ASSUME NEW i \in 1 .. Len(s \o t) PROVE (s \o t)[i] # Nul
  <2>1. CASE i <= Len(s)
    BY <1>1, <2>1
  <2>2. CASE ~(i <= Len(s))
    <3>1. i - Len(s) \in 1 .. Len(t)
      BY <1>1, <2>2
    <3> QED BY <1>1, <2>2, <3>1
  <2> QED BY <2>1, <2>2
<1> QED BY <1>2

-----------------------------------------------------------------------------
(* The invariant.                                                          *)

ObufInv   == IsSds(buffer, held) /\ Ended(buffer)
HtmlInv   == IsBuf(buffer, held) /\ \A i \in 1 .. Len(held) : held[i] # Nul
BufferInv ==
    /\ uses \in Nat /\ holder \in Holders
    /\ holder = "obuf" => ObufInv
    /\ holder = "reader" => IsReader(buffer, held)
    /\ holder = "html" => HtmlInv
    /\ holder = "json" => IsStack(buffer, held)
    /\ holder = "work" => IsWork(buffer, held)

LEMMA BuffersStart == ASSUME NEW h \in Holders, BufferInit(h) PROVE BufferInv
<1>1. holder = h /\ buffer = NewBuffer[h] /\ held = <<>> /\ uses = 0
  BY DEF BufferInit
<1>2. uses \in Nat /\ holder \in Holders
  BY <1>1
<1>3. <<>> \in Memory /\ Len(<<>>) = 0 /\ IsSds(sdsempty, <<>>) /\ Ended(sdsempty)
  BY EmptyIs
<1>4. CASE h = "obuf"
  <2>1. NewBuffer[h] = sdsempty
    BY <1>4 DEF NewBuffer
  <2> QED BY <1>1, <1>2, <1>3, <1>4, <2>1 DEF BufferInv, ObufInv
<1>5. CASE h = "reader"
  <2>1. NewBuffer[h] = NewReader
    BY <1>5 DEF NewBuffer
  <2> QED BY <1>1, <1>2, <1>5, <2>1, NewReaderIs DEF BufferInv
<1>6. CASE h = "json"
  <2>1. NewBuffer[h] = JsonStack
    BY <1>6 DEF NewBuffer
  <2>2. JsonStack = [top |-> 0, end |-> 0, mem |-> <<>>]
    BY DEF JsonStack
  <2>3. IsStack(JsonStack, <<>>)
    BY <1>3, <2>2 DEF IsStack, JsonStacks
  <2> QED BY <1>1, <1>2, <1>6, <2>1, <2>3 DEF BufferInv
<1>7. CASE h = "work"
  <2>1. NewBuffer[h] = NewStack
    BY <1>7 DEF NewBuffer
  <2> QED BY <1>1, <1>2, <1>7, <2>1, NewStackIs DEF BufferInv
<1>8. CASE h = "html"
  <2>1. NewBuffer[h] = hoedown_buffer_new(BufferUnit)
    BY <1>8 DEF NewBuffer
  <2>2. IsBuf(hoedown_buffer_new(BufferUnit), <<>>)
    BY BufferAssumption, NewBufIs
  <2> QED BY <1>1, <1>2, <1>3, <1>8, <2>1, <2>2 DEF BufferInv, HtmlInv
<1> QED BY <1>4, <1>5, <1>6, <1>7, <1>8 DEF Holders

\* A call leaves the holder as it is and is counted.
LEMMA CallIs ==
    ASSUME NEW h, NEW after, NEW holds, BufferInv, Uses(h, after, holds)
    PROVE  /\ holder = h /\ holder' = h /\ buffer' = after /\ held' = holds
           /\ uses \in Nat /\ uses' \in Nat /\ holder' \in Holders
BY DEF Uses, BufferInv

LEMMA Appended ==
    ASSUME NEW lengths \in ArgLengths, BufferInv, Appends(lengths)
    PROVE  BufferInv'
<1> DEFINE args == Args(lengths)
           cmd  == redisFormatSdsCommandArgv(args)
<1>1. /\ holder = "obuf" /\ holder' = "obuf" /\ buffer' = redisAppendCommandArgv(buffer, cmd)
      /\ held' = held \o Resp(args) /\ uses \in Nat /\ uses' \in Nat /\ holder' \in Holders
  BY CallIs DEF Appends
<1>2. lengths \in Seq(Nat)
  BY BufferAssumption
<1>3. args \in Seq(Memory)
  BY <1>1, <1>2, ArgsAre
<1> HIDE DEF args
<1>4. Resp(args) \in Memory /\ IsSds(cmd, Resp(args))
  BY <1>3, CommandIsBuilt
<1> HIDE DEF cmd
<1>5. Span(cmd.mem, 0, cmd.len) = Resp(args)
  <2>1. /\ cmd.len \in Nat /\ cmd.mem \in Memory /\ Len(Resp(args)) = cmd.len
        /\ Len(cmd.mem) = cmd.len + cmd.free + 1 /\ cmd.free \in Nat
        /\ \A i \in 1 .. Len(Resp(args)) : cmd.mem[i] = Resp(args)[i]
    BY <1>4, SdsFacts DEF IsSds
  <2>2. cmd.len <= Len(cmd.mem)
    BY <2>1
  <2>3. /\ Span(cmd.mem, 0, cmd.len) \in Memory /\ Len(Span(cmd.mem, 0, cmd.len)) = cmd.len
        /\ \A i \in 1 .. cmd.len : Span(cmd.mem, 0, cmd.len)[i] = cmd.mem[i]
    BY <2>1, <2>2, FirstAre
  <2> DEFINE w == Span(cmd.mem, 0, cmd.len)
             r == Resp(args)
             n == cmd.len
  <2>4. w \in Memory /\ r \in Memory /\ n \in Nat /\ Len(w) = n /\ Len(r) = n
        /\ \A i \in 1 .. n : w[i] = r[i]
    BY <1>4, <2>1, <2>3
  <2> HIDE DEF w, r, n
  <2>5. w = r
    BY ONLY <2>4, Same
  <2> QED BY <2>5 DEF w, r, n
<1>6. buffer' = sdscatlen(buffer, Resp(args))
  BY <1>1, <1>5 DEF redisAppendCommandArgv
<1>7. IsSds(buffer, held)
  BY <1>1 DEF BufferInv, ObufInv
<1>8. IsSds(buffer', held') /\ Ended(buffer')
  BY <1>1, <1>4, <1>6, <1>7, SdsIsAdded
<1> QED BY <1>1, <1>8 DEF BufferInv, ObufInv

LEMMA WrittenOut ==
    ASSUME NEW n \in 1 .. Len(held), BufferInv, WritesOut(n)
    PROVE  BufferInv'
<1> DEFINE u == Span(held, n, Len(held))
<1>1. /\ holder = "obuf" /\ holder' = "obuf" /\ buffer' = redisBufferWrite(buffer, n)
      /\ held' = u /\ uses' \in Nat /\ holder' \in Holders
  BY CallIs DEF WritesOut
<1>2. IsSds(buffer, held) /\ Ended(buffer)
  BY <1>1 DEF BufferInv, ObufInv
<1>3. held \in Memory /\ Len(held) \in Nat /\ Len(held) = buffer.len
  BY <1>2 DEF IsSds, Memory
<1>4. n \in Nat /\ n <= Len(held)
  BY <1>3
<1>5. Behind(u, held, n)
  BY <1>3, <1>4, SpanIsBehind
<1> HIDE DEF u
<1>6. IsSds(buffer', u) /\ Ended(buffer')
  <2>1. CASE n = buffer.len
    <3>1. u \in Memory /\ Len(u) \in Nat /\ Len(held) = n + Len(u)
      BY <1>3, <1>5, BehindFacts
    <3>2. Len(u) = 0
      BY <1>3, <1>4, <2>1, <3>1
    <3>3. u = <<>>
      BY <3>1, <3>2 DEF Memory
    <3>4. buffer' = sdsempty
      BY <1>1, <2>1 DEF redisBufferWrite
    <3> QED BY <3>3, <3>4, EmptyIs
  <2>2. CASE n # buffer.len
    <3>1. buffer' = sdsrange(buffer, n, -1)
      BY <1>1, <2>2 DEF redisBufferWrite
    <3> QED BY <1>2, <1>5, <3>1, RangeIs
  <2> QED BY <2>1, <2>2
<1> QED BY <1>1, <1>6 DEF BufferInv, ObufInv

LEMMA WasFed ==
    ASSUME NEW n \in PieceLengths, BufferInv, Feeds(n)
    PROVE  BufferInv'
<1>1. /\ holder = "reader" /\ holder' = "reader" /\ buffer' = redisReaderFeed(buffer, Piece(n))
      /\ held' = held \o Piece(n) /\ uses \in Nat /\ uses' \in Nat /\ holder' \in Holders
  BY CallIs DEF Feeds, Puts
<1>2. IsReader(buffer, held)
  BY <1>1 DEF BufferInv
<1>3. Piece(n) \in Memory
  BY <1>1, BufferAssumption, PieceIs
<1>4. IsReader(buffer', held')
  BY <1>1, <1>2, <1>3, FeedIs
<1> QED BY <1>1, <1>4 DEF BufferInv

LEMMA ReplyWasTaken ==
    ASSUME NEW n \in 1 .. Len(held), BufferInv, TakesReply(n)
    PROVE  BufferInv'
<1>1. /\ holder = "reader" /\ holder' = "reader"
      /\ buffer' = redisReaderGetReply([buffer EXCEPT !.pos = @ + n])
      /\ held' = Span(held, n, Len(held)) /\ uses' \in Nat /\ holder' \in Holders
  BY CallIs DEF TakesReply
<1>2. IsReader(buffer, held)
  BY <1>1 DEF BufferInv
<1>3. held \in Memory
  BY <1>2 DEF IsReader, Behind
<1>4. n \in Nat /\ n <= Len(held)
  BY <1>3 DEF Memory
<1>5. IsReader(buffer', held')
  BY <1>1, <1>2, <1>4, ReplyIsTaken
<1> QED BY <1>1, <1>5 DEF BufferInv

\* What ends in a piece has no NUL if what was there has none.
LEMMA HtmlIsPut ==
    ASSUME NEW n \in PieceLengths, BufferInv, holder = "html"
    PROVE  /\ n \in Nat /\ Piece(n) \in Memory /\ held \in Memory /\ IsBuf(buffer, held)
           /\ \A i \in 1 .. Len(held \o Piece(n)) : (held \o Piece(n))[i] # Nul
<1>1. IsBuf(buffer, held) /\ uses \in Nat /\ \A i \in 1 .. Len(held) : held[i] # Nul
  BY DEF BufferInv, HtmlInv
<1>2. held \in Memory
  BY <1>1, BufFacts
<1>3. n \in Nat
  BY BufferAssumption
<1>4. Piece(n) \in Memory /\ \A i \in 1 .. Len(Piece(n)) : Piece(n)[i] # Nul
  BY <1>1, <1>3, PieceIs
<1>5. \A i \in 1 .. Len(held \o Piece(n)) : (held \o Piece(n))[i] # Nul
  BY ONLY <1>1, <1>2, <1>4, WithoutNuls
<1> QED BY <1>1, <1>2, <1>3, <1>4, <1>5

LEMMA WasRendered ==
    ASSUME NEW n \in PieceLengths, BufferInv, Renders(n)
    PROVE  BufferInv'
<1>1. /\ holder = "html" /\ holder' = "html" /\ buffer' = hoedown_buffer_put(buffer, Piece(n))
      /\ held' = held \o Piece(n) /\ uses' \in Nat /\ holder' \in Holders
  BY CallIs DEF Renders, Puts
<1>2. /\ Piece(n) \in Memory /\ IsBuf(buffer, held)
      /\ \A i \in 1 .. Len(held \o Piece(n)) : (held \o Piece(n))[i] # Nul
  BY <1>1, HtmlIsPut
<1>3. IsBuf(buffer', held')
  BY <1>1, <1>2, PutIs
<1> QED BY <1>1, <1>2, <1>3 DEF BufferInv, HtmlInv

LEMMA CharWasRendered ==
    ASSUME BufferInv, RendersChar
    PROVE  BufferInv'
<1>1. /\ holder = "html" /\ holder' = "html" /\ buffer' = hoedown_buffer_putc(buffer, Piece(1)[1])
      /\ held' = held \o Piece(1) /\ uses \in Nat /\ uses' \in Nat /\ holder' \in Holders
      /\ 1 \in PieceLengths
  BY CallIs DEF RendersChar, Puts
<1>2. /\ Piece(1) \in Memory /\ IsBuf(buffer, held)
      /\ \A i \in 1 .. Len(held \o Piece(1)) : (held \o Piece(1))[i] # Nul
  BY <1>1, HtmlIsPut
<1>3. Piece(1)[1] \in Int /\ <<Piece(1)[1]>> = Piece(1)
  BY <1>1, OnePieceIs
<1>4. IsBuf(hoedown_buffer_putc(buffer, Piece(1)[1]), held \o <<Piece(1)[1]>>)
  BY <1>2, <1>3, PutcIs
<1>5. IsBuf(buffer', held')
  BY <1>1, <1>3, <1>4
<1> QED BY <1>1, <1>2, <1>5 DEF BufferInv, HtmlInv

LEMMA WasPrinted ==
    ASSUME NEW n \in PieceLengths, BufferInv, Prints(n)
    PROVE  BufferInv'
<1>1. /\ holder = "html" /\ holder' = "html" /\ buffer' = hoedown_buffer_printf(buffer, Piece(n))
      /\ held' = held \o Piece(n) /\ uses' \in Nat /\ holder' \in Holders
  BY CallIs DEF Prints, Puts
<1>2. /\ Piece(n) \in Memory /\ IsBuf(buffer, held)
      /\ \A i \in 1 .. Len(held \o Piece(n)) : (held \o Piece(n))[i] # Nul
  BY <1>1, HtmlIsPut
<1>3. IsBuf(buffer', held')
  BY <1>1, <1>2, PrintfIs
<1> QED BY <1>1, <1>2, <1>3 DEF BufferInv, HtmlInv

LEMMA TextWasAsked ==
    ASSUME BufferInv, AsksForText
    PROVE  BufferInv'
<1> DEFINE c == hoedown_buffer_cstr(buffer)
<1>1. /\ holder = "html" /\ holder' = "html" /\ buffer' = c
      /\ held' = TextUpToNul(c) /\ uses' \in Nat /\ holder' \in Holders
  BY CallIs DEF AsksForText
<1>2. IsBuf(buffer, held) /\ \A i \in 1 .. Len(held) : held[i] # Nul
  BY <1>1 DEF BufferInv, HtmlInv
<1>3. IsBuf(c, held) /\ c.size + 1 <= c.asize /\ c.mem[c.size + 1] = Nul
  BY <1>2, CstrIs
<1> HIDE DEF c
<1>4. TextUpToNul(c) = held
  BY <1>2, <1>3, TakenUpToNul
<1> QED BY <1>1, <1>2, <1>3, <1>4 DEF BufferInv, HtmlInv

LEMMA JsonWasPushed ==
    ASSUME NEW n \in PieceLengths, BufferInv, JsonPushes(n)
    PROVE  BufferInv'
<1>1. /\ holder = "json" /\ holder' = "json" /\ buffer' = Push(buffer, Piece(n))
      /\ held' = held \o Piece(n) /\ uses \in Nat /\ uses' \in Nat /\ holder' \in Holders
  BY CallIs DEF JsonPushes, Puts
<1>2. IsStack(buffer, held)
  BY <1>1 DEF BufferInv
<1>3. Piece(n) \in Memory
  BY <1>1, BufferAssumption, PieceIs
<1>4. IsStack(buffer', held')
  BY <1>1, <1>2, <1>3, PushIs
<1> QED BY <1>1, <1>4 DEF BufferInv

LEMMA JsonWasPopped ==
    ASSUME NEW n \in 1 .. Len(held), BufferInv, JsonPops(n)
    PROVE  BufferInv'
<1>1. /\ holder = "json" /\ holder' = "json" /\ buffer' = Pop(buffer, n)
      /\ held' = Span(held, 0, Len(held) - n) /\ uses' \in Nat /\ holder' \in Holders
  BY CallIs DEF JsonPops
<1>2. IsStack(buffer, held)
  BY <1>1 DEF BufferInv
<1>3. Len(held) \in Nat
  BY <1>2, StackFacts DEF Memory
<1>4. n \in Nat /\ n <= Len(held)
  BY <1>3
<1>5. IsStack(buffer', held')
  BY <1>1, <1>2, <1>4, PopIs
<1> QED BY <1>1, <1>5 DEF BufferInv

LEMMA WasOpened ==
    ASSUME BufferInv, Opens
    PROVE  BufferInv'
<1>1. /\ holder = "work" /\ holder' = "work" /\ buffer' = newbuf(buffer)
      /\ held' = Append(held, <<>>) /\ uses' \in Nat /\ holder' \in Holders
  BY CallIs DEF Opens
<1>2. IsWork(buffer, held)
  BY <1>1 DEF BufferInv
<1>3. IsWork(buffer', held')
  BY <1>1, <1>2, NewWorkIs
<1> QED BY <1>1, <1>3 DEF BufferInv

LEMMA WasWorkedOn ==
    ASSUME NEW n \in PieceLengths, BufferInv, Works(n)
    PROVE  BufferInv'
<1>1. /\ holder = "work" /\ holder' = "work" /\ buffer' = TopPut(buffer, Piece(n))
      /\ held' = [held EXCEPT ![Top] = @ \o Piece(n)]
      /\ uses \in Nat /\ uses' \in Nat /\ holder' \in Holders /\ Top > 0
  BY CallIs DEF Works
<1>2. IsWork(buffer, held)
  BY <1>1 DEF BufferInv
<1>3. Piece(n) \in Memory
  BY <1>1, BufferAssumption, PieceIs
<1>4. Top = buffer.size /\ buffer.size \in 1 .. buffer.size
  BY <1>1, <1>2, WorkFacts DEF Top
<1>5. IsWork([buffer EXCEPT !.item[buffer.size] = hoedown_buffer_put(@, Piece(n))],
             [held EXCEPT ![buffer.size] = @ \o Piece(n)])
  BY ONLY <1>2, <1>3, <1>4, ItemIsAdded
<1>6. IsWork(buffer', held')
  BY <1>1, <1>4, <1>5 DEF TopPut
<1> QED BY <1>1, <1>6 DEF BufferInv

LEMMA WereMerged ==
    ASSUME BufferInv, Merges
    PROVE  BufferInv'
<1> DEFINE top   == TopText(buffer)
           below == Top - 1
           b     == [buffer EXCEPT !.item[below] = hoedown_buffer_put(@, top)]
           g     == [k \in 1 .. below |-> IF k = below THEN held[k] \o held[Top] ELSE held[k]]
<1>1. /\ holder = "work" /\ holder' = "work" /\ buffer' = popbuf(b) /\ held' = g
      /\ uses' \in Nat /\ holder' \in Holders /\ Top > 1
  BY CallIs DEF Merges
<1>2. IsWork(buffer, held)
  BY <1>1 DEF BufferInv
<1>3. /\ held \in Seq(Memory) /\ Len(held) = buffer.size /\ Top = Len(held) /\ Top \in Nat
      /\ \A k \in 1 .. buffer.size : IsBuf(buffer.item[k], held[k])
  BY <1>2, WorkFacts DEF Top
<1>4. /\ below \in Nat /\ below \in 1 .. buffer.size /\ below \in 1 .. Len(held)
      /\ Top \in 1 .. buffer.size /\ buffer.size = Top /\ Len(held) = below + 1
  BY <1>1, <1>3
<1>5. top = held[Top] /\ held[Top] \in Memory
  <2>1. IsBuf(buffer.item[Top], held[Top])
    BY <1>3, <1>4
  <2>2. HtmlKeeps(buffer.item[Top], held[Top])
    BY <2>1, BufIsKept
  <2>3. held[Top] \in Memory
    BY <2>1, BufFacts
  <2> QED BY <1>4, <2>2, <2>3 DEF TopText, HtmlKeeps
<1>6. g \in Seq(Memory) /\ Len(g) = below
  <2>1. \A k \in 1 .. below : held[k] \in Memory
    BY <1>3, <1>4
  <2>2. held[below] \o held[Top] \in Memory
    <3>1. held[below] \in Memory
      BY <1>4, <2>1
    <3> QED BY ONLY <1>5, <3>1, Joined
  <2>3. g \in [1 .. below -> Memory]
    BY <2>1, <2>2
  <2> HIDE DEF g
  <2>4. g \in Seq(Memory)
    BY ONLY <1>4, <2>3, SeqDef
  <2> QED BY <1>4, <2>3, <2>4
<1>7. g[below] = held[below] \o held[Top] /\ \A k \in 1 .. below : k # below => g[k] = held[k]
  <2>1. below \in 1 .. below
    BY <1>1, <1>3
  <2> HIDE DEF below
  <2> QED BY <2>1
<1> HIDE DEF top, g
<1> DEFINE h == [held EXCEPT ![below] = @ \o top]
<1> HIDE DEF below
<1>8. IsWork(b, h)
  BY ONLY <1>2, <1>4, <1>5, ItemIsAdded
<1>9. Len(h) = below + 1 /\ h[below] = held[below] \o top /\ \A k \in 1 .. below : k # below => h[k] = held[k]
  BY <1>3, <1>4
<1> HIDE DEF b, h
<1>10. \A k \in 1 .. below : g[k] = h[k]
  BY <1>5, <1>7, <1>9
<1>11. IsWork(popbuf(b), g)
  BY ONLY <1>4, <1>6, <1>8, <1>9, <1>10, PoppedIs
<1> QED BY <1>1, <1>11 DEF BufferInv

LEMMA WasClosed ==
    ASSUME BufferInv, Closes
    PROVE  BufferInv'
<1> DEFINE n == Top - 1
           g == SubSeq(held, 1, n)
<1>1. /\ holder = "work" /\ holder' = "work" /\ buffer' = popbuf(buffer) /\ held' = g
      /\ uses' \in Nat /\ holder' \in Holders /\ Top > 0
  BY CallIs DEF Closes
<1>2. IsWork(buffer, held)
  BY <1>1 DEF BufferInv
<1>3. held \in Seq(Memory) /\ Len(held) = Top /\ Top \in Nat
  BY <1>2, WorkFacts DEF Top
<1>4. n \in Nat /\ Len(held) = n + 1
  BY <1>1, <1>3
<1>5. g \in Seq(Memory) /\ Len(g) = n /\ \A k \in 1 .. n : g[k] = held[k]
  <2> HIDE DEF n
  <2> QED BY <1>3, <1>4
<1> HIDE DEF n, g
<1>6. IsWork(popbuf(buffer), g)
  BY ONLY <1>2, <1>4, <1>5, PoppedIs
<1> QED BY <1>1, <1>6 DEF BufferInv

\* Every call leaves the invariant as it is.
LEMMA BufferSteps == BufferInv /\ [BufferNext]_bufferVars => BufferInv'
<1> SUFFICES ASSUME BufferInv, [BufferNext]_bufferVars PROVE BufferInv'
  OBVIOUS
<1>1. ASSUME NEW lengths \in ArgLengths, Appends(lengths) PROVE BufferInv'
  BY <1>1, Appended
<1>2. ASSUME NEW n \in 1 .. Len(held), WritesOut(n) PROVE BufferInv'
  BY <1>2, WrittenOut
<1>3. ASSUME NEW n \in 1 .. Len(held), TakesReply(n) PROVE BufferInv'
  BY <1>3, ReplyWasTaken
<1>4. ASSUME NEW n \in 1 .. Len(held), JsonPops(n) PROVE BufferInv'
  BY <1>4, JsonWasPopped
<1>5. ASSUME NEW n \in PieceLengths, Feeds(n) PROVE BufferInv'
  BY <1>5, WasFed
<1>6. ASSUME NEW n \in PieceLengths, Renders(n) PROVE BufferInv'
  BY <1>6, WasRendered
<1>7. ASSUME NEW n \in PieceLengths, Prints(n) PROVE BufferInv'
  BY <1>7, WasPrinted
<1>8. ASSUME NEW n \in PieceLengths, JsonPushes(n) PROVE BufferInv'
  BY <1>8, JsonWasPushed
<1>9. ASSUME NEW n \in PieceLengths, Works(n) PROVE BufferInv'
  BY <1>9, WasWorkedOn
<1>10. CASE RendersChar
  BY <1>10, CharWasRendered
<1>11. CASE AsksForText
  BY <1>11, TextWasAsked
<1>12. CASE Opens
  BY <1>12, WasOpened
<1>13. CASE Merges
  BY <1>13, WereMerged
<1>14. CASE Closes
  BY <1>14, WasClosed
<1>15. CASE UNCHANGED bufferVars
  BY <1>15 DEF bufferVars, BufferInv, ObufInv, HtmlInv
<1> QED BY <1>1, <1>2, <1>3, <1>4, <1>5, <1>6, <1>7, <1>8, <1>9, <1>10, <1>11, <1>12, <1>13,
           <1>14, <1>15 DEF BufferNext

LEMMA InvKeeps == BufferInv => BuffersKeep
<1> SUFFICES ASSUME BufferInv PROVE BuffersKeep
  OBVIOUS
<1>1. CASE holder = "obuf"
  BY <1>1, SdsIsKept DEF BufferInv, ObufInv, BuffersKeep
<1>2. CASE holder = "reader"
  BY <1>2, ReaderIsKept DEF BufferInv, BuffersKeep
<1>3. CASE holder = "html"
  BY <1>3, BufIsKept DEF BufferInv, HtmlInv, BuffersKeep
<1>4. CASE holder = "json"
  BY <1>4, StackIsKept DEF BufferInv, BuffersKeep
<1>5. CASE holder = "work"
  BY <1>5, WorkIsKept DEF BufferInv, BuffersKeep, Top
<1> QED BY <1>1, <1>2, <1>3, <1>4, <1>5 DEF BufferInv, Holders

\* Whatever the lengths of what is put, the sizes a buffer starts with and grows by, and the
\* limits below which it doubles and above which it is given up: an output buffer and a
\* reader of hiredis, a buffer and a stack of buffers of the Markdown parser and the stack of
\* the JSON parser hold what was put and not taken, and nothing outside of them is written.
THEOREM BuffersAlwaysKeep == BufferSpec => []BuffersKeep
<1>1. (\E h \in Holders : BufferInit(h)) => BufferInv
  BY BuffersStart
<1>2. BufferInv /\ [BufferNext]_bufferVars => BufferInv'
  BY BufferSteps
<1>3. BufferInv => BuffersKeep
  BY InvKeeps
<1> QED BY <1>1, <1>2, <1>3, PTL DEF BufferSpec

=============================================================================
