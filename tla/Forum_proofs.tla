---------------------------- MODULE Forum_proofs -----------------------------
(***************************************************************************)
(* Nothing anybody wrote is lost, whoever is mentioned is told, and what   *)
(* is answered is true, for any users, texts and workers, whatever calls   *)
(* fail or meet.                                                           *)
(*                                                                         *)
(* A step lets the topics grow (TopicsStay) and changes one request.  The  *)
(* invariant says of each request what is stored of it, whom it has told   *)
(* and what it is going to clear (Request).  Of whoever reads it says that *)
(* what they have not seen comes behind the pages they turned (PagesInv);  *)
(* that needs to know that a list has a topic in every place (PlacesAre-   *)
(* Taken), so that a page without rows is behind its end.                  *)
(***************************************************************************)
EXTENDS Forum, FiniteSetTheorems, TLAPS

-----------------------------------------------------------------------------
(* Whoever goes through the pages of a list: the lists of any topics T.    *)

ListedIn(T, c)   == {t \in DOMAIN T : c = 0 \/ T[t].category = c}
AheadIn(T, t, c) == {s \in ListedIn(T, c) : T[s].last > T[t].last}

\* No two of them were last written at one time.
TimesDifferIn(T) == \A s, t \in DOMAIN T : T[s].last = T[t].last => s = t

LEMMA LastIsNat ==
    ASSUME NEW T \in Seq(Topics), NEW t \in DOMAIN T
    PROVE  T[t] \in Topics /\ T[t].last \in Nat
<1>1. T[t] \in Topics
  OBVIOUS
<1> QED BY <1>1 DEF Topics

\* A list is finite, and so is what comes before a topic in it.
LEMMA ListsAreFinite ==
    ASSUME NEW T \in Seq(Topics), NEW c
    PROVE  /\ IsFiniteSet(ListedIn(T, c)) /\ Cardinality(ListedIn(T, c)) \in Nat
           /\ \A t \in ListedIn(T, c) :
                 /\ IsFiniteSet(AheadIn(T, t, c)) /\ Cardinality(AheadIn(T, t, c)) \in Nat
                 /\ Cardinality(AheadIn(T, t, c)) < Cardinality(ListedIn(T, c))
<1> DEFINE L == ListedIn(T, c)
<1>1. IsFiniteSet(DOMAIN T)
  <2>1. PICK n \in Nat, one \in Int : DOMAIN T = one .. n
    <3>1. DOMAIN T = 1 .. Len(T) /\ Len(T) \in Nat /\ 1 \in Int
      OBVIOUS
    <3> QED BY <3>1
  <2>2. n \in Int /\ one \in Int
    OBVIOUS
  <2>3. IsFiniteSet(one .. n)
    BY ONLY <2>2, FS_Interval
  <2> QED BY <2>1, <2>3
<1>2. L \in SUBSET DOMAIN T
  BY DEF ListedIn
<1>3. IsFiniteSet(L)
  BY ONLY <1>1, <1>2, FS_Subset
<1>4. Cardinality(L) \in Nat
  BY ONLY <1>3, FS_CardinalityType
<1>5. \A t \in L : t \notin AheadIn(T, t, c) /\ AheadIn(T, t, c) \in SUBSET L
  <2> SUFFICES ASSUME NEW t \in L PROVE t \notin AheadIn(T, t, c) /\ AheadIn(T, t, c) \in SUBSET L
    OBVIOUS
  <2>1. t \in DOMAIN T
    BY <1>2
  <2>2. T[t].last \in Nat
    BY <2>1, LastIsNat
  <2> QED BY <2>2 DEF AheadIn
<1> HIDE DEF L
<1>6. ASSUME NEW t \in L
      PROVE  /\ IsFiniteSet(AheadIn(T, t, c)) /\ Cardinality(AheadIn(T, t, c)) \in Nat
             /\ Cardinality(AheadIn(T, t, c)) < Cardinality(L)
  <2>2. /\ IsFiniteSet(AheadIn(T, t, c)) /\ Cardinality(AheadIn(T, t, c)) <= Cardinality(L)
        /\ Cardinality(L) = Cardinality(AheadIn(T, t, c)) => L = AheadIn(T, t, c)
    <3>1. AheadIn(T, t, c) \in SUBSET L
      BY <1>5
    <3> QED BY ONLY <1>3, <3>1, FS_Subset
  <2>3. Cardinality(AheadIn(T, t, c)) \in Nat
    BY ONLY <2>2, FS_CardinalityType
  <2>4. L # AheadIn(T, t, c)
    BY <1>5
  <2> QED BY ONLY <1>4, <2>2, <2>3, <2>4
<1> QED BY <1>3, <1>4, <1>6 DEF L

\* What comes before a topic comes before those behind it as well, and so does the topic.
LEMMA AheadGrows ==
    ASSUME NEW T \in Seq(Topics), NEW c, NEW x \in ListedIn(T, c), NEW y \in ListedIn(T, c),
           T[x].last > T[y].last
    PROVE  Cardinality(AheadIn(T, x, c)) # Cardinality(AheadIn(T, y, c))
<1>1. x \in DOMAIN T /\ y \in DOMAIN T
  BY DEF ListedIn
<1>2. T[x].last \in Nat /\ T[y].last \in Nat
  BY <1>1, LastIsNat
<1>3. AheadIn(T, x, c) \in SUBSET AheadIn(T, y, c)
  <2> SUFFICES ASSUME NEW z \in AheadIn(T, x, c) PROVE z \in AheadIn(T, y, c)
    OBVIOUS
  <2>1. z \in ListedIn(T, c) /\ T[z].last > T[x].last
    BY DEF AheadIn
  <2>2. T[z].last \in Nat
    BY <2>1, LastIsNat DEF ListedIn
  <2>3. T[z].last > T[y].last
    BY <2>1, <2>2, <1>2
  <2> QED BY <2>1, <2>3 DEF AheadIn
<1>4. x \in AheadIn(T, y, c) /\ x \notin AheadIn(T, x, c)
  BY <1>2 DEF AheadIn
<1>5. IsFiniteSet(AheadIn(T, y, c))
  BY ListsAreFinite
<1>6. Cardinality(AheadIn(T, y, c)) = Cardinality(AheadIn(T, x, c)) => AheadIn(T, y, c) = AheadIn(T, x, c)
  BY ONLY <1>3, <1>5, FS_Subset
<1> QED BY <1>4, <1>6

\* In every place of a list that is not behind its end there is a topic: as many come
\* before each as before no other, and so many places there are.
LEMMA PlacesAreTaken ==
    ASSUME NEW T \in Seq(Topics), TimesDifferIn(T), NEW c,
           NEW n \in Nat, n < Cardinality(ListedIn(T, c))
    PROVE  \E t \in ListedIn(T, c) : Cardinality(AheadIn(T, t, c)) = n
<1> DEFINE L == ListedIn(T, c)
           f == [t \in L |-> Cardinality(AheadIn(T, t, c))]
           m == Cardinality(L)
           zero == 0
           S == (zero .. m - 1) \ {n}
<1> SUFFICES ASSUME \A t \in L : Cardinality(AheadIn(T, t, c)) # n PROVE FALSE
  OBVIOUS
<1>1. IsFiniteSet(L) /\ m \in Nat
  BY ListsAreFinite
<1>2. \A t \in L : Cardinality(AheadIn(T, t, c)) \in 0 .. m - 1
  <2> SUFFICES ASSUME NEW t \in L PROVE Cardinality(AheadIn(T, t, c)) \in 0 .. m - 1
    OBVIOUS
  <2>1. Cardinality(AheadIn(T, t, c)) \in Nat /\ Cardinality(AheadIn(T, t, c)) < m
    BY ListsAreFinite
  <2> QED BY <1>1, <2>1
<1>3. f \in [L -> S]
  BY <1>2
<1>4. IsFiniteSet(S) /\ Cardinality(S) < m
  <2>1. m - 1 \in Int /\ zero \in Int /\ ~(zero > m - 1) /\ (m - 1) - zero + 1 = m /\ n \in zero .. m - 1
    BY <1>1
  <2> HIDE DEF zero
  <2>2. PICK h \in Int : h = m - 1
    BY <2>1
  <2>3. IsFiniteSet(zero .. h) /\ Cardinality(zero .. h) = IF zero > h THEN 0 ELSE h - zero + 1
    BY ONLY <2>1, <2>2, FS_Interval
  <2>4. Cardinality(zero .. h) = m
    BY <2>1, <2>2, <2>3
  <2>5. IsFiniteSet((zero .. h) \ {n}) /\ Cardinality((zero .. h) \ {n}) = Cardinality(zero .. h) - 1
    <3>1. n \in zero .. h
      BY <2>1, <2>2
    <3> QED BY ONLY <2>3, <3>1, FS_RemoveElement
  <2> QED BY <1>1, <2>2, <2>4, <2>5
<1> HIDE DEF f, S
<1>5. PICK s \in L, t \in L : s # t /\ f[s] = f[t]
  <2>1. Cardinality(S) < Cardinality(L)
    BY <1>4
  <2> HIDE DEF L
  <2> QED BY ONLY <1>1, <1>3, <1>4, <2>1, FS_PigeonHole
<1>6. s \in DOMAIN T /\ t \in DOMAIN T
  BY DEF ListedIn
<1>7. T[s].last \in Nat /\ T[t].last \in Nat
  BY <1>6, LastIsNat
<1>8. T[s].last # T[t].last
  BY <1>5, <1>6, Zenon DEF TimesDifferIn
<1>9. T[s].last > T[t].last \/ T[t].last > T[s].last
  BY <1>7, <1>8
<1>10. f[s] = Cardinality(AheadIn(T, s, c)) /\ f[t] = Cardinality(AheadIn(T, t, c))
  BY DEF f
<1> QED BY <1>5, <1>9, <1>10, AheadGrows

-----------------------------------------------------------------------------
(* The steps of the reader, and the others while somebody reads.           *)

\* What ReadsOn says, of any topics, clock and reader.
Turned(r) == (r.page - 1) * PerPage
ReadsOnIn(T, now, r) ==
    r.at \in {"reading", "end"} =>
        /\ r.page # 0 /\ r.since <= now
        /\ r.began \subseteq ListedIn(T, r.category)
        /\ \A t \in r.began :
              \/ T[t].last > r.since \/ t \in r.seen
              \/ r.at = "reading" /\ Cardinality(AheadIn(T, t, r.category)) >= Turned(r)
ReaderTypeOf(r) ==
    r \in [page : Nat, category : Categories \cup {0}, seen : SUBSET Nat, began : SUBSET Nat,
           since : Nat, at : {"nobody", "idle", "reading", "end", "failed"}]
PagesAt(T, now, r) ==
    /\ \A t \in DOMAIN T : T[t].last <= now
    /\ TimesDifferIn(T) /\ ReaderTypeOf(r) /\ ReadsOnIn(T, now, r)

LEMMA PagesAreAt ==
    /\ PagesInv <=> PagesAt(topics, clock, reader)
    /\ PagesInv' <=> PagesAt(topics', clock', reader')
<1>1. PagesInv <=> PagesAt(topics, clock, reader)
  <2>1. ReadsOn <=> ReadsOnIn(topics, clock, reader)
    BY DEF ReadsOn, ReadsOnIn, PagesTurned, Turned, Listed, Ahead, ListedIn, AheadIn
  <2>2. ReaderType <=> ReaderTypeOf(reader)
    BY DEF ReaderType, ReaderTypeOf
  <2>3. TimesDiffer <=> (\A t \in DOMAIN topics : topics[t].last <= clock) /\ TimesDifferIn(topics)
    BY Zenon DEF TimesDiffer, TimesDifferIn
  <2> QED BY <2>1, <2>2, <2>3 DEF PagesInv, PagesAt
<1>2. PagesInv' <=> PagesAt(topics', clock', reader')
  <2>1. ReadsOn' <=> ReadsOnIn(topics', clock', reader')
    BY DEF ReadsOn, ReadsOnIn, PagesTurned, Turned, Listed, Ahead, ListedIn, AheadIn
  <2>2. ReaderType' <=> ReaderTypeOf(reader')
    BY DEF ReaderType, ReaderTypeOf
  <2>3. TimesDiffer' <=> (\A t \in DOMAIN topics' : topics'[t].last <= clock') /\ TimesDifferIn(topics')
    BY Zenon DEF TimesDiffer, TimesDifferIn
  <2> QED BY <2>1, <2>2, <2>3 DEF PagesInv, PagesAt
<1> QED BY <1>1, <1>2

\* A topic is written at a new time: what came before another comes before it still.
WrittenIn(T, U, t, now) ==
    /\ T \in Seq(Topics) /\ U \in Seq(Topics) /\ now \in Nat
    /\ DOMAIN U = DOMAIN T \cup {t} /\ U[t].last = now + 1
    /\ t \in DOMAIN T => U[t].category = T[t].category
    /\ \A s \in DOMAIN T \ {t} : U[s] = T[s]

LEMMA WrittenAhead ==
    ASSUME NEW T, NEW U, NEW t, NEW now, WrittenIn(T, U, t, now),
           \A s \in DOMAIN T : T[s].last <= now,
           NEW c, NEW s \in ListedIn(T, c), s # t
    PROVE  /\ s \in ListedIn(U, c) /\ U[s].last = T[s].last
           /\ Cardinality(AheadIn(T, s, c)) <= Cardinality(AheadIn(U, s, c))
<1>1. s \in DOMAIN T /\ (c = 0 \/ T[s].category = c)
  BY DEF ListedIn
<1>2. \A x \in ListedIn(T, c) : x \in ListedIn(U, c)
  BY DEF ListedIn, WrittenIn
<1>3. U[s] = T[s]
  BY <1>1 DEF WrittenIn
<1>4. T \in Seq(Topics) /\ U \in Seq(Topics) /\ now \in Nat
  BY DEF WrittenIn
<1>5. AheadIn(T, s, c) \in SUBSET AheadIn(U, s, c)
  <2> SUFFICES ASSUME NEW x \in AheadIn(T, s, c) PROVE x \in AheadIn(U, s, c)
    OBVIOUS
  <2>1. x \in ListedIn(T, c) /\ x \in DOMAIN T /\ T[x].last > T[s].last
    BY DEF AheadIn, ListedIn
  <2>2. x \in ListedIn(U, c)
    BY <2>1, <1>2
  <2>3. U[x].last > U[s].last
    <3>1. CASE x = t
      <4>1. T[s].last <= now /\ T[s].last \in Nat
        BY <1>1, <1>4, LastIsNat
      <4>2. U[x].last = now + 1
        BY <3>1 DEF WrittenIn
      <4> QED BY <4>1, <4>2, <1>3, <1>4
    <3>2. CASE x # t
      <4>1. U[x] = T[x]
        BY <3>2, <2>1 DEF WrittenIn
      <4> QED BY <4>1, <2>1, <1>3
    <3> QED BY <3>1, <3>2
  <2> QED BY <2>2, <2>3 DEF AheadIn
<1>6. s \in ListedIn(U, c)
  BY <1>2
<1>7. IsFiniteSet(AheadIn(U, s, c))
  BY <1>4, <1>6, ListsAreFinite
<1>8. Cardinality(AheadIn(T, s, c)) <= Cardinality(AheadIn(U, s, c))
  BY ONLY <1>5, <1>7, FS_Subset
<1> QED BY <1>3, <1>6, <1>8

LEMMA WrittenKeeps ==
    ASSUME NEW T, NEW U, NEW t, NEW now, WrittenIn(T, U, t, now), NEW r, PagesAt(T, now, r)
    PROVE  PagesAt(U, now + 1, r)
<1>1. T \in Seq(Topics) /\ U \in Seq(Topics) /\ now \in Nat /\ U[t].last = now + 1
  BY DEF WrittenIn
<1>2. /\ \A x \in DOMAIN T : T[x].last <= now
      /\ TimesDifferIn(T) /\ ReaderTypeOf(r) /\ ReadsOnIn(T, now, r)
  BY DEF PagesAt
<1>3. \A x \in DOMAIN U : x = t \/ (x \in DOMAIN T /\ U[x] = T[x])
  BY DEF WrittenIn
<1>4. \A x \in DOMAIN U : x # t => U[x].last \in Nat /\ U[x].last <= now
  BY <1>1, <1>2, <1>3, LastIsNat
<1>5. \A x \in DOMAIN U : U[x].last <= now + 1
  <2> SUFFICES ASSUME NEW x \in DOMAIN U PROVE U[x].last <= now + 1
    OBVIOUS
  <2>1. CASE x = t
    BY <2>1, <1>1
  <2>2. CASE x # t
    BY <2>2, <1>1, <1>4
  <2> QED BY <2>1, <2>2
<1>6. TimesDifferIn(U)
  <2> SUFFICES ASSUME NEW x \in DOMAIN U, NEW y \in DOMAIN U, U[x].last = U[y].last PROVE x = y
    BY DEF TimesDifferIn
  <2>1. CASE x = t /\ y # t
    BY <2>1, <1>1, <1>4
  <2>2. CASE x # t /\ y = t
    BY <2>2, <1>1, <1>4
  <2>3. CASE x # t /\ y # t
    <3>1. x \in DOMAIN T /\ y \in DOMAIN T /\ T[x].last = T[y].last
      BY <2>3, <1>3
    <3> QED BY <3>1, <1>2 DEF TimesDifferIn
  <2> QED BY <2>1, <2>2, <2>3
<1>7. ReadsOnIn(U, now + 1, r)
  <2> SUFFICES ASSUME r.at \in {"reading", "end"}
               PROVE  /\ r.page # 0 /\ r.since <= now + 1
                      /\ r.began \subseteq ListedIn(U, r.category)
                      /\ \A s \in r.began :
                            \/ U[s].last > r.since \/ s \in r.seen
                            \/ r.at = "reading" /\ Cardinality(AheadIn(U, s, r.category)) >= Turned(r)
    BY DEF ReadsOnIn
  <2>1. /\ r.page # 0 /\ r.since <= now
        /\ r.began \subseteq ListedIn(T, r.category)
        /\ \A s \in r.began :
              \/ T[s].last > r.since \/ s \in r.seen
              \/ r.at = "reading" /\ Cardinality(AheadIn(T, s, r.category)) >= Turned(r)
    BY <1>2 DEF ReadsOnIn
  <2>2. r.since \in Nat /\ r.page \in Nat
    BY <1>2 DEF ReaderTypeOf
  <2>3. Turned(r) \in Int
    BY <2>2, BoundsAssumption DEF Turned
  <2>4. r.since < now + 1
    BY <1>1, <2>1, <2>2
  <2>5. r.began \subseteq ListedIn(U, r.category)
    BY <2>1 DEF ListedIn, WrittenIn
  <2>6. ASSUME NEW s \in r.began
        PROVE  \/ U[s].last > r.since \/ s \in r.seen
               \/ r.at = "reading" /\ Cardinality(AheadIn(U, s, r.category)) >= Turned(r)
    <3>1. CASE s = t
      BY <3>1, <1>1, <2>2, <2>4
    <3>2. CASE s # t
      <4>1. s \in ListedIn(T, r.category) /\ s \in ListedIn(U, r.category)
        BY <2>1, <2>5
      <4>2. /\ U[s].last = T[s].last
            /\ Cardinality(AheadIn(T, s, r.category)) <= Cardinality(AheadIn(U, s, r.category))
        BY <4>1, <3>2, <1>2, WrittenAhead
      <4>3. /\ Cardinality(AheadIn(T, s, r.category)) \in Nat
            /\ Cardinality(AheadIn(U, s, r.category)) \in Nat
        BY <4>1, <1>1, ListsAreFinite
      <4> QED BY <2>1, <2>3, <4>2, <4>3
    <3> QED BY <3>1, <3>2
  <2> QED BY <1>1, <2>1, <2>2, <2>4, <2>5, <2>6
<1> QED BY <1>2, <1>5, <1>6, <1>7 DEF PagesAt

\* The rows of the next page are those of NewTopics; there are none behind the end only.
RowsIn(T, r) ==
    {t \in ListedIn(T, r.category) :
        Cardinality(AheadIn(T, t, r.category)) \in Turned(r) .. Turned(r) + PerPage - 1}

LEMMA RowsAreIn == NewTopics(reader.page, reader.category) = RowsIn(topics, reader)
BY DEF NewTopics, RowsIn, Turned, Listed, Ahead, ListedIn, AheadIn

LEMMA LastPageIsEnd ==
    ASSUME NEW T \in Seq(Topics), TimesDifferIn(T), NEW r, Turned(r) \in Nat, RowsIn(T, r) = {}
    PROVE  \A t \in ListedIn(T, r.category) : Cardinality(AheadIn(T, t, r.category)) < Turned(r)
<1> DEFINE c == r.category
           turned == Turned(r)
<1>1. PerPage \in Nat /\ PerPage > 0
  BY BoundsAssumption
<1> SUFFICES ASSUME NEW t \in ListedIn(T, c), ~(Cardinality(AheadIn(T, t, c)) < turned) PROVE FALSE
  OBVIOUS
<1>2. /\ Cardinality(AheadIn(T, t, c)) \in Nat /\ Cardinality(ListedIn(T, c)) \in Nat
      /\ Cardinality(AheadIn(T, t, c)) < Cardinality(ListedIn(T, c))
  BY ListsAreFinite
<1>3. turned \in Nat /\ turned < Cardinality(ListedIn(T, c))
  BY <1>2
<1> HIDE DEF c, turned
<1>4. PICK s \in ListedIn(T, c) : Cardinality(AheadIn(T, s, c)) = turned
  BY <1>3, PlacesAreTaken
<1>5. turned \in turned .. turned + PerPage - 1
  BY <1>1, <1>3
<1> QED BY <1>4, <1>5 DEF RowsIn, c, turned

\* What a page does to what has been turned.
LEMMA PageTurns ==
    ASSUME NEW p \in Nat, p # 0
    PROVE  (p - 1) * PerPage \in Nat /\ ((p + 1) - 1) * PerPage = (p - 1) * PerPage + PerPage
<1>1. PICK k \in Nat : p = k + 1
  BY Z3
<1>2. PerPage \in Nat
  BY BoundsAssumption
<1>3. p - 1 = k /\ (p + 1) - 1 = k + 1
  BY <1>1
<1>4. k * PerPage \in Nat /\ (k + 1) * PerPage = k * PerPage + PerPage
  BY <1>2
<1> QED BY <1>3, <1>4

LEMMA TurnKeeps ==
    ASSUME NEW T \in Seq(Topics), NEW now \in Nat, NEW r, PagesAt(T, now, r), r.at = "reading"
    PROVE  IF RowsIn(T, r) = {} THEN PagesAt(T, now, [r EXCEPT !.at = "end"])
           ELSE PagesAt(T, now, [r EXCEPT !.page = @ + 1, !.seen = @ \cup RowsIn(T, r)])
<1> DEFINE rows == RowsIn(T, r)
           c    == r.category
<1>1. /\ \A x \in DOMAIN T : T[x].last <= now
      /\ TimesDifferIn(T) /\ ReaderTypeOf(r)
  BY DEF PagesAt
<1>2. /\ r.page # 0 /\ r.since <= now
      /\ r.began \subseteq ListedIn(T, c)
      /\ \A s \in r.began :
            T[s].last > r.since \/ s \in r.seen \/ Cardinality(AheadIn(T, s, c)) >= Turned(r)
  BY DEF PagesAt, ReadsOnIn
<1>3. r.page \in Nat /\ r.since \in Nat /\ r.seen \subseteq Nat
  BY <1>1 DEF ReaderTypeOf
<1>4. Turned(r) \in Nat /\ PerPage \in Nat
  BY <1>2, <1>3, PageTurns, BoundsAssumption DEF Turned
<1>5. \A s \in r.began : Cardinality(AheadIn(T, s, c)) \in Nat
  BY <1>2, ListsAreFinite
<1>6. CASE rows = {}
  <2> DEFINE q == [r EXCEPT !.at = "end"]
  <2>1. /\ q.page = r.page /\ q.since = r.since /\ q.began = r.began /\ q.category = c
        /\ q.seen = r.seen /\ q.at = "end" /\ ReaderTypeOf(q)
    BY <1>1 DEF ReaderTypeOf
  <2>2. \A s \in r.began : Cardinality(AheadIn(T, s, c)) < Turned(r)
    BY <1>1, <1>2, <1>4, <1>6, LastPageIsEnd
  <2>3. \A s \in r.began : T[s].last > r.since \/ s \in r.seen
    BY <1>2, <1>4, <1>5, <2>2
  <2> HIDE DEF q, c
  <2>4. ReadsOnIn(T, now, q)
    BY <1>2, <2>1, <2>3 DEF ReadsOnIn
  <2> QED BY <1>1, <1>6, <2>1, <2>4 DEF PagesAt, q
<1>7. CASE rows # {}
  <2> DEFINE q == [r EXCEPT !.page = @ + 1, !.seen = @ \cup rows]
  <2>1. rows \subseteq Nat
    BY DEF RowsIn, ListedIn
  <2> HIDE DEF rows
  <2>2. /\ q.page = r.page + 1 /\ q.since = r.since /\ q.began = r.began /\ q.category = c
        /\ q.seen = r.seen \cup rows /\ q.at = "reading"
    BY <1>1 DEF ReaderTypeOf
  <2>3. ReaderTypeOf(q)
    <3>4. r.page + 1 \in Nat
      BY ONLY <1>3
    <3>5. r.seen \cup rows \in SUBSET Nat
      BY ONLY <1>3, <2>1
    <3>1. r.seen \cup rows \in SUBSET Nat /\ r.page + 1 \in Nat
      BY <3>4, <3>5
    <3> DEFINE more == r.seen \cup rows
               next == r.page + 1
    <3>2. q = [r EXCEPT !.page = next, !.seen = more]
      BY <1>1, <3>1 DEF ReaderTypeOf
    <3>3. more \in SUBSET Nat /\ next \in Nat
      BY <3>1
    <3> HIDE DEF q, more, next
    <3> QED BY <1>1, <3>2, <3>3 DEF ReaderTypeOf
  <2> HIDE DEF q, c
  <2>4. Turned(q) = Turned(r) + PerPage /\ q.page # 0
    BY <1>2, <1>3, <2>2, PageTurns DEF Turned
  <2>5. ASSUME NEW s \in r.began
        PROVE  T[s].last > r.since \/ s \in r.seen \cup rows \/ Cardinality(AheadIn(T, s, c)) >= Turned(q)
    <3>1. CASE Cardinality(AheadIn(T, s, c)) >= Turned(r) /\ ~(Cardinality(AheadIn(T, s, c)) >= Turned(q))
      <4>1. Cardinality(AheadIn(T, s, c)) \in Turned(r) .. Turned(r) + PerPage - 1
        BY <1>4, <1>5, <2>4, <3>1
      <4> QED BY <1>2, <4>1 DEF RowsIn, rows, c
    <3>2. CASE ~(Cardinality(AheadIn(T, s, c)) >= Turned(r)) \/ Cardinality(AheadIn(T, s, c)) >= Turned(q)
      BY <1>2, <3>2
    <3> QED BY <3>1, <3>2
  <2>6. ReadsOnIn(T, now, q)
    BY <1>2, <2>2, <2>4, <2>5 DEF ReadsOnIn
  <2> QED BY <1>1, <1>7, <2>3, <2>6 DEF PagesAt, q, rows
<1> QED BY <1>6, <1>7

LEMMA OpenKeeps ==
    ASSUME NEW T \in Seq(Topics), NEW now \in Nat, NEW r, PagesAt(T, now, r),
           NEW c \in Categories \cup {0}
    PROVE  PagesAt(T, now, [page |-> 1, category |-> c, seen |-> {}, began |-> ListedIn(T, c),
                            since |-> now, at |-> "reading"])
<1> DEFINE q == [page |-> 1, category |-> c, seen |-> {}, began |-> ListedIn(T, c),
                 since |-> now, at |-> "reading"]
<1>1. ListedIn(T, c) \subseteq Nat
  BY DEF ListedIn
<1>2. ReaderTypeOf(q)
  BY <1>1 DEF ReaderTypeOf
<1>3. /\ q.page = 1 /\ q.category = c /\ q.seen = {} /\ q.began = ListedIn(T, c)
      /\ q.since = now /\ q.at = "reading"
  OBVIOUS
<1> HIDE DEF q
<1>4. Turned(q) = 0
  BY <1>3, BoundsAssumption DEF Turned
<1>5. \A s \in ListedIn(T, c) : Cardinality(AheadIn(T, s, c)) >= 0
  BY ListsAreFinite
<1>6. ReadsOnIn(T, now, q)
  BY <1>3, <1>4, <1>5 DEF ReadsOnIn
<1> QED BY <1>2, <1>6 DEF PagesAt, q

-----------------------------------------------------------------------------
(* Requests.                                                               *)

LEMMA FirstAreTopics == First \in Seq(Topics) /\ First # <<>>
BY FirstAssumption

USE UsersAssumption, TextsAssumption, CategoriesAssumption, BoundsAssumption, FirstAreTopics

TopicsStay ==
    /\ topics' \in Seq(Topics) /\ Len(topics) <= Len(topics')
    /\ \A t \in DOMAIN topics :
          /\ topics'[t].by = topics[t].by /\ topics'[t].text = topics[t].text
          /\ topics'[t].replies = topics[t].replies
             \/ \E r \in Replies : topics'[t].replies = Append(topics[t].replies, r)

-----------------------------------------------------------------------------
(* Types.                                                                  *)

LEMMA JobTypes ==
    ASSUME TypeOK, NEW w \in Workers
    PROVE  /\ job[w] \in Jobs /\ job[w].no \in 0 .. MaxJobs /\ job[w].at \in Calls
           /\ job[w].uid \in Users \cup {"nobody"} /\ job[w].text \in Seq(Names)
           /\ job[w].text \in Texts
           /\ job[w].topic \in Nat /\ job[w].mention \in Nat \ {0}
           /\ job[w].told \in Users \cup {"nobody"} /\ job[w].read \in Nat
           /\ job[w].answer \in Answers /\ job[w].lost \in BOOLEAN /\ job[w].there \in SUBSET Notes
<1>1. job[w] \in Jobs
  BY DEF TypeOK
<1>2. QED
  BY <1>1 DEF Jobs

LEMMA NotesTypes ==
    ASSUME TypeOK, NEW u \in Users
    PROVE  /\ notes[u] \in [rev : Nat, list : Seq(Notes)]
           /\ notes[u].rev \in Nat /\ notes[u].list \in Seq(Notes)
           /\ \A i \in DOMAIN notes[u].list : /\ notes[u].list[i].job \in 1 .. MaxJobs
                                              /\ notes[u].list[i].mention \in Nat
<1>1. notes[u] \in [rev : Nat, list : Seq(Notes)]
  BY DEF TypeOK
<1>2. notes[u].rev \in Nat /\ notes[u].list \in Seq(Notes)
  BY <1>1
<1>3. \A i \in DOMAIN notes[u].list : notes[u].list[i] \in Notes
  BY <1>2
<1>4. QED
  BY <1>1, <1>2, <1>3 DEF Notes

-----------------------------------------------------------------------------
(* A request that a step passes by.                                        *)

LEMMA AppendKeeps ==
    ASSUME NEW S, NEW s \in Seq(S), NEW e \in S
    PROVE  ToSet(s) \subseteq ToSet(Append(s, e)) /\ e \in ToSet(Append(s, e))
<1>1. /\ DOMAIN s = 1 .. Len(s) /\ DOMAIN Append(s, e) = 1 .. Len(s) + 1 /\ Len(s) \in Nat
      /\ \A i \in 1 .. Len(s) : Append(s, e)[i] = s[i]
      /\ Append(s, e)[Len(s) + 1] = e
  OBVIOUS
<1>2. \A i \in 1 .. Len(s) : i \in DOMAIN Append(s, e)
  BY <1>1
<1>3. Len(s) + 1 \in DOMAIN Append(s, e)
  BY <1>1
<1>4. QED
  BY <1>1, <1>2, <1>3 DEF ToSet

LEMMA StoredStays ==
    ASSUME IInv, TopicsStay, NEW v \in Workers, job'[v] = job[v] PROVE Stored(v)'
<1>1. Stored(v) /\ topics \in Seq(Topics) /\ topics' \in Seq(Topics) /\ Len(First) <= Len(topics)
      /\ First \in Seq(Topics)
  BY DEF IInv, TypeOK, Request, TopicsStay
<1>2. \A t \in DOMAIN topics : /\ t \in DOMAIN topics' /\ topics'[t].by = topics[t].by
                               /\ topics'[t].text = topics[t].text
  BY <1>1 DEF TopicsStay
<1>3. \A t \in DOMAIN topics : ToSet(topics[t].replies) \subseteq ToSet(topics'[t].replies)
  <2>1. SUFFICES ASSUME NEW t \in DOMAIN topics
                 PROVE  ToSet(topics[t].replies) \subseteq ToSet(topics'[t].replies)
    OBVIOUS
  <2>2. topics[t].replies \in Seq(Replies)
    <3>1. topics[t] \in Topics
      BY <1>1
    <3>2. QED
      BY <3>1 DEF Topics
  <2>3. CASE topics'[t].replies = topics[t].replies
    BY <2>3
  <2>4. ASSUME NEW r \in Replies, topics'[t].replies = Append(topics[t].replies, r)
        PROVE  ToSet(topics[t].replies) \subseteq ToSet(topics'[t].replies)
    BY <2>2, <2>4, AppendKeeps
  <2>5. QED
    BY <2>3, <2>4 DEF TopicsStay
<1>4. \A t \in DOMAIN First : t \in DOMAIN topics
  BY <1>1
<1>5. QED
  BY <1>1, <1>2, <1>3, <1>4 DEF Stored

\* Notifications are for a request, and for a mention.
LEMMA HadTypes ==
    ASSUME TypeOK, NEW u \in Users
    PROVE  /\ Had(u) \subseteq Notes
           /\ \A n \in Had(u) : n.job \in 1 .. MaxJobs /\ n.mention \in Nat
<1>1. ToSet(notes[u].list) \subseteq Notes
  BY NotesTypes DEF ToSet
<1>2. gone[u] \subseteq Notes
  BY DEF TypeOK
<1>3. Had(u) \subseteq Notes
  BY <1>1, <1>2 DEF Had
<1>4. QED
  BY <1>3 DEF Notes

\* Clearing takes nothing away of what somebody has had.
LEMMA HadCleared ==
    ASSUME NEW u \in Users, notes'[u].list = <<>>, gone'[u] = gone[u] \cup ToSet(notes[u].list)
    PROVE  Had(u)' = Had(u)
BY DEF Had, ToSet

\* The names only change from what they were when signing in.
NamesStay == \A u \in Users : names'[u] = names[u] \/ (names[u] = SignedIn[u] /\ names'[u] # SignedIn[u])

\* What has been told of a request stays so while nobody is told of it.
LEMMA TellsStays ==
    ASSUME NEW v \in Workers, Tells(v), NamesStay,
           \A u \in Users : \A n \in Had(u) \cup Had(u)' :
               n.job = job[v].no => n \in Had(u) /\ n \in Had(u)',
           job'[v].no = job[v].no, job'[v].text = job[v].text, job'[v].mention = job[v].mention,
           job[v].lost => job'[v].lost,
           job'[v].at \in Telling => job[v].at \in Telling /\ job[v].told \in Users
                                     /\ job'[v].told = job[v].told
    PROVE  Tells(v)'
<1>1. ASSUME NEW u \in Users, NEW m PROVE ToldOf(u, job[v], m)' <=> ToldOf(u, job[v], m)
  BY DEF ToldOf
<1>2. ASSUME NEW u \in Users, NEW text, text \in {SignedIn[u], names[u]}
      PROVE  text \in {SignedIn[u], names'[u]}
  BY <1>2 DEF NamesStay
<1>3. ToldAreMeant(job[v])'
  <2>1. SUFFICES ASSUME NEW u \in Users, NEW n \in Had(u)', n.job = job[v].no
                 PROVE  /\ n.mention \in DOMAIN job[v].text
                        /\ job[v].text[n.mention] \in {SignedIn[u], names'[u]}
                        /\ \A x \in Users : ToldOf(x, job[v], n.mention)' => u = x
    BY DEF ToldAreMeant
  <2>2. n \in Had(u) /\ ToldAreMeant(job[v])
    BY <2>1 DEF Tells
  <2>3. /\ n.mention \in DOMAIN job[v].text
        /\ job[v].text[n.mention] \in {SignedIn[u], names[u]}
        /\ \A x \in Users : ToldOf(x, job[v], n.mention) => u = x
    BY <2>1, <2>2 DEF ToldAreMeant
  <2>4. QED
    BY <1>1, <1>2, <2>3
<1>4. \A name : Kept(name)' => Kept(name)
  BY DEF Kept, NamesStay
<1>5. job'[v].at \in Telling => job'[v].text[job'[v].mention]
                                   \in {SignedIn[job'[v].told], names'[job'[v].told]}
  BY <1>2 DEF Tells
<1>6. ~job'[v].lost => \A m \in DOMAIN job[v].text :
         m < job[v].mention /\ Kept(job[v].text[m])' => \E u \in Users : ToldOf(u, job[v], m)'
  <2>1. SUFFICES ASSUME ~job[v].lost, NEW m \in DOMAIN job[v].text,
                        m < job[v].mention, Kept(job[v].text[m])'
                 PROVE  \E u \in Users : ToldOf(u, job[v], m)'
    OBVIOUS
  <2>2. Kept(job[v].text[m])
    BY <2>1 DEF Kept, NamesStay
  <2>3. QED
    BY <1>1, <2>1, <2>2 DEF Tells
<1>7. QED
  BY <1>3, <1>5, <1>6 DEF Tells, Kept

\* A notification comes in front of those that there are.
LEMMA AddedNotes ==
    ASSUME TypeOK, NEW u \in Users, NEW n \in Notes, notes'[u] = AddNotification(notes[u], n)
    PROVE  /\ notes'[u] \in [rev : Nat, list : Seq(Notes)]
           /\ notes'[u].rev = notes[u].rev + 1
           /\ DOMAIN notes'[u].list = 1 .. Len(notes[u].list) + 1
           /\ DOMAIN notes[u].list = 1 .. Len(notes[u].list) /\ Len(notes[u].list) \in Nat
           /\ notes'[u].list[1] = n
           /\ \A i \in DOMAIN notes[u].list : notes'[u].list[i + 1] = notes[u].list[i]
           /\ \A i \in DOMAIN notes'[u].list : i = 1 \/ i - 1 \in DOMAIN notes[u].list
<1> DEFINE list == notes[u].list
<1>1. notes[u].rev \in Nat /\ list \in Seq(Notes)
  BY NotesTypes
<1>2. notes'[u].rev = notes[u].rev + 1 /\ notes'[u].list = <<n>> \o list
      /\ notes'[u] = [rev |-> notes[u].rev + 1, list |-> <<n>> \o list]
  BY DEF AddNotification
<1>3. /\ <<n>> \o list \in Seq(Notes) /\ Len(<<n>> \o list) = Len(list) + 1
      /\ (<<n>> \o list)[1] = n
      /\ \A i \in 1 .. Len(list) : (<<n>> \o list)[i + 1] = list[i]
  BY <1>1
<1>4. Len(list) \in Nat /\ DOMAIN list = 1 .. Len(list)
      /\ DOMAIN (<<n>> \o list) = 1 .. Len(list) + 1
  BY <1>1, <1>3
<1>5. notes'[u] \in [rev : Nat, list : Seq(Notes)]
  BY <1>1, <1>2, <1>3
<1>6. \A i \in DOMAIN (<<n>> \o list) : i = 1 \/ i - 1 \in DOMAIN list
  BY <1>4
<1> HIDE DEF list
<1>7. QED
  BY <1>2, <1>3, <1>4, <1>5, <1>6 DEF list

\* It is one more that somebody has had.
LEMMA HadAdded ==
    ASSUME TypeOK, NEW u \in Users, NEW n \in Notes, notes'[u] = AddNotification(notes[u], n),
           gone'[u] = gone[u]
    PROVE  Had(u)' = Had(u) \cup {n}
<1> DEFINE old == notes[u].list
           new == notes'[u].list
<1>1. /\ DOMAIN new = 1 .. Len(old) + 1 /\ DOMAIN old = 1 .. Len(old) /\ Len(old) \in Nat
      /\ new[1] = n
      /\ \A i \in DOMAIN old : new[i + 1] = old[i]
      /\ \A i \in DOMAIN new : i = 1 \/ i - 1 \in DOMAIN old
  BY AddedNotes
<1> HIDE DEF old, new
<1>2. ASSUME NEW x \in ToSet(new) PROVE x \in ToSet(old) \cup {n}
  <2>1. PICK i \in DOMAIN new : new[i] = x
    BY <1>2 DEF ToSet
  <2>2. ASSUME i # 1 PROVE x = old[i - 1] /\ i - 1 \in DOMAIN old
    <3>1. i - 1 \in DOMAIN old /\ i \in Nat
      BY <1>1, <2>2
    <3>2. (i - 1) + 1 = i
      BY <3>1
    <3>3. QED
      BY <1>1, <2>1, <3>1, <3>2
  <2>3. QED
    BY <1>1, <2>1, <2>2 DEF ToSet
<1>3. ASSUME NEW x \in ToSet(old) PROVE x \in ToSet(new)
  <2>1. PICK i \in DOMAIN old : old[i] = x
    BY <1>3 DEF ToSet
  <2>2. i + 1 \in DOMAIN new
    BY <1>1
  <2>3. QED
    BY <1>1, <2>1, <2>2 DEF ToSet
<1>4. n \in ToSet(new)
  <2>1. 1 \in DOMAIN new
    BY <1>1
  <2>2. QED
    BY <1>1, <2>1 DEF ToSet
<1>5. ToSet(new) = ToSet(old) \cup {n}
  BY <1>2, <1>3, <1>4
<1>6. QED
  BY <1>5 DEF Had, old, new

\* What a step may do to the lists and the names, to a request that it passes by.
ListStays(u, v) ==
    \/ notes'[u] = notes[u] /\ gone'[u] = gone[u]
    \/ /\ \E n \in Notes : n.job # job[v].no /\ notes'[u] = AddNotification(notes[u], n)
       /\ gone'[u] = gone[u]
    \/ /\ notes'[u] = [rev |-> notes[u].rev + 1, list |-> <<>>]
       /\ gone'[u] = gone[u] \cup ToSet(notes[u].list)
WorldStays(v) == NamesStay /\ \A u \in Users : ListStays(u, v)

LEMMA OthersKeep ==
    ASSUME IInv, TopicsStay, NEW v \in Workers, job'[v] = job[v], WorldStays(v)
    PROVE  Request(v)'
<1>1. Request(v) /\ TypeOK
  BY DEF IInv
<1>2. Shape(v)'
  BY <1>1 DEF Request, Shape
<1>3. Stored(v)'
  BY StoredStays
<1>4. Clearing(v)'
  <2>1. SUFFICES ASSUME job[v].at = "saveClear"
                 PROVE  /\ job[v].read <= notes'[job[v].uid].rev
                        /\ job[v].read = notes'[job[v].uid].rev =>
                              ToSet(notes'[job[v].uid].list) \subseteq job[v].there
    BY DEF Clearing
  <2>2. job[v].uid \in Users /\ job[v].read \in Nat
    BY <1>1, <2>1, JobTypes DEF Request, Shape
  <2>3. PICK u \in Users : u = job[v].uid
    BY <2>2
  <2>4. /\ notes[u].rev \in Nat /\ job[v].read <= notes[u].rev
        /\ job[v].read = notes[u].rev => ToSet(notes[u].list) \subseteq job[v].there
    BY <1>1, <2>1, <2>3, NotesTypes DEF Request, Clearing
  <2>5. notes'[u] = notes[u] \/ notes'[u].rev = notes[u].rev + 1
    <3>1. \/ notes'[u] = notes[u]
          \/ \E n \in Notes : notes'[u] = AddNotification(notes[u], n)
          \/ notes'[u] = [rev |-> notes[u].rev + 1, list |-> <<>>]
      BY DEF WorldStays, ListStays
    <3>2. ASSUME NEW n \in Notes, notes'[u] = AddNotification(notes[u], n)
          PROVE  notes'[u].rev = notes[u].rev + 1
      BY <1>1, <3>2, AddedNotes
    <3>3. QED
      BY <3>1, <3>2
  <2>6. QED
    BY <2>2, <2>3, <2>4, <2>5
<1>5. Tells(v)'
  <2>1. ASSUME NEW u \in Users, NEW n \in Had(u) \cup Had(u)', n.job = job[v].no
        PROVE  n \in Had(u) /\ n \in Had(u)'
    <3>1. CASE notes'[u] = notes[u] /\ gone'[u] = gone[u]
      BY <2>1, <3>1 DEF Had
    <3>2. ASSUME NEW x \in Notes, x.job # job[v].no, notes'[u] = AddNotification(notes[u], x),
                 gone'[u] = gone[u]
          PROVE  n \in Had(u) /\ n \in Had(u)'
      BY <1>1, <2>1, <3>2, HadAdded
    <3>3. CASE /\ notes'[u] = [rev |-> notes[u].rev + 1, list |-> <<>>]
               /\ gone'[u] = gone[u] \cup ToSet(notes[u].list)
      <4>1. notes'[u].list = <<>>
        BY <3>3
      <4>2. QED
        BY <2>1, <3>3, <4>1, HadCleared
    <3>4. QED
      BY <3>1, <3>2, <3>3 DEF WorldStays, ListStays
  <2>2. Tells(v) /\ NamesStay
    BY <1>1 DEF Request, WorldStays
  <2>3. job[v].at \in Telling => job[v].told \in Users
    BY <1>1 DEF Request, Shape
  <2>4. QED
    BY <2>1, <2>2, <2>3, TellsStays
<1>6. QED
  BY <1>2, <1>3, <1>4, <1>5 DEF Request

-----------------------------------------------------------------------------
(* A step of one request.                                                  *)

\* Each worker serves a request of its own; it is enough to look at the one that
\* the step is of.
LEMMA StepKeeps ==
    ASSUME IInv, NEW w \in Workers, NEW j \in Jobs, job' = [job EXCEPT ![w] = j],
           j.no = job[w].no, UNCHANGED <<names, jobs>>, TopicsStay, clock' \in Nat,
           notes' \in [Users -> [rev : Nat, list : Seq(Notes)]],
           gone' \in [Users -> SUBSET Notes], NotesDiffer',
           \A u \in Users : \A n \in Had(u)' : n.job <= jobs,
           \A v \in Workers \ {w} : WorldStays(v),
           Request(w)'
    PROVE  IInv'
<1>1. /\ job' \in [Workers -> Jobs] /\ job'[w] = j
      /\ \A v \in Workers \ {w} : job'[v] = job[v]
  BY DEF IInv, TypeOK
<1>2. TypeOK' /\ Len(First) <= Len(topics')
  BY SMTT(30), <1>1 DEF IInv, TypeOK, TopicsStay
<1>4. NumbersDiffer'
  <2>1. \A v \in Workers : job'[v].no = job[v].no
    BY <1>1
  <2>2. QED
    BY <2>1 DEF IInv, NumbersDiffer
<1>5. \A v \in Workers \ {w} : Request(v)'
  BY <1>1, OthersKeep
<1>6. QED
  BY <1>2, <1>4, <1>5 DEF IInv

\* The lists of notifications stay.
LEMMA QuietStep ==
    ASSUME IInv, NEW w \in Workers, NEW j \in Jobs, job' = [job EXCEPT ![w] = j],
           j.no = job[w].no, UNCHANGED <<names, jobs, notes, gone>>, TopicsStay, clock' \in Nat,
           Request(w)'
    PROVE  IInv'
<1>1. /\ notes' \in [Users -> [rev : Nat, list : Seq(Notes)]]
      /\ gone' \in [Users -> SUBSET Notes]
      /\ NotesDiffer'
      /\ \A u \in Users : \A n \in Had(u)' : n.job <= jobs
  BY DEF IInv, TypeOK, NotesDiffer, NumbersDiffer, Had
<1>2. \A v \in Workers \ {w} : WorldStays(v)
  BY DEF WorldStays, ListStays, NamesStay
<1>3. QED
  BY <1>1, <1>2, StepKeeps

\* So does what has been told of a request that does not tell yet.
LEMMA QuietTells ==
    ASSUME NEW w \in Workers, Request(w), UNCHANGED <<names, notes, gone>>,
           job'[w].no = job[w].no, job'[w].text = job[w].text, job'[w].mention = job[w].mention,
           job[w].lost => job'[w].lost,
           job'[w].at \in Telling => job[w].at \in Telling /\ job'[w].told = job[w].told
    PROVE  Tells(w)'
<1>1. \A u \in Users : Had(u)' = Had(u)
  BY DEF Had
<1>2. NamesStay
  BY DEF NamesStay
<1>3. Tells(w) /\ (job[w].at \in Telling => job[w].told \in Users)
  BY DEF Request, Shape
<1>4. QED
  BY <1>1, <1>2, <1>3, TellsStays

LEMMA TopicsUnchanged == ASSUME IInv, UNCHANGED topics PROVE TopicsStay
<1>1. topics \in Seq(Topics) /\ Len(topics) \in Nat
  BY DEF IInv, TypeOK
<1>2. QED
  BY <1>1 DEF TopicsStay

\* The topic is stored, the answer sent: all that is left is to look at mentions.
LEMMA AnsweredKeeps ==
    ASSUME IInv, NEW w \in Workers, job[w].at \in Posting,
           NEW what \in {"id", "post failed", "Post success"}, NEW link \in Nat,
           NEW lost \in BOOLEAN, Answered(w, what, link, lost),
           UNCHANGED <<names, jobs, notes, gone>>, TopicsStay, clock' \in Nat,
           what = "id" => /\ link \in DOMAIN topics'
                          /\ topics'[link].by = SignedIn[job[w].uid]
                          /\ topics'[link].text = job[w].text,
           what = "Post success" /\ ~lost /\ link \in DOMAIN First =>
               [by |-> SignedIn[job[w].uid], text |-> job[w].text] \in ToSet(topics'[link].replies)
    PROVE  IInv'
<1> DEFINE j == [job[w] EXCEPT !.at = "lookup", !.answer = what, !.topic = link,
                               !.read = 0, !.lost = lost]
<1>1. TypeOK /\ Request(w)
  BY DEF IInv
<1>2. job' = [job EXCEPT ![w] = j]
  BY <1>1 DEF Answered, TypeOK
<1>3. j \in Jobs
  <2>1. job[w] \in Jobs
    BY <1>1, JobTypes
  <2>2. "lookup" \in Calls /\ what \in Answers
    BY DEF Calls, Answers
  <2>3. QED
    BY <2>1, <2>2 DEF Jobs
<1>4. /\ j.at = "lookup" /\ j.answer = what /\ j.topic = link /\ j.lost = lost
      /\ j.no = job[w].no /\ j.op = job[w].op /\ j.uid = job[w].uid /\ j.text = job[w].text
      /\ j.mention = job[w].mention
  <2>1. job[w] \in Jobs
    BY <1>1, JobTypes
  <2>2. j.at = "lookup" /\ j.answer = what /\ j.topic = link
    BY Zenon, <2>1 DEF Jobs
  <2>3. j.lost = lost /\ j.no = job[w].no /\ j.op = job[w].op
    BY Zenon, <2>1 DEF Jobs
  <2>4. j.uid = job[w].uid /\ j.text = job[w].text /\ j.mention = job[w].mention
    BY Zenon, <2>1 DEF Jobs
  <2>5. QED
    BY <2>2, <2>3, <2>4
<1> HIDE DEF j
<1>5. job'[w] = j
  BY <1>1, <1>2 DEF TypeOK
<1>6. Shape(w)'
  BY <1>1, <1>4, <1>5 DEF Request, Shape, Posting, Telling
<1>7. Stored(w)'
  BY <1>4, <1>5 DEF Stored
<1>8. Clearing(w)'
  BY <1>4, <1>5 DEF Clearing
<1>9. ~job[w].lost
  BY <1>1 DEF Request, Shape
<1>10. Tells(w)'
  BY <1>1, <1>4, <1>5, <1>9, QuietTells DEF Telling
<1>11. Request(w)'
  BY <1>6, <1>7, <1>8, <1>10 DEF Request
<1>12. QED
  BY <1>2, <1>3, <1>4, <1>11, QuietStep

-----------------------------------------------------------------------------
(* Requests begin.                                                         *)

LEMMA BeginKeeps ==
    ASSUME IInv, NEW w \in Workers, NEW j \in Jobs, Begin(w, j),
           j.text = <<>> \/ j.at \in Posting, j.mention = 1, ~j.lost,
           j.answer \in {"none", "refused"},
           \/ j.op = "topic" /\ j.at = "post" /\ j.uid \in Users /\ j.topic \in Categories
           \/ j.op = "reply" /\ j.at = "reply" /\ j.uid \in Users
           \/ j.op = "clear" /\ j.at = "clear" /\ j.uid \in Users
           \/ j.op = "refused" /\ j.at = "done"
    PROVE  IInv'
<1> DEFINE k == [j EXCEPT !.no = jobs + 1]
<1>1. TypeOK /\ NumbersDiffer /\ jobs \in Nat /\ MaxJobs \in Nat
  BY DEF IInv, TypeOK
<1>2. job' = [job EXCEPT ![w] = k] /\ jobs' = jobs + 1 /\ jobs' \in 0 .. MaxJobs
      /\ UNCHANGED <<topics, notes, names, clock, gone>>
  BY <1>1 DEF Begin, TypeOK
<1>3. /\ k.no = jobs + 1 /\ k.at = j.at /\ k.op = j.op /\ k.uid = j.uid /\ k.text = j.text
      /\ k.topic = j.topic /\ k.mention = 1 /\ ~k.lost /\ k.answer = j.answer
      /\ k.no # 0
  BY <1>1, <1>2 DEF Jobs
<1>3a. k \in Jobs
  <2>1. jobs + 1 \in 0 .. MaxJobs
    BY <1>2
  <2>2. QED
    BY <2>1 DEF Jobs
<1> HIDE DEF k
<1>4. /\ job' \in [Workers -> Jobs] /\ job'[w] = k
      /\ \A v \in Workers \ {w} : job'[v] = job[v]
  BY <1>1, <1>2, <1>3a DEF TypeOK
<1>5. TopicsStay
  BY <1>2, TopicsUnchanged
<1>5a. \A u \in Users : Had(u)' = Had(u)
  BY <1>2 DEF Had
<1>6. Tells(w)'
  <2>1. \A u \in Users : \A n \in Had(u)' : n.job # job'[w].no
    <3>1. \A u \in Users : \A n \in Had(u) : n.job <= jobs /\ n.job \in Nat
      BY <1>1, HadTypes DEF NumbersDiffer
    <3>2. QED
      BY <1>1, <1>3, <1>4, <1>5a, <3>1
  <2>2. job'[w].at \notin Telling
    BY <1>3, <1>4 DEF Telling, Posting
  <2>3. \A m \in DOMAIN job'[w].text : ~ m < 1
    <3>1. job'[w].text \in Seq(Names)
      <4>1. job'[w].text \in Texts
        BY <1>3, <1>4 DEF Jobs
      <4>2. QED
        BY <4>1
    <3>2. QED
      BY <3>1
  <2>4. ToldAreMeant(job[w])'
    BY <2>1 DEF ToldAreMeant
  <2>5. QED
    BY <1>3, <1>4, <2>1, <2>2, <2>3, <2>4 DEF Tells
<1>7. Shape(w)'
  <2>1. Len(k.text) < k.mention \/ k.at \in Posting
    BY <1>3
  <2>2. QED
    BY <1>3, <1>4, <2>1 DEF Shape, Posting, Telling
<1>8. Stored(w)' /\ Clearing(w)'
  BY <1>3, <1>4 DEF Stored, Clearing
<1>9. \A v \in Workers \ {w} : Request(v)'
  <2>1. \A v \in Workers : WorldStays(v)
    BY <1>2 DEF WorldStays, ListStays, NamesStay
  <2>2. QED
    BY <1>4, <1>5, <2>1, OthersKeep
<1>10. NumbersDiffer'
  <2>1. \A v \in Workers : job[v].no \in Nat
    BY <1>1, JobTypes
  <2>2. \A v \in Workers \ {w} : job'[v].no <= jobs
    BY <1>1, <1>4 DEF NumbersDiffer
  <2>3. \A u \in Users : \A n \in Had(u) : n.job \in Nat
    BY <1>1, HadTypes
  <2>4. \A u \in Users : \A n \in Had(u)' : n.job <= jobs'
    BY <1>1, <1>2, <1>5a, <2>3 DEF NumbersDiffer
  <2>5. QED
    BY <1>1, <1>2, <1>3, <1>4, <2>1, <2>2, <2>4 DEF NumbersDiffer
<1>11. QED
  <2>1. TypeOK'
    <3>1. TypeOK
      BY DEF IInv
    <3>2. QED
      BY <1>2, <1>4, <3>1 DEF TypeOK
  <2>2. NotesDiffer'
    <3>1. NotesDiffer /\ notes' = notes /\ gone' = gone
      BY <1>2 DEF IInv
    <3>2. QED
      BY <3>1 DEF NotesDiffer
  <2>3. Len(First) <= Len(topics')
    BY <1>2 DEF IInv
  <2>4. QED
    BY <1>6, <1>7, <1>8, <1>9, <1>10, <2>1, <2>2, <2>3 DEF IInv, Request

LEMMA ArrivesKeeps == ASSUME IInv, NEW w \in Workers, Arrives(w) PROVE IInv'
<1>1. Idle \in Jobs
  BY DEF Idle, Jobs, Calls, Answers
<1>2. /\ UsersNow \subseteq Users /\ TextsNow \subseteq Texts
      /\ CategoriesNow \subseteq Categories /\ TopicsNow \subseteq Nat
  <2>1. First[1] \in Topics
    BY FirstAssumption
  <2>2. topics \in Seq(Topics) /\ Len(topics) \in Nat
    BY DEF IInv, TypeOK
  <2>3. First[1].category \in Categories
    BY <2>1 DEF Topics
  <2>4. DOMAIN topics \subseteq Nat
    BY <2>2
  <2>5. QED
    BY <2>2, <2>3, <2>4 DEF UsersNow, TextsNow, CategoriesNow, TopicsNow
<1>3. Categories \subseteq Nat
  OBVIOUS
<1>4. CASE NewTopic(w)
  <2>1. PICK u \in Users, x \in Texts, c \in Categories :
           Begin(w, [Idle EXCEPT !.op = "topic", !.at = "post", !.uid = u,
                                 !.text = x, !.topic = c])
    BY <1>2, <1>4 DEF NewTopic
  <2> DEFINE j == [Idle EXCEPT !.op = "topic", !.at = "post", !.uid = u, !.text = x, !.topic = c]
  <2>2. j \in Jobs
    BY <1>1, <1>3 DEF Jobs, Calls
  <2>3. /\ j.op = "topic" /\ j.at = "post" /\ j.uid = u /\ j.topic = c /\ j.mention = 1
        /\ ~j.lost /\ j.answer = "none"
    BY DEF Idle
  <2>4. Begin(w, j)
    BY <2>1
  <2> HIDE DEF j
  <2>5. QED
    BY <2>2, <2>3, <2>4, BeginKeeps DEF Posting
<1>5. CASE NewReply(w)
  <2>1. PICK u \in Users, x \in Texts, k \in Nat :
           Begin(w, [Idle EXCEPT !.op = "reply", !.at = "reply", !.uid = u,
                                 !.text = x, !.topic = k])
    BY <1>2, <1>5 DEF NewReply
  <2> DEFINE j == [Idle EXCEPT !.op = "reply", !.at = "reply", !.uid = u, !.text = x, !.topic = k]
  <2>2. j \in Jobs
    BY <1>1 DEF Jobs, Calls
  <2>3. /\ j.op = "reply" /\ j.at = "reply" /\ j.uid = u /\ j.mention = 1
        /\ ~j.lost /\ j.answer = "none"
    BY DEF Idle
  <2>4. Begin(w, j)
    BY <2>1
  <2> HIDE DEF j
  <2>5. QED
    BY <2>2, <2>3, <2>4, BeginKeeps DEF Posting
<1>6. CASE Clear(w)
  <2>1. PICK u \in Users : Begin(w, [Idle EXCEPT !.op = "clear", !.at = "clear", !.uid = u])
    BY <1>6 DEF Clear
  <2> DEFINE j == [Idle EXCEPT !.op = "clear", !.at = "clear", !.uid = u]
  <2>2. j \in Jobs
    BY <1>1 DEF Jobs, Calls
  <2>3. /\ j.op = "clear" /\ j.at = "clear" /\ j.uid = u /\ j.mention = 1 /\ j.text = <<>>
        /\ ~j.lost /\ j.answer = "none"
    BY DEF Idle
  <2>4. Begin(w, j)
    BY <2>1
  <2> HIDE DEF j
  <2>5. QED
    BY <2>2, <2>3, <2>4, BeginKeeps
<1>7. CASE Refuse(w)
  <2> DEFINE j == [Idle EXCEPT !.op = "refused", !.answer = "refused"]
  <2>1. j \in Jobs
    BY <1>1 DEF Jobs, Answers
  <2>2. /\ j.op = "refused" /\ j.at = "done" /\ j.mention = 1 /\ j.text = <<>>
        /\ ~j.lost /\ j.answer = "refused"
    BY DEF Idle
  <2>3. Begin(w, j)
    BY <1>7 DEF Refuse
  <2> HIDE DEF j
  <2>4. QED
    BY <2>1, <2>2, <2>3, BeginKeeps
<1>8. QED
  BY <1>4, <1>5, <1>6, <1>7 DEF Arrives

-----------------------------------------------------------------------------
(* Topics and replies.                                                     *)

LEMMA DocumentType ==
    ASSUME IInv, NEW w \in Workers, job[w].at = "post"
    PROVE  Document(job[w]) \in Topics
<1>1. /\ TypeOK /\ job[w].uid \in Users /\ job[w].topic \in Categories
  BY DEF IInv, Request, Shape, Posting
<1>2. job[w].text \in Texts /\ clock \in Nat /\ <<>> \in Seq(Replies)
  BY <1>1, JobTypes DEF TypeOK
<1>3. QED
  BY SMTT(30), <1>1, <1>2 DEF Document, Topics

\* A topic is added behind those that there are.
LEMMA Appended ==
    ASSUME IInv, NEW d \in Topics, topics' = Append(topics, d)
    PROVE  /\ TopicsStay /\ Len(topics) + 1 \in DOMAIN topics' /\ Len(topics) + 1 \in Nat
           /\ topics'[Len(topics) + 1] = d
<1>1. topics \in Seq(Topics) /\ Len(topics) \in Nat
  BY DEF IInv, TypeOK
<1>2. /\ topics' \in Seq(Topics) /\ Len(topics') = Len(topics) + 1
      /\ topics'[Len(topics) + 1] = d
      /\ \A t \in 1 .. Len(topics) : topics'[t] = topics[t]
  BY <1>1
<1>3. DOMAIN topics = 1 .. Len(topics) /\ DOMAIN topics' = 1 .. Len(topics) + 1
  BY <1>1, <1>2
<1>4. QED
  BY <1>1, <1>2, <1>3 DEF TopicsStay

\* A reply is added behind those of its topic, which are those that were read.
LEMMA AddReplyAdds ==
    ASSUME NEW d \in Topics, NEW j \in Jobs, j.uid \in Users, clock \in Nat,
           Len(d.replies) = j.read
    PROVE  LET e    == AddReplyX(d, j)
               mine == [by |-> SignedIn[j.uid], text |-> j.text]
           IN /\ e \in Topics /\ e.by = d.by /\ e.text = d.text
              /\ mine \in Replies /\ e.replies = Append(d.replies, mine)
              /\ mine \in ToSet(e.replies)
<1> DEFINE mine == [by |-> SignedIn[j.uid], text |-> j.text]
           all  == Append(d.replies, mine)
<1>1. d.replies \in Seq(Replies) /\ clock + 1 \in Nat
  BY DEF Topics
<1>2. mine \in Replies
  BY DEF Replies, Jobs
<1>3. SubSeq(d.replies, 1, j.read) = d.replies
  BY <1>1
<1>4. AddReplyX(d, j) = [d EXCEPT !.replies = all, !.last = clock + 1]
  BY <1>3 DEF AddReplyX
<1>5. all = Append(d.replies, mine) /\ all \in Seq(Replies) /\ mine \in ToSet(all)
  BY <1>1, <1>2, AppendKeeps
<1> HIDE DEF all
<1>6. PICK r \in Seq(Replies), n \in Nat : r = all /\ n = clock + 1
  BY <1>1, <1>5
<1>7. AddReplyX(d, j) = [d EXCEPT !.replies = r, !.last = n]
  BY <1>4, <1>6
<1>8. r \in Seq(Replies) /\ n \in Nat
  BY <1>6
<1>9. AddReplyX(d, j) \in Topics /\ AddReplyX(d, j).by = d.by /\ AddReplyX(d, j).text = d.text
      /\ AddReplyX(d, j).replies = r
  BY <1>7, <1>8 DEF Topics
<1>10. QED
  BY <1>2, <1>5, <1>6, <1>9

LEMMA Replied ==
    ASSUME IInv, NEW w \in Workers, job[w].at = "saveReply",
           Len(topics[job[w].topic].replies) = job[w].read,
           topics' = [topics EXCEPT ![job[w].topic] = AddReplyX(@, job[w])]
    PROVE  /\ TopicsStay
           /\ [by |-> SignedIn[job[w].uid], text |-> job[w].text]
              \in ToSet(topics'[job[w].topic].replies)
<1> DEFINE k    == job[w].topic
           mine == [by |-> SignedIn[job[w].uid], text |-> job[w].text]
           e    == AddReplyX(topics[k], job[w])
<1>1. /\ TypeOK /\ job[w] \in Jobs /\ job[w].uid \in Users /\ k \in DOMAIN topics
      /\ clock \in Nat
  BY JobTypes DEF IInv, Request, Shape, Stored, Posting, TypeOK
<1>2. topics \in Seq(Topics) /\ topics[k] \in Topics
  BY <1>1 DEF TypeOK
<1>3. /\ e \in Topics /\ e.by = topics[k].by /\ e.text = topics[k].text
      /\ mine \in Replies /\ e.replies = Append(topics[k].replies, mine)
      /\ mine \in ToSet(e.replies)
  BY <1>1, <1>2, AddReplyAdds
<1>4. topics' = [topics EXCEPT ![k] = e]
  OBVIOUS
<1> HIDE DEF k, mine, e
<1>5. topics \in [1 .. Len(topics) -> Topics] /\ Len(topics) \in Nat
      /\ k \in 1 .. Len(topics) /\ DOMAIN topics = 1 .. Len(topics)
  BY <1>1, <1>2
<1>6. topics' \in [1 .. Len(topics) -> Topics]
  BY <1>3, <1>4, <1>5
<1>7. topics' \in Seq(Topics) /\ Len(topics') = Len(topics)
  BY <1>5, <1>6
<1>8. topics'[k] = e /\ \A t \in DOMAIN topics : t # k => topics'[t] = topics[t]
  BY <1>4, <1>5
<1>9. TopicsStay
  <2>1. \A t \in DOMAIN topics :
          /\ topics'[t].by = topics[t].by /\ topics'[t].text = topics[t].text
          /\ topics'[t].replies = topics[t].replies
             \/ \E r \in Replies : topics'[t].replies = Append(topics[t].replies, r)
    BY <1>3, <1>8
  <2>2. QED
    BY SMTT(100), <1>5, <1>7, <2>1 DEF TopicsStay
<1>10. QED
  BY <1>3, <1>8, <1>9 DEF k, mine

LEMMA PostsKeeps == ASSUME IInv, NEW w \in Workers, Posts(w) PROVE IInv' /\ TopicsStay
<1>1. TypeOK /\ Request(w) /\ clock \in Nat /\ clock + 1 \in Nat /\ Len(topics) + 1 # 0
  BY DEF IInv, TypeOK
<1>2. UNCHANGED topics => TopicsStay
  BY TopicsUnchanged
<1>3. TRUE \in BOOLEAN /\ FALSE \in BOOLEAN
  OBVIOUS
<1>4. 0 \in Nat /\ 0 \notin DOMAIN First
  OBVIOUS
<1>5. CASE StoreTopic(w)
  <2>1. job[w].at = "post" /\ topics' = Append(topics, Document(job[w])) /\ clock' = clock + 1
        /\ Answered(w, "id", Len(topics) + 1, FALSE) /\ UNCHANGED <<notes, names, jobs, gone>>
    BY <1>5 DEF StoreTopic
  <2>2. /\ TopicsStay /\ Len(topics) + 1 \in DOMAIN topics' /\ Len(topics) + 1 \in Nat
        /\ topics'[Len(topics) + 1] = Document(job[w])
    BY <2>1, DocumentType, Appended
  <2>3. /\ Document(job[w]).by = SignedIn[job[w].uid] /\ Document(job[w]).text = job[w].text
    BY DEF Document
  <2>4. QED
    BY <1>1, <1>3, <2>1, <2>2, <2>3, AnsweredKeeps DEF Posting
<1>6. CASE PostFails(w)
  <2>1. job[w].at = "post" /\ Answered(w, "post failed", 0, TRUE)
        /\ UNCHANGED <<notes, names, jobs, gone>>
    BY <1>6 DEF PostFails
  <2>2. TopicsStay /\ clock' \in Nat
    BY <1>1, <1>2, <1>6, DocumentType, Appended DEF PostFails
  <2>3. QED
    BY <1>3, <1>4, <2>1, <2>2, AnsweredKeeps DEF Posting
<1>7. CASE ReadTopic(w) /\ job[w].topic \notin DOMAIN topics
  <2>1. job[w].at = "reply" /\ Answered(w, "Post success", job[w].topic, FALSE)
        /\ UNCHANGED <<notes, names, jobs, gone, topics, clock>>
    BY <1>7 DEF ReadTopic
  <2>2. job[w].topic \notin DOMAIN First
    <3>1. DOMAIN First = 1 .. Len(First) /\ DOMAIN topics = 1 .. Len(topics)
          /\ Len(First) <= Len(topics) /\ Len(First) \in Nat /\ Len(topics) \in Nat
      BY <1>1 DEF IInv, TypeOK
    <3>2. QED
      BY <1>7, <3>1
  <2>3. job[w].topic \in Nat
    BY <1>1, JobTypes
  <2>4. QED
    BY <1>1, <1>2, <1>3, <2>1, <2>2, <2>3, AnsweredKeeps DEF Posting
<1>8. CASE ReadTopic(w) /\ job[w].topic \in DOMAIN topics
  <2> DEFINE j == [job[w] EXCEPT !.at = "saveReply", !.read = Len(topics[job[w].topic].replies)]
  <2>1. job[w].at = "reply" /\ job' = [job EXCEPT ![w] = j]
        /\ UNCHANGED <<notes, names, jobs, gone, topics, clock>>
    BY <1>1, <1>8 DEF ReadTopic, TypeOK
  <2>2. Len(topics[job[w].topic].replies) \in Nat
    <3>1. topics[job[w].topic] \in Topics
      BY <1>1, <1>8 DEF TypeOK
    <3>2. topics[job[w].topic].replies \in Seq(Replies)
      BY <3>1 DEF Topics
    <3>3. QED
      BY <3>2
  <2>3. j \in Jobs
    <3>1. job[w] \in Jobs /\ "saveReply" \in Calls
      BY <1>1, JobTypes DEF Calls
    <3>2. QED
      BY <2>2, <3>1 DEF Jobs
  <2>4. /\ j.at = "saveReply" /\ j.answer = job[w].answer /\ j.topic = job[w].topic
        /\ j.lost = job[w].lost /\ j.no = job[w].no /\ j.op = job[w].op /\ j.uid = job[w].uid
        /\ j.text = job[w].text /\ j.mention = job[w].mention
    BY <1>1, JobTypes DEF Jobs
  <2> HIDE DEF j
  <2>5. job'[w] = j
    BY <1>1, <2>1 DEF TypeOK
  <2>6. Shape(w)'
    BY <1>1, <2>1, <2>4, <2>5 DEF Request, Shape, Posting, Telling
  <2>7. Stored(w)' /\ Clearing(w)'
    BY <1>1, <1>8, <2>1, <2>4, <2>5 DEF Request, Stored, Clearing
  <2>8. Tells(w)'
    BY <1>1, <2>1, <2>4, <2>5, QuietTells DEF Telling
  <2>9. Request(w)'
    BY <2>6, <2>7, <2>8 DEF Request
  <2>10. QED
    BY <1>1, <1>2, <2>1, <2>3, <2>4, <2>9, QuietStep
<1>9. CASE SaveReply(w)
  <2>1. /\ job[w].at = "saveReply" /\ UNCHANGED <<notes, names, jobs, gone>>
        /\ \/ /\ Len(topics[job[w].topic].replies) = job[w].read
              /\ topics' = [topics EXCEPT ![job[w].topic] = AddReplyX(@, job[w])]
              /\ clock' = clock + 1
           \/ /\ Answered(w, "Post success", job[w].topic, TRUE)
              /\ UNCHANGED <<topics, clock>>
        /\ \E lost \in BOOLEAN : Answered(w, "Post success", job[w].topic, lost)
    BY <1>9 DEF SaveReply
  <2>2. PICK lost \in BOOLEAN :
           /\ Answered(w, "Post success", job[w].topic, lost)
           /\ \/ /\ Len(topics[job[w].topic].replies) = job[w].read
                 /\ topics' = [topics EXCEPT ![job[w].topic] = AddReplyX(@, job[w])]
                 /\ clock' = clock + 1
              \/ lost /\ UNCHANGED <<topics, clock>>
    BY <2>1
  <2>3. TopicsStay /\ clock' \in Nat
        /\ (~lost => [by |-> SignedIn[job[w].uid], text |-> job[w].text]
                     \in ToSet(topics'[job[w].topic].replies))
    BY <1>1, <1>2, <2>1, <2>2, Replied
  <2>4. job[w].topic \in Nat
    BY <1>1, JobTypes
  <2>5. job[w].at \in Posting
    BY <2>1 DEF Posting
  <2>6. Answered(w, "Post success", job[w].topic, lost)
    BY <2>2
  <2>7. UNCHANGED <<names, jobs, notes, gone>>
    BY <2>1
  <2>8. lost \in BOOLEAN
    BY <2>2
  <2>9. QED
    BY <2>3, <2>4, <2>5, <2>6, <2>7, <2>8, AnsweredKeeps
<1>10. CASE ReplyFails(w)
  <2>1. job[w].at \in Posting /\ Answered(w, "Post success", job[w].topic, TRUE)
        /\ UNCHANGED <<notes, names, jobs, gone, topics, clock>>
    BY <1>10 DEF ReplyFails, Posting
  <2>2. job[w].topic \in Nat
    BY <1>1, JobTypes
  <2>3. QED
    BY <1>1, <1>2, <1>3, <2>1, <2>2, AnsweredKeeps
<1>11. QED
  BY <1>5, <1>6, <1>7, <1>8, <1>9, <1>10 DEF Posts

-----------------------------------------------------------------------------
(* Mentions.                                                               *)

\* A mention that nothing was added for: nobody kept the name, or something failed.
LEMMA TellsNext ==
    ASSUME TypeOK, NEW w \in Workers, Tells(w), UNCHANGED <<notes, gone, names>>,
           job'[w].no = job[w].no, job'[w].text = job[w].text,
           job'[w].mention = job[w].mention + 1, job'[w].at \notin Telling,
           job[w].lost => job'[w].lost,
           ~job'[w].lost => ~Kept(job[w].text[job[w].mention])
    PROVE  Tells(w)'
<1> DEFINE mine == job[w].mention
           text == job[w].text
<1>1. \A u \in Users : Had(u)' = Had(u)
  BY DEF Had
<1>2. \A u \in Users : \A m : ToldOf(u, job[w], m)' <=> ToldOf(u, job[w], m)
  BY <1>1 DEF ToldOf
<1>3. mine \in Nat /\ text \in Seq(Names)
  BY JobTypes
<1>4. \A u \in Users : \A n \in Had(u) : n.mention \in Nat
  BY HadTypes
<1>5. \A m \in DOMAIN text : m \in Nat
  BY <1>3
<1>6. ToldAreMeant(job[w])'
  BY <1>1, <1>2 DEF Tells, ToldAreMeant
<1>7. \A u \in Users : \A n \in Had(u) : n.job = job[w].no => n.mention < mine + 1
  <2>1. \A u \in Users : \A n \in Had(u) : n.job = job[w].no => n.mention < mine
    BY DEF Tells
  <2>2. QED
    BY <1>3, <1>4, <2>1
<1>8. ~job'[w].lost => \A m \in DOMAIN text :
         m < mine + 1 /\ Kept(text[m]) => \E u \in Users : ToldOf(u, job[w], m)
  <2>1. \A m \in DOMAIN text : m < mine + 1 => m < mine \/ m = mine
    BY <1>3, <1>5
  <2>2. QED
    BY <2>1 DEF Tells
<1> HIDE DEF mine, text
<1>9. \A name : Kept(name)' <=> Kept(name)
  BY DEF Kept
<1>10. QED
  BY <1>1, <1>2, <1>6, <1>7, <1>8, <1>9 DEF Tells, mine, text

\* Somebody who is mentioned is told.
LEMMA TellsTold ==
    ASSUME TypeOK, NEW w \in Workers, Tells(w), NEW x \in Users,
           job[w].at \in Telling, job[w].told = x, job[w].mention <= Len(job[w].text),
           Note(job[w]) \in Notes,
           notes'[x] = AddNotification(notes[x], Note(job[w])),
           \A u \in Users \ {x} : notes'[u] = notes[u],
           UNCHANGED <<gone, names>>,
           job'[w].no = job[w].no, job'[w].text = job[w].text,
           job'[w].mention = job[w].mention + 1, job'[w].at \notin Telling,
           job[w].lost => job'[w].lost
    PROVE  Tells(w)'
<1> DEFINE n    == Note(job[w])
           mine == job[w].mention
           text == job[w].text
<1>1. n.job = job[w].no /\ n.mention = mine
  BY DEF Note
<1>2. /\ mine \in Nat /\ mine \in DOMAIN text /\ \A m \in DOMAIN text : m \in Nat
      /\ text[mine] \in {SignedIn[x], names[x]}
  <2>1. mine \in Nat \ {0} /\ text \in Seq(Names)
    BY JobTypes
  <2>2. mine \in DOMAIN text /\ \A m \in DOMAIN text : m \in Nat
    BY <2>1
  <2>3. QED
    BY <2>1, <2>2 DEF Tells
<1>3. Had(x)' = Had(x) \cup {n}
  BY HadAdded
<1>4. ASSUME NEW u \in Users \ {x} PROVE Had(u)' = Had(u)
  <2>1. notes'[u] = notes[u] /\ gone'[u] = gone[u]
    OBVIOUS
  <2>2. QED
    BY <2>1 DEF Had
<1>5. /\ ToldAreMeant(job[w])
      /\ \A u \in Users : \A e \in Had(u) : e.job = job[w].no => e.mention < mine /\ e.mention \in Nat
  BY HadTypes DEF Tells
<1> HIDE DEF n, mine, text
<1>6. ASSUME NEW u \in Users, NEW m
      PROVE  ToldOf(u, job[w], m)' <=> ToldOf(u, job[w], m) \/ (u = x /\ m = mine)
  BY <1>1, <1>3, <1>4 DEF ToldOf
<1>7. \A u \in Users : ~ToldOf(u, job[w], mine)
  BY <1>2, <1>5 DEF ToldOf
<1>8. ToldAreMeant(job[w])'
  <2>1. SUFFICES ASSUME NEW u \in Users, NEW e \in Had(u)', e.job = job[w].no
                 PROVE  /\ e.mention \in DOMAIN text /\ text[e.mention] \in {SignedIn[u], names[u]}
                        /\ \A v \in Users : ToldOf(v, job[w], e.mention)' => u = v
    BY DEF ToldAreMeant, text
  <2>2. CASE e \in Had(u)
    <3>1. /\ e.mention \in DOMAIN text /\ text[e.mention] \in {SignedIn[u], names[u]}
          /\ \A v \in Users : ToldOf(v, job[w], e.mention) => u = v
      BY <1>5, <2>1, <2>2 DEF ToldAreMeant, text
    <3>2. e.mention # mine
      BY <1>2, <1>5, <2>1, <2>2
    <3>3. QED
      BY <1>6, <3>1, <3>2
  <2>3. CASE e \notin Had(u)
    <3>1. u = x /\ e = n
      BY <1>3, <1>4, <2>3
    <3>2. QED
      BY <1>1, <1>2, <1>6, <1>7, <3>1
  <2>4. QED
    BY <2>2, <2>3
<1>9. \A u \in Users : \A e \in Had(u)' : e.job = job[w].no => e.mention < mine + 1
  <2>1. SUFFICES ASSUME NEW u \in Users, NEW e \in Had(u)', e.job = job[w].no
                 PROVE  e.mention < mine + 1
    OBVIOUS
  <2>2. e \in Had(u) \/ e.mention = mine
    BY <1>1, <1>3, <1>4
  <2>3. QED
    BY <1>2, <1>5, <2>1, <2>2
<1>10. ~job'[w].lost => \A m \in DOMAIN text :
          m < mine + 1 /\ Kept(text[m]) => \E u \in Users : ToldOf(u, job[w], m)'
  <2>1. SUFFICES ASSUME ~job[w].lost, NEW m \in DOMAIN text, m < mine + 1, Kept(text[m])
                 PROVE  \E u \in Users : ToldOf(u, job[w], m)'
    OBVIOUS
  <2>2. m < mine \/ m = mine
    BY <1>2, <2>1
  <2>3. CASE m = mine
    BY <1>6, <2>3
  <2>4. CASE m < mine
    <3>1. \E u \in Users : ToldOf(u, job[w], m)
      BY <2>1, <2>4 DEF Tells, mine, text
    <3>2. QED
      BY <1>6, <3>1
  <2>5. QED
    BY <2>2, <2>3, <2>4
<1>11. \A name : Kept(name)' <=> Kept(name)
  BY DEF Kept
<1>12. QED
  BY <1>8, <1>9, <1>10, <1>11 DEF Tells, mine, text

\* The fields after a mention is dealt with.
Dealt(w, j, lost) ==
    /\ job' = [job EXCEPT ![w] = j] /\ job'[w] = j
    /\ j.at = "lookup" /\ j.mention = job[w].mention + 1 /\ j.no = job[w].no
    /\ j.op = job[w].op /\ j.uid = job[w].uid /\ j.text = job[w].text /\ j.topic = job[w].topic
    /\ j.answer = job[w].answer /\ j.lost = (job[w].lost \/ lost)

LEMMA NextFields ==
    ASSUME TypeOK, NEW w \in Workers, NEW lost \in BOOLEAN, NextMention(w, lost)
    PROVE  \E j \in Jobs : Dealt(w, j, lost)
<1>1. PICK m \in Nat \ {0} : m = job[w].mention + 1
  BY JobTypes
<1>2. PICK l \in BOOLEAN : l = (job[w].lost \/ lost)
  BY JobTypes
<1> DEFINE j == [job[w] EXCEPT !.at = "lookup", !.mention = m, !.told = "nobody",
                               !.read = 0, !.lost = l]
<1>3. job' = [job EXCEPT ![w] = j]
  BY <1>1, <1>2 DEF NextMention, TypeOK
<1>4. job[w] \in Jobs /\ "lookup" \in Calls /\ m \in Nat \ {0} /\ l \in BOOLEAN
  BY <1>1, <1>2, JobTypes DEF Calls
<1>5. j \in Jobs
  BY <1>4 DEF Jobs
<1>6. /\ j.at = "lookup" /\ j.mention = m /\ j.no = job[w].no
      /\ j.op = job[w].op /\ j.uid = job[w].uid /\ j.text = job[w].text /\ j.topic = job[w].topic
      /\ j.answer = job[w].answer /\ j.lost = l
  BY <1>4 DEF Jobs
<1> HIDE DEF j
<1>7. job'[w] = j
  BY <1>3 DEF TypeOK
<1>8. QED
  BY <1>1, <1>2, <1>3, <1>5, <1>6, <1>7 DEF Dealt

\* A mention dealt with; what is left to show is whom this has told.
LEMMA NextKeeps ==
    ASSUME IInv, NEW w \in Workers, NEW lost \in BOOLEAN, NEW j \in Jobs, Dealt(w, j, lost),
           job[w].at \in Telling \cup {"lookup"}, job[w].mention <= Len(job[w].text),
           UNCHANGED <<topics, names, clock, jobs, gone>>, Tells(w)',
           notes' \in [Users -> [rev : Nat, list : Seq(Notes)]], NotesDiffer',
           \A u \in Users : \A n \in Had(u)' : n.job <= jobs,
           \A v \in Workers \ {w} : WorldStays(v)
    PROVE  IInv'
<1>1. TypeOK /\ Request(w) /\ clock \in Nat /\ gone \in [Users -> SUBSET Notes]
  BY DEF IInv, TypeOK
<1>2. Shape(w)'
  BY <1>1 DEF Dealt, Request, Shape, Posting, Telling
<1>3. Stored(w)'
  BY <1>1 DEF Dealt, Request, Stored
<1>4. Clearing(w)'
  BY DEF Dealt, Clearing
<1>5. Request(w)'
  BY <1>2, <1>3, <1>4 DEF Request
<1>6. TopicsStay
  BY TopicsUnchanged
<1>7. job' = [job EXCEPT ![w] = j] /\ j.no = job[w].no
  BY DEF Dealt
<1>8. QED
  BY <1>1, <1>5, <1>6, <1>7, StepKeeps

\* Nothing is added: somebody else is meant, or something failed.
LEMMA PassedKeeps ==
    ASSUME IInv, NEW w \in Workers, NEW lost \in BOOLEAN, NextMention(w, lost),
           job[w].at \in Telling \cup {"lookup"}, job[w].mention <= Len(job[w].text),
           UNCHANGED <<topics, notes, names, clock, jobs, gone>>,
           ~lost => ~Kept(job[w].text[job[w].mention])
    PROVE  IInv'
<1>1. TypeOK /\ Tells(w)
  BY DEF IInv, Request
<1>2. PICK j \in Jobs : Dealt(w, j, lost)
  BY <1>1, NextFields
<1>3. Tells(w)'
  <2>1. /\ job'[w].no = job[w].no /\ job'[w].text = job[w].text
        /\ job'[w].mention = job[w].mention + 1 /\ job'[w].at \notin Telling
        /\ job[w].lost => job'[w].lost
        /\ ~job'[w].lost => ~lost
    BY <1>2 DEF Dealt, Telling
  <2>2. QED
    BY <1>1, <2>1, TellsNext
<1>4. /\ notes' \in [Users -> [rev : Nat, list : Seq(Notes)]] /\ NotesDiffer'
      /\ \A u \in Users : \A n \in Had(u)' : n.job <= jobs
  BY DEF IInv, TypeOK, NotesDiffer, NumbersDiffer, Had
<1>5. \A v \in Workers \ {w} : WorldStays(v)
  BY DEF WorldStays, ListStays, NamesStay
<1>6. QED
  BY <1>2, <1>3, <1>4, <1>5, NextKeeps

OneEach(list, old) ==
    /\ \A i, k \in DOMAIN list :
          list[i].job = list[k].job /\ list[i].mention = list[k].mention => i = k
    /\ \A i \in DOMAIN list, n \in old : n.job = list[i].job => n.mention # list[i].mention

LEMMA NotesAreOneEach ==
    /\ NotesDiffer <=> \A u \in Users : OneEach(notes[u].list, gone[u])
    /\ NotesDiffer' <=> \A u \in Users : OneEach(notes'[u].list, gone'[u])
BY DEF NotesDiffer, OneEach

\* A notification is added.
LEMMA ToldKeeps ==
    ASSUME IInv, NEW w \in Workers, NEW lost \in BOOLEAN, NextMention(w, lost),
           job[w].at \in Telling,
           notes' = [notes EXCEPT ![job[w].told] = AddNotification(@, Note(job[w]))],
           UNCHANGED <<topics, names, clock, jobs, gone>>
    PROVE  IInv'
<1> DEFINE x == job[w].told
           n == Note(job[w])
<1>1. /\ TypeOK /\ Request(w) /\ x \in Users /\ job[w].mention <= Len(job[w].text)
      /\ job[w].no # 0 /\ job[w].no \in 0 .. MaxJobs /\ MaxJobs \in Nat
      /\ jobs \in Nat /\ job[w].mention \in Nat
  <2>1. TypeOK /\ Request(w) /\ jobs \in Nat /\ MaxJobs \in Nat
    BY DEF IInv, TypeOK
  <2>2. /\ x \in Users /\ job[w].mention <= Len(job[w].text) /\ job[w].no # 0
    BY <2>1 DEF Request, Shape, Telling
  <2>3. QED
    BY <2>1, <2>2, JobTypes
<1>2. n \in Notes /\ n.job = job[w].no /\ n.mention = job[w].mention
  <2>1. job[w].uid \in Users /\ job[w].topic \in Nat
    BY <1>1, JobTypes DEF Request, Shape, Telling
  <2>2. SignedIn[job[w].uid] \in Names /\ job[w].no \in 1 .. MaxJobs
    BY <1>1, <2>1
  <2>3. QED
    BY <1>1, <2>1, <2>2 DEF Note, Notes
<1>3. /\ notes'[x] = AddNotification(notes[x], n)
      /\ \A u \in Users \ {x} : notes'[u] = notes[u]
  BY <1>1 DEF TypeOK
<1>4. PICK j \in Jobs : Dealt(w, j, lost)
  BY <1>1, NextFields
<1>5. /\ job'[w].no = job[w].no /\ job'[w].text = job[w].text
      /\ job'[w].mention = job[w].mention + 1 /\ job'[w].at \notin Telling
      /\ job[w].lost => job'[w].lost
  BY <1>4 DEF Dealt, Telling
<1>6. Tells(w) /\ \A u \in Users : \A e \in Had(u) : e.job = job[w].no => e.mention # job[w].mention
  BY <1>1, HadTypes DEF Request, Tells
<1>7. PICK u \in Users : u = x
  BY <1>1
<1> HIDE DEF x
<1>8. Tells(w)'
  BY SMTT(100), <1>1, <1>2, <1>3, <1>5, <1>6, <1>7, TellsTold DEF x, n
<1>9. /\ notes'[u] \in [rev : Nat, list : Seq(Notes)]
      /\ DOMAIN notes'[u].list = 1 .. Len(notes[u].list) + 1
      /\ DOMAIN notes[u].list = 1 .. Len(notes[u].list) /\ Len(notes[u].list) \in Nat
      /\ notes'[u].list[1] = n
      /\ \A i \in DOMAIN notes[u].list : notes'[u].list[i + 1] = notes[u].list[i]
      /\ \A i \in DOMAIN notes'[u].list : i = 1 \/ i - 1 \in DOMAIN notes[u].list
  BY SMTT(100), <1>1, <1>2, <1>3, <1>7, AddedNotes
<1>10. Had(u)' = Had(u) \cup {n} /\ gone'[u] = gone[u]
  <2>1. gone'[u] = gone[u] /\ notes'[u] = AddNotification(notes[u], n)
    BY <1>3, <1>7
  <2> HIDE DEF n
  <2>2. QED
    BY <1>1, <1>2, <2>1, HadAdded
<1> HIDE DEF n
<1>11. \A i \in DOMAIN notes'[u].list : i # 1 => /\ i - 1 \in DOMAIN notes[u].list
                                                 /\ notes'[u].list[i] = notes[u].list[i - 1]
  <2>1. SUFFICES ASSUME NEW i \in DOMAIN notes'[u].list, i # 1
                 PROVE  /\ i - 1 \in DOMAIN notes[u].list
                        /\ notes'[u].list[i] = notes[u].list[i - 1]
    OBVIOUS
  <2>2. i - 1 \in DOMAIN notes[u].list /\ i \in Nat
    <3>1. i \in 1 .. Len(notes[u].list) + 1 /\ Len(notes[u].list) + 1 \in Nat
      BY SMTT(30), <1>9
    <3>2. QED
      BY <1>9, <2>1, <3>1
  <2>3. notes'[u].list[(i - 1) + 1] = notes[u].list[i - 1]
    BY <1>9, <2>2
  <2>4. (i - 1) + 1 = i
    BY <2>2
  <2>5. QED
    BY <2>2, <2>3, <2>4
<1>12. notes' \in [Users -> [rev : Nat, list : Seq(Notes)]]
  <2>1. notes' = [notes EXCEPT ![u] = notes'[u]]
    BY <1>1, <1>3, <1>7 DEF TypeOK, x, n
  <2>2. QED
    BY <1>1, <1>9, <2>1 DEF TypeOK
<1>13. \A y \in Users : \A e \in Had(y)' : e.job <= jobs
  <2>1. /\ \A y \in Users : \A e \in Had(y) : e.job <= jobs
        /\ job[w].no <= jobs
    BY DEF IInv, NumbersDiffer
  <2>2. ASSUME NEW y \in Users \ {u} PROVE Had(y)' = Had(y)
    <3>1. notes'[y] = notes[y] /\ gone'[y] = gone[y]
      BY <1>3, <1>7
    <3>2. QED
      BY <3>1 DEF Had
  <2>3. QED
    BY <1>2, <1>10, <2>1, <2>2
<1>14. NotesDiffer'
  <2>1. \A y \in Users : OneEach(notes[y].list, gone[y])
    BY NotesAreOneEach DEF IInv
  <2>2. \A i \in DOMAIN notes[u].list : notes[u].list[i] \in Had(u)
    BY DEF Had, ToSet
  <2>3. \A e \in gone[u] : e \in Had(u)
    BY DEF Had
  <2>4. ASSUME NEW i \in DOMAIN notes'[u].list, NEW k \in DOMAIN notes'[u].list,
               notes'[u].list[i].job = notes'[u].list[k].job,
               notes'[u].list[i].mention = notes'[u].list[k].mention
        PROVE  i = k
    <3>0. ASSUME NEW y \in DOMAIN notes'[u].list, y # 1
          PROVE  notes'[u].list[y].job = n.job => notes'[u].list[y].mention # n.mention
      <4>1. notes'[u].list[y] \in Had(u)
        BY <1>11, <2>2, <3>0
      <4>2. QED
        BY <1>2, <1>6, <4>1
    <3>1. CASE i = 1 \/ k = 1
      BY <1>9, <2>4, <3>0, <3>1
    <3>2. CASE i # 1 /\ k # 1
      <4>1. /\ i - 1 \in DOMAIN notes[u].list /\ notes'[u].list[i] = notes[u].list[i - 1]
            /\ k - 1 \in DOMAIN notes[u].list /\ notes'[u].list[k] = notes[u].list[k - 1]
        BY <1>11, <2>4, <3>2
      <4>2. i - 1 = k - 1
        BY <2>1, <2>4, <4>1 DEF OneEach
      <4>3. i \in Nat /\ k \in Nat
        <5>1. DOMAIN notes'[u].list = 1 .. Len(notes[u].list) + 1 /\ Len(notes[u].list) \in Nat
          BY <1>9
        <5>2. QED
          BY <2>4, <5>1
      <4>4. QED
        BY <4>2, <4>3
    <3>3. QED
      BY <3>1, <3>2
  <2>5. ASSUME NEW i \in DOMAIN notes'[u].list, NEW e \in gone[u],
               e.job = notes'[u].list[i].job
        PROVE  e.mention # notes'[u].list[i].mention
    <3>1. CASE i = 1
      BY <1>2, <1>6, <1>9, <2>3, <2>5, <3>1
    <3>2. CASE i # 1
      <4>1. i - 1 \in DOMAIN notes[u].list /\ notes'[u].list[i] = notes[u].list[i - 1]
        BY <1>11, <2>5, <3>2
      <4>2. QED
        BY <2>1, <2>5, <4>1 DEF OneEach
    <3>3. QED
      BY <3>1, <3>2
  <2>6. OneEach(notes'[u].list, gone'[u])
    BY <1>10, <2>4, <2>5 DEF OneEach
  <2>7. \A y \in Users \ {u} : OneEach(notes'[y].list, gone'[y])
    BY <1>3, <1>7, <2>1
  <2>8. QED
    BY <2>6, <2>7, NotesAreOneEach
<1>15. ASSUME NEW v \in Workers \ {w} PROVE WorldStays(v)
  <2>1. job[v].no # job[w].no
    BY <1>1 DEF IInv, NumbersDiffer
  <2>2. NamesStay
    BY DEF NamesStay
  <2>3. ASSUME NEW y \in Users PROVE ListStays(y, v)
    BY <1>2, <1>3, <1>7, <2>1 DEF ListStays
  <2>4. QED
    BY <2>2, <2>3 DEF WorldStays
<1>16. QED
  BY <1>1, <1>4, <1>8, <1>12, <1>13, <1>14, <1>15, NextKeeps

LEMMA MentionsKeeps == ASSUME IInv, NEW w \in Workers, Mentions(w) PROVE IInv'
<1>1. /\ TypeOK /\ Request(w) /\ clock \in Nat /\ job[w] \in Jobs
      /\ job[w].mention \in Nat /\ job[w].text \in Seq(Names)
  BY JobTypes DEF IInv, TypeOK
<1>2. TRUE \in BOOLEAN /\ FALSE \in BOOLEAN
  OBVIOUS
<1>3. job[w].at \in Telling => job[w].told \in Users /\ job[w].mention <= Len(job[w].text)
  BY <1>1 DEF Request, Shape
<1>4. UNCHANGED topics => TopicsStay
  BY TopicsUnchanged
<1>5. CASE LookupFinds(w)
  <2>1. PICK x \in Mentioned(job[w]) : job' = [job EXCEPT ![w].at = "notify", ![w].told = x]
    BY <1>5 DEF LookupFinds
  <2>2. /\ job[w].at = "lookup" /\ UNCHANGED <<topics, notes, names, clock, jobs, gone>>
        /\ x \in Users /\ names[x] = job[w].text[job[w].mention]
        /\ job[w].mention <= Len(job[w].text)
    BY <1>5, <2>1 DEF LookupFinds, Mentioned
  <2> DEFINE j == [job[w] EXCEPT !.at = "notify", !.told = x]
  <2>3. job' = [job EXCEPT ![w] = j]
    BY <1>1, <2>1 DEF TypeOK
  <2>4. j \in Jobs
    BY <1>1, <2>2 DEF Jobs, Calls
  <2>5. /\ j.at = "notify" /\ j.told = x /\ j.no = job[w].no /\ j.op = job[w].op
        /\ j.uid = job[w].uid /\ j.text = job[w].text /\ j.topic = job[w].topic
        /\ j.answer = job[w].answer /\ j.lost = job[w].lost /\ j.mention = job[w].mention
    BY <1>1 DEF Jobs
  <2> HIDE DEF j
  <2>6. job'[w] = j
    BY <1>1, <2>3 DEF TypeOK
  <2>7. Shape(w)' /\ Stored(w)' /\ Clearing(w)'
    BY <1>1, <2>2, <2>5, <2>6 DEF Request, Shape, Stored, Clearing, Posting, Telling
  <2>8. Tells(w)'
    <3>1. Tells(w)
      BY <1>1 DEF Request
    <3>2. \A u \in Users : Had(u)' = Had(u)
      BY <2>2 DEF Had
    <3>3. \A u \in Users : \A m : ToldOf(u, job[w], m)' <=> ToldOf(u, job[w], m)
      BY <2>5, <2>6, <3>2 DEF ToldOf
    <3>4. \A name : Kept(name)' <=> Kept(name)
      BY <2>2 DEF Kept
    <3>5. ToldAreMeant(job[w])'
      BY <2>2, <2>5, <2>6, <3>1, <3>2, <3>3 DEF Tells, ToldAreMeant
    <3>6. j.text[j.mention] \in {SignedIn[j.told], names[j.told]}
      BY <2>2, <2>5
    <3>7. QED
      BY <2>2, <2>5, <2>6, <3>1, <3>2, <3>3, <3>4, <3>5, <3>6 DEF Tells
  <2>9. Request(w)'
    BY <2>7, <2>8 DEF Request
  <2>10. QED
    BY <1>1, <1>4, <2>2, <2>3, <2>4, <2>5, <2>9, QuietStep
<1>6. CASE LookupFails(w)
  <2>1. /\ job[w].at = "lookup" /\ job[w].mention <= Len(job[w].text)
        /\ UNCHANGED <<topics, notes, names, clock, jobs, gone>>
    BY <1>6 DEF LookupFails
  <2>2. CASE Mentioned(job[w]) = {} /\ NextMention(w, FALSE)
    <3>1. \A u \in Users : names[u] # job[w].text[job[w].mention]
      BY <2>1, <2>2 DEF Mentioned
    <3>2. ~Kept(job[w].text[job[w].mention])
      BY <3>1 DEF Kept
    <3>3. QED
      BY <1>2, <2>1, <2>2, <3>2, PassedKeeps
  <2>3. CASE NextMention(w, TRUE)
    BY <1>2, <2>1, <2>3, PassedKeeps
  <2>4. QED
    BY <1>6, <2>2, <2>3 DEF LookupFails
<1>7. CASE NoMoreMentions(w)
  <2> DEFINE j == [job[w] EXCEPT !.at = "done"]
  <2>1. /\ job[w].at = "lookup" /\ UNCHANGED <<topics, notes, names, clock, jobs, gone>>
        /\ job[w].mention > Len(job[w].text)
        /\ job' = [job EXCEPT ![w] = j]
    BY <1>1, <1>7 DEF NoMoreMentions, TypeOK
  <2>2. j \in Jobs
    BY <1>1 DEF Jobs, Calls
  <2>3. /\ j.at = "done" /\ j.no = job[w].no /\ j.op = job[w].op
        /\ j.uid = job[w].uid /\ j.text = job[w].text /\ j.topic = job[w].topic
        /\ j.answer = job[w].answer /\ j.lost = job[w].lost /\ j.mention = job[w].mention
    BY <1>1 DEF Jobs
  <2> HIDE DEF j
  <2>4. job'[w] = j
    BY <1>1, <2>1 DEF TypeOK
  <2>5. Len(job[w].text) \in Nat
    BY <1>1
  <2>6. Shape(w)'
    BY <1>1, <2>1, <2>3, <2>4, <2>5 DEF Request, Shape, Posting, Telling
  <2>7. Stored(w)' /\ Clearing(w)'
    BY <1>1, <2>1, <2>3, <2>4 DEF Request, Stored, Clearing
  <2>8. Tells(w)'
    BY <1>1, <2>1, <2>3, <2>4, QuietTells DEF Telling
  <2>9. Request(w)'
    BY <2>6, <2>7, <2>8 DEF Request
  <2>10. QED
    BY <1>1, <1>4, <2>1, <2>2, <2>3, <2>9, QuietStep
<1>8. CASE ReadNotes(w)
  <2> DEFINE j == [job[w] EXCEPT !.at = "saveNote", !.read = notes[job[w].told].rev]
  <2>1. /\ job[w].at = "notify" /\ UNCHANGED <<topics, notes, names, clock, jobs, gone>>
        /\ job' = [job EXCEPT ![w] = j]
    BY <1>1, <1>8 DEF ReadNotes, TypeOK
  <2>2. notes[job[w].told].rev \in Nat /\ "saveNote" \in Calls
    BY <1>1, <1>3, <2>1, NotesTypes DEF Telling, Calls
  <2>3. j \in Jobs
    BY <1>1, <2>2 DEF Jobs
  <2>4. /\ j.at = "saveNote" /\ j.told = job[w].told /\ j.no = job[w].no /\ j.op = job[w].op
        /\ j.uid = job[w].uid /\ j.text = job[w].text /\ j.topic = job[w].topic
        /\ j.answer = job[w].answer /\ j.lost = job[w].lost /\ j.mention = job[w].mention
    BY <1>1 DEF Jobs
  <2> HIDE DEF j
  <2>5. job'[w] = j
    BY <1>1, <2>1 DEF TypeOK
  <2>6. Shape(w)' /\ Stored(w)' /\ Clearing(w)'
    <3>1. Shape(w)'
      BY Zenon, <1>1, <2>1, <2>4, <2>5 DEF Request, Shape, Posting, Telling
    <3>2. Stored(w)'
      BY Zenon, <1>1, <2>1, <2>4, <2>5 DEF Request, Stored
    <3>3. Clearing(w)'
      BY Zenon, <2>4, <2>5 DEF Clearing
    <3>4. QED
      BY <3>1, <3>2, <3>3
  <2>7. Tells(w)'
    BY <1>1, <2>1, <2>4, <2>5, QuietTells DEF Telling
  <2>8. Request(w)'
    BY <2>6, <2>7 DEF Request
  <2>9. QED
    BY <1>1, <1>4, <2>1, <2>3, <2>4, <2>8, QuietStep
<1>9. CASE SaveNote(w)
  <2>1. /\ job[w].at \in Telling /\ UNCHANGED <<topics, names, clock, jobs, gone>>
        /\ job[w].told \in Users /\ job[w].mention <= Len(job[w].text)
    BY <1>3, <1>9 DEF SaveNote, Telling
  <2>2. PICK lost \in BOOLEAN :
           /\ NextMention(w, lost)
           /\ notes[job[w].told].rev # job[w].read => lost
    BY <1>2, <1>9 DEF SaveNote
  <2>3. CASE notes[job[w].told].rev = job[w].read
    <3>1. notes' = [notes EXCEPT ![job[w].told] = AddNotification(@, Note(job[w]))]
      BY <1>9, <2>3 DEF SaveNote
    <3>2. QED
      BY <2>1, <2>2, <3>1, ToldKeeps
  <2>4. CASE notes[job[w].told].rev # job[w].read
    <3>1. UNCHANGED notes /\ lost
      BY <1>9, <2>2, <2>4 DEF SaveNote
    <3>2. QED
      BY <2>1, <2>2, <3>1, PassedKeeps
  <2>5. QED
    BY <2>3, <2>4
<1>10. CASE NotifyFails(w)
  <2>1. /\ job[w].at \in Telling /\ UNCHANGED <<topics, notes, names, clock, jobs, gone>>
        /\ NextMention(w, TRUE)
    BY <1>10 DEF NotifyFails, Telling
  <2>2. QED
    BY <1>2, <1>3, <2>1, PassedKeeps
<1>11. QED
  BY <1>5, <1>6, <1>7, <1>8, <1>9, <1>10 DEF Mentions

-----------------------------------------------------------------------------
(* Clearing.                                                               *)

\* A clearing request is done; what it has cleared is what it saw.
LEMMA ClearedKeeps ==
    ASSUME IInv, NEW w \in Workers, job[w].at \in {"clear", "saveClear"}, Cleared(w),
           UNCHANGED <<topics, names, clock, jobs>>,
           \/ UNCHANGED <<notes, gone>>
           \/ /\ notes' = [notes EXCEPT ![job[w].uid] = [rev |-> @.rev + 1, list |-> <<>>]]
              /\ gone' = [gone EXCEPT ![job[w].uid] = @ \cup ToSet(notes[job[w].uid].list)]
    PROVE  IInv'
<1> DEFINE j == [job[w] EXCEPT !.at = "done", !.answer = "clear"]
           x == job[w].uid
<1>1. TypeOK /\ Request(w) /\ clock \in Nat
  BY DEF IInv, TypeOK
<1>2. x \in Users /\ job[w].op = "clear" /\ job[w] \in Jobs
  BY <1>1, JobTypes DEF Request, Shape
<1>3. job' = [job EXCEPT ![w] = j]
  BY <1>1 DEF Cleared, TypeOK
<1>4. j \in Jobs
  BY <1>2 DEF Jobs, Calls, Answers
<1>5. /\ j.at = "done" /\ j.answer = "clear" /\ j.no = job[w].no /\ j.op = job[w].op
      /\ j.uid = job[w].uid /\ j.text = job[w].text /\ j.topic = job[w].topic
      /\ j.lost = job[w].lost /\ j.mention = job[w].mention
  BY <1>2 DEF Jobs
<1> HIDE DEF j
<1>6. job'[w] = j
  BY <1>1, <1>3 DEF TypeOK
<1>7. Shape(w)' /\ Stored(w)' /\ Clearing(w)'
  BY <1>1, <1>2, <1>5, <1>6 DEF Request, Shape, Stored, Clearing, Posting, Telling
<1>8. /\ \A u \in Users : \/ notes'[u] = notes[u] /\ gone'[u] = gone[u]
                          \/ /\ notes'[u] = [rev |-> notes[u].rev + 1, list |-> <<>>]
                             /\ gone'[u] = gone[u] \cup ToSet(notes[u].list)
      /\ notes' \in [Users -> [rev : Nat, list : Seq(Notes)]]
      /\ gone' \in [Users -> SUBSET Notes]
  <2>1. CASE UNCHANGED <<notes, gone>>
    BY <1>1, <2>1 DEF TypeOK
  <2>2. CASE /\ notes' = [notes EXCEPT ![x] = [rev |-> @.rev + 1, list |-> <<>>]]
             /\ gone' = [gone EXCEPT ![x] = @ \cup ToSet(notes[x].list)]
    <3>1. /\ notes[x].rev + 1 \in Nat /\ notes[x].list \in Seq(Notes)
      BY <1>1, <1>2, NotesTypes
    <3>2. ToSet(notes[x].list) \in SUBSET Notes
      BY <3>1 DEF ToSet
    <3>3. [rev |-> notes[x].rev + 1, list |-> <<>>] \in [rev : Nat, list : Seq(Notes)]
      BY <3>1
    <3>4. QED
      BY <1>1, <1>2, <2>2, <3>2, <3>3 DEF TypeOK
  <2>3. QED
    BY <2>1, <2>2
<1>8a. ASSUME NEW u \in Users PROVE Had(u)' = Had(u)
  <2>1. CASE notes'[u] = notes[u] /\ gone'[u] = gone[u]
    BY <2>1 DEF Had
  <2>2. CASE /\ notes'[u] = [rev |-> notes[u].rev + 1, list |-> <<>>]
             /\ gone'[u] = gone[u] \cup ToSet(notes[u].list)
    <3>1. notes'[u].list = <<>>
      BY <2>2
    <3>2. QED
      BY <2>2, <3>1, HadCleared
  <2>3. QED
    BY <1>8, <2>1, <2>2
<1>9. Tells(w)'
  <2>1. /\ job'[w].no = job[w].no /\ job'[w].text = job[w].text
        /\ job'[w].mention = job[w].mention
        /\ job[w].lost => job'[w].lost
        /\ job'[w].at \notin Telling
    BY <1>5, <1>6 DEF Telling
  <2>2. Tells(w) /\ NamesStay
    BY <1>1 DEF Request, NamesStay
  <2>3. QED
    BY <1>8a, <2>1, <2>2, TellsStays
<1>10. Request(w)'
  BY <1>7, <1>9 DEF Request
<1>11. NotesDiffer' /\ \A u \in Users : \A n \in Had(u)' : n.job <= jobs
  <2>1. NotesDiffer /\ NumbersDiffer
    BY DEF IInv
  <2>2. ASSUME NEW u \in Users PROVE OneEach(notes'[u].list, gone'[u])
    <3>1. OneEach(notes[u].list, gone[u])
      BY <2>1, NotesAreOneEach
    <3>2. CASE notes'[u].list = <<>>
      BY <3>2 DEF OneEach
    <3>3. QED
      BY <1>8, <3>1, <3>2
  <2>3. NotesDiffer'
    BY <2>2, NotesAreOneEach
  <2>4. QED
    BY <1>8a, <2>1, <2>3 DEF NumbersDiffer
<1>12. \A v \in Workers \ {w} : WorldStays(v)
  BY <1>8 DEF WorldStays, ListStays, NamesStay
<1>13. TopicsStay
  BY TopicsUnchanged
<1>14. QED
  BY <1>1, <1>3, <1>4, <1>5, <1>8, <1>10, <1>11, <1>12, <1>13, StepKeeps

LEMMA ClearsKeeps == ASSUME IInv, NEW w \in Workers, Clears(w) PROVE IInv'
<1>1. TypeOK /\ Request(w) /\ job[w] \in Jobs /\ clock \in Nat
  BY JobTypes DEF IInv, TypeOK
<1>2. CASE ReadForClear(w) /\ ~Cleared(w)
  <2> DEFINE x    == job[w].uid
             seen == ToSet(notes[x].list)
             j    == [job[w] EXCEPT !.at = "saveClear", !.read = notes[x].rev, !.there = seen]
  <2>1. /\ job[w].at = "clear" /\ UNCHANGED <<topics, notes, names, clock, jobs, gone>>
        /\ job' = [job EXCEPT ![w] = j]
    BY <1>1, <1>2 DEF ReadForClear, TypeOK
  <2>2. x \in Users /\ job[w].op = "clear"
    BY <1>1, <2>1 DEF Request, Shape
  <2>3. notes[x].rev \in Nat /\ seen \in SUBSET Notes /\ "saveClear" \in Calls
    <3>1. notes[x].rev \in Nat /\ notes[x].list \in Seq(Notes)
      BY <1>1, <2>2, NotesTypes
    <3>2. QED
      BY <3>1 DEF ToSet, Calls
  <2> HIDE DEF seen
  <2>4. j \in Jobs
    BY <1>1, <2>3 DEF Jobs
  <2>5. /\ j.at = "saveClear" /\ j.read = notes[x].rev /\ j.there = seen
        /\ j.no = job[w].no /\ j.op = job[w].op
        /\ j.uid = job[w].uid /\ j.text = job[w].text /\ j.topic = job[w].topic
        /\ j.answer = job[w].answer /\ j.lost = job[w].lost /\ j.mention = job[w].mention
    BY <1>1 DEF Jobs
  <2> HIDE DEF j
  <2>6. job'[w] = j
    BY <1>1, <2>1 DEF TypeOK
  <2>7. Shape(w)' /\ Stored(w)'
    BY <1>1, <2>1, <2>2, <2>5, <2>6 DEF Request, Shape, Stored, Posting, Telling
  <2>8. Clearing(w)'
    BY <2>1, <2>3, <2>5, <2>6 DEF Clearing, seen
  <2>9. Tells(w)'
    BY <1>1, <2>1, <2>5, <2>6, QuietTells DEF Telling
  <2>10. Request(w)'
    BY <2>7, <2>8, <2>9 DEF Request
  <2>11. TopicsStay
    BY <2>1, TopicsUnchanged
  <2>12. QED
    BY <1>1, <2>1, <2>4, <2>5, <2>10, <2>11, QuietStep
<1>3. CASE Cleared(w)
  <2>1. /\ job[w].at \in {"clear", "saveClear"} /\ UNCHANGED <<topics, names, clock, jobs>>
        /\ \/ UNCHANGED <<notes, gone>>
           \/ /\ notes' = [notes EXCEPT ![job[w].uid] = [rev |-> @.rev + 1, list |-> <<>>]]
              /\ gone' = [gone EXCEPT ![job[w].uid] = @ \cup ToSet(notes[job[w].uid].list)]
    BY DEF Clears, ReadForClear, SaveClear, ClearFails
  <2>2. QED
    BY <1>3, <2>1, ClearedKeeps
<1>4. QED
  BY <1>2, <1>3 DEF Clears, SaveClear, ClearFails

-----------------------------------------------------------------------------
(* The theorems.                                                           *)

LEMMA RenameKeeps == ASSUME IInv, NEW u \in Users, Rename(u) PROVE IInv'
<1>1. PICK n \in Names \ {names[u]} : names' = [names EXCEPT ![u] = n]
  BY DEF Rename
<1>2. UNCHANGED <<topics, notes, clock, job, jobs, gone>> /\ names[u] = SignedIn[u] /\ TypeOK
      /\ names \in [Users -> Names]
  BY DEF Rename, IInv, TypeOK
<1>3. names' \in [Users -> Names] /\ names'[u] = n
      /\ \A v \in Users \ {u} : names'[v] = names[v]
  BY <1>1, <1>2
<1>4. NamesStay
  BY <1>1, <1>2, <1>3 DEF NamesStay
<1>5. \A v \in Workers : WorldStays(v)
  BY <1>2, <1>4 DEF WorldStays, ListStays
<1>6. TopicsStay
  BY <1>2, TopicsUnchanged
<1>7. \A v \in Workers : Request(v)'
  BY <1>2, <1>5, <1>6, OthersKeep
<1>8. TypeOK' /\ NumbersDiffer' /\ NotesDiffer' /\ Len(First) <= Len(topics')
  BY <1>2, <1>3 DEF IInv, TypeOK, NumbersDiffer, NotesDiffer, Had
<1>9. QED
  BY <1>7, <1>8 DEF IInv

LEMMA ReadingKeeps ==
    ASSUME IInv, UNCHANGED <<topics, notes, names, clock, job, jobs, gone>> PROVE IInv'
<1>1. \A v \in Workers : WorldStays(v)
  BY DEF WorldStays, ListStays, NamesStay
<1>2. \A v \in Workers : Request(v)'
  BY <1>1, TopicsUnchanged, OthersKeep
<1>3. TypeOK' /\ NumbersDiffer' /\ NotesDiffer' /\ Len(First) <= Len(topics')
  BY DEF IInv, TypeOK, NumbersDiffer, NotesDiffer, Had
<1>4. QED
  BY <1>2, <1>3 DEF IInv

LEMMA Initially == Init => IInv
<1>1. SUFFICES ASSUME Init PROVE IInv
  OBVIOUS
<1>2. Idle \in Jobs
  BY DEF Idle, Jobs, Calls, Answers
<1>3. TypeOK
  <2>1. [rev |-> 0, list |-> <<>>] \in [rev : Nat, list : Seq(Notes)]
    OBVIOUS
  <2>2. Len(First) \in Nat
    OBVIOUS
  <2>3. QED
    BY <1>1, <1>2, <2>1, <2>2 DEF Init, NoNotes, TypeOK
<1>4. \A u \in Users : notes[u].list = <<>> /\ gone[u] = {} /\ Had(u) = {}
  BY <1>1 DEF Init, NoNotes, Had, ToSet
<1>5. \A w \in Workers : job[w] = Idle
  BY <1>1 DEF Init
<1>6. Len(First) <= Len(topics)
  BY <1>1 DEF Init
<1>7. NumbersDiffer /\ NotesDiffer
  BY <1>1, <1>4, <1>5 DEF Init, NumbersDiffer, NotesDiffer, Idle
<1>8. ASSUME NEW w \in Workers PROVE Request(w)
  <2>1. Shape(w) /\ Stored(w) /\ Clearing(w)
    <3>1. /\ job[w].at = "done" /\ job[w].op = "none" /\ job[w].text = <<>>
          /\ job[w].mention = 1 /\ job[w].answer = "none" /\ Len(job[w].text) = 0
      BY <1>5 DEF Idle
    <3>2. QED
      BY <3>1 DEF Shape, Stored, Clearing, Posting, Telling
  <2>2. Tells(w)
    <3>1. job[w].at \notin Telling /\ job[w].text = <<>>
      BY <1>5 DEF Idle, Telling
    <3>2. QED
      BY <1>4, <3>1 DEF Tells, ToldAreMeant
  <2>3. QED
    BY <2>1, <2>2 DEF Request
<1>9. QED
  BY <1>3, <1>6, <1>7, <1>8 DEF IInv

LEMMA Inductive == IInv /\ [Next]_vars => IInv'
<1>1. SUFFICES ASSUME IInv, [Next]_vars PROVE IInv'
  OBVIOUS
<1>2. ASSUME NEW w \in Workers, Arrives(w) PROVE IInv'
  BY <1>1, <1>2, ArrivesKeeps
<1>3. ASSUME NEW w \in Workers, Posts(w) PROVE IInv'
  BY <1>1, <1>3, PostsKeeps
<1>4. ASSUME NEW w \in Workers, Mentions(w) PROVE IInv'
  BY <1>1, <1>4, MentionsKeeps
<1>5. ASSUME NEW w \in Workers, Clears(w) PROVE IInv'
  BY <1>1, <1>5, ClearsKeeps
<1>6. ASSUME NEW u \in Users, Rename(u) PROVE IInv'
  BY <1>1, <1>6, RenameKeeps
<1>7. CASE OpenList \/ TurnPage \/ PageFails \/ Finished \/ UNCHANGED vars
  BY <1>1, <1>7, ReadingKeeps DEF OpenList, TurnPage, PageFails, Finished, vars
<1>8. QED
  BY <1>1, <1>2, <1>3, <1>4, <1>5, <1>6, <1>7 DEF Next

\* The inductive invariant: every variable has its type, and of every request it is
\* known what is stored of it, whom it has told and what it will clear.
THEOREM ForumInductive == Spec => []IInv
<1>1. Init => IInv
  BY Initially
<1>2. IInv /\ [Next]_vars => IInv'
  BY Inductive
<1>3. QED
  BY <1>1, <1>2, PTL DEF Spec

\* Topics stay as they were posted, and replies are only added behind others.
THEOREM TextsStay == Spec => TextsAreKept
<1> DEFINE Stay == \A t \in DOMAIN topics :
                      /\ t \in DOMAIN topics'
                      /\ topics'[t].by = topics[t].by /\ topics'[t].text = topics[t].text
                      /\ IsPrefix(topics[t].replies, topics'[t].replies)
<1>1. IInv /\ [Next]_vars => [Stay]_vars
  <2> SUFFICES ASSUME IInv, Next, NEW t \in DOMAIN topics
               PROVE  /\ t \in DOMAIN topics'
                      /\ topics'[t].by = topics[t].by /\ topics'[t].text = topics[t].text
                      /\ IsPrefix(topics[t].replies, topics'[t].replies)
    OBVIOUS
  <2>1. TopicsStay
    <3>1. ASSUME NEW w \in Workers, Posts(w) PROVE TopicsStay
      BY <3>1, PostsKeeps
    <3>2. UNCHANGED topics => TopicsStay
      BY TopicsUnchanged
    <3>3. ASSUME NEW w \in Workers, Arrives(w) \/ Mentions(w) \/ Clears(w) PROVE UNCHANGED topics
      BY <3>3 DEF Arrives, NewTopic, NewReply, Clear, Refuse, Begin, Mentions, LookupFinds,
         LookupFails, NoMoreMentions, ReadNotes, SaveNote, NotifyFails, Clears, ReadForClear,
         SaveClear, ClearFails
    <3>4. ASSUME NEW u \in Users, Rename(u) PROVE UNCHANGED topics
      BY <3>4 DEF Rename
    <3>5. CASE OpenList \/ TurnPage \/ PageFails \/ Finished
      BY <3>2, <3>5 DEF OpenList, TurnPage, PageFails, Finished, vars
    <3>6. QED
      BY <3>1, <3>2, <3>3, <3>4, <3>5 DEF Next
  <2>2. topics \in Seq(Topics) /\ topics' \in Seq(Topics) /\ Len(topics) <= Len(topics')
    BY <2>1 DEF IInv, TypeOK, TopicsStay
  <2>3. t \in DOMAIN topics'
    BY <2>2
  <2>4. topics[t].replies \in Seq(Replies)
    <3>1. topics[t] \in Topics
      BY <2>2
    <3>2. QED
      BY <3>1 DEF Topics
  <2>5. IsPrefix(topics[t].replies, topics'[t].replies)
    <3>1. CASE topics'[t].replies = topics[t].replies
      BY <2>4, <3>1 DEF IsPrefix
    <3>2. ASSUME NEW r \in Replies, topics'[t].replies = Append(topics[t].replies, r)
          PROVE  IsPrefix(topics[t].replies, topics'[t].replies)
      BY <2>4, <3>2 DEF IsPrefix
    <3>3. QED
      BY <2>1, <3>1, <3>2 DEF TopicsStay
  <2>6. QED
    BY <2>1, <2>3, <2>5 DEF TopicsStay
<1>2. QED
  BY <1>1, ForumInductive, PTL DEF Spec, TextsAreKept

\* Whoever is answered with an id finds the topic, and "Post success" means that the
\* reply is there unless a call failed or met a conflict.
THEOREM AnswersStayTrue == Spec => []AnswersAreTrue
<1>1. IInv => AnswersAreTrue
  BY DEF IInv, Request, Stored, AnswersAreTrue
<1>2. QED
  BY <1>1, ForumInductive, PTL

\* Of every mention of a text at most one account is told, and once, whose name it is or
\* was; and one is, as long as nothing fails, if anybody kept the name: whether or not
\* two accounts share one.
THEOREM MentionedAreTold == Spec => []MentionsNotify
<1>1. IInv => MentionsNotify
  <2> SUFFICES ASSUME IInv, NEW w \in Workers, job[w].at = "done"
               PROVE  /\ ToldAreMeant(job[w])
                      /\ ~job[w].lost => \A m \in DOMAIN job[w].text :
                            Kept(job[w].text[m]) => \E u \in Users : ToldOf(u, job[w], m)
    BY DEF MentionsNotify, IInv
  <2>1. Tells(w) /\ Shape(w) /\ job[w].text \in Seq(Names) /\ job[w].mention \in Nat
    BY JobTypes DEF IInv, Request
  <2>2. Len(job[w].text) < job[w].mention
    BY <2>1 DEF Shape
  <2>3. \A m \in DOMAIN job[w].text : m < job[w].mention
    BY <2>1, <2>2
  <2>4. QED
    BY <2>1, <2>3 DEF Tells
<1>2. QED
  BY <1>1, ForumInductive, PTL

\* A notification disappears only when its own user clears, and only one that was there
\* when CouchDB began to clear.
THEOREM ClearedWasSeen == Spec => ClearedWereThere
<1> DEFINE Seen == \A u \in Users :
                      LET vanished == ToSet(notes[u].list) \ ToSet(notes'[u].list) IN
                      vanished # {} => \E w \in Workers :
                          job[w].op = "clear" /\ job[w].uid = u /\ vanished \subseteq job[w].there
<1>1. IInv /\ [Next]_vars => [Seen]_vars
  <2> SUFFICES ASSUME IInv, Next, NEW u \in Users,
                      ToSet(notes[u].list) \ ToSet(notes'[u].list) # {}
               PROVE  \E w \in Workers :
                          /\ job[w].op = "clear" /\ job[w].uid = u
                          /\ ToSet(notes[u].list) \ ToSet(notes'[u].list) \subseteq job[w].there
    OBVIOUS
  <2>1. TypeOK /\ notes \in [Users -> [rev : Nat, list : Seq(Notes)]] /\ notes'[u] # notes[u]
    BY DEF IInv, TypeOK
  <2>2. ASSUME NEW w \in Workers, SaveNote(w) PROVE FALSE
    <3> DEFINE n == Note(job[w])
    <3>1. notes' = [notes EXCEPT ![job[w].told] = AddNotification(@, n)]
      BY <2>1, <2>2 DEF SaveNote
    <3>2. notes'[u].list = notes[u].list \/ notes'[u].list = <<n>> \o notes[u].list
      BY <2>1, <3>1 DEF AddNotification
    <3>3. notes[u].list \in Seq(Notes)
      BY <2>1
    <3> HIDE DEF n
    <3>4. ToSet(notes[u].list) \subseteq ToSet(<<n>> \o notes[u].list)
      <4>1. \A i \in 1 .. Len(notes[u].list) :
               /\ i + 1 \in 1 .. Len(<<n>> \o notes[u].list)
               /\ (<<n>> \o notes[u].list)[i + 1] = notes[u].list[i]
        BY <3>3
      <4>2. /\ DOMAIN notes[u].list = 1 .. Len(notes[u].list)
            /\ DOMAIN (<<n>> \o notes[u].list) = 1 .. Len(<<n>> \o notes[u].list)
        BY <3>3
      <4>3. ASSUME NEW x \in ToSet(notes[u].list)
            PROVE  x \in ToSet(<<n>> \o notes[u].list)
        <5>1. PICK i \in 1 .. Len(notes[u].list) : notes[u].list[i] = x
          BY <4>2 DEF ToSet
        <5>2. i + 1 \in DOMAIN (<<n>> \o notes[u].list) /\ (<<n>> \o notes[u].list)[i + 1] = x
          BY <4>1, <4>2, <5>1
        <5>3. QED
          BY <5>2 DEF ToSet
      <4>4. QED
        BY <4>3
    <3>5. QED
      BY <3>2, <3>4
  <2>3. PICK w \in Workers : SaveClear(w)
    BY <2>1, <2>2 DEF Next, Arrives, NewTopic, NewReply, Clear, Refuse, Begin, Posts, StoreTopic,
       PostFails, ReadTopic, SaveReply, ReplyFails, Mentions, LookupFinds, LookupFails,
       NoMoreMentions, ReadNotes, NotifyFails, Clears, ReadForClear, ClearFails, Rename,
       OpenList, TurnPage, PageFails, Finished, vars
  <2>4. /\ job[w].at = "saveClear" /\ Shape(w) /\ Clearing(w)
        /\ job[w].uid = u /\ notes[u].rev = job[w].read
    BY <2>1, <2>3 DEF SaveClear, IInv, Request
  <2>5. job[w].op = "clear" /\ ToSet(notes[u].list) \subseteq job[w].there
    BY <2>4 DEF Shape, Clearing
  <2>6. QED
    BY <2>4, <2>5
<1>2. QED
  BY <1>1, ForumInductive, PTL DEF Spec, ClearedWereThere

-----------------------------------------------------------------------------
(* The pages, whatever the requests do meanwhile.                          *)

\* A topic that is posted, and one that is replied to, are written at a new time.
LEMMA PostedIsWritten ==
    ASSUME IInv, NEW w \in Workers, job[w].at = "post", topics' = Append(topics, Document(job[w]))
    PROVE  WrittenIn(topics, topics', Len(topics) + 1, clock)
<1> DEFINE d == Document(job[w])
<1>1. topics \in Seq(Topics) /\ clock \in Nat /\ d \in Topics /\ d.last = clock + 1
  BY DocumentType DEF IInv, TypeOK, Document
<1> HIDE DEF d
<1>2. /\ topics' \in Seq(Topics) /\ topics'[Len(topics) + 1] = d
      /\ \A t \in 1 .. Len(topics) : topics'[t] = topics[t]
      /\ DOMAIN topics = 1 .. Len(topics) /\ DOMAIN topics' = 1 .. Len(topics) + 1
      /\ Len(topics) \in Nat
  BY <1>1 DEF d
<1>3. DOMAIN topics' = DOMAIN topics \cup {Len(topics) + 1} /\ Len(topics) + 1 \notin DOMAIN topics
  BY <1>2
<1> QED BY <1>1, <1>2, <1>3 DEF WrittenIn

LEMMA RepliedIsWritten ==
    ASSUME IInv, NEW w \in Workers, job[w].at = "saveReply",
           Len(topics[job[w].topic].replies) = job[w].read,
           topics' = [topics EXCEPT ![job[w].topic] = AddReplyX(@, job[w])]
    PROVE  WrittenIn(topics, topics', job[w].topic, clock)
<1> DEFINE k == job[w].topic
           e == AddReplyX(topics[k], job[w])
<1>1. /\ topics \in Seq(Topics) /\ k \in DOMAIN topics /\ clock \in Nat
  BY DEF IInv, Request, Stored, TypeOK
<1>2. topics[k] \in Topics
  BY <1>1
<1>3. e.last = clock + 1 /\ e.category = topics[k].category
  BY <1>2 DEF AddReplyX, Topics
<1>4. topics' \in Seq(Topics)
  BY Replied DEF TopicsStay
<1>5. topics' = [topics EXCEPT ![k] = e]
  OBVIOUS
<1> HIDE DEF k, e
<1>6. /\ DOMAIN topics' = DOMAIN topics /\ topics'[k] = e
      /\ \A t \in DOMAIN topics : t # k => topics'[t] = topics[t]
  BY <1>1, <1>5
<1>7. DOMAIN topics' = DOMAIN topics \cup {k}
  BY <1>1, <1>6
<1> QED BY <1>1, <1>3, <1>4, <1>6, <1>7 DEF WrittenIn, k

\* Of what requests do, only these matter to somebody who reads.
LEMMA PostsArePages ==
    ASSUME IInv, PagesInv, NEW w \in Workers, Posts(w) PROVE PagesInv'
<1>1. PagesAt(topics, clock, reader) /\ UNCHANGED reader
  BY PagesAreAt DEF Posts, StoreTopic, PostFails, ReadTopic, SaveReply, ReplyFails
<1>2. CASE UNCHANGED <<topics, clock>>
  BY <1>1, <1>2, PagesAreAt
<1>3. CASE job[w].at = "post" /\ topics' = Append(topics, Document(job[w])) /\ clock' = clock + 1
  <2>1. WrittenIn(topics, topics', Len(topics) + 1, clock)
    BY <1>3, PostedIsWritten
  <2>2. PagesAt(topics', clock + 1, reader)
    BY <1>1, <2>1, WrittenKeeps
  <2> QED BY <1>1, <1>3, <2>2, PagesAreAt
<1>4. CASE /\ job[w].at = "saveReply" /\ Len(topics[job[w].topic].replies) = job[w].read
           /\ topics' = [topics EXCEPT ![job[w].topic] = AddReplyX(@, job[w])] /\ clock' = clock + 1
  <2>1. WrittenIn(topics, topics', job[w].topic, clock)
    BY <1>4, RepliedIsWritten
  <2>2. PagesAt(topics', clock + 1, reader)
    BY <1>1, <2>1, WrittenKeeps
  <2> QED BY <1>1, <1>4, <2>2, PagesAreAt
<1> QED
  BY <1>2, <1>3, <1>4 DEF Posts, StoreTopic, PostFails, ReadTopic, SaveReply, ReplyFails

LEMMA ReaderIsPages ==
    ASSUME IInv, PagesInv, OpenList \/ TurnPage \/ PageFails PROVE PagesInv'
<1>1. PagesAt(topics, clock, reader) /\ UNCHANGED <<topics, clock>>
  BY PagesAreAt DEF OpenList, TurnPage, PageFails
<1>2. topics \in Seq(Topics) /\ clock \in Nat
  BY DEF IInv, TypeOK
<1>3. PagesAt(topics, clock, reader')
  <2>1. CASE OpenList
    <3>1. PICK c \in Categories \cup {0} :
             reader' = [page |-> 1, category |-> c, seen |-> {}, began |-> Listed(c),
                        since |-> clock, at |-> "reading"]
      BY <2>1 DEF OpenList
    <3>2. Listed(c) = ListedIn(topics, c)
      BY DEF Listed, ListedIn
    <3> QED BY <1>1, <1>2, <3>1, <3>2, OpenKeeps
  <2>2. CASE TurnPage
    BY <1>1, <1>2, <2>2, RowsAreIn, TurnKeeps, Zenon DEF TurnPage
  <2>3. CASE PageFails
    <3>1. reader' = [reader EXCEPT !.at = "failed"] /\ ReaderTypeOf(reader)
      BY <1>1, <2>3 DEF PageFails, PagesAt
    <3>2. ReaderTypeOf(reader') /\ reader'.at = "failed"
      BY <3>1 DEF ReaderTypeOf
    <3> QED BY <1>1, <3>2 DEF PagesAt, ReadsOnIn
  <2> QED BY <2>1, <2>2, <2>3
<1> QED BY <1>1, <1>3, PagesAreAt

LEMMA PagesInitially == Init => PagesInv
<1> SUFFICES ASSUME Init PROVE PagesInv
  OBVIOUS
<1>1. /\ topics = First /\ clock = Len(First)
      /\ reader \in {NotReading("idle"), NotReading("nobody")}
  BY DEF Init
<1>2. TimesDiffer
  BY <1>1, FirstAssumption, Zenon DEF TimesDiffer
<1>3. ReaderType /\ reader.at \notin {"reading", "end"}
  BY <1>1 DEF ReaderType, NotReading
<1> QED BY <1>2, <1>3 DEF PagesInv, ReadsOn

LEMMA PagesInductive == IInv /\ PagesInv /\ [Next]_vars => PagesInv'
<1> SUFFICES ASSUME IInv, PagesInv, [Next]_vars PROVE PagesInv'
  OBVIOUS
<1>1. ASSUME NEW w \in Workers, Posts(w) PROVE PagesInv'
  BY <1>1, PostsArePages
<1>2. CASE OpenList \/ TurnPage \/ PageFails
  BY <1>2, ReaderIsPages
<1>3. ASSUME UNCHANGED <<topics, clock, reader>> PROVE PagesInv'
  BY <1>3, PagesAreAt
<1>4. ASSUME NEW w \in Workers, Arrives(w) \/ Mentions(w) \/ Clears(w)
      PROVE  UNCHANGED <<topics, clock, reader>>
  BY <1>4 DEF Arrives, NewTopic, NewReply, Clear, Refuse, Begin, Mentions, LookupFinds,
     LookupFails, NoMoreMentions, ReadNotes, SaveNote, NotifyFails, Clears, ReadForClear,
     SaveClear, ClearFails
<1>5. ASSUME (\E u \in Users : Rename(u)) \/ Finished \/ UNCHANGED vars
      PROVE  UNCHANGED <<topics, clock, reader>>
  BY <1>5 DEF Rename, Finished, vars
<1> QED BY <1>1, <1>2, <1>3, <1>4, <1>5 DEF Next

\* Whoever goes through all the pages of a list has seen every topic that was in it at
\* the start and was not written meanwhile, whatever is posted while they read.
THEOREM NothingMissed == Spec => []NothingIsMissed
<1>1. IInv /\ PagesInv => NothingIsMissed
  <2> SUFFICES ASSUME IInv, PagesInv, reader.at = "end", NEW t \in reader.began,
                      topics[t].last <= reader.since
               PROVE  t \in reader.seen
    BY DEF NothingIsMissed
  <2>1. reader.began \subseteq Listed(reader.category)
        /\ (topics[t].last > reader.since \/ t \in reader.seen)
    BY DEF PagesInv, ReadsOn
  <2>2. topics[t].last \in Nat /\ reader.since \in Nat
    BY <2>1, LastIsNat DEF IInv, TypeOK, PagesInv, ReaderType, Listed
  <2> QED BY <2>1, <2>2
<1>2. Init => PagesInv
  BY PagesInitially
<1>3. IInv /\ PagesInv /\ [Next]_vars => PagesInv'
  BY PagesInductive
<1> QED BY <1>1, <1>2, <1>3, ForumInductive, PTL DEF Spec
=============================================================================
