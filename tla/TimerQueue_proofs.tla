-------------------------- MODULE TimerQueue_proofs ---------------------------
(***************************************************************************)
(* If the acceptor and the worker take turns in the queue, it keeps for    *)
(* every connection at most one deadline which only this connection can    *)
(* cancel, for any connections, tick and number width: the queue           *)
(* implements Deadlines.                                                   *)
(*                                                                         *)
(* Numbers are modulo W, so the proof is about places: where an entry      *)
(* stands is its number less the number of the entry in front (Place).  A  *)
(* key leads to its own entry or, when that has left the queue, behind the *)
(* last one, since less than W entries were ever added (Keyed).            *)
(***************************************************************************)
EXTENDS TimerQueue, TLAPS

USE ConnsAssumption, NumbersAssumption

PendingIn(q, c) == {i \in 1 .. Len(q) : q[i].fn = c}

-----------------------------------------------------------------------------
(* Numbers.                                                                *)

LEMMA Modulo ==
    /\ \A a \in 0 .. W - 1 : a % W = a
    /\ \A a \in W .. 2 * W - 1 : a % W = a - W
    /\ \A a \in 2 * W .. 3 * W - 1 : a % W = a - 2 * W
<1>1. W \in Nat \ {0}
  OBVIOUS
<1>2. ASSUME NEW w \in Nat \ {0}, NEW a \in 0 .. w - 1 PROVE a % w = a
  OBVIOUS
<1>3. ASSUME NEW w \in Nat \ {0}, NEW a \in w .. 2 * w - 1 PROVE a % w = a - w
  OBVIOUS
<1>4. ASSUME NEW w \in Nat \ {0}, NEW a \in 2 * w .. 3 * w - 1 PROVE a % w = a - 2 * w
  OBVIOUS
<1>5. QED
  BY <1>1, <1>2, <1>3, <1>4

LEMMA Successor ==
    ASSUME NEW n \in 0 .. W - 1
    PROVE  (n + 1) % W = IF n + 1 = W THEN 0 ELSE n + 1
<1>1. W \in Nat /\ n + 1 \in 0 .. W
  OBVIOUS
<1>2. QED
  BY <1>1, Modulo

\* The first entry leaves: what stood behind it moves up by one place.
LEMMA MovesUp ==
    ASSUME NEW f \in 0 .. W - 1, NEW n \in 0 .. W - 1
    PROVE  (n + W - ((f + 1) % W)) % W = IF n = f THEN W - 1 ELSE ((n + W - f) % W) - 1
<1>1. (n + W - f) % W = IF f <= n THEN n - f ELSE n + W - f
  BY Modulo
<1>2. CASE f + 1 = W
  <2>1. (f + 1) % W = 0
    BY <1>2, Successor
  <2>2. (n + W) % W = n
    BY Modulo
  <2>3. QED
    BY <1>1, <1>2, <2>1, <2>2
<1>3. CASE f + 1 # W
  <2>1. (f + 1) % W = f + 1 /\ f + 1 \in 0 .. W - 1
    BY <1>3, Successor
  <2>2. (n + W - (f + 1)) % W = IF f + 1 <= n THEN n - (f + 1) ELSE n + W - (f + 1)
    BY <2>1, Modulo
  <2>3. QED
    BY <1>1, <2>1, <2>2
<1>4. QED
  BY <1>2, <1>3

LEMMA FrontIs ==
    ASSUME step \in 0 .. W - 1
    PROVE  Front = IF worker # "popped" THEN step
                   ELSE IF step + 1 = W THEN 0 ELSE step + 1
BY Modulo DEF Front

LEMMA PlaceIs ==
    ASSUME step \in 0 .. W - 1, NEW n \in 0 .. W - 1
    PROVE  Place(n) = IF Front <= n THEN n - Front ELSE n + W - Front
<1>1. Front \in 0 .. W - 1
  BY FrontIs
<1>2. QED
  BY <1>1, Modulo DEF Place

LEMMA NewKeyIsLast ==
    ASSUME step \in 0 .. W - 1, worker # "popped", Len(dq) \in 1 .. W - 1
    PROVE  /\ NewKey \in Keys /\ NewKey.first
           /\ Place(NewKey.second) = Len(dq) - 1
<1> DEFINE n == step + Len(dq) + W - 1
<1>1. n \in W .. 3 * W - 1
  OBVIOUS
<1>2. n % W = IF n < 2 * W THEN n - W ELSE n - 2 * W
  BY <1>1, Modulo
<1>3. n % W \in 0 .. W - 1
  BY <1>1, <1>2
<1>4. NewKey.first /\ NewKey.second = n % W /\ NewKey \in Keys
  BY <1>3 DEF NewKey, Keys
<1>5. Place(n % W) = Len(dq) - 1
  BY <1>2, <1>3, FrontIs, PlaceIs
<1>6. QED
  BY <1>4, <1>5

-----------------------------------------------------------------------------
(* What the operations do to the deadlines in the queue.                   *)

LEMMA PushAdds ==
    ASSUME NEW q \in Seq(Entries), NEW c \in Conns
    PROVE  /\ Push(q, c) \in Seq(Entries) /\ Len(Push(q, c)) = Len(q) + 1
           /\ PendingIn(Push(q, c), c) = PendingIn(q, c) \cup {Len(q) + 1}
           /\ \A d \in Conns \ {c} : PendingIn(Push(q, c), d) = PendingIn(q, d)
           /\ \A i \in 1 .. Len(q) : Push(q, c)[i] = q[i]
           /\ Push(q, c)[Len(q) + 1] = [fn |-> c, age |-> 0]
<1>1. [fn |-> c, age |-> 0] \in Entries
  BY DEF Entries
<1>2. QED
  BY <1>1 DEF Push, PendingIn

\* A connection that cancels its deadline does away with this one alone.
LEMMA CancelTakes ==
    ASSUME IInv, NEW c \in Conns, c \notin {acc, renewed}, worker # "popped",
           NEW q, q = Cancelled(key[c])
    PROVE  /\ q \in Seq(Entries) /\ Len(q) = Len(dq)
           /\ PendingIn(q, c) = {}
           /\ \A d \in Conns \ {c} : PendingIn(q, d) = Pending(d)
           /\ \A i \in 1 .. Len(q) : q[i].age = dq[i].age
<1>1. /\ dq \in Seq(Entries) /\ key[c] \in Keys /\ step \in 0 .. W - 1
      /\ Keyed(c) /\ Index(key[c].second) = Place(key[c].second)
  BY DEF IInv, TypeOK, Place, Front, Index
<1>2. Place(key[c].second) \in 0 .. W - 1
  BY <1>1, FrontIs, PlaceIs DEF Keys
<1>3. CASE key[c].first /\ Index(key[c].second) < Len(dq)
  <2> DEFINE p == Place(key[c].second) + 1
  <2>1. p \in 1 .. Len(dq) /\ Pending(c) = {p}
    BY <1>1, <1>2, <1>3 DEF Keyed
  <2>2. q = [dq EXCEPT ![p].fn = NoFn]
    BY <1>1, <1>3 DEF Cancelled
  <2> HIDE DEF p
  <2>3. dq[p] \in Entries /\ dq[p].fn = c
    BY <1>1, <2>1 DEF Pending
  <2>4. [dq[p] EXCEPT !.fn = NoFn] \in Entries
    BY <2>3 DEF Entries
  <2>5. /\ q \in Seq(Entries) /\ Len(q) = Len(dq)
        /\ \A i \in 1 .. Len(dq) : q[i] = IF i = p THEN [dq[p] EXCEPT !.fn = NoFn] ELSE dq[i]
    BY <1>1, <2>1, <2>2, <2>4
  <2> DEFINE e == [dq[p] EXCEPT !.fn = NoFn]
  <2>6. e.age = dq[p].age /\ e.fn = NoFn
    BY <2>3 DEF Entries
  <2> HIDE DEF e
  <2>9. /\ \A i \in 1 .. Len(q) : q[i].age = dq[i].age
        /\ \A i \in 1 .. Len(q) : q[i].fn = IF i = p THEN NoFn ELSE dq[i].fn
    BY <2>5, <2>6 DEF e
  <2>10. QED
    BY SMTT(30), <2>1, <2>3, <2>5, <2>9 DEF PendingIn, Pending
<1>4. CASE ~(key[c].first /\ Index(key[c].second) < Len(dq))
  <2>1. q = dq /\ Pending(c) = {}
    BY <1>1, <1>4 DEF Cancelled, Keyed
  <2>2. QED
    BY <1>1, <2>1 DEF PendingIn, Pending
<1>5. QED
  BY <1>3, <1>4

\* What is pending of a connection, and how old it is, are as they were.
Untouched(d) == Pending(d)' = Pending(d) /\ \A i \in Pending(d) : dq'[i].age = dq[i].age

LEMMA PushDoes ==
    ASSUME NEW q \in Seq(Entries), NEW c \in Conns, dq' = Push(q, c), PendingIn(q, c) = {},
           \A d \in Conns \ {c} : PendingIn(q, d) = Pending(d),
           \A i \in 1 .. Len(q) : q[i].age = dq[i].age
    PROVE  /\ dq' \in Seq(Entries) /\ Len(dq') = Len(q) + 1
           /\ Pending(c)' = {Len(dq')} /\ dq'[Len(dq')].age = 0
           /\ \A d \in Conns \ {c} : Untouched(d)
<1>1. \A d \in Conns : Pending(d)' = PendingIn(dq', d)
  BY DEF PendingIn, Pending
<1>2. /\ Push(q, c) \in Seq(Entries) /\ Len(Push(q, c)) = Len(q) + 1
      /\ PendingIn(Push(q, c), c) = PendingIn(q, c) \cup {Len(q) + 1}
      /\ \A d \in Conns \ {c} : PendingIn(Push(q, c), d) = PendingIn(q, d)
      /\ \A i \in 1 .. Len(q) : Push(q, c)[i] = q[i]
      /\ Push(q, c)[Len(q) + 1] = [fn |-> c, age |-> 0]
  BY PushAdds
<1>3. dq'[Len(q) + 1].age = 0
  BY <1>2
<1>4. ASSUME NEW d \in Conns \ {c} PROVE Untouched(d)
  <2>1. Pending(d)' = Pending(d) /\ Pending(d) = PendingIn(q, d)
    BY <1>1, <1>2
  <2>2. \A i \in PendingIn(q, d) : dq'[i] = q[i] /\ q[i].age = dq[i].age
    BY <1>2 DEF PendingIn
  <2>3. QED
    BY <2>1, <2>2 DEF Untouched
<1>5. QED
  BY <1>1, <1>2, <1>3, <1>4

\* add() of a new connection, or after cancel(): the connection has this one deadline.
LEMMA AddDoes ==
    ASSUME IInv, ~Overlap, NEW c \in Conns, StartPush(c) \/ Renew(c)
    PROVE  /\ dq' \in Seq(Entries) /\ Len(dq') = Len(dq) + 1
           /\ Pending(c)' = {Len(dq')} /\ dq'[Len(dq')].age = 0
           /\ \A d \in Conns \ {c} : Untouched(d)
<1>1. acc = NoFn /\ renewed = NoFn /\ worker = "idle" /\ dq \in Seq(Entries)
  BY DEF StartPush, Renew, Enters, IInv, TypeOK, Turns
<1>2. CASE StartPush(c)
  <2>1. dq' = Push(dq, c) /\ Pending(c) = {}
    BY <1>2 DEF StartPush, IInv, CallbacksAreSafe
  <2>2. \A d \in Conns : PendingIn(dq, d) = Pending(d)
    BY DEF PendingIn, Pending
  <2>3. QED
    BY <1>1, <2>1, <2>2, PushDoes
<1>3. CASE Renew(c)
  <2> DEFINE q == Cancelled(key[c])
  <2>1. dq' = Push(q, c)
    BY <1>3 DEF Renew
  <2>2. /\ q \in Seq(Entries) /\ Len(q) = Len(dq) /\ PendingIn(q, c) = {}
        /\ \A d \in Conns \ {c} : PendingIn(q, d) = Pending(d)
        /\ \A i \in 1 .. Len(q) : q[i].age = dq[i].age
    BY <1>1, CancelTakes
  <2> HIDE DEF q
  <2>3. QED
    BY <2>1, <2>2, PushDoes
<1>4. QED
  BY <1>2, <1>3

LEMMA CancelDoes ==
    ASSUME IInv, NEW c \in Conns, worker = "idle", acc = NoFn, dq' = Cancelled(key[c])
    PROVE  /\ dq' \in Seq(Entries) /\ Len(dq') = Len(dq) /\ Pending(c)' = {}
           /\ \A d \in Conns \ {c} : Untouched(d)
<1>1. renewed = NoFn
  BY DEF IInv, Turns
<1>2. /\ dq' \in Seq(Entries) /\ Len(dq') = Len(dq) /\ PendingIn(dq', c) = {}
      /\ \A d \in Conns \ {c} : PendingIn(dq', d) = Pending(d)
      /\ \A i \in 1 .. Len(dq') : dq'[i].age = dq[i].age
  BY <1>1, CancelTakes
<1>3. \A d \in Conns : Pending(d)' = PendingIn(dq', d)
  BY DEF PendingIn, Pending
<1>4. \A d \in Conns \ {c} : Pending(d) \subseteq 1 .. Len(dq')
  BY <1>2 DEF Pending
<1>5. QED
  BY <1>2, <1>3, <1>4 DEF Untouched

\* process() drops the entry in front, and the others move up.
LEMMA PopDoes ==
    ASSUME IInv, ScanPops
    PROVE  /\ Len(dq) \in Nat /\ Len(dq) > 0 /\ dq[1] \in Entries /\ dq[1].age = Tick
           /\ dq' \in Seq(Entries) /\ Len(dq') = Len(dq) - 1
           /\ \A i \in 1 .. Len(dq') : dq'[i] = dq[i + 1]
           /\ \A d \in Conns : Pending(d)' = {i \in 1 .. Len(dq) - 1 : i + 1 \in Pending(d)}
           /\ state' = IF dq[1].fn # NoFn /\ state[dq[1].fn] \in {"starting", "open"}
                         THEN [state EXCEPT ![dq[1].fn] = "expired"] ELSE state
<1>1. dq # <<>> /\ Head(dq).age = Tick /\ dq' = Tail(dq) /\ dq \in Seq(Entries)
  BY DEF ScanPops, FrontIsDue, IInv, TypeOK
<1>2. Len(dq) \in Nat /\ Len(dq) > 0 /\ Head(dq) = dq[1] /\ dq[1] \in Entries
  BY <1>1
<1>3. /\ dq' \in Seq(Entries) /\ Len(dq') = Len(dq) - 1
      /\ \A i \in 1 .. Len(dq') : dq'[i] = dq[i + 1]
  BY <1>1, <1>2
<1>4. \A d \in Conns : Pending(d)' = {i \in 1 .. Len(dq) - 1 : i + 1 \in Pending(d)}
  BY <1>2, <1>3 DEF Pending
<1>5. QED
  BY <1>1, <1>2, <1>3, <1>4 DEF ScanPops

\* No connection has two deadlines.
LEMMA OneDeadline ==
    ASSUME IInv, NEW c \in Conns, NEW i \in Pending(c) PROVE Pending(c) = {i}
BY DEF IInv, Keyed

-----------------------------------------------------------------------------
(* Every step keeps the invariant.                                         *)

LEMMA Initially == Init => IInv
<1>1. SUFFICES ASSUME Init PROVE IInv
  OBVIOUS
<1>2. TypeOK
  BY <1>1 DEF Init, TypeOK, NullKey, Keys, States
<1>3. Turns
  BY <1>1 DEF Init, Turns
<1>4. \A c \in Conns : Pending(c) = {}
  BY <1>1 DEF Init, Pending
<1>5. \A c \in Conns : Keyed(c) /\ (state[c] = "starting" <=> acc = c)
  BY <1>1, <1>4 DEF Init, Keyed, NullKey
<1>6. QED
  BY <1>2, <1>3, <1>4, <1>5 DEF IInv, CallbacksAreSafe

\* The key of a connection that has no part in a step leads where it led: room is left
\* between the queue and the keys that have outlived their entries.
LEMMA KeyedStays ==
    ASSUME IInv, NEW d \in Conns, d \notin {acc, renewed}, d \notin {acc', renewed'},
           key'[d] = key[d], Pending(d)' = Pending(d), Front' = Front,
           adds' \in 0 .. MaxAdds, Len(dq') \in Nat,
           \/ Len(dq') = Len(dq) /\ adds' = adds
           \/ Len(dq') = Len(dq) + 1 /\ adds' = adds + 1
    PROVE  Keyed(d)'
<1> DEFINE p == Place(key[d].second)
<1>1. p' = p
  BY DEF Place
<1>2. p \in 0 .. W - 1
  BY SMTT(30), FrontIs, PlaceIs DEF IInv, TypeOK, Keys
<1>3. Keyed(d) /\ Len(dq) \in Nat /\ Len(dq) <= adds /\ adds \in 0 .. MaxAdds
  BY DEF IInv, TypeOK, Turns
<1>4. CASE key[d].first /\ p < Len(dq)
  <2>1. Pending(d) = {p + 1} /\ p < Len(dq')
    BY <1>2, <1>3, <1>4 DEF Keyed
  <2>2. QED
    BY <1>1, <1>4, <2>1 DEF Keyed
<1>5. CASE ~(key[d].first /\ p < Len(dq))
  <2>1. Pending(d) = {} /\ (key[d].first => W - p <= adds - Len(dq))
    BY <1>3, <1>5 DEF Keyed
  <2>2. key[d].first => ~(p < Len(dq')) /\ W - p <= adds' - Len(dq')
    BY <1>2, <1>3, <2>1
  <2>3. QED
    BY <1>1, <2>1, <2>2 DEF Keyed
<1>6. QED
  BY <1>4, <1>5

LEMMA StartPushKeeps ==
    ASSUME IInv, ~Overlap, NEW c \in Conns, StartPush(c) PROVE IInv'
<1>1. /\ acc = NoFn /\ worker = "idle" /\ state[c] = "gone" /\ adds < MaxAdds
      /\ dq' = Push(dq, c) /\ state' = [state EXCEPT ![c] = "starting"]
      /\ key' = [key EXCEPT ![c] = NullKey] /\ acc' = c /\ adds' = adds + 1
      /\ UNCHANGED <<step, worker, renewed>>
  BY DEF StartPush
<1>2. renewed = NoFn /\ Pending(c) = {}
  BY <1>1 DEF IInv, TypeOK, Turns, CallbacksAreSafe
<1>3. dq \in Seq(Entries) /\ Len(dq) \in Nat
  BY DEF IInv, TypeOK
<1>4. /\ dq' \in Seq(Entries) /\ Len(dq') = Len(dq) + 1 /\ Pending(c)' = {Len(dq')}
      /\ \A d \in Conns \ {c} : Pending(d)' = Pending(d)
  BY AddDoes DEF Untouched
<1>5. TypeOK'
  BY <1>1, <1>4 DEF IInv, TypeOK, NullKey, Keys, States
<1>6. Turns'
  BY <1>1, <1>2, <1>3, <1>4 DEF IInv, TypeOK, Turns
<1>7. ASSUME NEW d \in Conns PROVE Keyed(d)' /\ (state'[d] = "starting" <=> acc' = d)
  <2>1. CASE d = c
    BY <1>1, <1>4, <2>1 DEF Keyed, IInv, TypeOK
  <2>2. CASE d # c
    <3>1. /\ Pending(d)' = Pending(d) /\ key'[d] = key[d] /\ state'[d] = state[d]
          /\ d \notin {acc, renewed} /\ d \notin {acc', renewed'}
          /\ (state[d] = "starting" <=> acc = d) /\ adds' \in 0 .. MaxAdds
      BY <1>1, <1>2, <1>4, <2>2 DEF IInv, TypeOK
    <3>2. Front' = Front
      BY <1>1 DEF Front
    <3>3. QED
      BY <1>1, <1>3, <1>4, <3>1, <3>2, KeyedStays
  <2>3. QED
    BY <2>1, <2>2
<1>8. CallbacksAreSafe'
  BY <1>1, <1>4 DEF IInv, TypeOK, CallbacksAreSafe
<1>9. QED
  BY <1>5, <1>6, <1>7, <1>8 DEF IInv

\* add() has returned, and the connection has the key of the last entry.
LEMMA KeyKeeps ==
    ASSUME IInv, NEW c \in Conns, c \in {acc, renewed}, worker \in {"idle", "adding"},
           key' = [key EXCEPT ![c] = NewKey], UNCHANGED <<dq, step, adds>>,
           acc' = NoFn, renewed' = NoFn, worker' = "idle", acc = NoFn \/ renewed = NoFn,
           state' = [state EXCEPT ![c] = IF @ = "starting" THEN "open" ELSE @]
    PROVE  IInv'
<1>1. /\ Pending(c) = {Len(dq)} /\ Len(dq) \in Nat /\ Len(dq) <= adds
      /\ adds \in 0 .. MaxAdds /\ step \in 0 .. W - 1 /\ state[c] \in States
      /\ key \in [Conns -> Keys] /\ state \in [Conns -> States]
  BY DEF IInv, TypeOK, Turns, Keyed
<1>2. Len(dq) \in 1 .. W - 1
  BY <1>1 DEF Pending
<1>3. NewKey \in Keys /\ NewKey.first /\ Place(NewKey.second) = Len(dq) - 1
  BY <1>1, <1>2, NewKeyIsLast
<1>4. Front' = Front /\ \A d \in Conns : Pending(d)' = Pending(d)
  BY DEF Front, Pending
<1>5. TypeOK'
  BY <1>1, <1>3 DEF IInv, TypeOK, States
<1>6. Turns'
  BY <1>1 DEF Turns
<1>7. ASSUME NEW d \in Conns PROVE Keyed(d)' /\ (state'[d] = "starting" <=> acc' = d)
  <2>1. CASE d = c
    <3>1. key'[d] = NewKey
      BY <1>1, <2>1
    <3>2. Place(key[d].second)' = Len(dq) - 1
      BY <1>3, <1>4, <3>1 DEF Place
    <3>3. Pending(d)' = {Place(key[d].second)' + 1} /\ Place(key[d].second)' < Len(dq')
      BY <1>1, <1>2, <1>4, <2>1, <3>2
    <3>4. d \notin {acc', renewed'}
      OBVIOUS
    <3>5. QED
      BY <1>1, <1>3, <2>1, <3>1, <3>3, <3>4 DEF Keyed
  <2>2. CASE d # c
    <3>1. /\ key'[d] = key[d] /\ state'[d] = state[d] /\ d \notin {acc, renewed}
          /\ d \notin {acc', renewed'} /\ (state[d] = "starting" <=> acc = d)
      BY <1>1, <2>2 DEF IInv
    <3>2. QED
      BY <1>1, <1>4, <3>1, KeyedStays
  <2>3. QED
    BY <2>1, <2>2
<1>8. CallbacksAreSafe'
  BY <1>1, <1>4 DEF IInv, CallbacksAreSafe
<1>9. QED
  BY <1>5, <1>6, <1>7, <1>8 DEF IInv

LEMMA StartKeyKeeps == ASSUME IInv, StartKey PROVE IInv'
<1>1. /\ acc \in Conns /\ worker = "idle" /\ renewed = NoFn
      /\ acc' = NoFn /\ key' = [key EXCEPT ![acc] = NewKey]
      /\ state' = [state EXCEPT ![acc] = IF @ = "starting" THEN "open" ELSE @]
      /\ UNCHANGED <<dq, step, worker, renewed, adds>>
  BY DEF StartKey, IInv, TypeOK, Turns
<1>2. QED
  BY <1>1, KeyKeeps

LEMMA RenewKeyKeeps == ASSUME IInv, RenewKey PROVE IInv'
<1>1. /\ renewed \in Conns /\ acc = NoFn /\ worker = "adding"
      /\ worker' = "idle" /\ renewed' = NoFn /\ key' = [key EXCEPT ![renewed] = NewKey]
      /\ UNCHANGED <<dq, step, state, acc, adds>> /\ state[renewed] = "open"
      /\ state \in [Conns -> States]
  BY DEF RenewKey, IInv, TypeOK, Turns
<1>2. state' = [state EXCEPT ![renewed] = IF @ = "starting" THEN "open" ELSE @]
  BY <1>1
<1>3. QED
  BY <1>1, <1>2, KeyKeeps

LEMMA RenewKeeps == ASSUME IInv, ~Overlap, NEW c \in Conns, Renew(c) PROVE IInv'
<1>1. /\ worker = "idle" /\ acc = NoFn /\ state[c] = "open" /\ adds < MaxAdds
      /\ dq' = Push(Cancelled(key[c]), c) /\ key' = [key EXCEPT ![c] = NullKey]
      /\ worker' = "adding" /\ renewed' = c /\ adds' = adds + 1
      /\ UNCHANGED <<step, state, acc>>
  BY DEF Renew, Enters
<1>2. renewed = NoFn /\ Len(dq) \in Nat
  BY <1>1 DEF IInv, TypeOK, Turns
<1>4. /\ dq' \in Seq(Entries) /\ Len(dq') = Len(dq) + 1 /\ Pending(c)' = {Len(dq')}
      /\ \A d \in Conns \ {c} : Pending(d)' = Pending(d)
  BY AddDoes DEF Untouched
<1>5. TypeOK'
  BY <1>1, <1>4 DEF IInv, TypeOK, NullKey, Keys
<1>6. Turns'
  BY <1>1, <1>2, <1>4 DEF IInv, TypeOK, Turns
<1>7. ASSUME NEW d \in Conns PROVE Keyed(d)' /\ (state'[d] = "starting" <=> acc' = d)
  <2>1. CASE d = c
    BY <1>1, <1>4, <2>1 DEF Keyed, IInv, TypeOK
  <2>2. CASE d # c
    <3>1. /\ Pending(d)' = Pending(d) /\ key'[d] = key[d] /\ state'[d] = state[d]
          /\ d \notin {acc, renewed} /\ d \notin {acc', renewed'}
          /\ (state[d] = "starting" <=> acc = d) /\ adds' \in 0 .. MaxAdds
      BY <1>1, <1>2, <1>4, <2>2 DEF IInv, TypeOK
    <3>2. Front' = Front
      BY <1>1 DEF Front
    <3>3. QED
      BY <1>1, <1>2, <1>4, <3>1, <3>2, KeyedStays
  <2>3. QED
    BY <2>1, <2>2
<1>8. CallbacksAreSafe'
  BY <1>1, <1>4 DEF IInv, TypeOK, CallbacksAreSafe
<1>9. QED
  BY <1>5, <1>6, <1>7, <1>8 DEF IInv

\* A connection cancels its deadline, and goes to any state without one.
LEMMA CancelKeeps ==
    ASSUME IInv, NEW c \in Conns, worker = "idle", acc = NoFn,
           NEW s \in States \ {"starting"},
           dq' = Cancelled(key[c]), key' = [key EXCEPT ![c] = NullKey],
           state' = [state EXCEPT ![c] = s], UNCHANGED <<step, worker, renewed, acc, adds>>
    PROVE  IInv'
<1>1. renewed = NoFn /\ Len(dq) \in Nat
  BY DEF IInv, TypeOK, Turns
<1>3. /\ dq' \in Seq(Entries) /\ Len(dq') = Len(dq) /\ Pending(c)' = {}
      /\ \A d \in Conns \ {c} : Pending(d)' = Pending(d)
  BY CancelDoes DEF Untouched
<1>4. TypeOK'
  BY <1>3 DEF IInv, TypeOK, NullKey, Keys, States
<1>5. Turns'
  BY <1>1, <1>3 DEF IInv, TypeOK, Turns
<1>6. ASSUME NEW d \in Conns PROVE Keyed(d)' /\ (state'[d] = "starting" <=> acc' = d)
  <2>1. CASE d = c
    <3>1. ~key'[c].first /\ state'[c] # "starting" /\ c \notin {acc', renewed'}
      BY <1>1 DEF IInv, TypeOK, NullKey
    <3>2. QED
      BY <1>3, <2>1, <3>1 DEF Keyed
  <2>2. CASE d # c
    <3>1. /\ Pending(d)' = Pending(d) /\ key'[d] = key[d] /\ state'[d] = state[d]
          /\ d \notin {acc, renewed} /\ d \notin {acc', renewed'}
          /\ (state[d] = "starting" <=> acc = d) /\ adds' \in 0 .. MaxAdds
      BY <1>1, <1>3, <2>2 DEF IInv, TypeOK
    <3>2. Front' = Front
      BY DEF Front
    <3>3. QED
      BY <1>1, <1>3, <3>1, <3>2, KeyedStays
  <2>3. QED
    BY <2>1, <2>2
<1>7. CallbacksAreSafe'
  BY <1>3 DEF IInv, TypeOK, CallbacksAreSafe
<1>8. QED
  BY <1>4, <1>5, <1>6, <1>7 DEF IInv

LEMMA CancelsKeep ==
    ASSUME IInv, ~Overlap, NEW c \in Conns, Cancel(c) \/ Close(c) \/ Delete(c) PROVE IInv'
<1>1. /\ worker = "idle" /\ acc = NoFn /\ state \in [Conns -> States]
      /\ dq' = Cancelled(key[c]) /\ key' = [key EXCEPT ![c] = NullKey]
      /\ UNCHANGED <<step, worker, renewed, acc, adds>>
  BY DEF Cancel, Close, Delete, Enters, IInv, TypeOK
<1>2. CASE Cancel(c)
  <2>1. state' = [state EXCEPT ![c] = state[c]] /\ state[c] \in States \ {"starting"}
    BY <1>1, <1>2 DEF Cancel, Live, States
  <2>2. QED
    BY <1>1, <2>1, CancelKeeps
<1>3. CASE Close(c)
  <2>1. state' = [state EXCEPT ![c] = "closed"] /\ "closed" \in States \ {"starting"}
    BY <1>3 DEF Close, States
  <2>2. QED
    BY <1>1, <2>1, CancelKeeps
<1>4. CASE Delete(c)
  <2>1. state' = [state EXCEPT ![c] = "gone"] /\ "gone" \in States \ {"starting"}
    BY <1>4 DEF Delete, States
  <2>2. QED
    BY <1>1, <2>1, CancelKeeps
<1>5. QED
  BY <1>2, <1>3, <1>4

\* Nothing is added, cancelled or dropped.
LEMMA QuietKeeps ==
    ASSUME IInv, UNCHANGED <<key, state, renewed, acc, adds>>,
           dq' \in Seq(Entries), Len(dq') = Len(dq),
           \A i \in 1 .. Len(dq) : dq'[i].fn = dq[i].fn,
           step' \in 0 .. W - 1, Front' = Front,
           worker' \in {"idle", "adding", "scanning", "popped"},
           worker' = "adding" <=> worker = "adding",
           worker' = "popped" => worker = "popped",
           acc # NoFn => worker' = "idle"
    PROVE  IInv'
<1>1. TypeOK'
  BY DEF IInv, TypeOK
<1>2. Turns'
  BY DEF IInv, TypeOK, Turns
<1>3. \A d \in Conns : Pending(d)' = Pending(d)
  BY DEF Pending
<1>4. ASSUME NEW d \in Conns PROVE Keyed(d)' /\ (state'[d] = "starting" <=> acc' = d)
  <2>1. Keyed(d) /\ (state[d] = "starting" <=> acc = d)
    BY DEF IInv
  <2>2. \A n : Place(n)' = (n + W - Front) % W
    BY DEF Place
  <2>3. QED
    BY <1>3, <2>1, <2>2 DEF Keyed, Place
<1>5. CallbacksAreSafe'
  BY <1>3 DEF IInv, CallbacksAreSafe
<1>6. QED
  BY <1>1, <1>2, <1>4, <1>5 DEF IInv

LEMMA AdvanceKeeps == ASSUME IInv, Advance PROVE IInv'
<1>1. /\ worker \notin {"scanning", "popped"}
      /\ dq' = [i \in 1 .. Len(dq) |-> [dq[i] EXCEPT !.age = IF @ < Tick THEN @ + 1 ELSE @]]
      /\ UNCHANGED <<step, key, state, worker, renewed, acc, adds>>
  BY DEF Advance
<1>2. dq \in Seq(Entries) /\ step \in 0 .. W - 1
  BY DEF IInv, TypeOK
<1>3. ASSUME NEW i \in 1 .. Len(dq) PROVE dq'[i] \in Entries /\ dq'[i].fn = dq[i].fn
  <2>1. dq[i] \in Entries /\ dq'[i] = [dq[i] EXCEPT !.age = IF @ < Tick THEN @ + 1 ELSE @]
    BY <1>1, <1>2
  <2>2. QED
    BY <2>1 DEF Entries
<1>4. dq' \in Seq(Entries) /\ Len(dq') = Len(dq)
  BY <1>1, <1>2, <1>3
<1>5. Front' = Front
  BY <1>1 DEF Front
<1>6. QED
  BY <1>1, <1>2, <1>3, <1>4, <1>5, QuietKeeps DEF IInv, TypeOK, Turns

LEMMA ScanMovesKeep ==
    ASSUME IInv, ~Overlap, ScanBegins \/ ScanEnds \/ ScanCounts \/ UNCHANGED vars PROVE IInv'
<1>1. UNCHANGED <<dq, key, state, renewed, acc, adds>>
  BY DEF ScanBegins, ScanEnds, ScanCounts, vars
<1>2. dq \in Seq(Entries) /\ step \in 0 .. W - 1 /\ (acc # NoFn => worker = "idle")
  BY DEF IInv, TypeOK, Turns
<1>3. CASE ScanCounts
  <2>1. worker = "popped" /\ worker' = "scanning" /\ step' = (step + 1) % W
    BY <1>3 DEF ScanCounts
  <2>2. step' \in 0 .. W - 1 /\ Front' = Front
    BY <1>2, <2>1, Modulo DEF Front
  <2>3. QED
    BY <1>1, <1>2, <2>1, <2>2, QuietKeeps
<1>4. CASE ScanBegins \/ ScanEnds \/ UNCHANGED vars
  <2>1. /\ step' = step /\ (acc # NoFn => worker' = "idle") /\ (worker' = "popped" <=> worker = "popped")
        /\ worker' = "adding" <=> worker = "adding"
        /\ worker' \in {"idle", "adding", "scanning", "popped"}
    BY <1>2, <1>4 DEF ScanBegins, ScanEnds, vars, Enters, IInv, TypeOK
  <2>2. Front' = Front
    BY <2>1 DEF Front
  <2>3. QED
    BY <1>1, <1>2, <2>1, <2>2, QuietKeeps
<1>5. QED
  BY <1>3, <1>4

\* The entry in front leaves the queue; its connection has no other.
LEMMA ScanPopsKeeps == ASSUME IInv, ScanPops PROVE IInv'
<1>1. /\ worker = "scanning" /\ worker' = "popped"
      /\ UNCHANGED <<step, key, renewed, acc, adds>>
  BY DEF ScanPops
<1>2. /\ acc = NoFn /\ renewed = NoFn /\ Len(dq) <= adds
      /\ step \in 0 .. W - 1 /\ state \in [Conns -> States] /\ key \in [Conns -> Keys]
      /\ adds \in 0 .. MaxAdds
  BY <1>1 DEF IInv, TypeOK, Turns
<1>3. /\ Len(dq) \in Nat /\ Len(dq) > 0 /\ dq' \in Seq(Entries) /\ Len(dq') = Len(dq) - 1
      /\ dq[1].fn \in Conns \cup {NoFn}
      /\ state' = IF dq[1].fn # NoFn /\ state[dq[1].fn] \in {"starting", "open"}
                    THEN [state EXCEPT ![dq[1].fn] = "expired"] ELSE state
  BY PopDoes DEF Entries
<1>4. \A d \in Conns : Pending(d)' = {i \in 1 .. Len(dq) - 1 : i + 1 \in Pending(d)}
  BY PopDoes
<1>5. TypeOK'
  BY <1>1, <1>2, <1>3 DEF IInv, TypeOK, States
<1>6. Turns'
  BY <1>1, <1>2, <1>3 DEF Turns
<1>7. ASSUME NEW d \in Conns PROVE Keyed(d)'
  <2> DEFINE p == Place(key[d].second)
  <2>1. Keyed(d) /\ d \notin {acc, renewed} /\ d \notin {acc', renewed'} /\ key'[d] = key[d]
    BY <1>1, <1>2 DEF IInv
  <2>2. key[d].second \in 0 .. W - 1
    BY <1>2 DEF Keys
  <2>3. Front = step /\ Front' = (step + 1) % W
    BY <1>1 DEF Front
  <2>4. p = IF step <= key[d].second THEN key[d].second - step ELSE key[d].second + W - step
    BY <1>2, <2>2, <2>3, PlaceIs
  <2>5. p' = IF p = 0 THEN W - 1 ELSE p - 1
    <3>4. p = (key[d].second + W - Front) % W /\ p' = (key[d].second + W - Front') % W
      BY <2>1 DEF Place
    <3> HIDE DEF p
    <3>1. p = (key[d].second + W - step) % W /\ p' = (key[d].second + W - ((step + 1) % W)) % W
      BY <2>3, <3>4
    <3>2. p = 0 <=> key[d].second = step
      BY <1>2, <2>2, <2>4
    <3>5. p' = IF key[d].second = step THEN W - 1 ELSE p - 1
      BY <1>2, <2>2, <3>1, MovesUp
    <3>3. QED
      BY <3>2, <3>5
  <2>6. p \in 0 .. W - 1
    BY <1>2, <2>2, <2>4
  <2> HIDE DEF p
  <2>7. Keyed(d) = IF key[d].first /\ p < Len(dq) THEN Pending(d) = {p + 1}
                   ELSE Pending(d) = {} /\ (key[d].first => W - p <= adds - Len(dq))
    BY <2>1 DEF Keyed, p
  <2>8. Keyed(d)' = IF key[d].first /\ p' < Len(dq') THEN Pending(d)' = {p' + 1}
                    ELSE Pending(d)' = {} /\ (key[d].first => W - p' <= adds - Len(dq'))
    BY <1>1, <2>1 DEF Keyed, p
  <2>9. CASE key[d].first /\ p < Len(dq)
    <3>1. Pending(d) = {p + 1}
      BY <2>1, <2>7, <2>9
    <3>2. CASE p = 0
      <4>1. Pending(d)' = {} /\ p' = W - 1 /\ W - p' <= adds - Len(dq') /\ ~(p' < Len(dq'))
        BY <1>2, <1>3, <1>4, <2>5, <3>1, <3>2
      <4>2. QED
        BY <2>8, <4>1
    <3>3. CASE p # 0
      <4>1. p' = p - 1 /\ p' < Len(dq') /\ p' \in Nat
        BY <1>3, <2>5, <2>6, <2>9, <3>3
      <4>2. Pending(d)' = {p' + 1}
        BY <1>3, <1>4, <2>6, <3>1, <4>1
      <4>3. QED
        BY <2>8, <2>9, <4>1, <4>2
    <3>4. QED
      BY <3>2, <3>3
  <2>10. CASE ~(key[d].first /\ p < Len(dq))
    <3>1. Pending(d) = {} /\ Pending(d)' = {} /\ (key[d].first => W - p <= adds - Len(dq))
      BY <1>4, <2>1, <2>7, <2>10
    <3>2. key[d].first => ~(p' < Len(dq')) /\ W - p' <= adds - Len(dq')
      BY <1>2, <1>3, <2>5, <2>6, <2>10, <3>1
    <3>3. QED
      BY <2>8, <3>1, <3>2
  <2>11. QED
    BY <2>9, <2>10
<1>8. ASSUME NEW d \in Conns
      PROVE  /\ state'[d] = "starting" <=> acc' = d
             /\ Pending(d)' # {} => state'[d] \in {"starting", "open"}
  <2>1. /\ Pending(d) # {} => state[d] \in {"starting", "open"}
        /\ state[d] # "starting" /\ Keyed(d)
    BY <1>2 DEF IInv, CallbacksAreSafe
  <2>2. CASE dq[1].fn = d
    <3>1. 1 \in Pending(d)
      BY <1>3, <2>2 DEF Pending
    <3>2. Pending(d) = {1}
      BY <1>2, <2>1, <3>1 DEF Keyed
    <3>3. Pending(d)' = {} /\ state'[d] # "starting"
      BY <1>1, <1>2, <1>3, <1>4, <2>1, <2>2, <3>2
    <3>4. QED
      BY <1>1, <1>2, <3>3
  <2>3. CASE dq[1].fn # d
    <3>1. state'[d] = state[d]
      BY <1>1, <1>2, <1>3, <2>3
    <3>2. Pending(d)' # {} => Pending(d) # {}
      BY <1>4
    <3>3. QED
      BY <1>1, <1>2, <2>1, <3>1, <3>2
  <2>4. QED
    BY <2>2, <2>3
<1>9. CallbacksAreSafe'
  BY <1>8 DEF CallbacksAreSafe
<1>10. QED
  BY <1>5, <1>6, <1>7, <1>8, <1>9 DEF IInv

LEMMA NextKeeps == ASSUME IInv, ~Overlap, [Next]_vars PROVE IInv'
<1>1. ASSUME NEW c \in Conns, StartPush(c) PROVE IInv'
  BY <1>1, StartPushKeeps
<1>2. ASSUME NEW c \in Conns, Renew(c) \/ Cancel(c) \/ Close(c) \/ Delete(c) PROVE IInv'
  BY <1>2, RenewKeeps, CancelsKeep
<1>3. QED
  BY <1>1, <1>2, StartKeyKeeps, RenewKeyKeeps, ScanMovesKeep, ScanPopsKeeps, AdvanceKeeps
     DEF Next, Acceptor, Handlers, Scan

-----------------------------------------------------------------------------

\* The invariant behind all the others (dumb_timer_queue.h:26-66): every key leads to the
\* entry it was given for, or behind the queue.
THEOREM QueueInductive == ~Overlap => (Spec => []IInv)
<1>1. SUFFICES ASSUME ~Overlap PROVE Spec => []IInv
  OBVIOUS
<1>2. IInv /\ [Next]_vars => IInv'
  BY <1>1, NextKeeps
<1>3. QED
  BY <1>2, Initially, PTL DEF Spec

\* If the threads take turns, cancel() (dumb_timer_queue.h:26-38) finds the deadline of its
\* own connection, or none, and never that of another one, wherever step_ wraps round.
THEOREM KeysFindOwn == ~Overlap => (Spec => []KeyFindsOwn)
<1>1. IInv => KeyFindsOwn
  <2>1. SUFFICES ASSUME IInv, NEW c \in Conns, worker = "idle", acc # c
                 PROVE  Pending(c) = IF key[c].first /\ Index(key[c].second) < Len(dq)
                                       THEN {Index(key[c].second) + 1} ELSE {}
    BY DEF KeyFindsOwn
  <2>2. Keyed(c) /\ c \notin {acc, renewed}
    BY <2>1 DEF IInv, TypeOK, Turns
  <2>3. Index(key[c].second) = Place(key[c].second)
    BY <2>1 DEF Index, Place, Front
  <2>4. QED
    BY <2>2, <2>3 DEF Keyed
<1>2. QED
  BY <1>1, QueueInductive, PTL

\* If the threads take turns, a deadline that may still be called (http_connection.h:516)
\* belongs to a connection that exists and has its socket open.
THEOREM CallbacksStaySafe == ~Overlap => (Spec => []CallbacksAreSafe)
<1>1. IInv => CallbacksAreSafe
  BY DEF IInv
<1>2. QED
  BY <1>1, QueueInductive, PTL

-----------------------------------------------------------------------------
(* A deadline is disarmed by nobody but its connection.                    *)

\* If the threads take turns, a deadline leaves the queue because it is due, which shuts its
\* connection, or because this connection cancels it (dumb_timer_queue.h:26-66).
THEOREM OwnersDisarmOnly == ~Overlap => (Spec => OnlyOwnerDisarms)
<1>1. SUFFICES ASSUME ~Overlap PROVE Spec => OnlyOwnerDisarms
  OBVIOUS
<1>2. ASSUME IInv, [Next]_vars, NEW c \in Conns, Pending(c) # {}, Pending(c)' = {}
      PROVE  state'[c] = "expired" \/ ~key'[c].first
  <2>1. /\ dq \in Seq(Entries) /\ state \in [Conns -> States] /\ key \in [Conns -> Keys]
        /\ state[c] \in {"starting", "open"}
    BY <1>2 DEF IInv, TypeOK, CallbacksAreSafe
  <2>2. ASSUME NEW d \in Conns, StartPush(d) \/ Renew(d) PROVE FALSE
    <3>1. Len(dq') \in Pending(d)' /\ \A e \in Conns \ {d} : Pending(e)' = Pending(e)
      BY <1>1, <1>2, <2>2, AddDoes DEF Untouched
    <3>2. QED
      BY <1>2, <3>1
  <2>3. ASSUME NEW d \in Conns, Cancel(d) \/ Close(d) \/ Delete(d) PROVE ~key'[c].first
    <3>1. /\ worker = "idle" /\ acc = NoFn /\ dq' = Cancelled(key[d])
          /\ key' = [key EXCEPT ![d] = NullKey]
      BY <1>1, <2>3 DEF Cancel, Close, Delete, Enters
    <3>2. d = c
      BY <1>2, <3>1, CancelDoes DEF Untouched
    <3>3. QED
      BY <2>1, <3>1, <3>2 DEF NullKey
  <2>4. CASE ScanPops
    <3>1. PICK i \in Pending(c) : Pending(c) = {i} /\ i \in 1 .. Len(dq)
      BY <1>2, OneDeadline DEF Pending
    <3>2. i = 1
      <4>1. Len(dq) \in Nat /\ Pending(c)' = {k \in 1 .. Len(dq) - 1 : k + 1 \in Pending(c)}
        BY <1>2, <2>4, PopDoes
      <4>2. i # 1 => i - 1 \in Pending(c)'
        BY <3>1, <4>1
      <4>3. QED
        BY <1>2, <4>2
    <3>3. dq[1].fn = c
      BY <3>1, <3>2 DEF Pending
    <3>4. QED
      BY <1>2, <2>1, <2>4, <3>3, PopDoes
  <2>5. CASE Advance
    <3>1. Pending(c)' = Pending(c)
      <4>1. /\ Len(dq') = Len(dq)
            /\ \A i \in 1 .. Len(dq) :
                  dq[i] \in Entries /\ dq'[i] = [dq[i] EXCEPT !.age = IF @ < Tick THEN @ + 1 ELSE @]
        BY <2>1, <2>5 DEF Advance
      <4>2. \A i \in 1 .. Len(dq) : dq'[i].fn = dq[i].fn
        BY <4>1 DEF Entries
      <4>3. QED
        BY <4>1, <4>2 DEF Pending
    <3>2. QED
      BY <1>2, <3>1
  <2>6. CASE UNCHANGED dq
    BY <1>2, <2>6 DEF Pending
  <2>7. QED
    BY <1>2, <2>2, <2>3, <2>4, <2>5, <2>6
       DEF Next, Acceptor, StartKey, Handlers, RenewKey, Scan, ScanBegins, ScanEnds, ScanCounts, vars
<1>3. IInv /\ [Next]_vars =>
        [\A c \in Conns : (Pending(c) # {} /\ Pending(c)' = {}) =>
                              state'[c] = "expired" \/ ~key'[c].first]_vars
  BY <1>2
<1>4. QED
  BY <1>1, <1>3, QueueInductive, PTL DEF Spec, OnlyOwnerDisarms

-----------------------------------------------------------------------------
(* The queue implements Deadlines.                                         *)

LEMMA BarsAre ==
    /\ ConnBar = [c \in Conns |-> ConnBar[c]] /\ ArmedBar = [c \in Conns |-> ArmedBar[c]]
    /\ \A c \in Conns : Pending(c) = {} => ArmedBar[c] = 0
    /\ \A c \in Conns : \A i : Pending(c) = {i} => ArmedBar[c] = 1 + dq[i].age
<1>1. \A i : (CHOOSE j \in {i} : TRUE) = i
  OBVIOUS
<1>2. \A c \in Conns : \A i : Pending(c) = {i} => ArmedBar[c] = 1 + dq[i].age
  <2>1. SUFFICES ASSUME NEW c \in Conns, NEW i, Pending(c) = {i} PROVE ArmedBar[c] = 1 + dq[i].age
    OBVIOUS
  <2>2. ArmedBar[c] = 1 + dq[CHOOSE j \in Pending(c) : TRUE].age
    BY <2>1 DEF ArmedBar
  <2>3. QED
    BY <1>1, <2>1, <2>2
<1>3. ConnBar = [c \in Conns |-> ConnBar[c]]
  BY DEF ConnBar
<1>4. ArmedBar = [c \in Conns |-> ArmedBar[c]]
  BY DEF ArmedBar
<1>5. \A c \in Conns : Pending(c) = {} => ArmedBar[c] = 0
  BY DEF ArmedBar
<1>6. QED
  BY <1>2, <1>3, <1>4, <1>5

LEMMA BarsAreNext ==
    /\ ConnBar' = [c \in Conns |-> ConnBar'[c]] /\ ArmedBar' = [c \in Conns |-> ArmedBar'[c]]
    /\ \A c \in Conns : Pending(c)' = {} => ArmedBar'[c] = 0
    /\ \A c \in Conns : \A i : Pending(c)' = {i} => ArmedBar'[c] = 1 + dq'[i].age
<1>1. \A i : (CHOOSE j \in {i} : TRUE) = i
  OBVIOUS
<1>2. \A c \in Conns : \A i : Pending(c)' = {i} => ArmedBar'[c] = 1 + dq'[i].age
  <2>1. SUFFICES ASSUME NEW c \in Conns, NEW i, Pending(c)' = {i} PROVE ArmedBar'[c] = 1 + dq'[i].age
    OBVIOUS
  <2>2. ArmedBar'[c] = 1 + dq'[CHOOSE j \in Pending(c)' : TRUE].age
    BY <2>1 DEF ArmedBar
  <2>3. QED
    BY <1>1, <2>1, <2>2
<1>3. ConnBar' = [c \in Conns |-> ConnBar'[c]]
  BY DEF ConnBar
<1>4. ArmedBar' = [c \in Conns |-> ArmedBar'[c]]
  BY DEF ArmedBar
<1>5. \A c \in Conns : Pending(c)' = {} => ArmedBar'[c] = 0
  BY DEF ArmedBar
<1>6. QED
  BY <1>2, <1>3, <1>4, <1>5

LEMMA UntouchedKeepsArmed ==
    ASSUME IInv, NEW c \in Conns, Untouched(c) PROVE ArmedBar'[c] = ArmedBar[c]
<1>1. CASE Pending(c) = {}
  BY <1>1, BarsAre, BarsAreNext DEF Untouched
<1>2. CASE Pending(c) # {}
  <2>1. PICK i \in Pending(c) : Pending(c) = {i}
    BY <1>2, OneDeadline
  <2>2. Pending(c)' = {i} /\ dq'[i].age = dq[i].age
    BY <2>1 DEF Untouched
  <2>3. QED
    BY <2>1, <2>2, BarsAre, BarsAreNext
<1>3. QED
  BY <1>1, <1>2

LEMMA InitMaps == Init => Abstract!Init
<1>1. SUFFICES ASSUME Init PROVE Abstract!Init
  OBVIOUS
<1>2. \A c \in Conns : state[c] = "gone" /\ Pending(c) = {}
  BY <1>1 DEF Init, Pending
<1>3. ConnBar = [c \in Conns |-> "absent"]
  BY <1>2 DEF ConnBar
<1>4. ArmedBar = [c \in Conns |-> 0]
  BY <1>2 DEF ArmedBar
<1>5. QED
  BY <1>3, <1>4 DEF Abstract!Init, Abstract!Off

\* A new or renewed deadline is one of age 0; nobody else's changes.
LEMMA AddArms ==
    ASSUME IInv, ~Overlap, NEW c \in Conns, StartPush(c) \/ Renew(c)
    PROVE  ArmedBar' = [ArmedBar EXCEPT ![c] = 1]
<1>1. /\ Pending(c)' = {Len(dq')} /\ dq'[Len(dq')].age = 0
      /\ \A d \in Conns \ {c} : Untouched(d)
  BY AddDoes
<1>2. ArmedBar'[c] = 1
  BY <1>1, BarsAreNext
<1>3. \A d \in Conns \ {c} : ArmedBar'[d] = ArmedBar[d]
  BY <1>1, UntouchedKeepsArmed
<1>4. QED
  BY <1>2, <1>3, BarsAre, BarsAreNext

LEMMA CancelDisarms ==
    ASSUME IInv, NEW c \in Conns, worker = "idle", acc = NoFn, dq' = Cancelled(key[c])
    PROVE  ArmedBar' = [ArmedBar EXCEPT ![c] = 0]
<1>1. Pending(c)' = {} /\ \A d \in Conns \ {c} : Untouched(d)
  BY CancelDoes
<1>2. ArmedBar'[c] = 0 /\ \A d \in Conns \ {c} : ArmedBar'[d] = ArmedBar[d]
  BY <1>1, BarsAreNext, UntouchedKeepsArmed
<1>3. QED
  BY <1>2, BarsAre, BarsAreNext

\* A state that maps to the same keeps the connections as they are.
LEMMA SameConn ==
    ASSUME state' = state PROVE ConnBar' = ConnBar
BY DEF ConnBar

LEMMA ConnGoes ==
    ASSUME IInv, NEW c \in Conns, NEW s, state' = [state EXCEPT ![c] = s]
    PROVE  ConnBar' = [ConnBar EXCEPT ![c] = IF s = "gone" THEN "absent"
                                             ELSE IF s \in {"starting", "open"} THEN "open" ELSE "shut"]
<1>1. state'[c] = s /\ \A d \in Conns \ {c} : state'[d] = state[d]
  BY DEF IInv, TypeOK
<1>2. QED
  BY <1>1 DEF ConnBar

LEMMA StepMaps == ASSUME IInv, ~Overlap, Next PROVE Abstract!Next \/ UNCHANGED <<ConnBar, ArmedBar>>
<1>1. state \in [Conns -> States] /\ dq \in Seq(Entries)
  BY DEF IInv, TypeOK
<1>2. ASSUME NEW c \in Conns, StartPush(c) PROVE Abstract!Open(c)
  <2>1. ArmedBar' = [ArmedBar EXCEPT ![c] = 1]
    BY <1>2, AddArms
  <2>2. state[c] = "gone" /\ state' = [state EXCEPT ![c] = "starting"]
    BY <1>2 DEF StartPush
  <2>3. ConnBar[c] = "absent" /\ ConnBar' = [ConnBar EXCEPT ![c] = "open"]
    BY <2>2, ConnGoes DEF ConnBar
  <2>4. QED
    BY <2>1, <2>3 DEF Abstract!Open
<1>3. ASSUME NEW c \in Conns, Renew(c) PROVE Abstract!Renew(c)
  <2>1. ArmedBar' = [ArmedBar EXCEPT ![c] = 1]
    BY <1>3, AddArms
  <2>2. ConnBar[c] = "open" /\ ConnBar' = ConnBar
    BY <1>3, SameConn DEF Renew, ConnBar
  <2>3. QED
    BY <2>1, <2>2 DEF Abstract!Renew
<1>4. ASSUME NEW c \in Conns, Cancel(c) \/ Close(c) \/ Delete(c)
      PROVE  Abstract!Cancel(c) \/ Abstract!Shut(c) \/ Abstract!Free(c)
  <2>1. worker = "idle" /\ acc = NoFn /\ dq' = Cancelled(key[c])
    BY <1>4 DEF Cancel, Close, Delete, Enters
  <2>2. ArmedBar' = [ArmedBar EXCEPT ![c] = 0]
    BY <2>1, CancelDisarms
  <2>3. CASE Cancel(c)
    BY <2>2, <2>3, SameConn DEF Cancel, Abstract!Cancel, Abstract!Off
  <2>4. CASE Close(c)
    <3>1. state[c] \in {"open", "expired"} /\ state' = [state EXCEPT ![c] = "closed"]
      BY <2>4 DEF Close, Live
    <3>2. ConnBar' = [ConnBar EXCEPT ![c] = "shut"]
      <4>1. state' = [state EXCEPT ![c] = "closed"]
        BY <3>1
      <4>2. state'[c] = "closed" /\ \A d \in Conns \ {c} : state'[d] = state[d]
        BY <1>1, <4>1
      <4>3. QED
        BY <4>2 DEF ConnBar
    <3>3. CASE state[c] = "open"
      <4>1. ConnBar[c] = "open"
        BY <3>3 DEF ConnBar
      <4>2. QED
        BY <2>2, <3>2, <4>1 DEF Abstract!Shut, Abstract!Off
    <3>4. CASE state[c] = "expired"
      <4>1. ConnBar[c] = "shut"
        BY <3>4 DEF ConnBar
      <4>2. ConnBar' = ConnBar
        BY <3>2, <4>1, BarsAre
      <4>3. QED
        BY <2>2, <4>2 DEF Abstract!Cancel, Abstract!Off
    <3>5. QED
      BY <3>1, <3>3, <3>4
  <2>5. CASE Delete(c)
    <3>1. state[c] = "closed" /\ state' = [state EXCEPT ![c] = "gone"]
      BY <2>5 DEF Delete
    <3>2. ConnBar[c] = "shut" /\ ConnBar' = [ConnBar EXCEPT ![c] = "absent"]
      BY <3>1, ConnGoes DEF ConnBar
    <3>3. ArmedBar[c] = 0
      BY <3>1, BarsAre DEF IInv, CallbacksAreSafe
    <3>4. ArmedBar' = ArmedBar
      BY <2>2, <3>3, BarsAre
    <3>5. QED
      BY <3>2, <3>3, <3>4 DEF Abstract!Free, Abstract!Off
  <2>6. QED
    BY <1>4, <2>3, <2>4, <2>5
<1>5. CASE ScanPops
  <2>1. /\ Len(dq) \in Nat /\ Len(dq) > 0 /\ dq[1] \in Entries /\ dq[1].age = Tick
        /\ Len(dq') = Len(dq) - 1
        /\ \A i \in 1 .. Len(dq') : dq'[i] = dq[i + 1]
        /\ \A d \in Conns : Pending(d)' = {i \in 1 .. Len(dq) - 1 : i + 1 \in Pending(d)}
        /\ state' = IF dq[1].fn # NoFn /\ state[dq[1].fn] \in {"starting", "open"}
                      THEN [state EXCEPT ![dq[1].fn] = "expired"] ELSE state
    BY <1>5, PopDoes
  <2>2. ASSUME NEW d \in Conns, d # dq[1].fn PROVE ArmedBar'[d] = ArmedBar[d]
    <3>1. CASE Pending(d) = {}
      BY <2>1, <3>1, BarsAre, BarsAreNext
    <3>2. CASE Pending(d) # {}
      <4>1. PICK i \in Pending(d) : Pending(d) = {i}
        BY <3>2, OneDeadline
      <4>2. i \in 1 .. Len(dq) /\ i # 1
        BY <2>2, <4>1 DEF Pending
      <4>3. Pending(d)' = {i - 1} /\ dq'[i - 1] = dq[i]
        BY <2>1, <4>1, <4>2
      <4>4. ArmedBar'[d] = 1 + dq'[i - 1].age /\ ArmedBar[d] = 1 + dq[i].age
        BY <4>1, <4>3, BarsAre, BarsAreNext
      <4>5. QED
        BY <4>3, <4>4
    <3>3. QED
      BY <3>1, <3>2
  <2>3. CASE dq[1].fn = NoFn
    <3>1. ArmedBar' = ArmedBar
      BY <2>2, <2>3, BarsAre, BarsAreNext
    <3>2. QED
      BY <2>1, <2>3, <3>1, SameConn
  <2>4. CASE dq[1].fn # NoFn
    <3>1. PICK c \in Conns : c = dq[1].fn
      BY <2>1, <2>4 DEF Entries
    <3>2. 1 \in Pending(c)
      BY <2>1, <3>1 DEF Pending
    <3>3. Pending(c) = {1} /\ state[c] \in {"starting", "open"}
      BY <3>1, <3>2, OneDeadline DEF IInv, CallbacksAreSafe
    <3>4. ArmedBar[c] = Tick + 1
      BY SMTT(30), <2>1, <3>1, <3>3, BarsAre
    <3>5. Pending(c)' = {}
      BY <2>1, <3>1, <3>3
    <3>6. ArmedBar' = [ArmedBar EXCEPT ![c] = 0]
      BY <2>2, <3>1, <3>5, BarsAre, BarsAreNext
    <3>7. ConnBar' = [ConnBar EXCEPT ![c] = "shut"]
      BY <2>1, <2>4, <3>1, <3>3, ConnGoes
    <3>8. Abstract!Fire(c)
      BY <3>4, <3>6, <3>7 DEF Abstract!Fire, Abstract!Off
    <3>9. QED
      BY <3>1, <3>8 DEF Abstract!Next
  <2>5. QED
    BY <2>3, <2>4
<1>6. CASE Advance
  <2>1. /\ Len(dq') = Len(dq) /\ state' = state
        /\ \A i \in 1 .. Len(dq) :
              /\ dq[i] \in Entries
              /\ dq'[i] = [dq[i] EXCEPT !.age = IF @ < Tick THEN @ + 1 ELSE @]
    BY <1>1, <1>6 DEF Advance
  <2>2. \A i \in 1 .. Len(dq) :
           /\ dq'[i].fn = dq[i].fn /\ dq[i].age \in 0 .. Tick
           /\ dq'[i].age = IF dq[i].age < Tick THEN dq[i].age + 1 ELSE dq[i].age
    BY <2>1 DEF Entries
  <2>3. \A d \in Conns : Pending(d)' = Pending(d)
    BY <2>1, <2>2 DEF Pending
  <2>4. ASSUME NEW d \in Conns
        PROVE  ArmedBar'[d] = IF ArmedBar[d] \in 1 .. Tick THEN ArmedBar[d] + 1 ELSE ArmedBar[d]
    <3>1. CASE Pending(d) = {}
      BY <2>3, <3>1, BarsAre, BarsAreNext
    <3>2. CASE Pending(d) # {}
      <4>1. PICK i \in Pending(d) : Pending(d) = {i}
        BY <3>2, OneDeadline
      <4>2. i \in 1 .. Len(dq)
        BY <4>1 DEF Pending
      <4>3. ArmedBar'[d] = 1 + dq'[i].age /\ ArmedBar[d] = 1 + dq[i].age
        BY <2>3, <4>1, BarsAre, BarsAreNext
      <4>4. QED
        BY <2>2, <4>2, <4>3
    <3>3. QED
      BY <3>1, <3>2
  <2>5. ArmedBar' = [d \in Conns |-> IF ArmedBar[d] \in 1 .. Tick THEN ArmedBar[d] + 1
                                                                 ELSE ArmedBar[d]]
    BY <2>4, BarsAreNext
  <2>6. Abstract!Age
    BY <2>1, <2>5, SameConn DEF Abstract!Age
  <2>7. QED
    BY <2>6 DEF Abstract!Next
<1>7. CASE StartKey \/ RenewKey \/ ScanBegins \/ ScanEnds \/ ScanCounts
  <2>1. dq' = dq
    BY <1>7 DEF StartKey, RenewKey, ScanBegins, ScanEnds, ScanCounts
  <2>2. ArmedBar' = ArmedBar
    BY <2>1 DEF ArmedBar, Pending
  <2>3. ConnBar' = ConnBar
    <3>1. CASE StartKey
      <4>1. acc \in Conns /\ state[acc] = "starting" /\ state' = [state EXCEPT ![acc] = "open"]
        BY <3>1 DEF StartKey, IInv, TypeOK
      <4>2. \A d \in Conns : state'[d] = IF d = acc THEN "open" ELSE state[d]
        BY <1>1, <4>1
      <4>3. QED
        BY <4>1, <4>2 DEF ConnBar
    <3>2. CASE RenewKey \/ ScanBegins \/ ScanEnds \/ ScanCounts
      BY <3>2, SameConn DEF RenewKey, ScanBegins, ScanEnds, ScanCounts
    <3>3. QED
      BY <1>7, <3>1, <3>2
  <2>4. QED
    BY <2>2, <2>3
<1>8. QED
  BY <1>2, <1>3, <1>4, <1>5, <1>6, <1>7
     DEF Next, Acceptor, Handlers, Scan, Abstract!Next

\* If the threads take turns, the queue (dumb_timer_queue.h) is one deadline per connection:
\* every step of it is one that Deadlines allows, or changes nothing of it.
THEOREM QueueImplements == ~Overlap => (Spec => ImplementsDeadlines)
<1>1. SUFFICES ASSUME ~Overlap PROVE Spec => ImplementsDeadlines
  OBVIOUS
<1>2. IInv /\ [Next]_vars => [Abstract!Next]_(Abstract!vars)
  <2>1. SUFFICES ASSUME IInv, [Next]_vars PROVE [Abstract!Next]_(Abstract!vars)
    OBVIOUS
  <2>2. CASE UNCHANGED vars
    BY <2>2 DEF vars, ConnBar, ArmedBar, Pending, Abstract!vars
  <2>3. CASE Next
    BY <1>1, <2>1, <2>3, StepMaps DEF Abstract!vars
  <2>4. QED
    BY <2>1, <2>2, <2>3
<1>3. QED
  BY <1>1, <1>2, InitMaps, QueueInductive, PTL DEF Spec, ImplementsDeadlines, Abstract!Spec
=============================================================================
