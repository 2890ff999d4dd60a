---------------------------- MODULE Ends_proofs ------------------------------
(***************************************************************************)
(* The ends of the program: where it speaks to Twitter, to browsers and to *)
(* other servers, and the page in a browser.                               *)
(*                                                                         *)
(* To Twitter: a nonce is used again only by requests that overlapped the  *)
(* first one, for any number of workers, requests and seconds.             *)
(*                                                                         *)
(* The server: connections go to workers that are ready for them, in turn, *)
(* and dates are never over a second late, for any number of workers and   *)
(* for all time.                                                           *)
(*                                                                         *)
(* The page in the browser: the address names what it shows and replies    *)
(* go home, for any number of pages, clicks and entries of the history, in *)
(* whatever order answers come.  The history changes in two ways: an entry *)
(* is pushed (PushedKeeps) or a document is loaded (LoadedKeeps).          *)
(*                                                                         *)
(* The REST client keeps its handles apart and its requests pure, for any  *)
(* threads and any number of handles and calls.                            *)
(***************************************************************************)
EXTENDS Nonces, Server, Browser, RestClient, FiniteSetTheorems, TLAPS

-----------------------------------------------------------------------------
(* Nonces: of the requests that began early, those that got past the       *)
(* seeding, and how often a random number is in use.                       *)

Randoms   == Nat \X Nat
Signings  == [at : {"idle", "check", "seed", "mark", "draw", "send"}, random : Randoms, early : BOOLEAN]
NonceType == [time : Nat, random : Randoms, early : BOOLEAN]

PassedOf(g)  == {w \in Signers : g[w].early /\ g[w].at \notin {"check", "seed"}}
SentOf(g, r) == {w \in Signers : g[w].at = "send" /\ g[w].random = r}
EarlyIn(s)   == {k \in DOMAIN s : s[k].early}
UsedIn(s, r) == {k \in DOMAIN s : s[k].random = r}
PassedBy(g, s)  == Cardinality(PassedOf(g)) + Cardinality(EarlyIn(s))
UsesOf(g, s, r) == Cardinality(SentOf(g, r)) + Cardinality(UsedIn(s, r))

\* Only requests that began early seed; and however often they do, no number is in use
\* more often than requests have passed the seeding, and one that is still to be drawn
\* less often.
NonceTypes ==
    /\ clock \in Nat /\ signing \in [Signers -> Signings] /\ nonces \in Seq(NonceType)
    /\ library \in [initialized : BOOLEAN, seed : Nat, drawn : Nat]
OnlyEarlySeed ==
    \A w \in Signers :
        /\ signing[w].at = "idle" => ~signing[w].early
        /\ signing[w].at \in {"seed", "mark"} => signing[w].early
        /\ signing[w].at = "check" => signing[w].early \/ library.initialized
        /\ signing[w].at \in {"draw", "send"} => library.initialized
NumbersLast(g, s, seed, drawn) ==
    \A r \in Randoms :
        /\ UsesOf(g, s, r) <= PassedBy(g, s)
        /\ r[1] = seed /\ r[2] >= drawn /\ PassedBy(g, s) > 0 => UsesOf(g, s, r) < PassedBy(g, s)
NonceInv ==
    /\ NonceTypes /\ OnlyEarlySeed
    /\ nonces # <<>> => library.initialized
    /\ library.initialized => PassedBy(signing, nonces) > 0
    /\ NumbersLast(signing, nonces, library.seed, library.drawn)

LEMMA OneMore ==
    ASSUME NEW A, IsFiniteSet(A), NEW x
    PROVE  /\ IsFiniteSet(A \cup {x}) /\ Cardinality(A) \in Nat
           /\ x \notin A => Cardinality(A \cup {x}) = Cardinality(A) + 1
BY FS_AddElement, FS_CardinalityType

LEMMA OneLess ==
    ASSUME NEW A, IsFiniteSet(A), NEW x \in A
    PROVE  IsFiniteSet(A \ {x}) /\ Cardinality(A \ {x}) = Cardinality(A) - 1
BY FS_RemoveElement

LEMMA SignersAreFinite ==
    ASSUME NEW g, NEW r
    PROVE  /\ IsFiniteSet(PassedOf(g)) /\ Cardinality(PassedOf(g)) \in Nat
           /\ IsFiniteSet(SentOf(g, r)) /\ Cardinality(SentOf(g, r)) \in Nat
<1>1. IsFiniteSet(Signers)
  BY SigningAssumption
<1>2. PassedOf(g) \in SUBSET Signers /\ SentOf(g, r) \in SUBSET Signers
  BY DEF PassedOf, SentOf
<1>3. IsFiniteSet(PassedOf(g)) /\ IsFiniteSet(SentOf(g, r))
  BY ONLY <1>1, <1>2, FS_Subset
<1> QED BY ONLY <1>3, FS_CardinalityType

LEMMA NoncesAreFinite ==
    ASSUME NEW s \in Seq(NonceType), NEW r
    PROVE  /\ IsFiniteSet(EarlyIn(s)) /\ Cardinality(EarlyIn(s)) \in Nat
           /\ IsFiniteSet(UsedIn(s, r)) /\ Cardinality(UsedIn(s, r)) \in Nat
<1>1. PICK one \in Int, n \in Int : DOMAIN s = one .. n
  <2>1. DOMAIN s = 1 .. Len(s) /\ Len(s) \in Int /\ 1 \in Int
    OBVIOUS
  <2> QED BY <2>1
<1>2. IsFiniteSet(one .. n)
  BY ONLY FS_Interval
<1>3. EarlyIn(s) \in SUBSET (one .. n) /\ UsedIn(s, r) \in SUBSET (one .. n)
  BY <1>1 DEF EarlyIn, UsedIn
<1>4. IsFiniteSet(EarlyIn(s)) /\ IsFiniteSet(UsedIn(s, r))
  BY ONLY <1>2, <1>3, FS_Subset
<1> QED BY ONLY <1>4, FS_CardinalityType

LEMMA NonceIsAdded ==
    ASSUME NEW s \in Seq(NonceType), NEW x \in NonceType, NEW r
    PROVE  /\ Cardinality(EarlyIn(Append(s, x))) = Cardinality(EarlyIn(s)) + (IF x.early THEN 1 ELSE 0)
           /\ Cardinality(UsedIn(Append(s, x), r)) = Cardinality(UsedIn(s, r)) + (IF x.random = r THEN 1 ELSE 0)
<1> DEFINE n == Len(s) + 1
<1>1. /\ DOMAIN Append(s, x) = DOMAIN s \cup {n} /\ n \notin DOMAIN s
      /\ Append(s, x)[n] = x /\ \A k \in DOMAIN s : Append(s, x)[k] = s[k]
  OBVIOUS
<1> HIDE DEF n
<1>2. /\ EarlyIn(Append(s, x)) = IF x.early THEN EarlyIn(s) \cup {n} ELSE EarlyIn(s)
      /\ UsedIn(Append(s, x), r) = IF x.random = r THEN UsedIn(s, r) \cup {n} ELSE UsedIn(s, r)
      /\ n \notin EarlyIn(s) /\ n \notin UsedIn(s, r)
  BY <1>1 DEF EarlyIn, UsedIn
<1>3. /\ Cardinality(EarlyIn(s)) \in Nat /\ Cardinality(UsedIn(s, r)) \in Nat
      /\ Cardinality(EarlyIn(s) \cup {n}) = Cardinality(EarlyIn(s)) + 1
      /\ Cardinality(UsedIn(s, r) \cup {n}) = Cardinality(UsedIn(s, r)) + 1
  BY <1>2, NoncesAreFinite, OneMore
<1> QED BY <1>2, <1>3

\* What a step of one worker does to the counts.
Passes(c) == IF c.early /\ c.at \notin {"check", "seed"} THEN 1 ELSE 0
Holds(c, r) == IF c.at = "send" /\ c.random = r THEN 1 ELSE 0
LEMMA SignerMoves ==
    ASSUME NEW g, NEW h, NEW w \in Signers, \A v \in Signers \ {w} : h[v] = g[v], NEW r
    PROVE  /\ Cardinality(PassedOf(h)) = Cardinality(PassedOf(g)) - Passes(g[w]) + Passes(h[w])
           /\ Cardinality(SentOf(h, r)) = Cardinality(SentOf(g, r)) - Holds(g[w], r) + Holds(h[w], r)
<1>1. /\ IsFiniteSet(PassedOf(g)) /\ Cardinality(PassedOf(g)) \in Nat
      /\ IsFiniteSet(SentOf(g, r)) /\ Cardinality(SentOf(g, r)) \in Nat
  BY SignersAreFinite
<1>2. ASSUME NEW A, NEW B, IsFiniteSet(A), Cardinality(A) \in Nat, A \ {w} = B \ {w}
      PROVE  Cardinality(B) = Cardinality(A) - (IF w \in A THEN 1 ELSE 0) + (IF w \in B THEN 1 ELSE 0)
  <2>1. CASE w \in A /\ w \in B
    <3>1. A = B
      BY <1>2, <2>1
    <3> QED BY <1>2, <2>1, <3>1
  <2>2. CASE w \notin A /\ w \notin B
    <3>1. A = B
      BY <1>2, <2>2
    <3> QED BY <1>2, <2>2, <3>1
  <2>3. CASE w \in A /\ w \notin B
    <3>1. B = A \ {w}
      BY <1>2, <2>3
    <3>2. Cardinality(A \ {w}) = Cardinality(A) - 1
      BY ONLY <1>2, <2>3, OneLess
    <3> QED BY <1>2, <2>3, <3>1, <3>2
  <2>4. CASE w \notin A /\ w \in B
    <3>1. B = A \cup {w}
      BY <1>2, <2>4
    <3>2. Cardinality(A \cup {w}) = Cardinality(A) + 1
      BY ONLY <1>2, <2>4, OneMore
    <3> QED BY <1>2, <2>4, <3>1, <3>2
  <2> QED BY <2>1, <2>2, <2>3, <2>4
<1>3. PassedOf(g) \ {w} = PassedOf(h) \ {w} /\ SentOf(g, r) \ {w} = SentOf(h, r) \ {w}
  BY DEF PassedOf, SentOf
<1>4. /\ Passes(g[w]) = IF w \in PassedOf(g) THEN 1 ELSE 0
      /\ Passes(h[w]) = IF w \in PassedOf(h) THEN 1 ELSE 0
      /\ Holds(g[w], r) = IF w \in SentOf(g, r) THEN 1 ELSE 0
      /\ Holds(h[w], r) = IF w \in SentOf(h, r) THEN 1 ELSE 0
  BY DEF PassedOf, SentOf, Passes, Holds
<1>5. Cardinality(PassedOf(h)) = Cardinality(PassedOf(g)) - Passes(g[w]) + Passes(h[w])
  BY <1>1, <1>2, <1>3, <1>4
<1>6. Cardinality(SentOf(h, r)) = Cardinality(SentOf(g, r)) - Holds(g[w], r) + Holds(h[w], r)
  BY <1>1, <1>2, <1>3, <1>4
<1> QED BY <1>5, <1>6

\* A step of one worker, by what it does to the counts.
LEMMA CountsAre ==
    ASSUME NonceTypes, NEW w \in Signers, NEW c \in Signings, signing' = [signing EXCEPT ![w] = c]
    PROVE  /\ signing' \in [Signers -> Signings] /\ signing'[w] = c
           /\ \A v \in Signers \ {w} : signing'[v] = signing[v]
           /\ Cardinality(PassedOf(signing')) = Cardinality(PassedOf(signing)) - Passes(signing[w]) + Passes(c)
           /\ \A r : Cardinality(SentOf(signing', r)) = Cardinality(SentOf(signing, r))
                                                        - Holds(signing[w], r) + Holds(c, r)
<1>1. /\ signing' \in [Signers -> Signings] /\ signing'[w] = c
      /\ \A v \in Signers \ {w} : signing'[v] = signing[v]
  BY DEF NonceTypes
<1>2. ASSUME NEW r
      PROVE  /\ Cardinality(PassedOf(signing')) = Cardinality(PassedOf(signing)) - Passes(signing[w]) + Passes(c)
             /\ Cardinality(SentOf(signing', r)) = Cardinality(SentOf(signing, r)) - Holds(signing[w], r) + Holds(c, r)
  <2>1. PICK h : h = signing'
    OBVIOUS
  <2>2. PICK g : g = signing
    OBVIOUS
  <2>3. \A v \in Signers \ {w} : h[v] = g[v]
    BY <1>1, <2>1, <2>2
  <2>4. /\ Cardinality(PassedOf(h)) = Cardinality(PassedOf(g)) - Passes(g[w]) + Passes(h[w])
        /\ Cardinality(SentOf(h, r)) = Cardinality(SentOf(g, r)) - Holds(g[w], r) + Holds(h[w], r)
    BY ONLY <2>3, w \in Signers, SignerMoves
  <2> QED BY <1>1, <2>1, <2>2, <2>4
<1> QED BY <1>1, <1>2

\* The counts are numbers.
LEMMA CountTypes ==
    ASSUME NonceTypes
    PROVE  /\ PassedBy(signing, nonces) \in Nat /\ Cardinality(PassedOf(signing)) \in Nat
           /\ Cardinality(EarlyIn(nonces)) \in Nat
           /\ \A r : /\ UsesOf(signing, nonces, r) \in Nat /\ Cardinality(SentOf(signing, r)) \in Nat
                     /\ Cardinality(UsedIn(nonces, r)) \in Nat
BY SignersAreFinite, NoncesAreFinite DEF NonceTypes, PassedBy, UsesOf

\* Nothing is drawn or sent: of the counts, only that of those that passed may change.
LEMMA WorkerGoes ==
    ASSUME NonceInv, NEW w \in Signers, NEW c \in Signings, signing' = [signing EXCEPT ![w] = c],
           UNCHANGED nonces, signing[w].at # "send", c.at # "send"
    PROVE  /\ PassedBy(signing', nonces') = PassedBy(signing, nonces) - Passes(signing[w]) + Passes(c)
           /\ \A r : UsesOf(signing', nonces', r) = UsesOf(signing, nonces, r)
<1>1. NonceTypes
  BY DEF NonceInv
<1>2. \A r : Holds(signing[w], r) = 0 /\ Holds(c, r) = 0
  BY DEF Holds
<1>3. Passes(signing[w]) \in Nat /\ Passes(c) \in Nat
  BY DEF Passes
<1>4. PassedBy(signing', nonces') = PassedBy(signing, nonces) - Passes(signing[w]) + Passes(c)
  <2>1. Cardinality(PassedOf(signing')) = Cardinality(PassedOf(signing)) - Passes(signing[w]) + Passes(c)
    BY <1>1, CountsAre
  <2>2. Cardinality(PassedOf(signing)) \in Nat /\ Cardinality(EarlyIn(nonces)) \in Nat
    BY <1>1, CountTypes
  <2> QED BY <1>3, <2>1, <2>2 DEF PassedBy
<1>5. ASSUME NEW r PROVE UsesOf(signing', nonces', r) = UsesOf(signing, nonces, r)
  <2>1. Cardinality(SentOf(signing', r)) = Cardinality(SentOf(signing, r)) - Holds(signing[w], r) + Holds(c, r)
    BY <1>1, CountsAre
  <2>2. Cardinality(SentOf(signing, r)) \in Nat
    BY <1>1, CountTypes
  <2> QED BY <1>2, <2>1, <2>2 DEF UsesOf
<1> QED BY <1>4, <1>5

\* Who seeds passes: there is one more request that passed, and no number of the seed is
\* in use more often than before.
LEMMA NumbersLastOf ==
    ASSUME NonceInv, NEW g, NEW s, NEW seed, NEW drawn \in Nat,
           PassedBy(g, s) \in Nat, \A r \in Randoms : UsesOf(g, s, r) = UsesOf(signing, nonces, r),
           \/ PassedBy(g, s) > PassedBy(signing, nonces)
           \/ /\ PassedBy(g, s) = PassedBy(signing, nonces)
              /\ seed = library.seed /\ drawn >= library.drawn
    PROVE  NumbersLast(g, s, seed, drawn)
<1> SUFFICES ASSUME NEW r \in Randoms
             PROVE  /\ UsesOf(g, s, r) <= PassedBy(g, s)
                    /\ r[1] = seed /\ r[2] >= drawn /\ PassedBy(g, s) > 0 => UsesOf(g, s, r) < PassedBy(g, s)
  BY DEF NumbersLast
<1> DEFINE u == UsesOf(signing, nonces, r)
           p == PassedBy(signing, nonces)
<1>1. /\ u <= p /\ (r[1] = library.seed /\ r[2] >= library.drawn /\ p > 0 => u < p)
      /\ u \in Nat /\ p \in Nat /\ r[2] \in Nat /\ library.drawn \in Nat /\ UsesOf(g, s, r) = u
  BY CountTypes DEF NonceInv, NumbersLast, NonceTypes, Randoms
<1> HIDE DEF u, p
<1>2. PassedBy(g, s) > p \/ (PassedBy(g, s) = p /\ seed = library.seed /\ drawn >= library.drawn)
  BY DEF p
<1> QED BY <1>1, <1>2

LEMMA SomebodyPassed ==
    ASSUME NEW g, NEW w \in Signers, Passes(g[w]) = 1, NEW s \in Seq(NonceType)
    PROVE  PassedBy(g, s) > 0
<1>1. w \in PassedOf(g)
  BY DEF Passes, PassedOf
<1>2. IsFiniteSet(PassedOf(g)) /\ Cardinality(PassedOf(g)) \in Nat /\ Cardinality(EarlyIn(s)) \in Nat
  BY SignersAreFinite, NoncesAreFinite
<1>3. Cardinality(PassedOf(g)) # 0
  BY ONLY <1>1, <1>2, FS_EmptySet
<1> QED BY <1>2, <1>3 DEF PassedBy

\* A worker goes on without drawing or sending; who seeds, passes.
LEMMA SigningGoesOn ==
    ASSUME NonceInv, NEW w \in Signers, NEW c \in Signings, signing' = [signing EXCEPT ![w] = c],
           signing[w].at # "send", c.at # "send", UNCHANGED <<clock, nonces>>,
           library' \in [initialized : BOOLEAN, seed : Nat, drawn : Nat],
           library.initialized => library'.initialized,
           library'.initialized => library.initialized \/ Passes(c) = 1,
           c.at \in {"idle", "check", "seed", "mark", "draw"},
           c.at = "idle" => ~c.early,
           c.at \in {"seed", "mark"} => c.early,
           c.at = "check" => c.early \/ library'.initialized,
           c.at = "draw" => library'.initialized,
           Passes(signing[w]) = 1 => Passes(c) = 1,
           \/ library'.seed = library.seed /\ library'.drawn = library.drawn
           \/ Passes(signing[w]) = 0 /\ Passes(c) = 1
    PROVE  NonceInv'
<1>1. NonceTypes /\ OnlyEarlySeed /\ nonces \in Seq(NonceType)
  BY DEF NonceInv, NonceTypes
<1>2. /\ signing' \in [Signers -> Signings] /\ signing'[w] = c
      /\ \A v \in Signers \ {w} : signing'[v] = signing[v]
  BY <1>1, CountsAre
<1>3. /\ PassedBy(signing', nonces') = PassedBy(signing, nonces) - Passes(signing[w]) + Passes(c)
      /\ \A r : UsesOf(signing', nonces', r) = UsesOf(signing, nonces, r)
  BY WorkerGoes
<1>4. PassedBy(signing, nonces) \in Nat
  BY <1>1, CountTypes
<1>5. Passes(signing[w]) \in {0, 1} /\ Passes(c) \in {0, 1}
  BY DEF Passes
<1>6. /\ PassedBy(signing', nonces') \in Nat
      /\ \/ PassedBy(signing', nonces') > PassedBy(signing, nonces)
         \/ /\ PassedBy(signing', nonces') = PassedBy(signing, nonces)
            /\ library'.seed = library.seed /\ library'.drawn = library.drawn
  BY <1>3, <1>4, <1>5
<1>7. library'.drawn \in Nat /\ library.drawn \in Nat
  BY <1>1 DEF NonceTypes
<1>8. NumbersLast(signing', nonces', library'.seed, library'.drawn)
  <2>1. PICK seed, drawn \in Nat : seed = library'.seed /\ drawn = library'.drawn
    BY <1>7
  <2>2. \/ PassedBy(signing', nonces') > PassedBy(signing, nonces)
        \/ /\ PassedBy(signing', nonces') = PassedBy(signing, nonces)
           /\ seed = library.seed /\ drawn >= library.drawn
    BY <1>6, <1>7, <2>1
  <2>3. NumbersLast(signing', nonces', seed, drawn)
    BY <1>3, <1>6, <2>2, NumbersLastOf
  <2> QED BY <2>1, <2>3
<1>9. library'.initialized => PassedBy(signing', nonces') > 0
  <2>1. CASE library.initialized
    <3>1. PassedBy(signing, nonces) > 0
      BY <2>1 DEF NonceInv
    <3> QED BY <3>1, <1>4, <1>6
  <2>2. CASE Passes(c) = 1
    <3>1. Passes(signing'[w]) = 1 /\ nonces' \in Seq(NonceType)
      BY <1>1, <1>2, <2>2
    <3> QED BY <3>1, SomebodyPassed
  <2> QED BY <2>1, <2>2
<1>10. OnlyEarlySeed'
  <2>1. ASSUME NEW v \in Signers
        PROVE  /\ signing'[v].at = "idle" => ~signing'[v].early
               /\ signing'[v].at \in {"seed", "mark"} => signing'[v].early
               /\ signing'[v].at = "check" => signing'[v].early \/ library'.initialized
               /\ signing'[v].at \in {"draw", "send"} => library'.initialized
    <3>1. CASE v = w
      BY <1>2, <3>1
    <3>2. CASE v # w
      BY <1>1, <1>2, <3>2 DEF OnlyEarlySeed
    <3> QED BY <3>1, <3>2
  <2> QED BY <2>1 DEF OnlyEarlySeed
<1>11. nonces' # <<>> => library'.initialized
  BY DEF NonceInv
<1> QED BY <1>1, <1>2, <1>8, <1>9, <1>10, <1>11 DEF NonceInv, NonceTypes

LEMMA BeginsKeeps == ASSUME NonceInv, NEW w \in Signers, NEW signs \in BOOLEAN, Begins(w, signs) PROVE NonceInv'
<1>1. NonceTypes /\ OnlyEarlySeed /\ library \in [initialized : BOOLEAN, seed : Nat, drawn : Nat]
  BY DEF NonceInv, NonceTypes
<1>2. signing[w].at = "idle" /\ UNCHANGED <<clock, library, nonces>>
  BY DEF Begins
<1>3. CASE UNCHANGED signing
  BY <1>2, <1>3 DEF NonceInv, NonceTypes, OnlyEarlySeed
<1>4. CASE signs
  <2> DEFINE c == [NoSigning EXCEPT !.at = "check", !.early = IsNew]
  <2>1. signing' = [signing EXCEPT ![w] = c]
    BY <1>4 DEF Begins
  <2>2. IsNew \in BOOLEAN
    BY DEF IsNew
  <2>3. c \in Signings /\ c.at = "check" /\ c.early = IsNew
    BY <2>2 DEF NoSigning, Signings, Randoms
  <2> HIDE DEF c
  <2>4. Passes(signing[w]) = 0
    BY <1>1, <1>2 DEF Passes, OnlyEarlySeed
  <2>5. IsNew \/ library.initialized
    BY DEF IsNew, NonceInv, OnlyEarlySeed
  <2>6. /\ signing[w].at # "send" /\ c.at # "send" /\ UNCHANGED <<clock, nonces>>
        /\ library' \in [initialized : BOOLEAN, seed : Nat, drawn : Nat]
        /\ library' = library /\ (c.early \/ library'.initialized)
        /\ c.at \notin {"idle", "seed", "mark", "draw"}
        /\ c.at \in {"idle", "check", "seed", "mark", "draw"}
    BY <1>1, <1>2, <2>3, <2>5
  <2>7. ~(Passes(signing[w]) = 1)
    BY <2>4
  <2> QED BY ONLY NonceInv, w \in Signers, <2>1, <2>3, <2>6, <2>7, SigningGoesOn
<1> QED BY <1>3, <1>4 DEF Begins

LEMMA SeedingKeeps ==
    ASSUME NonceInv, NEW w \in Signers, Checks(w) \/ Seeds(w) \/ Marks(w) PROVE NonceInv'
<1>1. /\ OnlyEarlySeed /\ library \in [initialized : BOOLEAN, seed : Nat, drawn : Nat]
      /\ clock \in Nat /\ signing \in [Signers -> Signings] /\ signing[w] \in Signings
  BY DEF NonceInv, NonceTypes
<1> DEFINE goes(to) == [signing[w] EXCEPT !.at = to]
<1>2. ASSUME NEW from, NEW to \in {"draw", "seed", "mark"}, SignStep(w, from, to)
      PROVE  /\ signing[w].at = from /\ UNCHANGED <<clock, nonces>>
             /\ goes(to) \in Signings /\ goes(to).at = to /\ goes(to).early = signing[w].early
             /\ signing' = [signing EXCEPT ![w] = goes(to)]
  BY <1>1, <1>2 DEF SignStep, Signings
<1>3. CASE Checks(w)
  <2>1. PICK to \in {"draw", "seed"} : to = IF library.initialized THEN "draw" ELSE "seed"
    OBVIOUS
  <2>2. SignStep(w, "check", to) /\ UNCHANGED library
    BY <1>3, <2>1 DEF Checks
  <2>3. PICK c : c = goes(to)
    OBVIOUS
  <2>4. /\ signing[w].at = "check" /\ UNCHANGED <<clock, nonces>> /\ c \in Signings
        /\ c.at = to /\ c.early = signing[w].early /\ signing' = [signing EXCEPT ![w] = c]
    BY <1>2, <2>2, <2>3
  <2>5. Passes(signing[w]) = 0 /\ (signing[w].early \/ library.initialized)
    BY <1>1, <2>4 DEF Passes, OnlyEarlySeed
  <2> HIDE DEF goes
  <2>6. /\ signing[w].at # "send" /\ c.at # "send"
        /\ library' \in [initialized : BOOLEAN, seed : Nat, drawn : Nat] /\ library' = library
        /\ c.at \notin {"idle", "check", "mark"} /\ (c.at = "seed" => c.early)
        /\ (c.at = "draw" => library'.initialized)
        /\ c.at \in {"idle", "check", "seed", "mark", "draw"}
    BY <1>1, <2>1, <2>2, <2>4, <2>5
  <2>7. ~(Passes(signing[w]) = 1)
    BY <2>5
  <2> QED BY ONLY NonceInv, w \in Signers, <2>4, <2>6, <2>7, SigningGoesOn
<1>4. CASE Seeds(w)
  <2>1. SignStep(w, "seed", "mark") /\ library' = [library EXCEPT !.seed = clock, !.drawn = 0]
    BY <1>4 DEF Seeds
  <2>2. PICK c : c = goes("mark")
    OBVIOUS
  <2>3. /\ signing[w].at = "seed" /\ UNCHANGED <<clock, nonces>> /\ c \in Signings
        /\ c.at = "mark" /\ c.early = signing[w].early /\ signing' = [signing EXCEPT ![w] = c]
    BY <1>2, <2>1, <2>2
  <2>4. signing[w].early /\ Passes(signing[w]) = 0 /\ Passes(c) = 1
    BY <1>1, <2>3 DEF Passes, OnlyEarlySeed
  <2>5. library' \in [initialized : BOOLEAN, seed : Nat, drawn : Nat] /\ library'.initialized = library.initialized
    BY <1>1, <2>1
  <2> HIDE DEF goes
  <2> QED BY <1>1, <2>3, <2>4, <2>5, SigningGoesOn
<1>5. CASE Marks(w)
  <2>1. SignStep(w, "mark", "draw") /\ library' = [library EXCEPT !.initialized = TRUE]
    BY <1>5 DEF Marks
  <2>2. PICK c : c = goes("draw")
    OBVIOUS
  <2>3. /\ signing[w].at = "mark" /\ UNCHANGED <<clock, nonces>> /\ c \in Signings
        /\ c.at = "draw" /\ c.early = signing[w].early /\ signing' = [signing EXCEPT ![w] = c]
    BY <1>2, <2>1, <2>2
  <2>4. signing[w].early /\ Passes(c) = 1
    BY <1>1, <2>3 DEF Passes, OnlyEarlySeed
  <2>5. /\ library' \in [initialized : BOOLEAN, seed : Nat, drawn : Nat] /\ library'.initialized
        /\ library'.seed = library.seed /\ library'.drawn = library.drawn
    BY <1>1, <2>1
  <2> HIDE DEF goes
  <2> QED BY <1>1, <2>3, <2>4, <2>5, SigningGoesOn
<1> QED BY <1>3, <1>4, <1>5

\* A number is drawn that is in use less often than requests have passed.
LEMMA DrawsKeeps == ASSUME NonceInv, NEW w \in Signers, Draws(w) PROVE NonceInv'
<1> DEFINE drawn == <<library.seed, library.drawn>>
           c     == [signing[w] EXCEPT !.at = "send", !.random = drawn]
<1>1. /\ NonceTypes /\ OnlyEarlySeed /\ NumbersLast(signing, nonces, library.seed, library.drawn)
      /\ library \in [initialized : BOOLEAN, seed : Nat, drawn : Nat] /\ nonces \in Seq(NonceType)
      /\ signing \in [Signers -> Signings] /\ signing[w] \in Signings
  BY DEF NonceInv, NonceTypes
<1>2. /\ signing[w].at = "draw" /\ signing' = [signing EXCEPT ![w] = c]
      /\ library' = [library EXCEPT !.drawn = @ + 1] /\ UNCHANGED <<clock, nonces>>
  BY <1>1 DEF Draws
<1>3. drawn \in Randoms /\ drawn[1] = library.seed /\ drawn[2] = library.drawn
  BY <1>1 DEF Randoms
<1> HIDE DEF drawn
<1>4. c \in Signings /\ c.at = "send" /\ c.random = drawn /\ c.early = signing[w].early
  BY <1>1, <1>3 DEF Signings
<1> HIDE DEF c
<1>5. /\ library' \in [initialized : BOOLEAN, seed : Nat, drawn : Nat]
      /\ library'.initialized = library.initialized /\ library'.seed = library.seed
      /\ library'.drawn = library.drawn + 1 /\ library.drawn \in Nat
  <2>1. PICK next \in Nat : next = library.drawn + 1
    BY <1>1
  <2>2. library' = [library EXCEPT !.drawn = next]
    BY <1>2, <2>1
  <2>3. /\ library' \in [initialized : BOOLEAN, seed : Nat, drawn : Nat] /\ library'.drawn = next
        /\ library'.initialized = library.initialized /\ library'.seed = library.seed
    BY ONLY <1>1, <2>2, next \in Nat
  <2> QED BY <1>1, <2>1, <2>3
<1>6. library.initialized /\ PassedBy(signing, nonces) > 0 /\ PassedBy(signing, nonces) \in Nat
  BY <1>1, <1>2, CountTypes DEF OnlyEarlySeed, NonceInv
<1>7. Passes(c) = Passes(signing[w]) /\ Passes(c) \in Nat
  BY <1>2, <1>4 DEF Passes
<1>8. /\ signing' \in [Signers -> Signings] /\ signing'[w] = c
      /\ \A v \in Signers \ {w} : signing'[v] = signing[v]
      /\ Cardinality(PassedOf(signing')) = Cardinality(PassedOf(signing)) - Passes(signing[w]) + Passes(c)
      /\ \A r : Cardinality(SentOf(signing', r)) = Cardinality(SentOf(signing, r))
                                                   - Holds(signing[w], r) + Holds(c, r)
  BY <1>1, <1>2, <1>4, CountsAre
<1>9. PassedBy(signing', nonces') = PassedBy(signing, nonces)
  <2>1. Cardinality(PassedOf(signing)) \in Nat
    BY <1>1, CountTypes
  <2>2. Cardinality(PassedOf(signing')) = Cardinality(PassedOf(signing))
    BY <2>1, <1>7, <1>8
  <2> QED BY <2>2, <1>2 DEF PassedBy
<1>10. ASSUME NEW r \in Randoms
       PROVE  UsesOf(signing', nonces', r) = UsesOf(signing, nonces, r) + (IF r = drawn THEN 1 ELSE 0)
  <2>1. Cardinality(SentOf(signing, r)) \in Nat /\ Cardinality(UsedIn(nonces, r)) \in Nat
    BY <1>1, CountTypes
  <2>2. Holds(signing[w], r) = 0 /\ Holds(c, r) = IF r = drawn THEN 1 ELSE 0
    BY <1>2, <1>4 DEF Holds
  <2>3. Cardinality(SentOf(signing', r)) = Cardinality(SentOf(signing, r)) - Holds(signing[w], r) + Holds(c, r)
    BY <1>8
  <2> QED BY <1>2, <2>1, <2>2, <2>3 DEF UsesOf
<1>11. NumbersLast(signing', nonces', library'.seed, library'.drawn)
  <2> SUFFICES ASSUME NEW r \in Randoms
               PROVE  /\ UsesOf(signing', nonces', r) <= PassedBy(signing', nonces')
                      /\ r[1] = library'.seed /\ r[2] >= library'.drawn /\ PassedBy(signing', nonces') > 0
                         => UsesOf(signing', nonces', r) < PassedBy(signing', nonces')
    BY DEF NumbersLast
  <2> DEFINE u == UsesOf(signing, nonces, r)
             p == PassedBy(signing, nonces)
  <2>1. u \in Nat /\ p \in Nat /\ p > 0 /\ u <= p
        /\ (r[1] = library.seed /\ r[2] >= library.drawn => u < p)
    BY <1>1, <1>6, CountTypes DEF NumbersLast
  <2>2. r[1] \in Nat /\ r[2] \in Nat
    BY DEF Randoms
  <2>3. UsesOf(signing', nonces', r) = u + (IF r = drawn THEN 1 ELSE 0)
    BY <1>10
  <2>4. PassedBy(signing', nonces') = p
    BY <1>9
  <2> HIDE DEF u, p
  <2>5. CASE r = drawn
    BY <2>1, <2>3, <2>4, <2>5, <1>3, <1>5
  <2>6. CASE r # drawn
    BY <2>1, <2>2, <2>3, <2>4, <2>6, <1>5
  <2> QED BY <2>5, <2>6
<1>12. OnlyEarlySeed'
  <2>1. ASSUME NEW v \in Signers
        PROVE  /\ signing'[v].at = "idle" => ~signing'[v].early
               /\ signing'[v].at \in {"seed", "mark"} => signing'[v].early
               /\ signing'[v].at = "check" => signing'[v].early \/ library'.initialized
               /\ signing'[v].at \in {"draw", "send"} => library'.initialized
    <3>1. CASE v = w
      BY <1>4, <1>5, <1>6, <1>8, <3>1
    <3>2. CASE v # w
      BY <1>1, <1>5, <1>8, <3>2 DEF OnlyEarlySeed
    <3> QED BY <3>1, <3>2
  <2> QED BY <2>1 DEF OnlyEarlySeed
<1> QED BY <1>1, <1>2, <1>5, <1>6, <1>8, <1>9, <1>11, <1>12 DEF NonceInv, NonceTypes

\* A request is sent: its number is in use as often as before, and it still counts.
LEMMA StampsKeeps == ASSUME NonceInv, NEW w \in Signers, Stamps(w) PROVE NonceInv'
<1> DEFINE n == NonceOf(signing[w])
<1>1. /\ NonceTypes /\ OnlyEarlySeed /\ NumbersLast(signing, nonces, library.seed, library.drawn)
      /\ library \in [initialized : BOOLEAN, seed : Nat, drawn : Nat] /\ nonces \in Seq(NonceType)
      /\ signing \in [Signers -> Signings] /\ signing[w] \in Signings /\ clock \in Nat
  BY DEF NonceInv, NonceTypes
<1>2. /\ signing[w].at = "send" /\ signing' = [signing EXCEPT ![w] = NoSigning]
      /\ nonces' = Append(nonces, n) /\ UNCHANGED <<clock, library>>
  BY DEF Stamps
<1>3. n \in NonceType /\ n.random = signing[w].random /\ n.early = signing[w].early
  BY <1>1 DEF NonceOf, NonceType, Signings
<1> HIDE DEF n
<1>4. NoSigning \in Signings /\ NoSigning.at = "idle" /\ NoSigning.early = FALSE
  BY DEF NoSigning, Signings, Randoms
<1>5. nonces' \in Seq(NonceType) /\ library.initialized
  BY <1>1, <1>2, <1>3 DEF OnlyEarlySeed
<1>6. /\ signing' \in [Signers -> Signings] /\ signing'[w] = NoSigning
      /\ \A v \in Signers \ {w} : signing'[v] = signing[v]
      /\ Cardinality(PassedOf(signing')) = Cardinality(PassedOf(signing)) - Passes(signing[w]) + Passes(NoSigning)
      /\ \A r : Cardinality(SentOf(signing', r)) = Cardinality(SentOf(signing, r))
                                                   - Holds(signing[w], r) + Holds(NoSigning, r)
  BY <1>1, <1>2, <1>4, CountsAre
<1>7. PassedBy(signing', nonces') = PassedBy(signing, nonces)
  <2>1. Cardinality(PassedOf(signing)) \in Nat /\ Cardinality(EarlyIn(nonces)) \in Nat
    BY <1>1, CountTypes
  <2>2. Passes(NoSigning) = 0 /\ Passes(signing[w]) = IF n.early THEN 1 ELSE 0
    BY <1>2, <1>3, <1>4 DEF Passes
  <2>3. Cardinality(EarlyIn(nonces')) = Cardinality(EarlyIn(nonces)) + (IF n.early THEN 1 ELSE 0)
    BY <1>1, <1>2, <1>3, NonceIsAdded
  <2> QED BY <1>6, <2>1, <2>2, <2>3 DEF PassedBy
<1>8. ASSUME NEW r \in Randoms PROVE UsesOf(signing', nonces', r) = UsesOf(signing, nonces, r)
  <2>1. Cardinality(SentOf(signing, r)) \in Nat /\ Cardinality(UsedIn(nonces, r)) \in Nat
    BY <1>1, CountTypes
  <2>2. Holds(NoSigning, r) = 0 /\ Holds(signing[w], r) = IF n.random = r THEN 1 ELSE 0
    BY <1>2, <1>3, <1>4 DEF Holds
  <2>3. Cardinality(UsedIn(nonces', r)) = Cardinality(UsedIn(nonces, r)) + (IF n.random = r THEN 1 ELSE 0)
    BY <1>1, <1>2, <1>3, NonceIsAdded
  <2>4. Cardinality(SentOf(signing', r)) = Cardinality(SentOf(signing, r))
                                           - Holds(signing[w], r) + Holds(NoSigning, r)
    BY <1>6
  <2> QED BY <2>1, <2>2, <2>3, <2>4 DEF UsesOf
<1>9. NumbersLast(signing', nonces', library'.seed, library'.drawn)
  BY <1>1, <1>2, <1>7, <1>8 DEF NumbersLast
<1>10. OnlyEarlySeed'
  <2>1. ASSUME NEW v \in Signers
        PROVE  /\ signing'[v].at = "idle" => ~signing'[v].early
               /\ signing'[v].at \in {"seed", "mark"} => signing'[v].early
               /\ signing'[v].at = "check" => signing'[v].early \/ library'.initialized
               /\ signing'[v].at \in {"draw", "send"} => library'.initialized
    <3>1. CASE v = w
      BY <1>4, <1>6, <3>1
    <3>2. CASE v # w
      BY <1>1, <1>2, <1>6, <3>2 DEF OnlyEarlySeed
    <3> QED BY <3>1, <3>2
  <2> QED BY <2>1 DEF OnlyEarlySeed
<1>11. PassedBy(signing', nonces') > 0
  BY <1>5, <1>7 DEF NonceInv
<1> QED BY <1>1, <1>2, <1>5, <1>6, <1>9, <1>10, <1>11 DEF NonceInv, NonceTypes

\* The inductive invariant of the nonces.
THEOREM NoncesAreCounted == NonceSpec => []NonceInv
<1>1. NonceInit => NonceInv
  <2> SUFFICES ASSUME NonceInit PROVE NonceInv
    OBVIOUS
  <2>1. /\ clock = 10 /\ library = [initialized |-> FALSE, seed |-> 0, drawn |-> 0]
        /\ signing = [w \in Signers |-> NoSigning] /\ nonces = <<>>
    BY DEF NonceInit
  <2>2. NoSigning \in Signings /\ NoSigning.at = "idle" /\ NoSigning.early = FALSE
    BY DEF NoSigning, Signings, Randoms
  <2>3. NonceTypes /\ OnlyEarlySeed /\ ~library.initialized
    BY <2>1, <2>2 DEF NonceTypes, OnlyEarlySeed
  <2>4. NumbersLast(signing, nonces, library.seed, library.drawn)
    <3>1. \A r : SentOf(signing, r) = {} /\ UsedIn(nonces, r) = {}
      BY <2>1, <2>2 DEF SentOf, UsedIn
    <3>2. PassedOf(signing) = {} /\ EarlyIn(nonces) = {}
      BY <2>1, <2>2 DEF PassedOf, EarlyIn
    <3>3. Cardinality({}) = 0
      BY FS_EmptySet
    <3>4. (\A r : UsesOf(signing, nonces, r) = 0) /\ PassedBy(signing, nonces) = 0
      BY <3>1, <3>2, <3>3 DEF UsesOf, PassedBy
    <3> QED BY <3>4 DEF NumbersLast
  <2> QED BY <2>1, <2>3, <2>4 DEF NonceInv
<1>2. NonceInv /\ [NonceNext]_nonceVars => NonceInv'
  <2> SUFFICES ASSUME NonceInv, [NonceNext]_nonceVars PROVE NonceInv'
    OBVIOUS
  <2>1. ASSUME NEW w \in Signers, Signs(w) PROVE NonceInv'
    BY <2>1, BeginsKeeps, SeedingKeeps, DrawsKeeps, StampsKeeps DEF Signs
  <2>2. CASE SecondPasses \/ UNCHANGED nonceVars
    <3>1. UNCHANGED <<library, signing, nonces>> /\ clock' \in Nat
      BY <2>2 DEF SecondPasses, nonceVars, NonceInv, NonceTypes
    <3> QED BY <3>1 DEF NonceInv, NonceTypes, OnlyEarlySeed
  <2> QED BY <2>1, <2>2 DEF NonceNext
<1> QED BY <1>1, <1>2, PTL DEF NonceSpec

\* No nonce is used more often than there are requests that overlapped the very first one.
THEOREM NoncesAreFew == NonceSpec => []NoncesDiffer
<1>1. NonceInv => NoncesDiffer
  <2> SUFFICES ASSUME NonceInv, NEW k \in DOMAIN nonces
               PROVE  Cardinality({i \in DOMAIN nonces : Same(nonces[i], nonces[k])}) <= EarlyOnes
    BY DEF NoncesDiffer
  <2> DEFINE same  == {i \in DOMAIN nonces : Same(nonces[i], nonces[k])}
             r     == nonces[k].random
             early == {w \in Signers : signing[w].early}
  <2>1. NonceTypes /\ nonces[k] \in NonceType /\ nonces \in Seq(NonceType) /\ r \in Randoms
    <3>1. NonceTypes /\ nonces \in Seq(NonceType)
      BY DEF NonceInv, NonceTypes
    <3>2. nonces[k] \in NonceType
      BY <3>1
    <3> QED BY <3>1, <3>2 DEF NonceType
  <2> HIDE DEF r
  <2>2. UsesOf(signing, nonces, r) <= PassedBy(signing, nonces)
    BY <2>1 DEF NonceInv, NumbersLast
  <2>3. same \in SUBSET UsedIn(nonces, r) /\ PassedOf(signing) \in SUBSET early /\ early \in SUBSET Signers
    BY DEF Same, UsedIn, PassedOf, r
  <2> HIDE DEF same, early
  <2>4. /\ IsFiniteSet(UsedIn(nonces, r)) /\ Cardinality(UsedIn(nonces, r)) \in Nat
        /\ Cardinality(EarlyIn(nonces)) \in Nat
        /\ Cardinality(SentOf(signing, r)) \in Nat /\ Cardinality(PassedOf(signing)) \in Nat
    BY <2>1, NoncesAreFinite, SignersAreFinite
  <2>5. IsFiniteSet(Signers)
    BY SigningAssumption
  <2>6. IsFiniteSet(early) /\ IsFiniteSet(same)
    BY ONLY <2>3, <2>4, <2>5, FS_Subset
  <2>7. Cardinality(same) <= Cardinality(UsedIn(nonces, r)) /\ Cardinality(PassedOf(signing)) <= Cardinality(early)
    BY ONLY <2>3, <2>4, <2>6, FS_Subset
  <2>8. Cardinality(same) \in Nat /\ Cardinality(early) \in Nat
    BY ONLY <2>6, FS_CardinalityType
  <2>9. EarlyOnes = Cardinality(early) + Cardinality(EarlyIn(nonces))
    BY DEF EarlyOnes, EarlyIn, early
  <2> QED BY <2>2, <2>4, <2>7, <2>8, <2>9 DEF UsesOf, PassedBy, same
<1> QED BY <1>1, NoncesAreCounted, PTL

-----------------------------------------------------------------------------

USE ConcurrencyAssumption

LEMMA PoolFacts == Pool \subseteq Nat /\ 0 \in Pool
BY DEF Pool

LEMMA ServerInitially == ServerInit => ServerIInv
<1> SUFFICES ASSUME ServerInit PROVE ServerIInv
  OBVIOUS
<1>1. ServerTypeOK
  BY PoolFacts DEF ServerInit, ServerTypeOK
<1>2. \A i \in Pool : CameUp(i) /\ TakesTurns(i) /\ DateIsOf(i)
  BY PoolFacts DEF ServerInit, CameUp, TakesTurns, DateIsOf, Pool
<1>3. QED
  BY <1>1, <1>2 DEF ServerInit, ServerIInv

\* A worker takes a step of its own: nothing of run() moves.
LEMMA WorkerKeeps ==
    ASSUME ServerIInv, NEW w \in Pool,
           MakesDate(w) \/ MakesQueue(w) \/ Loops(w) \/ Ends(w) \/ Replies(w)
    PROVE  ServerIInv'
<1> USE DEF ServerIInv, ServerTypeOK
<1>1. UNCHANGED <<running, turn, roundrobin, accepts, halves>>
  BY DEF MakesDate, MakesQueue, Loops, Ends, Replies, Moves
<1>2. \A i \in Pool : TakesTurns(i)'
  BY <1>1 DEF TakesTurns
<1>3. /\ thread' \in [Pool -> {"none", "begun", "dated", "queued", "looping", "ended"}]
      /\ \A i \in Pool : CameUp(i)'
  <2>1. PICK to \in {"dated", "queued", "looping", "ended"} :
           thread' = [thread EXCEPT ![w] = to] \/ thread' = thread
    BY DEF MakesDate, MakesQueue, Loops, Ends, Replies, Moves
  <2>2. thread' \in [Pool -> {"none", "begun", "dated", "queued", "looping", "ended"}]
    BY <2>1
  <2>3. \A i \in Pool : i # w => thread'[i] = thread[i]
    BY <2>1
  <2>4. CASE thread' = thread
    BY <2>4, <1>1 DEF CameUp, HasQueue
  <2>5. CASE MakesDate(w) \/ MakesQueue(w) \/ Loops(w)
    <3>1. thread[w] \in {"begun", "dated", "queued"} /\ thread'[w] \in {"dated", "queued", "looping"}
          /\ (HasQueue(w) => HasQueue(w)')
      BY <2>5 DEF MakesDate, MakesQueue, Loops, Moves, HasQueue
    <3>2. CameUp(w) /\ thread[w] \notin {"none", "ended"} /\ thread'[w] \notin {"none", "ended"}
      BY <3>1
    <3>3. CameUp(w)'
      BY <3>1, <3>2, <1>1, PoolFacts DEF CameUp, HasQueue
    <3>4. ASSUME NEW i \in Pool, i # w PROVE CameUp(i)'
      BY <3>4, <2>3, <1>1 DEF CameUp, HasQueue
    <3>5. QED
      BY <3>3, <3>4, <2>1
  <2>6. CASE Ends(w)
    BY <2>6, <2>3, <1>1 DEF Ends, Moves, Stopped, CameUp, HasQueue
  <2>7. QED
    BY <2>2, <2>4, <2>5, <2>6 DEF Replies
<1>4. /\ cached' \in [Pool -> [second : Nat, made : Nat]]
      /\ \A i \in Pool : DateIsOf(i)'
      /\ late' \in Nat /\ late' <= 1
  <2>1. Dated \in [second : Nat, made : Nat] /\ Dated.second = Dated.made \div 2 /\ Dated.made = halves
    BY DEF Dated
  <2>2. CASE cached' = cached /\ late' = late
    BY <2>2, <1>1 DEF DateIsOf
  <2>3. CASE MakesDate(w)
    <3>1. cached' = [cached EXCEPT ![w] = Dated] /\ late' = late
      BY <2>3 DEF MakesDate, Moves
    <3>2. QED
      BY <3>1, <2>1, <1>1 DEF DateIsOf
  <2>4. CASE Replies(w)
    <3> DEFINE told == IF halves - cached[w].made >= 2 THEN Dated ELSE cached[w]
    <3>1. cached' = [cached EXCEPT ![w] = told] /\ late' = halves \div 2 - told.second
      BY <2>4 DEF Replies
    <3>2. told \in [second : Nat, made : Nat] /\ told.second = told.made \div 2
          /\ told.made <= halves /\ halves - told.made < 2
      BY <2>1 DEF DateIsOf
    <3> HIDE DEF told
    <3>3. \A h, m \in Nat : m <= h /\ h - m < 2 => h \div 2 - m \div 2 \in {0, 1}
      OBVIOUS
    <3>4. late' \in {0, 1}
      BY <3>1, <3>2, <3>3
    <3>5. QED
      BY <3>1, <3>2, <3>4, <1>1 DEF DateIsOf
  <2>5. QED
    BY <2>2, <2>3, <2>4 DEF MakesQueue, Loops, Ends, Moves
<1>5. QED
  BY <1>1, <1>2, <1>3, <1>4

\* The next worker in turn gets a connection.
LEMMA AcceptKeepsTurns ==
    ASSUME ServerIInv, do_accept
    PROVE  /\ roundrobin' \in Pool /\ accepts' \in [Pool -> Nat]
           /\ \A i \in Pool : TakesTurns(i)'
<1> USE DEF ServerIInv, ServerTypeOK
<1>1. pick_io_service \in Pool
  BY DEF pick_io_service, Pool
<1>2. /\ roundrobin' = pick_io_service
      /\ accepts' = [accepts EXCEPT ![pick_io_service] = @ + 1]
  BY DEF do_accept
<1>3. \A i \in Pool : accepts'[i] = IF i = pick_io_service THEN accepts[i] + 1 ELSE accepts[i]
  BY <1>1, <1>2
<1>4. \A i \in Pool : TakesTurns(i)'
  BY <1>1, <1>2, <1>3, PoolFacts DEF TakesTurns, pick_io_service, Pool
<1>5. QED
  BY <1>1, <1>2, <1>4

\* A step of run() or of the thread that accepts.
LEMMA RunKeeps ==
    ASSUME ServerIInv,
           StartsWorker \/ SeesQueue \/ AcceptOver \/ Signal \/ Returns \/ TimePasses
    PROVE  ServerIInv'
<1> USE DEF ServerIInv, ServerTypeOK
<1>1. CASE StartsWorker
  <2>1. /\ UNCHANGED <<roundrobin, accepts, halves, cached, late>>
        /\ thread' = [thread EXCEPT ![turn] = "begun"] /\ running = "starting"
        /\ turn' = (IF Last THEN 0 ELSE turn + 1)
        /\ running' = (IF Last THEN "waiting" ELSE running)
    BY <1>1 DEF StartsWorker
  <2>2. turn' \in Pool
    BY <2>1, PoolFacts DEF Last, Pool
  <2>3. \A i \in Pool : thread'[i] = IF i = turn THEN "begun" ELSE thread[i]
    BY <2>1
  <2>4. \A i \in Pool : /\ i < turn => thread'[i] \notin {"none", "ended"}
                        /\ i > turn => thread'[i] = "none"
    <3>1. \A i \in Pool : i < turn => thread[i] \notin {"none", "ended"}
      BY <2>1 DEF CameUp
    <3>2. QED
      BY <2>1, <2>3, <3>1, PoolFacts DEF CameUp
  <2>5. \A i \in Pool : CameUp(i)'
    <3>1. CASE Last
      BY SMTT(30), <3>1, <2>1, <2>3, <2>4, PoolFacts DEF CameUp, Last, Pool, HasQueue
    <3>2. CASE ~Last
      BY SMTT(30), <3>2, <2>1, <2>3, <2>4, PoolFacts DEF CameUp, Last, Pool, HasQueue
    <3>3. QED
      BY <3>1, <3>2
  <2>6. QED
    BY <2>1, <2>2, <2>5 DEF TakesTurns, DateIsOf
<1>2. CASE SeesQueue
  <2>1. UNCHANGED <<thread, halves, cached, late>> /\ running = "waiting" /\ HasQueue(turn)
    BY <1>2 DEF SeesQueue, GoesOn
  <2>2. CASE Last
    <3>1. running' = "accepting" /\ do_accept /\ turn' = turn
      BY <1>2, <2>2 DEF SeesQueue, GoesOn
    <3>2. \A i \in Pool : CameUp(i)'
      BY <2>1, <2>2, <3>1 DEF CameUp, Last, Pool, HasQueue
    <3>3. QED
      BY <2>1, <3>1, <3>2, AcceptKeepsTurns DEF DateIsOf
  <2>3. CASE ~Last
    <3>1. turn' = turn + 1 /\ UNCHANGED <<running, roundrobin, accepts>>
      BY <1>2, <2>3 DEF SeesQueue, GoesOn
    <3>2. turn' \in Pool
      BY <3>1, <2>3 DEF Last, Pool
    <3>3. \A i \in Pool : CameUp(i)'
      BY SMTT(30), <2>1, <3>1 DEF CameUp, Pool, HasQueue
    <3>4. QED
      BY <2>1, <3>1, <3>2, <3>3 DEF TakesTurns, DateIsOf
  <2>4. QED
    BY <2>2, <2>3
<1>3. CASE AcceptOver
  <2>1. do_accept /\ UNCHANGED <<running, turn, thread, halves, cached, late>>
    BY <1>3 DEF AcceptOver
  <2>2. QED
    BY <2>1, AcceptKeepsTurns DEF CameUp, HasQueue, DateIsOf
<1>4. CASE Signal \/ Returns
  <2>1. UNCHANGED <<turn, thread, roundrobin, accepts, halves, cached, late>>
        /\ running' \in {"joining", "returned"} /\ running \in {"accepting", "joining"}
    BY <1>4 DEF Signal, Returns
  <2>2. QED
    BY <2>1 DEF CameUp, HasQueue, TakesTurns, DateIsOf
<1>5. CASE TimePasses
  <2>1. halves' = halves + 1 /\ UNCHANGED <<running, turn, thread, roundrobin, accepts, cached, late>>
    BY <1>5 DEF TimePasses
  <2>2. QED
    BY <2>1 DEF CameUp, HasQueue, TakesTurns, DateIsOf
<1>6. QED
  BY <1>1, <1>2, <1>3, <1>4, <1>5

\* Each worker is as far as run() has seen it, connections have gone round, and cached
\* dates are those of the time they were made (http_server.h:43-115).
THEOREM ServerInductive == ServerSpec => []ServerIInv
<1>1. ServerIInv /\ [ServerNext]_serverVars => ServerIInv'
  <2> SUFFICES ASSUME ServerIInv, [ServerNext]_serverVars PROVE ServerIInv'
    OBVIOUS
  <2>1. CASE ServerNext
    BY <2>1, WorkerKeeps, RunKeeps DEF ServerNext
  <2>2. CASE UNCHANGED serverVars
    BY <2>2 DEF serverVars, ServerIInv, ServerTypeOK, CameUp, HasQueue, TakesTurns, DateIsOf
  <2>3. QED
    BY <2>1, <2>2
<1>2. QED
  BY <1>1, ServerInitially, PTL DEF ServerSpec

\* The worker that is picked has its date function and its timer queue as long as
\* connections are accepted, none gets two connections more than another, and no date is
\* over a second late, for any number of workers.
THEOREM PickedAreReady == ServerSpec => []WorkersAreReady
<1>1. ServerIInv => WorkersAreReady
  <2> SUFFICES ASSUME ServerIInv PROVE WorkersAreReady
    OBVIOUS
  <2>1. running = "accepting" => roundrobin \in Pool /\ HasDate(roundrobin) /\ HasQueue(roundrobin)
    BY DEF ServerIInv, ServerTypeOK, CameUp, HasQueue, HasDate
  <2>2. \A i, j \in Pool : accepts[i] <= accepts[j] + 1
    BY PoolFacts DEF ServerIInv, ServerTypeOK, TakesTurns
  <2>3. QED
    BY <2>1, <2>2 DEF ServerIInv, WorkersAreReady
<1>2. QED
  BY <1>1, ServerInductive, PTL

-----------------------------------------------------------------------------
USE PagesAssumption

States    == [content : Pages \cup {Nowhere}, topic : Topics \cup {Nowhere}]
Forms     == [topic : Topics \cup {Nowhere}, bound : Nat]
Documents == 1 .. MaxEntries + 1

-----------------------------------------------------------------------------
(* Types.                                                                  *)

LEMMA FormTypes ==
    /\ NoForm \in Forms /\ NoState \in States
    /\ \A p \in Pages : /\ FormOn(p) \in Forms /\ Fits(FormOn(p).topic, p)
                        /\ FormOn(p).topic = Nowhere => FormOn(p) = NoForm
BY DEF NoForm, NoState, Forms, States, FormOn, Fits, Pages

LEMMA EntryTypes ==
    ASSUME NEW p \in Pages, NEW state \in States, NEW d \in Documents
    PROVE  /\ Entry(p, state, d) \in Entries /\ Entry(p, state, d).page = p
           /\ Entry(p, state, d).state = state /\ Entry(p, state, d).document = d
BY DEF Entry, Entries, States, Documents

\* What is pushed with the content of a page fits the page, if its form does.
LEMMA PushedFits ==
    ASSUME NEW p \in Pages, NEW f \in Forms, Fits(f.topic, p), NEW d \in Documents
    PROVE  Entry(p, State(p, f), d) \in Entries /\ StateFits(Entry(p, State(p, f), d))
<1>1. State(p, f) \in States /\ State(p, f).content = p /\ State(p, f).topic = f.topic
  BY DEF State, States, Forms
<1>2. QED
  BY <1>1, EntryTypes DEF StateFits

LEMMA EntryFields ==
    ASSUME BrowserTypeOK, NEW k \in DOMAIN entries
    PROVE  /\ entries[k] \in Entries /\ entries[k].page \in Pages /\ entries[k].state \in States
           /\ entries[k].document \in Documents /\ entries[k].fragment \in BOOLEAN
<1>1. entries[k] \in Entries
  BY DEF BrowserTypeOK
<1>2. QED
  BY <1>1 DEF Entries, States, Documents

\* There are more documents than entries to remember one.
LEMMA DocumentIsNew == BrowserTypeOK => NewDocument \in Documents
<1>1. SUFFICES ASSUME BrowserTypeOK
               PROVE  \E d \in Documents : d # document /\ \A k \in DOMAIN entries : entries[k].document # d
  BY DEF NewDocument, Documents
<1> DEFINE used == {entries[k].document : k \in DOMAIN entries}
           f    == [k \in DOMAIN entries |-> entries[k].document]
<1>2. Len(entries) \in Nat /\ DOMAIN entries = 1 .. Len(entries) /\ Len(entries) <= MaxEntries
      /\ MaxEntries \in Nat
  <2>1. MaxEntries \in Nat
    OBVIOUS
  <2>2. entries \in Seq(Entries) /\ Len(entries) <= MaxEntries
    BY <1>1 DEF BrowserTypeOK
  <2>3. QED
    BY <2>1, <2>2
<1>3. IsFiniteSet(DOMAIN entries) /\ Cardinality(DOMAIN entries) <= MaxEntries
      /\ Cardinality(DOMAIN entries) \in Nat
  <2>1. IsFiniteSet(1 .. Len(entries))
        /\ Cardinality(1 .. Len(entries)) = IF 1 > Len(entries) THEN 0 ELSE Len(entries) - 1 + 1
    <3>1. 1 \in Int /\ Len(entries) \in Int
      BY <1>2
    <3>2. QED
      BY <3>1, FS_Interval
  <2>2. QED
    BY <1>2, <2>1
<1>4. f \in Surjection(DOMAIN entries, used)
  BY DEF Surjection
<1>5. IsFiniteSet(used) /\ Cardinality(used) <= Cardinality(DOMAIN entries)
      /\ Cardinality(used) \in Nat
  BY <1>3, <1>4, FS_Surjection, FS_CardinalityType
<1>6. IsFiniteSet(Documents) /\ Cardinality(Documents) = MaxEntries + 1
  BY <1>2, FS_Interval DEF Documents
<1>7. PICK d \in Documents : d \notin used
  <2>1. SUFFICES ASSUME Documents \subseteq used PROVE FALSE
    OBVIOUS
  <2>2. Cardinality(Documents) <= Cardinality(used)
    BY <1>5, <2>1, FS_Subset
  <2>3. QED
    BY <1>2, <1>3, <1>5, <1>6, <2>2
<1>8. document \in used
  <2>1. here \in DOMAIN entries /\ document = entries[here].document
    BY <1>1 DEF BrowserTypeOK
  <2>2. QED
    BY <2>1
<1>9. QED
  BY <1>7, <1>8

-----------------------------------------------------------------------------
(* The history.                                                            *)

HistoryFits == /\ entries \in Seq(Entries) /\ Len(entries) <= MaxEntries /\ here \in DOMAIN entries
               /\ document = entries[here].document
               /\ \A k \in DOMAIN entries : StateFits(entries[k])

LEMMA PushedKeeps ==
    ASSUME BrowserIInv, NEW e \in Entries, e.document = document, StateFits(e), Pushed(e),
           document' = document
    PROVE  HistoryFits' /\ Address' = e.page
<1> DEFINE before == SubSeq(entries, 1, here)
<1>1. entries \in Seq(Entries) /\ here \in 1 .. Len(entries) /\ Len(entries) \in Nat /\ here \in Nat
  BY DEF BrowserIInv, BrowserTypeOK
<1>2. /\ before \in Seq(Entries) /\ Len(before) = here
      /\ \A k \in 1 .. here : before[k] = entries[k]
  BY <1>1
<1> HIDE DEF before
<1>3. here < MaxEntries /\ entries' = Append(before, e) /\ here' = here + 1
  BY <1>2 DEF Pushed, before
<1>4. /\ entries' \in Seq(Entries) /\ Len(entries') = here + 1 /\ DOMAIN entries' = 1 .. here + 1
      /\ entries'[here + 1] = e
      /\ \A k \in 1 .. here : entries'[k] = before[k]
  BY <1>1, <1>2, <1>3
<1>5. \A k \in DOMAIN entries' : StateFits(entries'[k])
  <2>1. \A k \in 1 .. here : StateFits(entries[k])
    BY <1>1 DEF BrowserIInv
  <2>2. \A k \in DOMAIN entries' : k = here + 1 \/ k \in 1 .. here
    BY <1>1, <1>4
  <2>3. \A k \in 1 .. here : entries'[k] = entries[k]
    BY <1>2, <1>4
  <2>4. QED
    BY <1>4, <2>1, <2>2, <2>3
<1>6. here' \in DOMAIN entries' /\ Len(entries') <= MaxEntries /\ entries'[here'] = e
  BY <1>1, <1>3, <1>4
<1>7. QED
  BY <1>4, <1>5, <1>6 DEF HistoryFits, Address, StateFits

\* The invariant of a page whose history is in order.
LEMMA PageKeeps ==
    ASSUME HistoryFits', form' \in Forms, asked' \in SUBSET PageAsks, clicks' \in Nat,
           strayed' \in BOOLEAN, form'.topic = Nowhere => form' = NoForm,
           strayed' \/ (Fits(form'.topic, Address') /\ main' = Address'), RepliesGoHome'
    PROVE  BrowserIInv'
<1>1. BrowserTypeOK'
  BY DEF BrowserTypeOK, HistoryFits, Forms
<1>2. QED
  BY <1>1 DEF BrowserIInv, HistoryFits, PageIsAddressed, Fits

LEMMA LoadedKeeps ==
    ASSUME BrowserIInv, NEW before \in Seq(Entries), \A k \in DOMAIN before : StateFits(before[k]),
           NEW e \in Entries, StateFits(e), LoadedAt(before, e), UNCHANGED <<clicks, lastReply>>
    PROVE  BrowserIInv'
<1> DEFINE p == e.page
           g == Entry(p, State(p, FormOn(p)), e.document)
           n == Len(before)
<1>1. p \in Pages /\ e.document \in Documents /\ n \in Nat
  BY DEF Entries, Documents
<1>2. /\ g \in Entries /\ StateFits(g) /\ g.page = p /\ g.document = e.document
      /\ FormOn(p) \in Forms /\ Fits(FormOn(p).topic, p)
      /\ FormOn(p).topic = Nowhere => FormOn(p) = NoForm
  <2>1. FormOn(p) \in Forms /\ Fits(FormOn(p).topic, p)
        /\ (FormOn(p).topic = Nowhere => FormOn(p) = NoForm)
    BY <1>1, FormTypes
  <2>2. QED
    BY <1>1, <2>1, PushedFits DEF Entry
<1>3. /\ n + 2 <= MaxEntries /\ entries' = before \o <<e, g>> /\ here' = n + 2
      /\ document' = e.document /\ main' = p /\ form' = FormOn(p)
      /\ asked' = {} /\ strayed' = FALSE
  BY DEF LoadedAt
<1> HIDE DEF g, p, n
<1>4. /\ before \o <<e, g>> \in Seq(Entries) /\ Len(before \o <<e, g>>) = n + 2
      /\ \A k \in 1 .. n : (before \o <<e, g>>)[k] = before[k]
      /\ (before \o <<e, g>>)[n + 1] = e /\ (before \o <<e, g>>)[n + 2] = g
  BY <1>1, <1>2 DEF n
<1>5. DOMAIN entries' = 1 .. n + 2 /\ DOMAIN before = 1 .. n
  BY <1>3, <1>4 DEF n
<1>6. \A k \in DOMAIN entries' : StateFits(entries'[k])
  <2>1. \A k \in DOMAIN entries' : k \in 1 .. n \/ k = n + 1 \/ k = n + 2
    BY <1>1, <1>5
  <2>2. \A k \in 1 .. n : entries'[k] = before[k] /\ StateFits(before[k])
    BY <1>3, <1>4, <1>5
  <2>3. entries'[n + 1] = e /\ entries'[n + 2] = g
    BY <1>3, <1>4
  <2>4. QED
    BY <1>2, <2>1, <2>2, <2>3
<1>7. here' \in DOMAIN entries' /\ entries'[here'] = g
  BY <1>1, <1>3, <1>4, <1>5
<1>8. HistoryFits' /\ Address' = p
  BY <1>2, <1>3, <1>4, <1>6, <1>7 DEF HistoryFits, Address, StateFits
<1>9. clicks' \in Nat /\ RepliesGoHome'
  BY DEF BrowserIInv, BrowserTypeOK, RepliesGoHome
<1>10. QED
  BY <1>2, <1>3, <1>8, <1>9, PageKeeps

-----------------------------------------------------------------------------
(* The steps.                                                              *)

LEMMA AskedTypes ==
    ASSUME BrowserTypeOK, NEW r \in asked
    PROVE  /\ r.page \in Pages
           /\ r.kind = "topic" => r.page \in Topics
           /\ r.kind \in {"node", "menu"} => r.page \in Lists
<1>1. r \in PageAsks
  BY DEF BrowserTypeOK
<1>2. QED
  BY <1>1 DEF PageAsks, Pages

\* The page stays as it is.
LEMMA QuietKeeps ==
    ASSUME BrowserIInv, UNCHANGED <<entries, here, document, main, form, strayed, lastReply>>,
           asked' \in SUBSET PageAsks, clicks' \in Nat
    PROVE  BrowserIInv'
<1>1. BrowserTypeOK'
  BY DEF BrowserIInv, BrowserTypeOK
<1>2. QED
  BY <1>1 DEF BrowserIInv, PageIsAddressed, RepliesGoHome, Address

LEMMA ClickKeeps ==
    ASSUME BrowserIInv, NEW kind, NEW p, Click(kind, p),
           (kind = "topic" /\ p \in Topics) \/ (kind \in {"node", "menu"} /\ p \in Lists)
    PROVE  BrowserIInv'
<1>1. clicks \in Nat /\ asked \in SUBSET PageAsks
  BY DEF BrowserIInv, BrowserTypeOK
<1>2. [kind |-> kind, page |-> p, click |-> clicks] \in PageAsks
  BY <1>1 DEF PageAsks
<1>3. asked' \in SUBSET PageAsks /\ clicks' \in Nat
  BY <1>1, <1>2 DEF Click
<1>4. QED
  BY <1>3, QuietKeeps DEF Click, pageVars

LEMMA ShowsKeeps ==
    ASSUME BrowserIInv, NEW r \in asked, NEW f \in Forms, Shows(r, r.page, f),
           Fits(f.topic, r.page), f.topic = Nowhere => f = NoForm
    PROVE  BrowserIInv'
<1> DEFINE p == r.page
           e == Entry(p, State(p, f), document)
<1>1. BrowserTypeOK /\ p \in Pages /\ document \in Documents /\ clicks \in Nat
  BY AskedTypes, EntryFields DEF BrowserIInv, BrowserTypeOK
<1>2. e \in Entries /\ StateFits(e) /\ e.page = p /\ e.document = document
  BY <1>1, PushedFits DEF Entry
<1>3. Pushed(e) /\ main' = p /\ form' = f /\ asked' = asked \ {r} /\ strayed' = FALSE
      /\ UNCHANGED <<document, clicks, lastReply>>
  BY DEF Shows
<1> HIDE DEF e, p
<1>4. HistoryFits' /\ Address' = p
  BY <1>2, <1>3, PushedKeeps
<1>5. asked' \in SUBSET PageAsks /\ RepliesGoHome'
  BY <1>1, <1>3 DEF BrowserTypeOK, BrowserIInv, RepliesGoHome
<1>6. Fits(f.topic, p)
  BY DEF p
<1>7. QED
  BY <1>1, <1>3, <1>4, <1>5, <1>6, PageKeeps

LEMMA AnswersKeep ==
    ASSUME BrowserIInv, TopicAnswered \/ NodeAnswered \/ MenuAnswered PROVE BrowserIInv'
<1>1. BrowserTypeOK /\ form \in Forms /\ (form.topic = Nowhere => form = NoForm)
  BY DEF BrowserIInv, BrowserTypeOK, Forms
<1>2. ASSUME NEW r \in asked, r.kind = "topic", Shows(r, r.page, FormOn(r.page)) PROVE BrowserIInv'
  <2>1. r.page \in Pages
    BY <1>1, AskedTypes
  <2>2. QED
    BY <1>2, <2>1, FormTypes, ShowsKeeps
<1>3. ASSUME NEW r \in asked, r.kind = "node", Shows(r, r.page, NoForm) PROVE BrowserIInv'
  <2>1. NoForm \in Forms /\ Fits(NoForm.topic, r.page)
    BY FormTypes DEF NoForm, Fits
  <2>2. QED
    BY <1>3, <2>1, ShowsKeeps
<1>4. ASSUME NEW r \in asked, r.kind = "menu", Shows(r, r.page, Rebound) PROVE BrowserIInv'
  <2>1. r.page \in Lists
    BY <1>1, <1>4, AskedTypes
  <2>2. Rebound \in Forms /\ Rebound.topic = form.topic
    BY <1>1 DEF Rebound, Forms
  <2>3. Rebound.topic = Nowhere => Rebound = NoForm
    BY <1>1, <2>2 DEF Rebound
  <2>4. Fits(Rebound.topic, r.page)
    BY <2>1 DEF Fits
  <2>5. QED
    BY <1>4, <2>2, <2>3, <2>4, ShowsKeeps
<1>5. QED
  BY <1>2, <1>3, <1>4 DEF TopicAnswered, NodeAnswered, MenuAnswered

LEMMA SubKeeps ==
    ASSUME BrowserIInv, NEW n \in 0 .. Len(entries)
    PROVE  /\ SubSeq(entries, 1, n) \in Seq(Entries)
           /\ \A k \in DOMAIN SubSeq(entries, 1, n) : StateFits(SubSeq(entries, 1, n)[k])
<1>1. entries \in Seq(Entries) /\ Len(entries) \in Nat /\ n \in Nat /\ n <= Len(entries)
      /\ \A k \in DOMAIN entries : StateFits(entries[k])
  BY DEF BrowserIInv, BrowserTypeOK
<1>2. /\ SubSeq(entries, 1, n) \in Seq(Entries) /\ Len(SubSeq(entries, 1, n)) = n
      /\ \A k \in 1 .. n : SubSeq(entries, 1, n)[k] = entries[k]
  BY <1>1
<1>3. DOMAIN SubSeq(entries, 1, n) = 1 .. n /\ \A k \in 1 .. n : k \in DOMAIN entries
  BY <1>1, <1>2
<1>4. QED
  BY <1>1, <1>2, <1>3

LEMMA AskingFailsKeeps == ASSUME BrowserIInv, AskingFails PROVE BrowserIInv'
<1>1. PICK r \in asked : Load(r.page) /\ UNCHANGED <<clicks, lastReply>>
  BY DEF AskingFails
<1> DEFINE n == IF r.page = Address /\ ~entries[here].fragment THEN here - 1 ELSE here
           e == Entry(r.page, NoState, NewDocument)
<1>2. BrowserTypeOK /\ here \in 1 .. Len(entries) /\ Len(entries) \in Nat
  BY DEF BrowserIInv, BrowserTypeOK
<1>3. n \in 0 .. Len(entries)
  BY <1>2
<1>4. e \in Entries /\ e.state = NoState
  BY <1>1, <1>2, DocumentIsNew, FormTypes, AskedTypes, EntryTypes
<1>5. StateFits(e)
  BY <1>4 DEF StateFits
<1>6. LoadedAt(SubSeq(entries, 1, n), e)
  BY <1>1 DEF Load
<1> HIDE DEF n, e
<1>7. QED
  BY <1>1, <1>3, <1>4, <1>5, <1>6, SubKeeps, LoadedKeeps

LEMMA GoesKeeps == ASSUME BrowserIInv, NEW k \in DOMAIN entries, Goes(k) PROVE BrowserIInv'
<1>1. /\ BrowserTypeOK /\ k \in 1 .. Len(entries) /\ Len(entries) \in Nat
      /\ StateFits(entries[k]) /\ HistoryFits
  BY DEF BrowserIInv, BrowserTypeOK, HistoryFits
<1>2. /\ entries[k] \in Entries /\ entries[k].page \in Pages /\ entries[k].state \in States
  BY <1>1, EntryFields
<1>3. clicks \in Nat /\ asked \in SUBSET PageAsks /\ form \in Forms
      /\ (form.topic = Nowhere => form = NoForm) /\ RepliesGoHome
  BY DEF BrowserIInv, BrowserTypeOK, Forms
<1>4. CASE entries[k].document = document /\ Strays(k)
  <2>1. here' = k /\ strayed' = TRUE
        /\ UNCHANGED <<entries, document, main, form, asked, clicks, lastReply>>
    BY <1>4 DEF Strays, pageVars
  <2>2. HistoryFits'
    BY <1>1, <1>4, <2>1 DEF HistoryFits, StateFits
  <2>3. RepliesGoHome'
    BY <1>3, <2>1 DEF RepliesGoHome
  <2>4. QED
    BY <1>3, <2>1, <2>2, <2>3, PageKeeps
<1>5. CASE entries[k].document = document /\ Restores(k)
  <2> DEFINE x == entries[k].state.topic
             p == entries[k].page
  <2>1. here' = k /\ strayed' = FALSE /\ main' = entries[k].state.content
        /\ form' = FormOn(x) /\ entries[k].state # NoState
        /\ UNCHANGED <<entries, document, asked, clicks, lastReply>>
    BY <1>5 DEF Restores
  <2>2. HistoryFits' /\ Address' = p
    BY <1>1, <1>5, <2>1 DEF HistoryFits, Address, StateFits
  <2>3. main' = p /\ Fits(x, p) /\ x \in Topics \cup {Nowhere}
    BY <1>1, <1>2, <2>1 DEF StateFits, States
  <2>4. FormOn(x) \in Forms /\ Fits(FormOn(x).topic, p) /\ (FormOn(x).topic = Nowhere => FormOn(x) = NoForm)
    BY <2>3 DEF FormOn, Fits, Forms, NoForm, Pages
  <2>5. RepliesGoHome'
    BY <1>3, <2>1 DEF RepliesGoHome
  <2> HIDE DEF p, x
  <2>6. QED
    BY <1>3, <2>1, <2>2, <2>3, <2>4, <2>5, PageKeeps
<1>6. CASE LoadedAt(SubSeq(entries, 1, k - 1), entries[k]) /\ UNCHANGED <<clicks, lastReply>>
  <2>1. k - 1 \in 0 .. Len(entries)
    BY <1>1
  <2>2. QED
    BY <1>1, <1>2, <1>6, <2>1, SubKeeps, LoadedKeeps
<1>7. QED
  BY <1>4, <1>5, <1>6 DEF Goes

LEMMA OverlayClosesKeeps == ASSUME BrowserIInv, OverlayCloses PROVE BrowserIInv'
<1>1. /\ UNCHANGED <<document, main, form, asked, clicks, strayed, lastReply>>
      /\ BrowserTypeOK /\ here \in DOMAIN entries /\ document \in Documents
      /\ clicks \in Nat /\ asked \in SUBSET PageAsks
  BY EntryFields DEF OverlayCloses, pageVars, BrowserIInv, BrowserTypeOK
<1>2. CASE UNCHANGED <<entries, here>>
  BY <1>1, <1>2, QuietKeeps
<1> DEFINE e == [Entry(Address, NoState, document) EXCEPT !.fragment = TRUE]
<1>3. CASE Pushed(e)
  <2>1. Entry(Address, NoState, document) \in Entries
        /\ Entry(Address, NoState, document).page = Address
        /\ Entry(Address, NoState, document).state = NoState
        /\ Entry(Address, NoState, document).document = document
    BY <1>1, EntryFields, EntryTypes, FormTypes DEF Address
  <2>2. e \in Entries /\ e.page = Address /\ e.state = NoState /\ e.document = document
    BY <2>1 DEF Entries
  <2> HIDE DEF e
  <2>3. HistoryFits' /\ Address' = Address
    BY <1>1, <1>3, <2>2, PushedKeeps DEF StateFits
  <2>4. /\ form \in Forms /\ (form.topic = Nowhere => form = NoForm) /\ RepliesGoHome'
        /\ strayed \/ (Fits(form.topic, Address) /\ main = Address)
        /\ strayed \in BOOLEAN
    BY <1>1 DEF BrowserIInv, BrowserTypeOK, Forms, PageIsAddressed, RepliesGoHome
  <2>5. QED
    BY <1>1, <2>3, <2>4, PageKeeps
<1>4. QED
  BY <1>2, <1>3 DEF OverlayCloses

\* The reply is sent to the address, which is the page the form stands in.
LEMMA ReplySentKeeps == ASSUME BrowserIInv, ReplySent PROVE BrowserIInv'
<1>1. /\ UNCHANGED <<entries, here, document, main, form, strayed>>
      /\ clicks' = clicks + 1 /\ form # NoForm
      /\ lastReply' = [from |-> form.topic, to |-> Address, strayed |-> strayed,
                       times |-> form.bound]
      /\ asked' = asked \cup {[kind |-> "reply", page |-> Address, click |-> clicks]}
  BY DEF ReplySent, pageVars
<1>2. /\ BrowserTypeOK /\ clicks \in Nat /\ asked \in SUBSET PageAsks /\ here \in DOMAIN entries
      /\ (form.topic = Nowhere => form = NoForm) /\ (strayed \/ Fits(form.topic, Address))
  BY DEF BrowserIInv, BrowserTypeOK
<1>3. Address \in Pages
  BY <1>2, EntryFields DEF Address
<1>4. asked' \in SUBSET PageAsks /\ clicks' \in Nat
  BY <1>1, <1>2, <1>3 DEF PageAsks
<1>5. BrowserTypeOK'
  BY <1>1, <1>2, <1>4 DEF BrowserTypeOK
<1>6. RepliesGoHome'
  BY <1>1, <1>2 DEF RepliesGoHome, Fits
<1>7. QED
  BY <1>1, <1>5, <1>6 DEF BrowserIInv, PageIsAddressed, Address

LEMMA BrowserInitially == ASSUME NEW p \in Pages, BrowserInit(p) PROVE BrowserIInv
<1> DEFINE f == FormOn(p)
           e == Entry(p, NoState, 1)
           g == Entry(p, State(p, f), 1)
<1>1. MaxEntries \in Nat /\ MaxEntries >= 2 /\ 1 \in Documents
  BY DEF Documents
<1>2. f \in Forms /\ Fits(f.topic, p) /\ (f.topic = Nowhere => f = NoForm)
  BY FormTypes
<1>3. e \in Entries /\ StateFits(e) /\ g \in Entries /\ StateFits(g)
      /\ g.page = p /\ g.document = 1
  BY <1>1, <1>2, EntryTypes, FormTypes, PushedFits DEF StateFits, Entry
<1>4. entries = <<e, g>> /\ here = 2 /\ document = 1 /\ main = p /\ form = f
      /\ asked = {} /\ clicks = 0 /\ strayed = FALSE /\ lastReply = NoReply
  BY DEF BrowserInit
<1> HIDE DEF e, f, g
<1>5. entries \in Seq(Entries) /\ Len(entries) = 2 /\ DOMAIN entries = 1 .. 2
      /\ entries[1] = e /\ entries[2] = g
  BY <1>3, <1>4
<1>6. Address = p /\ \A k \in DOMAIN entries : StateFits(entries[k])
  BY <1>3, <1>4, <1>5 DEF Address
<1>7. BrowserTypeOK
  <2>1. here \in DOMAIN entries /\ document = entries[here].document /\ Len(entries) <= MaxEntries
    BY <1>1, <1>3, <1>4, <1>5
  <2>2. form \in [topic : Topics \cup {Nowhere}, bound : Nat]
    BY <1>2, <1>4 DEF Forms
  <2>3. QED
    BY <1>4, <1>5, <2>1, <2>2 DEF BrowserTypeOK
<1>8. RepliesGoHome
  BY <1>4 DEF RepliesGoHome, NoReply
<1>9. QED
  BY <1>2, <1>4, <1>6, <1>7, <1>8 DEF BrowserIInv, PageIsAddressed

LEMMA BrowserStep == BrowserIInv /\ [BrowserNext]_browserVars => BrowserIInv'
<1>1. SUFFICES ASSUME BrowserIInv, [BrowserNext]_browserVars PROVE BrowserIInv'
  OBVIOUS
<1>2. clicks \in Nat /\ asked \in SUBSET PageAsks
  BY <1>1 DEF BrowserIInv, BrowserTypeOK
<1>3. CASE TopicClicked \/ NodeClicked \/ MenuClicked
  BY <1>1, <1>3, ClickKeeps DEF TopicClicked, NodeClicked, MenuClicked
<1>4. CASE TopicAnswered \/ NodeAnswered \/ MenuAnswered
  BY <1>1, <1>4, AnswersKeep
<1>5. CASE AskingFails
  BY <1>1, <1>5, AskingFailsKeeps
<1>6. CASE Back \/ Forward
  BY <1>1, <1>6, GoesKeeps DEF Back, Forward, Goes
<1>7. CASE OverlayCloses
  BY <1>1, <1>7, OverlayClosesKeeps
<1>8. CASE ReplySent
  BY <1>1, <1>8, ReplySentKeeps
<1>9. CASE NothingThere \/ OverlayOpens \/ Writes \/ ReplyAnswered \/ ReplyFails
           \/ UNCHANGED browserVars
  <2>1. /\ UNCHANGED <<entries, here, document, main, form, strayed, lastReply>>
        /\ asked' \subseteq asked /\ clicks' \in {clicks, clicks + 1}
    BY <1>9 DEF NothingThere, OverlayOpens, Writes, ReplyAnswered, ReplyFails, browserVars, pageVars
  <2>2. asked' \in SUBSET PageAsks /\ clicks' \in Nat
    BY <1>2, <2>1
  <2>3. QED
    BY <1>1, <2>1, <2>2, QuietKeeps
<1>10. QED
  BY <1>1, <1>3, <1>4, <1>5, <1>6, <1>7, <1>8, <1>9 DEF BrowserNext

-----------------------------------------------------------------------------
(* The theorems.                                                           *)

\* The history is in order: every state in it fits its address, and so does the form of
\* the page, unless an entry without state has been gone back to.
THEOREM BrowserInductive == BrowserSpec => []BrowserIInv
<1>1. (\E p \in Pages : BrowserInit(p)) => BrowserIInv
  BY BrowserInitially
<1>2. BrowserIInv /\ [BrowserNext]_browserVars => BrowserIInv'
  BY BrowserStep
<1>3. QED
  BY <1>1, <1>2, PTL DEF BrowserSpec

\* The address names what the page shows, whatever answers come late.
THEOREM PageStaysAddressed == BrowserSpec => []PageIsAddressed
<1>1. BrowserIInv => PageIsAddressed
  BY DEF BrowserIInv
<1>2. QED
  BY <1>1, BrowserInductive, PTL

\* No reply lands under another topic than the one it was written for.
THEOREM RepliesComeHome == BrowserSpec => []RepliesGoHome
<1>1. BrowserIInv => RepliesGoHome
  BY DEF BrowserIInv
<1>2. QED
  BY <1>1, BrowserInductive, PTL

-----------------------------------------------------------------------------
(* Requests to other servers: one invariant carries both theorems, that    *)
(* the pool holds only handles that get() alone has used.                  *)

USE HandleAssumption

LEMMA RestInitially == RestInit => RestIInv
<1> SUFFICES ASSUME RestInit PROVE RestIInv
  OBVIOUS
<1>1. RestTypeOK
  BY DEF RestTypeOK, RestInit, Options, NewOptions, Methods, NoCall, Steps, Asks, DatabaseGet
<1>2. RequestsAreOwn /\ HandlesAreOne
  BY DEF RestInit, NoCall, RequestsAreOwn, HandlesAreOne
<1>3. QED
  BY <1>1, <1>2 DEF RestIInv, RestInit, NoCall, Busy, Steps

\* What the steps below use of the types, of one thread.
LEMMA CallTypes ==
    ASSUME RestTypeOK, NEW w \in Caller
    PROVE  /\ call[w].pc \in Steps /\ call[w].ask \in Asks /\ call[w].n \in Nat
           /\ call[w].handle \in Handle \cup {NoHandle}
           /\ call[w].ask.op \in {"get", "post", "put", "del"}
           /\ call[w].ask.auth \in BOOLEAN
<1>1. call[w] \in [pc : Steps, ask : Asks, n : Nat, handle : Handle \cup {NoHandle}]
  BY DEF RestTypeOK
<1>2. \A a \in Asks : a.op \in {"get", "post", "put", "del"} /\ a.auth \in BOOLEAN
  BY DEF Asks
<1>3. QED
  BY <1>1, <1>2

LEMMA StartKeeps == ASSUME RestIInv, NEW w \in Caller, Start(w) PROVE RestIInv'
<1> USE DEF RestIInv
<1>1. PICK ask \in Asks :
         /\ call' = [call EXCEPT ![w] = [pc |-> "started", ask |-> ask, n |-> calls + 1,
                                         handle |-> NoHandle]]
         /\ (\E h \in Unused : lost' = lost \cup {h}) \/ lost' = lost
  BY DEF Start
<1>2. UNCHANGED <<idle, option>> /\ calls' = calls + 1 /\ call[w].pc = "free"
  BY DEF Start
<1>3. lost' \subseteq Handle /\ idle \cap lost' = {} /\ Held \cap lost' \subseteq lost
  BY <1>1 DEF Unused, RestTypeOK
<1>4. RestTypeOK'
  BY <1>1, <1>2, <1>3 DEF RestTypeOK, Steps
<1>5. RequestsAreOwn'
  BY <1>1, <1>2 DEF RequestsAreOwn, RestTypeOK, Needed
<1>6. HandlesAreOne'
  BY <1>1, <1>2, <1>3 DEF HandlesAreOne, RestTypeOK, Held
<1>7. QED
  BY <1>1, <1>2, <1>3, <1>4, <1>5, <1>6 DEF RestTypeOK, Busy

\* GetCurlHandle() by either way: the handle was nobody's, and it is plain.
LEMMA TakeKeeps ==
    ASSUME RestIInv, NEW w \in Caller, TakePooled(w) \/ TakeNew(w)
    PROVE  RestIInv'
<1> USE DEF RestIInv
<1>1. PICK h \in Handle :
         /\ call' = [call EXCEPT ![w].pc = "taken", ![w].handle = h]
         /\ \A v \in Caller : call[v].handle # h
         /\ h \notin lost /\ h \notin idle'
         /\ Plain(option'[h])
  <2>1. CASE TakePooled(w)
    <3>1. PICK h \in idle : Takes(w, h) /\ idle' = AfterTaking(h) /\ option' = option
      BY <2>1 DEF TakePooled
    <3>2. h \in Handle /\ h # NoHandle
      BY DEF RestTypeOK
    <3>3. QED
      BY <3>1, <3>2 DEF Takes, AfterTaking, HandlesAreOne
  <2>2. CASE TakeNew(w)
    <3>1. PICK h \in Unused : /\ Takes(w, h) /\ option' = [option EXCEPT ![h] = NewOptions]
                              /\ idle' = idle
      BY <2>2 DEF TakeNew
    <3>2. h \in Handle /\ h # NoHandle /\ h \notin idle \cup lost \cup Held
      BY <3>1 DEF Unused
    <3>3. Plain(option'[h])
      BY <3>1, <3>2 DEF RestTypeOK, Plain, NewOptions
    <3>4. QED
      BY <3>1, <3>2, <3>3 DEF Takes, Held
  <2>3. QED
    BY <2>1, <2>2
<1>2. /\ UNCHANGED <<lost, calls>> /\ idle' \subseteq idle
      /\ call[w].pc = "started" /\ call[w].handle = NoHandle
  BY DEF TakePooled, TakeNew, AfterTaking, Busy, Steps
<1>3. /\ option' \in [Handle -> Options]
      /\ \A g \in Handle : g # h => option'[g] = option[g]
  <2>1. CASE TakePooled(w)
    BY <2>1 DEF TakePooled, RestTypeOK
  <2>2. CASE TakeNew(w)
    <3>1. PICK g \in Handle : Takes(w, g) /\ option' = [option EXCEPT ![g] = NewOptions]
      BY <2>2 DEF TakeNew, Unused
    <3>2. g = h
      BY <1>1, <3>1 DEF Takes, RestTypeOK
    <3>3. NewOptions \in Options
      BY DEF NewOptions, Options, Methods
    <3>4. QED
      BY <3>1, <3>2, <3>3 DEF RestTypeOK
  <2>3. QED
    BY <2>1, <2>2
<1>4. RestTypeOK'
  <2>1. call' \in [Caller -> [pc : Steps, ask : Asks, n : Nat, handle : Handle \cup {NoHandle}]]
    BY <1>1, CallTypes DEF RestTypeOK, Steps
  <2>2. QED
    BY <2>1, <1>2, <1>3 DEF RestTypeOK
<1>5. \A v \in Caller : v # w => call'[v] = call[v]
  BY <1>1 DEF RestTypeOK
<1>6. call'[w].pc = "taken" /\ call'[w].handle = h
  BY <1>1 DEF RestTypeOK
<1>7. RequestsAreOwn'
  <2> SUFFICES ASSUME NEW v \in Caller, call'[v].pc = "performing"
               PROVE  option'[call'[v].handle] = Needed(call'[v])
    BY DEF RequestsAreOwn, Needed, Method, Carries
  <2>1. v # w /\ call'[v] = call[v]
    BY <1>5, <1>6
  <2>2. call[v].handle \in Handle /\ call[v].handle # h
    BY <2>1, <1>1, CallTypes DEF Busy, Steps
  <2>3. QED
    BY <2>1, <2>2, <1>3 DEF RequestsAreOwn
<1>8. HandlesAreOne'
  <2> SUFFICES ASSUME NEW v \in Caller, call'[v].handle # NoHandle
               PROVE  /\ call'[v].handle \notin idle' \cup lost'
                      /\ \A u \in Caller : u # v => call'[u].handle # call'[v].handle
    BY DEF HandlesAreOne
  <2>1. CASE v = w
    <3>1. \A u \in Caller : u # v => call'[u].handle # h
      BY <2>1, <1>1, <1>5
    <3>2. h \notin idle' \cup lost'
      BY <1>1, <1>2
    <3>3. QED
      BY <2>1, <3>1, <3>2, <1>6
  <2>2. CASE v # w
    <3>1. call'[v] = call[v] /\ call[v].handle # h
      BY <2>2, <1>1, <1>5
    <3>2. \A u \in Caller : u # v => call[u].handle # call[v].handle
      BY <2>2, <3>1 DEF HandlesAreOne
    <3>3. QED
      BY <3>1, <3>2, <1>2, <1>5, <1>6 DEF HandlesAreOne
  <2>3. QED
    BY <2>1, <2>2
<1>9. \A g \in idle' : Plain(option'[g])
  BY <1>1, <1>2, <1>3 DEF RestTypeOK
<1>10. ASSUME NEW v \in Caller
       PROVE  /\ call'[v].pc \in Busy <=> call'[v].handle # NoHandle
              /\ call'[v].pc = "taken" => Plain(option'[call'[v].handle])
              /\ call'[v].pc \in {"performing", "answered", "failed"} /\ call'[v].ask.op = "get"
                   => Plain(option'[call'[v].handle])
  <2>1. CASE v = w
    BY <2>1, <1>1, <1>6 DEF Busy, Steps
  <2>2. CASE v # w
    <3>1. call'[v] = call[v] /\ call[v].handle # h
      BY <2>2, <1>1, <1>5
    <3>2. call[v].handle # NoHandle => call[v].handle \in Handle
      BY CallTypes
    <3>3. call[v].pc \in {"taken", "performing", "answered", "failed"} => call[v].handle # NoHandle
      BY DEF Busy, Steps
    <3>4. QED
      BY <3>1, <3>2, <3>3, <1>3
  <2>3. QED
    BY <2>1, <2>2
<1>11. QED
  BY <1>2, <1>4, <1>7, <1>8, <1>9, <1>10

LEMMA PerformKeeps == ASSUME RestIInv, NEW w \in Caller, Perform(w) PROVE RestIInv'
<1> USE DEF RestIInv
<1> DEFINE c == call[w]
           h == c.handle
<1>1. /\ c.pc = "taken" /\ h \in Handle /\ Plain(option[h])
      /\ c.ask.op = "get" \/ c.ask.op = "post" \/ c.ask.op = "put" \/ c.ask.op = "del"
      /\ c.ask \in Asks /\ c.n \in Nat /\ c.ask.auth \in BOOLEAN
  BY CallTypes DEF Perform, Busy, Steps
<1>2. /\ call' = [call EXCEPT ![w].pc = "performing"]
      /\ option' = [option EXCEPT ![h] = SetOptions(option[h], c)]
      /\ UNCHANGED <<idle, lost, calls>>
  BY DEF Perform
<1>3. option[h] \in Options
  BY <1>1 DEF RestTypeOK
<1>4. /\ SetOptions(option[h], c) \in Options
      /\ SetOptions(option[h], c) = Needed(c)
      /\ c.ask.op = "get" => Plain(SetOptions(option[h], c))
  <2>1. c.ask.op \in {"put", "del"} => c.ask.auth = TRUE
    BY <1>1 DEF Asks
  <2>2. CASE c.ask.op = "get"
    BY <2>2, <1>1, <1>3 DEF SetOptions, GetOptions, Needed, Method, Carries, Options, Methods, Plain
  <2>3. CASE c.ask.op = "post"
    BY <2>3, <1>1, <1>3 DEF SetOptions, PostOptions, Needed, Method, Carries, Options, Methods, Plain
  <2>4. CASE c.ask.op = "put"
    BY <2>4, <2>1, <1>1, <1>3 DEF SetOptions, PutOptions, Needed, Method, Carries, Options, Methods, Plain
  <2>5. CASE c.ask.op = "del"
    BY <2>5, <2>1, <1>1, <1>3 DEF SetOptions, DelOptions, Needed, Method, Carries, Options, Methods, Plain
  <2>6. QED
    BY <1>1, <2>2, <2>3, <2>4, <2>5
<1>5. \A v \in Caller : v # w => call'[v] = call[v] /\ call[v].handle # h
  BY <1>1, <1>2 DEF RestTypeOK, HandlesAreOne
<1>6. /\ call'[w] = [c EXCEPT !.pc = "performing"] /\ option'[h] = Needed(c)
      /\ \A g \in Handle : g # h => option'[g] = option[g]
  BY <1>1, <1>2, <1>4 DEF RestTypeOK
<1>7. RestTypeOK'
  BY <1>1, <1>2, <1>4 DEF RestTypeOK, Steps
<1>8. /\ call'[w].pc = "performing" /\ call'[w].handle = h /\ Needed(call'[w]) = Needed(c)
      /\ call'[w].ask = c.ask
  BY <1>6, CallTypes DEF Needed, RestTypeOK
<1>9. RequestsAreOwn'
  <2> SUFFICES ASSUME NEW v \in Caller, call'[v].pc = "performing"
               PROVE  option'[call'[v].handle] = Needed(call'[v])
    BY DEF RequestsAreOwn, Needed, Method, Carries
  <2>1. CASE v = w
    BY <2>1, <1>6, <1>8
  <2>2. CASE v # w
    BY <2>2, <1>5, <1>6, CallTypes DEF RequestsAreOwn, Busy, Steps
  <2>3. QED
    BY <2>1, <2>2
<1>10. HandlesAreOne'
  BY <1>2, <1>5, <1>8 DEF HandlesAreOne
<1>11. \A g \in idle' : Plain(option'[g])
  BY <1>1, <1>2, <1>6 DEF HandlesAreOne, RestTypeOK
<1>12. ASSUME NEW v \in Caller
       PROVE  /\ call'[v].pc \in Busy <=> call'[v].handle # NoHandle
              /\ call'[v].pc = "taken" => Plain(option'[call'[v].handle])
              /\ call'[v].pc \in {"performing", "answered", "failed"} /\ call'[v].ask.op = "get"
                   => Plain(option'[call'[v].handle])
  <2>1. CASE v = w
    BY <2>1, <1>1, <1>2, <1>4, <1>6, <1>8 DEF Busy, Steps
  <2>2. CASE v # w
    BY <2>2, <1>5, <1>6, CallTypes DEF Busy, Steps
  <2>3. QED
    BY <2>1, <2>2
<1>13. QED
  BY <1>2, <1>7, <1>9, <1>10, <1>11, <1>12

LEMMA PerformedKeeps == ASSUME RestIInv, NEW w \in Caller, Performed(w) PROVE RestIInv'
<1> USE DEF RestIInv
<1>1. PICK pc \in {"answered", "failed"} : call' = [call EXCEPT ![w].pc = pc]
  BY DEF Performed
<1>2. call[w].pc = "performing" /\ UNCHANGED <<idle, lost, option, calls>>
  BY DEF Performed
<1>3. RestTypeOK'
  BY <1>1, <1>2 DEF RestTypeOK, Steps
<1>4. /\ \A v \in Caller : v # w => call'[v] = call[v]
      /\ call'[w].pc = pc /\ call'[w].handle = call[w].handle /\ call'[w].ask = call[w].ask
  BY <1>1 DEF RestTypeOK
<1>5. RequestsAreOwn'
  BY <1>2, <1>4 DEF RequestsAreOwn, Needed
<1>6. HandlesAreOne'
  BY <1>2, <1>4 DEF HandlesAreOne
<1>7. QED
  BY <1>2, <1>3, <1>4, <1>5, <1>6 DEF Busy, Steps

\* The call is over, with its handle in the pool, forgotten or freed, or without one.
LEMMA EndKeeps ==
    ASSUME RestIInv, NEW w \in Caller, Return(w) \/ TakeFails(w)
    PROVE  RestIInv'
<1> USE DEF RestIInv
<1> DEFINE h == call[w].handle
<1>1. call' = [call EXCEPT ![w] = NoCall] /\ UNCHANGED <<option, calls>>
  BY DEF Return, TakeFails
<1>2. /\ idle' = idle \/ (idle' = idle \cup {h} /\ h \in Handle /\ Plain(option[h]) /\ lost' = lost)
      /\ lost' = lost \/ (lost' = lost \cup {h} /\ h \in Handle /\ idle' = idle)
  <2>1. CASE TakeFails(w)
    BY <2>1 DEF TakeFails
  <2>2. CASE Return(w)
    <3>1. h \in Handle
      BY <2>2, CallTypes DEF Return, Busy, Steps
    <3>2. Pooled(call[w]) => Plain(option[h]) /\ ~Forgotten(call[w])
      BY <2>2 DEF Return, Pooled, Forgotten
    <3>3. QED
      BY <2>2, <3>1, <3>2 DEF Return
  <2>3. QED
    BY <2>1, <2>2
<1>3. \A v \in Caller : v # w => call'[v] = call[v] /\ (call[v].handle # NoHandle => call[v].handle # h)
  BY <1>1 DEF RestTypeOK, HandlesAreOne
<1>4. call'[w] = NoCall
  BY <1>1 DEF RestTypeOK
<1>5. NoCall.pc = "free" /\ NoCall.handle = NoHandle
  BY DEF NoCall
<1>6. RestTypeOK'
  BY <1>1, <1>2 DEF RestTypeOK, NoCall, Steps, Asks, DatabaseGet
<1>7. h \in Handle => h \notin idle /\ h \notin lost
  BY DEF HandlesAreOne
<1>8. RequestsAreOwn'
  BY <1>1, <1>3, <1>4, <1>5 DEF RequestsAreOwn, Needed
<1>9. HandlesAreOne'
  BY <1>2, <1>3, <1>4, <1>5 DEF HandlesAreOne
<1>10. idle' \cap lost' = {} /\ \A g \in idle' : Plain(option'[g])
  BY <1>1, <1>2, <1>7
<1>11. ASSUME NEW v \in Caller
       PROVE  /\ call'[v].pc \in Busy <=> call'[v].handle # NoHandle
              /\ call'[v].pc = "taken" => Plain(option'[call'[v].handle])
              /\ call'[v].pc \in {"performing", "answered", "failed"} /\ call'[v].ask.op = "get"
                   => Plain(option'[call'[v].handle])
  BY <1>1, <1>3, <1>4, <1>5 DEF Busy, Steps
<1>12. QED
  BY <1>6, <1>8, <1>9, <1>10, <1>11

\* Every step of the client keeps the invariant.
THEOREM RestInductive == RestSpec => []RestIInv
<1>1. ASSUME RestIInv, [RestNext]_restVars PROVE RestIInv'
  <2>1. CASE UNCHANGED restVars
    BY <1>1, <2>1 DEF restVars, RestIInv, RestTypeOK, RequestsAreOwn, HandlesAreOne, Needed,
                      Method, Carries, Plain
  <2>2. CASE RestNext
    BY <1>1, <2>2, StartKeeps, TakeKeeps, PerformKeeps, PerformedKeeps, EndKeeps DEF RestNext
  <2>3. QED
    BY <1>1, <2>1, <2>2
<1>2. QED
  BY RestInitially, <1>1, PTL DEF RestSpec

\* A transfer has its caller's method, body, header list, response and credentials,
\* whatever was done before with the handle it is made over (restclient.cpp:140-165).
THEOREM RequestsStayOwn == RestSpec => []RequestsAreOwn
BY RestInductive, PTL DEF RestIInv

\* A handle is with one thread, or in the pool, or given up (restclient.cpp:38-62).
THEOREM HandlesStayOne == RestSpec => []HandlesAreOne
BY RestInductive, PTL DEF RestIInv

=============================================================================
