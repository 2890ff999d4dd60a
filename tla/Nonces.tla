------------------------------- MODULE Nonces ---------------------------------
(***************************************************************************)
(* The nonces of requests to Twitter (src/src/oauth/liboauthcpp.cpp):      *)
(* workers that sign at one time share one generator of random numbers,    *)
(* which the first request seeds, and may seed it several times.           *)
(*                                                                         *)
(* A random number is one of a seed and of how many were drawn since.      *)
(* OAuth says what is signed, and how it is written down.                  *)
(***************************************************************************)
EXTENDS Integers, Sequences, FiniteSets

CONSTANTS
    Signers,        \* workers
    MaxSignings,    \* bound: requests to sign,
    Seconds         \* and the seconds that pass meanwhile

ASSUME SigningAssumption == IsFiniteSet(Signers) /\ MaxSignings \in Nat /\ Seconds \in Nat

VARIABLES
    clock,          \* time(), in seconds
    library,        \* Client::initialized, and the generator: its seed, the numbers drawn
    signing,        \* where each worker is, its random number, and whether it began early
    signings,       \* how many requests have begun
    nonces          \* the nonces of all of them, and whether they began early
nonceVars == <<clock, library, signing, signings, nonces>>

-----------------------------------------------------------------------------

NoSigning == [at |-> "idle", random |-> <<0, 0>>, early |-> FALSE]
NonceInit ==
    /\ clock = 10
    /\ library = [initialized |-> FALSE, seed |-> 0, drawn |-> 0]
    /\ signing = [w \in Signers |-> NoSigning] /\ signings = 0 /\ nonces = <<>>

\* Nobody has got through the seeding of the library yet.
IsNew == nonces = <<>> /\ \A w \in Signers : signing[w].at \notin {"draw", "send"}

\* A request begins; or its handler ends with an exception before it signs.
Begins(w, signs) ==
    /\ signing[w].at = "idle" /\ signings < MaxSignings
    /\ signing' = IF signs THEN [signing EXCEPT ![w] = [NoSigning EXCEPT !.at = "check", !.early = IsNew]]
                  ELSE signing
    /\ signings' = signings + 1
    /\ UNCHANGED <<clock, library, nonces>>

SignStep(w, from, to) ==
    /\ signing[w].at = from
    /\ signing' = [signing EXCEPT ![w].at = to]
    /\ UNCHANGED <<clock, signings, nonces>>

\* Client::initialize(): whoever finds the library new seeds it.
Checks(w) == SignStep(w, "check", IF library.initialized THEN "draw" ELSE "seed") /\ UNCHANGED library
Seeds(w)  == SignStep(w, "seed", "mark") /\ library' = [library EXCEPT !.seed = clock, !.drawn = 0]
\* A library that always finds itself new.
MarksMutant(w) == SignStep(w, "mark", "draw") /\ UNCHANGED library
Marks(w)  == SignStep(w, "mark", "draw") /\ library' = [library EXCEPT !.initialized = TRUE]

\* generateNonceTimeStamp(): a random number, then the time; and from there the request
\* is its worker's own, up to where it is sent.
Draws(w) ==
    /\ signing[w].at = "draw"
    /\ signing' = [signing EXCEPT ![w].at = "send", ![w].random = <<library.seed, library.drawn>>]
    /\ library' = [library EXCEPT !.drawn = @ + 1]
    /\ UNCHANGED <<clock, signings, nonces>>

NonceOf(c) == [time |-> clock, random |-> c.random, early |-> c.early]
Stamps(w) ==
    /\ signing[w].at = "send"
    /\ nonces' = Append(nonces, NonceOf(signing[w]))
    /\ signing' = [signing EXCEPT ![w] = NoSigning]
    /\ UNCHANGED <<clock, library, signings>>

SecondPasses ==
    /\ clock < 10 + Seconds
    /\ clock' = clock + 1
    /\ UNCHANGED <<library, signing, signings, nonces>>

Signs(w)  == (\E signs \in BOOLEAN : Begins(w, signs))
             \/ Checks(w) \/ Seeds(w) \/ Marks(w) \/ Draws(w) \/ Stamps(w)
NonceNext == (\E w \in Signers : Signs(w)) \/ SecondPasses
NonceSpec == NonceInit /\ [][NonceNext]_nonceVars

-----------------------------------------------------------------------------

\* No nonce is used more often than there are requests that overlapped the very first
\* one: "the same nonce may be generated twice" (liboauthcpp.h:154) happens, because the
\* program leaves the seeding to the first request, but not later (liboauthcpp.cpp:172).
EarlyOnes == Cardinality({w \in Signers : signing[w].early})
             + Cardinality({k \in DOMAIN nonces : nonces[k].early})
Same(m, n) == m.time = n.time /\ m.random = n.random
NoncesDiffer ==
    \A k \in DOMAIN nonces : Cardinality({i \in DOMAIN nonces : Same(nonces[i], nonces[k])}) <= EarlyOnes
=============================================================================
