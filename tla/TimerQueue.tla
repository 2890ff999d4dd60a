----------------------------- MODULE TimerQueue ------------------------------
(***************************************************************************)
(* The timer queue of one worker (include/dumb_timer_queue.h) and its two  *)
(* users: the worker, whose connections cancel and renew their deadlines   *)
(* and which scans the queue every second, and the acceptor thread, which  *)
(* calls start() of a new connection and so adds to the queue of the       *)
(* worker the connection was assigned to (include/http_server.h:149).      *)
(*                                                                         *)
(* The queue has no lock.  The two threads are interleaved between the     *)
(* statements of add() and process(): what their data race does to the     *)
(* inside of the deque is left out.                                        *)
(***************************************************************************)
EXTENDS Naturals, Sequences, FiniteSets

CONSTANTS
    Conns,     \* the connection objects
    NoFn,      \* the empty std::function of a cancelled entry
    Tick,      \* tick, in units of the scans
    W,         \* step_ and the index in cancel() are integers modulo W
    First,     \* step_ when the first connection arrives
    MaxAdds,   \* bound on the calls of add()
    Overlap    \* may start() run while the worker is inside the queue?

ASSUME ConnsAssumption == NoFn \notin Conns
\* Fewer than W calls of add() are made: a key is never so old that its number
\* is in use again.
ASSUME NumbersAssumption ==
    /\ Tick \in Nat \ {0} /\ MaxAdds \in Nat
    /\ W \in Nat /\ MaxAdds < W /\ First \in 0 .. W - 1
    /\ Overlap \in BOOLEAN

VARIABLES
    dq,      \* dq_, with the age of every entry in place of its time
    step,    \* step_
    key,     \* timer_cancel_key_ of every connection: is first set, and second
    state,   \* of every connection object
    worker,  \* where the worker is: "idle", "adding", "scanning", "popped"
    renewed, \* the connection whose deadline the worker is adding
    acc,     \* the connection the acceptor is starting, or NoFn
    adds     \* number of calls of add()

vars == <<dq, step, key, state, worker, renewed, acc, adds>>

\* What becomes of a connection object: it is being started, its socket is
\* open, was closed by the deadline, or was closed by one of its handlers.
States == {"gone", "starting", "open", "expired", "closed"}

Entries == [fn : Conns \cup {NoFn}, age : 0 .. Tick]

-----------------------------------------------------------------------------
(* The operations of the queue.                                            *)

\* An index that takes a key of the past for the first entry.
IndexMutant(second) == IF second >= step THEN second - step ELSE 0

\* The index a key stands for, as the unsigned difference to step_.
Index(second) == (second + W - step) % W

\* cancel(): the queue after it.
Cancelled(k) ==
    IF k.first /\ Index(k.second) < Len(dq)
      THEN [dq EXCEPT ![Index(k.second) + 1].fn = NoFn]
      ELSE dq

\* A key without a queue, as it is at first and after cancel(): its number is
\* never looked at.
NullKey == [first |-> FALSE, second |-> 0]

\* add(): the entry.
Push(q, c) == Append(q, [fn |-> c, age |-> 0])

\* A key one too large.
KeyMutant == [first |-> TRUE, second |-> (step + Len(dq)) % W]

\* The key of the entry just added.
NewKey == [first |-> TRUE, second |-> (step + Len(dq) + W - 1) % W]

-----------------------------------------------------------------------------
Init ==
    /\ dq = <<>> /\ step = First
    /\ key = [c \in Conns |-> NullKey]
    /\ state = [c \in Conns |-> "gone"]
    /\ worker = "idle" /\ renewed = NoFn /\ acc = NoFn /\ adds = 0

-----------------------------------------------------------------------------
(* The acceptor: start() of a new connection.                              *)

StartPush(c) ==
    /\ acc = NoFn /\ (Overlap \/ worker = "idle")
    /\ state[c] = "gone" /\ adds < MaxAdds
    /\ dq' = Push(dq, c)
    /\ state' = [state EXCEPT ![c] = "starting"]
    /\ key' = [key EXCEPT ![c] = NullKey]
    /\ acc' = c
    /\ adds' = adds + 1
    /\ UNCHANGED <<step, worker, renewed>>

\* add() returns, and the first read is issued.
StartKey ==
    /\ acc # NoFn
    /\ key' = [key EXCEPT ![acc] = NewKey]
    /\ state' = [state EXCEPT ![acc] = IF @ = "starting" THEN "open" ELSE @]
    /\ acc' = NoFn
    /\ UNCHANGED <<dq, step, worker, renewed, adds>>

-----------------------------------------------------------------------------
(* The worker: the handlers of its connections.                            *)

\* The worker may enter the queue.
Enters == worker = "idle" /\ (Overlap \/ acc = NoFn)

\* A connection whose handlers can run.
Live(c) == state[c] \in {"open", "expired"} /\ acc # c

\* start_deadline(): cancel() and add().
Renew(c) ==
    /\ Enters /\ state[c] = "open" /\ acc # c /\ adds < MaxAdds
    /\ dq' = Push(Cancelled(key[c]), c)
    /\ key' = [key EXCEPT ![c] = NullKey]
    /\ worker' = "adding" /\ renewed' = c
    /\ adds' = adds + 1
    /\ UNCHANGED <<step, state, acc>>

RenewKey ==
    /\ worker = "adding"
    /\ key' = [key EXCEPT ![renewed] = NewKey]
    /\ worker' = "idle" /\ renewed' = NoFn
    /\ UNCHANGED <<dq, step, state, acc, adds>>

\* cancel_deadline_timer() when a request is complete.
Cancel(c) ==
    /\ Enters /\ Live(c)
    /\ dq' = Cancelled(key[c])
    /\ key' = [key EXCEPT ![c] = NullKey]
    /\ UNCHANGED <<step, state, worker, renewed, acc, adds>>

\* A read handler that only closes the socket.
CloseMutant(c) ==
    /\ Enters /\ Live(c)
    /\ state' = [state EXCEPT ![c] = "closed"]
    /\ UNCHANGED <<dq, key, step, worker, renewed, acc, adds>>

\* The read handler that stops reading: cancel_deadline_timer(), close().
Close(c) ==
    /\ Enters /\ Live(c)
    /\ dq' = Cancelled(key[c])
    /\ key' = [key EXCEPT ![c] = NullKey]
    /\ state' = [state EXCEPT ![c] = "closed"]
    /\ UNCHANGED <<step, worker, renewed, acc, adds>>

\* check_destroy() deletes the object: its destructor cancels once more.
Delete(c) ==
    /\ Enters /\ state[c] = "closed"
    /\ dq' = Cancelled(key[c])
    /\ key' = [key EXCEPT ![c] = NullKey]
    /\ state' = [state EXCEPT ![c] = "gone"]
    /\ UNCHANGED <<step, worker, renewed, acc, adds>>

-----------------------------------------------------------------------------
(* The worker: process(), once every second.                               *)

FrontIsDue == dq # <<>> /\ Head(dq).age = Tick

ScanBegins ==
    /\ Enters
    /\ worker' = "scanning"
    /\ UNCHANGED <<dq, step, key, state, renewed, acc, adds>>

\* A scan that leaves the entries after the first to the next second.
ScanEndsMutant ==
    /\ worker = "scanning"
    /\ worker' = "idle"
    /\ UNCHANGED <<dq, step, key, state, renewed, acc, adds>>

\* The oldest entry is not due yet, or there is none.
ScanEnds ==
    /\ worker = "scanning"
    /\ ~FrontIsDue
    /\ worker' = "idle"
    /\ UNCHANGED <<dq, step, key, state, renewed, acc, adds>>

\* The oldest entry is due: call it, unless it was cancelled, and drop it.
\* The callback closes the socket of its connection if that is open.
ScanPops ==
    /\ worker = "scanning"
    /\ FrontIsDue
    /\ LET c == Head(dq).fn IN
         state' = IF c # NoFn /\ state[c] \in {"starting", "open"}
                    THEN [state EXCEPT ![c] = "expired"]
                    ELSE state
    /\ dq' = Tail(dq)
    /\ worker' = "popped"
    /\ UNCHANGED <<step, key, renewed, acc, adds>>

\* A step_ that is wider than the number in a key.
ScanCountsMutantWide ==
    /\ worker = "popped"
    /\ step' = step + 1
    /\ worker' = "scanning"
    /\ UNCHANGED <<dq, key, state, renewed, acc, adds>>

\* A scan that drops an entry without counting it.
ScanCountsMutant ==
    /\ worker = "popped"
    /\ worker' = "scanning"
    /\ UNCHANGED <<dq, step, key, state, renewed, acc, adds>>

\* step_++
ScanCounts ==
    /\ worker = "popped"
    /\ step' = (step + 1) % W
    /\ worker' = "scanning"
    /\ UNCHANGED <<dq, key, state, renewed, acc, adds>>

\* Time passes, but not during a scan, which is short against a second.
Advance ==
    /\ worker \notin {"scanning", "popped"}
    /\ dq' = [i \in 1 .. Len(dq) |->
                 [dq[i] EXCEPT !.age = IF @ < Tick THEN @ + 1 ELSE @]]
    /\ UNCHANGED <<step, key, state, worker, renewed, acc, adds>>

-----------------------------------------------------------------------------
Acceptor == StartKey \/ \E c \in Conns : StartPush(c)
Handlers ==
    \/ RenewKey
    \/ \E c \in Conns : Renew(c) \/ Cancel(c) \/ Close(c) \/ Delete(c)
Scan == ScanBegins \/ ScanEnds \/ ScanPops \/ ScanCounts

Next == Acceptor \/ Handlers \/ Scan \/ Advance

Spec == Init /\ [][Next]_vars

\* Threads that are inside the queue leave it, time passes, and the tick of the
\* worker's deadline_timer (http_server.h:83) comes back.  A scan is always over
\* before the next second, so it cannot keep time from passing.
Fairness ==
    /\ WF_vars(StartKey) /\ WF_vars(RenewKey)
    /\ WF_vars(ScanEnds \/ ScanPops \/ ScanCounts) /\ SF_vars(ScanBegins)
    /\ SF_vars(Advance)
FairSpec == Spec /\ Fairness
-----------------------------------------------------------------------------
(* Properties.                                                             *)

Keys == [first : BOOLEAN, second : 0 .. W - 1]

\* Every variable has its type.
TypeOK ==
    /\ dq \in Seq(Entries) /\ step \in 0 .. W - 1
    /\ key \in [Conns -> Keys] /\ state \in [Conns -> States]
    /\ worker \in {"idle", "adding", "scanning", "popped"}
    /\ renewed \in Conns \cup {NoFn} /\ acc \in Conns \cup {NoFn}
    /\ adds \in 0 .. MaxAdds

\* The deadlines of a connection that are in the queue and not cancelled.
Pending(c) == {i \in 1 .. Len(dq) : dq[i].fn = c}

\* cancel() finds an entry by subtracting step_ from the number in the key
\* (dumb_timer_queue.h:28).  Whenever a connection can cancel, its key leads to
\* its own pending deadline, or out of the queue if it has none: never to the
\* deadline of another connection.
KeyFindsOwn ==
    \A c \in Conns :
        (worker = "idle" /\ acc # c) =>
            Pending(c) = IF key[c].first /\ Index(key[c].second) < Len(dq)
                           THEN {Index(key[c].second) + 1}
                           ELSE {}

\* An entry captures the `this` of its connection (http_connection.h:516): as
\* long as it can be called, the object exists and its socket is open.
CallbacksAreSafe ==
    \A c \in Conns : Pending(c) # {} => state[c] \in {"starting", "open"}

\* "timer queue for fixed tick value" (dumb_timer_queue.h:15): a deadline leaves
\* the queue when it is due, or because its own connection cancels it.
OnlyOwnerDisarms ==
    [][\A c \in Conns :
          (Pending(c) # {} /\ Pending(c)' = {}) =>
              state'[c] = "expired" \/ ~key'[c].first]_vars

\* The inductive invariant, if the threads take turns: where an entry stands is its number
\* less that of the one in front, which is ahead of step_ in the middle of process(); a
\* key that has outlived its entry stands behind the queue, as fewer than W were added.
Turns ==
    /\ acc # NoFn => worker = "idle"
    /\ worker = "adding" <=> renewed # NoFn
    /\ renewed # NoFn => state[renewed] = "open"
    /\ Len(dq) + (IF worker = "popped" THEN 1 ELSE 0) <= adds
Front == IF worker = "popped" THEN (step + 1) % W ELSE step
Place(second) == (second + W - Front) % W
Keyed(c) ==
    IF c \in {acc, renewed} THEN Pending(c) = {Len(dq)}
    ELSE IF key[c].first /\ Place(key[c].second) < Len(dq)
      THEN Pending(c) = {Place(key[c].second) + 1}
      ELSE /\ Pending(c) = {}
           /\ key[c].first => W - Place(key[c].second) <= adds - Len(dq)
IInv ==
    /\ TypeOK /\ Turns
    /\ \A c \in Conns : Keyed(c) /\ (state[c] = "starting" <=> acc = c)
    /\ CallbacksAreSafe

\* A connection that stays open and does nothing about a deadline that is due
\* is shut.
Overdue(c) == \E i \in Pending(c) : dq[i].age = Tick
OverdueIsShut == \A c \in Conns : Overdue(c) ~> ~Overdue(c)

\* The queue implements one deadline per connection, if the threads take turns.
ConnBar ==
    [c \in Conns |-> IF state[c] = "gone" THEN "absent"
                     ELSE IF state[c] \in {"starting", "open"} THEN "open" ELSE "shut"]
ArmedBar ==
    [c \in Conns |->
        IF Pending(c) = {} THEN 0
                           ELSE 1 + dq[CHOOSE i \in Pending(c) : TRUE].age]
Abstract == INSTANCE Deadlines WITH conn <- ConnBar, armed <- ArmedBar
\* Every step of the queue is a step of the abstract deadlines, or none.
ImplementsDeadlines == Abstract!Spec
=============================================================================
