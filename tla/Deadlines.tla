------------------------------ MODULE Deadlines ------------------------------
(***************************************************************************)
(* What connections rely on the timer queue of their worker for: every     *)
(* connection has at most one deadline, which it alone renews and cancels, *)
(* and which shuts the connection once it is Tick old.                     *)
(***************************************************************************)
EXTENDS Naturals

CONSTANTS
    Conns,  \* connections of one worker
    Tick    \* age at which a deadline is due

VARIABLES
    conn,   \* [Conns -> {"absent", "open", "shut"}]
    armed   \* [Conns -> Nat]: 0, or one more than the age of the deadline

vars == <<conn, armed>>

Off == 0

Init ==
    /\ conn = [c \in Conns |-> "absent"]
    /\ armed = [c \in Conns |-> Off]

\* A connection is accepted, and its first deadline runs.
Open(c) ==
    /\ conn[c] = "absent"
    /\ conn' = [conn EXCEPT ![c] = "open"]
    /\ armed' = [armed EXCEPT ![c] = 1]

\* It starts a new deadline instead of the one it has.
Renew(c) ==
    /\ conn[c] = "open"
    /\ armed' = [armed EXCEPT ![c] = 1]
    /\ UNCHANGED conn

Cancel(c) ==
    /\ armed' = [armed EXCEPT ![c] = Off]
    /\ UNCHANGED conn

\* Its deadline is due.
Fire(c) ==
    /\ armed[c] = Tick + 1
    /\ armed' = [armed EXCEPT ![c] = Off]
    /\ conn' = [conn EXCEPT ![c] = "shut"]

\* It is shut for another reason.
Shut(c) ==
    /\ conn[c] = "open"
    /\ conn' = [conn EXCEPT ![c] = "shut"]
    /\ armed' = [armed EXCEPT ![c] = Off]

\* Its object is deleted.
Free(c) ==
    /\ conn[c] = "shut" /\ armed[c] = Off
    /\ conn' = [conn EXCEPT ![c] = "absent"]
    /\ UNCHANGED armed

\* Time passes.
Age ==
    /\ armed' = [c \in Conns |-> IF armed[c] \in 1 .. Tick THEN armed[c] + 1
                                                           ELSE armed[c]]
    /\ UNCHANGED conn

Next ==
    \/ \E c \in Conns : \/ Open(c) \/ Renew(c) \/ Cancel(c)
                        \/ Fire(c) \/ Shut(c) \/ Free(c)
    \/ Age

Spec == Init /\ [][Next]_vars
=============================================================================
