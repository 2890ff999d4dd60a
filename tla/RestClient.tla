----------------------------- MODULE RestClient ------------------------------
(***************************************************************************)
(* The REST client (src/restclient/restclient.cpp): every query to the     *)
(* database and to the login providers is a transfer of libcurl over a     *)
(* handle, and handles of finished GETs are kept in a pool for the next    *)
(* caller of whatever kind.                                                *)
(*                                                                         *)
(* A handle keeps its options: what a call does not set, the transfer      *)
(* takes over from the calls before, with pointers to texts and lists that *)
(* are gone.  A pointer is here the number of the call it points into.     *)
(***************************************************************************)
EXTENDS Naturals, FiniteSets

CONSTANTS
    Caller,     \* the threads that call: of handlers, and the one of the online counter
    Handle,     \* the handles that the process has room for
    NoHandle,
    MaxCalls    \* bound: calls of a behaviour

ASSUME HandleAssumption == NoHandle \notin Handle

VARIABLES
    idle,       \* connections, the set of pooled handles
    lost,       \* handles that nothing points to any more
    option,     \* the options each handle has
    call,       \* what each thread is doing
    calls       \* the number of calls so far

restVars == <<idle, lost, option, call, calls>>

Methods == {"GET", "POST", "PUT", "DELETE"}
\* method, and where response, body, header list and credentials come from; 0 for nowhere.
Options == [method : Methods, data : Nat, body : Nat, list : Nat, auth : BOOLEAN]
NewOptions == [method |-> "GET", data |-> 0, body |-> 0, list |-> 0, auth |-> FALSE]

\* The calls of the program: credentials go to the database, which is not over https, and
\* put() and del() have no other use.
Asks == {a \in [op : {"get", "post", "put", "del"}, secure : BOOLEAN, auth : BOOLEAN] :
             a.auth # a.secure /\ (a.op \in {"put", "del"} => a.auth)}
DatabaseGet == [op |-> "get", secure |-> FALSE, auth |-> TRUE]

Steps == {"free", "started", "taken", "performing", "answered", "failed"}
NoCall == [pc |-> "free", ask |-> DatabaseGet, n |-> 0, handle |-> NoHandle]

Held   == {call[w].handle : w \in Caller} \ {NoHandle}
Unused == Handle \ (idle \cup lost \cup Held)

RestInit ==
    /\ idle = {}
    /\ lost = {}
    /\ option = [h \in Handle |-> NewOptions]
    /\ call = [w \in Caller |-> NoCall]
    /\ calls = 0

-----------------------------------------------------------------------------

\* put() begins with a handle of its own, which it forgets for one of the pool.
Start(w) ==
    /\ call[w].pc = "free"
    /\ calls < MaxCalls
    /\ calls' = calls + 1
    /\ \E ask \in Asks :
          /\ call' = [call EXCEPT ![w] = [pc |-> "started", ask |-> ask, n |-> calls + 1,
                                          handle |-> NoHandle]]
          /\ IF ask.op = "put" /\ Unused # {} THEN \E h \in Unused : lost' = lost \cup {h}
             ELSE UNCHANGED lost
    /\ UNCHANGED <<idle, option>>

\* GetCurlHandle(): one of the pool, or a new one with its defaults. The mutant leaves
\* it in the pool.
AfterTakingMutant(h) == idle
AfterTaking(h)       == idle \ {h}

Takes(w, h) == call' = [call EXCEPT ![w].pc = "taken", ![w].handle = h]

TakePooled(w) ==
    /\ call[w].pc = "started"
    /\ \E h \in idle : Takes(w, h) /\ idle' = AfterTaking(h)
    /\ UNCHANGED <<lost, option, calls>>

TakeNew(w) ==
    /\ call[w].pc = "started"
    /\ idle = {}
    /\ \E h \in Unused : Takes(w, h) /\ option' = [option EXCEPT ![h] = NewOptions]
    /\ UNCHANGED <<idle, lost, calls>>

\* curl_easy_init() has no memory: the call returns a response with the code 0.
TakeFails(w) ==
    /\ call[w].pc = "started"
    /\ idle = {} /\ Unused = {}
    /\ call' = [call EXCEPT ![w] = NoCall]
    /\ UNCHANGED <<idle, lost, option, calls>>

\* The curl_easy_setopt() calls of each function.
GetOptions(o, c)  == [o EXCEPT !.data = c.n, !.auth = c.ask.auth]
PostOptions(o, c) == [o EXCEPT !.method = "POST", !.body = c.n, !.data = c.n, !.list = c.n,
                               !.auth = c.ask.auth]
PutOptions(o, c)  == [o EXCEPT !.method = "PUT", !.body = c.n, !.data = c.n, !.list = c.n,
                               !.auth = TRUE]
DelOptions(o, c)  == [o EXCEPT !.method = "DELETE", !.data = c.n, !.auth = TRUE]

SetOptions(o, c) ==
    CASE c.ask.op = "get"  -> GetOptions(o, c)
      [] c.ask.op = "post" -> PostOptions(o, c)
      [] c.ask.op = "put"  -> PutOptions(o, c)
      [] c.ask.op = "del"  -> DelOptions(o, c)

Perform(w) ==
    LET c == call[w]
    IN /\ c.pc = "taken"
       /\ option' = [option EXCEPT ![c.handle] = SetOptions(@, c)]
       /\ call' = [call EXCEPT ![w].pc = "performing"]
       /\ UNCHANGED <<idle, lost, calls>>

\* curl_easy_perform() returns, with an answer or without.
Performed(w) ==
    /\ call[w].pc = "performing"
    /\ \E pc \in {"answered", "failed"} : call' = [call EXCEPT ![w].pc = pc]
    /\ UNCHANGED <<idle, lost, option, calls>>

\* What each function does with its handle: get() pools it unless the url is one of
\* https; the others free it after an answer and forget it after a failure. A mutant
\* pools after any answer.
PooledMutant(c)   == c.pc = "answered" /\ ~c.ask.secure
Pooled(c)         == c.ask.op = "get" /\ ~c.ask.secure
Forgotten(c)      == c.ask.op # "get" /\ c.pc = "failed"

Return(w) ==
    LET c == call[w]
    IN /\ c.pc \in {"answered", "failed"}
       /\ idle' = IF Pooled(c) THEN idle \cup {c.handle} ELSE idle
       /\ lost' = IF Forgotten(c) THEN lost \cup {c.handle} ELSE lost
       /\ call' = [call EXCEPT ![w] = NoCall]
       /\ UNCHANGED <<option, calls>>

RestNext ==
    \E w \in Caller : \/ Start(w) \/ TakePooled(w) \/ TakeNew(w) \/ TakeFails(w)
                      \/ Perform(w) \/ Performed(w) \/ Return(w)

RestSpec == RestInit /\ [][RestNext]_restVars

-----------------------------------------------------------------------------
(* Properties.                                                             *)

RestTypeOK ==
    /\ idle \subseteq Handle
    /\ lost \subseteq Handle
    /\ option \in [Handle -> Options]
    /\ call \in [Caller -> [pc : Steps, ask : Asks, n : Nat, handle : Handle \cup {NoHandle}]]
    /\ calls \in Nat

Carries(op) == op \in {"post", "put"}
Method(op)  == CASE op = "get" -> "GET" [] op = "post" -> "POST"
                 [] op = "put" -> "PUT" [] op = "del" -> "DELETE"

\* The options that a call needs: its own in everything.
Needed(c) == [method |-> Method(c.ask.op), data |-> c.n,
              body |-> IF Carries(c.ask.op) THEN c.n ELSE 0,
              list |-> IF Carries(c.ask.op) THEN c.n ELSE 0, auth |-> c.ask.auth]

\* A transfer is the one its caller asked for: its method, its body and header list, its
\* response and its credentials, and nothing of the calls that used the handle before,
\* though no call sets every option (restclient.cpp:140-165, 211-244, 293-327, 367-388).
RequestsAreOwn ==
    \A w \in Caller : call[w].pc = "performing" => option[call[w].handle] = Needed(call[w])

\* No two threads have the same handle, and none has one that is pooled or was given up:
\* libcurl allows one transfer of a handle at a time (restclient.cpp:38-62).
HandlesAreOne ==
    \A w \in Caller : call[w].handle # NoHandle =>
        /\ call[w].handle \notin idle \cup lost
        /\ \A v \in Caller : v # w => call[v].handle # call[w].handle

\* The inductive invariant: besides, a handle of the pool has only what get() sets, and so
\* has one that is taken, or was used by get().
Plain(o) == o.method = "GET" /\ o.body = 0 /\ o.list = 0
Busy == Steps \ {"free", "started"}
RestIInv ==
    /\ RestTypeOK
    /\ RequestsAreOwn
    /\ HandlesAreOne
    /\ idle \cap lost = {}
    /\ \A h \in idle : Plain(option[h])
    /\ \A w \in Caller :
          /\ call[w].pc \in Busy <=> call[w].handle # NoHandle
          /\ call[w].pc = "taken" => Plain(option[call[w].handle])
          /\ call[w].pc \in {"performing", "answered", "failed"} /\ call[w].ask.op = "get"
               => Plain(option[call[w].handle])
=============================================================================
