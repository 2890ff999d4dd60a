------------------------------ MODULE RedisPool ------------------------------
(***************************************************************************)
(* Worker threads that share a pool of Redis connections                   *)
(* (src/redis3m/src/simple_pool.cpp, connection.cpp), the blocking client  *)
(* below it (src/redis3m/hiredis/hiredis.c) and the two users of it, the   *)
(* sessions of src/utils.cpp.                                              *)
(*                                                                         *)
(* A connection has no lock and a reply no name: that a worker reads its   *)
(* own reply depends on one worker holding a connection at a time, and on  *)
(* a connection being put back with nothing left over on the way.          *)
(*                                                                         *)
(* Where the read and the master pool differ, the servers replicate (see   *)
(* Accounts); here is one pool and its server.                             *)
(***************************************************************************)
EXTENDS RedisReader, FiniteSets

CONSTANTS
    Worker,     \* the threads that run handlers
    Ids,        \* the session ids that randomStr() draws
    Contents,   \* what is stored in sessions
    Faults,     \* the error replies of the server
    Portions,     \* how many bytes a write or a read may pass before the rest
    MaxRuns,    \* bound: commands of a behaviour
    MaxCrashes  \* bound: crashes of the server

\* An error reply is a line.
ASSUME PoolAssumption ==
    /\ IsFiniteSet(Worker)
    /\ Ids \subseteq Seq(Byte) /\ Contents \subseteq Seq(Byte) \ {<<>>}
    /\ Faults \subseteq Seq(Byte) /\ \A fault \in Faults : CR \notin {fault[i] : i \in DOMAIN fault}
    /\ MaxRuns \in Nat /\ MaxCrashes \in Nat

\* As many connections exist as workers once held one, as each takes an idle one first.
Conn == 1 .. Cardinality(Worker)

VARIABLES
    up,         \* is the Redis server running
    store,      \* the sessions it has
    conn,       \* the connection objects with what is on their way
    pool,       \* simple_pool::connections
    worker,     \* what each thread is doing
    said,       \* what the server replied to the command of each thread, if it did
    runs, crashes

redisVars == <<up, store, conn, pool, worker, said, runs, crashes>>

NoConn   == [open |-> FALSE, alive |-> FALSE, err |-> FALSE, obuf |-> <<>>, sent |-> <<>>,
             wire |-> <<>>, reader |-> NewReader]
NewConn  == [NoConn EXCEPT !.open = TRUE, !.alive = TRUE]
Free     == [pc |-> "free", conn |-> 0, id |-> <<>>, content |-> <<>>, result |-> <<>>]

RedisInit ==
    /\ up = TRUE
    /\ store = <<>>
    /\ conn = [c \in Conn |-> NoConn]
    /\ pool = {}
    /\ worker = [w \in Worker |-> Free]
    /\ said = [w \in Worker |-> <<>>]
    /\ runs = 0
    /\ crashes = 0

\* SetSession() is for some content, GetSession() not.
GET  == <<71, 69, 84>>
SET  == <<83, 69, 84>>
SESS == <<83, 69, 83, 83>>
Command(job) == IF job.content = <<>> THEN <<GET, SESS \o job.id>>
                ELSE <<SET, SESS \o job.id, job.content>>

-----------------------------------------------------------------------------
(* The connection.                                                         *)

\* The string that reply::str() has of a reply without elements.
TextOf(object) == IF object.type \in {"error", "string", "status"} THEN object.value ELSE <<>>

\* What becomes of get_reply() after a look at the reader: transport_failure is thrown
\* if it gave up, slave_read_only if the server is a replica, and the reply is returned
\* if there is one.
READONLY == <<82, 69, 65, 68, 79, 78, 76, 89>>
Outcome(read, otherwise) ==
    LET object == read.reply[1][1]
        refused == object.type = "error" /\ BeginsWith(object.value, READONLY)
    IN IF read.reader.err THEN [pc |-> "thrown", result |-> <<>>]
       ELSE IF read.reply = <<>> THEN [pc |-> otherwise, result |-> <<>>]
       ELSE IF refused THEN [pc |-> "thrown", result |-> <<>>]
       ELSE [pc |-> "done", result |-> TextOf(object)]

Proceeds(w, outcome) ==
    worker' = [worker EXCEPT ![w].pc = outcome.pc, ![w].result = outcome.result]

\* redisGetReply() fails, and get_reply() throws transport_failure.
Breaks(w, c) ==
    /\ Proceeds(w, [pc |-> "thrown", result |-> <<>>])
    /\ conn' = [conn EXCEPT ![c].err = TRUE]

\* connection::append() of the command, and redisGetReply() up to its first look at
\* the reader, which may have a reply of before.
RunWith(w, c, job, before, read, out) ==
    /\ conn' = [conn EXCEPT ![c] = [before EXCEPT !.obuf = @ \o Format(Command(job)),
                                       !.reader = read.reader, !.err = @ \/ read.reader.err]]
    /\ worker' = [worker EXCEPT ![w] = [job EXCEPT !.pc = out.pc, !.conn = c,
                                                   !.result = out.result]]
RunAfter(w, c, job, before, read) == RunWith(w, c, job, before, read, Outcome(read, "writing"))
Run(w, c, job, before) == RunAfter(w, c, job, before, GetReply(before.reader))

\* simple_pool::get(): an idle connection, which the mutant leaves in the pool.
TakenMutant(c) == pool
Taken(c)       == pool \ {c}

\* A handler uses a session: a new one with a content, or one whose id a cookie has.
Job(i, x) == [Free EXCEPT !.id = i, !.content = x]
Jobs      == {Job(i, x) : i \in Ids, x \in Contents \cup {<<>>}}
Get(w) ==
    /\ worker[w].pc = "free"
    /\ runs < MaxRuns
    /\ runs' = runs + 1
    /\ \E job \in Jobs :
          \/ \E c \in pool : Run(w, c, job, conn[c]) /\ pool' = Taken(c)
          \/ /\ pool = {} /\ up
             /\ LET c == CHOOSE c \in Conn : ~conn[c].open
                IN Run(w, c, job, NewConn)
             /\ UNCHANGED pool
    /\ UNCHANGED <<up, store, said, crashes>>

\* The constructor of connection throws unable_to_connect.
ConnectFails(w) ==
    /\ worker[w].pc = "free"
    /\ pool = {} /\ ~up
    /\ runs < MaxRuns
    /\ runs' = runs + 1
    /\ UNCHANGED <<up, store, conn, pool, worker, said, crashes>>

\* How much of a text the socket takes or gives: all, or a piece at its beginning.
Amounts(text, whole) ==
    {n \in {Len(text)} \cup (IF whole THEN Portions ELSE {}) : n \in 1 .. Len(text)}

\* redisBufferWrite(): a part of the output, or all. What is written to a connection
\* whose server is gone is lost, if the write does not fail.
BufferWrite(w) ==
    LET c == worker[w].conn
    IN /\ worker[w].pc = "writing"
       /\ \E n \in Amounts(conn[c].obuf, conn[c].sent = <<>>) :
             /\ conn' = [conn EXCEPT ![c].obuf = Drop(@, n),
                            ![c].sent = IF conn[c].alive THEN @ \o SubSeq(conn[c].obuf, 1, n) ELSE @]
             /\ worker' = [worker EXCEPT ![w].pc = IF n = Len(conn[c].obuf) THEN "reading" ELSE @]
       /\ UNCHANGED <<up, store, pool, said, runs, crashes>>

WriteFails(w) ==
    LET c == worker[w].conn
    IN /\ worker[w].pc = "writing"
       /\ ~conn[c].alive
       /\ Breaks(w, c)
       /\ UNCHANGED <<up, store, pool, said, runs, crashes>>

\* redisBufferRead() of some bytes, and redisGetReplyFromReader().
BufferReadOf(w, c, n, read) ==
    /\ conn' = [conn EXCEPT ![c].wire = Drop(@, n), ![c].reader = read.reader,
                           ![c].err = @ \/ read.reader.err]
    /\ Proceeds(w, Outcome(read, "reading"))
BufferRead(w) ==
    LET c == worker[w].conn
    IN /\ worker[w].pc = "reading"
       /\ \E n \in Amounts(conn[c].wire, conn[c].reader.stack = <<>>) :
             BufferReadOf(w, c, n, GetReply(Feed(conn[c].reader, SubSeq(conn[c].wire, 1, n))))
       /\ UNCHANGED <<up, store, pool, said, runs, crashes>>

\* The end of the stream, or a reset, which what has arrived may be lost to.
ReadFails(w) ==
    LET c == worker[w].conn
    IN /\ worker[w].pc = "reading"
       /\ ~conn[c].alive
       /\ Breaks(w, c)
       /\ UNCHANGED <<up, store, pool, said, runs, crashes>>

\* simple_pool::put(), and the session is given to the handler.
Put(w) ==
    LET c == worker[w].conn
    IN /\ worker[w].pc = "done"
       /\ pool' = IF conn[c].err THEN pool ELSE pool \cup {c}
       /\ conn' = IF conn[c].err THEN [conn EXCEPT ![c] = NoConn] ELSE conn
       /\ worker' = [worker EXCEPT ![w] = Free]
       /\ said' = [said EXCEPT ![w] = <<>>]
       /\ UNCHANGED <<up, store, runs, crashes>>

\* The exception leaves the session's function: put() is not called, and the last
\* pointer to the connection goes with it.
Throw(w) ==
    /\ worker[w].pc = "thrown"
    /\ conn' = [conn EXCEPT ![worker[w].conn] = NoConn]
    /\ worker' = [worker EXCEPT ![w] = Free]
    /\ said' = [said EXCEPT ![w] = <<>>]
    /\ UNCHANGED <<up, store, pool, runs, crashes>>

-----------------------------------------------------------------------------
(* The server, which takes one command after the other from a connection.  *)

OK          == <<79, 75>>
NilReply    == <<Dollar>> \o Written(-1) \o NewLine
StatusReply == <<Plus>> \o OK \o NewLine
ErrorReply(fault) == <<Minus>> \o fault \o NewLine

Serve(c) ==
    \E job \in Jobs :
    LET args == Command(job)
        key  == args[2]
        asks == {w \in Worker : worker[w].pc # "free" /\ worker[w].conn = c
                                  /\ Command(worker[w]) = args}
        Answers(reply, text) ==
            /\ conn' = [conn EXCEPT ![c].wire = @ \o reply,
                                    ![c].sent = Drop(@, Len(Format(args)))]
            /\ said' = [w \in Worker |-> IF w \in asks THEN <<text>> ELSE said[w]]
    IN /\ up /\ conn[c].alive
       /\ BeginsWith(conn[c].sent, Format(args))
       /\ \/ \E fault \in Faults : Answers(ErrorReply(fault), fault) /\ UNCHANGED store
          \/ /\ args[1] = SET
             /\ Answers(StatusReply, OK)
             /\ store' = [k \in DOMAIN store \cup {key} |-> IF k = key THEN args[3] ELSE store[k]]
          \/ /\ args[1] = GET
             /\ IF key \in DOMAIN store THEN Answers(BulkOf(store[key]), store[key])
                ELSE Answers(NilReply, <<>>)
             /\ UNCHANGED store
       /\ UNCHANGED <<up, pool, worker, runs, crashes>>

\* What was on its way to the server is lost; a restart may find the sessions or not.
Crash ==
    /\ up
    /\ crashes < MaxCrashes
    /\ crashes' = crashes + 1
    /\ up' = FALSE
    /\ conn' = [c \in Conn |-> [conn[c] EXCEPT !.alive = FALSE, !.sent = <<>>]]
    /\ UNCHANGED <<store, pool, worker, said, runs>>

Restart ==
    /\ ~up
    /\ up' = TRUE
    /\ store' \in {store, <<>>}
    /\ UNCHANGED <<conn, pool, worker, said, runs, crashes>>

RedisNext ==
    \/ \E w \in Worker : \/ Get(w) \/ ConnectFails(w) \/ BufferWrite(w) \/ WriteFails(w)
                         \/ BufferRead(w) \/ ReadFails(w) \/ Put(w) \/ Throw(w)
    \/ \E c \in Conn : Serve(c)
    \/ Crash
    \/ Restart

RedisSpec == RedisInit /\ [][RedisNext]_redisVars

-----------------------------------------------------------------------------

\* The reply that a session's function works with is the one that the server gave to
\* the command of its own thread, in whatever pieces it came and whoever used the
\* connection before (utils.cpp:80, 95; connection.cpp:43; hiredis.c:870).
OwnReplies ==
    \A w \in Worker : worker[w].pc = "done" => said[w] = <<worker[w].result>>

\* An idle connection owes nothing: no thread holds it, its reader is between two replies
\* and at the end of its buffer, and nothing is on the way in either direction, so that the
\* next thread cannot find the end of a reply of before (simple_pool.cpp:36, read.c:477).
PooledAreClean ==
    \A c \in pool :
        /\ conn[c].open /\ ~conn[c].err
        /\ \A w \in Worker : worker[w].pc # "free" => worker[w].conn # c
        /\ conn[c].obuf = <<>> /\ conn[c].sent = <<>> /\ conn[c].wire = <<>>
        /\ conn[c].reader.stack = <<>> /\ conn[c].reader.pos = Len(conn[c].reader.buf)
=============================================================================
