-------------------------------- MODULE Server --------------------------------
(***************************************************************************)
(* How the server begins and ends (include/http_server.h): run() starts    *)
(* the workers, waits for the timer queue of each, accepts connections for *)
(* them in turn, and returns when a signal has stopped them all.  What the *)
(* connections do on their workers is in HttpConnection and TimerQueue.    *)
(***************************************************************************)
EXTENDS Naturals, FiniteSets

CONSTANTS
    Concurrency,            \* workers
    MaxAccepts, MaxTime     \* bounds: connections, and half seconds

ASSUME ConcurrencyAssumption == Concurrency \in Nat \ {0}

VARIABLES
    running,    \* where run() is: "starting", "waiting", "accepting", "joining", "returned"
    turn,       \* the worker it starts or waits for
    thread,     \* of each worker: "none", "begun", "dated", "queued", "looping", "ended"
    roundrobin, \* roundrobin_index_
    accepts,    \* history: the connections made for each worker, the last without a client yet
    halves,     \* the time, in half seconds
    cached,     \* the date text of each worker: the second it tells, and when it was made
    late        \* history: by how much the last date that was sent was late
serverVars == <<running, turn, thread, roundrobin, accepts, halves, cached, late>>

Pool   == 0 .. Concurrency - 1
\* get_cached_date_str_pool_[i] is set; then timer_queue_pool_[i], which points into the
\* thread of the worker, and is left dangling when it ends.
HasDate(i)   == thread[i] \in {"dated", "queued", "looping"}
HasQueue(i)  == thread[i] \in {"queued", "looping"}

ServerInit ==
    /\ running = "starting" /\ turn = 0 /\ roundrobin = 0 /\ halves = 0 /\ late = 0
    /\ thread = [i \in Pool |-> "none"]
    /\ accepts = [i \in Pool |-> 0]
    /\ cached = [i \in Pool |-> [second |-> 0, made |-> 0]]

-----------------------------------------------------------------------------
(* The workers.                                                            *)

Moves(i, from, to) ==
    /\ thread[i] = from /\ thread' = [thread EXCEPT ![i] = to]
    /\ UNCHANGED <<running, turn, roundrobin, accepts, halves, late>>

\* update_date_str()
Dated == [second |-> halves \div 2, made |-> halves]
MakesDate(i)  == Moves(i, "begun", "dated") /\ cached' = [cached EXCEPT ![i] = Dated]
MakesQueue(i) == Moves(i, "dated", "queued") /\ UNCHANGED cached
Stopped       == running \in {"joining", "returned"}
Loops(i)      == Moves(i, "queued", "looping") /\ UNCHANGED cached
\* io_service::run() returns when it is stopped, at once if it was before.
Ends(i)       == Stopped /\ Moves(i, "looping", "ended") /\ UNCHANGED cached

Handed(i) == accepts[i] > IF i = roundrobin THEN 1 ELSE 0
\* A reply is sent with the cached date, which is made again after a second.
Replies(i) ==
    /\ thread[i] = "looping" /\ Handed(i)
    /\ LET told == IF halves - cached[i].made >= 2 THEN Dated ELSE cached[i]
       IN cached' = [cached EXCEPT ![i] = told] /\ late' = halves \div 2 - told.second
    /\ UNCHANGED <<running, turn, thread, roundrobin, accepts, halves>>

-----------------------------------------------------------------------------
(* run() and the thread that accepts.                                      *)

Last == turn = Concurrency - 1
\* std::async
StartsWorker ==
    /\ running = "starting"
    /\ thread' = [thread EXCEPT ![turn] = "begun"]
    /\ turn' = IF Last THEN 0 ELSE turn + 1
    /\ running' = IF Last THEN "waiting" ELSE running
    /\ UNCHANGED <<roundrobin, accepts, halves, cached, late>>

pick_io_service == IF roundrobin + 1 >= Concurrency THEN 0 ELSE roundrobin + 1
do_accept ==
    /\ roundrobin' = pick_io_service
    /\ accepts' = [accepts EXCEPT ![pick_io_service] = @ + 1]

GoesOn ==
    /\ IF Last THEN running' = "accepting" /\ do_accept /\ UNCHANGED turn
       ELSE turn' = turn + 1 /\ UNCHANGED <<running, roundrobin, accepts>>
    /\ UNCHANGED <<thread, halves, cached, late>>
\* A wait for the date function, which the worker sets first.
SeesQueueMutant == running = "waiting" /\ HasDate(turn) /\ GoesOn
SeesQueue       == running = "waiting" /\ HasQueue(turn) /\ GoesOn

\* A client connects, or the accept fails, and the object is left alone: the next one.
AcceptOver ==
    /\ running = "accepting"
    /\ accepts[pick_io_service] < MaxAccepts
    /\ do_accept
    /\ UNCHANGED <<running, turn, thread, halves, cached, late>>

\* SIGINT or SIGTERM: stop(), on the thread that accepts.
Signal ==
    /\ running = "accepting" /\ running' = "joining"
    /\ UNCHANGED <<turn, thread, roundrobin, accepts, halves, cached, late>>
\* The futures of the workers are waited for.
Returns ==
    /\ running = "joining" /\ \A i \in Pool : thread[i] = "ended"
    /\ running' = "returned"
    /\ UNCHANGED <<turn, thread, roundrobin, accepts, halves, cached, late>>

TimePasses ==
    /\ halves < MaxTime /\ halves' = halves + 1
    /\ UNCHANGED <<running, turn, thread, roundrobin, accepts, cached, late>>

ServerNext ==
    \/ StartsWorker \/ SeesQueue \/ AcceptOver \/ Signal \/ Returns \/ TimePasses
    \/ \E i \in Pool : MakesDate(i) \/ MakesQueue(i) \/ Loops(i) \/ Ends(i) \/ Replies(i)
ServerSpec == ServerInit /\ [][ServerNext]_serverVars

-----------------------------------------------------------------------------

ServerTypeOK ==
    /\ running \in {"starting", "waiting", "accepting", "joining", "returned"}
    /\ turn \in Pool /\ roundrobin \in Pool
    /\ thread \in [Pool -> {"none", "begun", "dated", "queued", "looping", "ended"}]
    /\ accepts \in [Pool -> Nat]
    /\ halves \in Nat /\ late \in Nat
    /\ cached \in [Pool -> [second : Nat, made : Nat]]

\* The thread that accepts hands a connection to its worker from outside
\* (http_server.h:139, 149): as long as it does, the worker that is picked has a date
\* function and a timer queue, however the threads came up, and keeps them until no
\* connection can be handed to it any more; no worker gets two connections more than
\* another; and no reply tells a date that was over a second ago.
WorkersAreReady ==
    /\ running = "accepting" => roundrobin \in Pool /\ HasDate(roundrobin) /\ HasQueue(roundrobin)
    /\ \A i, j \in Pool : accepts[i] <= accepts[j] + 1
    /\ late <= 1

\* The inductive invariant: besides, which workers have come how far when, who has had a
\* connection more than worker 0, and how old the dates are.
CameUp(i) ==
    CASE running = "starting" -> IF i < turn THEN thread[i] \notin {"none", "ended"} ELSE thread[i] = "none"
      [] running = "waiting"  -> thread[i] \notin {"none", "ended"} /\ (i < turn => HasQueue(i))
      [] running = "accepting" -> HasQueue(i)
      [] OTHER                -> HasQueue(i) \/ thread[i] = "ended"
TakesTurns(i) ==
    accepts[i] = accepts[0] + (IF 1 <= i /\ i <= roundrobin THEN 1 ELSE 0)
DateIsOf(i) == cached[i].second = cached[i].made \div 2 /\ cached[i].made <= halves
ServerIInv ==
    /\ ServerTypeOK
    /\ \A i \in Pool : CameUp(i) /\ TakesTurns(i) /\ DateIsOf(i)
    /\ late <= 1
=============================================================================
