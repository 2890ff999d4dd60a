--------------------------- MODULE Accounts_proofs ---------------------------
(***************************************************************************)
(* What Accounts promises holds for any users, names, workers and number   *)
(* of requests, whatever calls fail and whenever the program ends: an      *)
(* account is registered once, changes only through sessions of its own    *)
(* user, changes its name once, and is signed in to under this name.       *)
(*                                                                         *)
(* A step changes the accounts in one of two ways (Evolves), and it adds   *)
(* at most one session (Grows).  Requests of other workers survive both,   *)
(* so each action has only its own request left to show (StepKeeps).       *)
(***************************************************************************)
EXTENDS Accounts, SequenceTheorems, TLAPS

USE NamesAssumption, AvatarsAssumption, NoneAssumption, BoundsAssumption

Registered(u) == Account(u) = {} /\ userDb' = userDb \cup {NewDoc(u)}
Replaced(d, e) ==
    /\ e.uid = d.uid /\ userDb' = (userDb \ {d}) \cup {e}
    /\ (e.name = d.name /\ e.changed = d.changed) \/ (~d.changed /\ e.changed)
Evolves ==
    \/ userDb' = userDb
    \/ \E u \in Users : Registered(u)
    \/ \E d \in userDb, e \in Docs : Replaced(d, e)
Grows ==
    \/ UNCHANGED <<sessions, owner>>
    \/ \E c \in Contents : /\ Account(c.uid) # {}
                           /\ sessions' = Append(sessions, c) /\ owner' = Append(owner, c.uid)
\* Calls that a request only passes through.
Precedes(from, to) ==
    \/ from \in SigningIn /\ to \in SigningIn \ {"setSession"}
    \/ from = "check" /\ to = "putName"

-----------------------------------------------------------------------------

LEMMA NewDocType == \A u \in Users : NewDoc(u) \in Docs /\ NewDoc(u).uid = u /\ ~NewDoc(u).changed
BY DEF NewDoc, Docs

LEMMA SessionType == \A d \in Docs : /\ Session(d) \in Contents /\ Session(d).uid = d.uid
                                     /\ Session(d).name = d.name
BY DEF Session, Docs, Contents

\* The accounts evolve: none is lost or doubled, and a changed name stays.
LEMMA AccountsKeep ==
    ASSUME IInv, Evolves
    PROVE  /\ userDb' \subseteq Docs /\ Unique'
           /\ \A u \in Users : Account(u) # {} => Account(u)' # {}
           /\ \A d \in Docs : StillChanged(d) => StillChanged(d)'
<1> USE DEF IInv, TypeOK
<1>1. CASE userDb' = userDb
  BY <1>1 DEF Unique, Account, StillChanged
<1>2. ASSUME NEW u \in Users, Registered(u)
      PROVE  /\ userDb' \subseteq Docs /\ Unique' /\ userDb \subseteq userDb'
  BY <1>2, NewDocType DEF Registered, Unique, Account
<1>3. ASSUME NEW d \in userDb, NEW e \in Docs, Replaced(d, e)
      PROVE  /\ userDb' \subseteq Docs /\ Unique'
             /\ \A u \in Users : Account(u) # {} => Account(u)' # {}
             /\ \A f \in Docs : StillChanged(f) => StillChanged(f)'
  <2>1. /\ userDb' = (userDb \ {d}) \cup {e} /\ e.uid = d.uid
        /\ (e.name = d.name /\ e.changed = d.changed) \/ (~d.changed /\ e.changed)
    BY <1>3 DEF Replaced
  <2>2. Unique'
    BY <2>1 DEF Unique
  <2>3. ASSUME NEW u \in Users, Account(u) # {} PROVE Account(u)' # {}
    BY <2>1, <2>3 DEF Account
  <2>4. ASSUME NEW f \in Docs, StillChanged(f) PROVE StillChanged(f)'
    BY <2>1, <2>4 DEF StillChanged
  <2>5. QED
    BY <2>1, <2>2, <2>3, <2>4
<1>4. ASSUME userDb \subseteq userDb'
      PROVE  /\ \A u \in Users : Account(u) # {} => Account(u)' # {}
             /\ \A d \in Docs : StillChanged(d) => StillChanged(d)'
  BY <1>4 DEF Account, StillChanged
<1>5. QED
  BY <1>1, <1>2, <1>3, <1>4 DEF Evolves

\* A session is only ever added, behind the ones that there are.
LEMMA SessionsKeep ==
    ASSUME IInv, Evolves, Grows
    PROVE  /\ sessions' \in Seq(Contents) /\ owner' \in Seq(Users) /\ Len(owner') = Len(sessions')
           /\ Len(sessions) <= Len(sessions') /\ SessionsOwned'
           /\ \A k \in DOMAIN sessions : /\ k \in DOMAIN sessions'
                                         /\ sessions'[k] = sessions[k] /\ owner'[k] = owner[k]
<1> USE DEF IInv, TypeOK
<1>1. CASE UNCHANGED <<sessions, owner>>
  <2>1. \A k \in DOMAIN sessions : owner[k] \in Users
    OBVIOUS
  <2>2. QED
    BY <1>1, <2>1, AccountsKeep DEF SessionsOwned
<1>2. ASSUME NEW c \in Contents, Account(c.uid) # {},
             sessions' = Append(sessions, c), owner' = Append(owner, c.uid)
      PROVE  /\ sessions' \in Seq(Contents) /\ owner' \in Seq(Users) /\ Len(owner') = Len(sessions')
             /\ Len(sessions) <= Len(sessions') /\ SessionsOwned'
             /\ \A k \in DOMAIN sessions : /\ k \in DOMAIN sessions'
                                           /\ sessions'[k] = sessions[k] /\ owner'[k] = owner[k]
  <2>1. c.uid \in Users
    BY DEF Contents
  <2>2. sessions' \in Seq(Contents) /\ owner' \in Seq(Users)
        /\ Len(sessions') = Len(sessions) + 1 /\ Len(owner') = Len(sessions')
    BY <1>2, <2>1
  <2>3. \A k \in DOMAIN sessions : /\ k \in DOMAIN sessions'
                                   /\ sessions'[k] = sessions[k] /\ owner'[k] = owner[k]
    BY <1>2, <2>1
  <2>4. sessions'[Len(sessions) + 1] = c /\ owner'[Len(sessions) + 1] = c.uid
    BY <1>2, <2>1
  <2>5. \A k \in DOMAIN sessions' : k \in DOMAIN sessions \/ k = Len(sessions) + 1
    BY <2>2
  <2>6. Account(c.uid)' # {}
    BY <1>2, <2>1, AccountsKeep
  <2>7. \A k \in DOMAIN sessions : owner[k] \in Users
    OBVIOUS
  <2>8. SessionsOwned'
    BY <2>3, <2>4, <2>5, <2>6, <2>7, AccountsKeep DEF SessionsOwned
  <2>9. QED
    BY <2>2, <2>3, <2>8
<1>3. QED
  BY <1>1, <1>2 DEF Grows

\* The other workers' requests are not disturbed.
LEMMA OthersKeep ==
    ASSUME IInv, Evolves, Grows, NEW v \in Workers, job'[v] = job[v]
    PROVE  Request(v)'
<1> USE DEF IInv
<1>1. /\ Request(v) /\ job[v] \in Jobs /\ job[v].known \subseteq Docs
  BY DEF TypeOK, Jobs
<1>2. \A d \in job[v].known : StillChanged(d)'
  BY <1>1, AccountsKeep DEF Request
<1>3. job[v].at = "setSession" => Account(job[v].uid)' # {}
  BY <1>1, AccountsKeep DEF Request, SigningIn
<1>4. QED
  BY <1>1, <1>2, <1>3, SessionsKeep DEF Request

LEMMA StepKeeps ==
    ASSUME IInv, Evolves, Grows, NEW w \in Workers, NEW j \in Jobs,
           job' = [job EXCEPT ![w] = j], replicated' = replicated, jobs' \in 0 .. MaxJobs,
           Request(w)'
    PROVE  IInv'
<1> USE DEF IInv, TypeOK
<1>1. job' \in [Workers -> Jobs] /\ \A v \in Workers \ {w} : job'[v] = job[v]
  OBVIOUS
<1>2. \A v \in Workers : Request(v)'
  BY <1>1, OthersKeep
<1>3. replicated' \in 0 .. Len(sessions')
  BY SessionsKeep
<1>4. QED
  BY <1>1, <1>2, <1>3, AccountsKeep, SessionsKeep

LEMMA JobTypes ==
    ASSUME TypeOK, NEW w \in Workers
    PROVE  /\ job[w] \in Jobs
           /\ job[w].op \in {"none", "login", "name", "avatar"} /\ job[w].at \in Calls
           /\ job[w].uid \in Users \cup {None} /\ job[w].cookie \in Nat
           /\ job[w].content \subseteq Contents /\ job[w].known \subseteq Docs
BY DEF TypeOK, Jobs

\* A request goes on to another call, or is answered, and nothing else happens.
LEMMA GoOnKeeps ==
    ASSUME IInv, NEW w \in Workers, NEW call \in Calls, GoOn(w, call),
           UNCHANGED <<userDb, sessions, replicated, owner, jobs>>,
           Precedes(job[w].at, call)
    PROVE  IInv'
<1> DEFINE j == [job[w] EXCEPT !.at = call]
<1>1. job[w] \in Jobs /\ job[w].at \in Calls /\ Request(w)
  BY JobTypes DEF IInv
<1>2. j \in Jobs /\ job' = [job EXCEPT ![w] = j]
  BY <1>1 DEF Jobs, GoOn
<1>3. job'[w] = j
  BY <1>2 DEF IInv, TypeOK
<1>4. Request(w)'
  <2>1. /\ j.at = call /\ j.uid = job[w].uid /\ j.cookie = job[w].cookie /\ j.op = job[w].op
        /\ j.want = job[w].want /\ j.known = job[w].known /\ j.answer = job[w].answer
    BY <1>1 DEF Jobs
  <2> HIDE DEF j
  <2>2. \A d \in job[w].known : StillChanged(d)'
    BY <1>1 DEF Request, StillChanged
  <2>3. QED
    BY <1>1, <1>3, <2>1, <2>2 DEF Request, SigningIn, Precedes
<1>5. jobs' \in 0 .. MaxJobs
  BY DEF IInv, TypeOK
<1> HIDE DEF j
<1>6. QED
  BY <1>2, <1>4, <1>5, StepKeeps DEF Evolves, Grows

LEMMA AnswerKeeps ==
    ASSUME IInv, NEW w \in Workers, NEW what \in Answers \ {"signedIn"}, Answer(w, what),
           Evolves, UNCHANGED <<sessions, replicated, owner, jobs>>
    PROVE  IInv'
<1> DEFINE j == [job[w] EXCEPT !.at = "done", !.answer = what]
<1>1. job[w] \in Jobs /\ Request(w) /\ job[w].known \subseteq Docs
  BY JobTypes DEF IInv
<1>2. j \in Jobs /\ job' = [job EXCEPT ![w] = j]
  BY <1>1 DEF Jobs, Answer, Calls
<1>3. job'[w] = j
  BY <1>2 DEF IInv, TypeOK
<1>4. Request(w)'
  <2>1. /\ j.at = "done" /\ j.op = job[w].op /\ j.want = job[w].want /\ j.known = job[w].known
        /\ j.answer = what
    BY <1>1 DEF Jobs
  <2> HIDE DEF j
  <2>2. \A d \in job[w].known : StillChanged(d)'
    BY <1>1, AccountsKeep DEF Request
  <2>3. QED
    BY <1>1, <1>3, <2>1, <2>2 DEF Request, SigningIn
<1>5. jobs' \in 0 .. MaxJobs
  BY DEF IInv, TypeOK
<1> HIDE DEF j
<1>6. QED
  BY <1>2, <1>4, <1>5, StepKeeps DEF Grows

-----------------------------------------------------------------------------
(* The actions.                                                            *)

LEMMA Initially == Init => IInv
BY DEF Init, IInv, TypeOK, Unique, SessionsOwned, Request, Idle, Jobs, Calls, Answers, SigningIn

LEMMA ArrivesKeeps == ASSUME IInv, NEW w \in Workers, Arrives(w) PROVE IInv'
<1>1. ASSUME NEW j \in Jobs, Begin(w, j), Request(w)' PROVE IInv'
  <2>1. /\ job' = [job EXCEPT ![w] = j] /\ jobs < MaxJobs /\ jobs' = jobs + 1
        /\ UNCHANGED <<userDb, sessions, replicated, owner>>
    BY <1>1 DEF Begin
  <2>2. jobs' \in 0 .. MaxJobs
    BY <2>1 DEF IInv, TypeOK
  <2>3. QED
    BY <1>1, <2>1, <2>2, StepKeeps DEF Evolves, Grows
<1>2. CASE Login(w)
  <2>1. PICK u \in Users :
           Begin(w, [Idle EXCEPT !.op = "login", !.at = "token", !.uid = u, !.known = Account(u)])
    BY <1>2 DEF Login
  <2> DEFINE j == [Idle EXCEPT !.op = "login", !.at = "token", !.uid = u, !.known = Account(u)]
  <2>2. Account(u) \subseteq Docs
    BY DEF IInv, TypeOK, Account
  <2>3. j \in Jobs
    BY <2>2 DEF Idle, Jobs, Calls, Answers
  <2>4. job'[w] = j /\ userDb' = userDb
    BY <2>1 DEF Begin, IInv, TypeOK
  <2>5. \A d \in Account(u) : d.uid = u /\ StillChanged(d)'
    BY <2>4 DEF Account, StillChanged
  <2>6. Request(w)'
    BY <2>4, <2>5 DEF Request, Idle, SigningIn
  <2>7. QED
    BY <1>1, <2>1, <2>3, <2>6
<1>3. CASE ChangeName(w)
  <2>1. PICK k \in DOMAIN sessions, n \in Wanted :
           Begin(w, [Idle EXCEPT !.op = "name", !.at = "getSession", !.cookie = k, !.want = n])
    BY <1>3 DEF ChangeName
  <2> DEFINE j == [Idle EXCEPT !.op = "name", !.at = "getSession", !.cookie = k, !.want = n]
  <2>2. k \in Nat /\ n \in Names
    BY DEF IInv, TypeOK
  <2>3. j \in Jobs
    BY <2>2 DEF Idle, Jobs, Calls, Answers
  <2>4. job'[w] = j /\ sessions' = sessions
    BY <2>1 DEF Begin, IInv, TypeOK
  <2>5. Request(w)'
    BY <2>2, <2>4 DEF Request, Idle, SigningIn
  <2>6. QED
    BY <1>1, <2>1, <2>3, <2>5
<1>4. CASE ChangeAvatar(w)
  <2>1. PICK k \in DOMAIN sessions, a \in Avatars :
           Begin(w, [Idle EXCEPT !.op = "avatar", !.at = "getSession", !.cookie = k, !.want = a])
    BY <1>4 DEF ChangeAvatar
  <2> DEFINE j == [Idle EXCEPT !.op = "avatar", !.at = "getSession", !.cookie = k, !.want = a]
  <2>2. k \in Nat
    BY DEF IInv, TypeOK
  <2>3. j \in Jobs
    BY <2>2 DEF Idle, Jobs, Calls, Answers
  <2>4. job'[w] = j /\ sessions' = sessions
    BY <2>1 DEF Begin, IInv, TypeOK
  <2>5. Request(w)'
    BY <2>2, <2>4 DEF Request, Idle, SigningIn
  <2>6. QED
    BY <1>1, <2>1, <2>3, <2>5
<1>5. QED
  BY <1>2, <1>3, <1>4 DEF Arrives

\* A login that gets the content of its session: that of its own account.
LEMMA ContentKeeps ==
    ASSUME IInv, NEW w \in Workers, NEW c \in Contents, Evolves,
           UNCHANGED <<sessions, replicated, owner, jobs>>,
           job[w].at \in SigningIn,
           job' = [job EXCEPT ![w].at = "setSession", ![w].content = {c}],
           c.uid = job[w].uid, Account(job[w].uid)' # {},
           \A d \in job[w].known : d.changed => c.name = d.name
    PROVE  IInv'
<1> DEFINE j == [job[w] EXCEPT !.at = "setSession", !.content = {c}]
<1>1. job[w] \in Jobs /\ Request(w) /\ job[w].known \subseteq Docs
  BY JobTypes DEF IInv
<1>2. j \in Jobs /\ job' = [job EXCEPT ![w] = j]
  BY <1>1 DEF Jobs, Calls
<1>3. job'[w] = j
  BY <1>2 DEF IInv, TypeOK
<1>4. Request(w)'
  <2>1. /\ j.at = "setSession" /\ j.op = job[w].op /\ j.want = job[w].want /\ j.known = job[w].known
        /\ j.answer = job[w].answer /\ j.uid = job[w].uid /\ j.content = {c}
    BY <1>1 DEF Jobs
  <2> HIDE DEF j
  <2>2. \A d \in job[w].known : StillChanged(d)'
    BY <1>1, AccountsKeep DEF Request
  <2>3. \A d \in job'[w].known : d.uid = job'[w].uid
    BY <1>1, <1>3, <2>1 DEF Request
  <2>4. Account(job[w].uid)' # {}
    OBVIOUS
  <2>5. \E a \in Contents :
           /\ job'[w].content = {a} /\ a.uid = job'[w].uid
           /\ \A d \in job'[w].known : d.changed => a.name = d.name
    BY <1>3, <2>1
  <2>6. QED
    BY <1>1, <1>3, <2>1, <2>2, <2>3, <2>4, <2>5 DEF Request, SigningIn
<1>5. jobs' \in 0 .. MaxJobs
  BY DEF IInv, TypeOK
<1> HIDE DEF j
<1>6. QED
  BY <1>2, <1>4, <1>5, StepKeeps DEF Grows

LEMMA SignsInKeeps == ASSUME IInv, NEW w \in Workers, SignsIn(w) PROVE IInv'
<1> USE DEF SigningIn
<1>0. /\ Request(w) /\ job[w].at \in Calls /\ job[w].known \subseteq Docs /\ userDb \subseteq Docs
      /\ job[w].content \subseteq Contents
  BY JobTypes DEF IInv, TypeOK
<1>1. CASE TokenComes(w) \/ UserinfoComes(w)
  <2>1. PICK call \in {"lookup", "userinfo"} : GoOn(w, call) /\ job[w].at \in {"token", "userinfo"}
    BY <1>1 DEF TokenComes, UserinfoComes
  <2>2. UNCHANGED <<userDb, sessions, replicated, owner, jobs>>
    BY <1>1 DEF TokenComes, UserinfoComes
  <2>3. call \in Calls /\ Precedes(job[w].at, call)
    BY <2>1 DEF Calls, Precedes
  <2>4. QED
    BY <2>1, <2>2, <2>3, GoOnKeeps
<1>2. CASE ProviderFails(w) \/ RedisFails(w)
  <2>1. PICK what \in {"authFailed", "error500"} : Answer(w, what)
    BY <1>2 DEF ProviderFails, RedisFails
  <2>2. UNCHANGED <<userDb, sessions, replicated, owner, jobs>>
    BY <1>2 DEF ProviderFails, RedisFails
  <2>3. QED
    BY <2>1, <2>2, AnswerKeeps DEF Answers, Evolves
<1>3. CASE LookupFinds(w)
  <2>1. PICK d \in Account(job[w].uid) :
           job' = [job EXCEPT ![w].at = "setSession", ![w].content = {Session(d)}]
    BY <1>3 DEF LookupFinds
  <2>2. UNCHANGED <<userDb, sessions, replicated, owner, jobs>> /\ job[w].at = "lookup"
    BY <1>3 DEF LookupFinds
  <2>3. d \in userDb /\ d.uid = job[w].uid
    BY DEF Account
  <2>4. \A e \in job[w].known : e.changed => d.name = e.name
    BY <1>0, <2>2, <2>3 DEF Request, StillChanged, IInv, Unique
  <2>5. Account(job[w].uid)' # {}
    <3>1. (job[w].uid)' = job[w].uid
      BY <2>1, JobTypes DEF IInv, TypeOK, Jobs
    <3>2. QED
      BY <2>2, <2>3, <3>1 DEF Account
  <2>6. Session(d) \in Contents /\ Session(d).uid = job[w].uid /\ Session(d).name = d.name
    BY <1>0, <2>3, SessionType
  <2>7. QED
    BY <2>1, <2>2, <2>4, <2>5, <2>6, ContentKeeps DEF Evolves
<1>4. CASE LookupFails(w)
  <2>1. /\ GoOn(w, "register") /\ job[w].at = "lookup"
        /\ UNCHANGED <<userDb, sessions, replicated, owner, jobs>>
    BY <1>4 DEF LookupFails
  <2>2. "register" \in Calls /\ Precedes(job[w].at, "register")
    BY <2>1 DEF Calls, Precedes
  <2>3. QED
    BY <2>1, <2>2, GoOnKeeps
<1>5. CASE Register(w)
  <2>1. job[w].at = "register" /\ UNCHANGED <<sessions, replicated, owner, jobs>>
        /\ job[w].uid \in Users
    BY <1>0, <1>5 DEF Register, Request
  <2>2. CASE Account(job[w].uid) = {}
    <3>1. /\ userDb' = userDb \cup {NewDoc(job[w].uid)}
          /\ job' = [job EXCEPT ![w].at = "setSession", ![w].content = {Session(NewDoc(job[w].uid))}]
      BY <1>5, <2>2 DEF Register
    <3>2. Evolves
      BY <2>1, <2>2, <3>1 DEF Evolves, Registered
    <3>3. \A d \in job[w].known : ~d.changed
      BY <1>0, <2>1, <2>2 DEF Request, StillChanged, Account
    <3>4. Account(job[w].uid)' # {}
      <4>1. NewDoc(job[w].uid) \in userDb' /\ NewDoc(job[w].uid).uid = job[w].uid
        BY <2>1, <3>1, NewDocType
      <4>2. (job[w].uid)' = job[w].uid
        BY <3>1 DEF IInv, TypeOK, Jobs
      <4>3. QED
        BY <4>1, <4>2 DEF Account
    <3>5. /\ Session(NewDoc(job[w].uid)) \in Contents
          /\ Session(NewDoc(job[w].uid)).uid = job[w].uid
      BY <2>1, NewDocType, SessionType
    <3>6. QED
      BY <2>1, <3>1, <3>2, <3>3, <3>4, <3>5, ContentKeeps
  <2>3. CASE Account(job[w].uid) # {}
    BY <1>5, <2>1, <2>3, AnswerKeeps DEF Register, Answers, Evolves
  <2>4. QED
    BY <2>2, <2>3
<1>6. CASE RegisterFails(w)
  <2>1. /\ Answer(w, "registerFailed") /\ UNCHANGED <<sessions, replicated, owner, jobs>>
        /\ job[w].uid \in Users
    BY <1>0, <1>6 DEF RegisterFails, Request
  <2>2. Evolves
    BY <1>6, <2>1 DEF RegisterFails, Evolves, Registered
  <2>3. QED
    BY <2>1, <2>2, AnswerKeeps DEF Answers
<1>7. CASE SetSession(w)
  <2>1. job[w].at = "setSession" /\ UNCHANGED <<userDb, replicated, jobs>>
    BY <1>7 DEF SetSession
  <2>2. PICK c \in Contents :
           /\ job[w].content = {c} /\ c.uid = job[w].uid
           /\ \A d \in job[w].known : d.changed => c.name = d.name
    BY <1>0, <2>1 DEF Request
  <2>3. /\ sessions' = Append(sessions, c) /\ owner' = Append(owner, c.uid)
        /\ Account(c.uid) # {}
    BY <1>0, <1>7, <2>1, <2>2 DEF SetSession, Request
  <2>4. Evolves /\ Grows
    BY <2>1, <2>3 DEF Evolves, Grows
  <2> DEFINE j == [job[w] EXCEPT !.at = "done", !.answer = "signedIn", !.cookie = Len(sessions) + 1]
  <2>5. job[w] \in Jobs /\ sessions \in Seq(Contents)
    BY DEF IInv, TypeOK
  <2>6. j \in Jobs /\ job' = [job EXCEPT ![w] = j]
    <3>1. Len(sessions) + 1 \in Nat /\ "done" \in Calls /\ "signedIn" \in Answers
      BY <2>5 DEF Calls, Answers
    <3>2. j \in Jobs
      BY <2>5, <3>1 DEF Jobs
    <3>3. QED
      BY <1>7, <3>2 DEF SetSession
  <2>7. job'[w] = j
    BY <2>6 DEF IInv, TypeOK
  <2>8. /\ j.at = "done" /\ j.op = job[w].op /\ j.want = job[w].want /\ j.known = job[w].known
        /\ j.answer = "signedIn" /\ j.cookie = Len(sessions) + 1
    BY <2>5 DEF Jobs
  <2>9. Len(sessions) + 1 \in DOMAIN sessions' /\ sessions'[Len(sessions) + 1] = c
    BY <2>3, <2>5
  <2> HIDE DEF j
  <2>10. \A d \in job[w].known : StillChanged(d)'
    BY <1>0, <2>4, AccountsKeep DEF Request
  <2>11. Request(w)'
    BY <1>0, <2>2, <2>7, <2>8, <2>9, <2>10 DEF Request
  <2>12. jobs' \in 0 .. MaxJobs
    BY <2>1 DEF IInv, TypeOK
  <2>13. QED
    BY <2>1, <2>4, <2>6, <2>11, <2>12, StepKeeps
<1>8. QED
  BY <1>1, <1>2, <1>3, <1>4, <1>5, <1>6, <1>7 DEF SignsIn

-----------------------------------------------------------------------------
(* Settings.                                                               *)

\* A PUT replaces the account of its session's user, or nothing happens.
LEMMA PutReplaces ==
    ASSUME IInv, NEW w \in Workers, PutName(w) \/ PutAvatar(w)
    PROVE  /\ userDb' = userDb \/ \E d \in userDb, e \in Docs : Replaced(d, e) /\ d.uid = job[w].uid
           /\ UNCHANGED <<sessions, replicated, owner, jobs>>
           /\ Answer(w, "success") \/ Answer(w, "refused")
           /\ job[w].at \in {"putName", "putAvatar"}
<1>1. Request(w) /\ userDb \subseteq Docs /\ Unique
  BY DEF IInv, TypeOK
<1>2. PICK new :
         /\ Put(w, new)
         /\ \/ /\ PutName(w) /\ job[w].at = "putName"
               /\ new = UNION {Renamed(d, job[w].want) : d \in Account(job[w].uid)}
            \/ /\ PutAvatar(w) /\ job[w].at = "putAvatar"
               /\ new = UNION {Repainted(d, job[w].want) : d \in Account(job[w].uid)}
  BY DEF PutName, PutAvatar
<1>3. /\ UNCHANGED <<sessions, replicated, owner, jobs>>
      /\ Answer(w, "success") \/ Answer(w, "refused")
      /\ \/ userDb' = userDb
         \/ new # {} /\ userDb' = (userDb \ Account(job[w].uid)) \cup new
  BY <1>2 DEF Put
<1>4. ASSUME new # {}, userDb' = (userDb \ Account(job[w].uid)) \cup new
      PROVE  \E d \in userDb, e \in Docs : Replaced(d, e) /\ d.uid = job[w].uid
  <2>1. PICK d \in Account(job[w].uid) : TRUE
    BY <1>2, <1>4
  <2>2. Account(job[w].uid) = {d} /\ d \in userDb /\ d.uid = job[w].uid /\ d \in Docs
    BY <1>1, <2>1 DEF Account, Unique
  <2>3. CASE job[w].at = "putName"
    <3>0. job[w].want \in Names
      BY <1>1, <2>3 DEF Request
    <3>1. new = Renamed(d, job[w].want) /\ job[w].want \in Names
      <4>1. new = UNION {Renamed(x, job[w].want) : x \in Account(job[w].uid)}
        BY <1>2, <2>3
      <4>2. QED
        BY <2>2, <3>0, <4>1
    <3> DEFINE e == [d EXCEPT !.name = job[w].want, !.changed = TRUE]
    <3>2. ~d.changed /\ new = {e}
      BY <1>4, <3>1 DEF Renamed
    <3>3. e \in Docs /\ e.uid = d.uid /\ e.changed
      BY <2>2, <3>1 DEF Docs
    <3>4. Replaced(d, e)
      BY <1>4, <2>2, <3>2, <3>3 DEF Replaced
    <3>5. QED
      BY <2>2, <3>3, <3>4
  <2>4. CASE job[w].at = "putAvatar"
    <3>0. job[w].want \in Avatars
      BY <1>1, <2>4 DEF Request
    <3>1. new = Repainted(d, job[w].want) /\ job[w].want \in Avatars
      <4>1. new = UNION {Repainted(x, job[w].want) : x \in Account(job[w].uid)}
        BY <1>2, <2>4
      <4>2. QED
        BY <2>2, <3>0, <4>1
    <3> DEFINE e == [d EXCEPT !.avatar = job[w].want]
    <3>2. new = {e}
      BY <3>1 DEF Repainted
    <3>3. e \in Docs /\ e.uid = d.uid /\ e.name = d.name /\ e.changed = d.changed
      BY <2>2, <3>1 DEF Docs
    <3>4. Replaced(d, e)
      BY <1>4, <2>2, <3>2, <3>3 DEF Replaced
    <3>5. QED
      BY <2>2, <3>3, <3>4
  <2>5. QED
    BY <1>2, <2>3, <2>4
<1>5. QED
  BY <1>2, <1>3, <1>4

LEMMA SettlesKeeps == ASSUME IInv, NEW w \in Workers, Settles(w) PROVE IInv'
<1>0. Request(w) /\ job[w] \in Jobs /\ job[w].known \subseteq Docs
  BY JobTypes DEF IInv
<1>1. CASE GetSession(w)
  <2>1. job[w].at = "getSession" /\ UNCHANGED <<userDb, sessions, replicated, owner, jobs>>
    BY <1>1 DEF GetSession
  <2>2. CASE job[w].cookie <= replicated
    <3> DEFINE u    == sessions[job[w].cookie].uid
               call == IF job[w].op = "name" THEN "check" ELSE "putAvatar"
               j    == [job[w] EXCEPT !.at = call, !.uid = u]
    <3>1. u \in Users /\ u = owner[job[w].cookie] /\ job[w].cookie \in DOMAIN sessions
      BY <1>0, <2>1 DEF Request, IInv, SessionsOwned, TypeOK, Contents
    <3>2. job' = [job EXCEPT ![w].at = call, ![w].uid = u]
      BY <1>1, <2>2 DEF GetSession
    <3>3. j \in Jobs /\ job' = [job EXCEPT ![w] = j]
      BY <1>0, <3>1, <3>2 DEF Jobs, Calls
    <3>4. job'[w] = j
      BY <3>3 DEF IInv, TypeOK
    <3>5. /\ j.at = call /\ j.uid = u /\ j.op = job[w].op /\ j.want = job[w].want
          /\ j.known = job[w].known /\ j.answer = job[w].answer /\ j.cookie = job[w].cookie
      BY <1>0 DEF Jobs
    <3>6. call \in {"check", "putAvatar"} /\ (call = "check" <=> job[w].op = "name")
      OBVIOUS
    <3> HIDE DEF j, call, u
    <3>7. \A d \in job[w].known : StillChanged(d)'
      BY <1>0, <2>1 DEF Request, StillChanged
    <3>8. Request(w)'
      BY <1>0, <2>1, <3>1, <3>4, <3>5, <3>6, <3>7 DEF Request, SigningIn
    <3>9. jobs' \in 0 .. MaxJobs
      BY <2>1 DEF IInv, TypeOK
    <3>10. QED
      BY <2>1, <3>3, <3>8, <3>9, StepKeeps DEF Evolves, Grows
  <2>3. CASE ~(job[w].cookie <= replicated)
    BY <1>1, <2>1, <2>3, AnswerKeeps DEF GetSession, Answers, Evolves
  <2>4. QED
    BY <2>2, <2>3
<1>2. CASE CheckSaysFree(w)
  <2>1. /\ job[w].at = "check" /\ UNCHANGED <<userDb, sessions, replicated, owner, jobs>>
        /\ GoOn(w, "putName") \/ Answer(w, "invalid")
    BY <1>2 DEF CheckSaysFree
  <2>2. CASE GoOn(w, "putName")
    <3>1. "putName" \in Calls /\ Precedes(job[w].at, "putName")
      BY <2>1 DEF Calls, Precedes
    <3>2. QED
      BY <2>1, <2>2, <3>1, GoOnKeeps
  <2>3. CASE Answer(w, "invalid")
    BY <1>2, <2>3, AnswerKeeps DEF Answers, Evolves, CheckSaysFree
  <2>4. QED
    BY <1>2, <2>2, <2>3 DEF CheckSaysFree
<1>3. CASE CheckSaysTaken(w)
  BY <1>3, AnswerKeeps DEF CheckSaysTaken, Answers, Evolves
<1>4. CASE PutName(w) \/ PutAvatar(w)
  <2>1. Evolves /\ UNCHANGED <<sessions, replicated, owner, jobs>>
    BY <1>4, PutReplaces DEF Evolves
  <2>2. PICK what \in {"success", "refused"} : Answer(w, what)
    BY <1>4, PutReplaces
  <2>3. QED
    BY <2>1, <2>2, AnswerKeeps DEF Answers
<1>5. QED
  BY <1>1, <1>2, <1>3, <1>4 DEF Settles

LEMMA OtherStepsKeep == ASSUME IInv, Restarts \/ Replicate \/ UNCHANGED vars PROVE IInv'
<1>1. CASE Restarts
  <2>1. UNCHANGED <<userDb, sessions, replicated, owner, jobs>>
    BY <1>1 DEF Restarts
  <2>2. ASSUME NEW w \in Workers PROVE job'[w] \in Jobs /\ Request(w)'
    <3>1. job[w] \in Jobs /\ Request(w) /\ job[w].known \subseteq Docs
      BY JobTypes DEF IInv
    <3>2. CASE job[w].at = "done"
      <4>1. job'[w] = job[w]
        BY <1>1, <3>2 DEF Restarts
      <4>2. QED
        BY <2>1, <3>1, <4>1, OthersKeep DEF Evolves, Grows
    <3>3. CASE job[w].at # "done"
      <4> DEFINE j == [job[w] EXCEPT !.at = "done", !.answer = "lost"]
      <4>1. job'[w] = j
        BY <1>1, <3>3 DEF Restarts
      <4>2. /\ j \in Jobs /\ j.at = "done" /\ j.answer = "lost" /\ j.op = job[w].op
            /\ j.want = job[w].want /\ j.known = job[w].known
        BY <3>1 DEF Jobs, Calls, Answers
      <4> HIDE DEF j
      <4>3. \A d \in job[w].known : StillChanged(d)'
        BY <2>1, <3>1 DEF Request, StillChanged
      <4>4. QED
        BY <3>1, <4>1, <4>2, <4>3 DEF Request, SigningIn
    <3>4. QED
      BY <3>2, <3>3
  <2>3. job' \in [Workers -> Jobs]
    <3>1. DOMAIN job' = Workers /\ job' = [w \in Workers |-> job'[w]]
      BY <1>1 DEF Restarts
    <3>2. QED
      BY <2>2, <3>1
  <2>4. QED
    BY <2>1, <2>2, <2>3 DEF IInv, TypeOK, Unique, SessionsOwned, Account
<1>2. CASE Replicate
  <2>1. /\ UNCHANGED <<userDb, sessions, owner, job, jobs>>
        /\ replicated < Len(sessions) /\ replicated' = replicated + 1
    BY <1>2 DEF Replicate
  <2>2. \A w \in Workers : Request(w)'
    BY <2>1, OthersKeep DEF Evolves, Grows
  <2>3. QED
    BY <2>1, <2>2 DEF IInv, TypeOK, Unique, SessionsOwned, Account
<1>3. CASE UNCHANGED vars
  <2>1. UNCHANGED <<userDb, sessions, owner, job, jobs, replicated>>
    BY <1>3 DEF vars
  <2>2. \A w \in Workers : Request(w)'
    BY <2>1, OthersKeep DEF Evolves, Grows
  <2>3. QED
    BY <2>1, <2>2 DEF IInv, TypeOK, Unique, SessionsOwned, Account
<1>4. QED
  BY <1>1, <1>2, <1>3

\* The invariant behind all the others (api.cpp:46-375, utils.cpp:76-99): of the accounts,
\* the sessions, and what every request is about to do.
THEOREM AccountsInductive == Spec => []IInv
<1>1. IInv /\ [Next]_vars => IInv'
  <2> SUFFICES ASSUME IInv, [Next]_vars PROVE IInv'
    OBVIOUS
  <2>1. ASSUME NEW w \in Workers, Arrives(w) \/ SignsIn(w) \/ Settles(w) PROVE IInv'
    BY <2>1, ArrivesKeeps, SignsInKeeps, SettlesKeeps
  <2>2. QED
    BY <2>1, OtherStepsKeep DEF Next, Finished
<1>2. QED
  BY <1>1, Initially, PTL DEF Spec

\* An account stays: it is registered once, whatever logins race and fail, and every
\* session is that of an account.
THEOREM AccountsAreOne == Spec => []AccountsStay
<1>1. IInv => AccountsStay
  BY DEF IInv, Unique, SessionsOwned, AccountsStay
<1>2. QED
  BY <1>1, AccountsInductive, PTL

\* Who signs in after changing the name gets a session with the new one.
THEOREM LoginsSeeChange == Spec => []LoginSeesChange
<1>1. IInv => LoginSeesChange
  BY DEF IInv, Request, LoginSeesChange
<1>2. QED
  BY <1>1, AccountsInductive, PTL

\* What a step may do to the accounts; a PUT alone changes one.
LEMMA StepEvolves ==
    ASSUME IInv, Next
    PROVE  \/ userDb \subseteq userDb' /\ (userDb' = userDb \/ \E u \in Users : Registered(u))
           \/ \E w \in Workers, d \in userDb, e \in Docs :
                 /\ Replaced(d, e) /\ d.uid = job[w].uid
                 /\ job[w].at \in {"putName", "putAvatar"} /\ job'[w].at = "done"
<1>1. ASSUME NEW w \in Workers, PutName(w) \/ PutAvatar(w)
      PROVE  \/ userDb' = userDb
             \/ \E d \in userDb, e \in Docs :
                   /\ Replaced(d, e) /\ d.uid = job[w].uid
                   /\ job[w].at \in {"putName", "putAvatar"} /\ job'[w].at = "done"
  <2>1. job'[w].at = "done"
    <3>1. PICK what : job' = [job EXCEPT ![w].at = "done", ![w].answer = what]
      BY <1>1, PutReplaces DEF Answer
    <3>2. job \in [Workers -> Jobs] /\ job[w] \in Jobs
      BY DEF IInv, TypeOK
    <3>3. QED
      BY <3>1, <3>2 DEF Jobs
  <2>2. QED
    BY <1>1, <2>1, PutReplaces
<1>2. ASSUME NEW w \in Workers, Register(w) \/ RegisterFails(w)
      PROVE  userDb' = userDb \/ \E u \in Users : Registered(u)
  <2>1. job[w].uid \in Users
    BY <1>2 DEF Register, RegisterFails, IInv, Request, SigningIn
  <2>2. QED
    BY <1>2, <2>1 DEF Register, RegisterFails, Registered
<1>3. ASSUME NEW w \in Workers,
             \/ Arrives(w) \/ TokenComes(w) \/ UserinfoComes(w) \/ ProviderFails(w)
             \/ LookupFinds(w) \/ LookupFails(w) \/ SetSession(w) \/ RedisFails(w)
             \/ GetSession(w) \/ CheckSaysFree(w) \/ CheckSaysTaken(w)
      PROVE  userDb' = userDb
  BY <1>3 DEF Arrives, Login, ChangeName, ChangeAvatar, Begin, TokenComes, UserinfoComes,
     ProviderFails, LookupFinds, LookupFails, SetSession, RedisFails, GetSession,
     CheckSaysFree, CheckSaysTaken
<1>4. CASE Restarts \/ Replicate \/ Finished
  BY <1>4 DEF Restarts, Replicate, Finished, vars
<1>5. QED
  BY <1>1, <1>2, <1>3, <1>4 DEF Next, SignsIn, Settles, Registered

\* A name takes no third value and never goes back.
THEOREM NamesChangeOnce == Spec => NameChangesOnce
<1> DEFINE Once == \A d \in userDb, e \in userDb' :
                      (d.uid = e.uid /\ d.name # e.name) => ~d.changed /\ e.changed
<1>1. IInv /\ [Next]_vars => [Once]_vars
  <2> SUFFICES ASSUME IInv, Next, NEW d \in userDb, NEW e \in userDb',
                      d.uid = e.uid, d.name # e.name
               PROVE  ~d.changed /\ e.changed
    OBVIOUS
  <2>1. Unique /\ userDb \subseteq Docs
    BY DEF IInv, TypeOK
  <2>2. CASE userDb' = userDb
    BY <2>1, <2>2 DEF Unique
  <2>3. ASSUME NEW u \in Users, Registered(u) PROVE FALSE
    <3>1. e \in userDb \/ e = NewDoc(u)
      BY <2>3 DEF Registered
    <3>2. e.uid # u
      BY <2>3 DEF Registered, Account
    <3>3. QED
      BY <2>1, <3>1, <3>2, NewDocType DEF Unique
  <2>4. ASSUME NEW f \in userDb, NEW g \in Docs, Replaced(f, g) PROVE ~d.changed /\ e.changed
    BY <2>1, <2>4 DEF Replaced, Unique
  <2>5. QED
    BY <2>2, <2>3, <2>4, StepEvolves
<1>2. QED
  BY <1>1, AccountsInductive, PTL DEF Spec, NameChangesOnce

\* An account changes only by a request with a cookie that its own user signed in for.
THEOREM OwnersChangeOnly == Spec => OnlyOwnerChanges
<1> DEFINE Owned == \A d \in userDb : d \notin userDb' =>
                       \E w \in Workers :
                           /\ job[w].at \in {"putName", "putAvatar"} /\ job'[w].at = "done"
                           /\ owner[job[w].cookie] = d.uid
<1>1. IInv /\ [Next]_vars => [Owned]_vars
  <2> SUFFICES ASSUME IInv, Next, NEW d \in userDb, d \notin userDb'
               PROVE  \E w \in Workers :
                           /\ job[w].at \in {"putName", "putAvatar"} /\ job'[w].at = "done"
                           /\ owner[job[w].cookie] = d.uid
    OBVIOUS
  <2>1. PICK w \in Workers, f \in userDb, e \in Docs :
           /\ Replaced(f, e) /\ f.uid = job[w].uid
           /\ job[w].at \in {"putName", "putAvatar"} /\ job'[w].at = "done"
    BY StepEvolves
  <2>2. d = f
    BY <2>1 DEF Replaced
  <2>3. job[w].uid = owner[job[w].cookie]
    BY <2>1 DEF IInv, Request
  <2>4. QED
    BY <2>1, <2>2, <2>3
<1>2. QED
  BY <1>1, AccountsInductive, PTL DEF Spec, OnlyOwnerChanges
=============================================================================
