------------------------------ MODULE Accounts -------------------------------
(***************************************************************************)
(* Accounts and sessions: signing in through an OAuth provider, which      *)
(* registers an account the first time (src/api.cpp:46-228), the session   *)
(* it leaves in Redis (src/utils.cpp:76-99), and the two settings of an    *)
(* account, its name and its avatar (src/api.cpp:349-375).                 *)
(*                                                                         *)
(* Every request is served by a worker that makes one blocking call after  *)
(* the other: to the provider, to CouchDB, to Redis.  Workers interleave   *)
(* between these calls, any call may fail, and the program may end and be  *)
(* started again (loop.sh).  CouchDB applies an update function            *)
(* (databases/user.json) atomically or answers with a conflict.            *)
(* Sessions are written to the Redis master and read from a replica.       *)
(***************************************************************************)
EXTENDS Naturals, Sequences, FiniteSets

CONSTANTS
    Users,      \* uids: the hashes of the accounts at the providers
    Names,      \* user names
    Provider,   \* who vouches for each of them
    Default,    \* [Users -> Names], the name an account is registered with
    Wanted,     \* names users ask for
    Valid,      \* the names [a-zA-Z0-9_]+ matches
    Avatars,    \* avatars, among them NewAvatar
    NewAvatar,  \* the avatar of a new account
    None,       \* no user, and nothing to ask for
    Workers,    \* threads that serve requests
    Faults,     \* may calls to CouchDB and Redis fail?
    MaxJobs     \* bound on the number of requests

ASSUME NamesAssumption ==
    Default \in [Users -> Names] /\ Wanted \subseteq Names /\ Valid \subseteq Names
ASSUME ProviderAssumption == Provider \in [Users -> {"github", "google", "twitter"}]
ASSUME AvatarsAssumption == NewAvatar \in Avatars
ASSUME NoneAssumption == None \notin Users
ASSUME BoundsAssumption == MaxJobs \in Nat /\ Faults \in BOOLEAN

VARIABLES
    userDb,     \* database "user": a set of at most one document per uid
    sessions,   \* the sessions on the Redis master, numbered by their cookies
    replicated, \* how many of them the replica has
    owner,      \* who signed in to get each session
    job,        \* what every worker is doing
    jobs        \* number of requests so far

vars == <<userDb, sessions, replicated, owner, job, jobs>>

\* A document of the database, and what a session remembers of it.
Docs     == [uid : Users, name : Names, avatar : Avatars, changed : BOOLEAN]
Contents == [uid : Users, name : Names, avatar : Avatars]

Session(d) == [uid |-> d.uid, name |-> d.name, avatar |-> d.avatar]
NewDoc(u)  == [uid |-> u, name |-> Default[u], avatar |-> NewAvatar, changed |-> FALSE]

\* The documents of one account, and of one name.
Account(u)  == {d \in userDb : d.uid = u}
Holders(n)  == {d \in userDb : d.name = n}

\* A request: what it is, the next call it makes ("done" after the last), whose
\* it is, the cookie it came with (or, of a login, got), what it asks for, the
\* content of the new session, and the answer.  known is not in the program: the
\* user's account as it was when the request arrived.
Calls   == {"token", "userinfo", "lookup", "register", "setSession", "getSession", "check",
            "putName", "putAvatar", "done"}
Answers == {"none", "lost", "authFailed", "signedIn", "registerFailed", "forbidden", "error500",
            "exists", "invalid", "success", "refused"}
Idle == [op |-> "none", at |-> "done", uid |-> None, cookie |-> 0, want |-> None,
         content |-> {}, known |-> {}, answer |-> "none"]

-----------------------------------------------------------------------------
Init ==
    /\ userDb = {} /\ sessions = <<>> /\ replicated = 0 /\ owner = <<>>
    /\ job = [w \in Workers |-> Idle] /\ jobs = 0

-----------------------------------------------------------------------------
(* Requests.                                                               *)

Begin(w, j) ==
    /\ job[w].at = "done" /\ jobs < MaxJobs
    /\ job' = [job EXCEPT ![w] = j]
    /\ jobs' = jobs + 1
    /\ UNCHANGED <<userDb, sessions, replicated, owner>>

\* /login/callback/<provider>, with the code of user u.
Login(w) ==
    \E u \in Users :
        Begin(w, [Idle EXCEPT !.op = "login", !.at = "token", !.uid = u,
                              !.known = Account(u)])

\* /api/user/changeName/<name> and /api/user/changeAvatar, with the cookie of
\* some session.
ChangeName(w) ==
    \E k \in DOMAIN sessions, n \in Wanted :
        Begin(w, [Idle EXCEPT !.op = "name", !.at = "getSession", !.cookie = k,
                              !.want = n])
ChangeAvatar(w) ==
    \E k \in DOMAIN sessions, a \in Avatars :
        Begin(w, [Idle EXCEPT !.op = "avatar", !.at = "getSession", !.cookie = k,
                              !.want = a])

\* The request goes on to its next call, or is answered.
GoOn(w, call)   == job' = [job EXCEPT ![w].at = call]
Answer(w, what) == job' = [job EXCEPT ![w].at = "done", ![w].answer = what]

-----------------------------------------------------------------------------
(* Signing in.                                                             *)

\* The code is exchanged for a token; with that of Twitter comes the user's id, and
\* GitHub and Google are asked for it.  The uid is a hash of the id.
TokenComes(w) ==
    /\ job[w].at = "token"
    /\ GoOn(w, IF Provider[job[w].uid] = "twitter" THEN "lookup" ELSE "userinfo")
    /\ UNCHANGED <<userDb, sessions, replicated, owner, jobs>>
UserinfoComes(w) ==
    /\ job[w].at = "userinfo" /\ GoOn(w, "lookup")
    /\ UNCHANGED <<userDb, sessions, replicated, owner, jobs>>

\* The provider refuses, cannot be reached, or answers without an id.
ProviderFails(w) ==
    /\ job[w].at \in {"token", "userinfo"} /\ Faults
    /\ Answer(w, "authFailed")
    /\ UNCHANGED <<userDb, sessions, replicated, owner, jobs>>

\* user_info() finds the account: its name and avatar go into the session.
LookupFinds(w) ==
    /\ job[w].at = "lookup"
    /\ \E d \in Account(job[w].uid) :
         job' = [job EXCEPT ![w].at = "setSession", ![w].content = {Session(d)}]
    /\ UNCHANGED <<userDb, sessions, replicated, owner, jobs>>

\* user_info() says "error": there is no account, or the call failed.
LookupFails(w) ==
    /\ job[w].at = "lookup" /\ (Faults \/ Account(job[w].uid) = {})
    /\ GoOn(w, "register")
    /\ UNCHANGED <<userDb, sessions, replicated, owner, jobs>>

\* A registration that takes every answer for a success.
RegisterMutant(w) ==
    /\ job[w].at = "register"
    /\ userDb' = IF Account(job[w].uid) = {} THEN userDb \cup {NewDoc(job[w].uid)}
                                             ELSE userDb
    /\ job' = [job EXCEPT ![w].at = "setSession",
                          ![w].content = {Session(NewDoc(job[w].uid))}]
    /\ UNCHANGED <<sessions, replicated, owner, jobs>>

\* A registration that writes its document over an older one.
RegisterMutantOver(w) ==
    /\ job[w].at = "register"
    /\ userDb' = (userDb \ Account(job[w].uid)) \cup {NewDoc(job[w].uid)}
    /\ job' = [job EXCEPT ![w].at = "setSession",
                          ![w].content = {Session(NewDoc(job[w].uid))}]
    /\ UNCHANGED <<sessions, replicated, owner, jobs>>

\* A registration that does not look whether the account exists.
RegisterMutantTwice(w) ==
    /\ job[w].at = "register"
    /\ userDb' = userDb \cup {NewDoc(job[w].uid)}
    /\ job' = [job EXCEPT ![w].at = "setSession",
                          ![w].content = {Session(NewDoc(job[w].uid))}]
    /\ UNCHANGED <<sessions, replicated, owner, jobs>>

\* PUT of the new document.  CouchDB creates it (201), or answers 409 if there
\* is one already: the PUT names no revision.
Register(w) ==
    /\ job[w].at = "register"
    /\ IF Account(job[w].uid) = {}
         THEN /\ userDb' = userDb \cup {NewDoc(job[w].uid)}
              /\ job' = [job EXCEPT ![w].at = "setSession",
                                    ![w].content = {Session(NewDoc(job[w].uid))}]
         ELSE Answer(w, "registerFailed") /\ UNCHANGED userDb
    /\ UNCHANGED <<sessions, replicated, owner, jobs>>

\* The PUT fails: before CouchDB has seen it, or with only the answer lost.
RegisterFails(w) ==
    /\ job[w].at = "register" /\ Faults
    /\ \/ UNCHANGED userDb
       \/ Account(job[w].uid) = {} /\ userDb' = userDb \cup {NewDoc(job[w].uid)}
    /\ Answer(w, "registerFailed")
    /\ UNCHANGED <<sessions, replicated, owner, jobs>>

\* SetSession() stores the result under a new random cookie, on the master.
SetSession(w) ==
    /\ job[w].at = "setSession"
    /\ \E c \in job[w].content : sessions' = Append(sessions, c)
    /\ owner' = Append(owner, job[w].uid)
    /\ job' = [job EXCEPT ![w].at = "done", ![w].answer = "signedIn",
                          ![w].cookie = Len(sessions) + 1]
    /\ UNCHANGED <<userDb, replicated, jobs>>

\* Redis is away: the exception ends the request as a 500.
RedisFails(w) ==
    /\ job[w].at \in {"setSession", "getSession"} /\ Faults
    /\ Answer(w, "error500")
    /\ UNCHANGED <<userDb, sessions, replicated, owner, jobs>>

\* A replica ahead of its master.
ReplicateMutant ==
    /\ replicated <= Len(sessions)
    /\ replicated' = replicated + 1
    /\ UNCHANGED <<userDb, sessions, owner, job, jobs>>

\* The replica receives the next write of the master.
Replicate ==
    /\ replicated < Len(sessions)
    /\ replicated' = replicated + 1
    /\ UNCHANGED <<userDb, sessions, owner, job, jobs>>

-----------------------------------------------------------------------------
(* Settings.                                                               *)

\* GetSession() on the replica: a cookie it does not have yet is no session.
GetSession(w) ==
    /\ job[w].at = "getSession"
    /\ IF job[w].cookie <= replicated
         THEN LET u == sessions[job[w].cookie].uid IN
              job' = [job EXCEPT
                         ![w].at = IF job[w].op = "name" THEN "check" ELSE "putAvatar",
                         ![w].uid = u]
         ELSE Answer(w, "forbidden")
    /\ UNCHANGED <<userDb, sessions, replicated, owner, jobs>>

\* user_info_by_name() finds nobody, or the call failed, which is the same to
\* change_username(): then the name must match the regular expression.
CheckSaysFree(w) ==
    /\ job[w].at = "check" /\ (Faults \/ Holders(job[w].want) = {})
    /\ IF job[w].want \in Valid THEN GoOn(w, "putName") ELSE Answer(w, "invalid")
    /\ UNCHANGED <<userDb, sessions, replicated, owner, jobs>>

CheckSaysTaken(w) ==
    /\ job[w].at = "check" /\ Holders(job[w].want) # {}
    /\ Answer(w, "exists")
    /\ UNCHANGED <<userDb, sessions, replicated, owner, jobs>>

\* A changeName that does not look at doc.changed.
RenamedMutant(d, n) == {[d EXCEPT !.name = n, !.changed = TRUE]}

\* The update functions of databases/user.json, on document d.
Renamed(d, n) == IF d.changed THEN {} ELSE {[d EXCEPT !.name = n, !.changed = TRUE]}
Repainted(d, a) == {[d EXCEPT !.avatar = a]}

\* A PUT to an update function that turns the user's document into new, or
\* refuses ({}).  CouchDB applies it, and the answer tells or is lost; or nothing
\* happens: the function refuses, there is a conflict, or the call fails.
Put(w, new) ==
    /\ \/ /\ new # {} /\ userDb' = (userDb \ Account(job[w].uid)) \cup new
          /\ Answer(w, "success") \/ (Faults /\ Answer(w, "refused"))
       \/ Answer(w, "refused") /\ UNCHANGED userDb
    /\ UNCHANGED <<sessions, replicated, owner, jobs>>

PutName(w) ==
    /\ job[w].at = "putName"
    /\ Put(w, UNION {Renamed(d, job[w].want) : d \in Account(job[w].uid)})

PutAvatar(w) ==
    /\ job[w].at = "putAvatar"
    /\ Put(w, UNION {Repainted(d, job[w].want) : d \in Account(job[w].uid)})

-----------------------------------------------------------------------------
Arrives(w) == Login(w) \/ ChangeName(w) \/ ChangeAvatar(w)
SignsIn(w) ==
    \/ TokenComes(w) \/ UserinfoComes(w) \/ ProviderFails(w)
    \/ LookupFinds(w) \/ LookupFails(w) \/ Register(w) \/ RegisterFails(w)
    \/ SetSession(w) \/ RedisFails(w)
Settles(w) ==
    \/ GetSession(w) \/ CheckSaysFree(w) \/ CheckSaysTaken(w)
    \/ PutName(w) \/ PutAvatar(w)

\* The program ends, for one by an answer to its online counter that is not a number
\* (utils.cpp:155: std::stoi throws, and nothing in that thread catches it), and loop.sh
\* begins it again: nobody gets an answer.  What the calls under way had reached stays
\* done.
Restarts ==
    /\ Faults /\ \E w \in Workers : job[w].at # "done"
    /\ job' = [w \in Workers |->
                  IF job[w].at = "done" THEN job[w]
                  ELSE [job[w] EXCEPT !.at = "done", !.answer = "lost"]]
    /\ UNCHANGED <<userDb, sessions, replicated, owner, jobs>>

\* All requests there may be are answered.
Finished ==
    /\ jobs = MaxJobs /\ replicated = Len(sessions)
    /\ \A w \in Workers : job[w].at = "done"
    /\ UNCHANGED vars

Next ==
    \/ \E w \in Workers : Arrives(w) \/ SignsIn(w) \/ Settles(w)
    \/ Restarts \/ Replicate \/ Finished

Spec == Init /\ [][Next]_vars
-----------------------------------------------------------------------------
(* Properties.                                                             *)

Jobs == [op : {"none", "login", "name", "avatar"}, at : Calls,
         uid : Users \cup {None}, cookie : Nat,
         want : Names \cup Avatars \cup {None},
         content : SUBSET Contents, known : SUBSET Docs,
         answer : Answers]

\* Every variable has its type.
TypeOK ==
    /\ userDb \subseteq Docs
    /\ sessions \in Seq(Contents) /\ replicated \in 0 .. Len(sessions)
    /\ owner \in Seq(Users) /\ Len(owner) = Len(sessions)
    /\ job \in [Workers -> Jobs] /\ jobs \in 0 .. MaxJobs

\* A uid has one account for good.  It is not registered a second time by a
\* login whose user_info() failed, or by two first logins at once.
AccountsStay ==
    /\ \A d, e \in userDb : d.uid = e.uid => d = e
    /\ \A k \in DOMAIN sessions : Account(sessions[k].uid) # {}

\* The settings page says that a name can be changed once
\* (templates/settings.html:54): whatever requests race and fail, nobody's name
\* takes a third value, and it never goes back.
NameChangesOnce ==
    [][\A d \in userDb, e \in userDb' :
          (d.uid = e.uid /\ d.name # e.name) => ~d.changed /\ e.changed]_vars

\* An account changes only through a session of its own user: the one who
\* signed in to get the cookie of the request (owner), however that login went.
OnlyOwnerChanges ==
    [][\A d \in userDb : d \notin userDb' =>
          \E w \in Workers :
              /\ job[w].at \in {"putName", "putAvatar"} /\ job'[w].at = "done"
              /\ owner[job[w].cookie] = d.uid]_vars

\* Whoever signs in after the name was changed gets a session with the new
\* name, and not the name the account was registered with.
LoginSeesChange ==
    \A w \in Workers :
        job[w].answer = "signedIn" =>
            \A d \in job[w].known : d.changed => sessions[job[w].cookie].name = d.name

\* The inductive invariant, of the accounts and the sessions, and of each request: whose
\* it is, that what it is about to store is of its own user, and that an account whose
\* name had been changed when it came still has this name.
Unique == \A d, e \in userDb : d.uid = e.uid => d = e
SessionsOwned ==
    \A k \in DOMAIN sessions : sessions[k].uid = owner[k] /\ Account(owner[k]) # {}
StillChanged(d) == d.changed => \E e \in userDb : e.uid = d.uid /\ e.name = d.name /\ e.changed
SigningIn == {"token", "userinfo", "lookup", "register", "setSession"}
Request(w) ==
    /\ job[w].at # "done" => job[w].answer = "none"
    /\ job[w].at \in SigningIn => job[w].uid \in Users
    /\ \A d \in job[w].known : StillChanged(d) /\ (job[w].at \in SigningIn => d.uid = job[w].uid)
    /\ job[w].at = "setSession" =>
          /\ Account(job[w].uid) # {}
          /\ \E c \in Contents :
                /\ job[w].content = {c} /\ c.uid = job[w].uid
                /\ \A d \in job[w].known : d.changed => c.name = d.name
    /\ job[w].at \in {"getSession", "check", "putName", "putAvatar"} =>
          job[w].cookie \in DOMAIN sessions
    /\ job[w].at \in {"check", "putName", "putAvatar"} => job[w].uid = owner[job[w].cookie]
    /\ job[w].at = "getSession" => job[w].op \in {"name", "avatar"}
    /\ job[w].op = "name" \/ job[w].at \in {"check", "putName"} => job[w].want \in Names
    /\ job[w].op = "avatar" \/ job[w].at = "putAvatar" => job[w].want \in Avatars
    /\ job[w].answer = "signedIn" =>
          /\ job[w].cookie \in DOMAIN sessions
          /\ \A d \in job[w].known : d.changed => sessions[job[w].cookie].name = d.name
IInv == TypeOK /\ Unique /\ SessionsOwned /\ \A w \in Workers : Request(w)

\* "Username already exits" (api.cpp:365): no two accounts have the same name.
UsernamesUnique == \A d, e \in userDb : d.name = e.name => d.uid = e.uid
=============================================================================
