-------------------------------- MODULE Forum --------------------------------
(***************************************************************************)
(* Topics, replies, mentions and notifications (src/api.cpp:239-402, with  *)
(* the routes of src/main.cpp that call them), and a reader who goes       *)
(* through the pages of a list of topics.                                  *)
(*                                                                         *)
(* A request is served by a worker that makes one blocking call to CouchDB *)
(* after the other; workers interleave between the calls and any call may  *)
(* fail, before CouchDB has acted or after.  CouchDB runs an update        *)
(* function (databases/topics.json, databases/notification.json) on the    *)
(* document it has read, and saves the result only if the document is      *)
(* still the same revision: otherwise the PUT is answered 409.             *)
(*                                                                         *)
(* A text is the sequence of the names it mentions: those that             *)
(* "@(.*?) " matches.  Sessions carry the name their user had when signing *)
(* in; an account may change its name later (module Accounts).             *)
(***************************************************************************)
EXTENDS Naturals, Sequences, FiniteSets, SequencesExt

CONSTANTS
    Users,      \* accounts
    Names,      \* user names
    SignedIn,   \* [Users -> Names], the name in the session of each user
    Texts,      \* what people write: sequences of mentioned names
    Categories, \* ids of the categories, without 0
    First,      \* the topics there are at the start
    PerPage,    \* TOPIC_PER_PAGE
    Workers,    \* threads that serve requests
    Faults,     \* may calls to CouchDB fail?
    MaxJobs     \* bound on the number of requests

ASSUME UsersAssumption ==
    Users # {} /\ "nobody" \notin Users /\ SignedIn \in [Users -> Names]
ASSUME TextsAssumption == Texts \subseteq Seq(Names) /\ <<>> \in Texts
ASSUME CategoriesAssumption == Categories \subseteq Nat \ {0}
ASSUME BoundsAssumption ==
    PerPage \in Nat \ {0} /\ MaxJobs \in Nat /\ Faults \in BOOLEAN

VARIABLES
    topics,     \* database "topics": the documents in the order they were made
    notes,      \* database "notification": one document per user
    names,      \* database "user": the name each account has now
    clock,      \* time(0), advanced by every write
    job,        \* what every worker is doing
    jobs,       \* number of requests so far
    reader,     \* somebody who goes through the pages
    gone        \* not in the program: the notifications removed so far

vars == <<topics, notes, names, clock, job, jobs, reader, gone>>

Replies == [by : Names, text : Texts]
Topics  == [by : Names, text : Texts, category : Categories, last : Nat,
            replies : Seq(Replies)]

\* Each was written at a time of its own.
ASSUME FirstAssumption ==
    /\ First \in Seq(Topics) /\ First # <<>>
    /\ \A t \in DOMAIN First : First[t].last <= Len(First)
    /\ \A s, t \in DOMAIN First : First[s].last = First[t].last => s = t

\* link is a topic, or 0 for the text of an error; job and mention, which are not
\* in the program, say which mention of which request the notification is for.
Notes == [from : Names, link : Nat, job : 1 .. MaxJobs, mention : Nat]

\* rev 0: the document does not exist yet.
NoNotes == [rev |-> 0, list |-> <<>>]

\* A request: its number, what it is and the next call it makes, whose session it
\* came with, its text, its topic or category, how many mentions are dealt with,
\* the user it tells, the document CouchDB has read for a PUT, the answer and,
\* not in the program, whether a call failed or met a conflict, and the
\* notifications there were when a clearing request was read.
Idle == [no |-> 0, op |-> "none", at |-> "done", uid |-> "nobody", text |-> <<>>,
         topic |-> 0, mention |-> 1, told |-> "nobody", read |-> 0,
         answer |-> "none", lost |-> FALSE, there |-> {}]

Calls   == {"post", "reply", "saveReply", "lookup", "notify", "saveNote",
            "clear", "saveClear", "done"}
Answers == {"none", "id", "post failed", "Post success", "clear", "refused"}

-----------------------------------------------------------------------------
(* The lists of topics: views of databases/topics.json by last reply, the  *)
(* latest first.  Category 0 is the view "new".                            *)

Listed(c) == {t \in DOMAIN topics : c = 0 \/ topics[t].category = c}

\* Those that come before a topic; the mutant reads the view without descending=true.
AheadMutant(t, c) == {s \in Listed(c) : topics[s].last < topics[t].last}
Ahead(t, c)       == {s \in Listed(c) : topics[s].last > topics[t].last}

\* get_new_topic(page, c): the next PerPage rows after (page-1) * PerPage.  No rows at
\* all is the same as an error.
NewTopics(page, c) ==
    LET skip == (page - 1) * PerPage
    IN {t \in Listed(c) : Cardinality(Ahead(t, c)) \in skip .. skip + PerPage - 1}

\* Somebody is going to read, or nobody is.
NotReading(at) == [page |-> 0, category |-> 0, seen |-> {}, began |-> {}, since |-> 0,
                   at |-> at]

\* Bounds on what people do.  While somebody reads, it is one of them who posts, the
\* texts mention nobody and no notifications are cleared, none of which touches the
\* lists; while nobody does, every text mentions somebody, and one category, and one
\* topic that exists and one that does not (yet), are enough.
Reading       == reader.at # "nobody"
UsersNow      == IF Reading THEN {CHOOSE u \in Users : TRUE} ELSE Users
TextsNow      == IF Reading THEN {<<>>} ELSE Texts \ {<<>>}
CategoriesNow == IF Reading THEN Categories ELSE {First[1].category}
TopicsNow     == IF Reading THEN DOMAIN topics ELSE {1, Len(topics) + 1}

-----------------------------------------------------------------------------
Init ==
    /\ topics = First
    /\ notes = [u \in Users |-> NoNotes] /\ gone = [u \in Users |-> {}]
    /\ names = SignedIn /\ clock = Len(First)
    /\ job = [w \in Workers |-> Idle] /\ jobs = 0
    /\ reader \in {NotReading("idle"), NotReading("nobody")}

-----------------------------------------------------------------------------
(* Requests.                                                               *)

Begin(w, j) ==
    /\ job[w].at = "done" /\ jobs < MaxJobs
    /\ jobs' = jobs + 1
    /\ job' = [job EXCEPT ![w] = [j EXCEPT !.no = jobs']]
    /\ UNCHANGED <<topics, notes, names, clock, reader, gone>>

\* /api/post/new and /api/post/reply/<topic>; the topic of a reply may not exist.
NewTopic(w) ==
    \E u \in UsersNow, x \in TextsNow, c \in CategoriesNow :
        Begin(w, [Idle EXCEPT !.op = "topic", !.at = "post", !.uid = u,
                              !.text = x, !.topic = c])
NewReply(w) ==
    \E u \in UsersNow, x \in TextsNow, t \in TopicsNow :
        Begin(w, [Idle EXCEPT !.op = "reply", !.at = "reply", !.uid = u,
                              !.text = x, !.topic = t])

\* /api/notification/clear.
Clear(w) ==
    \E u \in Users :
        /\ ~Reading
        /\ Begin(w, [Idle EXCEPT !.op = "clear", !.at = "clear", !.uid = u])

\* A request that fails a check of its route (not an ajax call, wrong page, no
\* session, text too long, no such category) is answered before anything happens.
Refuse(w) == Begin(w, [Idle EXCEPT !.op = "refused", !.answer = "refused"])

-----------------------------------------------------------------------------
(* post_topic().                                                           *)

\* A topic signed with the uid of the session, not with its name.
DocumentMutant(j) == [by |-> j.uid, text |-> j.text, category |-> j.topic,
                      last |-> clock + 1, replies |-> <<>>]

Document(j) == [by |-> SignedIn[j.uid], text |-> j.text, category |-> j.topic,
                last |-> clock + 1, replies |-> <<>>]

\* The answer is sent; then check_at_notification() looks at the mentions.
Answered(w, what, link, lost) ==
    job' = [job EXCEPT ![w].at = "lookup", ![w].answer = what, ![w].topic = link,
                       ![w].read = 0, ![w].lost = lost]

\* A route that answers an id before the topic is stored.
StoreTopicMutant(w) ==
    /\ job[w].at = "post"
    /\ Answered(w, "id", Len(topics) + 1, FALSE)
    /\ \/ topics' = Append(topics, Document(job[w])) /\ clock' = clock + 1
       \/ UNCHANGED <<topics, clock>>
    /\ UNCHANGED <<notes, names, jobs, reader, gone>>

\* CouchDB stores the topic under a new id and answers with it.
StoreTopic(w) ==
    /\ job[w].at = "post"
    /\ topics' = Append(topics, Document(job[w])) /\ clock' = clock + 1
    /\ Answered(w, "id", Len(topics) + 1, FALSE)
    /\ UNCHANGED <<notes, names, jobs, reader, gone>>

\* The POST fails, stored or not; the mentions are looked at all the same, with
\* the error for a topic id.
PostFails(w) ==
    /\ job[w].at = "post" /\ Faults
    /\ \/ topics' = Append(topics, Document(job[w])) /\ clock' = clock + 1
       \/ UNCHANGED <<topics, clock>>
    /\ Answered(w, "post failed", 0, TRUE)
    /\ UNCHANGED <<notes, names, jobs, reader, gone>>

-----------------------------------------------------------------------------
(* add_reply(): its result is not looked at, the answer is "Post success". *)

\* CouchDB reads the document, of which read keeps the revision; addReplyX
\* answers "Not found" when there is none, and nothing is saved.
ReadTopic(w) ==
    /\ job[w].at = "reply"
    /\ IF job[w].topic \in DOMAIN topics
         THEN job' = [job EXCEPT ![w].at = "saveReply",
                                 ![w].read = Len(topics[job[w].topic].replies)]
         ELSE Answered(w, "Post success", job[w].topic, FALSE)
    /\ UNCHANGED <<topics, notes, names, clock, jobs, reader, gone>>

\* addReplyX pushes a reply on the replies read, and makes it the last one.
AddReplyX(doc, j) ==
    [doc EXCEPT !.replies = Append(SubSeq(doc.replies, 1, j.read),
                                   [by |-> SignedIn[j.uid], text |-> j.text]),
                !.last = clock + 1]

\* An update that does not look at the revision.
SaveReplyMutant(w) ==
    /\ job[w].at = "saveReply"
    /\ topics' = [topics EXCEPT ![job[w].topic] = AddReplyX(@, job[w])]
    /\ clock' = clock + 1
    /\ Answered(w, "Post success", job[w].topic, FALSE)
    /\ UNCHANGED <<notes, names, jobs, reader, gone>>

SaveReply(w) ==
    /\ job[w].at = "saveReply"
    /\ IF Len(topics[job[w].topic].replies) = job[w].read
         THEN /\ topics' = [topics EXCEPT ![job[w].topic] = AddReplyX(@, job[w])]
              /\ clock' = clock + 1
              /\ \/ Answered(w, "Post success", job[w].topic, FALSE)
                 \/ Faults /\ Answered(w, "Post success", job[w].topic, TRUE)
         ELSE /\ Answered(w, "Post success", job[w].topic, TRUE)
              /\ UNCHANGED <<topics, clock>>
    /\ UNCHANGED <<notes, names, jobs, reader, gone>>

ReplyFails(w) ==
    /\ job[w].at \in {"reply", "saveReply"} /\ Faults
    /\ Answered(w, "Post success", job[w].topic, TRUE)
    /\ UNCHANGED <<topics, notes, names, clock, jobs, reader, gone>>

-----------------------------------------------------------------------------
(* check_at_notification(): one mention after the other.                   *)

Mentioned(j) == {u \in Users : j.mention <= Len(j.text) /\ names[u] = j.text[j.mention]}
NextMention(w, lost) ==
    job' = [job EXCEPT ![w].at = "lookup", ![w].mention = @ + 1, ![w].told = "nobody",
                       ![w].read = 0, ![w].lost = @ \/ lost]

\* user_info_by_name() finds the accounts that have the name now.  Which of them is
\* in the first row, the only one that is told, is decided by their ids.
LookupFinds(w) ==
    /\ job[w].at = "lookup"
    /\ \E u \in Mentioned(job[w]) :
          job' = [job EXCEPT ![w].at = "notify", ![w].told = u]
    /\ UNCHANGED <<topics, notes, names, clock, jobs, reader, gone>>

\* It finds nobody, or the call fails: the mention is passed over.
LookupFails(w) ==
    /\ job[w].at = "lookup" /\ job[w].mention <= Len(job[w].text)
    /\ \/ Mentioned(job[w]) = {} /\ NextMention(w, FALSE)
       \/ Faults /\ NextMention(w, TRUE)
    /\ UNCHANGED <<topics, notes, names, clock, jobs, reader, gone>>

NoMoreMentions(w) ==
    /\ job[w].at = "lookup" /\ job[w].mention > Len(job[w].text)
    /\ job' = [job EXCEPT ![w].at = "done"]
    /\ UNCHANGED <<topics, notes, names, clock, jobs, reader, gone>>

Note(j) == [from |-> SignedIn[j.uid], link |-> j.topic, job |-> j.no,
            mention |-> j.mention]

\* CouchDB reads the user's document, of which read keeps the revision.
ReadNotes(w) ==
    /\ job[w].at = "notify"
    /\ job' = [job EXCEPT ![w].at = "saveNote", ![w].read = notes[job[w].told].rev]
    /\ UNCHANGED <<topics, notes, names, clock, jobs, reader, gone>>

\* An addNotification that starts a new list.
AddNotificationMutant(doc, n) == [rev |-> doc.rev + 1, list |-> <<n>>]

\* addNotification: a document for a user who has none, and the new one in front.
AddNotification(doc, n) == [rev |-> doc.rev + 1, list |-> <<n>> \o doc.list]

\* add_notification() takes both 200 and 201 for success, but nobody looks.
SaveNote(w) ==
    LET u == job[w].told IN
    /\ job[w].at = "saveNote"
    /\ IF notes[u].rev = job[w].read
         THEN notes' = [notes EXCEPT ![u] = AddNotification(@, Note(job[w]))]
         ELSE UNCHANGED notes
    /\ \/ NextMention(w, notes[u].rev # job[w].read)
       \/ Faults /\ NextMention(w, TRUE)
    /\ UNCHANGED <<topics, names, clock, jobs, reader, gone>>

NotifyFails(w) ==
    /\ job[w].at \in {"notify", "saveNote"} /\ Faults
    /\ NextMention(w, TRUE)
    /\ UNCHANGED <<topics, notes, names, clock, jobs, reader, gone>>

-----------------------------------------------------------------------------
(* clear_notification().                                                   *)

Cleared(w) == job' = [job EXCEPT ![w].at = "done", ![w].answer = "clear"]

\* removeAll answers "404" when the user has no document.
ReadForClear(w) ==
    /\ job[w].at = "clear"
    /\ IF notes[job[w].uid].rev > 0
         THEN job' = [job EXCEPT ![w].at = "saveClear",
                                 ![w].read = notes[job[w].uid].rev,
                                 ![w].there = ToSet(notes[job[w].uid].list)]
         ELSE Cleared(w)
    /\ UNCHANGED <<topics, notes, names, clock, jobs, reader, gone>>

\* A removal that does not look at the revision.
SaveClearMutant(w) ==
    LET u == job[w].uid IN
    /\ job[w].at = "saveClear"
    /\ notes' = [notes EXCEPT ![u] = [rev |-> @.rev + 1, list |-> <<>>]]
    /\ gone' = [gone EXCEPT ![u] = @ \cup ToSet(notes[u].list)]
    /\ Cleared(w)
    /\ UNCHANGED <<topics, names, clock, jobs, reader>>

SaveClear(w) ==
    LET u == job[w].uid IN
    /\ job[w].at = "saveClear"
    /\ IF notes[u].rev = job[w].read
         THEN /\ notes' = [notes EXCEPT ![u] = [rev |-> @.rev + 1, list |-> <<>>]]
              /\ gone' = [gone EXCEPT ![u] = @ \cup ToSet(notes[u].list)]
         ELSE UNCHANGED <<notes, gone>>
    /\ Cleared(w)
    /\ UNCHANGED <<topics, names, clock, jobs, reader>>

ClearFails(w) ==
    /\ job[w].at \in {"clear", "saveClear"} /\ Faults
    /\ Cleared(w)
    /\ UNCHANGED <<topics, notes, names, clock, jobs, reader, gone>>

-----------------------------------------------------------------------------
(* Others: an account changes its name, a reader goes through the pages.   *)

\* changeName, once for every account.  The name may be taken, by then or already: the
\* look-up before it is a call of its own, which another request may overtake and
\* which takes a failure for a free name (run accounts_names), and who registers is
\* not looked up at all.
Rename(u) ==
    /\ names[u] = SignedIn[u] /\ ~Reading
    /\ \E n \in Names \ {names[u]} : names' = [names EXCEPT ![u] = n]
    /\ UNCHANGED <<topics, notes, clock, job, jobs, reader, gone>>

\* /, or /node/<category>/1: the list is opened.
OpenList ==
    /\ reader.at = "idle"
    /\ \E c \in Categories \cup {0} :
         reader' = [page |-> 1, category |-> c, seen |-> {}, began |-> Listed(c),
                    since |-> clock, at |-> "reading"]
    /\ UNCHANGED <<topics, notes, names, clock, job, jobs, gone>>

\* /page/<int> and /node/<string>/<int>: the next page, or 404 or 500 after the last.
TurnPage ==
    /\ reader.at = "reading"
    /\ LET rows == NewTopics(reader.page, reader.category) IN
       reader' = IF rows = {}
                   THEN [reader EXCEPT !.at = "end"]
                   ELSE [reader EXCEPT !.page = @ + 1, !.seen = @ \cup rows]
    /\ UNCHANGED <<topics, notes, names, clock, job, jobs, gone>>

\* The call fails: to the reader it looks like the end.
PageFails ==
    /\ reader.at = "reading" /\ Faults
    /\ reader' = [reader EXCEPT !.at = "failed"]
    /\ UNCHANGED <<topics, notes, names, clock, job, jobs, gone>>

-----------------------------------------------------------------------------
Arrives(w)  == NewTopic(w) \/ NewReply(w) \/ Clear(w) \/ Refuse(w)
Posts(w)    == StoreTopic(w) \/ PostFails(w) \/ ReadTopic(w) \/ SaveReply(w) \/ ReplyFails(w)
Mentions(w) == LookupFinds(w) \/ LookupFails(w) \/ NoMoreMentions(w)
               \/ ReadNotes(w) \/ SaveNote(w) \/ NotifyFails(w)
Clears(w)   == ReadForClear(w) \/ SaveClear(w) \/ ClearFails(w)

\* All requests there may be are served.
Finished ==
    /\ jobs = MaxJobs /\ \A w \in Workers : job[w].at = "done"
    /\ UNCHANGED vars

Next ==
    \/ \E w \in Workers : Arrives(w) \/ Posts(w) \/ Mentions(w) \/ Clears(w)
    \/ \E u \in Users : Rename(u)
    \/ OpenList \/ TurnPage \/ PageFails \/ Finished

Spec == Init /\ [][Next]_vars
-----------------------------------------------------------------------------
(* Properties.                                                             *)

Jobs == [no : 0 .. MaxJobs, op : {"none", "topic", "reply", "clear", "refused"},
         at : Calls, uid : Users \cup {"nobody"}, text : Texts,
         topic : Nat, mention : Nat \ {0}, told : Users \cup {"nobody"}, read : Nat,
         answer : Answers, lost : BOOLEAN, there : SUBSET Notes]

\* Every variable has its type.
TypeOK ==
    /\ topics \in Seq(Topics) /\ names \in [Users -> Names]
    /\ notes \in [Users -> [rev : Nat, list : Seq(Notes)]]
    /\ gone \in [Users -> SUBSET Notes]
    /\ job \in [Workers -> Jobs] /\ jobs \in 0 .. MaxJobs /\ clock \in Nat

\* Nothing anybody wrote is lost, whatever requests race: topics stay as they were
\* posted, and a reply is only ever added behind the ones that were there.
TextsAreKept ==
    [][\A t \in DOMAIN topics :
          /\ t \in DOMAIN topics'
          /\ topics'[t].by = topics[t].by /\ topics'[t].text = topics[t].text
          /\ IsPrefix(topics[t].replies, topics'[t].replies)]_vars

\* An author who is answered with an id finds the topic under it, signed with the
\* name of the session; and, while no call fails or meets a conflict, "Post
\* success" means that the topic has the reply, if there is such a topic.
AnswersAreTrue ==
    \A w \in Workers :
        LET j == job[w]
            mine == [by |-> SignedIn[j.uid], text |-> j.text]
        IN /\ j.answer = "id" =>
                 /\ j.topic \in DOMAIN topics
                 /\ topics[j.topic].by = mine.by /\ topics[j.topic].text = mine.text
           /\ (j.answer = "Post success" /\ ~j.lost /\ j.topic \in DOMAIN First) =>
                 mine \in ToSet(topics[j.topic].replies)

\* Every notification that somebody has had, and whether one is for the m-th mention
\* of a request.
Had(u)          == ToSet(notes[u].list) \cup gone[u]
ToldOf(u, j, m) == \E n \in Had(u) : n.job = j.no /\ n.mention = m
\* Somebody kept the name.
Kept(name) == \E u \in Users : names[u] = SignedIn[u] /\ SignedIn[u] = name

\* Nobody is told of one mention twice, not even after they cleared it.
NotesDiffer ==
    \A u \in Users :
        /\ \A i, k \in DOMAIN notes[u].list :
              /\ notes[u].list[i].job = notes[u].list[k].job
              /\ notes[u].list[i].mention = notes[u].list[k].mention
              => i = k
        /\ \A i \in DOMAIN notes[u].list, n \in gone[u] :
              n.job = notes[u].list[i].job => n.mention # notes[u].list[i].mention

\* Whoever is told is, or was, called what the text says, and of one mention no two
\* accounts are told, whatever names they share.
ToldAreMeant(j) ==
    \A u \in Users : \A n \in Had(u) : n.job = j.no =>
        /\ n.mention \in DOMAIN j.text /\ j.text[n.mention] \in {SignedIn[u], names[u]}
        /\ \A v \in Users : ToldOf(v, j, n.mention) => u = v

\* When all mentions of a text are dealt with, each has told one account at most, and
\* once, whose name it is or was; and it has told one if anybody has kept that name,
\* unless a call failed or two updates met.  So whoever shares their name with nobody
\* and keeps it is told, once, of every time a text mentions them.
MentionsNotify ==
    NotesDiffer /\ \A w \in Workers :
        LET j == job[w] IN
        j.at = "done" =>
            /\ ToldAreMeant(j)
            /\ ~j.lost => \A m \in DOMAIN j.text :
                  Kept(j.text[m]) => \E u \in Users : ToldOf(u, j, m)

\* The inductive invariant.  A notification is for a request that has come.
NumbersDiffer ==
    /\ \A u \in Users : \A n \in Had(u) : n.job <= jobs
    /\ \A w, v \in Workers : /\ job[w].no <= jobs
                             /\ job[w].no = job[v].no /\ job[w].no # 0 => w = v

\* Of every request: what a call is made for, and where an answer comes from,
Posting == {"post", "reply", "saveReply"}
Telling == {"notify", "saveNote"}
Shape(w) ==
    LET j == job[w] IN
    /\ j.at # "done" => j.no # 0
    /\ j.op \in {"topic", "reply"} => j.uid \in Users
    /\ j.at \in Posting \cup Telling \cup {"lookup"} => j.op \in {"topic", "reply"}
    /\ j.at \in {"clear", "saveClear"} => j.op = "clear" /\ j.uid \in Users
    /\ j.at \in Posting => ~j.lost
    /\ j.at \in Telling => j.told \in Users /\ j.mention <= Len(j.text)
    /\ j.at = "post" => j.topic \in Categories
    /\ j.at \in {"clear", "saveClear", "done"} => Len(j.text) < j.mention
    /\ j.answer \in {"id", "Post success"} => j.op \in {"topic", "reply"}
\* what is stored of it,
Stored(w) ==
    LET j    == job[w]
        mine == [by |-> SignedIn[j.uid], text |-> j.text]
    IN /\ j.at = "saveReply" => j.topic \in DOMAIN topics
       /\ j.answer = "id" => /\ j.topic \in DOMAIN topics
                             /\ topics[j.topic].by = mine.by /\ topics[j.topic].text = mine.text
       /\ (j.answer = "Post success" /\ ~j.lost /\ j.topic \in DOMAIN First) =>
             mine \in ToSet(topics[j.topic].replies)
\* who has been told of it: of the mentions so far, and whom the next one will tell,
Tells(w) ==
    LET j == job[w] IN
    /\ ToldAreMeant(j)
    /\ \A u \in Users : \A n \in Had(u) : n.job = j.no => n.mention < j.mention
    /\ ~j.lost => \A m \in DOMAIN j.text :
          m < j.mention /\ Kept(j.text[m]) => \E u \in Users : ToldOf(u, j, m)
    /\ j.at \in Telling => j.text[j.mention] \in {SignedIn[j.told], names[j.told]}
\* and what it clears.
Clearing(w) ==
    LET j == job[w] IN
    j.at = "saveClear" =>
        /\ j.read <= notes[j.uid].rev
        /\ j.read = notes[j.uid].rev => ToSet(notes[j.uid].list) \subseteq j.there
Request(w) == Shape(w) /\ Stored(w) /\ Tells(w) /\ Clearing(w)
IInv ==
    /\ TypeOK /\ NumbersDiffer /\ NotesDiffer /\ Len(First) <= Len(topics)
    /\ \A w \in Workers : Request(w)

\* A notification disappears only when its own user clears, and only if it was
\* there when CouchDB began to clear: one that comes in between stays.
ClearedWereThere ==
    [][\A u \in Users :
          LET vanished == ToSet(notes[u].list) \ ToSet(notes'[u].list) IN
          vanished # {} => \E w \in Workers :
              job[w].op = "clear" /\ job[w].uid = u /\ vanished \subseteq job[w].there]_vars

\* Why: no two topics were last written at one time, and what the reader has not seen
\* comes after the pages they turned, unless it was written meanwhile.
TimesDiffer ==
    /\ \A t \in DOMAIN topics : topics[t].last <= clock
    /\ \A s, t \in DOMAIN topics : topics[s].last = topics[t].last => s = t
PagesTurned == (reader.page - 1) * PerPage
ReaderType  ==
    reader \in [page : Nat, category : Categories \cup {0}, seen : SUBSET Nat, began : SUBSET Nat,
               since : Nat, at : {"nobody", "idle", "reading", "end", "failed"}]
ReadsOn ==
    reader.at \in {"reading", "end"} =>
        /\ reader.page # 0 /\ reader.since <= clock
        /\ reader.began \subseteq Listed(reader.category)
        /\ \A t \in reader.began :
              \/ topics[t].last > reader.since \/ t \in reader.seen
              \/ reader.at = "reading" /\ Cardinality(Ahead(t, reader.category)) >= PagesTurned
PagesInv == TimesDiffer /\ ReaderType /\ ReadsOn

\* Whoever goes through all the pages of a list has seen every topic that was in it
\* at the start, except those that a reply has moved to the front meanwhile.
NothingIsMissed ==
    reader.at = "end" =>
        \A t \in reader.began : topics[t].last <= reader.since => t \in reader.seen
=============================================================================
