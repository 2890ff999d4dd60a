# LeanClub in TLA+

A verification project for LeanClub, a forum server in C++. It models the
server's own logic and the parts of the vendored libraries that the server uses,
checks them with TLC on small instances, and proves the facts that matter most
with TLAPS for every value of the constants. Paths are relative to the
repository.

## 1. The system

LeanClub is one process. An acceptor thread hands connections to 500 worker
threads in turn; each worker runs a boost::asio `io_service`, a timer queue and
the HTTP connections it was given, one completion at a time. The route handlers
of `src/main.cpp` run inside the completion of a read and block while they call
CouchDB, Redis and the OAuth providers; what different workers do interleaves
between those calls. `loop.sh` starts the process again when it ends.

| Component | State | Modules | Extent | What makes it correct |
|---|---|---|---|---|
| HTTP connection (`include/http_connection.h`, `http_response.h`, `parser.h`) | socket, read and write flags, response, deadline key | HttpConnection, HttpParser, Edge | partly | every request is answered once, in order, by its own handler; the object is deleted once, with nothing outstanding; every socket is closed |
| Timer queue (`include/dumb_timer_queue.h`) | deque of entries, `step_` | TimerQueue, Deadlines | whole | one deadline per connection, on time, cancelled only by its owner |
| Server and acceptor (`include/http_server.h`) | workers, their queues and dates, whose turn it is | Server, TimerQueue | whole | connections go to workers that are up, in turn |
| HTTP parser (`include/http_parser_merged.h`, `parser.h`) | parser state, gathered request | HttpParser, Edge | partly | however the stream is cut, the requests written are those that arrive |
| Query strings (`include/query_string.h`) | marks into a copy of the url | QueryString, Edge | whole | a parameter is what was sent under its name |
| Router (`include/routing.h`, `utility.h`, `common.h`) | trie of routes | Router, Edge | whole | the first rule that fits a url is found, its handler gets what stands in the url |
| Accounts and sessions (`src/api.cpp`, `src/utils.cpp`, `databases/user.json`) | CouchDB documents, Redis master and replica | Accounts | whole | one account per user, changed only by its user, its name once |
| Topics, replies, notifications (`src/api.cpp`, `databases/*.json`) | CouchDB documents | Forum | whole | nothing written is lost or changed, answers are true, mentions notify |
| REST client (`src/restclient`) | pool of curl handles and their options | RestClient, Services | whole | every request goes out as its own caller asked; a handle has one holder |
| Redis pool (`src/redis3m`: simple_pool, connection, reply) | pool of connections | RedisPool, Services | whole | every reply goes to who asked for it |
| Redis client library (`src/redis3m/hiredis`) | reader with a stack of tasks, buffers | RedisReader, RedisPool, Buffers | partly | cut replies are put together; texts survive the growth of buffers |
| OAuth library (`src/oauth`) | seed of the nonces | Nonces, OAuth, Digests | partly | what is signed is what is sent; nonces differ |
| JSON (`include/json.h`, `src/rapidjson`) | values | Json, Services, Buffers | partly | both readers find the same, but for a few texts that are listed; what the writer makes, both take |
| Templates (`include/mustache.h`) | actions, fragments, context stack | Mustache, Templates, Services | whole | a page is what its template means |
| Markdown (`src/sundown`, `src/pages.cpp`) | output and work buffers | Markdown, Services | partly | the markup of any post closes |
| Categories and pages (`src/pages.cpp`, `src/main.cpp`) | two maps and the menu, filled at start | Pages | whole | look-ups do not change what pages show |
| Uploads, online counter (`src/utils.cpp`) | files, one integer | Uploads, Pages | whole | a link leads to the file that was sent |
| Browser page (`static/js/main.js`) | history, address, form, pending loads | Browser | partly | the address names the page shown, replies go to the topic shown |
| Logging, settings, middleware | | | none | no middleware is installed; logs are not read by the program |

"Whole" means that every operation of the component that changes state is an
action. PROJECT.json says for each component what is left out, and lists the
hazards (races, lost answers, stale values, limits) with their lines and the
properties that watch them.

## 2. Modules

Modules that share state are one specification; modules that do not are checked
together by a module that composes them, in which a behaviour is of one
`subject` only. `Text` has what all of them need about texts.

### HttpConnection

One `crow::Connection` with its client, the kernel and the worker.

* State. `sent`, `inbound`, `rcvd`, `peer`, `phase`, `got100` are the client's;
  `sockOpen`, `rd`, `wr` the socket and the operations the reactor holds for it;
  `ioq` the completions queued in the `io_service`, first in, first out. `alive`
  says that the object is not deleted; `isReading`, `isWriting`, `closeConn`,
  `needAfter`, `needRead`, `res` are the members `is_reading`, `is_writing`,
  `close_connection_`, `need_to_call_after_handlers_`,
  `need_to_start_read_after_complete_`, `res`; `timer` stands for a live entry
  in the timer queue. `busy`, `buffer`, `dead`, `script` are the worker inside
  `parser_.feed()`: what is left to parse, whether the parser has seen the last
  message it will accept, and what the running handler still does.
* Actions. `ReadArrives`, `ReadFails`, `FeedEnds`, `ParseFails` are the read
  handler (`http_connection.h:432`) cut at the calls it makes; `HandleHeader`
  and `HandleMessage` the parser callbacks; `HandlerEnds`, `HandlerEndsAgain`,
  `HandlerThrows` the calls a route makes on its response, the last through the
  catch blocks of `routing.h:863`; `WriteCompletes` the write handler with
  `check_destroy()`; `Deadline` the callback of the timer queue. `SendHead`,
  `SendBody`, `HalfClose`, `Leave` are the client, `Receive`, `ReceiveEof`,
  `Flush`, `FlushFails` the kernel.
* Abstraction. A message is two tokens, the end of its header and of its body; a
  read delivers any number of tokens. A reply is its origin and whether it is
  the handler's page, blank, a 400 or a 500. A route is one of five kinds, by
  when it ends its response and throws. A failing `read` is an end of stream or
  an abort.
* Constants. `Pipelining`: may the client send before it is answered. The
  program is deployed behind nginx (README), which does not pipeline.
  `MayBlock`: may a reply be larger than the free send buffer.

### TimerQueue and Deadlines

`TimerQueue` is `dumb_timer_queue` with both its users. `dq` holds the entries
with an age in place of a time stamp; `step` and the keys are numbers modulo
`W`, so that the unsigned difference in `cancel()` and the wrapping of `step_`
are modelled. `add()` is two actions (the entry, then the key), `process()` four
(`ScanBegins`, `ScanPops`, `ScanCounts`, `ScanEnds`), so that the acceptor's
`StartPush`/`StartKey` may fall in between when `Overlap` is TRUE. What a data
race does inside `std::deque` is undefined and not modelled: the interleaving of
whole statements is the mildest outcome, and it is bad enough.

`Deadlines` is the abstract specification: at most one deadline per connection,
renewed and cancelled by its owner, which shuts the connection when it is
`Tick` old. `ImplementsDeadlines` is the refinement (a connection is armed when
an entry of the queue still names it).

### Accounts

Workers serve logins, name changes and avatar changes; a request is a record
whose `at` is the next blocking call: to the provider, to CouchDB, to Redis.
`userDb` is the user database, `sessions` the Redis master in the order of
writing, `replicated` how far the replica is. Every call may fail (`Faults`), a
PUT also with only its answer lost, and the process may end between two calls
and be started again. CouchDB's update functions are applied atomically or
refused, a conflict being a refusal. `owner` and the field `known` are history.

### Forum

Workers post topics and replies, notify whom a text mentions, and clear
notifications. Each blocking call is one action: a view or document read, or an
update function of `databases/*.json`, which is a read of a revision and a write
that is refused when the revision has moved. Meanwhile each user may take another
name once, also one that somebody has (nothing keeps names unique, see finding 5;
users may have the same name from the start), and then a look-up finds one of the
accounts. A reader turns the pages of the list of topics, which moves below the
reader. The list is not kept: a page is the topics before which as many stand as
the pages in front of it hold (`Ahead`). Histories (`job` fields, what was mentioned, what was seen) are used in
properties only.

### Edge, and the other borders

`Edge` goes from bytes to calls of handlers: a client writes requests, the
network cuts them anywhere, `HttpParser` (the byte machine of
`http_parser_execute` with the callbacks of `HTTPParser`) gathers them, the url
is split (`QueryString`), and `Router` finds the rule in the trie that `add()`
and `validate()` built, the arguments of the handler by the types of the rule's
text, and who ends the response. What should arrive is defined from the requests
alone (`MeantAll`, `RouteMeant`, `ParamMeant`).

`Borders` composes `Edge` with parts that share nothing with it: `OAuth`
(requests to Twitter are signed, then written, by several workers; each of its
steps is one of `Nonces`, which has the seeding of the library and what is drawn,
with the texts of the request added), `Digests`
(SHA-1, MD5 and HMAC up to the transformation of a block), `Browser` (the
history and the loads of the page), `Pages` (categories, lists, topics, posting
through the values of json.h), `Uploads` (files saved by several workers, with
ends of the process), `Server` (workers, dates, the acceptor) and `Buffers` (the
growing buffers of hiredis, rapidjson and hoedown under all these texts).

### Services

`RedisPool` is a pool of connections with callers, a server that crashes and
comes back, and replies that arrive in parts (`RedisReader`, in which a text is a
sequence of symbols, a byte or a whole number each, and the loops of the code are
recursive functions of the number of rounds). `RestClient` is
the pool of curl handles with the options that stay on them. `Json` has both
readers: values of json.h, and those of rapidjson as its handler builds them on
a stack; a character that TLA+ has no text of, like half of a surrogate pair, is
written as its code. dump() has the way of a number through a double and an int,
in decimal digits: how a double rounds (a half in the seventh decimal place, more
than fifteen digits) is left out. Readers and writer were compared with the
compiled code on some twenty thousand random texts. `Mustache` renders what `Templates` says templates mean. `Markdown` is
the renderer with the extensions the program enables. The model of the templates
was compared with the compiled code on several thousand random templates.

## 3. Runs

| Run | Shows |
|---|---|
| connection | all safety properties of a connection whose client does not pipeline, and that its socket is closed in the end |
| connection_unblocked | the object is deleted too, if no write blocks |
| connection_exceptions | **violated**: "any uncaught exceptions become 500s": a request that threw gets its page, and the one after it, whose handler is not called, the 500 |
| connection_leaks | **violated**: idle objects are deleted |
| connection_pipelined | **violated**: no completion is outstanding on a deleted object, with pipelining |
| timers | the queue implements Deadlines if start() does not overlap the worker |
| timers_overlap | **violated**: only its owner cancels a deadline, if it does |
| accounts | accounts, sessions and the settings under concurrency, failures and restarts |
| accounts_names | **violated**: user names are unique |
| forum | topics, replies, mentions and clearing under concurrency, failures and conflicts |
| edge | requests arrive, routes are found, and the other borders, each by itself |
| services | the two pools, and the three languages of handlers, each by itself |

Bounds.

* `connection`: three requests, because the effect of a request on the response
  object reaches the next one and must be seen to end with the one after it;
  eight different requests cover each kind of handler and each way of closing.
* `timers`: two connections and six calls of `add()`, with `step_` starting two
  below its wrap, `Tick` 2; a third connection changes nothing that two do not
  show, and is used in the overlap run. `W` is 8: it must exceed the number of
  calls of `add()` (`NumbersAssumption`), as 2^32 does in any run of the program.
* `accounts`: two users, two workers, five requests: two logins, two settings
  requests at once, and a login after them.
* `forum`: two workers, two requests at once or one after the other with three
  topics to read, and one topic on a page, so that a list moves under a reader.
  Two names for two users, so that every renaming makes two accounts share one;
  texts mention both names, or nobody.
* `edge`: all routes of the program; segments of one, two and seven bytes or the
  rest; 96 bytes of header, lengths below 255 and integers below 9999 stand for
  the limits of the code. OAuth: two workers, three signatures, within one
  second; verifiers with and without an `&`. Digests: messages around each border
  of a block and of the buffer of HMAC-SHA1 (196 bytes here, 4096 in the code),
  keys shorter than a block, as long and longer. Browser: two topics and a list, three clicks. Pages:
  three categories, two of one order, two posts. Uploads: two workers, three
  files. Server: three workers, two turns of them, one and a half seconds.
  Buffers: seven uses, with limits of a few bytes.
* `services`: two callers, two and three handles, three calls, one crash;
  documents of three pieces behind six beginnings, posts of two pieces behind
  eight, templates of four. Pieces are chosen to open, close and escape in every
  order, and those of documents so that each text that one reader alone takes, or
  both read differently, is among them. Workers, callers and handles are symmetric.

Fairness. The worker runs its queue, the reactor reports readable sockets, the
tick of the timer queue comes back every second, threads inside the queue leave
it, time passes. Nothing is assumed of clients (not even that they read: a
blocked write may stay blocked), of the databases, or of new connections. A
worker blocked for ever in a handler is outside these assumptions: curl is
called without a timeout. Only the liveness properties `SocketCloses`,
`ConnectionDeleted` and `OverdueIsShut` use fairness.

Properties that need a remark:

* `RepliesExplained` states exactly what the double `end()` of `/topic/<id>`
  (`main.cpp:81`) and an exception after `end()` do: the next request on the
  connection is answered blank or with 500 without its handler, and the one
  after it is served normally.
* `WriteFlagExact`, `DeletedIsQuietUnpipelined`, `NoHandlerWhileWriting` hold for
  clients that do not pipeline; the run connection_pipelined shows why.
* `IdleIsDeletedIfUnblocked` and `ConnectionDeleted` hold if no write blocks; the
  run connection_leaks shows why.
* `KeyFindsOwn`, `CallbacksAreSafe`, `OnlyOwnerDisarms` and the refinement hold
  if `start()` does not overlap the worker; the run timers_overlap shows why.
* `ExceptionsBecome500` looks at the replies with 500: each is to belong to a
  request whose handler threw.
* `DocumentsAgree` lists where the readers differ. json.h alone takes control
  characters in strings, a first half of a surrogate pair before anything else, a
  point or an exponent without digits, and exponents no double has; rapidjson
  alone takes an exponent behind a zero (`0e1`); and of a surrogate pair json.h
  makes two characters. What handlers write is read alike by both in every case.
* `SignedAsSent` says of a verifier with an `&` in it only that what is signed is
  what is written in the address, not that Twitter sorts it the same way: it is
  one parameter for the library and two for its reader.
* `DigestsAreOfTheWhole` says nothing of an HMAC whose text does not fit into its
  buffer (from 4033 bytes on; `sha1.cpp:280` does not check), which is undefined.
* `MentionsNotify` speaks of names, not of users: of a mention at most one account
  is told, and once, one whose name it is or was.
* `TemplatesMean` is of one rendering alone (see 6).
* No property covers three hazards themselves: the handle that every PUT loses
  (`restclient.cpp:272`), success that is answered for a reply that failed
  (`api.cpp:342`), and notifications that came between the page and the click and
  are cleared unseen (`api.cpp:289`). The models have all three, which the code
  does by design or without a promise against it.
* `AnswersAreTrue` excludes a reply whose PUT failed: `add_reply()` throws its
  result away and answers success.
* `PageIsAddressed` excludes a page whose entry without state has been gone back
  to: `popstate` then shows nothing new while the address changes.

## 4. Proofs

No theorem bounds the number of users, workers, connections, requests, texts or
steps beyond the named assumptions of its module, which TLC evaluates in the
runs. Each module follows one scheme: an inductive invariant, checked by TLC
before it was proved; a lemma for each part that actions share; one step for
each action; then the theorems.

`HttpConnection_proofs`: for every set of requests, with or without pipelining,
with or without writes that block.

* `TypeCorrect`; `ReadFlagIsExact` (`is_reading` is exact about reads in every
  stage), `OneReadAtATime`, `WaitingHasDeadline` (whoever is waited for has a
  deadline), `ReadingIsNeverSuspended` (`need_to_call_read_` is never left set).
* None of the last four is inductive. Their strengthening `ReadInv` says besides
  that a completion enters the queue only from a pending read (`OneReadIn`), so
  taking it leaves none (`NoReadAfterTail`); that unparsed bytes exist only while
  the worker is busy or holds a read that brought bytes, which keeps `ReadFails`
  from closing a connection in the middle of a batch; and that `needAfter` is
  set exactly while the response has its hook, so that the deferred answer is
  delivered before the handler returns and `FeedEnds` never suspends reading
  with no one to resume it.
* Flags are compared with `<=>`, because the provers treat them as formulas.

`HttpConnectionWrites_proofs`, for a client that does not pipeline:

* `DeletedIsLeftAlone` (nothing runs on a deleted object), `WriteFlagIsExact`,
  `HandlersWaitForWrites` (no handler runs while the reactor reads the response),
  `RepliesAreExplained` and, if no write blocks, `IdleIsNotLeftBehind`.
* The argument is the order of the queue. The client asks again only when it has
  its reply (`TalkInv`: what is in transit belongs to one request, and while it
  is, no write is pending); by then the completion of the write is queued, in
  front of the read that brings the next request (`BytesLast`); so every write
  is over when a request is handled (`WriteInv`). If no write blocks this holds
  of every read (`IdleInv`), and an object that stops reading has either nothing
  queued, or a write whose completion checks whether to delete it.
* `ReplyInv` explains each reply by the set of requests that were skipped
  (`Skips`) and ties the response object to it: between two requests it is
  completed exactly if the last handler ended it twice.

`TimerQueue_proofs`, for any connections, tick and width of numbers, if threads
take turns (`~Overlap`):

* `KeysFindOwn`, `CallbacksStaySafe`, `OwnersDisarmOnly`, and `QueueImplements`:
  initial states of the queue map to those of `Deadlines` and every step to a
  step or a stutter.
* Numbers wrap, so the proof is about places: where an entry stands is its number
  less the number of the front entry (`Place`). The key of a connection leads to
  its own entry or behind the last one (`Keyed`), because fewer than `W` entries
  were ever added.

`Accounts_proofs`, for any users, names, workers and number of requests,
whatever calls fail and whenever the process ends:

* `AccountsAreOne`, `LoginsSeeChange`, `NamesChangeOnce`, `OwnersChangeOnly`.
* A step changes the accounts in one of two ways (`Evolves`: an account is
  registered, or one is replaced by itself with a name changed for the first
  time) and adds at most one session (`Grows`). What the invariant says of a
  request (`Request`) survives both, so each action shows it for its own request
  only (`StepKeeps`).

`Forum_proofs`, for any users, texts, categories and workers, whatever calls
fail or meet a conflict:

* `TextsStay`: topics stay as posted and replies are only added behind the
  others. `AnswersStayTrue`: an id that is answered names the author's topic,
  and success means the reply is there. `MentionedAreTold`: of each mention in a
  text at most one account is told, and once, whose name it is or was; and one is
  told, if anybody who was called so kept that name and no call failed or met a
  conflict, whether or not accounts share names. `ClearedWasSeen`:
  clearing removes what was there when CouchDB read the document.
* The invariant says of each request what is stored of it, whom it has told and
  what it will clear. Nobody is assumed to have a name alone: the invariant
  says of each mention that is behind a request who was told, at most one account,
  or that all who bore the name have changed it, or that a call failed.

* Whoever turns the pages of a list misses nothing that was there before and was
  not written meanwhile (`NothingMissed`). `PagesInv` says of each topic that is
  still to come that as many topics stand before it as the pages turned hold:
  writing a topic moves it to the front and others back, never forward. That a
  page without rows ends the list needs a topic in every place of it
  (`PlacesAreTaken`): fewer places than topics would make two topics of one time,
  by the pigeonhole principle.

`RedisPool_proofs`, for any threads, sessions, contents, pieces of any length,
and whenever the server crashes and comes back:

* `RepliesAreOwn`, `PoolIsClean`, from `RedisTalks`: of every connection it is
  known what is on its way (`TalkInv`) - nothing (`Quiet`), a beginning of the
  command of the thread that holds it (`Writes`), or a reply to it, of which the
  reader has some first part and the connection the rest (`Waiting`, `Comes`).
* The reader is taken apart first, in facts about one call: a reader that has the
  first k symbols of a reply says so if k is its length, and otherwise waits and
  holds what it had (`Looks`), in whatever pieces they came. No command is the
  beginning of another one (`CommandsDiffer`), so the server answers the whole
  command and no other.
* What the loops of the reader do is shown by induction without an operator
  parameter: the numbers of rounds for which it is true are a set that has 0 and
  with each number the next, and such a set is all of Nat (`NatSet`, from facts
  about finite sets).

`Ends_proofs`, where the program meets Twitter, browsers, and the page in one:

* `NoncesAreFew`, for any workers, requests and seconds. Random numbers are one
  of a seed and of how many were drawn since it was set. `NoncesAreCounted` says
  that only requests that overlapped the first one seed (`OnlyEarlySeed`), and
  counts: a number is in use at most as often as such requests have passed the
  seeding, and less often while it is to be drawn again (`NumbersLast`).
* `PickedAreReady`, for any number of workers and all time, from who has come up,
  whose turn it is and how late dates are.
* `PageStaysAddressed`, `RepliesComeHome`, for any pages, clicks and entries. The
  history changes in two ways, an entry is pushed (`PushedKeeps`) or a document
  is loaded (`LoadedKeeps`); that a loaded document has a number of its own is
  the pigeonhole principle.

* `RequestsStayOwn`, `HandlesStayOne`, for any workers, handles and calls of the
  REST client. The pool holds only handles that `get()` alone has used (`Plain`),
  and a handle that is held is not in the pool.

`Buffers_proofs`, for any lengths of arguments and pieces, sizes to start with and
to grow by, limits and numbers of calls:

* `BuffersAlwaysKeep`, from `BufferInv`. Each of the five kinds of buffer has a
  relation between its memory and what was put (`IsSds`, `IsReader`, `IsBuf`,
  `IsStack`, `IsWork`), and each function of the source a lemma that says what it
  makes of a buffer and a text in that relation (`RoomIsMade`, `RangeIs`,
  `GrownIs`, `PrintfIs`, `PushIs`, ...). It is stronger than the property: a
  closed working buffer, which is used again, still has the memory it says it
  has, and the HTML has no NUL before its end, or the caller would take less.
* `CommandIsBuilt` says that the assertion at the end of
  `redisFormatSdsCommandArgv()` holds for every number and length of arguments.
  It rests on `DigitsAreCounted`: counting digits by ten thousands gives as many
  as are written one at a time, for every number (by `NatSet`).

Only model-checked, and why:

* liveness, which is beyond the prover;
* what `Edge`, `Json`, `Mustache`, `Markdown`, `OAuth`, `Digests`, `Pages` and
  `Uploads` say of texts: texts are strings there, because properties compare
  what is read with what was written character by character, and to the provers a
  string is a value without parts; most of these modules are RECURSIVE as well.

## 5. Findings

1. An exception after `end()` becomes the reply to the next request (run
   connection_exceptions).
2. A connection object is leaked when its read fails before the success of a
   blocked write is handled (connection_leaks).
3. With two writes outstanding the object is deleted under the second
   (connection_pipelined).
4. `start()` on the acceptor thread races the worker's timer queue
   (timers_overlap).
5. Two users can take the same name at once (accounts_names).

Seen while modelling, with no claim of the repository against it:
`is_parameter_tag_compatible()` compares a tag with itself (`utility.h:173`), so
that it rejects only a wrong number of parameters; the header that confirms a
kept connection is spelt "Connetion" (`http_connection.h:412`); every PUT makes a
handle that it drops for a pooled one, and keeps the pooled one's when it fails
(`restclient.cpp:286`).

## 6. What is not modelled

curl without a timeout (a worker that blocks for ever); responses and
`http_parser_parse_url`, which the program never parses; the asynchronous
interface of hiredis and the sockets of `net.c`; the pools of redis3m that the
program does not use; Markdown extensions that are not enabled; the rounds of
SHA-1 and MD5, and what happens past the end of the buffer of an HMAC; the static
text that `mustache.h:123` returns for a name that is not found, which all
workers set to the same value at once, a data race; searching, settings and drafts in `main.js`; logging, middleware
and settings. The lines of a reply's header are one token in `HttpConnection`.

## 7. Plan

1. `RepliesExplained` for clients that pipeline, whose replies may be under way
   together: a run, then a proof.
2. The header of a reply, so that bodies are framed by their length.
