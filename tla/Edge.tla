-------------------------------- MODULE Edge ---------------------------------
(***************************************************************************)
(* From the bytes of a connection to the calls of the handlers: the parser *)
(* gathers requests from segments (HttpParser), splits their url           *)
(* (QueryString), and the router finds the handler (Router).               *)
(*                                                                         *)
(* A client writes requests; the network cuts what it wrote into segments  *)
(* anywhere.  What should arrive is defined from the requests alone.       *)
(***************************************************************************)
EXTENDS Text

CONSTANTS
    Conversations,  \* what clients write: sequences of requests
    Rules,          \* the routes: their texts, in the order of the program
    RuleMethods,    \* and the method of each
    Handlers,       \* and the types of what its handler takes
    Cuts,           \* the sizes of segments, besides "all the rest"
    MaxHeaderSize, MaxLength, MaxInt, MaxPairs

ASSUME LimitsAssumption ==
    {MaxHeaderSize, MaxLength, MaxInt} \subseteq Nat /\ MaxPairs \in Nat \ {0} /\ Cuts \subseteq Nat \ {0}

H == INSTANCE HttpParser
Q == INSTANCE QueryString
R == INSTANCE Router

VARIABLES
    routes,     \* the routes of the program, as far as they are registered
    stage,      \* how many are, then -1: Crow::run() has validated them
    sent,       \* the requests the client wrote; <<>> before it connects
    rest,       \* their bytes that have not arrived
    parser,     \* the parser of the connection
    answers     \* what each request handled was routed to, and its parameters
edgeVars == <<routes, stage, sent, rest, parser, answers>>

-----------------------------------------------------------------------------
(* What a client writes.  A request is a record: method, path and query (a *)
(* sequence of names and values), version, headers, and a body, which is   *)
(* sent in chunks of the sizes given, or in one piece if none are.         *)

NewLine == H!CR \o H!LF
RECURSIVE Join(_, _)
Join(texts, between) ==
    CASE Len(texts) = 0 -> ""
      [] Len(texts) = 1 -> texts[1]
      [] OTHER -> texts[1] \o between \o Join(Tail(texts), between)

\* How a client escapes a name or a value.
RECURSIVE Escaped(_)
Escaped(t) ==
    LET c    == Ch(t, 1)
        code == Find(Q!Ascii, c) + 31
        hex(n) == Ch(HexDigits, n + 1)
    IN CASE t = "" -> ""
         [] c = " " -> "+" \o Escaped(From(t, 2))
         [] c \in Alphas \cup Nums -> c \o Escaped(From(t, 2))
         [] OTHER -> "%" \o hex(code \div 16) \o hex(code % 16) \o Escaped(From(t, 2))

Target(r) ==
    LET pairs == [k \in DOMAIN r.query |-> Escaped(r.query[k][1]) \o "=" \o Escaped(r.query[k][2])]
    IN r.path \o (IF pairs = <<>> THEN "" ELSE "?" \o Join(pairs, "&"))

\* The headers that say how long the body is.
BodyHeaders(r) ==
    CASE r.chunks # <<>> -> <<<<"Transfer-Encoding", "chunked">>>>
      [] r.chunks = <<>> /\ r.length # -1 -> <<<<"Content-Length", ToText(r.length)>>>>
      [] OTHER -> <<>>
Headers(r) == r.headers \o BodyHeaders(r)

RECURSIVE Chunked(_, _)
Chunked(text, sizes) ==
    IF sizes = <<>> THEN "0" \o NewLine \o NewLine
    ELSE ToText(Head(sizes)) \o NewLine \o Cut(text, 1, Head(sizes)) \o NewLine
         \o Chunked(From(text, Head(sizes) + 1), Tail(sizes))

WrittenHead(r) ==
    r.method \o " " \o Target(r) \o " HTTP/" \o r.version \o NewLine
    \o Join([k \in DOMAIN Headers(r) |-> Headers(r)[k][1] \o ": " \o Headers(r)[k][2] \o NewLine], "")
    \o NewLine
Written(r) ==
    WrittenHead(r)
    \o (IF r.chunks # <<>> THEN Chunked(r.body, r.chunks) ELSE r.body)

-----------------------------------------------------------------------------
(* What should arrive.                                                     *)

\* A length that does not fit is refused, and headers that are too long, and with
\* them the connection.
IsRefused(r) == \/ r.chunks = <<>> /\ r.length >= MaxLength
                \/ Len(WrittenHead(r)) > MaxHeaderSize

\* 1.1 keeps the connection unless told not to, 1.0 if it is told to.
Keeps(r) ==
    LET says(word) == \E k \in DOMAIN r.headers : r.headers[k] = <<"Connection", word>>
    IN IF r.version = "1.1" THEN ~says("close") ELSE says("keep-alive")

\* A header without value is left out, unless it is the last.
HeadersHeard(r) ==
    SelectSeq([k \in DOMAIN Headers(r) |-> <<Headers(r)[k][1], Headers(r)[k][2], k>>],
              LAMBDA h : h[2] # "" \/ h[3] = Len(Headers(r)))

\* A value may go on in a next line that starts with a space.
Unfolded(value) ==
    LET k == Find(value, NewLine)
    IN IF k = 0 THEN value ELSE Cut(value, 1, k - 1) \o From(value, k + 2)

Meant(r) == [method |-> r.method, raw_url |-> Target(r), url |-> r.path,
             headers |-> [k \in DOMAIN HeadersHeard(r) |->
                             <<HeadersHeard(r)[k][1], Unfolded(HeadersHeard(r)[k][2])>>],
             body |-> r.body, keep |-> Keeps(r)]

\* The requests that are handled: up to the first refused, or that closes.
RECURSIVE MeantAll(_)
MeantAll(rs) ==
    CASE rs = <<>> \/ IsRefused(Head(rs)) -> <<>>
      [] ~Keeps(Head(rs)) -> <<Meant(Head(rs))>>
      [] OTHER -> <<Meant(Head(rs))>> \o MeantAll(Tail(rs))

\* Is a url one a rule stands for, and with which arguments: read from left to right,
\* a number as long as it is, a string up to the next slash.  <<>> if it is not.
RECURSIVE Reads(_, _, _)
Reads(rule, url, arguments) ==
    CASE rule = "" -> IF url = "" THEN <<arguments>> ELSE <<>>
      [] StartsWith(rule, "<int>") ->
           LET n == R!NumberAt(url, 1)
           IN IF n.end = 1 THEN <<>>
              ELSE Reads(From(rule, 6), From(url, n.end), Append(arguments, n.value))
      [] StartsWith(rule, "<string>") ->
           LET e == R!SegmentEnd(url, 1)
           IN IF e = 1 THEN <<>>
              ELSE Reads(From(rule, 9), From(url, e), Append(arguments, Cut(url, 1, e - 1)))
      [] OTHER -> IF Ch(rule, 1) = Ch(url, 1) THEN Reads(From(rule, 2), From(url, 2), arguments) ELSE <<>>

\* The first rule of the program that stands for a url, or a redirection before it.
RouteFirst(r, fits, slash) ==
    LET k == CHOOSE i \in fits : \A j \in fits : i <= j
    IN CASE slash # {} -> R!Refuses(301, r.path \o "/")
         [] slash = {} /\ fits # {} /\ RuleMethods[k] = r.method ->
              [code |-> 200, rule |-> k + 1, arguments |-> Reads(Rules[k], r.path, <<>>)[1],
               ends |-> IF "response" \in {Handlers[k][i] : i \in DOMAIN Handlers[k]} THEN "handler"
                        ELSE "rule",
               location |-> ""]
         [] OTHER -> R!Refuses(404, "")
RouteMeant(r) ==
    LET fits == {k \in DOMAIN Rules : Reads(Rules[k], r.path, <<>>) # <<>>}
        slash == {k \in DOMAIN Rules : Len(Rules[k]) > 1 /\ Ch(Rules[k], Len(Rules[k])) = "/"
                      /\ Reads(Cut(Rules[k], 1, Len(Rules[k]) - 1), r.path, <<>>) # <<>>}
    IN RouteFirst(r, fits, slash)

\* The value of the first parameter of a name; <<>> if there is none.
ParamMeant(r, name) ==
    LET with == {k \in DOMAIN r.query : r.query[k][1] = name}
    IN IF with = {} THEN <<>> ELSE <<r.query[CHOOSE k \in with : \A j \in with : k <= j][2]>>

-----------------------------------------------------------------------------

EdgeInit ==
    /\ routes = R!EmptyTrie /\ stage = 0
    /\ sent = <<>> /\ rest = ""
    /\ parser = H!NewParser
    /\ answers = <<>>

\* CROW_ROUTE() of one route after the other, then Crow::run().
Register ==
    /\ stage \in 0 .. Len(Rules) - 1
    /\ routes' = R!AddRule(routes, Rules[stage + 1], stage + 2)
    /\ stage' = stage + 1
    /\ UNCHANGED <<sent, rest, parser, answers>>

Run ==
    /\ stage = Len(Rules)
    /\ routes' = R!Validate(routes) /\ stage' = -1
    /\ UNCHANGED <<sent, rest, parser, answers>>

\* A client connects and writes its requests.
Connect ==
    /\ stage = -1 /\ sent = <<>>
    /\ sent' \in Conversations
    /\ rest' = Join([k \in DOMAIN sent' |-> Written(sent'[k])], "")
    /\ UNCHANGED <<routes, stage, parser, answers>>

\* The names that handlers ask for: those of the program, and those that were sent.
Names == {"code", "do", "email"} \cup
         {sent[k].query[j][1] : <<k, j>> \in UNION {{k} \X DOMAIN sent[k].query : k \in DOMAIN sent}}

\* A request has been gathered: it is routed, and its handler asks for parameters.
Handle(request) ==
    LET pairs == Q!Pairs(request.raw_url)
        route == R!Route(routes, Rules, Handlers, RuleMethods, request.method, request.url, "")
    IN [route |-> route, query |-> [n \in Names |-> Q!GetParam(pairs, n)]]

\* The next k bytes, d, arrive, and p is the parser after them.  When it refuses them
\* the connection is closed.
Arrived(k, d, p) ==
    /\ parser' = p
    /\ answers' = answers \o [n \in 1 .. Len(p.out) - Len(parser.out) |->
                                  Handle(p.out[Len(parser.out) + n])]
    /\ rest' = IF H!Fed(p, d) THEN From(rest, k + 1) ELSE ""
    /\ UNCHANGED <<routes, stage, sent>>
Segment(k) ==
    /\ rest # ""
    /\ LET d == Cut(rest, 1, k) IN Arrived(k, d, H!Execute(parser, d))

EdgeNext == Register \/ Run \/ Connect \/ \E k \in {c \in Cuts : c < Len(rest)} \cup {Len(rest)} : Segment(k)

-----------------------------------------------------------------------------
(* Properties.                                                             *)

\* The requests that reach the handlers are those the client wrote, in their order,
\* with their own method, url, headers and body, however the network cuts the
\* stream; a length that would wrap around and headers that are too long end the
\* connection, and so does a request after one that closes it.  Between two segments the
\* parser is in one of its states.
AreGathered(meant) ==
    /\ Len(parser.out) <= Len(meant)
    /\ \A n \in DOMAIN parser.out : parser.out[n] = meant[n]
    /\ rest = "" => /\ Len(parser.out) = Len(meant)
                    /\ parser.errno # "OK" <=> Len(meant) < Len(sent)
RequestsArrive == H!ParserTypeOK(parser) /\ AreGathered(MeantAll(sent))

\* A request is routed to the first rule of the program that stands for its url, or
\* refused, and the handler is called with what stands in the url, in that order: merging
\* the trie loses no rule, a rule with a parameter does not hide a longer one, and the
\* types that were made of the rule's text agree with those the trie gathered by, and with
\* what the handler takes, so that its response is ended by one of the two.
RoutesAreFound == \A n \in DOMAIN answers : answers[n].route = RouteMeant(sent[n])

\* A handler that asks for a parameter gets the first value that was sent under that
\* name, decoded, and a null pointer if none was.
ParametersAreRead ==
    \A n \in DOMAIN answers : \A name \in Names :
        answers[n].query[name] = ParamMeant(sent[n], name)
=============================================================================
