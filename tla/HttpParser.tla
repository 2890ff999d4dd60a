------------------------------ MODULE HttpParser -----------------------------
(***************************************************************************)
(* The parser of requests: the state machine http_parser_execute() of the  *)
(* bundled joyent parser (include/http_parser_merged.h), with the          *)
(* callbacks with which crow gathers a request from it (include/parser.h). *)
(*                                                                         *)
(* The socket hands over the stream in segments, cut anywhere.  A callback *)
(* for data is given the part of the segment from a mark to where the      *)
(* parser is, so a text that is cut arrives in several calls; the mark is  *)
(* a pointer into the segment and is set again at the start of the next.   *)
(*                                                                         *)
(* Responses (the states s_res_...) are never parsed: crow makes the parser  *)
(* with HTTP_REQUEST.  The build is strict (HTTP_PARSER_STRICT is 1).      *)
(***************************************************************************)
EXTENDS Text

CONSTANTS
    MaxHeaderSize,  \* HTTP_MAX_HEADER_SIZE
    MaxLength       \* ULLONG_MAX, as content_length: the largest and "none given"

CR == "\r"
LF == "\n"

Methods == {"DELETE", "GET", "HEAD", "POST", "PUT", "CONNECT", "OPTIONS", "TRACE",
            "COPY", "LOCK", "MKCOL", "MOVE", "PROPFIND", "PROPPATCH", "SEARCH",
            "UNLOCK", "REPORT", "MKACTIVITY", "CHECKOUT", "MERGE", "M-SEARCH",
            "NOTIFY", "SUBSCRIBE", "UNSUBSCRIBE", "PATCH", "PURGE", "MKCALENDAR"}

\* Nothing is marked; or kind is the callback and at the place of the first byte.
NoMark == [kind |-> "none", at |-> 0]

\* A new parser, and crow's part of it (from building on).  i is the next byte of
\* the segment, done how many bytes the call says it has read, once it returns;
\* out are the requests that were handled.
NewParser ==
    [state |-> "s_start_req", method |-> "DELETE", index |-> 0, hs |-> "h_general",
     flags |-> {}, length |-> 0, nread |-> 0, major |-> 0, minor |-> 0,
     upgrade |-> FALSE, errno |-> "OK", mark |-> NoMark, i |-> 1, last |-> 0, done |-> -1,
     building |-> 0, field |-> "", value |-> "", headers |-> <<>>, url |-> "",
     body |-> "", out |-> <<>>]

-----------------------------------------------------------------------------
(* crow's callbacks.                                                       *)

OnMessageBegin(p) ==
    [p EXCEPT !.building = 0, !.field = "", !.value = "", !.headers = <<>>,
              !.url = "", !.body = ""]

\* The header gathered so far goes into the map, and out of the strings.
Emplace(p) ==
    [p EXCEPT !.headers = Append(@, <<p.field, p.value>>), !.field = "", !.value = ""]

\* A header whose value came in pieces: a mutant that keeps the last piece only.
OnHeaderValueMutant(p, text) == [p EXCEPT !.building = 0, !.value = text]

OnUrl(p, text)  == [p EXCEPT !.url = @ \o text]
OnBody(p, text) == [p EXCEPT !.body = @ \o text]
OnHeaderField(p, text) ==
    IF p.building = 1 THEN [p EXCEPT !.field = @ \o text]
    ELSE LET q == IF p.value # "" THEN Emplace(p) ELSE p
         IN [q EXCEPT !.field = text, !.building = 1]
OnHeaderValue(p, text) ==
    IF p.building = 0 THEN [p EXCEPT !.value = @ \o text]
    ELSE [p EXCEPT !.building = 0, !.value = text]
OnHeadersComplete(p) == IF p.field # "" THEN Emplace(p) ELSE p

\* http_should_keep_alive(), for requests.
KeepAlive(p) == IF p.major > 0 /\ p.minor > 0 THEN "close" \notin p.flags
                                              ELSE "keep-alive" \in p.flags

\* The request goes to the connection, which asks for its keep-alive.
OnMessageComplete(p) ==
    LET q == Find(p.url, "?")
        url == IF q = 0 THEN p.url ELSE Cut(p.url, 1, q - 1)
    IN [p EXCEPT !.out = Append(@, [method |-> p.method, raw_url |-> p.url, url |-> url,
                                    headers |-> p.headers, body |-> p.body,
                                    keep |-> KeepAlive(p)])]

-----------------------------------------------------------------------------
(* What every state does: consume the byte and go on, look at it again, or *)
(* fail; mark a byte, and call back with the marked text.                  *)

Goto(p, s)  == [p EXCEPT !.state = s, !.i = @ + 1]
Stay(p)     == [p EXCEPT !.i = @ + 1]
Again(p, s) == [p EXCEPT !.state = s]
Fail(p, e)  == [p EXCEPT !.errno = e, !.done = p.i - 1]

Mark(p, kind) == IF p.mark = NoMark THEN [p EXCEPT !.mark = [kind |-> kind, at |-> p.i]] ELSE p

\* The callback with the bytes from the mark up to the one before next.
CallData(p, d, next) ==
    LET text == Cut(d, p.mark.at, next - 1)
        q    == [p EXCEPT !.mark = NoMark]
    IN CASE p.mark.kind = "url"   -> OnUrl(q, text)
         [] p.mark.kind = "field" -> OnHeaderField(q, text)
         [] p.mark.kind = "value" -> OnHeaderValue(q, text)
         [] p.mark.kind = "body"  -> OnBody(q, text)
         [] OTHER -> q

\* NEW_MESSAGE(), and the callback.
Complete(p) == OnMessageComplete([p EXCEPT !.state =
                                    IF KeepAlive(p) THEN "s_start_req" ELSE "s_dead"])

-----------------------------------------------------------------------------
(* The request line.                                                       *)

\* The method a first letter stands for until a later letter decides.
FirstMethod ==
    [C |-> "CONNECT", D |-> "DELETE", G |-> "GET", H |-> "HEAD", L |-> "LOCK",
     M |-> "MKCOL", N |-> "NOTIFY", O |-> "OPTIONS", P |-> "POST", R |-> "REPORT",
     S |-> "SUBSCRIBE", T |-> "TRACE", U |-> "UNLOCK"]

\* What it becomes when the letter at index is another one.
OtherMethods ==
    {<<"CONNECT", 1, "H", "CHECKOUT">>, <<"CONNECT", 2, "P", "COPY">>,
     <<"MKCOL", 1, "O", "MOVE">>, <<"MKCOL", 1, "E", "MERGE">>,
     <<"MKCOL", 1, "-", "M-SEARCH">>, <<"MKCOL", 2, "A", "MKACTIVITY">>,
     <<"MKCOL", 3, "A", "MKCALENDAR">>, <<"SUBSCRIBE", 1, "E", "SEARCH">>,
     <<"POST", 1, "R", "PROPFIND">>, <<"POST", 1, "U", "PUT">>,
     <<"POST", 1, "A", "PATCH">>, <<"PUT", 2, "R", "PURGE">>,
     <<"UNLOCK", 2, "S", "UNSUBSCRIBE">>, <<"PROPFIND", 4, "P", "PROPPATCH">>}

StartRequest(p, c) ==
    IF c \in {CR, LF} THEN Stay(p)
    ELSE IF c \notin DOMAIN FirstMethod THEN Fail(p, "INVALID_METHOD")
    ELSE OnMessageBegin([Goto(p, "s_req_method") EXCEPT
             !.flags = {}, !.length = MaxLength, !.method = FirstMethod[c], !.index = 1])

Method(p, c) ==
    LET next   == Ch(p.method, p.index + 1)
        others == {m \in Methods : <<p.method, p.index, c, m>> \in OtherMethods}
    IN CASE c = " " /\ next = "" -> [Goto(p, "s_req_spaces_before_url") EXCEPT !.index = @ + 1]
         [] c = next             -> [Stay(p) EXCEPT !.index = @ + 1]
         [] c # next /\ others # {} /\ ~(c = " " /\ next = "") ->
              [Stay(p) EXCEPT !.index = @ + 1, !.method = CHOOSE m \in others : TRUE]
         [] OTHER -> Fail(p, "INVALID_METHOD")

IsUrlChar(c)      == c \notin {"", " ", CR, LF, "\t", "\f", "#", "?"}
IsUserInfoChar(c) == c \in Alphas \cup Nums \cup Chars("-_.!~*'()%;:&=+$,")

\* parse_url_char().
UrlState(s, c) ==
    CASE s = "s_req_spaces_before_url" /\ c \in {"/", "*"}  -> "s_req_path"
      [] s = "s_req_spaces_before_url" /\ c \in Alphas      -> "s_req_schema"
      [] s = "s_req_schema" /\ c \in Alphas                 -> s
      [] s = "s_req_schema" /\ c = ":"                      -> "s_req_schema_slash"
      [] s = "s_req_schema_slash" /\ c = "/"                -> "s_req_schema_slash_slash"
      [] s = "s_req_schema_slash_slash" /\ c = "/"          -> "s_req_server_start"
      [] s \in {"s_req_server", "s_req_server_start", "s_req_server_with_at"} ->
           (CASE c = "@" -> IF s = "s_req_server_with_at" THEN "s_dead" ELSE "s_req_server_with_at"
              [] c = "/" -> "s_req_path"
              [] c = "?" -> "s_req_query_string_start"
              [] IsUserInfoChar(c) \/ c \in {"[", "]"} -> "s_req_server"
              [] OTHER -> "s_dead")
      [] s = "s_req_path" /\ IsUrlChar(c)                   -> s
      [] s = "s_req_path" /\ c = "?"                        -> "s_req_query_string_start"
      [] s \in {"s_req_query_string_start", "s_req_query_string"} /\ (IsUrlChar(c) \/ c = "?")
                                                            -> "s_req_query_string"
      [] s \in {"s_req_path", "s_req_query_string_start", "s_req_query_string",
                "s_req_fragment_start"} /\ c = "#"          -> "s_req_fragment_start"
      [] s = "s_req_fragment_start" /\ (IsUrlChar(c) \/ c = "?") -> "s_req_fragment"
      [] s = "s_req_fragment" /\ (IsUrlChar(c) \/ c \in {"?", "#"}) -> s
      [] OTHER -> "s_dead"

UrlStates == {"s_req_path", "s_req_schema", "s_req_schema_slash", "s_req_schema_slash_slash",
              "s_req_server_start", "s_req_server", "s_req_server_with_at",
              "s_req_query_string_start", "s_req_query_string", "s_req_fragment_start",
              "s_req_fragment"}
\* Where a URL may not end yet.
UnfinishedUrls == {"s_req_schema", "s_req_schema_slash", "s_req_schema_slash_slash",
                   "s_req_server_start"}

UrlChar(p, c) ==
    LET s == UrlState(IF p.state = "s_req_spaces_before_url" /\ p.method = "CONNECT"
                        THEN "s_req_server_start" ELSE p.state, c)
    IN IF s = "s_dead" THEN Fail(p, "INVALID_URL") ELSE Goto(p, s)

Url(p, c, d) ==
    CASE p.state = "s_req_spaces_before_url" -> IF c = " " THEN Stay(p) ELSE UrlChar(Mark(p, "url"), c)
      [] p.state \in UnfinishedUrls /\ c \in {" ", CR, LF} -> Fail(p, "INVALID_URL")
      [] p.state \notin UnfinishedUrls /\ c = " " -> CallData(Goto(p, "s_req_http_start"), d, p.i)
      [] p.state \notin UnfinishedUrls /\ c \in {CR, LF} ->
           CallData([Goto(p, IF c = CR THEN "s_req_line_almost_done" ELSE "s_header_field_start")
                        EXCEPT !.major = 0, !.minor = 9], d, p.i)
      [] OTHER -> UrlChar(p, c)

\* "HTTP/", letter by letter, and the states that wait for each.
HttpLetters ==
    [s_req_http_start |-> "H", s_req_http_H |-> "T", s_req_http_HT |-> "T",
     s_req_http_HTT |-> "P", s_req_http_HTTP |-> "/"]
AfterLetter ==
    [s_req_http_start |-> "s_req_http_H", s_req_http_H |-> "s_req_http_HT",
     s_req_http_HT |-> "s_req_http_HTT", s_req_http_HTT |-> "s_req_http_HTTP",
     s_req_http_HTTP |-> "s_req_first_http_major"]

Http(p, c) ==
    CASE c = HttpLetters[p.state] -> Goto(p, AfterLetter[p.state])
      [] p.state = "s_req_http_start" /\ c = " " -> Stay(p)
      [] OTHER -> Fail(p, IF p.state = "s_req_http_start" THEN "INVALID_CONSTANT" ELSE "STRICT")

Version(p, c) ==
    CASE p.state = "s_req_first_http_major" /\ c \in Nums \ {"0"} ->
           [Goto(p, "s_req_http_major") EXCEPT !.major = HexValue(c)]
      [] p.state = "s_req_http_major" /\ c = "." -> Goto(p, "s_req_first_http_minor")
      [] p.state = "s_req_http_major" /\ c \in Nums /\ 10 * p.major + HexValue(c) <= 999 ->
           [Stay(p) EXCEPT !.major = 10 * @ + HexValue(c)]
      [] p.state = "s_req_first_http_minor" /\ c \in Nums ->
           [Goto(p, "s_req_http_minor") EXCEPT !.minor = HexValue(c)]
      [] p.state = "s_req_http_minor" /\ c = CR -> Goto(p, "s_req_line_almost_done")
      [] p.state = "s_req_http_minor" /\ c = LF -> Goto(p, "s_header_field_start")
      [] p.state = "s_req_http_minor" /\ c \in Nums /\ 10 * p.minor + HexValue(c) <= 999 ->
           [Stay(p) EXCEPT !.minor = 10 * @ + HexValue(c)]
      [] OTHER -> Fail(p, "INVALID_VERSION")

-----------------------------------------------------------------------------
(* Header fields.                                                          *)

\* The words the parser looks for, by the state that is matching one: the word,
\* and the state when it is there.
Words ==
    [h_matching_connection                |-> <<"connection", "h_connection">>,
     h_matching_proxy_connection          |-> <<"proxy-connection", "h_connection">>,
     h_matching_content_length            |-> <<"content-length", "h_content_length">>,
     h_matching_transfer_encoding         |-> <<"transfer-encoding", "h_transfer_encoding">>,
     h_matching_upgrade                   |-> <<"upgrade", "h_upgrade">>,
     h_matching_transfer_encoding_chunked |-> <<"chunked", "h_transfer_encoding_chunked">>,
     h_matching_connection_keep_alive     |-> <<"keep-alive", "h_connection_keep_alive">>,
     h_matching_connection_close          |-> <<"close", "h_connection_close">>]

\* One more letter of a word: index is the place, from 0, of the last one.
Matching(p, c) ==
    LET word == Words[p.hs][1]
        k    == p.index + 1
    IN [p EXCEPT !.index = k,
                 !.hs = IF Ch(word, k + 1) # c THEN "h_general"
                        ELSE IF k = Len(word) - 1 THEN Words[p.hs][2] ELSE @]

\* TOKEN(): lower case, or "" for a separator (and, here, the back-quote).
Token(c) == IF c \in Alphas \cup Nums \cup Chars("!#$%&'*+-.^_|~") THEN Lower(c) ELSE ""

FieldStart(p, c) ==
    CASE c = CR -> Goto(p, "s_headers_almost_done")
      [] c = LF -> Again(p, "s_headers_almost_done")
      [] Token(c) # "" ->
           [Goto(Mark(p, "field"), "s_header_field") EXCEPT !.index = 0,
               !.hs = CASE Token(c) = "c" -> "h_C"
                        [] Token(c) = "p" -> "h_matching_proxy_connection"
                        [] Token(c) = "t" -> "h_matching_transfer_encoding"
                        [] Token(c) = "u" -> "h_matching_upgrade"
                        [] OTHER -> "h_general"]
      [] OTHER -> Fail(p, "INVALID_HEADER_TOKEN")

\* A letter of a field name: "con" may go on to two of the words.
FieldLetter(p, c) ==
    LET On(s) == [p EXCEPT !.index = @ + 1, !.hs = s]
    IN CASE p.hs = "h_C"   -> On(IF c = "o" THEN "h_CO" ELSE "h_general")
         [] p.hs = "h_CO"  -> On(IF c = "n" THEN "h_CON" ELSE "h_general")
         [] p.hs = "h_CON" -> On(IF c = "n" THEN "h_matching_connection"
                                 ELSE IF c = "t" THEN "h_matching_content_length"
                                 ELSE "h_general")
         [] p.hs \in DOMAIN Words -> Matching(p, c)
         [] OTHER -> [p EXCEPT !.hs = "h_general"]

Field(p, c, d) ==
    CASE Token(c) # "" -> Stay(FieldLetter(p, Token(c)))
      [] c = ":" -> CallData(Goto(p, "s_header_value_discard_ws"), d, p.i)
      [] c = CR  -> CallData(Goto(p, "s_header_almost_done"), d, p.i)
      [] c = LF  -> CallData(Goto(p, "s_header_field_start"), d, p.i)
      [] OTHER   -> Fail(p, "INVALID_HEADER_TOKEN")

-----------------------------------------------------------------------------
(* Header values.                                                          *)

ValueStart(p, c) ==
    LET q == [Goto(Mark(p, "value"), "s_header_value") EXCEPT !.index = 0, !.hs = "h_general"]
    IN CASE p.hs = "h_upgrade" -> [q EXCEPT !.flags = @ \cup {"upgrade"}]
         [] p.hs = "h_transfer_encoding" /\ Lower(c) = "c" ->
              [q EXCEPT !.hs = "h_matching_transfer_encoding_chunked"]
         [] p.hs = "h_connection" /\ Lower(c) = "k" ->
              [q EXCEPT !.hs = "h_matching_connection_keep_alive"]
         [] p.hs = "h_connection" /\ Lower(c) = "c" ->
              [q EXCEPT !.hs = "h_matching_connection_close"]
         [] p.hs = "h_content_length" /\ c \in Nums ->
              [q EXCEPT !.hs = p.hs, !.length = HexValue(c)]
         [] p.hs = "h_content_length" /\ c \notin Nums -> Fail(p, "INVALID_CONTENT_LENGTH")
         [] OTHER -> q

\* A length of one more digit, in the base of the header or of a chunk: refused
\* before it could wrap.
LongerMutant(p, base, digit) == [p EXCEPT !.length = (base * @ + digit) % (MaxLength + 1)]
Longer(p, base, digit) ==
    IF (MaxLength - base) \div base < p.length THEN Fail(p, "INVALID_CONTENT_LENGTH")
    ELSE [p EXCEPT !.length = base * @ + digit]

ValueLetter(p, c) ==
    CASE p.hs = "h_content_length" ->
           (CASE c = " "     -> Stay(p)
              [] c \in Nums  -> Longer(Stay(p), 10, HexValue(c))
              [] OTHER       -> Fail(p, "INVALID_CONTENT_LENGTH"))
      [] p.hs \in DOMAIN Words -> Stay(Matching(p, Lower(c)))
      [] c = " " -> Stay(p)
      [] OTHER   -> [Stay(p) EXCEPT !.hs = "h_general"]

HeaderValue(p, c, d) ==
    CASE p.state = "s_header_value_discard_ws" /\ c \in {" ", "\t"} -> Stay(p)
      [] p.state = "s_header_value_discard_ws" /\ c = CR -> Goto(p, "s_header_value_discard_ws_almost_done")
      [] p.state = "s_header_value_discard_ws" /\ c = LF -> Goto(p, "s_header_value_discard_lws")
      [] p.state \in {"s_header_value_discard_ws", "s_header_value_start"} -> ValueStart(p, c)
      [] p.state = "s_header_value" /\ c = CR -> CallData(Goto(p, "s_header_almost_done"), d, p.i)
      [] p.state = "s_header_value" /\ c = LF -> CallData(Again(p, "s_header_almost_done"), d, p.i)
      [] OTHER -> ValueLetter(p, c)

\* After the line: it may be continued by the next one; else its flags count.
HeaderEnds(p, c, d) ==
    LET flag == CASE p.hs = "h_connection_keep_alive"     -> {"keep-alive"}
                  [] p.hs = "h_connection_close"          -> {"close"}
                  [] p.hs = "h_transfer_encoding_chunked" -> {"chunked"}
                  [] OTHER -> {}
    IN CASE p.state = "s_header_almost_done" ->
              IF c = LF THEN Goto(p, "s_header_value_lws") ELSE Fail(p, "STRICT")
         [] p.state = "s_header_value_discard_ws_almost_done" ->
              IF c = LF THEN Goto(p, "s_header_value_discard_lws") ELSE Fail(p, "STRICT")
         [] p.state = "s_header_value_lws" ->
              IF c \in {" ", "\t"} THEN Again(p, "s_header_value_start")
              ELSE [Again(p, "s_header_field_start") EXCEPT !.flags = @ \cup flag]
         [] p.state = "s_header_value_discard_lws" ->
              IF c \in {" ", "\t"} THEN Goto(p, "s_header_value_discard_ws")
              ELSE CallData(Again(Mark(p, "value"), "s_header_field_start"), d, p.i)

-----------------------------------------------------------------------------
(* The end of the headers, and the body.                                   *)

HeadersEnd(p, c) ==
    CASE c # LF -> Fail(p, "STRICT")
      [] c = LF /\ p.state = "s_headers_almost_done" ->
           IF "trailing" \in p.flags THEN Stay(Complete(p))
           ELSE OnHeadersComplete([Again(p, "s_headers_done") EXCEPT
                    !.upgrade = "upgrade" \in p.flags \/ p.method = "CONNECT"])
      [] c = LF /\ p.state = "s_headers_done" ->
           LET q == [p EXCEPT !.nread = 0] IN
           (CASE p.upgrade -> [Complete(q) EXCEPT !.done = p.i]
              [] ~p.upgrade /\ "chunked" \in p.flags -> Goto(q, "s_chunk_size_start")
              [] ~p.upgrade /\ "chunked" \notin p.flags /\ p.length \in {0, MaxLength} ->
                   Stay(Complete(q))
              [] OTHER -> Goto(q, "s_body_identity"))

\* As much of the body, or of the chunk, as there is in the segment.
TakeBody(p, d) ==
    LET q == Mark(p, "body")
        n == IF p.length < Len(d) - p.i + 1 THEN p.length ELSE Len(d) - p.i + 1
    IN [q EXCEPT !.length = @ - n, !.i = @ + n]

BodyIdentity(p, d) ==
    LET q == TakeBody(p, d)
    IN IF q.length > 0 THEN q
       ELSE [CallData(q, d, q.i) EXCEPT !.state = "s_message_done", !.i = @ - 1]

ChunkSize(p, c) ==
    CASE p.state = "s_chunk_size_start" ->
           IF IsHex(c) THEN [Goto(p, "s_chunk_size") EXCEPT !.length = HexValue(c)]
           ELSE Fail(p, "INVALID_CHUNK_SIZE")
      [] p.state = "s_chunk_parameters" ->
           IF c = CR THEN Goto(p, "s_chunk_size_almost_done") ELSE Stay(p)
      [] p.state = "s_chunk_size_almost_done" ->
           IF c # LF THEN Fail(p, "STRICT")
           ELSE IF p.length = 0
             THEN [Goto(p, "s_header_field_start") EXCEPT !.nread = 0, !.flags = @ \cup {"trailing"}]
             ELSE [Goto(p, "s_chunk_data") EXCEPT !.nread = 0]
      [] p.state = "s_chunk_size" ->
           (CASE c = CR          -> Goto(p, "s_chunk_size_almost_done")
              [] IsHex(c)        -> Longer(Stay(p), 16, HexValue(c))
              [] c \in {";", " "} -> Goto(p, "s_chunk_parameters")
              [] OTHER           -> Fail(p, "INVALID_CHUNK_SIZE"))

Chunk(p, c, d) ==
    CASE p.state = "s_chunk_data" ->
           LET q == TakeBody(p, d)
           IN IF q.length = 0 THEN [q EXCEPT !.state = "s_chunk_data_almost_done"] ELSE q
      [] p.state = "s_chunk_data_almost_done" ->
           IF c = CR THEN CallData(Goto(p, "s_chunk_data_done"), d, p.i) ELSE Fail(p, "STRICT")
      [] p.state = "s_chunk_data_done" ->
           IF c = LF THEN [Goto(p, "s_chunk_size_start") EXCEPT !.nread = 0] ELSE Fail(p, "STRICT")

-----------------------------------------------------------------------------
(* One byte, and one segment.                                              *)

Byte(p, c, d) ==
    CASE p.state = "s_dead" -> IF c \in {CR, LF} THEN Stay(p) ELSE Fail(p, "CLOSED_CONNECTION")
      [] p.state = "s_start_req" -> StartRequest(p, c)
      [] p.state = "s_req_method" -> Method(p, c)
      [] p.state \in UrlStates \cup {"s_req_spaces_before_url"} -> Url(p, c, d)
      [] p.state \in DOMAIN HttpLetters -> Http(p, c)
      [] p.state \in {"s_req_first_http_major", "s_req_http_major",
                      "s_req_first_http_minor", "s_req_http_minor"} -> Version(p, c)
      [] p.state = "s_req_line_almost_done" ->
           IF c = LF THEN Goto(p, "s_header_field_start") ELSE Fail(p, "LF_EXPECTED")
      [] p.state = "s_header_field_start" -> FieldStart(p, c)
      [] p.state = "s_header_field" -> Field(p, c, d)
      [] p.state \in {"s_header_value_discard_ws", "s_header_value_start", "s_header_value"} ->
           HeaderValue(p, c, d)
      [] p.state \in {"s_header_almost_done", "s_header_value_lws", "s_header_value_discard_lws",
                      "s_header_value_discard_ws_almost_done"} -> HeaderEnds(p, c, d)
      [] p.state \in {"s_headers_almost_done", "s_headers_done"} -> HeadersEnd(p, c)
      [] p.state = "s_body_identity" -> BodyIdentity(p, d)
      [] p.state = "s_message_done" -> Stay(Complete(p))
      [] p.state \in {"s_chunk_size_start", "s_chunk_size", "s_chunk_parameters",
                      "s_chunk_size_almost_done"} -> ChunkSize(p, c)
      [] OTHER -> Chunk(p, c, d)

\* The states after the headers, whose bytes are not counted.
BodyStates == {"s_chunk_data", "s_chunk_data_almost_done", "s_chunk_data_done",
               "s_body_identity", "s_message_done"}

\* A text that the last segment ended in goes on in this one.
RemarkMutant(p) == p
Remark(p) ==
    LET Kind == CASE p.state = "s_header_field" -> "field"
                  [] p.state = "s_header_value" -> "value"
                  [] p.state \in UrlStates      -> "url"
                  [] OTHER -> "none"
    IN IF Kind = "none" THEN p ELSE [p EXCEPT !.mark = [kind |-> Kind, at |-> 1]]

\* One turn of the loop over the bytes.  Every byte is counted once, also if several
\* states look at it: last is the byte of the turn before.
Turn(p, d) ==
    LET new == p.i # p.last
        q   == [p EXCEPT !.last = p.i,
                         !.nread = IF new /\ p.state \notin BodyStates THEN @ + 1 ELSE @]
    IN CASE p.i > Len(d)   -> [CallData(p, d, Len(d) + 1) EXCEPT !.done = Len(d)]
         [] p.i <= Len(d) /\ q.nread > MaxHeaderSize -> Fail(q, "HEADER_OVERFLOW")
         [] OTHER -> Byte(q, Ch(d, p.i), d)

\* As many turns as there can be, until the call returns.
RECURSIVE Turns(_, _, _)
Turns(p, d, n) ==
    CASE p.done >= 0           -> p
      [] p.done < 0 /\ n = 1   -> Turn(p, d)
      [] OTHER -> Turns(Turns(p, d, n \div 2), d, n - n \div 2)

\* http_parser_execute() of a segment that is not empty, and of the empty one that
\* stands for the end of the stream.
Execute(p, d) ==
    CASE p.errno # "OK" -> [p EXCEPT !.done = 0]
      [] p.errno = "OK" /\ d = "" ->
           IF p.state \in {"s_dead", "s_start_req"} THEN [p EXCEPT !.done = 0]
           ELSE [p EXCEPT !.errno = "INVALID_EOF_STATE", !.done = 1]
      [] OTHER -> [Turns(Remark([p EXCEPT !.i = 1, !.last = 0, !.done = -1]), d, 4 * Len(d) + 1)
                    EXCEPT !.mark = NoMark, !.i = 1, !.last = 0]

\* feed() says whether all was read.
Fed(p, d) == p.done = Len(d)

-----------------------------------------------------------------------------
(* What a parser is, between two calls.                                    *)

\* The states in the head of a request, whose bytes are counted; what the header under
\* way may be, or turn out to be; the flags; and the errors for requests.
HeadStates ==
    {"s_dead", "s_start_req", "s_req_method", "s_req_spaces_before_url"} \cup UrlStates \cup
    {"s_req_http_start", "s_req_http_H", "s_req_http_HT", "s_req_http_HTT", "s_req_http_HTTP",
     "s_req_first_http_major", "s_req_http_major", "s_req_first_http_minor", "s_req_http_minor",
     "s_req_line_almost_done", "s_header_field_start", "s_header_field",
     "s_header_value_discard_ws", "s_header_value_discard_ws_almost_done",
     "s_header_value_discard_lws", "s_header_value_start", "s_header_value",
     "s_header_value_lws", "s_header_almost_done", "s_chunk_size_start", "s_chunk_size",
     "s_chunk_parameters", "s_chunk_size_almost_done", "s_headers_almost_done", "s_headers_done"}
HeaderStates ==
    {"h_general", "h_C", "h_CO", "h_CON"} \cup
    {"h_matching_" \o k : k \in {"connection", "proxy_connection", "content_length",
                                "transfer_encoding", "upgrade", "transfer_encoding_chunked",
                                "connection_keep_alive", "connection_close"}} \cup
    {"h_connection", "h_content_length", "h_transfer_encoding", "h_upgrade",
     "h_transfer_encoding_chunked", "h_connection_keep_alive", "h_connection_close"}
Flags  == {"chunked", "keep-alive", "close", "trailing", "upgrade"}
Errors == {"OK", "INVALID_EOF_STATE", "HEADER_OVERFLOW", "CLOSED_CONNECTION", "STRICT",
           "LF_EXPECTED"} \cup
          {"INVALID_" \o e : e \in {"VERSION", "METHOD", "URL", "HEADER_TOKEN", "CONTENT_LENGTH",
                                   "CHUNK_SIZE", "CONSTANT"}}

\* Too many bytes in a head are an error at once; no mark is left in a segment that is
\* gone.
ParserTypeOK(p) ==
    /\ p.state \in HeadStates \cup BodyStates /\ p.hs \in HeaderStates /\ p.flags \subseteq Flags
    /\ p.method \in Methods /\ p.errno \in Errors /\ p.mark = NoMark
    /\ p.length \in 0 .. MaxLength /\ p.nread \in 0 .. MaxHeaderSize + 1
    /\ p.nread > MaxHeaderSize => p.errno = "HEADER_OVERFLOW"
=============================================================================
