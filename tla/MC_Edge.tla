------------------------------- MODULE MC_Edge -------------------------------
(***************************************************************************)
(* The edge with the routes of the program, and conversations that use     *)
(* each way to write a request; and small instances of the other borders.  *)
(***************************************************************************)
EXTENDS Borders
M == INSTANCE Markdown WITH Nesting <- 16

CRules == <<"/", "/topic/<string>", "/page/<int>", "/node/<string>/<int>",
    "/info/avatar/<string>", "/user/name/<string>", "/post/new", "/notifications", "/settings",
    "/login/github", "/login/google", "/login/twitter", "/login/callback/github",
    "/login/callback/google", "/login/callback/twitter", "/api/post/new",
    "/api/node/<string>/<int>", "/api/topic/<string>", "/api/notification/count",
    "/api/notification/clear", "/api/post/reply/<string>", "/api/user/changeName/<string>",
    "/api/user/changeAvatar", "/api/file/simpleUpload", "/faq", "/privacy", "/about", "/Success">>
CCategories == <<[id |-> "2", url |-> "h", name |-> "H", order |-> -1],
                 [id |-> "1", url |-> "q", name |-> "Q \"A\"", order |-> 2],
                 [id |-> "3", url |-> "z", name |-> "Z", order |-> 2]>>

CTitles == {"a \"b\""}
CPosts  == {"*x*\n\\", "<"}
CHtmlOf == [text \in CPosts |-> M!MarkdownToHtml(text, "")]

CFiles == {[name |-> "a.png", type |-> "image/png", data |-> "data\r\n--B--\r\nta"],
           [name |-> "image/gif", type |-> "text/plain", data |-> "\r\n\r\n-data"]}
CGarbage == {"", "x\r\n\r\nabcdef"}
CArgLengths == {<<1>>, <<0, 11>>}   \* a command with numbers of two digits in it

CRuleMethods == [k \in DOMAIN CRules |-> IF k \in {16, 21, 24} THEN "POST" ELSE "GET"]

\* The handler of "/" returns its page; the others are given the response (main.cpp).
CHandlers == [k \in DOMAIN CRules |->
    CASE k = 1 -> <<>>
      [] k \in {2, 5, 6, 18, 21, 22} -> <<"request", "response", "strings">>
      [] k = 3 -> <<"request", "response", "ints">>
      [] k \in {4, 17} -> <<"request", "response", "strings", "ints">>
      [] OTHER -> <<"request", "response">>]

Fetch(path) == [method |-> "GET", path |-> path, query |-> <<>>, version |-> "1.1",
              headers |-> <<>>, body |-> "", length |-> -1, chunks |-> <<>>]
Post(path, body) == [Fetch(path) EXCEPT !.method = "POST", !.body = body, !.length = Len(body)]

CConversations ==
    {<<Fetch("/"), Fetch("/about")>>,
     <<Fetch("/topic/abc"), Fetch("/topic/"), Fetch("/topic/a/b")>>,
     <<Fetch("/page/12"), Fetch("/page/-3"), Fetch("/page/12x"), Fetch("/page/99999")>>,
     <<Fetch("/node/c-1/2"), Fetch("/node/c/+1"), Fetch("/api/node/x/3"), Fetch("/node/c/")>>,
     <<Fetch("/login/callback/github"), Fetch("/login/github"), Fetch("/login/callback"), Fetch("/S")>>,
     <<[Fetch("/login/callback/github") EXCEPT !.query = <<<<"do", "1">>, <<"code", "a b&c=%41">>>>],
       [Fetch("/api/user/changeAvatar") EXCEPT !.query = <<<<"email", "x@y.z">>, <<"email", "2">>>>],
       [Fetch("/faq") EXCEPT !.query = <<<<"c+de", "#?">>, <<"code", "">>>>]>>,
     <<Post("/api/post/new", "{}"), Fetch("/api/post/new"), Post("/api/post/reply/t1", "hi"), Fetch("/faq")>>,
     <<[Post("/api/post/reply/t1", "hello") EXCEPT !.chunks = <<3, 2>>], Fetch("/")>>,
     <<[Fetch("/faq") EXCEPT !.headers = <<<<"Host", "a">>, <<"X", "">>, <<"Cookie", "s=1">>>>],
       [Fetch("/") EXCEPT !.headers = <<<<"Connection", "keep-alive">>, <<"Y", "">>>>]>>,
     <<[Fetch("/faq") EXCEPT !.headers = <<<<"X-Long", "a" \o NewLine \o " b">>>>], Fetch("*"),
       Fetch("http://a.b/faq")>>,
     <<[Fetch("/faq") EXCEPT !.headers = <<<<"Connection", "close">>>>], Fetch("/")>>,
     <<[Fetch("/faq") EXCEPT !.version = "1.0"], Fetch("/")>>,
     <<[Fetch("/faq") EXCEPT !.version = "1.0", !.headers = <<<<"Connection", "keep-alive">>>>], Fetch("/")>>,
     <<Post("/api/post/new", "x"), [Post("/api/post/new", "y") EXCEPT !.length = 257]>>,
     <<[Fetch("/") EXCEPT !.headers = <<<<"Cookie", "0123456789012345678901234567890123456789">>,
                                    <<"Accept", "0123456789012345678901234567890123456789">>>>]>>}
  \cup {<<[Fetch("/") EXCEPT !.method = m]>> : m \in H!Methods \ {"CONNECT"}}
=============================================================================
