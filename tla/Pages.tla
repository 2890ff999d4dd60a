------------------------------- MODULE Pages ---------------------------------
(***************************************************************************)
(* The pages of the forum (src/src/pages.cpp and the routes of main.cpp)   *)
(* with the categories they share, the number of users online, and what    *)
(* becomes of the text of a post on its way: from the body of a request    *)
(* through the values of json.h to CouchDB, and from there into a page.    *)
(*                                                                         *)
(* Values are those of Json: what load() gives (rvalue), and what handlers *)
(* make (wvalue).  A lookup that throws gives Error.  The context of a     *)
(* page is what its template is given; times and wording are left out.     *)
(***************************************************************************)
EXTENDS Text
LOCAL INSTANCE SequencesExt
J == INSTANCE Json

CONSTANTS
    Categories,     \* as CouchDB lists them: records of an id, url, name and order
    Unknown,        \* an url that no category has
    Titles, Posts,  \* what is posted, and
    HtmlOf,         \* what Markdown_to_HTML() makes of each text (Markdown has how)
    Authors,        \* names of users, who all have a notification
    Counts,         \* what the script that counts users may answer
    PerPage,        \* TOPIC_PER_PAGE; 20 in the program
    MaxPosts,       \* bounds: topics and replies, and
    MaxPage         \* the pages that are asked for

VARIABLES
    program,        \* is it running: loop.sh starts it again when it ends
    category_id, category_url, category_nav,
    online,
    couch,          \* the documents of topics, the last active first
    posted,         \* history: what was posted, in the same order
    page            \* the page that is looked at, if nothing has changed since it was asked for
pagesVars == <<program, category_id, category_url, category_nav, online, couch, posted, page>>
indexVars == <<program, category_nav, online>>

-----------------------------------------------------------------------------
(* Lookups of a value that was read (rvalue), and a value that is made     *)
(* (wvalue), which is emptied where it is used as another type.            *)

Member(v, key) == IF v.t = "object" /\ key \in DOMAIN v.o THEN v.o[key] ELSE J!Error
Item(v, i)     == IF v.t = "list" /\ i \in 0 .. Len(v.l) - 1 THEN v.l[i + 1] ELSE J!Error
Has(v, key)    == key \in DOMAIN v.o

MembersOf(v)   == IF v.t = "object" THEN v.o ELSE <<>>
With(v, new)   == J!Object([k \in DOMAIN MembersOf(v) \cup DOMAIN new |->
                              IF k \in DOMAIN new THEN new[k] ELSE MembersOf(v)[k]])
\* What operator[] refers to, and the value afterwards: it makes a member that is not there.
Get(v, key)    == IF key \in DOMAIN MembersOf(v) THEN v.o[key] ELSE J!Null
Touched(v, key) == With(v, [k \in {key} |-> Get(v, key)])
TextIn(v)      == IF v.t = "string" THEN v.s ELSE ""
Num(n)         == J!Number(ToText(n))

-----------------------------------------------------------------------------
(* CouchDB: its documents as texts, and the texts of its views.            *)

RowsText(rows) == Concat[[k \in DOMAIN rows |-> (IF k > 1 THEN ",\r\n" ELSE "") \o J!Dump(rows[k])]]
ViewText(rows) ==
    "{\"total_rows\":" \o ToText(Len(rows)) \o ",\"rows\":[\r\n" \o RowsText(rows) \o "\r\n]}"
RowOf(doc)     == J!Object([id |-> doc.o["_id"], value |-> doc])
CategoryDoc(c) == J!Object([_id |-> J!Str(c.id), url |-> J!Str(c.url), name |-> J!Str(c.name),
                            order |-> Num(c.order)])
IsEmpty(text)  == Find(text, "rows\":[\r\n\r\n]") # 0

\* get_topic() and get_new_topic(); up says whether CouchDB answers.
TextOf(docs)        == IF docs = <<>> THEN "error" ELSE J!Dump(docs[1])
get_topic(id, up)   == TextOf(SelectSeq(couch, LAMBDA d : up /\ d.o["_id"].s = id))
Unless(text)        == IF IsEmpty(text) THEN "error" ELSE text
PageFrom(s, skip)   ==
    SubSeq(s, skip + 1, IF Len(s) < skip + PerPage THEN Len(s) ELSE skip + PerPage)
RowsOf(docs)        == [k \in DOMAIN docs |-> RowOf(docs[k])]
get_new_topic(n, category, up) ==
    IF ~up \/ n < 1 THEN "error"
    ELSE Unless(ViewText(RowsOf(PageFrom(
             SelectSeq(couch, LAMBDA d : category \in {"", d.o["category"].s}), (n - 1) * PerPage))))

UserDoc(name) == J!Object([_id |-> J!Str(name), uid |-> J!Str(name), username |-> J!Str(name),
                           avatar |-> J!Str("/" \o name)])
user_info_by_name(name, up) ==
    IF ~up THEN "error"
    ELSE Unless(ViewText(IF name \in Authors THEN <<RowOf(UserDoc(name))>> ELSE <<>>))

NoteDoc(name) == J!Object([notifications |-> J!List(<<J!Object([user |-> J!Str(name)])>>)])
get_notifications(name, up) == IF up /\ name \in Authors THEN J!Dump(NoteDoc(name)) ELSE "error"

-----------------------------------------------------------------------------
(* The categories (pages.cpp).                                             *)

NavItem(order, url, name) ==
    IF order < 0 THEN "<a class=\"menu-item hidden\" href=\"#\">" \o url \o "</a>"
    ELSE "<a class=\"menu-item\" href=\"/node/" \o url \o "/1\">" \o name \o "</a>"

OrderOf(row) == LET t == Member(Member(row, "value"), "order").s
                IN IF Ch(t, 1) = "-" THEN -ToNumber(From(t, 2)) ELSE ToNumber(t)
Field(row, key)     == Member(Member(row, "value"), key)
\* catemap: the first of those with the same order, in order.
Mapped(rows)  == {k \in DOMAIN rows : \A j \in 1 .. k - 1 : OrderOf(rows[j]) # OrderOf(rows[k])}
InNav(rows)   == SetToSortSeq(Mapped(rows), LAMBDA j, k : OrderOf(rows[j]) < OrderOf(rows[k]))
BuildCategoryNav(rows) ==
    Concat[[n \in DOMAIN InNav(rows) |->
              LET row == rows[InNav(rows)[n]]
              IN NavItem(OrderOf(row), Field(row, "url").s, Field(row, "name").s)]]

\* index[key]["url"] = ..., and so on, for each row.
IndexEntry(key, fields) == [key |-> key.s, value |-> J!Object(fields)]
Indexed(index, entries) ==
    LET after[n \in 0 .. Len(entries)] ==
            IF n = 0 THEN index
            ELSE With(after[n - 1], [k \in {entries[n].key} |-> entries[n].value])
    IN after[Len(entries)]
ById(row)  == IndexEntry(Member(row, "id"), [url |-> Field(row, "url"), name |-> Field(row, "name")])
ByUrl(row) == IndexEntry(Field(row, "url"), [id |-> Member(row, "id"), name |-> Field(row, "name")])
BuildWith(rows) ==
    /\ category_id'  = Indexed(category_id, [n \in DOMAIN rows |-> ById(rows[n])])
    /\ category_url' = Indexed(category_url, [n \in DOMAIN rows |-> ByUrl(rows[n])])
    /\ category_nav' = BuildCategoryNav(rows)
CategoriesText     == ViewText(RowsOf([k \in DOMAIN Categories |-> CategoryDoc(Categories[k])]))
BuildCategoryIndex == BuildWith(Member(J!Parse(CategoriesText), "rows").l)

\* GetCategoryInfoByUrl(): the answer; and category_url' is touched.
CategoryInfo(url) == J!Load(J!Dump(Get(category_url, url)))
NameOf(id)        == J!Str(TextIn(Get(Get(category_id, id), "name")))
UrlOf(id)         == J!Str(TextIn(Get(Get(category_id, id), "url")))

-----------------------------------------------------------------------------
(* Rendering.                                                              *)

Html(v) == J!Str(HtmlOf[v.s])

\* render_topic_list_string(), of a list with a row at least.
ListItem(v) ==
    LET id == TextIn(Get(v, "category"))
    IN J!Load(J!Dump(With(v, [categoryname |-> NameOf(id), categoryurl |-> UrlOf(id)])))
ListOf(rows) == IF rows.t # "list" THEN J!Error
                ELSE J!List([k \in DOMAIN rows.l |-> ListItem(Member(rows.l[k], "value"))])
render_topic_list(text) == ListOf(Member(J!Load(text), "rows"))

\* render_topic_json()
RenderedReplyMutant(reply, floor) == With(reply, [floor |-> Num(floor)])
RenderedReply(reply, floor) ==
    With(reply, [content |-> Html(Member(reply, "content")), floor |-> Num(floor)])
RenderedReplies(json) ==
    IF ~Has(json, "replies") THEN [reply_num |-> Num(0)]
    ELSE LET replies == Member(json, "replies").l
         IN [reply_num |-> Num(Len(replies)),
             replies |-> J!List([k \in DOMAIN replies |-> RenderedReply(replies[k], k + 1)])]
RenderedContent(content) == [content |-> J!List([k \in DOMAIN content |-> Html(content[k])]),
                             edit_times |-> Num(Len(content) - 1)]
RenderedCategory(id)     == [categoryname |-> NameOf(id), categoryurl |-> UrlOf(id)]
render_topic_json(json) ==
    IF json.t # "object" THEN J!Error
    ELSE With(With(With(json, RenderedContent(Member(json, "content").l)), RenderedReplies(json)),
              RenderedCategory(Member(json, "category").s))

-----------------------------------------------------------------------------
(* The routes.  An exception is answered with 500.                         *)

Answer(code, shown)  == [code |-> code, shown |-> shown]
Refused(code)        == Answer(code, J!Null)
Shown(context)       == IF \E k \in DOMAIN context : context[k] = J!Error THEN Refused(500)
                        ELSE Answer(200, With(J!Object(context), [online |-> Num(online),
                                                categorynav |-> J!Str(category_nav)]))

IndexPage(up) == Shown([topics |-> render_topic_list(get_new_topic(1, "", up))])
TopicShown(json) == Shown([topic |-> render_topic_json(json), topic_title |-> Member(json, "title")])
TopicPage(text)  == IF text = "error" THEN Refused(404) ELSE TopicShown(J!Load(text))
Between(n) == [page |-> Num(n), prev |-> Num(n - 1), next |-> Num(n + 1)]
ListShown(n, text, context) ==
    Shown([f \in DOMAIN Between(n) \cup DOMAIN context \cup {"topics"} |->
             CASE f = "topics" -> render_topic_list(text)
               [] f \in DOMAIN Between(n) -> Between(n)[f]
               [] OTHER -> context[f]])
NewestPage(n, text) == IF n < 0 \/ text = "error" THEN Refused(404)
                       ELSE ListShown(n, text, [category |-> J!Str("new")])
NodeShown(n, text, url, info) ==
    IF text = "error" THEN Refused(500)
    ELSE ListShown(n, text, [category |-> J!Str(J!Escape(url)),
                             categoryname |-> Member(info, "name")])
NodePage(url, n, info, up) ==
    IF info = J!Null THEN Refused(404)
    ELSE NodeShown(n, get_new_topic(n, Member(info, "id").s, up), url, info)

ApiList(text) == IF text = "error" THEN Refused(500)
                 ELSE Answer(200, J!Load(J!Dump(render_topic_list(text))))
ApiNode(info, n, up) == IF info = J!Null THEN Refused(404)
                        ELSE ApiList(get_new_topic(n, Member(info, "id").s, up))
\* The handler goes on after it has set 404, and throws.
ApiShown(topic) == IF topic = J!Error THEN Refused(500) ELSE Answer(200, J!Load(J!Dump(topic)))
ApiTopic(text)  == ApiShown(render_topic_json(J!Load(text)))

UserIn(text)    == Member(Item(Member(J!Load(text), "rows"), 0), "value")
UserPage(text)  == IF text = "error" THEN Refused(404) ELSE Shown(UserIn(text).o)
Avatar(text)    == Answer(302, IF text = "error" THEN J!Str("/static/images/noavatar.png")
                               ELSE Member(UserIn(text), "avatar"))
NoNote          == J!List(<<J!Object([url |-> J!Str("/")])>>)
NotesPage(text) == Shown([notifications |-> IF text = "error" THEN J!Load(J!Dump(NoNote))
                                            ELSE Member(J!Load(text), "notifications")])

-----------------------------------------------------------------------------
(* What happens.                                                           *)

NoPage == [route |-> "none", id |-> "", n |-> 0, up |-> TRUE, code |-> 200, shown |-> J!Null]

PagesInit ==
    /\ program = "ended"
    /\ category_id = J!Null /\ category_url = J!Null /\ category_nav = ""
    /\ online = -1 /\ couch = <<>> /\ posted = <<>> /\ page = NoPage

\* Without the categories the program ends, and loop.sh starts it again.
Starts ==
    /\ program = "ended"
    /\ \/ program' = "runs" /\ BuildCategoryIndex
       \/ UNCHANGED <<program, category_id, category_url, category_nav>>
    /\ UNCHANGED <<online, couch, posted, page>>

\* UpdateOnlineCount(), every five minutes: a number; no answer; or one that is no
\* number, which ends the program.
OnlineCounted(n) ==
    /\ program = "runs"
    /\ online' = (IF n = 0 THEN 1 ELSE n) /\ page' = NoPage
    /\ UNCHANGED <<program, category_id, category_url, category_nav, couch, posted>>
OnlineUnknown ==
    /\ program = "runs"
    /\ online' = -1 /\ page' = NoPage
    /\ UNCHANGED <<program, category_id, category_url, category_nav, couch, posted>>
OnlineGarbled ==
    /\ program = "runs"
    /\ program' = "ended"
    /\ category_id' = J!Null /\ category_url' = J!Null /\ category_nav' = "" /\ online' = -1
    /\ page' = NoPage
    /\ UNCHANGED <<couch, posted>>

Urls == {Categories[k].url : k \in DOMAIN Categories} \cup {Unknown}
Ids  == {"t" \o ToText(k) : k \in 1 .. MaxPosts}

Asked(route, id, n, up, answer) ==
    /\ program = "runs" /\ page = NoPage
    /\ page' = [route |-> route, id |-> id, n |-> n, up |-> up,
                code |-> answer.code, shown |-> answer.shown]
    /\ UNCHANGED <<indexVars, category_id, couch, posted>>
Plain(route, id, n, up, answer) == Asked(route, id, n, up, answer) /\ UNCHANGED category_url
Looking(route, url, n, up, answer) ==
    Asked(route, url, n, up, answer) /\ category_url' = Touched(category_url, url)

AsksIndex    == \E up \in BOOLEAN : Plain("/", "", 1, up, IndexPage(up))
AsksTopic    == \E id \in Ids, up \in BOOLEAN :
                    Plain("/topic", id, 0, up, TopicPage(get_topic(id, up)))
AsksNewest   == \E n \in -1 .. MaxPage, up \in BOOLEAN :
                    Plain("/page", "", n, up, NewestPage(n, get_new_topic(n, "", up)))
AsksNode     == \E url \in Urls, n \in 0 .. MaxPage, up \in BOOLEAN :
                    Looking("/node", url, n, up, NodePage(url, n, CategoryInfo(url), up))
AsksApiNode  == \E url \in Urls, n \in 0 .. MaxPage, up \in BOOLEAN :
                    Looking("/api/node", url, n, up, ApiNode(CategoryInfo(url), n, up))
AsksApiNew   == \E n \in 0 .. MaxPage, up \in BOOLEAN :
                    Plain("/api/node/new", "", n, up, ApiList(get_new_topic(n, "", up)))
AsksApiTopic == \E id \in Ids, up \in BOOLEAN :
                    Plain("/api/topic", id, 0, up, ApiTopic(get_topic(id, up)))
AsksUser     == \E name \in Authors \cup {""}, up \in BOOLEAN :
                    Plain("/user/name", name, 0, up, UserPage(user_info_by_name(name, up)))
AsksAvatar   == \E name \in Authors \cup {""}, up \in BOOLEAN :
                    Plain("/info/avatar", name, 0, up, Avatar(user_info_by_name(name, up)))
AsksNotes    == \E name \in Authors \cup {""}, up \in BOOLEAN :
                    Plain("/notifications", name, 0, up, NotesPage(get_notifications(name, up)))
AsksForm     == Plain("/post/new", "", 0, TRUE, Shown(<<>>))

\* /api/post/new with a body that the page wrote, and post_topic().
Body(title, content, url) ==
    J!Load(J!Dump(J!Object([title |-> J!Str(title), content |-> J!Str(content),
                            category |-> J!Str(url)])))
Topic(user, body, info) ==
    J!Object([user |-> J!Str(user), title |-> Member(body, "title"), category |-> Member(info, "id"),
              status |-> Num(1), updateAt |-> Num(0),
              content |-> J!List(<<Member(body, "content")>>)])
HowMany == Len(couch) + Cardinality(UNION {{<<k, i>> : i \in DOMAIN posted[k].replies} : k \in DOMAIN posted})
NewId == "t" \o ToText(Len(couch) + 1)
Stored(topic) == With(J!Parse(J!Dump(topic)), [_id |-> J!Str(NewId)])
PostsTopic ==
    \E user \in Authors, title \in Titles, content \in Posts, url \in Urls :
        /\ program = "runs"
        /\ HowMany < MaxPosts
        /\ IF CategoryInfo(url) = J!Null THEN UNCHANGED <<couch, posted>>
           ELSE /\ couch' = <<Stored(Topic(user, Body(title, content, url), CategoryInfo(url)))>> \o couch
                /\ posted' = <<[id |-> NewId, title |-> title, content |-> content, url |-> url,
                                user |-> user, replies |-> <<>>]>> \o posted
        /\ category_url' = Touched(category_url, url) /\ page' = NoPage
        /\ UNCHANGED <<indexVars, category_id>>

\* add_reply(), and the update function addReplyX; a topic that got a reply is the last
\* active one.
Reply(user, content) == J!Parse(J!Dump(J!Object([user |-> J!Str(user), body |-> J!Str(content)])))
RepliesIn(doc) == IF Has(doc, "replies") THEN Member(doc, "replies").l ELSE <<>>
Replied(doc, reply) ==
    With(doc, [replies |-> J!List(Append(RepliesIn(doc), J!Object([user |-> Member(reply, "user"),
                                                                  content |-> Member(reply, "body")])))])
ToFront(s, k, x) == <<x>> \o RemoveAt(s, k)
PostsReply ==
    \E user \in Authors, content \in Posts, k \in DOMAIN couch :
        /\ program = "runs"
        /\ HowMany < MaxPosts
        /\ couch' = ToFront(couch, k, Replied(couch[k], Reply(user, content)))
        /\ posted' = ToFront(posted, k, [posted[k] EXCEPT !.replies = Append(@, <<user, content>>)])
        /\ page' = NoPage
        /\ UNCHANGED <<indexVars, category_id, category_url>>

Leaves ==
    /\ page # NoPage
    /\ page' = NoPage
    /\ UNCHANGED <<indexVars, category_id, category_url, couch, posted>>

PagesNext ==
    \/ Starts \/ Leaves \/ (\E n \in Counts : OnlineCounted(n)) \/ OnlineUnknown \/ OnlineGarbled
    \/ AsksIndex \/ AsksTopic \/ AsksNewest \/ AsksNode \/ AsksApiNode \/ AsksApiNew
    \/ AsksApiTopic \/ AsksUser \/ AsksAvatar \/ AsksNotes \/ AsksForm
    \/ PostsTopic \/ PostsReply

-----------------------------------------------------------------------------

CategoryAt(url) == Categories[CHOOSE k \in DOMAIN Categories : Categories[k].url = url]
Agrees(v, record) == \A f \in DOMAIN record : f \in DOMAIN v.o /\ v.o[f] = record[f]
AsPosted(p)      == [title |-> J!Str(p.title), user |-> J!Str(p.user), categoryurl |-> J!Str(p.url),
                    categoryname |-> J!Str(CategoryAt(p.url).name)]
Contents(p)     == <<p.content>> \o [i \in DOMAIN p.replies |-> p.replies[i][2]]
HtmlsOf(p)      == [i \in DOMAIN Contents(p) |-> J!Str(HtmlOf[Contents(p)[i]])]
ShowsTopic(v, p, htmls) ==
    /\ Agrees(v, AsPosted(p))
    /\ Agrees(v, [content |-> J!List(<<htmls[1]>>), edit_times |-> Num(0),
                  reply_num |-> Num(Len(p.replies))])
    /\ \A i \in DOMAIN p.replies :
          Agrees(v.o["replies"].l[i], [user |-> J!Str(p.replies[i][1]), floor |-> Num(i + 1),
                                      content |-> htmls[i + 1]])
ShowsList(v, posts) ==
    /\ Len(v.l) = Len(posts)
    /\ \A k \in DOMAIN posts : Agrees(v.l[k], AsPosted(posts[k])) /\ v.l[k].o["_id"] = J!Str(posts[k].id)
PageAt(url, n) ==
    PageFrom(SelectSeq(posted, LAMBDA p : url \in {"", p.url}), (n - 1) * PerPage)
PostNamed(id) == SelectSeq(posted, LAMBDA p : p.id = id)

\* What a page shows, and what it ought to show of what was posted.
ShownIn(shown) == IF page.route = "/topic" THEN shown.o["topic"]
                  ELSE IF page.route \in {"/", "/page", "/node"} THEN shown.o["topics"]
                  ELSE shown
TopicPages == {"/topic", "/api/topic"}
ListPages  == {"/", "/page", "/node", "/api/node", "/api/node/new"}
Wanted     == IF page.route \in TopicPages THEN PostNamed(page.id)
              ELSE IF page.n > 0 THEN PageAt(page.id, page.n) ELSE <<>>
ShowsWanted ==
    IF page.route \in TopicPages THEN ShowsTopic(ShownIn(page.shown), Wanted[1], HtmlsOf(Wanted[1]))
    ELSE ShowsList(ShownIn(page.shown), Wanted)

\* The menu leads to each category that is not hidden, but for those whose order another has.
MenuLeads(nav) ==
    \A k \in DOMAIN Categories :
        Find(nav, "/node/" \o Categories[k].url \o "/1\"") # 0 <=>
            /\ Categories[k].order >= 0
            /\ \A j \in 1 .. k - 1 : Categories[j].order # Categories[k].order

\* While CouchDB answers, a page shows what was posted, whatever was asked for before and
\* however often the program began again: the texts of a topic and its replies in their
\* order as the HTML of what was written, its title as it was written, the name and url
\* of its category; the lists their topics, the last active first; and the menu.  A page
\* that there is no such thing for is refused (pages.cpp:31, 72, 77, 118; json.h:290,
\* 1249, 1270; main.cpp:117, 435).
PagesShowTheForum ==
    /\ page.code = 200 /\ "categorynav" \in DOMAIN MembersOf(page.shown) =>
          MenuLeads(page.shown.o["categorynav"].s)
    /\ page.up /\ page.route \in TopicPages \cup ListPages =>
          IF Wanted = <<>> THEN page.code # 200 ELSE page.code = 200 /\ ShowsWanted
=============================================================================
