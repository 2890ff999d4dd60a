------------------------------ MODULE Services -------------------------------
(***************************************************************************)
(* What handlers work with, each on its own: the pool of Redis connections *)
(* (RedisPool), the REST client (RestClient), and the three languages that *)
(* handlers read and write, JSON (Json), the Markdown of posts (Markdown)  *)
(* and the templates of pages (Mustache, Templates).                       *)
(*                                                                         *)
(* They share no state, and a behaviour is of one of them.  A text is      *)
(* written piece by piece; every text that is reached is looked at.        *)
(***************************************************************************)
EXTENDS RedisPool, RestClient, Markdown

CONSTANTS
    DocumentBegins, DocumentPieces, MaxDocument,    \* how documents begin and go on, and
    PostBegins, PostPieces, MaxPost,                \* bounds: how many pieces follow
    MaxTemplate,
    Leavings        \* what may stand in memory behind the address of a link

T == INSTANCE Templates

VARIABLES
    subject,    \* what the behaviour is of
    chosen,     \* the text so far
    behind      \* a member of Leavings
textVars == <<subject, chosen, behind>>
vars == <<redisVars, restVars, textVars>>

Parts == {"redis", "rest", "document", "post", "template"}
Init ==
    /\ RedisInit
    /\ RestInit
    /\ subject \in Parts
    /\ chosen \in CASE subject = "document" -> {<<b>> : b \in DocumentBegins}
                    [] subject = "post"     -> {<<b>> : b \in PostBegins}
                    [] OTHER             -> {<<>>}
    /\ behind \in IF subject = "post" THEN Leavings ELSE {""}

UseRedis == subject = "redis" /\ RedisNext /\ UNCHANGED <<restVars, textVars>>
UseRest  == subject = "rest" /\ RestNext /\ UNCHANGED <<redisVars, textVars>>

Write(p, allowed, max) ==
    /\ subject = p
    /\ Len(chosen) < max
    /\ \E t \in allowed : chosen' = Append(chosen, t)
    /\ UNCHANGED <<redisVars, restVars, subject, behind>>
WriteDocument == Write("document", DocumentPieces, 1 + MaxDocument)
WritePost     == Write("post", PostPieces, 1 + MaxPost)
WriteTemplate == Write("template",
    {t \in DOMAIN T!Pieces : t = "{{/}}" => T!Opened(chosen) # <<>>}, MaxTemplate)

Next == UseRedis \/ UseRest \/ WriteDocument \/ WritePost \/ WriteTemplate
Spec == Init /\ [][Next]_vars

-----------------------------------------------------------------------------

Text == Concat[chosen]

\* What json.h takes and rapidjson does not: in a string, a control character (json.h:681,
\* reader.h:715) or the escape of half of a surrogate pair before no second half (reader.h:695);
\* a point or an exponent without digits (json.h:835; reader.h:867, 946), and a number too
\* big for a double (reader.h:941).
InString(t, i)  == Cardinality({j \in 1 .. i - 1 : Ch(t, j) = "\"" /\ Ch(t, j - 1) # "\\"}) % 2 = 1
FirstHalves(t)  == {i \in 1 .. Len(t) : At(t, i, "\\u") /\ T!IsFirstHalf(t, i + 2)}
HasControl(t)   == \E i \in 1 .. Len(t) : InString(t, i) /\ T!IsControl(T!CharAt(t, i))
HasHalf(t)      == \E i \in FirstHalves(t) : ~(At(t, i + 6, "\\u") /\ T!IsSecondHalf(t, i + 8))
DigitsAt(t, i)  == IF Ch(t, i + 1) \in {"+", "-"} /\ Ch(t, i) # "." THEN i + 2 ELSE i + 1
LacksDigits(t)  == \E i \in 1 .. Len(t) : /\ ~InString(t, i)
                                          /\ Ch(t, i) \in {".", "e"} /\ Ch(t, i - 1) \in Nums \cup {"."}
                                          /\ Ch(t, DigitsAt(t, i)) \notin Nums
IsTooBig(t)     == \E i \in 1 .. Len(t) : /\ Ch(t, i) = "e" /\ Ch(t, i - 1) \in Nums
                                          /\ ToNumber(Cut(t, i + 1, T!DigitsEnd(t, i + 1) - 1)) > 308
OnlyLoaded(t)   == HasControl(t) \/ HasHalf(t) \/ LacksDigits(t) \/ IsTooBig(t)

\* What rapidjson takes and json.h does not: a zero with an exponent (json.h:869).
OnlyParsed(t) == \E i \in 1 .. Len(t) : /\ Ch(t, i) = "e" /\ Ch(t, i - 1) = "0"
                                        /\ Ch(t, i - 2) \notin Nums \cup {"."}

\* Do two values have the same in them, but for what their numbers are?
RECURSIVE SameTexts(_, _)
SameTexts(v, w) ==
    /\ v.t = w.t
    /\ CASE v.t = "list"   -> /\ Len(v.l) = Len(w.l)
                              /\ \A k \in DOMAIN v.l : SameTexts(v.l[k], w.l[k])
         [] v.t = "object" -> /\ DOMAIN v.o = DOMAIN w.o
                              /\ \A k \in DOMAIN v.o : SameTexts(v.o[k], w.o[k])
         [] v.t = "number" -> TRUE
         [] OTHER          -> v = w

\* Both readers take the same texts for documents and find the same in them, but for what
\* is listed above, and for surrogate pairs, of which json.h makes two characters
\* (json.h:335) and rapidjson one (reader.h:701).  What dump() writes of a value, whatever
\* that was read from, both take, and find alike in it what the value has, but for
\* numbers, which a wvalue rounds (json.h:1342); written a second time it no longer
\* changes.  The login and the category index read with one what handlers write with the
\* other (api.cpp:80, pages.cpp:20).
WrittenAgree(value, written) ==
    LET value2   == T!Load(written)
        written2 == T!Dump(value2)
    IN /\ value2 # T!Error /\ T!Parse(written) = value2
       /\ SameTexts(value, value2)
       /\ T!Dump(T!Load(written2)) = written2
ReadersAgree(t, loaded, parsed) ==
    /\ parsed = loaded \/ CASE parsed = T!Error -> OnlyLoaded(t)
                            [] loaded = T!Error -> OnlyParsed(t)
                            [] OTHER            -> FirstHalves(t) # {}
    /\ loaded # T!Error /\ ~LacksDigits(t) /\ ~IsTooBig(t) => WrittenAgree(loaded, T!Dump(loaded))
DocumentsAgree == subject = "document" => ReadersAgree(Text, T!Load(Text), T!Parse(Text))

\* Whatever somebody writes in a post, the markup of it closes every element that it
\* opens, inside out, and has no other markup than the renderer's: the parser rewinds its
\* output behind an address that it finds in the midst of a text, renders the parts of a
\* span before the span, and gives up below a level (document.c:486, 602, 458;
\* autolink.c:147; html.c:262).
MarkupCloses == subject = "post" => WellFormed(MarkdownToHtml(Text, behind))

\* A template, whose sections all close, renders what its pieces mean: each name is
\* that of the innermost value that has it, sections repeat and are left out, a tag that
\* stands alone takes its line with it, and a page fails exactly where a value has no
\* text (mustache.h:67, 146, 447).  This is of one rendering alone: that several write
\* the static text for missing names at once (mustache.h:123) is not modelled.
TemplatesMean ==
    subject = "template" =>
        LET all   == T!Closed(chosen)
            files == [f \in {"p"} |-> T!Written(T!Partial)]
        IN T!Render(files, T!Written(all), T!Page) = T!Meaning(all)
=============================================================================
