------------------------------- MODULE Markdown -------------------------------
(***************************************************************************)
(* How a post becomes markup: Markdown_to_HTML of src/src/pages.cpp, and   *)
(* what src/src/sundown does with the extensions and flags given there.    *)
(*                                                                         *)
(* A parser of src/src/sundown/document.c is an operator over the text     *)
(* that it was given; positions count from 0 as the code's do.  What it    *)
(* returns is the number of characters it took, 0 when it does not apply,  *)
(* and its output buffer.  Characters of one byte; carriage returns and    *)
(* a byte order mark are not texts here.  TLA+ has no back-quote: Tick     *)
(* stands for it, and the dollar, an ordinary character here, is not used. *)
(***************************************************************************)
EXTENDS Text, TLC

CONSTANT Nesting      \* buffers in use beyond which nothing is parsed: 16

ASSUME NestingAssumption == Nesting \in Nat

Tick   == "$"
Blanks == {" ", "\n"}
Alnum  == Alphas \cup Nums

\* Texts from 0: a character, what follows i, from i up to but not j.
D(t, i)       == Ch(t, i + 1)
Rest(t, i)    == From(t, i + 1)
Part(t, i, j) == Cut(t, i + 1, j)
Last1(t)      == Ch(t, Len(t))
Least(i, j)   == IF i < j THEN i ELSE j
Count(t, set) == Cardinality({i \in 1 .. Len(t) : Ch(t, i) \in set})
LowerCase(t)  == Concat[[i \in 1 .. Len(t) |-> Lower(Ch(t, i))]]

\* The first place from i on of a character in set, and outside of it.
RECURSIVE To(_, _, _)
To(t, i, set)   == IF i < Len(t) /\ D(t, i) \notin set THEN To(t, i + 1, set) ELSE i
RECURSIVE Past(_, _, _)
Past(t, i, set) == IF i < Len(t) /\ D(t, i) \in set THEN Past(t, i + 1, set) ELSE i
RECURSIVE TrimEnd(_, _)
TrimEnd(t, set) == IF Last1(t) \in set THEN TrimEnd(Part(t, 0, Len(t) - 1), set) ELSE t

Eol(t, i)      == To(t, i, {"\n"})
NextLine(t, i) == Least(Eol(t, i) + 1, Len(t))
Indent(t, k)   == Least(k, Past(t, 0, {" "}))

(***************************************************************************)
(* escape.c                                                                *)
(***************************************************************************)
HtmlEscapes == [c \in {"\"", "&", "'", "<", ">"} |->
    CASE c = "\"" -> "&quot;" [] c = "&" -> "&amp;" [] c = "'" -> "&#39;"
      [] c = "<" -> "&lt;" [] c = ">" -> "&gt;"]
HrefEscapes == [c \in {"\"", "&", "'", "<", ">", " ", "\n", "[", "]", "\\", "^", "{", "}", "|", "~", Tick} |->
    CASE c = "&" -> "&amp;" [] c = "'" -> "&#x27;" [] c = "\"" -> "%22" [] c = "<" -> "%3C"
      [] c = ">" -> "%3E" [] c = " " -> "%20" [] c = "\n" -> "%0A" [] c = "[" -> "%5B"
      [] c = "]" -> "%5D" [] c = "\\" -> "%5C" [] c = "^" -> "%5E" [] c = "{" -> "%7B"
      [] c = "}" -> "%7D" [] c = "|" -> "%7C" [] c = "~" -> "%7E" [] c = Tick -> "%60"]
Replaced(t, table) ==
    Concat[[i \in 1 .. Len(t) |-> IF Ch(t, i) \in DOMAIN table THEN table[Ch(t, i)] ELSE Ch(t, i)]]
EscapeHtml(t) == Replaced(t, HtmlEscapes)
EscapeHref(t) == Replaced(t, HrefEscapes)

(***************************************************************************)
(* html.c: the renderers.  Those of spans return the text they add, ""     *)
(* when they refuse; those of blocks the whole output.                     *)
(***************************************************************************)
Element(name, content) == "<" \o name \o ">" \o content \o "</" \o name \o ">"
Break(ob)              == IF ob = "" THEN ob ELSE ob \o "\n"

RenderAutolink(link, type) ==
    IF link = "" THEN ""
    ELSE "<a target=\"_blank\" href=\"" \o (IF type = "email" THEN "mailto:" ELSE "")
         \o EscapeHref(link) \o "\">"
         \o EscapeHtml(IF StartsWith(link, "mailto:") THEN Rest(link, 7) ELSE link) \o "</a>"

\* strncmp does not know where the link ends: what a longer link left in
\* the same buffer (left) counts too.
Prefixed(link, left, prefix) == StartsWith(link \o left, prefix)
Reachable(link, left) == \E p \in {"http", "//", "/attachments/"} : Prefixed(link, left, p)
Titled(title) == IF title = "" THEN "" ELSE "\" title=\"" \o EscapeHtml(title)
Framed(source) ==
    "<iframe frameborder=\"0\" onload=\"resizeFrame(this)\" allowtransparency=\"true\" "
    \o "allowfullscreen=\"true\" src=\"" \o source \o "\"></iframe>"
Players == [p \in {"em:", "youtube:"} |-> IF p = "em:"
    THEN "https://cmplayer.b0.upaiyun.com/player/?wshost=https://wsedge.mybluemix.net/&vid="
    ELSE "https://www.youtube.com/embed/"]

RenderLink(content, link, left, title) ==
    LET anchor(with) == "<a " \o with \o " href=\"" \o EscapeHref(link) \o Titled(title)
                        \o "\">" \o content \o "</a>"
        frames == {p \in DOMAIN Players : Prefixed(link, left, p)}
    IN CASE link = ""                -> ""
         [] StartsWith(link, "#")    -> anchor("class=\"floorLink\"")
         [] frames # {}              -> LET p == CHOOSE p \in frames : TRUE
                                        IN Framed(Players[p] \o EscapeHref(Rest(link, Len(p))))
         [] Reachable(link, left)    -> anchor("target=\"_blank\"")
         [] OTHER                    -> ""

RenderImage(link, left, title, alt) ==
    IF link = "" \/ ~Reachable(link, left) THEN ""
    ELSE "<img class=\"image fit\" src=\"" \o EscapeHref(link) \o "\" alt=\"" \o EscapeHtml(alt)
         \o Titled(title) \o "\">"

RenderHeader(ob, content, level) ==
    Break(ob) \o Element("h" \o ToText(level), content) \o "\n"
RenderParagraph(ob, content) ==
    LET i == Past(content, 0, Blanks)
    IN IF i >= Len(content) THEN Break(ob)
       ELSE Break(ob) \o Element("p", Rest(content, i)) \o "\n"
RenderBlock(ob, name, content) ==
    Break(ob) \o "<" \o name \o ">\n" \o content \o "</" \o name \o ">\n"
RenderCode(ob, text) == Break(ob) \o "<pre><code>" \o EscapeHtml(text) \o "</code></pre>\n"
RenderItem(content)  == Element("li", TrimEnd(content, {"\n"})) \o "\n"
RenderRow(cells)     == "<tr>\n" \o cells \o "</tr>\n"
RenderCell(name, align, content) ==
    "<" \o name \o (IF align = "" THEN "" ELSE " style=\"text-align: " \o align \o "\"") \o ">"
    \o content \o "</" \o name \o ">\n"

(***************************************************************************)
(* autolink.c: addresses in the middle of a text.                          *)
(***************************************************************************)
Opening == [c \in {")", "]", "}"} |-> CASE c = ")" -> "(" [] c = "]" -> "[" [] c = "}" -> "{"]

\* Without the punctuation that ends a sentence, or an entity.
RECURSIVE Unpunctuated(_)
Unpunctuated(t) ==
    LET n      == Len(t)
        word   == n - 2 - (Len(Part(t, 1, n - 1)) - Len(TrimEnd(Part(t, 1, n - 1), Alphas)))
        entity == word < n - 2 /\ D(t, word) = "&"
    IN CASE t = ""                                -> t
         [] Last1(t) \in {"?", "!", ".", ",", ":"} -> Unpunctuated(Part(t, 0, n - 1))
         [] Last1(t) = ";"  -> Unpunctuated(Part(t, 0, IF entity THEN word ELSE n - 1))
         [] OTHER           -> t

\* autolink_delim: a closing sign stays only when the link opens it too.
WithoutOdd(u, c) ==
    IF \/ c \in {"\"", "'"}
       \/ c \in DOMAIN Opening /\ Count(u, {c}) # Count(u, {Opening[c]})
    THEN Part(u, 0, Len(u) - 1) ELSE u
DelimitedOf(u) == WithoutOdd(u, Last1(u))
Delimited(t)   == DelimitedOf(Unpunctuated(Part(t, 0, To(t, 0, {"<"}))))

\* check_domain: it has a dot, and its last character is not looked at.
DomainEnd(t) ==
    LET i == Past(Part(t, 0, Len(t) - 1), 1, Alnum \cup {".", ":", "-"})
    IN IF D(t, 0) \in Alnum /\ Count(Part(t, 1, i), {".", ":"}) > 0 THEN i ELSE 0

Schemes == {"http://", "https://", "/", "#", "ftp://", "mailto:"}
Safe(t) == \E s \in Schemes : StartsWith(LowerCase(t), s) /\ D(t, Len(s)) \in Alnum

\* How many of the last characters are in set, and an output without them.
Back(t, set)   == Len(t) - Len(TrimEnd(t, set))
Rewound(ob, k) == Part(ob, 0, Len(ob) - k)

(***************************************************************************)
(* document.c: spans.  A parser knows e: d, the buffers in use; in,        *)
(* whether it is inside the text of a link; left, what longer links left   *)
(* behind; refs, the links defined.  Took carries e.in on, which the code  *)
(* keeps in the document.                                                  *)
(***************************************************************************)
Took(n, out, in) == [n |-> n, out |-> out, in |-> in]
Nothing(e, out)  == Took(0, out, e.in)
Deeper(e, n)     == [e EXCEPT !.d = @ + n]
\* n characters were taken if the renderer added something.
Rendered(n, ob, added, in) == Took(IF added = "" THEN 0 ELSE n, ob \o added, in)

RECURSIVE Unscape(_)
Unscape(t) ==
    LET i == To(t, 0, {"\\"})
    IN IF i + 1 >= Len(t) THEN Part(t, 0, i)
       ELSE Part(t, 0, i) \o D(t, i + 1) \o Unscape(Rest(t, i + 2))

\* Newlines become spaces, and join a space before them.
ReplaceSpacing(t) ==
    Concat[[i \in 1 .. Len(t) |-> CASE Ch(t, i) # "\n" -> Ch(t, i)
                                    [] Ch(t, i) = "\n" /\ Ch(t, i - 1) = " " -> ""
                                    [] OTHER -> " "]]

IsEscaped(t, i) == Back(Part(t, 0, i), {"\\"}) % 2 = 1

\* Behind the nb ticks that end a code span, or the end.
RECURSIVE Closing(_, _, _, _)
Closing(t, i, nb, run) ==
    IF i < Len(t) /\ run < nb THEN Closing(t, i + 1, nb, IF D(t, i) = Tick THEN run + 1 ELSE 0)
    ELSE i
\* The first c from i up to but not j, or 0.
Between(t, i, j, c) == LET k == To(Part(t, 0, j), i, {c}) IN IF k < Least(j, Len(t)) THEN k ELSE 0

\* find_emph_char: the next c outside of code spans and links, or 0; one
\* inside of those that do not end counts after all.
RECURSIVE EmphFrom(_, _, _)
EmphPastTicks(t, i, open, close, c) ==
    CASE open >= Len(t)                      -> 0
      [] open < Len(t) /\ close >= Len(t)    -> Between(t, open, close, c)
      [] OTHER                               -> EmphFrom(t, close, c)
\* A link whose text ends at text, and what follows begins at next and ends at end.
EmphPastLink(t, next, end, first, c) ==
    CASE next >= Len(t) \/ (D(t, next) \notin {"[", "("} /\ first # 0) -> first
      [] next < Len(t) /\ D(t, next) \notin {"[", "("} /\ first = 0    -> EmphFrom(t, next, c)
      [] next < Len(t) /\ D(t, next) \in {"[", "("} /\ end >= Len(t)   ->
           IF first # 0 THEN first ELSE Between(t, next + 1, end, c)
      [] OTHER -> EmphFrom(t, end + 1, c)
EmphBehindText(t, i, text, next, c) ==
    EmphPastLink(t, next, To(t, next + 1, {IF D(t, next) = "[" THEN "]" ELSE ")"}),
                 Between(t, i + 1, text, c), c)
EmphAt(t, i, c) ==
    LET ticks == Past(t, i, {Tick})
        text  == To(t, i + 1, {"]"})
    IN CASE i >= Len(t)                          -> 0
         [] i < Len(t) /\ IsEscaped(t, i)        -> EmphFrom(t, i + 1, c)
         [] D(t, i) = c /\ ~IsEscaped(t, i)      -> i
         [] D(t, i) = Tick /\ c # Tick /\ ~IsEscaped(t, i) ->
              EmphPastTicks(t, i, ticks, Closing(t, ticks, ticks - i, 0), c)
         [] OTHER -> EmphBehindText(t, i, text, Past(t, text + 1, Blanks), c)
EmphFrom(t, from, c) == EmphAt(t, To(t, from, {c, "[", Tick}), c)
EmphChar(t, c) == EmphFrom(t, 0, c)

\* is_mail_autolink and tag_length: the length of a tag, and what it is.
MailEnd(t) ==
    LET i == Past(t, 0, Alnum \cup {"@", "-", ".", "_"})
    IN IF D(t, i) = ">" /\ Count(Part(t, 0, i), {"@"}) = 1 THEN i + 1 ELSE 0
RECURSIVE UriEnd(_, _)
UriEnd(t, i) ==
    CASE i >= Len(t) \/ D(t, i) \in {">", "'", "\"", " ", "\n"} -> i
      [] D(t, i) = "\\" -> UriEnd(t, i + 2)
      [] OTHER          -> UriEnd(t, i + 1)
TagLength(t) ==
    LET from   == IF D(t, 1) = "/" THEN 2 ELSE 1
        name   == Past(t, from, Alnum \cup {".", "+", "-"})
        mail   == IF name > 1 /\ D(t, name) = "@" THEN MailEnd(Rest(t, name)) ELSE 0
        scheme == name > 2 /\ D(t, name) = ":" /\ name + 1 < Len(t)
        uri    == IF scheme THEN UriEnd(t, name + 1) ELSE name
        end    == To(t, uri, {">"})
        Is(n, type) == [n |-> n, type |-> type]
    IN IF Len(t) < 3 \/ D(t, from) \notin Alnum THEN Is(0, "none")
       ELSE IF mail # 0 THEN Is(name + mail, "email")
       ELSE IF scheme /\ uri > name + 1 /\ D(t, uri) = ">" THEN Is(uri + 1, "normal")
       ELSE IF end >= Len(t) THEN Is(0, "none") ELSE Is(end + 1, "none")

\* How many characters behind i were not yet taken by a span.  The mutant
\* looks behind those too.
BehindMutant(i, consumed) == i
Behind(i, consumed)       == i - consumed

Active == {"*", "_", "~", "=", Tick, "\n", "[", "<", "\\", "&", ":", "@", "w"}

\* Blocks and spans hold one another: what parses either.
RECURSIVE Parse(_, _, _, _)
Inline(e, t) == Parse("spans", e, t, "")

\* A span of n characters whose content is t, inside of these elements.
Emphasised(e, t, n, open, close, ob) ==
    LET Around(inner) == Rendered(n, ob, IF inner.out = "" THEN "" ELSE open \o inner.out \o close,
                                  inner.in)
    IN Around(Inline(Deeper(e, 1), t))

\* parse_emph1, 2 and 3.  A c behind a blank ends the search for a single
\* one: the next search finds the same one at once.
Emph1(e, t, c, ob) ==
    LET from == IF Len(t) > 1 /\ D(t, 0) = c /\ D(t, 1) = c THEN 1 ELSE 0
        Ending(len, i) == IF len = 0 \/ D(t, i - 1) \in Blanks THEN Nothing(e, ob)
                          ELSE Emphasised(e, Part(t, 0, i), i + 1, "<em>", "</em>", ob)
        Found(len) == Ending(len, from + len)
    IN Found(EmphChar(Rest(t, from), c))

RECURSIVE Double(_, _, _)
DoubleAt(t, len, i, c) ==
    IF len = 0 THEN 0
    ELSE IF D(t, i + 1) = c /\ D(t, i - 1) \notin Blanks THEN i ELSE Double(t, i + 1, c)
DoubleFrom(t, from, len, c) == DoubleAt(t, len, from + len, c)
Double(t, from, c) ==
    DoubleFrom(t, from, IF from < Len(t) THEN EmphChar(Rest(t, from), c) ELSE 0, c)
Emph2(e, t, c, ob) ==
    LET name == CASE c = "~" -> "del" [] c = "=" -> "mark" [] OTHER -> "strong"
        Until(i) == IF i = 0 THEN Nothing(e, ob)
                    ELSE Emphasised(e, Part(t, 0, i), i + 2, "<" \o name \o ">", "</" \o name \o ">", ob)
    IN Until(Double(t, 0, c))

Shorter(r, k) == IF r.n = 0 THEN r ELSE [r EXCEPT !.n = @ - k]
Emph3At(e, t, i, c, ob) ==
    CASE i = 0 \/ D(t, i - 1) \in Blanks -> Nothing(e, ob)
      [] i # 0 /\ D(t, i - 1) \notin Blanks /\ D(t, i + 1) = c /\ D(t, i + 2) = c ->
           Emphasised(e, Part(t, 0, i), i + 3, "<strong><em>", "</em></strong>", ob)
      [] i # 0 /\ D(t, i - 1) \notin Blanks /\ D(t, i + 1) = c /\ D(t, i + 2) # c ->
           Shorter(Emph1(e, c \o c \o t, c, ob), 2)
      [] OTHER -> Shorter(Emph2(e, c \o t, c, ob), 1)
Emph3(e, t, c, ob) == Emph3At(e, t, EmphChar(t, c), c, ob)

\* char_emphasis: what follows one, two or three of the same sign.
EmphasisOf(e, s, c, run, ob) ==
    LET bare == Len(s) <= run + 1 \/ D(s, run) \in Blanks
        Longer(r, k) == IF r.n = 0 THEN r ELSE [r EXCEPT !.n = @ + k]
    IN CASE bare \/ run > 3 \/ (run # 2 /\ c \in {"~", "="}) -> Nothing(e, ob)
         [] ~bare /\ run = 1 /\ c \notin {"~", "="} -> Longer(Emph1(e, Rest(s, 1), c, ob), 1)
         [] ~bare /\ run = 2                        -> Longer(Emph2(e, Rest(s, 2), c, ob), 2)
         [] ~bare /\ run = 3 /\ c \notin {"~", "="} -> Longer(Emph3(e, Rest(s, 3), c, ob), 3)
Emphasis(e, s, ob) == EmphasisOf(e, s, D(s, 0), Past(s, 0, {D(s, 0)}), ob)

LineBreak(e, back, ob) ==
    IF Len(back) >= 2 /\ Back(back, {" "}) >= 2 THEN Took(1, TrimEnd(ob, {" "}) \o "<br>\n", e.in)
    ELSE Nothing(e, ob)

CodeSpan(e, s, ob) ==
    LET nb     == Past(s, 0, {Tick})
        end    == Closing(s, nb, nb, 0)
        closed == end - nb >= nb /\ \A i \in end - nb .. end - 1 : D(s, i) = Tick
        from   == Past(Part(s, 0, end), nb, {" "})
        text   == TrimEnd(Part(s, from, end - nb), {" "})
    IN IF ~closed THEN Nothing(e, ob)
       ELSE Took(end, ob \o Element("code", EscapeHtml(text)), e.in)

Escapable == {"\\", Tick, "*", "_", "{", "}", "[", "]", "(", ")", "#", "+", "-", ".", "!", ":",
              "|", "&", "<", ">", "^", "~", "=", "\""}
CharEscape(e, s, ob) ==
    CASE Len(s) > 1 /\ D(s, 1) \in Escapable    -> Took(2, ob \o EscapeHtml(D(s, 1)), e.in)
      [] Len(s) > 1 /\ D(s, 1) \notin Escapable -> Nothing(e, ob)
      [] Len(s) = 1                             -> Took(2, ob \o "\\", e.in)

Entity(e, s, ob) ==
    LET end == Past(s, IF D(s, 1) = "#" THEN 2 ELSE 1, Alnum)
    IN IF D(s, end) = ";" THEN Took(end + 1, ob \o Part(s, 0, end + 1), e.in) ELSE Nothing(e, ob)

\* Tags of the writer are escaped, addresses in angles become links.
LangleTagOf(e, s, tag, ob) ==
    IF tag.n <= 2 THEN Nothing(e, ob)
    ELSE Rendered(tag.n, ob,
                  IF tag.type = "none" THEN EscapeHtml(Part(s, 0, tag.n))
                  ELSE RenderAutolink(Unscape(Part(s, 1, tag.n - 1)), tag.type), e.in)
LangleTag(e, s, ob) == LangleTagOf(e, s, TagLength(s), ob)

\* What an address that was found becomes: nothing when some sign speaks against it.
Addressed(e, against, link, ob, added) ==
    IF e.in \/ against \/ link = "" THEN Nothing(e, ob) ELSE Took(Len(link), added, e.in)
WwwTo(e, back, s, domain, link, ob) ==
    Addressed(e, (back # "" /\ Last1(back) \in Alnum) \/ ~StartsWith(s, "www.") \/ domain = 0,
              link, ob, ob \o RenderLink(EscapeHtml(link), "http://" \o link, "", ""))
Www(e, back, s, ob) ==
    WwwTo(e, back, s, DomainEnd(s), Delimited(Part(s, 0, To(s, DomainEnd(s), Blanks))), ob)

EmailIn(e, back, rewind, found, link, ob) ==
    Addressed(e, rewind = 0 \/ Len(found) < 2 \/ Count(found, {"@"}) # 1 \/ Count(found, {"."}) = 0
                 \/ Last1(found) \notin Alphas,
              link, ob, Rewound(ob, rewind)
                        \o RenderAutolink(Part(back, Len(back) - rewind, Len(back)) \o link, "email"))
EmailFound(e, back, found, ob) ==
    EmailIn(e, back, Back(back, Alnum \cup {".", "+", "-", "_"}), found, Delimited(found), ob)
Email(e, back, s, ob) ==
    LET run == Past(s, 0, Alnum \cup {"@", ".", "-", "_"})
    IN EmailFound(e, back, Part(s, 0, IF run = Len(s) /\ Last1(s) = "." THEN run - 1 ELSE run), ob)

UrlTo(e, s, rewind, scheme, domain, link, ob) ==
    Addressed(e, Len(s) < 4 \/ ~StartsWith(Rest(s, 1), "//") \/ ~Safe(scheme \o s) \/ domain = 0,
              link, ob, Rewound(ob, rewind) \o RenderAutolink(scheme \o link, "normal"))
UrlBehind(e, s, rewind, scheme, domain, ob) ==
    UrlTo(e, s, rewind, scheme, domain, Delimited(Part(s, 0, To(s, 3 + domain, Blanks))), ob)
Url(e, back, s, ob) ==
    LET rewind == Back(back, Alphas)
    IN UrlBehind(e, s, rewind, Part(back, Len(back) - rewind, Len(back)), DomainEnd(Rest(s, 3)), ob)

(***************************************************************************)
(* Links.  A target has the characters taken up to its end, 0 when there   *)
(* is none, and the buffers it holds.                                      *)
(***************************************************************************)
NoTarget == [n |-> 0, link |-> "", title |-> "", work |-> 0]

RECURSIVE TargetEnd(_, _, _)
TargetEnd(s, i, nested) ==
    CASE i >= Len(s)                     -> i
      [] D(s, i) = "\\"                  -> TargetEnd(s, i + 2, nested)
      [] D(s, i) = "("                   -> TargetEnd(s, i + 1, nested + 1)
      [] D(s, i) = ")" /\ nested = 0     -> i
      [] D(s, i) = ")" /\ nested # 0     -> TargetEnd(s, i + 1, nested - 1)
      [] D(s, i) \in {"'", "\""} /\ D(s, i - 1) \in Blanks -> i
      [] OTHER                           -> TargetEnd(s, i + 1, nested)
RECURSIVE TitleEnd(_, _, _, _)
TitleEnd(s, i, quote, inside) ==
    CASE i >= Len(s)                     -> i
      [] D(s, i) = "\\"                  -> TitleEnd(s, i + 2, quote, inside)
      [] D(s, i) = quote                 -> TitleEnd(s, i + 1, quote, FALSE)
      [] D(s, i) = ")" /\ ~inside        -> i
      [] OTHER                           -> TitleEnd(s, i + 1, quote, inside)

WithoutAngles(link) ==
    Part(link, IF D(link, 0) = "<" THEN 1 ELSE 0, IF Last1(link) = ">" THEN Len(link) - 1 ELSE Len(link))
Targeted(n, link, title) ==
    [n |-> n, link |-> link, title |-> title,
     work |-> Cardinality({x \in {<<0, link>>, <<1, title>>} : x[2] # ""})]
\* The target in parentheses that open at p, with a title or without.
InlineTarget(s, p) ==
    LET b      == Past(s, p + 1, Blanks)
        quote  == TargetEnd(s, b, 0)
        titled == D(s, quote) \in {"'", "\""}
        end    == IF titled THEN TitleEnd(s, quote + 1, D(s, quote), TRUE) ELSE quote
        te     == Len(TrimEnd(Part(s, 0, end), Blanks)) - 1
        closed == titled /\ te > quote /\ D(s, te) \in {"'", "\""}
        trim   == TrimEnd(Part(s, b, IF closed THEN quote ELSE end), Blanks)
        title  == IF closed THEN Part(s, quote + 1, te) ELSE ""
    IN IF end >= Len(s) THEN NoTarget ELSE Targeted(end + 1, WithoutAngles(trim), title)

\* A link defined elsewhere; the last definition of a name counts.
Defined(refs, id, n) ==
    LET name == LowerCase(id)
    IN IF name \notin DOMAIN refs THEN NoTarget
       ELSE [n |-> n, link |-> refs[name].link, title |-> refs[name].title, work |-> 1]
Reference(refs, s, p, text) ==
    LET end == To(s, p + 1, {"]"})
    IN IF end >= Len(s) THEN NoTarget
       ELSE Defined(refs, IF end = p + 1 THEN ReplaceSpacing(text) ELSE Part(s, p + 1, end), end + 1)

\* char_link.  An image that is refused has lost its mark; after the text
\* of a link, whatever encloses it is no longer inside of a link.
CharLinkTo(e, image, s, text, target, ob) ==
    LET link == Unscape(target.link)
        Around(inner) == Rendered(target.n, ob, RenderLink(inner.out, link, e.left, target.title), inner.in)
    IN CASE target.n = 0 -> Nothing(e, ob)
         [] target.n # 0 /\ image ->
              Rendered(target.n, IF Last1(ob) = "!" THEN Rewound(ob, 1) ELSE ob,
                       RenderImage(link, e.left, target.title, text), e.in)
         [] OTHER ->
              Around(IF text = "" THEN [out |-> "", in |-> e.in]
                     ELSE [Inline(Deeper([e EXCEPT !.in = TRUE], target.work + 1), text) EXCEPT !.in = FALSE])
Target(e, s, end, next, text) ==
    CASE D(s, end) # "]" -> NoTarget
      [] D(s, end) = "]" /\ D(s, next) = "(" -> InlineTarget(s, next)
      [] D(s, end) = "]" /\ D(s, next) = "[" -> Reference(e.refs, s, next, text)
      [] OTHER -> Defined(e.refs, ReplaceSpacing(text), end + 1)
CharLinkText(e, image, s, end, text, ob) ==
    CharLinkTo(e, image, s, text, Target(e, s, end, Past(s, end + 1, Blanks), text), ob)
CharLinkUntil(e, image, s, end, ob) == CharLinkText(e, image, s, end, Part(s, 1, end), ob)
CharLink(e, back, s, ob) ==
    CharLinkUntil(e, Last1(back) = "!" /\ ~IsEscaped(back, Len(back) - 1), s,
                  1 + EmphChar(Rest(s, 1), "]"), ob)

\* The parser of an active character; back is what it may take back.
Trigger(e, back, s, ob) ==
    LET c == D(s, 0)
    IN CASE c \in {"*", "_", "~", "="} -> Emphasis(e, s, ob)
         [] c = Tick -> CodeSpan(e, s, ob)
         [] c = "\n" -> LineBreak(e, back, ob)
         [] c = "["  -> CharLink(e, back, s, ob)
         [] c = "<"  -> LangleTag(e, s, ob)
         [] c = "\\" -> CharEscape(e, s, ob)
         [] c = "&"  -> Entity(e, s, ob)
         [] c = ":"  -> Url(e, back, s, ob)
         [] c = "@"  -> Email(e, back, s, ob)
         [] c = "w"  -> Www(e, back, s, ob)

\* parse_inline: out is the output so far, t from stop on is not yet in it.
RECURSIVE Spans(_, _, _, _, _, _)
SpansBehind(e, t, stop, consumed, r) ==
    LET next == stop + r.n
    IN IF r.n = 0 THEN Spans([e EXCEPT !.in = r.in], t, stop, stop + 1, consumed, r.out)
       ELSE Spans([e EXCEPT !.in = r.in], t, next, next, next, r.out)
SpansAt(e, t, stop, consumed, out) ==
    IF stop >= Len(t) THEN [out |-> out, in |-> e.in]
    ELSE SpansBehind(e, t, stop, consumed,
                     Trigger(e, Part(t, stop - Behind(stop, consumed), stop), Rest(t, stop), out))
Spans(e, t, i, end, consumed, ob) ==
    LET stop == To(t, end, Active)
    IN SpansAt(e, t, stop, consumed, ob \o EscapeHtml(Part(t, i, stop)))

(***************************************************************************)
(* document.c: lines that begin a block.                                   *)
(***************************************************************************)
\* The length of an empty line, 0 if it is not empty.
IsEmpty(t) == LET i == Past(t, 0, {" "}) IN IF D(t, i) \in {"\n", ""} THEN i + 1 ELSE 0

IsHrule(t) ==
    LET i    == Indent(t, 3)
        line == Part(t, i, Eol(t, i))
    IN i + 2 < Len(t) /\ \E c \in {"*", "-", "_"} :
         D(t, i) = c /\ Chars(line) \subseteq {c, " "} /\ Count(line, {c}) >= 3

IsAtxHeader(t) == D(t, 0) = "#"

HeaderLine(t) ==
    IF D(t, 0) \in {"=", "-"} /\ IsEmpty(Rest(t, Past(t, 0, {D(t, 0)}))) # 0
    THEN IF D(t, 0) = "=" THEN 1 ELSE 2
    ELSE 0
NextIsHeaderLine(t) == Eol(t, 0) + 1 < Len(t) /\ HeaderLine(Rest(t, Eol(t, 0) + 1)) # 0

PrefixQuote(t) ==
    LET i == Indent(t, 3)
    IN CASE D(t, i) # ">"                          -> 0
         [] D(t, i) = ">" /\ D(t, i + 1) = " "     -> i + 2
         [] D(t, i) = ">" /\ D(t, i + 1) # " "     -> i + 1
PrefixCode(t) == IF Indent(t, 4) = 4 THEN 4 ELSE 0
PrefixOli(t) ==
    LET i == Indent(t, 3)
        j == Past(t, i, Nums)
    IN IF j = i \/ D(t, j) # "." \/ D(t, j + 1) # " " \/ NextIsHeaderLine(Rest(t, j)) THEN 0
       ELSE j + 2
PrefixUli(t) ==
    LET i == Indent(t, 3)
    IN IF D(t, i) \notin {"*", "+", "-"} \/ D(t, i + 1) # " " \/ NextIsHeaderLine(Rest(t, i)) THEN 0
       ELSE i + 2

(***************************************************************************)
(* document.c: blocks.  Their parsers return the characters taken and the  *)
(* whole output; a block of blocks is parsed with one more buffer in use.  *)
(***************************************************************************)
Block(e, t, ob) == Parse("blocks", e, t, ob).out
Did(n, out) == [n |-> n, out |-> out]
Within(e, k, t) == Inline(Deeper(e, k), t).out

\* The lines of a quotation from i on, without their marks: it ends with an
\* empty line that no line of a quotation, and no empty one, follows.
RECURSIVE Quoted(_, _, _)
Quoted(t, i, work) ==
    LET end  == NextLine(t, i)
        line == Part(t, i, end)
        pre  == PrefixQuote(line)
        over == /\ pre = 0 /\ IsEmpty(line) # 0
                /\ end >= Len(t) \/ (PrefixQuote(Rest(t, end)) = 0 /\ IsEmpty(Rest(t, end)) = 0)
    IN CASE i >= Len(t)          -> Did(Len(t), work)
         [] i < Len(t) /\ over   -> Did(end, work)
         [] OTHER                -> Quoted(t, end, work \o Rest(line, pre))
ParseBlockquote(e, t, ob) ==
    LET Around(q) == Did(q.n, RenderBlock(ob, "blockquote", Block(Deeper(e, 1), q.out, "")))
    IN Around(Quoted(t, 0, ""))

\* Where a paragraph that begins at 0 ends, where the next block begins,
\* and the level of the line under it, 0 if it is not a header.
RECURSIVE ParagraphEnd(_, _)
ParagraphEnd(t, i) ==
    LET line == Rest(t, i)
        Ends(next) == [i |-> i, n |-> next, level |-> HeaderLine(line)]
    IN IF i >= Len(t) THEN [i |-> i, n |-> Len(t), level |-> 0]
       ELSE IF IsEmpty(line) # 0 \/ HeaderLine(line) # 0 THEN Ends(NextLine(t, i))
       ELSE IF IsAtxHeader(line) \/ IsHrule(line) \/ PrefixQuote(line) # 0 THEN Ends(i)
       ELSE ParagraphEnd(t, NextLine(t, i))
ParagraphOf(e, p, work, ob) ==
    LET head == Back(work, Chars(work) \ {"\n"})
        text == TrimEnd(Part(work, 0, Len(work) - head), {"\n"})
        Paragraph(words) == RenderParagraph(ob, Within(e, 1, words))
    IN Did(p.n, IF p.level = 0 THEN Paragraph(work)
                ELSE RenderHeader(IF text = "" THEN ob ELSE Paragraph(text),
                                  Within(e, 1, Rest(work, Len(work) - head)), p.level))
ParseParagraph(e, t, ob) ==
    LET Of(p) == ParagraphOf(e, p, TrimEnd(Part(t, 0, p.i), {"\n"}), ob)
    IN Of(ParagraphEnd(t, 0))

RECURSIVE CodeLines(_, _, _)
CodeLines(t, i, work) ==
    LET line == Part(t, i, NextLine(t, i))
        code == Rest(line, PrefixCode(line))
    IN IF i >= Len(t) \/ (PrefixCode(line) = 0 /\ IsEmpty(line) = 0) THEN Did(i, work)
       ELSE CodeLines(t, NextLine(t, i),
                      work \o (IF code # "" /\ IsEmpty(code) # 0 THEN "\n" ELSE code))
ParseBlockcode(t, ob) ==
    LET c == CodeLines(t, 0, "") IN Did(c.n, RenderCode(ob, TrimEnd(c.out, {"\n"}) \o "\n"))

\* parse_listitem, its lines after the first: s has the line to look at, the
\* text so far, where its first sublist begins, whether empty lines come
\* before this line and are inside of the item, and the flags of the list.
RECURSIVE ItemLines(_, _, _)
ItemLines(t, indent, s) ==
    LET line  == Part(t, s.i, NextLine(t, s.i))
        pre   == Indent(line, 4)
        rest  == Rest(line, pre)
        uli   == PrefixUli(rest) # 0
        oli   == PrefixOli(rest) # 0
        item  == (uli /\ ~IsHrule(rest)) \/ oli
        other == s.empty /\ IF "ordered" \in s.flags THEN uli ELSE oli
        Over(last) == [s EXCEPT !.inside = @ \/ (item /\ s.empty),
                                !.flags = IF last THEN @ \cup {"end"} ELSE @]
    IN IF s.i >= Len(t) THEN s
       ELSE IF IsEmpty(line) # 0 THEN ItemLines(t, indent, [s EXCEPT !.i = NextLine(t, s.i), !.empty = TRUE])
       ELSE IF item /\ pre <= indent THEN Over(other)
       ELSE IF ~item /\ s.empty /\ pre = 0 THEN Over(TRUE)
       ELSE ItemLines(t, indent,
              [s EXCEPT !.i = NextLine(t, s.i), !.empty = FALSE, !.inside = @ \/ s.empty,
                        !.sub = IF item /\ @ = 0 THEN Len(s.work) ELSE @,
                        !.work = @ \o (IF s.empty THEN "\n" ELSE "") \o rest])
\* inner is what comes before the sublist, which is at the end.
ItemText(e, s, now) ==
    LET split == s.sub > 0 /\ s.sub < Len(s.work)
        first == IF split THEN Part(s.work, 0, s.sub) ELSE s.work
        Both(inner) == IF split THEN Block(Deeper(e, 2), Rest(s.work, s.sub), inner) ELSE inner
    IN Both(IF "block" \in now THEN Block(Deeper(e, 2), first, "") ELSE Within(e, 2, first))
ItemOf(e, s, now) == [n |-> s.i, out |-> RenderItem(ItemText(e, s, now)), flags |-> now]
ParseListItem(e, t, flags) ==
    LET beg   == IF PrefixUli(t) # 0 THEN PrefixUli(t) ELSE PrefixOli(t)
        end   == NextLine(t, beg)
        Of(s) == ItemOf(e, s, IF s.inside THEN s.flags \cup {"block"} ELSE s.flags)
    IN IF beg = 0 THEN [n |-> 0, out |-> "", flags |-> flags]
       ELSE Of(ItemLines(t, Indent(t, 3), [i |-> end, work |-> Part(t, beg, end), sub |-> 0,
                                           empty |-> FALSE, inside |-> FALSE, flags |-> flags]))
RECURSIVE Items(_, _, _, _, _)
ItemsBehind(e, t, i, work, item) ==
    IF item.n = 0 THEN Did(i, work)
    ELSE IF "end" \in item.flags THEN Did(i + item.n, work \o item.out)
    ELSE Items(e, t, i + item.n, item.flags, work \o item.out)
Items(e, t, i, flags, work) ==
    IF i >= Len(t) THEN Did(i, work)
    ELSE ItemsBehind(e, t, i, work, ParseListItem(e, Rest(t, i), flags))
ParseList(e, t, flags, ob) ==
    LET Around(l) == Did(l.n, RenderBlock(ob, IF "ordered" \in flags THEN "ol" ELSE "ul", l.out))
    IN Around(Items(Deeper(e, 1), t, 0, flags, ""))

ParseAtxHeader(e, t, ob) ==
    LET level == Least(6, Past(t, 0, {"#"}))
        i     == Past(t, level, {" "})
        skip  == Eol(t, i)
        end   == Len(TrimEnd(TrimEnd(Part(t, 0, skip), {"#"}), {" "}))
    IN Did(skip, IF end > i THEN RenderHeader(ob, Within(e, 1, Part(t, i, end)), level) ELSE ob)

(***************************************************************************)
(* Tables.  A row has as many cells as its header has columns; an empty    *)
(* cell takes what is left of its row.                                     *)
(***************************************************************************)
RECURSIVE Cells(_, _, _, _, _, _)
CellUntil(e, row, i, from, end, aligns, col, name) ==
    RenderCell(name, aligns[col],
               Within(e, 2, IF i < Len(row) THEN TrimEnd(Part(row, from, end), Blanks) ELSE ""))
    \o Cells(e, row, IF i < Len(row) THEN end + 1 ELSE i, aligns, col + 1, name)
CellFrom(e, row, i, from, len, aligns, col, name) ==
    CellUntil(e, row, i, from, IF len = 0 THEN Len(row) ELSE from + len, aligns, col, name)
Cells(e, row, i, aligns, col, name) ==
    LET from == Past(row, i, Blanks)
    IN IF col > Len(aligns) THEN ""
       ELSE CellFrom(e, row, i, from, EmphChar(Rest(row, from), "|"), aligns, col, name)
ParseTableRow(e, row, aligns, name) ==
    RenderRow(Cells(e, row, IF D(row, 0) = "|" THEN 1 ELSE 0, aligns, 1, name))

\* The columns that the line under the header gives, up to the first that
\* is not one.
RECURSIVE Aligns(_, _, _)
Aligns(line, i, columns) ==
    LET from  == Past(line, i, {" "})
        left  == D(line, from) = ":"
        dash  == Past(line, IF left THEN from + 1 ELSE from, {"-"})
        right == D(line, dash) = ":"
        end   == IF right THEN dash + 1 ELSE dash
        next  == Past(line, end, {" "})
        align == CASE left /\ right -> "center" [] left /\ ~right -> "left"
                   [] ~left /\ right -> "right" [] ~left /\ ~right -> ""
    IN IF columns = 0 \/ i >= Len(line) \/ D(line, next) \notin {"|", "+", ""} \/ end - from < 3
       THEN <<>>
       ELSE <<align>> \o Aligns(line, next + 1, columns - 1)
TableHeader(t) ==
    LET i       == Eol(t, 0)
        head    == TrimEnd(Part(t, 0, i), Blanks)
        pipes   == Count(Part(t, 0, i), {"|"})
        columns == pipes + 1 - (IF D(t, 0) = "|" THEN 1 ELSE 0) - (IF Last1(head) = "|" THEN 1 ELSE 0)
        from    == IF D(t, i + 1) = "|" THEN i + 2 ELSE i + 1
        aligns  == Aligns(Part(t, 0, Eol(t, from)), from, columns)
    IN IF i >= Len(t) \/ pipes = 0 \/ columns < 1 \/ Len(aligns) # columns
       THEN [n |-> 0, head |-> "", aligns |-> <<>>]
       ELSE [n |-> Eol(t, from) + 1, head |-> head, aligns |-> aligns]
RECURSIVE Rows(_, _, _, _, _)
Rows(e, t, i, aligns, work) ==
    LET row == Part(t, i, Eol(t, i))
    IN IF i >= Len(t) \/ Eol(t, i) = Len(t) \/ Count(row, {"|"}) = 0 THEN Did(i, work)
       ELSE Rows(e, t, Eol(t, i) + 1, aligns, work \o ParseTableRow(e, row, aligns, "td"))
ParseTable(e, t, ob) ==
    LET Top(h) == RenderBlock("", "thead", ParseTableRow(Deeper(e, 3), h.head, h.aligns, "th"))
        Of(h, r) == Did(r.n, RenderBlock(ob, "table", RenderBlock(Top(h), "tbody", r.out)))
        Under(h) == IF h.n = 0 THEN Did(0, ob) ELSE Of(h, Rows(Deeper(e, 3), t, h.n, h.aligns, ""))
    IN Under(TableHeader(t))

\* parse_block: the first block of t, and all of them.
NoTable(e, t, ob) ==
    IF PrefixQuote(t) # 0 THEN ParseBlockquote(e, t, ob)
    ELSE IF PrefixCode(t) # 0 THEN ParseBlockcode(t, ob)
    ELSE IF PrefixUli(t) # 0 THEN ParseList(e, t, {}, ob)
    ELSE IF PrefixOli(t) # 0 THEN ParseList(e, t, {"ordered"}, ob)
    ELSE ParseParagraph(e, t, ob)
TableOrNot(e, t, ob, table) == IF table.n # 0 THEN table ELSE NoTable(e, t, ob)
FirstBlock(e, t, ob) ==
    IF IsAtxHeader(t) THEN ParseAtxHeader(e, t, ob)
    ELSE IF IsEmpty(t) # 0 THEN Did(IsEmpty(t), ob)
    ELSE IF IsHrule(t) THEN Did(Eol(t, 0) + 1, Break(ob) \o "<hr>\n")
    ELSE TableOrNot(e, t, ob, ParseTable(e, t, ob))
RECURSIVE Blocks(_, _, _)
BlocksBehind(e, t, b) == Blocks(e, Rest(t, b.n), b.out)
Blocks(e, t, ob) ==
    IF t = "" THEN [out |-> ob, in |-> e.in] ELSE BlocksBehind(e, t, FirstBlock(e, t, ob))

\* Nothing is parsed when too many buffers are in use.
Parse(what, e, t, ob) ==
    CASE e.d > Nesting                     -> [out |-> ob, in |-> e.in]
      [] e.d <= Nesting /\ what = "spans"  -> Spans(e, t, 0, 0, 0, ob)
      [] e.d <= Nesting /\ what = "blocks" -> Blocks(e, t, ob)

(***************************************************************************)
(* The document: definitions of links are taken out first.                 *)
(***************************************************************************)
\* is_ref.  A title on the next line that is not closed belongs to the link
\* and is read again as text.
IsRef(t) ==
    LET i      == Indent(t, 3)
        id     == To(t, i + 1, {"\n", "]"})
        colon  == Past(t, id + 2, {" "})
        start  == Past(t, IF D(t, colon) = "\n" THEN colon + 1 ELSE colon, {" "})
        from   == IF D(t, start) = "<" THEN start + 1 ELSE start
        stop   == To(t, from, Blanks)
        to     == IF D(t, stop - 1) = ">" THEN stop - 1 ELSE stop
        space  == Past(t, stop, {" "})
        ended  == D(t, space) \in {"\n", ""}
        quote  == IF ended THEN Past(t, space + 1, {" "}) ELSE space
        titled == quote + 1 < Len(t) /\ D(t, quote) \in {"'", "\"", "("}
        eol    == Eol(t, quote + 1)
        last   == Len(TrimEnd(Part(t, 0, eol), {" "})) - 1
        closed == titled /\ last > quote + 1 /\ D(t, last) \in {"'", "\"", ")"}
        title  == IF titled THEN Part(t, quote + 1, IF closed THEN last ELSE eol) ELSE ""
    IN IF \/ Len(t) <= 3 \/ D(t, i) # "[" \/ D(t, id) # "]" \/ D(t, id + 1) # ":"
          \/ start >= Len(t) \/ D(t, space) \notin {"\n", "", "'", "\"", "("}
          \/ (~ended /\ ~closed) \/ to <= from
       THEN [n |-> 0, id |-> "", link |-> "", title |-> ""]
       ELSE [n |-> IF closed THEN eol ELSE space, id |-> LowerCase(Part(t, i + 1, id)),
             link |-> Part(t, from, to), title |-> title]

ExpandTabs(line) ==
    LET done[i \in 0 .. Len(line)] ==
            IF i = 0 THEN ""
            ELSE IF Ch(line, i) # "\t" THEN done[i - 1] \o Ch(line, i)
            ELSE done[i - 1] \o Part("    ", 0, 4 - (Len(done[i - 1]) % 4))
    IN done[Len(line)]

\* The first pass: the definitions, and the text without them.
RECURSIVE Lines(_, _, _)
LinesBehind(t, refs, text, ref) ==
    LET end == Eol(t, 0)
        new == Past(t, end, {"\n"})
    IN IF ref.n # 0
       THEN Lines(Rest(t, ref.n), (ref.id :> [link |-> ref.link, title |-> ref.title]) @@ refs, text)
       ELSE Lines(Rest(t, new), refs, text \o ExpandTabs(Part(t, 0, end)) \o Part(t, end, new))
Lines(t, refs, text) ==
    IF t = "" THEN [refs |-> refs, text |-> text] ELSE LinesBehind(t, refs, text, IsRef(t))

Ended(text) == IF text = "" \/ Last1(text) = "\n" THEN text ELSE text \o "\n"
DocumentOf(first, left) ==
    Block([d |-> 0, in |-> FALSE, left |-> left, refs |-> first.refs], Ended(first.text), "")
RenderDocument(t, left) == DocumentOf(Lines(t, <<>>, ""), left)

MarkdownToHtml(md, left) == IF md = "" THEN "Empty Content" ELSE RenderDocument(md, left)

(***************************************************************************)
(* Markup is well formed: every tag is one the renderer wrote, ends, and   *)
(* closes in order, its attributes are closed, and no quotation mark or    *)
(* angle of a writer is left as it was.                                    *)
(***************************************************************************)
Void == {"br", "hr", "img"}
RECURSIVE Closes(_, _)
Closes(t, open) ==
    LET from == To(t, 0, {"<"})
        to   == To(t, from, {">"})
        tag  == Part(t, from + 1, to)
        name == Part(tag, 0, To(tag, 0, {" "}))
        end  == StartsWith(name, "/")
    IN /\ Chars(Part(t, 0, from)) \cap {"\"", ">"} = {}
       /\ IF from = Len(t) THEN open = <<>>
          ELSE /\ to < Len(t)
               /\ "<" \notin Chars(tag) /\ Count(tag, {"\""}) % 2 = 0
               /\ end => open # <<>> /\ Head(open) = Rest(name, 1)
               /\ Closes(Rest(t, to + 1), CASE end -> Tail(open)
                                            [] ~end /\ name \in Void -> open
                                            [] ~end /\ name \notin Void -> <<name>> \o open)
WellFormed(markup) == Closes(markup, <<>>)
=============================================================================
