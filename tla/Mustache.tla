------------------------------- MODULE Mustache -------------------------------
(***************************************************************************)
(* The pages' templates: template_t of src/include/mustache.h.             *)
(*                                                                         *)
(* A template is parsed into actions, one per tag, and the fragments of    *)
(* text before, between and after them; an action that opens or closes a   *)
(* section knows the place of the other one.  Rendering walks over both    *)
(* with a stack of contexts.  Positions count from 1, and a fragment or a  *)
(* name goes up to but not to its end.                                     *)
(***************************************************************************)
EXTENDS Json

Fragment(from, to)         == [from |-> from, to |-> to]
Action(t, from, to, pos)   == [t |-> t, from |-> from, to |-> to, pos |-> pos]
Name(body, a)              == Cut(body, a.from, a.to - 1)

\* What a template that cannot be parsed, and a page that cannot be rendered, throw.
Invalid == [valid |-> FALSE, fragments |-> <<>>, actions |-> <<>>]

(***************************************************************************)
(* parse()                                                                 *)
(***************************************************************************)
Sigils == [c \in {"#", "^", "/", ">", "{", "&", "!", "="} |->
    CASE c = "#" -> "OpenBlock" [] c = "^" -> "ElseBlock" [] c = "/" -> "CloseBlock"
      [] c = ">" -> "Partial" [] c \in {"{", "&"} -> "UnescapeTag" [] c \in {"!", "="} -> "Ignore"]

\* The spaces around a name do not belong to it.
RECURSIVE Spaceless(_, _, _)
Spaceless(body, from, to) ==
    CASE Ch(body, from) = " "   -> Spaceless(body, from + 1, to)
      [] Ch(body, from) # " " /\ Ch(body, to - 1) = " " -> Spaceless(body, from, to - 1)
      [] OTHER                  -> Fragment(from, to)

\* The delimiters that a tag with an equals sign sets, <<>> if it is not valid.
Delimiters(text) ==
    LET trim  == Spaceless(text, 1, Len(text))
        pair  == Cut(text, trim.from, trim.to - 1)
        space == Find(pair, " ")
        close == From(pair, Spaceless(pair, space, Len(pair) + 1).from)
    IN IF Ch(text, Len(text)) # "=" \/ space = 0 \/ Find(close, " ") # 0 THEN <<>>
       ELSE <<Cut(pair, 1, space - 1), close>>

\* The tags from current on.  A section that is closed and was not opened is
\* undefined behaviour, and no template has one.
RECURSIVE Tags(_, _, _, _, _)
Tags(body, current, delim, blocks, p) ==
    LET at     == FindFrom(body, current, delim[1])
        start  == at + Len(delim[1])
        end    == FindFrom(body, start, delim[2])
        sigil  == Ch(body, start)
        t      == IF sigil \in DOMAIN Sigils THEN Sigils[sigil] ELSE "Tag"
        first  == IF t = "Tag" THEN start ELSE start + 1
        name   == IF t = "Ignore" THEN Fragment(first, end) ELSE Spaceless(body, first, end)
        n      == Len(p.actions) + 1
        open   == blocks[Len(blocks)]
        set    == IF sigil = "=" THEN Delimiters(Cut(body, first, end - 1)) ELSE delim
        triple == sigil = "{"
        With(actions) == [p EXCEPT !.fragments = Append(@, Fragment(current, at)), !.actions = actions]
        action == Action(t, name.from, name.to, IF t = "CloseBlock" THEN open ELSE 0)
        next   == end + Len(delim[2]) + (IF triple THEN 1 ELSE 0)
    IN IF at = 0
       THEN [p EXCEPT !.fragments = Append(@, Fragment(current, Len(body) + 1)),
                      !.actions = Append(@, Action("Ignore", 1, 1, 0))]
       ELSE IF \/ end \in {0, start} \/ set = <<>>
               \/ triple /\ (delim # <<"{{", "}}">> \/ Ch(body, end + 2) # "}")
               \/ t = "CloseBlock" /\ (blocks = <<>> \/ Name(body, action) # Name(body, p.actions[open]))
       THEN Invalid
       ELSE CASE t = "CloseBlock" ->
                   Tags(body, next, set, SubSeq(blocks, 1, Len(blocks) - 1),
                        With(Append([p.actions EXCEPT ![open].pos = n], action)))
              [] t \in {"OpenBlock", "ElseBlock"} ->
                   Tags(body, next, set, Append(blocks, n), With(Append(p.actions, action)))
              [] OTHER -> Tags(body, next, set, blocks, With(Append(p.actions, action)))

\* Removing standalones, from the last tag to the first: a tag that stands alone in
\* its line goes with the line.  Behind the last one, spaces stay.
RECURSIVE Standalones(_, _, _)
Standalones(body, p, i) ==
    LET before == p.fragments[i]
        after  == p.fragments[i + 1]
        text   == Cut(body, before.from, before.to - 1)
        ends   == {j \in before.from .. before.to - 1 : Ch(body, j) # " "}
        begins == {k \in after.from .. after.to - 1 : Ch(body, k) # " "}
        j      == IF ends = {} THEN before.from - 1 ELSE CHOOSE j \in ends : \A o \in ends : o <= j
        k      == CHOOSE k \in begins : \A o \in begins : k <= o
        alone  == /\ p.actions[i].t \notin {"Tag", "UnescapeTag"}
                  /\ IF ends = {} THEN i = 1 ELSE Ch(body, j) = "\n"
                  /\ IF begins = {} THEN i = Len(p.actions) - 1
                     ELSE Ch(body, k) = "\n" \/ (Ch(body, k) = "\r" /\ Ch(body, k + 1) = "\n")
        line   == IF begins = {} THEN after.from ELSE IF Ch(body, k) = "\n" THEN k + 1 ELSE k + 2
    IN IF i = 0 THEN p
       ELSE Standalones(body,
              IF ~alone THEN p
              ELSE [p EXCEPT !.fragments[i].to = j + 1, !.fragments[i + 1].from = line,
                             !.actions[i].pos = IF p.actions[i].t = "Partial" THEN before.to - j - 1 ELSE @],
              i - 1)

WithoutStandalones(body, p) == IF p.valid THEN Standalones(body, p, Len(p.actions) - 1) ELSE p
ParseTemplate(body) ==
    WithoutStandalones(body, Tags(body, 1, <<"{{", "}}">>, <<>>,
                                  [valid |-> TRUE, fragments |-> <<>>, actions |-> <<>>]))

(***************************************************************************)
(* find_context(): the innermost context that has the name, or all of a    *)
(* dotted name; Absent if there is none, where the code returns an empty   *)
(* text that all renderings share and each sets to the same again, one     *)
(* static object that workers write at once (mustache.h:123).  That race   *)
(* is not in this model, where each template is rendered alone.            *)
(***************************************************************************)
Absent == [t |-> "absent"]
RECURSIVE Member(_, _)
Member(v, name) ==
    LET dot   == Find(name, ".")
        first == IF dot = 0 THEN name ELSE Cut(name, 1, dot - 1)
    IN IF v.t # "object" \/ (v.t = "object" /\ first \notin DOMAIN v.o) THEN Absent
       ELSE IF dot = 0 THEN v.o[first] ELSE Member(v.o[first], From(name, dot + 1))

\* The mutant looks at the outermost context first.
InnermostMutant(stack, has) == CHOOSE i \in has : \A j \in has : i <= j
Innermost(stack, has)       == CHOOSE i \in has : \A j \in has : i >= j
FindContext(name, stack) ==
    LET has == {i \in 1 .. Len(stack) : Member(stack[i], name) # Absent}
    IN IF name = "." THEN stack[Len(stack)]
       ELSE IF has = {} THEN Absent ELSE Member(stack[Innermost(stack, has)], name)

(***************************************************************************)
(* render_internal().  s has the stack of contexts and the page so far,    *)
(* and whether an exception was thrown.                                    *)
(***************************************************************************)
PageEscapes == [c \in {"&", "<", ">", "\"", "'", "/"} |->
    CASE c = "&" -> "&amp;" [] c = "<" -> "&lt;" [] c = ">" -> "&gt;" [] c = "\"" -> "&quot;"
      [] c = "'" -> "&#39;" [] c = "/" -> "&#x2F;"]
EscapePage(s) ==
    Concat[[i \in 1 .. Len(s) |-> IF Ch(s, i) \in DOMAIN PageEscapes THEN PageEscapes[Ch(s, i)] ELSE Ch(s, i)]]

Says(s, text) == [s EXCEPT !.out = @ \o text]
Throws(s)     == [s EXCEPT !.thrown = TRUE]
Spaces(n)     == Concat[[i \in 1 .. n |-> " "]]

\* render_fragment(): in a partial that is indented, every line but one that would
\* begin behind the template is.
RenderFragment(body, f, indent, s) ==
    Says(s, Concat[[i \in 1 .. f.to - f.from |->
                       LET at == f.from + i - 1
                       IN Ch(body, at) \o (IF Ch(body, at) = "\n" /\ at # Len(body) THEN Spaces(indent) ELSE "")]])

\* A name that is not found is an empty text; found values are numbers or texts.
RenderTag(a, v, s) ==
    CASE v = Absent       -> s
      [] v.t = "number"   -> Says(s, Dump(v))
      [] v.t = "string"   -> Says(s, IF a.t = "Tag" THEN EscapePage(v.s) ELSE v.s)
      [] OTHER            -> Throws(s)

No(v) == v = Absent \/ v = Null \/ v = Bool(FALSE)

RECURSIVE RenderInternal(_, _, _, _, _, _, _), RenderItems(_, _, _, _, _, _, _, _)
\* The items of a list, each as the context of the actions between first and last.
ItemsAfter(files, body, p, first, last, l, indent, s, after) ==
    RenderItems(files, body, p, first, last, Tail(l), indent, [after EXCEPT !.stack = s.stack])
RenderItems(files, body, p, first, last, l, indent, s) ==
    IF l = <<>> \/ s.thrown THEN s
    ELSE LET item == [s EXCEPT !.stack = Append(@, Head(l)), !.out = @ \o Spaces(indent)]
         IN ItemsAfter(files, body, p, first, last, l, indent, s,
                       RenderInternal(files, body, p, first, last, indent, item))

\* A partial that was parsed, at the indentation of its tag and that of the page.
Included(files, partial, included, indent, s) ==
    IF ~included.valid THEN Throws(s)
    ELSE RenderInternal(files, partial, included, 1, Len(included.actions), indent,
                        Says(s, Spaces(indent)))
IncludedAt(files, name, indent, s) ==
    LET partial == IF name \in DOMAIN files THEN files[name] ELSE ""
    IN Included(files, partial, ParseTemplate(partial), indent, s)

\* Where it goes on after action a, whose value is v, and with which contexts and page.
On(at, s) == [at |-> at, s |-> s]
AfterAction(files, body, p, current, indent, a, v, s) ==
    LET into(value) == On(current, [s EXCEPT !.stack = Append(@, value)])
    IN CASE a.t = "Ignore"     -> On(current, s)
         [] a.t \in {"Tag", "UnescapeTag"} -> On(current, RenderTag(a, v, s))
         [] a.t = "Partial"    ->
              On(current, IncludedAt(files, Name(body, a), IF a.pos = 0 THEN 0 ELSE indent + a.pos, s))
         [] a.t = "ElseBlock"  -> IF No(v) \/ v = List(<<>>) THEN into(Null) ELSE On(a.pos, s)
         [] a.t = "OpenBlock" /\ No(v) -> On(a.pos, s)
         [] a.t = "OpenBlock" /\ ~No(v) /\ v.t = "list" ->
              On(a.pos, RenderItems(files, body, p, current + 1, a.pos, v.l, indent, s))
         [] a.t = "OpenBlock" /\ ~No(v) /\ v.t # "list" -> into(v)
         [] a.t = "CloseBlock" -> On(current, [s EXCEPT !.stack = SubSeq(@, 1, Len(@) - 1)])
RenderOn(files, body, p, last, indent, on) ==
    RenderInternal(files, body, p, on.at + 1, last, indent, on.s)
RenderAction(files, body, p, current, last, indent, a, s) ==
    IF current = last THEN s
    ELSE RenderOn(files, body, p, last, indent,
                  AfterAction(files, body, p, current, indent, a, FindContext(Name(body, a), s.stack), s))
RenderInternal(files, body, p, current, last, indent, before) ==
    IF before.thrown THEN before
    ELSE RenderAction(files, body, p, current, last, indent, p.actions[current],
                      RenderFragment(body, p.fragments[current], indent, before))

\* load(), with the files of the templates, and render(): a page, or Error.
Rendered(r) == IF r.thrown THEN Error ELSE Str(r.out)
RenderParsed(files, body, p, context) ==
    IF ~p.valid THEN Error
    ELSE Rendered(RenderInternal(files, body, p, 1, Len(p.actions), 0,
                                 [stack |-> <<context>>, out |-> "", thrown |-> FALSE]))
Render(files, body, context) == RenderParsed(files, body, ParseTemplate(body), context)
=============================================================================
