------------------------------ MODULE Templates ------------------------------
(***************************************************************************)
(* What a template means, from the pieces that somebody writes it with:    *)
(* texts, tags and whole sections.  It knows nothing of positions, actions *)
(* and fragments, and is what Mustache is compared with.                   *)
(***************************************************************************)
EXTENDS Mustache

Piece(kind, name) == [kind |-> kind, name |-> name]

\* The pieces: their texts, and what they are.
Pieces == [t \in {"x", " ", "\n", "{{s}}", "{{{ o.s }}}", "{{&s}}", "{{.}}", "{{n}}", "{{= | | =}}|s||={{ }}=|",
                  "{{#l}}", "{{# o }}", "{{#e}}", "{{^l}}", "{{^ e}}", "{{/}}", "{{!s}}", "{{> p}}"} |->
    CASE t = "x"           -> Piece("text", "x")
      [] t = " "           -> Piece("space", " ")
      [] t = "\n"          -> Piece("newline", "\n")
      [] t \in {"{{s}}", "{{= | | =}}|s||={{ }}=|"} -> Piece("escaped", "s")
      [] t = "{{.}}"       -> Piece("escaped", ".")
      [] t = "{{n}}"       -> Piece("escaped", "n")
      [] t = "{{{ o.s }}}" -> Piece("raw", "o.s")
      [] t = "{{&s}}"      -> Piece("raw", "s")
      [] t = "{{#l}}"      -> Piece("section", "l")
      [] t = "{{# o }}"    -> Piece("section", "o")
      [] t = "{{#e}}"      -> Piece("section", "e")
      [] t = "{{^l}}"      -> Piece("inverted", "l")
      [] t = "{{^ e}}"     -> Piece("inverted", "e")
      [] t = "{{/}}"       -> Piece("close", "")
      [] t = "{{!s}}"      -> Piece("comment", "s")
      [] t = "{{> p}}"     -> Piece("partial", "p")]

\* The names of the sections that are open behind some pieces, the innermost first.
RECURSIVE Opened(_)
Opened(pieces) ==
    IF pieces = <<>> THEN <<>>
    ELSE LET before == Opened(SubSeq(pieces, 1, Len(pieces) - 1))
             piece  == Pieces[pieces[Len(pieces)]]
         IN CASE piece.kind \in {"section", "inverted"} -> <<piece.name>> \o before
              [] piece.kind = "close" -> Tail(before)
              [] OTHER -> before

\* The pieces with what closes the sections that are open, and the text of all.
Closed(pieces) == pieces \o [k \in 1 .. Len(Opened(pieces)) |-> "{{/}}"]
Written(pieces) ==
    Concat[[i \in 1 .. Len(pieces) |->
        IF pieces[i] = "{{/}}" THEN "{{/" \o Opened(SubSeq(pieces, 1, i - 1))[1] \o "}}" ELSE pieces[i]]]

\* The context of the runs, and its one partial.
Page    == Object([k \in {"s", "n", "l", "e", "o"} |->
    CASE k = "s" -> Str("a<b") [] k = "n" -> Number("7") [] k = "e" -> List(<<>>)
      [] k = "l" -> List(<<Str("'"), Object([j \in {"s"} |-> Str("i&j")])>>)
      [] k = "o" -> Object([j \in {"s", "e"} |-> IF j = "s" THEN Str("/") ELSE Bool(FALSE)])])
Partial == <<"x", "{{s}}", "\n", "x">>

-----------------------------------------------------------------------------

Variables == {"escaped", "raw"}
Blank(p) == p.kind = "space"

\* The line of the i-th piece, without what ends it.
LineOf(items, i) ==
    {j \in 1 .. Len(items) : \A k \in 1 .. Len(items) :
        (i <= k /\ k <= j) \/ (j <= k /\ k <= i) => items[k].kind # "newline"}
\* A tag stands alone if all that is with it in its line is blank; no variable does.
Alone(items, i) ==
    /\ items[i].kind \notin {"text", "space", "newline"} \cup Variables
    /\ \A j \in LineOf(items, i) \ {i} : Blank(items[j])

\* The line of such a tag is not part of the page.  The blanks behind one at the end of
\* the template are.
Goes(items, j) ==
    \E i \in 1 .. Len(items) :
        /\ Alone(items, i)
        /\ \/ j \in LineOf(items, i) /\ j < i
           \/ /\ j > i
              /\ \E n \in j .. Len(items) : /\ items[n].kind = "newline"
                                            /\ i .. n - 1 \subseteq LineOf(items, i)

\* What is left, in which a partial knows how far it is indented.
Left(items) ==
    LET indent(i) == IF Alone(items, i) THEN Cardinality({j \in LineOf(items, i) : j < i}) ELSE 0
        kept == [i \in 1 .. Len(items) |->
                   IF Goes(items, i) THEN <<>>
                   ELSE <<[kind |-> items[i].kind, name |-> items[i].name, indent |-> indent(i)]>>]
        all[i \in 0 .. Len(items)] == IF i = 0 THEN <<>> ELSE all[i - 1] \o kept[i]
    IN all[Len(items)]

\* The place of what closes the section that the i-th piece opens.
Closes(items, i) ==
    LET depth(j) == Cardinality({k \in i .. j : items[k].kind \in {"section", "inverted"}})
                      - Cardinality({k \in i .. j : items[k].kind = "close"})
    IN CHOOSE j \in i .. Len(items) : depth(j) = 0 /\ \A k \in i .. j - 1 : depth(k) > 0

\* What a name stands for within the values of scopes, of which the last is the nearest.
RECURSIVE Value(_, _)
Value(name, scopes) ==
    CASE scopes = <<>> -> Absent
      [] scopes # <<>> /\ name = "." -> scopes[Len(scopes)]
      [] OTHER -> LET v == Member(scopes[Len(scopes)], name)
                  IN IF v = Absent THEN Value(name, SubSeq(scopes, 1, Len(scopes) - 1)) ELSE v

\* A text, or Error; two of them one after the other.
And(a, b) == IF a = Error \/ b = Error THEN Error ELSE Str(a.s \o b.s)

\* Every line of a partial is indented.
Margin(n) == Str(Spaces(n))

RECURSIVE Sense(_, _, _)
Sense(items, scopes, indent) ==
    IF items = <<>> THEN Str("")
    ELSE LET item  == items[1]
             last  == Closes(items, 1)
             v     == Value(item.name, scopes)
             body  == SubSeq(items, 2, last - 1)
             Inside(value) == Sense(body, Append(scopes, value), indent)
             each[k \in 0 .. IF v.t = "list" THEN Len(v.l) ELSE 0] ==
                 IF k = 0 THEN Str("") ELSE And(each[k - 1], Inside(v.l[k]))
             Then(text)   == And(text, Sense(Tail(items), scopes, indent))
             Behind(text) == And(text, Sense(SubSeq(items, last + 1, Len(items)), scopes, indent))
             nothing == v = Absent \/ v = Bool(FALSE) \/ v = List(<<>>)
         IN CASE item.kind \in {"text", "space"} -> Then(Str(item.name))
              [] item.kind = "newline" -> Then(IF Len(items) > 1 THEN And(Str("\n"), Margin(indent)) ELSE Str("\n"))
              [] item.kind = "comment" -> Then(Str(""))
              [] item.kind \in Variables ->
                   Then(CASE v.t = "absent" -> Str("")
                          [] v.t = "number" -> Str(v.s)
                          [] v.t = "string" -> Str(IF item.kind = "raw" THEN v.s ELSE EscapePage(v.s))
                          [] OTHER -> Error)
              [] item.kind = "partial" ->
                   Then(And(Margin(item.indent),
                            Sense(Left([k \in DOMAIN Partial |-> Pieces[Partial[k]]]), scopes, item.indent)))
              [] item.kind = "section" ->
                   Behind(IF nothing THEN Str("") ELSE IF v.t = "list" THEN each[Len(v.l)] ELSE Inside(v))
              [] item.kind = "inverted" -> Behind(IF nothing THEN Inside(Null) ELSE Str(""))

Meaning(pieces) == Sense(Left([k \in DOMAIN pieces |-> Pieces[pieces[k]]]), <<Page>>, 0)
=============================================================================
