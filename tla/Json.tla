-------------------------------- MODULE Json ---------------------------------
(***************************************************************************)
(* The two readers of JSON in this program, and its writer.                *)
(*                                                                         *)
(* Handlers read sessions, bodies and documents with include/json.h, the   *)
(* login and the category index read the same documents of CouchDB with    *)
(* src/rapidjson.  A value is a record of its type and content; an object  *)
(* is the function that lookups see: of equal keys both find the first     *)
(* (the members of an rvalue are sorted when they are first looked up,     *)
(* which leaves those of equal keys in their order while they are few).    *)
(* A number that was read is its text: neither reader looks at what it is  *)
(* before somebody asks.  A character that TLA+ has no text of is written  *)
(* as its code, four hexadecimal digits in angle brackets; half of a       *)
(* surrogate pair is such a character, and a pair made one has both codes. *)
(***************************************************************************)
EXTENDS Text

Null      == [t |-> "null"]
Bool(b)   == [t |-> "bool", b |-> b]
Number(s) == [t |-> "number", s |-> s]
Str(s)    == [t |-> "string", s |-> s]
List(l)   == [t |-> "list", l |-> l]
Object(o) == [t |-> "object", o |-> o]
Error     == [t |-> "error"]

\* What a function of a reader returns: a value, and where it stands after it.
Read(v, at) == [v |-> v, at |-> at]
Fails       == Read(Error, 0)
Failed(r)   == r.v = Error

\* An object with one member more, at its end.
WithMember(o, key, v) == IF key \in DOMAIN o THEN o
                         ELSE [k \in DOMAIN o \cup {key} |-> IF k = key THEN v ELSE o[k]]

\* ws_skip(), SkipWhitespace().
White == {" ", "\t", "\r", "\n"}
RECURSIVE Skip(_, _)
Skip(t, i) == IF Ch(t, i) \in White THEN Skip(t, i + 1) ELSE i

Literals == {[text |-> "true", v |-> Bool(TRUE)], [text |-> "false", v |-> Bool(FALSE)],
             [text |-> "null", v |-> Null]}
Literal(t, i) ==
    LET found == {l \in Literals : At(t, i, l.text)}
    IN IF found = {} THEN Fails
       ELSE LET l == CHOOSE l \in found : TRUE IN Read(l.v, i + Len(l.text))

\* The characters that escapes of one letter stand for.
Escapes == [c \in {"\"", "\\", "/", "b", "f", "n", "r", "t"} |->
               CASE c = "b" -> "<0008>" [] c = "f" -> "\f" [] c = "n" -> "\n" [] c = "r" -> "\r"
                 [] c = "t" -> "\t" [] OTHER -> c]

\* The four digits at i; the character of this code; the one at i, which may be a code,
\* and whether it is below 32.
Printable == " !\"#$%&'(" \o ")" \o "*+,-./0123456789:;<=>?@ABCDEFGHIJKLMNOPQRSTUVWXYZ[\\]^_"
Printed   == Printable \o " abcdefghijklmnopqrstuvwxyz{|}~"    \* no text has the back-quote
Spaced    == [code \in {9, 10, 12, 13} |-> CASE code = 9 -> "\t" [] code = 10 -> "\n"
                                            [] code = 12 -> "\f" [] code = 13 -> "\r"]
Hex4(t, i)   == \A k \in i .. i + 3 : IsHex(Ch(t, k))
Code4(t, i)  == Concat[[k \in 1 .. 4 |-> Lower(Ch(t, i + k - 1))]]
OfBytes(high, low, code) ==
    CASE high = "00" /\ low \in (32 .. 126) \ {96} -> Ch(Printed, low - 31)
      [] high = "00" /\ low \in DOMAIN Spaced -> Spaced[low]
      [] OTHER -> "<" \o code \o ">"
OfCode(t, i) ==
    OfBytes(Cut(t, i, i + 1), 16 * HexValue(Ch(t, i + 2)) + HexValue(Ch(t, i + 3)), Code4(t, i))
CharAt(t, i)    == IF Ch(t, i) = "<" /\ Hex4(t, i + 1) /\ Ch(t, i + 5) = ">" THEN Cut(t, i, i + 5)
                   ELSE Ch(t, i)
IsControl(c)    == \/ \E code \in DOMAIN Spaced : c = Spaced[code]
                   \/ Len(c) > 1 /\ Cut(c, 2, 4) \in {"000", "001"}

-----------------------------------------------------------------------------
(* include/json.h                                                          *)

\* decode_string() finds the end of a string, 0 if there is none; s() unescapes it
\* when it is first looked at.
RECURSIVE StringEnd(_, _)
StringEnd(t, i) ==
    CASE Ch(t, i) = ""   -> 0
      [] Ch(t, i) = "\"" -> i
      [] Ch(t, i) = "\\" /\ Ch(t, i + 1) = "u" ->
           IF Hex4(t, i + 2) THEN StringEnd(t, i + 6) ELSE 0
      [] Ch(t, i) = "\\" /\ Ch(t, i + 1) # "u" ->
           IF Ch(t, i + 1) \in DOMAIN Escapes THEN StringEnd(t, i + 2) ELSE 0
      [] OTHER -> StringEnd(t, i + 1)

RECURSIVE Unescape(_)
UnescapeMutant(s) == s
Unescape(s) ==
    CASE s = "" -> ""
      [] s # "" /\ Ch(s, 1) # "\\" -> Ch(s, 1) \o Unescape(From(s, 2))
      [] Ch(s, 1) = "\\" /\ Ch(s, 2) = "u" -> OfCode(s, 3) \o Unescape(From(s, 7))
      [] OTHER -> Escapes[Ch(s, 2)] \o Unescape(From(s, 3))

StringUntil(t, i, end) == IF end = 0 THEN Fails ELSE Read(Str(Unescape(Cut(t, i, end - 1))), end + 1)
DecodeString(t, i) == IF Ch(t, i) # "\"" THEN Fails ELSE StringUntil(t, i + 1, StringEnd(t, i + 1))

\* decode_number(): the states Minus, AfterMinus, ZeroFirst, Digits, DigitsAfterPoints,
\* E and DigitsAfterE, from 0 on, and Invalid, 7; and the row of the table for a character.
NumberStates ==
    [c \in Nums \cup {".", "-", "+", "e", "E"} |->
       CASE c = "0" -> <<2, 2, 7, 3, 4, 6, 6>>
         [] c \in Nums \ {"0"} -> <<3, 3, 7, 3, 4, 6, 6>>
         [] c = "." -> <<7, 7, 4, 4, 7, 7, 7>>
         [] c = "-" -> <<1, 7, 7, 7, 7, 6, 7>>
         [] c = "+" -> <<7, 7, 7, 7, 7, 6, 7>>
         [] c \in {"e", "E"} -> <<7, 7, 7, 5, 5, 7, 7>>]
RECURSIVE NumberEnd(_, _, _)
NumberEnd(t, i, state) ==
    CASE state = 7 -> 0
      [] state # 7 /\ Ch(t, i) \in DOMAIN NumberStates ->
           NumberEnd(t, i + 1, NumberStates[Ch(t, i)][state + 1])
      [] OTHER -> IF state \in {2, 3, 4, 6} THEN i ELSE 0
DecodeNumber(t, i) == IF NumberEnd(t, i, 0) = 0 THEN Fails
                      ELSE Read(Number(Cut(t, i, NumberEnd(t, i, 0) - 1)), NumberEnd(t, i, 0))

RECURSIVE DecodeValue(_, _), DecodeItems(_, _, _), DecodeMembers(_, _, _)

\* decode_list() and decode_object() after their first bracket and white space.
ItemsBehind(t, l, v, next) ==
    CASE Failed(v) -> Fails
      [] ~Failed(v) /\ Ch(t, next) = "]" -> Read(List(Append(l, v.v)), next + 1)
      [] ~Failed(v) /\ Ch(t, next) = "," -> DecodeItems(t, Skip(t, next + 1), Append(l, v.v))
      [] OTHER -> Fails
ItemsWith(t, l, v)   == ItemsBehind(t, l, v, Skip(t, v.at))
DecodeItems(t, i, l) == ItemsWith(t, l, DecodeValue(t, i))
MembersBehind(t, o, v, next) ==
    CASE Failed(v) -> Fails
      [] ~Failed(v) /\ Ch(t, next) = "}" -> Read(Object(o), next + 1)
      [] ~Failed(v) /\ Ch(t, next) = "," -> DecodeMembers(t, Skip(t, next + 1), o)
      [] OTHER -> Fails
MembersWith(t, o, key, v) == MembersBehind(t, WithMember(o, key, v.v), v, Skip(t, v.at))
MembersAfter(t, o, key, colon) ==
    IF Failed(key) \/ Ch(t, colon) # ":" THEN Fails
    ELSE MembersWith(t, o, key.v.s, DecodeValue(t, Skip(t, colon + 1)))
MembersAt(t, o, key)   == MembersAfter(t, o, key, Skip(t, key.at))
DecodeMembers(t, i, o) == MembersAt(t, o, DecodeString(t, i))

DecodeValue(t, i) ==
    LET c == Ch(t, i)
        inside == Skip(t, i + 1)
    IN CASE c = "[" -> IF Ch(t, inside) = "]" THEN Read(List(<<>>), inside + 1)
                       ELSE DecodeItems(t, inside, <<>>)
         [] c = "{" -> IF Ch(t, inside) = "}" THEN Read(Object(<<>>), inside + 1)
                       ELSE DecodeMembers(t, inside, <<>>)
         [] c = "\"" -> DecodeString(t, i)
         [] c \in {"t", "f", "n"} -> Literal(t, i)
         [] OTHER -> DecodeNumber(t, i)

\* load()
Loaded(t, r) == IF Failed(r) \/ Ch(t, Skip(t, r.at)) # "" THEN Error ELSE r.v
Load(t)      == Loaded(t, DecodeValue(t, Skip(t, 1)))

\* escape()
RECURSIVE Escape(_)
EscapeMutant(s) == s
EscapedAs(c, letters) ==
    CASE letters # {} -> "\\" \o (CHOOSE e \in letters : TRUE)
      [] letters = {} /\ IsControl(c) -> "\\u" \o Cut(c, 2, 5)
      [] OTHER -> c
EscapeFirst(s, c) ==
    EscapedAs(c, {e \in DOMAIN Escapes \ {"/"} : Escapes[e] = c}) \o Escape(From(s, Len(c) + 1))
Escape(s) == IF s = "" THEN "" ELSE EscapeFirst(s, CharAt(s, 1))

\* What a number is that a wvalue has as a double: the digits before its point and those
\* behind it (of a number of the readers' languages, of no more digits than a double has).
RECURSIVE Zeros(_), OnlyDigits(_), Succ(_)
FirstOf(set, d) == IF set = {} THEN "0" ELSE From(d, CHOOSE i \in set : \A j \in set : i <= j)
Unzeroed(d)   == FirstOf({i \in 1 .. Len(d) : Ch(d, i) # "0"}, d)
Zeros(n)      == IF n < 1 THEN "" ELSE LET half == Zeros(n \div 2)
                                      IN half \o half \o (IF n % 2 = 1 THEN "0" ELSE "")
OnlyDigits(t) == IF t = "" THEN "" ELSE (IF Ch(t, 1) \in Nums THEN Ch(t, 1) ELSE "") \o OnlyDigits(From(t, 2))
EndOr(at, t)  == IF at = 0 THEN Len(t) + 1 ELSE at
Pointed(sign, digits, point) ==
    [sign  |-> sign,
     whole |-> Unzeroed("0" \o Cut(digits \o Zeros(point - Len(digits)), 1, point)),
     parts |-> Zeros(-point) \o From(digits, IF point < 0 THEN 1 ELSE point + 1)]
Scaled(sign, mant, power) ==
    Pointed(sign, OnlyDigits(mant), Len(OnlyDigits(Cut(mant, 1, EndOr(Find(mant, "."), mant) - 1))) + power)
Signed(sign, n) == IF sign = "-" THEN -n ELSE n
SplitAt(t, e) == Scaled(IF Ch(t, 1) = "-" THEN "-" ELSE "", Cut(t, 1, e - 1),
                        Signed(Ch(t, e + 1), ToNumber(OnlyDigits(From(t, e)))))
Decimal(t)    == SplitAt(t, EndOr(Find(Concat[[i \in 1 .. Len(t) |-> Lower(Ch(t, i))]], "e"), t))

\* Is the number of these digits at most the other one?  The next number; to_string(double).
AtMost(d, max) ==
    \/ d = max \/ Len(d) < Len(max)
    \/ /\ Len(d) = Len(max)
       /\ \E i \in 1 .. Len(d) : /\ Cut(d, 1, i - 1) = Cut(max, 1, i - 1)
                                 /\ HexValue(Ch(d, i)) < HexValue(Ch(max, i))
Succ(d) == CASE d = "" -> "1"
             [] d # "" /\ Ch(d, Len(d)) = "9" -> Succ(Cut(d, 1, Len(d) - 1)) \o "0"
             [] OTHER -> Cut(d, 1, Len(d) - 1) \o Ch(Digits, HexValue(Ch(d, Len(d))) + 2)
Rounded(kept, next) == IF next \in {"5", "6", "7", "8", "9"} THEN Succ(kept) ELSE kept
WithPoint(d)   == Cut(d, 1, Len(d) - 6) \o "." \o From(d, Len(d) - 5)
SixDecimals(n) ==
    n.sign \o WithPoint(Rounded(n.whole \o Cut(n.parts \o Zeros(6), 1, 6), Ch(n.parts, 7)))

\* A whole number of 64 bits goes through an int, and beyond an int's range that is what
\* the processor makes of it (x86: the least int); every other number has six decimals.
DumpNumber(n) ==
    CASE Chars(n.parts) \ {"0"} # {} \/ ~AtMost(n.whole, "9223372036854775807") -> SixDecimals(n)
      [] n.whole = "0" -> "0"
      [] AtMost(n.whole, "2147483647") -> n.sign \o n.whole
      [] OTHER -> "-2147483648"

\* dump(), with the members of an object in some order.
Quoted(s) == "\"" \o Escape(s) \o "\""
RECURSIVE Dump(_), DumpItems(_), DumpMembers(_, _)
DumpItems(l) == IF l = <<>> THEN ""
                ELSE Dump(Head(l)) \o (IF Len(l) > 1 THEN "," ELSE "") \o DumpItems(Tail(l))
DumpMembers(o, keys) ==
    IF keys = {} THEN ""
    ELSE LET k == CHOOSE k \in keys : TRUE
         IN Quoted(k) \o ":" \o Dump(o[k]) \o (IF keys = {k} THEN "" ELSE ",")
              \o DumpMembers(o, keys \ {k})
Dump(v) ==
    CASE v.t = "null"   -> "null"
      [] v.t = "bool"   -> IF v.b THEN "true" ELSE "false"
      [] v.t = "number" -> DumpNumber(Decimal(v.s))
      [] v.t = "string" -> Quoted(v.s)
      [] v.t = "list"   -> "[" \o DumpItems(v.l) \o "]"
      [] v.t = "object" -> "{" \o DumpMembers(v.o, DOMAIN v.o) \o "}"

-----------------------------------------------------------------------------
(* src/rapidjson/reader.h, and document.h                                  *)

\* ParseStringToStream(), from after the quote: it decodes as it goes.  A first half of a
\* pair must be followed by a second, and both become one character.
IsFirstHalf(t, i)  == Lower(Ch(t, i)) = "d" /\ Lower(Ch(t, i + 1)) \in {"8", "9", "a", "b"}
IsSecondHalf(t, i) == Lower(Ch(t, i)) = "d" /\ Lower(Ch(t, i + 1)) \in {"c", "d", "e", "f"}
RECURSIVE ParseChars(_, _, _)
ParseChars(t, i, out) ==
    LET c == CharAt(t, i)
        e == Ch(t, i + 1)
        unicode == c = "\\" /\ e = "u" /\ Hex4(t, i + 2)
        paired  == At(t, i + 6, "\\u") /\ Hex4(t, i + 8) /\ IsSecondHalf(t, i + 8)
    IN CASE c = "\"" -> Read(Str(out), i + 1)
         [] c = "\\" /\ e \in DOMAIN Escapes -> ParseChars(t, i + 2, out \o Escapes[e])
         [] unicode /\ ~IsFirstHalf(t, i + 2) -> ParseChars(t, i + 6, out \o OfCode(t, i + 2))
         [] unicode /\ IsFirstHalf(t, i + 2) /\ paired ->
              ParseChars(t, i + 12, out \o "<" \o Code4(t, i + 2) \o Code4(t, i + 8) \o ">")
         [] c \notin {"\"", "\\", ""} /\ ~IsControl(c) -> ParseChars(t, i + Len(c), out \o c)
         [] OTHER -> Fails
ParseString(t, i) == ParseChars(t, i + 1, "")

\* ParseNumber(): its parts one after the other, each 0 where it fails.
RECURSIVE DigitsEnd(_, _)
DigitsEnd(t, i) == IF Ch(t, i) \in Nums THEN DigitsEnd(t, i + 1) ELSE i
Some(t, i)      == IF Ch(t, i) \in Nums THEN DigitsEnd(t, i) ELSE 0
WholePart(t, i) == LET j == IF Ch(t, i) = "-" THEN i + 1 ELSE i
                   IN IF Ch(t, j) = "0" THEN j + 1 ELSE Some(t, j)
Fraction(t, i)  == IF Ch(t, i) = "." THEN Some(t, i + 1) ELSE i
Exponent(t, i)  == IF i # 0 /\ Ch(t, i) \in {"e", "E"}
                     THEN Some(t, IF Ch(t, i + 1) \in {"+", "-"} THEN i + 2 ELSE i + 1)
                   ELSE i
\* Is the number too big for a double?  Asked of a positive exponent of several digits.
TooBig(t, frac, end, decimals) ==
    /\ Ch(t, frac) \in {"e", "E"} /\ Ch(t, frac + 1) # "-"
    /\ Len(OnlyDigits(Cut(t, frac + 1, end - 1))) > 1
    /\ ToNumber(OnlyDigits(Cut(t, frac + 1, end - 1))) > 308 + decimals
ParseNumber(t, i) ==
    LET whole == WholePart(t, i)
        frac  == IF whole = 0 THEN 0 ELSE Fraction(t, whole)
        end   == IF whole = 0 THEN 0 ELSE Exponent(t, frac)
        decimals == IF frac = whole THEN 0 ELSE frac - whole - 1
    IN IF end = 0 \/ (end # 0 /\ TooBig(t, frac, end, decimals)) THEN Fails ELSE Read(Number(Cut(t, i, end - 1)), end)

\* The handler of the reader is the document (document.h), which keeps what has been read
\* on a stack: an object or an array is there, empty, below the names and values that
\* belong to it, until the reader knows how many they are.  An object of document.h is the
\* sequence of its members.
Members(m)    == [t |-> "members", m |-> m]
StartObject   == Members(<<>>)
StartArray    == List(<<>>)
Pop(st, n)    == SubSeq(st, 1, Len(st) - n)
Popped(st, n) == SubSeq(st, Len(st) - n + 1, Len(st))
SetTop(st, v) == [st EXCEPT ![Len(st)] = v]
Pairs(s)      == [k \in 1 .. Len(s) \div 2 |-> [name |-> s[2 * k - 1].s, value |-> s[2 * k]]]
SetArrayRaw(st, elements) == SetTop(st, List(elements))
SetObjectRaw(st, pairs)   == SetTop(st, Members(pairs))
EndArray(st, n)  == SetArrayRaw(Pop(st, n), Popped(st, n))
EndObject(st, n) == SetObjectRaw(Pop(st, 2 * n), Pairs(Popped(st, 2 * n)))

\* What a function of the reader leaves: the stack, and where it stands; 0 on an error.
Parsed(st, at) == [st |-> st, at |-> at]
Stops          == Parsed(<<>>, 0)
\* Null(), Bool(), the numbers, String() and Key(): the value is pushed.
Pushed(st, r)  == IF Failed(r) THEN Stops ELSE Parsed(Append(st, r.v), r.at)

RECURSIVE ParseValue(_, _, _), ParseElements(_, _, _, _), ParseMembers(_, _, _, _)
ElementsBehind(t, r, n, next) ==
    CASE r.at = 0 -> Stops
      [] r.at # 0 /\ Ch(t, next) = "," -> ParseElements(t, Skip(t, next + 1), r.st, n)
      [] r.at # 0 /\ Ch(t, next) = "]" -> Parsed(EndArray(r.st, n), next + 1)
      [] OTHER -> Stops
ElementsWith(t, r, n)     == ElementsBehind(t, r, n, Skip(t, r.at))
ParseElements(t, i, st, n) == ElementsWith(t, ParseValue(t, i, st), n + 1)
MembersParsed(t, r, n, next) ==
    CASE r.at = 0 -> Stops
      [] r.at # 0 /\ Ch(t, next) = "," -> ParseMembers(t, Skip(t, next + 1), r.st, n)
      [] r.at # 0 /\ Ch(t, next) = "}" -> Parsed(EndObject(r.st, n), next + 1)
      [] OTHER -> Stops
ValueParsed(t, r, n) == MembersParsed(t, r, n, Skip(t, r.at))
KeyBehind(t, r, n, colon) ==
    IF r.at = 0 \/ Ch(t, colon) # ":" THEN Stops
    ELSE ValueParsed(t, ParseValue(t, Skip(t, colon + 1), r.st), n + 1)
KeyParsed(t, r, n) == KeyBehind(t, r, n, Skip(t, r.at))
ParseMembers(t, i, st, n) ==
    IF Ch(t, i) # "\"" THEN Stops ELSE KeyParsed(t, Pushed(st, ParseString(t, i)), n)
ParseArray(t, inside, st) ==
    IF Ch(t, inside) = "]" THEN Parsed(EndArray(st, 0), inside + 1) ELSE ParseElements(t, inside, st, 0)
ParseObject(t, inside, st) ==
    IF Ch(t, inside) = "}" THEN Parsed(EndObject(st, 0), inside + 1) ELSE ParseMembers(t, inside, st, 0)
ParseValue(t, i, st) ==
    CASE Ch(t, i) \in {"n", "t", "f"} -> Pushed(st, Literal(t, i))
      [] Ch(t, i) = "\"" -> Pushed(st, ParseString(t, i))
      [] Ch(t, i) = "{" -> ParseObject(t, Skip(t, i + 1), Append(st, StartObject))
      [] Ch(t, i) = "[" -> ParseArray(t, Skip(t, i + 1), Append(st, StartArray))
      [] OTHER -> Pushed(st, ParseNumber(t, i))

\* ParseStream(): the root is what the stack has when everything has been read.
Rooted(t, r) == IF r.at = 0 \/ Ch(t, Skip(t, r.at)) # "" THEN Error ELSE r.st[1]
Document(t)  == Rooted(t, ParseValue(t, Skip(t, 1), <<>>))

\* FindMember(): the first of that name, 0 for MemberEnd(); operator[] refers to its value.
StringEqual(name, other) == Len(name) = Len(other) /\ name = other
FindMember(o, name) ==
    IF \E k \in DOMAIN o.m : StringEqual(o.m[k].name, name)
      THEN CHOOSE k \in DOMAIN o.m : /\ StringEqual(o.m[k].name, name)
                                    /\ \A j \in 1 .. k - 1 : ~StringEqual(o.m[j].name, name)
      ELSE 0
ValueOf(o, name) == IF FindMember(o, name) = 0 THEN Null ELSE o.m[FindMember(o, name)].value

\* What lookups find in a document, as a value of the other reader.
RECURSIVE Found(_)
Found(v) ==
    CASE v.t = "members" -> Object([name \in {v.m[k].name : k \in DOMAIN v.m} |-> Found(ValueOf(v, name))])
      [] v.t = "list"    -> List([k \in DOMAIN v.l |-> Found(v.l[k])])
      [] OTHER           -> v
Parse(t) == Found(Document(t))
=============================================================================
