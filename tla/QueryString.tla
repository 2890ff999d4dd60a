----------------------------- MODULE QueryString -----------------------------
(***************************************************************************)
(* The parameters of a url (include/query_string.h).                       *)
(*                                                                         *)
(* qs_parse() marks in a copy of the url where each pair starts and then   *)
(* decodes the values where they stand, ending each with a NUL.  A pair is *)
(* here the text from its mark to that NUL: the key as it was sent, "=",   *)
(* and the decoded value.  A character that %-escapes stand for is one of  *)
(* the printable ones.                                                     *)
(***************************************************************************)
EXTENDS Text

CONSTANT MaxPairs   \* MAX_KEY_VALUE_PAIRS_COUNT

\* The printable characters of the code, from the one with number 32; a quote stands
\* for the back-quote too.
Ascii == " !\"#$%&'(" \o ")" \o "*+,-./0123456789:;<=>?@ABCDEFGHIJKLMNOPQRSTUVWXYZ[\\]^_'abcdefghijklmnopqrstuvwxyz{|}~"

\* The character two digits stand for; "" if they are not digits.
Unhex(a, b) == IF ~IsHex(a) \/ ~IsHex(b) THEN "" ELSE Ch(Ascii, 16 * HexValue(a) + HexValue(b) - 31)

\* strcspn(): up to the first of some characters.
Span(t, stops) == IF \E i \in 1 .. Len(t) : Ch(t, i) \in stops
                    THEN (CHOOSE i \in 1 .. Len(t) : Ch(t, i) \in stops
                              /\ \A j \in 1 .. i - 1 : Ch(t, j) \notin stops) - 1
                    ELSE Len(t)
UpTo(t, stops) == Cut(t, 1, Span(t, stops))

\* A text, decoded up to the first "=", "#" or "&", or to a % without two digits.
RECURSIVE Decoded(_)
QsDecodeMutant(t) == UpTo(t, {"=", "#", "&"})
QsDecode(t)       == Decoded(UpTo(t, {"=", "#", "&"}))
Decoded(t) ==
    CASE t = "" -> ""
      [] Ch(t, 1) = "%" -> LET c == Unhex(Ch(t, 2), Ch(t, 3))
                           IN IF c = "" THEN "" ELSE c \o Decoded(From(t, 4))
      [] OTHER -> (IF Ch(t, 1) = "+" THEN " " ELSE Ch(t, 1)) \o Decoded(From(t, 2))

\* Where the pairs start: after the first "?" or "#" and after each "&".
Starts(url) ==
    LET from == Span(url, {"?", "#"}) + 2
    IN IF from > Len(url) + 1 THEN {}
       ELSE {from} \cup {i + 1 : i \in {k \in from .. Len(url) : Ch(url, k) = "&"}}

\* One pair: a key without value ends at the "&"; else what follows the first of
\* "=" and "#" is decoded.
Pair(text) ==
    LET k == Span(text, {"=", "&", "#"})
    IN IF Ch(text, k + 1) \in {"", "&"} THEN Cut(text, 1, k)
       ELSE Cut(text, 1, k + 1) \o QsDecode(From(text, k + 2))

\* qs_parse().  The loop that marks the pairs counts one too many when it stops for
\* want of room; urls have less than MaxPairs pairs here.
Pairs(url) ==
    LET starts == Starts(url)
        nth(n) == CHOOSE s \in starts : Cardinality({r \in starts : r <= s}) = n
    IN [n \in 1 .. Cardinality(starts) |-> Pair(From(url, nth(n)))]

\* qs_strncmp() of a name, without escapes, and the key of a pair.
SameKey(name, pair) == Decoded(UpTo(pair, {"=", "#", "&"})) = name

\* get(): the value of the first pair with the name, <<>> for a null pointer.
GetParam(pairs, name) ==
    LET with == SelectSeq(pairs, LAMBDA pair : SameKey(name, pair))
    IN IF with = <<>> THEN <<>> ELSE <<From(with[1], Span(with[1], {"="}) + 2)>>
=============================================================================
