-------------------------------- MODULE Text ---------------------------------
(***************************************************************************)
(* Texts as the strings of TLA+: what the modules of parsers share.  The   *)
(* parsers of this program read one character after the other, and what    *)
(* can go wrong in them depends on characters.                             *)
(***************************************************************************)
EXTENDS Integers, Sequences, FiniteSets

\* The i-th character, "" past the end; from i to j; from i on.
Ch(t, i)      == IF i \in 1 .. Len(t) THEN SubSeq(t, i, i) ELSE ""
Cut(t, i, j)  == IF i > j THEN "" ELSE SubSeq(t, i, j)
From(t, i)    == Cut(t, i, Len(t))
Chars(t)      == {Ch(t, i) : i \in 1 .. Len(t)}

\* Does part stand in t at i?  The first such i, not before k, or 0.
At(t, i, part)        == i + Len(part) - 1 <= Len(t) /\ Cut(t, i, i + Len(part) - 1) = part
FindFrom(t, k, part)  ==
    LET found == {i \in k .. Len(t) : At(t, i, part)}
    IN IF found = {} THEN 0 ELSE CHOOSE i \in found : \A j \in found : i <= j
Find(t, part)         == FindFrom(t, 1, part)
StartsWith(t, part)   == At(t, 1, part)

UPPER   == "ABCDEFGHIJKLMNOPQRSTUVWXYZ"
LOWER   == "abcdefghijklmnopqrstuvwxyz"
Digits  == "0123456789"
HexDigits == "0123456789abcdef"
Upper   == Chars(UPPER)
Alphas  == Upper \cup Chars(LOWER)
Nums    == Chars(Digits)

Lower1  == [c \in Upper |-> Ch(LOWER, Find(UPPER, c))]
Lower(c) == IF c \in Upper THEN Lower1[c] ELSE c

Value1  == [c \in Chars(HexDigits) |-> Find(HexDigits, c) - 1]
IsHex(c)    == Lower(c) \in Chars(HexDigits)
HexValue(c) == Value1[Lower(c)]

\* A sequence of texts put together; a number written down, and read.
Concat[s \in Seq(STRING)] == IF s = <<>> THEN "" ELSE Head(s) \o Concat[Tail(s)]
ToText(n) ==
    LET digits[k \in Nat] == IF k < 10 THEN Ch(Digits, k + 1)
                             ELSE digits[k \div 10] \o Ch(Digits, (k % 10) + 1)
    IN IF n < 0 THEN "-" \o digits[-n] ELSE digits[n]
ToNumber(t) ==
    LET read[k \in 0 .. Len(t)] == IF k = 0 THEN 0 ELSE 10 * read[k - 1] + HexValue(Ch(t, k))
    IN read[Len(t)]
=============================================================================
