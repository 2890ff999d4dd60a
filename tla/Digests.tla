------------------------------ MODULE Digests --------------------------------
(***************************************************************************)
(* The digests of src/src/oauth: SHA-1 and HMAC-SHA1 (sha1.cpp), which     *)
(* hash user ids and sign the requests to Twitter, and MD5 (md5.cpp), for  *)
(* avatars.  What can go wrong in them is the bookkeeping around the       *)
(* transformation of a block: the buffer that is filled in pieces, the     *)
(* padding, the count of bits in two words.                                *)
(*                                                                         *)
(* The transformation itself is not computed: a digest is the sequence of  *)
(* the blocks that were transformed.  A byte is a tuple, of a text for the *)
(* bytes of messages and padding.                                          *)
(***************************************************************************)
EXTENDS Integers, Sequences, Text

CONSTANTS
    Word,           \* words count to Word - 1; 2^32 in the program
    HMAC_BUF_LEN    \* the buffer of HMAC-SHA1; 4096 in the program
ASSUME WordAssumption == Word \in Nat /\ Word > 0 /\ Word % 8 = 0
ASSUME HmacAssumption == HMAC_BUF_LEN \in Nat /\ HMAC_BUF_LEN >= 64

Number(n) == <<ToText(n)>>
Bytes(t)  == [k \in 1 .. Len(t) |-> <<Ch(t, k)>>]
Zeros(n)  == [k \in 1 .. n |-> Number(0)]

\* Memory that nobody has written, and an object that is to hash a message.
Junk     == <<"junk">>
Reset(h) == [h EXCEPT !.count = <<0, 0>>, !.chain = <<>>]
NewHash  == [count |-> <<0, 0>>, chain |-> <<>>, buffer |-> [k \in 0 .. 63 |-> Junk]]

Transform(h, block) == [h EXCEPT !.chain = Append(@, block)]

\* How many bytes the buffer holds.
Index(h) == (h.count[1] \div 8) % 64

\* The low word wraps around into the high one.
Counted(count, bits, sum, len) ==
    <<sum, (count[2] + (IF sum < bits THEN 1 ELSE 0) + (len \div (Word \div 8))) % Word>>
Count(count, len) ==
    LET bits == (8 * len) % Word
    IN Counted(count, bits, (count[1] + bits) % Word, len)

\* memcpy() of the bytes of data behind the first i to the buffer at j.
Copied(h, j, data, i) ==
    [h EXCEPT !.buffer = [k \in 0 .. 63 |-> IF k \in j .. (j + Len(data) - i - 1)
                                              THEN data[i + k - j + 1] ELSE @[k]]]

\* The buffer is transformed, then whole blocks of data behind the first i bytes.
BufferBlock(h) == Transform(h, [k \in 1 .. 64 |-> h.buffer[k - 1]])
WholeBlocks(h, data, i) ==
    [h EXCEPT !.chain = @ \o [b \in 1 .. (Len(data) - i) \div 64 |->
                                SubSeq(data, i + 64 * (b - 1) + 1, i + 64 * b)]]
Blocks(h, data, i, over) ==
    Copied(WholeBlocks(BufferBlock(Copied(h, 64 - i, SubSeq(data, 1, i), 0)), data, i),
           0, data, over)
Buffered(h, data, j) ==
    IF j + Len(data) <= 63 THEN Copied(h, j, data, 0)
    ELSE Blocks(h, data, 64 - j, Len(data) - ((j + Len(data)) % 64))
Update(h, data) == Buffered([h EXCEPT !.count = Count(@, Len(data))], data, Index(h))

\* The bytes of the count, the highest first, or the lowest.
ByteOf(word, k) == Number((word \div 256 ^ k) % 256)
CountBytes(count) ==
    [i \in 1 .. 8 |-> ByteOf(count[IF i > 4 THEN 1 ELSE 2], 3 - ((i - 1) % 4))]
CountEncoded(count) ==
    [i \in 1 .. 8 |-> ByteOf(count[IF i > 4 THEN 2 ELSE 1], (i - 1) % 4)]

RECURSIVE PadTo56(_)
PadTo56(h) == IF Index(h) = 56 THEN h ELSE PadTo56(Update(h, Zeros(1)))
Sha1Final(h) == Update(PadTo56(Update(h, <<Number(128)>>)), CountBytes(h.count))

\* A padding that leaves no room for its first byte.
PadLenMutant(index) == IF index <= 56 THEN 56 - index ELSE 120 - index
PadLen(index) == IF index < 56 THEN 56 - index ELSE 120 - index
Padding(n)    == SubSeq(<<Number(128)>> \o Zeros(63), 1, n)
Md5Final(h)   == Update(Update(h, Padding(PadLen(Index(h)))), CountEncoded(h.count))

\* The digest of an object as bytes, of which nothing is known but what they are of.
GetHash(h) == [k \in 1 .. 20 |-> <<h.chain, ToText(k)>>]

Sha1(h, data) == Sha1Final(Update(Reset(h), data))
Md5(data)     == Md5Final(Update(NewHash, data))

\* HMAC_SHA1(): one object hashes a long key, then the inner and the outer message.
\* Final() wipes its buffer.
Wiped(h)       == [h EXCEPT !.buffer = [k \in 0 .. 63 |-> Number(0)]]
Xored(key, by) == [k \in 1 .. 64 |-> IF k <= Len(key) THEN <<key[k], by>> ELSE <<Number(0), by>>]
Outer(h, key)  == Sha1(Wiped(h), Xored(key, "5c") \o GetHash(h))
Inner(h, key, text) == Outer(Sha1(h, Xored(key, "36") \o text), key)
KeyHashed(h, text)  == Inner(Wiped(h), GetHash(h), text)
\* The inner message is put together in a buffer of fixed size, and one that is longer is
\* copied past its end: what is digested then, and whether the program lives, is undefined.
HasRoom(text)   == 64 + Len(text) <= HMAC_BUF_LEN
Undefined       == [chain |-> <<>>]
Hmac(text, key) == CASE ~HasRoom(text) -> Undefined
                     [] HasRoom(text) /\ Len(key) > 64 -> KeyHashed(Sha1(NewHash, key), text)
                     [] OTHER -> Inner(NewHash, key, text)

\* base64_encode(), of numbers: three make four, and one or two that are left as many
\* as they need.
Base64Chars == UPPER \o LOWER \o Digits \o "+/"
Quad(a, b, c) == <<a \div 4, 16 * (a % 4) + (b \div 16), 4 * (b % 16) + (c \div 64), c % 64>>
QuadText(quad, n) == Concat[[k \in 1 .. n |-> Ch(Base64Chars, quad[k] + 1)]]
Base64(bytes) ==
    LET b(i)   == IF i \in DOMAIN bytes THEN bytes[i] ELSE 0
        whole  == Len(bytes) \div 3
        left   == Len(bytes) % 3
        quad(g) == Quad(b(3 * g + 1), b(3 * g + 2), b(3 * g + 3))
    IN Concat[[g \in 1 .. whole |-> QuadText(quad(g - 1), 4)]]
       \o (IF left = 0 THEN "" ELSE QuadText(quad(whole), left + 1) \o Cut("==", 1, 3 - left))

-----------------------------------------------------------------------------
(* What the digests are of: the whole message, a byte, as many zeros as    *)
(* make the blocks come out even, and the count of bits.                   *)

Cuts64(s)      == [b \in 1 .. Len(s) \div 64 |-> SubSeq(s, 64 * (b - 1) + 1, 64 * b)]
Bits(data)     == <<(8 * Len(data)) % Word, (8 * Len(data)) \div Word>>
Padded(data, end) ==
    Cuts64(data \o <<Number(128)>> \o Zeros((119 - (Len(data) % 64)) % 64) \o end)
Sha1Of(data)   == Padded(data, CountBytes(Bits(data)))
Md5Of(data)    == Padded(data, CountEncoded(Bits(data)))
HashBytes(chain) == [k \in 1 .. 20 |-> <<chain, ToText(k)>>]
KeyOf(key)     == IF Len(key) > 64 THEN HashBytes(Sha1Of(key)) ELSE key
HmacOf(text, key) ==
    Sha1Of(Xored(KeyOf(key), "5c") \o HashBytes(Sha1Of(Xored(KeyOf(key), "36") \o text)))
\* The bits of bytes, six for each character.
BitOf(bytes, j) == IF j >= 8 * Len(bytes) THEN 0
                   ELSE (bytes[(j \div 8) + 1] \div 2 ^ (7 - (j % 8))) % 2
Sextet(bytes, m) ==
    LET upto[k \in 0 .. 6] == IF k = 0 THEN 0 ELSE 2 * upto[k - 1] + BitOf(bytes, 6 * m + k - 1)
    IN upto[6]
Base64Of(bytes) ==
    LET chars == (8 * Len(bytes) + 5) \div 6
    IN Concat[[m \in 1 .. chars |-> Ch(Base64Chars, Sextet(bytes, m - 1) + 1)]]
       \o Cut("===", 1, (4 - (chars % 4)) % 4)
=============================================================================
