---------------------------- MODULE RedisReader ------------------------------
(***************************************************************************)
(* The reader of Redis replies (src/redis3m/hiredis/read.c), and the bytes *)
(* of commands and replies (hiredis.c).                                    *)
(*                                                                         *)
(* The reader is fed what a read of the socket returned and tried again    *)
(* after each: it keeps a stack of what it is inside of and goes on where  *)
(* it stopped.  A reply is built object by object in the places its tasks  *)
(* name; it is here the sequence of these objects, each with its place.    *)
(*                                                                         *)
(* What is sent and read are sequences of symbols: bytes, and numbers,     *)
(* whose decimal digits are one symbol.  A digit is never the end of a     *)
(* line, so that where a number is cut makes no difference to the reader.  *)
(***************************************************************************)
EXTENDS Integers, Sequences

CONSTANTS
    Depth,      \* the size of the task stack without its root (8)
    Consumed    \* the number of read bytes that are cut from the buffer (1024)

ASSUME ReaderAssumption == Depth \in Nat \ {0} /\ Consumed \in Nat

Byte == 0 .. 255
Written(n) == <<257 + n>>       \* a number from -1 on, written down

CR == 13
LF == 10
NewLine == <<CR, LF>>
Plus   == 43
Minus  == 45
Colon  == 58
Dollar == 36
Star   == 42
TypeOf  == [c \in {Minus, Plus, Colon, Dollar, Star} |->
               CASE c = Minus -> "error" [] c = Plus -> "status" [] c = Colon -> "integer"
                 [] c = Dollar -> "string" [] c = Star -> "array"]

\* What is behind the first n symbols; and does a sequence begin with another?
Drop(s, n)        == SubSeq(s, n + 1, Len(s))
BeginsWith(s, part) == Len(part) <= Len(s) /\ SubSeq(s, 1, Len(part)) = part

\* A task: the type of the item, or "none" if it is not read yet; the number of its
\* elements; and its place in the array it is in.
Task(idx) == [type |-> "none", elements |-> -1, idx |-> idx]

\* redisReaderCreate(): ridx, of -1, is the length of the stack less one, and pos the
\* number of bytes of buf that are read.
NewReader == [buf |-> <<>>, pos |-> 0, stack |-> <<>>, objects |-> <<>>, err |-> FALSE]

\* redisReaderFeed().
Feed(r, text) == IF r.err THEN r ELSE [r EXCEPT !.buf = @ \o text]

SetError(r) == [r EXCEPT !.buf = <<>>, !.pos = 0, !.stack = <<>>, !.objects = <<>>, !.err = TRUE]

Top(r)    == r.stack[Len(r.stack)]
Place(r)  == [k \in 1 .. Len(r.stack) - 1 |-> r.stack[k + 1].idx]
SetTop(r, task) == [r EXCEPT !.stack[Len(r.stack)] = task]

\* readLongLong() of a line: -1 for anything else than a number.
LongLong(line) == IF Len(line) = 1 /\ line[1] \notin Byte THEN line[1] - 257 ELSE -1

\* Where the next line ends, 0 if it has not arrived as a whole; and the line.
LineEnd(r) ==
    LET ends == {i \in r.pos + 1 .. Len(r.buf) - 1 : r.buf[i] = CR /\ r.buf[i + 1] = LF}
    IN IF ends = {} THEN 0 ELSE CHOOSE i \in ends : \A j \in ends : i <= j
Line(r)    == SubSeq(r.buf, r.pos + 1, LineEnd(r) - 1)

\* moveToNextTask(): the next element of the innermost array that has one left.
WithNext(r) == {m \in 2 .. Len(r.stack) : r.stack[m].idx # r.stack[m - 1].elements - 1}
NextTask(r) ==
    IF WithNext(r) = {} THEN [r EXCEPT !.stack = <<>>]
    ELSE LET m == CHOOSE m \in WithNext(r) : \A k \in WithNext(r) : k <= m
         IN [r EXCEPT !.stack = Append(SubSeq(@, 1, m - 1), Task(@[m].idx + 1))]

\* An object is created and put in its place, the bytes up to pos being read.
Create(r, type, value, pos) ==
    [r EXCEPT !.objects = Append(@, [place |-> Place(r), type |-> type, value |-> value]),
              !.pos = pos]

\* The ways to go on with a task: <<>> if more must arrive first.

LineItem(r) ==
    IF LineEnd(r) = 0 THEN <<>>
    ELSE <<NextTask(Create(r, Top(r).type,
               IF Top(r).type = "integer" THEN Written(LongLong(Line(r))) ELSE Line(r),
               LineEnd(r) + 1))>>

\* The last byte of a text of some length, after its line; the mutant forgets the
\* line end after it.
BulkEndMutant(r, len) == LineEnd(r) + 1 + len
BulkEnd(r, len)       == LineEnd(r) + 1 + len + 2

BulkItem(r) ==
    LET len == LongLong(Line(r))
        end == BulkEnd(r, len)
    IN IF LineEnd(r) = 0 \/ (len >= 0 /\ end > Len(r.buf)) THEN <<>>
       ELSE IF len < 0 THEN <<NextTask(Create(r, "nil", <<>>, LineEnd(r) + 1))>>
       ELSE <<NextTask(Create(r, "string", SubSeq(r.buf, LineEnd(r) + 2, LineEnd(r) + 1 + len), end))>>

MultiBulkItem(r) ==
    LET n == LongLong(Line(r))
        array == Create(r, "array", Written(n), LineEnd(r) + 1)
        inside == [SetTop(array, [Top(r) EXCEPT !.elements = n]) EXCEPT !.stack = Append(@, Task(0))]
    IN IF Len(r.stack) > Depth THEN <<SetError(r)>>
       ELSE IF LineEnd(r) = 0 THEN <<>>
       ELSE IF n = -1 THEN <<NextTask(Create(r, "nil", <<>>, LineEnd(r) + 1))>>
       ELSE <<IF n > 0 THEN inside ELSE NextTask(array)>>

TypedItem(r) ==
    CASE Top(r).type \in {"error", "status", "integer"} -> LineItem(r)
      [] Top(r).type = "string" -> BulkItem(r)
      [] Top(r).type = "array"  -> MultiBulkItem(r)

\* processItem(): the type is read once, before the rest of the item has to be there.
ReadType(r) ==
    LET c == r.buf[r.pos + 1]
    IN IF Top(r).type # "none" THEN r
       ELSE IF c \in DOMAIN TypeOf
         THEN [SetTop(r, [Top(r) EXCEPT !.type = TypeOf[c]]) EXCEPT !.pos = @ + 1]
       ELSE SetError(r)

\* A round of the loop of redisReaderGetReply(), which changes nothing after the last.
ItemIn(typed)  == IF typed.err THEN <<>> ELSE TypedItem(typed)
Waits(r)       == r.stack = <<>> \/ (Top(r).type = "none" /\ r.pos = Len(r.buf))
processItem(r) ==
    IF Waits(r) THEN r
    ELSE LET typed == ReadType(r) IN IF ItemIn(typed) = <<>> THEN typed ELSE ItemIn(typed)[1]

\* Every round but the last reads a byte at least.
ProcessItems(r) ==
    LET after[n \in Nat] == IF n = 0 THEN r ELSE processItem(after[n - 1])
    IN after[Len(r.buf) + 1]

\* redisReaderGetReply(): the reader after it, and the reply if there is one.
Processed(done) ==
    LET cut == IF done.pos >= Consumed
                 THEN [done EXCEPT !.buf = Drop(@, done.pos), !.pos = 0] ELSE done
    IN IF done.err THEN [reader |-> done, reply |-> <<>>]
       ELSE IF done.stack # <<>> THEN [reader |-> cut, reply |-> <<>>]
       ELSE [reader |-> [cut EXCEPT !.objects = <<>>], reply |-> <<done.objects>>]
Begun(r) == IF r.stack = <<>> THEN [r EXCEPT !.stack = <<Task(-1)>>] ELSE r
GetReply(r) ==
    IF r.err \/ r.buf = <<>> THEN [reader |-> r, reply |-> <<>>]
    ELSE Processed(ProcessItems(Begun(r)))

-----------------------------------------------------------------------------
(* redisFormatSdsCommandArgv(): a command is a sequence of arguments.      *)

BulkOf(text) == <<Dollar>> \o Written(Len(text)) \o NewLine \o text \o NewLine
Format(args) ==
    LET after[k \in 0 .. Len(args)] ==
            IF k = 0 THEN <<Star>> \o Written(Len(args)) \o NewLine
            ELSE after[k - 1] \o BulkOf(args[k])
    IN after[Len(args)]
=============================================================================
